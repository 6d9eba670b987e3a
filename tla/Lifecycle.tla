------------------------------ MODULE Lifecycle ------------------------------
(***************************************************************************)
(* The lifecycle of one delegated package (lifecycle_contract.py): the     *)
(* events a replay may append to it, one action each.                      *)
(*                                                                         *)
(* Abstraction.  An effort is its index in EFFORTS; package_id and the     *)
(* history of event kinds are left out.  A boolean an event must carry to  *)
(* be legal is a guard that is not written: only events that carry it get  *)
(* through, and every other event leaves the replay failed.                *)
(*                                                                         *)
(* checked, worker, runs and partitions are history variables: whether the *)
(* authoritative checks passed on the candidate as it stands, the thread   *)
(* that works on the package or did last, and how often a worker was       *)
(* started and the package planned.  A worker that hands off names its own *)
(* thread as the continuation, or none, which is assumed of the events of   *)
(* the replayed document.                                                   *)
(***************************************************************************)
EXTENDS Naturals

CONSTANTS
  Efforts,         (* Len(EFFORTS)                                       *)
  Refs,            (* threads of workers, what a continuation_ref names  *)
  NoRef,           (* Python's None                                      *)
  MaxGenerations,  (* bound of the model on candidate generations        *)
  MaxPartitions    (* bound of the model on repartitions                 *)

ASSUME LifecycleAssumption ==
  /\ Efforts \in Nat \ {0}
  /\ NoRef \notin Refs
  /\ MaxGenerations \in Nat /\ MaxPartitions \in Nat

VARIABLES
  status, effort, candidate_generation, evidence_generation,
  focused_repairs_used, effort_escalations_used, continuation_ref,
  initial_effort,                      (* of the replayed document        *)
  checked, worker, runs, partitions    (* history                         *)

vars == <<status, effort, candidate_generation, evidence_generation,
          focused_repairs_used, effort_escalations_used, continuation_ref,
          initial_effort, checked, worker, runs, partitions>>

budgets    == <<focused_repairs_used, effort_escalations_used>>
candidate  == <<candidate_generation, evidence_generation, checked>>
thread     == <<continuation_ref, worker>>

TERMINAL == {"ACCEPTED", "FAILED", "BLOCKED", "CANCELLED", "SOL_RECLAIMED"}
Statuses == TERMINAL \cup {"PLANNED", "RUNNING", "AWAITING_REVIEW", "NEEDS_ACTION"}

\* evidence_generation is None, here 0, or a generation; the first one is 1.
NoEvidence == 0

Init ==
  /\ status = "PLANNED"
  /\ effort \in 1..Efforts
  /\ initial_effort = effort
  /\ candidate_generation = 0
  /\ evidence_generation = NoEvidence
  /\ focused_repairs_used = 0
  /\ effort_escalations_used = 0
  /\ continuation_ref = NoRef
  /\ checked = "stale"
  /\ worker = NoRef
  /\ runs = 0
  /\ partitions = 0

\* A worker is started, or goes on, and may write again.
Run(ref) ==
  /\ status' = "RUNNING"
  /\ worker' = ref
  /\ runs' = runs + 1
  /\ checked' = "stale"

-----------------------------------------------------------------------------
Dispatch(ref) ==
  /\ status = "PLANNED"
  /\ Run(ref)
  /\ UNCHANGED <<effort, candidate_generation, evidence_generation, budgets,
                 continuation_ref, initial_effort, partitions>>

\* What the handoff's optional continuation_ref leaves on record.
NextRef_Mutant(ref) == IF ref = NoRef THEN continuation_ref ELSE ref

NextRef(ref) == ref

Handoff(passed, ref) ==
  /\ status = "RUNNING"
  /\ candidate_generation < MaxGenerations
  /\ status' = "AWAITING_REVIEW"
  /\ candidate_generation' = candidate_generation + 1
  /\ evidence_generation' = IF passed THEN candidate_generation' ELSE NoEvidence
  /\ continuation_ref' = NextRef(ref)
  /\ checked' = IF passed THEN "current" ELSE "stale"
  /\ UNCHANGED <<effort, budgets, initial_effort, worker, runs, partitions>>

CandidateChanged ==
  /\ status \in {"AWAITING_REVIEW", "NEEDS_ACTION"}
  /\ candidate_generation < MaxGenerations
  /\ candidate_generation' = candidate_generation + 1
  /\ evidence_generation' = NoEvidence
  /\ status' = "AWAITING_REVIEW"
  /\ checked' = "stale"
  /\ UNCHANGED <<effort, budgets, thread, initial_effort, runs, partitions>>

\* The event stands for checks that ran, and passed, on this generation.
RefreshEvidence ==
  /\ status = "AWAITING_REVIEW"
  /\ evidence_generation' = candidate_generation
  /\ checked' = "current"
  /\ UNCHANGED <<status, effort, candidate_generation, budgets, thread,
                 initial_effort, runs, partitions>>

Fresh_Mutant == TRUE

Fresh == evidence_generation = candidate_generation

ReviewPass ==
  /\ status = "AWAITING_REVIEW"
  /\ Fresh
  /\ status' = "ACCEPTED"
  /\ UNCHANGED <<effort, candidate, budgets, thread, initial_effort, runs,
                 partitions>>

ReviewFail ==
  /\ status = "AWAITING_REVIEW"
  /\ status' = "NEEDS_ACTION"
  /\ UNCHANGED <<effort, candidate, budgets, thread, initial_effort, runs,
                 partitions>>

-----------------------------------------------------------------------------
MayRepair_Mutant == status = "NEEDS_ACTION" /\ focused_repairs_used <= 1

MayRepair == status = "NEEDS_ACTION" /\ focused_repairs_used < 1

Repair(ref) ==
  /\ focused_repairs_used' = focused_repairs_used + 1
  /\ Run(ref)
  /\ evidence_generation' = NoEvidence
  /\ UNCHANGED <<effort, candidate_generation, effort_escalations_used,
                 continuation_ref, initial_effort, partitions>>

FocusedRepair(ref) == MayRepair /\ Repair(ref)

\* The retained thread goes on.
ContinueRepair == MayRepair /\ continuation_ref # NoRef /\ Repair(continuation_ref)

\* Repartitioning drops the thread and keeps what the package has spent.
Carried_Mutant(used) == 0

Carried(used) == used

Repartition ==
  /\ status = "NEEDS_ACTION"
  /\ partitions < MaxPartitions
  /\ status' = "PLANNED"
  /\ continuation_ref' = NoRef
  /\ focused_repairs_used' = Carried(focused_repairs_used)
  /\ effort_escalations_used' = Carried(effort_escalations_used)
  /\ partitions' = partitions + 1
  /\ UNCHANGED <<effort, candidate, initial_effort, worker, runs>>

Escalate(ref) ==
  /\ status = "NEEDS_ACTION"
  /\ effort_escalations_used < 1
  /\ effort < Efforts
  /\ effort' = effort + 1
  /\ effort_escalations_used' = effort_escalations_used + 1
  /\ Run(ref)
  /\ evidence_generation' = NoEvidence
  /\ UNCHANGED <<candidate_generation, focused_repairs_used, continuation_ref,
                 initial_effort, partitions>>

-----------------------------------------------------------------------------
Stop(outcome) ==
  /\ status' = outcome
  /\ UNCHANGED <<effort, candidate, budgets, thread, initial_effort, runs,
                 partitions>>

Timeout    == status = "RUNNING" /\ Stop("FAILED")
SolReclaim == status = "NEEDS_ACTION" /\ Stop("SOL_RECLAIMED")

\* The only events that name no status: every other guard excludes TERMINAL.
Open == status \notin TERMINAL

Blocked == Open /\ Stop("BLOCKED")
Cancel  == Open /\ Stop("CANCELLED")

Next ==
  \/ \E ref \in Refs : Dispatch(ref) \/ FocusedRepair(ref) \/ Escalate(ref)
  \/ \E passed \in BOOLEAN, ref \in {worker, NoRef} : Handoff(passed, ref)
  \/ CandidateChanged
  \/ RefreshEvidence
  \/ ReviewPass
  \/ ReviewFail
  \/ ContinueRepair
  \/ Repartition
  \/ Timeout
  \/ Blocked
  \/ Cancel
  \/ SolReclaim

Spec == Init /\ [][Next]_vars

-----------------------------------------------------------------------------
(* Types, and the budgets as the counters see them. *)
TypeOK ==
  /\ status \in Statuses
  /\ effort \in 1..Efforts /\ initial_effort \in 1..Efforts
  /\ candidate_generation \in Nat
  /\ evidence_generation \in Nat
  /\ focused_repairs_used \in {0, 1} /\ effort_escalations_used \in {0, 1}
  /\ continuation_ref \in Refs \cup {NoRef} /\ worker \in Refs \cup {NoRef}
  /\ checked \in {"current", "stale"}
  /\ runs \in Nat /\ partitions \in Nat

(* The evidence of a candidate that is accepted, or under review with      *)
(* evidence, is about that very candidate: the checks ran after the last   *)
(* thing that could change it, through repairs, escalations and            *)
(* repartitions, which leave old evidence and generations behind.          *)
EvidenceIsCurrent ==
  status \in {"AWAITING_REVIEW", "ACCEPTED"} =>
    /\ evidence_generation = candidate_generation <=> checked = "current"
    /\ status = "ACCEPTED" => checked = "current"

(* However events are interleaved, and whatever is repartitioned, the      *)
(* worker runs once per planning, once more for the one focused repair and *)
(* once more for the one escalation, at one effort above the first at most. *)
RunsStayInBudget ==
  /\ runs <= partitions + 1 + focused_repairs_used + effort_escalations_used
  /\ focused_repairs_used + effort_escalations_used <= 2
  /\ effort = initial_effort + effort_escalations_used

(* A continued repair is done by the worker whose handoff failed, never by *)
(* one that handed off before another worker took over, in a repair, an    *)
(* escalation or a repartition, and handed off without naming its thread.  *)
ContinuedRepairKeepsItsWorker == [][ContinueRepair => worker' = worker]_vars
=============================================================================
