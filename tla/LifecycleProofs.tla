--------------------------- MODULE LifecycleProofs ---------------------------
(***************************************************************************)
(* The lifecycle properties for any number of efforts, references,         *)
(* generations and repartitions.  The invariant is Lifecycle's properties  *)
(* with what they leave out of the states no review happens in.            *)
(***************************************************************************)
EXTENDS Lifecycle, TLAPS

\* A handed-off candidate has a generation, and its evidence is current.
HandedOff ==
  status \in {"AWAITING_REVIEW", "NEEDS_ACTION", "ACCEPTED"} =>
    /\ candidate_generation > 0
    /\ evidence_generation = candidate_generation <=> checked = "current"
    /\ status = "ACCEPTED" => checked = "current"

\* A planned package has one run of its budget left.
RunsLeft ==
  runs <= partitions + focused_repairs_used + effort_escalations_used
            + (IF status = "PLANNED" THEN 0 ELSE 1)

\* The thread on record, if there is one, is that of the handoff under review.
Retained ==
  status \in {"AWAITING_REVIEW", "NEEDS_ACTION"} => continuation_ref \in {NoRef, worker}

\* A handoff comes from a worker, and so does all that follows it.
Manned == status = "RUNNING" => worker \in Refs

IInv ==
  /\ TypeOK
  /\ HandedOff
  /\ RunsLeft
  /\ effort = initial_effort + effort_escalations_used
  /\ Retained
  /\ Manned

(* Init establishes the invariant. *)
LEMMA Initially == Init => IInv
  BY LifecycleAssumption
  DEF Init, IInv, TypeOK, Statuses, HandedOff, RunsLeft, NoEvidence, Retained, Manned

(* Every event preserves the invariant. *)
LEMMA EventStep == IInv /\ [Next]_vars => IInv'
<1> SUFFICES ASSUME IInv, [Next]_vars PROVE IInv'
  OBVIOUS
<1> USE LifecycleAssumption
    DEF IInv, TypeOK, Statuses, TERMINAL, HandedOff, RunsLeft, NoEvidence, Retained,
        Manned, Run, budgets, candidate, thread
<1>1. ASSUME NEW ref \in Refs, Dispatch(ref)
      PROVE  IInv'
  BY <1>1 DEF Dispatch
<1>2. ASSUME NEW passed \in BOOLEAN, NEW ref \in {worker, NoRef}, Handoff(passed, ref)
      PROVE  IInv'
  BY <1>2 DEF Handoff, NextRef
<1>3. CASE CandidateChanged
  BY <1>3 DEF CandidateChanged
<1>4. CASE RefreshEvidence
  BY <1>4 DEF RefreshEvidence
<1>5. CASE ReviewPass
  BY <1>5 DEF ReviewPass, Fresh
<1>6. CASE ReviewFail
  BY <1>6 DEF ReviewFail
<1>7. ASSUME NEW ref \in Refs, MayRepair, Repair(ref)
      PROVE  IInv'
  BY <1>7 DEF MayRepair, Repair
<1>8. CASE Repartition
  BY <1>8 DEF Repartition, Carried
<1>9. ASSUME NEW ref \in Refs, Escalate(ref)
      PROVE  IInv'
  BY <1>9 DEF Escalate
<1>10. ASSUME NEW outcome \in TERMINAL \ {"ACCEPTED"}, Stop(outcome), status # "ACCEPTED"
       PROVE  IInv'
  BY <1>10 DEF Stop
<1>11. CASE UNCHANGED vars
  BY <1>11 DEF vars
<1> QED
  BY <1>1, <1>2, <1>3, <1>4, <1>5, <1>6, <1>7, <1>8, <1>9, <1>10, <1>11
  DEF Next, FocusedRepair, ContinueRepair, Timeout, SolReclaim, Blocked, Cancel, Open

(* The invariant holds throughout every replay. *)
THEOREM LifecycleInvariant == Spec => []IInv
  BY Initially, EventStep, PTL DEF Spec

(* The variables keep their types and the counters their budgets. *)
THEOREM TypeCorrect == Spec => []TypeOK
<1>1. IInv => TypeOK
  BY DEF IInv
<1> QED
  BY <1>1, LifecycleInvariant, PTL

(* No package is accepted, or reviewed as if it had evidence, on checks    *)
(* that ran before the last change of its candidate.                       *)
THEOREM AcceptedOnCurrentEvidence == Spec => []EvidenceIsCurrent
<1>1. IInv => EvidenceIsCurrent
  BY DEF IInv, HandedOff, EvidenceIsCurrent
<1> QED
  BY <1>1, LifecycleInvariant, PTL

(* Repartitioning any number of times buys no second repair or escalation. *)
THEOREM RunsAreBudgeted == Spec => []RunsStayInBudget
<1>1. IInv => RunsStayInBudget
  BY DEF IInv, TypeOK, RunsLeft, RunsStayInBudget
<1> QED
  BY <1>1, LifecycleInvariant, PTL

(* A continued repair is done by the worker whose handoff failed review:     *)
(* the thread on record is never that of an earlier worker.                  *)
THEOREM FailedWorkersRepair == Spec => ContinuedRepairKeepsItsWorker
<1>1. IInv /\ ContinueRepair => worker' = worker
  BY LifecycleAssumption DEF IInv, Retained, ContinueRepair, MayRepair, Repair, Run
<1>2. IInv /\ [Next]_vars => [ContinueRepair => worker' = worker]_vars
  BY <1>1
<1> QED
  BY <1>2, LifecycleInvariant, PTL DEF Spec, ContinuedRepairKeepsItsWorker
=============================================================================
