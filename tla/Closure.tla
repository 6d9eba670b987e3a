------------------------------- MODULE Closure -------------------------------
(***************************************************************************)
(* The replay of a closure contract (closure_contract.py): one envelope of *)
(* Luna units, one candidate, and the events the Sol controller and the    *)
(* Luna executor append to it.  An event that violates the state machine   *)
(* makes the whole replay fail, so a contract prefix grows only by the     *)
(* events below.                                                           *)
(*                                                                         *)
(* Abstraction.  A path is represented by the unit whose scope contains it *)
(* (the envelope makes the scopes disjoint), so changed_paths is the set   *)
(* of units an event touches.  Digests and evidence are opaque values.     *)
(* Cost weights are naturals, so the float tolerance of the budget test is *)
(* equality.  The parser rejects a marginal_net_substitution that is not   *)
(* positive before the replay sees it.                                     *)
(*                                                                         *)
(* writer and verified are history variables: they record who last changed *)
(* each Luna unit, and which identifiers passed since anything in the      *)
(* workspace last changed.  No guard reads them.                           *)
(***************************************************************************)
EXTENDS Naturals, FiniteSets

CONSTANTS
  LunaUnits,    (* envelope.luna_units                                   *)
  SolUnits,     (* envelope.sol_lane_units, possibly none                *)
  Ids,          (* acceptance_ids of the Luna units                      *)
  SolIds,       (* acceptance_ids of the Sol lane units                  *)
  UnitOf,       (* the one Luna unit each acceptance id belongs to       *)
  Digests,      (* candidate digests                                     *)
  Evidence,     (* failure evidence digests                              *)
  NoEvidence,   (* Python's None for last_failure_evidence               *)
  MaxAttempts,  (* envelope.repair_budget.max_attempts                   *)
  MaxCost,      (* envelope.repair_budget.max_cost_weight                *)
  Weights,      (* repair_cost_weight values an event may carry          *)
  Actors, Controller, Executor,
  MaxParallel   (* bound of the model on SOL_PARALLEL_PROGRESS events    *)

ASSUME EnvelopeAssumption ==
  /\ IsFiniteSet(LunaUnits) /\ LunaUnits # {}
  /\ LunaUnits \cap SolUnits = {}
  /\ Ids \cap SolIds = {}
  /\ UnitOf \in [Ids -> LunaUnits]
  /\ \A u \in LunaUnits : \E i \in Ids : UnitOf[i] = u

ASSUME BudgetAssumption ==
  /\ MaxAttempts \in 1..3
  /\ MaxCost \in Nat \ {0}
  /\ Weights \subseteq Nat \ {0}
  /\ MaxParallel \in Nat

ASSUME IdentityAssumption ==
  /\ {Controller, Executor} \subseteq Actors
  /\ NoEvidence \notin Evidence

VARIABLES
  state, current, open_target, used_evidence, seen_failure_evidence,
  reclaimed, accepted, touched, attempts, cost, parallel, last_pass,
  last_failure_evidence, last_failed_acceptance_ids,
  writer, verified

vars == <<state, current, open_target, used_evidence, seen_failure_evidence,
          reclaimed, accepted, touched, attempts, cost, parallel, last_pass,
          last_failure_evidence, last_failed_acceptance_ids,
          writer, verified>>

repairVars == <<used_evidence, attempts, cost>>
history    == <<writer, verified>>

States == {"START", "DISPATCHED", "AWAITING_ACCEPTANCE", "FAILED",
           "REPAIR_OPEN", "RECLAIMED", "ACCEPTED_CANDIDATE", "CLOSED"}

\* The units a path of the repository may belong to.
Scopes == LunaUnits \cup SolUnits

IdsOf(us) == {i \in Ids : UnitOf[i] \in us}

\* The units whose acceptance ids the latest failure names.
FailedUnits == {UnitOf[i] : i \in last_failed_acceptance_ids}

Init ==
  /\ state = "START"
  /\ current \in Digests
  /\ open_target = {}
  /\ used_evidence = {}
  /\ seen_failure_evidence = {}
  /\ reclaimed = {}
  /\ accepted = {}
  /\ touched = {}
  /\ attempts = 0
  /\ cost = 0
  /\ parallel = 0
  /\ last_pass = FALSE
  /\ last_failure_evidence = NoEvidence
  /\ last_failed_acceptance_ids = {}
  /\ writer = [u \in LunaUnits |-> "none"]
  /\ verified = {}

-----------------------------------------------------------------------------
(* Guards shared by several events.                                        *)

\* A non-empty set of paths, all of them in the scopes of these units.
EditsWithin_Mutant(changed, units) == changed # {}

EditsWithin(changed, units) == changed # {} /\ changed \subseteq units

\* An edit has to show in the candidate digest.
NewCandidate_Mutant(candidate) == TRUE

NewCandidate(candidate) == candidate # current

\* Sol's own lane moves only while Luna's units are out or await review.
SolLaneOpen_Mutant == state \in {"DISPATCHED", "AWAITING_ACCEPTANCE", "ACCEPTED_CANDIDATE"}

SolLaneOpen == state \in {"DISPATCHED", "AWAITING_ACCEPTANCE"}

\* Units a repair or a reclaim may name: still Luna's, and in the failure.
Answerable_NotReclaimedDropped(us) == us # {} /\ us \subseteq FailedUnits

Answerable_AnyUnit(us) == us # {} /\ us \subseteq LunaUnits \ reclaimed

Answerable(us) ==
  /\ us # {}
  /\ us \subseteq LunaUnits \ reclaimed
  /\ us \subseteq FailedUnits

\* The budget is tested after this attempt and its weight are added.
WithinBudget_Mutant(weight) == attempts <= MaxAttempts /\ cost + weight <= MaxCost

WithinBudget(weight) ==
  /\ attempts + 1 <= MaxAttempts
  /\ cost + weight <= MaxCost

\* An acceptance event names known identifiers, and only Luna's count.
AcceptanceIds_Mutant(ids) == ids # {}

AcceptanceIds(ids) == ids # {} /\ ids \subseteq Ids

\* The history of an edit: who wrote each unit last.
WrittenBy(who, changed) ==
  [u \in LunaUnits |-> IF u \in changed THEN who ELSE writer[u]]

-----------------------------------------------------------------------------
(* The events.  What the replay demands of an event is an operator of its  *)
(* own, in front of what the event changes.                                *)

(* DISPATCH: the controller opens the contract on the starting candidate. *)
Dispatch(actor, candidate) ==
  /\ state = "START"
  /\ actor = Controller
  /\ candidate = current
  /\ state' = "DISPATCHED"
  /\ UNCHANGED <<current, open_target, repairVars, seen_failure_evidence,
                 reclaimed, accepted, touched, parallel, last_pass,
                 last_failure_evidence, last_failed_acceptance_ids, history>>

(* SOL_PARALLEL_PROGRESS: Sol works in its own lane while the Luna units   *)
(* are out or await review.  The workspace changes, the candidate digest   *)
(* does not.                                                               *)
ProgressIsLegal(actor, candidate, changed) ==
  /\ SolLaneOpen
  /\ actor = Controller
  /\ candidate = current
  /\ EditsWithin(changed, SolUnits)
  /\ parallel < MaxParallel

SolParallelProgress(actor, candidate, changed) ==
  /\ ProgressIsLegal(actor, candidate, changed)
  /\ parallel' = parallel + 1
  /\ writer' = WrittenBy("sol", changed)
  /\ verified' = {}
  /\ UNCHANGED <<state, current, open_target, repairVars,
                 seen_failure_evidence, reclaimed, accepted, touched,
                 last_pass, last_failure_evidence,
                 last_failed_acceptance_ids>>

(* LUNA_HANDOFF: the first delivery covers every delegated unit.  A failed *)
(* candidate is let through the first guard only to be refused below it.   *)
HandoffIsLegal(actor, candidate, changed) ==
  /\ state \in {"DISPATCHED", "FAILED"}
  /\ actor = Executor
  /\ changed = LunaUnits
  /\ NewCandidate(candidate)
  /\ state # "FAILED"

LunaHandoff(actor, candidate, changed) ==
  /\ HandoffIsLegal(actor, candidate, changed)
  /\ accepted' = {}
  /\ touched' = touched \cup changed
  /\ current' = candidate
  /\ state' = "AWAITING_ACCEPTANCE"
  /\ last_pass' = FALSE
  /\ writer' = WrittenBy("luna", changed)
  /\ verified' = {}
  /\ UNCHANGED <<open_target, repairVars, seen_failure_evidence, reclaimed,
                 parallel, last_failure_evidence, last_failed_acceptance_ids>>

(* The guards SOL_ACCEPTANCE_PASS and SOL_ACCEPTANCE_FAIL share: a review  *)
(* of the current candidate, by the controller, that writes nothing.       *)
Reviewable(actor, candidate, ids, changed) ==
  /\ state \in {"AWAITING_ACCEPTANCE", "RECLAIMED"}
  /\ actor = Controller
  /\ candidate = current
  /\ changed = {}
  /\ AcceptanceIds(ids)

SolAcceptancePass(actor, candidate, ids, changed) ==
  /\ Reviewable(actor, candidate, ids, changed)
  /\ accepted' = accepted \cup ids
  /\ last_failed_acceptance_ids' = {}
  /\ last_pass' = TRUE
  /\ state' = "ACCEPTED_CANDIDATE"
  /\ verified' = verified \cup ids
  /\ UNCHANGED <<current, open_target, repairVars, seen_failure_evidence,
                 reclaimed, touched, parallel, last_failure_evidence, writer>>

FailureIsLegal(actor, candidate, ids, changed, evidence) ==
  /\ Reviewable(actor, candidate, ids, changed)
  /\ evidence \notin seen_failure_evidence

SolAcceptanceFail(actor, candidate, ids, changed, evidence) ==
  /\ FailureIsLegal(actor, candidate, ids, changed, evidence)
  /\ seen_failure_evidence' = seen_failure_evidence \cup {evidence}
  /\ last_pass' = FALSE
  /\ state' = "FAILED"
  /\ last_failure_evidence' = evidence
  /\ last_failed_acceptance_ids' = ids
  /\ UNCHANGED <<current, open_target, repairVars, reclaimed, accepted,
                 touched, parallel, history>>

(* OPEN_LUNA_REPAIR: one more attempt, charged before Luna does anything. *)
RepairIsLegal(actor, candidate, targets, evidence, weight) ==
  /\ state = "FAILED"
  /\ actor = Controller
  /\ candidate = current
  /\ Answerable(targets)
  /\ evidence = last_failure_evidence
  /\ evidence \notin used_evidence
  /\ WithinBudget(weight)

OpenLunaRepair(actor, candidate, targets, evidence, weight) ==
  /\ RepairIsLegal(actor, candidate, targets, evidence, weight)
  /\ used_evidence' = used_evidence \cup {evidence}
  /\ last_failure_evidence' = NoEvidence
  /\ attempts' = attempts + 1
  /\ cost' = cost + weight
  /\ open_target' = targets
  /\ state' = "REPAIR_OPEN"
  /\ UNCHANGED <<current, seen_failure_evidence, reclaimed, accepted, touched,
                 parallel, last_pass, last_failed_acceptance_ids, history>>

(* LUNA_REPAIR_HANDOFF: the same executor returns exactly the open targets. *)
RepairHandoffIsLegal(actor, candidate, targets, changed) ==
  /\ state = "REPAIR_OPEN"
  /\ actor = Executor
  /\ targets = open_target
  /\ changed = open_target
  /\ NewCandidate(candidate)

LunaRepairHandoff(actor, candidate, targets, changed) ==
  /\ RepairHandoffIsLegal(actor, candidate, targets, changed)
  /\ accepted' = {}
  /\ touched' = touched \cup changed
  /\ current' = candidate
  /\ state' = "AWAITING_ACCEPTANCE"
  /\ open_target' = {}
  /\ last_failed_acceptance_ids' = {}
  /\ last_pass' = FALSE
  /\ writer' = WrittenBy("luna", changed)
  /\ verified' = {}
  /\ UNCHANGED <<repairVars, seen_failure_evidence, reclaimed, parallel,
                 last_failure_evidence>>

(* SOL_RECLAIM: Sol edits failed units itself.  It may change any of their *)
(* paths; the unit counts as Sol's from here on whether or not each one    *)
(* was edited.                                                             *)
ReclaimIsLegal(actor, candidate, targets, changed) ==
  /\ state = "FAILED"
  /\ actor = Controller
  /\ Answerable(targets)
  /\ EditsWithin(changed, targets)
  /\ NewCandidate(candidate)

SolReclaim(actor, candidate, targets, changed) ==
  /\ ReclaimIsLegal(actor, candidate, targets, changed)
  /\ reclaimed' = reclaimed \cup targets
  /\ accepted' = {}
  /\ current' = candidate
  /\ last_failed_acceptance_ids' = {}
  /\ state' = "RECLAIMED"
  /\ writer' = WrittenBy("sol", changed)
  /\ verified' = {}
  /\ UNCHANGED <<open_target, repairVars, seen_failure_evidence, touched,
                 parallel, last_pass, last_failure_evidence>>

(* CLOSE: every Luna unit is disposed of, in agreement with the history. *)
CloseIsLegal(actor, candidate, dispositions) ==
  /\ state \in {"ACCEPTED_CANDIDATE", "RECLAIMED"}
  /\ actor = Controller
  /\ candidate = current
  /\ last_pass
  /\ \A u \in LunaUnits : (dispositions[u] = "reclaimed") <=> (u \in reclaimed)
  /\ \A u \in LunaUnits : dispositions[u] = "accepted" => u \in touched
  /\ IdsOf({u \in LunaUnits : dispositions[u] = "accepted"}) \subseteq accepted

Close(actor, candidate, dispositions) ==
  /\ CloseIsLegal(actor, candidate, dispositions)
  /\ state' = "CLOSED"
  /\ UNCHANGED <<current, open_target, repairVars, seen_failure_evidence,
                 reclaimed, accepted, touched, parallel, last_pass,
                 last_failure_evidence, last_failed_acceptance_ids, history>>

Next ==
  \E actor \in Actors, candidate \in Digests :
    \/ Dispatch(actor, candidate)
    \/ \E changed \in SUBSET Scopes :
         SolParallelProgress(actor, candidate, changed)
    \/ \E changed \in SUBSET Scopes :
         LunaHandoff(actor, candidate, changed)
    \/ \E ids \in SUBSET (Ids \cup SolIds), changed \in SUBSET Scopes :
         SolAcceptancePass(actor, candidate, ids, changed)
    \/ \E ids \in SUBSET (Ids \cup SolIds), changed \in SUBSET Scopes, evidence \in Evidence :
         SolAcceptanceFail(actor, candidate, ids, changed, evidence)
    \/ \E targets \in SUBSET LunaUnits, evidence \in Evidence, weight \in Weights :
         OpenLunaRepair(actor, candidate, targets, evidence, weight)
    \/ \E targets \in SUBSET LunaUnits, changed \in SUBSET Scopes :
         LunaRepairHandoff(actor, candidate, targets, changed)
    \/ \E targets \in SUBSET LunaUnits, changed \in SUBSET Scopes :
         SolReclaim(actor, candidate, targets, changed)
    \/ \E dispositions \in [LunaUnits -> {"accepted", "reclaimed"}] :
         Close(actor, candidate, dispositions)

Spec == Init /\ [][Next]_vars

-----------------------------------------------------------------------------
\* assess: the units whose baseline weight is credited to Luna.
credited_units == LunaUnits \ reclaimed

-----------------------------------------------------------------------------
TypeOK ==
  /\ state \in States
  /\ current \in Digests
  /\ open_target \subseteq LunaUnits
  /\ used_evidence \subseteq Evidence
  /\ seen_failure_evidence \subseteq Evidence
  /\ reclaimed \subseteq LunaUnits
  /\ accepted \subseteq Ids
  /\ touched \subseteq LunaUnits
  /\ attempts \in Nat
  /\ cost \in Nat
  /\ parallel \in Nat
  /\ last_pass \in BOOLEAN
  /\ last_failure_evidence \in Evidence \cup {NoEvidence}
  /\ last_failed_acceptance_ids \subseteq Ids
  /\ writer \in [LunaUnits -> {"none", "luna", "sol"}]
  /\ verified \subseteq Ids

(* A closed contract was reviewed as it stands: every identifier of every  *)
(* unit credited to Luna passed after the last change to the workspace, by *)
(* Luna, by a reclaim or by Sol's own lane.                                *)
ReviewedAsItStands ==
  state = "CLOSED" => IdsOf(credited_units) \subseteq verified

(* The credited baseline weight never counts Sol's work: once delivered, a *)
(* unit is credited only while Luna is the last to have written it, and a  *)
(* unit Sol wrote stays shadowed.                                          *)
CreditFollowsAuthorship ==
  /\ \A u \in LunaUnits : writer[u] = "sol" => u \in reclaimed
  /\ state = "CLOSED" => \A u \in credited_units : writer[u] = "luna"

(* Repairs stay in the budget, and each attempt is bound to failure        *)
(* evidence of its own.                                                    *)
RepairsStayInBudget ==
  /\ attempts <= MaxAttempts
  /\ cost <= MaxCost
  /\ used_evidence \subseteq seen_failure_evidence
  /\ attempts = Cardinality(used_evidence)

(* Failing can not go on for ever: every failure but the one being looked  *)
(* at was answered by a repair or by a reclaim of units not yet reclaimed. *)
FailuresAreAnswered ==
  Cardinality(seen_failure_evidence) <=
    attempts + Cardinality(reclaimed) + (IF state = "FAILED" THEN 1 ELSE 0)

(* Luna only ever rewrites, in a repair, units of the failure it answers,  *)
(* and never one that Sol has reclaimed.                                   *)
RepairTargetsStayAnswerable ==
  state = "REPAIR_OPEN" =>
    open_target # {} /\ open_target \subseteq FailedUnits \ reclaimed

\* The contract implements the promise of AcceptanceAuthority.
Authority == INSTANCE AcceptanceAuthority WITH
  Units     <- LunaUnits,
  candidate <- current,
  passed    <- accepted,
  shadowed  <- reclaimed,
  closed    <- (state = "CLOSED")

(* Every step of the replay is a step of AcceptanceAuthority or none. *)
ImplementsAuthority == Authority!Spec
=============================================================================
