-------------------------- MODULE ClosureProjection --------------------------
(***************************************************************************)
(* project of closure_contract.py: what a controller that holds a prefix   *)
(* of a closure contract is told it may append next, against what the      *)
(* replay of Closure.tla would accept.                                     *)
(***************************************************************************)
EXTENDS Closure

(* There is always another digest, and the smallest weight: a digest is 64 *)
(* digits, and no contract lives through that many failures.               *)
ASSUME SupplyAssumption ==
  /\ \A d \in Digests : \E e \in Digests : e # d
  /\ \A seen \in SUBSET Evidence :
       IsFiniteSet(seen) /\ Cardinality(seen) <= MaxAttempts + Cardinality(LunaUnits)
         => seen # Evidence
  /\ 1 \in Weights

\* Units of the latest failure that a repair or a reclaim may still name.
available_failed_units == FailedUnits \ reclaimed

\* The next events of a failed contract.
failed_events_Mutant ==
  {"SOL_RECLAIM"}
    \cup (IF attempts < MaxAttempts /\ cost < MaxCost
          THEN {"OPEN_LUNA_REPAIR"} ELSE {})

failed_events ==
  IF available_failed_units = {} THEN {}
  ELSE {"SOL_RECLAIM"}
         \cup (IF attempts < MaxAttempts /\ cost < MaxCost
               THEN {"OPEN_LUNA_REPAIR"} ELSE {})

next_events ==
  CASE state = "DISPATCHED" ->
         {"LUNA_HANDOFF"}
           \cup (IF SolUnits # {} THEN {"SOL_PARALLEL_PROGRESS"} ELSE {})
    [] state = "AWAITING_ACCEPTANCE" ->
         {"SOL_ACCEPTANCE_FAIL", "SOL_ACCEPTANCE_PASS"}
           \cup (IF SolUnits # {} THEN {"SOL_PARALLEL_PROGRESS"} ELSE {})
    [] state = "FAILED" -> failed_events
    [] state = "REPAIR_OPEN" -> {"LUNA_REPAIR_HANDOFF"}
    [] state = "RECLAIMED" -> {"SOL_ACCEPTANCE_FAIL", "SOL_ACCEPTANCE_PASS"}
    [] state = "ACCEPTED_CANDIDATE" -> {"CLOSE"}
    [] OTHER -> {}

-----------------------------------------------------------------------------
(* Which kinds of event the replay would accept in this state: Next asked  *)
(* about its guards.                                                       *)
LegalKind(kind) ==
  \E actor \in Actors, candidate \in Digests :
    \/ /\ kind = "SOL_PARALLEL_PROGRESS"
       /\ \E changed \in SUBSET Scopes : ProgressIsLegal(actor, candidate, changed)
    \/ /\ kind = "LUNA_HANDOFF"
       /\ \E changed \in SUBSET Scopes : HandoffIsLegal(actor, candidate, changed)
    \/ /\ kind = "SOL_ACCEPTANCE_PASS"
       /\ \E ids \in SUBSET (Ids \cup SolIds), changed \in SUBSET Scopes :
            Reviewable(actor, candidate, ids, changed)
    \/ /\ kind = "SOL_ACCEPTANCE_FAIL"
       /\ \E ids \in SUBSET (Ids \cup SolIds), changed \in SUBSET Scopes, evidence \in Evidence :
            FailureIsLegal(actor, candidate, ids, changed, evidence)
    \/ /\ kind = "OPEN_LUNA_REPAIR"
       /\ \E targets \in SUBSET LunaUnits, evidence \in Evidence, weight \in Weights :
            RepairIsLegal(actor, candidate, targets, evidence, weight)
    \/ /\ kind = "LUNA_REPAIR_HANDOFF"
       /\ \E targets \in SUBSET LunaUnits, changed \in SUBSET Scopes :
            RepairHandoffIsLegal(actor, candidate, targets, changed)
    \/ /\ kind = "SOL_RECLAIM"
       /\ \E targets \in SUBSET LunaUnits, changed \in SUBSET Scopes :
            ReclaimIsLegal(actor, candidate, targets, changed)
    \/ /\ kind = "CLOSE"
       /\ \E dispositions \in [LunaUnits -> {"accepted", "reclaimed"}] :
            CloseIsLegal(actor, candidate, dispositions)

Kinds == {"LUNA_HANDOFF", "SOL_PARALLEL_PROGRESS", "SOL_ACCEPTANCE_PASS",
          "SOL_ACCEPTANCE_FAIL", "OPEN_LUNA_REPAIR", "LUNA_REPAIR_HANDOFF",
          "SOL_RECLAIM", "CLOSE"}

\* Kinds the bounds of the model switch off in this state.
Bounded == IF parallel >= MaxParallel THEN {"SOL_PARALLEL_PROGRESS"} ELSE {}

(* project hides no legal event once the contract is dispatched, and apart *)
(* from CLOSE it offers none the replay would refuse.                      *)
ProjectionIsExact ==
  state # "START" =>
    \A kind \in Kinds \ Bounded :
      /\ LegalKind(kind) => kind \in next_events
      /\ (kind \in next_events /\ kind # "CLOSE") => LegalKind(kind)

(* What project's docstring and the README say of it: the events it        *)
(* exposes are legal next events.                                          *)
ProjectedEventsAreLegal ==
  \A kind \in next_events \ Bounded : LegalKind(kind)
=============================================================================
