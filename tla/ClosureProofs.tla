---------------------------- MODULE ClosureProofs ----------------------------
(***************************************************************************)
(* Proofs about the replay of a closure contract, for every envelope,      *)
(* budget and set of digests.                                              *)
(*                                                                         *)
(* The invariants of Closure.tla are not inductive as they stand.  What    *)
(* makes them so is that an identifier is in accepted only between a pass  *)
(* and the close that uses it (ReviewInv), that a failed contract always   *)
(* holds evidence no repair has used (BudgetInv), and that a unit Luna has *)
(* delivered has a writer (AuthorInv).                                     *)
(***************************************************************************)
EXTENDS ClosureProjection, FiniteSetTheorems, TLAPS

\* accepted holds what passed on the candidate as it stands, and no more.
ReviewInv ==
  /\ state \notin {"ACCEPTED_CANDIDATE", "CLOSED"} => accepted = {} /\ ~last_pass
  /\ last_pass => accepted # {}
  /\ accepted \subseteq verified
  /\ state = "CLOSED" => IdsOf(credited_units) \subseteq accepted

\* Who wrote a unit agrees with who delivered and who reclaimed it.
AuthorInv ==
  /\ \A u \in LunaUnits : writer[u] = "sol" => u \in reclaimed
  /\ \A u \in touched : writer[u] # "none"
  /\ state = "CLOSED" => credited_units \subseteq touched

\* A failed contract can still name evidence no repair has used.
BudgetInv ==
  /\ IsFiniteSet(used_evidence)
  /\ RepairsStayInBudget
  /\ state = "FAILED" =>
       last_failure_evidence \in seen_failure_evidence \ used_evidence

AnsweredInv ==
  /\ IsFiniteSet(seen_failure_evidence)
  /\ FailuresAreAnswered

-----------------------------------------------------------------------------
(* Every variable keeps its type: in particular acceptance ids are Luna's, *)
(* and repairs and reclaims name Luna units (the parser's and the replay's *)
(* checks on identifiers).                                                 *)
THEOREM TypeCorrect == Spec => []TypeOK
<1>1. ASSUME Init PROVE TypeOK
  <2>1. writer \in [LunaUnits -> {"none", "luna", "sol"}]
    BY <1>1 DEF Init
  <2> QED
    BY <1>1, <2>1 DEF Init, TypeOK, States
<1>2. TypeOK /\ [Next]_vars => TypeOK'
  <2> SUFFICES ASSUME TypeOK, [Next]_vars PROVE TypeOK'
    OBVIOUS
  <2> USE DEF TypeOK, States, history, repairVars, EditsWithin, NewCandidate,
              SolLaneOpen, Answerable, WithinBudget, AcceptanceIds, WrittenBy
  <2>1. CASE UNCHANGED vars
    BY <2>1 DEF vars
  <2>2. ASSUME NEW actor \in Actors, NEW candidate \in Digests,
               Dispatch(actor, candidate)
        PROVE TypeOK'
    BY <2>2 DEF Dispatch
  <2>3. ASSUME NEW actor \in Actors, NEW candidate \in Digests,
               NEW changed \in SUBSET Scopes,
               SolParallelProgress(actor, candidate, changed)
        PROVE TypeOK'
    BY <2>3 DEF SolParallelProgress, ProgressIsLegal
  <2>4. ASSUME NEW actor \in Actors, NEW candidate \in Digests,
               NEW changed \in SUBSET Scopes,
               LunaHandoff(actor, candidate, changed)
        PROVE TypeOK'
    BY <2>4 DEF LunaHandoff, HandoffIsLegal
  <2>5. ASSUME NEW actor \in Actors, NEW candidate \in Digests,
               NEW ids \in SUBSET (Ids \cup SolIds), NEW changed \in SUBSET Scopes,
               SolAcceptancePass(actor, candidate, ids, changed)
        PROVE TypeOK'
    BY <2>5 DEF SolAcceptancePass, Reviewable
  <2>6. ASSUME NEW actor \in Actors, NEW candidate \in Digests,
               NEW ids \in SUBSET (Ids \cup SolIds), NEW changed \in SUBSET Scopes,
               NEW evidence \in Evidence,
               SolAcceptanceFail(actor, candidate, ids, changed, evidence)
        PROVE TypeOK'
    BY <2>6 DEF SolAcceptanceFail, FailureIsLegal, Reviewable
  <2>7. ASSUME NEW actor \in Actors, NEW candidate \in Digests,
               NEW targets \in SUBSET LunaUnits, NEW evidence \in Evidence,
               NEW weight \in Weights,
               OpenLunaRepair(actor, candidate, targets, evidence, weight)
        PROVE TypeOK'
    BY <2>7, BudgetAssumption DEF OpenLunaRepair, RepairIsLegal
  <2>8. ASSUME NEW actor \in Actors, NEW candidate \in Digests,
               NEW targets \in SUBSET LunaUnits, NEW changed \in SUBSET Scopes,
               LunaRepairHandoff(actor, candidate, targets, changed)
        PROVE TypeOK'
    BY <2>8 DEF LunaRepairHandoff, RepairHandoffIsLegal
  <2>9. ASSUME NEW actor \in Actors, NEW candidate \in Digests,
               NEW targets \in SUBSET LunaUnits, NEW changed \in SUBSET Scopes,
               SolReclaim(actor, candidate, targets, changed)
        PROVE TypeOK'
    BY <2>9 DEF SolReclaim, ReclaimIsLegal
  <2>10. ASSUME NEW actor \in Actors, NEW candidate \in Digests,
                NEW dispositions \in [LunaUnits -> {"accepted", "reclaimed"}],
                Close(actor, candidate, dispositions)
         PROVE TypeOK'
    BY <2>10 DEF Close, CloseIsLegal
  <2> QED
    BY <2>1, <2>2, <2>3, <2>4, <2>5, <2>6, <2>7, <2>8, <2>9, <2>10 DEF Next
<1> QED
  BY <1>1, <1>2, PTL DEF Spec

-----------------------------------------------------------------------------
(* A closed contract was reviewed as it stands, whatever Luna and Sol      *)
(* changed before (the replay's accepted.clear() and its CLOSE guards).    *)
LEMMA ReviewStep == TypeOK /\ ReviewInv /\ [Next]_vars => ReviewInv'
  <1> SUFFICES ASSUME TypeOK, ReviewInv, [Next]_vars PROVE ReviewInv'
    OBVIOUS
  <1> USE DEF ReviewInv, repairVars, history, credited_units, SolLaneOpen
  <1>1. CASE UNCHANGED vars
    BY <1>1 DEF vars
  <1>2. ASSUME NEW actor \in Actors, NEW candidate \in Digests,
               Dispatch(actor, candidate)
        PROVE ReviewInv'
    BY <1>2 DEF Dispatch
  <1>3. ASSUME NEW actor \in Actors, NEW candidate \in Digests,
               NEW changed \in SUBSET Scopes,
               SolParallelProgress(actor, candidate, changed)
        PROVE ReviewInv'
    BY <1>3 DEF SolParallelProgress, ProgressIsLegal
  <1>4. ASSUME NEW actor \in Actors, NEW candidate \in Digests,
               NEW changed \in SUBSET Scopes,
               LunaHandoff(actor, candidate, changed)
        PROVE ReviewInv'
    BY <1>4 DEF LunaHandoff, HandoffIsLegal
  <1>5. ASSUME NEW actor \in Actors, NEW candidate \in Digests,
               NEW ids \in SUBSET (Ids \cup SolIds), NEW changed \in SUBSET Scopes,
               SolAcceptancePass(actor, candidate, ids, changed)
        PROVE ReviewInv'
    BY <1>5 DEF SolAcceptancePass, Reviewable, AcceptanceIds
  <1>6. ASSUME NEW actor \in Actors, NEW candidate \in Digests,
               NEW ids \in SUBSET (Ids \cup SolIds), NEW changed \in SUBSET Scopes,
               NEW evidence \in Evidence,
               SolAcceptanceFail(actor, candidate, ids, changed, evidence)
        PROVE ReviewInv'
    BY <1>6 DEF SolAcceptanceFail, FailureIsLegal, Reviewable
  <1>7. ASSUME NEW actor \in Actors, NEW candidate \in Digests,
               NEW targets \in SUBSET LunaUnits, NEW evidence \in Evidence,
               NEW weight \in Weights,
               OpenLunaRepair(actor, candidate, targets, evidence, weight)
        PROVE ReviewInv'
    BY <1>7 DEF OpenLunaRepair, RepairIsLegal
  <1>8. ASSUME NEW actor \in Actors, NEW candidate \in Digests,
               NEW targets \in SUBSET LunaUnits, NEW changed \in SUBSET Scopes,
               LunaRepairHandoff(actor, candidate, targets, changed)
        PROVE ReviewInv'
    BY <1>8 DEF LunaRepairHandoff, RepairHandoffIsLegal
  <1>9. ASSUME NEW actor \in Actors, NEW candidate \in Digests,
               NEW targets \in SUBSET LunaUnits, NEW changed \in SUBSET Scopes,
               SolReclaim(actor, candidate, targets, changed)
        PROVE ReviewInv'
    BY <1>9 DEF SolReclaim, ReclaimIsLegal
  <1>10. ASSUME NEW actor \in Actors, NEW candidate \in Digests,
               NEW dispositions \in [LunaUnits -> {"accepted", "reclaimed"}],
               Close(actor, candidate, dispositions)
        PROVE ReviewInv'
    <2>1. credited_units = {u \in LunaUnits : dispositions[u] = "accepted"}
      BY <1>10 DEF Close, CloseIsLegal
    <2> QED
      BY <1>10, <2>1 DEF Close, CloseIsLegal, IdsOf, States
  <1> QED
    BY <1>1, <1>2, <1>3, <1>4, <1>5, <1>6, <1>7, <1>8, <1>9, <1>10 DEF Next

(* A contract that closed was reviewed as it stands: what is credited to    *)
(* Luna passed after the last change (CLOSE and the replay's resets).       *)
THEOREM ClosedContractsWereReviewed == Spec => []ReviewedAsItStands
<1>1. Init => ReviewInv
  BY DEF Init, ReviewInv
<1>2. ReviewInv => ReviewedAsItStands
  BY DEF ReviewInv, ReviewedAsItStands
<1> QED
  BY <1>1, <1>2, TypeCorrect, ReviewStep, PTL DEF Spec

-----------------------------------------------------------------------------
(* What Sol wrote is never credited to Luna (the scope checks of           *)
(* SOL_PARALLEL_PROGRESS and SOL_RECLAIM, the unreclaimed check of         *)
(* OPEN_LUNA_REPAIR, and the disposition checks of CLOSE).                 *)
LEMMA AuthorStep == TypeOK /\ AuthorInv /\ [Next]_vars => AuthorInv'
  <1> SUFFICES ASSUME TypeOK, AuthorInv, [Next]_vars PROVE AuthorInv'
    OBVIOUS
  <1> USE DEF AuthorInv, TypeOK, repairVars, history, credited_units, WrittenBy
  <1>1. CASE UNCHANGED vars
    BY <1>1 DEF vars
  <1>2. ASSUME NEW actor \in Actors, NEW candidate \in Digests,
               Dispatch(actor, candidate)
        PROVE AuthorInv'
    BY <1>2 DEF Dispatch
  <1>3. ASSUME NEW actor \in Actors, NEW candidate \in Digests,
               NEW changed \in SUBSET Scopes,
               SolParallelProgress(actor, candidate, changed)
        PROVE AuthorInv'
    BY <1>3, EnvelopeAssumption DEF SolParallelProgress, ProgressIsLegal, SolLaneOpen, EditsWithin
  <1>4. ASSUME NEW actor \in Actors, NEW candidate \in Digests,
               NEW changed \in SUBSET Scopes,
               LunaHandoff(actor, candidate, changed)
        PROVE AuthorInv'
    BY <1>4 DEF LunaHandoff, HandoffIsLegal
  <1>5. ASSUME NEW actor \in Actors, NEW candidate \in Digests,
               NEW ids \in SUBSET (Ids \cup SolIds), NEW changed \in SUBSET Scopes,
               SolAcceptancePass(actor, candidate, ids, changed)
        PROVE AuthorInv'
    BY <1>5 DEF SolAcceptancePass, Reviewable
  <1>6. ASSUME NEW actor \in Actors, NEW candidate \in Digests,
               NEW ids \in SUBSET (Ids \cup SolIds), NEW changed \in SUBSET Scopes,
               NEW evidence \in Evidence,
               SolAcceptanceFail(actor, candidate, ids, changed, evidence)
        PROVE AuthorInv'
    BY <1>6 DEF SolAcceptanceFail, FailureIsLegal, Reviewable
  <1>7. ASSUME NEW actor \in Actors, NEW candidate \in Digests,
               NEW targets \in SUBSET LunaUnits, NEW evidence \in Evidence,
               NEW weight \in Weights,
               OpenLunaRepair(actor, candidate, targets, evidence, weight)
        PROVE AuthorInv'
    BY <1>7 DEF OpenLunaRepair, RepairIsLegal
  <1>8. ASSUME NEW actor \in Actors, NEW candidate \in Digests,
               NEW targets \in SUBSET LunaUnits, NEW changed \in SUBSET Scopes,
               LunaRepairHandoff(actor, candidate, targets, changed)
        PROVE AuthorInv'
    BY <1>8 DEF LunaRepairHandoff, RepairHandoffIsLegal
  <1>9. ASSUME NEW actor \in Actors, NEW candidate \in Digests,
               NEW targets \in SUBSET LunaUnits, NEW changed \in SUBSET Scopes,
               SolReclaim(actor, candidate, targets, changed)
        PROVE AuthorInv'
    BY <1>9 DEF SolReclaim, ReclaimIsLegal, EditsWithin
  <1>10. ASSUME NEW actor \in Actors, NEW candidate \in Digests,
               NEW dispositions \in [LunaUnits -> {"accepted", "reclaimed"}],
               Close(actor, candidate, dispositions)
        PROVE AuthorInv'
    BY <1>10 DEF Close, CloseIsLegal
  <1> QED
    BY <1>1, <1>2, <1>3, <1>4, <1>5, <1>6, <1>7, <1>8, <1>9, <1>10 DEF Next

(* Luna is credited only with units she was the last to write (the shadows  *)
(* that RECLAIM leaves, and the credited units CLOSE computes from them).   *)
THEOREM CreditIsEarned == Spec => []CreditFollowsAuthorship
<1>1. Init => AuthorInv
  BY DEF Init, AuthorInv
<1>2. TypeOK /\ AuthorInv => CreditFollowsAuthorship
  BY DEF TypeOK, AuthorInv, CreditFollowsAuthorship, credited_units
<1> QED
  BY <1>1, <1>2, TypeCorrect, AuthorStep, PTL DEF Spec

-----------------------------------------------------------------------------
(* Repairs stay in the budget and each has failure evidence of its own     *)
(* (the attempt, cost and evidence checks of OPEN_LUNA_REPAIR).            *)
LEMMA BudgetStep == TypeOK /\ BudgetInv /\ [Next]_vars => BudgetInv'
  <1> SUFFICES ASSUME TypeOK, BudgetInv, [Next]_vars PROVE BudgetInv'
    OBVIOUS
  <1> USE DEF BudgetInv, RepairsStayInBudget, repairVars
  <1>1. CASE UNCHANGED vars
    BY <1>1 DEF vars
  <1>2. ASSUME NEW actor \in Actors, NEW candidate \in Digests,
               Dispatch(actor, candidate)
        PROVE BudgetInv'
    BY <1>2 DEF Dispatch
  <1>3. ASSUME NEW actor \in Actors, NEW candidate \in Digests,
               NEW changed \in SUBSET Scopes,
               SolParallelProgress(actor, candidate, changed)
        PROVE BudgetInv'
    BY <1>3 DEF SolParallelProgress, ProgressIsLegal, SolLaneOpen
  <1>4. ASSUME NEW actor \in Actors, NEW candidate \in Digests,
               NEW changed \in SUBSET Scopes,
               LunaHandoff(actor, candidate, changed)
        PROVE BudgetInv'
    BY <1>4 DEF LunaHandoff, HandoffIsLegal
  <1>5. ASSUME NEW actor \in Actors, NEW candidate \in Digests,
               NEW ids \in SUBSET (Ids \cup SolIds), NEW changed \in SUBSET Scopes,
               SolAcceptancePass(actor, candidate, ids, changed)
        PROVE BudgetInv'
    BY <1>5 DEF SolAcceptancePass, Reviewable
  <1>6. ASSUME NEW actor \in Actors, NEW candidate \in Digests,
               NEW ids \in SUBSET (Ids \cup SolIds), NEW changed \in SUBSET Scopes,
               NEW evidence \in Evidence,
               SolAcceptanceFail(actor, candidate, ids, changed, evidence)
        PROVE BudgetInv'
    BY <1>6 DEF SolAcceptanceFail, FailureIsLegal, Reviewable
  <1>7. ASSUME NEW actor \in Actors, NEW candidate \in Digests,
               NEW targets \in SUBSET LunaUnits, NEW evidence \in Evidence,
               NEW weight \in Weights,
               OpenLunaRepair(actor, candidate, targets, evidence, weight)
        PROVE BudgetInv'
    <2>1. /\ IsFiniteSet(used_evidence')
          /\ Cardinality(used_evidence') = Cardinality(used_evidence) + 1
      BY <1>7, FS_AddElement DEF OpenLunaRepair, RepairIsLegal
    <2> QED
      BY <1>7, <2>1, BudgetAssumption DEF OpenLunaRepair, RepairIsLegal, WithinBudget, TypeOK
  <1>8. ASSUME NEW actor \in Actors, NEW candidate \in Digests,
               NEW targets \in SUBSET LunaUnits, NEW changed \in SUBSET Scopes,
               LunaRepairHandoff(actor, candidate, targets, changed)
        PROVE BudgetInv'
    BY <1>8 DEF LunaRepairHandoff, RepairHandoffIsLegal
  <1>9. ASSUME NEW actor \in Actors, NEW candidate \in Digests,
               NEW targets \in SUBSET LunaUnits, NEW changed \in SUBSET Scopes,
               SolReclaim(actor, candidate, targets, changed)
        PROVE BudgetInv'
    BY <1>9 DEF SolReclaim, ReclaimIsLegal
  <1>10. ASSUME NEW actor \in Actors, NEW candidate \in Digests,
               NEW dispositions \in [LunaUnits -> {"accepted", "reclaimed"}],
               Close(actor, candidate, dispositions)
        PROVE BudgetInv'
    BY <1>10 DEF Close, CloseIsLegal
  <1> QED
    BY <1>1, <1>2, <1>3, <1>4, <1>5, <1>6, <1>7, <1>8, <1>9, <1>10 DEF Next

(* Repairs keep to the budget, and each answers failure evidence of its own *)
(* (the budget and evidence checks of OPEN_LUNA_REPAIR).                    *)
THEOREM RepairsAreBudgeted == Spec => []RepairsStayInBudget
<1>1. Init => BudgetInv
  BY BudgetAssumption, FS_EmptySet DEF Init, BudgetInv, RepairsStayInBudget
<1>2. BudgetInv => RepairsStayInBudget
  BY DEF BudgetInv
<1> QED
  BY <1>1, <1>2, TypeCorrect, BudgetStep, PTL DEF Spec

-----------------------------------------------------------------------------
(* The open repair targets units of the failure, and none Sol has taken    *)
(* over (the target checks of OPEN_LUNA_REPAIR and LUNA_REPAIR_HANDOFF).   *)
THEOREM RepairsAreAnswerable == Spec => []RepairTargetsStayAnswerable
<1>1. Init => RepairTargetsStayAnswerable
  BY DEF Init, RepairTargetsStayAnswerable
<1>2. RepairTargetsStayAnswerable /\ [Next]_vars => RepairTargetsStayAnswerable'
  <2> SUFFICES ASSUME RepairTargetsStayAnswerable, [Next]_vars
               PROVE RepairTargetsStayAnswerable'
    OBVIOUS
  <2> USE DEF RepairTargetsStayAnswerable, FailedUnits
  <2>1. CASE UNCHANGED vars
    BY <2>1 DEF vars
  <2>2. ASSUME NEW actor \in Actors, NEW candidate \in Digests,
               Dispatch(actor, candidate)
        PROVE RepairTargetsStayAnswerable'
    BY <2>2 DEF Dispatch
  <2>3. ASSUME NEW actor \in Actors, NEW candidate \in Digests,
               NEW changed \in SUBSET Scopes,
               SolParallelProgress(actor, candidate, changed)
        PROVE RepairTargetsStayAnswerable'
    BY <2>3 DEF SolParallelProgress, ProgressIsLegal, SolLaneOpen
  <2>4. ASSUME NEW actor \in Actors, NEW candidate \in Digests,
               NEW changed \in SUBSET Scopes,
               LunaHandoff(actor, candidate, changed)
        PROVE RepairTargetsStayAnswerable'
    BY <2>4 DEF LunaHandoff, HandoffIsLegal
  <2>5. ASSUME NEW actor \in Actors, NEW candidate \in Digests,
               NEW ids \in SUBSET (Ids \cup SolIds), NEW changed \in SUBSET Scopes,
               SolAcceptancePass(actor, candidate, ids, changed)
        PROVE RepairTargetsStayAnswerable'
    BY <2>5 DEF SolAcceptancePass, Reviewable
  <2>6. ASSUME NEW actor \in Actors, NEW candidate \in Digests,
               NEW ids \in SUBSET (Ids \cup SolIds), NEW changed \in SUBSET Scopes,
               NEW evidence \in Evidence,
               SolAcceptanceFail(actor, candidate, ids, changed, evidence)
        PROVE RepairTargetsStayAnswerable'
    BY <2>6 DEF SolAcceptanceFail, FailureIsLegal, Reviewable
  <2>7. ASSUME NEW actor \in Actors, NEW candidate \in Digests,
               NEW targets \in SUBSET LunaUnits, NEW evidence \in Evidence,
               NEW weight \in Weights,
               OpenLunaRepair(actor, candidate, targets, evidence, weight)
        PROVE RepairTargetsStayAnswerable'
    BY <2>7 DEF OpenLunaRepair, RepairIsLegal, Answerable
  <2>8. ASSUME NEW actor \in Actors, NEW candidate \in Digests,
               NEW targets \in SUBSET LunaUnits, NEW changed \in SUBSET Scopes,
               LunaRepairHandoff(actor, candidate, targets, changed)
        PROVE RepairTargetsStayAnswerable'
    BY <2>8 DEF LunaRepairHandoff, RepairHandoffIsLegal
  <2>9. ASSUME NEW actor \in Actors, NEW candidate \in Digests,
               NEW targets \in SUBSET LunaUnits, NEW changed \in SUBSET Scopes,
               SolReclaim(actor, candidate, targets, changed)
        PROVE RepairTargetsStayAnswerable'
    BY <2>9 DEF SolReclaim, ReclaimIsLegal
  <2>10. ASSUME NEW actor \in Actors, NEW candidate \in Digests,
               NEW dispositions \in [LunaUnits -> {"accepted", "reclaimed"}],
               Close(actor, candidate, dispositions)
        PROVE RepairTargetsStayAnswerable'
    BY <2>10 DEF Close, CloseIsLegal
  <2> QED
    BY <2>1, <2>2, <2>3, <2>4, <2>5, <2>6, <2>7, <2>8, <2>9, <2>10 DEF Next
<1> QED
  BY <1>1, <1>2, PTL DEF Spec

-----------------------------------------------------------------------------
(* Failing can not go on for ever: with the budget and the number of units *)
(* this bounds the failures of a contract (the evidence check of           *)
(* SOL_ACCEPTANCE_FAIL, the attempt counter, the unreclaimed check).       *)
LEMMA AnsweredStep == TypeOK /\ AnsweredInv /\ [Next]_vars => AnsweredInv'
  <1> SUFFICES ASSUME TypeOK, AnsweredInv, [Next]_vars PROVE AnsweredInv'
    OBVIOUS
  <1>0. /\ IsFiniteSet(reclaimed) /\ Cardinality(reclaimed) \in Nat
        /\ Cardinality(seen_failure_evidence) \in Nat
        /\ attempts \in Nat
    BY EnvelopeAssumption, FS_Subset, FS_CardinalityType DEF TypeOK, AnsweredInv
  <1> USE <1>0 DEF AnsweredInv, FailuresAreAnswered, repairVars
  <1>1. CASE UNCHANGED vars
    BY <1>1 DEF vars
  <1>2. ASSUME NEW actor \in Actors, NEW candidate \in Digests,
               Dispatch(actor, candidate)
        PROVE AnsweredInv'
    BY <1>2 DEF Dispatch
  <1>3. ASSUME NEW actor \in Actors, NEW candidate \in Digests,
               NEW changed \in SUBSET Scopes,
               SolParallelProgress(actor, candidate, changed)
        PROVE AnsweredInv'
    BY <1>3 DEF SolParallelProgress, ProgressIsLegal, SolLaneOpen
  <1>4. ASSUME NEW actor \in Actors, NEW candidate \in Digests,
               NEW changed \in SUBSET Scopes,
               LunaHandoff(actor, candidate, changed)
        PROVE AnsweredInv'
    BY <1>4 DEF LunaHandoff, HandoffIsLegal
  <1>5. ASSUME NEW actor \in Actors, NEW candidate \in Digests,
               NEW ids \in SUBSET (Ids \cup SolIds), NEW changed \in SUBSET Scopes,
               SolAcceptancePass(actor, candidate, ids, changed)
        PROVE AnsweredInv'
    BY <1>5 DEF SolAcceptancePass, Reviewable
  <1>6. ASSUME NEW actor \in Actors, NEW candidate \in Digests,
               NEW ids \in SUBSET (Ids \cup SolIds), NEW changed \in SUBSET Scopes,
               NEW evidence \in Evidence,
               SolAcceptanceFail(actor, candidate, ids, changed, evidence)
        PROVE AnsweredInv'
    <2>1. /\ IsFiniteSet(seen_failure_evidence')
          /\ Cardinality(seen_failure_evidence') = Cardinality(seen_failure_evidence) + 1
      BY <1>6, FS_AddElement DEF SolAcceptanceFail, FailureIsLegal
    <2> QED
      BY <1>6, <2>1 DEF SolAcceptanceFail, FailureIsLegal, Reviewable
  <1>7. ASSUME NEW actor \in Actors, NEW candidate \in Digests,
               NEW targets \in SUBSET LunaUnits, NEW evidence \in Evidence,
               NEW weight \in Weights,
               OpenLunaRepair(actor, candidate, targets, evidence, weight)
        PROVE AnsweredInv'
    BY <1>7 DEF OpenLunaRepair, RepairIsLegal
  <1>8. ASSUME NEW actor \in Actors, NEW candidate \in Digests,
               NEW targets \in SUBSET LunaUnits, NEW changed \in SUBSET Scopes,
               LunaRepairHandoff(actor, candidate, targets, changed)
        PROVE AnsweredInv'
    BY <1>8 DEF LunaRepairHandoff, RepairHandoffIsLegal
  <1>9. ASSUME NEW actor \in Actors, NEW candidate \in Digests,
               NEW targets \in SUBSET LunaUnits, NEW changed \in SUBSET Scopes,
               SolReclaim(actor, candidate, targets, changed)
        PROVE AnsweredInv'
    <2>1. PICK u \in targets : u \notin reclaimed
      BY <1>9 DEF SolReclaim, ReclaimIsLegal, Answerable
    <2>2. /\ IsFiniteSet(reclaimed \cup {u})
          /\ Cardinality(reclaimed \cup {u}) = Cardinality(reclaimed) + 1
      BY <2>1, FS_AddElement
    <2>3. IsFiniteSet(reclaimed') /\ reclaimed \cup {u} \subseteq reclaimed'
      BY <1>9, <2>1, EnvelopeAssumption, FS_Subset, FS_Union DEF SolReclaim, ReclaimIsLegal
    <2>4. /\ Cardinality(reclaimed \cup {u}) <= Cardinality(reclaimed')
          /\ Cardinality(reclaimed') \in Nat
      BY <2>2, <2>3, FS_Subset, FS_CardinalityType
    <2> QED
      BY <1>9, <2>2, <2>4 DEF SolReclaim, ReclaimIsLegal
  <1>10. ASSUME NEW actor \in Actors, NEW candidate \in Digests,
               NEW dispositions \in [LunaUnits -> {"accepted", "reclaimed"}],
               Close(actor, candidate, dispositions)
        PROVE AnsweredInv'
    BY <1>10 DEF Close, CloseIsLegal
  <1> QED
    BY <1>1, <1>2, <1>3, <1>4, <1>5, <1>6, <1>7, <1>8, <1>9, <1>10 DEF Next

(* Every failure but the one being looked at was answered, so a contract    *)
(* can not fail for ever (what may follow ACCEPTANCE_FAILED).               *)
THEOREM FailuresAreBounded == Spec => []FailuresAreAnswered
<1>1. Init => AnsweredInv
  BY FS_EmptySet DEF Init, AnsweredInv, FailuresAreAnswered
<1>2. AnsweredInv => FailuresAreAnswered
  BY DEF AnsweredInv
<1> QED
  BY <1>1, <1>2, TypeCorrect, AnsweredStep, PTL DEF Spec

-----------------------------------------------------------------------------
(* The replay implements AcceptanceAuthority: deliveries and reclaims are  *)
(* new candidates about which nothing is known, a pass is a review, and    *)
(* the close settles the claim.                                            *)
LEMMA AuthorityStep ==
  TypeOK /\ ReviewInv /\ ReviewInv' /\ [Next]_vars => [Authority!Next]_(Authority!vars)
  <1> SUFFICES ASSUME TypeOK, ReviewInv, ReviewInv', [Next]_vars
               PROVE [Authority!Next]_(Authority!vars)
    OBVIOUS
  <1> USE DEF Authority!Next, Authority!vars
  <1>a. ASSUME UNCHANGED <<current, accepted, reclaimed, state = "CLOSED">>
        PROVE UNCHANGED Authority!vars
    BY <1>a
  <1>1. CASE UNCHANGED vars
    BY <1>1 DEF vars
  <1>2. ASSUME NEW actor \in Actors, NEW candidate \in Digests,
               Dispatch(actor, candidate)
        PROVE [Authority!Next]_(Authority!vars)
    BY <1>2 DEF Dispatch
  <1>3. ASSUME NEW actor \in Actors, NEW candidate \in Digests,
               NEW changed \in SUBSET Scopes,
               SolParallelProgress(actor, candidate, changed)
        PROVE [Authority!Next]_(Authority!vars)
    BY <1>3 DEF SolParallelProgress, ProgressIsLegal, SolLaneOpen
  <1>4. ASSUME NEW actor \in Actors, NEW candidate \in Digests,
               NEW changed \in SUBSET Scopes,
               LunaHandoff(actor, candidate, changed)
        PROVE [Authority!Next]_(Authority!vars)
    BY <1>4 DEF LunaHandoff, HandoffIsLegal, NewCandidate, Authority!Deliver
  <1>5. ASSUME NEW actor \in Actors, NEW candidate \in Digests,
               NEW ids \in SUBSET (Ids \cup SolIds), NEW changed \in SUBSET Scopes,
               SolAcceptancePass(actor, candidate, ids, changed)
        PROVE [Authority!Next]_(Authority!vars)
    BY <1>5 DEF SolAcceptancePass, Reviewable, AcceptanceIds, Authority!Review
  <1>6. ASSUME NEW actor \in Actors, NEW candidate \in Digests,
               NEW ids \in SUBSET (Ids \cup SolIds), NEW changed \in SUBSET Scopes,
               NEW evidence \in Evidence,
               SolAcceptanceFail(actor, candidate, ids, changed, evidence)
        PROVE [Authority!Next]_(Authority!vars)
    BY <1>6 DEF SolAcceptanceFail, FailureIsLegal, Reviewable
  <1>7. ASSUME NEW actor \in Actors, NEW candidate \in Digests,
               NEW targets \in SUBSET LunaUnits, NEW evidence \in Evidence,
               NEW weight \in Weights,
               OpenLunaRepair(actor, candidate, targets, evidence, weight)
        PROVE [Authority!Next]_(Authority!vars)
    BY <1>7 DEF OpenLunaRepair, RepairIsLegal
  <1>8. ASSUME NEW actor \in Actors, NEW candidate \in Digests,
               NEW targets \in SUBSET LunaUnits, NEW changed \in SUBSET Scopes,
               LunaRepairHandoff(actor, candidate, targets, changed)
        PROVE [Authority!Next]_(Authority!vars)
    BY <1>8 DEF LunaRepairHandoff, RepairHandoffIsLegal, NewCandidate, Authority!Deliver
  <1>9. ASSUME NEW actor \in Actors, NEW candidate \in Digests,
               NEW targets \in SUBSET LunaUnits, NEW changed \in SUBSET Scopes,
               SolReclaim(actor, candidate, targets, changed)
        PROVE [Authority!Next]_(Authority!vars)
    <2>1. targets \in SUBSET (LunaUnits \ reclaimed) /\ targets # {}
      BY <1>9 DEF SolReclaim, ReclaimIsLegal, Answerable
    <2>2. Authority!TakeOver
      BY <1>9, <2>1 DEF SolReclaim, ReclaimIsLegal, NewCandidate, Authority!TakeOver
    <2> QED
      BY <2>2
  <1>10. ASSUME NEW actor \in Actors, NEW candidate \in Digests,
               NEW dispositions \in [LunaUnits -> {"accepted", "reclaimed"}],
               Close(actor, candidate, dispositions)
        PROVE [Authority!Next]_(Authority!vars)
    <2>1. Authority!IdsOf(LunaUnits \ reclaimed) \subseteq accepted
      BY <1>10 DEF Close, CloseIsLegal, ReviewInv, credited_units, IdsOf, Authority!IdsOf
    <2>2. accepted # {}
      BY <1>10 DEF Close, CloseIsLegal, ReviewInv
    <2>3. Authority!Settle
      BY <1>10, <2>1, <2>2 DEF Close, CloseIsLegal, Authority!Settle
    <2> QED
      BY <2>3
  <1> QED
    BY <1>1, <1>2, <1>3, <1>4, <1>5, <1>6, <1>7, <1>8, <1>9, <1>10 DEF Next

(* The replay implements the authority to accept: only what was assessed on *)
(* the current candidate settles a unit, and closing is final.              *)
THEOREM ClosureImplementsAuthority == Spec => ImplementsAuthority
<1>1. Init => Authority!Init
  BY DEF Init, Authority!Init
<1>2. Init => ReviewInv
  BY DEF Init, ReviewInv
<1> QED
  BY <1>1, <1>2, TypeCorrect, ReviewStep, AuthorityStep, PTL
  DEF Spec, ImplementsAuthority, Authority!Spec
-----------------------------------------------------------------------------
(* project against the replay                                              *)

\* A kind is offered in the states that its case of next_events names.
LEMMA OfferedKinds ==
  ASSUME TypeOK, state # "START", NEW kind \in Kinds
  PROVE  kind \in next_events <=>
           \/ kind = "LUNA_HANDOFF" /\ state = "DISPATCHED"
           \/ kind = "SOL_PARALLEL_PROGRESS" /\ SolLaneOpen /\ SolUnits # {}
           \/ /\ kind \in {"SOL_ACCEPTANCE_FAIL", "SOL_ACCEPTANCE_PASS"}
              /\ state \in {"AWAITING_ACCEPTANCE", "RECLAIMED"}
           \/ kind = "SOL_RECLAIM" /\ state = "FAILED" /\ available_failed_units # {}
           \/ /\ kind = "OPEN_LUNA_REPAIR" /\ state = "FAILED"
              /\ available_failed_units # {} /\ attempts < MaxAttempts /\ cost < MaxCost
           \/ kind = "LUNA_REPAIR_HANDOFF" /\ state = "REPAIR_OPEN"
           \/ kind = "CLOSE" /\ state = "ACCEPTED_CANDIDATE"
<1>1. CASE state = "DISPATCHED"
  BY <1>1 DEF next_events, Kinds, SolLaneOpen
<1>2. CASE state = "AWAITING_ACCEPTANCE"
  BY <1>2 DEF next_events, Kinds, SolLaneOpen
<1>3. CASE state = "FAILED"
  <2>1. next_events = failed_events
    BY <1>3 DEF next_events
  <2> QED
    BY <1>3, <2>1 DEF failed_events, Kinds, SolLaneOpen
<1>4. CASE state = "REPAIR_OPEN"
  BY <1>4 DEF next_events, Kinds, SolLaneOpen
<1>5. CASE state = "RECLAIMED"
  BY <1>5 DEF next_events, Kinds, SolLaneOpen
<1>6. CASE state = "ACCEPTED_CANDIDATE"
  BY <1>6 DEF next_events, Kinds, SolLaneOpen
<1>7. CASE state = "CLOSED"
  BY <1>7 DEF next_events, Kinds, SolLaneOpen
<1> QED
  BY <1>1, <1>2, <1>3, <1>4, <1>5, <1>6, <1>7 DEF TypeOK, States

\* What project hides the replay refuses.
LEMMA NothingLegalIsHidden ==
  ASSUME TypeOK, ReviewInv, state # "START", NEW kind \in Kinds, LegalKind(kind)
  PROVE  kind \in next_events
<1>1. PICK actor \in Actors, candidate \in Digests : LegalKind(kind)!(actor, candidate)
  BY DEF LegalKind
<1>2. CASE kind = "SOL_PARALLEL_PROGRESS"
  BY <1>1, <1>2, OfferedKinds DEF ProgressIsLegal, EditsWithin
<1>3. CASE kind = "LUNA_HANDOFF"
  BY <1>1, <1>3, OfferedKinds DEF HandoffIsLegal
<1>4. CASE kind = "SOL_ACCEPTANCE_PASS"
  BY <1>1, <1>4, OfferedKinds DEF Reviewable
<1>5. CASE kind = "SOL_ACCEPTANCE_FAIL"
  BY <1>1, <1>5, OfferedKinds DEF FailureIsLegal, Reviewable
<1>6. CASE kind = "OPEN_LUNA_REPAIR"
  <2>1. PICK targets \in SUBSET LunaUnits, evidence \in Evidence, weight \in Weights :
          RepairIsLegal(actor, candidate, targets, evidence, weight)
    BY <1>1, <1>6
  <2>2. weight \in Nat \ {0} /\ MaxAttempts \in Nat /\ MaxCost \in Nat
    BY BudgetAssumption
  <2>3. attempts < MaxAttempts /\ cost < MaxCost
    BY <2>1, <2>2 DEF RepairIsLegal, WithinBudget, TypeOK
  <2>4. state = "FAILED" /\ available_failed_units # {}
    BY <2>1 DEF RepairIsLegal, Answerable, available_failed_units
  <2> QED
    BY <1>6, <2>3, <2>4, OfferedKinds
<1>7. CASE kind = "LUNA_REPAIR_HANDOFF"
  BY <1>1, <1>7, OfferedKinds DEF RepairHandoffIsLegal
<1>8. CASE kind = "SOL_RECLAIM"
  <2>1. state = "FAILED" /\ available_failed_units # {}
    BY <1>1, <1>8 DEF ReclaimIsLegal, Answerable, available_failed_units
  <2> QED
    BY <1>8, <2>1, OfferedKinds
<1>9. CASE kind = "CLOSE"
  <2>1. state = "ACCEPTED_CANDIDATE"
    BY <1>1, <1>9 DEF CloseIsLegal, ReviewInv
  <2> QED
    BY <1>9, <2>1, OfferedKinds
<1> QED
  BY <1>2, <1>3, <1>4, <1>5, <1>6, <1>7, <1>8, <1>9 DEF Kinds

\* There is evidence for one more failure.
LEMMA FailuresMayGoOn ==
  ASSUME TypeOK, BudgetInv, AnsweredInv, state # "FAILED"
  PROVE  \E evidence \in Evidence : evidence \notin seen_failure_evidence
<1>1. /\ IsFiniteSet(reclaimed) /\ Cardinality(reclaimed) <= Cardinality(LunaUnits)
      /\ Cardinality(reclaimed) \in Nat /\ Cardinality(LunaUnits) \in Nat
      /\ Cardinality(seen_failure_evidence) \in Nat
  BY EnvelopeAssumption, FS_Subset, FS_CardinalityType DEF TypeOK, AnsweredInv
<1>2. attempts \in Nat /\ attempts <= MaxAttempts /\ MaxAttempts \in Nat
  BY BudgetAssumption DEF TypeOK, BudgetInv, RepairsStayInBudget
<1>3. Cardinality(seen_failure_evidence) <= attempts + Cardinality(reclaimed)
  BY <1>1, <1>2 DEF AnsweredInv, FailuresAreAnswered
<1>4. Cardinality(seen_failure_evidence) <= MaxAttempts + Cardinality(LunaUnits)
  BY <1>1, <1>2, <1>3
<1>5. IsFiniteSet(seen_failure_evidence) /\ seen_failure_evidence \in SUBSET Evidence
  BY DEF AnsweredInv, TypeOK
<1>6. seen_failure_evidence # Evidence
  BY <1>4, <1>5, SupplyAssumption
<1> QED
  BY <1>5, <1>6

\* What project offers, but for CLOSE, the replay accepts in some form.
LEMMA NothingRefusedIsOffered ==
  ASSUME TypeOK, BudgetInv, AnsweredInv, state # "START",
         NEW kind \in Kinds \ Bounded, kind \in next_events, kind # "CLOSE"
  PROVE  LegalKind(kind)
<1>1. /\ Controller \in Actors /\ Executor \in Actors /\ current \in Digests
      /\ LunaUnits \in SUBSET Scopes /\ SolUnits \in SUBSET Scopes /\ {} \in SUBSET Scopes
  BY IdentityAssumption DEF TypeOK, Scopes
<1>2. PICK fresh \in Digests : fresh # current
  BY <1>1, SupplyAssumption
<1>3. Ids # {} /\ Ids \in SUBSET (Ids \cup SolIds)
  BY EnvelopeAssumption
<1>4. kind \in Kinds
  OBVIOUS
<1>5. CASE kind = "SOL_PARALLEL_PROGRESS"
  <2>1. SolLaneOpen /\ SolUnits # {}
    BY <1>4, <1>5, OfferedKinds
  <2>2. parallel < MaxParallel
    BY <1>5, BudgetAssumption DEF Bounded, TypeOK
  <2>3. ProgressIsLegal(Controller, current, SolUnits)
    BY <2>1, <2>2 DEF ProgressIsLegal, EditsWithin
  <2> QED
    BY <1>1, <1>5, <2>3 DEF LegalKind
<1>6. CASE kind = "LUNA_HANDOFF"
  <2>1. state = "DISPATCHED"
    BY <1>4, <1>6, OfferedKinds
  <2>2. HandoffIsLegal(Executor, fresh, LunaUnits)
    BY <1>2, <2>1 DEF HandoffIsLegal, NewCandidate
  <2> QED
    BY <1>1, <1>6, <2>2 DEF LegalKind
<1>7. CASE kind = "SOL_ACCEPTANCE_PASS"
  <2>1. state \in {"AWAITING_ACCEPTANCE", "RECLAIMED"}
    BY <1>4, <1>7, OfferedKinds
  <2>2. Reviewable(Controller, current, Ids, {})
    BY <1>3, <2>1 DEF Reviewable, AcceptanceIds
  <2> QED
    BY <1>1, <1>3, <1>7, <2>2 DEF LegalKind
<1>8. CASE kind = "SOL_ACCEPTANCE_FAIL"
  <2>1. state \in {"AWAITING_ACCEPTANCE", "RECLAIMED"}
    BY <1>4, <1>8, OfferedKinds
  <2>2. PICK evidence \in Evidence : evidence \notin seen_failure_evidence
    BY <2>1, FailuresMayGoOn
  <2>3. FailureIsLegal(Controller, current, Ids, {}, evidence)
    BY <1>3, <2>1, <2>2 DEF FailureIsLegal, Reviewable, AcceptanceIds
  <2> QED
    BY <1>1, <1>3, <1>8, <2>3 DEF LegalKind
<1>9. CASE kind = "OPEN_LUNA_REPAIR"
  <2>1. /\ state = "FAILED" /\ available_failed_units # {}
        /\ attempts < MaxAttempts /\ cost < MaxCost
    BY <1>4, <1>9, OfferedKinds
  <2>2. /\ last_failure_evidence \in Evidence
        /\ last_failure_evidence \notin used_evidence
    BY <2>1 DEF BudgetInv, TypeOK
  <2>3. WithinBudget(1)
    BY <2>1, BudgetAssumption DEF WithinBudget, TypeOK
  <2>4. /\ available_failed_units \in SUBSET LunaUnits
        /\ Answerable(available_failed_units)
    BY <2>1, EnvelopeAssumption DEF Answerable, available_failed_units, FailedUnits, TypeOK
  <2>5. RepairIsLegal(Controller, current, available_failed_units, last_failure_evidence, 1)
    BY <2>1, <2>2, <2>3, <2>4 DEF RepairIsLegal
  <2>6. 1 \in Weights
    BY SupplyAssumption
  <2> QED
    BY <1>1, <1>9, <2>2, <2>4, <2>5, <2>6 DEF LegalKind
<1>10. CASE kind = "LUNA_REPAIR_HANDOFF"
  <2>1. state = "REPAIR_OPEN" /\ open_target \in SUBSET LunaUnits /\ open_target \in SUBSET Scopes
    BY <1>4, <1>10, OfferedKinds DEF TypeOK, Scopes
  <2>2. RepairHandoffIsLegal(Executor, fresh, open_target, open_target)
    BY <1>2, <2>1 DEF RepairHandoffIsLegal, NewCandidate
  <2> QED
    BY <1>1, <1>10, <2>1, <2>2 DEF LegalKind
<1>11. CASE kind = "SOL_RECLAIM"
  <2>1. state = "FAILED" /\ available_failed_units # {}
    BY <1>4, <1>11, OfferedKinds
  <2>2. /\ available_failed_units \in SUBSET LunaUnits
        /\ available_failed_units \in SUBSET Scopes
        /\ Answerable(available_failed_units)
    BY <2>1, EnvelopeAssumption
    DEF Answerable, available_failed_units, FailedUnits, TypeOK, Scopes
  <2>3. ReclaimIsLegal(Controller, fresh, available_failed_units, available_failed_units)
    BY <1>2, <2>1, <2>2 DEF ReclaimIsLegal, EditsWithin, NewCandidate
  <2> QED
    BY <1>1, <1>11, <2>2, <2>3 DEF LegalKind
<1> QED
  BY <1>4, <1>5, <1>6, <1>7, <1>8, <1>9, <1>10, <1>11 DEF Kinds

(* What project says may come next is what the replay accepts next, but for *)
(* CLOSE: no legal event is hidden from a controller, and none is offered   *)
(* that the budget, the reclaimed units or used evidence rule out.          *)
THEOREM ProjectionShowsLegalEvents == Spec => []ProjectionIsExact
<1>1. Init => ReviewInv /\ BudgetInv /\ AnsweredInv
  BY BudgetAssumption, FS_EmptySet
  DEF Init, ReviewInv, BudgetInv, RepairsStayInBudget, AnsweredInv, FailuresAreAnswered
<1>2. TypeOK /\ ReviewInv /\ BudgetInv /\ AnsweredInv => ProjectionIsExact
  <2> SUFFICES ASSUME TypeOK, ReviewInv, BudgetInv, AnsweredInv, state # "START",
                      NEW kind \in Kinds \ Bounded
               PROVE  /\ LegalKind(kind) => kind \in next_events
                      /\ (kind \in next_events /\ kind # "CLOSE") => LegalKind(kind)
    BY DEF ProjectionIsExact
  <2> QED
    BY NothingLegalIsHidden, NothingRefusedIsOffered
<1> QED
  BY <1>1, <1>2, TypeCorrect, ReviewStep, BudgetStep, AnsweredStep, PTL DEF Spec
=============================================================================
