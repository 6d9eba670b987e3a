---------------------------- MODULE FrontierProofs ----------------------------
(***************************************************************************)
(* Followed plans stay acceptable, for every graph, every number of        *)
(* packages and every writer cap.  TypeOK and FollowedPlansAreAccepted are *)
(* inductive together: the queues must stay true of the document for the   *)
(* statuses to stay valid when an old answer is followed.                  *)
(* SortIsExact needs no invariant: it is about what the topological sort   *)
(* visits, in every document.  NobodyIsStuck combines it with what plan    *)
(* does with a package that waits for nothing, and with the selection of a *)
(* domain, which must choose one whenever a package is eligible.           *)
(* SchedulesAreExact is about three event loops.  Their states are sound,  *)
(* as a round starts what the lanes have room for and goes to the next     *)
(* end, and each round completes a package unless some wait for each       *)
(* other.  Then come what one loop adds: contexts, and an overlap.         *)
(***************************************************************************)
EXTENDS FrontierSchedules, FiniteSetTheorems, SequenceTheorems, WellFoundedInduction, TLAPS

IInv == TypeOK /\ FollowedPlansAreAccepted

\* One more writer is one more, at most.
LEMMA OneMoreWriter ==
  ASSUME NEW R, NEW T, IsFiniteSet(R), NEW p, T \subseteq R \cup {p}
  PROVE  /\ Cardinality(T) <= Cardinality(R) + 1
         /\ p \in R \/ p \notin T => Cardinality(T) <= Cardinality(R)
<1>1. IsFiniteSet(R \cup {p}) /\ Cardinality(R) \in Nat
  BY FS_AddElement, FS_CardinalityType
<1>2. Cardinality(R \cup {p}) <= Cardinality(R) + 1
  BY <1>1, FS_AddElement
<1>3. IsFiniteSet(T) /\ Cardinality(T) <= Cardinality(R \cup {p})
  BY <1>1, FS_Subset
<1>4. p \in R \/ p \notin T => T \subseteq R
  OBVIOUS
<1>5. T \subseteq R => Cardinality(T) <= Cardinality(R)
  BY FS_Subset
<1>6. Cardinality(T) \in Nat /\ Cardinality(R \cup {p}) \in Nat
  BY <1>1, <1>3, FS_CardinalityType
<1> QED
  BY <1>1, <1>2, <1>3, <1>4, <1>5, <1>6

LEMMA WritersAreFinite == IsFiniteSet(Running) /\ Cardinality(Running) \in Nat
<1>1. Running \subseteq Packages
  BY DEF Running
<1> QED
  BY <1>1, FrontierAssumption, FS_Subset, FS_CardinalityType

\* Nothing is declared, taken or offered at first.
LEMMA Initially == Init => IInv
<1> SUFFICES ASSUME Init PROVE IInv
  OBVIOUS
<1>1. Running = {} /\ Cardinality({}) = 0
  BY FS_EmptySet DEF Init, Running
<1>2. TypeOK
  BY FrontierAssumption DEF Init, TypeOK, STATUSES, NothingPlanned
<1>3. ValidStatuses
  BY <1>1, FrontierAssumption DEF Init, ValidStatuses
<1>4. QueuesStayTrue
  BY DEF Init, QueuesStayTrue, NothingPlanned
<1> QED
  BY <1>2, <1>3, <1>4 DEF IInv, FollowedPlansAreAccepted

------------------------------------------------------------------------------
\* What a change of one package leaves of the others.
LEMMA OthersKeep ==
  ASSUME TypeOK, NEW p \in Packages, NEW s, NEW e, SetStatus(p, s, e),
         status[p] \notin TERMINAL_DEPENDENCY_STATUSES,
         \A q \in Packages \ {p} : attempts_used'[q] = attempts_used[q]
  PROVE  /\ \A q \in Packages : DependencyReady(q) => DependencyReady(q)'
         /\ EligibleLuna \ {p} \subseteq EligibleLuna'
         /\ SolReady \ {p} \subseteq SolReady'
         /\ Review \ {p} \subseteq Review'
         /\ Repair \ {p} \subseteq Repair'
<1>1. /\ \A q \in Packages \ {p} : status'[q] = status[q] /\ estimate'[q] = estimate[q]
      /\ package' = package /\ dependencies' = dependencies
  BY DEF SetStatus, TypeOK
<1>2. \A q \in Packages : dependencies[q] \subseteq Packages
  BY DEF TypeOK
<1>3. ASSUME NEW q \in Packages, DependencyReady(q) PROVE DependencyReady(q)'
  <2>1. \A d \in dependencies[q] : d \in Packages \ {p}
    BY <1>2, <1>3 DEF DependencyReady
  <2> QED
    BY <1>1, <1>3, <2>1 DEF DependencyReady
<1>4. ASSUME NEW q \in EligibleLuna, q # p PROVE q \in EligibleLuna'
  <2>1. /\ q \in Packages /\ status[q] = "PENDING" /\ package[q].executor = "LUNA"
        /\ DependencyReady(q) /\ ~(package[q].net_substitution <= 0)
    BY DEF EligibleLuna, Pending, Reasons
  <2>2. /\ status'[q] = "PENDING" /\ package'[q].executor = "LUNA"
        /\ DependencyReady(q)' /\ ~(package'[q].net_substitution <= 0)
    BY <1>1, <1>3, <1>4, <2>1
  <2> QED
    BY <2>1, <2>2 DEF EligibleLuna, Pending, Reasons
<1>5. ASSUME NEW q \in SolReady, q # p PROVE q \in SolReady'
  BY <1>1, <1>3, <1>5 DEF SolReady, Pending
<1>6. ASSUME NEW q \in Review, q # p PROVE q \in Review'
  BY <1>1, <1>6 DEF Review
<1>7. ASSUME NEW q \in Repair, q # p PROVE q \in Repair'
  BY <1>1, <1>7 DEF Repair, _repair_is_eligible
<1> QED
  BY <1>3, <1>4, <1>5, <1>6, <1>7

\* A change of one package that keeps the statuses valid.
LEMMA StatusesStayValid ==
  ASSUME IInv, NEW p \in Packages, NEW s \in STATUSES \ {"PENDING"},
         NEW e \in RepairFields \cup {None}, SetStatus(p, s, e),
         status[p] \notin TERMINAL_DEPENDENCY_STATUSES, DependencyReady(p),
         s = "RUNNING" => package[p].executor = "LUNA" /\ SlotFree,
         s = "FAILED" <=> e # None,
         attempts_used' \in [Packages -> 0..attempts_max],
         \A q \in Packages \ {p} : attempts_used'[q] = attempts_used[q]
  PROVE  ValidStatuses'
<1> USE DEF IInv, FollowedPlansAreAccepted
<1>1. /\ \A q \in Packages \ {p} : status'[q] = status[q] /\ estimate'[q] = estimate[q]
      /\ status'[p] = s /\ estimate'[p] = e
      /\ package' = package /\ dependencies' = dependencies
  BY DEF SetStatus, TypeOK
<1>2. \A q \in Packages : DependencyReady(q) => DependencyReady(q)'
  BY OthersKeep
<1>3. \A q \in Running' : package'[q].executor = "LUNA"
  BY <1>1 DEF Running, ValidStatuses
<1>4. \A q \in Packages : status'[q] # "PENDING" => DependencyReady(q)'
  BY <1>1, <1>2 DEF ValidStatuses
<1>5. Cardinality(Running') <= writer_cap
  <2>1. /\ Running' \subseteq Running \cup {p}
        /\ p \in Running' => s = "RUNNING"
    BY <1>1 DEF Running
  <2>2. /\ Cardinality(Running') <= Cardinality(Running) + 1
        /\ p \notin Running' => Cardinality(Running') <= Cardinality(Running)
    BY <2>1, WritersAreFinite, OneMoreWriter
  <2>3. Cardinality(Running') \in Nat
    BY <2>1, WritersAreFinite, FS_AddElement, FS_Subset, FS_CardinalityType
  <2> QED
    BY <2>1, <2>2, <2>3, WritersAreFinite, FrontierAssumption DEF SlotFree, ValidStatuses
<1>6. \A q \in Packages :
        /\ status'[q] = "FAILED" <=> estimate'[q] # None
        /\ status'[q] = "FAILED" => attempts_used'[q] <= attempts_max
  BY <1>1, FrontierAssumption DEF ValidStatuses
<1> QED
  BY <1>3, <1>4, <1>5, <1>6 DEF ValidStatuses

\* What the queues hold, said without the sets of plan.
LEMMA QueuedPackages ==
  ASSUME IInv, NEW p
  PROVE  /\ p \in queues.luna_envelope =>
              /\ p \in Packages /\ status[p] = "PENDING" /\ package[p].executor = "LUNA"
              /\ DependencyReady(p) /\ ~(package[p].net_substitution <= 0)
         /\ p \in queues.sol_ready =>
              /\ p \in Packages /\ status[p] = "PENDING" /\ package[p].executor = "SOL"
              /\ DependencyReady(p)
         /\ p \in queues.review => p \in Packages /\ status[p] = "HANDOFF" /\ DependencyReady(p)
         /\ p \in queues.repair =>
              /\ p \in Packages /\ status[p] = "FAILED" /\ package[p].executor = "LUNA"
              /\ _repair_is_eligible(p) /\ attempts_used[p] < attempts_max /\ DependencyReady(p)
<1> USE DEF IInv, FollowedPlansAreAccepted, QueuesStayTrue
<1>1. p \in EligibleLuna =>
        /\ p \in Packages /\ status[p] = "PENDING" /\ package[p].executor = "LUNA"
        /\ DependencyReady(p) /\ ~(package[p].net_substitution <= 0)
  BY DEF EligibleLuna, Pending, Reasons
<1>2. p \in SolReady =>
        /\ p \in Packages /\ status[p] = "PENDING" /\ package[p].executor = "SOL"
        /\ DependencyReady(p)
  BY DEF SolReady, Pending
<1>3. p \in Review => p \in Packages /\ status[p] = "HANDOFF" /\ DependencyReady(p)
  BY DEF Review, ValidStatuses
<1>4. p \in Repair => p \in Packages /\ _repair_is_eligible(p)
  BY DEF Repair
<1>5. _repair_is_eligible(p) => /\ status[p] = "FAILED" /\ package[p].executor = "LUNA"
                               /\ attempts_used[p] < attempts_max
  BY DEF _repair_is_eligible
<1>6. p \in Packages /\ status[p] = "FAILED" => DependencyReady(p)
  BY DEF ValidStatuses
<1> QED
  BY <1>1, <1>2, <1>3, <1>4, <1>5, <1>6

\* A change of one package that no queue holds afterwards keeps the invariant.
LEMMA ChangeKeepsInv ==
  ASSUME IInv, NEW p \in Packages, NEW s \in STATUSES \ {"PENDING"},
         NEW e \in RepairFields \cup {None}, SetStatus(p, s, e),
         status[p] \notin TERMINAL_DEPENDENCY_STATUSES, DependencyReady(p),
         s = "RUNNING" => package[p].executor = "LUNA" /\ SlotFree,
         s = "FAILED" <=> e # None,
         attempts_used' \in [Packages -> 0..attempts_max],
         \A q \in Packages \ {p} : attempts_used'[q] = attempts_used[q],
         queues' \in [luna_envelope : SUBSET Packages, sol_ready : SUBSET Packages,
                      review : SUBSET Packages, repair : SUBSET Packages,
                      tail_wait_allowed : BOOLEAN],
         queues'.luna_envelope \subseteq queues.luna_envelope \ {p},
         queues'.sol_ready \subseteq queues.sol_ready \ {p},
         queues'.review \subseteq queues.review \ {p},
         queues'.repair \subseteq queues.repair \ {p}
  PROVE  IInv'
<1>1. TypeOK'
  <2>1. status' \in [Packages -> STATUSES]
    BY DEF IInv, TypeOK, SetStatus
  <2>2. estimate' \in [Packages -> RepairFields \cup {None}]
    BY DEF IInv, TypeOK, SetStatus
  <2>3. /\ dependencies' \in [Packages -> SUBSET Packages]
        /\ package' \in [Packages -> Fields]
    BY DEF IInv, TypeOK, SetStatus
  <2> QED
    BY <2>1, <2>2, <2>3 DEF TypeOK
<1>2. ValidStatuses'
  BY StatusesStayValid
<1>3. /\ EligibleLuna \ {p} \subseteq EligibleLuna'
      /\ SolReady \ {p} \subseteq SolReady'
      /\ Review \ {p} \subseteq Review'
      /\ Repair \ {p} \subseteq Repair'
  BY OthersKeep DEF IInv
<1>4. QueuesStayTrue'
  BY <1>3 DEF QueuesStayTrue, IInv, FollowedPlansAreAccepted
<1> QED
  BY <1>1, <1>2, <1>4 DEF IInv, FollowedPlansAreAccepted

\* What taking a package off a queue leaves of the queues.
LEMMA Followed ==
  ASSUME TypeOK, NEW p, NEW queue \in {"luna_envelope", "sol_ready", "review", "repair"},
         Follow(queue, p)
  PROVE  /\ queues' \in [luna_envelope : SUBSET Packages, sol_ready : SUBSET Packages,
                          review : SUBSET Packages, repair : SUBSET Packages,
                          tail_wait_allowed : BOOLEAN]
         /\ queues'.luna_envelope =
              IF queue = "luna_envelope" THEN queues.luna_envelope \ {p} ELSE queues.luna_envelope
         /\ queues'.sol_ready =
              IF queue = "sol_ready" THEN queues.sol_ready \ {p} ELSE queues.sol_ready
         /\ queues'.review = IF queue = "review" THEN queues.review \ {p} ELSE queues.review
         /\ queues'.repair = IF queue = "repair" THEN queues.repair \ {p} ELSE queues.repair
<1>1. CASE queue = "luna_envelope"
  BY <1>1 DEF TypeOK, Follow
<1>2. CASE queue = "sol_ready"
  BY <1>2 DEF TypeOK, Follow
<1>3. CASE queue = "review"
  BY <1>3 DEF TypeOK, Follow
<1>4. CASE queue = "repair"
  BY <1>4 DEF TypeOK, Follow
<1> QED
  BY <1>1, <1>2, <1>3, <1>4

\* A fresh answer holds what is to be done, whichever domain it selects.
LEMMA PlanIsTrue ==
  /\ plan \in [luna_envelope : SUBSET Packages, sol_ready : SUBSET Packages,
               review : SUBSET Packages, repair : SUBSET Packages,
               tail_wait_allowed : BOOLEAN]
  /\ plan.luna_envelope \subseteq EligibleLuna
  /\ plan.sol_ready = SolReady /\ plan.review = Review /\ plan.repair = Repair
<1>1. LunaEnvelope \subseteq EligibleLuna
  BY DEF LunaEnvelope, InDomain
<1>2. /\ EligibleLuna \subseteq Packages /\ SolReady \subseteq Packages
      /\ Review \subseteq Packages /\ Repair \subseteq Packages
  BY DEF EligibleLuna, SolReady, Pending, Review, Repair
<1> QED
  BY <1>1, <1>2 DEF plan

LEMMA StepInv == IInv /\ [Next]_vars => IInv'
<1> SUFFICES ASSUME IInv, [Next]_vars PROVE IInv'
  OBVIOUS
<1> USE DEF TERMINAL_DEPENDENCY_STATUSES
<1>0. /\ TypeOK /\ ValidStatuses /\ QueuesStayTrue
      /\ Estimates \subseteq RepairFields /\ None \notin RepairFields
      /\ attempts_used \in [Packages -> 0..attempts_max] /\ attempts_max \in Nat
  BY FrontierAssumption DEF IInv, FollowedPlansAreAccepted, TypeOK
<1>1. CASE UNCHANGED vars
  <2>1. TypeOK' /\ ValidStatuses'
    BY <1>0, <1>1 DEF vars, TypeOK, ValidStatuses, Running, DependencyReady
  <2>2. /\ EligibleLuna' = EligibleLuna /\ SolReady' = SolReady
        /\ Review' = Review /\ Repair' = Repair /\ queues' = queues
    BY <1>1 DEF vars, EligibleLuna, SolReady, Review, Repair, Pending, Reasons,
       DependencyReady, _repair_is_eligible
  <2> QED
    BY <1>0, <2>1, <2>2 DEF QueuesStayTrue, IInv, FollowedPlansAreAccepted
<1>2. CASE Evaluate
  <2>1. TypeOK'
    <3>1. /\ queues' = plan
          /\ UNCHANGED <<dependencies, package, status, attempts_used, estimate>>
      BY <1>2 DEF Evaluate
    <3> QED
      BY <1>0, <3>1, PlanIsTrue DEF TypeOK
  <2>2. ValidStatuses'
    BY <1>0, <1>2 DEF Evaluate, ValidStatuses, Running, DependencyReady
  <2>3. /\ EligibleLuna' = EligibleLuna /\ SolReady' = SolReady
        /\ Review' = Review /\ Repair' = Repair
    BY <1>2 DEF Evaluate, EligibleLuna, SolReady, Review, Repair, Pending, Reasons,
       DependencyReady, _repair_is_eligible
  <2>4. QueuesStayTrue'
    BY <1>2, <2>3, PlanIsTrue DEF Evaluate, QueuesStayTrue
  <2> QED
    BY <2>1, <2>2, <2>4 DEF IInv, FollowedPlansAreAccepted
<1>3. ASSUME NEW p \in Packages, Dispatch(p) PROVE IInv'
  <2>1. /\ status[p] = "PENDING" /\ package[p].executor = "LUNA" /\ DependencyReady(p)
        /\ p \notin queues.sol_ready /\ p \notin queues.review /\ p \notin queues.repair
    BY <1>3, QueuedPackages DEF Dispatch, Follow
  <2>2. SetStatus(p, "RUNNING", None) /\ SlotFree /\ Follow("luna_envelope", p)
        /\ attempts_used' = attempts_used
    BY <1>3 DEF Dispatch
  <2> QED
    BY <1>0, <2>1, <2>2, Followed, ChangeKeepsInv DEF STATUSES
<1>4. ASSUME NEW p \in Packages, StartRepair(p) PROVE IInv'
  <2>1. /\ status[p] = "FAILED" /\ package[p].executor = "LUNA" /\ DependencyReady(p)
        /\ attempts_used[p] < attempts_max
        /\ p \notin queues.sol_ready /\ p \notin queues.review /\ p \notin queues.luna_envelope
    BY <1>4, QueuedPackages DEF StartRepair, Follow
  <2>2. SetStatus(p, "RUNNING", None) /\ SlotFree /\ Follow("repair", p)
    BY <1>4 DEF StartRepair
  <2>3. /\ attempts_used' \in [Packages -> 0..attempts_max]
        /\ \A q \in Packages \ {p} : attempts_used'[q] = attempts_used[q]
    BY <1>0, <1>4, <2>1 DEF StartRepair
  <2> QED
    BY <1>0, <2>1, <2>2, <2>3, Followed, ChangeKeepsInv DEF STATUSES
<1>5. ASSUME NEW p \in Packages, SolWorks(p) PROVE IInv'
  <2>1. /\ status[p] = "PENDING" /\ DependencyReady(p)
        /\ p \notin queues.luna_envelope /\ p \notin queues.review /\ p \notin queues.repair
    BY <1>5, QueuedPackages DEF SolWorks, Follow
  <2>2. Follow("sol_ready", p) /\ attempts_used' = attempts_used
    BY <1>5 DEF SolWorks
  <2>3. CASE SetStatus(p, "ACCEPTED", None)
    BY <1>0, <2>1, <2>2, <2>3, Followed, ChangeKeepsInv DEF STATUSES
  <2>4. ASSUME NEW e \in Estimates, SetStatus(p, "FAILED", e) PROVE IInv'
    BY <1>0, <2>1, <2>2, <2>4, Followed, ChangeKeepsInv DEF STATUSES
  <2> QED
    BY <1>5, <2>3, <2>4 DEF SolWorks
<1>6. ASSUME NEW p \in Packages, Reviews(p) PROVE IInv'
  <2>1. /\ status[p] = "HANDOFF" /\ DependencyReady(p)
        /\ p \notin queues.luna_envelope /\ p \notin queues.sol_ready /\ p \notin queues.repair
    BY <1>6, QueuedPackages DEF Reviews, Follow
  <2>2. Follow("review", p) /\ attempts_used' = attempts_used
    BY <1>6 DEF Reviews
  <2>3. CASE SetStatus(p, "ACCEPTED", None)
    BY <1>0, <2>1, <2>2, <2>3, Followed, ChangeKeepsInv DEF STATUSES
  <2>4. ASSUME NEW e \in Estimates, SetStatus(p, "FAILED", e) PROVE IInv'
    BY <1>0, <2>1, <2>2, <2>4, Followed, ChangeKeepsInv DEF STATUSES
  <2> QED
    BY <1>6, <2>3, <2>4 DEF Reviews
<1>7. ASSUME NEW p \in Packages, WorkerReports(p) PROVE IInv'
  <2>1. /\ status[p] = "RUNNING" /\ DependencyReady(p)
        /\ p \notin queues.luna_envelope /\ p \notin queues.sol_ready
        /\ p \notin queues.review /\ p \notin queues.repair
    BY <1>0, <1>7, QueuedPackages DEF WorkerReports, Running, ValidStatuses
  <2>2. attempts_used' = attempts_used /\ queues' = queues
    BY <1>7 DEF WorkerReports
  <2>3. CASE SetStatus(p, "HANDOFF", None)
    BY <1>0, <2>1, <2>2, <2>3, ChangeKeepsInv DEF STATUSES, TypeOK
  <2>4. ASSUME NEW e \in Estimates, SetStatus(p, "FAILED", e) PROVE IInv'
    BY <1>0, <2>1, <2>2, <2>4, ChangeKeepsInv DEF STATUSES, TypeOK
  <2> QED
    BY <1>7, <2>3, <2>4 DEF WorkerReports
<1>8. ASSUME NEW p \in Packages, Reclaim(p) PROVE IInv'
  <2>1. /\ status[p] \in {"FAILED", "PENDING"} /\ DependencyReady(p)
        /\ p \notin queues.luna_envelope /\ p \notin queues.sol_ready
        /\ p \notin queues.review /\ p \notin queues.repair
    <3>1. CASE status[p] = "FAILED" /\ ~_repair_is_eligible(p)
      BY <1>0, <3>1, QueuedPackages DEF ValidStatuses
    <3>2. CASE p \in Pending("LUNA") /\ Reasons(p) = {"nonpositive-net-substitution"}
      <4>1. status[p] = "PENDING" /\ package[p].executor = "LUNA"
        BY <3>2 DEF Pending
      <4>2. DependencyReady(p) /\ package[p].net_substitution <= 0
        BY <3>2 DEF Reasons
      <4> QED
        BY <4>1, <4>2, QueuedPackages
    <3> QED
      BY <1>8, <3>1, <3>2 DEF Reclaim, MustReclaim
  <2>2. SetStatus(p, "RECLAIMED", None) /\ attempts_used' = attempts_used /\ queues' = queues
    BY <1>8 DEF Reclaim
  <2> QED
    BY <1>0, <2>1, <2>2, ChangeKeepsInv DEF STATUSES, TypeOK
<1>9. ASSUME NEW p \in Packages, NewEvidence(p) PROVE IInv'
  <2>1. /\ status[p] = "FAILED" /\ DependencyReady(p)
        /\ p \notin queues.luna_envelope /\ p \notin queues.sol_ready
        /\ p \notin queues.review /\ p \notin queues.repair
    BY <1>0, <1>9, QueuedPackages DEF NewEvidence, ValidStatuses, _repair_is_eligible
  <2> DEFINE e == [estimate[p] EXCEPT !.new_evidence = TRUE]
  <2>2. estimate[p] \in RepairFields
    BY <1>0, <2>1 DEF TypeOK, ValidStatuses
  <2>3. e \in RepairFields
    BY <2>2 DEF RepairFields
  <2>4. SetStatus(p, "FAILED", e) /\ attempts_used' = attempts_used /\ queues' = queues
    BY <1>9 DEF NewEvidence
  <2> HIDE DEF e
  <2> QED
    BY <1>0, <2>1, <2>3, <2>4, ChangeKeepsInv DEF STATUSES, TypeOK
<1> QED
  BY <1>1, <1>2, <1>3, <1>4, <1>5, <1>6, <1>7, <1>8, <1>9 DEF Next

------------------------------------------------------------------------------
(* Every variable keeps its type: a repair never goes beyond the attempts   *)
(* of its package (attempts_used < attempts_max in _repair_is_eligible).    *)
THEOREM TypeCorrect == Spec => []TypeOK
<1>1. IInv => TypeOK
  BY DEF IInv
<1> QED
  BY <1>1, Initially, StepInv, PTL DEF Spec

(* Whoever follows the queues of plan, fresh or old, keeps a document whose *)
(* statuses _validate accepts, and never follows an entry that is no longer *)
(* to be done.                                                              *)
THEOREM PlansCanBeFollowed == Spec => []FollowedPlansAreAccepted
<1>1. IInv => FollowedPlansAreAccepted
  BY DEF IInv
<1> QED
  BY <1>1, Initially, StepInv, PTL DEF Spec
------------------------------------------------------------------------------
(* The sort of _validate                                                   *)

LEMMA LeastNatural ==
  ASSUME NEW T, T \subseteq Nat, T # {}
  PROVE  \E x \in T : \A y \in T : x <= y
<1>1. \E x \in T : \A y \in T : ~(<<y, x>> \in OpToRel(<, Nat))
  BY NatLessThanWellFounded, WFMin
<1>2. \E x \in T : \A y \in T : ~(y < x)
  BY <1>1 DEF OpToRel
<1> QED
  BY <1>2

\* What can be visited after before, and the layers that begin with nothing.
Ready(before) == {p \in Packages : dependencies[p] \subseteq before}

Layers(N, f) == f[0] = {} /\ \A n \in 1..N : f[n] = Ready(f[n - 1])

LEMMA LayersExist ==
  ASSUME NEW N \in Nat
  PROVE  \E f \in [0..N -> SUBSET Packages] : Layers(N, f)
<1> DEFINE Bad == {n \in Nat : n <= N /\ ~\E f \in [0..n -> SUBSET Packages] : Layers(n, f)}
<1>1. SUFFICES ASSUME ~\E f \in [0..N -> SUBSET Packages] : Layers(N, f) PROVE FALSE
  OBVIOUS
<1>2. PICK m \in Bad : \A n \in Bad : m <= n
  <2>1. N \in Bad /\ Bad \subseteq Nat
    BY <1>1
  <2> HIDE DEF Bad
  <2> QED
    BY <2>1, LeastNatural
<1>3. CASE m = 0
  <2>1. Layers(0, [n \in 0..0 |-> {}])
    BY DEF Layers
  <2> QED
    BY <1>2, <1>3, <2>1
<1>4. CASE m # 0
  <2>1. m - 1 \in Nat /\ m \in 1..N /\ m - 1 <= N
    BY <1>2, <1>4
  <2>2. m - 1 \notin Bad
    <3> HIDE DEF Bad
    <3> QED
      BY <1>2, <2>1
  <2>3. PICK f \in [0..m - 1 -> SUBSET Packages] : Layers(m - 1, f)
    BY <2>1, <2>2
  <2> DEFINE g == [n \in 0..m |-> IF n = m THEN Ready(f[m - 1]) ELSE f[n]]
  <2>4. Layers(m, g)
    <3>1. g[0] = {} /\ g[m] = Ready(f[m - 1])
      BY <1>2, <1>4, <2>1, <2>3 DEF Layers
    <3>2. \A n \in 0..m - 1 : g[n] = f[n]
      BY <1>2, <2>1
    <3>3. \A n \in 1..m - 1 : n - 1 \in 0..m - 1 /\ n \in 0..m - 1
      BY <1>2
    <3>4. \A n \in 1..m - 1 : g[n] = Ready(g[n - 1])
      <4> HIDE DEF g
      <4> QED BY <2>3, <3>2, <3>3 DEF Layers
    <3>5. g[m] = Ready(g[m - 1])
      <4> HIDE DEF g
      <4> QED BY <2>1, <3>1, <3>2
    <3> HIDE DEF g
    <3> QED BY <1>2, <2>1, <3>1, <3>4, <3>5 DEF Layers
  <2>5. g \in [0..m -> SUBSET Packages]
    BY <1>2, <2>1, <2>3 DEF Ready
  <2> HIDE DEF g
  <2> QED
    BY <1>2, <2>4, <2>5
<1> QED
  BY <1>3, <1>4

\* Visited is the last layer.
LEMMA VisitedIsLast ==
  /\ Cardinality(Packages) \in Nat
  /\ \E f : Layers(Cardinality(Packages), f) /\ Visited = f[Cardinality(Packages)]
<1> DEFINE N == Cardinality(Packages)
           F(f) == [n \in 0..N |-> IF n = 0 THEN {} ELSE Ready(f[n - 1])]
           layer == CHOOSE f : f = F(f)
<1>1. N \in Nat
  BY FrontierAssumption, FS_CardinalityType
<1>2. PICK t \in [0..N -> SUBSET Packages] : Layers(N, t)
  BY <1>1, LayersExist
<1>3. Visited = layer[N]
  BY DEF Visited, Ready
<1> HIDE DEF N
<1>4. t = F(t)
  BY <1>2 DEF Layers
<1>5. layer = F(layer)
  BY <1>4
<1>6. Layers(N, layer)
  <2> HIDE DEF layer
  <2>1. \A n \in 0..N : layer[n] = IF n = 0 THEN {} ELSE Ready(layer[n - 1])
    BY <1>5
  <2>2. layer[0] = {} /\ \A n \in 1..N : layer[n] = Ready(layer[n - 1])
    BY <1>1, <2>1
  <2> QED
    BY <2>2 DEF Layers
<1>7. \E f : Layers(N, f) /\ Visited = f[N]
  <2> HIDE DEF layer
  <2> QED
    BY <1>3, <1>6
<1> QED
  BY <1>1, <1>7 DEF N

LEMMA LayersAreFinite ==
  ASSUME NEW N \in Nat, NEW f, Layers(N, f), NEW n \in 0..N
  PROVE  f[n] \subseteq Packages /\ IsFiniteSet(f[n]) /\ Cardinality(f[n]) \in Nat
<1>1. f[n] \subseteq Packages
  <2>1. n = 0 \/ n \in 1..N
    OBVIOUS
  <2> QED
    BY <2>1 DEF Layers, Ready
<1> QED
  BY <1>1, FrontierAssumption, FS_Subset, FS_CardinalityType

LEMMA LayersGrow ==
  ASSUME NEW N \in Nat, NEW f, Layers(N, f), NEW n \in 1..N
  PROVE  f[n - 1] \subseteq f[n]
<1> DEFINE Bad == {k \in 1..N : ~(f[k - 1] \subseteq f[k])}
<1>1. SUFFICES ASSUME Bad # {} PROVE FALSE
  OBVIOUS
<1>2. PICK m \in Bad : \A k \in Bad : m <= k
  <2>1. Bad \subseteq Nat
    OBVIOUS
  <2> HIDE DEF Bad
  <2> QED
    BY <1>1, <2>1, LeastNatural
<1>3. m \in 1..N /\ f[m] = Ready(f[m - 1]) /\ f[0] = {}
  BY <1>2 DEF Layers
<1>4. m # 1
  BY <1>2, <1>3
<1>5. m - 1 \in 1..N /\ (m - 1) - 1 = m - 2 /\ m - 1 < m
  BY <1>3, <1>4
<1>6. f[m - 2] \subseteq f[m - 1]
  <2>1. m - 1 \notin Bad
    <3> HIDE DEF Bad
    <3> QED
      BY <1>2, <1>3, <1>5
  <2> QED
    BY <1>5, <2>1
<1>7. f[m - 1] = Ready(f[m - 2])
  BY <1>5 DEF Layers
<1>8. f[m - 1] \subseteq f[m]
  BY <1>3, <1>6, <1>7 DEF Ready
<1> QED
  BY <1>2, <1>8

\* A layer holds a package more than the one before, or there is no more to visit.
LEMMA LayersGrowOrStay ==
  ASSUME NEW N \in Nat, NEW f, Layers(N, f), NEW n \in 0..N
  PROVE  n <= Cardinality(f[n]) \/ f[n] = Ready(f[n])
<1> DEFINE Bad == {k \in 0..N : ~(k <= Cardinality(f[k])) /\ f[k] # Ready(f[k])}
<1>1. SUFFICES ASSUME Bad # {} PROVE FALSE
  OBVIOUS
<1>2. PICK m \in Bad : \A k \in Bad : m <= k
  <2>1. Bad \subseteq Nat
    OBVIOUS
  <2> HIDE DEF Bad
  <2> QED
    BY <1>1, <2>1, LeastNatural
<1>3. m \in 0..N /\ Cardinality(f[m]) \in Nat /\ ~(m <= Cardinality(f[m])) /\ f[m] # Ready(f[m])
  BY <1>2, LayersAreFinite
<1>4. m \in 1..N /\ m - 1 \in 0..N /\ m - 1 < m
  BY <1>3
<1>5. m - 1 <= Cardinality(f[m - 1]) \/ f[m - 1] = Ready(f[m - 1])
  <2>1. m - 1 \notin Bad
    <3> HIDE DEF Bad
    <3> QED
      BY <1>2, <1>3, <1>4
  <2> QED
    BY <1>4, <2>1
<1>6. f[m] = Ready(f[m - 1])
  BY <1>4 DEF Layers
<1>7. f[m - 1] # f[m]
  BY <1>3, <1>6
<1>8. /\ Cardinality(f[m - 1]) \in Nat /\ Cardinality(f[m - 1]) <= Cardinality(f[m])
      /\ Cardinality(f[m - 1]) # Cardinality(f[m])
  <2>1. IsFiniteSet(f[m]) /\ Cardinality(f[m - 1]) \in Nat
    BY <1>3, <1>4, LayersAreFinite
  <2>2. f[m - 1] \in SUBSET f[m]
    BY <1>4, LayersGrow
  <2> QED
    BY <1>7, <2>1, <2>2, FS_Subset
<1>9. m - 1 <= Cardinality(f[m - 1])
  BY <1>5, <1>6, <1>7
<1> QED
  BY <1>3, <1>8, <1>9

\* The sort ends when nothing more can be visited.
LEMMA SortIsDone == TypeOK => Visited = Ready(Visited) /\ Visited \subseteq Packages
<1> SUFFICES ASSUME TypeOK PROVE Visited = Ready(Visited) /\ Visited \subseteq Packages
  OBVIOUS
<1> DEFINE N == Cardinality(Packages)
<1>1. N \in Nat
  BY VisitedIsLast
<1>2. PICK f : Layers(N, f) /\ Visited = f[N]
  BY VisitedIsLast
<1>3. N \in 0..N
  BY <1>1
<1>4. f[N] \subseteq Packages /\ (N <= Cardinality(f[N]) \/ f[N] = Ready(f[N]))
  <2> HIDE DEF N
  <2> QED
    BY <1>1, <1>2, <1>3, LayersAreFinite, LayersGrowOrStay
<1>5. ASSUME N <= Cardinality(f[N]) PROVE f[N] = Packages
  <2>1. IsFiniteSet(Packages) /\ f[N] \in SUBSET Packages
    BY <1>4, FrontierAssumption
  <2>2. Cardinality(f[N]) <= Cardinality(Packages) /\ Cardinality(f[N]) \in Nat
    BY <2>1, FS_Subset, FS_CardinalityType
  <2>3. Cardinality(Packages) = Cardinality(f[N])
    BY <1>1, <1>5, <2>2
  <2> QED
    BY <2>1, <2>3, FS_Subset
<1>6. Packages = Ready(Packages)
  BY DEF TypeOK, Ready
<1> QED
  BY <1>2, <1>4, <1>5, <1>6

\* Nobody who waits for somebody waiting is ever visited.
LEMMA WaitingIsNotVisited ==
  ASSUME NEW waiting, \A p \in waiting : dependencies[p] \cap waiting # {}
  PROVE  Visited \cap waiting = {}
<1>0. PICK N \in Nat : \E f : Layers(N, f) /\ Visited = f[N]
  BY VisitedIsLast
<1>1. PICK f : N \in Nat /\ Layers(N, f) /\ Visited = f[N]
  BY <1>0
<1> DEFINE Bad == {k \in 0..N : f[k] \cap waiting # {}}
<1>2. SUFFICES ASSUME Bad # {} PROVE FALSE
  BY <1>1
<1>3. PICK m \in Bad : \A k \in Bad : m <= k
  <2>1. Bad \subseteq Nat
    OBVIOUS
  <2> HIDE DEF Bad
  <2> QED
    BY <1>2, <2>1, LeastNatural
<1>4. m \in 0..N /\ m # 0
  BY <1>1, <1>3 DEF Layers
<1>5. m \in 1..N /\ m - 1 \in 0..N /\ m - 1 < m
  BY <1>4
<1>6. f[m - 1] \cap waiting = {}
  <2>1. m - 1 \notin Bad
    <3> HIDE DEF Bad
    <3> QED
      BY <1>3, <1>4, <1>5
  <2> QED
    BY <1>5, <2>1
<1>7. PICK p \in f[m] : p \in waiting
  BY <1>3
<1>8. dependencies[p] \subseteq f[m - 1]
  BY <1>1, <1>5, <1>7 DEF Layers, Ready
<1> QED
  BY <1>6, <1>7, <1>8

LEMMA SortsExactly == TypeOK => SortIsExact
<1> SUFFICES ASSUME TypeOK PROVE SortIsExact
  OBVIOUS
<1>1. ASSUME IsAcyclic, NEW waiting \in (SUBSET Packages) \ {{}},
             \A p \in waiting : dependencies[p] \cap waiting # {}
      PROVE  FALSE
  <2>1. PICK p \in waiting : p \in Packages
    BY <1>1
  <2>2. Visited \cap waiting = {}
    BY <1>1, WaitingIsNotVisited
  <2> QED
    BY <1>1, <2>1, <2>2 DEF IsAcyclic
<1>2. ASSUME ~IsAcyclic
      PROVE  \E waiting \in (SUBSET Packages) \ {{}} :
                \A p \in waiting : dependencies[p] \cap waiting # {}
  <2> DEFINE waiting == Packages \ Visited
  <2>1. waiting # {} /\ waiting \subseteq Packages
    <3>1. Visited \subseteq Packages /\ Visited # Packages
      BY <1>2, SortIsDone DEF IsAcyclic
    <3> QED
      BY <3>1
  <2>2. ASSUME NEW p \in waiting PROVE dependencies[p] \cap waiting # {}
    <3>1. p \in Packages /\ p \notin Ready(Visited) /\ dependencies[p] \subseteq Packages
      BY <2>2, SortIsDone DEF TypeOK
    <3> QED
      BY <3>1 DEF Ready
  <2> QED
    BY <2>1, <2>2
<1> QED
  BY <1>1, <1>2 DEF SortIsExact

(* For every graph the layers of the sort reach all packages exactly when   *)
(* no packages wait for each other in a circle.                             *)
THEOREM SortingIsExact == Spec => []SortIsExact
  BY SortsExactly, TypeCorrect, PTL

-----------------------------------------------------------------------------
(* Schedules.  A lane is the packages of one executor, or all of them, and *)
(* has room for so many at a time.  s is a state of an event loop: when    *)
(* each package placed so far begins and ends, and which are done by now.  *)
Tasks(pk, lane, capacity) ==
  /\ IsFiniteSet(DOMAIN pk) /\ DOMAIN pk \subseteq Nat
  /\ \A p \in DOMAIN pk : pk[p].depends_on \subseteq DOMAIN pk /\ lane[p] \in DOMAIN capacity
  /\ \A l \in DOMAIN capacity : capacity[l] \in Nat \ {0}

At(s, lane, t, l) == {p \in DOMAIN s.ends : lane[p] = l /\ s.begins[p] <= t /\ t < s.ends[p]}

\* What is placed runs to its end, in time.
Placements(pk, s) ==
  /\ s.now \in Nat
  /\ DOMAIN s.ends \subseteq DOMAIN pk
  /\ s.ends \in [DOMAIN s.ends -> Nat] /\ s.begins \in [DOMAIN s.ends -> Nat]
  /\ s.done = {p \in DOMAIN s.ends : s.ends[p] <= s.now}
  /\ \A p \in DOMAIN s.ends :
       /\ s.begins[p] < s.ends[p] /\ s.begins[p] <= s.now
       /\ \A d \in pk[p].depends_on : d \in DOMAIN s.ends /\ s.ends[d] <= s.begins[p]

\* A lane is never too full, and was not left with room that was needed.
RoomUsed(pk, lane, capacity, s) ==
  /\ \A t \in Nat : \A l \in DOMAIN capacity : Cardinality(At(s, lane, t, l)) <= capacity[l]
  /\ \A t \in Nat : \A p \in DOMAIN pk :
       /\ t < s.now
       /\ Cardinality(At(s, lane, t, lane[p])) < capacity[lane[p]]
       /\ \A d \in pk[p].depends_on : d \in DOMAIN s.ends /\ s.ends[d] <= t
       => p \in DOMAIN s.ends /\ s.begins[p] <= t

Sound(pk, lane, capacity, s) == Placements(pk, s) /\ RoomUsed(pk, lane, capacity, s)

Busy_in(s, lane, l) == {p \in DOMAIN s.ends \ s.done : lane[p] = l}

\* u is s after packages whose dependencies are done were started: a lane takes what
\* it can, and no more.
Starts(pk, lane, capacity, s, u) ==
  /\ u.now = s.now /\ u.done = s.done
  /\ DOMAIN s.ends \subseteq DOMAIN u.ends /\ DOMAIN u.ends \subseteq DOMAIN pk
  /\ u.ends \in [DOMAIN u.ends -> Nat] /\ u.begins \in [DOMAIN u.ends -> Nat]
  /\ \A p \in DOMAIN s.ends : u.ends[p] = s.ends[p] /\ u.begins[p] = s.begins[p]
  /\ \A p \in DOMAIN u.ends \ DOMAIN s.ends :
       u.begins[p] = s.now /\ s.now < u.ends[p] /\ pk[p].depends_on \subseteq s.done
  /\ \A l \in DOMAIN capacity : Cardinality(Busy_in(u, lane, l)) <= capacity[l]
  /\ \A p \in DOMAIN pk \ DOMAIN u.ends :
       pk[p].depends_on \subseteq s.done =>
         capacity[lane[p]] <= Cardinality(Busy_in(u, lane, lane[p]))

\* r is u at the next end of a package.
Advances(u, r) ==
  /\ r.ends = u.ends /\ r.begins = u.begins
  /\ \E p \in DOMAIN u.ends \ u.done : r.now = u.ends[p]
  /\ \A p \in DOMAIN u.ends \ u.done : r.now <= u.ends[p]
  /\ r.done = {p \in DOMAIN u.ends : u.ends[p] <= r.now}

LEMMA LanesAreFinite ==
  ASSUME NEW pk, NEW lane, NEW capacity, Tasks(pk, lane, capacity), NEW s,
         DOMAIN s.ends \subseteq DOMAIN pk
  PROVE  /\ \A l : IsFiniteSet(Busy_in(s, lane, l)) /\ Cardinality(Busy_in(s, lane, l)) \in Nat
         /\ \A t, l : IsFiniteSet(At(s, lane, t, l)) /\ Cardinality(At(s, lane, t, l)) \in Nat
<1>1. ASSUME NEW X, X \subseteq DOMAIN pk PROVE IsFiniteSet(X) /\ Cardinality(X) \in Nat
  BY <1>1, FS_Subset, FS_CardinalityType DEF Tasks
<1>2. \A l : Busy_in(s, lane, l) \subseteq DOMAIN pk
  BY DEF Busy_in
<1>3. \A t, l : At(s, lane, t, l) \subseteq DOMAIN pk
  BY DEF At
<1> QED
  BY <1>1, <1>2, <1>3

LEMMA AdvancePlaces ==
  ASSUME NEW pk, NEW lane, NEW capacity, Tasks(pk, lane, capacity),
         NEW s, Placements(pk, s), NEW u, Starts(pk, lane, capacity, s, u), NEW r, Advances(u, r)
  PROVE  /\ Placements(pk, r) /\ s.now < r.now
         /\ s.done \subseteq r.done /\ \E p \in r.done : p \notin s.done
<1>1. PICK a \in DOMAIN u.ends \ s.done : r.now = u.ends[a]
  BY DEF Advances, Starts
<1>2. \A p \in DOMAIN u.ends \ s.done : s.now < u.ends[p]
  BY DEF Starts, Placements
<1>3. r.now \in Nat /\ s.now \in Nat /\ s.now < r.now
  BY <1>1, <1>2 DEF Starts, Placements
<1>4. \A p \in s.done : p \in DOMAIN u.ends /\ u.ends[p] <= s.now /\ u.ends[p] \in Nat
  BY DEF Starts, Placements
<1>5. s.done \subseteq r.done /\ a \in r.done /\ a \notin s.done
  BY <1>1, <1>3, <1>4 DEF Advances
<1>6. ASSUME NEW p \in DOMAIN u.ends
      PROVE  /\ u.begins[p] < u.ends[p] /\ u.begins[p] <= s.now
             /\ \A d \in pk[p].depends_on : d \in DOMAIN u.ends /\ u.ends[d] <= u.begins[p]
  <2>1. CASE p \in DOMAIN s.ends
    BY <2>1 DEF Starts, Placements
  <2>2. CASE p \notin DOMAIN s.ends
    <3>1. u.begins[p] = s.now /\ s.now < u.ends[p] /\ pk[p].depends_on \subseteq s.done
      BY <2>2 DEF Starts
    <3> QED
      BY <1>3, <1>4, <3>1
  <2> QED
    BY <2>1, <2>2
<1>7. r.ends = u.ends /\ r.begins = u.begins /\ r.done = {p \in DOMAIN u.ends : u.ends[p] <= r.now}
  BY DEF Advances
<1>8. /\ DOMAIN u.ends \subseteq DOMAIN pk
      /\ u.ends \in [DOMAIN u.ends -> Nat] /\ u.begins \in [DOMAIN u.ends -> Nat]
  BY DEF Starts
<1>9. \A p \in DOMAIN u.ends : u.begins[p] <= r.now
  BY <1>3, <1>6, <1>8
<1>10. Placements(pk, r)
  BY <1>3, <1>6, <1>7, <1>8, <1>9 DEF Placements
<1> QED
  BY <1>3, <1>5, <1>10

LEMMA AdvanceUsesRoom ==
  ASSUME NEW pk, NEW lane, NEW capacity, Tasks(pk, lane, capacity),
         NEW s, Sound(pk, lane, capacity, s), NEW u, Starts(pk, lane, capacity, s, u),
         NEW r, Advances(u, r)
  PROVE  RoomUsed(pk, lane, capacity, r)
<1>1. /\ s.now \in Nat /\ r.now \in Nat /\ s.now < r.now
      /\ Placements(pk, s) /\ Placements(pk, r)
  BY AdvancePlaces DEF Sound, Placements
<1>2. /\ r.ends = u.ends /\ r.begins = u.begins
      /\ \A p \in DOMAIN u.ends : u.ends[p] \in Nat /\ u.begins[p] \in Nat
      /\ DOMAIN u.ends \subseteq DOMAIN pk /\ DOMAIN s.ends \subseteq DOMAIN u.ends
  BY DEF Advances, Starts
<1>3. \A p \in DOMAIN u.ends \ s.done : r.now <= u.ends[p]
  BY DEF Advances, Starts
<1>4. \A p \in s.done : p \in DOMAIN s.ends /\ u.ends[p] <= s.now
  BY DEF Starts, Placements, Sound
<1>5. \A p \in DOMAIN u.ends : u.begins[p] <= s.now
  BY <1>1 DEF Starts, Placements

\* Until now nothing has changed.
<1>6. ASSUME NEW t \in Nat, t < s.now, NEW l PROVE At(r, lane, t, l) = At(s, lane, t, l)
  <2>1. \A p \in DOMAIN u.ends \ DOMAIN s.ends : ~(u.begins[p] <= t)
    BY <1>1, <1>6 DEF Starts
  <2>2. \A p \in DOMAIN s.ends : u.ends[p] = s.ends[p] /\ u.begins[p] = s.begins[p]
    BY DEF Starts
  <2> QED
    BY <1>2, <2>1, <2>2 DEF At

\* From now to the next end those who are busy are busy.
<1>7. ASSUME NEW t \in Nat, ~(t < s.now), NEW l PROVE At(r, lane, t, l) \subseteq Busy_in(u, lane, l)
  <2>1. u.done = s.done
    BY DEF Starts
  <2> SUFFICES ASSUME NEW p \in At(r, lane, t, l) PROVE p \notin s.done
    BY <1>2, <2>1 DEF At, Busy_in
  <2>2. t < u.ends[p] /\ p \in DOMAIN u.ends
    BY <1>2 DEF At
  <2> QED
    BY <1>1, <1>2, <1>4, <1>7, <2>2
<1>8. ASSUME NEW t \in Nat, ~(t < s.now), t < r.now, NEW l
      PROVE  Busy_in(u, lane, l) \subseteq At(r, lane, t, l)
  <2>1. u.done = s.done
    BY DEF Starts
  <2> SUFFICES ASSUME NEW p \in DOMAIN u.ends \ s.done PROVE u.begins[p] <= t /\ t < u.ends[p]
    BY <1>2, <2>1 DEF At, Busy_in
  <2> QED
    BY <1>1, <1>2, <1>3, <1>5, <1>8
<1>9. ASSUME NEW t \in Nat, NEW l \in DOMAIN capacity
      PROVE  Cardinality(At(r, lane, t, l)) <= capacity[l]
  <2>1. CASE t < s.now
    BY <1>6, <2>1 DEF Sound, RoomUsed
  <2>2. CASE ~(t < s.now)
    <3>1. At(r, lane, t, l) \subseteq Busy_in(u, lane, l)
      BY <1>7, <2>2
    <3>2. IsFiniteSet(Busy_in(u, lane, l)) /\ Cardinality(Busy_in(u, lane, l)) \in Nat
      BY <1>2, LanesAreFinite
    <3>3. Cardinality(At(r, lane, t, l)) <= Cardinality(Busy_in(u, lane, l))
      BY <3>1, <3>2, FS_Subset
    <3>4. Cardinality(Busy_in(u, lane, l)) <= capacity[l]
      BY DEF Starts
    <3>5. Cardinality(At(r, lane, t, l)) \in Nat /\ capacity[l] \in Nat
      BY <1>2, LanesAreFinite DEF Tasks
    <3> QED
      BY <3>2, <3>3, <3>4, <3>5
  <2> QED
    BY <2>1, <2>2
<1>10. ASSUME NEW t \in Nat, NEW p \in DOMAIN pk, t < r.now,
              Cardinality(At(r, lane, t, lane[p])) < capacity[lane[p]],
              \A d \in pk[p].depends_on : d \in DOMAIN r.ends /\ r.ends[d] <= t
       PROVE  p \in DOMAIN r.ends /\ r.begins[p] <= t
  <2>1. CASE t < s.now
    <3>1. Cardinality(At(s, lane, t, lane[p])) < capacity[lane[p]]
      BY <1>6, <1>10, <2>1
    <3>2. \A d \in pk[p].depends_on : d \in DOMAIN s.ends /\ s.ends[d] <= t
      <4> SUFFICES ASSUME NEW d \in pk[p].depends_on PROVE d \in DOMAIN s.ends /\ s.ends[d] <= t
        OBVIOUS
      <4>1. d \in DOMAIN u.ends /\ u.ends[d] <= t /\ u.ends[d] \in Nat
        BY <1>2, <1>10
      <4>2. d \in DOMAIN s.ends
        BY <1>1, <2>1, <4>1 DEF Starts
      <4> QED
        BY <4>1, <4>2 DEF Starts
    <3>3. p \in DOMAIN s.ends /\ s.begins[p] <= t
      BY <2>1, <3>1, <3>2 DEF Sound, RoomUsed
    <3> QED
      BY <1>2, <3>3 DEF Starts
  <2>2. CASE ~(t < s.now)
    <3>1. pk[p].depends_on \subseteq s.done
      <4> SUFFICES ASSUME NEW d \in pk[p].depends_on, d \notin s.done PROVE FALSE
        OBVIOUS
      <4>1. d \in DOMAIN u.ends /\ u.ends[d] <= t /\ u.ends[d] \in Nat
        BY <1>2, <1>10
      <4>2. r.now <= u.ends[d]
        BY <1>3, <4>1
      <4> QED
        BY <1>1, <1>10, <4>1, <4>2
    <3>2. At(r, lane, t, lane[p]) = Busy_in(u, lane, lane[p])
      BY <1>7, <1>8, <1>10, <2>2
    <3>3. p \in DOMAIN u.ends
      <4> SUFFICES ASSUME p \notin DOMAIN u.ends PROVE FALSE
        OBVIOUS
      <4>1. capacity[lane[p]] <= Cardinality(Busy_in(u, lane, lane[p]))
        BY <3>1 DEF Starts
      <4>2. capacity[lane[p]] \in Nat /\ Cardinality(Busy_in(u, lane, lane[p])) \in Nat
        BY <1>2, LanesAreFinite DEF Tasks
      <4> QED
        BY <1>10, <3>2, <4>1, <4>2
    <3> QED
      BY <1>1, <1>2, <1>5, <2>2, <3>3
  <2> QED
    BY <2>1, <2>2
<1> QED
  BY <1>9, <1>10 DEF RoomUsed

-----------------------------------------------------------------------------
\* Packages that wait for each other.
NoCircle(pk) ==
  ~\E waiting \in (SUBSET DOMAIN pk) \ {{}} :
     \A p \in waiting : pk[p].depends_on \cap waiting # {}

\* As long as something is left to do and no circle in it, something is being done.
LEMMA SomethingRuns ==
  ASSUME NEW pk, NEW lane, NEW capacity, Tasks(pk, lane, capacity), NoCircle(pk),
         NEW s, Placements(pk, s), NEW u, Starts(pk, lane, capacity, s, u),
         DOMAIN u.ends = s.done
  PROVE  s.done = DOMAIN pk
<1> SUFFICES ASSUME s.done # DOMAIN pk PROVE FALSE
  OBVIOUS
<1>1. s.done \subseteq DOMAIN pk
  BY DEF Starts
<1>2. DOMAIN pk \ s.done \in (SUBSET DOMAIN pk) \ {{}}
  BY <1>1
<1>3. PICK p \in DOMAIN pk \ s.done : pk[p].depends_on \cap (DOMAIN pk \ s.done) = {}
  BY <1>2 DEF NoCircle
<1>4. pk[p].depends_on \subseteq s.done /\ lane[p] \in DOMAIN capacity
  BY <1>3 DEF Tasks
<1>5. p \in DOMAIN pk \ DOMAIN u.ends
  BY <1>3
<1>6. capacity[lane[p]] <= Cardinality(Busy_in(u, lane, lane[p]))
  BY <1>4, <1>5 DEF Starts
<1>7. Busy_in(u, lane, lane[p]) = {}
  BY DEF Busy_in, Starts
<1>8. Cardinality(Busy_in(u, lane, lane[p])) = 0 /\ capacity[lane[p]] \in Nat \ {0}
  BY <1>4, <1>7, FS_EmptySet DEF Tasks
<1> QED
  BY <1>6, <1>8

\* What is done can be done in some order.
LEMMA DoneHasNoCircle ==
  ASSUME NEW pk, NEW s, Placements(pk, s), s.done = DOMAIN pk
  PROVE  NoCircle(pk)
<1> SUFFICES ASSUME NEW waiting \in (SUBSET DOMAIN pk) \ {{}},
                    \A p \in waiting : pk[p].depends_on \cap waiting # {}
             PROVE  FALSE
  BY DEF NoCircle
<1>1. waiting \subseteq DOMAIN s.ends /\ waiting # {}
  BY DEF Placements
<1>2. PICK n \in {s.ends[p] : p \in waiting} : \A m \in {s.ends[p] : p \in waiting} : n <= m
  <2>1. {s.ends[p] : p \in waiting} \subseteq Nat /\ {s.ends[p] : p \in waiting} # {}
    BY <1>1 DEF Placements
  <2> QED
    BY <2>1, LeastNatural
<1>3. PICK p \in waiting : \A q \in waiting : s.ends[p] <= s.ends[q]
  BY <1>2
<1>4. PICK d \in waiting : d \in pk[p].depends_on
  OBVIOUS
<1>5. s.ends[d] <= s.begins[p] /\ s.begins[p] < s.ends[p] /\ s.ends[p] <= s.ends[d]
  BY <1>1, <1>3, <1>4 DEF Placements
<1>6. s.ends[d] \in Nat /\ s.begins[p] \in Nat /\ s.ends[p] \in Nat
  BY <1>1 DEF Placements
<1> QED
  BY <1>5, <1>6

\* When everything is done, the schedule is one that never waits without need.
LEMMA SoundIsGreedy ==
  ASSUME NEW pk, NEW lane, NEW capacity, Tasks(pk, lane, capacity), DOMAIN pk # {},
         NEW s, Sound(pk, lane, capacity, s), s.done = DOMAIN pk
  PROVE  IsGreedy(pk, s.begins, s.ends, lane, capacity)
<1> DEFINE at(t, l) == {p \in DOMAIN pk : lane[p] = l /\ s.begins[p] <= t /\ t < s.ends[p]}
           after(p) == {s.ends[d] : d \in pk[p].depends_on}
           last == Max({s.ends[p] : p \in DOMAIN pk})
<1>1. /\ DOMAIN s.ends = DOMAIN pk /\ s.now \in Nat
      /\ \A p \in DOMAIN pk : s.ends[p] \in Nat /\ s.begins[p] \in Nat /\ s.ends[p] <= s.now
                              /\ s.begins[p] < s.ends[p]
  BY DEF Sound, Placements
<1>2. \A t, l : at(t, l) = At(s, lane, t, l)
  BY <1>1 DEF At
<1>3. \A p \in DOMAIN pk : \A end \in after(p) : end <= s.begins[p]
  BY <1>1 DEF Sound, Placements
<1>4. \A t \in 0..last : t \in Nat
  OBVIOUS
<1>5. \A t \in 0..last : \A l \in DOMAIN capacity : Cardinality(at(t, l)) <= capacity[l]
  <2> HIDE DEF at, last
  <2> QED
    BY <1>2, <1>4 DEF Sound, RoomUsed
<1>6. ASSUME NEW t \in 0..last, NEW p \in DOMAIN pk,
             Cardinality(at(t, lane[p])) < capacity[lane[p]], \A end \in after(p) : end <= t
      PROVE  s.begins[p] <= t
  <2>0. t \in Nat
    BY <1>4
  <2>1. CASE t < s.now
    <3>1. Cardinality(At(s, lane, t, lane[p])) < capacity[lane[p]]
      BY <1>2, <1>6
    <3>2. \A d \in pk[p].depends_on : d \in DOMAIN s.ends /\ s.ends[d] <= t
      BY <1>1, <1>6 DEF Tasks
    <3> HIDE DEF at, after, last
    <3> QED
      BY <2>0, <2>1, <3>1, <3>2 DEF Sound, RoomUsed
  <2>2. CASE ~(t < s.now)
    BY <1>1, <2>0, <2>2
  <2> QED
    BY <2>1, <2>2
<1> QED
  BY <1>3, <1>5, <1>6 DEF IsGreedy

-----------------------------------------------------------------------------
\* A run of N steps from x, where G gives the state after each.
IsRun(f, St, N, x, G) ==
  f \in [0..N -> St] /\ f[0] = x /\ \A n \in 1..N : f[n] = G[<<n, f[n - 1]>>]

IsStep(G, St, N) == G \in [(1..N) \X St -> St]

LEMMA RunExists ==
  ASSUME NEW St, NEW x \in St, NEW N \in Nat, NEW G, IsStep(G, St, N)
  PROVE  \E f : IsRun(f, St, N, x, G)
<1>0. G \in [(1..N) \X St -> St]
  BY DEF IsStep
<1> SUFFICES \E f \in [0..N -> St] : f[0] = x /\ \A n \in 1..N : f[n] = G[<<n, f[n - 1]>>]
  BY DEF IsRun
<1> DEFINE Runs(n, f) == f[0] = x /\ \A i \in 1..n : f[i] = G[<<i, f[i - 1]>>]
           Bad == {n \in Nat : n <= N /\ ~\E f \in [0..n -> St] : Runs(n, f)}
<1>1. SUFFICES ASSUME Bad # {} PROVE FALSE
  OBVIOUS
<1>2. PICK m \in Bad : \A n \in Bad : m <= n
  <2>1. Bad \subseteq Nat
    OBVIOUS
  <2> HIDE DEF Bad
  <2> QED
    BY <1>1, <2>1, LeastNatural
<1>3. m \in Nat /\ m <= N /\ ~\E f \in [0..m -> St] : Runs(m, f)
  BY <1>2
<1>4. CASE m = 0
  <2> DEFINE f == [n \in 0..0 |-> x]
  <2>1. f \in [0..0 -> St] /\ Runs(0, f)
    OBVIOUS
  <2> QED
    BY <1>3, <1>4, <2>1
<1>5. CASE m # 0
  <2>1. m - 1 \in Nat /\ m \in 1..N /\ m - 1 <= N /\ ~(m <= m - 1)
    BY <1>3, <1>5
  <2>2. m - 1 \notin Bad
    <3> HIDE DEF Bad
    <3> QED
      BY <1>2, <2>1
  <2>3. PICK f \in [0..m - 1 -> St] : Runs(m - 1, f)
    BY <2>1, <2>2
  <2> DEFINE last == G[<<m, f[m - 1]>>]
             g == [n \in 0..m |-> IF n = m THEN last ELSE f[n]]
  <2>4. f[m - 1] \in St /\ last \in St
    BY <1>0, <2>1, <2>3
  <2>5. /\ \A n \in 0..m - 1 : g[n] = f[n] /\ n # m /\ n \in 0..m /\ f[n] \in St
        /\ g[m] = last /\ m \in 0..m
    BY <1>3, <2>1, <2>3
  <2>6. g \in [0..m -> St]
    <3>1. \A n \in 0..m : n = m \/ n \in 0..m - 1
      BY <1>3
    <3> HIDE DEF last
    <3> QED
      BY <2>4, <2>5, <3>1
  <2>7. Runs(m, g)
    <3>1. g[0] = x
      BY <2>1, <2>3, <2>5
    <3>2. ASSUME NEW i \in 1..m PROVE g[i] = G[<<i, g[i - 1]>>]
      <4>1. CASE i = m
        <5>1. g[m - 1] = f[m - 1]
          BY <2>1, <2>5
        <5> HIDE DEF g
        <5> QED
          BY <2>5, <4>1, <5>1
      <4>2. CASE i # m
        <5>1. i \in 1..m - 1 /\ i \in 0..m - 1 /\ i - 1 \in 0..m - 1
          BY <1>3, <4>2
        <5>2. g[i] = f[i] /\ g[i - 1] = f[i - 1] /\ f[i] = G[<<i, f[i - 1]>>]
          BY <2>3, <2>5, <5>1
        <5> HIDE DEF g
        <5> QED
          BY <5>2
      <4> QED
        BY <4>1, <4>2
    <3> HIDE DEF g
    <3> QED
      BY <3>1, <3>2
  <2> HIDE DEF g, Runs
  <2> QED
    BY <1>3, <2>6, <2>7
<1> QED
  BY <1>4, <1>5

\* A set in a strict order, and what comes before a member.
Ordered(S, R) ==
  /\ \A x \in S : <<x, x>> \notin R
  /\ \A x, y \in S : x # y => <<x, y>> \in R \/ <<y, x>> \in R
  /\ \A x, y, z \in S : <<x, y>> \in R /\ <<y, z>> \in R => <<x, z>> \in R

Before(S, R, x) == {y \in S : <<y, x>> \in R}

\* The numbers of those before give each member its own place.
LEMMA PlacesAreTaken ==
  ASSUME NEW S, IsFiniteSet(S), NEW R, Ordered(S, R)
  PROVE  /\ Cardinality(S) \in Nat
         /\ \A x \in S : Cardinality(Before(S, R, x)) \in 0..Cardinality(S) - 1
         /\ \A x, y \in S : <<x, y>> \in R
                              <=> Cardinality(Before(S, R, x)) < Cardinality(Before(S, R, y))
         /\ \A x, y \in S : Cardinality(Before(S, R, x)) = Cardinality(Before(S, R, y)) => x = y
         /\ \A i \in 0..Cardinality(S) - 1 : \E x \in S : Cardinality(Before(S, R, x)) = i
<1> DEFINE n == Cardinality(S)
           of(x) == Cardinality(Before(S, R, x))
           rank == [x \in S |-> of(x) + 1]
<1>0. n \in Nat
  BY FS_CardinalityType
<1>5. ASSUME NEW x \in S
      PROVE  IsFiniteSet(Before(S, R, x)) /\ of(x) \in Nat /\ of(x) < n
  <2>1. Before(S, R, x) \in SUBSET S /\ Before(S, R, x) # S
    BY DEF Ordered, Before
  <2>2. /\ IsFiniteSet(Before(S, R, x)) /\ of(x) <= Cardinality(S)
        /\ Cardinality(S) = of(x) => S = Before(S, R, x)
    BY <2>1, FS_Subset
  <2>3. of(x) \in Nat
    BY <2>2, FS_CardinalityType
  <2> QED
    BY <1>0, <2>1, <2>2, <2>3
<1>6. ASSUME NEW x \in S, NEW y \in S, <<x, y>> \in R PROVE of(x) < of(y)
  <2>1. Before(S, R, x) \in SUBSET Before(S, R, y)
    BY <1>6 DEF Ordered, Before
  <2>2. x \in Before(S, R, y) /\ x \notin Before(S, R, x)
    BY <1>6 DEF Ordered, Before
  <2>3. IsFiniteSet(Before(S, R, y)) /\ of(y) \in Nat /\ of(x) \in Nat
    BY <1>5
  <2>4. of(x) <= of(y) /\ (of(y) = of(x) => Before(S, R, y) = Before(S, R, x))
    BY <2>1, <2>3, FS_Subset
  <2> QED
    BY <2>2, <2>3, <2>4
<1> HIDE DEF of
<1>7. rank \in [S -> 1..n]
  BY <1>0, <1>5
<1>8. \A x, y \in S : of(x) = of(y) => x = y
  <2> SUFFICES ASSUME NEW x \in S, NEW y \in S, x # y PROVE of(x) # of(y)
    OBVIOUS
  <2>1. of(x) < of(y) \/ of(y) < of(x)
    BY <1>6 DEF Ordered
  <2> QED
    BY <1>5, <2>1
<1>9. \A i \in 1..n : \E x \in S : rank[x] = i
  <2>1. IsFiniteSet(1..n) /\ Cardinality(1..n) = n
    <3>1. /\ IsFiniteSet(1..n)
          /\ Cardinality(1..n) = IF 1 > n THEN 0 ELSE n - 1 + 1
      <4> HIDE DEF n
      <4> QED
        BY <1>0, FS_Interval
    <3> HIDE DEF n
    <3> QED
      BY <1>0, <3>1
  <2>0. \A x, y \in S : rank[x] = rank[y] => x = y
    BY <1>5, <1>8
  <2> HIDE DEF rank, n
  <2>2. rank \in Injection(S, 1..n)
    BY <1>7, <2>0 DEF Injection, IsInjective
  <2>3. Cardinality(S) = Cardinality(1..n)
    BY <2>1 DEF n
  <2>4. Cardinality(S) = Cardinality(1..n) <=> rank \in Surjection(S, 1..n)
    BY <2>1, <2>2, FS_Injection
  <2>5. rank \in Surjection(S, 1..n)
    BY <2>3, <2>4
  <2> QED
    BY <2>5 DEF Surjection
<1>10. ASSUME NEW i \in 0..n - 1 PROVE \E x \in S : of(x) = i
  <2>1. i + 1 \in 1..n
    BY <1>0
  <2>2. PICK x \in S : rank[x] = i + 1
    BY <1>9, <2>1
  <2> QED
    BY <1>5, <2>2
<1>11. ASSUME NEW x \in S, NEW y \in S, of(x) < of(y) PROVE <<x, y>> \in R
  <2>1. x # y /\ ~(of(y) < of(x))
    BY <1>5, <1>11
  <2> QED
    BY <1>6, <2>1 DEF Ordered
<1>12. \A x \in S : of(x) \in 0..n - 1
  BY <1>0, <1>5
<1> HIDE DEF rank
<1> QED
  BY <1>0, <1>6, <1>8, <1>10, <1>11, <1>12 DEF of, n

\* As many of a lane's queue are taken, in order, as there is room for.
LEMMA LaneTakes ==
  ASSUME NEW A, IsFiniteSet(A), NEW R, Ordered(A, R), NEW B, IsFiniteSet(B), A \cap B = {},
         NEW room \in Nat, Cardinality(B) <= room,
         NEW T, T = {p \in A : Cardinality(Before(A, R, p)) + Cardinality(B) < room}
  PROVE  /\ Cardinality(T \cup B) <= room
         /\ T # A => room <= Cardinality(T \cup B)
<1> DEFINE of(x) == Cardinality(Before(A, R, x))
           b == Cardinality(B)
           k == room - b
           rank == [x \in T |-> of(x) + 1]
<1>1. b \in Nat /\ k \in Nat /\ IsFiniteSet(T) /\ T \subseteq A
  BY FS_CardinalityType, FS_Subset
<1>2. /\ Cardinality(A) \in Nat
      /\ \A x \in A : of(x) \in 0..Cardinality(A) - 1
      /\ \A x, y \in A : of(x) = of(y) => x = y
      /\ \A i \in 0..Cardinality(A) - 1 : \E x \in A : of(x) = i
  BY PlacesAreTaken
<1> HIDE DEF of
<1>3. \A p \in A : p \in T <=> of(p) < k
  BY <1>1, <1>2 DEF of
<1>4. rank \in [T -> 1..k] /\ \A x, y \in T : rank[x] = rank[y] => x = y
  BY <1>1, <1>2, <1>3
<1>5. IsFiniteSet(1..k) /\ Cardinality(1..k) = k
  <2>0. k \in Int
    BY <1>1
  <2> HIDE DEF k
  <2>1. IsFiniteSet(1..k) /\ Cardinality(1..k) = IF 1 > k THEN 0 ELSE k - 1 + 1
    BY <2>0, FS_Interval
  <2> QED
    BY <1>1, <2>1
<1> HIDE DEF rank, k, b
<1>6. rank \in Injection(T, 1..k)
  BY <1>4 DEF Injection, IsInjective
<1>7. /\ Cardinality(T) <= k
      /\ Cardinality(T) = k <=> rank \in Surjection(T, 1..k)
  BY <1>5, <1>6, FS_Injection
<1>8. Cardinality(T \cup B) = Cardinality(T) + b /\ Cardinality(T) \in Nat
  <2>1. T \cap B = {} /\ Cardinality({}) = 0
    BY <1>1, FS_EmptySet
  <2>2. Cardinality(T \cup B) = Cardinality(T) + Cardinality(B) - Cardinality(T \cap B)
    BY <1>1, FS_Union
  <2>3. Cardinality(T) \in Nat
    BY <1>1, FS_CardinalityType
  <2>4. Cardinality(T \cap B) = 0
    BY <2>1
  <2>5. Cardinality(T \cup B) = Cardinality(T) + b - Cardinality(T \cap B)
    BY <2>2 DEF b
  <2> QED
    BY <1>1, <2>3, <2>4, <2>5
<1>9. ASSUME T # A PROVE rank \in Surjection(T, 1..k)
  <2>1. PICK a \in A : a \notin T
    BY <1>1, <1>9
  <2>2. of(a) \in Nat /\ ~(of(a) < k) /\ of(a) < Cardinality(A)
    BY <1>2, <1>3, <2>1
  <2>3. ASSUME NEW i \in 1..k PROVE \E x \in T : rank[x] = i
    <3>1. i - 1 \in 0..Cardinality(A) - 1
      BY <1>1, <1>2, <2>2
    <3>2. PICK x \in A : of(x) = i - 1
      BY <1>2, <3>1
    <3>3. x \in T
      BY <1>1, <1>3, <3>2
    <3> QED
      BY <3>2, <3>3 DEF rank
  <2> QED
    BY <1>4, <2>3 DEF Surjection
<1>10. k + b = room
  BY <1>1 DEF k
<1> QED
  BY <1>1, <1>7, <1>8, <1>9, <1>10

-----------------------------------------------------------------------------
(* The event loop of both package schedules                                *)

LEMMA LeastOfSome ==
  ASSUME NEW T, T \subseteq Nat, T # {}
  PROVE  Min(T) \in T /\ \A y \in T : Min(T) <= y
  BY LeastNatural DEF Min

\* One round: some packages start and the loop goes to the next end, or nothing can.
Goes(pk, lane, capacity, s, r) ==
  \E u : /\ Starts(pk, lane, capacity, s, u)
         /\ \/ Advances(u, r)
            \/ /\ DOMAIN u.ends = s.done
               /\ r.now = s.now /\ r.ends = s.ends /\ r.begins = s.begins /\ r.done = s.done

\* The states of the loop, and when in them each package began.
Timed(D) == [now : Nat, ends : UNION {[E -> Nat] : E \in SUBSET D}, done : SUBSET D]

WithBegins(pk, s) ==
  [now |-> s.now, ends |-> s.ends, done |-> s.done,
   begins |-> [p \in DOMAIN s.ends |-> s.ends[p] - pk[p].seconds]]

TakeSeconds(pk) == \A p \in DOMAIN pk : pk[p].seconds \in Nat \ {0}

\* What starts fills the lanes.
Takes(pk, lane, capacity, s, started) ==
  /\ started \subseteq Available(pk, s)
  /\ \A l \in DOMAIN capacity :
       LET busy == {p \in started : lane[p] = l} \cup Busy_in(s, lane, l)
       IN  /\ Cardinality(busy) <= capacity[l]
           /\ \A p \in Available(pk, s) \ started :
                lane[p] = l => capacity[l] <= Cardinality(busy)

LEMMA TimedIs ==
  ASSUME NEW D, NEW s
  PROVE  s \in Timed(D) <=> /\ s = [now |-> s.now, ends |-> s.ends, done |-> s.done]
                            /\ s.now \in Nat /\ DOMAIN s.ends \subseteq D
                            /\ s.ends \in [DOMAIN s.ends -> Nat] /\ s.done \subseteq D
<1>1. ASSUME s \in Timed(D)
      PROVE  /\ s = [now |-> s.now, ends |-> s.ends, done |-> s.done]
             /\ s.now \in Nat /\ DOMAIN s.ends \subseteq D
             /\ s.ends \in [DOMAIN s.ends -> Nat] /\ s.done \subseteq D
  <2>1. /\ s = [now |-> s.now, ends |-> s.ends, done |-> s.done]
        /\ s.now \in Nat /\ s.done \subseteq D /\ s.ends \in UNION {[E -> Nat] : E \in SUBSET D}
    BY <1>1 DEF Timed
  <2>2. PICK E \in SUBSET D : s.ends \in [E -> Nat]
    BY <2>1
  <2> QED
    BY <2>1, <2>2
<1>2. ASSUME s = [now |-> s.now, ends |-> s.ends, done |-> s.done],
             s.now \in Nat, DOMAIN s.ends \subseteq D,
             s.ends \in [DOMAIN s.ends -> Nat], s.done \subseteq D
      PROVE  s \in Timed(D)
  <2>1. s.ends \in UNION {[E -> Nat] : E \in SUBSET D}
    BY <1>2
  <2>2. [now |-> s.now, ends |-> s.ends, done |-> s.done] \in Timed(D)
    BY <1>2, <2>1 DEF Timed
  <2> QED
    BY <1>2, <2>2
<1> QED
  BY <1>1, <1>2

\* What Round does, given when everything placed ends.
Rounds(pk, s, started, ends, r) ==
  /\ ends \in [DOMAIN s.ends \cup started -> Nat]
  /\ \A p \in DOMAIN s.ends : ends[p] = s.ends[p]
  /\ \A p \in started : ends[p] = s.now + pk[p].seconds
  /\ DOMAIN ends \ s.done = {} => r = s
  /\ DOMAIN ends \ s.done # {} =>
       /\ r.ends = ends
       /\ r.now \in {ends[p] : p \in DOMAIN ends \ s.done}
       /\ \A p \in DOMAIN ends \ s.done : r.now <= ends[p]
       /\ r.done = s.done \cup {p \in DOMAIN ends \ s.done : ends[p] = r.now}

LEMMA RoundIs ==
  ASSUME NEW pk, TakeSeconds(pk), NEW s \in Timed(DOMAIN pk),
         NEW started, started \subseteq Available(pk, s)
  PROVE  /\ Round(pk, s, started) \in Timed(DOMAIN pk)
         /\ \E ends : Rounds(pk, s, started, ends, Round(pk, s, started))
<1> DEFINE ends == [p \in DOMAIN s.ends \cup started |->
                      IF p \in started THEN s.now + pk[p].seconds ELSE s.ends[p]]
           active == DOMAIN ends \ s.done
           next == Min({ends[p] : p \in active})
           r == Round(pk, s, started)
<1>1. /\ s.now \in Nat /\ DOMAIN s.ends \subseteq DOMAIN pk
      /\ s.ends \in [DOMAIN s.ends -> Nat] /\ s.done \subseteq DOMAIN pk
  BY TimedIs
<1>2. started \subseteq DOMAIN pk /\ started \cap DOMAIN s.ends = {}
  BY DEF Available
<1>3. \A p \in started : s.now + pk[p].seconds \in Nat
  BY <1>1, <1>2 DEF TakeSeconds
<1>4. /\ ends \in [DOMAIN s.ends \cup started -> Nat]
      /\ \A p \in DOMAIN s.ends : ends[p] = s.ends[p]
      /\ \A p \in started : ends[p] = s.now + pk[p].seconds
      /\ DOMAIN ends \subseteq DOMAIN pk
  BY <1>1, <1>2, <1>3
<1>5. r = IF active = {} THEN s
          ELSE [now |-> next, ends |-> ends,
                done |-> s.done \cup {p \in active : ends[p] = next}]
  BY DEF Round
<1> HIDE DEF ends, r
<1>6. CASE active = {}
  <2>1. r = s
    BY <1>5, <1>6
  <2>2. Rounds(pk, s, started, ends, r)
    BY <1>4, <1>6, <2>1 DEF Rounds
  <2> QED
    BY <2>1, <2>2 DEF r
<1>7. CASE active # {}
  <2>1. next \in {ends[p] : p \in active} /\ \A y \in {ends[p] : p \in active} : next <= y
    <3>1. {ends[p] : p \in active} \subseteq Nat /\ {ends[p] : p \in active} # {}
      BY <1>4, <1>7
    <3> QED
      BY <3>1, LeastOfSome
  <2> HIDE DEF next
  <2>2. next \in Nat
    BY <1>4, <2>1
  <2>3. /\ r = [now |-> next, ends |-> ends, done |-> s.done \cup {p \in active : ends[p] = next}]
        /\ r.now = next /\ r.ends = ends /\ r.done = s.done \cup {p \in active : ends[p] = next}
    BY <1>5, <1>7
  <2>4. r.done \subseteq DOMAIN pk
    BY <1>1, <1>4, <2>3
  <2>5. r = [now |-> r.now, ends |-> r.ends, done |-> r.done]
    BY <2>3
  <2>6. r.now \in Nat /\ DOMAIN r.ends \subseteq DOMAIN pk /\ r.ends \in [DOMAIN r.ends -> Nat]
    BY <1>4, <2>2, <2>3
  <2>7. r \in Timed(DOMAIN pk)
    BY <2>4, <2>5, <2>6, TimedIs
  <2>8. Rounds(pk, s, started, ends, r)
    BY <1>4, <1>7, <2>1, <2>3 DEF Rounds
  <2> QED
    BY <2>7, <2>8 DEF r
<1> QED
  BY <1>6, <1>7

LEMMA RoundGoes ==
  ASSUME NEW pk, NEW lane, NEW capacity, Tasks(pk, lane, capacity), TakeSeconds(pk),
         NEW s \in Timed(DOMAIN pk), Sound(pk, lane, capacity, WithBegins(pk, s)),
         NEW started, Takes(pk, lane, capacity, s, started)
  PROVE  Goes(pk, lane, capacity, WithBegins(pk, s), WithBegins(pk, Round(pk, s, started)))
<1> DEFINE w == WithBegins(pk, s)
           r == Round(pk, s, started)
           v == WithBegins(pk, r)
<1>0. started \subseteq Available(pk, s)
  BY DEF Takes
<1>1. /\ s.now \in Nat /\ DOMAIN s.ends \subseteq DOMAIN pk
      /\ s.ends \in [DOMAIN s.ends -> Nat] /\ s.done \subseteq DOMAIN pk
  BY TimedIs
<1>2. /\ started \subseteq DOMAIN pk /\ started \cap DOMAIN s.ends = {}
      /\ \A p \in started : pk[p].depends_on \subseteq s.done
  BY <1>0 DEF Available
<1>2a. PICK ends : Rounds(pk, s, started, ends, r)
  BY <1>0, RoundIs
<1>3. /\ ends \in [DOMAIN s.ends \cup started -> Nat]
      /\ \A p \in DOMAIN s.ends : ends[p] = s.ends[p]
      /\ \A p \in started : ends[p] = s.now + pk[p].seconds
      /\ DOMAIN ends \ s.done = {} => r = s
      /\ DOMAIN ends \ s.done # {} =>
           /\ r.ends = ends
           /\ r.now \in {ends[p] : p \in DOMAIN ends \ s.done}
           /\ \A p \in DOMAIN ends \ s.done : r.now <= ends[p]
           /\ r.done = s.done \cup {p \in DOMAIN ends \ s.done : ends[p] = r.now}
  BY <1>2a DEF Rounds
<1> DEFINE begins == [p \in DOMAIN ends |-> ends[p] - pk[p].seconds]
           u == [now |-> s.now, ends |-> ends, begins |-> begins, done |-> s.done]
<1>4. /\ w.now = s.now /\ w.ends = s.ends /\ w.done = s.done
      /\ w.begins = [p \in DOMAIN s.ends |-> s.ends[p] - pk[p].seconds]
      /\ v.now = r.now /\ v.ends = r.ends /\ v.done = r.done
      /\ v.begins = [p \in DOMAIN r.ends |-> r.ends[p] - pk[p].seconds]
  BY DEF WithBegins
<1>5. Placements(pk, w)
  BY DEF Sound
<1>6. /\ \A p \in DOMAIN s.ends : w.begins[p] \in Nat /\ w.begins[p] = s.ends[p] - pk[p].seconds
      /\ s.done = {p \in DOMAIN s.ends : s.ends[p] <= s.now}
  BY <1>4, <1>5 DEF Placements
<1>7. /\ u.now = s.now /\ u.ends = ends /\ u.begins = begins /\ u.done = s.done
      /\ DOMAIN ends = DOMAIN s.ends \cup started
  BY <1>3
<1> HIDE DEF w, r, v, u
<1>8. \A p \in started : pk[p].seconds \in Nat /\ pk[p].seconds > 0
  BY <1>2 DEF TakeSeconds
<1>9. /\ \A p \in DOMAIN s.ends : begins[p] = w.begins[p]
      /\ \A p \in started : begins[p] = s.now
  <2>1. \A p \in DOMAIN s.ends : begins[p] = w.begins[p]
    BY <1>3, <1>6
  <2>2. \A p \in started : begins[p] = s.now
    BY <1>1, <1>3, <1>8
  <2> QED
    BY <2>1, <2>2
<1>10. begins \in [DOMAIN ends -> Nat]
  <2>1. \A p \in DOMAIN ends : begins[p] \in Nat
    BY <1>1, <1>6, <1>7, <1>9
  <2> QED
    BY <2>1
<1>10a. begins = [p \in DOMAIN ends |-> ends[p] - pk[p].seconds]
  OBVIOUS
<1> HIDE DEF begins
<1>11. \A p \in DOMAIN ends \ DOMAIN s.ends :
         begins[p] = s.now /\ s.now < ends[p] /\ pk[p].depends_on \subseteq s.done
  BY <1>1, <1>2, <1>3, <1>7, <1>8, <1>9
<1>12. \A l : Busy_in(u, lane, l) = {p \in started : lane[p] = l} \cup Busy_in(s, lane, l)
  BY <1>2, <1>6, <1>7 DEF Busy_in
<1>13. \A l \in DOMAIN capacity : Cardinality(Busy_in(u, lane, l)) <= capacity[l]
  BY <1>12 DEF Takes
<1>14. ASSUME NEW p \in DOMAIN pk \ DOMAIN ends, pk[p].depends_on \subseteq s.done
       PROVE  capacity[lane[p]] <= Cardinality(Busy_in(u, lane, lane[p]))
  <2>1. p \in Available(pk, s) \ started
    BY <1>7, <1>14 DEF Available
  <2>2. lane[p] \in DOMAIN capacity
    BY DEF Tasks
  <2> QED
    BY <1>12, <2>1, <2>2 DEF Takes
<1>15. Starts(pk, lane, capacity, w, u)
  <2>1. DOMAIN s.ends \subseteq DOMAIN ends /\ DOMAIN ends \subseteq DOMAIN pk
    BY <1>1, <1>2, <1>7
  <2>2. ends \in [DOMAIN ends -> Nat]
    BY <1>3
  <2> QED
    BY <1>3, <1>4, <1>7, <1>9, <1>10, <1>11, <1>13, <1>14, <2>1, <2>2 DEF Starts
<1>16. CASE DOMAIN ends \ s.done = {}
  <2>1. r = s /\ s.done = DOMAIN ends
    BY <1>3, <1>6, <1>7, <1>16
  <2>2. DOMAIN u.ends = w.done /\ v.now = w.now /\ v.ends = w.ends /\ v.done = w.done
        /\ v.begins = w.begins
    BY <1>4, <1>7, <2>1
  <2> QED
    BY <1>15, <2>2 DEF Goes, w, v, r
<1>17. CASE DOMAIN ends \ s.done # {}
  <2>1. /\ r.ends = ends /\ r.now \in {ends[p] : p \in DOMAIN ends \ s.done}
        /\ \A p \in DOMAIN ends \ s.done : r.now <= ends[p]
        /\ r.done = s.done \cup {p \in DOMAIN ends \ s.done : ends[p] = r.now}
    BY <1>3, <1>17
  <2>2. v.ends = u.ends /\ v.begins = u.begins /\ v.now = r.now /\ v.done = r.done
    BY <1>4, <1>7, <1>10a, <2>1
  <2>3. PICK a \in DOMAIN ends \ s.done : r.now = ends[a]
    BY <2>1
  <2>4. s.now <= r.now /\ r.now \in Nat
    <3>1. ends[a] \in Nat
      BY <1>3
    <3>2. CASE a \in DOMAIN s.ends
      BY <1>1, <1>3, <1>6, <2>3, <3>1, <3>2
    <3>3. CASE a \notin DOMAIN s.ends
      BY <1>1, <1>11, <2>3, <3>1, <3>3
    <3> QED
      BY <3>2, <3>3
  <2>5. r.done = {p \in DOMAIN ends : ends[p] <= r.now}
    <3>1. \A p \in s.done : p \in DOMAIN ends /\ ends[p] <= r.now
      <4> SUFFICES ASSUME NEW p \in s.done PROVE p \in DOMAIN ends /\ ends[p] <= r.now
        OBVIOUS
      <4>1. p \in DOMAIN s.ends /\ s.ends[p] <= s.now /\ ends[p] = s.ends[p] /\ ends[p] \in Nat
        BY <1>3, <1>6
      <4> QED
        BY <1>1, <1>7, <2>4, <4>1
    <3>2. \A p \in DOMAIN ends \ s.done : ends[p] = r.now <=> ends[p] <= r.now
      BY <1>3, <2>1, <2>4
    <3> QED
      BY <2>1, <3>1, <3>2
  <2>6. Advances(u, v)
    BY <1>7, <2>1, <2>2, <2>3, <2>5 DEF Advances
  <2> QED
    BY <1>15, <2>6 DEF Goes, w, v, r
<1> QED
  BY <1>16, <1>17

\* As many rounds as there are packages are enough, unless some wait for each other.
LEMMA RunsAreSound ==
  ASSUME NEW pk, NEW lane, NEW capacity, Tasks(pk, lane, capacity), NEW f,
         f[0].now = 0, f[0].done = {}, DOMAIN f[0].ends = {},
         f[0].ends \in [{} -> Nat], f[0].begins \in [{} -> Nat],
         \A n \in 1..Cardinality(DOMAIN pk) :
           Sound(pk, lane, capacity, f[n - 1]) => Goes(pk, lane, capacity, f[n - 1], f[n])
  PROVE  LET last == f[Cardinality(DOMAIN pk)]
         IN  /\ Sound(pk, lane, capacity, last)
             /\ last.done = DOMAIN pk <=> NoCircle(pk)
<1> DEFINE N == Cardinality(DOMAIN pk)
           Good(n) == /\ Sound(pk, lane, capacity, f[n])
                      /\ NoCircle(pk) => f[n].done = DOMAIN pk \/ n <= Cardinality(f[n].done)
           Bad == {n \in Nat : n <= N /\ ~Good(n)}
<1>1. N \in Nat /\ IsFiniteSet(DOMAIN pk)
  BY FS_CardinalityType DEF Tasks
<1>2. Good(0)
  <2>1. Placements(pk, f[0])
    BY DEF Placements
  <2>2. \A t, l : At(f[0], lane, t, l) = {}
    BY DEF At
  <2>3. Cardinality({}) = 0
    BY FS_EmptySet
  <2>3a. \A l \in DOMAIN capacity : 0 <= capacity[l]
    BY DEF Tasks
  <2>3b. \A t \in Nat : ~(t < f[0].now)
    OBVIOUS
  <2>4. RoomUsed(pk, lane, capacity, f[0])
    <3> HIDE DEF N, Good, Bad
    <3>1. \A t \in Nat : \A l \in DOMAIN capacity : Cardinality(At(f[0], lane, t, l)) <= capacity[l]
      BY <2>2, <2>3, <2>3a
    <3> QED
      BY <2>3b, <3>1 DEF RoomUsed
  <2> QED
    BY <2>1, <2>3, <2>4 DEF Sound
<1>3. ASSUME NEW n \in 1..N, Good(n - 1) PROVE Good(n)
  <2> DEFINE s == f[n - 1]
             r == f[n]
  <2>0. Sound(pk, lane, capacity, s) /\ Placements(pk, s)
    BY <1>3 DEF Sound
  <2>1. PICK u : /\ Starts(pk, lane, capacity, s, u)
                 /\ \/ Advances(u, r)
                    \/ /\ DOMAIN u.ends = s.done
                       /\ r.now = s.now /\ r.ends = s.ends /\ r.begins = s.begins
                       /\ r.done = s.done
    BY <2>0 DEF Goes
  <2>2. CASE DOMAIN u.ends = s.done /\ r.now = s.now /\ r.ends = s.ends /\ r.begins = s.begins
             /\ r.done = s.done
    <3>1. Sound(pk, lane, capacity, r)
      <4> HIDE DEF s, r
      <4>1. Placements(pk, r)
        BY <2>0, <2>2 DEF Placements
      <4>2. \A t, l : At(r, lane, t, l) = At(s, lane, t, l)
        BY <2>2 DEF At
      <4>3. RoomUsed(pk, lane, capacity, r)
        BY <2>0, <2>2, <4>2 DEF Sound, RoomUsed
      <4> QED
        BY <4>1, <4>3 DEF Sound
    <3>2. NoCircle(pk) => s.done = DOMAIN pk
      BY <2>0, <2>1, <2>2, SomethingRuns
    <3> QED
      BY <2>2, <3>1, <3>2
  <2>3. CASE Advances(u, r)
    <3>1. /\ Placements(pk, r) /\ s.done \subseteq r.done
          /\ \E p \in r.done : p \notin s.done
      BY <2>0, <2>1, <2>3, AdvancePlaces
    <3>2. RoomUsed(pk, lane, capacity, r)
      BY <2>0, <2>1, <2>3, AdvanceUsesRoom
    <3>3. r.done \subseteq DOMAIN pk /\ s.done \subseteq DOMAIN pk
      BY <3>1 DEF Placements
    <3>4. s.done # DOMAIN pk /\ s.done # r.done
      BY <3>1, <3>3
    <3>5. /\ IsFiniteSet(r.done) /\ Cardinality(r.done) \in Nat /\ Cardinality(s.done) \in Nat
      BY <1>1, <3>3, FS_Subset, FS_CardinalityType
    <3>6. s.done \in SUBSET r.done
      BY <3>1
    <3>7. /\ Cardinality(s.done) <= Cardinality(r.done)
          /\ Cardinality(r.done) = Cardinality(s.done) => r.done = s.done
      <4> HIDE DEF s, r
      <4> QED
        BY <3>5, <3>6, FS_Subset
    <3>8. NoCircle(pk) => n - 1 <= Cardinality(s.done)
      BY <1>3, <3>4
    <3>9. NoCircle(pk) => n <= Cardinality(r.done)
      BY <3>4, <3>5, <3>7, <3>8
    <3> QED
      BY <3>1, <3>2, <3>9 DEF Sound
  <2> QED
    BY <2>1, <2>2, <2>3
<1>4. Bad = {}
  <2>1. SUFFICES ASSUME Bad # {} PROVE FALSE
    OBVIOUS
  <2>2. PICK m \in Bad : \A n \in Bad : m <= n
    <3>1. Bad \subseteq Nat
      OBVIOUS
    <3> HIDE DEF Bad
    <3> QED
      BY <2>1, <3>1, LeastNatural
  <2>3. m \in Nat /\ m <= N /\ ~Good(m)
    BY <2>2
  <2> HIDE DEF Good
  <2>4. m # 0
    BY <1>2, <2>3
  <2>5. m - 1 \in Nat /\ m - 1 <= N /\ ~(m <= m - 1) /\ m \in 1..N
    BY <1>1, <2>3, <2>4
  <2>6. m - 1 \notin Bad
    <3> HIDE DEF Bad
    <3> QED
      BY <2>2, <2>5
  <2> QED
    BY <1>3, <2>3, <2>5, <2>6
<1>5. Good(N)
  <2> HIDE DEF Good
  <2> QED
    BY <1>1, <1>4
<1>6. Placements(pk, f[N])
  BY <1>5 DEF Sound
<1>7. f[N].done = DOMAIN pk => NoCircle(pk)
  BY <1>6, DoneHasNoCircle
<1>8. NoCircle(pk) => f[N].done = DOMAIN pk
  <2> SUFFICES ASSUME N <= Cardinality(f[N].done) PROVE f[N].done = DOMAIN pk
    BY <1>5
  <2>1. f[N].done \in SUBSET DOMAIN pk
    BY <1>6 DEF Placements
  <2>2. /\ Cardinality(f[N].done) <= N
        /\ N = Cardinality(f[N].done) => DOMAIN pk = f[N].done
    BY <1>1, <2>1, FS_Subset
  <2>3. Cardinality(f[N].done) \in Nat
    BY <1>1, <2>1, FS_Subset, FS_CardinalityType
  <2> HIDE DEF N
  <2> QED
    BY <1>1, <2>2, <2>3
<1> QED
  BY <1>5, <1>7, <1>8

-----------------------------------------------------------------------------
(* package_schedule and package_schedule_v5                                *)
Begun == [now |-> 0, ends |-> [p \in {} |-> 0], done |-> {}]

LEMMA BegunIsTimed == ASSUME NEW D PROVE Begun \in Timed(D)
<1>1. Begun.ends \in [{} -> Nat] /\ DOMAIN Begun.ends = {}
  BY DEF Begun
<1>2. Begun = [now |-> Begun.now, ends |-> Begun.ends, done |-> Begun.done]
      /\ Begun.now = 0 /\ Begun.done = {}
  BY DEF Begun
<1> HIDE DEF Begun
<1> QED
  BY <1>1, <1>2, TimedIs

\* Those who work have their lane's room.
LEMMA BusyFits ==
  ASSUME NEW pk, NEW lane, NEW capacity, NEW s, Sound(pk, lane, capacity, s),
         NEW l \in DOMAIN capacity
  PROVE  Cardinality(Busy_in(s, lane, l)) <= capacity[l]
<1>1. Busy_in(s, lane, l) = At(s, lane, s.now, l)
  <2>1. /\ s.now \in Nat /\ s.done = {p \in DOMAIN s.ends : s.ends[p] <= s.now}
        /\ \A p \in DOMAIN s.ends : s.ends[p] \in Nat /\ s.begins[p] <= s.now
    BY DEF Sound, Placements
  <2> QED
    BY <2>1 DEF Busy_in, At
<1>2. s.now \in Nat
  BY DEF Sound, Placements
<1> QED
  BY <1>1, <1>2 DEF Sound, RoomUsed

LEMMA RunOfV4 ==
  ASSUME NEW pk, IsFiniteSet(DOMAIN pk), TakeSeconds(pk), NEW w
  PROVE  \E f \in [0..Cardinality(DOMAIN pk) -> Timed(DOMAIN pk)] :
           /\ f[0] = Begun
           /\ \A n \in 1..Cardinality(DOMAIN pk) :
                f[n] = Round(pk, f[n - 1], LongestFirst(pk, w, f[n - 1]))
           /\ schedule_v4(pk, w) = f[Cardinality(DOMAIN pk)]
<1> DEFINE N == Cardinality(DOMAIN pk)
           St == Timed(DOMAIN pk)
           Step(s) == Round(pk, s, LongestFirst(pk, w, s))
           after[n \in 0..N] ==
             IF n = 0 THEN [now |-> 0, ends |-> [p \in {} |-> 0], done |-> {}]
             ELSE LET s == after[n - 1] IN Round(pk, s, LongestFirst(pk, w, s))
           Next_after(f) == [n \in 0..N |-> IF n = 0 THEN Begun ELSE Step(f[n - 1])]
           G == [x \in (1..N) \X St |-> Step(x[2])]
<1>1. N \in Nat
  BY FS_CardinalityType
<1>2. schedule_v4(pk, w) = after[N]
  BY Zenon DEF schedule_v4, Simulated
<1>3. after = CHOOSE f : f = Next_after(f)
  BY Zenon DEF Begun
<1> HIDE DEF after
<1>4. \A s \in St : Step(s) \in St
  <2> SUFFICES ASSUME NEW s \in St PROVE Step(s) \in St
    OBVIOUS
  <2>1. LongestFirst(pk, w, s) \subseteq Available(pk, s)
    BY DEF LongestFirst
  <2> QED
    BY <2>1, RoundIs
<1>5. Begun \in St
  BY BegunIsTimed
<1> HIDE DEF Step, St, N
<1>6. IsStep(G, St, N)
  BY <1>4 DEF IsStep
<1>7. PICK f : IsRun(f, St, N, Begun, G)
  <2> HIDE DEF G
  <2> QED
    BY <1>1, <1>5, <1>6, RunExists
<1>7a. f \in [0..N -> St] /\ f[0] = Begun /\ \A n \in 1..N : f[n] = G[<<n, f[n - 1]>>]
  <2> HIDE DEF G
  <2> QED
    BY <1>7 DEF IsRun
<1>8. \A n \in 1..N : f[n] = Step(f[n - 1])
  <2> SUFFICES ASSUME NEW n \in 1..N PROVE f[n] = Step(f[n - 1])
    OBVIOUS
  <2>1. f[n - 1] \in St
    BY <1>1, <1>7a
  <2>2. <<n, f[n - 1]>> \in (1..N) \X St
    BY <2>1
  <2>3. G[<<n, f[n - 1]>>] = Step(f[n - 1])
    BY <2>2
  <2> QED
    BY <1>7a, <2>3
<1>9. f = Next_after(f)
  <2>1. \A n \in 0..N : f[n] = IF n = 0 THEN Begun ELSE Step(f[n - 1])
    <3>1. \A n \in 0..N : n = 0 \/ n \in 1..N
      BY <1>1
    <3> QED
      BY <1>7a, <1>8, <3>1
  <2>2. f = [n \in 0..N |-> f[n]]
    BY <1>7a
  <2> QED
    BY <2>1, <2>2
<1>10. after = Next_after(after)
  BY <1>3, <1>9
<1> HIDE DEF G
<1>11. \A n \in 0..N : after[n] = IF n = 0 THEN Begun ELSE Step(after[n - 1])
  BY <1>10, Zenon
<1>12. after[0] = Begun /\ \A n \in 1..N : after[n] = Step(after[n - 1])
  <2>1. 0 \in 0..N /\ \A n \in 1..N : n \in 0..N /\ n # 0
    BY <1>1
  <2> QED
    BY <1>11, <2>1
<1>13. \A n \in 0..N : after[n] \in St
  <2> DEFINE Bad == {n \in Nat : n <= N /\ after[n] \notin St}
  <2>1. SUFFICES ASSUME Bad # {} PROVE FALSE
    BY <1>1
  <2>2. PICK m \in Bad : \A n \in Bad : m <= n
    <3>1. Bad \subseteq Nat
      OBVIOUS
    <3> HIDE DEF Bad
    <3> QED
      BY <2>1, <3>1, LeastNatural
  <2>3. m \in Nat /\ m <= N /\ after[m] \notin St
    BY <2>2
  <2>4. m # 0
    BY <1>5, <1>12, <2>3
  <2>5. m - 1 \in Nat /\ m - 1 <= N /\ ~(m <= m - 1) /\ m \in 1..N
    BY <1>1, <2>3, <2>4
  <2>6. m - 1 \notin Bad
    <3> HIDE DEF Bad
    <3> QED
      BY <2>2, <2>5
  <2>7. after[m - 1] \in St
    BY <2>5, <2>6
  <2> QED
    BY <1>4, <1>12, <2>3, <2>5, <2>7
<1>14. after \in [0..N -> St]
  <2>1. after = [n \in 0..N |-> after[n]]
    <3>1. DOMAIN after = 0..N
      BY <1>10, Zenon
    <3> QED
      BY <1>10, <3>1
  <2> QED
    BY <1>13, <2>1
<1> QED
  BY <1>2, <1>12, <1>14 DEF N, St, Step


LEMMA RunOfV5 ==
  ASSUME NEW pk, IsFiniteSet(DOMAIN pk), TakeSeconds(pk), NEW w
  PROVE  \E f \in [0..Cardinality(DOMAIN pk) -> Timed(DOMAIN pk)] :
           /\ f[0] = Begun
           /\ \A n \in 1..Cardinality(DOMAIN pk) :
                f[n] = Round(pk, f[n - 1], TwoLanes(pk, w, f[n - 1]))
           /\ schedule_v5(pk, w) = f[Cardinality(DOMAIN pk)]
<1> DEFINE N == Cardinality(DOMAIN pk)
           St == Timed(DOMAIN pk)
           Step(s) == Round(pk, s, TwoLanes(pk, w, s))
           after[n \in 0..N] ==
             IF n = 0 THEN [now |-> 0, ends |-> [p \in {} |-> 0], done |-> {}]
             ELSE LET s == after[n - 1] IN Round(pk, s, TwoLanes(pk, w, s))
           Next_after(f) == [n \in 0..N |-> IF n = 0 THEN Begun ELSE Step(f[n - 1])]
           G == [x \in (1..N) \X St |-> Step(x[2])]
<1>1. N \in Nat
  BY FS_CardinalityType
<1>2. schedule_v5(pk, w) = after[N]
  BY Zenon DEF schedule_v5, Simulated
<1>3. after = CHOOSE f : f = Next_after(f)
  BY Zenon DEF Begun
<1> HIDE DEF after
<1>4. \A s \in St : Step(s) \in St
  <2> SUFFICES ASSUME NEW s \in St PROVE Step(s) \in St
    OBVIOUS
  <2>1. TwoLanes(pk, w, s) \subseteq Available(pk, s)
    BY DEF TwoLanes
  <2> QED
    BY <2>1, RoundIs
<1>5. Begun \in St
  BY BegunIsTimed
<1> HIDE DEF Step, St, N
<1>6. IsStep(G, St, N)
  BY <1>4 DEF IsStep
<1>7. PICK f : IsRun(f, St, N, Begun, G)
  <2> HIDE DEF G
  <2> QED
    BY <1>1, <1>5, <1>6, RunExists
<1>7a. f \in [0..N -> St] /\ f[0] = Begun /\ \A n \in 1..N : f[n] = G[<<n, f[n - 1]>>]
  <2> HIDE DEF G
  <2> QED
    BY <1>7 DEF IsRun
<1>8. \A n \in 1..N : f[n] = Step(f[n - 1])
  <2> SUFFICES ASSUME NEW n \in 1..N PROVE f[n] = Step(f[n - 1])
    OBVIOUS
  <2>1. f[n - 1] \in St
    BY <1>1, <1>7a
  <2>2. <<n, f[n - 1]>> \in (1..N) \X St
    BY <2>1
  <2>3. G[<<n, f[n - 1]>>] = Step(f[n - 1])
    BY <2>2
  <2> QED
    BY <1>7a, <2>3
<1>9. f = Next_after(f)
  <2>1. \A n \in 0..N : f[n] = IF n = 0 THEN Begun ELSE Step(f[n - 1])
    <3>1. \A n \in 0..N : n = 0 \/ n \in 1..N
      BY <1>1
    <3> QED
      BY <1>7a, <1>8, <3>1
  <2>2. f = [n \in 0..N |-> f[n]]
    BY <1>7a
  <2> QED
    BY <2>1, <2>2
<1>10. after = Next_after(after)
  BY <1>3, <1>9
<1> HIDE DEF G
<1>11. \A n \in 0..N : after[n] = IF n = 0 THEN Begun ELSE Step(after[n - 1])
  BY <1>10, Zenon
<1>12. after[0] = Begun /\ \A n \in 1..N : after[n] = Step(after[n - 1])
  <2>1. 0 \in 0..N /\ \A n \in 1..N : n \in 0..N /\ n # 0
    BY <1>1
  <2> QED
    BY <1>11, <2>1
<1>13. \A n \in 0..N : after[n] \in St
  <2> DEFINE Bad == {n \in Nat : n <= N /\ after[n] \notin St}
  <2>1. SUFFICES ASSUME Bad # {} PROVE FALSE
    BY <1>1
  <2>2. PICK m \in Bad : \A n \in Bad : m <= n
    <3>1. Bad \subseteq Nat
      OBVIOUS
    <3> HIDE DEF Bad
    <3> QED
      BY <2>1, <3>1, LeastNatural
  <2>3. m \in Nat /\ m <= N /\ after[m] \notin St
    BY <2>2
  <2>4. m # 0
    BY <1>5, <1>12, <2>3
  <2>5. m - 1 \in Nat /\ m - 1 <= N /\ ~(m <= m - 1) /\ m \in 1..N
    BY <1>1, <2>3, <2>4
  <2>6. m - 1 \notin Bad
    <3> HIDE DEF Bad
    <3> QED
      BY <2>2, <2>5
  <2>7. after[m - 1] \in St
    BY <2>5, <2>6
  <2> QED
    BY <1>4, <1>12, <2>3, <2>5, <2>7
<1>14. after \in [0..N -> St]
  <2>1. after = [n \in 0..N |-> after[n]]
    <3>1. DOMAIN after = 0..N
      BY <1>10, Zenon
    <3> QED
      BY <1>10, <3>1
  <2> QED
    BY <1>13, <2>1
<1> QED
  BY <1>2, <1>12, <1>14 DEF N, St, Step


LEMMA TakesV4 ==
  ASSUME NEW pk, NEW w, NEW lane, lane = [p \in DOMAIN pk |-> "ALL"],
         NEW capacity, capacity = [l \in {"ALL"} |-> w],
         Tasks(pk, lane, capacity), TakeSeconds(pk),
         NEW s \in Timed(DOMAIN pk), Sound(pk, lane, capacity, WithBegins(pk, s))
  PROVE  Takes(pk, lane, capacity, s, LongestFirst(pk, w, s))
<1> DEFINE A == Available(pk, s)
           B == Active(s)
           before(q, p) == \/ pk[q].seconds > pk[p].seconds
                           \/ pk[q].seconds = pk[p].seconds /\ q < p
           R == {x \in A \X A : before(x[1], x[2])}
           T == LongestFirst(pk, w, s)
<1>1. /\ DOMAIN s.ends \subseteq DOMAIN pk /\ IsFiniteSet(DOMAIN pk)
      /\ \A p \in DOMAIN pk : p \in Nat /\ pk[p].seconds \in Nat /\ lane[p] = "ALL"
  BY TimedIs DEF Tasks, TakeSeconds
<1>2. A \subseteq DOMAIN pk /\ B \subseteq DOMAIN pk /\ A \cap B = {}
  BY <1>1 DEF Available, Active
<1>3. IsFiniteSet(A) /\ IsFiniteSet(B)
  BY <1>1, <1>2, FS_Subset
<1>4. T = {p \in A : Cardinality({q \in A : before(q, p)}) + Cardinality(B) < w}
  BY DEF LongestFirst
<1> HIDE DEF T, A, B
<1>5. Ordered(A, R)
  <2>1. \A p, q \in A : <<p, q>> \in R <=> before(p, q)
    OBVIOUS
  <2>2. \A p \in A : p \in Nat /\ pk[p].seconds \in Nat
    BY <1>1, <1>2
  <2>3. \A x \in A : ~before(x, x)
    BY <2>2
  <2>4. \A x, y \in A : x # y => before(x, y) \/ before(y, x)
    BY <2>2
  <2>5. \A x, y, z \in A : before(x, y) /\ before(y, z) => before(x, z)
    BY <2>2
  <2> HIDE DEF before, R
  <2> QED
    BY <2>1, <2>3, <2>4, <2>5 DEF Ordered
<1>6. \A p \in A : {q \in A : before(q, p)} = Before(A, R, p)
  BY DEF Before
<1>7. T = {p \in A : Cardinality(Before(A, R, p)) + Cardinality(B) < w}
  <2> HIDE DEF before, R
  <2> QED
    BY <1>4, <1>6
<1> HIDE DEF R, before
<1>8. Busy_in(s, lane, "ALL") = B
  BY <1>1 DEF Busy_in, Active, B
<1>9. DOMAIN capacity = {"ALL"} /\ capacity["ALL"] = w /\ w \in Nat
  BY DEF Tasks
<1>10. Cardinality(B) <= w
  <2>1. Cardinality(Busy_in(WithBegins(pk, s), lane, "ALL")) <= capacity["ALL"]
    BY <1>9, BusyFits
  <2>2. Busy_in(WithBegins(pk, s), lane, "ALL") = Busy_in(s, lane, "ALL")
    BY DEF Busy_in, WithBegins
  <2> QED
    BY <1>8, <1>9, <2>1, <2>2
<1>11. /\ Cardinality(T \cup B) <= w
       /\ T # A => w <= Cardinality(T \cup B)
  BY <1>2, <1>3, <1>5, <1>7, <1>9, <1>10, LaneTakes
<1>12. T \subseteq A /\ {p \in T : lane[p] = "ALL"} = T
  BY <1>1, <1>2, <1>7
<1>13. T \subseteq Available(pk, s) /\ \A p \in Available(pk, s) \ T : T # A
  BY <1>12 DEF A
<1> QED
  BY <1>8, <1>9, <1>11, <1>12, <1>13 DEF Takes, T

LEMMA TakesV5 ==
  ASSUME NEW pk, NEW w, NEW lane, lane = LaneOf(pk), NEW capacity, capacity = Lanes(w),
         Tasks(pk, lane, capacity), TakeSeconds(pk),
         NEW s \in Timed(DOMAIN pk), Sound(pk, lane, capacity, WithBegins(pk, s))
  PROVE  Takes(pk, lane, capacity, s, TwoLanes(pk, w, s))
<1> DEFINE T == TwoLanes(pk, w, s)
           room(p) == IF pk[p].executor = "SOL" THEN 1 ELSE w
           ahead(p) == {q \in Available(pk, s) : q < p /\ pk[q].executor = pk[p].executor}
           busy(p) == {q \in Active(s) : pk[q].executor = pk[p].executor}
<1>1. /\ DOMAIN s.ends \subseteq DOMAIN pk /\ IsFiniteSet(DOMAIN pk)
      /\ \A p \in DOMAIN pk : p \in Nat /\ lane[p] = pk[p].executor
  BY TimedIs DEF Tasks, LaneOf
<1>2. /\ DOMAIN capacity = {"SOL", "LUNA"} /\ capacity["SOL"] = 1 /\ capacity["LUNA"] = w
      /\ \A l \in DOMAIN capacity : capacity[l] \in Nat
  <2>1. DOMAIN capacity = {"SOL", "LUNA"} /\ capacity["SOL"] = 1 /\ capacity["LUNA"] = w
    BY DEF Lanes
  <2> QED
    BY <2>1 DEF Tasks
<1>3. T = {p \in Available(pk, s) : Cardinality(ahead(p)) + Cardinality(busy(p)) < room(p)}
  BY DEF TwoLanes
<1>4. T \subseteq Available(pk, s) /\ Available(pk, s) \subseteq DOMAIN pk
  BY <1>3 DEF Available
<1>5. ASSUME NEW l \in DOMAIN capacity
      PROVE  LET b == {p \in T : lane[p] = l} \cup Busy_in(s, lane, l)
             IN  /\ Cardinality(b) <= capacity[l]
                 /\ \A p \in Available(pk, s) \ T : lane[p] = l => capacity[l] <= Cardinality(b)
  <2> DEFINE A == {p \in Available(pk, s) : lane[p] = l}
             B == Busy_in(s, lane, l)
             R == {x \in A \X A : x[1] < x[2]}
             Tl == {p \in T : lane[p] = l}
  <2>1. A \subseteq DOMAIN pk /\ B \subseteq DOMAIN pk /\ A \cap B = {}
    BY <1>1, <1>4 DEF Available, Busy_in
  <2>2. IsFiniteSet(A) /\ IsFiniteSet(B)
    <3> HIDE DEF A, B
    <3> QED
      BY <1>1, <2>1, FS_Subset
  <2>3. ASSUME NEW p \in A PROVE /\ ahead(p) = Before(A, R, p) /\ busy(p) = B
                                 /\ room(p) = capacity[l]
    <3>1. lane[p] = l /\ pk[p].executor = l /\ p \in Available(pk, s)
      BY <1>1, <1>4
    <3>2. ahead(p) = {q \in A : q < p}
      BY <1>1, <1>4, <3>1
    <3>3. Before(A, R, p) = {q \in A : q < p}
      BY DEF Before
    <3>4. \A q \in Active(s) : q \in DOMAIN pk
      BY <1>1 DEF Active
    <3>5. busy(p) = B
      BY <1>1, <3>1, <3>4 DEF Active, Busy_in
    <3>6. room(p) = capacity[l]
      BY <1>2, <3>1
    <3> HIDE DEF A, R, B, ahead, busy, room
    <3> QED
      BY <3>2, <3>3, <3>5, <3>6
  <2>4. Tl = {p \in A : Cardinality(Before(A, R, p)) + Cardinality(B) < capacity[l]}
    <3>1. Tl = {p \in A : Cardinality(ahead(p)) + Cardinality(busy(p)) < room(p)}
      <4> HIDE DEF ahead, busy, room
      <4> QED
        BY <1>3
    <3> HIDE DEF A, R, B, Tl, ahead, busy, room
    <3> QED
      BY <2>3, <3>1
  <2>5. Ordered(A, R)
    <3>1. \A p \in A : p \in Nat
      BY <1>1, <2>1
    <3>2. \A p, q \in A : <<p, q>> \in R <=> p < q
      OBVIOUS
    <3> HIDE DEF A, R
    <3> QED
      BY <3>1, <3>2 DEF Ordered
  <2>6. Cardinality(B) <= capacity[l] /\ capacity[l] \in Nat
    <3>1. Cardinality(Busy_in(WithBegins(pk, s), lane, l)) <= capacity[l]
      BY BusyFits
    <3>2. Busy_in(WithBegins(pk, s), lane, l) = Busy_in(s, lane, l)
      BY DEF Busy_in, WithBegins
    <3> QED
      BY <1>2, <3>1, <3>2
  <2>6a. Tl \subseteq A /\ \A p \in Available(pk, s) \ T : lane[p] = l => Tl # A
    <3> HIDE DEF T
    <3> QED
      BY <1>4
  <2> HIDE DEF A, B, R, Tl, T
  <2>7. /\ Cardinality(Tl \cup B) <= capacity[l]
        /\ Tl # A => capacity[l] <= Cardinality(Tl \cup B)
    BY <2>1, <2>2, <2>4, <2>5, <2>6, LaneTakes
  <2> QED
    BY <2>6a, <2>7 DEF Tl, B
<1> HIDE DEF T
<1> QED
  BY <1>4, <1>5 DEF Takes, T


\* A run that begins with nothing and starts what it may is sound.
LEMMA RunIsSound ==
  ASSUME NEW pk, NEW lane, NEW capacity, Tasks(pk, lane, capacity),
         NEW f \in [0..Cardinality(DOMAIN pk) -> Timed(DOMAIN pk)], f[0] = Begun,
         \A n \in 1..Cardinality(DOMAIN pk) :
           Sound(pk, lane, capacity, WithBegins(pk, f[n - 1])) =>
             Goes(pk, lane, capacity, WithBegins(pk, f[n - 1]), WithBegins(pk, f[n]))
  PROVE  LET last == f[Cardinality(DOMAIN pk)]
         IN  /\ Sound(pk, lane, capacity, WithBegins(pk, last))
             /\ last.done = DOMAIN pk <=> NoCircle(pk)
<1> DEFINE N == Cardinality(DOMAIN pk)
           D == DOMAIN pk
<1> DEFINE g == [n \in 0..N |-> WithBegins(pk, f[n])]
<1>0. N \in Nat
  BY FS_CardinalityType DEF Tasks
<1>1. g[0].now = 0 /\ g[0].done = {} /\ DOMAIN g[0].ends = {}
      /\ g[0].ends \in [{} -> Nat] /\ g[0].begins \in [{} -> Nat]
  <2>1. 0 \in 0..N /\ g[0] = WithBegins(pk, Begun)
    BY <1>0
  <2> HIDE DEF g
  <2> QED
    BY <2>1 DEF WithBegins, Begun
<1>2. \A n \in 0..N : g[n] = WithBegins(pk, f[n])
  OBVIOUS
<1> HIDE DEF g
<1>3. \A n \in 1..N : Sound(pk, lane, capacity, g[n - 1]) => Goes(pk, lane, capacity, g[n - 1], g[n])
  <2> SUFFICES ASSUME NEW n \in 1..N, Sound(pk, lane, capacity, g[n - 1])
               PROVE  Goes(pk, lane, capacity, g[n - 1], g[n])
    OBVIOUS
  <2>1. n \in 0..N /\ n - 1 \in 0..N
    BY <1>0
  <2>2. g[n] = WithBegins(pk, f[n]) /\ g[n - 1] = WithBegins(pk, f[n - 1])
    BY <1>2, <2>1
  <2> QED
    BY <2>2
<1>4. Sound(pk, lane, capacity, g[N]) /\ (g[N].done = D <=> NoCircle(pk))
  BY <1>1, <1>3, RunsAreSound
<1>5. g[N] = WithBegins(pk, f[N])
  BY <1>0, <1>2
<1>6. g[N].done = f[N].done
  BY <1>5 DEF WithBegins
<1> QED
  BY <1>4, <1>5, <1>6

LEMMA SoundV4 ==
  ASSUME NEW pk, TakeSeconds(pk), NEW w, NEW lane, lane = [p \in DOMAIN pk |-> "ALL"],
         NEW capacity, capacity = [l \in {"ALL"} |-> w], Tasks(pk, lane, capacity)
  PROVE  LET s == schedule_v4(pk, w)
         IN  /\ Sound(pk, lane, capacity, WithBegins(pk, s))
             /\ s.done = DOMAIN pk <=> NoCircle(pk)
<1> DEFINE N == Cardinality(DOMAIN pk)
           D == DOMAIN pk
<1>1. N \in Nat /\ IsFiniteSet(D)
  BY FS_CardinalityType DEF Tasks
<1>2. PICK f \in [0..N -> Timed(D)] :
        /\ f[0] = Begun
        /\ \A n \in 1..N : f[n] = Round(pk, f[n - 1], LongestFirst(pk, w, f[n - 1]))
        /\ schedule_v4(pk, w) = f[N]
  BY <1>1, RunOfV4
<1>3. ASSUME NEW n \in 1..N, Sound(pk, lane, capacity, WithBegins(pk, f[n - 1]))
      PROVE  Goes(pk, lane, capacity, WithBegins(pk, f[n - 1]), WithBegins(pk, f[n]))
  <2>1. n - 1 \in 0..N
    BY <1>1
  <2>2. f[n - 1] \in Timed(D)
    BY <2>1
  <2>3. Takes(pk, lane, capacity, f[n - 1], LongestFirst(pk, w, f[n - 1]))
    BY <1>3, <2>2, TakesV4
  <2>4. Goes(pk, lane, capacity, WithBegins(pk, f[n - 1]),
             WithBegins(pk, Round(pk, f[n - 1], LongestFirst(pk, w, f[n - 1]))))
    BY <1>3, <2>2, <2>3, RoundGoes
  <2> QED
    BY <1>2, <2>4
<1>4. /\ Sound(pk, lane, capacity, WithBegins(pk, f[N]))
      /\ f[N].done = D <=> NoCircle(pk)
  BY RunIsSound, <1>2, <1>3
<1> QED
  BY <1>2, <1>4

LEMMA SoundV5 ==
  ASSUME NEW pk, TakeSeconds(pk), NEW w, NEW lane, lane = LaneOf(pk),
         NEW capacity, capacity = Lanes(w), Tasks(pk, lane, capacity)
  PROVE  LET s == schedule_v5(pk, w)
         IN  /\ Sound(pk, lane, capacity, WithBegins(pk, s))
             /\ s.done = DOMAIN pk <=> NoCircle(pk)
<1> DEFINE N == Cardinality(DOMAIN pk)
           D == DOMAIN pk
<1>1. N \in Nat /\ IsFiniteSet(D)
  BY FS_CardinalityType DEF Tasks
<1>2. PICK f \in [0..N -> Timed(D)] :
        /\ f[0] = Begun
        /\ \A n \in 1..N : f[n] = Round(pk, f[n - 1], TwoLanes(pk, w, f[n - 1]))
        /\ schedule_v5(pk, w) = f[N]
  BY <1>1, RunOfV5
<1>3. ASSUME NEW n \in 1..N, Sound(pk, lane, capacity, WithBegins(pk, f[n - 1]))
      PROVE  Goes(pk, lane, capacity, WithBegins(pk, f[n - 1]), WithBegins(pk, f[n]))
  <2>1. n - 1 \in 0..N
    BY <1>1
  <2>2. f[n - 1] \in Timed(D)
    BY <2>1
  <2>3. Takes(pk, lane, capacity, f[n - 1], TwoLanes(pk, w, f[n - 1]))
    BY <1>3, <2>2, TakesV5
  <2>4. Goes(pk, lane, capacity, WithBegins(pk, f[n - 1]),
             WithBegins(pk, Round(pk, f[n - 1], TwoLanes(pk, w, f[n - 1]))))
    BY <1>3, <2>2, <2>3, RoundGoes
  <2> QED
    BY <1>2, <2>4
<1>4. /\ Sound(pk, lane, capacity, WithBegins(pk, f[N]))
      /\ f[N].done = D <=> NoCircle(pk)
  BY RunIsSound, <1>2, <1>3
<1> QED
  BY <1>2, <1>4

\* What a sound schedule says of the graph it is for, and of its own times.
LEMMA SoundIsExact ==
  ASSUME NEW pk, NEW lane, NEW capacity, Tasks(pk, lane, capacity), NEW s,
         Sound(pk, lane, capacity, WithBegins(pk, s)),
         s.done = DOMAIN pk <=> NoCircle(pk), IsAcyclic <=> NoCircle(pk)
  PROVE  /\ ScheduleIsExact(pk, s, lane, capacity)
         /\ IsAcyclic => /\ DOMAIN s.ends = DOMAIN pk
                         /\ \A p \in DOMAIN pk : s.ends[p] \in Nat /\ s.ends[p] - pk[p].seconds \in Nat
<1> DEFINE begins == [p \in DOMAIN pk |-> s.ends[p] - pk[p].seconds]
           v == WithBegins(pk, s)
<1>1. HasCycle(pk, s) <=> ~IsAcyclic
  BY DEF HasCycle
<1>2. ASSUME IsAcyclic
      PROVE  /\ IsGreedy(pk, begins, s.ends, lane, capacity)
             /\ DOMAIN s.ends = DOMAIN pk
             /\ \A p \in DOMAIN pk : s.ends[p] \in Nat /\ begins[p] \in Nat
  <2>1. v.done = DOMAIN pk /\ v.ends = s.ends
        /\ v.begins = [p \in DOMAIN s.ends |-> s.ends[p] - pk[p].seconds]
    BY <1>2 DEF WithBegins
  <2>2. /\ DOMAIN s.ends = DOMAIN pk
        /\ \A p \in DOMAIN pk : v.ends[p] \in Nat /\ v.begins[p] \in Nat
    <3> HIDE DEF v
    <3> QED
      BY <2>1 DEF Sound, Placements, v
  <2>3. v.begins = begins
    BY <2>1, <2>2
  <2>4. CASE DOMAIN pk # {}
    <3>1. IsGreedy(pk, v.begins, v.ends, lane, capacity)
      <4> HIDE DEF v
      <4> QED
        BY <2>1, <2>4, SoundIsGreedy DEF v
    <3> HIDE DEF begins, v
    <3> QED
      BY <2>1, <2>2, <2>3, <3>1
  <2>5. CASE DOMAIN pk = {}
    <3>1. \A l \in DOMAIN capacity : Cardinality({}) <= capacity[l]
      BY FS_EmptySet DEF Tasks
    <3>2. IsGreedy(pk, begins, s.ends, lane, capacity)
      <4> DEFINE at(t, l) == {p \in DOMAIN pk : lane[p] = l /\ begins[p] <= t /\ t < s.ends[p]}
      <4>1. \A t, l : at(t, l) = {}
        BY <2>5
      <4> HIDE DEF begins
      <4>2. \A t : \A l \in DOMAIN capacity : Cardinality(at(t, l)) <= capacity[l]
        <5> HIDE DEF at
        <5> QED
          BY <3>1, <4>1
      <4> QED
        BY <2>5, <4>2 DEF IsGreedy
    <3> QED
      BY <2>2, <2>5, <3>2
  <2> QED
    BY <2>4, <2>5
<1>3. ScheduleIsExact(pk, s, lane, capacity)
  BY <1>1, <1>2 DEF ScheduleIsExact
<1> QED
  BY <1>2, <1>3

-----------------------------------------------------------------------------
(* net_schedule *)
NetSeconds(pk) ==
  \A p \in DOMAIN pk :
    /\ pk[p].seconds \in Nat \ {0} /\ pk[p].base_seconds \in Nat \ {0}
    /\ pk[p].context_seconds \in Nat /\ pk[p].retained_seconds \in Nat

Partial(D) == UNION {[E -> Nat] : E \in SUBSET D}

NetStates(D) == [now : Nat, ends : Partial(D), begins : Partial(D), done : SUBSET D,
                 writer : Partial(D), fresh : SUBSET D]

LEMMA PartialIs ==
  ASSUME NEW D, NEW f
  PROVE  f \in Partial(D) <=> DOMAIN f \subseteq D /\ f \in [DOMAIN f -> Nat]
<1>1. ASSUME f \in Partial(D) PROVE DOMAIN f \subseteq D /\ f \in [DOMAIN f -> Nat]
  <2>1. PICK E \in SUBSET D : f \in [E -> Nat]
    BY <1>1 DEF Partial
  <2> QED
    BY <2>1
<1>2. ASSUME DOMAIN f \subseteq D, f \in [DOMAIN f -> Nat] PROVE f \in Partial(D)
  BY <1>2 DEF Partial
<1> QED
  BY <1>1, <1>2

Adds(f, p, value, g) ==
  DOMAIN g = DOMAIN f \cup {p} /\ g[p] = value /\ \A q \in DOMAIN f : q # p => g[q] = f[q]

LEMMA WithIs ==
  ASSUME NEW D, NEW f \in Partial(D), NEW p \in D, NEW value \in Nat
  PROVE  With(f, p, value) \in Partial(D) /\ Adds(f, p, value, With(f, p, value))
<1> DEFINE g == With(f, p, value)
<1>1. DOMAIN f \subseteq D /\ f \in [DOMAIN f -> Nat]
  BY PartialIs
<1>2. g = [q \in DOMAIN f \cup {p} |-> IF q = p THEN value ELSE f[q]]
  BY DEF With
<1>3. /\ DOMAIN g = DOMAIN f \cup {p} /\ g[p] = value
      /\ \A q \in DOMAIN f : q # p => g[q] = f[q]
  BY <1>2
<1>4. g \in [DOMAIN f \cup {p} -> Nat]
  <2>1. \A q \in DOMAIN f \cup {p} : (IF q = p THEN value ELSE f[q]) \in Nat
    BY <1>1
  <2> HIDE DEF g
  <2> QED
    BY <1>2, <2>1
<1>5. DOMAIN f \cup {p} \in SUBSET D
  BY <1>1
<1>6. g \in Partial(D)
  <2> HIDE DEF g
  <2> QED
    BY <1>4, <1>5 DEF Partial
<1> QED
  BY <1>3, <1>6 DEF Adds

\* p is placed where it may begin now.
IsPlaced(s, r, p, seconds) ==
  /\ r.now = s.now /\ r.done = s.done
  /\ r.ends = With(s.ends, p, s.now + seconds) /\ r.begins = With(s.begins, p, s.now)

\* It is Luna's, and given to a writer, whose context is kept or new.
IsAssigned(pk, s, r, p, w) ==
  /\ r.writer = With(s.writer, p, w)
  /\ IF pk[p].domain \in DomainOf(pk, s, w)
       THEN r.fresh = s.fresh /\ IsPlaced(s, r, p, pk[p].seconds + pk[p].retained_seconds)
       ELSE r.fresh = s.fresh \cup {p}
            /\ IsPlaced(s, r, p, pk[p].seconds + pk[p].context_seconds)

SolWorksOn(luna, s) == (DOMAIN s.ends \ s.done) \ luna

\* What Assign does with p.
Assigns(pk, luna, w, s, p, r) ==
  /\ r \in NetStates(DOMAIN pk)
  /\ p \in luna /\ Idle_writers(luna, w, s) = {} => r = s
  /\ p \in luna /\ Idle_writers(luna, w, s) # {} =>
       \E v \in Idle_writers(luna, w, s) : IsAssigned(pk, s, r, p, v)
  /\ p \notin luna /\ SolWorksOn(luna, s) # {} => r = s
  /\ p \notin luna /\ SolWorksOn(luna, s) = {} =>
       /\ r.writer = s.writer /\ r.fresh = s.fresh
       /\ IsPlaced(s, r, p, pk[p].base_seconds)

LEMMA AssignIs ==
  ASSUME NEW pk, NetSeconds(pk), NEW luna, NEW w \in Nat, NEW s \in NetStates(DOMAIN pk),
         NEW p \in DOMAIN pk
  PROVE  Assigns(pk, luna, w, s, p, Assign(pk, luna, w, s, p))
<1> DEFINE r == Assign(pk, luna, w, s, p)
<1> SUFFICES /\ r \in NetStates(DOMAIN pk)
             /\ p \in luna /\ Idle_writers(luna, w, s) = {} => r = s
             /\ p \in luna /\ Idle_writers(luna, w, s) # {} =>
                  \E v \in Idle_writers(luna, w, s) : IsAssigned(pk, s, r, p, v)
             /\ p \notin luna /\ SolWorksOn(luna, s) # {} => r = s
             /\ p \notin luna /\ SolWorksOn(luna, s) = {} =>
                  /\ r.writer = s.writer /\ r.fresh = s.fresh
                  /\ IsPlaced(s, r, p, pk[p].base_seconds)
  BY DEF Assigns
<1>0. r = Assign(pk, luna, w, s, p)
  OBVIOUS
<1> HIDE DEF r
<1> DEFINE free == Idle_writers(luna, w, s)
           same == {v \in free : pk[p].domain \in DomainOf(pk, s, v)}
           some == IF same # {} THEN same ELSE free
           v == Min(some)
           context == IF same # {} THEN pk[p].retained_seconds ELSE pk[p].context_seconds
           fresh == s.fresh \cup (IF same # {} THEN {} ELSE {p})
           placed(seconds) == [now |-> s.now, ends |-> With(s.ends, p, s.now + seconds),
                               begins |-> With(s.begins, p, s.now), done |-> s.done,
                               writer |-> s.writer, fresh |-> s.fresh]
           given == [now |-> s.now, ends |-> With(s.ends, p, s.now + (pk[p].seconds + context)),
                     begins |-> With(s.begins, p, s.now), done |-> s.done,
                     writer |-> With(s.writer, p, v), fresh |-> fresh]
<1>1. /\ s = [now |-> s.now, ends |-> s.ends, begins |-> s.begins, done |-> s.done,
              writer |-> s.writer, fresh |-> s.fresh]
      /\ s.now \in Nat /\ s.ends \in Partial(DOMAIN pk) /\ s.begins \in Partial(DOMAIN pk)
      /\ s.done \in SUBSET DOMAIN pk /\ s.writer \in Partial(DOMAIN pk)
      /\ s.fresh \in SUBSET DOMAIN pk
  BY DEF NetStates
<1>2. \A seconds : Placed(s, p, seconds) = placed(seconds)
  <2> SUFFICES ASSUME NEW seconds PROVE Placed(s, p, seconds) = placed(seconds)
    OBVIOUS
  <2>1. Placed(s, p, seconds) = [s EXCEPT !.ends = With(s.ends, p, s.now + seconds),
                                          !.begins = With(s.begins, p, s.now)]
    BY DEF Placed
  <2> QED
    BY <1>1, <2>1
<1>3. r = IF p \in luna
            THEN IF free = {} THEN s
                 ELSE [placed(pk[p].seconds + context)
                         EXCEPT !.writer = With(@, p, v),
                                !.fresh = @ \cup IF same # {} THEN {} ELSE {p}]
          ELSE IF SolWorksOn(luna, s) # {} THEN s
          ELSE placed(pk[p].base_seconds)
  <2>1. r = IF p \in luna
              THEN IF free = {} THEN s
                   ELSE [Placed(s, p, pk[p].seconds + context)
                           EXCEPT !.writer = With(@, p, v),
                                  !.fresh = @ \cup IF same # {} THEN {} ELSE {p}]
            ELSE IF SolWorksOn(luna, s) # {} THEN s
            ELSE Placed(s, p, pk[p].base_seconds)
    BY <1>0 DEF Assign, SolWorksOn
  <2>2. /\ Placed(s, p, pk[p].seconds + context) = placed(pk[p].seconds + context)
        /\ Placed(s, p, pk[p].base_seconds) = placed(pk[p].base_seconds)
    <3> HIDE DEF placed
    <3> QED
      BY <1>2
  <2> HIDE DEF placed, context, v, same, free
  <2> QED
    BY <2>1, <2>2
<1>4. pk[p].seconds + context \in Nat /\ pk[p].base_seconds \in Nat
  BY DEF NetSeconds
<1>5. \A seconds \in Nat : placed(seconds) \in NetStates(DOMAIN pk)
  <2> SUFFICES ASSUME NEW seconds \in Nat PROVE placed(seconds) \in NetStates(DOMAIN pk)
    OBVIOUS
  <2>1. s.now + seconds \in Nat
    BY <1>1
  <2>2. With(s.ends, p, s.now + seconds) \in Partial(DOMAIN pk)
    BY <1>1, <2>1, WithIs
  <2>3. With(s.begins, p, s.now) \in Partial(DOMAIN pk)
    BY <1>1, WithIs
  <2> QED
    BY <1>1, <2>2, <2>3 DEF NetStates
<1>6. CASE p \in luna /\ free = {}
  BY <1>3, <1>6
<1>7. CASE p \notin luna /\ SolWorksOn(luna, s) # {}
  BY <1>3, <1>7
<1>8. CASE p \notin luna /\ SolWorksOn(luna, s) = {}
  <2>1. r = placed(pk[p].base_seconds)
    BY <1>3, <1>8
  <2>2. /\ r.now = s.now /\ r.ends = With(s.ends, p, s.now + pk[p].base_seconds)
        /\ r.begins = With(s.begins, p, s.now) /\ r.done = s.done
        /\ r.writer = s.writer /\ r.fresh = s.fresh
    BY <2>1
  <2> QED
    BY <1>4, <1>5, <1>8, <2>1, <2>2 DEF IsPlaced
<1>9. CASE p \in luna /\ free # {}
  <2>1. some \subseteq free /\ some # {}
    BY <1>9
  <2>2. free \subseteq Nat
    BY DEF Idle_writers
  <2>3. v \in some
    <3> HIDE DEF some, free
    <3> QED
      BY <2>1, <2>2, LeastOfSome
  <2>4. v \in free /\ v \in Nat /\ (same # {} <=> pk[p].domain \in DomainOf(pk, s, v))
    <3> HIDE DEF v, free
    <3> QED
      BY <2>1, <2>2, <2>3
  <2> HIDE DEF v, free, same, some
  <2>5. r = given
    BY <1>3, <1>9
  <2> HIDE DEF context
  <2>6. /\ r.now = s.now /\ r.ends = With(s.ends, p, s.now + (pk[p].seconds + context))
        /\ r.begins = With(s.begins, p, s.now) /\ r.done = s.done
        /\ r.writer = With(s.writer, p, v) /\ r.fresh = fresh
    BY <2>5
  <2>7. s.now + (pk[p].seconds + context) \in Nat
    BY <1>1, <1>4
  <2>8. r.ends \in Partial(DOMAIN pk)
    <3>1. With(s.ends, p, s.now + (pk[p].seconds + context)) \in Partial(DOMAIN pk)
      BY <1>1, <2>7, WithIs
    <3> QED
      BY <2>6, <3>1
  <2>9. r.begins \in Partial(DOMAIN pk)
    <3>1. With(s.begins, p, s.now) \in Partial(DOMAIN pk)
      BY <1>1, WithIs
    <3> QED
      BY <2>6, <3>1
  <2>10. r.writer \in Partial(DOMAIN pk)
    <3>1. With(s.writer, p, v) \in Partial(DOMAIN pk)
      BY <1>1, <2>4, WithIs
    <3> QED
      BY <2>6, <3>1
  <2>11. fresh \in SUBSET DOMAIN pk
    BY <1>1
  <2>12. r \in NetStates(DOMAIN pk)
    <3>1. given = [now |-> r.now, ends |-> r.ends, begins |-> r.begins, done |-> r.done,
                   writer |-> r.writer, fresh |-> r.fresh]
      BY <2>6
    <3>2. r.now \in Nat /\ r.done \in SUBSET DOMAIN pk /\ r.fresh \in SUBSET DOMAIN pk
      BY <1>1, <2>6, <2>11
    <3> HIDE DEF given, fresh
    <3> QED
      BY <2>5, <2>8, <2>9, <2>10, <3>1, <3>2 DEF NetStates
  <2>13. IsAssigned(pk, s, r, p, v)
    BY <2>4, <2>6 DEF IsAssigned, IsPlaced, context
  <2> QED
    BY <1>9, <2>4, <2>12, <2>13 DEF free
<1> QED
  BY <1>6, <1>7, <1>8, <1>9


\* What holds at any time of the loop: writers and Sol do one package at a time.
NetHolds(pk, luna, w, s) ==
  /\ DOMAIN s.begins = DOMAIN s.ends /\ s.done \subseteq DOMAIN s.ends
  /\ \A q \in DOMAIN s.ends :
       s.begins[q] <= s.now /\ s.begins[q] < s.ends[q] /\ (q \in s.done <=> s.ends[q] <= s.now)
  /\ DOMAIN s.writer = luna \cap DOMAIN s.ends /\ s.fresh \subseteq DOMAIN s.writer
  /\ \A q \in DOMAIN s.writer : s.writer[q] \in 1..w
  /\ \A q, x \in DOMAIN s.writer \ s.done : s.writer[q] = s.writer[x] => q = x
  /\ \A q, x \in SolWorksOn(luna, s) : q = x
  /\ ContextsAreKept(pk, s)

LEMMA ContextStays ==
  ASSUME NEW pk, NEW luna, NEW w \in Nat, NEW s \in NetStates(DOMAIN pk), NetHolds(pk, luna, w, s),
         NEW p \in DOMAIN pk \ DOMAIN s.ends, NEW r, NEW v \in Idle_writers(luna, w, s),
         IsAssigned(pk, s, r, p, v), NetSeconds(pk)
  PROVE  ContextsAreKept(pk, r)
<1> DEFINE M == DOMAIN s.writer
           mine == {q \in M : s.writer[q] = v}
           latest == {q \in mine : \A x \in mine : s.begins[x] <= s.begins[q]}
<1>1. /\ s.now \in Nat /\ s.ends \in Partial(DOMAIN pk) /\ s.begins \in Partial(DOMAIN pk)
      /\ s.writer \in Partial(DOMAIN pk)
  BY DEF NetStates
<1>2. /\ M = luna \cap DOMAIN s.ends /\ DOMAIN s.begins = DOMAIN s.ends /\ s.fresh \subseteq M
      /\ \A q \in DOMAIN s.ends : s.begins[q] \in Nat /\ s.ends[q] \in Nat
                                  /\ s.begins[q] <= s.now /\ s.begins[q] < s.ends[q]
      /\ \A q \in s.done : q \in DOMAIN s.ends /\ s.ends[q] <= s.now
  <2>1. \A q \in DOMAIN s.ends : s.ends[q] \in Nat
    BY <1>1, PartialIs
  <2>2. \A q \in DOMAIN s.begins : s.begins[q] \in Nat
    BY <1>1, PartialIs
  <2> QED
    BY <2>1, <2>2 DEF NetHolds
<1>3. \A q \in mine : s.ends[q] <= s.now /\ s.begins[q] < s.now
  <2> SUFFICES ASSUME NEW q \in mine PROVE s.ends[q] <= s.now /\ s.begins[q] < s.now
    OBVIOUS
  <2>1. q \in luna \cap DOMAIN s.ends
    BY <1>2
  <2>2. q \in s.done
    BY <2>1 DEF Idle_writers
  <2> QED
    BY <1>1, <1>2, <2>1, <2>2
<1>0. p \in DOMAIN pk
  OBVIOUS
<1>0a. ASSUME NEW f \in Partial(DOMAIN pk), NEW value \in Nat
       PROVE  /\ DOMAIN With(f, p, value) = DOMAIN f \cup {p}
              /\ With(f, p, value)[p] = value
              /\ \A q \in DOMAIN f : q # p => With(f, p, value)[q] = f[q]
  <2>1. Adds(f, p, value, With(f, p, value))
    BY <1>0, WithIs
  <2> QED
    BY <2>1 DEF Adds
<1>4. v \in Nat
  BY DEF Idle_writers
<1>5. \E seconds \in Nat : IsPlaced(s, r, p, seconds)
  BY DEF IsAssigned, NetSeconds
<1>6. PICK seconds \in Nat : IsPlaced(s, r, p, seconds)
  BY <1>5
<1>7. /\ DOMAIN r.writer = M \cup {p} /\ r.writer[p] = v
      /\ \A q \in M : q # p /\ r.writer[q] = s.writer[q]
  <2>1. r.writer = With(s.writer, p, v)
    BY DEF IsAssigned
  <2>2. /\ DOMAIN With(s.writer, p, v) = M \cup {p} /\ With(s.writer, p, v)[p] = v
        /\ \A q \in M : q # p => With(s.writer, p, v)[q] = s.writer[q]
    BY <1>0a, <1>1, <1>4
  <2> QED
    BY <1>2, <2>1, <2>2
<1>8. r.begins[p] = s.now /\ \A q \in M : r.begins[q] = s.begins[q]
  <2>1. r.begins = With(s.begins, p, s.now)
    BY <1>6 DEF IsPlaced
  <2>2. /\ With(s.begins, p, s.now)[p] = s.now
        /\ \A q \in DOMAIN s.begins : q # p => With(s.begins, p, s.now)[q] = s.begins[q]
    BY <1>0a, <1>1
  <2> QED
    BY <1>2, <1>7, <2>1, <2>2
<1>9. \A q \in M : r.ends[q] = s.ends[q]
  <2>1. r.ends = With(s.ends, p, s.now + seconds)
    BY <1>6 DEF IsPlaced
  <2>2. s.now + seconds \in Nat
    BY <1>1
  <2>3. \A q \in DOMAIN s.ends : q # p => With(s.ends, p, s.now + seconds)[q] = s.ends[q]
    BY <1>0a, <1>1, <2>2
  <2> QED
    BY <1>2, <1>7, <2>1, <2>3
<1> DEFINE early(y, x) == {q \in DOMAIN y.writer : y.writer[q] = y.writer[x] /\ y.begins[q] < y.begins[x]}
           last(y, x) == {q \in early(y, x) : \A z \in early(y, x) : y.begins[z] <= y.begins[q]}
           ok(y, x) == /\ \A q \in early(y, x) : y.ends[q] <= y.begins[x]
                       /\ x \in y.fresh <=> \A q \in last(y, x) : pk[q].domain # pk[x].domain
<1>10. ASSUME NEW x \in M PROVE ok(r, x)
  <2>1. early(r, x) = early(s, x)
    <3>1. s.begins[x] <= s.now /\ s.begins[x] \in Nat
      BY <1>2
    <3>2. ~(r.begins[p] < r.begins[x])
      BY <1>1, <1>8, <3>1
    <3>3. \A q \in M : r.writer[q] = r.writer[x] /\ r.begins[q] < r.begins[x]
                         <=> s.writer[q] = s.writer[x] /\ s.begins[q] < s.begins[x]
      BY <1>7, <1>8
    <3> QED
      BY <1>7, <3>2, <3>3
  <2>2. early(s, x) \subseteq M
    OBVIOUS
  <2>3. last(r, x) = last(s, x)
    <3> HIDE DEF early
    <3> QED
      BY <1>8, <2>1, <2>2
  <2>4. x \in r.fresh <=> x \in s.fresh
    BY <1>7 DEF IsAssigned
  <2>5. ok(s, x)
    BY DEF NetHolds, ContextsAreKept
  <2> HIDE DEF early, last
  <2> QED
    BY <1>8, <1>9, <2>1, <2>2, <2>3, <2>4, <2>5
<1>11. ok(r, p)
  <2>1. early(r, p) = mine
    <3>1. ~(r.begins[p] < r.begins[p])
      BY <1>1, <1>8
    <3>2. \A q \in M : r.writer[q] = r.writer[p] <=> s.writer[q] = v
      BY <1>7
    <3>3. \A q \in mine : r.begins[q] < r.begins[p]
      BY <1>3, <1>8
    <3> HIDE DEF M
    <3> QED
      BY <1>7, <3>1, <3>2, <3>3
  <2>2. mine \subseteq M
    OBVIOUS
  <2>3. last(r, p) = latest
    <3> HIDE DEF early, mine
    <3> QED
      BY <1>8, <2>1, <2>2
  <2>4. DomainOf(pk, s, v) = {pk[q].domain : q \in latest}
    BY DEF DomainOf
  <2>5. \A q \in mine : r.ends[q] <= r.begins[p]
    BY <1>3, <1>8, <1>9
  <2>6. p \notin s.fresh
    BY <1>2
  <2>7. p \in r.fresh <=> pk[p].domain \notin DomainOf(pk, s, v)
    BY <2>6 DEF IsAssigned
  <2>8. p \in r.fresh <=> \A q \in latest : pk[q].domain # pk[p].domain
    <3> HIDE DEF latest
    <3> QED
      BY <2>4, <2>7
  <2> HIDE DEF early, last, mine, latest
  <2> QED
    BY <2>1, <2>3, <2>5, <2>8
<1>12. \A x \in DOMAIN r.writer : ok(r, x)
  <2> HIDE DEF ok
  <2> QED
    BY <1>7, <1>10, <1>11
<1> QED
  BY <1>12 DEF ContextsAreKept


LEMMA ContextUnchanged ==
  ASSUME NEW pk, NEW s, NEW r, ContextsAreKept(pk, s), r.writer = s.writer, r.fresh = s.fresh,
         \A q \in DOMAIN s.writer : r.begins[q] = s.begins[q] /\ r.ends[q] = s.ends[q]
  PROVE  ContextsAreKept(pk, r)
<1> DEFINE early(y, x) == {q \in DOMAIN y.writer : y.writer[q] = y.writer[x] /\ y.begins[q] < y.begins[x]}
           last(y, x) == {q \in early(y, x) : \A z \in early(y, x) : y.begins[z] <= y.begins[q]}
           ok(y, x) == /\ \A q \in early(y, x) : y.ends[q] <= y.begins[x]
                       /\ x \in y.fresh <=> \A q \in last(y, x) : pk[q].domain # pk[x].domain
<1>1. ASSUME NEW x \in DOMAIN s.writer PROVE ok(r, x)
  <2>1. early(r, x) = early(s, x)
    OBVIOUS
  <2>2. early(s, x) \subseteq DOMAIN s.writer
    OBVIOUS
  <2>3. last(r, x) = last(s, x)
    <3> HIDE DEF early
    <3> QED
      BY <2>1, <2>2
  <2>4. ok(s, x)
    BY DEF ContextsAreKept
  <2> HIDE DEF early, last
  <2> QED
    BY <2>1, <2>2, <2>3, <2>4
<1>2. \A x \in DOMAIN r.writer : ok(r, x)
  <2> HIDE DEF ok
  <2> QED
    BY <1>1
<1> QED
  BY <1>2 DEF ContextsAreKept

\* What a placement changes of the times.
Placing(s, r, p) ==
  /\ r.now = s.now /\ r.done = s.done
  /\ DOMAIN r.ends = DOMAIN s.ends \cup {p} /\ DOMAIN r.begins = DOMAIN s.begins \cup {p}
  /\ r.begins[p] = s.now /\ r.ends[p] \in Nat /\ s.now < r.ends[p]
  /\ \A q \in DOMAIN s.ends : q # p => r.ends[q] = s.ends[q]
  /\ \A q \in DOMAIN s.begins : q # p => r.begins[q] = s.begins[q]

LEMMA PlacedChanges ==
  ASSUME NEW D, NEW s \in NetStates(D), NEW p \in D, NEW seconds \in Nat \ {0}, NEW r,
         IsPlaced(s, r, p, seconds)
  PROVE  Placing(s, r, p)
<1>1. s.now \in Nat /\ s.ends \in Partial(D) /\ s.begins \in Partial(D)
  BY DEF NetStates
<1>2. s.now + seconds \in Nat /\ s.now < s.now + seconds
  BY <1>1
<1>3. Adds(s.ends, p, s.now + seconds, With(s.ends, p, s.now + seconds))
  BY <1>1, <1>2, WithIs
<1>4. Adds(s.begins, p, s.now, With(s.begins, p, s.now))
  BY <1>1, WithIs
<1> QED
  BY <1>2, <1>3, <1>4 DEF Adds, IsPlaced, Placing

\* Packages P of those that were ready in s have been offered: t is s with those
\* placed that found a writer.
Offered(pk, luna, w, s, t, P) ==
  /\ t \in NetStates(DOMAIN pk) /\ NetHolds(pk, luna, w, t)
  /\ t.now = s.now /\ t.done = s.done
  /\ DOMAIN s.ends \subseteq DOMAIN t.ends /\ DOMAIN t.ends \subseteq DOMAIN s.ends \cup P
  /\ \A q \in DOMAIN s.ends : t.ends[q] = s.ends[q] /\ t.begins[q] = s.begins[q]
  /\ \A q \in DOMAIN t.ends \ DOMAIN s.ends : t.begins[q] = s.now /\ s.now < t.ends[q]
  /\ \A q \in P \ DOMAIN t.ends :
       IF q \in luna THEN Idle_writers(luna, w, t) = {} ELSE SolWorksOn(luna, t) # {}

LEMMA PlacingHolds ==
  ASSUME NEW pk, NEW luna, NEW w, NEW t, NetHolds(pk, luna, w, t), t.now \in Nat,
         NEW p, p \notin DOMAIN t.ends, NEW r, Placing(t, r, p)
  PROVE  /\ DOMAIN r.begins = DOMAIN r.ends /\ r.done \subseteq DOMAIN r.ends
         /\ \A q \in DOMAIN r.ends :
              r.begins[q] <= r.now /\ r.begins[q] < r.ends[q] /\ (q \in r.done <=> r.ends[q] <= r.now)
<1>1. DOMAIN t.begins = DOMAIN t.ends /\ t.done \subseteq DOMAIN t.ends
  BY DEF NetHolds
<1>2. /\ r.now = t.now /\ r.done = t.done
      /\ DOMAIN r.ends = DOMAIN t.ends \cup {p} /\ DOMAIN r.begins = DOMAIN t.begins \cup {p}
  BY DEF Placing
<1>3. ASSUME NEW q \in DOMAIN t.ends
      PROVE  r.begins[q] <= r.now /\ r.begins[q] < r.ends[q] /\ (q \in r.done <=> r.ends[q] <= r.now)
  <2>1. r.ends[q] = t.ends[q] /\ r.begins[q] = t.begins[q]
    BY <1>1 DEF Placing
  <2> QED
    BY <1>2, <2>1 DEF NetHolds
<1>4. r.begins[p] <= r.now /\ r.begins[p] < r.ends[p] /\ p \notin r.done /\ ~(r.ends[p] <= r.now)
  BY <1>1, <1>2 DEF Placing
<1> QED
  BY <1>1, <1>2, <1>3, <1>4

LEMMA AssignOffers ==
  ASSUME NEW pk, NetSeconds(pk), NEW luna, NEW w \in Nat, NEW s, NEW t, NEW P,
         Offered(pk, luna, w, s, t, P), NEW p \in DOMAIN pk, p \notin DOMAIN s.ends, p \notin P
  PROVE  Offered(pk, luna, w, s, Assign(pk, luna, w, t, p), P \cup {p})
<1> DEFINE r == Assign(pk, luna, w, t, p)
           free == Idle_writers(luna, w, t)
<1>1. /\ t \in NetStates(DOMAIN pk) /\ NetHolds(pk, luna, w, t) /\ t.now \in Nat
      /\ t.now = s.now /\ t.done = s.done /\ p \notin DOMAIN t.ends
  BY DEF Offered, NetStates
<1>2. /\ r \in NetStates(DOMAIN pk)
      /\ p \in luna /\ free = {} => r = t
      /\ p \in luna /\ free # {} => \E v \in free : IsAssigned(pk, t, r, p, v)
      /\ p \notin luna /\ SolWorksOn(luna, t) # {} => r = t
      /\ p \notin luna /\ SolWorksOn(luna, t) = {} =>
           /\ r.writer = t.writer /\ r.fresh = t.fresh
           /\ IsPlaced(t, r, p, pk[p].base_seconds)
  <2>1. Assigns(pk, luna, w, t, p, r)
    BY <1>1, AssignIs
  <2> QED
    BY <2>1 DEF Assigns
<1> HIDE DEF r
<1>3. CASE p \in luna /\ free = {}
  <2>1. r = t
    BY <1>2, <1>3
  <2> QED
    BY <1>1, <1>3, <2>1 DEF Offered, r
<1>4. CASE p \notin luna /\ SolWorksOn(luna, t) # {}
  <2>1. r = t
    BY <1>2, <1>4
  <2> QED
    BY <1>1, <1>4, <2>1 DEF Offered, r

\* A placement keeps what was placed, and takes p.
<1>5. ASSUME Placing(t, r, p), NetHolds(pk, luna, w, r),
             \A q \in P \ DOMAIN r.ends :
               IF q \in luna THEN Idle_writers(luna, w, r) = {} ELSE SolWorksOn(luna, r) # {}
      PROVE  Offered(pk, luna, w, s, r, P \cup {p})
  <2>1. /\ DOMAIN s.ends \subseteq DOMAIN t.ends /\ DOMAIN t.ends \subseteq DOMAIN s.ends \cup P
        /\ DOMAIN t.begins = DOMAIN t.ends
        /\ \A q \in DOMAIN s.ends : t.ends[q] = s.ends[q] /\ t.begins[q] = s.begins[q]
        /\ \A q \in DOMAIN t.ends \ DOMAIN s.ends : t.begins[q] = s.now /\ s.now < t.ends[q]
    BY DEF Offered, NetHolds
  <2>2. /\ r.now = s.now /\ r.done = s.done /\ DOMAIN r.ends = DOMAIN t.ends \cup {p}
        /\ r.begins[p] = s.now /\ s.now < r.ends[p]
        /\ \A q \in DOMAIN t.ends : r.ends[q] = t.ends[q] /\ r.begins[q] = t.begins[q]
    BY <1>1, <1>5, <2>1 DEF Placing
  <2>3. /\ DOMAIN s.ends \subseteq DOMAIN r.ends /\ DOMAIN r.ends \subseteq DOMAIN s.ends \cup (P \cup {p})
        /\ \A q \in DOMAIN s.ends : r.ends[q] = s.ends[q] /\ r.begins[q] = s.begins[q]
        /\ \A q \in DOMAIN r.ends \ DOMAIN s.ends : r.begins[q] = s.now /\ s.now < r.ends[q]
    BY <2>1, <2>2
  <2>4. \A q \in (P \cup {p}) \ DOMAIN r.ends :
          IF q \in luna THEN Idle_writers(luna, w, r) = {} ELSE SolWorksOn(luna, r) # {}
    BY <1>5, <2>2
  <2> QED
    BY <1>2, <1>5, <2>2, <2>3, <2>4 DEF Offered
<1>6. CASE p \in luna /\ free # {}
  <2>1. PICK v \in free : IsAssigned(pk, t, r, p, v)
    BY <1>2, <1>6
  <2>2. \E seconds \in Nat \ {0} : IsPlaced(t, r, p, seconds)
    BY <2>1 DEF IsAssigned, NetSeconds
  <2>3. Placing(t, r, p)
    BY <1>1, <2>2, PlacedChanges
  <2>4. /\ DOMAIN r.begins = DOMAIN r.ends /\ r.done \subseteq DOMAIN r.ends
        /\ \A q \in DOMAIN r.ends :
             r.begins[q] <= r.now /\ r.begins[q] < r.ends[q] /\ (q \in r.done <=> r.ends[q] <= r.now)
    BY <1>1, <2>3, PlacingHolds
  <2>5. ContextsAreKept(pk, r)
    <3>1. p \in DOMAIN pk \ DOMAIN t.ends
      BY <1>1
    <3> QED
      BY <1>1, <2>1, <3>1, ContextStays
  <2>6. DOMAIN t.writer = luna \cap DOMAIN t.ends /\ t.fresh \subseteq DOMAIN t.writer
    BY <1>1 DEF NetHolds
  <2>7. /\ DOMAIN r.writer = DOMAIN t.writer \cup {p} /\ r.writer[p] = v
        /\ \A q \in DOMAIN t.writer : r.writer[q] = t.writer[q]
    <3>1. v \in Nat /\ t.writer \in Partial(DOMAIN pk)
      BY <1>1 DEF Idle_writers, NetStates
    <3>2. Adds(t.writer, p, v, With(t.writer, p, v))
      BY <3>1, WithIs
    <3>3. r.writer = With(t.writer, p, v)
      BY <2>1 DEF IsAssigned
    <3> QED
      BY <1>1, <2>6, <3>2, <3>3 DEF Adds
  <2>8. r.done = t.done /\ DOMAIN r.ends = DOMAIN t.ends \cup {p} /\ p \notin t.done
    BY <1>1, <2>3 DEF Placing, NetHolds
  <2>9. DOMAIN r.writer = luna \cap DOMAIN r.ends /\ r.fresh \subseteq DOMAIN r.writer
    <3>1. r.fresh \subseteq t.fresh \cup {p}
      BY <2>1 DEF IsAssigned
    <3> QED
      BY <1>6, <2>6, <2>7, <2>8, <3>1
  <2>10. \A q \in DOMAIN r.writer : r.writer[q] \in 1..w
    <3>1. v \in 1..w /\ \A q \in DOMAIN t.writer : t.writer[q] \in 1..w
      BY <1>1 DEF Idle_writers, NetHolds
    <3> QED
      BY <2>7, <3>1
  <2>11. \A q \in DOMAIN t.writer \ t.done : t.writer[q] # v
    BY <2>6 DEF Idle_writers
  <2>12. \A q, x \in DOMAIN r.writer \ r.done : r.writer[q] = r.writer[x] => q = x
    <3>1. \A q, x \in DOMAIN t.writer \ t.done : t.writer[q] = t.writer[x] => q = x
      BY <1>1 DEF NetHolds
    <3> QED
      BY <2>7, <2>8, <2>11, <3>1
  <2>13. SolWorksOn(luna, r) = SolWorksOn(luna, t)
    BY <1>6, <2>8 DEF SolWorksOn
  <2>14. \A q, x \in SolWorksOn(luna, r) : q = x
    BY <1>1, <2>13 DEF NetHolds
  <2>15. NetHolds(pk, luna, w, r)
    BY <2>4, <2>5, <2>9, <2>10, <2>12, <2>14 DEF NetHolds
  <2>16. ASSUME NEW q \in P \ DOMAIN r.ends
         PROVE  IF q \in luna THEN Idle_writers(luna, w, r) = {} ELSE SolWorksOn(luna, r) # {}
    <3>1. IF q \in luna THEN free = {} ELSE SolWorksOn(luna, t) # {}
      BY <2>8 DEF Offered
    <3> QED
      BY <1>6, <2>13, <3>1
  <2> QED
    BY <1>5, <2>3, <2>15, <2>16 DEF r
<1>7. CASE p \notin luna /\ SolWorksOn(luna, t) = {}
  <2>1. r.writer = t.writer /\ r.fresh = t.fresh /\ IsPlaced(t, r, p, pk[p].base_seconds)
    BY <1>2, <1>7
  <2>2. pk[p].base_seconds \in Nat \ {0}
    BY DEF NetSeconds
  <2>3. Placing(t, r, p)
    BY <1>1, <2>1, <2>2, PlacedChanges
  <2>4. /\ DOMAIN r.begins = DOMAIN r.ends /\ r.done \subseteq DOMAIN r.ends
        /\ \A q \in DOMAIN r.ends :
             r.begins[q] <= r.now /\ r.begins[q] < r.ends[q] /\ (q \in r.done <=> r.ends[q] <= r.now)
    BY <1>1, <2>3, PlacingHolds
  <2>5. /\ r.done = t.done /\ DOMAIN r.ends = DOMAIN t.ends \cup {p} /\ p \notin t.done
        /\ \A q \in DOMAIN t.ends : r.ends[q] = t.ends[q] /\ r.begins[q] = t.begins[q]
        /\ DOMAIN t.writer = luna \cap DOMAIN t.ends /\ t.fresh \subseteq DOMAIN t.writer
    BY <1>1, <2>3 DEF Placing, NetHolds
  <2>6. ContextsAreKept(pk, r)
    <3>1. \A q \in DOMAIN t.writer : r.begins[q] = t.begins[q] /\ r.ends[q] = t.ends[q]
      BY <2>5
    <3>2. ContextsAreKept(pk, t)
      BY <1>1 DEF NetHolds
    <3> QED
      BY <2>1, <3>1, <3>2, ContextUnchanged
  <2>7. DOMAIN r.writer = luna \cap DOMAIN r.ends /\ r.fresh \subseteq DOMAIN r.writer
    BY <1>7, <2>1, <2>5
  <2>8. SolWorksOn(luna, r) = {p}
    BY <1>7, <2>5 DEF SolWorksOn
  <2>9. /\ \A q \in DOMAIN r.writer : r.writer[q] \in 1..w
        /\ \A q, x \in DOMAIN r.writer \ r.done : r.writer[q] = r.writer[x] => q = x
    BY <1>1, <2>1, <2>5 DEF NetHolds
  <2>10. NetHolds(pk, luna, w, r)
    BY <2>4, <2>6, <2>7, <2>8, <2>9 DEF NetHolds
  <2>11. Idle_writers(luna, w, r) = free
    <3>1. (luna \cap DOMAIN r.ends) \ r.done = (luna \cap DOMAIN t.ends) \ t.done
      BY <1>7, <2>5
    <3> QED
      BY <2>1, <3>1 DEF Idle_writers
  <2>12. ASSUME NEW q \in P \ DOMAIN r.ends
         PROVE  IF q \in luna THEN Idle_writers(luna, w, r) = {} ELSE SolWorksOn(luna, r) # {}
    <3>1. IF q \in luna THEN free = {} ELSE SolWorksOn(luna, t) # {}
      BY <2>5 DEF Offered
    <3> QED
      BY <2>8, <2>11, <3>1
  <2> QED
    BY <1>5, <2>3, <2>10, <2>12 DEF r
<1> QED
  BY <1>3, <1>4, <1>6, <1>7


\* A finite set in the order of R.
Ranked(S, R) ==
  [i \in 1..Cardinality(S) |-> CHOOSE x \in S : Cardinality(Before(S, R, x)) = i - 1]

InRank(S, R, s) ==
  /\ s \in [1..Cardinality(S) -> S]
  /\ \A x \in S : \E i \in 1..Cardinality(S) : s[i] = x
  /\ \A i, j \in 1..Cardinality(S) : i < j => <<s[i], s[j]>> \in R /\ s[i] # s[j]

LEMMA RankedSorts ==
  ASSUME NEW S, IsFiniteSet(S), NEW R, Ordered(S, R)
  PROVE  InRank(S, R, Ranked(S, R))
<1> DEFINE n == Cardinality(S)
           of(x) == Cardinality(Before(S, R, x))
           s == Ranked(S, R)
<1>1. /\ n \in Nat
      /\ \A x \in S : of(x) \in 0..n - 1
      /\ \A x, y \in S : <<x, y>> \in R <=> of(x) < of(y)
      /\ \A x, y \in S : of(x) = of(y) => x = y
      /\ \A i \in 0..n - 1 : \E x \in S : of(x) = i
  BY PlacesAreTaken
<1>2. s = [i \in 1..n |-> CHOOSE x \in S : of(x) = i - 1]
  BY DEF Ranked
<1> HIDE DEF s, of, n
<1>3. ASSUME NEW i \in 1..n PROVE s[i] \in S /\ of(s[i]) = i - 1
  <2>1. s[i] = CHOOSE x \in S : of(x) = i - 1
    BY <1>2
  <2>2. i - 1 \in 0..n - 1
    BY <1>1
  <2>3. \E x \in S : of(x) = i - 1
    BY <1>1, <2>2
  <2> QED
    BY <2>1, <2>3
<1>4. s \in [1..n -> S]
  <2>1. s = [i \in 1..n |-> s[i]]
    BY <1>2
  <2> QED
    BY <1>3, <2>1
<1>5. ASSUME NEW x \in S PROVE \E i \in 1..n : s[i] = x
  <2>1. PICK i \in 1..n : i = of(x) + 1
    BY <1>1
  <2>2. of(s[i]) = i - 1 /\ s[i] \in S
    BY <1>3
  <2>3. of(x) \in Nat /\ i - 1 = of(x)
    BY <1>1, <2>1
  <2>4. s[i] = x
    BY <1>1, <2>2, <2>3
  <2> QED
    BY <2>4
<1>6. ASSUME NEW i \in 1..n, NEW j \in 1..n, i < j PROVE <<s[i], s[j]>> \in R /\ s[i] # s[j]
  <2>1. s[i] \in S /\ s[j] \in S /\ of(s[i]) < of(s[j]) /\ of(s[i]) # of(s[j])
    BY <1>3, <1>6
  <2> QED
    BY <1>1, <2>1
<1> QED
  BY <1>4, <1>5, <1>6 DEF InRank, s, n

LEMMA InTurnSorts ==
  ASSUME NEW S, S \subseteq Nat, IsFiniteSet(S)
  PROVE  \E R : InRank(S, R, InTurn(S))
<1> DEFINE R == {x \in S \X S : x[1] < x[2]}
<1>1. \A p, q \in S : <<p, q>> \in R <=> p < q
  OBVIOUS
<1>2. Ordered(S, R)
  <2> HIDE DEF R
  <2> QED
    BY <1>1 DEF Ordered
<1>3. \A p \in S : Before(S, R, p) = {q \in S : q < p}
  BY <1>1 DEF Before
<1> HIDE DEF R
<1> DEFINE turn(i) == CHOOSE p \in S : Cardinality({q \in S : q < p}) = i - 1
           rank(i) == CHOOSE p \in S : Cardinality(Before(S, R, p)) = i - 1
<1>4. \A i : turn(i) = rank(i)
  BY <1>3
<1>4a. InTurn(S) = [i \in 1..Cardinality(S) |-> turn(i)]
  BY DEF InTurn
<1>4b. Ranked(S, R) = [i \in 1..Cardinality(S) |-> rank(i)]
  BY DEF Ranked
<1>5. InTurn(S) = Ranked(S, R)
  <2> HIDE DEF turn, rank
  <2> QED
    BY <1>4, <1>4a, <1>4b
<1>6. InRank(S, R, Ranked(S, R))
  BY <1>2, RankedSorts
<1> QED
  BY <1>5, <1>6

LEMMA AssignedIs ==
  ASSUME NEW pk, IsFiniteSet(DOMAIN pk), DOMAIN pk \subseteq Nat, NetSeconds(pk), NEW luna,
         NEW w \in Nat, NEW s \in NetStates(DOMAIN pk)
  PROVE  /\ Assigned(pk, luna, w, s) \in NetStates(DOMAIN pk)
         /\ NetHolds(pk, luna, w, s) =>
              Offered(pk, luna, w, s, Assigned(pk, luna, w, s), ReadyPackages(pk, s))
<1> DEFINE S == ReadyPackages(pk, s)
           ready == InTurn(S)
           N == Cardinality(S)
           St == NetStates(DOMAIN pk)
           Step(t, i) == Assign(pk, luna, w, t, ready[i])
           after[i \in 0..Len(ready)] ==
             IF i = 0 THEN s ELSE Assign(pk, luna, w, after[i - 1], ready[i])
           Next_after(f) == [i \in 0..N |-> IF i = 0 THEN s ELSE Step(f[i - 1], i)]
           G == [x \in (1..N) \X St |-> Step(x[2], x[1])]
<1>1. S \subseteq DOMAIN pk /\ IsFiniteSet(S) /\ N \in Nat /\ S \subseteq Nat
  <2>1. S \subseteq DOMAIN pk
    BY DEF ReadyPackages
  <2> QED
    BY <2>1, FS_Subset, FS_CardinalityType
<1>2. PICK R : InRank(S, R, ready)
  <2> HIDE DEF S
  <2> QED
    BY <1>1, InTurnSorts
<1>3. /\ ready \in [1..N -> S] /\ \A x \in S : \E i \in 1..N : ready[i] = x
      /\ \A i, j \in 1..N : i < j => ready[i] # ready[j]
  <2> HIDE DEF ready, S
  <2> QED
    BY <1>2 DEF InRank
<1>4. Len(ready) = N
  <2> HIDE DEF ready, N
  <2> QED
    BY <1>1, <1>3, LenProperties, SeqDef
<1>5. Assigned(pk, luna, w, s) = after[N]
  <2>1. Assigned(pk, luna, w, s) = after[Len(ready)]
    BY DEF Assigned
  <2> HIDE DEF after, ready, N
  <2> QED
    BY <1>4, <2>1
<1>6. after = CHOOSE f : f = Next_after(f)
  <2>1. after = CHOOSE f : f = [i \in 0..Len(ready) |-> IF i = 0 THEN s ELSE Step(f[i - 1], i)]
    OBVIOUS
  <2> HIDE DEF after, ready, N, Step
  <2> QED
    BY <1>4, <2>1
<1> HIDE DEF after, ready, S, N
<1>7. \A i \in 1..N : ready[i] \in S /\ ready[i] \in DOMAIN pk
  BY <1>1, <1>3
<1> HIDE DEF Step, St
<1>8. \A i \in 1..N : \A t \in St : Step(t, i) \in St
  <2> SUFFICES ASSUME NEW i \in 1..N, NEW t \in St PROVE Step(t, i) \in St
    OBVIOUS
  <2>1. ready[i] \in DOMAIN pk
    BY <1>7
  <2>2. t \in NetStates(DOMAIN pk)
    BY DEF St
  <2>3. Assigns(pk, luna, w, t, ready[i], Assign(pk, luna, w, t, ready[i]))
    BY <2>1, <2>2, AssignIs
  <2> QED
    BY <2>3 DEF Assigns, Step, St
<1>9. IsStep(G, St, N)
  BY <1>8 DEF IsStep
<1>10. s \in St
  BY DEF St
<1>11. PICK f : IsRun(f, St, N, s, G)
  <2> HIDE DEF G
  <2> QED
    BY <1>1, <1>9, <1>10, RunExists
<1>12. f \in [0..N -> St] /\ f[0] = s /\ \A n \in 1..N : f[n] = G[<<n, f[n - 1]>>]
  <2> HIDE DEF G
  <2> QED
    BY <1>11 DEF IsRun
<1>13. \A n \in 1..N : f[n] = Step(f[n - 1], n)
  <2> SUFFICES ASSUME NEW n \in 1..N PROVE f[n] = Step(f[n - 1], n)
    OBVIOUS
  <2>1. f[n - 1] \in St
    BY <1>1, <1>12
  <2>2. <<n, f[n - 1]>> \in (1..N) \X St
    BY <2>1
  <2>3. G[<<n, f[n - 1]>>] = Step(f[n - 1], n)
    BY <2>2
  <2> QED
    BY <1>12, <2>3
<1>14. f = Next_after(f)
  <2>1. \A n \in 0..N : f[n] = IF n = 0 THEN s ELSE Step(f[n - 1], n)
    <3>1. \A n \in 0..N : n = 0 \/ n \in 1..N
      BY <1>1
    <3> QED
      BY <1>12, <1>13, <3>1
  <2>2. f = [n \in 0..N |-> f[n]]
    BY <1>12
  <2> QED
    BY <2>1, <2>2
<1>15. after = Next_after(after)
  BY <1>6, <1>14
<1> HIDE DEF G
<1>16. \A n \in 0..N : after[n] = IF n = 0 THEN s ELSE Step(after[n - 1], n)
  BY <1>15, Zenon
<1>17. after[0] = s /\ \A n \in 1..N : after[n] = Step(after[n - 1], n)
  <2>1. 0 \in 0..N /\ \A n \in 1..N : n \in 0..N /\ n # 0
    BY <1>1
  <2> QED
    BY <1>16, <2>1
<1> DEFINE offered(n) == {ready[j] : j \in 1..n}
           good(n) == /\ after[n] \in St
                      /\ NetHolds(pk, luna, w, s) => Offered(pk, luna, w, s, after[n], offered(n))
<1>18. good(0)
  <2>1. offered(0) = {}
    OBVIOUS
  <2>2. NetHolds(pk, luna, w, s) => Offered(pk, luna, w, s, s, {})
    BY DEF Offered
  <2> HIDE DEF offered
  <2> QED
    BY <1>10, <1>17, <2>1, <2>2
<1>19. ASSUME NEW n \in 1..N, good(n - 1) PROVE good(n)
  <2>1. after[n] \in St
    BY <1>8, <1>17, <1>19
  <2>2. offered(n) = offered(n - 1) \cup {ready[n]}
    <3>1. \A j : j \in 1..n <=> j \in 1..n - 1 \/ j = n
      BY <1>1
    <3> QED
      BY <3>1
  <2>3. ready[n] \notin offered(n - 1)
    <3>1. \A j \in 1..n - 1 : j \in 1..N /\ j < n
      BY <1>1
    <3> QED
      BY <1>3, <3>1
  <2>4. ready[n] \in DOMAIN pk /\ ready[n] \notin DOMAIN s.ends
    BY <1>7 DEF S, ReadyPackages
  <2> HIDE DEF offered
  <2>5. ASSUME NetHolds(pk, luna, w, s)
        PROVE  Offered(pk, luna, w, s, after[n], offered(n))
    <3>1. Offered(pk, luna, w, s, after[n - 1], offered(n - 1))
      BY <1>19, <2>5
    <3>2. Offered(pk, luna, w, s, Step(after[n - 1], n), offered(n - 1) \cup {ready[n]})
      BY <2>3, <2>4, <3>1, AssignOffers DEF Step
    <3>3. after[n] = Step(after[n - 1], n)
      BY <1>17
    <3> QED
      BY <2>2, <3>2, <3>3
  <2> QED
    BY <2>1, <2>5
<1>20. good(N)
  <2> DEFINE Bad == {n \in Nat : n <= N /\ ~good(n)}
  <2> HIDE DEF good
  <2>1. SUFFICES ASSUME Bad # {} PROVE FALSE
    BY <1>1
  <2>2. PICK m \in Bad : \A n \in Bad : m <= n
    <3>1. Bad \subseteq Nat
      OBVIOUS
    <3> HIDE DEF Bad
    <3> QED
      BY <2>1, <3>1, LeastNatural
  <2>3. m \in Nat /\ m <= N /\ ~good(m)
    BY <2>2
  <2>4. m # 0
    BY <1>18, <2>3
  <2>5. m - 1 \in Nat /\ m - 1 <= N /\ ~(m <= m - 1) /\ m \in 1..N
    BY <1>1, <2>3, <2>4
  <2>6. m - 1 \notin Bad
    <3> HIDE DEF Bad
    <3> QED
      BY <2>2, <2>5
  <2> QED
    BY <1>19, <2>3, <2>5, <2>6
<1>21. offered(N) = S
  BY <1>3, <1>7
<1> HIDE DEF offered
<1> QED
  BY <1>5, <1>20, <1>21 DEF S, St


\* Distinct writers out of w are at most w, and all of them when none is idle.
LEMMA WritersCount ==
  ASSUME NEW B, IsFiniteSet(B), NEW w \in Nat, NEW f, \A q \in B : f[q] \in 1..w,
         \A q, x \in B : f[q] = f[x] => q = x
  PROVE  /\ Cardinality(B) <= w
         /\ (\A i \in 1..w : \E q \in B : f[q] = i) => w <= Cardinality(B)
<1> DEFINE g == [q \in B |-> f[q]]
<1>1. IsFiniteSet(1..w) /\ Cardinality(1..w) = w
  <2>1. IsFiniteSet(1..w) /\ Cardinality(1..w) = IF 1 > w THEN 0 ELSE w - 1 + 1
    BY FS_Interval
  <2> QED
    BY <2>1
<1>2. g \in Injection(B, 1..w)
  BY DEF Injection, IsInjective
<1>3. (\A i \in 1..w : \E q \in B : f[q] = i) => g \in Surjection(B, 1..w)
  BY DEF Surjection
<1> HIDE DEF g
<1>4. /\ Cardinality(B) <= Cardinality(1..w)
      /\ Cardinality(B) = Cardinality(1..w) <=> g \in Surjection(B, 1..w)
  BY <1>1, <1>2, FS_Injection
<1> QED
  BY <1>1, <1>3, <1>4

LaneOfNet(pk, luna) == [p \in DOMAIN pk |-> IF p \in luna THEN "LUNA" ELSE "SOL"]

LEMMA LanesAre ==
  ASSUME NEW w
  PROVE  DOMAIN Lanes(w) = {"SOL", "LUNA"} /\ Lanes(w)["SOL"] = 1 /\ Lanes(w)["LUNA"] = w
  BY DEF Lanes

\* Offering what is ready starts what each lane has room for.
LEMMA AssignedStarts ==
  ASSUME NEW pk, NEW luna, NEW w \in Nat \ {0}, Tasks(pk, LaneOfNet(pk, luna), Lanes(w)),
         NEW s, Placements(pk, s), NEW t, Offered(pk, luna, w, s, t, ReadyPackages(pk, s))
  PROVE  Starts(pk, LaneOfNet(pk, luna), Lanes(w), s, t)
<1> DEFINE lane == LaneOfNet(pk, luna)
           capacity == Lanes(w)
<1>1. /\ t \in NetStates(DOMAIN pk) /\ NetHolds(pk, luna, w, t)
      /\ t.now = s.now /\ t.done = s.done
      /\ DOMAIN s.ends \subseteq DOMAIN t.ends
      /\ DOMAIN t.ends \subseteq DOMAIN s.ends \cup ReadyPackages(pk, s)
      /\ \A q \in DOMAIN s.ends : t.ends[q] = s.ends[q] /\ t.begins[q] = s.begins[q]
      /\ \A q \in DOMAIN t.ends \ DOMAIN s.ends : t.begins[q] = s.now /\ s.now < t.ends[q]
      /\ \A q \in ReadyPackages(pk, s) \ DOMAIN t.ends :
           IF q \in luna THEN Idle_writers(luna, w, t) = {} ELSE SolWorksOn(luna, t) # {}
  BY DEF Offered
<1>2. /\ DOMAIN t.ends \subseteq DOMAIN pk
      /\ t.ends \in [DOMAIN t.ends -> Nat] /\ t.begins \in [DOMAIN t.ends -> Nat]
  <2>1. t.ends \in Partial(DOMAIN pk) /\ t.begins \in Partial(DOMAIN pk)
    BY <1>1 DEF NetStates
  <2>2. DOMAIN t.ends \subseteq DOMAIN pk /\ t.ends \in [DOMAIN t.ends -> Nat]
    BY <2>1, PartialIs
  <2>3. t.begins \in [DOMAIN t.begins -> Nat]
    BY <2>1, PartialIs
  <2>4. DOMAIN t.begins = DOMAIN t.ends
    BY <1>1 DEF NetHolds
  <2> QED
    BY <2>2, <2>3, <2>4
<1>3. \A q \in DOMAIN t.ends \ DOMAIN s.ends : pk[q].depends_on \subseteq s.done
  BY <1>1 DEF ReadyPackages
<1>4. /\ DOMAIN t.writer = luna \cap DOMAIN t.ends
      /\ \A q \in DOMAIN t.writer : t.writer[q] \in 1..w
      /\ \A q, x \in DOMAIN t.writer \ t.done : t.writer[q] = t.writer[x] => q = x
      /\ \A q, x \in SolWorksOn(luna, t) : q = x
  BY <1>1 DEF NetHolds
<1>5. /\ Busy_in(t, lane, "LUNA") = DOMAIN t.writer \ t.done
      /\ Busy_in(t, lane, "SOL") = SolWorksOn(luna, t)
  BY <1>2, <1>4 DEF Busy_in, LaneOfNet, SolWorksOn
<1>6. \A l : IsFiniteSet(Busy_in(t, lane, l)) /\ Cardinality(Busy_in(t, lane, l)) \in Nat
  BY <1>2, LanesAreFinite
<1> HIDE DEF lane
<1>7. /\ Cardinality(Busy_in(t, lane, "LUNA")) <= w
      /\ Idle_writers(luna, w, t) = {} => w <= Cardinality(Busy_in(t, lane, "LUNA"))
  <2> DEFINE B == DOMAIN t.writer \ t.done
             f == t.writer
  <2>1. IsFiniteSet(B)
    BY <1>5, <1>6
  <2>2. /\ \A q \in B : f[q] \in 1..w
        /\ \A q, x \in B : f[q] = f[x] => q = x
    BY <1>4
  <2>3. Idle_writers(luna, w, t) = {} => \A i \in 1..w : \E q \in B : f[q] = i
    BY <1>4 DEF Idle_writers
  <2> HIDE DEF B, f
  <2>4. /\ Cardinality(B) <= w
        /\ (\A i \in 1..w : \E q \in B : f[q] = i) => w <= Cardinality(B)
    BY <2>1, <2>2, WritersCount
  <2> QED
    BY <1>5, <2>3, <2>4 DEF B
<1>8. /\ Cardinality(Busy_in(t, lane, "SOL")) <= 1
      /\ SolWorksOn(luna, t) # {} => 1 <= Cardinality(Busy_in(t, lane, "SOL"))
  <2>1. CASE SolWorksOn(luna, t) = {}
    BY <1>5, <2>1, FS_EmptySet
  <2>2. CASE SolWorksOn(luna, t) # {}
    <3>1. PICK q \in SolWorksOn(luna, t) : TRUE
      BY <2>2
    <3>2. Busy_in(t, lane, "SOL") = {q}
      BY <1>4, <1>5, <3>1
    <3>3. Cardinality({q}) = 1
      BY FS_Singleton
    <3> QED
      BY <3>2, <3>3
  <2> QED
    BY <2>1, <2>2
<1>9. DOMAIN capacity = {"SOL", "LUNA"} /\ capacity["SOL"] = 1 /\ capacity["LUNA"] = w
  BY LanesAre
<1> HIDE DEF capacity
<1>10. \A l \in DOMAIN capacity : Cardinality(Busy_in(t, lane, l)) <= capacity[l]
  BY <1>7, <1>8, <1>9
<1>11. ASSUME NEW p \in DOMAIN pk \ DOMAIN t.ends, pk[p].depends_on \subseteq s.done
       PROVE  capacity[lane[p]] <= Cardinality(Busy_in(t, lane, lane[p]))
  <2>1. p \in ReadyPackages(pk, s) \ DOMAIN t.ends
    BY <1>1, <1>11 DEF ReadyPackages
  <2>2. IF p \in luna THEN Idle_writers(luna, w, t) = {} ELSE SolWorksOn(luna, t) # {}
    BY <1>1, <2>1
  <2>3. lane[p] = IF p \in luna THEN "LUNA" ELSE "SOL"
    BY DEF lane, LaneOfNet
  <2> QED
    BY <1>7, <1>8, <1>9, <2>2, <2>3
<1>12. Starts(pk, lane, capacity, s, t)
  BY <1>1, <1>2, <1>3, <1>10, <1>11 DEF Starts
<1> QED
  BY <1>12 DEF lane, capacity

\* The states that the loop may be in.
NetReached(pk, luna, w) ==
  {s \in NetStates(DOMAIN pk) : Placements(pk, s) /\ NetHolds(pk, luna, w, s)}

LEMMA NetRoundGoes ==
  ASSUME NEW pk, NetSeconds(pk), NEW luna, NEW w \in Nat \ {0},
         Tasks(pk, LaneOfNet(pk, luna), Lanes(w)), NEW s \in NetReached(pk, luna, w)
  PROVE  /\ NetRound(pk, luna, w, s) \in NetReached(pk, luna, w)
         /\ Goes(pk, LaneOfNet(pk, luna), Lanes(w), s, NetRound(pk, luna, w, s))
<1> DEFINE lane == LaneOfNet(pk, luna)
           capacity == Lanes(w)
           t == Assigned(pk, luna, w, s)
           active == DOMAIN t.ends \ t.done
           next == Min({t.ends[p] : p \in active})
           r == NetRound(pk, luna, w, s)
<1>1. s \in NetStates(DOMAIN pk) /\ Placements(pk, s) /\ NetHolds(pk, luna, w, s)
  BY DEF NetReached
<1>2. Offered(pk, luna, w, s, t, ReadyPackages(pk, s))
  <2>1. IsFiniteSet(DOMAIN pk) /\ DOMAIN pk \subseteq Nat /\ w \in Nat
    BY DEF Tasks
  <2> QED
    BY <1>1, <2>1, AssignedIs
<1>3. r = IF DOMAIN t.ends = t.done THEN t
          ELSE [t EXCEPT !.now = next, !.done = {p \in DOMAIN t.ends : t.ends[p] <= next}]
  BY DEF NetRound
<1> HIDE DEF t, r
<1>4. Starts(pk, lane, capacity, s, t)
  BY <1>1, <1>2, AssignedStarts
<1>5. /\ t \in NetStates(DOMAIN pk) /\ NetHolds(pk, luna, w, t) /\ t.now = s.now /\ t.done = s.done
      /\ DOMAIN s.ends \subseteq DOMAIN t.ends
      /\ \A q \in DOMAIN s.ends : t.ends[q] = s.ends[q] /\ t.begins[q] = s.begins[q]
  BY <1>2 DEF Offered
<1>6. /\ t = [now |-> t.now, ends |-> t.ends, begins |-> t.begins, done |-> t.done,
              writer |-> t.writer, fresh |-> t.fresh]
      /\ t.ends \in [DOMAIN t.ends -> Nat] /\ t.begins \in [DOMAIN t.ends -> Nat]
      /\ t.done \subseteq DOMAIN t.ends /\ DOMAIN t.ends \subseteq DOMAIN pk
  <2>1. t = [now |-> t.now, ends |-> t.ends, begins |-> t.begins, done |-> t.done,
              writer |-> t.writer, fresh |-> t.fresh]
    BY <1>5 DEF NetStates
  <2>2. t.ends \in [DOMAIN t.ends -> Nat] /\ t.begins \in [DOMAIN t.ends -> Nat]
        /\ DOMAIN t.ends \subseteq DOMAIN pk
    BY <1>4 DEF Starts
  <2> QED
    BY <1>5, <2>1, <2>2 DEF NetHolds
<1>7. CASE DOMAIN t.ends = t.done
  <2>1. r = t
    BY <1>3, <1>7
  <2>2. DOMAIN s.begins = DOMAIN s.ends /\ s.done \subseteq DOMAIN s.ends
    BY <1>1 DEF NetHolds
  <2>3. DOMAIN t.ends = DOMAIN s.ends /\ DOMAIN t.ends = s.done
    BY <1>5, <1>7, <2>2
  <2>4. s.ends \in [DOMAIN s.ends -> Nat] /\ s.begins \in [DOMAIN s.ends -> Nat]
    BY <1>1 DEF Placements
  <2>5. t.ends = s.ends
    BY <1>5, <1>6, <2>3, <2>4
  <2>6. t.begins = s.begins
    BY <1>5, <1>6, <2>3, <2>4
  <2>7. Placements(pk, t)
    BY <1>1, <1>5, <2>5, <2>6 DEF Placements
  <2>8. Goes(pk, lane, capacity, s, t)
    BY <1>4, <1>5, <2>3, <2>5, <2>6 DEF Goes
  <2> QED
    BY <1>5, <2>1, <2>7, <2>8 DEF NetReached, r
<1>8. CASE DOMAIN t.ends # t.done
  <2>1. active # {} /\ \A p \in active : t.ends[p] \in Nat
    BY <1>6, <1>8
  <2>2. next \in {t.ends[p] : p \in active} /\ \A y \in {t.ends[p] : p \in active} : next <= y
    <3>1. {t.ends[p] : p \in active} \subseteq Nat /\ {t.ends[p] : p \in active} # {}
      BY <2>1
    <3> QED
      BY <3>1, LeastOfSome
  <2> HIDE DEF next
  <2>3. /\ r = [now |-> next, ends |-> t.ends, begins |-> t.begins,
                done |-> {p \in DOMAIN t.ends : t.ends[p] <= next},
                writer |-> t.writer, fresh |-> t.fresh]
    BY <1>3, <1>6, <1>8
  <2>4. /\ r.now = next /\ r.ends = t.ends /\ r.begins = t.begins
        /\ r.done = {p \in DOMAIN t.ends : t.ends[p] <= next}
        /\ r.writer = t.writer /\ r.fresh = t.fresh
    BY <2>3
  <2>5. Advances(t, r)
    BY <2>2, <2>4 DEF Advances
  <2>6. Placements(pk, r) /\ s.done \subseteq r.done
    BY <1>1, <1>4, <2>5, AdvancePlaces
  <2>7. r \in NetStates(DOMAIN pk)
    <3>1. /\ t.ends \in Partial(DOMAIN pk) /\ t.begins \in Partial(DOMAIN pk)
          /\ t.writer \in Partial(DOMAIN pk) /\ t.fresh \in SUBSET DOMAIN pk
      BY <1>5 DEF NetStates
    <3>2. next \in Nat /\ {p \in DOMAIN t.ends : t.ends[p] <= next} \in SUBSET DOMAIN pk
      BY <1>6, <2>1, <2>2
    <3> QED
      BY <2>3, <3>1, <3>2 DEF NetStates
  <2>8. /\ DOMAIN r.begins = DOMAIN r.ends /\ r.done \subseteq DOMAIN r.ends
        /\ \A q \in DOMAIN r.ends :
             r.begins[q] <= r.now /\ r.begins[q] < r.ends[q] /\ (q \in r.done <=> r.ends[q] <= r.now)
    BY <2>6 DEF Placements
  <2>9. /\ DOMAIN t.writer = luna \cap DOMAIN t.ends /\ t.fresh \subseteq DOMAIN t.writer
        /\ \A q \in DOMAIN t.writer : t.writer[q] \in 1..w
        /\ \A q, x \in DOMAIN t.writer \ t.done : t.writer[q] = t.writer[x] => q = x
        /\ \A q, x \in SolWorksOn(luna, t) : q = x
        /\ ContextsAreKept(pk, t)
    BY <1>5 DEF NetHolds
  <2>10. ContextsAreKept(pk, r)
    <3>1. \A q \in DOMAIN t.writer : r.begins[q] = t.begins[q] /\ r.ends[q] = t.ends[q]
      BY <2>4
    <3> QED
      BY <2>4, <2>9, <3>1, ContextUnchanged
  <2>11. SolWorksOn(luna, r) \subseteq SolWorksOn(luna, t)
    BY <1>5, <2>4, <2>6 DEF SolWorksOn
  <2>12. /\ DOMAIN r.writer = luna \cap DOMAIN r.ends /\ r.fresh \subseteq DOMAIN r.writer
         /\ \A q \in DOMAIN r.writer : r.writer[q] \in 1..w
         /\ \A q, x \in DOMAIN r.writer \ r.done : r.writer[q] = r.writer[x] => q = x
         /\ \A q, x \in SolWorksOn(luna, r) : q = x
    BY <1>5, <2>4, <2>6, <2>9, <2>11
  <2>13. NetHolds(pk, luna, w, r)
    BY <2>8, <2>10, <2>12 DEF NetHolds
  <2>14. Goes(pk, lane, capacity, s, r)
    BY <1>4, <2>5 DEF Goes
  <2> QED
    BY <2>6, <2>7, <2>13, <2>14 DEF NetReached, r
<1> QED
  BY <1>7, <1>8

LEMMA StartIsReached ==
  ASSUME NEW pk, NEW luna, NEW w
  PROVE  /\ Start \in NetReached(pk, luna, w)
         /\ Start.now = 0 /\ Start.done = {} /\ DOMAIN Start.ends = {}
         /\ Start.ends \in [{} -> Nat] /\ Start.begins \in [{} -> Nat]
<1> DEFINE none == [p \in {} |-> 0]
<1>1. none \in [{} -> Nat] /\ DOMAIN none = {} /\ none \in Partial(DOMAIN pk)
  <2>1. none \in [{} -> Nat] /\ DOMAIN none = {}
    OBVIOUS
  <2> HIDE DEF none
  <2> QED
    BY <2>1 DEF Partial
<1>2. Start = [now |-> 0, ends |-> none, begins |-> none, done |-> {}, writer |-> none, fresh |-> {}]
  BY DEF Start
<1> HIDE DEF none
<1>3. /\ Start.now = 0 /\ Start.ends = none /\ Start.begins = none /\ Start.done = {}
      /\ Start.writer = none /\ Start.fresh = {}
  BY <1>2
<1>4. Start \in NetStates(DOMAIN pk)
  BY <1>1, <1>2 DEF NetStates
<1>5. Placements(pk, Start)
  BY <1>1, <1>3 DEF Placements
<1>6. NetHolds(pk, luna, w, Start)
  <2>1. ContextsAreKept(pk, Start)
    BY <1>1, <1>3 DEF ContextsAreKept
  <2> QED
    BY <1>1, <1>3, <2>1 DEF NetHolds, SolWorksOn
<1> QED
  BY <1>1, <1>3, <1>4, <1>5, <1>6 DEF NetReached

LEMMA RunOfNet ==
  ASSUME NEW pk, NetSeconds(pk), NEW luna, NEW w \in Nat \ {0},
         Tasks(pk, LaneOfNet(pk, luna), Lanes(w))
  PROVE  \E f \in [0..Cardinality(DOMAIN pk) -> NetReached(pk, luna, w)] :
           /\ f[0] = Start
           /\ \A n \in 1..Cardinality(DOMAIN pk) : f[n] = NetRound(pk, luna, w, f[n - 1])
           /\ net_schedule(pk, luna, w) = f[Cardinality(DOMAIN pk)]
<1> DEFINE N == Cardinality(DOMAIN pk)
           St == NetReached(pk, luna, w)
           Step(s) == NetRound(pk, luna, w, s)
           after[n \in 0..N] == IF n = 0 THEN Start ELSE NetRound(pk, luna, w, after[n - 1])
           Next_after(f) == [n \in 0..N |-> IF n = 0 THEN Start ELSE Step(f[n - 1])]
           G == [x \in (1..N) \X St |-> Step(x[2])]
<1>1. N \in Nat
  BY FS_CardinalityType DEF Tasks
<1>2. net_schedule(pk, luna, w) = after[N]
  BY Zenon DEF net_schedule
<1>3. after = CHOOSE f : f = Next_after(f)
  BY Zenon
<1> HIDE DEF after
<1>4. \A s \in St : Step(s) \in St
  <2> SUFFICES ASSUME NEW s \in St PROVE Step(s) \in St
    OBVIOUS
  <2> QED
    BY NetRoundGoes
<1>5. Start \in St
  BY StartIsReached
<1> HIDE DEF Step, St, N
<1>6. IsStep(G, St, N)
  BY <1>4 DEF IsStep
<1>7. PICK f : IsRun(f, St, N, Start, G)
  <2> HIDE DEF G
  <2> QED
    BY <1>1, <1>5, <1>6, RunExists
<1>7a. f \in [0..N -> St] /\ f[0] = Start /\ \A n \in 1..N : f[n] = G[<<n, f[n - 1]>>]
  <2> HIDE DEF G
  <2> QED
    BY <1>7 DEF IsRun
<1>8. \A n \in 1..N : f[n] = Step(f[n - 1])
  <2> SUFFICES ASSUME NEW n \in 1..N PROVE f[n] = Step(f[n - 1])
    OBVIOUS
  <2>1. f[n - 1] \in St
    BY <1>1, <1>7a
  <2>2. <<n, f[n - 1]>> \in (1..N) \X St
    BY <2>1
  <2>3. G[<<n, f[n - 1]>>] = Step(f[n - 1])
    BY <2>2
  <2> QED
    BY <1>7a, <2>3
<1>9. f = Next_after(f)
  <2>1. \A n \in 0..N : f[n] = IF n = 0 THEN Start ELSE Step(f[n - 1])
    <3>1. \A n \in 0..N : n = 0 \/ n \in 1..N
      BY <1>1
    <3> QED
      BY <1>7a, <1>8, <3>1
  <2>2. f = [n \in 0..N |-> f[n]]
    BY <1>7a
  <2> QED
    BY <2>1, <2>2
<1>10. after = Next_after(after)
  BY <1>3, <1>9
<1> HIDE DEF G
<1>11. \A n \in 0..N : after[n] = IF n = 0 THEN Start ELSE Step(after[n - 1])
  BY <1>10, Zenon
<1>12. after[0] = Start /\ \A n \in 1..N : after[n] = Step(after[n - 1])
  <2>1. 0 \in 0..N /\ \A n \in 1..N : n \in 0..N /\ n # 0
    BY <1>1
  <2> QED
    BY <1>11, <2>1
<1>13. \A n \in 0..N : after[n] \in St
  <2> DEFINE Bad == {n \in Nat : n <= N /\ after[n] \notin St}
  <2>1. SUFFICES ASSUME Bad # {} PROVE FALSE
    BY <1>1
  <2>2. PICK m \in Bad : \A n \in Bad : m <= n
    <3>1. Bad \subseteq Nat
      OBVIOUS
    <3> HIDE DEF Bad
    <3> QED
      BY <2>1, <3>1, LeastNatural
  <2>3. m \in Nat /\ m <= N /\ after[m] \notin St
    BY <2>2
  <2>4. m # 0
    BY <1>5, <1>12, <2>3
  <2>5. m - 1 \in Nat /\ m - 1 <= N /\ ~(m <= m - 1) /\ m \in 1..N
    BY <1>1, <2>3, <2>4
  <2>6. m - 1 \notin Bad
    <3> HIDE DEF Bad
    <3> QED
      BY <2>2, <2>5
  <2>7. after[m - 1] \in St
    BY <2>5, <2>6
  <2> QED
    BY <1>4, <1>12, <2>3, <2>5, <2>7
<1>14. after \in [0..N -> St]
  <2>1. after = [n \in 0..N |-> after[n]]
    <3>1. DOMAIN after = 0..N
      BY <1>10, Zenon
    <3> QED
      BY <1>10, <3>1
  <2> QED
    BY <1>13, <2>1
<1> QED
  BY <1>2, <1>12, <1>14 DEF N, St, Step

\* What Luna's and Sol's work comes to.
LEMMA NetIsSound ==
  ASSUME NEW pk, NetSeconds(pk), NEW luna, NEW w \in Nat \ {0},
         Tasks(pk, LaneOfNet(pk, luna), Lanes(w))
  PROVE  LET s == net_schedule(pk, luna, w)
         IN  /\ Sound(pk, LaneOfNet(pk, luna), Lanes(w), s)
             /\ s.done = DOMAIN pk <=> NoCircle(pk)
             /\ ContextsAreKept(pk, s)
<1> DEFINE N == Cardinality(DOMAIN pk)
           lane == LaneOfNet(pk, luna)
           capacity == Lanes(w)
<1>1. N \in Nat
  BY FS_CardinalityType DEF Tasks
<1>2. PICK f \in [0..N -> NetReached(pk, luna, w)] :
        /\ f[0] = Start
        /\ \A n \in 1..N : f[n] = NetRound(pk, luna, w, f[n - 1])
        /\ net_schedule(pk, luna, w) = f[N]
  BY RunOfNet
<1>3. \A n \in 1..N : Goes(pk, lane, capacity, f[n - 1], f[n])
  <2> SUFFICES ASSUME NEW n \in 1..N PROVE Goes(pk, lane, capacity, f[n - 1], f[n])
    OBVIOUS
  <2>1. f[n - 1] \in NetReached(pk, luna, w)
    BY <1>1
  <2>2. Goes(pk, lane, capacity, f[n - 1], NetRound(pk, luna, w, f[n - 1]))
    BY <2>1, NetRoundGoes
  <2> QED
    BY <1>2, <2>2
<1>4. /\ f[0].now = 0 /\ f[0].done = {} /\ DOMAIN f[0].ends = {}
      /\ f[0].ends \in [{} -> Nat] /\ f[0].begins \in [{} -> Nat]
  BY <1>2, StartIsReached
<1> HIDE DEF lane, capacity
<1>5. Tasks(pk, lane, capacity)
  BY DEF lane, capacity
<1>6. /\ Sound(pk, lane, capacity, f[N])
      /\ f[N].done = DOMAIN pk <=> NoCircle(pk)
  BY <1>3, <1>4, <1>5, RunsAreSound
<1>7. f[N] \in NetReached(pk, luna, w)
  BY <1>1
<1>8. ContextsAreKept(pk, f[N])
  BY <1>7 DEF NetReached, NetHolds
<1> QED
  BY <1>2, <1>6, <1>8 DEF lane, capacity

\* The schedule of net_substitution.py is one that never waits without need.
LEMMA NetExact ==
  ASSUME NEW pk, NetSeconds(pk), NEW luna, NEW w \in Nat \ {0},
         Tasks(pk, LaneOfNet(pk, luna), Lanes(w)), DOMAIN pk # {}, NoCircle(pk)
  PROVE  NetIsExact(pk, luna, w)
<1> DEFINE s == net_schedule(pk, luna, w)
           lane == LaneOfNet(pk, luna)
<1>1. Sound(pk, lane, Lanes(w), s) /\ s.done = DOMAIN pk /\ ContextsAreKept(pk, s)
  BY NetIsSound
<1>2. IsGreedy(pk, s.begins, s.ends, lane, Lanes(w))
  <2> HIDE DEF s, lane
  <2>1. Tasks(pk, lane, Lanes(w))
    BY DEF lane
  <2> QED
    BY <1>1, <2>1, SoundIsGreedy
<1>3. lane = [p \in DOMAIN pk |-> IF p \in luna THEN "LUNA" ELSE "SOL"]
  BY DEF LaneOfNet
<1> QED
  BY <1>1, <1>2, <1>3 DEF NetIsExact

\* Everything ends by the time at which the schedule ends.
LEMMA NetEnds ==
  ASSUME NEW pk, NetSeconds(pk), NEW luna, NEW w \in Nat \ {0},
         Tasks(pk, LaneOfNet(pk, luna), Lanes(w)), NoCircle(pk)
  PROVE  LET s == net_schedule(pk, luna, w)
         IN  /\ s.now \in Nat /\ DOMAIN s.ends = DOMAIN pk
             /\ \A p \in DOMAIN pk : s.ends[p] \in Nat /\ s.ends[p] <= s.now
<1> DEFINE s == net_schedule(pk, luna, w)
<1>1. Placements(pk, s) /\ s.done = DOMAIN pk
  BY NetIsSound DEF Sound
<1> HIDE DEF s
<1>2. /\ s.now \in Nat /\ DOMAIN s.ends = DOMAIN pk
      /\ \A p \in DOMAIN pk : s.ends[p] \in Nat /\ s.ends[p] <= s.now
  BY <1>1 DEF Placements
<1> QED
  BY <1>2 DEF s

-----------------------------------------------------------------------------
(* The sums of the community modules *)
\* What the fold of SumFunctionOnSet computes on the way: of each subset its sum.
Sums(f, S, sum) ==
  \A s \in SUBSET S :
    sum[s] = IF s = {} THEN 0
             ELSE f[CHOOSE x \in s : TRUE] + sum[s \ {CHOOSE x \in s : TRUE}]

LEMMA SumIsChosen ==
  ASSUME NEW f, NEW S
  PROVE  SumFunctionOnSet(f, S)
           = (CHOOSE sum : sum = [s \in SUBSET S |->
                IF s = {} THEN 0
                ELSE f[CHOOSE x \in s : TRUE] + sum[s \ {CHOOSE x \in s : TRUE}]])[S]
  BY DEF SumFunctionOnSet, FoldFunctionOnSet, MapThenFoldSet

LEMMA SmallestSet ==
  ASSUME NEW U, NEW Bad, Bad \subseteq SUBSET U, Bad # {}, IsFiniteSet(U)
  PROVE  \E s \in Bad : \A t \in Bad : t \subseteq s => t = s
<1>1. IsWellFoundedOn(StrictSubsetOrdering(U), FiniteSubsetsOf(U))
  BY FS_StrictSubsetOrderingWellFounded
<1>2. Bad \subseteq FiniteSubsetsOf(U)
  BY FS_Subset DEF FiniteSubsetsOf
<1>3. PICK s \in Bad : \A t \in Bad : ~(<<t, s>> \in StrictSubsetOrdering(U))
  BY <1>1, <1>2, WFMin
<1> QED
  BY <1>3 DEF StrictSubsetOrdering

\* Two of them agree wherever both have a value.
LEMMA SumsAgree ==
  ASSUME NEW f, NEW S, IsFiniteSet(S), NEW a, NEW b, NEW T \in SUBSET S,
         Sums(f, S, a), Sums(f, T, b)
  PROVE  \A s \in SUBSET T : a[s] = b[s]
<1> DEFINE Bad == {s \in SUBSET T : a[s] # b[s]}
<1>1. SUFFICES ASSUME Bad # {} PROVE FALSE
  OBVIOUS
<1>2. PICK s \in Bad : \A t \in Bad : t \subseteq s => t = s
  <2>1. Bad \subseteq SUBSET S
    OBVIOUS
  <2> HIDE DEF Bad
  <2> QED
    BY <1>1, <2>1, SmallestSet
<1>3. s # {}
  BY <1>2 DEF Sums
<1> DEFINE x == CHOOSE x \in s : TRUE
<1>4. x \in s
  BY <1>3
<1> HIDE DEF x
<1>5. s \ {x} \in SUBSET T /\ s \ {x} \notin Bad
  BY <1>2, <1>4
<1>6. a[s] = f[x] + a[s \ {x}] /\ b[s] = f[x] + b[s \ {x}]
  BY <1>2, <1>3 DEF Sums, x
<1> QED
  BY <1>2, <1>5, <1>6

LEMMA SumsExist ==
  ASSUME NEW f, NEW S, IsFiniteSet(S)
  PROVE  Sums(f, S, [s \in SUBSET S |-> SumFunctionOnSet(f, s)])
<1> DEFINE next(sum, s) ==
             IF s = {} THEN 0
             ELSE f[CHOOSE x \in s : TRUE] + sum[s \ {CHOOSE x \in s : TRUE}]
           Exists(T) == \E sum : sum = [s \in SUBSET T |-> next(sum, s)]
           chosen(T) == CHOOSE sum : sum = [s \in SUBSET T |-> next(sum, s)]
           of(T) == SumFunctionOnSet(f, T)
           Bad == {T \in SUBSET S : ~Exists(T)}
<1>1. \A T : of(T) = chosen(T)[T]
  BY SumIsChosen
<1>2. ASSUME NEW T, Exists(T) PROVE Sums(f, T, chosen(T))
  <2>1. chosen(T) = [s \in SUBSET T |-> next(chosen(T), s)]
    BY <1>2
  <2> HIDE DEF chosen
  <2>2. \A s \in SUBSET T : chosen(T)[s] = next(chosen(T), s)
    BY <2>1, Zenon
  <2> QED
    BY <2>2 DEF Sums
<1>3. ASSUME NEW T \in SUBSET S, Exists(T), NEW t \in SUBSET T, Exists(t)
      PROVE  chosen(T)[t] = of(t)
  <2>1. Sums(f, T, chosen(T)) /\ Sums(f, t, chosen(t)) /\ IsFiniteSet(T)
    BY <1>2, <1>3, FS_Subset
  <2> HIDE DEF chosen
  <2>2. chosen(T)[t] = chosen(t)[t]
    BY <2>1, SumsAgree
  <2> QED
    BY <1>1, <2>2
<1>4. ASSUME NEW T \in SUBSET S, Exists(T), \A t \in SUBSET T : Exists(t)
      PROVE  of(T) = IF T = {} THEN 0
                     ELSE f[CHOOSE x \in T : TRUE] + of(T \ {CHOOSE x \in T : TRUE})
  <2> DEFINE x == CHOOSE x \in T : TRUE
  <2>1. Sums(f, T, chosen(T)) /\ of(T) = chosen(T)[T]
    BY <1>1, <1>2, <1>4
  <2>2. chosen(T)[T \ {x}] = of(T \ {x})
    <3> HIDE DEF x, chosen, of, Exists
    <3>1. T \ {x} \in SUBSET T
      OBVIOUS
    <3>2. Exists(T \ {x})
      BY <1>4, <3>1
    <3> QED
      BY <1>3, <1>4, <3>1, <3>2
  <2> HIDE DEF chosen, of, Exists
  <2>3. T \in SUBSET T
    OBVIOUS
  <2> QED
    BY <2>1, <2>2, <2>3 DEF Sums
<1>5. Bad = {}
  <2>1. SUFFICES ASSUME Bad # {} PROVE FALSE
    OBVIOUS
  <2>2. PICK T \in Bad : \A t \in Bad : t \subseteq T => t = T
    <3>1. Bad \subseteq SUBSET S
      OBVIOUS
    <3> HIDE DEF Bad
    <3> QED
      BY <2>1, <3>1, SmallestSet
  <2> DEFINE x == CHOOSE x \in T : TRUE
             g == [s \in SUBSET T |->
                     IF s # T THEN of(s) ELSE IF T = {} THEN 0 ELSE f[x] + of(T \ {x})]
  <2>3. T \in SUBSET S /\ ~Exists(T)
    BY <2>2
  <2>4. \A t \in SUBSET T : t # T => Exists(t)
    <3> HIDE DEF Exists
    <3> QED
      BY <2>2, <2>3
  <2>5. ASSUME NEW s \in SUBSET T PROVE g[s] = next(g, s)
    <3> HIDE DEF of, Exists, chosen
    <3>1. CASE s = {}
      <4>1. s # T => of(s) = 0
        <5>1. s # T => s \in SUBSET S /\ Exists(s) /\ \A t \in SUBSET s : Exists(t)
          BY <2>3, <2>4, <3>1
        <5> QED
          BY <1>4, <3>1, <5>1
      <4> QED
        BY <3>1, <4>1
    <3>2. CASE s # {}
      <4> DEFINE y == CHOOSE y \in s : TRUE
      <4>1. y \in s
        BY <3>2
      <4>2. s \ {y} \in SUBSET T /\ s \ {y} # T
        BY <4>1
      <4>3. g[s \ {y}] = of(s \ {y})
        BY <4>2
      <4>4. CASE s = T
        BY <3>2, <4>3, <4>4
      <4>5. CASE s # T
        <5>1. s \in SUBSET S /\ Exists(s) /\ \A t \in SUBSET s : Exists(t)
          BY <2>3, <2>4, <4>5
        <5>2. of(s) = f[y] + of(s \ {y})
          BY <1>4, <3>2, <5>1
        <5> QED
          BY <3>2, <4>3, <4>5, <5>2
      <4> QED
        BY <4>4, <4>5
    <3> QED
      BY <3>1, <3>2
  <2>6. g = [s \in SUBSET T |-> next(g, s)]
    <3>1. DOMAIN g = SUBSET T /\ g = [s \in SUBSET T |-> g[s]]
      OBVIOUS
    <3> HIDE DEF g
    <3> QED
      BY <2>5, <3>1
  <2>7. Exists(T)
    <3> HIDE DEF g
    <3> QED
      BY <2>6
  <2> QED
    BY <2>3, <2>7
<1>6. \A T \in SUBSET S : Exists(T)
  <2> HIDE DEF Exists
  <2> QED
    BY <1>5
<1>7. ASSUME NEW T \in SUBSET S
      PROVE  of(T) = IF T = {} THEN 0
                     ELSE f[CHOOSE x \in T : TRUE] + of(T \ {CHOOSE x \in T : TRUE})
  <2> HIDE DEF of, Exists
  <2>1. Exists(T) /\ \A t \in SUBSET T : Exists(t)
    BY <1>6
  <2> QED
    BY <1>4, <2>1
<1>8. \A T \in SUBSET S : T \ {CHOOSE x \in T : TRUE} \in SUBSET S
  OBVIOUS
<1> HIDE DEF of
<1>9. Sums(f, S, [s \in SUBSET S |-> of(s)])
  BY <1>7, <1>8 DEF Sums
<1> QED
  BY <1>9 DEF of

LEMMA SumStarts ==
  ASSUME NEW f, NEW S, IsFiniteSet(S)
  PROVE  /\ S = {} => SumFunctionOnSet(f, S) = 0
         /\ S # {} => \E x \in S : SumFunctionOnSet(f, S) = f[x] + SumFunctionOnSet(f, S \ {x})
<1> DEFINE sum == [s \in SUBSET S |-> SumFunctionOnSet(f, s)]
           x == CHOOSE x \in S : TRUE
<1>1. Sums(f, S, sum)
  BY SumsExist
<1>2. S \in SUBSET S /\ S \ {x} \in SUBSET S
  OBVIOUS
<1>3. sum[S] = SumFunctionOnSet(f, S) /\ sum[S \ {x}] = SumFunctionOnSet(f, S \ {x})
  BY <1>2
<1> HIDE DEF sum
<1>4. S # {} => x \in S
  OBVIOUS
<1> QED
  BY <1>1, <1>2, <1>3, <1>4 DEF Sums

\* A sum of integers is one.
LEMMA SumIsInt ==
  ASSUME NEW f, NEW S, IsFiniteSet(S), \A x \in S : f[x] \in Int
  PROVE  SumFunctionOnSet(f, S) \in Int
<1> DEFINE Bad == {s \in SUBSET S : SumFunctionOnSet(f, s) \notin Int}
<1>1. SUFFICES ASSUME Bad # {} PROVE FALSE
  OBVIOUS
<1>2. PICK s \in Bad : \A t \in Bad : t \subseteq s => t = s
  <2>1. Bad \subseteq SUBSET S
    OBVIOUS
  <2> HIDE DEF Bad
  <2> QED
    BY <1>1, <2>1, SmallestSet
<1>3. IsFiniteSet(s)
  BY <1>2, FS_Subset
<1>4. s # {}
  BY <1>2, <1>3, SumStarts
<1>5. PICK x \in s : SumFunctionOnSet(f, s) = f[x] + SumFunctionOnSet(f, s \ {x})
  BY <1>3, <1>4, SumStarts
<1>6. s \ {x} \notin Bad /\ s \ {x} \in SUBSET S
  BY <1>2, <1>5
<1> QED
  BY <1>2, <1>5, <1>6

\* A sum of sizes is the size of all together, when nothing is in two.
LEMMA SumOfSizes ==
  ASSUME NEW f, NEW C, NEW S, IsFiniteSet(S),
         \A x \in S : IsFiniteSet(C[x]) /\ f[x] = Cardinality(C[x]),
         \A x, y \in S : x # y => C[x] \cap C[y] = {}
  PROVE  SumFunctionOnSet(f, S) = Cardinality(UNION {C[x] : x \in S})
<1> DEFINE all(s) == UNION {C[x] : x \in s}
           of(s) == SumFunctionOnSet(f, s)
           Bad == {s \in SUBSET S : ~(IsFiniteSet(all(s)) /\ of(s) = Cardinality(all(s)))}
<1>1. SUFFICES ASSUME Bad # {} PROVE FALSE
  OBVIOUS
<1>2. PICK s \in Bad : \A t \in Bad : t \subseteq s => t = s
  <2>1. Bad \subseteq SUBSET S
    OBVIOUS
  <2> HIDE DEF Bad
  <2> QED
    BY <1>1, <2>1, SmallestSet
<1>3. s \in SUBSET S /\ IsFiniteSet(s) /\ ~(IsFiniteSet(all(s)) /\ of(s) = Cardinality(all(s)))
  <2>1. s \in SUBSET S
    OBVIOUS
  <2>2. IsFiniteSet(s)
    BY <2>1, FS_Subset
  <2>3. ~(IsFiniteSet(all(s)) /\ of(s) = Cardinality(all(s)))
    BY <1>2
  <2> QED
    BY <2>1, <2>2, <2>3
<1>4. CASE s = {}
  <2>1. all(s) = {}
    BY <1>4
  <2>2. of(s) = 0
    BY <1>3, <1>4, SumStarts
  <2> HIDE DEF all, of
  <2> QED
    BY <1>3, <2>1, <2>2, FS_EmptySet
<1>5. CASE s # {}
  <2>1. PICK x \in s : of(s) = f[x] + of(s \ {x})
    BY <1>3, <1>5, SumStarts
  <2>2. s \ {x} \notin Bad /\ s \ {x} \in SUBSET S
    <3>1. s \ {x} \subseteq s /\ s \ {x} # s
      OBVIOUS
    <3> HIDE DEF Bad
    <3> QED
      BY <1>2, <1>3, <3>1
  <2>3. IsFiniteSet(all(s \ {x})) /\ of(s \ {x}) = Cardinality(all(s \ {x}))
    BY <2>2
  <2>4. all(s) = C[x] \cup all(s \ {x})
    OBVIOUS
  <2>5. C[x] \cap all(s \ {x}) = {}
    BY <1>3
  <2>6. IsFiniteSet(C[x]) /\ f[x] = Cardinality(C[x]) /\ Cardinality(C[x]) \in Nat
    BY <1>3, FS_CardinalityType
  <2> HIDE DEF all, of
  <2>7. /\ IsFiniteSet(C[x] \cup all(s \ {x}))
        /\ Cardinality(C[x] \cup all(s \ {x}))
             = Cardinality(C[x]) + Cardinality(all(s \ {x})) - Cardinality(C[x] \cap all(s \ {x}))
    BY <2>3, <2>6, FS_Union
  <2>8. Cardinality(C[x] \cap all(s \ {x})) = 0
    BY <2>5, FS_EmptySet
  <2>9. Cardinality(all(s \ {x})) \in Nat
    BY <2>3, FS_CardinalityType
  <2> QED
    BY <1>3, <2>1, <2>3, <2>4, <2>6, <2>7, <2>8, <2>9
<1> QED
  BY <1>4, <1>5

\* A sum of nothing.
LEMMA SumOfZeros ==
  ASSUME NEW f, NEW S, IsFiniteSet(S), \A x \in S : f[x] = 0
  PROVE  SumFunctionOnSet(f, S) = 0
<1> DEFINE of(s) == SumFunctionOnSet(f, s)
           Bad == {s \in SUBSET S : of(s) # 0}
<1>1. SUFFICES ASSUME Bad # {} PROVE FALSE
  OBVIOUS
<1>2. PICK s \in Bad : \A t \in Bad : t \subseteq s => t = s
  <2>1. Bad \subseteq SUBSET S
    OBVIOUS
  <2> HIDE DEF Bad
  <2> QED
    BY <1>1, <2>1, SmallestSet
<1>3. IsFiniteSet(s)
  BY FS_Subset
<1>4. s # {}
  BY <1>2, <1>3, SumStarts
<1>5. PICK x \in s : of(s) = f[x] + of(s \ {x})
  BY <1>3, <1>4, SumStarts
<1>6. s \ {x} \notin Bad
  <2>1. s \ {x} \subseteq s /\ s \ {x} # s
    OBVIOUS
  <2> HIDE DEF Bad
  <2> QED
    BY <1>2, <2>1
<1> QED
  BY <1>2, <1>5, <1>6

\* A finite set of naturals has a largest one.
LEMMA FiniteHasLargest ==
  ASSUME NEW T, IsFiniteSet(T), \A x \in T : x \in Nat, T # {}
  PROVE  \E m \in T : \A y \in T : m >= y
<1> DEFINE largest(S) == \E m \in S : \A y \in S : m >= y
           Bad == {S \in SUBSET T : S # {} /\ ~largest(S)}
<1>1. SUFFICES ASSUME Bad # {} PROVE FALSE
  OBVIOUS
<1>2. PICK S \in Bad : \A t \in Bad : t \subseteq S => t = S
  <2>1. Bad \subseteq SUBSET T
    OBVIOUS
  <2> HIDE DEF Bad
  <2> QED
    BY <1>1, <2>1, SmallestSet
<1>3. PICK x \in S : TRUE
  OBVIOUS
<1>4. S \ {x} \notin Bad
  <2>1. S \ {x} \subseteq S /\ S \ {x} # S
    BY <1>3
  <2> HIDE DEF Bad
  <2> QED
    BY <1>2, <2>1
<1>5. CASE S \ {x} = {}
  <2>1. x \in Nat /\ \A y \in S : y = x
    BY <1>3, <1>5
  <2> QED
    BY <1>3, <2>1
<1>6. CASE S \ {x} # {}
  <2>1. PICK m \in S \ {x} : \A y \in S \ {x} : m >= y
    BY <1>4, <1>6
  <2>2. m \in Nat /\ x \in Nat /\ \A y \in S : y \in Nat
    BY <1>3
  <2>3. CASE m >= x
    BY <2>1, <2>2, <2>3
  <2>4. CASE ~(m >= x)
    <3>1. \A y \in S : x >= y
      BY <2>1, <2>2, <2>4
    <3> QED
      BY <1>3, <3>1
  <2> QED
    BY <2>3, <2>4
<1> QED
  BY <1>5, <1>6

LEMMA ImageIsFinite ==
  ASSUME NEW S, IsFiniteSet(S), NEW f
  PROVE  IsFiniteSet({f[x] : x \in S})
<1> DEFINE T == {f[x] : x \in S}
           g == [x \in S |-> f[x]]
<1>1. g \in Surjection(S, T)
  BY DEF Surjection
<1> HIDE DEF g, T
<1>2. IsFiniteSet(T)
  BY <1>1, FS_Surjection
<1> QED
  BY <1>2 DEF T

-----------------------------------------------------------------------------
(* The domain of the envelope, and why no accepted graph is stuck          *)

\* The order of Python's tuples, of four integers.
LEMMA ExceedsIs ==
  ASSUME NEW k \in Int \X Int \X Int \X Int, NEW l \in Int \X Int \X Int \X Int
  PROVE  Exceeds(k, l) <=>
           \/ k[1] > l[1]
           \/ k[1] = l[1] /\ k[2] > l[2]
           \/ k[1] = l[1] /\ k[2] = l[2] /\ k[3] > l[3]
           \/ k[1] = l[1] /\ k[2] = l[2] /\ k[3] = l[3] /\ k[4] > l[4]
<1> DEFINE first(i) == k[i] > l[i] /\ \A j \in 1..i - 1 : k[j] = l[j]
<1>1. DOMAIN k = {1, 2, 3, 4}
  OBVIOUS
<1>2. 1..(1 - 1) = {} /\ 1..(2 - 1) = {1} /\ 1..(3 - 1) = {1, 2} /\ 1..(4 - 1) = {1, 2, 3}
  OBVIOUS
<1>3. Exceeds(k, l) <=> first(1) \/ first(2) \/ first(3) \/ first(4)
  BY <1>1 DEF Exceeds
<1>4. /\ first(1) <=> k[1] > l[1]
      /\ first(2) <=> k[1] = l[1] /\ k[2] > l[2]
      /\ first(3) <=> k[1] = l[1] /\ k[2] = l[2] /\ k[3] > l[3]
      /\ first(4) <=> k[1] = l[1] /\ k[2] = l[2] /\ k[3] = l[3] /\ k[4] > l[4]
  BY <1>2
<1> QED
  BY <1>3, <1>4

LEMMA KeysAreIntegers ==
  ASSUME TypeOK, NEW d \in Nat
  PROVE  Key(d) \in Int \X Int \X Int \X Int /\ Key(d)[4] = -d
<1> DEFINE net == [p \in Packages |-> package[p].net_substitution]
           seconds == [p \in Packages |-> package[p].expected_seconds]
<1>1. InDomain(d) \subseteq Packages /\ IsFiniteSet(Packages)
  BY FrontierAssumption DEF InDomain, EligibleLuna, Pending
<1>2. /\ IsFiniteSet(InDomain(d))
      /\ IsFiniteSet({p \in InDomain(d) : package[p].critical_path})
  BY <1>1, FS_Subset
<1>3. \A p \in InDomain(d) : net[p] \in Int /\ seconds[p] \in Int
  <2>1. \A p \in Packages : package[p] \in Fields
    BY DEF TypeOK
  <2>2. \A p \in Packages : package[p].net_substitution \in Int /\ package[p].expected_seconds \in Nat
    BY <2>1 DEF Fields
  <2> QED
    BY <1>1, <2>2
<1>4. SumFunctionOnSet(net, InDomain(d)) \in Int /\ SumFunctionOnSet(seconds, InDomain(d)) \in Int
  <2> HIDE DEF net, seconds
  <2> QED
    BY <1>2, <1>3, SumIsInt
<1>5. Cardinality({p \in InDomain(d) : package[p].critical_path}) \in Nat
  BY <1>2, FS_CardinalityType
<1> QED
  BY <1>4, <1>5 DEF Key

\* Keys are compared: of two domains one is better, and better is transitive.
LEMMA KeysAreOrdered ==
  ASSUME TypeOK, NEW x \in Nat, NEW y \in Nat, NEW z \in Nat
  PROVE  /\ x # y => Exceeds(Key(x), Key(y)) \/ Exceeds(Key(y), Key(x))
         /\ Exceeds(Key(x), Key(y)) /\ Exceeds(Key(y), Key(z)) => Exceeds(Key(x), Key(z))
<1> DEFINE Keys == Int \X Int \X Int \X Int
<1>1. PICK k \in Keys : k = Key(x) /\ k[4] = -x
  BY KeysAreIntegers
<1>2. PICK l \in Keys : l = Key(y) /\ l[4] = -y
  BY KeysAreIntegers
<1>3. PICK m \in Keys : m = Key(z)
  BY KeysAreIntegers
<1>4. x # y => Exceeds(k, l) \/ Exceeds(l, k)
  BY <1>1, <1>2, ExceedsIs
<1>5. Exceeds(k, l) /\ Exceeds(l, m) => Exceeds(k, m)
  BY <1>1, <1>2, <1>3, ExceedsIs
<1> QED
  BY <1>1, <1>2, <1>3, <1>4, <1>5

\* One of finitely many domains is better than all others.
LEMMA BestExists ==
  ASSUME TypeOK, NEW D, IsFiniteSet(D), \A d \in D : d \in Nat, D # {}
  PROVE  \E d \in D : \A e \in D \ {d} : Exceeds(Key(d), Key(e))
<1> DEFINE best(T) == \E d \in T : \A e \in T \ {d} : Exceeds(Key(d), Key(e))
           Bad == {T \in SUBSET D : T # {} /\ ~best(T)}
<1>1. SUFFICES ASSUME Bad # {} PROVE FALSE
  OBVIOUS
<1>2. PICK T \in Bad : \A t \in Bad : t \subseteq T => t = T
  <2>1. Bad \subseteq SUBSET D
    OBVIOUS
  <2> HIDE DEF Bad
  <2> QED
    BY <1>1, <2>1, SmallestSet
<1>3. PICK x \in T : TRUE
  OBVIOUS
<1>4. T \ {x} \notin Bad
  <2>1. T \ {x} \subseteq T /\ T \ {x} # T
    BY <1>3
  <2> HIDE DEF Bad
  <2> QED
    BY <1>2, <2>1
<1>5. CASE T \ {x} = {}
  <2>1. best(T)
    BY <1>3, <1>5
  <2> HIDE DEF best
  <2> QED
    BY <1>2, <2>1
<1>6. CASE T \ {x} # {}
  <2>1. PICK d \in T \ {x} : \A e \in (T \ {x}) \ {d} : Exceeds(Key(d), Key(e))
    BY <1>2, <1>4, <1>6
  <2>2. T \subseteq Nat /\ d \in T /\ x # d
    BY <1>2, <2>1
  <2>3. CASE Exceeds(Key(d), Key(x))
    <3>1. \A e \in T \ {d} : Exceeds(Key(d), Key(e))
      BY <2>1, <2>3
    <3> QED
      BY <1>2, <2>2, <3>1
  <2>4. CASE Exceeds(Key(x), Key(d))
    <3>1. \A e \in T \ {x} : Exceeds(Key(x), Key(e))
      BY <1>3, <2>1, <2>2, <2>4, KeysAreOrdered
    <3> QED
      BY <1>2, <1>3, <3>1
  <2> QED
    BY <1>3, <2>2, <2>3, <2>4, KeysAreOrdered
<1> QED
  BY <1>5, <1>6

\* An eligible package makes an envelope, when a slot is free and no repair waits.
LEMMA EnvelopeHasPackages ==
  ASSUME TypeOK, EligibleLuna # {}, Repair = {}, SlotFree
  PROVE  LunaEnvelope # {}
<1> DEFINE domain == [p \in EligibleLuna |-> package[p].domain_id]
           D == {package[p].domain_id : p \in EligibleLuna}
<1>1. EligibleLuna \subseteq Packages /\ IsFiniteSet(EligibleLuna)
  <2>1. EligibleLuna \subseteq Packages
    BY DEF EligibleLuna, Pending
  <2> QED
    BY <2>1, FrontierAssumption, FS_Subset
<1>2. IsFiniteSet(D)
  <2>1. D = {domain[p] : p \in EligibleLuna}
    OBVIOUS
  <2> HIDE DEF domain
  <2> QED
    BY <1>1, <2>1, ImageIsFinite
<1>3. D \subseteq Nat /\ D # {}
  <2>1. \A p \in EligibleLuna : package[p] \in Fields
    BY <1>1 DEF TypeOK
  <2> QED
    BY <2>1 DEF Fields
<1>4. SelectedDomain = CHOOSE d \in D : \A e \in D \ {d} : Exceeds(Key(d), Key(e))
  BY DEF SelectedDomain
<1>5. SelectedDomain \in D
  <2>1. \E d \in D : \A e \in D \ {d} : Exceeds(Key(d), Key(e))
    <3> HIDE DEF D
    <3> QED
      BY <1>2, <1>3, BestExists
  <2> HIDE DEF D
  <2> QED
    BY <1>4, <2>1
<1>6. PICK p \in EligibleLuna : package[p].domain_id = SelectedDomain
  BY <1>5
<1> QED
  BY <1>6 DEF LunaEnvelope, InDomain, SlotFree

LEMMA NobodyStuck == TypeOK => NobodyIsStuck
<1> SUFFICES ASSUME TypeOK, IsAcyclic, ~Done, queues = plan,
                    ~\E p \in Packages : MayFollow(p) \/ MustReclaim(p)
             PROVE  Running # {} /\ (queues.tail_wait_allowed \/ queues.repair # {})
  BY DEF NobodyIsStuck
<1>1. /\ queues.luna_envelope = LunaEnvelope /\ queues.sol_ready = SolReady
      /\ queues.review = Review /\ queues.repair = Repair
      /\ queues.tail_wait_allowed <=> /\ Running # {} /\ LunaEnvelope = {}
                                      /\ SolReady = {} /\ Review = {} /\ Repair = {}
  BY DEF plan
<1>2. /\ LunaEnvelope \subseteq Packages /\ SolReady \subseteq Packages
      /\ Review \subseteq Packages /\ Repair \subseteq Packages
  BY DEF LunaEnvelope, InDomain, EligibleLuna, SolReady, Pending, Review, Repair
<1>3. SolReady = {} /\ Review = {} /\ (SlotFree => LunaEnvelope = {} /\ Repair = {})
  BY <1>1, <1>2 DEF MayFollow
<1>4. ~SlotFree => Running # {} /\ LunaEnvelope = {}
  BY WritersAreFinite, FS_EmptySet, FrontierAssumption DEF SlotFree, LunaEnvelope
<1>5. CASE Repair # {}
  BY <1>1, <1>3, <1>4, <1>5
<1>6. CASE Repair = {}
  \* A package that waits for nothing but was not accepted or taken over.
  <2> DEFINE waiting == {p \in Packages : status[p] \notin TERMINAL_DEPENDENCY_STATUSES}
  <2>1. waiting \in (SUBSET Packages) \ {{}}
    BY DEF Done
  <2>2. PICK p \in waiting : dependencies[p] \cap waiting = {}
    <3>1. SortIsExact
      BY SortsExactly
    <3> HIDE DEF waiting
    <3> QED
      BY <2>1, <3>1 DEF SortIsExact
  <2>3. p \in Packages /\ DependencyReady(p)
    BY <2>2 DEF DependencyReady, TypeOK
  <2>4. status[p] \in {"PENDING", "RUNNING", "HANDOFF", "FAILED"}
    BY <2>2 DEF TypeOK, STATUSES, TERMINAL_DEPENDENCY_STATUSES
  <2>5. status[p] \notin {"HANDOFF", "FAILED"}
    BY <1>3, <1>6, <2>3 DEF Review, Repair, MustReclaim
  <2>6. status[p] = "PENDING" => p \in EligibleLuna
    <3>1. ASSUME status[p] = "PENDING" PROVE p \in Pending("LUNA")
      <4>1. package[p].executor \in {"LUNA", "SOL"}
        BY <2>3 DEF TypeOK, Fields
      <4>2. p \notin Pending("SOL")
        BY <1>3, <2>3 DEF SolReady
      <4> QED
        BY <2>3, <3>1, <4>1, <4>2 DEF Pending
    <3>2. ASSUME p \in Pending("LUNA") PROVE Reasons(p) = {}
      <4>1. Reasons(p) # {"nonpositive-net-substitution"}
        BY <2>3, <3>2 DEF MustReclaim
      <4> QED
        BY <2>3, <4>1 DEF Reasons
    <3> QED
      BY <3>1, <3>2 DEF EligibleLuna
  <2>7. Running # {}
    <3>1. SUFFICES ASSUME Running = {} PROVE FALSE
      OBVIOUS
    <3>2. SlotFree
      BY <1>4, <3>1
    <3>3. p \in EligibleLuna
      BY <2>3, <2>4, <2>5, <2>6, <3>1 DEF Running
    <3> QED
      BY <1>3, <1>6, <3>2, <3>3, EnvelopeHasPackages
  <2> QED
    BY <1>1, <1>3, <1>4, <1>6, <2>7
<1> QED
  BY <1>5, <1>6

(* No accepted graph is ever stuck, whatever the graph, the statuses and the *)
(* cap: a fresh answer offers something, or a package must be taken over, or *)
(* a Luna runs whom the controller may wait for.  A package that waits for   *)
(* no other always exists, as the sort found no circle, and plan leaves it   *)
(* out of every queue only while a Luna runs.                                *)
THEOREM NobodyGetsStuck == Spec => []NobodyIsStuck
<1>1. IInv => NobodyIsStuck
  BY NobodyStuck DEF IInv
<1> QED
  BY <1>1, Initially, StepInv, PTL DEF Spec

-----------------------------------------------------------------------------
(* The seconds in which Sol and Luna both work.  An interval is within     *)
(* time when it does not end before it starts; a list of them is apart     *)
(* when time passes between one and the next.                              *)
Spells == {x \in Nat \X Nat : x[1] <= x[2]}

Within(t, x) == x[1] <= t /\ t < x[2]

Apart(m) == \A k, l \in 1..Len(m) : k < l => m[k][2] < m[l][1]

\* The time that the first n of a list cover.
Prefix(m, n) == {t \in Nat : \E k \in 1..n : Within(t, m[k])}

LEMMA SpansAre ==
  ASSUME NEW S, S \subseteq Spells
  PROVE  Spans(S) = {t \in Nat : \E x \in S : Within(t, x)}
<1>1. \A x \in S : x[1] \in Nat /\ x[2] \in Nat
  BY DEF Spells
<1>2. \A x \in S : \A t : t \in x[1]..(x[2] - 1) <=> t \in Nat /\ Within(t, x)
  BY <1>1 DEF Within
<1>3. \A t : t \in Spans(S) <=> \E x \in S : x[1] < x[2] /\ t \in x[1]..(x[2] - 1)
  BY DEF Spans
<1>4. \A t : \A x \in S : t \in Nat /\ Within(t, x) => x[1] < x[2]
  BY <1>1 DEF Within
<1>5. \A t : t \in Spans(S) <=> t \in Nat /\ \E x \in S : Within(t, x)
  BY <1>2, <1>3, <1>4
<1> QED
  BY <1>5

LEMMA InOrderSorts ==
  ASSUME NEW S, S \subseteq Spells, IsFiniteSet(S)
  PROVE  /\ Cardinality(S) \in Nat
         /\ InOrder(S) \in [1..Cardinality(S) -> S]
         /\ \A x \in S : \E i \in 1..Cardinality(S) : InOrder(S)[i] = x
         /\ \A i, j \in 1..Cardinality(S) : i < j => InOrder(S)[i][1] <= InOrder(S)[j][1]
<1> DEFINE R == {x \in S \X S : Earlier(x[1], x[2])}
<1>1. \A x, y \in S : <<x, y>> \in R <=> Earlier(x, y)
  OBVIOUS
<1>2. Ordered(S, R)
  <2>0. \A x \in S : x[1] \in Nat /\ x[2] \in Nat /\ x = <<x[1], x[2]>>
    BY DEF Spells
  <2>1. \A x, y \in S : x # y => Earlier(x, y) \/ Earlier(y, x)
    BY <2>0 DEF Earlier
  <2>2. \A x, y, z \in S : Earlier(x, y) /\ Earlier(y, z) => Earlier(x, z)
    BY <2>0 DEF Earlier
  <2>3. \A x \in S : ~Earlier(x, x)
    BY <2>0 DEF Earlier
  <2> HIDE DEF R
  <2> QED
    BY <1>1, <2>1, <2>2, <2>3 DEF Ordered
<1>3. \A x \in S : Before(S, R, x) = {y \in S : Earlier(y, x)}
  BY <1>1 DEF Before
<1> HIDE DEF R
<1> DEFINE turn(i) == CHOOSE x \in S : Cardinality({y \in S : Earlier(y, x)}) = i - 1
           rank(i) == CHOOSE x \in S : Cardinality(Before(S, R, x)) = i - 1
<1>4. \A i : turn(i) = rank(i)
  BY <1>3
<1>5. InOrder(S) = [i \in 1..Cardinality(S) |-> turn(i)]
  BY DEF InOrder
<1>6. Ranked(S, R) = [i \in 1..Cardinality(S) |-> rank(i)]
  BY DEF Ranked
<1>7. InOrder(S) = Ranked(S, R)
  <2> HIDE DEF turn, rank
  <2> QED
    BY <1>4, <1>5, <1>6
<1>8. InRank(S, R, InOrder(S))
  <2>1. InRank(S, R, Ranked(S, R))
    BY <1>2, RankedSorts
  <2> QED
    BY <1>7, <2>1
<1>9. Cardinality(S) \in Nat
  BY FS_CardinalityType
<1> DEFINE s == InOrder(S)
<1>10. /\ s \in [1..Cardinality(S) -> S]
       /\ \A x \in S : \E i \in 1..Cardinality(S) : s[i] = x
       /\ \A i, j \in 1..Cardinality(S) : i < j => <<s[i], s[j]>> \in R
  BY <1>8 DEF InRank
<1>11. \A i, j \in 1..Cardinality(S) : i < j => s[i][1] <= s[j][1]
  <2> HIDE DEF s
  <2> SUFFICES ASSUME NEW i \in 1..Cardinality(S), NEW j \in 1..Cardinality(S), i < j
               PROVE  s[i][1] <= s[j][1]
    OBVIOUS
  <2>1. Earlier(s[i], s[j]) /\ s[i] \in S /\ s[j] \in S
    BY <1>1, <1>10
  <2>2. s[i][1] \in Nat /\ s[j][1] \in Nat
    BY <2>1 DEF Spells
  <2> QED
    BY <2>1, <2>2 DEF Earlier
<1> QED
  BY <1>9, <1>10, <1>11

\* The walk of _merged along a sorted list of n intervals.
Walks(s, n, f) ==
  f = [i \in 0..n |-> IF i = 0 THEN <<>> ELSE Absorb(f[i - 1], s[i])]

LEMMA WalkExists == ASSUME NEW s, NEW n \in Nat PROVE \E f : Walks(s, n, f)
<1> DEFINE Bad == {i \in Nat : i <= n /\ ~\E f : Walks(s, i, f)}
<1>1. SUFFICES ASSUME ~\E f : Walks(s, n, f) PROVE FALSE
  OBVIOUS
<1>2. PICK m \in Bad : \A i \in Bad : m <= i
  <2>1. n \in Bad /\ Bad \subseteq Nat
    BY <1>1
  <2> HIDE DEF Bad
  <2> QED
    BY <2>1, LeastNatural
<1>3. m \in Nat /\ m <= n /\ ~\E f : Walks(s, m, f)
  BY <1>2
<1>4. CASE m = 0
  <2> DEFINE f == [i \in 0..0 |-> <<>>]
  <2>1. Walks(s, 0, f)
    BY DEF Walks
  <2> QED
    BY <1>3, <1>4, <2>1
<1>5. CASE m # 0
  <2>1. m - 1 \in Nat /\ m - 1 <= n /\ ~(m <= m - 1)
    BY <1>3, <1>5
  <2>2. m - 1 \notin Bad
    <3> HIDE DEF Bad
    <3> QED
      BY <1>2, <2>1
  <2>3. PICK f : Walks(s, m - 1, f)
    BY <2>1, <2>2
  <2> DEFINE g == [i \in 0..m |-> IF i = m THEN Absorb(f[m - 1], s[m]) ELSE f[i]]
             h == [i \in 0..m |-> IF i = 0 THEN <<>> ELSE Absorb(g[i - 1], s[i])]
  <2>4. \A i \in 0..m - 1 : f[i] = IF i = 0 THEN <<>> ELSE Absorb(f[i - 1], s[i])
    <3>1. f = [i \in 0..m - 1 |-> IF i = 0 THEN <<>> ELSE Absorb(f[i - 1], s[i])]
      BY <2>3 DEF Walks
    <3> QED
      BY <3>1, Zenon
  <2>5. \A i \in 0..m - 1 : g[i] = f[i] /\ i \in 0..m /\ i # m
    BY <1>3, <2>1
  <2>6. g[m] = Absorb(f[m - 1], s[m]) /\ g[m - 1] = f[m - 1]
    BY <1>3, <2>1
  <2>7. ASSUME NEW i \in 0..m PROVE g[i] = h[i]
    <3>0. h[i] = IF i = 0 THEN <<>> ELSE Absorb(g[i - 1], s[i])
      OBVIOUS
    <3> HIDE DEF g, h
    <3>1. CASE i = m
      BY <1>5, <2>6, <3>0, <3>1
    <3>2. CASE i = 0
      BY <1>5, <2>1, <2>4, <2>5, <3>0, <3>2
    <3>3. CASE i # m /\ i # 0
      <4>1. i \in 0..m - 1 /\ i - 1 \in 0..m - 1
        BY <1>3, <3>3
      <4>2. g[i] = f[i] /\ g[i - 1] = f[i - 1]
        BY <2>5, <4>1
      <4>3. f[i] = Absorb(f[i - 1], s[i])
        BY <2>4, <3>3, <4>1
      <4> QED
        BY <3>0, <3>3, <4>2, <4>3
    <3> QED
      BY <3>1, <3>2, <3>3
  <2>8. g = h
    <3>1. g = [i \in 0..m |-> g[i]] /\ h = [i \in 0..m |-> h[i]]
      OBVIOUS
    <3> HIDE DEF g, h
    <3> QED
      BY <2>7, <3>1
  <2>9. Walks(s, m, g)
    <3>1. g = [i \in 0..m |-> IF i = 0 THEN <<>> ELSE Absorb(g[i - 1], s[i])]
      <4>1. h = [i \in 0..m |-> IF i = 0 THEN <<>> ELSE Absorb(g[i - 1], s[i])]
        OBVIOUS
      <4> HIDE DEF g, h
      <4> QED
        BY <2>8, <4>1
    <3> HIDE DEF g
    <3> QED
      BY <3>1 DEF Walks
  <2> QED
    BY <1>3, <2>9
<1> QED
  BY <1>4, <1>5

\* What the walk has after n intervals: what they cover, apart and in order.
Merges(s, n, m) ==
  /\ m \in Seq(Spells)
  /\ n = 0 => m = <<>>
  /\ n # 0 => m # <<>> /\ Last(m)[1] <= s[n][1]
  /\ Apart(m)
  /\ Prefix(m, Len(m)) = Prefix(s, n)

LEMMA AbsorbMerges ==
  ASSUME NEW N \in Nat, NEW s \in [1..N -> Spells],
         \A i, j \in 1..N : i < j => s[i][1] <= s[j][1],
         NEW n \in 1..N, NEW m, Merges(s, n - 1, m)
  PROVE  Merges(s, n, Absorb(m, s[n]))
<1> DEFINE x == s[n]
           r == Absorb(m, x)
           L == Len(m)
<1>1. x \in Spells /\ x[1] \in Nat /\ x[2] \in Nat /\ x[1] <= x[2]
  BY DEF Spells
<1>2. m \in Seq(Spells) /\ L \in Nat /\ Apart(m) /\ Prefix(m, L) = Prefix(s, n - 1)
  BY DEF Merges
<1>3. \A k \in 1..L : m[k] \in Spells /\ m[k][1] \in Nat /\ m[k][2] \in Nat /\ m[k][1] <= m[k][2]
  BY <1>2 DEF Spells
<1>4. \A t : t \in Prefix(s, n) <=> t \in Nat /\ (t \in Prefix(s, n - 1) \/ Within(t, x))
  BY DEF Prefix
<1>5. CASE m # <<>> /\ x[1] <= Last(m)[2]
  <2> DEFINE y == <<m[L][1], LaterEnd(m[L], x)>>
  <2>1. L \in 1..L /\ Last(m) = m[L] /\ r = [m EXCEPT ![L] = y]
    BY <1>2, <1>5 DEF Last, Absorb
  <2>2. n - 1 # 0 /\ m[L][1] <= x[1]
    <3>1. n - 1 # 0
      BY <1>5 DEF Merges
    <3>2. m[L][1] <= s[n - 1][1]
      BY <2>1, <3>1 DEF Merges
    <3>3. s[n - 1][1] <= x[1] /\ s[n - 1][1] \in Nat
      BY <3>1 DEF Spells
    <3> QED
      BY <1>1, <1>3, <2>1, <3>1, <3>2, <3>3
  <2>3. /\ y \in Spells /\ y[1] = m[L][1] /\ y[2] \in Nat /\ m[L][2] <= y[2]
        /\ \A t \in Nat : Within(t, y) <=> Within(t, m[L]) \/ Within(t, x)
    <3>1. y[1] = m[L][1] /\ y[2] = IF m[L][2] >= x[2] THEN m[L][2] ELSE x[2]
      BY DEF LaterEnd
    <3>2. m[L][1] \in Nat /\ m[L][2] \in Nat /\ m[L][1] <= m[L][2] /\ x[1] <= m[L][2]
      BY <1>3, <1>5, <2>1
    <3>3. y[2] \in Nat /\ m[L][2] <= y[2] /\ y[1] <= y[2]
      BY <1>1, <3>1, <3>2
    <3>4. y \in Spells
      BY <3>1, <3>2, <3>3 DEF Spells
    <3> HIDE DEF y
    <3>5. \A a, b, c, d, t \in Nat :
            a <= c /\ c <= b /\ c <= d =>
              (a <= t /\ t < (IF b >= d THEN b ELSE d) <=> (a <= t /\ t < b) \/ (c <= t /\ t < d))
      OBVIOUS
    <3>6. \A t \in Nat : Within(t, y) <=> Within(t, m[L]) \/ Within(t, x)
      <4> HIDE DEF x, L
      <4> QED
        BY <1>1, <2>2, <3>1, <3>2, <3>5 DEF Within
    <3> QED
      BY <3>1, <3>3, <3>4, <3>6
  <2> HIDE DEF y, x, r, L
  <2>4. r \in Seq(Spells) /\ Len(r) = L /\ r[L] = y /\ \A k \in 1..L : k # L => r[k] = m[k]
    BY <1>2, <2>1, <2>3 DEF L
  <2>5. Apart(r)
    <3> SUFFICES ASSUME NEW k \in 1..L, NEW l \in 1..L, k < l PROVE r[k][2] < r[l][1]
      BY <2>4 DEF Apart
    <3>1. r[k] = m[k] /\ k # L
      BY <1>2, <2>4
    <3>2. m[k][2] < m[l][1]
      BY <1>2 DEF Apart, L
    <3>3. r[l][1] = m[l][1]
      BY <2>3, <2>4
    <3> QED
      BY <3>1, <3>2, <3>3
  <2>6. Prefix(r, L) = Prefix(s, n)
    <3> SUFFICES ASSUME NEW t \in Nat
                 PROVE  (\E k \in 1..L : Within(t, r[k]))
                          <=> (\E k \in 1..L : Within(t, m[k])) \/ Within(t, x)
      BY <1>2, <1>4 DEF Prefix
    <3> QED
      BY <2>1, <2>3, <2>4
  <2>7. r # <<>> /\ Last(r) = y
    BY <2>1, <2>4 DEF Last
  <2> QED
    BY <2>2, <2>3, <2>4, <2>5, <2>6, <2>7 DEF Merges, r, x
<1>6. CASE ~(m # <<>> /\ x[1] <= Last(m)[2])
  <2>1. r = Append(m, x)
    BY <1>6 DEF Absorb
  <2>2. r \in Seq(Spells) /\ Len(r) = L + 1 /\ r[L + 1] = x /\ \A k \in 1..L : r[k] = m[k]
    BY <1>1, <1>2, <2>1
  <2>3. \A k \in 1..L : m[k][2] < x[1]
    <3> SUFFICES ASSUME NEW k \in 1..L PROVE m[k][2] < x[1]
      OBVIOUS
    <3>1. L \in 1..L /\ m # <<>> /\ Last(m) = m[L]
      BY <1>2 DEF Last
    <3>2. m[L][2] < x[1]
      BY <1>1, <1>3, <1>6, <3>1
    <3>3. k # L => m[k][2] < m[L][1]
      BY <1>2, <3>1 DEF Apart
    <3> HIDE DEF x, L, r
    <3> QED
      BY <1>1, <1>3, <3>1, <3>2, <3>3
  <2> HIDE DEF x, r, L
  <2>4. Apart(r)
    <3> SUFFICES ASSUME NEW k \in 1..L + 1, NEW l \in 1..L + 1, k < l PROVE r[k][2] < r[l][1]
      BY <2>2 DEF Apart
    <3>1. CASE l = L + 1
      BY <1>2, <2>2, <2>3, <3>1
    <3>2. CASE l # L + 1
      <4>1. k \in 1..L /\ l \in 1..L
        BY <1>2, <3>2
      <4>2. m[k][2] < m[l][1]
        BY <1>2, <4>1 DEF Apart, L
      <4> QED
        BY <2>2, <4>1, <4>2
    <3> QED
      BY <3>1, <3>2
  <2>5. Prefix(r, L + 1) = Prefix(s, n)
    <3> SUFFICES ASSUME NEW t \in Nat
                 PROVE  (\E k \in 1..L + 1 : Within(t, r[k]))
                          <=> (\E k \in 1..L : Within(t, m[k])) \/ Within(t, x)
      BY <1>2, <1>4 DEF Prefix
    <3>1. L + 1 \in 1..L + 1 /\ \A k \in 1..L : k \in 1..L + 1
      BY <1>2
    <3>2. \A k \in 1..L + 1 : k = L + 1 \/ k \in 1..L
      BY <1>2
    <3> QED
      BY <2>2, <3>1, <3>2
  <2>6. r # <<>> /\ Last(r) = x
    BY <1>2, <2>2 DEF Last
  <2> QED
    BY <1>1, <2>2, <2>4, <2>5, <2>6 DEF Merges, r, x
<1> QED
  BY <1>5, <1>6

\* _merged: the same time, in intervals that are apart.
LEMMA MergedIs ==
  ASSUME NEW S, S \subseteq Spells, IsFiniteSet(S)
  PROVE  /\ _merged(S) \in Seq(Spells) /\ Apart(_merged(S))
         /\ Prefix(_merged(S), Len(_merged(S))) = Spans(S)
<1> DEFINE N == Cardinality(S)
           s == InOrder(S)
           result[i \in 0..N] == IF i = 0 THEN <<>> ELSE Absorb(result[i - 1], s[i])
<1>1. /\ N \in Nat /\ s \in [1..N -> S] /\ \A x \in S : \E i \in 1..N : s[i] = x
      /\ \A i, j \in 1..N : i < j => s[i][1] <= s[j][1]
  BY InOrderSorts
<1>2. Len(s) = N
  <2> HIDE DEF s, N
  <2> QED
    BY <1>1, LenProperties, SeqDef
<1>3. _merged(S) = result[N]
  BY <1>2, Zenon DEF _merged
<1>4. PICK f : Walks(s, N, f)
  <2> HIDE DEF s, N
  <2> QED
    BY <1>1, WalkExists
<1>5. f = [i \in 0..N |-> IF i = 0 THEN <<>> ELSE Absorb(f[i - 1], s[i])]
  BY <1>4 DEF Walks
<1>6. result = [i \in 0..N |-> IF i = 0 THEN <<>> ELSE Absorb(result[i - 1], s[i])]
  BY <1>5
<1> HIDE DEF result, s
<1>7. result[0] = <<>> /\ \A i \in 1..N : result[i] = Absorb(result[i - 1], s[i])
  <2> HIDE DEF N
  <2>1. \A i \in 0..N : result[i] = IF i = 0 THEN <<>> ELSE Absorb(result[i - 1], s[i])
    BY <1>6, Zenon
  <2>2. 0 \in 0..N /\ \A i \in 1..N : i \in 0..N /\ i # 0
    BY <1>1
  <2> QED
    BY <2>1, <2>2
<1>8. s \in [1..N -> Spells]
  BY <1>1
<1> HIDE DEF N
<1>9. \A n \in 0..N : Merges(s, n, result[n])
  <2> DEFINE Bad == {n \in Nat : n <= N /\ ~Merges(s, n, result[n])}
  <2>1. SUFFICES ASSUME Bad # {} PROVE FALSE
    BY <1>1
  <2>2. PICK n \in Bad : \A i \in Bad : n <= i
    <3>1. Bad \subseteq Nat
      OBVIOUS
    <3> HIDE DEF Bad
    <3> QED
      BY <2>1, <3>1, LeastNatural
  <2>3. n \in Nat /\ n <= N /\ ~Merges(s, n, result[n])
    BY <2>2
  <2>4. CASE n = 0
    <3>1. <<>> \in Seq(Spells) /\ Len(<<>>) = 0
      OBVIOUS
    <3>2. Apart(<<>>) /\ Prefix(<<>>, 0) = Prefix(s, 0)
      BY DEF Apart, Prefix
    <3>3. Merges(s, 0, <<>>)
      BY <3>1, <3>2 DEF Merges
    <3> QED
      BY <1>7, <2>3, <2>4, <3>3
  <2>5. CASE n # 0
    <3>1. n - 1 \in Nat /\ n - 1 <= N /\ ~(n <= n - 1) /\ n \in 1..N
      BY <1>1, <2>3, <2>5
    <3>2. n - 1 \notin Bad
      <4> HIDE DEF Bad
      <4> QED
        BY <2>2, <3>1
    <3>3. Merges(s, n - 1, result[n - 1])
      BY <3>1, <3>2
    <3>4. Merges(s, n, Absorb(result[n - 1], s[n]))
      BY <1>1, <1>8, <3>1, <3>3, AbsorbMerges
    <3> QED
      BY <1>7, <2>3, <3>1, <3>4
  <2> QED
    BY <2>4, <2>5
<1>10. Merges(s, N, _merged(S))
  BY <1>1, <1>3, <1>9
<1>11. Prefix(s, N) = Spans(S)
  <2> SUFFICES Prefix(s, N) = {t \in Nat : \E x \in S : Within(t, x)}
    BY SpansAre
  <2> QED
    BY <1>1 DEF Prefix
<1> QED
  BY <1>10, <1>11 DEF Merges

LEMMA MaxIs ==
  ASSUME NEW T, T \subseteq Nat, NEW m \in T, \A y \in T : y <= m
  PROVE  Max(T) = m
<1>1. \A y \in T : m >= y
  OBVIOUS
<1>2. \E x \in T : \A y \in T : x >= y
  BY <1>1
<1>3. Max(T) \in T /\ \A y \in T : Max(T) >= y
  BY <1>2 DEF Max
<1>4. m \in Nat /\ Max(T) \in Nat /\ m >= Max(T) /\ Max(T) >= m
  BY <1>1, <1>3
<1> QED
  BY <1>4

LEMMA MaxOfTwo ==
  ASSUME NEW a \in Nat, NEW b \in Nat
  PROVE  Max({a, b}) = IF a >= b THEN a ELSE b
<1>1. CASE a >= b
  BY <1>1, MaxIs
<1>2. CASE ~(a >= b)
  BY <1>2, MaxIs
<1> QED
  BY <1>1, <1>2

LEMMA MinOfTwo ==
  ASSUME NEW a \in Nat, NEW b \in Nat
  PROVE  Min({a, b}) = IF a <= b THEN a ELSE b
<1>1. Min({a, b}) \in {a, b} /\ \A y \in {a, b} : Min({a, b}) <= y
  <2>1. \E x \in {a, b} : \A y \in {a, b} : x <= y
    OBVIOUS
  <2> QED
    BY <2>1 DEF Min
<1> QED
  BY <1>1

LEMMA SharedIs ==
  ASSUME NEW x \in Spells, NEW y \in Spells
  PROVE  /\ IsFiniteSet({t \in Nat : Within(t, x) /\ Within(t, y)})
         /\ Cardinality({t \in Nat : Within(t, x) /\ Within(t, y)}) = Shared(x, y)
<1> DEFINE from == Max({x[1], y[1]})
           to == Min({x[2], y[2]})
           C == {t \in Nat : Within(t, x) /\ Within(t, y)}
<1>1. /\ x[1] \in Nat /\ x[2] \in Nat /\ x[1] <= x[2]
      /\ y[1] \in Nat /\ y[2] \in Nat /\ y[1] <= y[2]
  BY DEF Spells
<1>2. from = IF x[1] >= y[1] THEN x[1] ELSE y[1]
  BY <1>1, MaxOfTwo
<1>3. to = IF x[2] <= y[2] THEN x[2] ELSE y[2]
  BY <1>1, MinOfTwo
<1>4. Shared(x, y) = IF to > from THEN to - from ELSE 0
  BY DEF Shared
<1> HIDE DEF from, to
<1>5. from \in Nat /\ to \in Nat
  BY <1>1, <1>2, <1>3
<1>6. \A t \in Nat : Within(t, x) /\ Within(t, y) <=> from <= t /\ t < to
  BY <1>1, <1>2, <1>3 DEF Within
<1>7. C = from..(to - 1)
  <2>1. \A t : t \in from..(to - 1) <=> t \in Nat /\ from <= t /\ t < to
    BY <1>5
  <2> QED
    BY <1>6, <2>1
<1>8. /\ IsFiniteSet(from..(to - 1))
      /\ Cardinality(from..(to - 1)) = IF from > to - 1 THEN 0 ELSE to - 1 - from + 1
  <2>1. from \in Int /\ to - 1 \in Int
    BY <1>5
  <2> QED
    BY <2>1, FS_Interval
<1>9. Cardinality(from..(to - 1)) = Shared(x, y)
  <2>1. Cardinality(from..(to - 1)) = IF to > from THEN to - from ELSE 0
    BY <1>5, <1>8
  <2> QED
    BY <1>4, <2>1
<1>10. IsFiniteSet(C) /\ Cardinality(C) = Cardinality(from..(to - 1))
  <2> HIDE DEF C
  <2> QED
    BY <1>7, <1>8
<1> QED
  BY <1>9, <1>10

\* Sol works on one package at a time.
LEMMA SolIsAlone ==
  ASSUME NEW pk, NEW w, Tasks(pk, LaneOf(pk), Lanes(w)), NEW s,
         Sound(pk, LaneOf(pk), Lanes(w), WithBegins(pk, s)), s.done = DOMAIN pk
  PROVE  /\ DOMAIN s.ends = DOMAIN pk
         /\ \A p \in DOMAIN pk : /\ s.ends[p] \in Nat /\ s.ends[p] - pk[p].seconds \in Nat
                                 /\ s.ends[p] - pk[p].seconds < s.ends[p]
         /\ \A t \in Nat : \A p, q \in DOMAIN pk :
              /\ pk[p].executor = "SOL" /\ pk[q].executor = "SOL"
              /\ Within(t, <<s.ends[p] - pk[p].seconds, s.ends[p]>>)
              /\ Within(t, <<s.ends[q] - pk[q].seconds, s.ends[q]>>)
              => p = q
<1> DEFINE v == WithBegins(pk, s)
           begin(p) == s.ends[p] - pk[p].seconds
<1>1. v.done = DOMAIN pk /\ v.ends = s.ends /\ v.begins = [p \in DOMAIN s.ends |-> begin(p)]
  BY DEF WithBegins
<1>1a. Sound(pk, LaneOf(pk), Lanes(w), v)
  OBVIOUS
<1> HIDE DEF v
<1>2. /\ DOMAIN v.ends = DOMAIN pk
      /\ \A p \in DOMAIN pk : v.ends[p] \in Nat /\ v.begins[p] \in Nat /\ v.begins[p] < v.ends[p]
  BY <1>1, <1>1a DEF Sound, Placements
<1>3. \A p \in DOMAIN pk : v.begins[p] = begin(p)
  BY <1>1, <1>2
<1> HIDE DEF begin
<1>4. ASSUME NEW t \in Nat, NEW p \in DOMAIN pk, NEW q \in DOMAIN pk,
             pk[p].executor = "SOL", pk[q].executor = "SOL",
             Within(t, <<begin(p), s.ends[p]>>), Within(t, <<begin(q), s.ends[q]>>)
      PROVE  p = q
  <2> DEFINE A == At(v, LaneOf(pk), t, "SOL")
  <2>1. Cardinality(A) <= 1
    <3>1. "SOL" \in DOMAIN Lanes(w) /\ Lanes(w)["SOL"] = 1
      BY LanesAre
    <3>2. \A l \in DOMAIN Lanes(w) : Cardinality(At(v, LaneOf(pk), t, l)) <= Lanes(w)[l]
      BY <1>1a DEF Sound, RoomUsed
    <3> QED
      BY <3>1, <3>2
  <2>2. p \in A /\ q \in A
    BY <1>1, <1>2, <1>3, <1>4 DEF At, LaneOf, Within
  <2>3. IsFiniteSet(A) /\ Cardinality(A) \in Nat
    <3>1. DOMAIN v.ends \subseteq DOMAIN pk
      BY <1>2
    <3> QED
      BY <3>1, LanesAreFinite
  <2> HIDE DEF A
  <2>4. SUFFICES ASSUME p # q PROVE FALSE
    OBVIOUS
  <2>5. Cardinality({p, q}) = 2
    <3>1. IsFiniteSet({p}) /\ Cardinality({p}) = 1
      BY FS_Singleton
    <3>2. q \notin {p} /\ {p, q} = {p} \cup {q}
      BY <2>4
    <3>3. Cardinality({p} \cup {q}) = 1 + 1
      BY <3>1, <3>2, FS_AddElement
    <3> QED
      BY <3>2, <3>3
  <2>6. Cardinality({p, q}) <= Cardinality(A)
    <3>1. {p, q} \subseteq A
      BY <2>2
    <3> QED
      BY <2>3, <3>1, FS_Subset
  <2> QED
    BY <2>1, <2>3, <2>5, <2>6
<1>5. /\ DOMAIN s.ends = DOMAIN pk
      /\ \A p \in DOMAIN pk : s.ends[p] \in Nat /\ begin(p) \in Nat /\ begin(p) < s.ends[p]
  BY <1>1, <1>2, <1>3
<1> QED
  BY <1>4, <1>5 DEF begin

LEMMA MakespanIs ==
  ASSUME NEW s, IsFiniteSet(DOMAIN s.ends), \A p \in DOMAIN s.ends : s.ends[p] \in Nat,
         NEW p \in DOMAIN s.ends
  PROVE  Makespan(s) \in Nat /\ s.ends[p] <= Makespan(s)
<1> DEFINE T == {s.ends[q] : q \in DOMAIN s.ends}
<1>1. IsFiniteSet(T) /\ T \subseteq Nat /\ s.ends[p] \in T
  BY ImageIsFinite
<1>2. \E m \in T : \A y \in T : m >= y
  <2> HIDE DEF T
  <2> QED
    BY <1>1, FiniteHasLargest
<1>3. Makespan(s) = Max(T)
  BY DEF Makespan
<1> HIDE DEF T
<1>4. Max(T) \in T /\ \A y \in T : Max(T) >= y
  BY <1>2 DEF Max
<1> QED
  BY <1>1, <1>3, <1>4

LEMMA OverlapIsCounted ==
  ASSUME NEW pk, NEW w, Tasks(pk, LaneOf(pk), Lanes(w)), NEW s,
         Sound(pk, LaneOf(pk), Lanes(w), WithBegins(pk, s)), s.done = DOMAIN pk
  PROVE  OverlapMatches(pk, s)
<1> DEFINE span(p) == <<s.ends[p] - pk[p].seconds, s.ends[p]>>
           of(l) == {q \in DOMAIN pk : pk[q].executor = l}
           m == _merged(Busy(pk, s, "LUNA"))
           pairs == Busy(pk, s, "SOL") \X Range(m)
           f == [x \in pairs |-> Shared(x[1], x[2])]
           common(x) == {t \in Nat : Within(t, x[1]) /\ Within(t, x[2])}
           C == [x \in pairs |-> common(x)]
<1>1. /\ DOMAIN s.ends = DOMAIN pk /\ IsFiniteSet(DOMAIN pk)
      /\ \A p \in DOMAIN pk : /\ s.ends[p] \in Nat /\ s.ends[p] - pk[p].seconds \in Nat
                              /\ s.ends[p] - pk[p].seconds < s.ends[p]
      /\ \A t \in Nat : \A p, q \in of("SOL") : Within(t, span(p)) /\ Within(t, span(q)) => p = q
  BY SolIsAlone DEF Tasks
<1>2. \A l : Busy(pk, s, l) = {span(p) : p \in of(l)}
  BY DEF Busy
<1>3. \A p \in DOMAIN pk : span(p) \in Spells
  BY <1>1 DEF Spells
<1>4. \A t : \A p : Within(t, span(p)) <=> s.ends[p] - pk[p].seconds <= t /\ t < s.ends[p]
  BY DEF Within
<1> HIDE DEF span
<1>5. ASSUME NEW l PROVE Busy(pk, s, l) \subseteq Spells /\ IsFiniteSet(Busy(pk, s, l))
  <2>1. of(l) \subseteq DOMAIN pk
    OBVIOUS
  <2>2. IsFiniteSet(of(l))
    BY <1>1, <2>1, FS_Subset
  <2> DEFINE g == [p \in of(l) |-> span(p)]
  <2>3. IsFiniteSet({g[p] : p \in of(l)})
    <3> HIDE DEF g, of
    <3> QED
      BY <2>2, ImageIsFinite
  <2>4. {g[p] : p \in of(l)} = {span(p) : p \in of(l)}
    OBVIOUS
  <2>5. Busy(pk, s, l) = {span(p) : p \in of(l)}
    BY <1>2
  <2>6. \A p \in of(l) : span(p) \in Spells
    BY <1>3, <2>1
  <2> HIDE DEF of, g
  <2> QED
    BY <2>3, <2>4, <2>5, <2>6
<1>6. /\ m \in Seq(Spells) /\ Apart(m)
      /\ Prefix(m, Len(m)) = {t \in Nat : \E x \in Busy(pk, s, "LUNA") : Within(t, x)}
  BY <1>5, MergedIs, SpansAre
<1> HIDE DEF m
<1>7. Range(m) = {m[k] : k \in 1..Len(m)} /\ IsFiniteSet(Range(m)) /\ Range(m) \subseteq Spells
  <2>1. DOMAIN m = 1..Len(m) /\ Len(m) \in Nat /\ \A k \in 1..Len(m) : m[k] \in Spells
    BY <1>6
  <2>2. Range(m) = {m[k] : k \in 1..Len(m)}
    BY <2>1 DEF Range
  <2>3. IsFiniteSet(1..Len(m))
    BY <2>1, FS_Interval
  <2>4. IsFiniteSet({m[k] : k \in 1..Len(m)})
    BY <2>3, ImageIsFinite
  <2> QED
    BY <2>1, <2>2, <2>4
<1>8. IsFiniteSet(pairs)
  BY <1>5, <1>7, FS_Product
<1>9. \A x \in pairs : IsFiniteSet(C[x]) /\ f[x] = Cardinality(C[x])
  <2> SUFFICES ASSUME NEW x \in pairs
               PROVE  IsFiniteSet(common(x)) /\ Shared(x[1], x[2]) = Cardinality(common(x))
    OBVIOUS
  <2>1. x[1] \in Spells /\ x[2] \in Spells
    BY <1>5, <1>7
  <2> QED
    BY <2>1, SharedIs
<1>10. \A x, y \in pairs : x # y => C[x] \cap C[y] = {}
  <2> SUFFICES ASSUME NEW x \in pairs, NEW y \in pairs, NEW t \in Nat,
                      Within(t, x[1]), Within(t, x[2]), Within(t, y[1]), Within(t, y[2])
               PROVE  x = y
    OBVIOUS
  <2>1. x[1] = y[1]
    <3>1. PICK p \in of("SOL") : x[1] = span(p)
      BY <1>2
    <3>2. PICK q \in of("SOL") : y[1] = span(q)
      BY <1>2
    <3> HIDE DEF of
    <3> QED
      BY <1>1, <3>1, <3>2
  <2>2. x[2] = y[2]
    <3>1. PICK k \in 1..Len(m) : x[2] = m[k]
      BY <1>7
    <3>2. PICK l \in 1..Len(m) : y[2] = m[l]
      BY <1>7
    <3>3. m[k] \in Spells /\ m[l] \in Spells /\ Len(m) \in Nat
      BY <1>6
    <3>4. ~(k < l)
      BY <1>6, <3>1, <3>2, <3>3 DEF Apart, Within, Spells
    <3>5. ~(l < k)
      BY <1>6, <3>1, <3>2, <3>3 DEF Apart, Within, Spells
    <3>6. k = l
      BY <3>3, <3>4, <3>5
    <3> QED
      BY <3>1, <3>2, <3>6
  <2> QED
    BY <2>1, <2>2
<1>11. Overlap(pk, s) = SumFunctionOnSet(f, pairs)
  BY DEF Overlap, m
<1>12. SumFunctionOnSet(f, pairs) = Cardinality(UNION {C[x] : x \in pairs})
  <2> HIDE DEF f, C, pairs
  <2> QED
    BY <1>8, <1>9, <1>10, SumOfSizes
<1>13. UNION {C[x] : x \in pairs}
         = {t \in Nat : (\E p \in of("SOL") : Within(t, span(p)))
                        /\ \E p \in of("LUNA") : Within(t, span(p))}
  <2>1. \A t \in Nat : (\E x \in pairs : t \in common(x))
                         <=> /\ \E y \in Busy(pk, s, "SOL") : Within(t, y)
                             /\ \E z \in Range(m) : Within(t, z)
    <3> SUFFICES ASSUME NEW t \in Nat, NEW y \in Busy(pk, s, "SOL"), NEW z \in Range(m),
                        Within(t, y), Within(t, z)
                 PROVE  \E x \in pairs : t \in common(x)
      OBVIOUS
    <3>1. <<y, z>> \in pairs /\ t \in common(<<y, z>>)
      OBVIOUS
    <3> HIDE DEF pairs, common
    <3> QED
      BY <3>1
  <2>2. \A t \in Nat : (\E z \in Range(m) : Within(t, z))
                         <=> \E x \in Busy(pk, s, "LUNA") : Within(t, x)
    <3>1. \A t \in Nat : t \in Prefix(m, Len(m)) <=> \E k \in 1..Len(m) : Within(t, m[k])
      BY DEF Prefix
    <3> QED
      BY <1>6, <1>7, <3>1
  <2>3. \A t, l : (\E x \in Busy(pk, s, l) : Within(t, x)) <=> \E p \in of(l) : Within(t, span(p))
    BY <1>2
  <2>4. UNION {C[x] : x \in pairs} = {t \in Nat : \E x \in pairs : t \in common(x)}
    OBVIOUS
  <2> HIDE DEF C, common, pairs, of
  <2> QED
    BY <2>1, <2>2, <2>3, <2>4
<1> DEFINE busy(l, t) == \E p \in DOMAIN pk : /\ pk[p].executor = l
                                              /\ s.ends[p] - pk[p].seconds <= t /\ t < s.ends[p]
<1>14. \A t, l : busy(l, t) <=> \E p \in of(l) : Within(t, span(p))
  BY <1>4
<1>15. \A t \in Nat : busy("SOL", t) => t \in 0..Makespan(s)
  <2> SUFFICES ASSUME NEW t \in Nat, NEW p \in DOMAIN pk, t < s.ends[p] PROVE t \in 0..Makespan(s)
    OBVIOUS
  <2>1. Makespan(s) \in Nat /\ s.ends[p] <= Makespan(s)
    BY <1>1, MakespanIs
  <2> QED
    BY <1>1, <2>1
<1>16. UNION {C[x] : x \in pairs} = {t \in 0..Makespan(s) : busy("SOL", t) /\ busy("LUNA", t)}
  <2>1. \A t \in 0..Makespan(s) : t \in Nat
    OBVIOUS
  <2> HIDE DEF busy, of, C, pairs
  <2> QED
    BY <1>13, <1>14, <1>15, <2>1
<1> HIDE DEF C, pairs, f
<1> QED
  BY <1>11, <1>12, <1>16 DEF OverlapMatches

-----------------------------------------------------------------------------
(* The plan that a document declares, whoever does what in it.             *)
IsPlan(pk) ==
  /\ DOMAIN pk = Packages
  /\ \A p \in Packages :
       /\ pk[p].depends_on = dependencies[p] /\ pk[p].executor \in {"LUNA", "SOL"}
       /\ pk[p].seconds \in Nat \ {0} /\ pk[p].base_seconds \in Nat \ {0}
       /\ pk[p].context_seconds \in Nat /\ pk[p].retained_seconds \in Nat
       /\ pk[p].overhead_seconds = 0

Chosen(luna) ==
  [p \in Packages |-> [Estimated[p] EXCEPT !.executor = IF p \in luna THEN "LUNA" ELSE "SOL"]]

LEMMA PlansAre ==
  ASSUME TypeOK
  PROVE  /\ IsPlan(Estimated)
         /\ \A luna : /\ IsPlan(Chosen(luna))
                      /\ LaneOf(Chosen(luna)) = LaneOfNet(Chosen(luna), luna)
<1>1. DOMAIN Estimated = Packages
  BY DEF Estimated
<1>2. ASSUME NEW p \in Packages
      PROVE  /\ Estimated[p].depends_on = dependencies[p] /\ Estimated[p].executor \in {"LUNA", "SOL"}
             /\ Estimated[p].seconds \in Nat \ {0} /\ Estimated[p].base_seconds \in Nat \ {0}
             /\ Estimated[p].context_seconds \in Nat /\ Estimated[p].retained_seconds \in Nat
             /\ Estimated[p].overhead_seconds = 0
             /\ "executor" \in DOMAIN Estimated[p]
  <2>1. /\ package[p].executor \in {"LUNA", "SOL"}
        /\ package[p].expected_seconds \in Nat /\ package[p].expected_seconds # 0
    BY DEF TypeOK, Fields
  <2>2. 2 * package[p].expected_seconds \in Nat /\ 2 * package[p].expected_seconds # 0
    BY <2>1
  <2>3. /\ Estimated[p].depends_on = dependencies[p]
        /\ Estimated[p].executor = package[p].executor
        /\ Estimated[p].seconds = package[p].expected_seconds
        /\ Estimated[p].base_seconds = 2 * package[p].expected_seconds
        /\ Estimated[p].context_seconds = 2 /\ Estimated[p].retained_seconds = 0
        /\ Estimated[p].overhead_seconds = 0 /\ "executor" \in DOMAIN Estimated[p]
    BY DEF Estimated
  <2> QED
    BY <2>1, <2>2, <2>3
<1>3. IsPlan(Estimated)
  BY <1>1, <1>2 DEF IsPlan
<1>4. ASSUME NEW luna
      PROVE  IsPlan(Chosen(luna)) /\ LaneOf(Chosen(luna)) = LaneOfNet(Chosen(luna), luna)
  <2>1. DOMAIN Chosen(luna) = Packages
    BY DEF Chosen
  <2>2. ASSUME NEW p \in Packages
        PROVE  /\ Chosen(luna)[p].executor = IF p \in luna THEN "LUNA" ELSE "SOL"
               /\ \A f \in {"depends_on", "seconds", "base_seconds", "context_seconds",
                            "retained_seconds", "overhead_seconds"} :
                    Chosen(luna)[p][f] = Estimated[p][f]
    <3>1. Chosen(luna)[p] = [Estimated[p] EXCEPT !.executor = IF p \in luna THEN "LUNA" ELSE "SOL"]
      BY DEF Chosen
    <3>2. {"depends_on", "seconds", "base_seconds", "context_seconds", "retained_seconds",
           "overhead_seconds"} \subseteq DOMAIN Estimated[p]
      BY DEF Estimated
    <3> QED
      BY <1>2, <3>1, <3>2
  <2>3. \A p \in Packages :
          /\ Chosen(luna)[p].depends_on = Estimated[p].depends_on
          /\ Chosen(luna)[p].seconds = Estimated[p].seconds
          /\ Chosen(luna)[p].base_seconds = Estimated[p].base_seconds
          /\ Chosen(luna)[p].context_seconds = Estimated[p].context_seconds
          /\ Chosen(luna)[p].retained_seconds = Estimated[p].retained_seconds
          /\ Chosen(luna)[p].overhead_seconds = Estimated[p].overhead_seconds
    BY <2>2
  <2>4. IsPlan(Chosen(luna))
    BY <1>2, <2>1, <2>2, <2>3 DEF IsPlan
  <2>5. LaneOf(Chosen(luna)) = LaneOfNet(Chosen(luna), luna)
    <3>1. \A p \in Packages : Chosen(luna)[p].executor = IF p \in luna THEN "LUNA" ELSE "SOL"
      BY <2>2
    <3> QED
      BY <2>1, <3>1 DEF LaneOf, LaneOfNet
  <2> QED
    BY <2>4, <2>5
<1> QED
  BY <1>3, <1>4

LEMMA PlansAreTasks ==
  ASSUME TypeOK, NEW pk, IsPlan(pk), NEW w \in Nat \ {0}
  PROVE  /\ TakeSeconds(pk) /\ NetSeconds(pk) /\ DOMAIN pk = Packages
         /\ IsAcyclic <=> NoCircle(pk)
         /\ Tasks(pk, LaneOf(pk), Lanes(w))
         /\ \A luna : Tasks(pk, LaneOfNet(pk, luna), Lanes(w))
         /\ Tasks(pk, [p \in DOMAIN pk |-> "ALL"], [l \in {"ALL"} |-> w])
<1>1. TakeSeconds(pk) /\ NetSeconds(pk) /\ DOMAIN pk = Packages
  BY DEF IsPlan, TakeSeconds, NetSeconds
<1>2. /\ IsFiniteSet(DOMAIN pk) /\ DOMAIN pk \subseteq Nat
      /\ \A p \in DOMAIN pk : pk[p].depends_on \subseteq DOMAIN pk
  <2>1. \A p \in Packages : pk[p].depends_on = dependencies[p] /\ dependencies[p] \in SUBSET Packages
    BY DEF IsPlan, TypeOK
  <2> QED
    BY <1>1, <2>1, FrontierAssumption
<1>3. \A l \in DOMAIN Lanes(w) : Lanes(w)[l] \in Nat \ {0}
  BY LanesAre
<1>4. Tasks(pk, LaneOf(pk), Lanes(w))
  <2>1. \A p \in DOMAIN pk : LaneOf(pk)[p] \in DOMAIN Lanes(w)
    BY LanesAre DEF LaneOf, IsPlan
  <2> QED
    BY <1>2, <1>3, <2>1 DEF Tasks
<1>5. ASSUME NEW luna PROVE Tasks(pk, LaneOfNet(pk, luna), Lanes(w))
  <2>1. \A p \in DOMAIN pk : LaneOfNet(pk, luna)[p] \in DOMAIN Lanes(w)
    BY LanesAre DEF LaneOfNet
  <2> QED
    BY <1>2, <1>3, <2>1 DEF Tasks
<1>6. Tasks(pk, [p \in DOMAIN pk |-> "ALL"], [l \in {"ALL"} |-> w])
  BY <1>2 DEF Tasks
<1>7. IsAcyclic <=> NoCircle(pk)
  <2>1. SortIsExact
    BY SortsExactly
  <2>2. \A waiting \in SUBSET Packages :
          \A p \in waiting : pk[p].depends_on = dependencies[p]
    BY DEF IsPlan
  <2> QED
    BY <1>1, <2>1, <2>2 DEF SortIsExact, NoCircle
<1> QED
  BY <1>1, <1>4, <1>5, <1>6, <1>7

\* What is selected is not slower than Sol alone.
LEMMA SelectedIsFaster ==
  ASSUME TypeOK, NEW pk, IsPlan(pk), IsAcyclic, NEW config, config.writers \in Nat \ {0},
         NEW c \in net_selected(pk, config)
  PROVE  Max({net_schedule(pk, c.luna, c.writers).ends[p] : p \in Packages})
           <= SumOf(pk, LAMBDA p : p.base_seconds)
<1> DEFINE s == net_schedule(pk, c.luna, c.writers)
           overhead == SumFunctionOnSet([p \in DOMAIN pk |-> pk[p].overhead_seconds], c.luna)
           base == SumOf(pk, LAMBDA p : p.base_seconds)
           all == {d \in [luna : (SUBSET DOMAIN pk) \ {{}}, writers : 1..config.writers] :
                     Eligible(pk, d.luna, d.writers, config)}
<1>1. c \in all
  BY DEF net_selected
<1>2. /\ c.luna \in SUBSET DOMAIN pk /\ c.luna # {} /\ c.writers \in Nat \ {0}
      /\ Eligible(pk, c.luna, c.writers, config)
  BY <1>1
<1>3. s.now + overhead <= base
  BY <1>2 DEF Eligible, Expected, SumOfSome, SumOf
<1>4. IsFiniteSet(Packages) /\ DOMAIN pk = Packages
  BY FrontierAssumption DEF IsPlan
<1>5. overhead = 0
  <2> DEFINE f == [p \in DOMAIN pk |-> pk[p].overhead_seconds]
  <2>1. IsFiniteSet(c.luna)
    BY <1>2, <1>4, FS_Subset
  <2>2. \A x \in c.luna : f[x] = 0
    BY <1>2 DEF IsPlan
  <2> HIDE DEF f
  <2>3. SumFunctionOnSet(f, c.luna) = 0
    BY <2>1, <2>2, SumOfZeros
  <2> QED
    BY <2>3 DEF f
<1>6. /\ s.now \in Nat /\ DOMAIN s.ends = DOMAIN pk
      /\ \A p \in DOMAIN pk : s.ends[p] \in Nat /\ s.ends[p] <= s.now
  <2>1. /\ NetSeconds(pk) /\ Tasks(pk, LaneOfNet(pk, c.luna), Lanes(c.writers)) /\ NoCircle(pk)
    BY <1>2, PlansAreTasks
  <2> QED
    BY <1>2, <2>1, NetEnds
<1> HIDE DEF s, overhead, base, all
<1> DEFINE T == {s.ends[p] : p \in Packages}
<1>7. IsFiniteSet(T) /\ T \subseteq Nat /\ T # {}
  <2>1. Packages # {}
    BY <1>2, <1>4
  <2> QED
    BY <1>4, <1>6, <2>1, ImageIsFinite
<1>8. \E m \in T : \A y \in T : m >= y
  <2> HIDE DEF T
  <2> QED
    BY <1>7, FiniteHasLargest
<1>9. Max(T) \in T
  <2> HIDE DEF T
  <2> QED
    BY <1>8 DEF Max
<1>10. Max(T) <= s.now
  BY <1>4, <1>6, <1>9
<1>11. base \in Int
  <2> DEFINE f == [p \in DOMAIN pk |-> pk[p].base_seconds]
  <2>1. \A x \in DOMAIN pk : f[x] \in Int
    BY DEF IsPlan
  <2> HIDE DEF f
  <2>2. SumFunctionOnSet(f, DOMAIN pk) \in Int
    BY <1>4, <2>1, SumIsInt
  <2> QED
    BY <2>2 DEF f, base, SumOf, SumOfSome
<1>12. T \subseteq Nat /\ Max(T) \in Nat
  BY <1>7, <1>9
<1> HIDE DEF T
<1>13. Max(T) <= base
  BY <1>3, <1>5, <1>6, <1>10, <1>11, <1>12
<1> QED
  BY <1>13 DEF T, s, base

LEMMA PackageSchedulesExact ==
  ASSUME TypeOK, NEW w \in Nat \ {0}
  PROVE  ScheduleIsExact(Estimated, schedule_v4(Estimated, w),
                         [p \in Packages |-> "ALL"], [l \in {"ALL"} |-> w])
<1> DEFINE lane == [p \in Packages |-> "ALL"]
           capacity == [l \in {"ALL"} |-> w]
           s == schedule_v4(Estimated, w)
<1>1. IsPlan(Estimated)
  BY PlansAre
<1>2. /\ TakeSeconds(Estimated) /\ DOMAIN Estimated = Packages
      /\ IsAcyclic <=> NoCircle(Estimated)
      /\ Tasks(Estimated, [p \in DOMAIN Estimated |-> "ALL"], capacity)
  BY <1>1, PlansAreTasks
<1>3. lane = [p \in DOMAIN Estimated |-> "ALL"] /\ Tasks(Estimated, lane, capacity)
  BY <1>2
<1>4. capacity = [l \in {"ALL"} |-> w]
  OBVIOUS
<1> HIDE DEF lane, capacity
<1>5. /\ Sound(Estimated, lane, capacity, WithBegins(Estimated, s))
      /\ s.done = DOMAIN Estimated <=> NoCircle(Estimated)
  BY <1>2, <1>3, <1>4, SoundV4
<1> HIDE DEF s
<1>6. ScheduleIsExact(Estimated, s, lane, capacity)
  BY <1>2, <1>3, <1>5, SoundIsExact
<1> QED
  BY <1>6 DEF s, lane, capacity

LEMMA TwoLaneSchedulesExact ==
  ASSUME TypeOK, NEW w \in Nat \ {0}, NEW luna
  PROVE  LET pk == Chosen(luna)
             s == schedule_v5(pk, w)
         IN  /\ ScheduleIsExact(pk, s, LaneOf(pk), Lanes(w))
             /\ IsAcyclic => OverlapMatches(pk, s)
<1> DEFINE pk == Chosen(luna)
           s == schedule_v5(pk, w)
           lane == LaneOf(pk)
           capacity == Lanes(w)
<1>1. IsPlan(pk)
  BY PlansAre
<1> HIDE DEF pk
<1>2. /\ TakeSeconds(pk) /\ Tasks(pk, LaneOf(pk), Lanes(w))
      /\ IsAcyclic <=> NoCircle(pk)
  BY <1>1, PlansAreTasks
<1>3. /\ Sound(pk, LaneOf(pk), Lanes(w), WithBegins(pk, s))
      /\ s.done = DOMAIN pk <=> NoCircle(pk)
  BY <1>2, SoundV5
<1> HIDE DEF s
<1>4. ScheduleIsExact(pk, s, lane, capacity)
  <2>1. Tasks(pk, lane, capacity) /\ Sound(pk, lane, capacity, WithBegins(pk, s))
    BY <1>2, <1>3
  <2> HIDE DEF lane, capacity
  <2> QED
    BY <1>2, <1>3, <2>1, SoundIsExact
<1>5. IsAcyclic => OverlapMatches(pk, s)
  BY <1>2, <1>3, OverlapIsCounted
<1> QED
  BY <1>4, <1>5 DEF pk, s

LEMMA SchedulesHold == TypeOK => SchedulesAreExact
<1> SUFFICES ASSUME TypeOK PROVE SchedulesAreExact
  OBVIOUS
<1>1. \A w \in Writers : w \in Nat \ {0}
  BY SchedulesAssumption
<1>2. ASSUME NEW w \in Writers
      PROVE  ScheduleIsExact(Estimated, schedule_v4(Estimated, w),
                             [p \in Packages |-> "ALL"], [l \in {"ALL"} |-> w])
  BY <1>1, PackageSchedulesExact
<1>3. ASSUME NEW w \in Writers, NEW luna
      PROVE  /\ ScheduleIsExact(Chosen(luna), schedule_v5(Chosen(luna), w),
                                LaneOf(Chosen(luna)), Lanes(w))
             /\ IsAcyclic => OverlapMatches(Chosen(luna), schedule_v5(Chosen(luna), w))
  BY <1>1, TwoLaneSchedulesExact
<1>4. ASSUME NEW w \in Writers, NEW luna \in (SUBSET Packages) \ {{}}, IsAcyclic
      PROVE  NetIsExact(Chosen(luna), luna, w)
  <2> DEFINE pk == Chosen(luna)
  <2>1. IsPlan(pk)
    BY PlansAre
  <2> HIDE DEF pk
  <2>2. w \in Nat \ {0}
    BY <1>1
  <2>3. /\ NetSeconds(pk) /\ NoCircle(pk) /\ Tasks(pk, LaneOfNet(pk, luna), Lanes(w))
        /\ DOMAIN pk # {}
    BY <1>4, <2>1, <2>2, PlansAreTasks
  <2>4. NetIsExact(pk, luna, w)
    BY <2>2, <2>3, NetExact
  <2> QED
    BY <2>4 DEF pk
<1>5. ASSUME IsAcyclic, NEW c \in net_selected(Estimated, Config)
      PROVE  Max({net_schedule(Estimated, c.luna, c.writers).ends[p] : p \in Packages})
               <= SumOf(Estimated, LAMBDA p : p.base_seconds)
  <2>1. Config.writers \in Nat \ {0}
    BY SchedulesAssumption
  <2>2. IsPlan(Estimated)
    BY PlansAre
  <2> QED
    BY <1>5, <2>1, <2>2, SelectedIsFaster
<1>6. \A luna : Chosen(luna) =
        [p \in Packages |-> [Estimated[p] EXCEPT !.executor = IF p \in luna THEN "LUNA" ELSE "SOL"]]
  BY DEF Chosen
<1> HIDE DEF Chosen
<1> QED
  BY <1>2, <1>3, <1>4, <1>5, <1>6 DEF SchedulesAreExact

(* Every schedule of both estimators is right, for every plan: it keeps the *)
(* dependencies and the room of each lane, leaves nobody idle who could     *)
(* work, is refused exactly when packages wait for each other, overlaps by  *)
(* the seconds it says, and keeps each writer's context while it may.       *)
THEOREM SchedulesExact == Spec => []SchedulesAreExact
  BY SchedulesHold, TypeCorrect, PTL
=============================================================================
