------------------------------- MODULE Frontier -------------------------------
(***************************************************************************)
(* frontier_planner.py: plan, the projection of a package graph on the     *)
(* queues of the controller, and what becomes of the graph when a          *)
(* controller follows it.  The planner keeps nothing: it reads a document, *)
(* which is the state here, and its answer is queues.  The controller and  *)
(* the workers are outside the repository.  They move while an answer is   *)
(* held, so that the controller may act on queues of an older document; it *)
(* follows an entry once, and starts Luna within the writer cap.           *)
(*                                                                         *)
(* Identifiers are numbers in the order of their names.  The parser's      *)
(* checks of a single field, acceptance ids and path scopes are left out:  *)
(* none of them changes while a plan is followed.                          *)
(***************************************************************************)
EXTENDS Integers, FiniteSets, FiniteSetsExt

CONSTANTS Packages,      \* package ids
          Graphs,        \* the dependencies a document may declare
          Sources,       \* the packages' other fields a document may declare
          Estimates,     \* what the review of a failure may say of its repair
          writer_cap, attempts_max,   \* one bound of attempts for all packages
          None

VARIABLES dependencies, package,     \* fixed fields of the document
          status, attempts_used, estimate,
          queues                     \* the last answer of plan, as far as it was not followed

vars == <<dependencies, package, status, attempts_used, estimate, queues>>

STATUSES == {"PENDING", "RUNNING", "HANDOFF", "ACCEPTED", "FAILED", "RECLAIMED"}
TERMINAL_DEPENDENCY_STATUSES == {"ACCEPTED", "RECLAIMED"}

Fields == [executor : {"LUNA", "SOL"}, domain_id : Nat, net_substitution : Int,
           expected_seconds : Nat \ {0}, critical_path : BOOLEAN]

\* The repair object of a failed package, without its two counts of attempts.
RepairFields == [remaining_cost_weight : Nat, next_cost_weight : Nat,
                 marginal_net_substitution : Nat, new_evidence : BOOLEAN]

ASSUME FrontierAssumption ==
  /\ IsFiniteSet(Packages) /\ Packages \subseteq Nat
  /\ Graphs \subseteq [Packages -> SUBSET Packages]
  /\ Sources \subseteq [Packages -> Fields]
  /\ Estimates \subseteq RepairFields /\ None \notin RepairFields
  /\ writer_cap \in 1..8 /\ attempts_max \in Nat

------------------------------------------------------------------------------
(* _validate                                                               *)

Visited_LayerShort ==
  LET layer[n \in 0..Cardinality(Packages)] ==
        IF n = 0 THEN {}
        ELSE LET before == layer[n - 1]
             IN  {p \in Packages : dependencies[p] \subseteq before}
  IN  layer[Cardinality(Packages) - 1]

\* The packages whose dependencies all come before them: the topological sort
\* of _validate, a layer at a time.
Visited ==
  LET layer[n \in 0..Cardinality(Packages)] ==
        IF n = 0 THEN {}
        ELSE LET before == layer[n - 1]
             IN  {p \in Packages : dependencies[p] \subseteq before}
  IN  layer[Cardinality(Packages)]

IsAcyclic == Visited = Packages

DependencyReady_OnlyAccepted(p) == \A d \in dependencies[p] : status[d] = "ACCEPTED"

DependencyReady(p) == \A d \in dependencies[p] : status[d] \in TERMINAL_DEPENDENCY_STATUSES

Running == {p \in Packages : status[p] = "RUNNING"}

ValidStatuses ==
  /\ \A p \in Running : package[p].executor = "LUNA"
  /\ \A p \in Packages : status[p] # "PENDING" => DependencyReady(p)
  /\ Cardinality(Running) <= writer_cap
  /\ \A p \in Packages :
       /\ status[p] = "FAILED" <=> estimate[p] # None
       /\ status[p] = "FAILED" => attempts_used[p] <= attempts_max

Valid == IsAcyclic /\ ValidStatuses

------------------------------------------------------------------------------
(* plan                                                                    *)

Pending(executor) == {p \in Packages : status[p] = "PENDING" /\ package[p].executor = executor}

SolReady == {p \in Pending("SOL") : DependencyReady(p)}

Reasons_OnlyValue(p) ==
  {r \in {"nonpositive-net-substitution"} : package[p].net_substitution <= 0}

\* blocked_package_reasons of a pending package of Luna's.
Reasons(p) ==
  {r \in {"dependency-not-terminal", "nonpositive-net-substitution"} :
     IF r = "dependency-not-terminal" THEN ~DependencyReady(p)
                                      ELSE package[p].net_substitution <= 0}

EligibleLuna == {p \in Pending("LUNA") : Reasons(p) = {}}

Review == {p \in Packages : status[p] = "HANDOFF"}

_repair_is_eligible(p) ==
  /\ package[p].executor = "LUNA"
  /\ status[p] = "FAILED"
  /\ estimate[p].new_evidence
  /\ attempts_used[p] < attempts_max
  /\ estimate[p].next_cost_weight > 0
  /\ estimate[p].next_cost_weight <= estimate[p].remaining_cost_weight
  /\ estimate[p].marginal_net_substitution > 0

Repair == {p \in Packages : _repair_is_eligible(p)}

InDomain(d) == {p \in EligibleLuna : package[p].domain_id = d}

\* The key of a domain row, better when larger: most net substitution, then
\* most critical packages, then fewest seconds, then the name.
Key(d) ==
  <<SumFunctionOnSet([p \in Packages |-> package[p].net_substitution], InDomain(d)),
    Cardinality({p \in InDomain(d) : package[p].critical_path}),
    -SumFunctionOnSet([p \in Packages |-> package[p].expected_seconds], InDomain(d)),
    -d>>

\* The order of Python's tuples.
Exceeds(k, l) == \E i \in DOMAIN k : k[i] > l[i] /\ \A j \in 1..i - 1 : k[j] = l[j]

SelectedDomain ==
  LET domains == {package[p].domain_id : p \in EligibleLuna}
  IN  CHOOSE d \in domains : \A e \in domains \ {d} : Exceeds(Key(d), Key(e))

\* The packages of the envelope; an empty one stands for no envelope.
LunaEnvelope ==
  IF Repair = {} /\ Cardinality(Running) < writer_cap /\ EligibleLuna # {}
  THEN InDomain(SelectedDomain) ELSE {}

\* The order of the packages of an envelope.
Precedes(p, q) ==
  LET key(x) == <<IF package[x].critical_path THEN 1 ELSE 0, package[x].net_substitution,
                  -package[x].expected_seconds, -x>>
  IN  Exceeds(key(p), key(q))

Done == \A p \in Packages : status[p] \in TERMINAL_DEPENDENCY_STATUSES

plan ==
  LET envelope == LunaEnvelope
      repair   == Repair
  IN  [luna_envelope |-> envelope, sol_ready |-> SolReady, review |-> Review,
       repair |-> repair,
       tail_wait_allowed |-> /\ Running # {} /\ envelope = {}
                             /\ SolReady = {} /\ Review = {} /\ repair = {}]

NothingPlanned == [luna_envelope |-> {}, sol_ready |-> {}, review |-> {}, repair |-> {},
                   tail_wait_allowed |-> FALSE]

------------------------------------------------------------------------------
Init ==
  /\ dependencies \in Graphs
  /\ package \in Sources
  /\ status = [p \in Packages |-> "PENDING"]
  /\ attempts_used = [p \in Packages |-> 0]
  /\ estimate = [p \in Packages |-> None]
  /\ queues = NothingPlanned

\* frontier_cli evaluate: a document _validate refuses has no answer.
Evaluate ==
  /\ Valid
  /\ queues' = plan
  /\ queues' # queues
  /\ UNCHANGED <<dependencies, package, status, attempts_used, estimate>>

\* The controller takes p off one queue.
Follow(queue, p) ==
  /\ p \in queues[queue]
  /\ queues' = [queues EXCEPT ![queue] = @ \ {p}]

SetStatus(p, s, e) ==
  /\ status' = [status EXCEPT ![p] = s]
  /\ estimate' = [estimate EXCEPT ![p] = e]
  /\ UNCHANGED <<dependencies, package>>

SlotFree == Cardinality(Running) < writer_cap

\* The controller gives Luna the first package of the envelope it has left.
Dispatch(p) ==
  /\ SlotFree
  /\ \A q \in queues.luna_envelope \ {p} : Precedes(p, q)
  /\ Follow("luna_envelope", p)
  /\ SetStatus(p, "RUNNING", None)
  /\ UNCHANGED attempts_used

\* The same Luna repairs a failed package.
StartRepair(p) ==
  /\ SlotFree
  /\ Follow("repair", p)
  /\ SetStatus(p, "RUNNING", None)
  /\ attempts_used' = [attempts_used EXCEPT ![p] = @ + 1]

\* Sol does a package of its own, or fails to.
SolWorks(p) ==
  /\ Follow("sol_ready", p)
  /\ \/ SetStatus(p, "ACCEPTED", None)
     \/ \E e \in Estimates : SetStatus(p, "FAILED", e)
  /\ UNCHANGED attempts_used

\* Sol reviews a handoff.
Reviews(p) ==
  /\ Follow("review", p)
  /\ \/ SetStatus(p, "ACCEPTED", None)
     \/ \E e \in Estimates : SetStatus(p, "FAILED", e)
  /\ UNCHANGED attempts_used

\* A running Luna hands off or reports a failure.
WorkerReports(p) ==
  /\ p \in Running
  /\ \/ SetStatus(p, "HANDOFF", None)
     \/ \E e \in Estimates : SetStatus(p, "FAILED", e)
  /\ UNCHANGED <<attempts_used, queues>>

\* Sol takes over what plan keeps in no queue: a failed package it does not
\* offer for repair, and a package of Luna's that only its net substitution blocks.
MustReclaim(p) ==
  \/ status[p] = "FAILED" /\ ~_repair_is_eligible(p)
  \/ p \in Pending("LUNA") /\ Reasons(p) = {"nonpositive-net-substitution"}

Reclaim(p) ==
  /\ MustReclaim(p)
  /\ SetStatus(p, "RECLAIMED", None)
  /\ UNCHANGED <<attempts_used, queues>>

\* New evidence comes in for a failed package.
NewEvidence(p) ==
  /\ status[p] = "FAILED" /\ ~estimate[p].new_evidence
  /\ SetStatus(p, "FAILED", [estimate[p] EXCEPT !.new_evidence = TRUE])
  /\ UNCHANGED <<attempts_used, queues>>

Next ==
  \/ Evaluate
  \/ \E p \in Packages :
       \/ Dispatch(p) \/ StartRepair(p) \/ SolWorks(p) \/ Reviews(p)
       \/ WorkerReports(p) \/ Reclaim(p) \/ NewEvidence(p)

Spec == Init /\ [][Next]_vars

\* Somebody goes on as long as anybody can: the controller evaluates and
\* follows its queues, and a worker that runs reports.
FairSpec == Spec /\ WF_vars(Next)

------------------------------------------------------------------------------
TypeOK ==
  /\ dependencies \in [Packages -> SUBSET Packages] /\ package \in [Packages -> Fields]
  /\ status \in [Packages -> STATUSES]
  /\ attempts_used \in [Packages -> 0..attempts_max]
  /\ estimate \in [Packages -> RepairFields \cup {None}]
  /\ queues \in [luna_envelope : SUBSET Packages, sol_ready : SUBSET Packages,
                 review : SUBSET Packages, repair : SUBSET Packages,
                 tail_wait_allowed : BOOLEAN]

(* The planner accepts what its own answers lead to: whoever follows the    *)
(* queues, also those of a document that workers have moved on from, and    *)
(* starts Luna within the cap, never makes a document _validate refuses     *)
(* (dependencies that are not terminal, too many writers, a repair beyond   *)
(* its attempts); and what a queue still holds is still to be done.         *)
QueuesStayTrue ==
  /\ queues.luna_envelope \subseteq EligibleLuna
  /\ queues.sol_ready \subseteq SolReady
  /\ queues.review \subseteq Review
  /\ queues.repair \subseteq Repair

FollowedPlansAreAccepted == ValidStatuses /\ QueuesStayTrue

(* The sort of _validate accepts a graph exactly when no packages wait for  *)
(* each other in a circle, so that a plan can always be followed to its end.*)
SortIsExact ==
  IsAcyclic <=>
    ~\E waiting \in (SUBSET Packages) \ {{}} :
       \A p \in waiting : dependencies[p] \cap waiting # {}

(* An accepted graph is never stuck.  While a package is not accepted or     *)
(* taken over, a fresh answer offers something to follow within the cap, or *)
(* a package must be taken over, or a Luna runs whom the answer lets the     *)
(* controller wait for; a repair that waits for a slot is the one case in   *)
(* which it has to wait and tail_wait_allowed does not say so.  (The flag   *)
(* does not look at what must be taken over: it may be set beside it.)      *)
MayFollow(p) ==
  \/ SlotFree /\ p \in queues.luna_envelope \cup queues.repair
  \/ p \in queues.sol_ready \cup queues.review

NobodyIsStuck ==
  IsAcyclic /\ ~Done /\ queues = plan =>
    \/ \E p \in Packages : MayFollow(p) \/ MustReclaim(p)
    \/ Running # {} /\ (queues.tail_wait_allowed \/ queues.repair # {})

(* Every package of an accepted graph is accepted or taken over in the end: *)
(* no queue starves another, nobody waits with nothing running, and repairs *)
(* do not go on for ever (the repair-first rule of plan and the attempts).  *)
EveryGraphIsDrained == IsAcyclic ~> Done
==============================================================================
