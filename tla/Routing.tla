------------------------------- MODULE Routing -------------------------------
(***************************************************************************)
(* The evaluate command of routing_policy.py beside the commands that      *)
(* append to the evidence ledger.  One command reads its request, binds    *)
(* the acceptance manifest of a cold start to it, reads the ledger without *)
(* the lock, and evaluates the request, for which it reads the manifest    *)
(* again.  Users may edit the manifest at any time.                        *)
(*                                                                         *)
(* Abstraction.  A manifest is its task family, its acceptance contracts   *)
(* and its text, which two manifests of equal content may differ in.       *)
(***************************************************************************)
EXTENDS Evidence, RouteEvaluation

CONSTANTS
  Requests,      (* the requests users evaluate                           *)
  Manifests,     (* what the manifest file may hold                       *)
  Index,         (* the index of verified credit receipts                 *)
  CurrentPolicy  (* the fingerprint of the policy in use                  *)

\* The packages of an allocation are finitely many and their amounts are numbers, as
\* are those of Sol and of the coordination: finite_number.
ASSUME RequestsAssumption ==
  \A r \in Requests :
    /\ r.savings_floor \in 0..100 /\ r.sol.first \in 0..100
    /\ {r.sol.credits, r.sol.recovery_credits} \subseteq Nat
    /\ \A phase \in DOMAIN r.coordination : r.coordination[phase].credits \in Nat
    /\ r.candidates \in Seq(Range(r.candidates))
    /\ \A c \in Range(r.candidates) :
         /\ IsFiniteSet(DOMAIN c.packages)
         /\ \A p \in DOMAIN c.packages :
              LET x == c.packages[p]
              IN {x.credits, x.repair_credits, x.terminal_credits} \subseteq Nat

VARIABLES
  manifest,   (* the manifest file                                        *)
  route       (* what the evaluate command is doing                       *)

vars == <<ledger, lock, cmd, manifest, route>>

Ready == [step |-> "ready"]

Init ==
  /\ EvidenceInit
  /\ manifest \in Manifests
  /\ route = Ready

-----------------------------------------------------------------------------
(* verified_parallel_evidence_from_ledger *)

Records == {ledger[i] : i \in DOMAIN ledger}

\* Whether the command gets an answer from the ledger.
FeedbackIsAvailable(family) ==
  /\ Loads(ledger) /\ ValidIndex(Index)
  /\ \A cohort \in cohorts(Records, family) : HasSeconds(cohort)

\* allowed_writers, of the strongest cohort: worth the attention of a human.
human_review_recommendation(cohort) ==
  LET Seconds(arm) == Median2([p \in cohort |-> p[arm].elapsed])
  IN /\ policy_change_eligible(cohort, Index)
     /\ \A p \in cohort : p.sol.policy = CurrentPolicy
     /\ Cardinality(cohort) >= ReviewPairs
     /\ Seconds("luna") < Seconds("sol")
     /\ Spent(cohort) = {} \/ Median2([p \in Spent(cohort) |-> Savings(p)]) >= 0

Recommendations(family) ==
  LET strongest == strongest_cohorts(Records, family, Index)
  IN IF strongest = {} THEN {FALSE}
     ELSE {human_review_recommendation(cohort) : cohort \in strongest}

-----------------------------------------------------------------------------
(* The command *)

\* load_cold_start_evidence: what the request is bound to.
Bound(r) ==
  IF ColdStart(r) THEN [manifest |-> manifest, request |-> r] ELSE None

Start ==
  /\ route = Ready
  /\ \E r \in Requests :
       IF ColdStart(r) => manifest.task_family = r.task_family
         THEN route' = [step |-> "bound", request |-> r, bound |-> Bound(r)]
         ELSE route' = [step |-> "error"]
  /\ UNCHANGED <<ledger, lock, cmd, manifest>>

\* The ledger's feedback, of the file as it stands, when --ledger asks for it.
Consult ==
  /\ route.step = "bound"
  /\ IF ~route.request.ledger
       THEN route' = [step |-> "consulted", request |-> route.request, bound |-> route.bound,
                      recommended |-> FALSE, seen |-> 0]
     ELSE IF FeedbackIsAvailable(route.request.task_family)
       THEN \E recommended \in Recommendations(route.request.task_family) :
              route' = [step |-> "consulted", request |-> route.request, bound |-> route.bound,
                        recommended |-> recommended, seen |-> Len(ledger)]
       ELSE route' = [step |-> "error"]
  /\ UNCHANGED <<ledger, lock, cmd, manifest>>

\* The second reading of the manifest: it is still what was bound, and it is what
\* the request is about.
ManifestHolds(r, bound) ==
  /\ manifest = bound.manifest
  /\ bound.manifest.contracts = r.contracts
  /\ bound.request = r
  /\ r.suite = [task_family |-> bound.manifest.task_family, contracts |-> bound.manifest.contracts]

\* Which requests are in order and what they come to does not change.
Admitted == {r \in Requests : RequestIsAdmissible(r)}
Selection == [r \in Admitted |-> selected(r)]

Evaluate ==
  /\ route.step = "consulted"
  /\ LET r == route.request
     IN IF r \in Admitted /\ (ColdStart(r) => ManifestHolds(r, route.bound))
          THEN route' = [step |-> "answered", request |-> r, selected |-> Selection[r],
                         recommended |-> route.recommended, seen |-> route.seen,
                         suite |-> manifest]
          ELSE route' = [step |-> "error"]
  /\ UNCHANGED <<ledger, lock, cmd, manifest>>

\* The answer is printed, or the error, and the next command may come.
Finish ==
  /\ route.step \in {"answered", "error"}
  /\ route' = Ready
  /\ UNCHANGED <<ledger, lock, cmd, manifest>>

EditManifest ==
  /\ \E m \in Manifests \ {manifest} : manifest' = m
  /\ UNCHANGED <<ledger, lock, cmd, route>>

Next ==
  \/ \E p \in Procs : Appends(p) /\ UNCHANGED <<manifest, route>>
  \/ Start \/ Consult \/ Evaluate \/ Finish \/ EditManifest

Spec == Init /\ [][Next]_vars

-----------------------------------------------------------------------------
(* Properties *)

\* Every write leaves the records that were there in place and a ledger that
\* loads: appends that overlap lose nothing, and no receipt is there twice.
LedgerStaysWhole ==
  [][Len(ledger') > Len(ledger) /\ IsPrefix(ledger, ledger') /\ Loads(ledger')]_ledger

\* The matched runs of a family, told from the order of the ledger and not from the
\* cohorts of the code: the only two runs of their name, under the policy in use,
\* each with a receipt that the index binds to it.
Matched(runs, family) ==
  LET same(i, j) == /\ runs[i].pair = runs[j].pair
                    /\ runs[i].campaign = runs[j].campaign
                    /\ runs[i].task_family = runs[j].task_family
      claimed(i) == \E c \in Index : c.receipt = runs[i].receipt /\ c.record = runs[i]
  IN {q \in (DOMAIN runs) \X (DOMAIN runs) :
        LET i == q[1]
            j == q[2]
        IN /\ same(i, j) /\ \A k \in DOMAIN runs : same(i, k) => k \in {i, j}
           /\ runs[i].route = "SOL_ONLY" /\ runs[j].route = "SOL_LUNA"
           /\ runs[i].task_family = family /\ runs[i].task = runs[j].task
           /\ runs[i].policy = CurrentPolicy /\ runs[j].policy = CurrentPolicy
           /\ claimed(i) /\ claimed(j)}

\* ReviewPairs of them, with a receipt for each run: at least half of those that cost
\* Sol anything save what the policy asks, and at least half take no longer.
IsEarned(runs, family) ==
  \E cohort \in SUBSET Matched(runs, family) :
    LET receipts == {runs[q[1]].receipt : q \in cohort} \cup {runs[q[2]].receipt : q \in cohort}
        spent == {q \in cohort : runs[q[1]].credits > 0}
        saving == {q \in spent : 100 * runs[q[2]].credits
                                   <= (100 - SavingsFloor) * runs[q[1]].credits}
        quick == {q \in cohort : runs[q[2]].elapsed <= runs[q[1]].elapsed}
    IN /\ Cardinality(cohort) >= ReviewPairs
       /\ Cardinality(receipts) = 2 * Cardinality(cohort)
       /\ spent # {} /\ 2 * Cardinality(saving) >= Cardinality(spent)
       /\ 2 * Cardinality(quick) >= Cardinality(cohort)

\* A recommendation to a human rests on runs that were in the ledger when the command
\* read it, whatever has been appended since.
RecommendationIsEarned ==
  route.step = "answered" /\ route.recommended =>
    IsEarned(SubSeq(ledger, 1, route.seen), route.request.task_family)

\* A cold start that replaces Sol is affordable however it goes: each package may
\* fail twice, which costs a repair and then a recovery, and each time what depends
\* on it runs again; the total stays within what the policy lets it cost.  Where Sol
\* costs nothing and the policy asks for no saving there is nothing to stay within.
Reruns(pk, p) ==
  {d \in DOMAIN pk : \E n \in 1..Cardinality(DOMAIN pk) : \E path \in [0..n -> DOMAIN pk] :
     path[0] = p /\ path[n] = d /\ \A i \in 1..n : path[i - 1] \in pk[path[i]].depends_on}

Spending(r, pk, failures) ==
  Overhead(r) + SumFunction([p \in DOMAIN pk |->
      pk[p].credits
      + (IF failures[p] > 0 THEN pk[p].repair_credits ELSE 0)
      + (IF failures[p] > 1 THEN pk[p].terminal_credits ELSE 0)
      + failures[p] * SumOfSome(pk, Reruns(pk, p), LAMBDA d : d.credits)])

ColdStartIsAffordable ==
  route.step = "answered" /\ ColdStart(route.request) /\ route.selected # None =>
    LET r == route.request
        pk == route.selected.packages
    IN /\ SolCredits(r) > 0 \/ SavingsFloor > 0 =>
            \A failures \in [DOMAIN pk -> 0..2] :
              100 * 100 * Spending(r, pk, failures) <= (100 - SavingsFloor) * SolCredits(r)
       /\ route.suite.contracts = UNION {pk[p].acceptance : p \in DOMAIN pk}
=============================================================================
