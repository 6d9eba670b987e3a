--------------------------- MODULE EvidenceRecords ---------------------------
(***************************************************************************)
(* The records of the evidence ledger (evidence_ledger.py): what may enter *)
(* the ledger, which pairs of records are comparable, and what a cohort of *)
(* comparable pairs shows.                                                 *)
(*                                                                         *)
(* Abstraction.  A record is a TLA+ record whose strings and digests are   *)
(* opaque values.  "task" stands for the specification and the starting    *)
(* candidate digests of a pair, "context" for the writer counts, observed  *)
(* models and runtime notes of a record.  Amounts and seconds are          *)
(* naturals; fractions are percentages, and the amounts of an instance     *)
(* divide into whole ones.  The shape of fields (types, lengths, private   *)
(* paths) and the timestamp are left out.                                  *)
(***************************************************************************)
EXTENDS RoutingPolicy, FiniteSets, Functions

SCHEMA_VERSION == 5
ROUTES == {"SOL_ONLY", "SOL_LUNA"}
OUTCOMES == {"ACCEPTED", "FAILED", "BLOCKED", "CANCELLED_OR_OBSOLETE", "NOT_ASSESSED"}
INDEPENDENT_RESULTS == {"PASSED", "FAILED", "NOT_RUN"}

-----------------------------------------------------------------------------
(* Records *)

record_id(r) ==
  [run_ref |-> r.run_ref, route |-> r.route, pair |-> r.pair, candidate |-> r.candidate]

\* The sum of a phase map, a function from some of the phases to amounts.
Total(phases) == FoldFunction(+, 0, phases)

SchemaIsReadable(d) ==
  /\ d.schema_version \in 1..SCHEMA_VERSION
  /\ d.schema_version < 4 =>
       d.verification = "UNVERIFIED" /\ d.receipt = None /\ d.window = None
  /\ d.upgraded_from # None => d.schema_version = SCHEMA_VERSION /\ d.upgraded_from \in 1..4

OutcomeIsSupported(d) ==
  /\ d.route \in ROUTES /\ d.outcome \in OUTCOMES
  /\ d.independent_acceptance \in INDEPENDENT_RESULTS
  /\ d.outcome \in {"FAILED", "BLOCKED"} => d.failure_class # None
  /\ d.outcome = "ACCEPTED" =>
       d.independent_acceptance = "PASSED" /\ d.suite # None /\ d.candidate # None
  /\ d.outcome = "FAILED" => d.independent_acceptance = "FAILED"

LegacySchema(d) == d.schema_version < SCHEMA_VERSION \/ d.upgraded_from # None

MatchedIsComplete(d) ==
  d.mode = "MATCHED" =>
    /\ \A f \in {"pair", "campaign", "suite_digest", "task", "policy", "first_pass",
                "elapsed"} : d[f] # None
    /\ d.sol_model = "gpt-6-sol"
    /\ IF d.route = "SOL_LUNA"
         THEN d.effort # None /\ (LegacySchema(d) \/ d.luna_model = "gpt-6-luna")
         ELSE d.luna_model = None

TokensAreBound(d) == d.tokens # None => None \notin {d.token_source, d.token_uncertainty}

CreditsAreBound(d) ==
  IF d.credits # None
    THEN /\ d.kind \in {"exact", "estimated", "displayed_allowance_delta"}
         /\ None \notin {d.credit_source, d.credit_uncertainty}
         /\ d.verification = "PROVIDER_AUTHENTICATED" =>
              /\ d.kind = "exact" /\ d.credit_uncertainty = "none"
              /\ d.receipt # None /\ d.window # None
    ELSE d.verification # "PROVIDER_AUTHENTICATED"

RequiredPhases(d) ==
  IF d.mode # "MATCHED" THEN {}
  ELSE IF d.route = "SOL_ONLY" THEN {"sol_execution"}
  ELSE {"luna_execution"} \cup IF LegacySchema(d) THEN {} ELSE {"sol_retained_execution"}

\* An empty phase map is as good as none, but for the seconds of a matched run.
PhasesAddUp(d) ==
  /\ RequiredPhases(d) \subseteq DOMAIN d.phase_seconds
  /\ d.elapsed # None =>
       \A p \in DOMAIN d.phase_seconds : d.phase_seconds[p] <= d.elapsed
  /\ d.credits # None /\ DOMAIN d.phase_credits # {} =>
       RequiredPhases(d) \subseteq DOMAIN d.phase_credits /\ Total(d.phase_credits) = d.credits

\* validate_record: what it lets pass, and the record it returns for it.
Admissible(d) ==
  /\ SchemaIsReadable(d) /\ OutcomeIsSupported(d) /\ MatchedIsComplete(d)
  /\ TokensAreBound(d) /\ CreditsAreBound(d) /\ PhasesAddUp(d)
  /\ d.repair_rounds > 1 => d.extra_repair_basis

validate_record(d) ==
  [d EXCEPT !.schema_version = SCHEMA_VERSION,
            !.upgraded_from = IF d.schema_version < SCHEMA_VERSION THEN d.schema_version
                                                                   ELSE d.upgraded_from]

\* An index of provider-verified claims: a claim binds a receipt to a record.
ValidIndex(index) ==
  \A c1, c2 \in index :
    c1 # c2 => c1.receipt # c2.receipt /\ record_id(c1.record) # record_id(c2.record)

IndependentlyVerified_Mutant(r, index) == \E c \in index : c.receipt = r.receipt

IndependentlyVerified(r, index) ==
  /\ r.receipt # None /\ r.credits # None /\ r.kind = "exact" /\ r.credit_uncertainty = "none"
  /\ r.verification = "PROVIDER_AUTHENTICATED"
  /\ [receipt |-> r.receipt, record |-> r] \in index

-----------------------------------------------------------------------------
(* Matched pairs and cohorts *)

Groups(records, family) ==
  {<<r.campaign, r.pair>> : r \in {x \in records : x.task_family = family /\ x.pair # None}}

Members(records, family, g) ==
  {r \in records : r.task_family = family /\ <<r.campaign, r.pair>> = g}

fully_assessed(r) ==
  /\ r.outcome \in {"ACCEPTED", "FAILED"}
  /\ r.independent_acceptance \in {"PASSED", "FAILED"}
  /\ r.suite # None

comparable_metric(left, right) ==
  IF /\ left.credits # None /\ right.credits # None
     /\ \A f \in {"kind", "credit_source", "credit_uncertainty", "window"} : left[f] = right[f]
    THEN "credits"
  ELSE IF /\ left.tokens # None /\ right.tokens # None
          /\ \A f \in {"token_source", "token_uncertainty"} : left[f] = right[f]
    THEN "tokens"
  ELSE None

\* A pair: one assessed arm of each route, of the same work, with a common cost.
Comparable(pair) ==
  /\ fully_assessed(pair.sol) /\ fully_assessed(pair.luna)
  /\ \A f \in {"suite", "suite_digest", "task", "policy"} : pair.sol[f] = pair.luna[f]
  /\ comparable_metric(pair.sol, pair.luna) # None

Pairs(records, family) ==
  LET Two(g) == LET rs == Members(records, family, g)
                IN Cardinality(rs) = 2 /\ {r.route : r \in rs} = ROUTES
      Arm(g, route) == CHOOSE r \in Members(records, family, g) : r.route = route
  IN {pair \in {[sol |-> Arm(g, "SOL_ONLY"), luna |-> Arm(g, "SOL_LUNA")] :
                  g \in {h \in Groups(records, family) : Two(h)}} : Comparable(pair)}

\* The measurement a pair has in common, and where it is from.
MeasuredBy(pair) ==
  LET metric == comparable_metric(pair.sol, pair.luna)
  IN IF metric = "credits" THEN <<metric, pair.sol.kind, pair.sol.credit_source>>
                           ELSE <<metric, pair.sol.token_source>>

cohort_identity(pair) ==
  [suite |-> IF pair.sol.suite_digest # None THEN pair.sol.suite_digest ELSE pair.sol.suite,
   policy |-> pair.sol.policy,
   metric |-> MeasuredBy(pair),
   fields |-> [f \in {"credit_uncertainty", "token_uncertainty", "context", "effort", "depth",
                      "window"} |-> <<pair.sol[f], pair.luna[f]>>]]

cohorts(records, family) ==
  LET pairs == Pairs(records, family)
  IN {{q \in pairs : cohort_identity(q) = cohort_identity(p)} : p \in pairs}

\* How many of the values of f are at most v, and the k-th smallest of them.
UpTo(f, v) == Cardinality({x \in DOMAIN f : f[x] <= v})

Rank(f, k) ==
  CHOOSE v \in Range(f) : /\ UpTo(f, v) >= k
                          /\ \A w \in Range(f) : UpTo(f, w) >= k => v <= w

\* Twice the median of the values of f, which stays a whole number.
Median2(f) ==
  LET n == Cardinality(DOMAIN f)
  IN Rank(f, (n + 1) \div 2) + Rank(f, n \div 2 + 1)

Cost(r, metric) == IF metric = "credits" THEN r.credits ELSE r.tokens
MetricOf(pair) == comparable_metric(pair.sol, pair.luna)

Savings(pair) ==
  LET sol == Cost(pair.sol, MetricOf(pair))
  IN (100 * (sol - Cost(pair.luna, MetricOf(pair)))) \div sol

Spent(cohort) == {p \in cohort : Cost(p.sol, MetricOf(p)) > 0}

CoordinationShare(pair) ==
  LET phases == pair.luna.phase_credits
      coordination == {"sol_planning", "sol_review", "integration"} \cap DOMAIN phases
  IN (100 * Total([p \in coordination |-> phases[p]])) \div pair.luna.credits

Coordinated(cohort) ==
  {p \in cohort : /\ MetricOf(p) = "credits" /\ DOMAIN p.luna.phase_credits # {}
                  /\ p.luna.credits > 0}

Count(cohort, Test(_)) == Cardinality({p \in cohort : Test(p)})
Passed(r) == r.outcome = "ACCEPTED" /\ r.independent_acceptance = "PASSED"

\* evidence_status evaluates a cohort only when each arm has its seconds: without
\* them float(None) stops the command.
HasSeconds(cohort) == \A p \in cohort : None \notin {p.sol.elapsed, p.luna.elapsed}

ElapsedDelta(pair) == pair.luna.elapsed - pair.sol.elapsed

QualityGates(cohort) ==
  /\ Count(cohort, LAMBDA p : Passed(p.luna)) >= Count(cohort, LAMBDA p : Passed(p.sol))
  /\ Count(cohort, LAMBDA p : p.luna.defects > 0) <= Count(cohort, LAMBDA p : p.sol.defects > 0)
  /\ 100 * Count(cohort, LAMBDA p : p.luna.first_pass = TRUE)
       >= FirstPassFloor * Cardinality(cohort)

EconomyGates(cohort, index) ==
  /\ \A p \in cohort : /\ MetricOf(p) = "credits"
                       /\ IndependentlyVerified(p.sol, index)
                       /\ IndependentlyVerified(p.luna, index)
  /\ Spent(cohort) # {} /\ Median2([p \in Spent(cohort) |-> Savings(p)]) >= 2 * SavingsFloor
  /\ Median2([p \in cohort |-> ElapsedDelta(p)]) <= 0
  /\ Coordinated(cohort) # {}
  /\ Median2([p \in Coordinated(cohort) |-> CoordinationShare(p)]) < 100

policy_change_eligible(cohort, index) ==
  /\ Cardinality(cohort) >= ReviewPairs
  /\ \A p \in cohort : p.sol.upgraded_from = None /\ p.luna.upgraded_from = None
  /\ QualityGates(cohort)
  /\ EconomyGates(cohort, index)

\* task_family_feedback: the cohorts that may come out strongest.  Of equally
\* strong ones the order of their identities decides, which is opaque here.
strongest_cohorts(records, family, index) ==
  LET all == cohorts(records, family)
      Best(c, d) == IF policy_change_eligible(c, index) = policy_change_eligible(d, index)
                      THEN Cardinality(c) >= Cardinality(d)
                      ELSE policy_change_eligible(c, index)
  IN {c \in all : \A d \in all : Best(c, d)}
=============================================================================
