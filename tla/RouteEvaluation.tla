--------------------------- MODULE RouteEvaluation ---------------------------
(***************************************************************************)
(* evaluate_route (routing_policy.py): which of the candidate allocations  *)
(* of a request, if any, replaces Sol working alone.                       *)
(*                                                                         *)
(* Abstraction.  Expected credits and seconds are in hundredths.  The      *)
(* Wilson bound of quality evidence is a given percentage: its square root *)
(* is left out.  So are the shape of fields and the descriptive output.    *)
(***************************************************************************)
EXTENDS RoutingPolicy, Schedule, Sequences, Functions

Legacy(r) == r.schema_version \in {1, 2}
SingleRequest(r) == r.schema_version \in {1, 3}
V5Mode(r) == r.schema_version \in 5..8
QualityMode(r) == r.schema_version \in {6, 7}
FloorMode(r) == r.schema_version \in {7, 8}
ColdStart(r) == r.schema_version = 8

\* allowed_writers: no evidence raises the cap.
allowed_writers(requested) == Min({requested, InitialWriters})

reasoning_effort_floor(profile) ==
  LET signals == Cardinality(profile.signals) + IF profile.semantic_coupling = "high" THEN 1 ELSE 0
      plain == profile.architecture_settled /\ profile.deterministic_acceptance
  IN IF ~profile.architecture_settled /\ signals >= 4 THEN XHigh
     ELSE IF profile.semantic_coupling = "high" \/ signals >= 2 THEN High
     ELSE IF profile.semantic_coupling = "medium" \/ signals = 1 \/ ~plain THEN Medium
     ELSE Low

\* An entry of the quality index: its digest, its counts, its bound.
ValidQuality(q, r) ==
  /\ q.task_family = r.task_family /\ q.suite = r.suite
  /\ q.effort \in Efforts
  /\ q.observations > 0
  /\ {q.accepted, q.defect_runs} \subseteq 0..q.observations

Empirical(q) == [first |-> 100 * q.accepted, defect |-> 100 * q.defect_runs]

-----------------------------------------------------------------------------
(* Sol working alone, and the overhead of not doing so *)

SolCredits(r) == 100 * r.sol.credits + (100 - r.sol.first) * r.sol.recovery_credits
SolSeconds(r) == 100 * r.sol.seconds + (100 - r.sol.first) * r.sol.recovery_seconds

\* coordination_totals
CoordinationPhases(r) ==
  {"sol_planning", "sol_review", "integration"}
    \cup IF V5Mode(r) \/ r.requested_writers > 1 THEN {"queue", "merge_contention"} ELSE {}

Overhead(r) == SumFunction([p \in CoordinationPhases(r) |-> r.coordination[p].credits])
OverheadSeconds(r) == SumFunction([p \in CoordinationPhases(r) |-> r.coordination[p].seconds])

\* Execution that Sol retains, which the package schedules of schema 5 contain.
Retained(r) ==
  IF "sol_retained_execution" \in DOMAIN r.coordination
    THEN r.coordination["sol_retained_execution"] ELSE [credits |-> 0, seconds |-> 0]

CoordinationIsComplete(r) ==
  /\ CoordinationPhases(r) \subseteq DOMAIN r.coordination
  /\ DOMAIN r.coordination \subseteq CoordinationPhases(r) \cup {"sol_retained_execution"}
  /\ "sol_retained_execution" \in DOMAIN r.coordination => ~V5Mode(r)
  /\ ~V5Mode(r) /\ ~Legacy(r) => "sol_retained_execution" \in DOMAIN r.coordination

-----------------------------------------------------------------------------
(* A candidate *)

ScheduleOf(r, c) ==
  IF V5Mode(r) THEN schedule_v5(c.packages, Min({r.requested_writers, ActiveLunaWriters}))
               ELSE schedule_v4(c.packages, Max({1, allowed_writers(r.requested_writers)}))

WritersOf(r, c) ==
  IF SingleRequest(r) THEN 1
  ELSE IF V5Mode(r)
    THEN Min({r.requested_writers, ActiveLunaWriters,
              Cardinality({p \in DOMAIN c.packages : c.packages[p].executor = "LUNA"})})
    ELSE Min({allowed_writers(r.requested_writers), Cardinality(DOMAIN c.packages)})

\* What a candidate claims and is expected to take.
Estimate(r, c) ==
  LET pk == c.packages
      claimed == IF SingleRequest(r) THEN c.first ELSE FirstPass(pk)
      first == IF QualityMode(r) THEN Min({claimed, r.quality[c.quality_id].wilson}) ELSE claimed
      recovery == IF SingleRequest(r)
                    THEN <<(100 - first) * c.recovery_credits, (100 - first) * c.recovery_seconds>>
                  ELSE IF ColdStart(r)
                    THEN <<100 * MaximumRecoveryCredits(pk), 100 * MaximumRecoverySeconds(pk)>>
                  ELSE IF QualityMode(r)
                    THEN <<(100 - first) * MaximumRecoveryCredits(pk),
                           (100 - first) * MaximumRecoverySeconds(pk)>>
                  ELSE <<ExpectedRecoveryCredits(pk), ExpectedRecoverySeconds(pk)>>
      seconds == IF SingleRequest(r) THEN c.seconds ELSE Makespan(ScheduleOf(r, c))
  IN [claimed |-> claimed, first |-> first,
      defect |-> IF SingleRequest(r) THEN c.defect ELSE FinalDefect(pk),
      scheduled |-> seconds,
      serial |-> IF SingleRequest(r) THEN c.seconds ELSE Serial(pk),
      credits |-> 100 * (Overhead(r) + Retained(r).credits
                          + IF SingleRequest(r) THEN c.credits ELSE Credits(pk)) + recovery[1],
      seconds |-> 100 * (OverheadSeconds(r) + Max({Retained(r).seconds, seconds})) + recovery[2]]

\* The gates of the loop over the candidates, by the names of their reasons.
QualityReasons(r, c, e) ==
  LET q == r.quality[c.quality_id]
  IN {reason \in {"quality_evidence_effort_mismatch", "quality_evidence_allocation_shape_mismatch",
                  "quality_evidence_first_pass_overstated",
                  "quality_evidence_final_defect_understated"} :
        CASE reason = "quality_evidence_effort_mismatch" -> q.effort # c.effort
          [] reason = "quality_evidence_allocation_shape_mismatch" ->
               q.shape # allocation_shape(c.packages)
          [] reason = "quality_evidence_first_pass_overstated" ->
               e.claimed * q.observations > Empirical(q).first
          [] reason = "quality_evidence_final_defect_understated" ->
               e.defect * q.observations < Empirical(q).defect}

When(condition, reason) == IF condition THEN {reason} ELSE {}

EconomyReasons(r, c, e) ==
  When(IF SolCredits(r) = 0 THEN r.savings_floor > 0
       ELSE 100 * (SolCredits(r) - e.credits) < r.savings_floor * SolCredits(r),
       "expected_credit_savings_below_floor")
  \cup When(\/ e.seconds >= SolSeconds(r)
            \/ 100 * (SolSeconds(r) - e.seconds) <= ElapsedFloor * SolSeconds(r),
            "expected_elapsed_time_regresses")
  \cup When(/\ SolCredits(r) > 0
            /\ 100 * 100 * Overhead(r) >= CoordinationCeiling * SolCredits(r),
            "coordination_credit_share_too_high")
  \cup When(WritersOf(r, c) > 1 /\ e.scheduled >= e.serial, "no_parallel_package_speedup")
  \cup When(r.latency # None /\ e.seconds > 100 * r.latency, "latency_limit_exceeded")

DeliveryReasons(r, c, e) ==
  When(FloorMode(r) /\ c.effort < reasoning_effort_floor(r.profile), "effort_below_reasoning_floor")
  \cup When(Legacy(r), "legacy_routing_schema_requires_refresh")
  \cup When(~SingleRequest(r) /\ r.requested_writers > allowed_writers(r.requested_writers),
            "requested_parallelism_exceeds_executable_cap")
  \cup When(~ColdStart(r) /\ e.first < r.quality_floor, "first_pass_probability_below_floor")
  \cup When(~ColdStart(r) /\ e.defect > r.sol.defect, "predicted_defect_rate_regresses")
  \cup When(/\ ~ColdStart(r) /\ c.failure_impact \in {"high", "critical"}
            /\ e.first < Max({r.quality_floor, 90}),
            "high_failure_impact_requires_0.9_first_pass_probability")
  \cup When(V5Mode(r) /\ controller_mode(c.packages, ScheduleOf(r, c), c.queue)
                           = "CONTROLLER_QUEUE_PENDING", "unallocated_sol_controller_work")

ColdStartReasons(r, c) ==
  LET profile == r.profile
      low == /\ profile.architecture_settled /\ profile.deterministic_acceptance
             /\ profile.semantic_coupling = "low" /\ profile.signals = {}
  IN When(Len(r.candidates) # 1, "cold_start_requires_single_candidate")
     \cup When(r.requested_writers # 1, "cold_start_requires_single_writer")
     \cup When(~low, "cold_start_requires_low_risk_reasoning_profile")
     \cup When(c.effort > Medium, "cold_start_effort_above_medium")
     \cup When(c.failure_impact # "low", "cold_start_requires_low_failure_impact")
     \cup When(\E p \in DOMAIN c.packages : c.packages[p].executor # "LUNA",
               "cold_start_requires_complete_luna_allocation")
     \cup When(controller_mode(c.packages, ScheduleOf(r, c), c.queue) # "WAIT_ALLOWED",
               "cold_start_requires_empty_controller_queue")

rejection_reasons(r, c) ==
  LET e == Estimate(r, c)
  IN EconomyReasons(r, c, e) \cup DeliveryReasons(r, c, e)
     \cup (IF QualityMode(r) THEN QualityReasons(r, c, e) ELSE {})
     \cup (IF ColdStart(r) THEN ColdStartReasons(r, c) ELSE {})

-----------------------------------------------------------------------------
(* The request *)

\* What evaluate_route raises a PolicyError on, before or while it evaluates.
CandidateIsAdmissible(r, c) ==
  /\ ~Legacy(r) /\ c.effort >= High => c.effort_basis
  /\ QualityMode(r) => c.quality_id \in DOMAIN r.quality
  /\ V5Mode(r) =>
       /\ CompletePartition(c.packages, r.contracts)
       /\ SumOf(c.packages, LAMBDA p : p.base_credits) = r.sol.credits
       /\ SumOf(c.packages, LAMBDA p : p.base_seconds) = r.sol.seconds
       /\ Baseline(c.packages) = Baseline(r.candidates[1].packages)
       /\ c.queue = None => \E p \in DOMAIN c.packages : c.packages[p].executor = "SOL"
  /\ ColdStart(r) => \A p \in DOMAIN c.packages :
       LET x == c.packages[p]
       IN 0 \notin {x.credits, x.seconds, x.repair_credits, x.repair_seconds,
                    x.terminal_credits, x.terminal_seconds}
  /\ ~SingleRequest(r) => WellFormed(c.packages) /\ ~HasCycle(c.packages, ScheduleOf(r, c))

RequestIsAdmissible(r) ==
  /\ r.quality_floor >= FirstPassFloor /\ r.savings_floor >= SavingsFloor
  /\ SingleRequest(r) => r.requested_writers = 1
  /\ r.schema_version \in {2, 4} => r.requested_writers > 1
  /\ QualityMode(r) <=> r.quality # None
  /\ QualityMode(r) => \A id \in DOMAIN r.quality : ValidQuality(r.quality[id], r)
  /\ FloorMode(r) <=> r.profile # None
  /\ CoordinationIsComplete(r)
  /\ r.candidates # <<>>
  /\ \A i, j \in DOMAIN r.candidates : i # j =>
       IF V5Mode(r) THEN r.candidates[i].allocation_id # r.candidates[j].allocation_id
                    ELSE r.candidates[i].effort # r.candidates[j].effort
  /\ \A i \in DOMAIN r.candidates : CandidateIsAdmissible(r, r.candidates[i])

quality_reasons ==
  {"first_pass_probability_below_floor", "predicted_defect_rate_regresses",
   "high_failure_impact_requires_0.9_first_pass_probability",
   "quality_evidence_effort_mismatch", "quality_evidence_allocation_shape_mismatch",
   "quality_evidence_first_pass_overstated", "quality_evidence_final_defect_understated",
   "effort_below_reasoning_floor"}

\* High effort on the critical path needs lower efforts that were tried on the
\* same shape and failed for their quality.
LowerEffortsFailed(r, c) ==
  LET lower == {d \in Range(r.candidates) : /\ d.effort < c.effort
                  /\ allocation_shape(d.packages) = allocation_shape(c.packages)}
  IN lower # {} /\ \A d \in lower : rejection_reasons(r, d) \cap quality_reasons # {}

eligible(r) ==
  {c \in Range(r.candidates) :
     /\ rejection_reasons(r, c) = {}
     /\ V5Mode(r) /\ c.effort >= High /\ LunaCritical(c.packages) # {} =>
          LowerEffortsFailed(r, c)}

Cheaper(r, c, d) ==
  LET key(x) == <<Estimate(r, x).credits, Estimate(r, x).seconds, x.effort, x.allocation_id>>
  IN \E i \in 1..4 : key(c)[i] < key(d)[i] /\ \A j \in 1..i - 1 : key(c)[j] = key(d)[j]

selected(r) ==
  IF eligible(r) = {} THEN None
  ELSE CHOOSE c \in eligible(r) : \A d \in eligible(r) : c = d \/ Cheaper(r, c, d)
=============================================================================
