------------------------------ MODULE MCRouting ------------------------------
(* Records of two pairs and of what may go wrong with them; requests of every
   schema over allocations of up to three packages. *)
EXTENDS Routing, TLC

CONSTANTS p1, p2, now, past

Arm(ref, route_name, pair, credits, elapsed) ==
  [schema_version |-> 5, upgraded_from |-> None, run_ref |-> ref, task_family |-> "f",
   campaign |-> "c", pair |-> pair, route |-> route_name, outcome |-> "ACCEPTED",
   independent_acceptance |-> "PASSED", suite |-> "s", suite_digest |-> "s0",
   candidate |-> ref,
   repair_rounds |-> 0, extra_repair_basis |-> FALSE, defects |-> 0, failure_class |-> None,
   mode |-> "MATCHED", task |-> "t", policy |-> now, first_pass |-> TRUE,
   elapsed |-> elapsed, tokens |-> None, credits |-> credits, kind |-> "exact",
   credit_source |-> "provider", credit_uncertainty |-> "none", token_source |-> None,
   token_uncertainty |-> None,
   verification |-> "PROVIDER_AUTHENTICATED", receipt |-> ref, window |-> "w",
   sol_model |-> "gpt-6-sol",
   luna_model |-> IF route_name = "SOL_LUNA" THEN "gpt-6-luna" ELSE None,
   effort |-> IF route_name = "SOL_LUNA" THEN "medium" ELSE None,
   depth |-> "TARGETED", context |-> "none",
   phase_seconds |-> IF route_name = "SOL_ONLY" THEN "sol_execution" :> elapsed
                     ELSE ("luna_execution" :> 1) @@ ("sol_retained_execution" :> 0),
   phase_credits |-> IF route_name = "SOL_ONLY" THEN "sol_execution" :> credits
                     ELSE ("luna_execution" :> credits - 1) @@ ("sol_retained_execution" :> 0)
                            @@ ("sol_review" :> 1)]

Sol1 == Arm(11, "SOL_ONLY", 1, 10, 4)
Luna1 == Arm(12, "SOL_LUNA", 1, 4, 2)
Sol2 == Arm(21, "SOL_ONLY", 2, 10, 4)
Luna2 == Arm(22, "SOL_LUNA", 2, 5, 3)

MCDocuments ==
  {Luna2,
   \* a second try of the first pair, which claims the receipt of the first
   [Luna1 EXCEPT !.run_ref = 13, !.candidate = 13],
   \* a second try that costs nothing and has no receipt
   [Luna1 EXCEPT !.run_ref = 14, !.candidate = 14, !.verification = "UNVERIFIED",
                 !.receipt = None, !.window = None, !.credits = None],
   \* the second pair with fewer credits than its receipt is for, under the policy
   \* of before, and without its seconds
   [Luna2 EXCEPT !.run_ref = 23, !.candidate = 23, !.credits = 4,
                 !.phase_credits = Luna1.phase_credits],
   [Luna2 EXCEPT !.run_ref = 25, !.candidate = 25, !.policy = past, !.receipt = 25],
   [Luna2 EXCEPT !.run_ref = 24, !.mode = "ROUTINE", !.elapsed = None, !.receipt = 24]}

MCLedgers == {<<Sol1, Luna1, Sol2>>}

MCIndex == {[receipt |-> r.receipt, record |-> r] : r \in {Sol1, Luna1, Sol2, Luna2}}

-----------------------------------------------------------------------------
Package(executor, after, credits, seconds) ==
  [executor |-> executor, depends_on |-> after, critical |-> FALSE, writable |-> {},
   acceptance |-> {}, base_credits |-> 60, base_seconds |-> 40, credits |-> credits,
   seconds |-> seconds, first |-> 90, repair |-> 10, terminal |-> 0, repair_credits |-> 1,
   repair_seconds |-> 1, terminal_credits |-> 2, terminal_seconds |-> 2, defect |-> 0]

\* A partition writes and is accepted package by package.
Partition(pk) == [p \in DOMAIN pk |-> [pk[p] EXCEPT !.writable = {p}, !.acceptance = {p}]]

Candidate(id, effort, pk) ==
  [allocation_id |-> id, effort |-> effort, effort_basis |-> TRUE, failure_impact |-> "low",
   packages |-> pk, queue |-> 0, quality_id |-> id]

\* One package after the other, two after one, one after two, and one by itself.
Shapes(credits) ==
  {Partition(<<Package("LUNA", {}, credits, 3), Package("LUNA", {1}, 5, 3),
               Package("LUNA", after, 5, 3)>>) : after \in {{1}, {2}, {1, 2}, {}}}

Plain == [architecture_settled |-> TRUE, deterministic_acceptance |-> TRUE,
          semantic_coupling |-> "low", signals |-> {}]

Phases(names) == [phase \in names |-> [credits |-> 2, seconds |-> 1]]
Overheads == {"sol_planning", "sol_review", "integration"}

Request(version, candidates, contracts) ==
  [schema_version |-> version, task_family |-> "f", quality_floor |-> FirstPassFloor,
   savings_floor |-> SavingsFloor, latency |-> None, requested_writers |-> 1, ledger |-> FALSE,
   sol |-> [credits |-> 60 * Cardinality(contracts), seconds |-> 40 * Cardinality(contracts),
            first |-> 100, defect |-> 10, recovery_credits |-> 0, recovery_seconds |-> 0],
   coordination |-> Phases(Overheads \cup {"queue", "merge_contention"}),
   contracts |-> contracts, suite |-> [task_family |-> "f", contracts |-> contracts],
   quality |-> None, profile |-> IF version \in {7, 8} THEN Plain ELSE None,
   candidates |-> candidates]

\* Cold starts at the limit of what a chain, or only a star, can afford.
ColdStarts == {Request(8, <<Candidate(1, Low, pk)>>, 1..3) : pk \in Shapes(31) \cup Shapes(36)}

\* A critical package that is tried at low and at high effort, or only at high.
Critical == Partition(<<[Package("LUNA", {}, 5, 3) EXCEPT !.critical = TRUE]>>)

Quality(effort, accepted) ==
  [task_family |-> "f", suite |-> [task_family |-> "f", contracts |-> {1}], effort |-> effort,
   shape |-> allocation_shape(Critical), observations |-> 50, accepted |-> accepted,
   defect_runs |-> 0, wilson |-> 2 * accepted - 10]

Tried(version, efforts, low_accepted) ==
  [Request(version, efforts, {1}) EXCEPT
     !.quality = [id \in {1, 2} |-> IF id = 1 THEN Quality(Low, low_accepted) ELSE Quality(High, 50)]]

\* A request of the current single schema, for the ledger's advice.
Single ==
  [Request(3, <<[allocation_id |-> 1, effort |-> Low, effort_basis |-> FALSE, failure_impact |-> "low",
                 packages |-> <<>>, first |-> 90, defect |-> 0, credits |-> 10, seconds |-> 10,
                 recovery_credits |-> 10, recovery_seconds |-> 10]>>, {1})
     EXCEPT !.coordination = Phases(Overheads \cup {"sol_retained_execution"}), !.ledger = TRUE]

MCRequests ==
  ColdStarts \cup {Single}
    \cup {Tried(6, <<Candidate(1, Low, Critical), Candidate(2, High, Critical)>>, accepted) :
             accepted \in {30, 50}}
    \cup {Tried(7, <<Candidate(2, High, Critical)>>, 50)}

MCManifests == {[task_family |-> "f", contracts |-> 1..3, text |-> "a"],
                [task_family |-> "f", contracts |-> 1..2, text |-> "a"]}
=============================================================================
