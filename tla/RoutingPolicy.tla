---------------------------- MODULE RoutingPolicy ----------------------------
(***************************************************************************)
(* The routing policy (references/routing-policy.v1.json), as far as the   *)
(* evidence ledger and the route evaluation read it.  Fractions are        *)
(* percentages.                                                            *)
(***************************************************************************)
EXTENDS Integers

CONSTANTS
  None,                 (* Python's None, and an absent field             *)
  MIN_MATCHED_PAIRS,    (* the pairs the ledger's cohorts need at least   *)
  ReviewPairs,          (* parallel_review_minimum_pairs                  *)
  SavingsFloor,         (* minimum_expected_credit_savings_fraction       *)
  FirstPassFloor,       (* minimum_first_pass_probability                 *)
  ElapsedFloor,         (* minimum_expected_elapsed_savings_fraction      *)
  CoordinationCeiling,  (* maximum_coordination_credit_share              *)
  InitialWriters,       (* maximum_initial_writers                        *)
  ActiveLunaWriters     (* maximum_active_luna_writers                    *)

ASSUME PolicyAssumption ==
  /\ MIN_MATCHED_PAIRS \in Nat \ {0}
  /\ ReviewPairs \in Nat /\ ReviewPairs >= MIN_MATCHED_PAIRS
  /\ {SavingsFloor, FirstPassFloor, ElapsedFloor, CoordinationCeiling} \subseteq 0..100
  /\ InitialWriters \in Nat \ {0} /\ ActiveLunaWriters \in Nat \ {0}

\* effort_order: an effort is its rank.
Low == 1
Medium == 2
High == 3
XHigh == 4
Efforts == 1..5
=============================================================================
