------------------------------ MODULE MCFrontier ------------------------------
\* Three packages of Luna's in two domains and one of Sol's.
EXTENDS FrontierSchedules, TLC

MCPackages == 1..4

\* Every graph of three packages, circles included, and a fourth package that
\* waits for the first.
MCGraphs ==
  {[p \in MCPackages |-> IF p = 4 THEN {1} ELSE graph[p]] : graph \in [1..3 -> SUBSET (1..3)]}

Source(executor, domain, net, seconds, critical) ==
  [executor |-> executor, domain_id |-> domain, net_substitution |-> net,
   expected_seconds |-> seconds, critical_path |-> critical]

\* The domains tie on their net substitution; a package is worth nothing.
MCSources ==
  {<<Source("LUNA", 1, 1, 1, FALSE), Source("LUNA", 1, 1, 2, TRUE),
     Source("LUNA", 2, 2, 1, FALSE), Source("SOL", 2, 0, 1, FALSE)>>,
   <<Source("LUNA", 1, 2, 1, FALSE), Source("LUNA", 2, 0, 1, TRUE),
     Source("SOL", 1, 1, 1, FALSE), Source("LUNA", 2, 1, 2, FALSE)>>}

\* The second estimate lacks the evidence that a repair needs.
MCEstimates ==
  {[remaining_cost_weight |-> 1, next_cost_weight |-> 1,
    marginal_net_substitution |-> 1, new_evidence |-> e] : e \in BOOLEAN}

MCConfig ==
  [first |-> 80, defect |-> 5, savings |-> 20, labor |-> 20, burden |-> 50, writers |-> 2]
==============================================================================
