------------------------------ MODULE MCSnapshot ------------------------------
(* A path of the base and a path that is new, and a commit that adds it; plans
   that give them, and the directory of the new one, to two executors. *)
EXTENDS Ownership, TLC

CONSTANTS old, new, dir, v0, v1, c1, c2

MCOrder == <<new, old>>
MCKind  == (v0 :> "file") @@ (v1 :> "symlink")
MCTree  == (c1 :> ((old :> v0) @@ (new :> Absent))) @@
           (c2 :> ((old :> v0) @@ (new :> v1)))
MCUnder == {<<dir, new>>}

-----------------------------------------------------------------------------
\* Sol's unit 1 and Luna's unit 2, with the paths of each and of its acceptance.
Plan(paths1, accept1, paths2, accept2) ==
  [schema_version |-> 2, route |-> "SOL_LUNA", frozen |-> TRUE, digest |-> None,
   executors |-> ("s" :> "SOL") @@ ("l" :> "LUNA"),
   units |-> <<[executor |-> "s", paths |-> paths1], [executor |-> "l", paths |-> paths2]>>,
   acceptances |-> <<[unit |-> 1, executor |-> "s", paths |-> accept1],
                     [unit |-> 2, executor |-> "l", paths |-> accept2]>>,
   partitions |->
     <<[executor |-> "s", units |-> {1}, acceptances |-> {1}, paths |-> paths1 \cup accept1],
       [executor |-> "l", units |-> {2}, acceptances |-> {2}, paths |-> paths2 \cup accept2]>>]

\* Plans that divide the paths, that share one, that nest one below another's
\* directory, that hand a unit over, and that have changed since their digest.
Divided == Plan({dir}, {dir}, {old}, {old})
MCPlans ==
  {Divided, Plan({old}, {dir}, {new}, {new}), Plan({old}, {new}, {new}, {new}),
   Plan({dir}, {old}, {new}, {new}),
   [Divided EXCEPT !.partitions[1].units = {1, 2}], [Divided EXCEPT !.frozen = FALSE],
   [Divided EXCEPT !.digest = Plan({old}, {old}, {dir}, {dir})],
   [Divided EXCEPT !.schema_version = 1],
   [Plan({dir}, {dir}, {new}, {new}) EXCEPT !.schema_version = 1]}

Report(partition, changed, plan) ==
  [schema_version |-> 2, digest |-> partition_digest(plan), partition |-> partition,
   changed |-> changed, owned |-> {dir}, frozen |-> FALSE, repair |-> FALSE]

MCReports ==
  {Report(1, {new}, plan) : plan \in MCPlans}
    \cup {Report(partition, {old}, Divided) : partition \in {1, 2, 3}}
    \cup {Report(2, changed, Divided) : changed \in {{}, {old, new}}}
    \cup {[Report(1, {new}, Divided) EXCEPT !.frozen = TRUE, !.repair = repair] :
             repair \in BOOLEAN}
    \cup {[Report(1, {new}, Divided) EXCEPT !.schema_version = 1]}
=============================================================================
