------------------------------ MODULE Ownership ------------------------------
(***************************************************************************)
(* ownership_guard.py: whether the changes that a handoff reports stay in  *)
(* the partition of a frozen ownership plan.  With --repo and --base the   *)
(* changed paths are those of a snapshot, which is taken while the working *)
(* tree may change; the documents are read before and the verdict is a     *)
(* function of them and of the snapshot.                                   *)
(*                                                                         *)
(* Abstraction.  A name of a scope is a path or a directory of paths; the  *)
(* text of names and the shape of documents are left out.  A digest is the *)
(* plan it is the digest of.  A schema 1 package, or partition, is one     *)
(* whose only list of paths is its own.                                    *)
(***************************************************************************)
EXTENDS Snapshot, FiniteSets

CONSTANTS
  Directories,  (* names that are no path of Snapshot                     *)
  Under,        (* pairs <<directory, name>> of what lies below what      *)
  Plans,        (* the plan documents                                     *)
  Reports       (* the change documents                                   *)

Names == Paths \cup Directories

ASSUME UnderAssumption ==
  /\ Directories \cap Paths = {}
  /\ Under \subseteq Directories \X Names
  /\ \A u, v \in Under : u[2] = v[1] => <<u[1], v[2]>> \in Under
  /\ \A u \in Under : u[1] # u[2]
  /\ \A u, v \in Under : u[2] = v[2] /\ u[1] # v[1] =>
       <<u[1], v[1]>> \in Under \/ <<v[1], u[1]>> \in Under

ASSUME PlansAssumption == None \notin Plans

overlaps_Mutant(left, right) == left = right

overlaps(left, right) == left = right \/ {<<left, right>>, <<right, left>>} \cap Under # {}

path_list(paths) == \A left, right \in paths : left # right => ~overlaps(left, right)

contains(scope, path) == \E root \in scope : root = path \/ <<root, path>> \in Under

-----------------------------------------------------------------------------
(* Plans: functions from identifiers to executors, work units, acceptances *)
(* and partitions.                                                         *)

ExecutorsAreRegistered(plan) ==
  LET actors == {plan.executors[e] : e \in DOMAIN plan.executors}
  IN /\ DOMAIN plan.executors # {}
     /\ plan.route = "SOL_ONLY" => "LUNA" \notin actors
     /\ plan.route = "SOL_LUNA" => actors = {"SOL", "LUNA"}

WorkIsRegistered(plan) ==
  /\ DOMAIN plan.units # {} /\ DOMAIN plan.acceptances # {}
  /\ \A u \in DOMAIN plan.units : /\ plan.units[u].executor \in DOMAIN plan.executors
                                  /\ plan.units[u].paths # {} /\ path_list(plan.units[u].paths)
  /\ \A a \in DOMAIN plan.acceptances :
       LET x == plan.acceptances[a]
       IN /\ x.unit \in DOMAIN plan.units
          /\ x.executor = plan.units[x.unit].executor
          /\ x.paths # {} /\ path_list(x.paths)

\* owned_objects: each path that a unit or an acceptance names.
Owned(plan) ==
  UNION ({{[kind |-> "work_unit", id |-> u, unit |-> u, path |-> path,
            executor |-> plan.units[u].executor] : path \in plan.units[u].paths} :
            u \in DOMAIN plan.units}
         \cup {{[kind |-> "acceptance", id |-> a, unit |-> plan.acceptances[a].unit, path |-> path,
                 executor |-> plan.acceptances[a].executor] : path \in plan.acceptances[a].paths} :
                 a \in DOMAIN plan.acceptances})

\* A unit and its own acceptance may name the same path, and no other two objects.
conflicts(plan) ==
  {c \in Owned(plan) \X Owned(plan) :
     LET left == c[1]
         right == c[2]
         same_package == /\ left.executor = right.executor /\ left.unit = right.unit
                         /\ {left.kind, right.kind} = {"work_unit", "acceptance"}
     IN /\ left # right
        /\ IF left.path = right.path THEN ~same_package ELSE overlaps(left.path, right.path)}

PartitionsAreComplete(plan) ==
  LET parts == plan.partitions
      covered(p) == UNION ({plan.units[u].paths : u \in parts[p].units}
                             \cup {plan.acceptances[a].paths : a \in parts[p].acceptances})
  IN /\ \A p \in DOMAIN parts :
          /\ parts[p].executor \in DOMAIN plan.executors
          /\ parts[p].units # {} /\ parts[p].units \subseteq DOMAIN plan.units
          /\ parts[p].acceptances # {} /\ parts[p].acceptances \subseteq DOMAIN plan.acceptances
          /\ \A u \in parts[p].units : plan.units[u].executor = parts[p].executor
          /\ \A a \in parts[p].acceptances : /\ plan.acceptances[a].executor = parts[p].executor
                                             /\ plan.acceptances[a].unit \in parts[p].units
          /\ path_list(parts[p].paths) /\ parts[p].paths = covered(p)
     /\ \A p, q \in DOMAIN parts : p # q =>
          /\ parts[p].units \cap parts[q].units = {}
          /\ parts[p].acceptances \cap parts[q].acceptances = {}
     /\ UNION {parts[p].units : p \in DOMAIN parts} = DOMAIN plan.units
     /\ UNION {parts[p].acceptances : p \in DOMAIN parts} = DOMAIN plan.acceptances

\* What _normalize_v2 returns a plan for.
_normalize_v2(plan) ==
  /\ plan.frozen
  /\ ExecutorsAreRegistered(plan) /\ WorkIsRegistered(plan)
  /\ conflicts(plan) = {}
  /\ PartitionsAreComplete(plan)

\* The digest is of the plan without the digest it declares.
partition_digest(plan) == [plan EXCEPT !.digest = None]

_legacy_check_plan(plan) ==
  /\ \A p \in DOMAIN plan.partitions : path_list(plan.partitions[p].paths)
  /\ \A p, q \in DOMAIN plan.partitions : p # q =>
       \A left \in plan.partitions[p].paths, right \in plan.partitions[q].paths :
         ~overlaps(left, right)

\* Whether check_plan says PASS.
check_plan(plan) ==
  IF plan.schema_version = 1 THEN _legacy_check_plan(plan)
  ELSE _normalize_v2(plan) /\ plan.digest \in {None, partition_digest(plan)}

-----------------------------------------------------------------------------
(* Reports *)

ScopeViolations(report, scope, changed) ==
  {path \in changed : ~contains(scope, path) \/ (report.frozen /\ ~report.repair)}

\* Whether _check_changes_v2 allows acceptance: "snapshot" is None without --repo.
_check_changes_v2(report, plan, snapshot) ==
  LET changed == IF snapshot = None THEN report.changed ELSE {e.path : e \in snapshot.entries}
  IN /\ report.changed = changed /\ path_list(report.changed)
     /\ plan.schema_version = 2 /\ check_plan(plan)
     /\ report.partition \in DOMAIN plan.partitions
     /\ report.digest = partition_digest(plan)
     /\ ScopeViolations(report, plan.partitions[report.partition].paths, changed) = {}

\* Schema 1 takes the reporter's word for its own scope.
_legacy_check_changes(report) ==
  /\ report.owned # {} /\ path_list(report.owned) /\ path_list(report.changed)
  /\ ScopeViolations(report, report.owned, report.changed) = {}

check_changes(report, plan, snapshot) ==
  IF report.schema_version = 1
    THEN plan = None /\ snapshot = None /\ _legacy_check_changes(report)
    ELSE plan # None /\ _check_changes_v2(report, plan, snapshot)

-----------------------------------------------------------------------------
(* Properties *)

\* The partitions a path belongs to.
OwnersOf(plan, path) == {p \in DOMAIN plan.partitions : contains(plan.partitions[p].paths, path)}

\* What is reported lies in the partition of the report and in no other.
InOwnScope(report, plan) ==
  \A path \in report.changed : OwnersOf(plan, path) = {report.partition}

\* Without a snapshot the reporter is taken at its word, for what it changed and in
\* schema 1 for its scope, too.
ReportsAreInOwnScope ==
  \A report \in Reports, plan \in Plans :
    /\ check_changes(report, plan, None) => InOwnScope(report, plan)
    /\ (/\ plan.schema_version = 1 /\ check_plan(plan)
        /\ report.partition \in DOMAIN plan.partitions
        /\ check_changes(report, None, None)
        /\ report.owned = plan.partitions[report.partition].paths)
       => InOwnScope(report, plan)

\* Whatever a report says, a path whose acceptance is allowed belongs to the
\* partition of the report and to no other: nobody's scope is touched but its own.
\* On the strength of a snapshot, the paths that are reported were moreover exactly
\* those changed at one instant of the call (while the index was stable and no path
\* returned to what it had been).
AcceptedChangesStayInScope ==
  /\ ReportsAreInOwnScope
  /\ result.status = "ok" /\ IndexIsStable =>
       \A report \in Reports, plan \in Plans :
         check_changes(report, plan, result.snapshot) =>
           /\ InOwnScope(report, plan)
           /\ \E s \in seen : /\ s.base = result.snapshot.base
                              /\ {e.path : e \in s.entries} = report.changed
=============================================================================
