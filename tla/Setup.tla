-------------------------------- MODULE Setup --------------------------------
(***************************************************************************)
(* install, update, migrate and rollback of scripts/setup.py: the command  *)
(* line processes that copy the managed assets of a source checkout into a *)
(* user's Codex home and skills root, and the install state file they      *)
(* leave behind.                                                           *)
(*                                                                         *)
(* One action is one durable write, or one read of the checkout.  A        *)
(* command can fail (an OSError) or be killed between any two of them, the *)
(* checkout can move to another release at any time, and the user edits    *)
(* targets while no command runs.                                          *)
(*                                                                         *)
(* Abstraction.  A file is its content, which also stands for its digest.  *)
(* A backup, once copied, never changes, so previous and migration hold    *)
(* its content instead of its path.  There are two skills roots: the one   *)
(* every command is given, and an old one, where an earlier installation   *)
(* may live that migrate retires.  Agents have one target, in the Codex    *)
(* home, under either root.  Links and unsafe paths, which every command   *)
(* refuses, are not modelled.  The loops visit the assets in the order of  *)
(* their paths, which may be any order of them: a loop is the set of the    *)
(* assets it has still to visit.                                           *)
(*                                                                         *)
(* done, original, rebased, retired, disturbed, failures, stops,           *)
(* interrupted and the planned, before and torn fields of cmd are history:  *)
(* no command reads them, except that failures and stops bound how often a  *)
(* command fails and dies.                                                  *)
(***************************************************************************)
EXTENDS Naturals, Sequences

CONSTANTS
  Procs,       (* command line processes                                 *)
  Free,        (* the mutation lock is not held                          *)
  Assets,      (* the managed files, in any release                      *)
  Agents,      (* those that are agents, the others are skill files      *)
  Stray,       (* a file of the user in the old skill tree               *)
  Absent,      (* no file, no asset in a release, or no backup           *)
  Shipped,     (* contents the releases ship                             *)
  UserTexts,   (* contents only a user writes                            *)
  Release,     (* the content of each asset in each release              *)
  Found,       (* contents a target may have before the first command    *)
  OldReleases, (* releases that may be installed in the old skills root  *)
  NoState,     (* there is no install state file                         *)
  NoTree,      (* the old skill tree does not exist                      *)
  NoMigration, (* the state has no migration record                      *)
  MaxFailures, (* bound of the model on failing writes                   *)
  MaxStops     (* bound of the model on commands that die                *)

Contents == Shipped \cup UserTexts
Files    == Contents \cup {Absent}
Skills   == Assets \ Agents

\* What the old skill tree may contain.
OldFiles  == Skills \cup {Stray}
EmptyTree == [x \in OldFiles |-> Absent]

(* Types: the records setup writes. *)

\* Contents that are not the user's alone.
Clean == Shipped \cup {Absent}

\* What is installed is shipped; a backup holds what was there.
ShippedMaps == UNION {[D -> Shipped] : D \in SUBSET Assets}
FileMaps    == UNION {[D -> Files] : D \in SUBSET Assets}
Trees       == [OldFiles -> Clean]

\* The states a command may have written, or found.
OldStates ==
  [status : {"installed"}, root : {"old"}, installed : ShippedMaps,
   previous : FileMaps, migration : {NoMigration}]

\* What is installed has a backup on record, and so has what migrate backed up.
Coherent(s) ==
  /\ DOMAIN s.installed \subseteq DOMAIN s.previous
  /\ s.migration # NoMigration => DOMAIN s.migration.agents \subseteq DOMAIN s.previous

Migrations ==
  [tree : Trees, agents : FileMaps, state : {s \in OldStates : Coherent(s)}]

NewStates ==
  [status : {"installed", "rolled-back"}, root : {"new"}, installed : ShippedMaps,
   previous : FileMaps, migration : Migrations \cup {NoMigration}]

States == {s \in OldStates \cup NewStates : Coherent(s)}

ASSUME SetupAssumption ==
  /\ Free \notin Procs
  /\ Absent \notin Contents /\ Shipped \cap UserTexts = {}
  /\ Len(Release) > 0
  /\ \A v \in 1..Len(Release) :
       /\ Release[v] \in [Assets -> Shipped \cup {Absent}]
       /\ \E a \in Assets : Release[v][a] # Absent
  /\ Agents \subseteq Assets /\ Stray \notin Assets
  /\ Found \in [Assets -> SUBSET Files]
  /\ OldReleases \subseteq 1..Len(Release)
  /\ NoTree \notin [OldFiles -> Files]
  /\ NoState \notin OldStates \cup NewStates /\ NoMigration \notin Migrations
  /\ MaxFailures \in Nat /\ MaxStops \in Nat

VARIABLES
  file,        (* the managed targets on disk                            *)
  legacy,      (* the skill tree in the old root                         *)
  state,       (* sol-luna-install-state.json                            *)
  source,      (* the release checked out in the repository              *)
  lock,        (* holder of the advisory lock                            *)
  cmd,         (* what each process is doing                             *)
  done, original, rebased, retired, disturbed, failures, stops, interrupted

disk    == <<file, legacy>>
taken   == <<original, rebased>>
history == <<taken, retired, disturbed, failures, stops, interrupted>>
vars    == <<disk, state, source, lock, cmd, done, history>>

\* The assets of the checkout.
managed_assets == {a \in Assets : Release[source][a] # Absent}

Empty == [a \in {} |-> Absent]

Commands == {"install", "update", "migrate", "rollback"}

IsInstalled == state # NoState /\ state.status = "installed"

\* An installation in the old skills root, and its skill tree.
OldState(v) ==
  LET installed == {a \in Assets : Release[v][a] # Absent} IN
  [status    |-> "installed",
   root      |-> "old",
   installed |-> [a \in installed |-> Release[v][a]],
   previous  |-> [a \in installed |-> Absent],
   migration |-> NoMigration]

OldTree(v) == [x \in OldFiles |-> IF x = Stray THEN Absent ELSE Release[v][x]]

Idle == [pc |-> "idle", op |-> "none", assets |-> {}, planned |-> {},
         listed |-> {}, previous |-> Empty, written |-> {}, tree |-> NoTree, old |-> NoState,
         before |-> Empty, torn |-> FALSE]

Targets == {f \in [Assets -> Files] : \A a \in Assets : f[a] \in Found[a]}

FreshHome ==
  /\ file \in Targets
  /\ legacy = NoTree
  /\ state = NoState
  /\ original = Empty
  /\ source = 1

OldHome == \E v \in OldReleases :
  /\ \E f \in Targets :
       file = [a \in Assets |-> IF a \in Skills THEN Absent
                               ELSE IF Release[v][a] # Absent THEN Release[v][a] ELSE f[a]]
  /\ legacy = OldTree(v)
  /\ state = OldState(v)
  /\ original = [a \in DOMAIN OldState(v).installed \cap Agents |-> Absent]
  /\ source = v

Init ==
  /\ FreshHome \/ OldHome
  /\ lock = Free
  /\ cmd = [p \in Procs |-> Idle]
  /\ done = "none"
  /\ rebased = {}
  /\ retired = NoState
  /\ disturbed = FALSE
  /\ failures = 0
  /\ stops = 0
  /\ interrupted = "none"

-----------------------------------------------------------------------------
\* The state registers this target: it is keyed by path, and the skill targets
\* of the old root are not those of the root the command is given.
Registered(a) ==
  IsInstalled /\ a \in DOMAIN state.installed /\ (a \in Agents \/ state.root = "new")

(* preview: what an apply would do to a target. *)
Conflict_Overwrites(a) == file[a] \notin {Absent, Release[source][a]} /\ ~IsInstalled

Conflict_OnlyTracked(a) ==
  /\ file[a] # Absent
  /\ ~(Registered(a) /\ state.installed[a] = file[a])

Conflict(a) ==
  /\ file[a] \notin {Absent, Release[source][a]}
  /\ ~(Registered(a) /\ state.installed[a] = file[a])

\* The state can be written about: its assets are all of the checkout, and the
\* maps of the installed files and of their backups are about the same ones.
StateIsValid ==
  /\ DOMAIN state.installed = DOMAIN state.previous
  /\ DOMAIN state.installed \subseteq managed_assets

MayUpdate == IsInstalled /\ state.root = "new" /\ StateIsValid

\* An apply that runs now, the checkout standing still, passes its checks.
MayApply(op) ==
  /\ op = "update" => MayUpdate
  /\ \A a \in managed_assets : ~Conflict(a)
  /\ legacy = NoTree

(* The old installation is on disk as its state has it: its skill tree, and *)
(* the agents of a set.                                                     *)
OldTreeMatches_Mutant ==
  /\ legacy # NoTree
  /\ \A a \in DOMAIN state.installed \ Agents : legacy[a] = state.installed[a]

OldTreeMatches ==
  /\ legacy # NoTree
  /\ \A a \in DOMAIN state.installed \ Agents : legacy[a] = state.installed[a]
  /\ {x \in OldFiles : legacy[x] # Absent} = DOMAIN state.installed \cap Skills

OldAgentsMatch(as) ==
  \A a \in DOMAIN state.installed \cap Agents \cap as : file[a] = state.installed[a]

MayRetire ==
  /\ IsInstalled /\ state.root = "old"
  /\ StateIsValid
  /\ OldTreeMatches /\ OldAgentsMatch(Assets)

\* migration_plan: a target may exist only where an agent of the old
\* installation is as the old state has it.
TargetConflict(a) ==
  file[a] # Absent /\ ~(a \in Agents /\ Registered(a) /\ file[a] = state.installed[a])

Blocked(op, a) == IF op = "migrate" THEN TargetConflict(a) ELSE Conflict(a)

\* The checks of rollback before its first write.
MayRollback ==
  /\ IsInstalled /\ state.root = "new"
  /\ DOMAIN state.installed = DOMAIN state.previous
  /\ DOMAIN state.installed = managed_assets
  /\ \A a \in DOMAIN state.installed : file[a] \in {Absent, state.installed[a]}
  /\ state.migration # NoMigration => legacy = NoTree

(* doctor: the installed files are those of the state, the state is of     *)
(* this checkout, and a retired skill tree has not come back.              *)
Healthy_Mutant ==
  IsInstalled /\ \A a \in DOMAIN state.installed : state.installed[a] = Release[source][a]

Healthy ==
  /\ IsInstalled
  /\ state.migration # NoMigration => legacy = NoTree
  /\ \A a \in DOMAIN state.installed :
       file[a] = state.installed[a] /\ state.installed[a] = Release[source][a]

-----------------------------------------------------------------------------
(* A command ends: the lock is released on every return and exception.     *)
Finish_Mutant(p, result) ==
  /\ lock' = IF result = "undone" THEN lock ELSE Free
  /\ cmd' = [cmd EXCEPT ![p] = Idle]
  /\ done' = IF result = "ok" THEN cmd[p].op ELSE "none"

Finish(p, result) ==
  /\ lock' = Free
  /\ cmd' = [cmd EXCEPT ![p] = Idle]
  /\ done' = IF result = "ok" THEN cmd[p].op ELSE "none"

\* The lock does not wait: a contender stops with BUSY and writes nothing.
StartBusy(p) ==
  /\ cmd[p].pc = "idle"
  /\ lock # Free
  /\ UNCHANGED vars

LockIsFree_Mutant == TRUE

LockIsFree == lock = Free

\* A command has the lock; which one it is shows once it has made its checks.
Start(p) ==
  /\ cmd[p].pc = "idle"
  /\ LockIsFree
  /\ lock' = p
  /\ cmd' = [cmd EXCEPT ![p] = [Idle EXCEPT !.pc = "check"]]
  /\ done' = "none"
  /\ interrupted' = "none"
  /\ UNCHANGED <<disk, state, source, taken, retired, disturbed, failures, stops>>

\* Every asset of the set can still be read in the checkout.
Readable(as) == as \subseteq managed_assets

(* A command refuses while it has not written anything: the state is not as *)
(* it asks, a target of the plan is not, an asset of the plan is gone, the  *)
(* old root still has a skill tree, or migrate was given another plan.      *)
Refuses(c) ==
  \/ c.pc = "check" /\ (~MayUpdate \/ ~MayRetire \/ ~MayRollback)
  \/ c.pc = "preview" /\ c.op # "install" /\ ~StateIsValid
  \/ c.pc = "compare" /\ (\E a \in c.assets : Blocked(c.op, a))
  \/ c.pc = "compare" /\ ~Readable(c.planned)
  \/ c.pc = "compare" /\ c.op # "migrate" /\ legacy # NoTree
  \/ c.pc = "compare" /\ c.op = "migrate" /\ c.assets = {}

Refuse(p) ==
  /\ Refuses(cmd[p])
  /\ Finish(p, "refused")
  /\ UNCHANGED <<disk, state, source, history>>

(* install, update or migrate validates the state: the last validation of   *)
(* those it makes, each of which reads the assets of the checkout.          *)
Validate(p) == \E op \in {"install", "update", "migrate"} :
  /\ cmd[p].pc = "check"
  /\ op = "update" => MayUpdate
  /\ op = "migrate" => MayRetire
  /\ cmd' = [cmd EXCEPT ![p].pc = "preview", ![p].op = op]
  /\ UNCHANGED <<disk, state, source, lock, done, history>>

\* preview or migration_plan: the assets of the plan are those of the checkout.
Preview(p) ==
  /\ cmd[p].pc = "preview"
  /\ cmd' = [cmd EXCEPT ![p].pc = "compare", ![p].assets = managed_assets,
                        ![p].planned = managed_assets]
  /\ UNCHANGED <<disk, state, source, lock, done, history>>

\* One turn of the loop of preview or migration_plan: a target has no conflict.
CompareTarget(p) ==
  /\ cmd[p].pc = "compare"
  /\ \E a \in cmd[p].assets :
       /\ Readable({a})
       /\ ~Blocked(cmd[p].op, a)
       /\ cmd' = [cmd EXCEPT ![p].assets = @ \ {a}]
  /\ UNCHANGED <<disk, state, source, lock, done, history>>

\* The agents migrate backs up, of those it is about to write.
agent_backups_Mutant == Empty

agent_backups == [a \in {b \in managed_assets \cap Agents : file[b] # Absent} |-> file[a]]

\* The backups a command starts with: an update inherits those on record, an
\* install starts a new set, and migrate makes its own.
FirstBackups(op) ==
  CASE op = "update"  -> state.previous
    [] op = "migrate" -> agent_backups
    [] OTHER          -> Empty

\* History: what the targets of an installation held before setup took them
\* over, and those of which setup makes another backup later.
TakeOver(listed, previous) ==
  LET kept == IF IsInstalled THEN original ELSE Empty IN
  /\ original' = [a \in DOMAIN kept \cup listed |->
                    IF a \in DOMAIN kept THEN kept[a] ELSE file[a]]
  /\ rebased' = (IF IsInstalled THEN rebased ELSE {})
                  \cup ((listed \ DOMAIN previous) \cap DOMAIN kept)

(* The plan has no conflict, and the command lists the assets again: these  *)
(* are what it writes, whether or not they were in the plan.  migrate       *)
(* copies the old tree, the agents and the state here; an exception in that *)
(* part has nothing to undo but equal contents to write, as one before the  *)
(* first target does.                                                       *)
ListAssets(p) ==
  LET op == cmd[p].op
      previous == FirstBackups(op) IN
  /\ cmd[p].pc = "compare"
  /\ cmd[p].assets = {}
  /\ op # "migrate" => legacy = NoTree
  /\ cmd' = [cmd EXCEPT ![p] =
       [@ EXCEPT !.pc = "write", !.assets = managed_assets, !.listed = managed_assets,
                 !.previous = previous, !.old = state,
                 !.tree = IF op = "migrate" THEN legacy ELSE NoTree,
                 !.before = IF op = "update" THEN Empty ELSE file]]
  /\ TakeOver(managed_assets, previous)
  /\ UNCHANGED <<disk, state, source, lock, done, retired, disturbed, failures, stops,
                 interrupted>>

\* The backup map after a target has been visited.
Backed_Mutant(previous, a) ==
  [b \in DOMAIN previous \cup {a} |-> IF b = a THEN file[a] ELSE previous[b]]

Backed(previous, a) ==
  [b \in DOMAIN previous \cup {a} |-> IF b \in DOMAIN previous THEN previous[b] ELSE file[b]]

(* One turn of apply's loop: back up a target that is not tracked yet, and *)
(* write it unless it already has the content of the checkout.             *)
WriteAsset(p) ==
  /\ cmd[p].pc = "write" /\ cmd[p].op # "migrate"
  /\ \E a \in cmd[p].assets :
       LET text == Release[source][a] IN
       /\ Readable({a})
       /\ file' = [file EXCEPT ![a] = text]
       /\ cmd' = [cmd EXCEPT
            ![p].assets = @ \ {a},
            ![p].previous = Backed(@, a),
            ![p].written = IF file[a] = text THEN @ ELSE @ \cup {a}]
  /\ UNCHANGED <<legacy, state, source, lock, done, history>>

(* migrate has its backups already, and writes every target. *)
WriteMigrated(p) ==
  /\ cmd[p].pc = "write" /\ cmd[p].op = "migrate"
  /\ \E a \in cmd[p].assets :
       /\ Readable({a})
       /\ file' = [file EXCEPT ![a] = Release[source][a]]
       /\ cmd' = [cmd EXCEPT ![p].assets = @ \ {a}, ![p].written = @ \cup {a}]
  /\ UNCHANGED <<legacy, state, source, lock, done, history>>

\* rmtree: the files of the old tree, and then the tree.
RetireOld(p) ==
  /\ cmd[p].pc = "write" /\ cmd[p].op = "migrate"
  /\ cmd[p].assets = {}
  /\ legacy # NoTree
  /\ IF legacy = EmptyTree
     THEN legacy' = NoTree
     ELSE \E x \in OldFiles : legacy[x] # Absent /\ legacy' = [legacy EXCEPT ![x] = Absent]
  /\ UNCHANGED <<file, state, source, lock, cmd, done, history>>

\* An update keeps the migration record of the installation it updates.
migration_Mutant(p) ==
  IF cmd[p].op = "migrate"
  THEN [tree |-> cmd[p].tree, agents |-> cmd[p].previous, state |-> cmd[p].old]
  ELSE NoMigration

migration(p) ==
  CASE cmd[p].op = "migrate" ->
         [tree |-> cmd[p].tree, agents |-> cmd[p].previous, state |-> cmd[p].old]
    [] cmd[p].op = "update"  -> cmd[p].old.migration
    [] OTHER                 -> NoMigration

\* Everything but the state is written.
FilesAreWritten(p) ==
  /\ cmd[p].pc = "write"
  /\ cmd[p].assets = {}
  /\ cmd[p].op = "migrate" => legacy = NoTree

\* The state is written last, with the digests the checkout has by then.
WriteState(p) ==
  LET c == cmd[p] IN
  /\ FilesAreWritten(p)
  /\ Readable(c.listed)
  /\ state' = [status    |-> "installed",
               root      |-> "new",
               installed |-> [a \in c.listed |-> Release[source][a]],
               previous  |-> IF c.op = "migrate" THEN [a \in c.listed |-> Absent]
                             ELSE c.previous,
               migration |-> migration(p)]
  /\ cmd' = [cmd EXCEPT ![p].pc = "doctor"]
  /\ retired' = CASE c.op = "migrate" -> [state |-> c.old, assets |-> c.listed]
                  [] c.op = "install" -> NoState
                  [] OTHER            -> retired
  /\ UNCHANGED <<disk, source, lock, done, taken, disturbed, failures, stops, interrupted>>

(* An OSError in the loop, in rmtree or in the state write: the disk is    *)
(* full, a file is in use, or the checkout no longer has the asset.        *)
ApplyFails(p) ==
  /\ cmd[p].pc = "write"
  /\ failures < MaxFailures
  /\ failures' = failures + 1
  /\ cmd' = [cmd EXCEPT ![p].pc = "undo",
                        ![p].torn = /\ cmd[p].op = "migrate"
                                    /\ legacy \notin {NoTree, cmd[p].tree}]
  /\ UNCHANGED <<disk, state, source, lock, done, taken, retired, disturbed, stops,
                 interrupted>>

SourceGone(p) ==
  /\ IF FilesAreWritten(p)
     THEN ~Readable(cmd[p].listed)
     ELSE cmd[p].pc = "write" /\ ~Readable(cmd[p].assets)
  /\ failures' = failures + 1
  /\ cmd' = [cmd EXCEPT ![p].pc = "undo"]
  /\ UNCHANGED <<disk, state, source, lock, done, taken, retired, disturbed, stops,
                 interrupted>>

(* The exception handler: the written targets, and then the old state.  That *)
(* of apply puts back the backup on record, or nothing: for a target an     *)
(* earlier command installed, that is what was there before that command.   *)
(* That of migrate removes what it wrote.                                   *)
UndoAsset(p) ==
  /\ cmd[p].pc = "undo"
  /\ \E a \in cmd[p].written :
       /\ file' = [file EXCEPT ![a] =
                     IF cmd[p].op = "migrate" THEN Absent ELSE cmd[p].previous[a]]
       /\ cmd' = [cmd EXCEPT ![p].written = @ \ {a}]
  /\ UNCHANGED <<legacy, state, source, lock, done, history>>

UndoState(p) ==
  /\ cmd[p].pc = "undo" /\ cmd[p].op # "migrate"
  /\ cmd[p].written = {}
  /\ state' = cmd[p].old
  /\ Finish(p, "undone")
  /\ UNCHANGED <<disk, source, history>>

\* The old tree is copied back only when all of it is gone.
UndoMigration(p) ==
  /\ cmd[p].pc = "undo" /\ cmd[p].op = "migrate"
  /\ cmd[p].written = {}
  /\ cmd' = [cmd EXCEPT ![p].pc = IF legacy = NoTree THEN "tree" ELSE "agents"]
  /\ UNCHANGED <<disk, state, source, lock, done, history>>

\* copytree: the directory, and then its files.
CopyTree(p) ==
  /\ cmd[p].pc = "tree"
  /\ legacy # cmd[p].tree
  /\ IF legacy = NoTree
     THEN legacy' = EmptyTree
     ELSE \E x \in OldFiles : /\ legacy[x] # cmd[p].tree[x]
                             /\ legacy' = [legacy EXCEPT ![x] = cmd[p].tree[x]]
  /\ UNCHANGED <<file, state, source, lock, cmd, done, history>>

TreeIsBack(p) ==
  /\ cmd[p].pc = "tree"
  /\ legacy = cmd[p].tree
  /\ cmd' = [cmd EXCEPT ![p].pc = "agents"]
  /\ UNCHANGED <<disk, state, source, lock, done, history>>

RestoreAgent(p) ==
  /\ cmd[p].pc = "agents"
  /\ \E a \in DOMAIN cmd[p].previous :
       /\ file[a] # cmd[p].previous[a]
       /\ file' = [file EXCEPT ![a] = cmd[p].previous[a]]
  /\ UNCHANGED <<legacy, state, source, lock, cmd, done, history>>

\* The last write of migrate's handler and of the rollback of a migration.
RestoreOldState(p) ==
  /\ cmd[p].pc = "agents"
  /\ \A a \in DOMAIN cmd[p].previous : file[a] = cmd[p].previous[a]
  /\ state' = cmd[p].old
  /\ Finish(p, IF cmd[p].op = "migrate" THEN "undone" ELSE "ok")
  /\ retired' = IF cmd[p].op = "migrate" THEN NoState ELSE retired
  /\ original' = [a \in DOMAIN original \cap DOMAIN cmd[p].old.installed \cap Agents |->
                    original[a]]
  /\ UNCHANGED <<disk, source, rebased, disturbed, failures, stops, interrupted>>

(* After an apply the Doctor runs beyond the handler's reach: what it finds *)
(* stays on disk.  migrate calls it inside, and undoes what it finds.       *)
Doctor(p) ==
  /\ cmd[p].pc = "doctor"
  /\ Healthy \/ cmd[p].op # "migrate"
  /\ Finish(p, IF Healthy THEN "ok" ELSE "drifted")
  /\ disturbed' = IF Healthy THEN FALSE ELSE disturbed
  /\ UNCHANGED <<disk, state, source, taken, retired, failures, stops, interrupted>>

DoctorUndoes(p) ==
  /\ cmd[p].pc = "doctor" /\ cmd[p].op = "migrate"
  /\ ~Healthy
  /\ cmd' = [cmd EXCEPT ![p].pc = "undo"]
  /\ UNCHANGED <<disk, state, source, lock, done, history>>

-----------------------------------------------------------------------------
(* rollback has no handler: a failure leaves it where it is.               *)
BeginRollback(p) ==
  /\ cmd[p].pc = "check"
  /\ MayRollback
  /\ cmd' = [cmd EXCEPT ![p] =
       IF state.migration = NoMigration
       THEN [@ EXCEPT !.pc = "restore", !.op = "rollback",
                      !.assets = DOMAIN state.installed, !.previous = state.previous]
       ELSE [@ EXCEPT !.pc = "remove", !.op = "rollback",
                      !.assets = DOMAIN state.installed,
                      !.previous = state.migration.agents,
                      !.tree = state.migration.tree, !.old = state.migration.state]]
  /\ UNCHANGED <<disk, state, source, lock, done, history>>

RestoreAsset(p) ==
  /\ cmd[p].pc = "restore"
  /\ \E a \in cmd[p].assets :
       /\ file' = [file EXCEPT ![a] = cmd[p].previous[a]]
       /\ cmd' = [cmd EXCEPT ![p].assets = @ \ {a}]
  /\ UNCHANGED <<legacy, state, source, lock, done, history>>

RestoreState(p) ==
  /\ cmd[p].pc = "restore"
  /\ cmd[p].assets = {}
  /\ state' = [state EXCEPT !.status = "rolled-back"]
  /\ Finish(p, "ok")
  /\ disturbed' = FALSE
  /\ UNCHANGED <<disk, source, taken, retired, failures, stops, interrupted>>

(* The rollback of a migration removes the targets, the agents it has a     *)
(* backup of excepted, and puts back the old tree, the agents and the state.*)
RemoveAsset(p) ==
  /\ cmd[p].pc = "remove"
  /\ \E a \in cmd[p].assets :
       /\ file' = IF a \in DOMAIN cmd[p].previous THEN file ELSE [file EXCEPT ![a] = Absent]
       /\ cmd' = [cmd EXCEPT ![p].assets = @ \ {a}]
  /\ UNCHANGED <<legacy, state, source, lock, done, history>>

TargetsAreRemoved(p) ==
  /\ cmd[p].pc = "remove"
  /\ cmd[p].assets = {}
  /\ cmd' = [cmd EXCEPT ![p].pc = "tree"]
  /\ UNCHANGED <<disk, state, source, lock, done, history>>

-----------------------------------------------------------------------------
(* The process dies: an exception rollback or the undo does not handle, or *)
(* a kill.  The operating system drops the lock either way.                *)
Stop(p) ==
  /\ cmd[p].pc # "idle"
  /\ stops < MaxStops
  /\ stops' = stops + 1
  /\ Finish(p, "stopped")
  /\ interrupted' = IF cmd[p].pc \in {"write", "doctor"} /\ cmd[p].op # "migrate"
                    THEN cmd[p].op ELSE "none"
  /\ UNCHANGED <<disk, state, source, taken, retired, disturbed, failures>>

(* The repository moves to a later release, whether or not a command runs. *)
Checkout ==
  /\ source < Len(Release)
  /\ source' = source + 1
  /\ done' = "none"
  /\ disturbed' = (disturbed \/ lock # Free)
  /\ interrupted' = "none"
  /\ UNCHANGED <<disk, state, lock, cmd, taken, retired, failures, stops>>

(* The user writes or deletes a target between commands. *)
UserEdits(a, text) ==
  /\ lock = Free
  /\ file[a] # text
  /\ file' = [file EXCEPT ![a] = text]
  /\ done' = "none"
  /\ disturbed' = TRUE
  /\ interrupted' = "none"
  /\ UNCHANGED <<legacy, state, source, lock, cmd, taken, retired, failures, stops>>

(* The user of an installation that has or had an old root leaves a file   *)
(* in the old tree, or removes it.                                         *)
UserEditsOldTree ==
  /\ lock = Free
  /\ state # NoState
  /\ state.root = "old" \/ state.migration # NoMigration
  /\ \/ legacy # NoTree /\ legacy' = NoTree
     \/ \E text \in UserTexts :
          legacy' = [IF legacy = NoTree THEN EmptyTree ELSE legacy EXCEPT ![Stray] = text]
  /\ legacy' # legacy
  /\ done' = "none"
  /\ disturbed' = TRUE
  /\ interrupted' = "none"
  /\ UNCHANGED <<file, state, source, lock, cmd, taken, retired, failures, stops>>

Step(p) ==
  \/ Refuse(p)
  \/ Validate(p)
  \/ Preview(p)
  \/ CompareTarget(p)
  \/ ListAssets(p)
  \/ WriteAsset(p)
  \/ WriteMigrated(p)
  \/ RetireOld(p)
  \/ WriteState(p)
  \/ SourceGone(p)
  \/ UndoAsset(p)
  \/ UndoState(p)
  \/ UndoMigration(p)
  \/ CopyTree(p)
  \/ TreeIsBack(p)
  \/ RestoreAgent(p)
  \/ RestoreOldState(p)
  \/ Doctor(p)
  \/ DoctorUndoes(p)
  \/ BeginRollback(p)
  \/ RestoreAsset(p)
  \/ RestoreState(p)
  \/ RemoveAsset(p)
  \/ TargetsAreRemoved(p)

Next ==
  \/ \E p \in Procs : Start(p) \/ StartBusy(p) \/ Step(p) \/ ApplyFails(p) \/ Stop(p)
  \/ Checkout
  \/ \E a \in Assets, text \in UserTexts \cup {Absent} : UserEdits(a, text)
  \/ UserEditsOldTree

\* The command that runs goes on: it waits for nothing.
Fairness == WF_vars(\E p \in Procs : Step(p))

Spec == Init /\ [][Next]_vars /\ Fairness

-----------------------------------------------------------------------------
Steps == {"idle", "check", "preview", "compare", "write", "doctor", "undo", "restore",
          "remove", "tree", "agents"}

Cmds ==
  [pc : Steps, op : Commands \cup {"none"}, assets : SUBSET Assets,
   planned : SUBSET Assets, listed : SUBSET Assets,
   previous : FileMaps, written : SUBSET Assets, tree : Trees \cup {NoTree},
   old : States \cup {NoState}, before : [Assets -> Files] \cup {Empty},
   torn : BOOLEAN]

TypeOK ==
  /\ file \in [Assets -> Files]
  /\ legacy \in [OldFiles -> Files] \cup {NoTree}
  /\ state \in States \cup {NoState}
  /\ source \in 1..Len(Release)
  /\ cmd \in [Procs -> Cmds]

\* The assets a command writes that were not in the checkout when it compared
\* the targets with the plan.
Unplanned(c) == c.listed \ c.planned

(* A target that a command never compared may hold the user's file, and is  *)
(* written over: then the backup of it is the command's own, unless an      *)
(* update has an older one on record, or the target is a skill file of a    *)
(* migration, which has none.                                               *)
KeepsItInBackup(c, a) ==
  \/ c.op = "migrate" /\ a \in Skills
  \/ c.op = "update" /\ a \in DOMAIN c.old.previous
  \/ a \in DOMAIN cmd'[lock].previous /\ cmd'[lock].previous[a] = file[a]

(* No command destroys what only the user can have written, whichever      *)
(* commands ran, failed or died before it (conflict refusal and rollback's *)
(* drift refusal, and migrate's refusal of an old tree with a file its     *)
(* state does not register), unless the checkout got the asset between the *)
(* plan and the second list of assets; then the file is in the backup,     *)
(* with the two exceptions above.                                          *)
UserContentIsKept ==
  [][lock # Free =>
       /\ \A a \in Assets : file[a] \in UserTexts /\ file'[a] # file[a] =>
            /\ cmd[lock].pc = "write" /\ a \in cmd[lock].assets \cap Unplanned(cmd[lock])
            /\ KeepsItInBackup(cmd[lock], a)
       /\ legacy # NoTree /\ (\E x \in OldFiles : legacy[x] \in UserTexts) =>
            legacy' = legacy]_vars

(* A command that reports success leaves the assets of one release on      *)
(* disk, even when the checkout moved while it ran.                        *)
SuccessIsOneRelease ==
  done \in {"install", "update", "migrate"} =>
    /\ IsInstalled
    /\ \E v \in 1..Len(Release) : \A a \in DOMAIN state.installed :
         file[a] = Release[v][a] /\ state.installed[a] = file[a]

(* An install whose exception handler ran to its end has changed nothing,  *)
(* and neither has a migration, unless the removal of the old tree failed   *)
(* when it had begun: a tree that still exists is not copied back.  A skill *)
(* file that a migration wrote without having compared it has no backup,    *)
(* and may be lost.                                                         *)
FailedInstallIsUndone ==
  [][\A p \in Procs :
       /\ UndoState(p) /\ cmd[p].op = "install" => file' = cmd[p].before
       /\ RestoreOldState(p) /\ cmd[p].op = "migrate" =>
            /\ \A a \in Assets \ (Unplanned(cmd[p]) \cap Skills) : file'[a] = cmd[p].before[a]
            /\ legacy' = cmd[p].tree \/ cmd[p].torn]_vars

(* While no command has failed or died, rollback gives every target back   *)
(* the content it had before setup first took it over, across any number   *)
(* of updates in between, releases that add assets among them (unless it    *)
(* gives back an installation that migrate had retired).  Where setup made  *)
(* another backup later, as an install over an installation does, it gives  *)
(* back an earlier release.                                                 *)
RollbackRestoresOriginals ==
  done = "rollback" /\ state.status = "rolled-back" /\ failures + stops = 0 =>
    \A a \in DOMAIN state.installed \ rebased : file[a] = original[a]

(* An install or update that died while writing can be run again: its own  *)
(* half-done work is not mistaken for the user's (as long as the checkout   *)
(* has not moved and the user has not edited a target).                    *)
InterruptedApplyCanBeRetried ==
  interrupted # "none" /\ ~disturbed => MayApply(interrupted)

(* A rollback gives back the installation that migrate retired, with its    *)
(* tree, its state and its agents, whatever updates ran, failed or died     *)
(* since the migration.  An agent that the checkout had lost when migrate   *)
(* listed its assets was left where it was, and is the user's since.        *)
RetiredInstallationComesBack ==
  done = "rollback" /\ retired # NoState =>
    /\ state = retired.state
    /\ OldTreeMatches
    /\ OldAgentsMatch(retired.assets)

(* Every command gives the mutation lock back, however it ends. *)
LockIsReleased == []<>(lock = Free)

(* What the README and rollback's own message say of its refusal of the     *)
(* files it finds: the user modified a managed target.  While no command    *)
(* runs, an installation of the assets of the checkout is one that rollback *)
(* refuses only if the user did, or if the checkout moved under a command.  *)
OnlyUserDriftBlocksRollback ==
  (/\ lock = Free /\ IsInstalled
   /\ state.root = "new" /\ DOMAIN state.installed = managed_assets
   /\ DOMAIN state.installed = DOMAIN state.previous
   /\ ~disturbed) => MayRollback
=============================================================================
