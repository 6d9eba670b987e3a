------------------------------ MODULE SetupProofs ------------------------------
(***************************************************************************)
(* What a command of the installer may destroy of the user's, for any      *)
(* number of processes, assets, releases, failures and kills: the lock     *)
(* admits one command, a target its plan has compared holds nothing of the *)
(* user's when it is written or removed, and a target it has not compared  *)
(* is backed up first, but for a skill file of a migration.                *)
(* A success is one release, exception handlers undo what their command     *)
(* did, and an interrupted install or update can be run again.  A rollback  *)
(* gives back what was there: the content setup first took over, or the     *)
(* installation that migrate retired.                                       *)
(***************************************************************************)
EXTENDS Setup, TLAPS

\* The steps of install, update and migrate before they list their assets.
Planning == {"preview", "compare"}

\* A command touches no file of the user's, but at targets it did not compare.
Harmless(c) ==
  /\ \A a \in c.written : file[a] \in Clean
  /\ c.pc = "compare" => \A a \in c.planned \ c.assets : file[a] \in Clean
  /\ c.pc \in {"write", "restore", "remove"} =>
       \A a \in c.assets \ Unplanned(c) : file[a] \in Clean
  /\ c.op \in {"migrate", "rollback"} =>
       \A a \in DOMAIN c.previous : file[a] \in Clean \cup {c.previous[a]}
  /\ c.pc = "write" /\ c.op = "migrate" =>
       \A a \in c.assets \cap Agents : a \in DOMAIN c.previous \/ file[a] = Absent
  /\ c.tree # NoTree => legacy \in Trees \cup {NoTree}

\* A command that has not listed what it writes, and has written nothing.
Blank(c) ==
  /\ c.listed = {} /\ c.written = {}
  /\ c.previous = Empty /\ c.tree = NoTree /\ c.torn = FALSE

Checking == [Idle EXCEPT !.pc = "check"]

\* What a command knows of the state it started from, and of its own maps.
Informed(c) ==
  /\ c.pc = "check" => c.op = "none"
  /\ c.pc \in Planning \cup {"check"} => Blank(c)
  /\ c.pc \in Planning => c.op \in {"install", "update", "migrate"}
  /\ c.pc \in Planning /\ c.op = "update" => state \in NewStates
  /\ c.pc \in Planning /\ c.op = "migrate" => state \in OldStates /\ legacy \in Trees
  /\ (c.op = "migrate" /\ c.pc \notin Planning) \/ c.pc \in {"remove", "tree", "agents"} =>
       c.tree \in Trees /\ c.old \in OldStates /\ Coherent(c.old)
  /\ c.op = "migrate" /\ c.pc = "write" =>
       DOMAIN c.previous \subseteq c.listed /\ c.listed = c.assets \cup c.written
  /\ c.op = "update" /\ c.pc \notin Planning =>
       /\ c.old \in NewStates /\ Coherent(c.old)
       /\ DOMAIN c.old.previous \subseteq DOMAIN c.previous
  /\ c.op \in {"install", "update"} =>
       c.written \subseteq DOMAIN c.previous /\ c.listed \ c.assets \subseteq DOMAIN c.previous
  /\ c.op \in {"install", "update"} /\ c.pc = "write" =>
       c.assets \cap DOMAIN c.previous
         \subseteq (IF c.op = "update" THEN DOMAIN c.old.previous ELSE {})
  /\ c.op = "rollback" => c.listed = {}
  /\ c.pc = "restore" =>
       /\ c.assets \subseteq DOMAIN c.previous
       /\ state \in NewStates /\ Coherent(state)
  /\ c.pc \in {"write", "doctor", "undo"} => c.op \in {"install", "update", "migrate"}
  /\ c.pc \in {"tree", "agents"} => c.op \in {"migrate", "rollback"}
  /\ c.pc \in {"restore", "remove"} => c.op = "rollback"
  /\ c.pc \in {"restore", "remove", "tree", "agents"} => c.written = {}

Working(c) == Harmless(c) /\ Informed(c)

Inv ==
  /\ TypeOK
  /\ \A p \in Procs : cmd[p] = Idle \/ (lock = p /\ Working(cmd[p]))

\* A step that changes nothing of the user's at all.
Kept ==
  /\ \A a \in Assets : file[a] \in UserTexts => file'[a] = file[a]
  /\ legacy # NoTree /\ (\E x \in OldFiles : legacy[x] \in UserTexts) => legacy' = legacy

\* What UserContentIsKept asks of a step.
Spared ==
  /\ \A a \in Assets : file[a] \in UserTexts /\ file'[a] # file[a] =>
       /\ cmd[lock].pc = "write" /\ a \in cmd[lock].assets \cap Unplanned(cmd[lock])
       /\ KeepsItInBackup(cmd[lock], a)
  /\ legacy # NoTree /\ (\E x \in OldFiles : legacy[x] \in UserTexts) => legacy' = legacy

-----------------------------------------------------------------------------
LEMMA CleanIsNotTheUsers ==
  /\ Clean \subseteq Files
  /\ \A x \in Clean : x \notin UserTexts
  /\ Shipped \subseteq Clean /\ Absent \in Clean
  /\ Trees \subseteq [OldFiles -> Files]
  /\ NoTree \notin Trees
<1>1. Clean \subseteq Files /\ \A x \in Clean : x \notin UserTexts
  BY SetupAssumption DEF Clean, Files, Contents
<1>2. Trees \subseteq [OldFiles -> Files]
  BY <1>1 DEF Trees
<1>3. Shipped \subseteq Clean /\ Absent \in Clean
  BY DEF Clean
<1> QED
  BY <1>1, <1>2, <1>3, SetupAssumption

LEMMA MapsAreFunctions ==
  ASSUME NEW D \in SUBSET Assets
  PROVE  /\ \A f \in [D -> Shipped] : f \in ShippedMaps
         /\ \A f \in [D -> Files] : f \in FileMaps
  BY DEF ShippedMaps, FileMaps

LEMMA InstalledIsShipped ==
  ASSUME NEW f \in ShippedMaps
  PROVE  /\ DOMAIN f \subseteq Assets
         /\ f \in [DOMAIN f -> Shipped]
         /\ \A a \in DOMAIN f : f[a] \in Shipped
<1>1. PICK D \in SUBSET Assets : f \in [D -> Shipped]
  BY DEF ShippedMaps
<1> QED
  BY <1>1

LEMMA BackupsAreFiles ==
  ASSUME NEW f \in FileMaps
  PROVE  /\ DOMAIN f \subseteq Assets
         /\ f \in [DOMAIN f -> Files]
         /\ \A a \in DOMAIN f : f[a] \in Files
<1>1. PICK D \in SUBSET Assets : f \in [D -> Files]
  BY DEF FileMaps
<1> QED
  BY <1>1

LEMMA ReleasesAreClean ==
  ASSUME NEW v \in 1..Len(Release), NEW a \in Assets
  PROVE  /\ Release[v][a] \in Clean
         /\ Release[v][a] # Absent => Release[v][a] \in Shipped
  BY SetupAssumption DEF Clean

LEMMA NothingIsClean ==
  /\ Empty \in FileMaps
  /\ DOMAIN Empty = {}
  /\ EmptyTree \in Trees
  /\ Idle \in Cmds
  /\ Working(Idle)
<1>1. Empty \in [{} -> Files] /\ DOMAIN Empty = {}
  BY DEF Empty
<1>2. Empty \in FileMaps
  BY <1>1, MapsAreFunctions
<1>3. EmptyTree \in Trees
  BY DEF EmptyTree, Trees, Clean
<1>4. Idle \in Cmds
  BY <1>2 DEF Idle, Cmds, Steps
<1>5. Working(Idle)
  BY <1>1 DEF Idle, Working, Harmless, Informed, Planning, Blank
<1> QED
  BY <1>1, <1>2, <1>3, <1>4, <1>5

\* One command at a time: a step of p that keeps its own part keeps the invariant.
LEMMA OneCommand ==
  ASSUME Inv, NEW p \in Procs, cmd[p] # Idle \/ lock = Free,
         TypeOK', lock' = p, Working(cmd[p])',
         \A q \in Procs \ {p} : cmd'[q] = cmd[q]
  PROVE  Inv'
<1>1. \A q \in Procs \ {p} : cmd[q] = Idle
  BY SetupAssumption DEF Inv
<1>2. \A q \in Procs \ {p} : cmd'[q] = Idle
  BY <1>1
<1> QED
  BY <1>2 DEF Inv, Idle

LEMMA FinishKeepsInv ==
  ASSUME Inv, NEW p \in Procs, cmd[p] # Idle, NEW result, Finish(p, result),
         file' \in [Assets -> Files], legacy' \in [OldFiles -> Files] \cup {NoTree},
         state' \in States \cup {NoState}, source' \in 1..Len(Release)
  PROVE  Inv'
<1>1. \A q \in Procs \ {p} : cmd[q] = Idle
  BY SetupAssumption DEF Inv
<1>2. cmd' = [cmd EXCEPT ![p] = Idle] /\ cmd' \in [Procs -> Cmds]
  BY NothingIsClean DEF Finish, Inv, TypeOK
<1>3. \A q \in Procs : cmd'[q] = Idle
  BY <1>1, <1>2 DEF Inv, TypeOK
<1>4. TypeOK'
  BY <1>2 DEF TypeOK
<1> QED
  BY <1>3, <1>4 DEF Inv, Idle

LEMMA OneRuns ==
  ASSUME Inv, NEW p \in Procs, cmd[p].pc # "idle"
  PROVE  /\ cmd[p] # Idle /\ lock = p /\ cmd[p] \in Cmds
         /\ Harmless(cmd[p]) /\ Informed(cmd[p])
         /\ cmd[p].previous \in FileMaps
         /\ cmd[p].assets \subseteq Assets /\ cmd[p].written \subseteq Assets
         /\ DOMAIN cmd[p].previous \subseteq Assets
<1>1. cmd[p] # Idle
  BY DEF Idle
<1>2. lock = p /\ Working(cmd[p]) /\ cmd[p] \in Cmds
  BY <1>1 DEF Inv, TypeOK
<1>3. cmd[p].previous \in FileMaps
  BY <1>2 DEF Cmds
<1> QED
  BY <1>1, <1>2, <1>3, BackupsAreFiles DEF Working, Cmds

\* A step of a running command that only changes what it does next.
LEMMA OnlyTheCommand ==
  ASSUME Inv, NEW p \in Procs, cmd[p].pc # "idle", NEW c \in Cmds,
         cmd' = [cmd EXCEPT ![p] = c],
         state' \in States \cup {NoState}, source' \in 1..Len(Release),
         UNCHANGED <<file, legacy, lock>>,
         cmd'[p] = c => Working(cmd[p])'
  PROVE  Inv' /\ Kept
<1>1. cmd'[p] = c /\ \A q \in Procs \ {p} : cmd'[q] = cmd[q]
  BY DEF Inv, TypeOK
<1>2. TypeOK'
  BY DEF Inv, TypeOK
<1>3. Inv'
  BY <1>1, <1>2, OneCommand, OneRuns
<1> QED
  BY <1>3 DEF Kept

-----------------------------------------------------------------------------
(* The commands that pass their checks. *)
LEMMA StartKeeps ==
  ASSUME Inv, NEW p \in Procs, Start(p)
  PROVE  Inv'
<1> DEFINE c == Checking
<1>1. /\ lock = Free /\ lock' = p /\ cmd' = [cmd EXCEPT ![p] = c]
      /\ UNCHANGED <<file, legacy, state, source>>
  BY DEF Start, LockIsFree, disk, Checking
<1>2. c \in Cmds
  BY NothingIsClean DEF Cmds, Idle, Steps, Checking
<1>3. TypeOK'
  BY <1>1, <1>2 DEF Inv, TypeOK
<1>4. cmd'[p] = c => Working(cmd[p])'
  BY NothingIsClean DEF Working, Harmless, Informed, Planning, Blank, Idle, Checking
<1>5. cmd'[p] = c /\ \A q \in Procs \ {p} : cmd'[q] = cmd[q]
  BY <1>1 DEF Inv, TypeOK
<1> QED
  BY <1>1, <1>3, <1>4, <1>5, OneCommand

LEMMA RefuseKeeps ==
  ASSUME Inv, NEW p \in Procs, Refuse(p)
  PROVE  Inv' /\ Kept
<1>1. cmd[p] # Idle
  BY DEF Refuse, Refuses, Idle
<1>2. UNCHANGED <<file, legacy, state, source>>
  BY DEF Refuse, disk
<1> QED
  BY <1>1, <1>2, FinishKeepsInv DEF Refuse, Inv, TypeOK, Kept

\* The parts of a state.
LEMMA StatesAreClean ==
  ASSUME Inv, state # NoState
  PROVE  /\ state \in OldStates \cup NewStates /\ Coherent(state)
         /\ state.installed \in ShippedMaps /\ state.previous \in FileMaps
         /\ DOMAIN state.installed \subseteq DOMAIN state.previous
         /\ DOMAIN state.previous \subseteq Assets
         /\ \A a \in DOMAIN state.installed : state.installed[a] \in Clean
         /\ state.root = "new" <=> state \in NewStates
         /\ state.root = "old" <=> state \in OldStates
<1>1. state \in OldStates \cup NewStates /\ Coherent(state)
  BY DEF Inv, TypeOK, States
<1>2. state.installed \in ShippedMaps /\ state.previous \in FileMaps
  BY <1>1 DEF OldStates, NewStates
<1>3. DOMAIN state.previous \subseteq Assets /\ \A a \in DOMAIN state.installed : state.installed[a] \in Clean
  BY <1>2, InstalledIsShipped, BackupsAreFiles, CleanIsNotTheUsers
<1>4. /\ state.root = "new" <=> state \in NewStates
      /\ state.root = "old" <=> state \in OldStates
  BY <1>1 DEF OldStates, NewStates
<1> QED
  BY <1>1, <1>2, <1>3, <1>4 DEF Coherent

\* The old tree that migrate removes is what the old state registers.
LEMMA OldTreeIsClean ==
  ASSUME Inv, state # NoState, OldTreeMatches
  PROVE  legacy \in Trees
<1>1. legacy \in [OldFiles -> Files] /\ Absent \in Clean
  BY DEF OldTreeMatches, Inv, TypeOK, Clean
<1>2. ASSUME NEW x \in OldFiles, legacy[x] # Absent
      PROVE  legacy[x] \in Clean
  <2>1. x \in DOMAIN state.installed /\ x \notin Agents
    BY <1>2 DEF OldTreeMatches, Skills
  <2>2. legacy[x] = state.installed[x]
    BY <2>1 DEF OldTreeMatches
  <2> QED
    BY <2>1, <2>2, StatesAreClean
<1>3. \A x \in OldFiles : legacy[x] \in Clean
  BY <1>1, <1>2
<1> QED
  BY <1>1, <1>3 DEF Trees

LEMMA ValidateKeeps ==
  ASSUME Inv, NEW p \in Procs, Validate(p)
  PROVE  Inv' /\ Kept
<1>1. PICK op \in {"install", "update", "migrate"} : Validate(p)!(op)
  BY DEF Validate
<1> DEFINE c == [cmd[p] EXCEPT !.pc = "preview", !.op = op]
<1>2. /\ cmd[p].pc = "check"
      /\ op = "update" => MayUpdate
      /\ op = "migrate" => MayRetire
      /\ cmd' = [cmd EXCEPT ![p] = c]
      /\ UNCHANGED <<file, legacy, state, source, lock>>
  BY <1>1 DEF disk
<1>3. cmd[p] \in Cmds /\ Blank(cmd[p])
  BY <1>2, OneRuns DEF Informed
<1>4. c \in Cmds /\ Blank(c) /\ c.pc = "preview" /\ c.op = op
  BY <1>3 DEF Cmds, Steps, Commands, Blank
<1>5. /\ op = "update" => state \in NewStates
      /\ op = "migrate" => state \in OldStates /\ legacy \in Trees
  BY <1>2, StatesAreClean, OldTreeIsClean DEF MayUpdate, MayRetire, IsInstalled
<1>6. cmd'[p] = c => Working(cmd[p])'
  BY <1>2, <1>4, <1>5, NothingIsClean DEF Working, Harmless, Informed, Blank, Planning
<1> QED
  BY <1>2, <1>4, <1>6, OnlyTheCommand DEF Inv, TypeOK

LEMMA PreviewKeeps ==
  ASSUME Inv, NEW p \in Procs, Preview(p)
  PROVE  Inv' /\ Kept
<1> DEFINE c == [cmd[p] EXCEPT !.pc = "compare", !.assets = managed_assets,
                               !.planned = managed_assets]
<1>1. /\ cmd[p].pc = "preview" /\ cmd' = [cmd EXCEPT ![p] = c]
      /\ UNCHANGED <<file, legacy, state, source, lock>>
  BY DEF Preview, disk
<1>2. cmd[p] \in Cmds /\ Informed(cmd[p]) /\ managed_assets \subseteq Assets
  BY <1>1, OneRuns DEF managed_assets
<1>3. c \in Cmds
  BY <1>2 DEF Cmds, Steps
<1>4. Blank(cmd[p]) /\ Blank(c)
  BY <1>1, <1>2 DEF Informed, Planning, Blank, Cmds
<1>5. cmd'[p] = c => Working(cmd[p])'
  BY <1>1, <1>2, <1>4, NothingIsClean DEF Working, Harmless, Informed, Blank, Planning, Cmds
<1> QED
  BY <1>1, <1>3, <1>5, OnlyTheCommand DEF Inv, TypeOK

\* No conflict at a target: it holds nothing of the user's.
LEMMA ComparedTargetsAreClean ==
  ASSUME Inv, NEW a \in Assets, NEW op, ~Blocked(op, a)
  PROVE  file[a] \in Clean
<1>1. \/ file[a] \in {Absent, Release[source][a]}
      \/ Registered(a) /\ state.installed[a] = file[a]
  BY DEF Blocked, Conflict, TargetConflict
<1>2. Release[source][a] \in Clean /\ Absent \in Clean
  BY ReleasesAreClean DEF Inv, TypeOK, Clean
<1>3. ASSUME Registered(a)
      PROVE  state.installed[a] \in Clean
  BY <1>3, StatesAreClean DEF Registered, IsInstalled
<1> QED
  BY <1>1, <1>2, <1>3

LEMMA CompareKeeps ==
  ASSUME Inv, NEW p \in Procs, CompareTarget(p)
  PROVE  Inv' /\ Kept
<1>1. /\ cmd[p].pc = "compare"
      /\ UNCHANGED <<file, legacy, state, source, lock>>
  BY DEF CompareTarget, disk
<1>2. PICK a \in cmd[p].assets : /\ ~Blocked(cmd[p].op, a)
                                 /\ cmd' = [cmd EXCEPT ![p].assets = @ \ {a}]
  BY DEF CompareTarget
<1> DEFINE c == [cmd[p] EXCEPT !.assets = @ \ {a}]
<1>3. cmd[p] \in Cmds /\ Informed(cmd[p]) /\ Harmless(cmd[p]) /\ a \in Assets
  BY <1>1, <1>2, OneRuns
<1>4. c \in Cmds /\ cmd' = [cmd EXCEPT ![p] = c]
  BY <1>2, <1>3 DEF Cmds
<1>5. file[a] \in Clean
  BY <1>2, <1>3, ComparedTargetsAreClean
<1>6. Blank(cmd[p]) /\ Blank(c)
  BY <1>1, <1>3 DEF Informed, Planning, Blank, Cmds
<1>7. cmd'[p] = c => Harmless(cmd[p])'
  BY <1>1, <1>3, <1>5, <1>6, NothingIsClean DEF Harmless, Blank, Cmds
<1>8. cmd'[p] = c => Informed(cmd[p])'
  BY <1>1, <1>3, <1>6, NothingIsClean DEF Informed, Blank, Planning, Cmds
<1> QED
  BY <1>1, <1>3, <1>4, <1>7, <1>8, OnlyTheCommand DEF Inv, TypeOK, Working

LEMMA ListKeeps ==
  ASSUME Inv, NEW p \in Procs, ListAssets(p)
  PROVE  Inv' /\ Kept
<1> DEFINE op == cmd[p].op
           previous == FirstBackups(op)
           c == [cmd[p] EXCEPT !.pc = "write", !.assets = managed_assets,
                               !.listed = managed_assets, !.previous = previous, !.old = state,
                               !.tree = IF op = "migrate" THEN legacy ELSE NoTree,
                               !.before = IF op = "update" THEN Empty ELSE file]
<1>1. /\ cmd[p].pc = "compare" /\ cmd[p].assets = {}
      /\ cmd' = [cmd EXCEPT ![p] = c]
      /\ UNCHANGED <<file, legacy, state, source, lock>>
  BY DEF ListAssets, disk
<1>2. /\ cmd[p] \in Cmds /\ managed_assets \subseteq Assets
      /\ Blank(cmd[p]) /\ op \in {"install", "update", "migrate"}
      /\ op = "update" => state \in NewStates
      /\ op = "migrate" => state \in OldStates /\ legacy \in Trees
      /\ \A a \in cmd[p].planned : file[a] \in Clean
  BY <1>1, OneRuns DEF Informed, Harmless, Planning, managed_assets
<1>3. state \in States \cup {NoState} /\ NoState \notin OldStates \cup NewStates
  BY SetupAssumption DEF Inv, TypeOK
<1>4. /\ op = "update" => Coherent(state) /\ state.previous \in FileMaps
      /\ op = "migrate" => Coherent(state)
  BY <1>2, <1>3, StatesAreClean
<1>5. /\ agent_backups \in FileMaps
      /\ DOMAIN agent_backups = {b \in managed_assets \cap Agents : file[b] # Absent}
      /\ \A a \in DOMAIN agent_backups : agent_backups[a] = file[a]
  <2> DEFINE D == {b \in managed_assets \cap Agents : file[b] # Absent}
  <2>1. D \in SUBSET Assets /\ agent_backups \in [D -> Files]
    BY <1>2 DEF agent_backups, Inv, TypeOK
  <2> QED
    BY <2>1, MapsAreFunctions DEF agent_backups
<1>6. previous \in FileMaps
  BY <1>2, <1>4, <1>5, NothingIsClean DEF FirstBackups
<1>7. c \in Cmds
  BY <1>2, <1>3, <1>6 DEF Cmds, Steps, Inv, TypeOK
<1>8. c.written = {} /\ c.planned = cmd[p].planned /\ c.op = op
  BY <1>2 DEF Blank, Cmds
<1>9. cmd'[p] = c => Harmless(cmd[p])'
  <2> SUFFICES ASSUME cmd'[p] = c PROVE Harmless(cmd[p])'
    OBVIOUS
  <2>1. /\ c.pc = "write" /\ c.assets = managed_assets /\ c.listed = managed_assets
        /\ c.previous = previous /\ c.tree = IF op = "migrate" THEN legacy ELSE NoTree
    BY <1>2 DEF Cmds
  <2>2. op = "migrate" => previous = agent_backups
    BY DEF FirstBackups
  <2>3. \A a \in c.assets \ Unplanned(c) : file[a] \in Clean
    BY <1>2, <1>8, <2>1 DEF Unplanned
  <2>4. op = "migrate" =>
          /\ \A a \in DOMAIN previous : file[a] = previous[a]
          /\ \A a \in managed_assets \cap Agents : a \in DOMAIN previous \/ file[a] = Absent
    BY <1>5, <2>2
  <2> HIDE DEF c, previous, op
  <2> QED
    BY <1>1, <1>2, <1>8, <2>1, <2>3, <2>4 DEF Harmless, Unplanned
<1>10. cmd'[p] = c => Informed(cmd[p])'
  <2>1. op = "migrate" => DOMAIN previous \subseteq managed_assets
    BY <1>5 DEF FirstBackups
  <2>2. op = "update" => previous = state.previous
    BY DEF FirstBackups
  <2>3. op = "install" => DOMAIN previous = {}
    BY NothingIsClean DEF FirstBackups
  <2> QED
    BY <1>2, <1>4, <1>8, <2>1, <2>2, <2>3 DEF Informed, Planning, Cmds
<1>11. cmd'[p] = c => Working(cmd[p])'
  BY <1>9, <1>10 DEF Working
<1> QED
  BY <1>1, <1>3, <1>7, <1>11, OnlyTheCommand DEF Inv, TypeOK

LEMMA BeginRollbackKeeps ==
  ASSUME Inv, NEW p \in Procs, BeginRollback(p)
  PROVE  Inv' /\ Kept
<1>1. /\ cmd[p].pc = "check" /\ MayRollback
      /\ UNCHANGED <<file, legacy, state, source, lock>>
  BY DEF BeginRollback, disk
<1>2. cmd[p] \in Cmds /\ Blank(cmd[p])
  BY <1>1, OneRuns DEF Informed
<1>3. state # NoState /\ state \in NewStates /\ Coherent(state)
  BY <1>1, StatesAreClean DEF MayRollback, IsInstalled
<1> DEFINE D == DOMAIN state.installed
<1>4. /\ D \subseteq Assets /\ \A a \in D : file[a] \in Clean
      /\ state.previous \in FileMaps /\ DOMAIN state.previous = D
  BY <1>1, <1>3, StatesAreClean DEF MayRollback, Clean
<1>5. CASE state.migration = NoMigration
  <2> DEFINE c == [cmd[p] EXCEPT !.pc = "restore", !.op = "rollback", !.assets = D,
                                 !.previous = state.previous]
  <2>1. cmd' = [cmd EXCEPT ![p] = c]
    BY <1>5 DEF BeginRollback
  <2>2. c \in Cmds
    BY <1>2, <1>4 DEF Cmds, Steps, Commands
  <2>3. /\ c.pc = "restore" /\ c.op = "rollback" /\ c.assets = D /\ c.previous = state.previous
        /\ c.written = {} /\ c.listed = {} /\ c.tree = NoTree
    BY <1>2 DEF Cmds, Blank
  <2> HIDE DEF c
  <2>4. cmd'[p] = c => Working(cmd[p])'
    BY <1>1, <1>3, <1>4, <2>3 DEF Working, Harmless, Informed, Planning, Unplanned
  <2> QED
    BY <1>1, <2>1, <2>2, <2>4, OnlyTheCommand DEF Inv, TypeOK
<1>6. CASE state.migration # NoMigration
  <2> DEFINE m == state.migration
             c == [cmd[p] EXCEPT !.pc = "remove", !.op = "rollback", !.assets = D,
                                 !.previous = m.agents, !.tree = m.tree, !.old = m.state]
  <2>1. cmd' = [cmd EXCEPT ![p] = c]
    BY <1>6 DEF BeginRollback
  <2>2. m \in Migrations /\ legacy = NoTree
    BY <1>1, <1>3, <1>6 DEF NewStates, MayRollback
  <2>3. /\ m.agents \in FileMaps /\ DOMAIN m.agents \subseteq D
        /\ m.tree \in Trees /\ m.state \in OldStates /\ Coherent(m.state)
    <3>1. m.agents \in FileMaps /\ m.tree \in Trees /\ m.state \in OldStates
      BY <2>2 DEF Migrations
    <3>2. DOMAIN m.agents \subseteq D
      BY <1>3, <1>4, <1>6 DEF Coherent
    <3> QED
      BY <2>2, <3>1, <3>2 DEF Migrations
  <2>4. c \in Cmds
    BY <1>2, <1>4, <2>3 DEF Cmds, Steps, Commands, States
  <2>5. /\ c.pc = "remove" /\ c.op = "rollback" /\ c.assets = D /\ c.previous = m.agents
        /\ c.tree = m.tree /\ c.old = m.state
        /\ c.written = {} /\ c.listed = {}
    BY <1>2 DEF Cmds, Blank
  <2> HIDE DEF c
  <2>6. cmd'[p] = c => Working(cmd[p])'
    BY <1>1, <1>4, <2>2, <2>3, <2>5 DEF Working, Harmless, Informed, Planning, Unplanned
  <2> QED
    BY <1>1, <2>1, <2>4, <2>6, OnlyTheCommand DEF Inv, TypeOK
<1> QED
  BY <1>5, <1>6

-----------------------------------------------------------------------------
(* The writes of a command that has passed its checks. *)

\* A target that is written stays a file, and others are as they were.
LEMMA TargetWrite ==
  ASSUME Inv, NEW a \in Assets, NEW text \in Files, file' = [file EXCEPT ![a] = text]
  PROVE  /\ file' \in [Assets -> Files]
         /\ file'[a] = text
         /\ \A b \in Assets \ {a} : file'[b] = file[b]
         /\ text \in Clean => \A b \in Assets : file[b] \in Clean => file'[b] \in Clean
         /\ file[a] \in Clean => \A b \in Assets : file[b] \in UserTexts => file'[b] = file[b]
  BY CleanIsNotTheUsers DEF Inv, TypeOK

\* A step that writes one target, and goes on as c says.
LEMMA TargetWriteKeeps ==
  ASSUME Inv, NEW p \in Procs, cmd[p].pc # "idle", NEW a \in Assets, NEW text \in Files,
         file' = [file EXCEPT ![a] = text], UNCHANGED <<legacy, state, source, lock>>,
         NEW c \in Cmds, cmd' = [cmd EXCEPT ![p] = c],
         cmd'[p] = c => Working(cmd[p])'
  PROVE  Inv' /\ (file[a] \in Clean => Kept)
<1>1. TypeOK'
  BY TargetWrite DEF Inv, TypeOK
<1>2. cmd'[p] = c /\ \A q \in Procs \ {p} : cmd'[q] = cmd[q]
  BY DEF Inv, TypeOK
<1>3. Inv'
  BY <1>1, <1>2, OneCommand, OneRuns
<1> QED
  BY <1>3, TargetWrite DEF Kept

LEMMA KeptIsSpared ==
  ASSUME Kept
  PROVE  Spared
  BY DEF Kept, Spared

LEMMA WriteAssetKeeps ==
  ASSUME Inv, NEW p \in Procs, WriteAsset(p)
  PROVE  Inv' /\ Spared
<1>1. /\ cmd[p].pc = "write" /\ cmd[p].op # "migrate"
      /\ UNCHANGED <<legacy, state, source, lock>>
  BY DEF WriteAsset
<1> USE OneRuns
<1>2. PICK a \in cmd[p].assets : WriteAsset(p)!2!(a)
  BY DEF WriteAsset
<1> DEFINE text == Release[source][a]
           previous == Backed(cmd[p].previous, a)
           written == IF file[a] = text THEN cmd[p].written ELSE cmd[p].written \cup {a}
           c == [cmd[p] EXCEPT !.assets = @ \ {a}, !.previous = previous, !.written = written]
<1>3. /\ file' = [file EXCEPT ![a] = text]
      /\ cmd' = [cmd EXCEPT ![p] = c]
  BY <1>2
<1>4. /\ a \in Assets /\ text \in Clean /\ text \in Files
      /\ cmd[p].op \in {"install", "update"}
      /\ cmd[p].tree # NoTree => legacy \in Trees \cup {NoTree}
  BY <1>1, ReleasesAreClean, CleanIsNotTheUsers DEF Inv, TypeOK, Informed, Harmless
<1>5. /\ previous \in FileMaps /\ DOMAIN previous = DOMAIN cmd[p].previous \cup {a}
      /\ a \notin DOMAIN cmd[p].previous => previous[a] = file[a]
  <2>1. previous \in [DOMAIN cmd[p].previous \cup {a} -> Files]
    BY <1>1, <1>4, BackupsAreFiles DEF Backed, Inv, TypeOK
  <2> QED
    BY <1>1, <1>4, <2>1, MapsAreFunctions DEF Backed
<1>6. c \in Cmds
  BY <1>1, <1>4, <1>5 DEF Cmds
<1>7. /\ c.pc = "write" /\ c.op = cmd[p].op /\ c.assets = cmd[p].assets \ {a}
      /\ c.listed = cmd[p].listed /\ c.planned = cmd[p].planned /\ c.previous = previous
      /\ c.written = written /\ c.tree = cmd[p].tree /\ c.old = cmd[p].old
  BY <1>1 DEF Cmds
<1>8. Harmless(cmd[p]) /\ Informed(cmd[p]) /\ Unplanned(c) = Unplanned(cmd[p])
  BY <1>1, <1>7 DEF Unplanned
<1>9. /\ \A b \in cmd[p].assets \ Unplanned(cmd[p]) : file[b] \in Clean
      /\ \A b \in cmd[p].written : file[b] \in Clean
      /\ cmd[p].assets \subseteq Assets /\ cmd[p].written \subseteq Assets
  BY <1>1, <1>8 DEF Harmless
<1>10. /\ \A b \in c.assets \ Unplanned(c) : file'[b] \in Clean
       /\ \A b \in c.written : file'[b] \in Clean
  <2> HIDE DEF text, c
  <2>1. file'[a] \in Clean /\ \A b \in Assets : file[b] \in Clean => file'[b] \in Clean
    BY <1>3, <1>4, TargetWrite
  <2>2. c.written \subseteq cmd[p].written \cup {a}
    BY <1>7
  <2>3. c.assets \ Unplanned(c) \subseteq cmd[p].assets \ Unplanned(cmd[p])
    BY <1>7, <1>8
  <2> QED
    BY <1>9, <2>1, <2>2, <2>3
<1>11. cmd'[p] = c => Working(cmd[p])'
  <2> HIDE DEF c, previous, written, text
  <2>1. cmd'[p] = c => Harmless(cmd[p])'
    BY <1>1, <1>4, <1>7, <1>10 DEF Harmless, Unplanned
  <2>2. written \subseteq cmd[p].written \cup {a}
    BY DEF written
  <2>3. cmd'[p] = c => Informed(cmd[p])'
    BY <1>1, <1>4, <1>5, <1>7, <1>8, <2>2 DEF Informed, Planning
  <2> QED
    BY <2>1, <2>3 DEF Working
<1>12. Inv' /\ (file[a] \in Clean => Kept)
  BY <1>1, <1>3, <1>4, <1>6, <1>11, TargetWriteKeeps
<1>13. CASE file[a] \notin Clean
  <2>1. a \in Unplanned(cmd[p]) /\ cmd'[p] = c
    BY <1>3, <1>9, <1>13 DEF Inv, TypeOK
  <2>2. \/ cmd[p].op = "update" /\ a \in DOMAIN cmd[p].old.previous
        \/ a \notin DOMAIN cmd[p].previous
    BY <1>1, <1>4, <1>8 DEF Informed
  <2>3. KeepsItInBackup(cmd[p], a)
    <3>1. lock = p /\ cmd'[lock].previous = previous
      BY <1>1, <1>7, <2>1
    <3> HIDE DEF previous, c
    <3> QED
      BY <1>5, <2>2, <3>1 DEF KeepsItInBackup
  <2> QED
    BY <1>1, <1>3, <1>4, <1>12, <2>1, <2>3, TargetWrite DEF Spared
<1> QED
  BY <1>12, <1>13, KeptIsSpared

LEMMA WriteMigratedKeeps ==
  ASSUME Inv, NEW p \in Procs, WriteMigrated(p)
  PROVE  Inv' /\ Spared
<1>1. /\ cmd[p].pc = "write" /\ cmd[p].op = "migrate"
      /\ UNCHANGED <<legacy, state, source, lock>>
  BY DEF WriteMigrated
<1> USE OneRuns
<1>2. PICK a \in cmd[p].assets :
        /\ file' = [file EXCEPT ![a] = Release[source][a]]
        /\ cmd' = [cmd EXCEPT ![p].assets = @ \ {a}, ![p].written = @ \cup {a}]
  BY DEF WriteMigrated
<1> DEFINE c == [cmd[p] EXCEPT !.assets = @ \ {a}, !.written = @ \cup {a}]
<1>3. a \in Assets /\ Release[source][a] \in Clean /\ Release[source][a] \in Files
  BY <1>1, ReleasesAreClean, CleanIsNotTheUsers DEF Inv, TypeOK
<1>4. c \in Cmds /\ cmd' = [cmd EXCEPT ![p] = c]
  BY <1>1, <1>2, <1>3 DEF Cmds
<1>5. /\ c.pc = "write" /\ c.op = "migrate" /\ c.assets = cmd[p].assets \ {a}
      /\ c.listed = cmd[p].listed /\ c.planned = cmd[p].planned
      /\ c.previous = cmd[p].previous /\ c.written = cmd[p].written \cup {a}
      /\ c.tree = cmd[p].tree /\ c.old = cmd[p].old
  BY <1>1 DEF Cmds
<1>6. Harmless(cmd[p]) /\ Informed(cmd[p]) /\ Unplanned(c) = Unplanned(cmd[p])
  BY <1>1, <1>5 DEF Unplanned
<1>7. /\ \A b \in cmd[p].assets \ Unplanned(cmd[p]) : file[b] \in Clean
      /\ \A b \in cmd[p].written : file[b] \in Clean
      /\ \A b \in DOMAIN cmd[p].previous : file[b] \in Clean \cup {cmd[p].previous[b]}
      /\ \A b \in cmd[p].assets \cap Agents : b \in DOMAIN cmd[p].previous \/ file[b] = Absent
      /\ cmd[p].tree # NoTree => legacy \in Trees \cup {NoTree}
      /\ cmd[p].assets \subseteq Assets /\ cmd[p].written \subseteq Assets
      /\ DOMAIN cmd[p].previous \subseteq Assets
  BY <1>1, <1>6 DEF Harmless
<1>8. /\ \A b \in c.assets \ Unplanned(c) : file'[b] \in Clean
      /\ \A b \in c.written : file'[b] \in Clean
      /\ \A b \in DOMAIN c.previous : file'[b] \in Clean \cup {c.previous[b]}
      /\ \A b \in c.assets \cap Agents : b \in DOMAIN c.previous \/ file'[b] = Absent
  <2> HIDE DEF c
  <2>1. /\ file'[a] \in Clean
        /\ \A b \in Assets : file[b] \in Clean => file'[b] \in Clean
        /\ \A b \in Assets \ {a} : file'[b] = file[b]
    BY <1>2, <1>3, TargetWrite
  <2>2. \A b \in c.assets \ Unplanned(c) : file'[b] \in Clean
    BY <1>5, <1>6, <1>7, <2>1
  <2>3. \A b \in c.written : file'[b] \in Clean
    BY <1>5, <1>7, <2>1
  <2>4. \A b \in DOMAIN c.previous : file'[b] \in Clean \cup {c.previous[b]}
    BY <1>5, <1>7, <2>1
  <2>5. \A b \in c.assets \cap Agents : b \in DOMAIN c.previous \/ file'[b] = Absent
    BY <1>5, <1>7, <2>1
  <2> QED
    BY <2>2, <2>3, <2>4, <2>5
<1>9. cmd'[p] = c => Harmless(cmd[p])'
  BY <1>1, <1>5, <1>7, <1>8 DEF Harmless, Unplanned
<1>10. cmd'[p] = c => Informed(cmd[p])'
  <2>1. /\ cmd[p].tree \in Trees /\ cmd[p].old \in OldStates /\ Coherent(cmd[p].old)
        /\ DOMAIN cmd[p].previous \subseteq cmd[p].listed
        /\ cmd[p].listed = cmd[p].assets \cup cmd[p].written
    BY <1>1, <1>6 DEF Informed, Planning
  <2>2. c.listed = c.assets \cup c.written
    BY <1>2, <1>5, <2>1
  <2> QED
    BY <1>5, <2>1, <2>2 DEF Informed, Planning
<1>11. Inv' /\ (file[a] \in Clean => Kept)
  BY <1>1, <1>2, <1>3, <1>4, <1>9, <1>10, TargetWriteKeeps DEF Working
<1>12. CASE file[a] \notin Clean
  <2>1. a \in Unplanned(cmd[p]) /\ cmd'[p] = c
    BY <1>4, <1>7, <1>12 DEF Inv, TypeOK
  <2>2. a \in Skills \/ (a \in DOMAIN cmd[p].previous /\ cmd[p].previous[a] = file[a])
    BY <1>3, <1>7, <1>12 DEF Skills, Clean
  <2>3. KeepsItInBackup(cmd[p], a)
    BY <1>1, <1>5, <2>1, <2>2 DEF KeepsItInBackup
  <2> QED
    BY <1>1, <1>2, <1>3, <1>11, <2>1, <2>3, TargetWrite DEF Spared
<1> QED
  BY <1>11, <1>12, KeptIsSpared

\* The tree of a running command is rewritten: nothing else of it changes.
LEMMA CleanTree ==
  ASSUME Inv, NEW p \in Procs, cmd[p].pc \notin {"idle", "check"} \cup Planning,
         cmd[p].tree # NoTree,
         legacy' \in Trees \cup {NoTree}, UNCHANGED <<file, state, source, lock, cmd>>
  PROVE  Inv' /\ Kept
<1>1. legacy \in Trees \cup {NoTree} /\ Harmless(cmd[p]) /\ Informed(cmd[p]) /\ lock = p
  BY OneRuns DEF Harmless
<1>2. Harmless(cmd[p])' /\ Informed(cmd[p])'
  BY <1>1 DEF Harmless, Informed, Unplanned
<1>3. TypeOK'
  BY CleanIsNotTheUsers DEF Inv, TypeOK
<1>4. Kept
  <2>1. \A x \in OldFiles : legacy # NoTree => legacy[x] \notin UserTexts
    BY <1>1, CleanIsNotTheUsers DEF Trees
  <2> QED
    BY <2>1 DEF Kept
<1> QED
  BY <1>1, <1>2, <1>3, <1>4, OneCommand, OneRuns DEF Working

LEMMA RetireOldKeeps ==
  ASSUME Inv, NEW p \in Procs, RetireOld(p)
  PROVE  Inv' /\ Kept
<1>1. /\ cmd[p].pc = "write" /\ cmd[p].op = "migrate" /\ legacy # NoTree
      /\ UNCHANGED <<file, state, source, lock, cmd>>
  BY DEF RetireOld
<1>2. cmd[p].tree \in Trees /\ cmd[p].tree # NoTree /\ legacy \in Trees
  BY <1>1, OneRuns, CleanIsNotTheUsers DEF Informed, Harmless, Planning
<1>3. legacy' \in Trees \cup {NoTree}
  BY <1>2 DEF RetireOld, Trees, Clean
<1> QED
  BY <1>1, <1>2, <1>3, CleanTree DEF Planning

LEMMA CopyTreeKeeps ==
  ASSUME Inv, NEW p \in Procs, CopyTree(p)
  PROVE  Inv' /\ Kept
<1>1. cmd[p].pc = "tree" /\ UNCHANGED <<file, state, source, lock, cmd>>
  BY DEF CopyTree
<1>2. cmd[p].tree \in Trees /\ cmd[p].tree # NoTree /\ legacy \in Trees \cup {NoTree}
  BY <1>1, OneRuns, CleanIsNotTheUsers DEF Informed, Harmless
<1>3. legacy' \in Trees
  BY <1>2, NothingIsClean DEF CopyTree, Trees
<1> QED
  BY <1>1, <1>2, <1>3, CleanTree DEF Planning

\* The state that apply or migrate writes.
LEMMA WrittenStates ==
  ASSUME Inv, NEW p \in Procs, WriteState(p)
  PROVE  state' \in States
<1>1. /\ cmd[p].pc = "write" /\ cmd[p].assets = {}
      /\ cmd[p].op \in {"install", "update", "migrate"}
      /\ cmd[p].tree \in Trees \cup {NoTree} /\ cmd[p].old \in States \cup {NoState}
      /\ cmd[p].listed \subseteq managed_assets /\ managed_assets \subseteq Assets
      /\ Informed(cmd[p]) /\ cmd[p].previous \in FileMaps
  BY OneRuns DEF WriteState, FilesAreWritten, Informed, Cmds, Readable, managed_assets
<1> DEFINE R == cmd[p].listed
           installed == [a \in R |-> Release[source][a]]
           previous == IF cmd[p].op = "migrate" THEN [a \in R |-> Absent] ELSE cmd[p].previous
<1>2. installed \in ShippedMaps
  <2>1. installed \in [R -> Shipped]
    BY <1>1, ReleasesAreClean DEF Inv, TypeOK, managed_assets
  <2> QED
    BY <1>1, <2>1, MapsAreFunctions
<1>3. previous \in FileMaps /\ R \subseteq DOMAIN previous
  <2>1. [a \in R |-> Absent] \in [R -> Files]
    BY DEF Files
  <2>2. [a \in R |-> Absent] \in FileMaps
    BY <1>1, <2>1, MapsAreFunctions
  <2> QED
    BY <1>1, <2>2 DEF Informed
<1>4. /\ migration(p) \in Migrations \cup {NoMigration}
      /\ migration(p) # NoMigration => DOMAIN migration(p).agents \subseteq DOMAIN previous
  <2>1. CASE cmd[p].op = "migrate"
    <3>1. /\ cmd[p].tree \in Trees /\ cmd[p].old \in OldStates /\ Coherent(cmd[p].old)
          /\ DOMAIN cmd[p].previous \subseteq R
      BY <1>1, <2>1 DEF Informed, Planning
    <3>2. migration(p) = [tree |-> cmd[p].tree, agents |-> cmd[p].previous, state |-> cmd[p].old]
      BY <2>1 DEF migration
    <3> QED
      BY <1>1, <1>3, <3>1, <3>2 DEF Migrations
  <2>2. CASE cmd[p].op = "update"
    <3>1. /\ cmd[p].old \in NewStates /\ Coherent(cmd[p].old)
          /\ DOMAIN cmd[p].old.previous \subseteq DOMAIN previous
      BY <1>1, <2>2 DEF Informed, Planning
    <3>2. migration(p) = cmd[p].old.migration
      BY <2>2 DEF migration
    <3> QED
      BY <3>1, <3>2 DEF NewStates, Coherent
  <2>3. CASE cmd[p].op = "install"
    BY <2>3 DEF migration
  <2> QED
    BY <1>1, <2>1, <2>2, <2>3
<1>5. state' = [status |-> "installed", root |-> "new", installed |-> installed,
                previous |-> previous, migration |-> migration(p)]
  BY DEF WriteState
<1>6. DOMAIN installed = R
  OBVIOUS
<1> HIDE DEF R, installed, previous
<1>7. state' \in NewStates
  BY <1>2, <1>3, <1>4, <1>5 DEF NewStates
<1>8. Coherent(state')
  BY <1>3, <1>4, <1>5, <1>6 DEF Coherent
<1> QED
  BY <1>7, <1>8 DEF States

LEMMA WriteStateKeeps ==
  ASSUME Inv, NEW p \in Procs, WriteState(p)
  PROVE  Inv' /\ Kept
<1> DEFINE c == [cmd[p] EXCEPT !.pc = "doctor"]
<1>1. /\ cmd[p].pc = "write" /\ cmd' = [cmd EXCEPT ![p] = c]
      /\ UNCHANGED <<file, legacy, source, lock>>
  BY DEF WriteState, FilesAreWritten, disk
<1>2. c \in Cmds /\ source \in 1..Len(Release)
  <2>1. c \in Cmds
    BY <1>1, OneRuns DEF Cmds, Steps
  <2> QED
    BY <2>1 DEF Inv, TypeOK
<1>3. cmd'[p] = c => Working(cmd[p])'
  BY <1>1, OneRuns DEF Working, Harmless, Informed, Planning, Unplanned, Cmds
<1> QED
  BY <1>1, <1>2, <1>3, WrittenStates, OnlyTheCommand

LEMMA FailsKeeps ==
  ASSUME Inv, NEW p \in Procs, ApplyFails(p) \/ SourceGone(p)
  PROVE  Inv' /\ Kept
<1>1. /\ cmd[p].pc = "write"
      /\ UNCHANGED <<file, legacy, state, source, lock>>
  BY DEF ApplyFails, SourceGone, FilesAreWritten, disk
<1>2. PICK torn \in BOOLEAN :
        cmd' = [cmd EXCEPT ![p] = [cmd[p] EXCEPT !.pc = "undo", !.torn = torn]]
  <2>1. CASE ApplyFails(p)
    BY <2>1 DEF ApplyFails
  <2>2. CASE SourceGone(p)
    <3>1. cmd' = [cmd EXCEPT ![p] = [cmd[p] EXCEPT !.pc = "undo"]]
      BY <2>2 DEF SourceGone
    <3>2. cmd[p].torn \in BOOLEAN
          /\ [cmd[p] EXCEPT !.pc = "undo"] = [cmd[p] EXCEPT !.pc = "undo", !.torn = cmd[p].torn]
      BY <1>1, OneRuns DEF Cmds
    <3> QED
      BY <3>1, <3>2
  <2> QED
    BY <2>1, <2>2
<1> DEFINE c == [cmd[p] EXCEPT !.pc = "undo", !.torn = torn]
<1>3. c \in Cmds /\ source \in 1..Len(Release) /\ state \in States \cup {NoState}
  <2>1. c \in Cmds
    BY <1>1, OneRuns DEF Cmds, Steps
  <2> QED
    BY <2>1 DEF Inv, TypeOK
<1>4. cmd'[p] = c => Working(cmd[p])'
  BY <1>1, OneRuns DEF Working, Harmless, Informed, Planning, Unplanned, Cmds
<1> QED
  BY <1>1, <1>2, <1>3, <1>4, OnlyTheCommand

LEMMA UndoAssetKeeps ==
  ASSUME Inv, NEW p \in Procs, UndoAsset(p)
  PROVE  Inv' /\ Kept
<1>1. cmd[p].pc = "undo" /\ UNCHANGED <<legacy, state, source, lock>>
  BY DEF UndoAsset
<1>2. PICK a \in cmd[p].written :
        /\ file' = [file EXCEPT ![a] =
                      IF cmd[p].op = "migrate" THEN Absent ELSE cmd[p].previous[a]]
        /\ cmd' = [cmd EXCEPT ![p].written = @ \ {a}]
  BY DEF UndoAsset
<1> DEFINE text == IF cmd[p].op = "migrate" THEN Absent ELSE cmd[p].previous[a]
           c == [cmd[p] EXCEPT !.written = @ \ {a}]
<1>3. /\ cmd[p].op \in {"install", "update", "migrate"}
      /\ a \in Assets /\ file[a] \in Clean /\ text \in Files
      /\ cmd[p].op = "migrate" => text \in Clean
  <2>1. Harmless(cmd[p]) /\ Informed(cmd[p]) /\ cmd[p].written \subseteq Assets
    BY <1>1, OneRuns
  <2>2. /\ cmd[p].op \in {"install", "update", "migrate"} /\ file[a] \in Clean
        /\ cmd[p].op = "migrate" \/ a \in DOMAIN cmd[p].previous
    BY <1>1, <2>1 DEF Informed, Harmless
  <2> QED
    BY <1>1, <2>1, <2>2, OneRuns, BackupsAreFiles, CleanIsNotTheUsers
<1>4. c \in Cmds /\ cmd' = [cmd EXCEPT ![p] = c]
  BY <1>1, <1>2, OneRuns DEF Cmds
<1>5. /\ c.pc = "undo" /\ c.op = cmd[p].op /\ c.assets = cmd[p].assets
      /\ c.listed = cmd[p].listed /\ c.planned = cmd[p].planned
      /\ c.previous = cmd[p].previous /\ c.written = cmd[p].written \ {a}
      /\ c.tree = cmd[p].tree /\ c.old = cmd[p].old
  BY <1>1, OneRuns DEF Cmds
<1>6. cmd'[p] = c => Working(cmd[p])'
  <2> HIDE DEF c, text
  <2>1. /\ \A b \in Assets \ {a} : file'[b] = file[b]
        /\ cmd[p].op = "migrate" => \A b \in Assets : file[b] \in Clean => file'[b] \in Clean
    BY <1>2, <1>3, TargetWrite DEF text
  <2>2. /\ \A b \in c.written : file'[b] \in Clean
        /\ c.op = "migrate" =>
             \A b \in DOMAIN c.previous : file'[b] \in Clean \cup {c.previous[b]}
    <3>1. Harmless(cmd[p]) /\ cmd[p].written \subseteq Assets /\ DOMAIN cmd[p].previous \subseteq Assets
      BY <1>1, OneRuns
    <3>2. \A b \in c.written : file'[b] \in Clean
      BY <1>5, <2>1, <3>1 DEF Harmless
    <3>3. ASSUME c.op = "migrate", NEW b \in DOMAIN c.previous
          PROVE  file'[b] \in Clean \cup {c.previous[b]}
      <4>1. file[b] \in Clean \cup {cmd[p].previous[b]} /\ b \in Assets
        BY <1>5, <3>1, <3>3 DEF Harmless
      <4>2. CASE file[b] \in Clean
        BY <1>5, <2>1, <3>3, <4>1, <4>2
      <4>3. CASE file[b] \notin Clean
        BY <1>3, <1>5, <2>1, <4>1, <4>3
      <4> QED
        BY <4>2, <4>3
    <3> QED
      BY <3>2, <3>3
  <2>3. cmd'[p] = c => Harmless(cmd[p])'
    <3>1. cmd[p].tree # NoTree => legacy \in Trees \cup {NoTree}
      BY <1>1, OneRuns DEF Harmless
    <3> QED
      BY <1>1, <1>3, <1>5, <2>2, <3>1 DEF Harmless
  <2>4. cmd'[p] = c => Informed(cmd[p])'
    BY <1>1, <1>5, OneRuns DEF Informed, Planning
  <2> QED
    BY <2>3, <2>4 DEF Working
<1> QED
  BY <1>1, <1>2, <1>3, <1>4, <1>6, TargetWriteKeeps

LEMMA MovesOnKeeps ==
  ASSUME Inv, NEW p \in Procs,
         UndoMigration(p) \/ TreeIsBack(p) \/ DoctorUndoes(p) \/ TargetsAreRemoved(p)
  PROVE  Inv' /\ Kept
<1>1. UNCHANGED <<file, legacy, state, source, lock>>
  BY DEF UndoMigration, TreeIsBack, DoctorUndoes, TargetsAreRemoved, disk
<1>2. PICK pc \in {"tree", "agents", "undo"} :
        /\ cmd' = [cmd EXCEPT ![p] = [cmd[p] EXCEPT !.pc = pc]]
        /\ cmd[p].op = "migrate" \/ (pc # "undo" /\ cmd[p].pc \in {"tree", "remove"})
        /\ cmd[p].pc \in {"undo", "tree", "doctor", "remove"}
        /\ cmd[p].pc = "undo" => cmd[p].written = {}
        /\ cmd[p].pc = "doctor" => pc = "undo"
  BY DEF UndoMigration, TreeIsBack, DoctorUndoes, TargetsAreRemoved
<1> DEFINE c == [cmd[p] EXCEPT !.pc = pc]
<1>3. c \in Cmds /\ source \in 1..Len(Release) /\ state \in States \cup {NoState}
  <2>1. c \in Cmds
    BY <1>2, OneRuns DEF Cmds, Steps
  <2> QED
    BY <2>1 DEF Inv, TypeOK
<1>4. cmd'[p] = c => Working(cmd[p])'
  <2>1. /\ c.pc = pc /\ c.op = cmd[p].op /\ c.assets = cmd[p].assets
        /\ c.listed = cmd[p].listed /\ c.planned = cmd[p].planned
        /\ c.previous = cmd[p].previous /\ c.written = cmd[p].written
        /\ c.tree = cmd[p].tree /\ c.old = cmd[p].old
    BY <1>2, OneRuns DEF Cmds
  <2>2. Harmless(cmd[p]) /\ Informed(cmd[p])
    BY <1>2, OneRuns
  <2> HIDE DEF c
  <2>3. cmd'[p] = c => Harmless(cmd[p])'
    BY <1>1, <1>2, <2>1, <2>2 DEF Harmless
  <2>4. cmd'[p] = c => Informed(cmd[p])'
    BY <1>2, <2>1, <2>2 DEF Informed, Planning
  <2> QED
    BY <2>3, <2>4 DEF Working
<1> QED
  BY <1>1, <1>2, <1>3, <1>4, OnlyTheCommand

LEMMA RestoreAgentKeeps ==
  ASSUME Inv, NEW p \in Procs, RestoreAgent(p)
  PROVE  Inv' /\ Kept
<1>1. cmd[p].pc = "agents" /\ UNCHANGED <<legacy, state, source, lock, cmd>>
  BY DEF RestoreAgent
<1>2. PICK a \in DOMAIN cmd[p].previous :
        file[a] # cmd[p].previous[a] /\ file' = [file EXCEPT ![a] = cmd[p].previous[a]]
  BY DEF RestoreAgent
<1>3. /\ Harmless(cmd[p]) /\ Informed(cmd[p]) /\ cmd[p] \in Cmds
      /\ a \in Assets /\ cmd[p].previous[a] \in Files
      /\ cmd[p].op \in {"migrate", "rollback"} /\ cmd[p].written \subseteq Assets
      /\ DOMAIN cmd[p].previous \subseteq Assets
  BY <1>1, OneRuns, BackupsAreFiles DEF Informed
<1>4. file[a] \in Clean
  BY <1>2, <1>3 DEF Harmless
<1>5. cmd[p].written = {}
  BY <1>1, <1>3 DEF Informed
<1>6. Working(cmd[p])'
  <2>1. \A b \in Assets \ {a} : file'[b] = file[b]
    BY <1>2, <1>3, TargetWrite
  <2>2. file'[a] = cmd[p].previous[a]
    BY <1>2, <1>3, TargetWrite
  <2>3. \A b \in DOMAIN cmd[p].previous : file'[b] \in Clean \cup {cmd[p].previous[b]}
    BY <1>3, <2>1, <2>2 DEF Harmless
  <2>4. Harmless(cmd[p])'
    BY <1>1, <1>3, <1>5, <2>3 DEF Harmless, Unplanned
  <2>5. Informed(cmd[p])'
    BY <1>1, <1>3 DEF Informed
  <2> QED
    BY <2>4, <2>5 DEF Working
<1>7. cmd' = [cmd EXCEPT ![p] = cmd[p]]
  BY <1>1 DEF Inv, TypeOK
<1> QED
  BY <1>1, <1>2, <1>3, <1>4, <1>6, <1>7, TargetWriteKeeps

LEMMA RestoreAssetKeeps ==
  ASSUME Inv, NEW p \in Procs, RestoreAsset(p) \/ RemoveAsset(p)
  PROVE  Inv' /\ Kept
<1>1. cmd[p].pc \in {"restore", "remove"} /\ UNCHANGED <<legacy, state, source, lock>>
  BY DEF RestoreAsset, RemoveAsset
<1>2. /\ Harmless(cmd[p]) /\ Informed(cmd[p]) /\ cmd[p] \in Cmds /\ lock = p
      /\ cmd[p].op = "rollback" /\ cmd[p].listed = {} /\ cmd[p].assets \subseteq Assets
      /\ cmd[p].written \subseteq Assets /\ DOMAIN cmd[p].previous \subseteq Assets
  BY <1>1, OneRuns DEF Informed
<1>3. PICK a \in cmd[p].assets, text \in Files :
        /\ file' = [file EXCEPT ![a] = text]
        /\ cmd' = [cmd EXCEPT ![p].assets = @ \ {a}]
        /\ a \in DOMAIN cmd[p].previous => text \in {file[a], cmd[p].previous[a]}
        /\ cmd[p].pc = "remove" => text \in {file[a], Absent}
  <2>1. CASE RestoreAsset(p)
    <3>1. cmd[p].assets \subseteq DOMAIN cmd[p].previous
      BY <1>2, <2>1 DEF RestoreAsset, Informed
    <3> QED
      BY <1>1, <2>1, <3>1, OneRuns, BackupsAreFiles DEF RestoreAsset
  <2>2. CASE RemoveAsset(p)
    <3>1. PICK a \in cmd[p].assets :
            /\ file' = IF a \in DOMAIN cmd[p].previous THEN file ELSE [file EXCEPT ![a] = Absent]
            /\ cmd' = [cmd EXCEPT ![p].assets = @ \ {a}]
      BY <2>2 DEF RemoveAsset
    <3>2. file[a] \in Files /\ Absent \in Files /\ file = [file EXCEPT ![a] = file[a]]
      BY <1>2 DEF Inv, TypeOK, Files
    <3> QED
      BY <2>2, <3>1, <3>2 DEF RemoveAsset
  <2> QED
    BY <2>1, <2>2
<1> DEFINE c == [cmd[p] EXCEPT !.assets = @ \ {a}]
<1>4. a \in Assets /\ file[a] \in Clean
  BY <1>1, <1>2 DEF Harmless, Unplanned
<1>5. c \in Cmds /\ cmd' = [cmd EXCEPT ![p] = c]
  BY <1>2, <1>3 DEF Cmds
<1>6. /\ c.pc = cmd[p].pc /\ c.op = cmd[p].op /\ c.assets = cmd[p].assets \ {a}
      /\ c.listed = cmd[p].listed /\ c.planned = cmd[p].planned
      /\ c.previous = cmd[p].previous /\ c.written = cmd[p].written
      /\ c.tree = cmd[p].tree /\ c.old = cmd[p].old
  BY <1>2 DEF Cmds
<1>7. cmd[p].written = {}
  BY <1>1, <1>2 DEF Informed
<1>8. cmd'[p] = c => Working(cmd[p])'
  <2> HIDE DEF c
  <2>1. file'[a] = text /\ \A b \in Assets \ {a} : file'[b] = file[b]
    BY <1>3, <1>4, TargetWrite
  <2>2. /\ \A b \in c.assets : file'[b] \in Clean
        /\ \A b \in DOMAIN c.previous : file'[b] \in Clean \cup {c.previous[b]}
    BY <1>1, <1>2, <1>3, <1>4, <1>6, <2>1 DEF Harmless, Unplanned
  <2>3. cmd[p].tree # NoTree => legacy \in Trees \cup {NoTree}
    BY <1>2 DEF Harmless
  <2>4. cmd'[p] = c => Harmless(cmd[p])'
    BY <1>1, <1>2, <1>6, <1>7, <2>2, <2>3 DEF Harmless
  <2>5. cmd'[p] = c => Informed(cmd[p])'
    BY <1>1, <1>2, <1>6 DEF Informed, Planning
  <2> QED
    BY <2>4, <2>5 DEF Working
<1> QED
  BY <1>1, <1>3, <1>4, <1>5, <1>8, TargetWriteKeeps

-----------------------------------------------------------------------------
(* How a command ends. *)
LEMMA EndsKeeps ==
  ASSUME Inv, NEW p \in Procs,
         UndoState(p) \/ RestoreOldState(p) \/ Doctor(p) \/ RestoreState(p) \/ Stop(p)
  PROVE  Inv' /\ Kept
<1>1. cmd[p].pc # "idle" /\ UNCHANGED <<file, legacy, source>>
  BY DEF UndoState, RestoreOldState, Doctor, RestoreState, Stop, disk
<1>2. PICK result \in {"ok", "undone", "drifted", "stopped"} : Finish(p, result)
  BY DEF UndoState, RestoreOldState, Doctor, RestoreState, Stop
<1>3. state' \in States \cup {NoState}
  <2>1. CASE UndoState(p)
    BY <1>1, <2>1, OneRuns DEF UndoState, Cmds
  <2>2. CASE RestoreOldState(p)
    <3>1. cmd[p].old \in OldStates /\ Coherent(cmd[p].old)
      BY <2>2, OneRuns DEF RestoreOldState, Informed
    <3> QED
      BY <2>2, <3>1 DEF RestoreOldState, States
  <2>3. CASE RestoreState(p)
    <3>1. state \in NewStates /\ Coherent(state)
      BY <2>3, OneRuns DEF RestoreState, Informed
    <3>2. state' = [state EXCEPT !.status = "rolled-back"]
      BY <2>3 DEF RestoreState
    <3>3. state' \in NewStates /\ Coherent(state')
      BY <3>1, <3>2 DEF NewStates, Coherent
    <3> QED
      BY <3>3 DEF States
  <2>4. CASE Doctor(p) \/ Stop(p)
    BY <2>4 DEF Doctor, Stop, Inv, TypeOK
  <2> QED
    BY <2>1, <2>2, <2>3, <2>4
<1>4. Inv'
  BY <1>1, <1>2, <1>3, OneRuns, FinishKeepsInv DEF Inv, TypeOK
<1> QED
  BY <1>1, <1>4 DEF Kept

-----------------------------------------------------------------------------
(* The checkout and the user. *)
LEMMA CheckoutKeeps ==
  ASSUME Inv, Checkout
  PROVE  Inv' /\ Kept
<1>1. /\ source' \in 1..Len(Release)
      /\ UNCHANGED <<file, legacy, state, lock, cmd>>
  BY SetupAssumption DEF Checkout, disk, Inv, TypeOK
<1>2. TypeOK'
  BY <1>1 DEF Inv, TypeOK
<1>3. \A p \in Procs : Working(cmd[p]) => Working(cmd[p])'
  BY <1>1 DEF Working, Harmless, Informed, Planning, Unplanned, Blank
<1> QED
  BY <1>1, <1>2, <1>3 DEF Inv, Kept, Idle

LEMMA UserKeeps ==
  ASSUME Inv,
         UserEditsOldTree \/ \E a \in Assets, text \in UserTexts \cup {Absent} : UserEdits(a, text)
  PROVE  Inv' /\ lock = Free
<1>1. lock = Free /\ UNCHANGED <<state, source, lock, cmd>>
  BY DEF UserEditsOldTree, UserEdits
<1>2. \A p \in Procs : cmd[p] = Idle
  BY <1>1, SetupAssumption DEF Inv
<1>3. file' \in [Assets -> Files]
  BY DEF UserEditsOldTree, UserEdits, Inv, TypeOK, Files, Contents
<1>4. legacy' \in [OldFiles -> Files] \cup {NoTree}
  <2>1. EmptyTree \in [OldFiles -> Files]
    BY NothingIsClean, CleanIsNotTheUsers
  <2> QED
    BY <2>1 DEF UserEditsOldTree, UserEdits, Inv, TypeOK, Files, Contents
<1>5. TypeOK'
  BY <1>1, <1>3, <1>4 DEF Inv, TypeOK
<1> QED
  BY <1>1, <1>2, <1>5 DEF Inv, Idle

-----------------------------------------------------------------------------
LEMMA InitIsInv == Init => Inv
<1> SUFFICES ASSUME Init PROVE Inv
  OBVIOUS
<1>1. 1 \in 1..Len(Release) /\ OldReleases \subseteq 1..Len(Release)
  BY SetupAssumption
<1>2. cmd = [p \in Procs |-> Idle] /\ cmd \in [Procs -> Cmds]
  BY NothingIsClean DEF Init
<1>3. CASE FreshHome
  BY <1>1, <1>2, <1>3 DEF FreshHome, Targets, Inv, TypeOK, Idle
<1>4. CASE OldHome
  <2>1. PICK v \in OldReleases : OldHome!(v)
    BY <1>4 DEF OldHome
  <2> DEFINE D == {a \in Assets : Release[v][a] # Absent}
  <2>2. /\ v \in 1..Len(Release)
        /\ \A a \in Assets : Release[v][a] \in Clean
        /\ \A a \in D : Release[v][a] \in Shipped
    BY <1>1, ReleasesAreClean
  <2>3. /\ [a \in D |-> Release[v][a]] \in ShippedMaps
        /\ [a \in D |-> Absent] \in FileMaps
    <3>1. [a \in D |-> Release[v][a]] \in [D -> Shipped] /\ [a \in D |-> Absent] \in [D -> Files]
      BY <2>2 DEF Files
    <3> QED
      BY <3>1, MapsAreFunctions
  <2>4. state \in OldStates /\ Coherent(state)
    BY <2>1, <2>3 DEF OldState, OldStates, Coherent
  <2>5. OldTree(v) \in [OldFiles -> Files]
    <3>1. \A x \in OldFiles : x # Stray => x \in Assets
      BY DEF OldFiles, Skills
    <3> QED
      BY <2>2, <3>1, CleanIsNotTheUsers DEF OldTree, Clean
  <2>6. file \in [Assets -> Files]
    <3>1. PICK f \in Targets :
            file = [a \in Assets |-> IF a \in Skills THEN Absent
                                     ELSE IF Release[v][a] # Absent THEN Release[v][a] ELSE f[a]]
      BY <2>1
    <3> QED
      BY <2>2, <3>1, CleanIsNotTheUsers DEF Targets, Clean
  <2> QED
    BY <1>2, <2>1, <2>2, <2>4, <2>5, <2>6 DEF Inv, TypeOK, States, Idle
<1> QED
  BY <1>3, <1>4 DEF Init

LEMMA NextKeeps ==
  ASSUME Inv, [Next]_vars
  PROVE  Inv' /\ (lock # Free => Spared)
<1>1. CASE UNCHANGED vars
  <2>1. UNCHANGED <<file, legacy, state, source, lock, cmd>>
    BY <1>1 DEF vars, disk
  <2>2. \A p \in Procs : Working(cmd[p]) => Working(cmd[p])'
    BY <2>1 DEF Working, Harmless, Informed, Planning, Unplanned, Blank
  <2> QED
    BY <2>1, <2>2 DEF Inv, TypeOK, Idle, Spared
<1>2. ASSUME NEW p \in Procs, Start(p)
      PROVE  Inv' /\ (lock # Free => Spared)
  BY <1>2, StartKeeps DEF Start, LockIsFree
<1>3. ASSUME NEW p \in Procs,
             \/ Refuse(p) \/ Validate(p) \/ Preview(p) \/ CompareTarget(p) \/ ListAssets(p)
             \/ BeginRollback(p)
      PROVE  Inv' /\ Kept
  BY <1>3, RefuseKeeps, ValidateKeeps, PreviewKeeps, CompareKeeps, ListKeeps, BeginRollbackKeeps
<1>4. ASSUME NEW p \in Procs, Step(p) \/ ApplyFails(p) \/ Stop(p)
      PROVE  Inv' /\ Spared
  BY <1>3, <1>4, WriteAssetKeeps, WriteMigratedKeeps, RetireOldKeeps, WriteStateKeeps,
     FailsKeeps, UndoAssetKeeps, MovesOnKeeps, CopyTreeKeeps, RestoreAgentKeeps,
     RestoreAssetKeeps, EndsKeeps, KeptIsSpared
     DEF Step
<1>5. CASE \E p \in Procs : StartBusy(p)
  BY <1>1, <1>5 DEF StartBusy
<1> QED
  BY <1>1, <1>2, <1>4, <1>5, CheckoutKeeps, UserKeeps, KeptIsSpared DEF Next

(* A running command holds the lock.  A target that it has compared with    *)
(* its plan and may still write, what it has written, and what a rollback    *)
(* may remove hold contents the releases ship, or nothing; a target that it  *)
(* has not compared may hold the user's file until it is written (the two    *)
(* reads of the assets in apply and in migrate).                             *)
THEOREM CommandsAreHarmless == Spec => []Inv
<1>1. Inv /\ [Next]_vars => Inv'
  BY NextKeeps
<1> QED
  BY <1>1, InitIsInv, PTL DEF Spec

(* No command destroys what only the user can have written: not apply, its  *)
(* handler, migrate and its handler, or rollback, however often they fail   *)
(* or die, but at a target that the checkout got between the plan and the   *)
(* second list of assets; there the user's file is in the backup, unless an *)
(* update has an older one or migrate writes a skill file.                  *)
THEOREM NothingOfTheUsersIsLost == Spec => UserContentIsKept
<1>1. Inv /\ [Next]_vars => [lock # Free => Spared]_vars
  BY NextKeeps
<1>2. Inv /\ [Next]_vars => [lock # Free =>
        /\ \A a \in Assets : file[a] \in UserTexts /\ file'[a] # file[a] =>
             /\ cmd[lock].pc = "write" /\ a \in cmd[lock].assets \cap Unplanned(cmd[lock])
             /\ KeepsItInBackup(cmd[lock], a)
        /\ legacy # NoTree /\ (\E x \in OldFiles : legacy[x] \in UserTexts) => legacy' = legacy]_vars
  BY <1>1 DEF Spared
<1> QED
  BY <1>2, CommandsAreHarmless, PTL DEF Spec, UserContentIsKept

-----------------------------------------------------------------------------
\* A command that runs has not succeeded yet.
Reported == (lock # Free => done = "none") /\ SuccessIsOneRelease

LEMMA SuccessIsReported == Spec => []Reported
<1>1. Init => Reported
  BY DEF Init, Reported, SuccessIsOneRelease
<1>2. Inv /\ Reported /\ [Next]_vars => Reported'
  <2> SUFFICES ASSUME Inv, Reported, [Next]_vars PROVE Reported'
    OBVIOUS
  <2>1. CASE UNCHANGED <<file, state, lock, done>>
    BY <2>1 DEF Reported, SuccessIsOneRelease, IsInstalled
  <2>2. CASE done' = "none"
    BY <2>2 DEF Reported, SuccessIsOneRelease
  <2>3. ASSUME NEW p \in Procs, Step(p) \/ ApplyFails(p) \/ Stop(p)
        PROVE  Reported'
    <3>1. cmd[p].pc # "idle"
      BY <2>3 DEF Step, Refuse, Refuses, Validate, Preview, CompareTarget, ListAssets, WriteAsset, WriteMigrated, RetireOld,
         WriteState, FilesAreWritten, SourceGone, UndoAsset, UndoState, UndoMigration, CopyTree,
         TreeIsBack, RestoreAgent, RestoreOldState, Doctor, DoctorUndoes, BeginRollback,
         RestoreAsset, RestoreState, RemoveAsset, TargetsAreRemoved, ApplyFails, Stop
    <3>2. lock # Free /\ done = "none" /\ Informed(cmd[p]) /\ cmd[p] \in Cmds
      BY <3>1, OneRuns, SetupAssumption DEF Reported
    <3>3. CASE Doctor(p)
      <4>1. lock' = Free /\ (done' = "none" \/ Healthy) /\ UNCHANGED <<file, state>>
        BY <3>3 DEF Doctor, Finish, disk
      <4>2. CASE Healthy
        <5>1. /\ IsInstalled /\ source \in 1..Len(Release)
              /\ \A a \in DOMAIN state.installed :
                   file[a] = state.installed[a] /\ state.installed[a] = Release[source][a]
          BY <4>2 DEF Healthy, Inv, TypeOK
        <5> QED
          BY <4>1, <5>1 DEF Reported, SuccessIsOneRelease, IsInstalled
      <4> QED
        BY <4>1, <4>2 DEF Reported, SuccessIsOneRelease
    <3>4. CASE RestoreOldState(p) \/ RestoreState(p)
      <4>1. lock' = Free /\ done' \in {"none", "rollback"}
        BY <3>2, <3>4 DEF RestoreOldState, RestoreState, Finish, Informed
      <4> QED
        BY <4>1 DEF Reported, SuccessIsOneRelease
    <3>5. CASE ~(Doctor(p) \/ RestoreOldState(p) \/ RestoreState(p))
      <4>1. done' = "none"
        BY <2>3, <3>2, <3>5
           DEF Step, Refuse, Refuses, Validate, Preview, CompareTarget, ListAssets, WriteAsset, WriteMigrated, RetireOld,
           WriteState, SourceGone, UndoAsset, UndoState, UndoMigration, CopyTree, TreeIsBack,
           RestoreAgent, DoctorUndoes, BeginRollback, RestoreAsset, RemoveAsset,
           TargetsAreRemoved, ApplyFails, Stop, Finish
      <4> QED
        BY <2>2, <4>1
    <3> QED
      BY <3>3, <3>4, <3>5
  <2> QED
    BY <2>1, <2>2, <2>3 DEF Next, Start, StartBusy, Checkout, UserEdits, UserEditsOldTree, vars, disk
<1> QED
  BY <1>1, <1>2, CommandsAreHarmless, PTL DEF Spec

(* A command that reports success leaves the assets of one release on disk  *)
(* (apply's Doctor after the state is written, migrate's own), even when    *)
(* the checkout moved while it ran.                                         *)
THEOREM SuccessMeansOneRelease == Spec => []SuccessIsOneRelease
<1>1. Reported => SuccessIsOneRelease
  BY DEF Reported
<1> QED
  BY <1>1, SuccessIsReported, PTL

-----------------------------------------------------------------------------
(* What the handlers rely on: targets that are not written are as they were  *)
(* before, and the backups of the others hold what was there.  A skill file   *)
(* that migrate lists without having compared it is beyond its handler.       *)
UndoableApply(c) ==
  /\ c.written \cap c.assets = {}
  /\ \A a \in Assets \ c.written : file[a] = c.before[a]
  /\ \A a \in DOMAIN c.previous : c.previous[a] = c.before[a]

UndoableMigrate(c) ==
  /\ \A a \in DOMAIN c.previous : c.previous[a] = c.before[a]
  /\ \A a \in Assets \ (DOMAIN c.previous \cup (Unplanned(c) \cap Skills)) :
       /\ a \in c.assets \cup c.written => c.before[a] = Absent
       /\ a \notin c.written => file[a] = c.before[a]
  /\ c.pc = "write" /\ c.assets # {} => legacy = c.tree
  /\ c.pc = "doctor" => legacy = NoTree
  /\ c.pc = "undo" => legacy \in {NoTree, c.tree} \/ c.torn
  /\ c.pc \in {"tree", "agents"} => c.written = {}
  /\ c.pc = "agents" => legacy = c.tree \/ c.torn

Undoable(c) ==
  /\ c.op \in {"install", "migrate"} /\ c.pc \notin Planning => c.before \in [Assets -> Files]
  /\ c.op = "install" /\ c.pc \in {"write", "undo"} => UndoableApply(c)
  /\ c.op = "migrate" /\ c.pc \notin Planning => UndoableMigrate(c)
  /\ c.op = "migrate" /\ c.pc = "compare" =>
       \A a \in (c.planned \ c.assets) \cap Skills : file[a] = Absent

UndoInv == \A p \in Procs : Undoable(cmd[p])

LEMMA IdleIsUndoable == Undoable(Idle)
  BY DEF Undoable, Idle

\* One command at a time, again.
LEMMA OneToUndo ==
  ASSUME Inv, Inv', NEW p \in Procs, cmd[p].pc # "idle", Undoable(cmd[p])',
         \A q \in Procs \ {p} : cmd'[q] = cmd[q]
  PROVE  UndoInv'
<1>1. \A q \in Procs \ {p} : cmd[q] = Idle
  BY OneRuns DEF Inv
<1>2. ASSUME NEW q \in Procs \ {p}
      PROVE  Undoable(cmd[q])'
  BY <1>1, <1>2 DEF Undoable, Idle
<1> QED
  BY <1>2 DEF UndoInv

LEMMA PlanIsUndoable ==
  ASSUME Inv, UndoInv, NEW p \in Procs,
         Validate(p) \/ Preview(p) \/ CompareTarget(p) \/ BeginRollback(p)
  PROVE  Undoable(cmd[p])'
<1>1. /\ cmd \in [Procs -> Cmds] /\ Undoable(cmd[p]) /\ UNCHANGED <<file, legacy>>
  BY DEF Validate, Preview, CompareTarget, BeginRollback, disk, Inv, TypeOK, UndoInv
<1>2. CASE Validate(p)
  <2>1. PICK op \in Commands : cmd' = [cmd EXCEPT ![p].pc = "preview", ![p].op = op]
    BY <1>2 DEF Validate, Commands
  <2>2. cmd'[p].pc = "preview"
    BY <1>1, <2>1 DEF Cmds
  <2> QED
    BY <2>2 DEF Undoable, Planning
<1>3. CASE Preview(p)
  <2>1. cmd'[p].pc = "compare" /\ cmd'[p].assets = managed_assets /\ cmd'[p].planned = managed_assets
    BY <1>1, <1>3 DEF Preview, Cmds
  <2> QED
    BY <2>1 DEF Undoable, Planning
<1>4. CASE CompareTarget(p)
  <2>1. PICK a \in cmd[p].assets : /\ ~Blocked(cmd[p].op, a)
                                   /\ cmd' = [cmd EXCEPT ![p].assets = @ \ {a}]
    BY <1>4 DEF CompareTarget
  <2>2. cmd[p].pc = "compare"
    BY <1>4 DEF CompareTarget
  <2>3. /\ cmd'[p].pc = "compare" /\ cmd'[p].op = cmd[p].op
        /\ cmd'[p].assets = cmd[p].assets \ {a} /\ cmd'[p].planned = cmd[p].planned
    <3>1. cmd'[p] = [cmd[p] EXCEPT !.assets = @ \ {a}] /\ cmd[p] \in Cmds
      BY <1>1, <2>1
    <3> QED
      BY <2>2, <3>1 DEF Cmds
  <2>4. cmd[p].op = "migrate" /\ a \in Skills => file[a] = Absent
    BY <2>1 DEF Blocked, TargetConflict, Skills
  <2> QED
    BY <1>1, <2>2, <2>3, <2>4 DEF Undoable, Planning
<1>5. CASE BeginRollback(p)
  <2>1. cmd'[p].op = "rollback"
    BY <1>1, <1>5 DEF BeginRollback, Cmds
  <2> QED
    BY <2>1 DEF Undoable
<1> QED
  BY <1>2, <1>3, <1>4, <1>5

LEMMA ListIsUndoable ==
  ASSUME Inv, UndoInv, NEW p \in Procs, ListAssets(p)
  PROVE  Undoable(cmd[p])'
<1>1. /\ cmd[p].pc = "compare" /\ cmd[p].assets = {} /\ cmd[p] \in Cmds /\ Blank(cmd[p])
      /\ Undoable(cmd[p]) /\ file \in [Assets -> Files] /\ UNCHANGED <<file, legacy>>
  BY OneRuns DEF ListAssets, Informed, Planning, disk, Inv, TypeOK, UndoInv
<1> DEFINE c == cmd'[p]
           op == cmd[p].op
           n == [cmd[p] EXCEPT !.pc = "write", !.assets = managed_assets,
                               !.listed = managed_assets, !.previous = FirstBackups(op), !.old = state,
                               !.tree = IF op = "migrate" THEN legacy ELSE NoTree,
                               !.before = IF op = "update" THEN Empty ELSE file]
<1>2. c = n
  BY DEF ListAssets, Inv, TypeOK
<1>3. /\ c.op = op /\ c.pc = "write" /\ c.written = {} /\ c.planned = cmd[p].planned
      /\ c.assets = managed_assets /\ c.listed = managed_assets
      /\ c.previous = FirstBackups(op)
      /\ op = "migrate" => c.tree = legacy
      /\ op \in {"install", "migrate"} => c.before = file
  BY <1>1, <1>2 DEF Cmds, Blank
<1>4. CASE op = "install"
  <2>1. DOMAIN c.previous = {}
    BY <1>3, <1>4, NothingIsClean DEF FirstBackups
  <2> QED
    BY <1>1, <1>3, <1>4, <2>1 DEF Undoable, UndoableApply
<1>5. CASE op = "migrate"
  <2>1. /\ \A a \in DOMAIN c.previous : c.previous[a] = file[a]
        /\ \A a \in (managed_assets \cap Agents) \ DOMAIN c.previous : file[a] = Absent
    BY <1>3, <1>5 DEF FirstBackups, agent_backups
  <2>2. \A a \in cmd[p].planned \cap Skills : file[a] = Absent
    BY <1>1, <1>5 DEF Undoable
  <2>3. \A a \in managed_assets \ (DOMAIN c.previous \cup (Unplanned(c) \cap Skills)) : file[a] = Absent
    <3>1. \A a \in managed_assets : a \in Agents \/ a \in Skills
      BY DEF managed_assets, Skills
    <3> QED
      BY <1>3, <2>1, <2>2, <3>1 DEF Unplanned
  <2> QED
    BY <1>1, <1>3, <1>5, <2>1, <2>3 DEF Undoable, UndoableMigrate, Planning
<1>6. CASE op \notin {"install", "migrate"}
  BY <1>3, <1>6 DEF Undoable
<1> QED
  BY <1>4, <1>5, <1>6

LEMMA WriteIsUndoable ==
  ASSUME Inv, UndoInv, NEW p \in Procs, WriteAsset(p) \/ WriteMigrated(p)
  PROVE  Undoable(cmd[p])'
<1>1. /\ cmd \in [Procs -> Cmds] /\ file \in [Assets -> Files] /\ Undoable(cmd[p])
      /\ cmd[p].pc = "write" /\ UNCHANGED legacy
  BY DEF WriteAsset, WriteMigrated, Inv, TypeOK, UndoInv
<1>2. CASE WriteAsset(p)
  <2>1. PICK a \in cmd[p].assets : WriteAsset(p)!2!(a)
    BY <1>2 DEF WriteAsset
  <2> DEFINE text == Release[source][a]
             written == IF file[a] = text THEN cmd[p].written ELSE cmd[p].written \cup {a}
             n == [cmd[p] EXCEPT !.assets = @ \ {a}, !.previous = Backed(cmd[p].previous, a),
                                 !.written = written]
             c == cmd'[p]
  <2>a. c = n /\ file' = [file EXCEPT ![a] = text] /\ cmd[p].op # "migrate"
    BY <1>1, <1>2, <2>1 DEF WriteAsset
  <2>2. /\ a \in Assets /\ file' = [file EXCEPT ![a] = text]
        /\ c.pc = cmd[p].pc /\ c.op = cmd[p].op /\ c.before = cmd[p].before
        /\ c.assets = cmd[p].assets \ {a}
        /\ c.previous = Backed(cmd[p].previous, a)
        /\ c.written = IF file[a] = text THEN cmd[p].written ELSE cmd[p].written \cup {a}
        /\ cmd[p].op # "migrate"
    BY <1>1, <2>a, OneRuns DEF Cmds
  <2>3. CASE cmd[p].op = "install"
    <3>1. UndoableApply(cmd[p]) /\ cmd[p].before \in [Assets -> Files]
      BY <1>1, <2>3 DEF Undoable, Planning
    <3>2. /\ a \notin cmd[p].written /\ file[a] = cmd[p].before[a]
      BY <2>2, <3>1 DEF UndoableApply
    <3>3. \A b \in DOMAIN c.previous : c.previous[b] = cmd[p].before[b]
      BY <2>2, <3>1, <3>2 DEF UndoableApply, Backed
    <3>4. \A b \in Assets \ c.written : file'[b] = cmd[p].before[b]
      BY <1>1, <2>2, <3>1, <3>2 DEF UndoableApply
    <3>5. c.written \cap c.assets = {}
      BY <2>2, <3>1 DEF UndoableApply
    <3> QED
      BY <2>2, <2>3, <3>1, <3>3, <3>4, <3>5 DEF Undoable, UndoableApply
  <2> QED
    BY <2>2, <2>3 DEF Undoable
<1>3. CASE WriteMigrated(p)
  <2>1. PICK a \in cmd[p].assets :
          /\ file' = [file EXCEPT ![a] = Release[source][a]]
          /\ cmd' = [cmd EXCEPT ![p].assets = @ \ {a}, ![p].written = @ \cup {a}]
    BY <1>3 DEF WriteMigrated
  <2> DEFINE n == [cmd[p] EXCEPT !.assets = @ \ {a}, !.written = @ \cup {a}]
             c == cmd'[p]
  <2>a. c = n /\ cmd[p].op = "migrate"
    BY <1>1, <1>3, <2>1 DEF WriteMigrated
  <2>2. /\ a \in Assets /\ cmd[p].op = "migrate" /\ Unplanned(c) = Unplanned(cmd[p])
        /\ c.pc = cmd[p].pc /\ c.op = cmd[p].op /\ c.before = cmd[p].before
        /\ c.assets = cmd[p].assets \ {a} /\ c.written = cmd[p].written \cup {a}
        /\ c.previous = cmd[p].previous /\ c.tree = cmd[p].tree
    BY <1>1, <2>a, OneRuns DEF Cmds, Unplanned
  <2>3. UndoableMigrate(cmd[p]) /\ cmd[p].before \in [Assets -> Files]
    BY <1>1, <2>2 DEF Undoable, Planning
  <2> QED
    BY <1>1, <2>1, <2>2, <2>3 DEF Undoable, UndoableMigrate, Planning
<1> QED
  BY <1>2, <1>3

LEMMA UndoAssetIsUndoable ==
  ASSUME Inv, UndoInv, NEW p \in Procs, UndoAsset(p)
  PROVE  Undoable(cmd[p])'
<1>1. /\ cmd \in [Procs -> Cmds] /\ file \in [Assets -> Files] /\ Undoable(cmd[p])
      /\ cmd[p].pc = "undo" /\ cmd[p] \in Cmds /\ UNCHANGED legacy
  BY DEF UndoAsset, Inv, TypeOK, UndoInv
<1>2. PICK a \in cmd[p].written :
        /\ file' = [file EXCEPT ![a] =
                      IF cmd[p].op = "migrate" THEN Absent ELSE cmd[p].previous[a]]
        /\ cmd' = [cmd EXCEPT ![p].written = @ \ {a}]
  BY DEF UndoAsset
<1> DEFINE n == [cmd[p] EXCEPT !.written = @ \ {a}]
           c == cmd'[p]
<1>3. c = n
  BY <1>1, <1>2
<1>4. /\ a \in Assets /\ c.pc = cmd[p].pc /\ c.op = cmd[p].op /\ c.before = cmd[p].before
      /\ c.assets = cmd[p].assets /\ c.written = cmd[p].written \ {a}
      /\ c.previous = cmd[p].previous /\ c.tree = cmd[p].tree /\ c.torn = cmd[p].torn
      /\ Unplanned(c) = Unplanned(cmd[p])
  BY <1>1, <1>3, OneRuns DEF Cmds, Unplanned
<1>5. CASE cmd[p].op = "install"
  <2>1. a \in DOMAIN cmd[p].previous /\ UndoableApply(cmd[p])
    BY <1>1, <1>5, OneRuns DEF Informed, Undoable
  <2> QED
    BY <1>1, <1>2, <1>4, <1>5, <2>1 DEF Undoable, UndoableApply, Planning
<1>6. CASE cmd[p].op = "migrate"
  <2>1. UndoableMigrate(cmd[p]) /\ cmd[p].before \in [Assets -> Files]
    BY <1>6, <1>1 DEF Undoable, Planning
  <2> QED
    BY <1>1, <1>2, <1>4, <1>6, <2>1 DEF Undoable, UndoableMigrate, Planning
<1> QED
  BY <1>1, <1>4, <1>5, <1>6 DEF Undoable, Planning

\* Steps that move on to another part of a command.
LEMMA MoveIsUndoable ==
  ASSUME Inv, UndoInv, NEW p \in Procs,
         \/ WriteState(p) \/ ApplyFails(p) \/ SourceGone(p) \/ UndoMigration(p)
         \/ TreeIsBack(p) \/ DoctorUndoes(p)
  PROVE  Undoable(cmd[p])'
<1>1. /\ cmd \in [Procs -> Cmds] /\ Undoable(cmd[p]) /\ cmd[p].pc # "idle"
      /\ UNCHANGED <<file, legacy>>
  BY DEF WriteState, FilesAreWritten, ApplyFails, SourceGone, UndoMigration, TreeIsBack,
     DoctorUndoes, disk, Inv, TypeOK, UndoInv
<1> DEFINE c == cmd'[p]
<1>2. PICK pc \in Steps, torn \in BOOLEAN :
        /\ cmd' = [cmd EXCEPT ![p] = [cmd[p] EXCEPT !.pc = pc, !.torn = torn]]
        /\ pc = "doctor" => WriteState(p)
        /\ pc = "undo" => ApplyFails(p) \/ SourceGone(p) \/ DoctorUndoes(p)
        /\ pc \in {"tree", "agents"} =>
             \/ UndoMigration(p) /\ (pc = "agents" => legacy # NoTree)
             \/ TreeIsBack(p)
        /\ pc \in {"doctor", "undo", "tree", "agents"}
        /\ torn = IF ApplyFails(p)
                  THEN cmd[p].op = "migrate" /\ legacy \notin {NoTree, cmd[p].tree}
                  ELSE cmd[p].torn
  <2>1. cmd[p] \in Cmds /\ cmd[p].torn \in BOOLEAN
    BY <1>1 DEF Cmds
  <2>2. \A pc \in Steps : [cmd[p] EXCEPT !.pc = pc] = [cmd[p] EXCEPT !.pc = pc, !.torn = cmd[p].torn]
    BY <2>1 DEF Cmds
  <2>3. CASE ApplyFails(p)
    BY <1>1, <2>1, <2>3 DEF ApplyFails, Steps
  <2>4. CASE ~ApplyFails(p) /\ WriteState(p)
    BY <1>1, <2>1, <2>2, <2>4 DEF WriteState, Steps
  <2>5. CASE ~ApplyFails(p) /\ (SourceGone(p) \/ DoctorUndoes(p))
    BY <1>1, <2>1, <2>2, <2>5 DEF SourceGone, DoctorUndoes, Steps
  <2>6. CASE ~ApplyFails(p) /\ (UndoMigration(p) \/ TreeIsBack(p))
    BY <1>1, <2>1, <2>2, <2>6 DEF UndoMigration, TreeIsBack, Steps
  <2> QED
    BY <2>3, <2>4, <2>5, <2>6
<1>3. /\ Unplanned(c) = Unplanned(cmd[p])
      /\ c.pc = pc /\ c.torn = torn /\ c.op = cmd[p].op /\ c.before = cmd[p].before
      /\ c.assets = cmd[p].assets /\ c.written = cmd[p].written
      /\ c.previous = cmd[p].previous /\ c.tree = cmd[p].tree
  <2>1. c = [cmd[p] EXCEPT !.pc = pc, !.torn = torn] /\ cmd[p] \in Cmds
    BY <1>1, <1>2
  <2> QED
    BY <2>1 DEF Cmds, Unplanned
<1>a. cmd[p].pc \notin Planning
  BY DEF WriteState, FilesAreWritten, ApplyFails, SourceGone, UndoMigration, TreeIsBack,
     DoctorUndoes, Planning
<1>4. CASE cmd[p].op = "install"
  <2>1. pc = "undo" => cmd[p].pc = "write"
    BY <1>2, <1>4 DEF ApplyFails, SourceGone, FilesAreWritten, DoctorUndoes
  <2>2. pc # "write"
    BY <1>2
  <2> QED
    BY <1>1, <1>2, <1>3, <1>4, <1>a, <2>1, <2>2 DEF Undoable, UndoableApply, Planning
<1>5. CASE cmd[p].op = "migrate"
  <2>1. UndoableMigrate(cmd[p]) /\ cmd[p].before \in [Assets -> Files]
    BY <1>1, <1>5, <1>a DEF Undoable
  <2>2. pc = "doctor" => legacy = NoTree
    BY <1>2, <1>5 DEF WriteState, FilesAreWritten
  <2>3. pc = "undo" => legacy \in {NoTree, cmd[p].tree} \/ torn
    <3>1. CASE ApplyFails(p)
      BY <1>2, <1>5, <3>1
    <3>2. CASE SourceGone(p)
      <4>1. legacy = NoTree \/ (cmd[p].pc = "write" /\ cmd[p].assets # {})
        BY <1>5, <3>2 DEF SourceGone, FilesAreWritten, Readable
      <4> QED
        BY <2>1, <4>1 DEF UndoableMigrate
    <3>3. CASE DoctorUndoes(p)
      BY <2>1, <3>3 DEF DoctorUndoes, UndoableMigrate
    <3> QED
      BY <1>2, <3>1, <3>2, <3>3
  <2>4. pc \in {"tree", "agents"} => cmd[p].written = {}
    <3>1. CASE UndoMigration(p)
      BY <3>1 DEF UndoMigration
    <3>2. CASE TreeIsBack(p)
      BY <2>1, <3>2 DEF TreeIsBack, UndoableMigrate
    <3> QED
      BY <1>2, <3>1, <3>2
  <2>5. pc = "agents" => legacy = cmd[p].tree \/ torn
    <3>1. CASE UndoMigration(p) /\ legacy # NoTree /\ ~ApplyFails(p)
      BY <1>2, <2>1, <3>1 DEF UndoMigration, UndoableMigrate
    <3>2. CASE TreeIsBack(p)
      BY <3>2 DEF TreeIsBack
    <3>3. UndoMigration(p) => ~ApplyFails(p)
      BY DEF UndoMigration, ApplyFails
    <3> QED
      BY <1>2, <3>1, <3>2, <3>3
  <2>6. pc # "write" /\ pc \notin Planning /\ pc # "compare"
    BY <1>2 DEF Planning
  <2> QED
    BY <1>1, <1>3, <1>5, <2>1, <2>2, <2>3, <2>4, <2>5, <2>6 DEF Undoable, UndoableMigrate
<1> QED
  BY <1>1, <1>2, <1>3, <1>4, <1>5 DEF Undoable

\* Steps that change only the old tree, or restore an agent.
LEMMA RestoreIsUndoable ==
  ASSUME Inv, UndoInv, NEW p \in Procs, RetireOld(p) \/ CopyTree(p) \/ RestoreAgent(p)
  PROVE  Undoable(cmd[p])'
<1>1. /\ Undoable(cmd[p]) /\ file \in [Assets -> Files] /\ UNCHANGED cmd
  BY DEF RetireOld, CopyTree, RestoreAgent, Inv, TypeOK, UndoInv
<1>2. CASE RetireOld(p)
  BY <1>1, <1>2 DEF RetireOld, Undoable, UndoableMigrate, Planning, Unplanned
<1>3. CASE CopyTree(p)
  <2>1. cmd[p].op # "install"
    BY <1>3, OneRuns DEF CopyTree, Informed
  <2> QED
    BY <1>1, <1>3, <2>1 DEF CopyTree, Undoable, UndoableMigrate, Planning, Unplanned
<1>4. CASE RestoreAgent(p)
  <2>1. cmd[p].op # "install"
    BY <1>4, OneRuns DEF RestoreAgent, Informed
  <2>2. PICK a \in DOMAIN cmd[p].previous : file' = [file EXCEPT ![a] = cmd[p].previous[a]]
    BY <1>4 DEF RestoreAgent
  <2> QED
    BY <1>1, <1>4, <2>1, <2>2 DEF RestoreAgent, Undoable, UndoableMigrate, Planning, Unplanned
<1> QED
  BY <1>2, <1>3, <1>4

LEMMA RollbackIsUndoable ==
  ASSUME Inv, NEW p \in Procs, RestoreAsset(p) \/ RemoveAsset(p) \/ TargetsAreRemoved(p)
  PROVE  Undoable(cmd[p])'
<1>1. /\ cmd[p].op = "rollback" /\ cmd[p] \in Cmds /\ cmd \in [Procs -> Cmds]
  BY OneRuns DEF RestoreAsset, RemoveAsset, TargetsAreRemoved, Informed, Inv, TypeOK
<1>2. cmd'[p].op = "rollback"
  <2>1. CASE TargetsAreRemoved(p)
    BY <1>1, <2>1 DEF TargetsAreRemoved, Cmds
  <2>2. CASE RestoreAsset(p) \/ RemoveAsset(p)
    <3>1. PICK a : cmd' = [cmd EXCEPT ![p].assets = @ \ {a}]
      BY <2>2 DEF RestoreAsset, RemoveAsset
    <3>2. cmd'[p] = [cmd[p] EXCEPT !.assets = @ \ {a}]
      BY <1>1, <3>1
    <3> QED
      BY <1>1, <3>2 DEF Cmds
  <2> QED
    BY <2>1, <2>2
<1> QED
  BY <1>2 DEF Undoable

LEMMA StaysUndoable ==
  ASSUME Inv, UndoInv, [Next]_vars
  PROVE  UndoInv'
<1>1. Inv'
  BY NextKeeps
<1>2. CASE UNCHANGED <<file, legacy, cmd>>
  <2>1. ASSUME NEW q \in Procs PROVE Undoable(cmd[q])'
    <3>1. Undoable(cmd[q])
      BY DEF UndoInv
    <3> QED
      BY <1>2, <3>1 DEF Undoable, UndoableApply, UndoableMigrate, Unplanned
  <2> QED
    BY <2>1 DEF UndoInv
<1>3. CASE lock = Free /\ UNCHANGED cmd
  <2>1. \A q \in Procs : cmd'[q] = Idle
    BY <1>3, SetupAssumption DEF Inv
  <2> QED
    BY <2>1 DEF UndoInv, Undoable, Idle
<1>4. ASSUME NEW p \in Procs, Start(p)
      PROVE  UndoInv'
  <2>1. \A q \in Procs : cmd[q] = Idle /\ cmd \in [Procs -> Cmds]
    BY <1>4, SetupAssumption DEF Start, LockIsFree, Inv, TypeOK
  <2>2. \A q \in Procs : cmd'[q] \in {Idle, Checking}
    BY <1>4, <2>1 DEF Start, Checking
  <2>3. Idle.op = "none" /\ Checking.op = "none"
    BY DEF Idle, Checking
  <2> QED
    BY <2>2, <2>3 DEF UndoInv, Undoable
<1>5. ASSUME NEW p \in Procs, NEW result, Finish(p, result), cmd[p].pc # "idle"
      PROVE  UndoInv'
  <2>1. \A q \in Procs : cmd'[q] = Idle
    BY <1>5, OneRuns DEF Finish, Inv, TypeOK
  <2> QED
    BY <2>1 DEF UndoInv, Undoable, Idle
<1>6. ASSUME NEW p \in Procs, Step(p) \/ ApplyFails(p) \/ Stop(p)
      PROVE  UndoInv'
  <2>1. CASE Refuse(p) \/ UndoState(p) \/ RestoreOldState(p) \/ Doctor(p) \/ RestoreState(p) \/ Stop(p)
    BY <1>5, <2>1 DEF Refuse, Refuses, UndoState, RestoreOldState, Doctor, RestoreState, Stop
  <2>2. CASE \/ Validate(p) \/ Preview(p) \/ CompareTarget(p) \/ ListAssets(p) \/ BeginRollback(p)
             \/ WriteAsset(p) \/ WriteMigrated(p) \/ UndoAsset(p)
             \/ WriteState(p) \/ ApplyFails(p) \/ SourceGone(p) \/ UndoMigration(p)
             \/ TreeIsBack(p) \/ DoctorUndoes(p)
             \/ RetireOld(p) \/ CopyTree(p) \/ RestoreAgent(p)
             \/ RestoreAsset(p) \/ RemoveAsset(p) \/ TargetsAreRemoved(p)
    <3>1. Undoable(cmd[p])'
      BY <2>2, PlanIsUndoable, ListIsUndoable, WriteIsUndoable, UndoAssetIsUndoable, MoveIsUndoable,
         RestoreIsUndoable, RollbackIsUndoable
    <3>2. cmd[p].pc # "idle"
      BY <2>2 DEF Validate, Preview, CompareTarget, ListAssets, WriteAsset, WriteMigrated, RetireOld,
         WriteState, FilesAreWritten, SourceGone, UndoAsset, UndoMigration, CopyTree,
         TreeIsBack, RestoreAgent, DoctorUndoes, BeginRollback,
         RestoreAsset, RemoveAsset, TargetsAreRemoved, ApplyFails
    <3>3. \A q \in Procs \ {p} : cmd'[q] = cmd[q]
      <4>1. cmd \in [Procs -> Cmds]
        BY DEF Inv, TypeOK
      <4>2. CASE Validate(p) \/ Preview(p) \/ CompareTarget(p) \/ ListAssets(p) \/ BeginRollback(p)
        BY <4>1, <4>2 DEF Validate, Preview, CompareTarget, ListAssets, BeginRollback
      <4>3. CASE WriteAsset(p) \/ WriteMigrated(p) \/ UndoAsset(p) \/ RestoreAsset(p) \/ RemoveAsset(p)
        BY <4>1, <4>3 DEF WriteAsset, WriteMigrated, UndoAsset, RestoreAsset, RemoveAsset
      <4>4. CASE \/ WriteState(p) \/ ApplyFails(p) \/ SourceGone(p) \/ UndoMigration(p)
                 \/ TreeIsBack(p) \/ DoctorUndoes(p) \/ TargetsAreRemoved(p)
        BY <4>1, <4>4 DEF WriteState, ApplyFails, SourceGone, UndoMigration, TreeIsBack,
           DoctorUndoes, TargetsAreRemoved
      <4>5. CASE RetireOld(p) \/ CopyTree(p) \/ RestoreAgent(p)
        BY <4>5 DEF RetireOld, CopyTree, RestoreAgent
      <4> QED
        BY <2>2, <4>2, <4>3, <4>4, <4>5
    <3> QED
      BY <1>1, <3>1, <3>2, <3>3, OneToUndo
  <2> QED
    BY <1>6, <2>1, <2>2 DEF Step
<1>7. CASE UNCHANGED vars \/ Checkout \/ (\E p \in Procs : StartBusy(p))
  BY <1>2, <1>7 DEF vars, disk, Checkout, StartBusy
<1>8. CASE UserEditsOldTree \/ \E a \in Assets, text \in UserTexts \cup {Absent} : UserEdits(a, text)
  BY <1>3, <1>8 DEF UserEditsOldTree, UserEdits
<1> QED
  BY <1>4, <1>6, <1>7, <1>8 DEF Next

(* The exception handlers of apply and migrate undo what their command did:  *)
(* an install that failed has changed nothing, and a migration has not,      *)
(* unless the removal of the old tree failed when it had begun, or the       *)
(* checkout got a skill file between the plan and the second list of assets.  *)
THEOREM FailuresAreUndone == Spec => FailedInstallIsUndone
<1>1. Init => UndoInv
  <2>1. Init => \A q \in Procs : cmd[q] = Idle
    BY DEF Init
  <2> QED
    BY <2>1, IdleIsUndoable DEF UndoInv, Undoable
<1>2. Inv /\ UndoInv /\ [Next]_vars => UndoInv'
  BY StaysUndoable
<1>3. Inv /\ UndoInv =>
        \A p \in Procs :
          /\ UndoState(p) /\ cmd[p].op = "install" => file' = cmd[p].before
          /\ RestoreOldState(p) /\ cmd[p].op = "migrate" =>
               /\ \A a \in Assets \ (Unplanned(cmd[p]) \cap Skills) : file'[a] = cmd[p].before[a]
               /\ legacy' = cmd[p].tree \/ cmd[p].torn
  <2> SUFFICES ASSUME Inv, UndoInv, NEW p \in Procs
               PROVE  /\ UndoState(p) /\ cmd[p].op = "install" => file' = cmd[p].before
                      /\ RestoreOldState(p) /\ cmd[p].op = "migrate" =>
                           /\ \A a \in Assets \ (Unplanned(cmd[p]) \cap Skills) :
                                file'[a] = cmd[p].before[a]
                           /\ legacy' = cmd[p].tree \/ cmd[p].torn
    OBVIOUS
  <2>1. file \in [Assets -> Files] /\ Undoable(cmd[p])
    BY DEF Inv, TypeOK, UndoInv
  <2>2. CASE UndoState(p) /\ cmd[p].op = "install"
    <3>1. /\ file' = file /\ cmd[p].before \in [Assets -> Files]
          /\ \A a \in Assets : file[a] = cmd[p].before[a]
      BY <2>1, <2>2 DEF UndoState, Undoable, UndoableApply, Planning, disk
    <3>2. file' = cmd[p].before
      BY <2>1, <3>1
    <3> QED
      BY <2>2, <3>2
  <2>3. CASE RestoreOldState(p) /\ cmd[p].op = "migrate"
    <3>1. /\ file' = file /\ legacy' = legacy /\ cmd[p].before \in [Assets -> Files]
          /\ UndoableMigrate(cmd[p]) /\ cmd[p].pc = "agents"
          /\ \A a \in DOMAIN cmd[p].previous : file[a] = cmd[p].previous[a]
      BY <2>1, <2>3 DEF RestoreOldState, Undoable, Planning, disk
    <3>2. \A a \in Assets \ (Unplanned(cmd[p]) \cap Skills) : file[a] = cmd[p].before[a]
      BY <3>1 DEF UndoableMigrate
    <3>3. legacy' = cmd[p].tree \/ cmd[p].torn
      BY <3>1 DEF UndoableMigrate
    <3> QED
      BY <2>3, <3>1, <3>2, <3>3
  <2> QED
    BY <2>2, <2>3
<1> QED
  BY <1>1, <1>2, <1>3, CommandsAreHarmless, PTL DEF Spec, FailedInstallIsUndone

-----------------------------------------------------------------------------
(* While the checkout stays, what an apply that is under way has checked still *)
(* holds, and from when it has listed its assets it passes its own checks      *)
(* again, and has written the targets it has visited.                          *)
Applies(c) == c.op \in {"install", "update"} /\ c.pc \in Planning \cup {"write", "doctor"}

Cleared(c) ==
  /\ c.op = "update" => MayUpdate
  /\ c.pc = "compare" =>
       c.planned = managed_assets /\ \A a \in c.planned \ c.assets : ~Conflict(a)

Rewrites(c) ==
  /\ MayApply(c.op)
  /\ c.listed = managed_assets /\ DOMAIN c.previous \subseteq managed_assets
  /\ \A a \in managed_assets \ c.assets : file[a] = Release[source][a]

Repeatable(c) == IF c.pc \in Planning THEN Cleared(c) ELSE Rewrites(c)

RetryInv ==
  /\ interrupted # "none" => lock = Free /\ (disturbed \/ MayApply(interrupted))
  /\ \A p \in Procs : Applies(cmd[p]) => disturbed \/ Repeatable(cmd[p])

\* Nothing that the checks look at has changed.
LEMMA ChecksAreTheSame ==
  ASSUME UNCHANGED <<file, legacy, state, source>>
  PROVE  /\ managed_assets' = managed_assets /\ MayUpdate' = MayUpdate
         /\ \A a : Conflict(a) = Conflict(a)'
         /\ \A op : MayApply(op) = MayApply(op)'
  BY DEF MayApply, MayUpdate, StateIsValid, Conflict, Registered, IsInstalled, managed_assets

LEMMA PlanIsRepeatable ==
  ASSUME Inv, RetryInv, NEW p \in Procs,
         Validate(p) \/ Preview(p) \/ CompareTarget(p) \/ ListAssets(p),
         Applies(cmd[p])', ~disturbed
  PROVE  Repeatable(cmd[p])'
<1>1. /\ cmd \in [Procs -> Cmds] /\ cmd[p] \in Cmds
      /\ Applies(cmd[p]) => Repeatable(cmd[p])
      /\ UNCHANGED <<file, legacy, state, source>>
  BY DEF Validate, Preview, CompareTarget, ListAssets, disk, Inv, TypeOK, RetryInv
<1>2. /\ managed_assets' = managed_assets /\ MayUpdate' = MayUpdate
      /\ \A a : Conflict(a) = Conflict(a)'
      /\ \A op : MayApply(op) = MayApply(op)'
  BY <1>1, ChecksAreTheSame
<1>3. CASE Validate(p)
  <2>1. PICK op : Validate(p)!(op)
    BY <1>3 DEF Validate
  <2>2. cmd'[p].pc = "preview" /\ cmd'[p].op = op
    BY <1>1, <2>1 DEF Cmds
  <2> QED
    BY <1>2, <2>1, <2>2 DEF Repeatable, Cleared, Planning
<1>4. CASE Preview(p)
  <2>1. /\ cmd[p].pc = "preview" /\ cmd'[p].pc = "compare" /\ cmd'[p].op = cmd[p].op
        /\ cmd'[p].assets = managed_assets /\ cmd'[p].planned = managed_assets
    BY <1>1, <1>4 DEF Preview, Cmds
  <2>2. Cleared(cmd[p])
    BY <1>1, <2>1 DEF Applies, Repeatable, Planning
  <2> QED
    BY <1>2, <2>1, <2>2 DEF Repeatable, Cleared, Planning
<1>5. CASE CompareTarget(p)
  <2>1. PICK a \in cmd[p].assets : /\ ~Blocked(cmd[p].op, a)
                                   /\ cmd' = [cmd EXCEPT ![p].assets = @ \ {a}]
    BY <1>5 DEF CompareTarget
  <2>2. cmd[p].pc = "compare"
    BY <1>5 DEF CompareTarget
  <2>3. /\ cmd'[p].pc = "compare" /\ cmd'[p].op = cmd[p].op
        /\ cmd'[p].assets = cmd[p].assets \ {a} /\ cmd'[p].planned = cmd[p].planned
    <3>1. cmd'[p] = [cmd[p] EXCEPT !.assets = @ \ {a}]
      BY <1>1, <2>1
    <3> QED
      BY <1>1, <2>2, <3>1 DEF Cmds
  <2>4. Cleared(cmd[p]) /\ cmd[p].op # "migrate"
    BY <1>1, <2>2, <2>3 DEF Applies, Repeatable, Planning
  <2>5. ~Conflict(a)
    BY <2>1, <2>4 DEF Blocked
  <2> QED
    BY <1>2, <2>2, <2>3, <2>4, <2>5 DEF Repeatable, Cleared, Planning
<1>6. CASE ListAssets(p)
  <2> DEFINE op == cmd[p].op
             n == [cmd[p] EXCEPT !.pc = "write", !.assets = managed_assets,
                                 !.listed = managed_assets, !.previous = FirstBackups(op),
                                 !.old = state,
                                 !.tree = IF op = "migrate" THEN legacy ELSE NoTree,
                                 !.before = IF op = "update" THEN Empty ELSE file]
  <2>1. /\ cmd'[p] = n /\ cmd[p].pc = "compare" /\ cmd[p].assets = {}
        /\ op # "migrate" => legacy = NoTree
    BY <1>1, <1>6 DEF ListAssets
  <2>2. /\ cmd'[p].pc = "write" /\ cmd'[p].op = op /\ cmd'[p].assets = managed_assets
        /\ cmd'[p].listed = managed_assets /\ cmd'[p].previous = FirstBackups(op)
    BY <1>1, <2>1 DEF Cmds
  <2>3. Cleared(cmd[p]) /\ op \in {"install", "update"}
    BY <1>1, <2>1, <2>2 DEF Applies, Repeatable, Planning
  <2>4. MayApply(op)
    BY <2>1, <2>3 DEF Cleared, MayApply
  <2>5. DOMAIN FirstBackups(op) \subseteq managed_assets
    BY <2>3, NothingIsClean DEF FirstBackups, Cleared, MayUpdate, StateIsValid
  <2> QED
    BY <1>2, <2>2, <2>4, <2>5 DEF Repeatable, Rewrites, Planning
<1> QED
  BY <1>3, <1>4, <1>5, <1>6

LEMMA WriteIsRepeatable ==
  ASSUME Inv, NEW p \in Procs, WriteAsset(p), Repeatable(cmd[p])
  PROVE  Repeatable(cmd[p])'
<1>a. cmd[p].pc = "write" /\ Rewrites(cmd[p])
  BY DEF WriteAsset, Repeatable, Planning
<1>1. /\ UNCHANGED <<legacy, state, source>> /\ cmd \in [Procs -> Cmds]
      /\ file \in [Assets -> Files] /\ cmd[p] \in Cmds /\ cmd[p].pc # "idle"
  BY DEF WriteAsset, Inv, TypeOK
<1>2. PICK a \in cmd[p].assets : WriteAsset(p)!2!(a)
  BY DEF WriteAsset
<1>3. /\ a \in Assets /\ file' = [file EXCEPT ![a] = Release[source][a]]
      /\ cmd'[p].op = cmd[p].op /\ cmd'[p].assets = cmd[p].assets \ {a}
      /\ cmd'[p].pc = "write" /\ cmd'[p].listed = cmd[p].listed
      /\ DOMAIN cmd'[p].previous = DOMAIN cmd[p].previous \cup {a} /\ a \in managed_assets
  <2> DEFINE written == IF file[a] = Release[source][a] THEN cmd[p].written
                        ELSE cmd[p].written \cup {a}
             n == [cmd[p] EXCEPT !.assets = @ \ {a}, !.previous = Backed(cmd[p].previous, a),
                                 !.written = written]
  <2>1. cmd'[p] = n /\ file' = [file EXCEPT ![a] = Release[source][a]]
    BY <1>1, <1>2
  <2>2. a \in managed_assets /\ DOMAIN Backed(cmd[p].previous, a) = DOMAIN cmd[p].previous \cup {a}
    BY <1>2 DEF Readable, Backed
  <2> QED
    BY <1>1, <1>a, <2>1, <2>2, OneRuns DEF Cmds
<1>4. managed_assets' = managed_assets /\ managed_assets \subseteq Assets
  BY <1>1 DEF managed_assets
<1>5. \A b \in managed_assets : ~Conflict(b) => ~Conflict(b)'
  BY <1>1, <1>3, <1>4 DEF Conflict, Registered, IsInstalled
<1>6. MayApply(cmd[p].op)'
  BY <1>1, <1>3, <1>4, <1>5, <1>a DEF Rewrites, MayApply, MayUpdate, StateIsValid, IsInstalled
<1> QED
  BY <1>1, <1>3, <1>4, <1>6, <1>a DEF Repeatable, Rewrites, Planning

LEMMA WriteStateIsRepeatable ==
  ASSUME Inv, NEW p \in Procs, WriteState(p), Applies(cmd[p]), Repeatable(cmd[p])
  PROVE  Repeatable(cmd[p])'
<1>1. /\ UNCHANGED <<file, legacy, source>> /\ cmd[p].assets = {} /\ cmd[p] \in Cmds
      /\ cmd[p].pc = "write" /\ cmd'[p].pc = "doctor"
      /\ cmd'[p].op = cmd[p].op /\ cmd'[p].assets = cmd[p].assets
      /\ cmd'[p].listed = cmd[p].listed /\ cmd'[p].previous = cmd[p].previous
      /\ managed_assets' = managed_assets
  BY OneRuns DEF WriteState, FilesAreWritten, disk, Inv, TypeOK, Cmds, managed_assets
<1>a. Rewrites(cmd[p]) /\ cmd[p].op \in {"install", "update"}
  BY <1>1 DEF Repeatable, Applies, Planning
<1>2. DOMAIN cmd[p].previous = managed_assets /\ cmd[p].listed = managed_assets
  BY <1>1, <1>a, OneRuns DEF Rewrites, Informed
<1>3. /\ state'.status = "installed" /\ state'.root = "new"
      /\ DOMAIN state'.installed = managed_assets /\ DOMAIN state'.previous = managed_assets
      /\ state' # NoState
  <2>1. state' = [status |-> "installed", root |-> "new",
                  installed |-> [a \in cmd[p].listed |-> Release[source][a]],
                  previous |-> cmd[p].previous, migration |-> migration(p)]
    BY <1>a DEF WriteState
  <2>2. state' # NoState
    <3>1. state' \in OldStates \cup NewStates
      BY WrittenStates DEF States
    <3>2. NoState \notin OldStates \cup NewStates
      BY SetupAssumption
    <3> QED
      BY <3>1, <3>2
  <2> QED
    BY <1>2, <2>1, <2>2
<1>4. \A a \in managed_assets : ~Conflict(a)'
  BY <1>1, <1>a DEF Rewrites, Conflict
<1>5. MayApply(cmd[p].op)'
  BY <1>1, <1>3, <1>4, <1>a DEF Rewrites, MayApply, MayUpdate, StateIsValid, IsInstalled
<1> QED
  BY <1>1, <1>2, <1>5, <1>a DEF Repeatable, Rewrites, Planning

\* The steps after which the command does not apply, or not any more.
LEMMA AppliesNoMore ==
  ASSUME Inv, NEW p \in Procs,
         \/ BeginRollback(p) \/ WriteMigrated(p) \/ UndoAsset(p)
         \/ ApplyFails(p) \/ SourceGone(p) \/ UndoMigration(p) \/ TreeIsBack(p)
         \/ DoctorUndoes(p) \/ RetireOld(p) \/ CopyTree(p) \/ RestoreAgent(p)
         \/ RestoreAsset(p) \/ RemoveAsset(p) \/ TargetsAreRemoved(p)
  PROVE  cmd[p].pc # "idle" /\ ~Applies(cmd[p])'
<1>1. cmd \in [Procs -> Cmds]
  BY DEF Inv, TypeOK
<1>2. CASE BeginRollback(p)
  <2>1. cmd[p].pc = "check"
    BY <1>2 DEF BeginRollback
  <2>2. CASE state.migration = NoMigration
    BY <1>1, <1>2, <2>1, <2>2 DEF BeginRollback, Applies, Cmds
  <2>3. CASE state.migration # NoMigration
    BY <1>1, <1>2, <2>1, <2>3 DEF BeginRollback, Applies, Cmds
  <2> QED
    BY <2>2, <2>3
<1>3. CASE WriteMigrated(p) \/ UndoAsset(p) \/ RestoreAsset(p) \/ RemoveAsset(p)
  <2>1. \/ cmd[p].pc = "write" /\ cmd[p].op = "migrate"
        \/ cmd[p].pc \in {"undo", "restore", "remove"}
    BY <1>3 DEF WriteMigrated, UndoAsset, RestoreAsset, RemoveAsset
  <2>2. cmd'[p].pc = cmd[p].pc /\ cmd'[p].op = cmd[p].op
    <3>1. CASE WriteMigrated(p)
      BY <1>1, <3>1 DEF WriteMigrated, Cmds
    <3>2. CASE UndoAsset(p)
      BY <1>1, <3>2 DEF UndoAsset, Cmds
    <3>3. CASE RestoreAsset(p)
      BY <1>1, <3>3 DEF RestoreAsset, Cmds
    <3>4. CASE RemoveAsset(p)
      BY <1>1, <3>4 DEF RemoveAsset, Cmds
    <3> QED
      BY <1>3, <3>1, <3>2, <3>3, <3>4
  <2> QED
    BY <2>1, <2>2 DEF Applies, Planning
<1>4. CASE \/ ApplyFails(p) \/ SourceGone(p) \/ UndoMigration(p) \/ TreeIsBack(p)
           \/ DoctorUndoes(p) \/ TargetsAreRemoved(p)
  BY <1>1, <1>4 DEF ApplyFails, SourceGone, UndoMigration, TreeIsBack, DoctorUndoes,
     TargetsAreRemoved, FilesAreWritten, Applies, Planning, Cmds
<1>5. CASE RetireOld(p) \/ CopyTree(p) \/ RestoreAgent(p)
  BY <1>1, <1>5 DEF RetireOld, CopyTree, RestoreAgent, Applies, Planning, Cmds
<1> QED
  BY <1>2, <1>3, <1>4, <1>5

LEMMA StaysRepeatable ==
  ASSUME Inv, RetryInv, [Next]_vars
  PROVE  RetryInv'
<1>1. Inv'
  BY NextKeeps
<1>2. CASE UNCHANGED <<file, legacy, state, source, cmd, disturbed, interrupted, lock>>
  <2>1. ASSUME NEW q \in Procs, Repeatable(cmd[q]) PROVE Repeatable(cmd[q])'
    BY <1>2, <2>1, ChecksAreTheSame DEF Repeatable, Cleared, Rewrites
  <2>2. interrupted # "none" /\ MayApply(interrupted) => MayApply(interrupted)'
    BY <1>2, ChecksAreTheSame
  <2> QED
    BY <1>2, <2>1, <2>2 DEF RetryInv, Applies
<1>3. CASE interrupted' = "none" /\ \A q \in Procs : ~Applies(cmd'[q])
  BY <1>3 DEF RetryInv
\* A step of the command that runs, which does not end it.
<1>4. ASSUME NEW p \in Procs, cmd[p].pc # "idle", UNCHANGED <<lock, interrupted>>,
             Applies(cmd[p])' => disturbed' \/ Repeatable(cmd[p])'
      PROVE  RetryInv'
  <2>1. interrupted' = "none"
    BY <1>4, OneRuns, SetupAssumption DEF RetryInv
  <2>2. ASSUME NEW q \in Procs, Applies(cmd'[q]) PROVE q = p
    <3>1. cmd'[q] # Idle
      BY <2>2 DEF Applies, Planning, Idle
    <3>2. lock' = q /\ lock' = p
      BY <1>1, <1>4, <3>1, OneRuns DEF Inv
    <3> QED
      BY <3>2
  <2> QED
    BY <1>4, <2>1, <2>2 DEF RetryInv, Applies
<1>5. ASSUME NEW p \in Procs, Start(p)
      PROVE  RetryInv'
  <2>1. \A q \in Procs : cmd[q] = Idle /\ cmd \in [Procs -> Cmds]
    BY <1>5, SetupAssumption DEF Start, LockIsFree, Inv, TypeOK
  <2>2. \A q \in Procs : cmd'[q] \in {Idle, Checking}
    BY <1>5, <2>1 DEF Start, Checking
  <2>3. interrupted' = "none" /\ Idle.op = "none" /\ Checking.op = "none"
    BY <1>5 DEF Start, Idle, Checking
  <2> QED
    BY <1>3, <2>2, <2>3 DEF Applies, Planning
\* A command that ends.
<1>6. ASSUME NEW p \in Procs, cmd[p].pc # "idle", NEW result, Finish(p, result)
      PROVE  /\ lock' = Free /\ interrupted = "none"
             /\ \A q \in Procs : ~Applies(cmd'[q])
  <2>1. \A q \in Procs : cmd'[q] = Idle
    BY <1>6, OneRuns DEF Finish, Inv, TypeOK
  <2>2. lock' = Free /\ interrupted = "none"
    BY <1>6, OneRuns, SetupAssumption DEF Finish, RetryInv
  <2> QED
    BY <2>1, <2>2 DEF Applies, Planning, Idle
<1>7. ASSUME NEW p \in Procs, Stop(p)
      PROVE  RetryInv'
  <2>1. /\ UNCHANGED <<file, legacy, state, source, disturbed>>
        /\ lock' = Free /\ \A q \in Procs : ~Applies(cmd'[q])
    BY <1>6, <1>7 DEF Stop, disk
  <2>2. CASE Applies(cmd[p]) /\ cmd[p].pc \notin Planning
    <3>1. interrupted' = cmd[p].op
      BY <1>7, <2>2 DEF Stop, Applies
    <3>2. disturbed \/ MayApply(cmd[p].op)
      BY <2>2 DEF RetryInv, Repeatable, Rewrites
    <3>3. disturbed' \/ MayApply(interrupted)'
      BY <2>1, <3>1, <3>2, ChecksAreTheSame
    <3> QED
      BY <2>1, <3>3 DEF RetryInv
  <2>3. CASE ~Applies(cmd[p]) \/ cmd[p].pc \in Planning
    <3>1. interrupted' = "none"
      BY <1>7, <2>3, OneRuns DEF Stop, Applies, Planning, Informed
    <3> QED
      BY <1>3, <2>1, <3>1
  <2> QED
    BY <2>2, <2>3
<1>8. ASSUME NEW p \in Procs,
             Refuse(p) \/ UndoState(p) \/ RestoreOldState(p) \/ Doctor(p) \/ RestoreState(p)
      PROVE  RetryInv'
  <2>1. cmd[p].pc # "idle" /\ UNCHANGED interrupted /\ \E result : Finish(p, result)
    BY <1>8 DEF Refuse, Refuses, UndoState, RestoreOldState, Doctor, RestoreState, history
  <2> QED
    BY <1>3, <1>6, <2>1
<1>9. ASSUME NEW p \in Procs,
             \/ Validate(p) \/ Preview(p) \/ CompareTarget(p) \/ ListAssets(p)
             \/ WriteAsset(p) \/ WriteState(p)
      PROVE  RetryInv'
  <2>1. cmd[p].pc # "idle" /\ UNCHANGED <<lock, interrupted>>
    BY <1>9 DEF Validate, Preview, CompareTarget, ListAssets, WriteAsset, WriteState,
       FilesAreWritten, history
  <2>2. CASE Validate(p) \/ Preview(p) \/ CompareTarget(p) \/ ListAssets(p)
    <3>1. disturbed' = disturbed
      BY <2>2 DEF Validate, Preview, CompareTarget, ListAssets, history
    <3>2. Applies(cmd[p])' => disturbed' \/ Repeatable(cmd[p])'
      BY <2>2, <3>1, PlanIsRepeatable
    <3> QED
      BY <1>4, <2>1, <3>2
  <2>3. CASE WriteAsset(p) \/ WriteState(p)
    <3>1. Applies(cmd[p])' => Applies(cmd[p])
      <4>1. cmd \in [Procs -> Cmds] /\ cmd[p].pc = "write"
        BY <2>3 DEF WriteAsset, WriteState, FilesAreWritten, Inv, TypeOK
      <4>2. cmd'[p].op = cmd[p].op
        <5>1. CASE WriteAsset(p)
          BY <4>1, <5>1 DEF WriteAsset, Cmds
        <5>2. CASE WriteState(p)
          BY <4>1, <5>2 DEF WriteState, Cmds
        <5> QED
          BY <2>3, <5>1, <5>2
      <4> QED
        BY <4>1, <4>2 DEF Applies
    <3>2. disturbed' = disturbed
      BY <2>3 DEF WriteAsset, WriteState, history
    <3>3. Applies(cmd[p]) => disturbed \/ Repeatable(cmd[p])
      BY DEF RetryInv
    <3> QED
      BY <1>4, <2>1, <2>3, <3>1, <3>2, <3>3, WriteIsRepeatable, WriteStateIsRepeatable
  <2> QED
    BY <1>9, <2>2, <2>3
<1>10. ASSUME NEW p \in Procs,
              \/ BeginRollback(p) \/ WriteMigrated(p) \/ UndoAsset(p)
              \/ ApplyFails(p) \/ SourceGone(p) \/ UndoMigration(p) \/ TreeIsBack(p)
              \/ DoctorUndoes(p) \/ RetireOld(p) \/ CopyTree(p) \/ RestoreAgent(p)
              \/ RestoreAsset(p) \/ RemoveAsset(p) \/ TargetsAreRemoved(p)
       PROVE  RetryInv'
  <2>1. cmd[p].pc # "idle" /\ ~Applies(cmd[p])'
    BY <1>10, AppliesNoMore
  <2>2. UNCHANGED <<lock, interrupted>>
    BY <1>10 DEF BeginRollback, WriteMigrated, UndoAsset, ApplyFails,
       SourceGone, UndoMigration, TreeIsBack, DoctorUndoes, RetireOld, CopyTree,
       RestoreAgent, RestoreAsset, RemoveAsset, TargetsAreRemoved, history
  <2> QED
    BY <1>4, <2>1, <2>2
<1>11. CASE Checkout
  <2>1. ASSUME NEW q \in Procs, Applies(cmd'[q]) PROVE disturbed'
    <3>1. cmd[q] # Idle
      BY <1>11, <2>1 DEF Checkout, Applies, Planning, Idle
    <3>2. lock # Free
      BY <3>1, SetupAssumption DEF Inv
    <3> QED
      BY <1>11, <3>2 DEF Checkout
  <2> QED
    BY <1>11, <2>1 DEF RetryInv, Checkout, Applies
<1>12. CASE UserEditsOldTree \/ \E a \in Assets, text \in UserTexts \cup {Absent} : UserEdits(a, text)
  <2>1. lock = Free /\ UNCHANGED cmd /\ interrupted' = "none"
    BY <1>12 DEF UserEditsOldTree, UserEdits
  <2>2. \A q \in Procs : cmd'[q] = Idle
    BY <2>1, SetupAssumption DEF Inv
  <2> QED
    BY <1>3, <2>1, <2>2 DEF Applies, Planning, Idle
<1>13. CASE UNCHANGED vars \/ (\E p \in Procs : StartBusy(p))
  BY <1>2, <1>13 DEF vars, disk, history, StartBusy
<1> QED
  BY <1>5, <1>7, <1>8, <1>9, <1>10, <1>11, <1>12, <1>13 DEF Next, Step

(* An install or update that died while writing can be run again as long as *)
(* the checkout has not moved under a command and the user has not edited a  *)
(* target: its own half-done work passes the checks of apply.                *)
THEOREM InterruptedWorkIsRepeatable == Spec => []InterruptedApplyCanBeRetried
<1>1. Init => RetryInv
  BY DEF Init, RetryInv, Applies, Planning, Idle
<1>2. Inv /\ RetryInv /\ [Next]_vars => RetryInv'
  BY StaysRepeatable
<1>3. RetryInv => InterruptedApplyCanBeRetried
  BY DEF RetryInv, InterruptedApplyCanBeRetried
<1> QED
  BY <1>1, <1>2, <1>3, CommandsAreHarmless, PTL DEF Spec

-----------------------------------------------------------------------------
(* What the steps of a running command do to it, for the two theorems that  *)
(* follow.                                                                  *)

\* The other processes are idle.
LEMMA OthersAreIdle ==
  ASSUME Inv, NEW p \in Procs, cmd[p].pc # "idle"
  PROVE  \A q \in Procs \ {p} : cmd[q] = Idle
  BY OneRuns DEF Inv

LEMMA AllAreIdle ==
  ASSUME Inv, NEW p \in Procs, cmd[p].pc # "idle", NEW result, Finish(p, result)
  PROVE  \A q \in Procs : cmd'[q] = Idle
  BY OthersAreIdle DEF Finish, Inv, TypeOK

\* A step that visits an asset.
LEMMA VisitsOne ==
  ASSUME Inv, NEW p \in Procs,
         \/ WriteAsset(p) \/ WriteMigrated(p) \/ UndoAsset(p) \/ RestoreAsset(p) \/ RemoveAsset(p)
  PROVE  /\ cmd[p].pc # "idle" /\ \A q \in Procs \ {p} : cmd'[q] = cmd[q]
         /\ cmd'[p].pc = cmd[p].pc /\ cmd'[p].op = cmd[p].op
         /\ cmd'[p].tree = cmd[p].tree /\ cmd'[p].old = cmd[p].old
         /\ cmd'[p].listed = cmd[p].listed
         /\ WriteAsset(p) \/ cmd'[p].previous = cmd[p].previous
         /\ UNCHANGED <<legacy, state, source, lock, done, history>>
<1>1. cmd \in [Procs -> Cmds]
  BY DEF Inv, TypeOK
<1>2. CASE WriteAsset(p)
  <2>1. PICK a \in cmd[p].assets : WriteAsset(p)!2!(a)
    BY <1>2 DEF WriteAsset
  <2> DEFINE written == IF file[a] = Release[source][a] THEN cmd[p].written
                        ELSE cmd[p].written \cup {a}
             n == [cmd[p] EXCEPT !.assets = @ \ {a}, !.previous = Backed(cmd[p].previous, a),
                                 !.written = written]
  <2>2. cmd' = [cmd EXCEPT ![p] = n]
    BY <1>1, <2>1
  <2>3. cmd[p].pc = "write" /\ UNCHANGED <<legacy, state, source, lock, done, history>>
    BY <1>2 DEF WriteAsset
  <2>4. cmd'[p] = n /\ \A q \in Procs \ {p} : cmd'[q] = cmd[q]
    BY <1>1, <2>2
  <2> QED
    BY <1>1, <1>2, <2>3, <2>4 DEF Cmds
<1>3. CASE WriteMigrated(p)
  BY <1>1, <1>3 DEF WriteMigrated, Cmds
<1>4. CASE UndoAsset(p)
  BY <1>1, <1>4 DEF UndoAsset, Cmds
<1>5. CASE RestoreAsset(p)
  BY <1>1, <1>5 DEF RestoreAsset, Cmds
<1>6. CASE RemoveAsset(p)
  BY <1>1, <1>6 DEF RemoveAsset, Cmds
<1> QED
  BY <1>2, <1>3, <1>4, <1>5, <1>6

\* A step that only moves the command on.
LEMMA MovesOnly ==
  ASSUME Inv, NEW p \in Procs,
         \/ WriteState(p) \/ ApplyFails(p) \/ SourceGone(p) \/ UndoMigration(p)
         \/ TreeIsBack(p) \/ DoctorUndoes(p) \/ TargetsAreRemoved(p)
  PROVE  /\ cmd[p].pc # "idle" /\ \A q \in Procs \ {p} : cmd'[q] = cmd[q]
         /\ cmd'[p].op = cmd[p].op /\ cmd'[p].assets = cmd[p].assets
         /\ cmd'[p].previous = cmd[p].previous /\ cmd'[p].written = cmd[p].written
         /\ cmd'[p].tree = cmd[p].tree /\ cmd'[p].old = cmd[p].old
         /\ cmd'[p].listed = cmd[p].listed
         /\ UNCHANGED <<disk, source, lock, done, taken>>
         /\ \/ /\ WriteState(p) /\ cmd[p].pc = "write" /\ cmd'[p].pc = "doctor"
               /\ UNCHANGED <<failures, stops>>
            \/ /\ ApplyFails(p) \/ SourceGone(p)
               /\ cmd[p].pc = "write" /\ cmd'[p].pc = "undo"
               /\ failures' = failures + 1 /\ UNCHANGED <<state, retired, stops>>
            \/ /\ UNCHANGED <<state, history>>
               /\ \/ cmd[p].op = "migrate" /\ cmd'[p].pc \in {"undo", "tree", "agents"}
                     /\ cmd[p].pc \in {"doctor", "undo"}
                  \/ cmd[p].pc = "tree" /\ cmd'[p].pc = "agents" /\ legacy = cmd[p].tree
                  \/ cmd[p].pc = "remove" /\ cmd'[p].pc = "tree" /\ cmd[p].assets = {}
<1>1. cmd \in [Procs -> Cmds]
  BY DEF Inv, TypeOK
<1>2. CASE WriteState(p)
  BY <1>1, <1>2 DEF WriteState, FilesAreWritten, Cmds
<1>3. CASE ApplyFails(p)
  BY <1>1, <1>3 DEF ApplyFails, Cmds
<1>4. CASE SourceGone(p)
  BY <1>1, <1>4 DEF SourceGone, FilesAreWritten, Cmds
<1>5. CASE UndoMigration(p)
  BY <1>1, <1>5 DEF UndoMigration, Cmds, history
<1>6. CASE TreeIsBack(p)
  BY <1>1, <1>6 DEF TreeIsBack, Cmds, history
<1>7. CASE DoctorUndoes(p)
  BY <1>1, <1>7 DEF DoctorUndoes, Cmds, history
<1>8. CASE TargetsAreRemoved(p)
  BY <1>1, <1>8 DEF TargetsAreRemoved, Cmds, history
<1> QED
  BY <1>2, <1>3, <1>4, <1>5, <1>6, <1>7, <1>8

\* A command that plans: its checks, and the loop over the targets.
LEMMA Plans ==
  ASSUME Inv, NEW p \in Procs, Validate(p) \/ Preview(p) \/ CompareTarget(p)
  PROVE  /\ cmd[p].pc \in Planning \cup {"check"} /\ cmd'[p].pc \in Planning
         /\ \A q \in Procs \ {p} : cmd'[q] = cmd[q]
         /\ UNCHANGED <<disk, state, source, lock, done, history>>
         /\ \/ /\ cmd'[p].op = "update" => MayUpdate
               /\ cmd'[p].op = "migrate" => MayRetire
            \/ cmd[p].pc \in Planning /\ cmd'[p].op = cmd[p].op
<1>1. cmd \in [Procs -> Cmds]
  BY DEF Inv, TypeOK
<1>2. CASE Validate(p)
  <2>1. PICK op \in {"install", "update", "migrate"} : Validate(p)!(op)
    BY <1>2 DEF Validate
  <2> QED
    BY <1>1, <2>1 DEF Cmds, Planning
<1>3. CASE Preview(p)
  BY <1>1, <1>3 DEF Preview, Cmds, Planning
<1>4. CASE CompareTarget(p)
  BY <1>1, <1>4 DEF CompareTarget, Cmds, Planning
<1> QED
  BY <1>2, <1>3, <1>4

\* A command that lists the assets it writes.
LEMMA Lists ==
  ASSUME Inv, NEW p \in Procs, ListAssets(p)
  PROVE  /\ cmd[p].pc = "compare" /\ \A q \in Procs \ {p} : cmd'[q] = cmd[q]
         /\ UNCHANGED <<disk, state, source, lock, done, retired, failures, stops>>
         /\ cmd'[p].pc = "write" /\ cmd'[p].op = cmd[p].op
         /\ cmd[p].op \in {"install", "update", "migrate"}
         /\ cmd'[p].assets = managed_assets /\ cmd'[p].listed = managed_assets
         /\ cmd'[p].previous = FirstBackups(cmd[p].op) /\ cmd'[p].old = state
         /\ cmd[p].op = "migrate" => cmd'[p].tree = legacy
         /\ TakeOver(managed_assets, FirstBackups(cmd[p].op))
<1>1. cmd \in [Procs -> Cmds]
  BY DEF Inv, TypeOK
<1>2. cmd[p].pc = "compare" /\ cmd[p].op \in {"install", "update", "migrate"}
  BY OneRuns DEF ListAssets, Informed, Planning
<1> QED
  BY <1>1, <1>2 DEF ListAssets, Cmds

\* A rollback that begins.
LEMMA Begins ==
  ASSUME Inv, NEW p \in Procs, BeginRollback(p)
  PROVE  /\ cmd[p].pc = "check" /\ \A q \in Procs \ {p} : cmd'[q] = cmd[q]
         /\ UNCHANGED <<disk, state, source, lock, done, history>>
         /\ MayRollback /\ cmd'[p].op = "rollback"
         /\ cmd'[p].assets = DOMAIN state.installed
         /\ \/ /\ state.migration = NoMigration /\ cmd'[p].pc = "restore"
               /\ cmd'[p].previous = state.previous
            \/ /\ state.migration # NoMigration /\ cmd'[p].pc = "remove"
               /\ cmd'[p].previous = state.migration.agents
               /\ cmd'[p].tree = state.migration.tree
               /\ cmd'[p].old = state.migration.state
<1>1. cmd \in [Procs -> Cmds]
  BY DEF Inv, TypeOK
<1> QED
  BY <1>1 DEF BeginRollback, Cmds

-----------------------------------------------------------------------------
\* What a command may rely on while it runs, of the state file and of the old root.
Knows(c) ==
  /\ c.pc \in Planning /\ c.op = "update" => IsInstalled /\ state.root = "new"
  /\ c.pc \in Planning /\ c.op = "migrate" =>
       IsInstalled /\ state.root = "old" /\ OldTreeMatches /\ OldAgentsMatch(Assets)
  /\ c.op \in {"install", "update"} /\ c.pc \in {"write", "undo"} => state = c.old
  /\ c.pc = "restore" =>
       /\ IsInstalled /\ state.root = "new" /\ state.migration = NoMigration
       /\ c.previous = state.previous

KnowsInv == \A p \in Procs : Knows(cmd[p])

LEMMA OneToKnow ==
  ASSUME Inv, NEW p \in Procs, cmd[p].pc # "idle", Knows(cmd[p])',
         \A q \in Procs \ {p} : cmd'[q] = cmd[q]
  PROVE  KnowsInv'
<1>1. ASSUME NEW q \in Procs \ {p}
      PROVE  Knows(cmd[q])'
  BY <1>1, OthersAreIdle DEF Knows, Idle, Planning
<1> QED
  BY <1>1 DEF KnowsInv

\* What a command knows still stands when neither it nor what it knows has changed.
LEMMA StillKnown ==
  ASSUME UNCHANGED <<file, legacy, state, cmd>>, KnowsInv
  PROVE  KnowsInv'
<1>1. ASSUME NEW p \in Procs
      PROVE  Knows(cmd[p])'
  <2>1. Knows(cmd[p])
    BY DEF KnowsInv
  <2> QED
    BY <2>1 DEF Knows, IsInstalled, OldTreeMatches, OldAgentsMatch
<1> QED
  BY <1>1 DEF KnowsInv

\* The steps of a running command, in groups.
LEMMA StepKinds ==
  ASSUME NEW p \in Procs, Step(p) \/ ApplyFails(p) \/ Stop(p)
  PROVE  \/ Refuse(p) \/ UndoState(p) \/ RestoreOldState(p) \/ Doctor(p) \/ RestoreState(p) \/ Stop(p)
         \/ Validate(p) \/ Preview(p) \/ CompareTarget(p) \/ ListAssets(p) \/ BeginRollback(p)
         \/ WriteAsset(p) \/ WriteMigrated(p) \/ UndoAsset(p) \/ RestoreAsset(p) \/ RemoveAsset(p)
         \/ WriteState(p) \/ ApplyFails(p) \/ SourceGone(p) \/ UndoMigration(p)
         \/ TreeIsBack(p) \/ DoctorUndoes(p) \/ TargetsAreRemoved(p)
         \/ RetireOld(p) \/ CopyTree(p) \/ RestoreAgent(p)
  BY DEF Step

LEMMA StaysKnown ==
  ASSUME Inv, KnowsInv, [Next]_vars
  PROVE  KnowsInv'
<1>1. Idle.op = "none" /\ Checking.op = "none" /\ Idle.pc = "idle" /\ Checking.pc = "check"
  BY DEF Idle, Checking
<1>2. ASSUME \A q \in Procs : cmd'[q] \in {Idle, Checking}
      PROVE  KnowsInv'
  BY <1>1, <1>2 DEF KnowsInv, Knows, Planning
<1>3. ASSUME lock = Free
      PROVE  \A q \in Procs : cmd[q] = Idle
  BY <1>3, SetupAssumption DEF Inv
<1>4. ASSUME NEW p \in Procs, Start(p)
      PROVE  KnowsInv'
  <2>1. lock = Free /\ cmd \in [Procs -> Cmds]
    BY <1>4 DEF Start, LockIsFree, Inv, TypeOK
  <2>2. \A q \in Procs : cmd'[q] \in {Idle, Checking}
    BY <1>3, <1>4, <2>1 DEF Start, Checking
  <2> QED
    BY <1>2, <2>2
<1>5. ASSUME NEW p \in Procs, Step(p) \/ ApplyFails(p) \/ Stop(p)
      PROVE  KnowsInv'
  <2>a. Knows(cmd[p])
    BY DEF KnowsInv
  <2>1. CASE Refuse(p) \/ UndoState(p) \/ RestoreOldState(p) \/ Doctor(p) \/ RestoreState(p) \/ Stop(p)
    <3>1. cmd[p].pc # "idle" /\ \E result : Finish(p, result)
      BY <2>1 DEF Refuse, Refuses, UndoState, RestoreOldState, Doctor, RestoreState, Stop
    <3>2. \A q \in Procs : cmd'[q] = Idle
      BY <3>1, AllAreIdle
    <3> QED
      BY <1>2, <3>2
  <2>2. CASE Validate(p) \/ Preview(p) \/ CompareTarget(p)
    <3>1. /\ cmd[p].pc \in Planning \cup {"check"} /\ cmd'[p].pc \in Planning
          /\ \A q \in Procs \ {p} : cmd'[q] = cmd[q]
          /\ UNCHANGED <<file, legacy, state>>
          /\ \/ /\ cmd'[p].op = "update" => MayUpdate
                /\ cmd'[p].op = "migrate" => MayRetire
             \/ cmd[p].pc \in Planning /\ cmd'[p].op = cmd[p].op
      BY <2>2, Plans DEF disk
    <3>2. /\ cmd'[p].op = "update" => IsInstalled /\ state.root = "new"
          /\ cmd'[p].op = "migrate" =>
               IsInstalled /\ state.root = "old" /\ OldTreeMatches /\ OldAgentsMatch(Assets)
      BY <2>a, <3>1 DEF Knows, MayUpdate, MayRetire
    <3>3. Knows(cmd[p])'
      BY <3>1, <3>2 DEF Knows, Planning, IsInstalled, OldTreeMatches, OldAgentsMatch
    <3> QED
      BY <3>1, <3>3, OneToKnow DEF Planning
  <2>3. CASE ListAssets(p)
    <3>1. Knows(cmd[p])'
      BY <2>3, Lists DEF Knows, Planning
    <3> QED
      BY <2>3, <3>1, Lists, OneToKnow
  <2>4. CASE BeginRollback(p)
    <3>1. Knows(cmd[p])'
      BY <2>4, Begins DEF Knows, MayRollback, IsInstalled, Planning
    <3> QED
      BY <2>4, <3>1, Begins, OneToKnow
  <2>5. CASE \/ WriteAsset(p) \/ WriteMigrated(p) \/ UndoAsset(p) \/ RestoreAsset(p) \/ RemoveAsset(p)
    <3>1. cmd[p].pc \notin Planning /\ (WriteAsset(p) => cmd[p].pc = "write")
      BY <2>5 DEF WriteAsset, WriteMigrated, UndoAsset, RestoreAsset, RemoveAsset, Planning
    <3>2. /\ cmd'[p].pc = cmd[p].pc /\ cmd'[p].op = cmd[p].op /\ cmd'[p].old = cmd[p].old
          /\ state' = state
          /\ WriteAsset(p) \/ cmd'[p].previous = cmd[p].previous
          /\ cmd[p].pc # "idle" /\ \A q \in Procs \ {p} : cmd'[q] = cmd[q]
      BY <2>5, VisitsOne
    <3>3. Knows(cmd[p])'
      BY <2>a, <3>1, <3>2 DEF Knows, IsInstalled
    <3> QED
      BY <3>2, <3>3, OneToKnow
  <2>6. CASE \/ WriteState(p) \/ ApplyFails(p) \/ SourceGone(p) \/ UndoMigration(p)
             \/ TreeIsBack(p) \/ DoctorUndoes(p) \/ TargetsAreRemoved(p)
    <3>1. Knows(cmd[p])'
      BY <2>a, <2>6, MovesOnly DEF Knows, Planning
    <3> QED
      BY <2>6, <3>1, MovesOnly, OneToKnow
  <2>7. CASE RetireOld(p) \/ CopyTree(p) \/ RestoreAgent(p)
    <3>1. cmd[p].pc \in {"write", "tree", "agents"} /\ UNCHANGED <<state, cmd>>
      BY <2>7 DEF RetireOld, CopyTree, RestoreAgent
    <3>2. Knows(cmd[p])'
      BY <2>a, <3>1 DEF Knows, Planning, IsInstalled
    <3> QED
      BY <3>1, <3>2, OneToKnow
  <2> QED
    BY <1>5, <2>1, <2>2, <2>3, <2>4, <2>5, <2>6, <2>7, StepKinds
<1>6. CASE UNCHANGED vars \/ Checkout \/ (\E p \in Procs : StartBusy(p))
  BY <1>6, StillKnown DEF vars, disk, Checkout, StartBusy
<1>7. CASE UserEditsOldTree \/ \E a \in Assets, text \in UserTexts \cup {Absent} : UserEdits(a, text)
  <2>1. lock = Free /\ cmd' = cmd
    BY <1>7 DEF UserEditsOldTree, UserEdits
  <2> QED
    BY <1>2, <1>3, <2>1
<1> QED
  BY <1>4, <1>5, <1>6, <1>7 DEF Next

LEMMA CommandsKnowTheState == Spec => []KnowsInv
<1>1. Init => KnowsInv
  <2>1. Idle.op = "none" /\ Idle.pc = "idle"
    BY DEF Idle
  <2> QED
    BY <2>1 DEF Init, KnowsInv, Knows, Planning
<1>2. Inv /\ KnowsInv /\ [Next]_vars => KnowsInv'
  BY StaysKnown
<1> QED
  BY <1>1, <1>2, CommandsAreHarmless, PTL DEF Spec

-----------------------------------------------------------------------------
(* While nothing has failed or died: what a command has backed up, and what *)
(* the state has on record, is what setup found when it took the target     *)
(* over, but for the targets of which it made another backup since; and a   *)
(* rollback has given back the targets it has visited.                      *)
Smooth == failures + stops = 0

\* This text is the one the target had when setup took it over.
IsOriginal(text, a) == a \in DOMAIN original /\ text = original[a]

BacksUp(c) ==
  /\ c.pc = "undo" => c.op = "migrate"
  /\ (/\ c.pc = "write" /\ c.op \in {"install", "update"}
      /\ c.op = "update" => c.old.migration = NoMigration) =>
       /\ \A a \in DOMAIN c.previous \ rebased : IsOriginal(c.previous[a], a)
       /\ \A a \in (c.assets \ DOMAIN c.previous) \ rebased : IsOriginal(file[a], a)
  /\ c.pc = "restore" =>
       \A a \in DOMAIN c.previous \ c.assets : file[a] = c.previous[a]

BackupsAreOriginals ==
  IsInstalled /\ state.root = "new" /\ state.migration = NoMigration =>
    \A a \in DOMAIN state.previous \ rebased : IsOriginal(state.previous[a], a)

Originals ==
  /\ BackupsAreOriginals
  /\ \A p \in Procs : BacksUp(cmd[p])
  /\ RollbackRestoresOriginals

OriginalsInv == failures \in Nat /\ stops \in Nat /\ (Smooth => Originals)

LEMMA OneToRestore ==
  ASSUME Inv, NEW p \in Procs, cmd[p].pc # "idle", BacksUp(cmd[p])',
         \A q \in Procs \ {p} : cmd'[q] = cmd[q]
  PROVE  \A q \in Procs : BacksUp(cmd[q])'
<1>1. Idle.pc = "idle"
  BY DEF Idle
<1>2. ASSUME NEW q \in Procs \ {p}
      PROVE  BacksUp(cmd[q])'
  BY <1>1, <1>2, OthersAreIdle DEF BacksUp
<1> QED
  BY <1>2

\* What a command takes over: new targets as they are, and the others as they were.
LEMMA TakesOver ==
  ASSUME Inv, KnowsInv, Originals, NEW p \in Procs, ListAssets(p)
  PROVE  BacksUp(cmd[p])' /\ BackupsAreOriginals'
<1> DEFINE op       == cmd[p].op
           previous == FirstBackups(op)
           kept     == IF IsInstalled THEN original ELSE Empty
           again    == IF IsInstalled THEN rebased ELSE {}
<1>1. /\ original' = [a \in DOMAIN kept \cup managed_assets |->
                        IF a \in DOMAIN kept THEN kept[a] ELSE file[a]]
      /\ rebased' = again \cup ((managed_assets \ DOMAIN previous) \cap DOMAIN kept)
      /\ file' = file /\ state' = state /\ cmd[p].pc = "compare"
      /\ cmd'[p].pc = "write" /\ cmd'[p].op = op /\ cmd'[p].assets = managed_assets
      /\ cmd'[p].previous = previous /\ cmd'[p].old = state
  BY Lists DEF TakeOver, disk
<1>2. Knows(cmd[p]) /\ DOMAIN Empty = {}
  BY DEF KnowsInv, Empty
<1>3. ASSUME NEW a \in DOMAIN kept
      PROVE  a \in DOMAIN original' /\ original'[a] = kept[a]
  BY <1>1, <1>3
<1>4. ASSUME NEW a \in (managed_assets \ DOMAIN previous) \ rebased'
      PROVE  a \in DOMAIN original' /\ original'[a] = file[a]
  <2>1. a \notin DOMAIN kept
    BY <1>1, <1>4
  <2> QED
    BY <1>1, <1>4, <2>1
<1>5. ASSUME IsInstalled, state.root = "new", state.migration = NoMigration,
             NEW a \in DOMAIN state.previous \ rebased'
      PROVE  a \in DOMAIN original' /\ original'[a] = state.previous[a]
  <2>1. a \notin rebased /\ kept = original
    BY <1>1, <1>5
  <2>2. a \in DOMAIN original /\ original[a] = state.previous[a]
    BY <1>5, <2>1 DEF Originals, BackupsAreOriginals, IsOriginal
  <2> QED
    BY <1>3, <2>1, <2>2
<1>6. BackupsAreOriginals'
  BY <1>1, <1>5 DEF BackupsAreOriginals, IsOriginal, IsInstalled
<1>7. /\ op = "update" => IsInstalled /\ state.root = "new" /\ previous = state.previous
      /\ op = "install" => DOMAIN previous = {}
  BY <1>1, <1>2 DEF Knows, Planning, FirstBackups
<1> HIDE DEF op, previous, kept, again
<1>8. ASSUME op \in {"install", "update"}, op = "update" => state.migration = NoMigration,
             NEW a \in DOMAIN previous \ rebased'
      PROVE  a \in DOMAIN original' /\ original'[a] = previous[a]
  BY <1>5, <1>7, <1>8
<1>9. BacksUp(cmd[p])'
  BY <1>1, <1>4, <1>8 DEF BacksUp, IsOriginal
<1> QED
  BY <1>6, <1>9

LEMMA AssetIsBackedUp ==
  ASSUME Inv, NEW p \in Procs, WriteAsset(p), BacksUp(cmd[p])
  PROVE  BacksUp(cmd[p])'
<1>1. /\ cmd \in [Procs -> Cmds] /\ file \in [Assets -> Files] /\ cmd[p] \in Cmds
      /\ cmd[p].pc = "write" /\ UNCHANGED <<original, rebased>>
  BY DEF WriteAsset, Inv, TypeOK, history, taken
<1>2. PICK a \in cmd[p].assets : WriteAsset(p)!2!(a)
  BY DEF WriteAsset
<1> DEFINE written == IF file[a] = Release[source][a] THEN cmd[p].written
                      ELSE cmd[p].written \cup {a}
           n == [cmd[p] EXCEPT !.assets = @ \ {a}, !.previous = Backed(cmd[p].previous, a),
                               !.written = written]
<1>3. cmd'[p] = n /\ file' = [file EXCEPT ![a] = Release[source][a]] /\ a \in Assets
  BY <1>1, <1>2, OneRuns
<1>4. /\ cmd'[p].pc = cmd[p].pc /\ cmd'[p].op = cmd[p].op /\ cmd'[p].old = cmd[p].old
      /\ cmd'[p].assets = cmd[p].assets \ {a}
      /\ cmd'[p].previous = Backed(cmd[p].previous, a)
  BY <1>1, <1>3 DEF Cmds
<1> QED
  BY <1>1, <1>3, <1>4 DEF BacksUp, Backed, IsOriginal

LEMMA WrittenBackups ==
  ASSUME Inv, KnowsInv, Originals, NEW p \in Procs, WriteState(p)
  PROVE  BackupsAreOriginals'
<1>1. /\ cmd[p].pc = "write" /\ cmd[p].assets = {} /\ UNCHANGED <<original, rebased>>
      /\ state'.migration = migration(p)
      /\ cmd[p].op # "migrate" => state'.previous = cmd[p].previous
      /\ cmd[p].op \in {"install", "update", "migrate"}
  BY OneRuns DEF WriteState, FilesAreWritten, Informed, taken
<1>2. CASE cmd[p].op = "migrate"
  <2>1. state'.migration \in Migrations
    BY <1>1, <1>2, OneRuns DEF migration, Migrations, Informed, Planning
  <2> QED
    BY <2>1, SetupAssumption DEF BackupsAreOriginals
<1>3. CASE cmd[p].op # "migrate"
  <2>1. cmd[p].op = "update" => state'.migration = cmd[p].old.migration
    BY <1>1 DEF migration
  <2> QED
    BY <1>1, <1>3, <2>1 DEF BackupsAreOriginals, Originals, BacksUp, IsOriginal
<1> QED
  BY <1>2, <1>3

\* A target that rollback has visited is as it was.
LEMMA RestoredAssets ==
  ASSUME Inv, NEW p \in Procs, RestoreAsset(p), BacksUp(cmd[p])
  PROVE  BacksUp(cmd[p])'
<1>1. /\ cmd \in [Procs -> Cmds] /\ file \in [Assets -> Files] /\ cmd[p] \in Cmds
      /\ cmd[p].pc = "restore"
  BY DEF RestoreAsset, Inv, TypeOK
<1>2. PICK a \in cmd[p].assets :
        /\ file' = [file EXCEPT ![a] = cmd[p].previous[a]]
        /\ cmd' = [cmd EXCEPT ![p].assets = @ \ {a}]
  BY DEF RestoreAsset
<1>3. /\ cmd'[p].pc = cmd[p].pc /\ cmd'[p].previous = cmd[p].previous
      /\ cmd'[p].assets = cmd[p].assets \ {a} /\ a \in Assets
  BY <1>1, <1>2, OneRuns DEF Cmds
<1>4. DOMAIN cmd[p].previous \subseteq Assets
  BY <1>1, OneRuns
<1> QED
  BY <1>1, <1>2, <1>3, <1>4 DEF BacksUp

\* Rollback has restored every target.
LEMMA RestoredOriginals ==
  ASSUME Inv, KnowsInv, Originals, NEW p \in Procs, RestoreState(p)
  PROVE  Originals'
<1>1. /\ cmd[p].pc = "restore" /\ cmd[p].assets = {} /\ UNCHANGED <<file, original, rebased>>
      /\ state' = [state EXCEPT !.status = "rolled-back"]
      /\ \A q \in Procs : cmd'[q] = Idle
  BY AllAreIdle DEF RestoreState, disk, taken
<1>2. /\ IsInstalled /\ state.root = "new" /\ state.migration = NoMigration
      /\ cmd[p].previous = state.previous
  BY <1>1 DEF KnowsInv, Knows
<1>3. state \in NewStates /\ DOMAIN state.installed \subseteq DOMAIN state.previous
  BY <1>2, StatesAreClean DEF IsInstalled
<1>4. state'.status = "rolled-back" /\ state'.installed = state.installed
  BY <1>1, <1>3 DEF NewStates
<1>5. \A a \in DOMAIN state.previous \ rebased : IsOriginal(state.previous[a], a)
  BY <1>2 DEF Originals, BackupsAreOriginals
<1>6. \A a \in DOMAIN state.previous \ rebased : file[a] = original[a]
  BY <1>1, <1>2, <1>5 DEF Originals, BacksUp, IsOriginal
<1>7. BackupsAreOriginals'
  BY <1>4 DEF BackupsAreOriginals, IsInstalled
<1>8. RollbackRestoresOriginals'
  BY <1>1, <1>3, <1>4, <1>6 DEF RollbackRestoresOriginals
<1>9. Idle.pc = "idle"
  BY DEF Idle
<1> QED
  BY <1>1, <1>7, <1>8, <1>9 DEF Originals, BacksUp

LEMMA FailuresAreCounted ==
  ASSUME failures \in Nat, stops \in Nat, [Next]_vars
  PROVE  /\ failures' \in Nat /\ stops' \in Nat /\ (Smooth' => Smooth)
         /\ \A p \in Procs : ApplyFails(p) \/ SourceGone(p) \/ Stop(p) => ~Smooth'
<1>1. ASSUME NEW p \in Procs, ApplyFails(p) \/ SourceGone(p)
      PROVE  failures' = failures + 1 /\ stops' = stops
  BY <1>1 DEF ApplyFails, SourceGone
<1>2. ASSUME NEW p \in Procs, Stop(p)
      PROVE  stops' = stops + 1 /\ failures' = failures
  BY <1>2 DEF Stop
<1>3. ASSUME NEW p \in Procs, Step(p), ~SourceGone(p)
      PROVE  UNCHANGED <<failures, stops>>
  <2>1. CASE Refuse(p) \/ UndoState(p) \/ RestoreOldState(p) \/ Doctor(p) \/ RestoreState(p)
    BY <2>1 DEF Refuse, UndoState, RestoreOldState, Doctor, RestoreState, history
  <2>2. CASE Validate(p) \/ Preview(p) \/ CompareTarget(p) \/ ListAssets(p) \/ BeginRollback(p)
    BY <2>2 DEF Validate, Preview, CompareTarget, ListAssets, BeginRollback, history
  <2>3. CASE \/ WriteAsset(p) \/ WriteMigrated(p) \/ UndoAsset(p) \/ RestoreAsset(p)
             \/ RemoveAsset(p) \/ RetireOld(p) \/ CopyTree(p) \/ RestoreAgent(p)
    BY <2>3 DEF WriteAsset, WriteMigrated, UndoAsset, RestoreAsset, RemoveAsset, RetireOld,
       CopyTree, RestoreAgent, history
  <2>4. CASE \/ WriteState(p) \/ UndoMigration(p) \/ TreeIsBack(p) \/ DoctorUndoes(p)
             \/ TargetsAreRemoved(p)
    BY <2>4 DEF WriteState, UndoMigration, TreeIsBack, DoctorUndoes, TargetsAreRemoved, history
  <2> QED
    BY <1>3, <2>1, <2>2, <2>3, <2>4 DEF Step
<1>4. ASSUME UNCHANGED <<failures, stops>>
      PROVE  failures' \in Nat /\ stops' \in Nat /\ (Smooth' => Smooth)
  BY <1>4 DEF Smooth
<1>5. CASE \E p \in Procs : ApplyFails(p) \/ SourceGone(p) \/ Stop(p)
  BY <1>1, <1>2, <1>5 DEF Smooth
<1>6. CASE ~\E p \in Procs : ApplyFails(p) \/ SourceGone(p) \/ Stop(p)
  <2>1. UNCHANGED <<failures, stops>>
    BY <1>3, <1>6 DEF Next, Start, StartBusy, Checkout, UserEdits, UserEditsOldTree, vars, history
  <2> QED
    BY <1>4, <1>6, <2>1
<1> QED
  BY <1>5, <1>6

LEMMA StaysOriginal ==
  ASSUME Inv, Reported, KnowsInv, Originals, Smooth, Smooth', [Next]_vars,
         \A p \in Procs : ApplyFails(p) \/ SourceGone(p) \/ Stop(p) => ~Smooth'
  PROVE  Originals'
<1>1. Idle.pc = "idle" /\ Checking.pc = "check"
  BY DEF Idle, Checking
<1>2. CASE UNCHANGED <<file, state, cmd, original, rebased>> /\ done' \in {"none", done}
  <2>1. \A q \in Procs : BacksUp(cmd[q])'
    BY <1>2 DEF Originals, BacksUp, IsOriginal
  <2>2. BackupsAreOriginals'
    BY <1>2 DEF Originals, BackupsAreOriginals, IsInstalled, IsOriginal
  <2> QED
    BY <1>2, <2>1, <2>2 DEF Originals, RollbackRestoresOriginals, Smooth
\* No command is past its checks, and none has restored anything just now.
<1>3. ASSUME \A q \in Procs : cmd'[q] \in {Idle, Checking},
             UNCHANGED <<state, original, rebased>>, done' # "rollback"
      PROVE  Originals'
  <2>1. \A q \in Procs : BacksUp(cmd[q])'
    BY <1>1, <1>3 DEF BacksUp
  <2>2. BackupsAreOriginals'
    BY <1>3 DEF Originals, BackupsAreOriginals, IsInstalled, IsOriginal
  <2> QED
    BY <1>3, <2>1, <2>2 DEF Originals, RollbackRestoresOriginals
<1>4. ASSUME lock = Free
      PROVE  \A q \in Procs : cmd[q] = Idle
  BY <1>4, SetupAssumption DEF Inv
<1>5. ASSUME NEW p \in Procs, Start(p)
      PROVE  Originals'
  <2>1. /\ lock = Free /\ cmd \in [Procs -> Cmds] /\ done' = "none"
        /\ UNCHANGED <<state, original, rebased>>
    BY <1>5 DEF Start, LockIsFree, Inv, TypeOK, taken
  <2>2. \A q \in Procs : cmd'[q] \in {Idle, Checking}
    BY <1>4, <1>5, <2>1 DEF Start, Checking
  <2> QED
    BY <1>3, <1>4, <2>1, <2>2
\* A step of a running command that neither ends it nor touches the state.
<1>6. ASSUME NEW p \in Procs, cmd[p].pc # "idle", \A q \in Procs \ {p} : cmd'[q] = cmd[q],
             BacksUp(cmd[p])', UNCHANGED <<state, original, rebased, done>>
      PROVE  Originals'
  <2>1. \A q \in Procs : BacksUp(cmd[q])'
    BY <1>6, OneToRestore
  <2>3. BackupsAreOriginals'
    BY <1>6 DEF Originals, BackupsAreOriginals, IsInstalled, IsOriginal
  <2>4. done' = "none"
    BY <1>6, OneRuns, SetupAssumption DEF Reported
  <2> QED
    BY <2>1, <2>3, <2>4 DEF Originals, RollbackRestoresOriginals
<1>7. ASSUME NEW p \in Procs, Step(p) \/ ApplyFails(p) \/ Stop(p)
      PROVE  Originals'
  <2>1. BacksUp(cmd[p])
    BY DEF Originals
  <2>2. CASE Refuse(p) \/ Doctor(p)
    <3>1. /\ cmd[p].pc \in Planning \cup {"check", "doctor"}
          /\ UNCHANGED <<state, original, rebased>>
          /\ done' \in {"none", cmd[p].op} /\ \E result : Finish(p, result)
          /\ done' = "none" \/ cmd[p].pc = "doctor"
      BY <2>2 DEF Refuse, Refuses, Doctor, Finish, history, taken, Planning
    <3>2. done' # "rollback"
      BY <3>1, OneRuns DEF Informed
    <3>3. \A q \in Procs : cmd'[q] = Idle
      BY <3>1, AllAreIdle DEF Planning
    <3> QED
      BY <1>3, <3>1, <3>2, <3>3
  <2>3. CASE UndoState(p)
    BY <2>1, <2>3 DEF UndoState, BacksUp
  <2>4. CASE RestoreOldState(p)
    <3>1. state' \in OldStates /\ \A q \in Procs : cmd'[q] = Idle
      BY <2>4, OneRuns, AllAreIdle DEF RestoreOldState, Informed
    <3>2. state'.root = "old" /\ state'.status = "installed"
      BY <3>1 DEF OldStates
    <3> QED
      BY <1>1, <3>1, <3>2
         DEF Originals, BackupsAreOriginals, BacksUp, RollbackRestoresOriginals
  <2>5. CASE RestoreState(p)
    BY <2>5, RestoredOriginals
  <2>6. CASE ListAssets(p)
    <3>1. cmd[p].pc # "idle" /\ done' = "none" /\ \A q \in Procs \ {p} : cmd'[q] = cmd[q]
      BY <2>6, Lists, OneRuns, SetupAssumption DEF Reported
    <3>2. BacksUp(cmd[p])' /\ BackupsAreOriginals'
      BY <2>6, TakesOver
    <3>3. \A q \in Procs : BacksUp(cmd[q])'
      BY <3>1, <3>2, OneToRestore
    <3> QED
      BY <3>1, <3>2, <3>3 DEF Originals, RollbackRestoresOriginals
  <2>7. CASE Validate(p) \/ Preview(p) \/ CompareTarget(p)
    <3>1. /\ cmd[p].pc # "idle" /\ cmd'[p].pc \in Planning
          /\ \A q \in Procs \ {p} : cmd'[q] = cmd[q]
          /\ UNCHANGED <<state, original, rebased, done>>
      BY <2>7, Plans DEF history, taken, Planning
    <3>2. BacksUp(cmd[p])'
      BY <3>1 DEF BacksUp, Planning
    <3> QED
      BY <1>6, <3>1, <3>2
  <2>a. CASE BeginRollback(p)
    <3>1. /\ cmd[p].pc = "check" /\ \A q \in Procs \ {p} : cmd'[q] = cmd[q]
          /\ UNCHANGED <<state, original, rebased, done>>
          /\ \/ cmd'[p].pc = "remove"
             \/ /\ cmd'[p].pc = "restore" /\ cmd'[p].previous = state.previous
                /\ cmd'[p].assets = DOMAIN state.previous
      BY <2>a, Begins DEF MayRollback, history, taken
    <3>2. BacksUp(cmd[p])'
      BY <3>1 DEF BacksUp
    <3> QED
      BY <1>6, <3>1, <3>2
  <2>8. CASE \/ WriteAsset(p) \/ WriteMigrated(p) \/ UndoAsset(p) \/ RestoreAsset(p) \/ RemoveAsset(p)
    <3>1. /\ cmd[p].pc # "idle" /\ \A q \in Procs \ {p} : cmd'[q] = cmd[q]
          /\ cmd'[p].pc = cmd[p].pc /\ cmd'[p].op = cmd[p].op
          /\ UNCHANGED <<state, original, rebased, done>>
      BY <2>8, VisitsOne DEF history, taken
    <3>2. CASE WriteAsset(p)
      BY <1>6, <2>1, <3>1, <3>2, AssetIsBackedUp
    <3>3. CASE RestoreAsset(p)
      BY <1>6, <2>1, <3>1, <3>3, RestoredAssets
    <3>4. CASE WriteMigrated(p) \/ UndoAsset(p) \/ RemoveAsset(p)
      <4>1. \/ cmd[p].pc = "write" /\ cmd[p].op = "migrate"
            \/ cmd[p].pc \in {"undo", "remove"}
        BY <3>4 DEF WriteMigrated, UndoAsset, RemoveAsset
      <4>2. BacksUp(cmd[p])'
        BY <2>1, <3>1, <4>1 DEF BacksUp
      <4> QED
        BY <1>6, <3>1, <4>2
    <3> QED
      BY <2>8, <3>2, <3>3, <3>4
  <2>9. CASE WriteState(p)
    <3>1. /\ cmd[p].pc # "idle" /\ cmd'[p].pc = "doctor" /\ UNCHANGED done
          /\ \A q \in Procs \ {p} : cmd'[q] = cmd[q]
      BY <2>9, MovesOnly DEF WriteState, FilesAreWritten, Inv, TypeOK
    <3>2. BacksUp(cmd[p])' /\ done' = "none"
      BY <3>1, OneRuns, SetupAssumption DEF BacksUp, Reported
    <3>3. \A q \in Procs : BacksUp(cmd[q])'
      BY <3>1, <3>2, OneToRestore
    <3> QED
      BY <2>9, <3>2, <3>3, WrittenBackups DEF Originals, RollbackRestoresOriginals
  <2>10. CASE UndoMigration(p) \/ TreeIsBack(p) \/ DoctorUndoes(p) \/ TargetsAreRemoved(p)
    <3>1. ~WriteState(p) /\ ~ApplyFails(p) /\ ~SourceGone(p)
      BY <2>10 DEF UndoMigration, TreeIsBack, DoctorUndoes, TargetsAreRemoved, WriteState,
         ApplyFails, SourceGone, FilesAreWritten
    <3>2. /\ cmd[p].pc # "idle" /\ \A q \in Procs \ {p} : cmd'[q] = cmd[q]
          /\ cmd'[p].op = cmd[p].op /\ UNCHANGED <<state, original, rebased, done>>
      BY <2>10, <3>1, MovesOnly DEF taken, history
    <3>3. /\ cmd[p].pc # "write"
          /\ \/ cmd'[p].pc \in {"tree", "agents"}
             \/ cmd[p].op = "migrate" /\ cmd'[p].pc = "undo"
      BY <2>10, <3>1, MovesOnly
    <3>4. BacksUp(cmd[p])'
      BY <3>2, <3>3 DEF BacksUp
    <3> QED
      BY <1>6, <3>2, <3>3, <3>4
  <2>11. CASE RetireOld(p) \/ CopyTree(p)
    BY <1>2, <2>11 DEF RetireOld, CopyTree, history, taken
  <2>12. CASE RestoreAgent(p)
    <3>1. cmd[p].pc = "agents" /\ UNCHANGED <<cmd, state, original, rebased, done>>
      BY <2>12 DEF RestoreAgent, history, taken
    <3>2. BacksUp(cmd[p])'
      BY <3>1 DEF BacksUp
    <3> QED
      BY <1>6, <3>1, <3>2
  <2> QED
    BY <1>7, <2>2, <2>3, <2>4, <2>5, <2>6, <2>7, <2>a, <2>8, <2>9, <2>10, <2>11,
       <2>12, StepKinds
<1>8. CASE UNCHANGED vars \/ Checkout \/ UserEditsOldTree \/ (\E p \in Procs : StartBusy(p))
  BY <1>2, <1>8 DEF vars, disk, history, taken, Checkout, UserEditsOldTree, StartBusy
<1>9. ASSUME NEW a \in Assets, NEW text, UserEdits(a, text)
      PROVE  Originals'
  <2>1. lock = Free /\ UNCHANGED <<state, cmd, original, rebased>> /\ done' = "none"
    BY <1>9 DEF UserEdits, taken
  <2> QED
    BY <1>3, <1>4, <2>1
<1> QED
  BY <1>5, <1>7, <1>8, <1>9 DEF Next

(* While no command has failed or died, rollback gives every target back the *)
(* content it had before setup first took it over, across any number of      *)
(* updates: what apply puts on record the first time it meets a target is    *)
(* what an update inherits, and never what an earlier release left there.    *)
(* The targets of which a command made another backup later are the          *)
(* exception.                                                                *)
THEOREM OriginalsComeBack == Spec => []RollbackRestoresOriginals
<1>1. Init => OriginalsInv
  <2>1. Idle.pc = "idle"
    BY DEF Idle
  <2>2. ASSUME Init
        PROVE  ~(IsInstalled /\ state.root = "new") /\ done = "none"
    <3>1. CASE FreshHome
      BY <2>2, <3>1 DEF Init, FreshHome, IsInstalled
    <3>2. CASE OldHome
      <4>1. PICK v \in OldReleases : state = OldState(v)
        BY <3>2 DEF OldHome
      <4>2. state.root = "old"
        BY <4>1 DEF OldState
      <4> QED
        BY <2>2, <4>2 DEF Init
    <3> QED
      BY <2>2, <3>1, <3>2 DEF Init
  <2>3. ASSUME Init
        PROVE  \A q \in Procs : BacksUp(cmd[q])
    BY <2>1, <2>3 DEF Init, BacksUp
  <2>4. Init => failures \in Nat /\ stops \in Nat
    BY DEF Init
  <2>5. Init => BackupsAreOriginals /\ RollbackRestoresOriginals
    BY <2>2 DEF BackupsAreOriginals, RollbackRestoresOriginals
  <2> QED
    BY <2>3, <2>4, <2>5 DEF OriginalsInv, Originals
<1>2. Inv /\ Reported /\ KnowsInv /\ OriginalsInv /\ [Next]_vars => OriginalsInv'
  BY FailuresAreCounted, StaysOriginal DEF OriginalsInv
<1>3. OriginalsInv => RollbackRestoresOriginals
  BY DEF OriginalsInv, Originals, RollbackRestoresOriginals, Smooth
<1> QED
  BY <1>1, <1>2, <1>3, CommandsAreHarmless, SuccessIsReported, CommandsKnowTheState, PTL DEF Spec

-----------------------------------------------------------------------------
(* What a migration keeps of the installation it retires: its tree, and the *)
(* agents that were among the assets it listed, as the old state has them.  *)
Backs(s, tree, agents, listed) ==
  /\ \A a \in DOMAIN s.installed \ Agents : tree[a] = s.installed[a]
  /\ {x \in OldFiles : tree[x] # Absent} = DOMAIN s.installed \cap Skills
  /\ \A a \in DOMAIN s.installed \cap Agents \cap listed :
       a \in DOMAIN agents /\ agents[a] = s.installed[a]

\* The state has the retired installation on record.
Linked ==
  retired # NoState /\ state # NoState /\ state.root = "new" =>
    /\ state.migration # NoMigration
    /\ state.migration.state = retired.state
    /\ Backs(retired.state, state.migration.tree, state.migration.agents, retired.assets)

\* The rollback of a migration has the record of the retired installation.
GivesBack(c) ==
  /\ c.old = retired.state
  /\ Backs(c.old, c.tree, c.previous, retired.assets)
  /\ c.pc = "agents" => legacy = c.tree

Gives(c) ==
  /\ c.op = "migrate" /\ c.pc = "write" => Backs(c.old, c.tree, c.previous, c.listed)
  /\ c.pc \in {"remove", "tree", "agents"} /\ c.op = "rollback" /\ retired # NoState =>
       GivesBack(c)

GivesInv == \A p \in Procs : Gives(cmd[p])

RetiredInv == Linked /\ GivesInv /\ RetiredInstallationComesBack

LEMMA OneToGive ==
  ASSUME Inv, NEW p \in Procs, cmd[p].pc # "idle", Gives(cmd[p])',
         \A q \in Procs \ {p} : cmd'[q] = cmd[q]
  PROVE  GivesInv'
<1>1. Idle.pc = "idle"
  BY DEF Idle
<1>2. ASSUME NEW q \in Procs \ {p}
      PROVE  Gives(cmd[q])'
  BY <1>1, <1>2, OthersAreIdle DEF Gives
<1> QED
  BY <1>2 DEF GivesInv

\* What migrate backs up before its first write.
LEMMA MigrateBacksUp ==
  ASSUME Inv, IsInstalled, OldTreeMatches, OldAgentsMatch(Assets)
  PROVE  Backs(state, legacy, agent_backups, managed_assets)
<1>1. /\ \A a \in DOMAIN state.installed : state.installed[a] \in Shipped
      /\ DOMAIN state.installed \subseteq Assets /\ Absent \notin Shipped
  BY StatesAreClean, InstalledIsShipped, SetupAssumption DEF IsInstalled, Contents
<1>2. ASSUME NEW a \in DOMAIN state.installed \cap Agents \cap managed_assets
      PROVE  a \in DOMAIN agent_backups /\ agent_backups[a] = state.installed[a]
  <2>1. file[a] = state.installed[a] /\ file[a] # Absent
    BY <1>1, <1>2 DEF OldAgentsMatch
  <2> QED
    BY <1>2, <2>1 DEF agent_backups
<1> QED
  BY <1>2 DEF Backs, OldTreeMatches

LEMMA PlanGives ==
  ASSUME Inv, NEW p \in Procs, Validate(p) \/ Preview(p) \/ CompareTarget(p)
  PROVE  Gives(cmd[p])'
  BY Plans DEF Gives, Planning

LEMMA ListGives ==
  ASSUME Inv, KnowsInv, NEW p \in Procs, ListAssets(p)
  PROVE  Gives(cmd[p])'
<1>1. /\ cmd[p].pc = "compare" /\ cmd'[p].pc = "write" /\ cmd'[p].op = cmd[p].op
      /\ cmd'[p].listed = managed_assets /\ cmd'[p].old = state
      /\ cmd'[p].previous = FirstBackups(cmd[p].op)
      /\ cmd[p].op = "migrate" => cmd'[p].tree = legacy
  BY Lists
<1>2. ASSUME cmd[p].op = "migrate"
      PROVE  Backs(state, legacy, agent_backups, managed_assets)
  BY <1>1, <1>2, MigrateBacksUp DEF KnowsInv, Knows, Planning
<1>3. cmd[p].op = "migrate" => cmd'[p].previous = agent_backups
  BY <1>1 DEF FirstBackups
<1> QED
  BY <1>1, <1>2, <1>3 DEF Gives, Backs

LEMMA BeginGives ==
  ASSUME Inv, Linked, NEW p \in Procs, BeginRollback(p)
  PROVE  Gives(cmd[p])'
<1>1. retired' = retired /\ MayRollback /\ cmd'[p].op = "rollback"
  BY Begins DEF history
<1>2. CASE cmd'[p].pc = "restore"
  BY <1>1, <1>2 DEF Gives
<1>3. CASE /\ cmd'[p].pc = "remove"
           /\ cmd'[p].previous = state.migration.agents
           /\ cmd'[p].tree = state.migration.tree
           /\ cmd'[p].old = state.migration.state
  <2>1. state # NoState /\ state.root = "new"
    BY <1>1 DEF MayRollback, IsInstalled
  <2>2. ASSUME retired # NoState
        PROVE  /\ cmd'[p].old = retired.state
               /\ Backs(retired.state, cmd'[p].tree, cmd'[p].previous, retired.assets)
    BY <1>3, <2>1, <2>2 DEF Linked
  <2> QED
    BY <1>1, <1>3, <2>2 DEF Gives, GivesBack, Backs
<1> QED
  BY <1>2, <1>3, Begins

LEMMA VisitGives ==
  ASSUME Inv, GivesInv, NEW p \in Procs,
         \/ WriteAsset(p) \/ WriteMigrated(p) \/ UndoAsset(p) \/ RestoreAsset(p) \/ RemoveAsset(p)
  PROVE  Gives(cmd[p])'
<1>1. /\ cmd'[p].pc = cmd[p].pc /\ cmd'[p].op = cmd[p].op
      /\ cmd'[p].tree = cmd[p].tree /\ cmd'[p].old = cmd[p].old
      /\ cmd'[p].listed = cmd[p].listed
      /\ retired' = retired /\ legacy' = legacy
      /\ WriteAsset(p) \/ cmd'[p].previous = cmd[p].previous
  BY VisitsOne DEF history
<1>2. Gives(cmd[p])
  BY DEF GivesInv
<1>3. CASE WriteAsset(p)
  <2>1. cmd[p].pc = "write" /\ cmd[p].op # "migrate"
    BY <1>3 DEF WriteAsset
  <2> QED
    BY <1>1, <2>1 DEF Gives
<1>4. CASE ~WriteAsset(p)
  BY <1>1, <1>2, <1>4 DEF Gives, GivesBack, Backs
<1> QED
  BY <1>3, <1>4

LEMMA MoveGives ==
  ASSUME Inv, GivesInv, NEW p \in Procs,
         \/ WriteState(p) \/ ApplyFails(p) \/ SourceGone(p) \/ UndoMigration(p)
         \/ TreeIsBack(p) \/ DoctorUndoes(p) \/ TargetsAreRemoved(p)
  PROVE  Gives(cmd[p])'
<1>1. /\ cmd'[p].op = cmd[p].op /\ cmd'[p].assets = cmd[p].assets
      /\ cmd'[p].previous = cmd[p].previous
      /\ cmd'[p].tree = cmd[p].tree /\ cmd'[p].old = cmd[p].old
      /\ file' = file /\ legacy' = legacy
  BY MovesOnly DEF disk
<1>2. Gives(cmd[p])
  BY DEF GivesInv
<1>3. CASE cmd'[p].pc \in {"doctor", "undo"}
  BY <1>3 DEF Gives
<1>4. CASE cmd[p].op = "migrate" /\ cmd'[p].pc \in {"undo", "tree", "agents"}
  BY <1>1, <1>4 DEF Gives
<1>5. CASE /\ UNCHANGED history
           /\ \/ cmd[p].pc = "tree" /\ cmd'[p].pc = "agents" /\ legacy = cmd[p].tree
              \/ cmd[p].pc = "remove" /\ cmd'[p].pc = "tree" /\ cmd[p].assets = {}
  <2>1. retired' = retired
    BY <1>5 DEF history
  <2>2. ASSUME cmd[p].op = "rollback", retired # NoState
        PROVE  GivesBack(cmd[p])'
    <3>1. GivesBack(cmd[p])
      BY <1>2, <1>5, <2>2 DEF Gives
    <3> QED
      BY <1>1, <1>5, <2>1, <3>1 DEF GivesBack, Backs
  <2> QED
    BY <1>1, <1>5, <2>1, <2>2 DEF Gives
<1> QED
  BY <1>3, <1>4, <1>5, MovesOnly

\* The steps that leave the command as it is.
LEMMA RestoreGives ==
  ASSUME Inv, GivesInv, NEW p \in Procs, RetireOld(p) \/ CopyTree(p) \/ RestoreAgent(p)
  PROVE  Gives(cmd[p])'
<1>1. Gives(cmd[p]) /\ cmd' = cmd /\ retired' = retired /\ file \in [Assets -> Files]
  BY DEF RetireOld, CopyTree, RestoreAgent, GivesInv, Inv, TypeOK, history
<1>2. CASE RetireOld(p)
  <2>1. cmd[p].pc = "write"
    BY <1>2 DEF RetireOld
  <2> QED
    BY <1>1, <2>1 DEF Gives, Backs
<1>3. CASE CopyTree(p)
  <2>1. cmd[p].pc = "tree" /\ file' = file
    BY <1>3 DEF CopyTree
  <2> QED
    BY <1>1, <2>1 DEF Gives, GivesBack, Backs
<1>4. CASE RestoreAgent(p)
  <2>2. cmd[p].pc = "agents" /\ legacy' = legacy
    BY <1>4 DEF RestoreAgent
  <2>3. ASSUME cmd[p].op = "rollback", retired # NoState
        PROVE  GivesBack(cmd[p])'
    <3>1. GivesBack(cmd[p])
      BY <1>1, <2>2, <2>3 DEF Gives
    <3> QED
      BY <1>1, <2>2, <3>1 DEF GivesBack, Backs
  <2> QED
    BY <1>1, <2>2, <2>3 DEF Gives
<1> QED
  BY <1>2, <1>3, <1>4

\* The state that a migration, or an update of one, writes.
LEMMA WrittenLink ==
  ASSUME Inv, KnowsInv, Linked, GivesInv, NEW p \in Procs, WriteState(p)
  PROVE  Linked'
<1>1. /\ cmd[p].pc = "write"
      /\ cmd[p].op \in {"install", "update", "migrate"}
      /\ state'.migration = migration(p)
      /\ retired' = CASE cmd[p].op = "migrate" -> [state |-> cmd[p].old, assets |-> cmd[p].listed]
                      [] cmd[p].op = "install" -> NoState
                      [] OTHER                 -> retired
  BY OneRuns DEF WriteState, FilesAreWritten, Informed
<1>2. CASE cmd[p].op = "install"
  BY <1>1, <1>2 DEF Linked
<1>3. CASE cmd[p].op = "migrate"
  <2>1. Backs(cmd[p].old, cmd[p].tree, cmd[p].previous, cmd[p].listed)
    BY <1>1, <1>3 DEF GivesInv, Gives
  <2>2. /\ state'.migration = [tree |-> cmd[p].tree, agents |-> cmd[p].previous,
                               state |-> cmd[p].old]
        /\ retired' = [state |-> cmd[p].old, assets |-> cmd[p].listed]
    BY <1>1, <1>3 DEF migration
  <2>3. state'.migration # NoMigration
    <3>1. state'.migration \in Migrations
      BY <1>3, <2>2, OneRuns, <1>1 DEF Migrations, Informed, Planning
    <3> QED
      BY <3>1, SetupAssumption
  <2> QED
    BY <2>1, <2>2, <2>3 DEF Linked, Backs
<1>4. CASE cmd[p].op = "update"
  <2>1. state = cmd[p].old /\ state \in NewStates
    BY <1>1, <1>4, OneRuns DEF KnowsInv, Knows, Informed, Planning
  <2>2. state # NoState /\ state.root = "new"
    BY <2>1, SetupAssumption DEF NewStates
  <2>3. state'.migration = state.migration /\ retired' = retired
    BY <1>1, <1>4, <2>1 DEF migration
  <2>4. ASSUME retired # NoState
        PROVE  /\ state.migration # NoMigration
               /\ state.migration.state = retired.state
               /\ Backs(retired.state, state.migration.tree, state.migration.agents,
                        retired.assets)
    BY <2>2, <2>4 DEF Linked
  <2> QED
    BY <2>3, <2>4 DEF Linked, Backs
<1> QED
  BY <1>1, <1>2, <1>3, <1>4

\* The retired installation is back when a rollback has written the old state.
LEMMA OldInstallationIsBack ==
  ASSUME Inv, GivesInv, NEW p \in Procs, RestoreOldState(p)
  PROVE  Linked' /\ RetiredInstallationComesBack'
<1>1. /\ cmd[p].pc = "agents" /\ cmd[p].op \in {"migrate", "rollback"}
      /\ \A a \in DOMAIN cmd[p].previous : file[a] = cmd[p].previous[a]
      /\ state' = cmd[p].old /\ UNCHANGED <<file, legacy>>
      /\ cmd[p].old \in OldStates /\ cmd[p].tree \in Trees
      /\ cmd[p].op = "migrate" => done' = "none"
      /\ cmd[p].op = "rollback" => retired' = retired
  BY OneRuns DEF RestoreOldState, Finish, Informed, disk, Planning
<1>2. Linked'
  BY <1>1 DEF Linked, OldStates
<1>3. ASSUME cmd[p].op = "rollback", retired # NoState
      PROVE  state' = retired.state /\ OldTreeMatches' /\ OldAgentsMatch(retired.assets)'
  <2>1. GivesBack(cmd[p])
    BY <1>1, <1>3 DEF GivesInv, Gives
  <2>2. /\ state' = retired.state /\ legacy = cmd[p].tree
        /\ Backs(state', legacy, cmd[p].previous, retired.assets)
    BY <1>1, <2>1 DEF GivesBack
  <2>3. OldAgentsMatch(retired.assets)'
    BY <1>1, <1>3, <2>2 DEF Backs, OldAgentsMatch
  <2>4. legacy' # NoTree
    BY <1>1, <2>2, CleanIsNotTheUsers
  <2>5. OldTreeMatches'
    BY <1>1, <2>2, <2>4 DEF Backs, OldTreeMatches
  <2> QED
    BY <2>2, <2>3, <2>5
<1> QED
  BY <1>1, <1>2, <1>3 DEF RetiredInstallationComesBack

LEMMA StaysGiven ==
  ASSUME Inv, Reported, KnowsInv, RetiredInv, [Next]_vars
  PROVE  RetiredInv'
<1>1. Linked /\ GivesInv /\ RetiredInstallationComesBack
  BY DEF RetiredInv
<1>2. Idle.pc = "idle" /\ Checking.pc = "check" /\ Idle.op = "none" /\ Checking.op = "none"
  BY DEF Idle, Checking
<1>3. ASSUME UNCHANGED <<state, retired>> PROVE Linked'
  BY <1>1, <1>3 DEF Linked, Backs
<1>4. ASSUME \A q \in Procs : cmd'[q] \in {Idle, Checking} PROVE GivesInv'
  BY <1>2, <1>4 DEF GivesInv, Gives
<1>5. ASSUME done' # "rollback" PROVE RetiredInstallationComesBack'
  BY <1>5 DEF RetiredInstallationComesBack
<1>6. CASE UNCHANGED <<file, legacy, state, cmd, done, retired>>
  <2>1. GivesInv'
    <3>1. ASSUME NEW q \in Procs PROVE Gives(cmd[q])'
      <4>1. Gives(cmd[q])
        BY <1>1 DEF GivesInv
      <4> QED
        BY <1>6, <4>1 DEF Gives, GivesBack, Backs
    <3> QED
      BY <3>1 DEF GivesInv
  <2>2. RetiredInstallationComesBack'
    BY <1>1, <1>6 DEF RetiredInstallationComesBack, OldTreeMatches, OldAgentsMatch
  <2> QED
    BY <1>3, <1>6, <2>1, <2>2 DEF RetiredInv
\* The user's steps, and a move of the checkout.
<1>7. CASE /\ UNCHANGED <<state, retired, cmd>> /\ done' = "none"
           /\ lock = Free \/ UNCHANGED <<file, legacy>>
  <2>1. CASE lock = Free
    <3>1. \A q \in Procs : cmd'[q] = Idle
      BY <1>7, <2>1, SetupAssumption DEF Inv
    <3> QED
      BY <1>3, <1>4, <1>5, <1>7, <3>1 DEF RetiredInv
  <2>2. CASE UNCHANGED <<file, legacy>>
    <3>1. ASSUME NEW q \in Procs PROVE Gives(cmd[q])'
      <4>1. Gives(cmd[q])
        BY <1>1 DEF GivesInv
      <4> QED
        BY <1>7, <2>2, <4>1 DEF Gives, GivesBack, Backs
    <3>2. GivesInv'
      BY <3>1 DEF GivesInv
    <3> QED
      BY <1>3, <1>5, <1>7, <3>2 DEF RetiredInv
  <2> QED
    BY <1>7, <2>1, <2>2
<1>8. ASSUME NEW p \in Procs, Start(p)
      PROVE  RetiredInv'
  <2>1. /\ \A q \in Procs : cmd[q] = Idle
        /\ cmd \in [Procs -> Cmds] /\ done' = "none" /\ UNCHANGED <<state, retired>>
    BY <1>8, SetupAssumption DEF Start, LockIsFree, Inv, TypeOK
  <2>2. \A q \in Procs : cmd'[q] \in {Idle, Checking}
    BY <1>8, <2>1 DEF Start, Checking
  <2> QED
    BY <1>3, <1>4, <1>5, <2>1, <2>2 DEF RetiredInv
\* A step of a running command that does not end it.
<1>9. ASSUME NEW p \in Procs, cmd[p].pc # "idle", \A q \in Procs \ {p} : cmd'[q] = cmd[q],
             Gives(cmd[p])', Linked', UNCHANGED done
      PROVE  RetiredInv'
  <2>1. GivesInv'
    BY <1>9, OneToGive
  <2>2. done' = "none"
    BY <1>9, OneRuns, SetupAssumption DEF Reported
  <2> QED
    BY <1>5, <1>9, <2>1, <2>2 DEF RetiredInv
<1>10. ASSUME NEW p \in Procs, Step(p) \/ ApplyFails(p) \/ Stop(p)
       PROVE  RetiredInv'
  <2>1. CASE Refuse(p) \/ Doctor(p) \/ Stop(p)
    <3>1. /\ cmd[p].pc # "idle" /\ UNCHANGED <<state, retired>>
          /\ done' \in {"none", cmd[p].op} /\ \E result : Finish(p, result)
          /\ done' = "none" \/ cmd[p].pc = "doctor"
      BY <2>1 DEF Refuse, Refuses, Doctor, Stop, Finish, history
    <3>2. done' # "rollback"
      BY <3>1, OneRuns DEF Informed
    <3>3. \A q \in Procs : cmd'[q] = Idle
      BY <3>1, AllAreIdle
    <3> QED
      BY <1>3, <1>4, <1>5, <3>1, <3>2, <3>3 DEF RetiredInv
  <2>2. CASE UndoState(p)
    <3>1. /\ cmd[p].pc = "undo" /\ cmd[p].op # "migrate" /\ state' = cmd[p].old
          /\ retired' = retired /\ done' = "none" /\ \A q \in Procs : cmd'[q] = Idle
      BY <2>2, AllAreIdle DEF UndoState, Finish, history
    <3>2. state' = state
      BY <3>1, OneRuns DEF KnowsInv, Knows, Informed
    <3> QED
      BY <1>3, <1>4, <1>5, <3>1, <3>2 DEF RetiredInv
  <2>3. CASE RestoreOldState(p)
    <3>1. \A q \in Procs : cmd'[q] = Idle
      BY <2>3, AllAreIdle DEF RestoreOldState
    <3> QED
      BY <1>1, <1>4, <2>3, <3>1, OldInstallationIsBack DEF RetiredInv
  <2>4. CASE RestoreState(p)
    <3>1. /\ cmd[p].pc = "restore" /\ \A q \in Procs : cmd'[q] = Idle
          /\ retired' = retired
      BY <2>4, AllAreIdle DEF RestoreState
    <3>2. state # NoState /\ state.root = "new" /\ state.migration = NoMigration
      BY <3>1 DEF KnowsInv, Knows, IsInstalled
    <3>3. retired' = NoState
      BY <1>1, <3>1, <3>2 DEF Linked
    <3> QED
      BY <1>4, <3>1, <3>3 DEF RetiredInv, Linked, RetiredInstallationComesBack
  <2>5. CASE Validate(p) \/ Preview(p) \/ CompareTarget(p)
    <3>1. /\ cmd[p].pc # "idle" /\ \A q \in Procs \ {p} : cmd'[q] = cmd[q]
          /\ UNCHANGED <<state, retired, done>>
      BY <2>5, Plans DEF history, Planning
    <3> QED
      BY <1>3, <1>9, <2>5, <3>1, PlanGives
  <2>a. CASE ListAssets(p)
    BY <1>3, <1>9, <2>a, Lists, ListGives
  <2>b. CASE BeginRollback(p)
    <3>1. /\ cmd[p].pc # "idle" /\ \A q \in Procs \ {p} : cmd'[q] = cmd[q]
          /\ UNCHANGED <<state, retired, done>>
      BY <2>b, Begins DEF history
    <3> QED
      BY <1>1, <1>3, <1>9, <2>b, <3>1, BeginGives
  <2>6. CASE \/ WriteAsset(p) \/ WriteMigrated(p) \/ UndoAsset(p) \/ RestoreAsset(p) \/ RemoveAsset(p)
    <3>1. /\ cmd[p].pc # "idle" /\ \A q \in Procs \ {p} : cmd'[q] = cmd[q]
          /\ UNCHANGED <<state, retired, done>>
      BY <2>6, VisitsOne DEF history
    <3> QED
      BY <1>1, <1>3, <1>9, <2>6, <3>1, VisitGives
  <2>7. CASE \/ WriteState(p) \/ ApplyFails(p) \/ SourceGone(p) \/ UndoMigration(p)
             \/ TreeIsBack(p) \/ DoctorUndoes(p) \/ TargetsAreRemoved(p)
    <3>1. /\ cmd[p].pc # "idle" /\ \A q \in Procs \ {p} : cmd'[q] = cmd[q]
      BY <2>7, MovesOnly
    <3>2. UNCHANGED done
      BY <2>7, MovesOnly
    <3>3. WriteState(p) \/ UNCHANGED <<state, retired>>
      BY <2>7, MovesOnly DEF history
    <3>4. Linked'
      BY <1>1, <1>3, <3>3, WrittenLink
    <3> QED
      BY <1>1, <1>9, <2>7, <3>1, <3>2, <3>4, MoveGives
  <2>8. CASE RetireOld(p) \/ CopyTree(p) \/ RestoreAgent(p)
    <3>1. cmd[p].pc # "idle" /\ UNCHANGED <<state, retired, done, cmd>>
      BY <2>8 DEF RetireOld, CopyTree, RestoreAgent, history
    <3> QED
      BY <1>1, <1>3, <1>9, <2>8, <3>1, RestoreGives
  <2> QED
    BY <1>10, <2>1, <2>2, <2>3, <2>4, <2>5, <2>a, <2>b, <2>6, <2>7, <2>8,
       StepKinds
<1>11. CASE UNCHANGED vars \/ \E p \in Procs : StartBusy(p)
  BY <1>6, <1>11 DEF vars, disk, history, StartBusy
<1>12. CASE \/ Checkout \/ UserEditsOldTree
            \/ \E a \in Assets, text \in UserTexts \cup {Absent} : UserEdits(a, text)
  BY <1>7, <1>12 DEF Checkout, UserEditsOldTree, UserEdits, disk
<1> QED
  BY <1>8, <1>10, <1>11, <1>12 DEF Next

(* A rollback gives back the installation that migrate retired, with its     *)
(* tree, its state and those of its agents that the checkout had when        *)
(* migrate listed the assets, whatever updates ran, failed or died since:    *)
(* the record migrate made is the one every update hands on.                 *)
THEOREM RetiredComesBack == Spec => []RetiredInstallationComesBack
<1>1. Init => RetiredInv
  <2>1. Idle.pc = "idle"
    BY DEF Idle
  <2>2. ASSUME Init
        PROVE  /\ \A q \in Procs : cmd[q] = Idle
               /\ retired = NoState /\ done = "none"
    BY <2>2 DEF Init
  <2> QED
    BY <2>1, <2>2 DEF RetiredInv, Linked, GivesInv, Gives, RetiredInstallationComesBack
<1>2. Inv /\ Reported /\ KnowsInv /\ RetiredInv /\ [Next]_vars => RetiredInv'
  BY StaysGiven
<1>3. RetiredInv => RetiredInstallationComesBack
  BY DEF RetiredInv
<1> QED
  BY <1>1, <1>2, <1>3, CommandsAreHarmless, SuccessIsReported, CommandsKnowTheState, PTL DEF Spec

=============================================================================
