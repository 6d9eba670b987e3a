------------------------------ MODULE Snapshot -------------------------------
(***************************************************************************)
(* build_snapshot (candidate_snapshot.py): the candidate is captured twice *)
(* and compared, while workers, editors and git change the working tree,   *)
(* the index and HEAD.  Nothing is locked.                                 *)
(*                                                                         *)
(* Abstraction.  A content is opaque and has a kind; it stands for a blob  *)
(* with its mode, so one read of a path gives kind, mode and digest.  Git  *)
(* looks at one path at a time.  A path is anything not ignored: ignored,  *)
(* quoted, unsafe and unsupported paths are left out.                      *)
(*                                                                         *)
(* seen and past are history variables: the candidates there were since    *)
(* the call began, and every content and index entry a path has had.       *)
(***************************************************************************)
EXTENDS Naturals, Sequences, SequencesExt

CONSTANTS
  Order,       (* the paths, in the order Git lists them                 *)
  Contents,    (* contents of a path                                     *)
  Absent,      (* no file                                                *)
  Kind,        (* kind of a content: file or symlink                     *)
  Commits,     (* what HEAD may name                                     *)
  Tree,        (* contents of a commit's paths                           *)
  AtHead,      (* no --base: the base is what HEAD names                 *)
  Bases,       (* what --base may be                                     *)
  Changes,     (* the kinds of change that happen during the call        *)
  MayRestore,  (* whether a change may bring back what was there before  *)
  MaxChanges   (* bound on the changes during the call                   *)

Paths == ToSet(Order)

ASSUME TreeAssumption ==
  /\ Order \in Seq(Paths) /\ IsInjective(Order)
  /\ Absent \notin Contents
  /\ Tree \in [Commits -> [Paths -> Contents \cup {Absent}]]
  /\ AtHead \notin Commits /\ Bases \subseteq Commits \cup {AtHead}
  /\ Changes \subseteq {"file", "index", "head"}
  /\ MayRestore \in BOOLEAN
  /\ MaxChanges \in Nat

VARIABLES
  work,     (* the working tree                                          *)
  index,    (* paths in the index                                        *)
  head,     (* the commit HEAD names                                     *)
  wanted,   (* the --base of the call                                    *)
  pc,       (* where the call is                                         *)
  todo,     (* paths the current pass has still to look at               *)
  base,     (* base_commit of the current capture                        *)
  statuses, (* paths the capture has found so far                        *)
  entries,  (* entries of the current capture                            *)
  first,    (* the first capture, once it is complete                    *)
  result,   (* what the call came to                                     *)
  seen, past,
  changes   (* changes so far, a bound and nothing else                  *)

tree    == <<work, index, head, wanted>>
capture == <<todo, base, statuses, entries>>
vars    == <<work, index, head, wanted, pc, todo, base, statuses, entries, first, result,
          seen, past, changes>>

history == <<seen, past, changes>>

None == [status |-> "none"]

-----------------------------------------------------------------------------
(* _capture_snapshot: the state of an entry against the base tree.         *)
Entry(from, p, content) ==
  [path    |-> p,
   state   |-> IF content = Absent THEN "deleted"
               ELSE IF from[p] = Absent THEN "added"
               ELSE IF Kind[from[p]] # Kind[content] THEN "type_changed"
               ELSE "modified",
   content |-> content]

\* _resolve_base
resolved_base == IF wanted = AtHead THEN head ELSE wanted

\* The candidate at this instant, were it captured in no time at all.
Candidate ==
  [base    |-> resolved_base,
   entries |-> {Entry(Tree[resolved_base], p, work[p]) : p \in
                  {q \in Paths : work[q] # Tree[resolved_base][q]}}]

Init ==
  /\ head \in Commits
  /\ work \in [Paths -> Contents \cup {Absent}]
  /\ index \in SUBSET Paths
  /\ wanted \in Bases
  /\ pc = "base"
  /\ todo = <<>>
  /\ base = resolved_base
  /\ statuses = {}
  /\ entries = {}
  /\ first = None
  /\ result = None
  /\ seen = {Candidate}
  /\ past = [p \in Paths |-> {<<work[p], p \in index>>}]
  /\ changes = 0

Refuse(reason) ==
  /\ pc' = "end"
  /\ result' = [status |-> reason]
  /\ UNCHANGED <<tree, capture, first, history>>

\* _resolve_base and _base_tree.
ResolveBase ==
  /\ pc = "base"
  /\ base' = resolved_base
  /\ statuses' = {}
  /\ entries' = {}
  /\ todo' = Order
  /\ pc' = "diff"
  /\ UNCHANGED <<tree, first, result, history>>

\* git diff --name-status: a path that is not in the index counts as deleted.
InDiff(p) ==
  IF p \in index THEN work[p] # Tree[base][p] ELSE Tree[base][p] # Absent

Diff ==
  /\ pc = "diff"
  /\ todo # <<>>
  /\ statuses' = statuses \cup {p \in {Head(todo)} : InDiff(p)}
  /\ todo' = Tail(todo)
  /\ UNCHANGED <<tree, pc, base, entries, first, result, history>>

DiffEnds ==
  /\ pc = "diff"
  /\ todo = <<>>
  /\ todo' = Order
  /\ pc' = "others"
  /\ UNCHANGED <<tree, base, statuses, entries, first, result, history>>

\* git ls-files --others --exclude-standard
Untracked_Mutant(p) == work[p] # Absent

Untracked(p) == p \notin index /\ work[p] # Absent

Others ==
  /\ pc = "others"
  /\ todo # <<>>
  /\ LET p == Head(todo) IN
     /\ ~(Untracked(p) /\ p \in statuses)
     /\ statuses' = statuses \cup {q \in {p} : Untracked(q)}
  /\ todo' = Tail(todo)
  /\ UNCHANGED <<tree, pc, base, entries, first, result, history>>

OthersAmbiguous ==
  /\ pc = "others"
  /\ todo # <<>>
  /\ Untracked(Head(todo))
  /\ Head(todo) \in statuses
  /\ Refuse("ambiguous")

OthersEnd ==
  /\ pc = "others"
  /\ todo = <<>>
  /\ todo' = Order
  /\ pc' = "read"
  /\ UNCHANGED <<tree, base, statuses, entries, first, result, history>>

(* One path is read, if Git listed it.  It may be back at its base content *)
(* by now.                                                                 *)
Read ==
  /\ pc = "read"
  /\ todo # <<>>
  /\ LET p == Head(todo) IN
     /\ p \in statuses => work[p] # Absent \/ Tree[base][p] # Absent
     /\ entries' = entries \cup {Entry(Tree[base], q, work[q]) :
                                   q \in {r \in statuses \cap {p} : work[r] # Tree[base][r]}}
  /\ todo' = Tail(todo)
  /\ UNCHANGED <<tree, pc, base, statuses, first, result, history>>

\* A path that is new to the base has gone since Git listed it.
ReadVanished ==
  /\ pc = "read"
  /\ todo # <<>>
  /\ Head(todo) \in statuses
  /\ work[Head(todo)] = Absent
  /\ Tree[base][Head(todo)] = Absent
  /\ Refuse("ambiguous")

Captured == [base |-> base, entries |-> entries]

CaptureAgain ==
  /\ pc = "read"
  /\ todo = <<>>
  /\ first = None
  /\ first' = Captured
  /\ pc' = "base"
  /\ UNCHANGED <<tree, capture, result, history>>

\* comparable(first) = comparable(second)
Same_Mutant(x, y) == {e.path : e \in x.entries} = {e.path : e \in y.entries}

Same(x, y) == x = y

Compare ==
  /\ pc = "read"
  /\ todo = <<>>
  /\ first # None
  /\ Same(first, Captured)
  /\ pc' = "end"
  /\ result' = [status |-> "ok", snapshot |-> Captured]
  /\ UNCHANGED <<tree, capture, first, history>>

CompareChanged ==
  /\ pc = "read"
  /\ todo = <<>>
  /\ first # None
  /\ ~Same(first, Captured)
  /\ Refuse("changed")

-----------------------------------------------------------------------------
(* The rest of the world.  When MayRestore is FALSE no path ever returns   *)
(* to a content or an index entry it has had.                              *)
Fresh(p, content, tracked) ==
  MayRestore \/ \A old \in past[p] :
                   /\ content = work[p] \/ content # old[1]
                   /\ tracked = (p \in index) \/ tracked # old[2]

\* A change happens during the call.
MayChange(kind) == kind \in Changes /\ pc # "end" /\ changes < MaxChanges

Changed ==
  /\ changes' = changes + 1
  /\ seen' = seen \cup {Candidate'}
  /\ past' = [p \in Paths |-> past[p] \cup {<<work'[p], p \in index'>>}]
  /\ UNCHANGED <<pc, capture, first, result>>

ChangeFile ==
  /\ MayChange("file")
  /\ \E p \in Paths, content \in Contents \cup {Absent} :
       /\ content # work[p]
       /\ Fresh(p, content, p \in index)
       /\ work' = [work EXCEPT ![p] = content]
  /\ UNCHANGED <<index, head, wanted>>
  /\ Changed

ChangeIndex ==
  /\ MayChange("index")
  /\ \E p \in Paths :
       /\ Fresh(p, work[p], p \notin index)
       /\ index' = IF p \in index THEN index \ {p} ELSE index \cup {p}
  /\ UNCHANGED <<work, head, wanted>>
  /\ Changed

\* HEAD moves, which a call with a --base never looks at.
MoveHead ==
  /\ MayChange("head") /\ wanted = AtHead
  /\ \E c \in Commits \ {head} :
       /\ MayRestore \/ \A s \in seen : s.base = resolved_base
       /\ head' = c
  /\ UNCHANGED <<work, index, wanted>>
  /\ Changed

build_snapshot ==
  \/ ResolveBase \/ Diff \/ DiffEnds \/ Others \/ OthersAmbiguous \/ OthersEnd
  \/ Read \/ ReadVanished \/ CaptureAgain \/ Compare \/ CompareChanged

Next == build_snapshot \/ ChangeFile \/ ChangeIndex \/ MoveHead

Spec == Init /\ [][Next]_vars

-----------------------------------------------------------------------------
Entries == [path : Paths, state : {"added", "deleted", "modified", "type_changed"},
            content : Contents \cup {Absent}]

TypeOK ==
  /\ work \in [Paths -> Contents \cup {Absent}]
  /\ index \subseteq Paths
  /\ {head, base} \subseteq Commits /\ wanted \in Bases
  /\ pc \in {"base", "diff", "others", "read", "end"}
  /\ ToSet(todo) \subseteq Paths /\ statuses \subseteq Paths
  /\ entries \subseteq Entries
  /\ \A e, f \in entries : e.path = f.path => e = f
  /\ first # None => first.entries \subseteq Entries
  /\ result.status \in {"none", "ok", "ambiguous", "changed"}
  /\ changes \in 0..MaxChanges

(* build_snapshot's docstring: a changing candidate cannot produce a mixed *)
(* snapshot.  What it returns was the candidate at one instant of the call. *)
NoMixedSnapshot == result.status = "ok" => result.snapshot \in seen

\* No path entered or left the index during the call.
IndexIsStable == \A p \in Paths : \A x, y \in past[p] : x[2] = y[2]

(* What the double capture does ensure: while the index is stable and no   *)
(* path goes back to a content it has had, the snapshot is of one instant, *)
(* however files are edited, created and deleted and HEAD moves.           *)
StableIndexPreventsMixing == IndexIsStable => NoMixedSnapshot

(* A candidate nobody touched is never refused as one that changed, and is *)
(* only ambiguous when a file of the base is out of the index.             *)
QuietCandidateIsCaptured ==
  Cardinality(seen) = 1 /\ (\A p \in Paths : Cardinality(past[p]) = 1) =>
    /\ result.status # "changed"
    /\ result.status = "ambiguous" =>
         \E p \in Paths : p \notin index /\ Tree[resolved_base][p] # Absent /\ work[p] # Absent
=============================================================================
