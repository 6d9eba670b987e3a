---------------------------- MODULE SnapshotProofs ----------------------------
(***************************************************************************)
(* The double capture of build_snapshot, for any number of paths, contents *)
(* and changes.  A capture is the candidate of what it observed of each    *)
(* path.  While nothing returns to what it was, a path that both captures  *)
(* observed alike had that content between them: the snapshot is the       *)
(* candidate at that moment.                                               *)
(*                                                                         *)
(* The partitions of a plan that passes check_plan are exclusive, for any  *)
(* names and any plan: what a report that passes check_changes has changed *)
(* lies in the partition of the report and in no other.  With the double   *)
(* capture behind it, that holds of what was changed at one instant.       *)
(***************************************************************************)
EXTENDS Ownership, FiniteSetTheorems, TLAPS

Values == Contents \cup {Absent}
Trees  == [Paths -> Values]

\* The candidate that has the contents w over commit b.
CandidateOf(b, w) ==
  [base    |-> b,
   entries |-> {Entry(Tree[b], p, w[p]) : p \in {q \in Paths : w[q] # Tree[b][q]}}]

\* What the model's variables are, as far as the argument needs it.
Shape ==
  /\ work \in Trees /\ index \subseteq Paths
  /\ head \in Commits /\ base \in Commits /\ wanted \in Bases
  /\ pc \in {"base", "diff", "others", "read", "end"}
  /\ todo \in Seq(Paths) /\ IsInjective(todo)
  /\ statuses \subseteq Paths
  /\ first # None => first.base \in Commits
  /\ \A p \in Paths : <<work[p], p \in index>> \in past[p]
  /\ Candidate \in seen /\ None \notin seen

\* A path the current pass has found to be as in the base, or untracked.
Quiet(p, Ok) ==
  IF p \in index THEN Tree[base][p] \in Ok[p] ELSE Tree[base][p] = Absent

\* The current capture, where Ok has the values a path may be observed to have.
Observes(Ok) ==
  /\ pc = "diff" =>
       \A p \in Paths \ ToSet(todo) : p \in statuses \/ Quiet(p, Ok)
  /\ pc = "others" =>
       /\ \A p \in Paths \ ToSet(todo) : p \in statuses \/ Tree[base][p] \in Ok[p]
       /\ \A p \in ToSet(todo) : p \in statuses \/ Quiet(p, Ok)
  /\ pc \in {"diff", "others"} => entries = {}
  /\ pc = "read" =>
       \E o \in Trees :
         LET looked == Paths \ (ToSet(todo) \cap statuses)
         IN /\ \A p \in looked : o[p] \in Ok[p]
            /\ entries = {Entry(Tree[base], p, o[p]) :
                            p \in {q \in looked : o[q] # Tree[base][q]}}

\* The first pass observes contents a path has had.
Had == [p \in Paths |-> {v \in Values : \E x \in past[p] : x[1] = v}]

\* Between the captures the candidate was that of w over b.  The first capture
\* observed o; a path that is no longer as it was observed never is again.
Between(w, o, b) ==
  /\ CandidateOf(b, w) \in seen
  /\ first = CandidateOf(first.base, o)
  /\ b = first.base \/ resolved_base # first.base
  /\ \A p \in Paths : o[p] \in Had[p] /\ (w[p] = o[p] \/ work[p] # o[p])

\* What the second pass observes, if it is what the first one did, was there between.
Agreeing(w, o) == [p \in Paths |-> {v \in Values : v = o[p] => w[p] = v}]

\* The candidate has been one over commit b.
BaseWas(b) == \E s \in seen : s.base = b

FirstPass ==
  first = None /\ pc \notin {"base", "end"} => Observes(Had) /\ BaseWas(base)

SecondPass ==
  first # None /\ pc # "end" =>
    \E w, o \in Trees, b \in Commits :
      /\ Between(w, o, b)
      /\ BaseWas(first.base)
      /\ pc # "base" => Observes(Agreeing(w, o)) /\ (base = first.base => b = first.base)

Inv ==
  /\ Shape
  /\ IndexIsStable => FirstPass /\ SecondPass /\ NoMixedSnapshot

-----------------------------------------------------------------------------
(* Sequences of paths still to be visited *)

LEMMA HeadAndTail ==
  ASSUME NEW q \in Seq(Paths), IsInjective(q), q # <<>>
  PROVE  /\ Head(q) \in Paths /\ Tail(q) \in Seq(Paths) /\ IsInjective(Tail(q))
         /\ ToSet(q) = ToSet(Tail(q)) \cup {Head(q)}
         /\ Head(q) \notin ToSet(Tail(q))
<1>1. /\ Head(q) = q[1] /\ Len(q) \in Nat \ {0} /\ Tail(q) \in Seq(Paths)
      /\ DOMAIN q = 1..Len(q) /\ DOMAIN Tail(q) = 1..(Len(q) - 1)
      /\ \A i \in 1..(Len(q) - 1) : Tail(q)[i] = q[i + 1]
  OBVIOUS
<1>2. IsInjective(Tail(q))
  BY <1>1 DEF IsInjective
<1>3. ToSet(q) = ToSet(Tail(q)) \cup {Head(q)}
  <2>1. ASSUME NEW x \in ToSet(q) PROVE x \in ToSet(Tail(q)) \cup {Head(q)}
    <3>1. PICK i \in 1..Len(q) : q[i] = x
      BY <1>1 DEF ToSet
    <3>2. CASE i = 1
      BY <1>1, <3>1, <3>2
    <3>3. CASE i # 1
      <4>1. i - 1 \in DOMAIN Tail(q) /\ Tail(q)[i - 1] = q[i]
        BY <1>1, <3>3
      <4> QED
        BY <3>1, <4>1 DEF ToSet
    <3> QED
      BY <3>2, <3>3
  <2>2. ASSUME NEW x \in ToSet(Tail(q)) PROVE x \in ToSet(q)
    BY <1>1 DEF ToSet
  <2>3. Head(q) \in ToSet(q)
    BY <1>1 DEF ToSet
  <2> QED
    BY <2>1, <2>2, <2>3
<1>4. Head(q) \notin ToSet(Tail(q))
  BY <1>1 DEF ToSet, IsInjective
<1> QED
  BY <1>1, <1>2, <1>3, <1>4

-----------------------------------------------------------------------------
(* Captures and what they observe *)

LEMMA CandidatesDiffer ==
  ASSUME NEW b, NEW w \in Trees, NEW o \in Trees, CandidateOf(b, w) = CandidateOf(b, o)
  PROVE  w = o
<1> DEFINE E(x) == {Entry(Tree[b], p, x[p]) : p \in {q \in Paths : x[q] # Tree[b][q]}}
<1>1. E(w) = E(o)
  BY DEF CandidateOf
<1>2. ASSUME NEW x \in Trees, NEW y \in Trees, E(x) = E(y), NEW p \in Paths, x[p] # Tree[b][p]
      PROVE  y[p] = x[p]
  <2>1. Entry(Tree[b], p, x[p]) \in E(y)
    BY <1>2
  <2>2. PICK q \in Paths : Entry(Tree[b], p, x[p]) = Entry(Tree[b], q, y[q])
    BY <2>1
  <2>3. p = q /\ x[p] = y[q]
    <3>1. Entry(Tree[b], p, x[p]).path = p /\ Entry(Tree[b], p, x[p]).content = x[p]
      BY DEF Entry
    <3>2. Entry(Tree[b], q, y[q]).path = q /\ Entry(Tree[b], q, y[q]).content = y[q]
      BY DEF Entry
    <3> QED
      BY <2>2, <3>1, <3>2
  <2> QED
    BY <2>3
<1>3. \A p \in Paths : w[p] = o[p]
  BY <1>1, <1>2
<1> QED
  BY <1>3 DEF Trees

LEMMA CaptureIsCandidate ==
  ASSUME NEW Ok, Observes(Ok), pc = "read", todo = <<>>
  PROVE  \E o \in Trees : Captured = CandidateOf(base, o) /\ \A p \in Paths : o[p] \in Ok[p]
<1>1. ToSet(todo) = {}
  BY DEF ToSet
<1>2. PICK o \in Trees :
        /\ \A p \in Paths : o[p] \in Ok[p]
        /\ entries = {Entry(Tree[base], p, o[p]) : p \in {q \in Paths : o[q] # Tree[base][q]}}
  BY <1>1 DEF Observes
<1> QED
  BY <1>2 DEF Captured, CandidateOf

LEMMA WholeOrder ==
  Order \in Seq(Paths) /\ IsInjective(Order) /\ ToSet(Order) = Paths
BY TreeAssumption DEF Paths

\* A pass goes on observing values that paths may be observed to have.
LEMMA PassesObserve ==
  ASSUME Shape, NEW Ok, \A p \in Paths : work[p] \in Ok[p], Observes(Ok),
         Diff \/ DiffEnds \/ Others \/ OthersEnd \/ Read
  PROVE  Observes(Ok)'
<1>0. /\ todo \in Seq(Paths) /\ IsInjective(todo) /\ work \in Trees
      /\ statuses \subseteq Paths /\ base \in Commits
  BY DEF Shape
<1>1. CASE Diff
  <2>1. /\ pc = "diff" /\ pc' = "diff" /\ base' = base /\ index' = index /\ entries' = entries
        /\ todo # <<>> /\ todo' = Tail(todo)
        /\ statuses' = statuses \cup {p \in {Head(todo)} : InDiff(p)}
    BY <1>1 DEF Diff, tree
  <2>2. ToSet(todo) = ToSet(todo') \cup {Head(todo)} /\ Head(todo) \in Paths
    BY <1>0, <2>1, HeadAndTail
  <2>3. Head(todo) \in statuses' \/ Quiet(Head(todo), Ok)
    <3>1. CASE InDiff(Head(todo))
      BY <2>1, <3>1
    <3>2. CASE ~InDiff(Head(todo))
      BY <2>2, <3>2 DEF InDiff, Quiet
    <3> QED
      BY <3>1, <3>2
  <2>4. \A p \in Paths : Quiet(p, Ok)' <=> Quiet(p, Ok)
    BY <2>1 DEF Quiet
  <2>5. \A p \in Paths \ ToSet(todo') : p \in statuses' \/ Quiet(p, Ok)
    BY <2>1, <2>2, <2>3 DEF Observes
  <2> QED
    BY <2>1, <2>4, <2>5 DEF Observes
<1>2. CASE DiffEnds
  <2>1. /\ pc = "diff" /\ pc' = "others" /\ base' = base /\ index' = index /\ entries' = entries
        /\ todo = <<>> /\ todo' = Order /\ statuses' = statuses
    BY <1>2 DEF DiffEnds, tree
  <2>2. ToSet(todo) = {}
    BY <2>1 DEF ToSet
  <2>3. \A p \in Paths : Quiet(p, Ok)' <=> Quiet(p, Ok)
    BY <2>1 DEF Quiet
  <2> QED
    BY <2>1, <2>2, <2>3, WholeOrder DEF Observes
<1>3. CASE Others
  <2> DEFINE h == Head(todo)
  <2>1. /\ pc = "others" /\ pc' = "others" /\ base' = base /\ index' = index /\ entries' = entries
        /\ todo # <<>> /\ todo' = Tail(todo)
        /\ statuses' = statuses \cup {q \in {h} : Untracked(q)}
    BY <1>3 DEF Others, tree
  <2>2. ToSet(todo) = ToSet(todo') \cup {h} /\ h \in Paths
    BY <1>0, <2>1, HeadAndTail
  <2>3. h \in statuses' \/ Tree[base][h] \in Ok[h]
    <3>1. CASE Untracked(h)
      BY <2>1, <3>1
    <3>2. CASE ~Untracked(h) /\ h \in index /\ h \notin statuses
      BY <2>1, <2>2, <3>2 DEF Observes, Quiet
    <3>3. CASE h \notin index /\ work[h] = Absent /\ h \notin statuses
      <4>1. Tree[base][h] = Absent
        BY <2>1, <2>2, <3>3 DEF Observes, Quiet
      <4> QED
        BY <2>2, <3>3, <4>1
    <3> QED
      BY <2>1, <3>1, <3>2, <3>3 DEF Untracked
  <2>4. \A p \in Paths : Quiet(p, Ok)' <=> Quiet(p, Ok)
    BY <2>1 DEF Quiet
  <2>5. \A p \in Paths \ ToSet(todo') : p \in statuses' \/ Tree[base][p] \in Ok[p]
    BY <2>1, <2>2, <2>3 DEF Observes
  <2>6. \A p \in ToSet(todo') : p \in statuses' \/ (p \in Paths => Quiet(p, Ok)')
    BY <2>1, <2>2, <2>4 DEF Observes
  <2>7. ToSet(todo') \subseteq Paths
    <3>1. Tail(todo) \in Seq(Paths)
      BY <1>0, <2>1, HeadAndTail
    <3> QED
      BY <2>1, <3>1 DEF ToSet
  <2> QED
    BY <2>1, <2>5, <2>6, <2>7 DEF Observes
<1>4. CASE OthersEnd
  <2>1. /\ pc = "others" /\ pc' = "read" /\ base' = base /\ entries' = entries
        /\ todo = <<>> /\ todo' = Order /\ statuses' = statuses
    BY <1>4 DEF OthersEnd
  <2>2. ToSet(todo) = {} /\ entries = {}
    BY <2>1 DEF ToSet, Observes
  <2> DEFINE o == Tree[base]
  <2>3. o \in Trees
    BY <1>0, TreeAssumption DEF Trees, Values
  <2>4. \A p \in Paths \ (ToSet(todo') \cap statuses') : o[p] \in Ok[p]
    BY <2>1, <2>2, WholeOrder DEF Observes
  <2>5. entries' = {Entry(Tree[base], p, o[p]) :
                      p \in {q \in Paths \ (ToSet(todo') \cap statuses') : o[q] # Tree[base][q]}}
    BY <2>1, <2>2
  <2> HIDE DEF o
  <2> QED
    BY <2>1, <2>3, <2>4, <2>5 DEF Observes
<1>5. CASE Read
  <2> DEFINE h == Head(todo)
             looked == Paths \ (ToSet(todo) \cap statuses)
  <2>1. /\ pc = "read" /\ pc' = "read" /\ base' = base /\ statuses' = statuses
        /\ todo # <<>> /\ todo' = Tail(todo)
        /\ entries' = entries \cup {Entry(Tree[base], q, work[q]) :
                                      q \in {r \in statuses \cap {h} : work[r] # Tree[base][r]}}
    BY <1>5 DEF Read
  <2>2. ToSet(todo) = ToSet(todo') \cup {h} /\ h \in Paths /\ h \notin ToSet(todo')
    BY <1>0, <2>1, HeadAndTail
  <2>3. PICK o \in Trees :
          /\ \A p \in looked : o[p] \in Ok[p]
          /\ entries = {Entry(Tree[base], p, o[p]) : p \in {q \in looked : o[q] # Tree[base][q]}}
    BY <2>1 DEF Observes
  <2> DEFINE looks == Paths \ (ToSet(todo') \cap statuses)
             n == IF h \in statuses THEN [o EXCEPT ![h] = work[h]] ELSE o
  <2>4. n \in Trees /\ \A p \in Paths : n[p] = IF p = h /\ h \in statuses THEN work[h] ELSE o[p]
    BY <1>0, <2>2 DEF Trees
  <2>5. looks = looked \cup (statuses \cap {h}) /\ (h \in statuses => h \notin looked)
    BY <1>0, <2>2
  <2> HIDE DEF n, looks, looked
  <2>6. \A p \in looks : n[p] \in Ok[p]
    <3>1. looks \subseteq Paths
      BY DEF looks
    <3> QED
      BY <2>2, <2>3, <2>4, <2>5, <3>1
  <2>7. entries' = {Entry(Tree[base], p, n[p]) : p \in {q \in looks : n[q] # Tree[base][q]}}
    <3>1. looks \subseteq Paths /\ looked \subseteq Paths
      BY DEF looks, looked
    <3>2. \A p \in looked : n[p] = o[p]
      BY <2>4, <2>5, <3>1
    <3>3. \A p \in statuses \cap {h} : n[p] = work[p]
      BY <2>2, <2>4
    <3> QED
      BY <2>1, <2>3, <2>5, <3>2, <3>3
  <2> QED
    BY <2>1, <2>4, <2>6, <2>7 DEF Observes, looks
<1> QED
  BY <1>1, <1>2, <1>3, <1>4, <1>5

\* More values may be observed, while the pass and the index stay as they are.
LEMMA MoreValues ==
  ASSUME NEW Ok, NEW More, Observes(Ok), \A p \in Paths : Ok[p] \subseteq More[p],
         todo \in Seq(Paths), UNCHANGED <<pc, capture>>, index' = index
  PROVE  Observes(More)'
<1>1. /\ pc' = pc /\ todo' = todo /\ base' = base /\ statuses' = statuses /\ entries' = entries
  BY DEF capture
<1>2. \A p \in Paths : Quiet(p, Ok) => Quiet(p, More)'
  BY <1>1 DEF Quiet
<1>3. ToSet(todo) \subseteq Paths
  BY DEF ToSet
<1>4. CASE pc = "diff"
  BY <1>1, <1>2, <1>4 DEF Observes
<1>5. CASE pc = "others"
  BY <1>1, <1>2, <1>3, <1>5 DEF Observes
<1>6. CASE pc = "read"
  <2>1. PICK o \in Trees :
          LET looked == Paths \ (ToSet(todo) \cap statuses)
          IN /\ \A p \in looked : o[p] \in Ok[p]
             /\ entries = {Entry(Tree[base], p, o[p]) :
                             p \in {q \in looked : o[q] # Tree[base][q]}}
    BY <1>6 DEF Observes
  <2>2. \A p \in Paths \ (ToSet(todo) \cap statuses) : o[p] \in More[p]
    BY <2>1
  <2> QED
    BY <1>1, <1>6, <2>1, <2>2 DEF Observes
<1> QED
  BY <1>1, <1>4, <1>5, <1>6 DEF Observes

\* A new pass has observed nothing yet.
LEMMA PassBegins ==
  ASSUME NEW Ok, ResolveBase
  PROVE  Observes(Ok)'
<1>1. pc' = "diff" /\ todo' = Order /\ entries' = {}
  BY DEF ResolveBase
<1> QED
  BY <1>1, WholeOrder DEF Observes

-----------------------------------------------------------------------------
(* The rest of the world *)

World == ChangeFile \/ ChangeIndex \/ MoveHead

LEMMA WorldChanges ==
  ASSUME Shape, World
  PROVE  /\ UNCHANGED <<pc, capture, first, result, wanted>>
         /\ seen' = seen \cup {Candidate'}
         /\ past' = [p \in Paths |-> past[p] \cup {<<work'[p], p \in index'>>}]
         /\ work' \in Trees /\ index' \subseteq Paths /\ head' \in Commits
<1>1. CASE ChangeFile
  BY <1>1 DEF ChangeFile, Changed, Shape, Trees, Values
<1>2. CASE ChangeIndex
  BY <1>2 DEF ChangeIndex, Changed, Shape
<1>3. CASE MoveHead
  BY <1>3 DEF MoveHead, Changed, Shape
<1> QED
  BY <1>1, <1>2, <1>3 DEF World

LEMMA BaseIsCommit == Shape => resolved_base \in Commits
BY TreeAssumption DEF Shape, resolved_base

LEMMA ShapeInvariant == Shape /\ [Next]_vars => Shape'
<1> SUFFICES ASSUME Shape, [Next]_vars PROVE Shape'
  OBVIOUS
<1>0. resolved_base \in Commits
  BY BaseIsCommit
<1>1. CASE World
  <2>1. /\ UNCHANGED <<pc, capture, first, result, wanted>>
        /\ seen' = seen \cup {Candidate'}
        /\ past' = [p \in Paths |-> past[p] \cup {<<work'[p], p \in index'>>}]
        /\ work' \in Trees /\ index' \subseteq Paths /\ head' \in Commits
    BY <1>1, WorldChanges
  <2>2. \A p \in Paths : <<work'[p], p \in index'>> \in past'[p]
    BY <2>1
  <2>3. Candidate' \in seen' /\ None \notin seen'
    <3>1. Candidate' # None
      BY DEF Candidate, None
    <3> QED
      BY <2>1, <3>1 DEF Shape
  <2> QED
    BY <2>1, <2>2, <2>3 DEF Shape, capture
<1>2. ASSUME UNCHANGED tree, UNCHANGED history
      PROVE  /\ work' = work /\ index' = index /\ head' = head /\ wanted' = wanted
             /\ \A p \in Paths : <<work'[p], p \in index'>> \in past'[p]
             /\ Candidate' \in seen' /\ None \notin seen'
  <2>1. work' = work /\ index' = index /\ head' = head /\ wanted' = wanted /\ past' = past /\ seen' = seen
    BY <1>2 DEF tree, history
  <2>2. Candidate' = Candidate
    BY <2>1 DEF Candidate, resolved_base
  <2> QED
    BY <2>1, <2>2 DEF Shape
<1>3. CASE ResolveBase
  BY <1>0, <1>2, <1>3, WholeOrder DEF ResolveBase, Shape
<1>4. CASE Diff
  BY <1>2, <1>4, HeadAndTail DEF Diff, Shape
<1>5. CASE DiffEnds
  BY <1>2, <1>5, WholeOrder DEF DiffEnds, Shape
<1>6. CASE Others
  BY <1>2, <1>6, HeadAndTail DEF Others, Shape
<1>7. CASE OthersAmbiguous
  BY <1>2, <1>7 DEF OthersAmbiguous, Refuse, capture, Shape
<1>8. CASE OthersEnd
  BY <1>2, <1>8, WholeOrder DEF OthersEnd, Shape
<1>9. CASE Read
  BY <1>2, <1>9, HeadAndTail DEF Read, Shape
<1>10. CASE ReadVanished
  BY <1>2, <1>10 DEF ReadVanished, Refuse, capture, Shape
<1>11. CASE CaptureAgain
  BY <1>2, <1>11 DEF CaptureAgain, Captured, capture, Shape
<1>12. CASE Compare
  BY <1>2, <1>12 DEF Compare, capture, Shape
<1>13. CASE CompareChanged
  BY <1>2, <1>13 DEF CompareChanged, Refuse, capture, Shape
<1>14. CASE UNCHANGED vars
  BY <1>2, <1>14 DEF vars, tree, history, Shape
<1> QED
  BY <1>1, <1>3, <1>4, <1>5, <1>6, <1>7, <1>8, <1>9, <1>10, <1>11, <1>12, <1>13, <1>14
  DEF Next, build_snapshot, World

\* An index that is stable in the end was stable all along.
LEMMA StableBefore ==
  ASSUME Shape, World, IndexIsStable'
  PROVE  IndexIsStable /\ index' = index
<1>1. /\ past' = [p \in Paths |-> past[p] \cup {<<work'[p], p \in index'>>}]
      /\ index' \subseteq Paths /\ index \subseteq Paths
      /\ \A p \in Paths : <<work[p], p \in index>> \in past[p]
  BY WorldChanges DEF Shape
<1>2. IndexIsStable
  BY <1>1 DEF IndexIsStable
<1>3. ASSUME NEW p \in Paths PROVE p \in index <=> p \in index'
  <2>1. <<work[p], p \in index>> \in past'[p] /\ <<work'[p], p \in index'>> \in past'[p]
    BY <1>1
  <2>2. <<work[p], p \in index>>[2] = <<work'[p], p \in index'>>[2]
    BY <2>1 DEF IndexIsStable
  <2> QED
    BY <2>2
<1> QED
  BY <1>1, <1>2, <1>3

\* Without restores, no path gets a content it has had.
LEMMA NothingReturns ==
  ASSUME Shape, World, ~MayRestore, NEW p \in Paths, NEW v \in Had[p], work[p] # v
  PROVE  work'[p] # v
<1>1. CASE ChangeFile
  <2>1. PICK q \in Paths, content \in Contents \cup {Absent} :
          /\ content # work[q]
          /\ Fresh(q, content, q \in index)
          /\ work' = [work EXCEPT ![q] = content]
    BY <1>1 DEF ChangeFile
  <2>2. CASE q = p
    <3>1. PICK old \in past[p] : old[1] = v
      BY DEF Had
    <3>2. content # old[1]
      BY <2>1, <2>2, <3>1 DEF Fresh
    <3> QED
      BY <2>1, <2>2, <3>1, <3>2 DEF Shape, Trees
  <2>3. CASE q # p
    BY <2>1, <2>3 DEF Shape, Trees
  <2> QED
    BY <2>2, <2>3
<1>2. CASE ChangeIndex \/ MoveHead
  BY <1>2 DEF ChangeIndex, MoveHead
<1> QED
  BY <1>1, <1>2 DEF World

LEMMA HadMore ==
  ASSUME Shape, World
  PROVE  \A p \in Paths : Had[p] \subseteq Had'[p]
BY WorldChanges DEF Had

LEMMA HasNow == Shape => \A p \in Paths : work[p] \in Had[p]
<1> SUFFICES ASSUME Shape, NEW p \in Paths PROVE work[p] \in Had[p]
  OBVIOUS
<1>1. <<work[p], p \in index>> \in past[p] /\ <<work[p], p \in index>>[1] = work[p]
  BY DEF Shape
<1> QED
  BY <1>1 DEF Had, Shape, Trees

-----------------------------------------------------------------------------
(* The invariant *)

\* A path that is now as the first capture observed it was so in between.
LEMMA NowAgrees ==
  ASSUME Shape, NEW w \in Trees, NEW o \in Trees, NEW b, Between(w, o, b)
  PROVE  \A p \in Paths : work[p] \in Agreeing(w, o)[p]
<1> SUFFICES ASSUME NEW p \in Paths PROVE work[p] \in Agreeing(w, o)[p]
  OBVIOUS
<1>1. work[p] \in Values /\ (w[p] = o[p] \/ work[p] # o[p])
  BY DEF Between, Shape, Trees
<1> QED
  BY <1>1 DEF Agreeing

\* The world leaves what was between the captures there.
LEMMA BetweenStays ==
  ASSUME Shape, World, ~MayRestore, NEW w \in Trees, NEW o \in Trees, NEW b \in Commits,
         Between(w, o, b), BaseWas(first.base)
  PROVE  Between(w, o, b)'
<1>1. first' = first /\ wanted' = wanted /\ seen \subseteq seen'
  BY WorldChanges
<1>2. \A p \in Paths : o[p] \in Had'[p] /\ (w[p] = o[p] \/ work'[p] # o[p])
  BY HadMore, NothingReturns DEF Between
<1>3. b = first.base \/ (resolved_base # first.base)'
  <2>1. CASE ChangeFile \/ ChangeIndex
    BY <1>1, <2>1 DEF ChangeFile, ChangeIndex, Between, resolved_base
  <2>2. CASE MoveHead
    <3>1. \A s \in seen : s.base = resolved_base
      BY <2>2 DEF MoveHead
    <3>2. resolved_base = first.base
      BY <3>1 DEF BaseWas
    <3> QED
      BY <3>2 DEF Between
  <2> QED
    BY <2>1, <2>2 DEF World
<1>4. CandidateOf(b, w) \in seen'
  BY <1>1 DEF Between
<1>5. first' = CandidateOf(first'.base, o)
  BY <1>1 DEF Between
<1> QED
  BY <1>1, <1>2, <1>3, <1>4, <1>5 DEF Between

LEMMA NowIsBase == Shape => BaseWas(resolved_base)
BY DEF Shape, Candidate, BaseWas

\* The values of this state, or of the next, as constants.
LEMMA NowConstant == Observes(Had) => \E H : H = Had /\ Observes(H)
<1> SUFFICES ASSUME Observes(Had) PROVE \E H : H = Had /\ Observes(H)
  OBVIOUS
<1>1. PICK H : H = Had
  OBVIOUS
<1>2. Observes(H)
  BY <1>1 DEF Observes, Quiet
<1> QED
  BY <1>1, <1>2

LEMMA ThenConstant == ASSUME NEW H, H = Had', Observes(H)' PROVE Observes(Had)'
BY DEF Observes, Quiet

\* The world changes while the call runs.
LEMMA WorldStep ==
  ASSUME Shape, World, ~MayRestore, IndexIsStable', FirstPass, SecondPass, NoMixedSnapshot
  PROVE  FirstPass' /\ SecondPass' /\ NoMixedSnapshot'
<1>1. /\ UNCHANGED <<pc, capture, first, result, wanted>> /\ seen \subseteq seen' /\ base' = base
      /\ index' = index /\ todo \in Seq(Paths)
  BY WorldChanges, StableBefore DEF capture, Shape
<1>2. FirstPass'
  <2> SUFFICES ASSUME first = None, pc \notin {"base", "end"} PROVE Observes(Had)' /\ BaseWas(base)'
    BY <1>1 DEF FirstPass
  <2>1. Observes(Had) /\ BaseWas(base)
    BY DEF FirstPass
  <2>2. PICK H : H = Had /\ Observes(H)
    BY <2>1, NowConstant
  <2>3. PICK G : G = Had'
    OBVIOUS
  <2>4. \A p \in Paths : H[p] \subseteq G[p]
    BY <2>2, <2>3, HadMore
  <2>5. Observes(G)'
    BY <1>1, <2>2, <2>4, MoreValues
  <2>6. Observes(Had)'
    BY <2>3, <2>5, ThenConstant
  <2>7. BaseWas(base)'
    BY <1>1, <2>1 DEF BaseWas
  <2> QED
    BY <2>6, <2>7
<1>3. SecondPass'
  <2> SUFFICES ASSUME first # None, pc # "end" PROVE SecondPass'
    BY <1>1 DEF SecondPass
  <2>1. PICK w \in Trees, o \in Trees, b \in Commits :
          /\ Between(w, o, b)
          /\ BaseWas(first.base)
          /\ pc # "base" => Observes(Agreeing(w, o)) /\ (base = first.base => b = first.base)
    BY DEF SecondPass
  <2>2. Between(w, o, b)'
    BY <2>1, BetweenStays
  <2>3. BaseWas(first.base)'
    BY <1>1, <2>1 DEF BaseWas
  <2>4. pc # "base" => Observes(Agreeing(w, o))'
    BY <1>1, <2>1, MoreValues
  <2> QED
    BY <1>1, <2>1, <2>2, <2>3, <2>4 DEF SecondPass
<1>4. NoMixedSnapshot'
  BY <1>1 DEF NoMixedSnapshot
<1> QED
  BY <1>2, <1>3, <1>4

\* What the call leaves alone.
Still == UNCHANGED tree /\ UNCHANGED history

LEMMA StillSeen ==
  ASSUME Still
  PROVE  /\ seen' = seen /\ past' = past /\ work' = work /\ index' = index
         /\ resolved_base' = resolved_base /\ Had' = Had /\ (IndexIsStable' <=> IndexIsStable)
BY DEF Still, tree, history, resolved_base, Had, IndexIsStable

LEMMA BetweenStill ==
  ASSUME Still, first' = first, NEW w, NEW o, NEW b, Between(w, o, b)
  PROVE  Between(w, o, b)'
BY StillSeen DEF Between

\* A pass begins.
LEMMA ResolveStep ==
  ASSUME Shape, ResolveBase, FirstPass, SecondPass, NoMixedSnapshot
  PROVE  FirstPass' /\ SecondPass' /\ NoMixedSnapshot'
<1>1. Still /\ first' = first /\ result' = result /\ pc = "base" /\ pc' = "diff" /\ base' = resolved_base
  BY DEF ResolveBase, Still
<1>2. FirstPass'
  <2>1. PICK G : G = Had'
    OBVIOUS
  <2>2. Observes(Had)'
    BY <2>1, PassBegins, ThenConstant
  <2>3. BaseWas(base)'
    BY <1>1, NowIsBase, StillSeen DEF BaseWas
  <2> QED
    BY <2>2, <2>3 DEF FirstPass
<1>3. SecondPass'
  <2> SUFFICES ASSUME first # None PROVE SecondPass'
    BY <1>1 DEF SecondPass
  <2>1. PICK w \in Trees, o \in Trees, b \in Commits : Between(w, o, b) /\ BaseWas(first.base)
    BY <1>1 DEF SecondPass
  <2>2. Between(w, o, b)'
    BY <1>1, <2>1, BetweenStill
  <2>3. BaseWas(first.base)'
    BY <1>1, <2>1, StillSeen DEF BaseWas
  <2>4. Observes(Agreeing(w, o))'
    BY PassBegins
  <2>5. base' = first'.base => b = first'.base
    BY <1>1, <2>1 DEF Between
  <2> QED
    BY <2>2, <2>3, <2>4, <2>5 DEF SecondPass
<1>4. NoMixedSnapshot'
  BY <1>1, StillSeen DEF NoMixedSnapshot
<1> QED
  BY <1>2, <1>3, <1>4

\* A pass goes on.
LEMMA PassStep ==
  ASSUME Shape, Diff \/ DiffEnds \/ Others \/ OthersEnd \/ Read,
         FirstPass, SecondPass, NoMixedSnapshot
  PROVE  FirstPass' /\ SecondPass' /\ NoMixedSnapshot'
<1>1. /\ Still /\ first' = first /\ result' = result /\ base' = base
      /\ pc \notin {"base", "end"} /\ pc' \notin {"base", "end"}
  BY DEF Diff, DiffEnds, Others, OthersEnd, Read, Still
<1>2. FirstPass'
  <2> SUFFICES ASSUME first = None PROVE FirstPass'
    BY <1>1 DEF FirstPass
  <2>1. Observes(Had) /\ BaseWas(base)
    BY <1>1 DEF FirstPass
  <2>2. PICK H : H = Had /\ Observes(H)
    BY <2>1, NowConstant
  <2>3. Observes(H)'
    BY <2>2, HasNow, PassesObserve
  <2>4. Observes(Had)'
    BY <1>1, <2>2, <2>3, StillSeen, ThenConstant
  <2>5. BaseWas(base)'
    BY <1>1, <2>1, StillSeen DEF BaseWas
  <2> QED
    BY <2>4, <2>5 DEF FirstPass
<1>3. SecondPass'
  <2> SUFFICES ASSUME first # None PROVE SecondPass'
    BY <1>1 DEF SecondPass
  <2>1. PICK w \in Trees, o \in Trees, b \in Commits :
          /\ Between(w, o, b) /\ BaseWas(first.base)
          /\ Observes(Agreeing(w, o)) /\ (base = first.base => b = first.base)
    BY <1>1 DEF SecondPass
  <2>2. Between(w, o, b)'
    BY <1>1, <2>1, BetweenStill
  <2>3. BaseWas(first.base)'
    BY <1>1, <2>1, StillSeen DEF BaseWas
  <2>4. Observes(Agreeing(w, o))'
    BY <2>1, NowAgrees, PassesObserve
  <2> QED
    BY <1>1, <2>1, <2>2, <2>3, <2>4 DEF SecondPass
<1>4. NoMixedSnapshot'
  BY <1>1, StillSeen DEF NoMixedSnapshot
<1> QED
  BY <1>2, <1>3, <1>4

\* The first capture is complete: what is there now is what there was between.
LEMMA AgainStep ==
  ASSUME Shape, CaptureAgain, FirstPass, NoMixedSnapshot
  PROVE  FirstPass' /\ SecondPass' /\ NoMixedSnapshot'
<1>1. /\ Still /\ result' = result /\ base' = base /\ pc = "read" /\ todo = <<>>
      /\ pc' = "base" /\ first = None /\ first' = Captured
  BY DEF CaptureAgain, Still, capture
<1>2. Observes(Had) /\ BaseWas(base)
  BY <1>1 DEF FirstPass
<1>3. PICK H : H = Had /\ Observes(H)
  BY <1>2, NowConstant
<1>4. PICK o \in Trees : Captured = CandidateOf(base, o) /\ \A p \in Paths : o[p] \in H[p]
  BY <1>1, <1>3, CaptureIsCandidate
<1>5. PICK w \in Trees, b \in Commits : w = work /\ b = resolved_base
  BY BaseIsCommit DEF Shape
<1>6. Between(w, o, b)'
  <2>1. first'.base = base
    BY <1>1 DEF Captured
  <2>2. CandidateOf(b, w) \in seen'
    BY <1>1, <1>5, StillSeen DEF Shape, Candidate, CandidateOf
  <2>3. first' = CandidateOf(first'.base, o)
    BY <1>1, <1>4, <2>1
  <2>4. b = first'.base \/ resolved_base' # first'.base
    BY <1>1, <1>5, StillSeen
  <2>5. \A p \in Paths : o[p] \in Had'[p] /\ (w[p] = o[p] \/ work'[p] # o[p])
    BY <1>1, <1>3, <1>4, <1>5, StillSeen
  <2> QED
    BY <2>2, <2>3, <2>4, <2>5 DEF Between
<1>7. BaseWas(first.base)'
  BY <1>1, <1>2, StillSeen DEF BaseWas, Captured
<1>8. SecondPass'
  BY <1>1, <1>6, <1>7 DEF SecondPass
<1> QED
  BY <1>1, <1>8, StillSeen DEF FirstPass, NoMixedSnapshot

\* Both captures agree: the snapshot is the candidate between them.
LEMMA CompareStep ==
  ASSUME Shape, Compare, SecondPass
  PROVE  FirstPass' /\ SecondPass' /\ NoMixedSnapshot'
<1>1. /\ Still /\ pc = "read" /\ todo = <<>> /\ pc' = "end" /\ first # None /\ first = Captured
      /\ result' = [status |-> "ok", snapshot |-> Captured]
  BY DEF Compare, Same, Still
<1>2. PICK w \in Trees, o \in Trees, b \in Commits :
        /\ Between(w, o, b)
        /\ Observes(Agreeing(w, o)) /\ (base = first.base => b = first.base)
  BY <1>1 DEF SecondPass
<1>3. PICK n \in Trees :
        Captured = CandidateOf(base, n) /\ \A p \in Paths : n[p] \in Agreeing(w, o)[p]
  BY <1>1, <1>2, CaptureIsCandidate
<1>4. first.base = base /\ b = base
  BY <1>1, <1>2 DEF Captured
<1>5. n = o
  BY <1>1, <1>2, <1>3, <1>4, CandidatesDiffer DEF Between
<1>6. w = o
  <2>1. \A p \in Paths : w[p] = o[p]
    BY <1>3, <1>5 DEF Agreeing
  <2> QED
    BY <2>1 DEF Trees
<1>7. Captured \in seen
  BY <1>2, <1>3, <1>4, <1>5, <1>6 DEF Between
<1> QED
  BY <1>1, <1>7, StillSeen DEF FirstPass, SecondPass, NoMixedSnapshot

\* The invariant holds to begin with, and each step of the call and each change
\* of the world keeps it.
THEOREM SnapshotInvariant == ~MayRestore /\ Spec => []Inv
<1> SUFFICES ASSUME ~MayRestore PROVE Spec => []Inv
  OBVIOUS
<1>1. Init => Inv
  <2> SUFFICES ASSUME Init PROVE Inv
    OBVIOUS
  <2>1. base \in Commits
    BY TreeAssumption DEF Init, resolved_base
  <2>2. <<>> \in Seq(Paths) /\ IsInjective(<<>>)
    BY DEF IsInjective
  <2>3. Candidate # None
    BY DEF Candidate, None
  <2>4. Shape
    BY <2>1, <2>2, <2>3 DEF Init, Shape, Trees, Values
  <2> QED
    BY <2>4 DEF Init, Inv, FirstPass, SecondPass, NoMixedSnapshot, None
<1>2. Inv /\ [Next]_vars => Inv'
  <2> SUFFICES ASSUME Inv, [Next]_vars PROVE Inv'
    OBVIOUS
  <2>1. Shape /\ Shape'
    BY ShapeInvariant DEF Inv
  <2> SUFFICES ASSUME IndexIsStable' PROVE FirstPass' /\ SecondPass' /\ NoMixedSnapshot'
    BY <2>1 DEF Inv
  <2>2. CASE World
    BY <2>1, <2>2, StableBefore, WorldStep DEF Inv
  <2>3. CASE build_snapshot
    <3>1. Still
      BY <2>3 DEF build_snapshot, ResolveBase, Diff, DiffEnds, Others, OthersAmbiguous, OthersEnd,
                  Read, ReadVanished, CaptureAgain, Compare, CompareChanged, Refuse, Still
    <3>2. FirstPass /\ SecondPass /\ NoMixedSnapshot
      BY <3>1, StillSeen DEF Inv
    <3>3. CASE OthersAmbiguous \/ ReadVanished \/ CompareChanged
      BY <3>3 DEF OthersAmbiguous, ReadVanished, CompareChanged, Refuse, FirstPass, SecondPass,
                  NoMixedSnapshot
    <3> QED
      BY <2>1, <2>3, <3>2, <3>3, ResolveStep, PassStep, AgainStep, CompareStep DEF build_snapshot
  <2>4. CASE UNCHANGED vars
    <3>1. FirstPass /\ SecondPass /\ NoMixedSnapshot
      BY <2>4 DEF Inv, IndexIsStable, vars
    <3>2. UNCHANGED <<pc, capture, first, result>> /\ Still /\ todo \in Seq(Paths)
      BY <2>1, <2>4 DEF vars, capture, Still, tree, history, Shape
    <3>3. FirstPass'
      <4> SUFFICES ASSUME first = None, pc \notin {"base", "end"} PROVE FirstPass'
        BY <3>2 DEF FirstPass
      <4>1. PICK H : H = Had /\ Observes(H)
        BY <3>1, NowConstant DEF FirstPass
      <4>2. Observes(H)'
        BY <2>4, <3>2, <4>1, MoreValues DEF vars
      <4>3. Observes(Had)'
        BY <3>2, <4>1, <4>2, StillSeen, ThenConstant
      <4>4. BaseWas(base)'
        BY <2>4, <3>1, <3>2 DEF FirstPass, BaseWas, vars
      <4> QED
        BY <4>3, <4>4 DEF FirstPass
    <3>4. SecondPass'
      <4> SUFFICES ASSUME first # None, pc # "end" PROVE SecondPass'
        BY <2>4 DEF vars, SecondPass
      <4>1. PICK w \in Trees, o \in Trees, b \in Commits :
              /\ Between(w, o, b) /\ BaseWas(first.base)
              /\ pc # "base" => Observes(Agreeing(w, o)) /\ (base = first.base => b = first.base)
        BY <3>1 DEF SecondPass
      <4>2. Between(w, o, b)' /\ BaseWas(first.base)'
        BY <2>4, <3>2, <4>1, BetweenStill DEF BaseWas, vars
      <4>3. pc # "base" => Observes(Agreeing(w, o))'
        BY <3>2, <4>1, MoreValues, StillSeen DEF capture
      <4> QED
        BY <2>4, <4>1, <4>2, <4>3 DEF vars, SecondPass
    <3> QED
      BY <2>4, <3>1, <3>3, <3>4 DEF vars, NoMixedSnapshot
  <2> QED
    BY <2>2, <2>3, <2>4 DEF Next, World
<1> QED
  BY <1>1, <1>2, PTL DEF Spec

\* StableIndexPreventsMixing for any number of paths, contents, commits and changes:
\* when nothing comes back, build_snapshot returns a candidate there was.
THEOREM SnapshotsAreNotMixed == ~MayRestore /\ Spec => []StableIndexPreventsMixing
<1>1. Inv => StableIndexPreventsMixing
  BY DEF Inv, StableIndexPreventsMixing
<1> QED
  BY <1>1, SnapshotInvariant, PTL

-----------------------------------------------------------------------------
(* A candidate nobody touches: both captures are the candidate there is.    *)
Untouched == Cardinality(seen) = 1 /\ \A p \in Paths : Cardinality(past[p]) = 1

HistoryIsFinite == IsFiniteSet(seen) /\ \A p \in Paths : IsFiniteSet(past[p])

\* All that can be observed of a path is what is there.
Now == [p \in Paths |-> {work[p]}]

\* Why a path is listed.
Listed ==
  /\ pc = "diff" => \A p \in statuses : InDiff(p)
  /\ pc = "others" => \A p \in statuses : InDiff(p) \/ (Untracked(p) /\ p \notin ToSet(todo))
  /\ pc = "read" => \A p \in statuses : InDiff(p) \/ Untracked(p)

AmbiguousForAReason ==
  result.status = "ambiguous" =>
    \E p \in Paths : p \notin index /\ Tree[resolved_base][p] # Absent /\ work[p] # Absent

Undisturbed ==
  /\ pc \notin {"base", "end"} => base = resolved_base /\ Observes(Now) /\ Listed
  /\ first # None => first = Candidate
  /\ result.status # "changed" /\ AmbiguousForAReason

QuietInv == Shape /\ HistoryIsFinite /\ (Untouched => Undisturbed)

LEMMA HistoryStaysFinite == Shape /\ HistoryIsFinite /\ [Next]_vars => HistoryIsFinite'
<1> SUFFICES ASSUME Shape, HistoryIsFinite, [Next]_vars PROVE HistoryIsFinite'
  OBVIOUS
<1>1. CASE World
  <2>1. /\ seen' = seen \cup {Candidate'}
        /\ past' = [p \in Paths |-> past[p] \cup {<<work'[p], p \in index'>>}]
    BY <1>1, WorldChanges
  <2>2. IsFiniteSet(seen')
    BY <2>1, FS_AddElement DEF HistoryIsFinite
  <2>3. \A p \in Paths : IsFiniteSet(past'[p])
    BY <2>1, FS_AddElement DEF HistoryIsFinite
  <2> QED
    BY <2>2, <2>3 DEF HistoryIsFinite
<1>2. CASE ~World
  <2>1. seen' = seen /\ past' = past
    BY <1>2 DEF Next, World, build_snapshot, ResolveBase, Diff, DiffEnds, Others, OthersAmbiguous,
                OthersEnd, Read, ReadVanished, CaptureAgain, Compare, CompareChanged, Refuse,
                history, vars
  <2> QED
    BY <2>1 DEF HistoryIsFinite
<1> QED
  BY <1>1, <1>2

\* Every change of the world leaves a trace.
LEMMA NobodyTouches ==
  ASSUME Shape, HistoryIsFinite, World
  PROVE  ~Untouched'
<1> SUFFICES ASSUME Untouched' PROVE FALSE
  OBVIOUS
<1>1. HistoryIsFinite'
  BY HistoryStaysFinite DEF Next, World
<1>2. /\ seen' = seen \cup {Candidate'} /\ Candidate \in seen
      /\ past' = [p \in Paths |-> past[p] \cup {<<work'[p], p \in index'>>}]
      /\ \A p \in Paths : <<work[p], p \in index>> \in past[p]
      /\ work \in Trees /\ index \subseteq Paths
  BY WorldChanges DEF Shape
<1>3. Candidate' = Candidate
  <2>1. \E c : seen' = {c}
    BY <1>1, FS_Singleton DEF Untouched, HistoryIsFinite
  <2> QED
    BY <1>2, <2>1
<1>4. ASSUME NEW p \in Paths
      PROVE  work'[p] = work[p] /\ (p \in index' <=> p \in index)
  <2>1. \E c : past'[p] = {c}
    BY <1>1, FS_Singleton DEF Untouched, HistoryIsFinite
  <2>a. <<work'[p], p \in index'>> \in past'[p] /\ <<work[p], p \in index>> \in past'[p]
    BY <1>2
  <2>2. <<work'[p], p \in index'>> = <<work[p], p \in index>>
    BY <2>1, <2>a
  <2>3. /\ <<work'[p], p \in index'>>[1] = <<work[p], p \in index>>[1]
        /\ <<work'[p], p \in index'>>[2] = <<work[p], p \in index>>[2]
    BY <2>2
  <2> QED
    BY <2>3
<1>5. CASE ChangeFile
  <2>1. PICK p \in Paths, content \in Contents \cup {Absent} :
          content # work[p] /\ work' = [work EXCEPT ![p] = content]
    BY <1>5 DEF ChangeFile
  <2> QED
    BY <1>2, <1>4, <2>1 DEF Trees
<1>6. CASE ChangeIndex
  <2>1. PICK p \in Paths : index' = IF p \in index THEN index \ {p} ELSE index \cup {p}
    BY <1>6 DEF ChangeIndex
  <2> QED
    BY <1>4, <2>1
<1>7. CASE MoveHead
  <2>1. head' # head /\ wanted' = AtHead /\ wanted = AtHead
    BY <1>7 DEF MoveHead
  <2>2. resolved_base' # resolved_base
    BY <2>1 DEF resolved_base
  <2>3. Candidate'.base # Candidate.base
    BY <2>2 DEF Candidate
  <2> QED
    BY <1>3, <2>3
<1> QED
  BY <1>5, <1>6, <1>7 DEF World

\* What the pass has listed, it has listed for a reason.
LEMMA PassesList ==
  ASSUME Shape, Listed, Diff \/ DiffEnds \/ Others \/ OthersEnd \/ Read
  PROVE  Listed'
<1>1. /\ work' = work /\ index' = index /\ base' = base
      /\ todo \in Seq(Paths) /\ IsInjective(todo)
  BY DEF Diff, DiffEnds, Others, OthersEnd, Read, tree, Shape
<1>2. \A p : (InDiff(p)' <=> InDiff(p)) /\ (Untracked(p)' <=> Untracked(p))
  BY <1>1 DEF InDiff, Untracked
<1>3. CASE Diff
  <2>1. pc = "diff" /\ pc' = "diff" /\ statuses' = statuses \cup {p \in {Head(todo)} : InDiff(p)}
    BY <1>3 DEF Diff
  <2> QED
    BY <1>2, <2>1 DEF Listed
<1>4. CASE DiffEnds
  <2>1. pc = "diff" /\ pc' = "others" /\ statuses' = statuses
    BY <1>4 DEF DiffEnds
  <2> QED
    BY <1>2, <2>1 DEF Listed
<1>5. CASE Others
  <2>1. /\ pc = "others" /\ pc' = "others" /\ todo # <<>> /\ todo' = Tail(todo)
        /\ statuses' = statuses \cup {q \in {Head(todo)} : Untracked(q)}
    BY <1>5 DEF Others
  <2>2. ToSet(todo) = ToSet(todo') \cup {Head(todo)} /\ Head(todo) \notin ToSet(todo')
    BY <1>1, <2>1, HeadAndTail
  <2> QED
    BY <1>2, <2>1, <2>2 DEF Listed
<1>6. CASE OthersEnd
  <2>1. pc = "others" /\ pc' = "read" /\ statuses' = statuses
    BY <1>6 DEF OthersEnd
  <2> QED
    BY <1>2, <2>1 DEF Listed
<1>7. CASE Read
  <2>1. pc = "read" /\ pc' = "read" /\ statuses' = statuses
    BY <1>7 DEF Read
  <2> QED
    BY <1>2, <2>1 DEF Listed
<1> QED
  BY <1>3, <1>4, <1>5, <1>6, <1>7

\* A capture of a candidate nobody touches is that candidate.
LEMMA CapturesTheCandidate ==
  ASSUME Shape, base = resolved_base, Observes(Now), pc = "read", todo = <<>>
  PROVE  Captured = Candidate
<1>1. PICK o \in Trees : Captured = CandidateOf(base, o) /\ \A p \in Paths : o[p] \in Now[p]
  BY CaptureIsCandidate
<1>2. o = work
  <2>1. \A p \in Paths : o[p] = work[p]
    BY <1>1 DEF Now
  <2> QED
    BY <2>1 DEF Trees, Shape
<1> QED
  BY <1>1, <1>2 DEF CandidateOf, Candidate

\* The call itself leaves the candidate alone.
LEMMA CallIsUndisturbed ==
  ASSUME Shape, Undisturbed, build_snapshot
  PROVE  Undisturbed'
<1>1. Still
  BY DEF build_snapshot, ResolveBase, Diff, DiffEnds, Others, OthersAmbiguous, OthersEnd,
         Read, ReadVanished, CaptureAgain, Compare, CompareChanged, Refuse, Still
<1>2. /\ work' = work /\ index' = index /\ resolved_base' = resolved_base
      /\ Candidate' = Candidate /\ Now' = Now
      /\ todo \in Seq(Paths) /\ IsInjective(todo) /\ statuses \subseteq Paths
  BY <1>1, StillSeen DEF Candidate, Now, Shape
<1>3. result' = result => AmbiguousForAReason' /\ result'.status # "changed"
  BY <1>2 DEF Undisturbed, AmbiguousForAReason
<1>4. PICK N : N = Now
  OBVIOUS
<1>5. CASE ResolveBase
  <2>1. /\ base' = resolved_base /\ first' = first /\ result' = result /\ pc' = "diff"
        /\ statuses' = {}
    BY <1>5 DEF ResolveBase
  <2>2. Observes(N)'
    BY <1>5, PassBegins
  <2>3. Observes(Now)'
    BY <1>2, <1>4, <2>2 DEF Observes, Quiet
  <2>4. Listed'
    BY <2>1 DEF Listed
  <2> QED
    BY <1>2, <1>3, <2>1, <2>3, <2>4 DEF Undisturbed
<1>6. CASE Diff \/ DiffEnds \/ Others \/ OthersEnd \/ Read
  <2>1. /\ base' = base /\ first' = first /\ result' = result
        /\ pc \notin {"base", "end"}
    BY <1>6 DEF Diff, DiffEnds, Others, OthersEnd, Read
  <2>2. base = resolved_base /\ Observes(Now) /\ Listed
    BY <2>1 DEF Undisturbed
  <2>3. Observes(N) /\ \A p \in Paths : work[p] \in N[p]
    BY <1>4, <2>2 DEF Observes, Quiet, Now
  <2>4. Observes(N)'
    BY <1>6, <2>3, PassesObserve
  <2>5. Observes(Now)'
    BY <1>2, <1>4, <2>4 DEF Observes, Quiet
  <2>6. Listed'
    BY <1>6, <2>2, PassesList
  <2> QED
    BY <1>2, <1>3, <2>1, <2>2, <2>5, <2>6 DEF Undisturbed
<1>7. CASE OthersAmbiguous
  <2> DEFINE h == Head(todo)
  <2>1. /\ pc = "others" /\ todo # <<>> /\ Untracked(h) /\ h \in statuses
        /\ pc' = "end" /\ result'.status = "ambiguous" /\ first' = first
    BY <1>7 DEF OthersAmbiguous, Refuse
  <2>2. h \in ToSet(todo) /\ h \in Paths
    BY <1>2, <2>1, HeadAndTail
  <2>3. InDiff(h) /\ base = resolved_base
    BY <2>1, <2>2 DEF Undisturbed, Listed
  <2>4. h \notin index /\ Tree[resolved_base][h] # Absent /\ work[h] # Absent
    BY <2>1, <2>3 DEF InDiff, Untracked
  <2> QED
    BY <1>2, <2>1, <2>2, <2>4 DEF Undisturbed, AmbiguousForAReason
<1>8. CASE ReadVanished
  <2> DEFINE h == Head(todo)
  <2>1. /\ pc = "read" /\ h \in statuses /\ work[h] = Absent /\ Tree[base][h] = Absent
    BY <1>8 DEF ReadVanished
  <2>2. InDiff(h) \/ Untracked(h)
    BY <2>1 DEF Undisturbed, Listed
  <2> QED
    BY <2>1, <2>2 DEF InDiff, Untracked
<1>9. CASE CaptureAgain
  <2>1. /\ pc = "read" /\ todo = <<>> /\ first' = Captured /\ pc' = "base" /\ result' = result
    BY <1>9 DEF CaptureAgain
  <2>2. Captured = Candidate
    BY <2>1, CapturesTheCandidate DEF Undisturbed
  <2> QED
    BY <1>2, <1>3, <2>1, <2>2 DEF Undisturbed
<1>10. CASE Compare
  <2>1. pc' = "end" /\ result'.status = "ok" /\ first' = first
    BY <1>10 DEF Compare
  <2> QED
    BY <1>2, <2>1 DEF Undisturbed, AmbiguousForAReason
<1>11. CASE CompareChanged
  <2>1. pc = "read" /\ todo = <<>> /\ first # None /\ first # Captured
    BY <1>11 DEF CompareChanged, Same
  <2>2. first = Candidate /\ Captured = Candidate
    BY <2>1, CapturesTheCandidate DEF Undisturbed
  <2> QED
    BY <2>1, <2>2
<1> QED
  BY <1>5, <1>6, <1>7, <1>8, <1>9, <1>10, <1>11 DEF build_snapshot

(* A candidate nobody touches is never refused as one that changed, and is   *)
(* only ambiguous when a file of the base is out of the index, whether or    *)
(* not the changes of other calls bring back what was there before.          *)
THEOREM QuietCandidates == Spec => []QuietCandidateIsCaptured
<1>1. Init => QuietInv
  <2> SUFFICES ASSUME Init PROVE QuietInv
    OBVIOUS
  <2>1. base \in Commits
    BY TreeAssumption DEF Init, resolved_base
  <2>2. <<>> \in Seq(Paths) /\ IsInjective(<<>>)
    BY DEF IsInjective
  <2>3. Candidate # None
    BY DEF Candidate, None
  <2>4. Shape
    BY <2>1, <2>2, <2>3 DEF Init, Shape, Trees, Values
  <2>5. HistoryIsFinite
    BY FS_Singleton DEF Init, HistoryIsFinite
  <2>6. pc = "base" /\ first = None /\ result.status = "none"
    BY DEF Init, None
  <2>7. Undisturbed
    BY <2>6 DEF Undisturbed, AmbiguousForAReason
  <2> QED
    BY <2>4, <2>5, <2>7 DEF QuietInv
<1>2. QuietInv /\ [Next]_vars => QuietInv'
  <2> SUFFICES ASSUME QuietInv, [Next]_vars, Untouched' PROVE Undisturbed'
    BY ShapeInvariant, HistoryStaysFinite DEF QuietInv
  <2>1. CASE World
    BY <2>1, NobodyTouches DEF QuietInv
  <2>2. CASE build_snapshot
    <3>1. seen' = seen /\ past' = past
      BY <2>2 DEF build_snapshot, ResolveBase, Diff, DiffEnds, Others, OthersAmbiguous, OthersEnd,
                  Read, ReadVanished, CaptureAgain, Compare, CompareChanged, Refuse, history
    <3>2. Untouched
      BY <3>1 DEF Untouched
    <3> QED
      BY <2>2, <3>2, CallIsUndisturbed DEF QuietInv
  <2>3. CASE UNCHANGED vars
    <3>1. Undisturbed
      BY <2>3 DEF QuietInv, Untouched, vars
    <3>2. /\ Candidate' = Candidate /\ Now' = Now /\ resolved_base' = resolved_base
          /\ UNCHANGED vars
      BY <2>3 DEF vars, Candidate, Now, resolved_base
    <3>3. /\ Observes(Now) => Observes(Now)'
          /\ Listed => Listed'
      BY <3>2 DEF Observes, Quiet, Listed, InDiff, Untracked, vars
    <3> QED
      BY <3>1, <3>2, <3>3 DEF Undisturbed, AmbiguousForAReason, vars
  <2> QED
    BY <2>1, <2>2, <2>3 DEF Next, World
<1>3. QuietInv => QuietCandidateIsCaptured
  BY DEF QuietInv, Untouched, Undisturbed, AmbiguousForAReason, QuietCandidateIsCaptured
<1> QED
  BY <1>1, <1>2, <1>3, PTL DEF Spec

-----------------------------------------------------------------------------
\* Two names above one path lie above one another.
LEMMA NamesAboveAPath ==
  ASSUME NEW left, NEW right, NEW path,
         left = path \/ <<left, path>> \in Under,
         right = path \/ <<right, path>> \in Under
  PROVE  overlaps(left, right)
<1>1. CASE left = path /\ right = path
  BY <1>1 DEF overlaps
<1>2. CASE left = path /\ <<right, path>> \in Under
  BY <1>2 DEF overlaps
<1>3. CASE <<left, path>> \in Under /\ right = path
  BY <1>3 DEF overlaps
<1>4. CASE <<left, path>> \in Under /\ <<right, path>> \in Under /\ left # right
  <2>1. /\ <<left, path>>[2] = <<right, path>>[2]
        /\ <<left, path>>[1] = left /\ <<right, path>>[1] = right
    OBVIOUS
  <2>2. <<left, right>> \in Under \/ <<right, left>> \in Under
    BY <1>4, <2>1, UnderAssumption
  <2> QED
    BY <2>2 DEF overlaps
<1>5. CASE left = right
  BY <1>5 DEF overlaps
<1> QED
  BY <1>1, <1>2, <1>3, <1>4, <1>5

\* What a partition's path is a path of.
ObjectOf(plan, p, x) ==
  /\ x \in Owned(plan)
  /\ \/ x.kind = "work_unit" /\ x.id \in plan.partitions[p].units /\ x.unit = x.id
     \/ x.kind = "acceptance" /\ x.id \in plan.partitions[p].acceptances
        /\ x.unit = plan.acceptances[x.id].unit

LEMMA PathsAreCovered ==
  ASSUME NEW plan, PartitionsAreComplete(plan), NEW p \in DOMAIN plan.partitions,
         NEW path \in plan.partitions[p].paths
  PROVE  \/ \E u \in plan.partitions[p].units :
              u \in DOMAIN plan.units /\ path \in plan.units[u].paths
         \/ \E a \in plan.partitions[p].acceptances :
              a \in DOMAIN plan.acceptances /\ path \in plan.acceptances[a].paths
<1> DEFINE part == plan.partitions[p]
<1>1. /\ part.units \subseteq DOMAIN plan.units /\ part.acceptances \subseteq DOMAIN plan.acceptances
      /\ path \in UNION ({plan.units[u].paths : u \in part.units}
                            \cup {plan.acceptances[a].paths : a \in part.acceptances})
  BY DEF PartitionsAreComplete
<1> QED
  BY <1>1

LEMMA PartitionPathsAreOwned ==
  ASSUME NEW plan, PartitionsAreComplete(plan), NEW p \in DOMAIN plan.partitions,
         NEW path \in plan.partitions[p].paths
  PROVE  \E x : ObjectOf(plan, p, x) /\ x.path = path
<1> DEFINE unit(u, r) == [kind |-> "work_unit", id |-> u, unit |-> u, path |-> r,
                          executor |-> plan.units[u].executor]
           acceptance(a, r) == [kind |-> "acceptance", id |-> a,
                                unit |-> plan.acceptances[a].unit, path |-> r,
                                executor |-> plan.acceptances[a].executor]
           Us == {{unit(u, r) : r \in plan.units[u].paths} : u \in DOMAIN plan.units}
           As == {{acceptance(a, r) : r \in plan.acceptances[a].paths} :
                    a \in DOMAIN plan.acceptances}
<1>1. Owned(plan) = UNION (Us \cup As)
  BY DEF Owned
<1>2. ASSUME NEW u \in plan.partitions[p].units, u \in DOMAIN plan.units,
             path \in plan.units[u].paths
      PROVE  ObjectOf(plan, p, unit(u, path)) /\ unit(u, path).path = path
  <2>1. {unit(u, r) : r \in plan.units[u].paths} \in Us
    BY <1>2
  <2>2. unit(u, path) \in {unit(u, r) : r \in plan.units[u].paths}
    BY <1>2
  <2>3. unit(u, path) \in Owned(plan)
    <3> HIDE DEF Us, As
    <3> QED BY <1>1, <2>1, <2>2
  <2> QED
    BY <2>3 DEF ObjectOf
<1>3. ASSUME NEW a \in plan.partitions[p].acceptances, a \in DOMAIN plan.acceptances,
             path \in plan.acceptances[a].paths
      PROVE  ObjectOf(plan, p, acceptance(a, path)) /\ acceptance(a, path).path = path
  <2>1. {acceptance(a, r) : r \in plan.acceptances[a].paths} \in As
    BY <1>3
  <2>2. acceptance(a, path) \in {acceptance(a, r) : r \in plan.acceptances[a].paths}
    BY <1>3
  <2>3. acceptance(a, path) \in Owned(plan)
    <3> HIDE DEF Us, As
    <3> QED BY <1>1, <2>1, <2>2
  <2> QED
    BY <2>3 DEF ObjectOf
<1> HIDE DEF unit, acceptance, Us, As
<1> QED
  BY <1>2, <1>3, PathsAreCovered

\* Objects of different partitions are different, and never one work package.
LEMMA PartitionsAreDisjoint ==
  ASSUME NEW plan, PartitionsAreComplete(plan),
         NEW p \in DOMAIN plan.partitions, NEW q \in DOMAIN plan.partitions, p # q,
         NEW x, ObjectOf(plan, p, x), NEW y, ObjectOf(plan, q, y)
  PROVE  x # y /\ ~(x.unit = y.unit /\ {x.kind, y.kind} = {"work_unit", "acceptance"})
<1>1. /\ plan.partitions[p].units \cap plan.partitions[q].units = {}
      /\ plan.partitions[p].acceptances \cap plan.partitions[q].acceptances = {}
      /\ \A a \in plan.partitions[p].acceptances :
           plan.acceptances[a].unit \in plan.partitions[p].units
      /\ \A a \in plan.partitions[q].acceptances :
           plan.acceptances[a].unit \in plan.partitions[q].units
  BY DEF PartitionsAreComplete
<1>2. x # y
  BY <1>1 DEF ObjectOf
<1>3. x.unit \in plan.partitions[p].units /\ y.unit \in plan.partitions[q].units
  BY <1>1 DEF ObjectOf
<1> QED
  BY <1>1, <1>2, <1>3

\* Names of different partitions of a plan do not overlap.
LEMMA ScopesDoNotOverlap ==
  ASSUME NEW plan, check_plan(plan),
         NEW p \in DOMAIN plan.partitions, NEW q \in DOMAIN plan.partitions, p # q,
         NEW left \in plan.partitions[p].paths, NEW right \in plan.partitions[q].paths
  PROVE  ~overlaps(left, right)
<1>1. CASE plan.schema_version = 1
  BY <1>1 DEF check_plan, _legacy_check_plan
<1>2. CASE plan.schema_version # 1
  <2>1. PartitionsAreComplete(plan) /\ conflicts(plan) = {}
    BY <1>2 DEF check_plan, _normalize_v2
  <2>2. PICK x : ObjectOf(plan, p, x) /\ x.path = left
    BY <2>1, PartitionPathsAreOwned
  <2>3. PICK y : ObjectOf(plan, q, y) /\ y.path = right
    BY <2>1, PartitionPathsAreOwned
  <2>4. x # y /\ ~(x.unit = y.unit /\ {x.kind, y.kind} = {"work_unit", "acceptance"})
    BY <2>1, <2>2, <2>3, PartitionsAreDisjoint
  <2>5. x \in Owned(plan) /\ y \in Owned(plan)
    BY <2>2, <2>3 DEF ObjectOf
  <2>6. <<x, y>> \notin conflicts(plan)
    BY <2>1
  <2>7. ~(IF x.path = y.path THEN TRUE ELSE overlaps(x.path, y.path))
    BY <2>4, <2>5, <2>6 DEF conflicts
  <2> QED
    BY <2>2, <2>3, <2>7
<1> QED
  BY <1>1, <1>2

\* What lies in the scope of one partition lies in no other's.
LEMMA ScopesAreExclusive ==
  ASSUME NEW plan, check_plan(plan), NEW p \in DOMAIN plan.partitions, NEW path,
         contains(plan.partitions[p].paths, path)
  PROVE  OwnersOf(plan, path) = {p}
<1>1. ASSUME NEW q \in OwnersOf(plan, path), q # p PROVE FALSE
  <2>1. PICK left \in plan.partitions[p].paths : left = path \/ <<left, path>> \in Under
    BY DEF contains
  <2>2. PICK right \in plan.partitions[q].paths : right = path \/ <<right, path>> \in Under
    BY DEF contains, OwnersOf
  <2>3. overlaps(left, right)
    BY <2>1, <2>2, NamesAboveAPath
  <2> QED
    BY <1>1, <2>3, ScopesDoNotOverlap DEF OwnersOf
<1> QED
  BY <1>1 DEF OwnersOf

\* A report that _check_changes_v2 allows has changed what it says, in its own scope.
LEMMA AcceptedReport ==
  ASSUME NEW report, NEW plan, NEW snapshot, _check_changes_v2(report, plan, snapshot)
  PROVE  /\ InOwnScope(report, plan)
         /\ snapshot # None => report.changed = {e.path : e \in snapshot.entries}
<1>1. /\ check_plan(plan) /\ report.partition \in DOMAIN plan.partitions
      /\ ScopeViolations(report, plan.partitions[report.partition].paths, report.changed) = {}
      /\ snapshot # None => report.changed = {e.path : e \in snapshot.entries}
  BY DEF _check_changes_v2
<1>2. \A path \in report.changed : contains(plan.partitions[report.partition].paths, path)
  BY <1>1 DEF ScopeViolations
<1> QED
  BY <1>1, <1>2, ScopesAreExclusive DEF InOwnScope

\* The reports of any plan stay in their own scope.
THEOREM ReportsStayInScope == ReportsAreInOwnScope
<1> SUFFICES ASSUME NEW report \in Reports, NEW plan \in Plans
             PROVE  /\ check_changes(report, plan, None) => InOwnScope(report, plan)
                    /\ (/\ plan.schema_version = 1 /\ check_plan(plan)
                        /\ report.partition \in DOMAIN plan.partitions
                        /\ check_changes(report, None, None)
                        /\ report.owned = plan.partitions[report.partition].paths)
                       => InOwnScope(report, plan)
  BY DEF ReportsAreInOwnScope
<1>1. ASSUME check_changes(report, plan, None) PROVE InOwnScope(report, plan)
  <2>1. _check_changes_v2(report, plan, None)
    BY <1>1, PlansAssumption DEF check_changes
  <2> QED
    BY <2>1, AcceptedReport
<1>2. ASSUME check_plan(plan), report.partition \in DOMAIN plan.partitions,
             check_changes(report, None, None),
             report.owned = plan.partitions[report.partition].paths
      PROVE  InOwnScope(report, plan)
  <2>1. ScopeViolations(report, report.owned, report.changed) = {}
    BY <1>2 DEF check_changes, _legacy_check_changes
  <2>2. \A path \in report.changed : contains(plan.partitions[report.partition].paths, path)
    BY <1>2, <2>1 DEF ScopeViolations
  <2> QED
    BY <1>2, <2>2, ScopesAreExclusive DEF InOwnScope
<1> QED
  BY <1>1, <1>2

\* AcceptedChangesStayInScope, for any tree, plans and reports: what is accepted on
\* the strength of a snapshot is what was changed at one instant, in its own scope.
THEOREM AcceptedChangesAreInScope == ~MayRestore /\ Spec => []AcceptedChangesStayInScope
<1>1. Inv => AcceptedChangesStayInScope
  <2> SUFFICES ASSUME Inv, result.status = "ok", IndexIsStable,
                      NEW report \in Reports, NEW plan \in Plans,
                      check_changes(report, plan, result.snapshot)
               PROVE  /\ InOwnScope(report, plan)
                      /\ \E s \in seen : /\ s.base = result.snapshot.base
                                         /\ {e.path : e \in s.entries} = report.changed
    BY ReportsStayInScope DEF AcceptedChangesStayInScope
  <2>1. result.snapshot \in seen
    BY DEF Inv, NoMixedSnapshot
  <2>2. _check_changes_v2(report, plan, result.snapshot)
    BY PlansAssumption DEF check_changes
  <2>3. result.snapshot # None
    BY <2>1 DEF Inv, Shape
  <2> QED
    BY <2>1, <2>2, <2>3, AcceptedReport
<1> QED
  BY <1>1, SnapshotInvariant, PTL
=============================================================================
