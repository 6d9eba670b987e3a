-------------------------- MODULE PhaseTrackerProofs --------------------------
(***************************************************************************)
(* The phase journal for any number of processes, executors, intervals and *)
(* times.  First what start and stop make of a journal that validates, in  *)
(* whatever order of time its events were recorded; then that the lock     *)
(* makes every command apply to the journal as it stands, and that a run   *)
(* finds its own interval again however long its child takes.              *)
(* Last, that what the journal's export adds up counts no second twice.    *)
(***************************************************************************)
EXTENDS PhaseTracker, FiniteSetTheorems, SequenceTheorems, TLAPS

\* A journal that validates and keeps to the bounds.
Good(j) ==
  /\ j \in Journals
  /\ IsFiniteSet(j.open) /\ IsFiniteSet(j.closed)
  /\ Cardinality(j.open) + Cardinality(j.closed) <= MaxIntervals
  /\ validate_journal(j)

\* An interval is in the journal as it was opened, or it has been closed.
Kept(j, x) == x \in j.open \/ \E at \in Times : Close(x, at) \in j.closed

\* What one command may make of a journal.
Grows(j, n) ==
  /\ j.closed \subseteq n.closed
  /\ n.events = j.events + 1
  /\ \A x \in j.open : Kept(n, x)

-----------------------------------------------------------------------------
(* Extremes of sets of naturals. *)
LEMMA LeastNatural ==
  ASSUME NEW T, T \subseteq Nat, T # {}
  PROVE  \E x \in T : \A y \in T : x <= y
<1>1. \E x \in T : \A y \in T : ~(<<y, x>> \in OpToRel(<, Nat))
  BY NatLessThanWellFounded, WFMin
<1>2. \E x \in T : \A y \in T : ~(y < x)
  BY <1>1 DEF OpToRel
<1> QED
  BY <1>2

LEMMA MinIsMember == ASSUME NEW T, T \subseteq Nat, T # {} PROVE Min(T) \in T
  BY LeastNatural DEF Min

LEMMA MaxIs ==
  ASSUME NEW T, T \subseteq Nat, NEW m \in T, \A y \in T : y <= m
  PROVE  Max(T) = m
<1>1. \A y \in T : m >= y
  OBVIOUS
<1>2. \E x \in T : \A y \in T : x >= y
  BY <1>1
<1>3. Max(T) \in T /\ \A y \in T : Max(T) >= y
  BY <1>2 DEF Max
<1>4. m \in Nat /\ Max(T) \in Nat /\ m >= Max(T) /\ Max(T) >= m
  BY <1>1, <1>3
<1> QED
  BY <1>4

LEMMA MaxIsLatest ==
  ASSUME NEW T, T \subseteq Times, T # {}
  PROVE  Max(T) \in T /\ \A y \in T : y <= Max(T)
<1> DEFINE U == {n \in Nat : \A y \in T : y <= n}
<1>1. U # {} /\ U \subseteq Nat
  BY TrackerAssumption DEF Times
<1>2. PICK u \in U : \A n \in U : u <= n
  <2> HIDE DEF U
  <2> QED
    BY <1>1, LeastNatural
<1>3. u \in T
  <2> SUFFICES ASSUME u \notin T PROVE FALSE
    OBVIOUS
  <2>1. u \in Nat /\ \A z \in T : z \in Nat /\ z <= u /\ z # u
    BY <1>2, TrackerAssumption DEF Times
  <2>2. u - 1 \in Nat /\ \A z \in T : z <= u - 1
    BY <2>1
  <2>3. u - 1 \in U
    BY <2>2
  <2> QED
    BY <1>2, <2>3
<1>4. T \subseteq Nat /\ \A y \in T : y <= u
  BY <1>2, TrackerAssumption DEF Times
<1>5. Max(T) = u
  BY <1>3, <1>4, MaxIs
<1> QED
  BY <1>3, <1>4, <1>5

\* The times a journal's last event is the latest of.
Moments(j) == {j.created} \cup {x.end : x \in j.closed} \cup {x.start : x \in j.open}

LEMMA LastIsLatest ==
  ASSUME NEW j \in Journals, validate_journal(j)
  PROVE  /\ Moments(j) \subseteq Times
         /\ j.last \in Moments(j) /\ \A m \in Moments(j) : m <= j.last
<1>1. Moments(j) \subseteq Times /\ Moments(j) # {}
  BY DEF Moments, Journals, OpenIntervals, ClosedIntervals
<1>2. j.last = Max(Moments(j))
  BY DEF validate_journal, Moments
<1> QED
  BY <1>1, <1>2, MaxIsLatest

LEMMA OpenIsNotClosed == \A x \in OpenIntervals : x \notin ClosedIntervals
<1> SUFFICES ASSUME NEW x \in OpenIntervals, x \in ClosedIntervals PROVE FALSE
  OBVIOUS
<1>1. "end" \notin DOMAIN x
  BY DEF OpenIntervals
<1>2. "end" \in DOMAIN x
  BY DEF ClosedIntervals
<1> QED
  BY <1>1, <1>2

-----------------------------------------------------------------------------
(* start *)

\* Open and closed intervals are counted apart.
LEMMA CountIsSum ==
  ASSUME NEW j, Good(j)
  PROVE  /\ IsFiniteSet(Intervals_of(j)) /\ Cardinality(Intervals_of(j)) \in Nat
         /\ Cardinality(Intervals_of(j)) = Cardinality(j.open) + Cardinality(j.closed)
         /\ Cardinality(j.open) \in Nat /\ Cardinality(j.closed) \in Nat
<1> DEFINE N == Cardinality(Intervals_of(j))
<1>1. j.open \cap j.closed = {}
  BY OpenIsNotClosed DEF Good, Journals
<1>2. IsFiniteSet(j.open) /\ IsFiniteSet(j.closed)
  BY DEF Good
<1>3. /\ IsFiniteSet(Intervals_of(j))
      /\ N = Cardinality(j.open) + Cardinality(j.closed) - Cardinality(j.open \cap j.closed)
  BY <1>2, FS_Union DEF Intervals_of
<1>4. Cardinality(j.open) \in Nat /\ Cardinality(j.closed) \in Nat /\ N \in Nat
  BY <1>2, <1>3, FS_CardinalityType
<1>5. Cardinality(j.open \cap j.closed) = 0
  BY <1>1, FS_EmptySet
<1> HIDE DEF N
<1>6. N = Cardinality(j.open) + Cardinality(j.closed)
  BY <1>3, <1>4, <1>5
<1> QED
  BY <1>3, <1>4, <1>6 DEF N

\* There is room for one more identifier where _next_interval_id looks.
LEMMA NextIdentifier ==
  ASSUME NEW j, Good(j), Cardinality(Intervals_of(j)) < MaxIntervals
  PROVE  _next_interval_id(j) \in 1..3 * MaxIntervals + 1
<1> DEFINE N == Cardinality(Intervals_of(j))
           R == j.events + 1 .. j.events + 1 + N
<1>1. /\ IsFiniteSet(Intervals_of(j)) /\ N \in Nat
      /\ N = Cardinality(j.open) + Cardinality(j.closed)
      /\ Cardinality(j.open) \in Nat /\ Cardinality(j.closed) \in Nat
  BY CountIsSum
<1>2. j.events \in Nat /\ j.events <= 2 * N /\ N < MaxIntervals
  BY <1>1 DEF Good, Journals, validate_journal
<1> HIDE DEF N
<1>3. R \ UsedIds(j) # {}
  <2> SUFFICES ASSUME R \subseteq UsedIds(j) PROVE FALSE
    OBVIOUS
  <2> DEFINE f == [n \in R |-> CHOOSE x \in Intervals_of(j) : x.id = n]
  <2>1. \A n \in R : f[n] \in Intervals_of(j) /\ f[n].id = n
    BY DEF UsedIds
  <2>2. IsFiniteSet(R) /\ Cardinality(R) = N + 1
    <3> DEFINE a == j.events + 1
               b == j.events + 1 + N
    <3>1. a \in Int /\ b \in Int /\ a <= b /\ b - a = N
      BY <1>1, <1>2
    <3> HIDE DEF a, b
    <3>2. /\ IsFiniteSet(a..b)
          /\ Cardinality(a..b) = IF a > b THEN 0 ELSE b - a + 1
      BY <3>1, FS_Interval
    <3>3. Cardinality(a..b) = N + 1
      BY <1>1, <3>1, <3>2
    <3> QED
      BY <3>2, <3>3 DEF a, b
  <2>3. f \in [R -> Intervals_of(j)]
    BY <2>1
  <2> HIDE DEF f, R
  <2>4. Cardinality(Intervals_of(j)) < Cardinality(R)
    BY <1>1, <2>2 DEF N
  <2>5. \E x, y \in R : x # y /\ f[x] = f[y]
    BY <1>1, <2>2, <2>3, <2>4, FS_PigeonHole
  <2> QED
    BY <2>1, <2>5
<1>4. _next_interval_id(j) \in R
  <2>1. R \ UsedIds(j) \subseteq Nat
    BY <1>1, <1>2
  <2>2. _next_interval_id(j) = Min(R \ UsedIds(j))
    BY DEF _next_interval_id, N
  <2> HIDE DEF R
  <2> QED
    BY <1>3, <2>1, <2>2, MinIsMember
<1> QED
  BY <1>1, <1>2, <1>4, TrackerAssumption

\* One actor is named by all that speak of it.
LEMMA OneClaim ==
  ASSUME NEW j \in Journals, NEW e \in StartRequests, CanStart(j, e)
  PROVE  /\ Opened(j, e).actor \in {"SOL", "LUNA"}
         /\ Claims(j, e) = {Opened(j, e).actor}
<1>1. Hint[e.executor] \in {"SOL", "LUNA", None} /\ e.actor \in {"SOL", "LUNA", None}
  BY TrackerAssumption DEF StartRequests
<1>2. _required_actor(e.phase) \in {"SOL", "LUNA", None}
  BY DEF _required_actor
<1>3. _known_actors(j, e.executor) \subseteq {"SOL", "LUNA"}
  BY DEF _known_actors, Intervals_of, Journals, OpenIntervals, ClosedIntervals
<1>4. Claims(j, e) \subseteq {"SOL", "LUNA"}
  BY <1>1, <1>2, <1>3 DEF Claims
<1>5. IsFiniteSet({"SOL"} \cup {"LUNA"})
  BY FS_AddElement, FS_Singleton
<1>6. IsFiniteSet(Claims(j, e))
  BY <1>4, <1>5, FS_Subset
<1>7. PICK a : Claims(j, e) = {a}
  BY <1>6, FS_Singleton DEF CanStart
<1>8. Opened(j, e).actor = a
  BY <1>7 DEF Opened
<1> QED
  BY <1>4, <1>7, <1>8

\* The journal that start makes, field by field.
LEMMA StartFields ==
  ASSUME NEW j \in Journals, NEW e
  PROVE  /\ start(j, e).route = j.route /\ start(j, e).created = j.created
         /\ start(j, e).closed = j.closed
         /\ start(j, e).open = j.open \cup {Opened(j, e)}
         /\ start(j, e).events = j.events + 1
         /\ start(j, e).last = LastEvent(j, e.at)
  BY DEF start, Journals

\* The later of the last event and a new one.
LEMMA LastEventIs ==
  ASSUME NEW j \in Journals, NEW at \in Times
  PROVE  LastEvent(j, at) = IF at <= j.last THEN j.last ELSE at
<1>1. j.last \in Nat /\ at \in Nat
  BY DEF Journals, Times
<1>2. CASE at <= j.last
  BY <1>1, <1>2, MaxIs DEF LastEvent
<1>3. CASE ~(at <= j.last)
  BY <1>1, <1>3, MaxIs DEF LastEvent
<1> QED
  BY <1>2, <1>3

LEMMA StartValidates ==
  ASSUME NEW j, Good(j), NEW e \in StartRequests, CanStart(j, e)
  PROVE  /\ validate_journal(start(j, e))
         /\ Opened(j, e) \notin j.open /\ Opened(j, e) \notin j.closed
<1> DEFINE t == start(j, e)
           o == Opened(j, e)
<1>0. j \in Journals /\ validate_journal(j) /\ IsFiniteSet(j.open) /\ IsFiniteSet(j.closed)
  BY DEF Good
<1>1. /\ t.route = j.route /\ t.created = j.created /\ t.closed = j.closed
      /\ t.open = j.open \cup {o} /\ t.events = j.events + 1 /\ t.last = LastEvent(j, e.at)
  BY <1>0, StartFields
<1>2. /\ o.id \notin UsedIds(j) /\ o.phase = e.phase /\ o.executor = e.executor /\ o.start = e.at
      /\ Claims(j, e) = {o.actor} /\ o.actor \in {"SOL", "LUNA"}
  BY <1>0, OneClaim DEF Opened, CanStart, FreshId
<1> HIDE DEF t, o
<1>3. o \notin Intervals_of(j)
  BY <1>2 DEF UsedIds
<1>4. Intervals_of(t) = Intervals_of(j) \cup {o}
  BY <1>1 DEF Intervals_of
<1>5. ValidInterval(t, o)
  <2>1. _required_actor(e.phase) \in {None, o.actor} /\ Hint[e.executor] \in {None, o.actor}
    BY <1>2 DEF Claims
  <2> QED
    BY <1>1, <1>2, <1>3, <2>1 DEF ValidInterval, CanStart, Intervals_of
<1>6. \A x \in Intervals_of(j) : ValidInterval(t, x)
  BY <1>0, <1>1 DEF validate_journal, ValidInterval
<1>7. ASSUME NEW x \in Intervals_of(j)
      PROVE  x.id # o.id /\ (x.executor = o.executor => x.actor = o.actor)
  <2>1. x.id # o.id
    BY <1>2 DEF UsedIds
  <2>2. x.actor \in {"SOL", "LUNA"} /\ x.actor # None
    BY <1>0, NoneAssumption DEF Intervals_of, Journals, OpenIntervals, ClosedIntervals
  <2>3. ASSUME x.executor = o.executor PROVE x.actor = o.actor
    BY <1>2, <2>2, <2>3 DEF Claims, _known_actors
  <2> QED
    BY <2>1, <2>3
<1>8. \A x, y \in Intervals_of(t) :
        /\ x.executor = y.executor => x.actor = y.actor
        /\ x.id = y.id => x = y
  BY <1>0, <1>4, <1>7 DEF validate_journal
<1>9. t.last = Max(Moments(t))
  <2>1. Moments(t) = Moments(j) \cup {e.at}
    BY <1>1, <1>2 DEF Moments
  <2>2. e.at \in Times
    BY DEF StartRequests
  <2>3. Moments(t) \subseteq Nat
    BY <1>0, <2>1, <2>2, LastIsLatest DEF Times
  <2>4. t.last \in Moments(t) /\ \A m \in Moments(t) : m <= t.last
    BY <1>0, <1>1, <2>1, <2>2, LastIsLatest, LastEventIs DEF Times
  <2> QED
    BY <2>3, <2>4, MaxIs
<1>10. t.events = Cardinality(t.open) + 2 * Cardinality(t.closed)
  <2>1. Cardinality(t.open) = Cardinality(j.open) + 1
    BY <1>0, <1>1, <1>3, FS_AddElement DEF Intervals_of
  <2>2. j.events = Cardinality(j.open) + 2 * Cardinality(j.closed)
    BY <1>0 DEF validate_journal
  <2>3. Cardinality(j.open) \in Nat /\ Cardinality(j.closed) \in Nat
    BY <1>0, FS_CardinalityType
  <2> QED
    BY <1>1, <2>1, <2>2, <2>3
<1>11. validate_journal(t)
  BY <1>4, <1>5, <1>6, <1>8, <1>9, <1>10 DEF validate_journal, Moments
<1> QED
  BY <1>3, <1>11 DEF Intervals_of, t, o

\* What start makes of a good journal that has room is one.
LEMMA StartKeepsGood ==
  ASSUME NEW j, Good(j), Cardinality(Intervals_of(j)) < MaxIntervals,
         NEW e \in StartRequests, CanStart(j, e), validate_journal(start(j, e))
  PROVE  /\ Good(start(j, e)) /\ Grows(j, start(j, e))
         /\ Opened(j, e) \in OpenIntervals /\ Opened(j, e) \in start(j, e).open
<1> DEFINE t == start(j, e)
           o == Opened(j, e)
<1>0. j \in Journals /\ IsFiniteSet(j.open) /\ IsFiniteSet(j.closed)
  BY DEF Good
<1>1. /\ t.route = j.route /\ t.created = j.created /\ t.closed = j.closed
      /\ t.open = j.open \cup {o} /\ t.events = j.events + 1 /\ t.last = LastEvent(j, e.at)
  BY <1>0, StartFields
<1>2. o \in OpenIntervals
  <2>1. ChosenId(j, e) \in Ids
    BY NextIdentifier DEF ChosenId, Ids, StartRequests
  <2> QED
    BY <1>0, <2>1, OneClaim DEF Opened, OpenIntervals, StartRequests
<1>3. /\ Cardinality(t.open) = Cardinality(j.open) + 1 /\ IsFiniteSet(t.open)
      /\ Cardinality(j.open) \in Nat /\ Cardinality(j.closed) \in Nat
  <2>1. o \notin j.open
    BY StartValidates
  <2> HIDE DEF o, t
  <2> QED
    BY <1>0, <1>1, <2>1, FS_AddElement, FS_CardinalityType
<1>4. Cardinality(t.open) + Cardinality(t.closed) <= MaxIntervals
  BY <1>1, <1>3, CountIsSum, TrackerAssumption
<1>5. t.events = Cardinality(t.open) + 2 * Cardinality(t.closed)
  BY DEF validate_journal
<1>6. t.events \in 0..2 * MaxIntervals
  BY <1>1, <1>3, <1>4, <1>5, TrackerAssumption
<1>7. t.last \in Times
  BY <1>0, <1>1, LastEventIs DEF StartRequests, Journals
<1>8. t \in Journals
  <2>1. t = [j EXCEPT !.open = j.open \cup {o}, !.events = j.events + 1,
                      !.last = LastEvent(j, e.at)]
    BY DEF start
  <2>2. t = [j EXCEPT !.open = t.open, !.closed = j.closed, !.events = t.events, !.last = t.last]
    <3> HIDE DEF o
    <3> QED
      BY <1>0, <2>1 DEF Journals
  <2>3. t.open \in SUBSET OpenIntervals /\ j.closed \in SUBSET ClosedIntervals
    BY <1>0, <1>1, <1>2 DEF Journals
  <2> HIDE DEF t, o
  <2> QED
    BY <1>0, <1>6, <1>7, <2>2, <2>3 DEF Journals
<1> HIDE DEF t, o
<1>9. Grows(j, t)
  BY <1>1 DEF Grows, Kept
<1> QED
  BY <1>0, <1>1, <1>2, <1>3, <1>4, <1>8, <1>9 DEF Good, t, o

-----------------------------------------------------------------------------
(* stop *)

\* The one interval that a stop matches.
LEMMA OneMatch ==
  ASSUME NEW j \in Journals, IsFiniteSet(j.open), NEW e, CanStop(j, e)
  PROVE  \E x \in j.open : /\ Matches(j, e) = {x} /\ e.at >= x.start
                           /\ x.phase = e.phase /\ x.executor = e.executor
                           /\ e.id \in {None, x.id}
<1>1. Matches(j, e) \subseteq j.open
  BY DEF Matches
<1>2. IsFiniteSet(Matches(j, e))
  BY <1>1, FS_Subset
<1>3. PICK x : Matches(j, e) = {x}
  BY <1>2, FS_Singleton DEF CanStop
<1>4. x \in Matches(j, e)
  BY <1>3
<1> QED
  BY <1>3, <1>4 DEF CanStop, Matches

LEMMA StopFields ==
  ASSUME NEW j \in Journals, NEW e \in StopRequests, NEW x \in j.open, Matches(j, e) = {x}
  PROVE  /\ stop(j, e).route = j.route /\ stop(j, e).created = j.created
         /\ stop(j, e).open = j.open \ {x}
         /\ stop(j, e).closed = j.closed \cup {Close(x, e.at)}
         /\ stop(j, e).events = j.events + 1
         /\ stop(j, e).last = LastEvent(j, e.at)
<1>1. {Close(y, e.at) : y \in {x}} = {Close(x, e.at)}
  OBVIOUS
<1> QED
  BY <1>1 DEF stop, Journals

\* The interval that stop records, which the journal did not hold.
LEMMA ClosedInterval ==
  ASSUME NEW j, Good(j), NEW x \in j.open, NEW at \in Times
  PROVE  /\ Close(x, at) \in ClosedIntervals /\ Close(x, at) \notin j.closed
         /\ Close(x, at).id = x.id /\ Close(x, at).phase = x.phase
         /\ Close(x, at).executor = x.executor /\ Close(x, at).actor = x.actor
         /\ Close(x, at).start = x.start /\ Close(x, at).end = at
         /\ x \in OpenIntervals /\ x \notin j.closed
<1> DEFINE c == Close(x, at)
<1>1. x \in OpenIntervals
  BY DEF Good, Journals
<1>2. /\ c.id = x.id /\ c.phase = x.phase /\ c.executor = x.executor /\ c.actor = x.actor
      /\ c.start = x.start /\ c.end = at
  BY DEF Close
<1>3. c \in ClosedIntervals
  BY <1>1 DEF Close, OpenIntervals, ClosedIntervals
<1>4. x \notin j.closed
  BY <1>1, OpenIsNotClosed DEF Good, Journals
<1> HIDE DEF c
<1>5. c \notin j.closed
  <2> SUFFICES ASSUME c \in j.closed PROVE FALSE
    OBVIOUS
  <2>1. c = x
    BY <1>2 DEF Good, validate_journal, Intervals_of
  <2> QED
    BY <1>4, <2>1
<1> QED
  BY <1>1, <1>2, <1>3, <1>4, <1>5 DEF c

LEMMA StopValidates ==
  ASSUME NEW j, Good(j), NEW e \in StopRequests, CanStop(j, e)
  PROVE  validate_journal(stop(j, e))
<1>0. j \in Journals /\ validate_journal(j) /\ IsFiniteSet(j.open) /\ IsFiniteSet(j.closed)
  BY DEF Good
<1>1. PICK x \in j.open : Matches(j, e) = {x} /\ e.at >= x.start
  BY <1>0, OneMatch
<1> DEFINE t == stop(j, e)
           c == Close(x, e.at)
<1>2. /\ t.route = j.route /\ t.created = j.created /\ t.open = j.open \ {x}
      /\ t.closed = j.closed \cup {c} /\ t.events = j.events + 1
      /\ t.last = LastEvent(j, e.at)
  BY <1>0, <1>1, StopFields
<1>3. e.at \in Times
  BY DEF StopRequests
<1>4. /\ c \in ClosedIntervals /\ c \notin j.closed /\ c.id = x.id /\ c.phase = x.phase
      /\ c.executor = x.executor /\ c.actor = x.actor /\ c.start = x.start /\ c.end = e.at
      /\ x \in OpenIntervals /\ x \notin j.closed
  BY <1>3, ClosedInterval
<1> HIDE DEF t, c
<1>5. Intervals_of(t) = (Intervals_of(j) \ {x}) \cup {c}
  BY <1>2, <1>4 DEF Intervals_of
<1>6. x \in Intervals_of(j)
  BY DEF Intervals_of
<1>7. ValidInterval(t, c)
  <2>1. ValidInterval(j, x)
    BY <1>0, <1>6 DEF validate_journal
  <2> QED
    BY <1>1, <1>2, <1>4, <2>1 DEF ValidInterval
<1>8. ASSUME NEW y \in Intervals_of(j), y # c PROVE ValidInterval(t, y)
  <2>1. ValidInterval(j, y)
    BY <1>0 DEF validate_journal
  <2> QED
    BY <1>2, <1>8, <2>1 DEF ValidInterval
<1>9. \A y \in Intervals_of(j) : /\ y.executor = c.executor => y.actor = c.actor
                                 /\ y.id = c.id => y = x
  BY <1>0, <1>4, <1>6 DEF validate_journal
<1>10. \A y, z \in Intervals_of(t) : /\ y.executor = z.executor => y.actor = z.actor
                                     /\ y.id = z.id => y = z
  BY <1>0, <1>5, <1>9 DEF validate_journal
<1>11. t.last = Max(Moments(t))
  <2>1. Moments(t) \subseteq Moments(j) \cup {e.at} /\ e.at \in Moments(t)
    BY <1>2, <1>4 DEF Moments
  <2>2. \A m \in Moments(j) : m \in Moments(t) \/ m = x.start
    BY <1>2 DEF Moments
  <2>3. Moments(j) \subseteq Times /\ j.last \in Moments(j) /\ \A m \in Moments(j) : m <= j.last
    BY <1>0, LastIsLatest
  <2>4. Moments(t) \subseteq Nat /\ j.last \in Nat /\ e.at \in Nat /\ x.start \in Nat
    BY <1>3, <1>4, <2>1, <2>3 DEF Times, OpenIntervals
  <2>5. t.last = IF e.at <= j.last THEN j.last ELSE e.at
    BY <1>0, <1>2, <1>3, LastEventIs
  <2>6. t.last \in Moments(t)
    BY <1>1, <2>1, <2>2, <2>3, <2>4, <2>5
  <2>7. \A m \in Moments(t) : m <= t.last
    BY <2>1, <2>3, <2>4, <2>5
  <2> QED
    BY <2>4, <2>6, <2>7, MaxIs
<1>12. t.events = Cardinality(t.open) + 2 * Cardinality(t.closed)
  <2>1. Cardinality(t.open) = Cardinality(j.open) - 1
    BY <1>0, <1>2, FS_RemoveElement
  <2>2. Cardinality(t.closed) = Cardinality(j.closed) + 1
    <3>1. IsFiniteSet(j.closed) /\ t.closed = j.closed \cup {c} /\ c \notin j.closed
      BY <1>0, <1>2, <1>4
    <3> QED
      BY <3>1, FS_AddElement
  <2>3. j.events = Cardinality(j.open) + 2 * Cardinality(j.closed)
    BY <1>0 DEF validate_journal
  <2>4. Cardinality(j.open) \in Nat /\ Cardinality(j.closed) \in Nat
    BY <1>0, FS_CardinalityType
  <2> QED
    BY <1>2, <2>1, <2>2, <2>3, <2>4
<1>13. validate_journal(t)
  BY <1>5, <1>7, <1>8, <1>10, <1>11, <1>12 DEF validate_journal, Moments
<1> QED
  BY <1>13 DEF t

LEMMA StopKeepsGood ==
  ASSUME NEW j, Good(j), NEW e \in StopRequests, CanStop(j, e)
  PROVE  Good(stop(j, e)) /\ Grows(j, stop(j, e))
<1>0. j \in Journals /\ IsFiniteSet(j.open) /\ IsFiniteSet(j.closed)
  BY DEF Good
<1>1. PICK x \in j.open : Matches(j, e) = {x}
  BY <1>0, OneMatch
<1> DEFINE t == stop(j, e)
           c == Close(x, e.at)
<1>2. /\ t.route = j.route /\ t.created = j.created /\ t.open = j.open \ {x}
      /\ t.closed = j.closed \cup {c} /\ t.events = j.events + 1
      /\ t.last = LastEvent(j, e.at)
  BY <1>0, <1>1, StopFields
<1>3. e.at \in Times
  BY DEF StopRequests
<1>4. c \in ClosedIntervals /\ c \notin j.closed
  BY <1>3, ClosedInterval
<1>5. validate_journal(t)
  BY StopValidates
<1>6. t = [j EXCEPT !.open = t.open, !.closed = t.closed, !.events = t.events,
                    !.last = t.last]
  BY <1>0 DEF stop, Journals
<1>7. Grows(j, t)
  <2>1. c \in t.closed
    BY <1>2
  <2>2. \A y \in j.open : y \in t.open \/ y = x
    BY <1>2
  <2> HIDE DEF t
  <2> QED
    BY <1>2, <1>3, <2>1, <2>2 DEF Grows, Kept
<1> HIDE DEF t, c
<1>8. /\ IsFiniteSet(t.open) /\ IsFiniteSet(t.closed)
      /\ Cardinality(t.open) = Cardinality(j.open) - 1
      /\ Cardinality(t.closed) = Cardinality(j.closed) + 1
      /\ Cardinality(j.open) \in Nat /\ Cardinality(j.closed) \in Nat
  <2>1. IsFiniteSet(t.open) /\ Cardinality(t.open) = Cardinality(j.open) - 1
    <3>1. /\ IsFiniteSet(j.open \ {x})
          /\ Cardinality(j.open \ {x}) = Cardinality(j.open) - 1
      BY <1>0, FS_RemoveElement
    <3> QED
      BY <1>2, <3>1
  <2>2. IsFiniteSet(t.closed) /\ Cardinality(t.closed) = Cardinality(j.closed) + 1
    <3>1. /\ IsFiniteSet(j.closed \cup {c})
          /\ Cardinality(j.closed \cup {c}) = Cardinality(j.closed) + 1
      BY <1>0, <1>4, FS_AddElement
    <3> QED
      BY <1>2, <3>1
  <2>3. Cardinality(j.open) \in Nat /\ Cardinality(j.closed) \in Nat
    BY <1>0, FS_CardinalityType
  <2> QED
    BY <2>1, <2>2, <2>3
<1>9. Cardinality(t.open) + Cardinality(t.closed) <= MaxIntervals
  BY <1>8, TrackerAssumption DEF Good
<1>10. t.events \in 0..2 * MaxIntervals
  <2>1. t.events = Cardinality(t.open) + 2 * Cardinality(t.closed)
    BY <1>5 DEF validate_journal
  <2>2. Cardinality(t.open) \in Nat /\ Cardinality(t.closed) \in Nat
    BY <1>8, FS_CardinalityType
  <2> QED
    BY <1>9, <2>1, <2>2, TrackerAssumption
<1>11. t.last \in Times
  BY <1>0, <1>2, <1>3, LastEventIs DEF Journals
<1>12. t \in Journals
  <2>1. t.open \in SUBSET OpenIntervals /\ t.closed \in SUBSET ClosedIntervals
    BY <1>0, <1>2, <1>4 DEF Journals
  <2> QED
    BY <1>0, <1>6, <1>10, <1>11, <2>1 DEF Journals
<1> QED
  BY <1>5, <1>7, <1>8, <1>9, <1>12 DEF Good, t

-----------------------------------------------------------------------------
\* Who is about to write holds the lock, and has made one step of the journal;
\* what a run opened is in the journal, open or closed, while its child runs.
Commands ==
  \A p \in Procs :
    /\ cmd[p].pc \in {"write", "launch"} =>
         /\ lock = p
         /\ Good(cmd[p].next)
         /\ journal # None => Grows(journal, cmd[p].next)
    /\ cmd[p].pc = "launch" => cmd[p].own \in cmd[p].next.open
    /\ cmd[p].pc = "running" =>
         cmd[p].own \in OpenIntervals /\ journal # None /\ Kept(journal, cmd[p].own)

IInv ==
  /\ TypeOK
  /\ journal # None => Good(journal)
  /\ Commands

LEMMA Initially == Init => IInv
  BY TrackerAssumption DEF Init, Idle, IInv, TypeOK, Commands

\* initialize makes a good journal.
LEMMA InitializeIsGood ==
  ASSUME NEW route \in Routes, NEW created \in Created, validate_journal(initialize(route, created))
  PROVE  Good(initialize(route, created))
<1> DEFINE j == initialize(route, created)
<1>1. j.open = {} /\ j.closed = {}
  BY DEF initialize
<1>2. j \in Journals
  BY TrackerAssumption DEF initialize, Journals, Times
<1>3. IsFiniteSet({}) /\ Cardinality({}) = 0
  BY FS_EmptySet
<1> HIDE DEF j
<1> QED
  BY <1>1, <1>2, <1>3, TrackerAssumption DEF Good, j

\* A process that takes the lock with a good step of the journal ready.
LEMMA TakeKeeps ==
  ASSUME IInv, NEW p \in Procs, NEW next, NEW pc \in {"write", "launch"}, NEW own,
         Take(p, next, pc, own), Good(next), own \in OpenIntervals \cup {None},
         journal # None => Grows(journal, next),
         pc = "launch" => own \in next.open
  PROVE  IInv'
<1>1. /\ lock = Free /\ lock' = p /\ journal' = journal
      /\ cmd' = [cmd EXCEPT ![p] = [pc |-> pc, next |-> next, own |-> own]]
  BY DEF Take, LockIsFree
<1>2. /\ TypeOK /\ next \in Journals
      /\ cmd'[p] = [pc |-> pc, next |-> next, own |-> own]
      /\ \A q \in Procs : q # p => cmd'[q] = cmd[q]
  BY <1>1 DEF IInv, TypeOK, Good
<1>3. TypeOK'
  BY <1>1, <1>2 DEF TypeOK
<1>4. \A q \in Procs : cmd[q].pc \notin {"write", "launch"}
  BY <1>1, TrackerAssumption DEF IInv, Commands
<1>5. Commands'
  <2> SUFFICES ASSUME NEW q \in Procs
               PROVE  /\ cmd'[q].pc \in {"write", "launch"} =>
                           /\ lock' = q
                           /\ Good(cmd'[q].next)
                           /\ journal' # None => Grows(journal', cmd'[q].next)
                      /\ cmd'[q].pc = "launch" => cmd'[q].own \in cmd'[q].next.open
                      /\ cmd'[q].pc = "running" =>
                           /\ cmd'[q].own \in OpenIntervals /\ journal' # None
                           /\ Kept(journal', cmd'[q].own)
    BY DEF Commands
  <2>1. CASE q = p
    BY <1>1, <1>2, <2>1
  <2>2. CASE q # p
    BY <1>1, <1>2, <1>4, <2>2 DEF IInv, Commands
  <2> QED
    BY <2>1, <2>2
<1> QED
  BY <1>1, <1>3, <1>5 DEF IInv

\* The start commands and runs, and what they are ready to write.
LEMMA StartTakes ==
  ASSUME IInv, NEW p \in Procs, journal # None, NEW e \in StartRequests, CanStart(journal, e),
         Cardinality(Intervals_of(journal)) < MaxIntervals, NEW pc \in {"write", "launch"},
         NEW own, Take(p, start(journal, e), pc, own), own \in {None, Opened(journal, e)},
         pc = "launch" => own = Opened(journal, e)
  PROVE  IInv'
<1>1. Good(journal) /\ validate_journal(start(journal, e))
  BY DEF IInv, Take
<1>2. /\ Good(start(journal, e)) /\ Grows(journal, start(journal, e))
      /\ Opened(journal, e) \in OpenIntervals /\ Opened(journal, e) \in start(journal, e).open
  BY <1>1, StartKeepsGood
<1> QED
  BY <1>2, TakeKeeps

LEMMA StopTakes ==
  ASSUME IInv, NEW p \in Procs, journal # None, NEW e \in StopRequests, CanStop(journal, e),
         NEW own \in OpenIntervals \cup {None}, Take(p, stop(journal, e), "write", own)
  PROVE  IInv'
<1>1. Good(journal)
  BY DEF IInv
<1>2. Good(stop(journal, e)) /\ Grows(journal, stop(journal, e))
  BY <1>1, StopKeepsGood
<1> QED
  BY <1>2, TakeKeeps

\* What one command keeps, every run finds again.
LEMMA KeptThroughout ==
  ASSUME NEW j, NEW n, Grows(j, n), NEW x, Kept(j, x)
  PROVE  Kept(n, x)
  BY DEF Grows, Kept

\* The request with which a run closes its interval is one of stop's.
LEMMA OwnStopIsRequest ==
  ASSUME NEW x \in OpenIntervals, NEW at \in Times
  PROVE  OwnStop(x, at) \in StopRequests /\ OwnStop(x, at).id = x.id
  BY DEF OwnStop, OpenIntervals, StopRequests

LEMMA StepInv == IInv /\ [Next]_vars => IInv'
<1> SUFFICES ASSUME IInv, [Next]_vars PROVE IInv'
  OBVIOUS
<1> DEFINE Cmds == [pc : {"idle", "write", "launch", "running"},
                    next : Journals \cup {None}, own : OpenIntervals \cup {None}]
<1>0. /\ journal \in Journals \cup {None} /\ lock \in Procs \cup {Free}
      /\ cmd \in [Procs -> Cmds]
  BY DEF IInv, TypeOK
<1>1. ASSUME NEW p \in Procs, InitCommand(p) PROVE IInv'
  <2>1. PICK route \in Routes, created \in Created :
          Take(p, initialize(route, created), "write", None)
    BY <1>1 DEF InitCommand
  <2>2. journal = None /\ Good(initialize(route, created))
    BY <1>1, <2>1, InitializeIsGood DEF InitCommand, Take
  <2> QED
    BY <2>1, <2>2, TakeKeeps
<1>2. ASSUME NEW p \in Procs, StartCommand(p) PROVE IInv'
  BY <1>2, StartTakes DEF StartCommand
<1>3. ASSUME NEW p \in Procs, StopCommand(p) PROVE IInv'
  BY <1>3, StopTakes DEF StopCommand
<1>4. ASSUME NEW p \in Procs, RunStart(p) PROVE IInv'
  BY <1>4, StartTakes DEF RunStart
<1>5. ASSUME NEW p \in Procs, RunStop(p) PROVE IInv'
  <2>1. cmd[p].own \in OpenIntervals /\ journal # None
    BY <1>5 DEF RunStop, IInv, Commands
  <2>2. PICK at \in Times :
          /\ CanStop(journal, OwnStop(cmd[p].own, at))
          /\ Take(p, stop(journal, OwnStop(cmd[p].own, at)), "write", cmd[p].own)
    BY <1>5 DEF RunStop
  <2> QED
    BY <2>1, <2>2, OwnStopIsRequest, StopTakes
<1>6. ASSUME NEW p \in Procs, RunStopFails(p) PROVE IInv'
  <2>1. cmd' = [cmd EXCEPT ![p] = Idle] /\ journal' = journal /\ lock' = lock
    BY <1>6 DEF RunStopFails
  <2>2. TypeOK'
    BY <1>0, <2>1 DEF TypeOK, Idle
  <2>3. cmd'[p].pc = "idle" /\ \A q \in Procs : q # p => cmd'[q] = cmd[q]
    BY <1>0, <2>1 DEF Idle
  <2>4. Commands'
    BY <2>1, <2>3 DEF IInv, Commands
  <2> QED
    BY <2>1, <2>2, <2>4 DEF IInv
<1>7. ASSUME NEW p \in Procs, Write(p) PROVE IInv'
  <2> DEFINE c == IF cmd[p].pc = "launch"
                  THEN [pc |-> "running", next |-> None, own |-> cmd[p].own] ELSE Idle
  <2>1. /\ journal' = cmd[p].next /\ lock' = Free /\ cmd' = [cmd EXCEPT ![p] = c]
        /\ cmd[p].pc \in {"write", "launch"}
    BY <1>7 DEF Write
  <2>2. /\ lock = p /\ Good(cmd[p].next) /\ journal' # None /\ journal' \in Journals
        /\ journal # None => Grows(journal, cmd[p].next)
    BY <2>1, NoneAssumption DEF IInv, Commands, Good
  <2>3. c \in Cmds
    BY <1>0 DEF Idle
  <2>4. cmd'[p] = c /\ \A q \in Procs : q # p => cmd'[q] = cmd[q]
    BY <1>0, <2>1
  <2>5. TypeOK'
    BY <1>0, <2>1, <2>2, <2>3 DEF TypeOK
  <2>6. ASSUME NEW q \in Procs
        PROVE  /\ cmd'[q].pc \notin {"write", "launch"}
               /\ cmd'[q].pc = "running" =>
                    cmd'[q].own \in OpenIntervals /\ Kept(journal', cmd'[q].own)
    <3>1. CASE q = p
      <4>1. CASE cmd[p].pc = "launch"
        <5>1. cmd[p].own \in cmd[p].next.open
          BY <4>1 DEF IInv, Commands
        <5>2. cmd[p].own \in OpenIntervals /\ Kept(journal', cmd[p].own)
          BY <2>1, <2>2, <5>1 DEF Kept, Journals
        <5> QED
          BY <2>4, <3>1, <4>1, <5>2
      <4>2. CASE cmd[p].pc # "launch"
        BY <2>4, <3>1, <4>2 DEF Idle
      <4> QED
        BY <4>1, <4>2
    <3>2. CASE q # p
      <4>1. cmd'[q] = cmd[q] /\ cmd[q].pc \notin {"write", "launch"}
        BY <2>2, <2>4, <3>2 DEF IInv, Commands
      <4>2. ASSUME cmd[q].pc = "running"
            PROVE  cmd[q].own \in OpenIntervals /\ Kept(journal', cmd[q].own)
        BY <2>1, <2>2, <4>2, KeptThroughout DEF IInv, Commands
      <4> QED
        BY <4>1, <4>2
    <3> QED
      BY <3>1, <3>2
  <2>7. Commands'
    BY <2>2, <2>6 DEF Commands
  <2>8. Good(journal')
    BY <2>1, <2>2
  <2> QED
    BY <2>5, <2>7, <2>8 DEF IInv
<1>8. ASSUME NEW p \in Procs, Crash(p) PROVE IInv'
  <2>1. /\ cmd' = [cmd EXCEPT ![p] = Idle] /\ journal' = journal
        /\ lock' = IF lock = p THEN Free ELSE lock
    BY <1>8 DEF Crash
  <2>2. TypeOK'
    BY <1>0, <2>1 DEF TypeOK, Idle
  <2>3. cmd'[p].pc = "idle" /\ \A q \in Procs : q # p => cmd'[q] = cmd[q]
    BY <1>0, <2>1 DEF Idle
  <2>4. Commands'
    BY <2>1, <2>3 DEF IInv, Commands
  <2> QED
    BY <2>1, <2>2, <2>4 DEF IInv
<1>9. CASE UNCHANGED vars
  BY <1>9 DEF vars, IInv, TypeOK, Commands
<1> QED
  BY <1>1, <1>2, <1>3, <1>4, <1>5, <1>6, <1>7, <1>8, <1>9 DEF Next, Refuse

(* The invariant holds whatever the commands, runs and crashes are. *)
THEOREM TrackerInvariant == Spec => []IInv
  BY Initially, StepInv, PTL DEF Spec

(* The requests that start and stop accept are exactly safe: no journal of *)
(* any history makes the validation after an accepted request fail.        *)
THEOREM AcceptedRequestsValidate == Spec => []ValidationNeverRefuses
<1>1. IInv => ValidationNeverRefuses
  BY StartValidates, StopValidates DEF IInv, ValidationNeverRefuses
<1> QED
  BY <1>1, TrackerInvariant, PTL

(* No interleaving or crash loses an interval or reopens a closed one. *)
THEOREM JournalIsKept == Spec => JournalOnlyGrows
<1>1. IInv /\ [Next]_vars =>
        [journal' # journal /\ journal # None =>
           /\ journal' # None
           /\ journal.closed \subseteq journal'.closed
           /\ journal'.events = journal.events + 1
           /\ \A x \in journal.open :
                x \in journal'.open \/ \E at \in Times : Close(x, at) \in journal'.closed]_vars
  <2> SUFFICES ASSUME IInv, Next, journal' # journal, journal # None
               PROVE  /\ journal' # None
                      /\ journal.closed \subseteq journal'.closed
                      /\ journal'.events = journal.events + 1
                      /\ \A x \in journal.open :
                           x \in journal'.open
                             \/ \E at \in Times : Close(x, at) \in journal'.closed
    OBVIOUS
  <2>1. PICK p \in Procs : Write(p)
    BY DEF Next, InitCommand, StartCommand, StopCommand, Refuse, RunStart, RunStop,
           RunStopFails, Crash, Take, vars
  <2>2. Good(journal') /\ Grows(journal, journal')
    BY <2>1 DEF Write, IInv, Commands
  <2> QED
    BY <2>2, NoneAssumption DEF Good, Grows, Kept
<1> QED
  BY <1>1, TrackerInvariant, PTL DEF Spec, JournalOnlyGrows

(* However long the child takes, and whatever other commands did meanwhile,*)
(* the interval a run closes is the one it opened.                         *)
THEOREM RunsFindTheirOwn == Spec => RunsCloseTheirOwn
<1>1. IInv /\ [Next]_vars =>
        [\A p \in Procs :
           cmd[p].pc = "running" /\ cmd'[p].pc = "write" =>
             /\ cmd[p].own \in journal.open
             /\ cmd'[p].next.open = journal.open \ {cmd[p].own}]_vars
  <2> SUFFICES ASSUME IInv, Next, NEW p \in Procs, cmd[p].pc = "running", cmd'[p].pc = "write"
               PROVE  /\ cmd[p].own \in journal.open
                      /\ cmd'[p].next.open = journal.open \ {cmd[p].own}
    OBVIOUS
  <2>0. \A q \in Procs : \A c : cmd' = [cmd EXCEPT ![q] = c] => q = p /\ c.pc = "write"
    BY DEF IInv, TypeOK
  <2>1. RunStop(p)
    <3>1. PICK q \in Procs :
            \/ InitCommand(q) \/ StartCommand(q) \/ StopCommand(q) \/ Refuse(q)
            \/ RunStart(q) \/ RunStop(q) \/ RunStopFails(q)
            \/ Write(q) \/ Crash(q)
      BY DEF Next
    <3>2. q = p
      BY <2>0, <3>1 DEF InitCommand, StartCommand, StopCommand, Refuse, RunStart, RunStop,
            RunStopFails, Write, Crash, Take, vars
    <3>3. ~RunStopFails(p) /\ ~Crash(p)
      BY <2>0 DEF RunStopFails, Crash, Idle
    <3> QED
      BY <3>1, <3>2, <3>3 DEF InitCommand, StartCommand, StopCommand, Refuse, RunStart, Write, vars
  <2> DEFINE x == cmd[p].own
  <2>2. x \in OpenIntervals /\ journal # None /\ Kept(journal, x) /\ Good(journal)
    BY DEF IInv, Commands
  <2>3. PICK at \in Times :
          /\ CanStop(journal, OwnStop(x, at))
          /\ Take(p, stop(journal, OwnStop(x, at)), "write", x)
    BY <2>1 DEF RunStop
  <2>4. cmd'[p].next = stop(journal, OwnStop(x, at))
    BY <2>3 DEF Take, IInv, TypeOK
  <2> HIDE DEF x
  <2>5. OwnStop(x, at) \in StopRequests /\ OwnStop(x, at).id = x.id
    BY <2>2, OwnStopIsRequest
  <2>6. PICK y \in journal.open :
          Matches(journal, OwnStop(x, at)) = {y} /\ OwnStop(x, at).id \in {None, y.id}
    BY <2>2, <2>3, OneMatch DEF Good
  <2>7. y.id = x.id /\ y \in OpenIntervals /\ y \notin journal.closed
    BY <2>2, <2>5, <2>6, NoneAssumption, OpenIsNotClosed DEF OpenIntervals, Good, Journals
  <2>8. y = x
    <3>1. CASE x \in journal.open
      BY <2>2, <2>7, <3>1 DEF Good, validate_journal, Intervals_of
    <3>2. CASE \E t \in Times : Close(x, t) \in journal.closed
      <4>1. PICK t \in Times : Close(x, t) \in journal.closed
        BY <3>2
      <4>2. Close(x, t).id = y.id
        BY <2>7 DEF Close
      <4>3. Close(x, t) = y
        BY <2>2, <4>1, <4>2 DEF Good, validate_journal, Intervals_of
      <4> QED
        BY <2>7, <4>1, <4>3
    <3> QED
      BY <2>2, <3>1, <3>2 DEF Kept
  <2>9. stop(journal, OwnStop(x, at)).open = journal.open \ {y}
    BY <2>2, <2>5, <2>6, StopFields DEF Good
  <2> QED
    BY <2>4, <2>8, <2>9 DEF x
<1> QED
  BY <1>1, TrackerInvariant, PTL DEF Spec, RunsCloseTheirOwn

-----------------------------------------------------------------------------
(* The export's arithmetic.  An interval is within time when it does not   *)
(* end before it starts; a list of them is apart when time passes between  *)
(* one and the next.                                                       *)
Spells == {x \in Nat \X Nat : x[1] <= x[2]}

Within(t, x) == x[1] <= t /\ t < x[2]

Apart(m) == \A k, l \in 1..Len(m) : k < l => m[k][2] < m[l][1]

\* The time that the first n of a list cover.
Prefix(m, n) == {t \in Nat : \E k \in 1..n : Within(t, m[k])}

LEMMA SpansAre ==
  ASSUME NEW S, S \subseteq Spells
  PROVE  Spans(S) = {t \in Nat : \E x \in S : Within(t, x)}
<1>1. \A x \in S : x[1] \in Nat /\ x[2] \in Nat
  BY DEF Spells
<1>2. \A x \in S : \A t : t \in x[1]..(x[2] - 1) <=> t \in Nat /\ Within(t, x)
  BY <1>1 DEF Within
<1>3. \A t : t \in Spans(S) <=> \E x \in S : x[1] < x[2] /\ t \in x[1]..(x[2] - 1)
  BY DEF Spans
<1>4. \A t : \A x \in S : t \in Nat /\ Within(t, x) => x[1] < x[2]
  BY <1>1 DEF Within
<1>5. \A t : t \in Spans(S) <=> t \in Nat /\ \E x \in S : Within(t, x)
  BY <1>2, <1>3, <1>4
<1> QED
  BY <1>5

\* The rank of an interval counts those before it: sorting is well defined.
LEMMA InOrderSorts ==
  ASSUME NEW S, S \subseteq Spells, IsFiniteSet(S)
  PROVE  /\ Cardinality(S) \in Nat
         /\ InOrder(S) \in [1..Cardinality(S) -> S]
         /\ \A x \in S : \E i \in 1..Cardinality(S) : InOrder(S)[i] = x
         /\ \A i, j \in 1..Cardinality(S) : i < j => InOrder(S)[i][1] <= InOrder(S)[j][1]
<1> DEFINE n == Cardinality(S)
           before(x) == {y \in S : Earlier(y, x)}
           rank == [x \in S |-> Cardinality(before(x)) + 1]
           s == InOrder(S)
<1>0. n \in Nat
  BY FS_CardinalityType
<1>1. \A x \in S : x[1] \in Nat /\ x[2] \in Nat /\ x = <<x[1], x[2]>>
  BY DEF Spells
<1>2. \A x, y \in S : x # y => Earlier(x, y) \/ Earlier(y, x)
  BY <1>1 DEF Earlier
<1>3. \A x, y, z \in S : Earlier(x, y) /\ Earlier(y, z) => Earlier(x, z)
  BY <1>1 DEF Earlier
<1>4. \A x \in S : ~Earlier(x, x)
  BY <1>1 DEF Earlier
<1>5. ASSUME NEW x \in S
      PROVE  IsFiniteSet(before(x)) /\ Cardinality(before(x)) \in Nat /\ Cardinality(before(x)) < n
  <2>1. before(x) \in SUBSET S /\ before(x) # S
    BY <1>4
  <2> HIDE DEF before
  <2>2. /\ IsFiniteSet(before(x)) /\ Cardinality(before(x)) <= Cardinality(S)
        /\ Cardinality(S) = Cardinality(before(x)) => S = before(x)
    BY <2>1, FS_Subset
  <2>3. Cardinality(before(x)) \in Nat
    BY <2>2, FS_CardinalityType
  <2> QED
    BY <1>0, <2>1, <2>2, <2>3
<1>6. ASSUME NEW x \in S, NEW y \in S, Earlier(x, y)
      PROVE  Cardinality(before(x)) < Cardinality(before(y))
  <2>1. before(x) \in SUBSET before(y) /\ before(x) # before(y)
    <3>1. before(x) \subseteq before(y)
      BY <1>3, <1>6
    <3>2. x \in before(y) /\ x \notin before(x)
      BY <1>4, <1>6
    <3> HIDE DEF before
    <3> QED
      BY <3>1, <3>2
  <2>2. /\ IsFiniteSet(before(y)) /\ Cardinality(before(y)) \in Nat /\ Cardinality(before(x)) \in Nat
    BY <1>5
  <2> HIDE DEF before
  <2>3. /\ Cardinality(before(x)) <= Cardinality(before(y))
        /\ Cardinality(before(y)) = Cardinality(before(x)) => before(y) = before(x)
    BY <2>1, <2>2, FS_Subset
  <2> QED
    BY <2>1, <2>2, <2>3
<1> HIDE DEF before
<1>7. rank \in [S -> 1..n]
  BY <1>0, <1>5
<1>8. \A x, y \in S : rank[x] = rank[y] => x = y
  <2> SUFFICES ASSUME NEW x \in S, NEW y \in S, x # y PROVE rank[x] # rank[y]
    OBVIOUS
  <2>1. Cardinality(before(x)) < Cardinality(before(y)) \/ Cardinality(before(y)) < Cardinality(before(x))
    BY <1>2, <1>6
  <2> QED
    BY <1>5, <2>1
<1>9. \A i \in 1..n : \E x \in S : rank[x] = i
  <2>1. IsFiniteSet(1..n) /\ Cardinality(1..n) = n
    <3>1. /\ IsFiniteSet(1..n)
          /\ Cardinality(1..n) = IF 1 > n THEN 0 ELSE n - 1 + 1
      <4> HIDE DEF n
      <4> QED
        BY <1>0, FS_Interval
    <3> HIDE DEF n
    <3> QED
      BY <1>0, <3>1
  <2> HIDE DEF rank, n
  <2>2. rank \in Injection(S, 1..n)
    BY <1>7, <1>8 DEF Injection, IsInjective
  <2>3. Cardinality(S) = Cardinality(1..n)
    BY <2>1 DEF n
  <2>4. Cardinality(S) = Cardinality(1..n) <=> rank \in Surjection(S, 1..n)
    BY <2>1, <2>2, FS_Injection
  <2>5. rank \in Surjection(S, 1..n)
    BY <2>3, <2>4
  <2> QED
    BY <2>5 DEF Surjection
<1>10. \A i \in 1..n : s[i] = CHOOSE x \in S : Cardinality(before(x)) = i - 1
  BY DEF InOrder, before
<1>11. DOMAIN s = 1..n /\ s = [i \in 1..n |-> s[i]]
  <2> DEFINE place(i) == CHOOSE x \in S : Cardinality(before(x)) = i - 1
  <2>1. s = [i \in 1..n |-> place(i)]
    BY DEF InOrder, before
  <2> HIDE DEF place, s, n
  <2> QED
    BY <2>1
<1> HIDE DEF s
<1>12. \A i \in 1..n : s[i] \in S /\ rank[s[i]] = i
  <2> SUFFICES ASSUME NEW i \in 1..n PROVE s[i] \in S /\ rank[s[i]] = i
    OBVIOUS
  <2>1. PICK x \in S : rank[x] = i
    BY <1>9
  <2>2. Cardinality(before(x)) = i - 1
    BY <1>0, <1>5, <2>1
  <2>3. s[i] \in S /\ Cardinality(before(s[i])) = i - 1
    BY <1>10, <2>2
  <2> QED
    BY <1>0, <2>3
<1>13. s \in [1..n -> S]
  BY <1>11, <1>12
<1>14. \A x \in S : \E i \in 1..n : s[i] = x
  <2> HIDE DEF rank
  <2> QED
    BY <1>7, <1>8, <1>12
<1>15. ASSUME NEW i \in 1..n, NEW j \in 1..n, i < j PROVE s[i][1] <= s[j][1]
  <2>1. s[i] \in S /\ s[j] \in S /\ rank[s[i]] = i /\ rank[s[j]] = j
    BY <1>12
  <2>2. rank[s[i]] < rank[s[j]]
    BY <1>15, <2>1
  <2>3. Cardinality(before(s[i])) < Cardinality(before(s[j]))
    BY <1>5, <2>1, <2>2
  <2>4. ~Earlier(s[j], s[i])
    <3> SUFFICES ASSUME Earlier(s[j], s[i]) PROVE FALSE
      OBVIOUS
    <3>1. Cardinality(before(s[j])) < Cardinality(before(s[i]))
      BY <1>6, <2>1
    <3> QED
      BY <1>5, <2>1, <2>3, <3>1
  <2>5. s[i][1] \in Nat /\ s[j][1] \in Nat
    BY <1>1, <2>1
  <2> QED
    BY <2>4, <2>5 DEF Earlier
<1> QED
  BY <1>0, <1>13, <1>14, <1>15 DEF s, n

-----------------------------------------------------------------------------
\* The walk of _merged along a sorted list of n intervals.
Walks(s, n, f) ==
  f = [i \in 0..n |-> IF i = 0 THEN <<>> ELSE Absorb(f[i - 1], s[i])]

LEMMA WalkExists == ASSUME NEW s, NEW n \in Nat PROVE \E f : Walks(s, n, f)
<1> DEFINE Bad == {i \in Nat : i <= n /\ ~\E f : Walks(s, i, f)}
<1>1. SUFFICES ASSUME ~\E f : Walks(s, n, f) PROVE FALSE
  OBVIOUS
<1>2. PICK m \in Bad : \A i \in Bad : m <= i
  <2>1. n \in Bad /\ Bad \subseteq Nat
    BY <1>1
  <2> HIDE DEF Bad
  <2> QED
    BY <2>1, LeastNatural
<1>3. m \in Nat /\ m <= n /\ ~\E f : Walks(s, m, f)
  BY <1>2
<1>4. CASE m = 0
  <2> DEFINE f == [i \in 0..0 |-> <<>>]
  <2>1. Walks(s, 0, f)
    BY DEF Walks
  <2> QED
    BY <1>3, <1>4, <2>1
<1>5. CASE m # 0
  <2>1. m - 1 \in Nat /\ m - 1 <= n /\ ~(m <= m - 1)
    BY <1>3, <1>5
  <2>2. m - 1 \notin Bad
    <3> HIDE DEF Bad
    <3> QED
      BY <1>2, <2>1
  <2>3. PICK f : Walks(s, m - 1, f)
    BY <2>1, <2>2
  <2> DEFINE g == [i \in 0..m |-> IF i = m THEN Absorb(f[m - 1], s[m]) ELSE f[i]]
             h == [i \in 0..m |-> IF i = 0 THEN <<>> ELSE Absorb(g[i - 1], s[i])]
  <2>4. \A i \in 0..m - 1 : f[i] = IF i = 0 THEN <<>> ELSE Absorb(f[i - 1], s[i])
    <3>1. f = [i \in 0..m - 1 |-> IF i = 0 THEN <<>> ELSE Absorb(f[i - 1], s[i])]
      BY <2>3 DEF Walks
    <3> QED
      BY <3>1, Zenon
  <2>5. \A i \in 0..m - 1 : g[i] = f[i] /\ i \in 0..m /\ i # m
    BY <1>3, <2>1
  <2>6. g[m] = Absorb(f[m - 1], s[m]) /\ g[m - 1] = f[m - 1]
    BY <1>3, <2>1
  <2>7. ASSUME NEW i \in 0..m PROVE g[i] = h[i]
    <3>0. h[i] = IF i = 0 THEN <<>> ELSE Absorb(g[i - 1], s[i])
      OBVIOUS
    <3> HIDE DEF g, h
    <3>1. CASE i = m
      BY <1>5, <2>6, <3>0, <3>1
    <3>2. CASE i = 0
      BY <1>5, <2>1, <2>4, <2>5, <3>0, <3>2
    <3>3. CASE i # m /\ i # 0
      <4>1. i \in 0..m - 1 /\ i - 1 \in 0..m - 1
        BY <1>3, <3>3
      <4>2. g[i] = f[i] /\ g[i - 1] = f[i - 1]
        BY <2>5, <4>1
      <4>3. f[i] = Absorb(f[i - 1], s[i])
        BY <2>4, <3>3, <4>1
      <4> QED
        BY <3>0, <3>3, <4>2, <4>3
    <3> QED
      BY <3>1, <3>2, <3>3
  <2>8. g = h
    <3>1. g = [i \in 0..m |-> g[i]] /\ h = [i \in 0..m |-> h[i]]
      OBVIOUS
    <3> HIDE DEF g, h
    <3> QED
      BY <2>7, <3>1
  <2>9. Walks(s, m, g)
    <3>1. g = [i \in 0..m |-> IF i = 0 THEN <<>> ELSE Absorb(g[i - 1], s[i])]
      <4>1. h = [i \in 0..m |-> IF i = 0 THEN <<>> ELSE Absorb(g[i - 1], s[i])]
        OBVIOUS
      <4> HIDE DEF g, h
      <4> QED
        BY <2>8, <4>1
    <3> HIDE DEF g
    <3> QED
      BY <3>1 DEF Walks
  <2> QED
    BY <1>3, <2>9
<1> QED
  BY <1>4, <1>5

\* What the walk has after n intervals: what they cover, apart and in order.
Merges(s, n, m) ==
  /\ m \in Seq(Spells)
  /\ n = 0 => m = <<>>
  /\ n # 0 => m # <<>> /\ Last(m)[1] <= s[n][1]
  /\ Apart(m)
  /\ Prefix(m, Len(m)) = Prefix(s, n)

LEMMA AbsorbMerges ==
  ASSUME NEW N \in Nat, NEW s \in [1..N -> Spells],
         \A i, j \in 1..N : i < j => s[i][1] <= s[j][1],
         NEW n \in 1..N, NEW m, Merges(s, n - 1, m)
  PROVE  Merges(s, n, Absorb(m, s[n]))
<1> DEFINE x == s[n]
           r == Absorb(m, x)
           L == Len(m)
<1>1. x \in Spells /\ x[1] \in Nat /\ x[2] \in Nat /\ x[1] <= x[2]
  BY DEF Spells
<1>2. m \in Seq(Spells) /\ L \in Nat /\ Apart(m) /\ Prefix(m, L) = Prefix(s, n - 1)
  BY DEF Merges
<1>3. \A k \in 1..L : m[k] \in Spells /\ m[k][1] \in Nat /\ m[k][2] \in Nat /\ m[k][1] <= m[k][2]
  BY <1>2 DEF Spells
<1>4. \A t : t \in Prefix(s, n) <=> t \in Nat /\ (t \in Prefix(s, n - 1) \/ Within(t, x))
  BY DEF Prefix
<1>5. CASE m # <<>> /\ x[1] <= Last(m)[2]
  <2> DEFINE y == <<m[L][1], LaterEnd(m[L], x)>>
  <2>1. L \in 1..L /\ Last(m) = m[L] /\ r = [m EXCEPT ![L] = y]
    BY <1>2, <1>5 DEF Last, Absorb
  <2>2. n - 1 # 0 /\ m[L][1] <= x[1]
    <3>1. n - 1 # 0
      BY <1>5 DEF Merges
    <3>2. m[L][1] <= s[n - 1][1]
      BY <2>1, <3>1 DEF Merges
    <3>3. s[n - 1][1] <= x[1] /\ s[n - 1][1] \in Nat
      BY <3>1 DEF Spells
    <3> QED
      BY <1>1, <1>3, <2>1, <3>1, <3>2, <3>3
  <2>3. /\ y \in Spells /\ y[1] = m[L][1] /\ y[2] \in Nat /\ m[L][2] <= y[2]
        /\ \A t \in Nat : Within(t, y) <=> Within(t, m[L]) \/ Within(t, x)
    <3>1. y[1] = m[L][1] /\ y[2] = IF m[L][2] >= x[2] THEN m[L][2] ELSE x[2]
      BY DEF LaterEnd
    <3>2. m[L][1] \in Nat /\ m[L][2] \in Nat /\ m[L][1] <= m[L][2] /\ x[1] <= m[L][2]
      BY <1>3, <1>5, <2>1
    <3>3. y[2] \in Nat /\ m[L][2] <= y[2] /\ y[1] <= y[2]
      BY <1>1, <3>1, <3>2
    <3>4. y \in Spells
      BY <3>1, <3>2, <3>3 DEF Spells
    <3> HIDE DEF y
    <3>5. \A a, b, c, d, t \in Nat :
            a <= c /\ c <= b /\ c <= d =>
              (a <= t /\ t < (IF b >= d THEN b ELSE d) <=> (a <= t /\ t < b) \/ (c <= t /\ t < d))
      OBVIOUS
    <3>6. \A t \in Nat : Within(t, y) <=> Within(t, m[L]) \/ Within(t, x)
      <4> HIDE DEF x, L
      <4> QED
        BY <1>1, <2>2, <3>1, <3>2, <3>5 DEF Within
    <3> QED
      BY <3>1, <3>3, <3>4, <3>6
  <2> HIDE DEF y, x, r, L
  <2>4. r \in Seq(Spells) /\ Len(r) = L /\ r[L] = y /\ \A k \in 1..L : k # L => r[k] = m[k]
    BY <1>2, <2>1, <2>3 DEF L
  <2>5. Apart(r)
    <3> SUFFICES ASSUME NEW k \in 1..L, NEW l \in 1..L, k < l PROVE r[k][2] < r[l][1]
      BY <2>4 DEF Apart
    <3>1. r[k] = m[k] /\ k # L
      BY <1>2, <2>4
    <3>2. m[k][2] < m[l][1]
      BY <1>2 DEF Apart, L
    <3>3. r[l][1] = m[l][1]
      BY <2>3, <2>4
    <3> QED
      BY <3>1, <3>2, <3>3
  <2>6. Prefix(r, L) = Prefix(s, n)
    <3> SUFFICES ASSUME NEW t \in Nat
                 PROVE  (\E k \in 1..L : Within(t, r[k]))
                          <=> (\E k \in 1..L : Within(t, m[k])) \/ Within(t, x)
      BY <1>2, <1>4 DEF Prefix
    <3> QED
      BY <2>1, <2>3, <2>4
  <2>7. r # <<>> /\ Last(r) = y
    BY <2>1, <2>4 DEF Last
  <2> QED
    BY <2>2, <2>3, <2>4, <2>5, <2>6, <2>7 DEF Merges, r, x
<1>6. CASE ~(m # <<>> /\ x[1] <= Last(m)[2])
  <2>1. r = Append(m, x)
    BY <1>6 DEF Absorb
  <2>2. r \in Seq(Spells) /\ Len(r) = L + 1 /\ r[L + 1] = x /\ \A k \in 1..L : r[k] = m[k]
    BY <1>1, <1>2, <2>1
  <2>3. \A k \in 1..L : m[k][2] < x[1]
    <3> SUFFICES ASSUME NEW k \in 1..L PROVE m[k][2] < x[1]
      OBVIOUS
    <3>1. L \in 1..L /\ m # <<>> /\ Last(m) = m[L]
      BY <1>2 DEF Last
    <3>2. m[L][2] < x[1]
      BY <1>1, <1>3, <1>6, <3>1
    <3>3. k # L => m[k][2] < m[L][1]
      BY <1>2, <3>1 DEF Apart
    <3> HIDE DEF x, L, r
    <3> QED
      BY <1>1, <1>3, <3>1, <3>2, <3>3
  <2> HIDE DEF x, r, L
  <2>4. Apart(r)
    <3> SUFFICES ASSUME NEW k \in 1..L + 1, NEW l \in 1..L + 1, k < l PROVE r[k][2] < r[l][1]
      BY <2>2 DEF Apart
    <3>1. CASE l = L + 1
      BY <1>2, <2>2, <2>3, <3>1
    <3>2. CASE l # L + 1
      <4>1. k \in 1..L /\ l \in 1..L
        BY <1>2, <3>2
      <4>2. m[k][2] < m[l][1]
        BY <1>2, <4>1 DEF Apart, L
      <4> QED
        BY <2>2, <4>1, <4>2
    <3> QED
      BY <3>1, <3>2
  <2>5. Prefix(r, L + 1) = Prefix(s, n)
    <3> SUFFICES ASSUME NEW t \in Nat
                 PROVE  (\E k \in 1..L + 1 : Within(t, r[k]))
                          <=> (\E k \in 1..L : Within(t, m[k])) \/ Within(t, x)
      BY <1>2, <1>4 DEF Prefix
    <3>1. L + 1 \in 1..L + 1 /\ \A k \in 1..L : k \in 1..L + 1
      BY <1>2
    <3>2. \A k \in 1..L + 1 : k = L + 1 \/ k \in 1..L
      BY <1>2
    <3> QED
      BY <2>2, <3>1, <3>2
  <2>6. r # <<>> /\ Last(r) = x
    BY <1>2, <2>2 DEF Last
  <2> QED
    BY <1>1, <2>2, <2>4, <2>5, <2>6 DEF Merges, r, x
<1> QED
  BY <1>5, <1>6

\* _merged: the same time, in intervals that are apart.
LEMMA MergedIs ==
  ASSUME NEW S, S \subseteq Spells, IsFiniteSet(S)
  PROVE  /\ _merged(S) \in Seq(Spells) /\ Apart(_merged(S))
         /\ Prefix(_merged(S), Len(_merged(S))) = Spans(S)
<1> DEFINE N == Cardinality(S)
           s == InOrder(S)
           result[i \in 0..N] == IF i = 0 THEN <<>> ELSE Absorb(result[i - 1], s[i])
<1>1. /\ N \in Nat /\ s \in [1..N -> S] /\ \A x \in S : \E i \in 1..N : s[i] = x
      /\ \A i, j \in 1..N : i < j => s[i][1] <= s[j][1]
  BY InOrderSorts
<1>2. Len(s) = N
  <2> HIDE DEF s, N
  <2> QED
    BY <1>1, LenProperties, SeqDef
<1>3. _merged(S) = result[N]
  BY <1>2, Zenon DEF _merged
<1>4. PICK f : Walks(s, N, f)
  <2> HIDE DEF s, N
  <2> QED
    BY <1>1, WalkExists
<1>5. f = [i \in 0..N |-> IF i = 0 THEN <<>> ELSE Absorb(f[i - 1], s[i])]
  BY <1>4 DEF Walks
<1>6. result = [i \in 0..N |-> IF i = 0 THEN <<>> ELSE Absorb(result[i - 1], s[i])]
  BY <1>5
<1> HIDE DEF result, s
<1>7. result[0] = <<>> /\ \A i \in 1..N : result[i] = Absorb(result[i - 1], s[i])
  <2> HIDE DEF N
  <2>1. \A i \in 0..N : result[i] = IF i = 0 THEN <<>> ELSE Absorb(result[i - 1], s[i])
    BY <1>6, Zenon
  <2>2. 0 \in 0..N /\ \A i \in 1..N : i \in 0..N /\ i # 0
    BY <1>1
  <2> QED
    BY <2>1, <2>2
<1>8. s \in [1..N -> Spells]
  BY <1>1
<1> HIDE DEF N
<1>9. \A n \in 0..N : Merges(s, n, result[n])
  <2> DEFINE Bad == {n \in Nat : n <= N /\ ~Merges(s, n, result[n])}
  <2>1. SUFFICES ASSUME Bad # {} PROVE FALSE
    BY <1>1
  <2>2. PICK n \in Bad : \A i \in Bad : n <= i
    <3>1. Bad \subseteq Nat
      OBVIOUS
    <3> HIDE DEF Bad
    <3> QED
      BY <2>1, <3>1, LeastNatural
  <2>3. n \in Nat /\ n <= N /\ ~Merges(s, n, result[n])
    BY <2>2
  <2>4. CASE n = 0
    <3>1. <<>> \in Seq(Spells) /\ Len(<<>>) = 0
      OBVIOUS
    <3>2. Apart(<<>>) /\ Prefix(<<>>, 0) = Prefix(s, 0)
      BY DEF Apart, Prefix
    <3>3. Merges(s, 0, <<>>)
      BY <3>1, <3>2 DEF Merges
    <3> QED
      BY <1>7, <2>3, <2>4, <3>3
  <2>5. CASE n # 0
    <3>1. n - 1 \in Nat /\ n - 1 <= N /\ ~(n <= n - 1) /\ n \in 1..N
      BY <1>1, <2>3, <2>5
    <3>2. n - 1 \notin Bad
      <4> HIDE DEF Bad
      <4> QED
        BY <2>2, <3>1
    <3>3. Merges(s, n - 1, result[n - 1])
      BY <3>1, <3>2
    <3>4. Merges(s, n, Absorb(result[n - 1], s[n]))
      BY <1>1, <1>8, <3>1, <3>3, AbsorbMerges
    <3> QED
      BY <1>7, <2>3, <3>1, <3>4
  <2> QED
    BY <2>4, <2>5
<1>10. Merges(s, N, _merged(S))
  BY <1>1, <1>3, <1>9
<1>11. Prefix(s, N) = Spans(S)
  <2> SUFFICES Prefix(s, N) = {t \in Nat : \E x \in S : Within(t, x)}
    BY SpansAre
  <2> QED
    BY <1>1 DEF Prefix
<1> QED
  BY <1>10, <1>11 DEF Merges

-----------------------------------------------------------------------------
\* The time covered is finite, and each interval apart adds its length to it.
LEMMA PrefixGrows ==
  ASSUME NEW m \in Seq(Spells), Apart(m), NEW n \in 1..Len(m), IsFiniteSet(Prefix(m, n - 1))
  PROVE  /\ IsFiniteSet(Prefix(m, n))
         /\ Cardinality(Prefix(m, n)) = Cardinality(Prefix(m, n - 1)) + (m[n][2] - m[n][1])
<1> DEFINE I == m[n][1]..(m[n][2] - 1)
           P == Prefix(m, n - 1)
<1>1. m[n][1] \in Nat /\ m[n][2] \in Nat /\ m[n][1] <= m[n][2]
  BY DEF Spells
<1>2. \A t : t \in I <=> t \in Nat /\ Within(t, m[n])
  BY <1>1 DEF Within
<1>3. Prefix(m, n) = P \cup I
  <2>1. \A k : k \in 1..n <=> k \in 1..n - 1 \/ k = n
    OBVIOUS
  <2> HIDE DEF I
  <2> QED
    BY <1>2, <2>1 DEF Prefix
<1>4. P \cap I = {}
  <2> SUFFICES ASSUME NEW t \in P, t \in I PROVE FALSE
    OBVIOUS
  <2>1. PICK k \in 1..n - 1 : Within(t, m[k])
    BY DEF Prefix
  <2>2. k \in 1..Len(m) /\ k < n /\ t \in Nat
    BY DEF Prefix
  <2>3. m[k][2] < m[n][1] /\ m[k][2] \in Nat
    <3>1. m[k] \in Spells
      BY <2>2
    <3> QED
      BY <2>2, <3>1 DEF Apart, Spells
  <2> QED
    BY <1>1, <2>1, <2>2, <2>3 DEF Within
<1>5. IsFiniteSet(I) /\ Cardinality(I) = m[n][2] - m[n][1]
  <2> DEFINE a == m[n][1]
             b == m[n][2] - 1
  <2>1. a \in Int /\ b \in Int
    BY <1>1
  <2> HIDE DEF a, b
  <2>2. IsFiniteSet(a..b) /\ Cardinality(a..b) = IF a > b THEN 0 ELSE b - a + 1
    BY <2>1, FS_Interval
  <2> QED
    BY <1>1, <2>2 DEF a, b
<1> HIDE DEF I, P
<1>6. /\ IsFiniteSet(P \cup I)
      /\ Cardinality(P \cup I) = Cardinality(P) + Cardinality(I) - Cardinality(P \cap I)
  <2>1. IsFiniteSet(P)
    BY DEF P
  <2> QED
    BY <1>5, <2>1, FS_Union
<1>7. Cardinality(P) \in Nat /\ Cardinality(P \cap I) = 0
  <2>1. IsFiniteSet(P)
    BY DEF P
  <2> QED
    BY <1>4, <2>1, FS_EmptySet, FS_CardinalityType
<1> QED
  BY <1>1, <1>3, <1>5, <1>6, <1>7 DEF P

LEMMA PrefixIsFinite ==
  ASSUME NEW m \in Seq(Spells), Apart(m), NEW n \in 0..Len(m)
  PROVE  IsFiniteSet(Prefix(m, n)) /\ Cardinality(Prefix(m, n)) \in Nat
<1> DEFINE Bad == {i \in Nat : i <= Len(m) /\ ~IsFiniteSet(Prefix(m, i))}
<1>1. SUFFICES ASSUME Bad # {} PROVE FALSE
  BY FS_CardinalityType
<1>2. PICK i \in Bad : \A k \in Bad : i <= k
  <2>1. Bad \subseteq Nat
    OBVIOUS
  <2> HIDE DEF Bad
  <2> QED
    BY <1>1, <2>1, LeastNatural
<1>3. i \in Nat /\ i <= Len(m) /\ ~IsFiniteSet(Prefix(m, i))
  BY <1>2
<1>4. CASE i = 0
  <2>1. Prefix(m, 0) = {}
    BY DEF Prefix
  <2> QED
    BY <1>3, <1>4, <2>1, FS_EmptySet
<1>5. CASE i # 0
  <2>1. i - 1 \in Nat /\ i - 1 <= Len(m) /\ ~(i <= i - 1) /\ i \in 1..Len(m)
    BY <1>3, <1>5
  <2>2. i - 1 \notin Bad
    <3> HIDE DEF Bad
    <3> QED
      BY <1>2, <2>1
  <2>3. IsFiniteSet(Prefix(m, i - 1))
    BY <2>1, <2>2
  <2> QED
    BY <1>3, <2>1, <2>3, PrefixGrows
<1> QED
  BY <1>4, <1>5

\* _seconds counts the time covered once.
LEMMA SecondsAreExact ==
  ASSUME NEW S, S \subseteq Spells, IsFiniteSet(S)
  PROVE  UnionIsExact(S) /\ IsFiniteSet(Spans(S))
<1> DEFINE m == _merged(S)
           total[i \in 0..Len(m)] == IF i = 0 THEN 0 ELSE total[i - 1] + (m[i][2] - m[i][1])
           f == [i \in 0..Len(m) |-> Cardinality(Prefix(m, i))]
<1>1. m \in Seq(Spells) /\ Apart(m) /\ Prefix(m, Len(m)) = Spans(S)
  BY MergedIs
<1>2. _seconds(S) = total[Len(m)]
  BY DEF _seconds
<1> HIDE DEF m
<1>3. ASSUME NEW i \in 0..Len(m)
      PROVE  f[i] = IF i = 0 THEN 0 ELSE f[i - 1] + (m[i][2] - m[i][1])
  <2>1. CASE i = 0
    <3>1. Prefix(m, 0) = {}
      BY DEF Prefix
    <3> QED
      BY <2>1, <3>1, FS_EmptySet
  <2>2. CASE i # 0
    <3>1. i \in 1..Len(m) /\ i - 1 \in 0..Len(m)
      BY <1>1, <2>2
    <3>2. IsFiniteSet(Prefix(m, i - 1))
      BY <1>1, <3>1, PrefixIsFinite
    <3>3. Cardinality(Prefix(m, i)) = Cardinality(Prefix(m, i - 1)) + (m[i][2] - m[i][1])
      BY <1>1, <3>1, <3>2, PrefixGrows
    <3> QED
      BY <2>2, <3>1, <3>3
  <2> QED
    BY <2>1, <2>2
<1>4. \E g : g = [i \in 0..Len(m) |-> IF i = 0 THEN 0 ELSE g[i - 1] + (m[i][2] - m[i][1])]
  <2> DEFINE h == [i \in 0..Len(m) |-> IF i = 0 THEN 0 ELSE f[i - 1] + (m[i][2] - m[i][1])]
  <2>1. \A i \in 0..Len(m) : f[i] = h[i]
    <3>1. \A i \in 0..Len(m) : h[i] = IF i = 0 THEN 0 ELSE f[i - 1] + (m[i][2] - m[i][1])
      OBVIOUS
    <3> HIDE DEF f, h
    <3> QED
      BY <1>3, <3>1
  <2>2. f = h
    <3>1. f = [i \in 0..Len(m) |-> f[i]] /\ h = [i \in 0..Len(m) |-> h[i]]
      OBVIOUS
    <3> HIDE DEF f, h
    <3> QED
      BY <2>1, <3>1
  <2> HIDE DEF f
  <2> QED
    BY <2>2
<1>5. total = [i \in 0..Len(m) |-> IF i = 0 THEN 0 ELSE total[i - 1] + (m[i][2] - m[i][1])]
  BY <1>4
<1> HIDE DEF total, f
<1>6. \A i \in 0..Len(m) :
        total[i] = IF i = 0 THEN 0 ELSE total[i - 1] + (m[i][2] - m[i][1])
  BY <1>5, Zenon
<1>7. \A i \in 0..Len(m) : total[i] = f[i]
  <2> DEFINE Bad == {i \in Nat : i <= Len(m) /\ total[i] # f[i]}
  <2>0. Len(m) \in Nat
    BY <1>1
  <2>1. SUFFICES ASSUME Bad # {} PROVE FALSE
    BY <2>0
  <2>2. PICK i \in Bad : \A k \in Bad : i <= k
    <3>1. Bad \subseteq Nat
      OBVIOUS
    <3> HIDE DEF Bad
    <3> QED
      BY <2>1, <3>1, LeastNatural
  <2>3. i \in Nat /\ i <= Len(m) /\ total[i] # f[i] /\ i \in 0..Len(m)
    BY <2>0, <2>2
  <2>4. CASE i = 0
    BY <1>3, <1>6, <2>3, <2>4
  <2>5. CASE i # 0
    <3>1. i - 1 \in Nat /\ i - 1 <= Len(m) /\ ~(i <= i - 1)
      BY <2>0, <2>3, <2>5
    <3>2. i - 1 \notin Bad
      <4> HIDE DEF Bad
      <4> QED
        BY <2>2, <3>1
    <3>3. total[i - 1] = f[i - 1]
      BY <3>1, <3>2
    <3>4. /\ total[i] = total[i - 1] + (m[i][2] - m[i][1])
          /\ f[i] = f[i - 1] + (m[i][2] - m[i][1])
      BY <1>3, <1>6, <2>3, <2>5
    <3> QED
      BY <2>3, <3>3, <3>4
  <2> QED
    BY <2>4, <2>5
<1>8. Len(m) \in Nat /\ Len(m) \in 0..Len(m)
  BY <1>1
<1>9. total[Len(m)] = Cardinality(Spans(S))
  BY <1>1, <1>7, <1>8 DEF f
<1>10. IsFiniteSet(Spans(S))
  BY <1>1, <1>8, PrefixIsFinite
<1> QED
  BY <1>2, <1>9, <1>10 DEF UnionIsExact

-----------------------------------------------------------------------------
(* The overlap of two lists.  What is left to count when the pointers are  *)
(* at i and j is the time covered by the rest of both.                     *)
Suffix(m, n) == {t \in Nat : \E k \in n..Len(m) : Within(t, m[k])}

Common(l, r, i, j) == Suffix(l, i) \cap Suffix(r, j)

LEMMA SuffixIs ==
  ASSUME NEW m \in Seq(Spells), Apart(m), NEW n \in 1..Len(m)
  PROVE  /\ \A t : t \in Suffix(m, n) <=> t \in Suffix(m, n + 1) \/ (t \in Nat /\ Within(t, m[n]))
         /\ \A t \in Suffix(m, n + 1) : t \in Nat /\ m[n][2] < t
         /\ m[n][1] \in Nat /\ m[n][2] \in Nat /\ m[n][1] <= m[n][2]
<1>1. \A k : k \in n..Len(m) <=> k = n \/ k \in n + 1..Len(m)
  OBVIOUS
<1>2. \A t : t \in Suffix(m, n) <=> t \in Suffix(m, n + 1) \/ (t \in Nat /\ Within(t, m[n]))
  BY <1>1 DEF Suffix
<1>3. m[n] \in Spells
  OBVIOUS
<1>4. m[n][1] \in Nat /\ m[n][2] \in Nat /\ m[n][1] <= m[n][2]
  BY <1>3 DEF Spells
<1>5. ASSUME NEW t \in Suffix(m, n + 1) PROVE t \in Nat /\ m[n][2] < t
  <2>1. PICK k \in n + 1..Len(m) : Within(t, m[k])
    BY DEF Suffix
  <2>2. k \in 1..Len(m) /\ n < k /\ t \in Nat
    BY DEF Suffix
  <2>3. m[k] \in Spells
    BY <2>2
  <2>4. m[n][2] < m[k][1] /\ m[k][1] \in Nat
    BY <2>2, <2>3 DEF Apart, Spells
  <2> QED
    BY <1>4, <2>1, <2>2, <2>4 DEF Within
<1> QED
  BY <1>2, <1>4, <1>5

LEMMA MaxOfTwo ==
  ASSUME NEW a \in Nat, NEW b \in Nat
  PROVE  Max({a, b}) = IF a >= b THEN a ELSE b
<1>1. CASE a >= b
  BY <1>1, MaxIs
<1>2. CASE ~(a >= b)
  BY <1>2, MaxIs
<1> QED
  BY <1>1, <1>2

LEMMA MinOfTwo ==
  ASSUME NEW a \in Nat, NEW b \in Nat
  PROVE  Min({a, b}) = IF a <= b THEN a ELSE b
<1>1. Min({a, b}) \in {a, b} /\ \A y \in {a, b} : Min({a, b}) <= y
  <2>1. \E x \in {a, b} : \A y \in {a, b} : x <= y
    OBVIOUS
  <2> QED
    BY <2>1 DEF Min
<1> QED
  BY <1>1

LEMMA SharedIs ==
  ASSUME NEW x \in Spells, NEW y \in Spells
  PROVE  /\ IsFiniteSet({t \in Nat : Within(t, x) /\ Within(t, y)})
         /\ Cardinality({t \in Nat : Within(t, x) /\ Within(t, y)}) = Shared(x, y)
<1> DEFINE from == Max({x[1], y[1]})
           to == Min({x[2], y[2]})
           C == {t \in Nat : Within(t, x) /\ Within(t, y)}
<1>1. /\ x[1] \in Nat /\ x[2] \in Nat /\ x[1] <= x[2]
      /\ y[1] \in Nat /\ y[2] \in Nat /\ y[1] <= y[2]
  BY DEF Spells
<1>2. from = IF x[1] >= y[1] THEN x[1] ELSE y[1]
  BY <1>1, MaxOfTwo
<1>3. to = IF x[2] <= y[2] THEN x[2] ELSE y[2]
  BY <1>1, MinOfTwo
<1>4. Shared(x, y) = IF to > from THEN to - from ELSE 0
  BY DEF Shared
<1> HIDE DEF from, to
<1>5. from \in Nat /\ to \in Nat
  BY <1>1, <1>2, <1>3
<1>6. \A t \in Nat : Within(t, x) /\ Within(t, y) <=> from <= t /\ t < to
  BY <1>1, <1>2, <1>3 DEF Within
<1>7. C = from..(to - 1)
  <2>1. \A t : t \in from..(to - 1) <=> t \in Nat /\ from <= t /\ t < to
    BY <1>5
  <2> QED
    BY <1>6, <2>1
<1>8. /\ IsFiniteSet(from..(to - 1))
      /\ Cardinality(from..(to - 1)) = IF from > to - 1 THEN 0 ELSE to - 1 - from + 1
  <2>1. from \in Int /\ to - 1 \in Int
    BY <1>5
  <2> QED
    BY <2>1, FS_Interval
<1>9. Cardinality(from..(to - 1)) = Shared(x, y)
  <2>1. Cardinality(from..(to - 1)) = IF to > from THEN to - from ELSE 0
    BY <1>5, <1>8
  <2> QED
    BY <1>4, <2>1
<1>10. IsFiniteSet(C) /\ Cardinality(C) = Cardinality(from..(to - 1))
  <2> HIDE DEF C
  <2> QED
    BY <1>7, <1>8
<1> QED
  BY <1>9, <1>10

\* One step of the pointers: the interval that ends first can share no more.
LEMMA OverlapStep ==
  ASSUME NEW l \in Seq(Spells), NEW r \in Seq(Spells), Apart(l), Apart(r),
         NEW i \in 1..Len(l), NEW j \in 1..Len(r), l[i][2] <= r[j][2],
         IsFiniteSet(Common(l, r, i + 1, j))
  PROVE  /\ IsFiniteSet(Common(l, r, i, j))
         /\ Cardinality(Common(l, r, i, j))
              = Shared(l[i], r[j]) + Cardinality(Common(l, r, i + 1, j))
<1> DEFINE C == {t \in Nat : Within(t, l[i]) /\ Within(t, r[j])}
           D == Common(l, r, i + 1, j)
<1>1. /\ \A t : t \in Suffix(l, i) <=> t \in Suffix(l, i + 1) \/ (t \in Nat /\ Within(t, l[i]))
      /\ \A t \in Suffix(l, i + 1) : t \in Nat /\ l[i][2] < t
      /\ l[i][1] \in Nat /\ l[i][2] \in Nat
  BY SuffixIs
<1>2. /\ \A t : t \in Suffix(r, j) <=> t \in Suffix(r, j + 1) \/ (t \in Nat /\ Within(t, r[j]))
      /\ \A t \in Suffix(r, j + 1) : t \in Nat /\ r[j][2] < t
      /\ r[j][1] \in Nat /\ r[j][2] \in Nat
  BY SuffixIs
<1>3. \A t \in Nat : Within(t, l[i]) => t < l[i][2]
  BY DEF Within
<1>4. \A t \in Suffix(r, j + 1) : ~Within(t, l[i])
  BY <1>1, <1>2, <1>3
<1>5. Common(l, r, i, j) = C \cup D
  BY <1>1, <1>2, <1>4 DEF Common
<1>6. C \cap D = {}
  <2> SUFFICES ASSUME NEW t \in C, t \in D PROVE FALSE
    OBVIOUS
  <2>1. t \in Nat /\ t < l[i][2] /\ l[i][2] < t
    BY <1>1, <1>3 DEF Common
  <2> QED
    BY <1>1, <2>1
<1>7. IsFiniteSet(C) /\ Cardinality(C) = Shared(l[i], r[j]) /\ Cardinality(C) \in Nat
  <2>1. l[i] \in Spells /\ r[j] \in Spells
    OBVIOUS
  <2>2. IsFiniteSet(C) /\ Cardinality(C) = Shared(l[i], r[j])
    BY <2>1, SharedIs
  <2> QED
    BY <2>2, FS_CardinalityType
<1> HIDE DEF C
<1>8. IsFiniteSet(D) /\ Cardinality(D) \in Nat /\ Cardinality(C \cap D) = 0
  BY <1>6, FS_EmptySet, FS_CardinalityType
<1> HIDE DEF D
<1>9. /\ IsFiniteSet(C \cup D)
      /\ Cardinality(C \cup D) = Cardinality(C) + Cardinality(D) - Cardinality(C \cap D)
  BY <1>7, <1>8, FS_Union
<1> QED
  BY <1>5, <1>7, <1>8, <1>9 DEF D

LEMMA SharedIsSymmetric ==
  ASSUME NEW x \in Spells, NEW y \in Spells
  PROVE  Shared(x, y) = Shared(y, x)
<1>1. {x[1], y[1]} = {y[1], x[1]} /\ {x[2], y[2]} = {y[2], x[2]}
  OBVIOUS
<1> QED
  BY <1>1 DEF Shared

\* The time still common once a list is exhausted, or before that.
LEMMA CommonIs ==
  ASSUME NEW l \in Seq(Spells), NEW r \in Seq(Spells), Apart(l), Apart(r),
         NEW i \in 1..Len(l) + 1, NEW j \in 1..Len(r) + 1
  PROVE  /\ IsFiniteSet(Common(l, r, i, j))
         /\ Cardinality(Common(l, r, i, j)) =
              IF i > Len(l) \/ j > Len(r) THEN 0
              ELSE Shared(l[i], r[j])
                   + Cardinality(IF l[i][2] <= r[j][2] THEN Common(l, r, i + 1, j)
                                                       ELSE Common(l, r, i, j + 1))
<1>0. \A a, b \in Nat : IsFiniteSet(Common(l, r, a + 1, b + 1))
  <2> SUFFICES ASSUME NEW a \in Nat, NEW b \in Nat PROVE IsFiniteSet(Common(l, r, a + 1, b + 1))
    OBVIOUS
  <2>1. Common(l, r, a + 1, b + 1) \subseteq Prefix(l, Len(l))
    BY DEF Common, Suffix, Prefix
  <2>2. IsFiniteSet(Prefix(l, Len(l)))
    BY PrefixIsFinite
  <2> QED
    BY <2>1, <2>2, FS_Subset
<1>1. \A a, b : a \in Nat \ {0} /\ b \in Nat \ {0} => IsFiniteSet(Common(l, r, a, b))
  <2> SUFFICES ASSUME NEW a \in Nat \ {0}, NEW b \in Nat \ {0} PROVE IsFiniteSet(Common(l, r, a, b))
    OBVIOUS
  <2>1. a - 1 \in Nat /\ b - 1 \in Nat /\ a = a - 1 + 1 /\ b = b - 1 + 1
    OBVIOUS
  <2>2. IsFiniteSet(Common(l, r, a - 1 + 1, b - 1 + 1))
    BY <1>0, <2>1
  <2> QED
    BY <2>1, <2>2
<1>2. CASE i > Len(l) \/ j > Len(r)
  <2>1. Common(l, r, i, j) = {}
    BY <1>2 DEF Common, Suffix
  <2> QED
    BY <1>2, <2>1, FS_EmptySet
<1>3. CASE ~(i > Len(l) \/ j > Len(r))
  <2>1. i \in 1..Len(l) /\ j \in 1..Len(r) /\ i + 1 \in Nat \ {0} /\ j + 1 \in Nat \ {0}
        /\ i \in Nat \ {0} /\ j \in Nat \ {0}
    BY <1>3
  <2>2. /\ IsFiniteSet(Common(l, r, i, j)) /\ IsFiniteSet(Common(l, r, i + 1, j))
        /\ IsFiniteSet(Common(l, r, i, j + 1))
    BY <1>1, <2>1
  <2>3. CASE l[i][2] <= r[j][2]
    <3>1. Cardinality(Common(l, r, i, j)) = Shared(l[i], r[j]) + Cardinality(Common(l, r, i + 1, j))
      BY <2>1, <2>2, <2>3, OverlapStep
    <3> QED
      BY <1>3, <2>2, <2>3, <3>1
  <2>4. CASE ~(l[i][2] <= r[j][2])
    <3>1. \A a, b : Common(l, r, a, b) = Common(r, l, b, a)
      BY DEF Common
    <3>2. l[i] \in Spells /\ r[j] \in Spells
      BY <2>1
    <3>3. r[j][2] <= l[i][2]
      BY <2>4, <3>2 DEF Spells
    <3>4. IsFiniteSet(Common(r, l, j + 1, i))
      BY <2>2, <3>1
    <3>5. Cardinality(Common(r, l, j, i)) = Shared(r[j], l[i]) + Cardinality(Common(r, l, j + 1, i))
      BY <2>1, <3>3, <3>4, OverlapStep
    <3>6. Shared(r[j], l[i]) = Shared(l[i], r[j])
      BY <3>2, SharedIsSymmetric
    <3>7. Cardinality(Common(l, r, i, j)) = Shared(l[i], r[j]) + Cardinality(Common(l, r, i, j + 1))
      BY <3>1, <3>5, <3>6
    <3> QED
      BY <1>3, <2>2, <2>4, <3>7
  <2> QED
    BY <2>3, <2>4
<1> QED
  BY <1>2, <1>3

\* The two pointers count the time common to both lists, and no more.
LEMMA OverlapsAreExact ==
  ASSUME NEW S, S \subseteq Spells, IsFiniteSet(S),
         NEW T, T \subseteq Spells, IsFiniteSet(T)
  PROVE  OverlapIsExact(S, T)
<1> DEFINE L == _merged(S)
           R == _merged(T)
           P == (1..Len(L) + 1) \X (1..Len(R) + 1)
           over(at) == at[1] > Len(L) \/ at[2] > Len(R)
           next(at) == IF L[at[1]][2] <= R[at[2]][2] THEN <<at[1] + 1, at[2]>>
                                                     ELSE <<at[1], at[2] + 1>>
           share(at) == Shared(L[at[1]], R[at[2]])
           total[at \in P] == IF over(at) THEN 0 ELSE share(at) + total[next(at)]
           f == [at \in P |-> Cardinality(Common(L, R, at[1], at[2]))]
<1>1. /\ L \in Seq(Spells) /\ Apart(L) /\ Prefix(L, Len(L)) = Spans(S)
      /\ R \in Seq(Spells) /\ Apart(R) /\ Prefix(R, Len(R)) = Spans(T)
  BY MergedIs
<1>2. _overlap_seconds(S, T) = total[<<1, 1>>]
  BY DEF _overlap_seconds
<1> HIDE DEF L, R
<1>3. Len(L) \in Nat /\ Len(R) \in Nat
  BY <1>1
<1>4. \A at \in P : at[1] \in 1..Len(L) + 1 /\ at[2] \in 1..Len(R) + 1 /\ at = <<at[1], at[2]>>
  OBVIOUS
<1>5. ASSUME NEW at \in P, ~over(at)
      PROVE  next(at) \in P /\ at[1] \in 1..Len(L) /\ at[2] \in 1..Len(R)
  <2>1. at[1] \in 1..Len(L) /\ at[2] \in 1..Len(R)
    BY <1>3, <1>4, <1>5
  <2>2. <<at[1] + 1, at[2]>> \in P /\ <<at[1], at[2] + 1>> \in P
    BY <1>3, <2>1
  <2> HIDE DEF P
  <2> QED
    BY <2>1, <2>2
<1>6. ASSUME NEW at \in P
      PROVE  f[at] = IF over(at) THEN 0 ELSE share(at) + f[next(at)]
  <2>1. at[1] \in 1..Len(L) + 1 /\ at[2] \in 1..Len(R) + 1
    BY <1>4
  <2>2. Cardinality(Common(L, R, at[1], at[2])) =
          IF over(at) THEN 0
          ELSE share(at)
               + Cardinality(IF L[at[1]][2] <= R[at[2]][2]
                             THEN Common(L, R, at[1] + 1, at[2])
                             ELSE Common(L, R, at[1], at[2] + 1))
    BY <1>1, <2>1, CommonIs
  <2>3. (IF L[at[1]][2] <= R[at[2]][2]
         THEN Common(L, R, at[1] + 1, at[2])
         ELSE Common(L, R, at[1], at[2] + 1)) = Common(L, R, next(at)[1], next(at)[2])
    OBVIOUS
  <2>4. f[at] = Cardinality(Common(L, R, at[1], at[2]))
    <3> HIDE DEF P
    <3> QED
      OBVIOUS
  <2>5. ~over(at) => f[next(at)] = Cardinality(Common(L, R, next(at)[1], next(at)[2]))
    <3>1. ~over(at) => next(at) \in P
      BY <1>5
    <3> HIDE DEF P, next
    <3> QED
      BY <3>1
  <2> HIDE DEF f, P, next, over, share
  <2> QED
    BY <2>2, <2>3, <2>4, <2>5
<1> HIDE DEF over, next, share
<1>7. \E g : g = [at \in P |-> IF over(at) THEN 0 ELSE share(at) + g[next(at)]]
  <2> DEFINE h == [at \in P |-> IF over(at) THEN 0 ELSE share(at) + f[next(at)]]
  <2>1. \A at \in P : h[at] = IF over(at) THEN 0 ELSE share(at) + f[next(at)]
    <3> HIDE DEF P, f
    <3> QED
      OBVIOUS
  <2>2. f = [at \in P |-> f[at]] /\ h = [at \in P |-> h[at]]
    <3> HIDE DEF P
    <3> QED
      OBVIOUS
  <2>3. f = h
    <3> HIDE DEF P, f, h
    <3> QED
      BY <1>6, <2>1, <2>2
  <2> HIDE DEF P, f
  <2> QED
    BY <2>3
<1>8. total = [at \in P |-> IF over(at) THEN 0 ELSE share(at) + total[next(at)]]
  <2> HIDE DEF P
  <2> QED
    BY <1>7
<1> HIDE DEF total, f
<1>9. \A at \in P : total[at] = IF over(at) THEN 0 ELSE share(at) + total[next(at)]
  <2> HIDE DEF P
  <2> QED
    BY <1>8, Zenon
\* The least distance from the end at which the two functions could differ.
<1>10. \A at \in P : total[at] = f[at]
  <2> DEFINE left(at) == (Len(L) + 1 - at[1]) + (Len(R) + 1 - at[2])
             Bad == {n \in Nat : \E at \in P : n = left(at) /\ total[at] # f[at]}
  <2>0. \A at \in P : left(at) \in Nat
    BY <1>3
  <2>1. SUFFICES ASSUME Bad # {} PROVE FALSE
    <3> SUFFICES ASSUME NEW at \in P, total[at] # f[at] PROVE FALSE
      OBVIOUS
    <3>1. left(at) \in Bad
      <4> HIDE DEF left, P
      <4> QED
        BY <2>0
    <3> HIDE DEF Bad
    <3> QED
      BY <2>1, <3>1
  <2>2. PICK n \in Bad : \A k \in Bad : n <= k
    <3>1. Bad \subseteq Nat
      OBVIOUS
    <3> HIDE DEF Bad
    <3> QED
      BY <2>1, <3>1, LeastNatural
  <2>3. PICK at \in P : n = left(at) /\ total[at] # f[at]
    BY <2>2
  <2>4. CASE over(at)
    <3> HIDE DEF P
    <3> QED
      BY <1>6, <1>9, <2>3, <2>4
  <2>5. CASE ~over(at)
    <3>1. next(at) \in P /\ at[1] \in 1..Len(L) /\ at[2] \in 1..Len(R)
      BY <1>5, <2>5
    <3>2. \/ next(at)[1] = at[1] + 1 /\ next(at)[2] = at[2]
          \/ next(at)[1] = at[1] /\ next(at)[2] = at[2] + 1
      <4>1. next(at) = <<at[1] + 1, at[2]>> \/ next(at) = <<at[1], at[2] + 1>>
        BY DEF next
      <4> QED
        BY <4>1
    <3>3. left(next(at)) = left(at) - 1 /\ left(at) \in Nat
      <4>1. at[1] \in Nat /\ at[2] \in Nat
        BY <1>3, <3>1
      <4>2. left(next(at)) = left(at) - 1
        <5>1. CASE next(at)[1] = at[1] + 1 /\ next(at)[2] = at[2]
          BY <1>3, <4>1, <5>1
        <5>2. CASE next(at)[1] = at[1] /\ next(at)[2] = at[2] + 1
          BY <1>3, <4>1, <5>2
        <5> QED
          BY <3>2, <5>1, <5>2
      <4> QED
        BY <2>0, <4>2
    <3>4. ~(n <= left(next(at))) /\ left(next(at)) \in Nat
      <4>1. left(next(at)) \in Nat
        BY <2>0, <3>1
      <4> HIDE DEF left
      <4> QED
        BY <2>3, <3>3, <4>1
    <3>5. left(next(at)) \notin Bad
      <4> HIDE DEF Bad
      <4> QED
        BY <2>2, <3>4
    <3>6. total[next(at)] = f[next(at)]
      <4> HIDE DEF left, P
      <4> QED
        BY <3>1, <3>4, <3>5
    <3> HIDE DEF P
    <3> QED
      BY <1>6, <1>9, <2>3, <2>5, <3>6
  <2> QED
    BY <2>4, <2>5
<1>11. <<1, 1>> \in P
  BY <1>3
<1>12. f[<<1, 1>>] = Cardinality(Common(L, R, 1, 1))
  <2> HIDE DEF P
  <2> QED
    BY <1>11 DEF f
<1>13. Common(L, R, 1, 1) = Spans(S) \cap Spans(T)
  <2>1. Suffix(L, 1) = Prefix(L, Len(L)) /\ Suffix(R, 1) = Prefix(R, Len(R))
    BY DEF Suffix, Prefix
  <2> QED
    BY <1>1, <2>1 DEF Common
<1>14. total[<<1, 1>>] = f[<<1, 1>>]
  BY <1>10, <1>11
<1> QED
  BY <1>2, <1>12, <1>13, <1>14 DEF OverlapIsExact

-----------------------------------------------------------------------------
(* Whatever the commands, crashes and clock steps that wrote a journal,    *)
(* what the export sums is the time its closed intervals cover, and covers *)
(* no moment twice; and the work fits in the elapsed time.                 *)
THEOREM MetricsCountExactly == Spec => []MetricsAreExact
<1>1. ASSUME NEW j, Good(j), NEW xs, xs \subseteq j.closed
      PROVE  Pairs(xs) \subseteq Spells /\ IsFiniteSet(Pairs(xs))
  <2>1. Pairs(xs) \subseteq Spells
    <3> SUFFICES ASSUME NEW x \in xs PROVE <<x.start, x.end>> \in Spells
      BY DEF Pairs
    <3>1. x \in ClosedIntervals /\ x \in Intervals_of(j) /\ x \in j.closed
      BY <1>1 DEF Good, Journals, Intervals_of
    <3>2. x.end >= x.start
      BY <1>1, <3>1 DEF Good, validate_journal, ValidInterval
    <3>3. x.start \in Nat /\ x.end \in Nat
      BY <3>1 DEF ClosedIntervals, Times
    <3> QED
      BY <3>2, <3>3 DEF Spells
  <2>2. IsFiniteSet(xs)
    BY <1>1, FS_Subset DEF Good
  <2>3. IsFiniteSet(Pairs(xs))
    <3> DEFINE g == [x \in xs |-> <<x.start, x.end>>]
    <3>1. g \in Surjection(xs, Pairs(xs))
      BY DEF Surjection, Pairs
    <3> QED
      BY <2>2, <3>1, FS_Surjection
  <2> QED
    BY <2>1, <2>3
<1>2. ASSUME NEW j, Good(j), NEW xs, xs \subseteq j.closed
      PROVE  Cardinality(Spans(Pairs(xs))) <= j.last - j.created
  <2> DEFINE E == j.created..(j.last - 1)
  <2>1. /\ Moments(j) \subseteq Times /\ j.last \in Moments(j)
        /\ \A m \in Moments(j) : m <= j.last
    BY <1>2, LastIsLatest DEF Good
  <2>2. j.created \in Nat /\ j.last \in Nat /\ j.created <= j.last
    BY <2>1 DEF Moments, Times
  <2>3. Spans(Pairs(xs)) \subseteq E
    <3> SUFFICES ASSUME NEW t \in Spans(Pairs(xs)) PROVE t \in E
      OBVIOUS
    <3>1. Pairs(xs) \subseteq Spells
      BY <1>1, <1>2
    <3>2. t \in Nat /\ \E y \in Pairs(xs) : Within(t, y)
      BY <3>1, SpansAre
    <3>3. PICK x \in xs : Within(t, <<x.start, x.end>>)
      BY <3>2 DEF Pairs
    <3>4. x \in ClosedIntervals /\ x \in Intervals_of(j) /\ x \in j.closed
      BY <1>2 DEF Good, Journals, Intervals_of
    <3>5. x.start >= j.created
      BY <1>2, <3>4 DEF Good, validate_journal, ValidInterval
    <3>6. x.end <= j.last
      BY <2>1, <3>4 DEF Moments
    <3>7. x.start \in Nat /\ x.end \in Nat
      BY <3>4 DEF ClosedIntervals, Times
    <3>8. x.start <= t /\ t < x.end
      BY <3>3 DEF Within
    <3> QED
      BY <2>2, <3>2, <3>5, <3>6, <3>7, <3>8
  <2>4. IsFiniteSet(E) /\ Cardinality(E) = j.last - j.created
    <3> DEFINE a == j.created
               b == j.last - 1
    <3>1. a \in Int /\ b \in Int
      BY <2>2
    <3> HIDE DEF a, b
    <3>2. IsFiniteSet(a..b) /\ Cardinality(a..b) = IF a > b THEN 0 ELSE b - a + 1
      BY <3>1, FS_Interval
    <3> QED
      BY <2>2, <3>2 DEF a, b
  <2> HIDE DEF E
  <2> QED
    BY <2>3, <2>4, FS_Subset
<1>3. IInv => MetricsAreExact
  <2> DEFINE work == {x \in journal.closed : x.phase \in EXECUTION_PHASES}
             By(a) == Pairs({x \in work : x.actor = a})
  <2> SUFFICES ASSUME Good(journal)
               PROVE  /\ UnionIsExact(Pairs(work))
                      /\ \A x \in Executors : UnionIsExact(Pairs({y \in work : y.executor = x}))
                      /\ OverlapIsExact(By("SOL"), By("LUNA"))
                      /\ _seconds(Pairs(work)) <= journal.last - journal.created
    BY DEF IInv, MetricsAreExact
  <2>1. \A xs : xs \subseteq journal.closed =>
          Pairs(xs) \subseteq Spells /\ IsFiniteSet(Pairs(xs))
    BY <1>1
  <2>2. /\ work \subseteq journal.closed
        /\ \A x : {y \in work : y.executor = x} \subseteq journal.closed
        /\ \A a : {x \in work : x.actor = a} \subseteq journal.closed
    OBVIOUS
  <2>3. UnionIsExact(Pairs(work))
    BY <2>1, <2>2, SecondsAreExact
  <2>4. ASSUME NEW x \in Executors PROVE UnionIsExact(Pairs({y \in work : y.executor = x}))
    BY <2>1, <2>2, SecondsAreExact
  <2>5. /\ By("SOL") \subseteq Spells /\ IsFiniteSet(By("SOL"))
        /\ By("LUNA") \subseteq Spells /\ IsFiniteSet(By("LUNA"))
    BY <2>1, <2>2
  <2>6. OverlapIsExact(By("SOL"), By("LUNA"))
    <3> HIDE DEF By
    <3> QED
      BY <2>5, OverlapsAreExact
  <2>7. Cardinality(Spans(Pairs(work))) <= journal.last - journal.created
    BY <1>2, <2>2
  <2> HIDE DEF work, By
  <2> QED
    BY <2>3, <2>4, <2>6, <2>7 DEF UnionIsExact
<1> QED
  BY <1>3, TrackerInvariant, PTL
=============================================================================
