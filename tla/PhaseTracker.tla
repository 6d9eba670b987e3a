----------------------------- MODULE PhaseTracker -----------------------------
(***************************************************************************)
(* The phase journal (phase_tracker.py): the controller's start and stop   *)
(* commands and the run wrappers of concurrent executors update one JSON   *)
(* file under the ledger lock, each by loading the whole journal and       *)
(* replacing it.                                                           *)
(*                                                                         *)
(* Abstraction.  Interval identifiers are naturals: n is interval-00000n,  *)
(* and a caller may choose one.  Times are naturals; an event's time is an *)
(* argument or the wall clock, which may step back, so it is any time.     *)
(* Tokens, credits and exit codes are recorded as given and left out, and  *)
(* so is the read-only legacy schema.  The lock is the flock of            *)
(* evidence_ledger.ledger_lock, which the kernel releases with its holder. *)
(***************************************************************************)
EXTENDS Naturals, FiniteSets, Intervals

CONSTANTS
  Procs,       (* command line processes                                 *)
  Free,        (* nobody holds the lock                                  *)
  None,        (* Python's None, and no journal file                     *)
  Executors,   (* executor_id values                                     *)
  Hint,        (* _actor_hint: the actor an executor_id names, or None   *)
  Routes,      (* routes a journal may be opened with                    *)
  Phases,      (* phases the callers record                              *)
  CallerIds,   (* interval_id values callers choose                      *)
  Created,     (* created_at values                                      *)
  MaxIntervals, (* bound on the intervals of a journal                   *)
  MaxTime      (* bound on times                                         *)

ASSUME TrackerAssumption ==
  /\ Free \notin Procs
  /\ Hint \in [Executors -> {"SOL", "LUNA", None}]
  /\ Routes \subseteq {"SOL_ONLY", "SOL_LUNA"}
  /\ CallerIds \subseteq Nat \ {0}
  /\ MaxIntervals \in Nat /\ MaxTime \in Nat
  /\ Created \subseteq 0..MaxTime

VARIABLES
  journal,   (* the journal file                                         *)
  lock,      (* holder of the lock                                       *)
  cmd        (* what each process is doing                               *)

vars == <<journal, lock, cmd>>

PHASES == {"sol_planning", "sol_execution", "sol_retained_execution", "luna_execution",
           "sol_review", "repair", "integration"}
EXECUTION_PHASES == {"sol_execution", "sol_retained_execution", "luna_execution"}
SOL_PHASES == {"sol_planning", "sol_execution", "sol_retained_execution", "sol_review",
               "integration"}

ASSUME PhasesAssumption == Phases \subseteq PHASES

Times == 0..MaxTime

\* An identifier _next_interval_id may come to, or a caller chooses.
Ids == CallerIds \cup 1..3 * MaxIntervals + 1

-----------------------------------------------------------------------------
initialize(route, created) ==
  [route |-> route, created |-> created, last |-> created, open |-> {}, closed |-> {},
   events |-> 0]

Intervals_of(j) == j.open \cup j.closed

ValidRoutePhase(route, phase) ==
  IF route = "SOL_ONLY" THEN phase \notin {"luna_execution", "sol_retained_execution"}
                        ELSE phase # "sol_execution"

_required_actor(phase) ==
  IF phase \in SOL_PHASES THEN "SOL" ELSE IF phase = "luna_execution" THEN "LUNA" ELSE None

\* _normalize_interval, of an open or closed interval taken by itself.
ValidInterval(j, x) ==
  /\ ValidRoutePhase(j.route, x.phase)
  /\ _required_actor(x.phase) \in {None, x.actor}
  /\ Hint[x.executor] \in {None, x.actor}
  /\ x.start >= j.created
  /\ x \in j.closed => x.end >= x.start

\* What every load and every update checks of the whole journal.
validate_journal(j) ==
  /\ \A x \in Intervals_of(j) : ValidInterval(j, x)
  /\ \A x, y \in Intervals_of(j) :
       /\ x.executor = y.executor => x.actor = y.actor
       /\ x.id = y.id => x = y
  /\ j.last = Max({j.created} \cup {x.end : x \in j.closed} \cup {x.start : x \in j.open})
  /\ j.events = Cardinality(j.open) + 2 * Cardinality(j.closed)

UsedIds(j) == {x.id : x \in Intervals_of(j)}

\* The first free identifier from the event count on.
_next_interval_id(j) ==
  Min((j.events + 1 .. j.events + 1 + Cardinality(Intervals_of(j))) \ UsedIds(j))

_known_actors(j, executor) == {x.actor : x \in {y \in Intervals_of(j) : y.executor = executor}}

-----------------------------------------------------------------------------
(* start.  The caller, the executor's name, its earlier intervals and the  *)
(* phase may each say who acts.  They must agree, and one must speak: two  *)
(* earlier intervals, or one of them and the name, agree in every journal. *)
Claims_ForgetsKnown(j, e) == {e.actor, Hint[e.executor], _required_actor(e.phase)} \ {None}

Claims(j, e) ==
  ({e.actor, Hint[e.executor], _required_actor(e.phase)}
     \cup _known_actors(j, e.executor)) \ {None}

ChosenId(j, e) == IF e.id = None THEN _next_interval_id(j) ELSE e.id

FreshId(j, id) == id \notin UsedIds(j)

CanStart(j, e) ==
  /\ ValidRoutePhase(j.route, e.phase)
  /\ FreshId(j, ChosenId(j, e))
  /\ Cardinality(Claims(j, e)) = 1
  /\ e.at >= j.created

Opened(j, e) ==
  [id |-> ChosenId(j, e), phase |-> e.phase, executor |-> e.executor,
   actor |-> CHOOSE a \in Claims(j, e) : TRUE, start |-> e.at]

\* The latest event so far: events may be recorded out of order.
LastEvent(j, at) == Max({j.last, at})

start(j, e) ==
  [j EXCEPT !.open = @ \cup {Opened(j, e)}, !.events = @ + 1, !.last = LastEvent(j, e.at)]

-----------------------------------------------------------------------------
(* stop.  Exactly one open interval must match, and end after its start.   *)
Matches(j, e) ==
  {x \in j.open : x.phase = e.phase /\ x.executor = e.executor /\ e.id \in {None, x.id}}

CanStop(j, e) ==
  /\ Cardinality(Matches(j, e)) = 1
  /\ \A x \in Matches(j, e) : e.at >= x.start

Close(x, at) ==
  [id |-> x.id, phase |-> x.phase, executor |-> x.executor, actor |-> x.actor,
   start |-> x.start, end |-> at]

stop(j, e) ==
  [j EXCEPT !.open = @ \ Matches(j, e),
            !.closed = @ \cup {Close(x, e.at) : x \in Matches(j, e)},
            !.events = @ + 1,
            !.last = LastEvent(j, e.at)]

-----------------------------------------------------------------------------
StartRequests == [phase : Phases, executor : Executors, actor : {"SOL", "LUNA", None},
                  id : CallerIds \cup {None}, at : Times]
StopRequests  == [phase : Phases, executor : Executors, id : Ids \cup {None},
                  at : Times]

Idle == [pc |-> "idle", next |-> None, own |-> None]

Init ==
  /\ journal = None
  /\ lock = Free
  /\ cmd = [p \in Procs |-> Idle]

LockIsFree_Mutant == TRUE

LockIsFree == lock = Free

(* A command waits for the lock, loads the journal and has the next ready. *)
Take(p, next, pc, own) ==
  /\ LockIsFree
  /\ validate_journal(next)
  /\ lock' = p
  /\ cmd' = [cmd EXCEPT ![p] = [pc |-> pc, next |-> next, own |-> own]]
  /\ UNCHANGED journal

InitCommand(p) ==
  /\ cmd[p].pc = "idle"
  /\ journal = None
  /\ \E route \in Routes, created \in Created : Take(p, initialize(route, created), "write", None)

StartCommand(p) ==
  /\ cmd[p].pc = "idle"
  /\ journal # None
  /\ Cardinality(Intervals_of(journal)) < MaxIntervals
  /\ \E e \in StartRequests :
       CanStart(journal, e) /\ Take(p, start(journal, e), "write", None)

StopCommand(p) ==
  /\ cmd[p].pc = "idle"
  /\ journal # None
  /\ \E e \in StopRequests :
       CanStop(journal, e) /\ Take(p, stop(journal, e), "write", None)

\* A request that start or stop refuses, or a malformed one: nothing is written.
Refuse(p) ==
  /\ cmd[p].pc = "idle"
  /\ LockIsFree
  /\ UNCHANGED vars

\* run_command, its first critical section: the interval is opened.
RunStart(p) ==
  /\ cmd[p].pc = "idle"
  /\ journal # None
  /\ Cardinality(Intervals_of(journal)) < MaxIntervals
  /\ \E e \in StartRequests :
       /\ CanStart(journal, e)
       /\ Take(p, start(journal, e), "launch", Opened(journal, e))

\* The request of run_command's second critical section.
OwnStop_Mutant(x, at) == [phase |-> x.phase, executor |-> x.executor, id |-> None, at |-> at]

OwnStop(x, at) == [phase |-> x.phase, executor |-> x.executor, id |-> x.id, at |-> at]

\* The child ended or could not be launched: the interval is closed.
RunStop(p) ==
  /\ cmd[p].pc = "running"
  /\ \E at \in Times :
       LET e == OwnStop(cmd[p].own, at) IN
       CanStop(journal, e) /\ Take(p, stop(journal, e), "write", cmd[p].own)

\* Somebody stopped the interval, or the clock stepped behind its start.
RunStopFails(p) ==
  /\ cmd[p].pc = "running"
  /\ LockIsFree
  /\ \E at \in Times : ~CanStop(journal, OwnStop(cmd[p].own, at))
  /\ cmd' = [cmd EXCEPT ![p] = Idle]
  /\ UNCHANGED <<journal, lock>>

\* atomic_write, and the lock is released; a run goes on with its child.
Write(p) ==
  /\ cmd[p].pc \in {"write", "launch"}
  /\ journal' = cmd[p].next
  /\ lock' = Free
  /\ cmd' = [cmd EXCEPT ![p] = IF cmd[p].pc = "launch"
                               THEN [pc |-> "running", next |-> None, own |-> cmd[p].own]
                               ELSE Idle]

\* The write fails or the process dies: its lock goes with it.
Crash(p) ==
  /\ cmd[p].pc # "idle"
  /\ lock' = IF lock = p THEN Free ELSE lock
  /\ cmd' = [cmd EXCEPT ![p] = Idle]
  /\ UNCHANGED journal

Next ==
  \E p \in Procs :
    \/ InitCommand(p) \/ StartCommand(p) \/ StopCommand(p) \/ Refuse(p)
    \/ RunStart(p) \/ RunStop(p) \/ RunStopFails(p)
    \/ Write(p) \/ Crash(p)

Spec == Init /\ [][Next]_vars

-----------------------------------------------------------------------------
OpenIntervals ==
  [id : Ids, phase : Phases, executor : Executors, actor : {"SOL", "LUNA"},
   start : Times]

ClosedIntervals ==
  [id : Ids, phase : Phases, executor : Executors, actor : {"SOL", "LUNA"},
   start : Times, end : Times]

Journals ==
  [route : Routes, created : Times, last : Times, open : SUBSET OpenIntervals,
   closed : SUBSET ClosedIntervals, events : 0..2 * MaxIntervals]

\* Python's None is no journal, interval, identifier or actor.
ASSUME NoneAssumption ==
  None \notin Journals \cup OpenIntervals \cup Ids \cup {"SOL", "LUNA"}

TypeOK ==
  /\ journal \in Journals \cup {None}
  /\ lock \in Procs \cup {Free}
  /\ cmd \in [Procs -> [pc : {"idle", "write", "launch", "running"},
                        next : Journals \cup {None}, own : OpenIntervals \cup {None}]]

(* The tests start and stop make of a request are enough: whatever was     *)
(* recorded before, and in whatever order of time, the validation that     *)
(* both end with accepts the journal they have built.                      *)
ValidationNeverRefuses ==
  lock = Free /\ journal # None =>
    /\ \A e \in StartRequests :
         CanStart(journal, e) => validate_journal(start(journal, e))
    /\ \A e \in StopRequests :
         CanStop(journal, e) => validate_journal(stop(journal, e))

(* The journal loses nothing to concurrent commands: an update opens one   *)
(* interval or closes one, keeps every other, and what is closed stays.    *)
JournalOnlyGrows ==
  [][journal' # journal /\ journal # None =>
       /\ journal' # None
       /\ journal.closed \subseteq journal'.closed
       /\ journal'.events = journal.events + 1
       /\ \A x \in journal.open :
            x \in journal'.open \/ \E at \in Times : Close(x, at) \in journal'.closed]_vars

(* A run closes the interval it opened and no other, though other commands *)
(* may have closed it, and opened more, while the child was running.       *)
RunsCloseTheirOwn ==
  [][\A p \in Procs :
       cmd[p].pc = "running" /\ cmd'[p].pc = "write" =>
         /\ cmd[p].own \in journal.open
         /\ cmd'[p].next.open = journal.open \ {cmd[p].own}]_vars

Pairs(xs) == {<<x.start, x.end>> : x \in xs}

(* Execution unions and the overlap of the two actors count no time twice, *)
(* and the work exported lies within the elapsed time.                     *)
MetricsAreExact ==
  lock = Free /\ journal # None /\ journal.open = {} =>
    LET work == {x \in journal.closed : x.phase \in EXECUTION_PHASES}
        By(a) == Pairs({x \in work : x.actor = a})
    IN
    /\ UnionIsExact(Pairs(work))
    /\ \A x \in Executors : UnionIsExact(Pairs({y \in work : y.executor = x}))
    /\ OverlapIsExact(By("SOL"), By("LUNA"))
    /\ _seconds(Pairs(work)) <= journal.last - journal.created
=============================================================================
