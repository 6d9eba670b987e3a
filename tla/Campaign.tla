------------------------------ MODULE Campaign -------------------------------
(***************************************************************************)
(* The allowance benchmark campaign (allowance_campaign.py): command line  *)
(* processes append events to one ledger file under an O_EXCL lock file,   *)
(* and every one of them replays the whole ledger before it writes.        *)
(*                                                                         *)
(* Abstraction.  The hash chain and the canonical form make the ledger's   *)
(* bytes a function of its events, so ledger is what replay computes from  *)
(* them.  Times and meter readings are naturals (readings are multiples of *)
(* the frozen resolution).  Revisions and candidate digests are opaque;    *)
(* frozen identity fields, defects and elapsed times are recorded as given *)
(* and left out.  Any command can be refused for a malformed argument.     *)
(***************************************************************************)
EXTENDS Integers, Sequences, SequencesExt

CONSTANTS
  Procs,       (* command line processes                                 *)
  Free,        (* there is no lock file                                  *)
  None,        (* Python's None, and no ledger file                      *)
  Kinds,       (* LIMIT_KINDS: the five-hour and the weekly meter        *)
  Reset,       (* config.windows[kind].reset_at                          *)
  MaxPairs,    (* bound on the pre-registered pairs                      *)
  MaxReading,  (* a full meter                                           *)
  MaxTime,     (* bound on the observation times                         *)
  Revisions,   (* route_revision values                                  *)
  Candidates,  (* candidate_digest values                                *)
  MaxCrashes   (* bound on processes that die                            *)

ASSUME CampaignAssumption ==
  /\ Free \notin Procs
  /\ Kinds # {} /\ Reset \in [Kinds -> Nat]
  /\ MaxPairs \in Nat /\ MaxReading \in Nat /\ MaxTime \in Nat /\ MaxCrashes \in Nat
  /\ None \notin Revisions

VARIABLES
  ledger,   (* the state replay computes from the ledger file             *)
  lock,     (* creator of the lock file                                   *)
  cmd,      (* what each process is doing                                 *)
  crashes   (* processes that died, a bound and nothing else              *)

vars == <<ledger, lock, cmd, crashes>>

Routes   == {"SOL_ONLY", "SOL_LUNA"}
Readings == [Kinds -> 0..MaxReading]
Times    == 0..MaxTime

-----------------------------------------------------------------------------
_opposite(route) == IF route = "SOL_ONLY" THEN "SOL_LUNA" ELSE "SOL_ONLY"

\* Both routes of every pair, the pre-registered one first.
route_sequence(first_routes) ==
  [n \in 1..2 * Len(first_routes) |->
     LET first == first_routes[(n + 1) \div 2]
     IN  IF n % 2 = 1 THEN first ELSE _opposite(first)]

Count(routes, r) == Len(SelectSeq(routes, LAMBDA x : x = r))

\* normalize_first_routes: both routes, and as often first up to one.
FirstRoutes ==
  {f \in UNION {[1..n -> Routes] : n \in 2..MaxPairs} :
     /\ ToSet(f) = Routes
     /\ Count(f, "SOL_ONLY") <= Count(f, "SOL_LUNA") + 1
     /\ Count(f, "SOL_LUNA") <= Count(f, "SOL_ONLY") + 1}

_new_state(first_routes) ==
  [first_routes    |-> first_routes,
   records         |-> <<>>,
   active          |-> None,
   pending_end     |-> None,
   last_end        |-> None,
   route_revisions |-> [r \in Routes |-> None],
   excluded        |-> [k \in Kinds |-> 0],
   event_count     |-> 1]

\* _expected_arm: which arm the registered order wants next.
Expected(s)    == route_sequence(s.first_routes)[Len(s.records) + 1]
ArmsRemain(s)  == Len(s.records) < 2 * Len(s.first_routes)
PairNumber(s)  == Len(s.records) \div 2 + 1

BeforeReset(at) == \A k \in Kinds : at < Reset[k]

\* A reading that no meter shows above an earlier one.
NotAbove(reading, earlier) == \A k \in Kinds : reading[k] <= earlier[k]

-----------------------------------------------------------------------------
(* _apply_begin.  Consumption since the previous end belongs to no arm.     *)
AfterPrevious_AnyReading(s, e) == s.last_end = None \/ e.at > s.last_end.at

AfterPrevious_Mutant(s, e) == s.last_end = None \/ NotAbove(e.remaining, s.last_end.remaining)

AfterPrevious(s, e) ==
  s.last_end = None \/
    /\ e.at > s.last_end.at
    /\ NotAbove(e.remaining, s.last_end.remaining)

CanBegin(s, e) ==
  /\ s.active = None
  /\ s.pending_end = None
  /\ ArmsRemain(s)
  /\ e.route = Expected(s)
  /\ s.route_revisions[e.route] \in {None, e.revision}
  /\ BeforeReset(e.at)
  /\ AfterPrevious(s, e)

Gap_Mutant(s, e) == [k \in Kinds |-> 0]

Gap(s, e) ==
  [k \in Kinds |->
     IF s.last_end = None THEN 0 ELSE s.last_end.remaining[k] - e.remaining[k]]

NextRevisions_Mutant(s, e) == s.route_revisions

NextRevisions(s, e) == [s.route_revisions EXCEPT ![e.route] = e.revision]

Begun(s, e) ==
  [s EXCEPT
     !.active = [pair |-> PairNumber(s), route |-> e.route, revision |-> e.revision,
                 at |-> e.at, remaining |-> e.remaining],
     !.route_revisions = NextRevisions(s, e),
     !.excluded = [k \in Kinds |-> @[k] + Gap(s, e)[k]],
     !.event_count = @ + 1]

-----------------------------------------------------------------------------
(* _apply_end.  The end reading is not compared with the begin reading here. *)
EndIsLater_Mutant(s, e) == TRUE

EndIsLater(s, e) == e.at > s.active.at

CanEnd(s, e) ==
  /\ s.active # None
  /\ s.pending_end = None
  /\ e.route = s.active.route
  /\ EndIsLater(s, e)
  /\ BeforeReset(e.at)

Ended(s, e) ==
  [s EXCEPT
     !.pending_end = [active |-> s.active, at |-> e.at, remaining |-> e.remaining,
                      candidate |-> e.candidate],
     !.active = None,
     !.event_count = @ + 1]

-----------------------------------------------------------------------------
(* _apply_acceptance, with _build_record and the meter's validate_limit,    *)
(* which refuses a reading that rose during the arm.                        *)
ValidLimits(pending) ==
  /\ NotAbove(pending.remaining, pending.active.remaining)
  /\ pending.active.at < pending.at
  /\ BeforeReset(pending.at)

CanAccept(s, e) ==
  /\ s.pending_end # None
  /\ e.route = s.pending_end.active.route
  /\ e.candidate = s.pending_end.candidate
  /\ e.at > s.pending_end.at
  /\ s.last_end = None \/ e.at > s.last_end.at
  /\ ValidLimits(s.pending_end)

Accepted(s, e) ==
  LET pending == s.pending_end IN
  [s EXCEPT
     !.records = Append(@, [pair |-> pending.active.pair, route |-> pending.active.route,
                            revision |-> pending.active.revision,
                            begin_at |-> pending.active.at, end_at |-> pending.at,
                            before |-> pending.active.remaining,
                            after |-> pending.remaining]),
     !.last_end = [at |-> pending.at, remaining |-> pending.remaining],
     !.active = None,
     !.pending_end = None,
     !.event_count = @ + 1]

-----------------------------------------------------------------------------
\* The events a caller may ask for, and the ledger each of them gives.
BeginEvents == [route : Routes, revision : Revisions, at : Times, remaining : Readings]
EndEvents   == [route : Routes, at : Times, remaining : Readings, candidate : Candidates]
AcceptanceEvents == [route : Routes, at : 0..MaxTime + 1, candidate : Candidates]

Successors(s) ==
  {Begun(s, e) : e \in {x \in BeginEvents : CanBegin(s, x)}} \cup
  {Ended(s, e) : e \in {x \in EndEvents : CanEnd(s, x)}} \cup
  {Accepted(s, e) : e \in {x \in AcceptanceEvents : CanAccept(s, x)}}

Idle == [pc |-> "idle", next |-> None]

Init ==
  /\ ledger = None
  /\ lock = Free
  /\ cmd = [p \in Procs |-> Idle]
  /\ crashes = 0

LockIsFree_Mutant == TRUE

LockIsFree == lock = Free

\* ExclusiveLedgerLock.__enter__: the lock file is created or it was there.
Enter(p) ==
  /\ cmd[p].pc = "idle"
  /\ LockIsFree
  /\ lock' = p
  /\ cmd' = [cmd EXCEPT ![p].pc = "locked"]
  /\ UNCHANGED <<ledger, crashes>>

EnterFails(p) ==
  /\ cmd[p].pc = "idle"
  /\ lock # Free
  /\ UNCHANGED vars

\* ExclusiveLedgerLock.__exit__ on a return or an exception.
Exit(p) ==
  /\ cmd[p].pc \in {"locked", "write", "written"}
  /\ lock' = Free
  /\ cmd' = [cmd EXCEPT ![p] = Idle]
  /\ UNCHANGED <<ledger, crashes>>

\* initialize: the ledger must not exist.
BuildInit(p) ==
  /\ cmd[p].pc = "locked"
  /\ ledger = None
  /\ \E f \in FirstRoutes :
       cmd' = [cmd EXCEPT ![p] = [pc |-> "write", next |-> _new_state(f)]]
  /\ UNCHANGED <<ledger, lock, crashes>>

\* _append: replay, build the event, and apply it in memory.
Build(p) ==
  /\ cmd[p].pc = "locked"
  /\ ledger # None
  /\ \E s \in Successors(ledger) :
       cmd' = [cmd EXCEPT ![p] = [pc |-> "write", next |-> s]]
  /\ UNCHANGED <<ledger, lock, crashes>>

\* atomic_write: all the events read, and the new one, replace the file.
Write(p) ==
  /\ cmd[p].pc = "write"
  /\ ledger' = cmd[p].next
  /\ cmd' = [cmd EXCEPT ![p].pc = "written"]
  /\ UNCHANGED <<lock, crashes>>

\* The process dies, or cannot unlink its lock file: the lock file stays.
Crash(p) ==
  /\ cmd[p].pc # "idle"
  /\ crashes < MaxCrashes
  /\ crashes' = crashes + 1
  /\ cmd' = [cmd EXCEPT ![p] = Idle]
  /\ UNCHANGED <<ledger, lock>>

\* Nothing in the code removes a foreign lock file; an operator may.
OperatorUnlocks ==
  /\ lock # Free
  /\ \A p \in Procs : cmd[p].pc = "idle"
  /\ lock' = Free
  /\ UNCHANGED <<ledger, cmd, crashes>>

Next ==
  \/ \E p \in Procs :
       \/ Enter(p) \/ EnterFails(p) \/ BuildInit(p) \/ Build(p)
       \/ Write(p) \/ Exit(p) \/ Crash(p)
  \/ OperatorUnlocks

Spec == Init /\ [][Next]_vars

-----------------------------------------------------------------------------
Arms == [pair : 1..MaxPairs, route : Routes, revision : Revisions, at : Times,
         remaining : Readings]

Ends == [active : Arms, at : Times, remaining : Readings, candidate : Candidates]

Marks == [at : Times, remaining : Readings]

Records == [pair : 1..MaxPairs, route : Routes, revision : Revisions,
            begin_at : Times, end_at : Times, before : Readings, after : Readings]

Ledgers == [first_routes    : FirstRoutes,
            records         : Seq(Records),
            active          : Arms \cup {None},
            pending_end     : Ends \cup {None},
            last_end        : Marks \cup {None},
            route_revisions : [Routes -> Revisions \cup {None}],
            excluded        : [Kinds -> Nat],
            event_count     : Nat]

\* Python's None is no record.
ASSUME NoneAssumption == None \notin Ledgers \cup Arms \cup Ends \cup Marks

TypeOK ==
  /\ ledger \in Ledgers \cup {None}
  /\ lock \in Procs \cup {Free}
  /\ cmd \in [Procs -> [pc : {"idle", "locked", "write", "written"},
                       next : Ledgers \cup {None}]]
  /\ crashes \in 0..MaxCrashes

(* The campaign is append-only across every interleaving, crash and stale  *)
(* lock: a write adds exactly one event to the ledger as it stands, and    *)
(* never drops a record or the registered order.                           *)
LedgerOnlyGrows ==
  [][ledger' # ledger /\ ledger # None =>
       /\ ledger' # None
       /\ ledger'.event_count = ledger.event_count + 1
       /\ ledger'.first_routes = ledger.first_routes
       /\ IsPrefix(ledger.records, ledger'.records)]_vars

\* The latest reading of a meter on the ledger.
Latest(s, k) ==
  IF s.active # None THEN s.active.remaining[k]
  ELSE IF s.pending_end # None THEN s.pending_end.active.remaining[k]
  ELSE s.last_end.remaining[k]

\* What each arm consumed of a meter, and all of them together.
Fall(s, k) == [n \in DOMAIN s.records |-> s.records[n].before[k] - s.records[n].after[k]]

Consumed(s, k) ==
  LET total[n \in 0..Len(s.records)] == IF n = 0 THEN 0 ELSE total[n - 1] + Fall(s, k)[n]
  IN  total[Len(s.records)]

(* What the arms consumed and what was excluded between them add up to the *)
(* whole fall of the meter: no consumption is counted twice or lost.       *)
AllowanceIsAccounted ==
  ledger # None /\ ledger.records # <<>> =>
    \A k \in Kinds :
      Consumed(ledger, k) + ledger.excluded[k] =
        ledger.records[1].before[k] - Latest(ledger, k)

(* Arms lie inside the meter windows and one after the other, the active   *)
(* or pending one after every record.                                      *)
ArmsDoNotOverlap ==
  ledger # None =>
    LET R == ledger.records IN
    /\ \A i \in DOMAIN R :
         /\ R[i].begin_at < R[i].end_at
         /\ BeforeReset(R[i].end_at)
         /\ ledger.active # None => R[i].end_at < ledger.active.at
         /\ ledger.pending_end # None => R[i].end_at < ledger.pending_end.active.at
    /\ \A i, j \in DOMAIN R : i < j => R[i].end_at < R[j].begin_at

(* Every finished pair compares the two routes once each, in the registered *)
(* order, and a route keeps its revision throughout the campaign.           *)
PairsAreComparable ==
  ledger # None =>
    LET R == ledger.records IN
    /\ \A i, j \in DOMAIN R :
         /\ R[i].route = R[j].route => R[i].revision = R[j].revision
         /\ R[i].pair = R[j].pair /\ i # j => R[i].route # R[j].route
    /\ \A i \in DOMAIN R : i % 2 = 1 => R[i].route = ledger.first_routes[R[i].pair]

(* The ledger never holds an arm end that no acceptance event can follow,  *)
(* unless the end's reading rose (which EndReadingsDoNotRise is about): a  *)
(* campaign in good faith does not wedge.                                  *)
PendingEndsCanBeAccepted ==
  ledger # None /\ ledger.pending_end # None =>
    LET pending == ledger.pending_end IN
    NotAbove(pending.remaining, pending.active.remaining) =>
      CanAccept(ledger, [route     |-> pending.active.route,
                         candidate |-> pending.candidate,
                         at        |-> pending.at + 1])

(* allowance-benchmark.md: before every write the complete history is      *)
(* replayed semantically, and an increased reading fails closed.           *)
EndReadingsDoNotRise ==
  ledger # None /\ ledger.pending_end # None =>
    NotAbove(ledger.pending_end.remaining, ledger.pending_end.active.remaining)
=============================================================================
