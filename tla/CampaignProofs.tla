---------------------------- MODULE CampaignProofs ----------------------------
(***************************************************************************)
(* The campaign ledger for any number of processes, crashes, pairs and     *)
(* readings.  First what one event does to a ledger, then that the lock    *)
(* file makes every event apply to the ledger as it stands.                *)
(***************************************************************************)
EXTENDS Campaign, SequenceTheorems, WellFoundedInduction, TLAPS

\* What replay guarantees of the open arm, the last end and the records.
Sound(s) ==
  /\ s.active # None /\ s.last_end # None =>
       s.last_end.at < s.active.at
  /\ s.pending_end # None =>
       /\ s.pending_end.active.at < s.pending_end.at
       /\ BeforeReset(s.pending_end.at)
       /\ s.last_end # None => s.last_end.at < s.pending_end.active.at
  /\ \A i \in DOMAIN s.records :
       /\ s.records[i].begin_at < s.records[i].end_at
       /\ BeforeReset(s.records[i].end_at)
       /\ s.last_end # None /\ s.records[i].end_at <= s.last_end.at
  /\ \A i, j \in DOMAIN s.records :
       i < j => s.records[i].end_at < s.records[j].begin_at

\* What is to be shown of the ledger that an event makes of another.
Extends(s, t) ==
  /\ t \in Ledgers
  /\ Sound(t)
  /\ t.event_count = s.event_count + 1
  /\ t.first_routes = s.first_routes
  /\ IsPrefix(s.records, t.records)

LEMMA SamePrefix == ASSUME NEW S, NEW q \in Seq(S) PROVE IsPrefix(q, q)
  BY DEF IsPrefix

LEMMA AppendPrefix ==
  ASSUME NEW S, NEW q \in Seq(S), NEW x \in S
  PROVE  IsPrefix(q, Append(q, x))
<1>1. Len(Append(q, x)) = Len(q) + 1 /\ \A i \in 1..Len(q) : Append(q, x)[i] = q[i]
  OBVIOUS
<1>2. SubSeq(Append(q, x), 1, Len(q)) = SubSeq(q, 1, Len(q))
  BY <1>1
<1> QED
  BY <1>1, <1>2 DEF IsPrefix

\* A ledger stays one when a field gets another value of the field's type.
LEMMA FieldUpdates ==
  ASSUME NEW s \in Ledgers
  PROVE  /\ \A r \in Seq(Records) : [s EXCEPT !.records = r] \in Ledgers
         /\ \A a \in Arms \cup {None} : [s EXCEPT !.active = a] \in Ledgers
         /\ \A p \in Ends \cup {None} : [s EXCEPT !.pending_end = p] \in Ledgers
         /\ \A l \in Marks \cup {None} : [s EXCEPT !.last_end = l] \in Ledgers
         /\ \A v \in [Routes -> Revisions \cup {None}] :
              [s EXCEPT !.route_revisions = v] \in Ledgers
         /\ \A x \in [Kinds -> Nat] : [s EXCEPT !.excluded = x] \in Ledgers
         /\ \A n \in Nat : [s EXCEPT !.event_count = n] \in Ledgers
<1>1. \A r \in Seq(Records) : [s EXCEPT !.records = r] \in Ledgers
  BY DEF Ledgers
<1>2. \A a \in Arms \cup {None} : [s EXCEPT !.active = a] \in Ledgers
  BY DEF Ledgers
<1>3. \A p \in Ends \cup {None} : [s EXCEPT !.pending_end = p] \in Ledgers
  BY DEF Ledgers
<1>4. \A l \in Marks \cup {None} : [s EXCEPT !.last_end = l] \in Ledgers
  BY DEF Ledgers
<1>5. \A v \in [Routes -> Revisions \cup {None}] : [s EXCEPT !.route_revisions = v] \in Ledgers
  BY DEF Ledgers
<1>6. \A x \in [Kinds -> Nat] : [s EXCEPT !.excluded = x] \in Ledgers
  BY DEF Ledgers
<1>7. \A n \in Nat : [s EXCEPT !.event_count = n] \in Ledgers
  BY DEF Ledgers
<1> QED
  BY <1>1, <1>2, <1>3, <1>4, <1>5, <1>6, <1>7

\* The number of the pair a new arm belongs to.
LEMMA PairInRange ==
  ASSUME NEW s \in Ledgers, ArmsRemain(s)
  PROVE  PairNumber(s) \in 1..MaxPairs
<1>1. PICK n \in 2..MaxPairs : s.first_routes \in [1..n -> Routes]
  BY DEF Ledgers, FirstRoutes
<1>2. Len(s.first_routes) = n /\ n \in Nat
  BY <1>1, CampaignAssumption
<1>3. Len(s.records) \in Nat
  BY DEF Ledgers
<1> DEFINE m == Len(s.records)
<1>4. m \in Nat /\ m < 2 * n /\ n <= MaxPairs
  BY <1>1, <1>2, <1>3, CampaignAssumption DEF ArmsRemain
<1> HIDE DEF m
<1>5. m \div 2 + 1 \in 1..MaxPairs
  BY <1>1, <1>2, <1>4, CampaignAssumption
<1> QED
  BY <1>5 DEF PairNumber, m

\* begin_arm on a sound ledger.
LEMMA BeginStep ==
  ASSUME NEW s \in Ledgers, Sound(s), NEW e \in BeginEvents, CanBegin(s, e)
  PROVE  Extends(s, Begun(s, e))
<1> DEFINE t == Begun(s, e)
           arm == [pair |-> PairNumber(s), route |-> e.route, revision |-> e.revision,
                   at |-> e.at, remaining |-> e.remaining]
<1>1. arm \in Arms
  BY PairInRange DEF CanBegin, BeginEvents, Arms
<1>2. Gap(s, e) \in [Kinds -> Nat]
  <2>1. CASE s.last_end = None
    BY <2>1 DEF Gap
  <2>2. CASE s.last_end # None
    <3>1. \A k \in Kinds : /\ s.last_end.remaining[k] \in Nat /\ e.remaining[k] \in Nat
                           /\ e.remaining[k] <= s.last_end.remaining[k]
      BY <2>2, CampaignAssumption DEF CanBegin, AfterPrevious, NotAbove, Ledgers, BeginEvents, Readings, Marks
    <3> QED
      BY <2>2, <3>1 DEF Gap
  <2> QED
    BY <2>1, <2>2
<1>3. [k \in Kinds |-> s.excluded[k] + Gap(s, e)[k]] \in [Kinds -> Nat]
  BY <1>2 DEF Ledgers
<1>4. t = [s EXCEPT !.active = arm, !.route_revisions = NextRevisions(s, e),
                    !.excluded = [k \in Kinds |-> s.excluded[k] + Gap(s, e)[k]],
                    !.event_count = s.event_count + 1]
  BY DEF Begun
<1>5. NextRevisions(s, e) \in [Routes -> Revisions \cup {None}]
  BY DEF NextRevisions, Ledgers, BeginEvents
<1>6. t \in Ledgers
  <2> DEFINE x  == [k \in Kinds |-> s.excluded[k] + Gap(s, e)[k]]
             t1 == [s EXCEPT !.active = arm]
             t2 == [t1 EXCEPT !.route_revisions = NextRevisions(s, e)]
             t3 == [t2 EXCEPT !.excluded = x]
  <2>1. t = [t3 EXCEPT !.event_count = s.event_count + 1]
    BY <1>4
  <2> HIDE DEF x, t, arm
  <2>2. t1 \in Ledgers
    BY <1>1, FieldUpdates
  <2>3. t2 \in Ledgers
    <3> HIDE DEF t1
    <3> QED BY <1>5, <2>2, FieldUpdates
  <2>4. t3 \in Ledgers
    <3> HIDE DEF t2
    <3> QED BY <1>3, <2>3, FieldUpdates DEF x
  <2>5. s.event_count + 1 \in Nat
    BY DEF Ledgers
  <2> HIDE DEF t3
  <2> QED
    BY <2>1, <2>4, <2>5, FieldUpdates
<1>7. /\ t.active = arm /\ t.pending_end = s.pending_end /\ t.last_end = s.last_end
      /\ t.records = s.records /\ t.first_routes = s.first_routes
      /\ t.event_count = s.event_count + 1
  BY <1>4 DEF Ledgers
<1>8. s.last_end # None => s.last_end.at < arm.at
  BY CampaignAssumption DEF CanBegin, AfterPrevious, Ledgers, BeginEvents, Times, Marks
<1>9. Sound(t)
  BY <1>7, <1>8 DEF Sound
<1>10. IsPrefix(s.records, t.records)
  BY <1>7, SamePrefix DEF Ledgers
<1> QED
  BY <1>6, <1>7, <1>9, <1>10 DEF Extends

\* end_arm on a sound ledger.
LEMMA EndStep ==
  ASSUME NEW s \in Ledgers, Sound(s), NEW e \in EndEvents, CanEnd(s, e)
  PROVE  Extends(s, Ended(s, e))
<1> DEFINE t == Ended(s, e)
           end == [active |-> s.active, at |-> e.at, remaining |-> e.remaining,
                   candidate |-> e.candidate]
<1>1. end \in Ends
  BY DEF CanEnd, Ledgers, EndEvents, Ends
<1>2. t = [s EXCEPT !.pending_end = end, !.active = None, !.event_count = s.event_count + 1]
  BY DEF Ended
<1>3. t \in Ledgers
  <2> DEFINE t1 == [s EXCEPT !.pending_end = end]
             t2 == [t1 EXCEPT !.active = None]
  <2>1. t = [t2 EXCEPT !.event_count = s.event_count + 1]
    BY <1>2
  <2> HIDE DEF t, end
  <2>2. t1 \in Ledgers
    BY <1>1, FieldUpdates
  <2>3. t2 \in Ledgers
    <3> HIDE DEF t1
    <3> QED BY <2>2, FieldUpdates
  <2>4. s.event_count + 1 \in Nat
    BY DEF Ledgers
  <2> HIDE DEF t2
  <2> QED
    BY <2>1, <2>3, <2>4, FieldUpdates
<1>4. /\ t.active = None /\ t.pending_end = end /\ t.last_end = s.last_end
      /\ t.records = s.records /\ t.first_routes = s.first_routes
      /\ t.event_count = s.event_count + 1
  BY <1>2 DEF Ledgers
<1>5. /\ s.active.at < e.at /\ BeforeReset(e.at)
      /\ s.last_end # None => s.last_end.at < s.active.at
  BY CampaignAssumption DEF CanEnd, EndIsLater, Sound, Ledgers, Arms, EndEvents, Times
<1>6. Sound(t)
  BY <1>4, <1>5 DEF Sound
<1>7. IsPrefix(s.records, t.records)
  BY <1>4, SamePrefix DEF Ledgers
<1> QED
  BY <1>3, <1>4, <1>6, <1>7 DEF Extends

\* record_acceptance on a sound ledger.
LEMMA AcceptanceStep ==
  ASSUME NEW s \in Ledgers, Sound(s), NEW e \in AcceptanceEvents, CanAccept(s, e)
  PROVE  Extends(s, Accepted(s, e))
<1> DEFINE t == Accepted(s, e)
           p == s.pending_end
           rec == [pair |-> p.active.pair, route |-> p.active.route,
                   revision |-> p.active.revision, begin_at |-> p.active.at,
                   end_at |-> p.at, before |-> p.active.remaining, after |-> p.remaining]
           last == [at |-> p.at, remaining |-> p.remaining]
<1>1. p \in Ends
  BY DEF CanAccept, Ledgers
<1>2. rec \in Records /\ last \in Marks
  BY <1>1 DEF Ends, Arms, Records, Marks
<1>3. t = [s EXCEPT !.records = Append(s.records, rec), !.last_end = last, !.active = None,
                    !.pending_end = None, !.event_count = s.event_count + 1]
  BY DEF Accepted
<1>4. s.records \in Seq(Records)
  BY DEF Ledgers
<1>5. t \in Ledgers
  <2> DEFINE t1 == [s EXCEPT !.records = Append(s.records, rec)]
             t2 == [t1 EXCEPT !.last_end = last]
             t3 == [t2 EXCEPT !.active = None]
             t4 == [t3 EXCEPT !.pending_end = None]
  <2>1. t = [t4 EXCEPT !.event_count = s.event_count + 1]
    BY <1>3
  <2> HIDE DEF t, rec, last
  <2>2. Append(s.records, rec) \in Seq(Records)
    BY <1>2, <1>4
  <2>3. t1 \in Ledgers
    BY <2>2, FieldUpdates
  <2>4. t2 \in Ledgers
    <3> HIDE DEF t1
    <3> QED BY <1>2, <2>3, FieldUpdates
  <2>5. t3 \in Ledgers
    <3> HIDE DEF t2
    <3> QED BY <2>4, FieldUpdates
  <2>6. t4 \in Ledgers
    <3> HIDE DEF t3
    <3> QED BY <2>5, FieldUpdates
  <2>7. s.event_count + 1 \in Nat
    BY DEF Ledgers
  <2> HIDE DEF t4
  <2> QED
    BY <2>1, <2>6, <2>7, FieldUpdates
<1>6. /\ t.active = None /\ t.pending_end = None /\ t.last_end = last
      /\ t.records = Append(s.records, rec) /\ t.first_routes = s.first_routes
      /\ t.event_count = s.event_count + 1
  BY <1>3 DEF Ledgers
<1>7. /\ DOMAIN t.records = 1..Len(s.records) + 1 /\ DOMAIN s.records = 1..Len(s.records)
      /\ Len(s.records) \in Nat
      /\ \A i \in DOMAIN s.records : t.records[i] = s.records[i]
      /\ t.records[Len(s.records) + 1] = rec
  BY <1>2, <1>4, <1>6
<1>8. /\ rec.begin_at < rec.end_at /\ BeforeReset(rec.end_at) /\ last.at = rec.end_at
      /\ rec.begin_at \in Nat /\ rec.end_at \in Nat
  BY <1>1, CampaignAssumption DEF CanAccept, ValidLimits, Ends, Arms, Times
<1>9. \A i \in DOMAIN s.records :
        /\ s.records[i].end_at < rec.begin_at /\ s.records[i].end_at \in Nat
        /\ s.records[i].end_at <= rec.end_at
  <2> SUFFICES ASSUME NEW i \in DOMAIN s.records
               PROVE  /\ s.records[i].end_at < rec.begin_at /\ s.records[i].end_at \in Nat
                      /\ s.records[i].end_at <= rec.end_at
    OBVIOUS
  <2>1. s.records[i] \in Records
    BY <1>4
  <2>2. s.last_end # None /\ s.records[i].end_at <= s.last_end.at
    BY DEF Sound
  <2>3. s.last_end.at < p.active.at /\ s.last_end.at \in Times
    BY <2>2 DEF Sound, CanAccept, Ledgers, Marks
  <2> QED
    BY <1>8, <2>1, <2>2, <2>3, CampaignAssumption DEF Records, Times
<1>10. ASSUME NEW i \in DOMAIN t.records
       PROVE  /\ t.records[i].begin_at < t.records[i].end_at
              /\ BeforeReset(t.records[i].end_at)
              /\ t.last_end # None /\ t.records[i].end_at <= t.last_end.at
  <2>1. t.last_end # None
    BY <1>2, <1>6, NoneAssumption
  <2> QED
    BY <1>6, <1>7, <1>8, <1>9, <2>1 DEF Sound
<1>11. ASSUME NEW i \in DOMAIN t.records, NEW j \in DOMAIN t.records, i < j
       PROVE  t.records[i].end_at < t.records[j].begin_at
  <2> HIDE DEF t, rec, last
  <2>1. CASE j \in DOMAIN s.records
    <3>1. i \in DOMAIN s.records
      BY <1>7, <1>11, <2>1
    <3>2. s.records[i].end_at < s.records[j].begin_at
      BY <1>11, <2>1, <3>1 DEF Sound
    <3> QED
      BY <1>7, <2>1, <3>1, <3>2
  <2>2. CASE j \notin DOMAIN s.records
    <3>1. j = Len(s.records) + 1 /\ i \in DOMAIN s.records
      BY <1>7, <1>11, <2>2
    <3> QED
      BY <1>7, <1>9, <3>1
  <2> QED
    BY <2>1, <2>2
<1>12. Sound(t)
  BY <1>6, <1>10, <1>11 DEF Sound
<1>13. IsPrefix(s.records, t.records)
  BY <1>2, <1>4, <1>6, AppendPrefix
<1> QED
  BY <1>5, <1>6, <1>12, <1>13 DEF Extends

LEMMA SuccessorExtends ==
  ASSUME NEW s \in Ledgers, Sound(s), NEW t \in Successors(s)
  PROVE  Extends(s, t)
  BY BeginStep, EndStep, AcceptanceStep DEF Successors

\* What initialize writes.
LEMMA NewLedger ==
  ASSUME NEW f \in FirstRoutes
  PROVE  _new_state(f) \in Ledgers /\ Sound(_new_state(f))
<1> DEFINE s == _new_state(f)
<1>1. s.records = <<>> /\ s.active = None /\ s.pending_end = None
  BY DEF _new_state
<1>2. Sound(s)
  BY <1>1 DEF Sound
<1>3. /\ [r \in Routes |-> None] \in [Routes -> Revisions \cup {None}]
      /\ [k \in Kinds |-> 0] \in [Kinds -> Nat]
      /\ <<>> \in Seq(Records)
  OBVIOUS
<1>4. s \in Ledgers
  BY <1>3 DEF _new_state, Ledgers
<1> QED
  BY <1>2, <1>4

-----------------------------------------------------------------------------
\* A live process that is past the lock file created it.
Holder == \A p \in Procs : cmd[p].pc # "idle" => lock = p

\* What a process is about to write applies one event to the ledger on disk.
Pending ==
  \A p \in Procs : cmd[p].pc = "write" =>
    IF ledger = None
    THEN \E f \in FirstRoutes : cmd[p].next = _new_state(f)
    ELSE cmd[p].next \in Successors(ledger)

IInv ==
  /\ TypeOK
  /\ ledger # None => Sound(ledger)
  /\ Holder
  /\ Pending

LEMMA Initially == Init => IInv
  BY CampaignAssumption DEF Init, IInv, TypeOK, Holder, Pending, Idle

\* A write puts an extension, or a new campaign, in place of the ledger.
LEMMA WriteExtends ==
  ASSUME IInv, NEW p \in Procs, Write(p)
  PROVE  /\ ledger' \in Ledgers /\ Sound(ledger')
         /\ ledger # None => Extends(ledger, ledger')
<1>1. CASE ledger = None
  <2>1. PICK f \in FirstRoutes : ledger' = _new_state(f)
    BY <1>1 DEF IInv, Pending, Write
  <2> QED
    BY <1>1, <2>1, NewLedger
<1>2. CASE ledger # None
  <2>1. ledger' \in Successors(ledger) /\ ledger \in Ledgers /\ Sound(ledger)
    BY <1>2 DEF IInv, TypeOK, Pending, Write
  <2>2. Extends(ledger, ledger')
    BY <2>1, SuccessorExtends
  <2> QED
    BY <2>2 DEF Extends
<1> QED
  BY <1>1, <1>2

LEMMA StepInv == IInv /\ [Next]_vars => IInv'
<1> SUFFICES ASSUME IInv, [Next]_vars PROVE IInv'
  OBVIOUS
<1> DEFINE Cmds == [pc : {"idle", "locked", "write", "written"}, next : Ledgers \cup {None}]
<1>0. /\ ledger \in Ledgers \cup {None} /\ lock \in Procs \cup {Free}
      /\ cmd \in [Procs -> Cmds] /\ crashes \in 0..MaxCrashes
  BY DEF IInv, TypeOK
<1>1. ASSUME NEW p \in Procs, Enter(p) PROVE IInv'
  <2>1. cmd' \in [Procs -> Cmds]
    BY <1>0, <1>1 DEF Enter
  <2>2. \A q \in Procs : cmd[q].pc = "idle"
    BY <1>1, CampaignAssumption DEF IInv, Holder, Enter, LockIsFree
  <2>3. Holder'
    BY <1>0, <1>1, <2>2 DEF Holder, Enter
  <2>4. Pending'
    BY <1>0, <1>1, <2>2 DEF Pending, Enter
  <2> QED
    BY <1>0, <1>1, <2>1, <2>3, <2>4 DEF IInv, TypeOK, Enter
<1>2. ASSUME NEW p \in Procs, Exit(p) PROVE IInv'
  <2>1. cmd' \in [Procs -> Cmds] /\ \A q \in Procs : cmd'[q].pc = "idle"
    BY <1>0, <1>2 DEF Exit, Idle, IInv, Holder
  <2> QED
    BY <1>0, <1>2, <2>1 DEF IInv, TypeOK, Exit, Holder, Pending
<1>3. ASSUME NEW p \in Procs, BuildInit(p) PROVE IInv'
  <2>1. PICK f \in FirstRoutes :
          cmd' = [cmd EXCEPT ![p] = [pc |-> "write", next |-> _new_state(f)]]
    BY <1>3 DEF BuildInit
  <2>2. cmd' \in [Procs -> Cmds]
    BY <1>0, <2>1, NewLedger
  <2>3. lock = p /\ ledger = None /\ ledger' = None /\ lock' = lock /\ crashes' = crashes
    BY <1>3 DEF BuildInit, IInv, Holder
  <2>4. Holder' /\ Pending'
    BY <1>0, <2>1, <2>3 DEF IInv, Holder, Pending
  <2> QED
    BY <1>0, <2>2, <2>3, <2>4 DEF IInv, TypeOK
<1>4. ASSUME NEW p \in Procs, Build(p) PROVE IInv'
  <2>1. PICK s \in Successors(ledger) : cmd' = [cmd EXCEPT ![p] = [pc |-> "write", next |-> s]]
    BY <1>4 DEF Build
  <2>2. /\ lock = p /\ ledger # None /\ ledger' = ledger /\ lock' = lock /\ crashes' = crashes
        /\ Sound(ledger) /\ ledger \in Ledgers
    BY <1>0, <1>4 DEF Build, IInv, Holder
  <2>3. s \in Ledgers
    BY <2>2, SuccessorExtends DEF Extends
  <2>4. cmd' \in [Procs -> Cmds]
    BY <1>0, <2>1, <2>3
  <2>5. Holder'
    BY <1>0, <2>1, <2>2 DEF IInv, Holder
  <2>6. Pending'
    BY <1>0, <2>1, <2>2 DEF IInv, Pending
  <2> QED
    BY <1>0, <2>2, <2>4, <2>5, <2>6 DEF IInv, TypeOK
<1>5. ASSUME NEW p \in Procs, Write(p) PROVE IInv'
  <2>1. ledger' \in Ledgers /\ Sound(ledger')
    BY <1>5, WriteExtends
  <2>2. /\ cmd' = [cmd EXCEPT ![p].pc = "written"] /\ lock' = lock /\ crashes' = crashes
        /\ cmd[p].pc = "write"
    BY <1>5 DEF Write
  <2>3. cmd' \in [Procs -> Cmds]
    BY <1>0, <2>2
  <2>4. \A q \in Procs : q # p => cmd[q].pc = "idle"
    BY <2>2 DEF IInv, Holder
  <2>5. Holder' /\ Pending'
    BY <1>0, <2>2, <2>4 DEF IInv, Holder, Pending
  <2> QED
    BY <1>0, <2>1, <2>2, <2>3, <2>5 DEF IInv, TypeOK
<1>6. ASSUME NEW p \in Procs, Crash(p) PROVE IInv'
  <2>1. /\ cmd' = [cmd EXCEPT ![p] = Idle] /\ ledger' = ledger /\ lock' = lock
        /\ crashes' \in 0..MaxCrashes
    BY <1>0, <1>6, CampaignAssumption DEF Crash
  <2>2. cmd' \in [Procs -> Cmds]
    BY <1>0, <2>1 DEF Idle
  <2>3. Holder' /\ Pending'
    BY <1>0, <2>1 DEF IInv, Holder, Pending, Idle
  <2> QED
    BY <1>0, <2>1, <2>2, <2>3 DEF IInv, TypeOK
<1>7. CASE OperatorUnlocks
  BY <1>0, <1>7 DEF OperatorUnlocks, IInv, TypeOK, Holder, Pending
<1>8. CASE UNCHANGED vars
  BY <1>8 DEF vars, IInv, TypeOK, Holder, Pending
<1> QED
  BY <1>1, <1>2, <1>3, <1>4, <1>5, <1>6, <1>7, <1>8 DEF Next, EnterFails

(* The invariant holds whatever the processes do and however they die. *)
THEOREM CampaignInvariant == Spec => []IInv
  BY Initially, StepInv, PTL DEF Spec

(* Every ledger the commands write has the shape replay expects. *)
THEOREM TypeCorrect == Spec => []TypeOK
<1>1. IInv => TypeOK
  BY DEF IInv
<1> QED
  BY <1>1, CampaignInvariant, PTL

(* The O_EXCL lock file makes the ledger append-only: no interleaving of   *)
(* processes, crashes and operators loses an event or writes two.          *)
THEOREM CampaignIsAppendOnly == Spec => LedgerOnlyGrows
<1>1. IInv /\ [Next]_vars =>
        [ledger' # ledger /\ ledger # None =>
           /\ ledger' # None
           /\ ledger'.event_count = ledger.event_count + 1
           /\ ledger'.first_routes = ledger.first_routes
           /\ IsPrefix(ledger.records, ledger'.records)]_vars
  <2> SUFFICES ASSUME IInv, Next, ledger' # ledger, ledger # None
               PROVE  /\ ledger' # None
                      /\ ledger'.event_count = ledger.event_count + 1
                      /\ ledger'.first_routes = ledger.first_routes
                      /\ IsPrefix(ledger.records, ledger'.records)
    BY DEF vars
  <2>1. PICK p \in Procs : Write(p)
    BY DEF Next, Enter, EnterFails, BuildInit, Build, Exit, Crash, OperatorUnlocks, vars
  <2>2. Extends(ledger, ledger')
    BY <2>1, WriteExtends
  <2> QED
    BY <2>2, NoneAssumption DEF Extends
<1> QED
  BY <1>1, CampaignInvariant, PTL DEF Spec, LedgerOnlyGrows

(* The measured intervals are disjoint, ordered and inside the windows. *)
THEOREM ArmsAreDisjoint == Spec => []ArmsDoNotOverlap
<1>1. IInv => ArmsDoNotOverlap
  <2> SUFFICES ASSUME IInv, ledger # None,
                      NEW i \in DOMAIN ledger.records
               PROVE  /\ ledger.records[i].begin_at < ledger.records[i].end_at
                      /\ BeforeReset(ledger.records[i].end_at)
                      /\ ledger.active # None => ledger.records[i].end_at < ledger.active.at
                      /\ ledger.pending_end # None =>
                           ledger.records[i].end_at < ledger.pending_end.active.at
                      /\ \A j \in DOMAIN ledger.records :
                           i < j => ledger.records[i].end_at < ledger.records[j].begin_at
    BY DEF ArmsDoNotOverlap
  <2>1. Sound(ledger) /\ ledger \in Ledgers
    BY DEF IInv, TypeOK
  <2>2. /\ ledger.records[i].end_at \in Nat
        /\ ledger.last_end # None /\ ledger.last_end.at \in Nat
        /\ ledger.active # None => ledger.active.at \in Nat
        /\ ledger.pending_end # None => ledger.pending_end.active.at \in Nat
    <3>1. ledger.records[i] \in Records
      BY <2>1 DEF Ledgers
    <3>2. ledger.last_end # None
      BY <2>1 DEF Sound
    <3>3. /\ ledger.last_end # None => ledger.last_end.at \in Times
          /\ ledger.active # None => ledger.active.at \in Times
          /\ ledger.pending_end # None => ledger.pending_end.active.at \in Times
      BY <2>1 DEF Ledgers, Marks, Arms, Ends
    <3> QED
      BY <3>1, <3>2, <3>3, CampaignAssumption DEF Records, Times
  <2>3. /\ ledger.records[i].end_at <= ledger.last_end.at
        /\ ledger.active # None => ledger.last_end.at < ledger.active.at
        /\ ledger.pending_end # None => ledger.last_end.at < ledger.pending_end.active.at
    BY <2>1, <2>2 DEF Sound
  <2>4. /\ ledger.records[i].begin_at < ledger.records[i].end_at
        /\ BeforeReset(ledger.records[i].end_at)
        /\ \A j \in DOMAIN ledger.records :
             i < j => ledger.records[i].end_at < ledger.records[j].begin_at
    BY <2>1 DEF Sound
  <2> QED
    BY <2>2, <2>3, <2>4
<1> QED
  BY <1>1, CampaignInvariant, PTL

(* A campaign whose readings never rise during an arm cannot wedge. *)
THEOREM CampaignsDoNotWedge == Spec => []PendingEndsCanBeAccepted
<1>1. IInv => PendingEndsCanBeAccepted
  <2> SUFFICES ASSUME IInv, ledger # None, ledger.pending_end # None,
                      NotAbove(ledger.pending_end.remaining, ledger.pending_end.active.remaining)
               PROVE  CanAccept(ledger, [route     |-> ledger.pending_end.active.route,
                                         candidate |-> ledger.pending_end.candidate,
                                         at        |-> ledger.pending_end.at + 1])
    BY DEF PendingEndsCanBeAccepted
  <2>1. Sound(ledger) /\ ledger \in Ledgers
    BY DEF IInv, TypeOK
  <2>2. /\ ledger.pending_end.at \in Nat /\ ledger.pending_end.active.at \in Nat
        /\ ledger.last_end # None => ledger.last_end.at \in Nat
    BY <2>1, CampaignAssumption DEF Ledgers, Marks, Arms, Ends, Times
  <2> QED
    BY <2>1, <2>2 DEF Sound, CanAccept, ValidLimits
<1> QED
  BY <1>1, CampaignInvariant, PTL

-----------------------------------------------------------------------------
(* Sums over the records.  Nothing but the least number argument is used:  *)
(* a set of naturals that is not empty has a least member.                 *)
LEMMA LeastNatural ==
  ASSUME NEW T, T \subseteq Nat, T # {}
  PROVE  \E x \in T : \A y \in T : x <= y
<1>1. \E x \in T : \A y \in T : ~(<<y, x>> \in OpToRel(<, Nat))
  BY NatLessThanWellFounded, WFMin
<1>2. \E x \in T : \A y \in T : ~(y < x)
  BY <1>1 DEF OpToRel
<1> QED
  BY <1>2

\* t holds the sums of the first members of g.
Sums(N, g, t) == t[0] = 0 /\ \A n \in 1..N : t[n] = t[n - 1] + g[n]

LEMMA SumsExist ==
  ASSUME NEW N \in Nat, NEW g \in [1..N -> Int]
  PROVE  \E t \in [0..N -> Int] : Sums(N, g, t)
<1> DEFINE Bad == {n \in Nat : n <= N /\ ~\E t \in [0..n -> Int] : Sums(n, g, t)}
<1>1. SUFFICES ASSUME ~\E t \in [0..N -> Int] : Sums(N, g, t) PROVE FALSE
  OBVIOUS
<1>2. PICK m \in Bad : \A n \in Bad : m <= n
  <2>1. N \in Bad /\ Bad \subseteq Nat
    BY <1>1
  <2> HIDE DEF Bad
  <2> QED
    BY <2>1, LeastNatural
<1>3. CASE m = 0
  <2>1. Sums(0, g, [n \in 0..0 |-> 0])
    BY DEF Sums
  <2> QED
    BY <1>2, <1>3, <2>1
<1>4. CASE m # 0
  <2>1. m - 1 \in Nat /\ m \in 1..N /\ m - 1 <= N
    BY <1>2, <1>4
  <2>2. m - 1 \notin Bad
    <3> HIDE DEF Bad
    <3> QED
      BY <1>2, <2>1
  <2>3. PICK t \in [0..m - 1 -> Int] : Sums(m - 1, g, t)
    BY <2>1, <2>2
  <2> DEFINE u == [n \in 0..m |-> IF n = m THEN t[m - 1] + g[m] ELSE t[n]]
  <2>4. Sums(m, g, u)
    <3>1. u[0] = 0 /\ u[m] = t[m - 1] + g[m]
      BY <1>2, <1>4, <2>1, <2>3 DEF Sums
    <3>2. \A n \in 0..m - 1 : u[n] = t[n]
      BY <1>2, <2>1
    <3>3. \A n \in 1..m - 1 : n - 1 \in 0..m - 1 /\ n \in 0..m - 1
      BY <1>2
    <3>4. \A n \in 1..m - 1 : u[n] = u[n - 1] + g[n]
      <4> HIDE DEF u
      <4> QED BY <2>3, <3>2, <3>3 DEF Sums
    <3>5. u[m - 1] = t[m - 1]
      BY <2>1, <3>2
    <3>6. u[m] = u[m - 1] + g[m]
      <4> HIDE DEF u
      <4> QED BY <3>1, <3>5
    <3>7. \A n \in 1..m : n = m \/ n \in 1..m - 1
      BY <1>2
    <3> HIDE DEF u
    <3> QED
      BY <3>1, <3>4, <3>6, <3>7 DEF Sums
  <2>5. [n \in 0..m |-> IF n = m THEN t[m - 1] + g[m] ELSE t[n]] \in [0..m -> Int]
    BY <2>1, <2>3
  <2> QED
    BY <1>2, <2>4, <2>5
<1> QED
  BY <1>3, <1>4

LEMMA SumsAgree ==
  ASSUME NEW N \in Nat, NEW M \in Nat, NEW g, NEW h, NEW t, NEW u,
         Sums(N, g, t), Sums(M, h, u), N <= M, \A n \in 1..N : g[n] = h[n]
  PROVE  t[N] = u[N]
<1> DEFINE Bad == {n \in Nat : n <= N /\ t[n] # u[n]}
<1>1. SUFFICES ASSUME N \in Bad PROVE FALSE
  OBVIOUS
<1>2. PICK m \in Bad : \A n \in Bad : m <= n
  <2>1. Bad \subseteq Nat
    OBVIOUS
  <2> HIDE DEF Bad
  <2> QED
    BY <1>1, <2>1, LeastNatural
<1>3. m # 0 /\ m \in 1..N /\ m - 1 \in Nat /\ m \in 1..M
  BY <1>2 DEF Sums
<1>4. t[m - 1] = u[m - 1]
  BY <1>2, <1>3
<1> QED
  BY <1>2, <1>3, <1>4 DEF Sums

\* What the ledger's total is of.
LEMMA ConsumedIsSum ==
  ASSUME NEW s \in Ledgers, NEW k \in Kinds
  PROVE  /\ Fall(s, k) \in [1..Len(s.records) -> Int] /\ Len(s.records) \in Nat
         /\ Consumed(s, k) \in Int
         /\ \E t : Sums(Len(s.records), Fall(s, k), t) /\ Consumed(s, k) = t[Len(s.records)]
<1> DEFINE N == Len(s.records)
           g == Fall(s, k)
<1>1. N \in Nat /\ s.records \in Seq(Records) /\ DOMAIN s.records = 1..N
  BY DEF Ledgers
<1>2. g \in [1..N -> Int]
  <2>0. \A r \in Records : r.before[k] \in Int /\ r.after[k] \in Int
    BY CampaignAssumption DEF Records, Readings
  <2>1. \A n \in 1..N : s.records[n].before[k] \in Int /\ s.records[n].after[k] \in Int
    BY <1>1, <2>0
  <2> QED
    BY <1>1, <2>1 DEF Fall
<1>3. PICK t \in [0..N -> Int] : Sums(N, g, t)
  BY <1>1, <1>2, SumsExist
<1> DEFINE F(f) == [n \in 0..N |-> IF n = 0 THEN 0 ELSE f[n - 1] + g[n]]
           total == CHOOSE f : f = F(f)
<1>4. Consumed(s, k) = total[N]
  BY DEF Consumed
<1> HIDE DEF g, N
<1>5. t = F(t)
  BY <1>3 DEF Sums
<1>6. total = F(total)
  BY <1>5
<1>7. Sums(N, g, total)
  <2> HIDE DEF total
  <2> QED
    BY <1>1, <1>6 DEF Sums
<1>8. total[N] = t[N]
  <2> HIDE DEF total
  <2> QED
    BY <1>1, <1>3, <1>7, SumsAgree
<1>9. Consumed(s, k) \in Int
  BY <1>1, <1>3, <1>4, <1>8
<1>10. \E f : Sums(N, g, f) /\ Consumed(s, k) = f[N]
  <2> HIDE DEF total
  <2> QED
    BY <1>4, <1>7
<1> QED
  BY <1>1, <1>2, <1>9, <1>10 DEF g, N

\* The total grows by what a new record adds.
LEMMA ConsumedGrows ==
  ASSUME NEW s \in Ledgers, NEW t \in Ledgers, NEW r \in Records, NEW k \in Kinds,
         t.records = Append(s.records, r)
  PROVE  /\ Consumed(s, k) \in Int
         /\ Consumed(t, k) = Consumed(s, k) + (r.before[k] - r.after[k])
<1> DEFINE N == Len(s.records)
<1>1. N \in Nat /\ Len(t.records) = N + 1 /\ DOMAIN s.records = 1..N /\ DOMAIN t.records = 1..N + 1
      /\ t.records[N + 1] = r /\ \A n \in 1..N : t.records[n] = s.records[n]
  BY DEF Ledgers
<1>2. PICK u : Sums(N, Fall(s, k), u) /\ Consumed(s, k) = u[N]
  BY ConsumedIsSum
<1>3. PICK v : Sums(N + 1, Fall(t, k), v) /\ Consumed(t, k) = v[N + 1]
  BY <1>1, ConsumedIsSum
<1>4. /\ \A n \in 1..N : Fall(s, k)[n] = Fall(t, k)[n]
      /\ Fall(t, k)[N + 1] = r.before[k] - r.after[k]
  BY <1>1 DEF Fall
<1> HIDE DEF N
<1>5. u[N] = v[N]
  <2>1. N + 1 \in Nat /\ N <= N + 1
    BY <1>1
  <2> QED
    BY <1>1, <1>2, <1>3, <1>4, <2>1, SumsAgree
<1>6. v[N + 1] = v[N] + Fall(t, k)[N + 1]
  BY <1>1, <1>3 DEF Sums
<1> QED
  BY <1>1, <1>2, <1>3, <1>4, <1>5, <1>6, ConsumedIsSum

LEMMA ConsumedOfNone ==
  ASSUME NEW s \in Ledgers, NEW k \in Kinds, s.records = <<>>
  PROVE  Consumed(s, k) = 0
<1>1. PICK t : Sums(Len(s.records), Fall(s, k), t) /\ Consumed(s, k) = t[Len(s.records)]
  BY ConsumedIsSum
<1> QED
  BY <1>1 DEF Sums

LEMMA ConsumedSame ==
  ASSUME NEW s \in Ledgers, NEW t \in Ledgers, NEW k \in Kinds, t.records = s.records
  PROVE  Consumed(t, k) = Consumed(s, k)
  BY DEF Consumed, Fall

-----------------------------------------------------------------------------
\* The account of a ledger: all that a meter fell by is an arm's or excluded.
Accounted(s) ==
  /\ s.active = None \/ s.pending_end = None
  /\ s.records = <<>> => s.last_end = None /\ \A k \in Kinds : s.excluded[k] = 0
  /\ s.records # <<>> =>
       /\ s.last_end # None
       /\ \A k \in Kinds :
            Consumed(s, k) + s.excluded[k] = s.records[1].before[k] - Latest(s, k)

\* The fields an event leaves alone, and those it sets.
LEMMA BegunFields ==
  ASSUME NEW s \in Ledgers, NEW e
  PROVE  /\ Begun(s, e).records = s.records /\ Begun(s, e).last_end = s.last_end
         /\ Begun(s, e).pending_end = s.pending_end
         /\ Begun(s, e).first_routes = s.first_routes
         /\ Begun(s, e).route_revisions = NextRevisions(s, e)
         /\ Begun(s, e).active = [pair |-> PairNumber(s), route |-> e.route,
                                  revision |-> e.revision, at |-> e.at,
                                  remaining |-> e.remaining]
  BY DEF Begun, Ledgers

LEMMA EndedFields ==
  ASSUME NEW s \in Ledgers, NEW e
  PROVE  /\ Ended(s, e).records = s.records /\ Ended(s, e).last_end = s.last_end
         /\ Ended(s, e).first_routes = s.first_routes
         /\ Ended(s, e).route_revisions = s.route_revisions
         /\ Ended(s, e).excluded = s.excluded
         /\ Ended(s, e).active = None
         /\ Ended(s, e).pending_end = [active |-> s.active, at |-> e.at,
                                       remaining |-> e.remaining, candidate |-> e.candidate]
  BY DEF Ended, Ledgers

\* The record an acceptance makes of the pending end.
RecordOf(p) ==
  [pair |-> p.active.pair, route |-> p.active.route, revision |-> p.active.revision,
   begin_at |-> p.active.at, end_at |-> p.at, before |-> p.active.remaining,
   after |-> p.remaining]

LEMMA AcceptedFields ==
  ASSUME NEW s \in Ledgers, NEW e
  PROVE  /\ Accepted(s, e).records = Append(s.records, RecordOf(s.pending_end))
         /\ Accepted(s, e).last_end = [at |-> s.pending_end.at,
                                       remaining |-> s.pending_end.remaining]
         /\ Accepted(s, e).first_routes = s.first_routes
         /\ Accepted(s, e).route_revisions = s.route_revisions
         /\ Accepted(s, e).excluded = s.excluded
         /\ Accepted(s, e).active = None
         /\ Accepted(s, e).pending_end = None
  BY DEF Accepted, RecordOf, Ledgers

\* Readings are naturals wherever a ledger or an event has them.
LEMMA ReadingsAreNumbers ==
  /\ \A a \in Arms, k \in Kinds : a.remaining[k] \in Int
  /\ \A p \in Ends, k \in Kinds : p.remaining[k] \in Int
  /\ \A m \in Marks, k \in Kinds : m.remaining[k] \in Int
  /\ \A e \in BeginEvents, k \in Kinds : e.remaining[k] \in Int
  /\ \A r \in Records, k \in Kinds : r.before[k] \in Int /\ r.after[k] \in Int
  /\ \A s \in Ledgers, k \in Kinds : s.excluded[k] \in Int
  BY CampaignAssumption DEF Arms, Ends, Marks, BeginEvents, Records, Ledgers, Readings

\* What begin_arm finds missing since the previous end is excluded.
LEMMA BeginAccounts ==
  ASSUME NEW s \in Ledgers, Sound(s), Accounted(s), NEW e \in BeginEvents, CanBegin(s, e)
  PROVE  Accounted(Begun(s, e))
<1> DEFINE t == Begun(s, e)
<1>1. /\ t \in Ledgers /\ t.records = s.records /\ t.last_end = s.last_end
      /\ s.active = None /\ s.pending_end = None /\ t.pending_end = None
      /\ t.active \in Arms /\ t.active.remaining = e.remaining
      /\ \A k \in Kinds : t.excluded[k] = s.excluded[k] + Gap(s, e)[k]
  <2>1. t \in Ledgers
    BY BeginStep DEF Extends
  <2>2. PairNumber(s) \in 1..MaxPairs
    BY PairInRange DEF CanBegin
  <2>3. t.active = [pair |-> PairNumber(s), route |-> e.route, revision |-> e.revision,
                    at |-> e.at, remaining |-> e.remaining]
    BY BegunFields
  <2>4. t.active \in Arms /\ t.active.remaining = e.remaining
    BY <2>2, <2>3 DEF Arms, BeginEvents
  <2>5. /\ t.records = s.records /\ t.last_end = s.last_end /\ t.pending_end = s.pending_end
    BY BegunFields
  <2>7. \A k \in Kinds : t.excluded[k] = s.excluded[k] + Gap(s, e)[k]
    BY DEF Begun, Ledgers
  <2>6. s.active = None /\ s.pending_end = None
    BY DEF CanBegin
  <2> HIDE DEF t
  <2> QED
    BY <2>1, <2>4, <2>5, <2>6, <2>7
<1> SUFFICES Accounted(t)
  OBVIOUS
<1> HIDE DEF t
<1>2. CASE s.records = <<>>
  <2>1. s.last_end = None /\ \A k \in Kinds : s.excluded[k] = 0
    BY <1>2 DEF Accounted
  <2>2. \A k \in Kinds : Gap(s, e)[k] = 0
    BY <2>1 DEF Gap
  <2> QED
    BY <1>1, <1>2, <2>1, <2>2 DEF Accounted
<1>3. CASE s.records # <<>>
  <2>1. s.last_end # None /\ s.last_end \in Marks
    BY <1>3 DEF Accounted, Ledgers
  <2>2. ASSUME NEW k \in Kinds
        PROVE  Consumed(t, k) + t.excluded[k] = t.records[1].before[k] - Latest(t, k)
    <3>1. Gap(s, e)[k] = s.last_end.remaining[k] - e.remaining[k]
      BY <2>1 DEF Gap
    <3>2. Latest(s, k) = s.last_end.remaining[k]
      BY <1>1 DEF Latest
    <3>3. Latest(t, k) = e.remaining[k]
      BY <1>1, NoneAssumption DEF Latest
    <3>4. Consumed(t, k) = Consumed(s, k) /\ Consumed(s, k) \in Int
      BY <1>1, ConsumedSame, ConsumedIsSum
    <3>5. Consumed(s, k) + s.excluded[k] = s.records[1].before[k] - s.last_end.remaining[k]
      BY <1>3, <3>2 DEF Accounted
    <3>6. s.records[1] \in Records
      BY <1>3 DEF Ledgers
    <3>7. /\ s.last_end.remaining[k] \in Int /\ e.remaining[k] \in Int
          /\ s.excluded[k] \in Int /\ s.records[1].before[k] \in Int
      BY <2>1, <3>6, ReadingsAreNumbers
    <3>8. t.excluded[k] = s.excluded[k] + (s.last_end.remaining[k] - e.remaining[k])
      BY <1>1, <3>1
    <3>9. t.records[1].before[k] = s.records[1].before[k]
      BY <1>1
    <3> QED
      BY <3>3, <3>4, <3>5, <3>7, <3>8, <3>9
  <2> QED
    BY <1>1, <1>3, <2>1, <2>2 DEF Accounted
<1> QED
  BY <1>2, <1>3

\* end_arm moves the arm, whose reading is still the latest accounted for.
LEMMA EndAccounts ==
  ASSUME NEW s \in Ledgers, Sound(s), Accounted(s), NEW e \in EndEvents, CanEnd(s, e)
  PROVE  Accounted(Ended(s, e))
<1> DEFINE t == Ended(s, e)
<1>1. /\ t \in Ledgers /\ t.records = s.records /\ t.last_end = s.last_end
      /\ t.excluded = s.excluded /\ t.active = None
      /\ t.pending_end = [active |-> s.active, at |-> e.at, remaining |-> e.remaining,
                          candidate |-> e.candidate]
  BY EndStep, EndedFields DEF Extends
<1>2. t.pending_end # None /\ t.pending_end.active = s.active /\ s.active # None
  <2>1. t.pending_end \in Ends
    BY <1>1 DEF CanEnd, Ledgers, EndEvents, Ends
  <2> QED
    BY <1>1, <2>1, NoneAssumption DEF CanEnd
<1> HIDE DEF t
<1>3. \A k \in Kinds : Latest(t, k) = Latest(s, k) /\ Consumed(t, k) = Consumed(s, k)
  BY <1>1, <1>2, ConsumedSame DEF Latest
<1> QED
  BY <1>1, <1>3 DEF Accounted, t

\* record_acceptance counts the arm and makes its end the latest reading.
LEMMA AcceptanceAccounts ==
  ASSUME NEW s \in Ledgers, Sound(s), Accounted(s), NEW e \in AcceptanceEvents, CanAccept(s, e)
  PROVE  Accounted(Accepted(s, e))
<1> DEFINE t == Accepted(s, e)
           p == s.pending_end
           r == RecordOf(p)
<1>1. p \in Ends /\ p # None /\ s.active = None
  BY DEF CanAccept, Ledgers, Accounted
<1>2. r \in Records /\ r.before = p.active.remaining /\ r.after = p.remaining /\ p.active \in Arms
  BY <1>1 DEF RecordOf, Ends, Arms, Records
<1>3. /\ t \in Ledgers /\ t.records = Append(s.records, r) /\ t.excluded = s.excluded
      /\ t.active = None /\ t.pending_end = None
      /\ t.last_end = [at |-> p.at, remaining |-> p.remaining]
  BY AcceptanceStep, AcceptedFields DEF Extends
<1>4. t.last_end # None /\ t.last_end.remaining = p.remaining
  <2>1. t.last_end \in Marks
    BY <1>1, <1>3 DEF Ends, Marks
  <2> QED
    BY <1>3, <2>1, NoneAssumption
<1> HIDE DEF t, p, r
<1>5. /\ t.records # <<>> /\ s.records \in Seq(Records)
      /\ s.records = <<>> => t.records[1] = r
      /\ s.records # <<>> => t.records[1] = s.records[1] /\ s.records[1] \in Records
  BY <1>2, <1>3 DEF Ledgers
<1>6. ASSUME NEW k \in Kinds
      PROVE  Consumed(t, k) + t.excluded[k] = t.records[1].before[k] - Latest(t, k)
  <2>1. Latest(t, k) = p.remaining[k]
    BY <1>3, <1>4 DEF Latest
  <2>2. /\ Consumed(t, k) = Consumed(s, k) + (p.active.remaining[k] - p.remaining[k])
        /\ Consumed(s, k) \in Int
    BY <1>2, <1>3, ConsumedGrows
  <2>3. p.active.remaining[k] \in Int /\ p.remaining[k] \in Int /\ s.excluded[k] \in Int
    BY <1>1, <1>2, ReadingsAreNumbers
  <2>4. CASE s.records = <<>>
    <3>1. Consumed(s, k) = 0
      BY <2>4, ConsumedOfNone
    <3>2. s.excluded[k] = 0
      BY <2>4 DEF Accounted
    <3> QED
      BY <1>2, <1>3, <1>5, <2>1, <2>2, <2>3, <2>4, <3>1, <3>2
  <2>5. CASE s.records # <<>>
    <3>1. Latest(s, k) = p.active.remaining[k]
      BY <1>1 DEF Latest, p
    <3>2. Consumed(s, k) + s.excluded[k] = s.records[1].before[k] - p.active.remaining[k]
      BY <2>5, <3>1 DEF Accounted
    <3>3. s.records[1].before[k] \in Int
      BY <1>5, <2>5, ReadingsAreNumbers
    <3>4. t.records[1].before[k] = s.records[1].before[k] /\ t.excluded[k] = s.excluded[k]
      BY <1>3, <1>5, <2>5
    <3> QED
      BY <2>1, <2>2, <2>3, <3>2, <3>3, <3>4
  <2> QED
    BY <2>4, <2>5
<1> QED
  BY <1>3, <1>4, <1>5, <1>6 DEF Accounted, t

\* An event keeps the account, and a campaign starts with an empty one.
LEMMA SuccessorAccounts ==
  ASSUME NEW s \in Ledgers, Sound(s), Accounted(s), NEW t \in Successors(s)
  PROVE  Accounted(t)
  BY BeginAccounts, EndAccounts, AcceptanceAccounts DEF Successors

LEMMA NewAccount == ASSUME NEW f \in FirstRoutes PROVE Accounted(_new_state(f))
<1>1. /\ _new_state(f).records = <<>> /\ _new_state(f).active = None
      /\ _new_state(f).last_end = None /\ \A k \in Kinds : _new_state(f).excluded[k] = 0
  BY DEF _new_state
<1> QED
  BY <1>1 DEF Accounted

-----------------------------------------------------------------------------
\* The arm of the ledger is the one the registered order wants next.
Fits(s, arm) ==
  /\ ArmsRemain(s)
  /\ arm.pair = PairNumber(s)
  /\ arm.route = Expected(s)
  /\ arm.revision = s.route_revisions[arm.route]

\* Every record is the arm the registered order wants at its place.
InOrder(s) ==
  /\ Len(s.records) <= 2 * Len(s.first_routes)
  /\ \A i \in DOMAIN s.records :
       /\ s.records[i].pair = (i + 1) \div 2
       /\ s.records[i].route = route_sequence(s.first_routes)[i]
       /\ s.records[i].revision = s.route_revisions[s.records[i].route]
  /\ s.active # None => Fits(s, s.active)
  /\ s.pending_end # None => Fits(s, s.pending_end.active)

\* Fits reads nothing of a ledger but its records, order and revisions.
LEMMA FitsSame ==
  ASSUME NEW s, NEW t, NEW arm, Fits(s, arm), t.records = s.records,
         t.first_routes = s.first_routes,
         t.route_revisions[arm.route] = s.route_revisions[arm.route]
  PROVE  Fits(t, arm)
  BY DEF Fits, ArmsRemain, PairNumber, Expected

\* begin_arm accepts the next arm only, in the revision its route has had.
LEMMA BeginOrders ==
  ASSUME NEW s \in Ledgers, Sound(s), InOrder(s), NEW e \in BeginEvents, CanBegin(s, e)
  PROVE  InOrder(Begun(s, e))
<1> DEFINE t == Begun(s, e)
<1>1. /\ t.records = s.records /\ t.first_routes = s.first_routes
      /\ t.route_revisions = NextRevisions(s, e) /\ t.pending_end = None
      /\ t.active = [pair |-> PairNumber(s), route |-> e.route, revision |-> e.revision,
                     at |-> e.at, remaining |-> e.remaining]
  <2>1. t.pending_end = s.pending_end /\ s.pending_end = None
    BY BegunFields DEF CanBegin
  <2> QED
    BY <2>1, BegunFields
<1> SUFFICES InOrder(t)
  OBVIOUS
<1> HIDE DEF t
<1>2. /\ NextRevisions(s, e)[e.route] = e.revision
      /\ \A r \in Routes : r # e.route => NextRevisions(s, e)[r] = s.route_revisions[r]
  BY DEF NextRevisions, Ledgers, BeginEvents
<1>3. Fits(t, t.active)
  BY <1>1, <1>2 DEF Fits, CanBegin, ArmsRemain, PairNumber, Expected
<1>4. ASSUME NEW i \in DOMAIN s.records
      PROVE  t.route_revisions[s.records[i].route] = s.route_revisions[s.records[i].route]
  <2>1. s.records[i] \in Records
    BY DEF Ledgers
  <2>2. s.records[i].route \in Routes /\ s.records[i].revision # None
    BY <2>1, CampaignAssumption DEF Records
  <2>3. s.route_revisions[s.records[i].route] = s.records[i].revision
    BY DEF InOrder
  <2>4. s.route_revisions[e.route] \in {None, e.revision}
    BY DEF CanBegin
  <2> QED
    BY <1>1, <1>2, <2>2, <2>3, <2>4
<1> QED
  BY <1>1, <1>3, <1>4 DEF InOrder

LEMMA EndOrders ==
  ASSUME NEW s \in Ledgers, Sound(s), InOrder(s), NEW e \in EndEvents, CanEnd(s, e)
  PROVE  InOrder(Ended(s, e))
<1> DEFINE t == Ended(s, e)
<1>1. /\ t.records = s.records /\ t.first_routes = s.first_routes
      /\ t.route_revisions = s.route_revisions /\ t.active = None
      /\ t.pending_end.active = s.active /\ s.active # None
  <2>1. /\ t.records = s.records /\ t.first_routes = s.first_routes
        /\ t.route_revisions = s.route_revisions /\ t.active = None
    BY DEF Ended, Ledgers
  <2>2. t.pending_end = [active |-> s.active, at |-> e.at, remaining |-> e.remaining,
                         candidate |-> e.candidate]
    BY EndedFields
  <2>3. s.active # None
    BY DEF CanEnd
  <2> HIDE DEF t
  <2> QED
    BY <2>1, <2>2, <2>3
<1> SUFFICES InOrder(t)
  OBVIOUS
<1> HIDE DEF t
<1>2. Fits(s, s.active)
  BY <1>1 DEF InOrder
<1>3. Fits(t, s.active)
  BY <1>1, <1>2, FitsSame
<1> QED
  BY <1>1, <1>3 DEF InOrder

\* record_acceptance puts the open arm at the place the order wanted it for.
LEMMA AcceptanceOrders ==
  ASSUME NEW s \in Ledgers, Sound(s), InOrder(s), NEW e \in AcceptanceEvents, CanAccept(s, e)
  PROVE  InOrder(Accepted(s, e))
<1> DEFINE t == Accepted(s, e)
           r == RecordOf(s.pending_end)
           N == Len(s.records)
<1>1. /\ t.records = Append(s.records, r) /\ t.first_routes = s.first_routes
      /\ t.route_revisions = s.route_revisions /\ t.active = None /\ t.pending_end = None
  BY AcceptedFields
<1>2. Fits(s, s.pending_end.active)
  BY DEF InOrder, CanAccept
<1> SUFFICES InOrder(t)
  OBVIOUS
<1> HIDE DEF t
<1>3. /\ r.pair = N \div 2 + 1 /\ r.route = route_sequence(s.first_routes)[N + 1]
      /\ r.revision = s.route_revisions[r.route] /\ N < 2 * Len(s.first_routes)
  BY <1>2 DEF Fits, RecordOf, PairNumber, Expected, ArmsRemain
<1> HIDE DEF r
<1>4. /\ N \in Nat /\ DOMAIN s.records = 1..N /\ DOMAIN t.records = 1..N + 1
      /\ Len(t.records) = N + 1 /\ t.records[N + 1] = r
      /\ \A i \in 1..N : t.records[i] = s.records[i]
  BY <1>1 DEF Ledgers
<1>5. Len(s.first_routes) \in Nat
  BY CampaignAssumption DEF Ledgers, FirstRoutes
<1> HIDE DEF N
<1>6. ASSUME NEW i \in DOMAIN t.records
      PROVE  /\ t.records[i].pair = (i + 1) \div 2
             /\ t.records[i].route = route_sequence(s.first_routes)[i]
             /\ t.records[i].revision = s.route_revisions[t.records[i].route]
  <2>1. CASE i \in 1..N
    BY <1>4, <2>1 DEF InOrder
  <2>2. CASE i = N + 1
    <3>1. (i + 1) \div 2 = N \div 2 + 1
      BY <1>4, <2>2
    <3> QED
      BY <1>3, <1>4, <2>2, <3>1
  <2> QED
    BY <1>4, <2>1, <2>2
<1>7. Len(t.records) <= 2 * Len(t.first_routes)
  BY <1>1, <1>3, <1>4, <1>5
<1> QED
  BY <1>1, <1>6, <1>7 DEF InOrder

LEMMA SuccessorOrders ==
  ASSUME NEW s \in Ledgers, Sound(s), InOrder(s), NEW t \in Successors(s)
  PROVE  InOrder(t)
  BY BeginOrders, EndOrders, AcceptanceOrders DEF Successors

LEMMA NewOrder == ASSUME NEW f \in FirstRoutes PROVE InOrder(_new_state(f))
<1>1. /\ _new_state(f).records = <<>> /\ _new_state(f).active = None
      /\ _new_state(f).pending_end = None /\ _new_state(f).first_routes = f
  BY DEF _new_state
<1>2. Len(f) \in Nat
  BY CampaignAssumption DEF FirstRoutes
<1> QED
  BY <1>1, <1>2 DEF InOrder

-----------------------------------------------------------------------------
\* What the events make of the ledger beside what replay itself checks.
LedgerInv == ledger # None => Accounted(ledger) /\ InOrder(ledger)

LEMMA LedgerStep == IInv /\ LedgerInv /\ [Next]_vars => LedgerInv'
<1> SUFFICES ASSUME IInv, LedgerInv, [Next]_vars, ledger' # ledger
             PROVE  Accounted(ledger') /\ InOrder(ledger')
  BY DEF LedgerInv
<1>1. PICK p \in Procs : Write(p)
  BY DEF Next, Enter, EnterFails, BuildInit, Build, Exit, Crash, OperatorUnlocks, vars
<1>2. CASE ledger = None
  <2>1. PICK f \in FirstRoutes : ledger' = _new_state(f)
    BY <1>1, <1>2 DEF IInv, Pending, Write
  <2> QED
    BY <2>1, NewAccount, NewOrder
<1>3. CASE ledger # None
  <2>1. /\ ledger' \in Successors(ledger) /\ ledger \in Ledgers /\ Sound(ledger)
        /\ Accounted(ledger) /\ InOrder(ledger)
    BY <1>1, <1>3 DEF IInv, TypeOK, Pending, Write, LedgerInv
  <2> QED
    BY <2>1, SuccessorAccounts, SuccessorOrders
<1> QED
  BY <1>2, <1>3

LEMMA LedgerInvariant == Spec => [](IInv /\ LedgerInv)
<1>1. Init => LedgerInv
  BY DEF Init, LedgerInv
<1> QED
  BY <1>1, LedgerStep, CampaignInvariant, PTL DEF Spec

(* Whatever the meters show and however the arms are interleaved with other *)
(* consumption, no allowance is counted twice and none is lost.             *)
THEOREM AllowanceAddsUp == Spec => []AllowanceIsAccounted
<1>1. LedgerInv => AllowanceIsAccounted
  BY DEF LedgerInv, Accounted, AllowanceIsAccounted
<1> QED
  BY <1>1, LedgerInvariant, PTL

(* The pairs compare the routes once each, in the registered order and in  *)
(* one revision of each route.                                             *)
THEOREM PairsCompareRoutes == Spec => []PairsAreComparable
<1>1. IInv /\ LedgerInv => PairsAreComparable
  <2> SUFFICES ASSUME IInv, LedgerInv, ledger # None
               PROVE  PairsAreComparable
    BY DEF PairsAreComparable
  <2> DEFINE R == ledger.records
             f == ledger.first_routes
  <2>1. InOrder(ledger) /\ ledger \in Ledgers
    BY DEF LedgerInv, IInv, TypeOK
  <2>2. PICK n \in Nat : f \in [1..n -> Routes] /\ Len(f) = n
    BY <2>1, CampaignAssumption DEF Ledgers, FirstRoutes
  <2>3. /\ Len(R) \in Nat /\ DOMAIN R = 1..Len(R) /\ Len(R) <= 2 * n
    BY <2>1, <2>2 DEF Ledgers, InOrder
  <2>4. ASSUME NEW i \in DOMAIN R
        PROVE  /\ i \in 1..2 * n /\ (i + 1) \div 2 \in 1..n
               /\ R[i].pair = (i + 1) \div 2
               /\ R[i].route = IF i % 2 = 1 THEN f[(i + 1) \div 2]
                                            ELSE _opposite(f[(i + 1) \div 2])
               /\ R[i].revision = ledger.route_revisions[R[i].route]
    <3>1. i \in 1..2 * n /\ (i + 1) \div 2 \in 1..n
      BY <2>2, <2>3
    <3>2. route_sequence(f)[i] = IF i % 2 = 1 THEN f[(i + 1) \div 2]
                                              ELSE _opposite(f[(i + 1) \div 2])
      BY <2>2, <3>1 DEF route_sequence
    <3> QED
      BY <2>1, <3>1, <3>2 DEF InOrder
  <2>5. ASSUME NEW i \in DOMAIN R, NEW j \in DOMAIN R, R[i].pair = R[j].pair, i # j
        PROVE  R[i].route # R[j].route
    <3>0. i \in Nat /\ j \in Nat
      BY <2>3
    <3>1. (i + 1) \div 2 = (j + 1) \div 2
      <4>1. R[i].pair = (i + 1) \div 2 /\ R[j].pair = (j + 1) \div 2
        BY <2>4
      <4> QED
        BY <2>5, <4>1
    <3>2. (i % 2 = 1 /\ j % 2 # 1) \/ (i % 2 # 1 /\ j % 2 = 1)
      BY <2>5, <3>0, <3>1
    <3>3. \A r \in Routes : _opposite(r) # r
      BY DEF _opposite, Routes
    <3>4. f[(i + 1) \div 2] \in Routes
      BY <2>2, <2>4
    <3> QED
      BY <2>4, <3>1, <3>2, <3>3, <3>4
  <2>6. ASSUME NEW i \in DOMAIN R, NEW j \in DOMAIN R, R[i].route = R[j].route
        PROVE  R[i].revision = R[j].revision
    BY <2>4, <2>6
  <2>7. ASSUME NEW i \in DOMAIN R, i % 2 = 1
        PROVE  R[i].route = f[R[i].pair]
    BY <2>4, <2>7
  <2> QED
    BY <2>5, <2>6, <2>7 DEF PairsAreComparable
<1> QED
  BY <1>1, LedgerInvariant, PTL
=============================================================================
