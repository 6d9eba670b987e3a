------------------------------- MODULE Schedule -------------------------------
(***************************************************************************)
(* The package schedules of the routing policy (routing_policy.py):        *)
(* package_schedule places the packages of one lane of writers,            *)
(* package_schedule_v5 those of a Sol lane and a pool of Luna writers.     *)
(*                                                                         *)
(* Abstraction.  Packages are numbered in the order of their identifiers;  *)
(* writable paths are sets of units; credits and seconds are naturals and  *)
(* probabilities percentages, so expectations come in hundredths.          *)
(***************************************************************************)
EXTENDS Integers, FiniteSets, FiniteSetsExt, Functions, Intervals

Downstream_Mutant(pk, p) == {d \in DOMAIN pk : p \in pk[d].depends_on}

\* The packages a failure of p makes stale: downstream_closure.
Downstream(pk, p) ==
  LET direct(q) == {d \in DOMAIN pk : q \in pk[d].depends_on}
      within[n \in 0..Cardinality(DOMAIN pk)] ==
        IF n = 0 THEN direct(p) ELSE within[n - 1] \cup UNION {direct(q) : q \in within[n - 1]}
  IN within[Cardinality(DOMAIN pk)]

SumOfSome(pk, S, Of(_)) == SumFunctionOnSet([p \in DOMAIN pk |-> Of(pk[p])], S)
SumOf(pk, Of(_)) == SumOfSome(pk, DOMAIN pk, Of)

\* The conditions that make a list of packages a schedulable partition.
WellFormed(pk) ==
  /\ DOMAIN pk # {}
  /\ \A p, q \in DOMAIN pk : p # q => pk[p].writable \cap pk[q].writable = {}
  /\ \A p \in DOMAIN pk :
       /\ pk[p].writable # {}
       /\ pk[p].depends_on \subseteq DOMAIN pk
       /\ pk[p].first + pk[p].repair + pk[p].terminal = 100

\* Also the complete partition that package_schedule_v5 asks for: each acceptance
\* contract assigned once, work of Luna's, and a baseline where Sol is critical.
CompletePartition(pk, contracts) ==
  /\ WellFormed(pk)
  /\ \A p, q \in DOMAIN pk : p # q => pk[p].acceptance \cap pk[q].acceptance = {}
  /\ UNION {pk[p].acceptance : p \in DOMAIN pk} = contracts
  /\ \A p \in DOMAIN pk :
       /\ pk[p].acceptance # {}
       /\ pk[p].executor = "SOL" /\ pk[p].critical =>
            pk[p].base_credits > 0 /\ pk[p].base_seconds > 0
  /\ \E p \in DOMAIN pk : pk[p].executor = "LUNA"

Available(pk, s) ==
  {p \in DOMAIN pk \ DOMAIN s.ends : pk[p].depends_on \subseteq s.done}

Active(s) == DOMAIN s.ends \ s.done

\* package_schedule: the longest available packages first, up to the writers.
LongestFirst(pk, writers, s) ==
  LET before(q, p) == \/ pk[q].seconds > pk[p].seconds
                      \/ pk[q].seconds = pk[p].seconds /\ q < p
  IN {p \in Available(pk, s) :
        Cardinality({q \in Available(pk, s) : before(q, p)}) + Cardinality(Active(s)) < writers}

TwoLanes_Mutant(pk, writers, s) ==
  {p \in Available(pk, s) :
     Cardinality({q \in Available(pk, s) \cup Active(s) :
                    /\ pk[q].executor = pk[p].executor
                    /\ q < p \/ q \in Active(s)}) < writers}

\* package_schedule_v5: in the order of identifiers, one package of Sol's at a
\* time and as many of Luna's as there are writers.
TwoLanes(pk, writers, s) ==
  LET ahead(p) == {q \in Available(pk, s) : q < p /\ pk[q].executor = pk[p].executor}
      busy(p) == {q \in Active(s) : pk[q].executor = pk[p].executor}
  IN {p \in Available(pk, s) :
        Cardinality(ahead(p)) + Cardinality(busy(p))
          < IF pk[p].executor = "SOL" THEN 1 ELSE writers}

\* One round of the event loop: start what may start, go to the next end.
Round(pk, s, started) ==
  LET ends == [p \in DOMAIN s.ends \cup started |->
                 IF p \in started THEN s.now + pk[p].seconds ELSE s.ends[p]]
      active == DOMAIN ends \ s.done
      next == Min({ends[p] : p \in active})
  IN IF active = {} THEN s
     ELSE [now |-> next, ends |-> ends, done |-> s.done \cup {p \in active : ends[p] = next}]

Simulated(pk, Starts(_)) ==
  LET after[n \in 0..Cardinality(DOMAIN pk)] ==
        IF n = 0 THEN [now |-> 0, ends |-> [p \in {} |-> 0], done |-> {}]
        ELSE LET s == after[n - 1] IN Round(pk, s, Starts(s))
  IN after[Cardinality(DOMAIN pk)]

schedule_v4(pk, writers) == Simulated(pk, LAMBDA s : LongestFirst(pk, writers, s))
schedule_v5(pk, writers) == Simulated(pk, LAMBDA s : TwoLanes(pk, writers, s))

\* What either loop raises on: packages that wait for each other are never done.
HasCycle(pk, s) == s.done # DOMAIN pk

Makespan(s) == Max({s.ends[p] : p \in DOMAIN s.ends})
Serial(pk) == SumOf(pk, LAMBDA p : p.seconds)

-----------------------------------------------------------------------------
(* What the route evaluation takes from a schedule. *)

Busy(pk, s, executor) ==
  {<<s.ends[p] - pk[p].seconds, s.ends[p]>> : p \in {q \in DOMAIN pk : pk[q].executor = executor}}

\* _interval_union runs Luna's intervals together; Sol's do not meet.
Overlap(pk, s) ==
  LET pairs == Busy(pk, s, "SOL") \X Range(_merged(Busy(pk, s, "LUNA")))
  IN  SumFunctionOnSet([x \in pairs |-> Shared(x[1], x[2])], pairs)

\* The mode of the controller: "queue" are the items that wait for it, or None.
controller_mode(pk, s, queue) ==
  IF Overlap(pk, s) > 0 THEN "COMPLEMENTARY_PARALLEL"
  ELSE IF \E p \in DOMAIN pk : pk[p].executor = "SOL" THEN "SEQUENTIAL_HANDOFF"
  ELSE IF queue = 0 THEN "WAIT_ALLOWED"
  ELSE "CONTROLLER_QUEUE_PENDING"

LunaCritical(pk) == {p \in DOMAIN pk : pk[p].executor = "LUNA" /\ pk[p].critical}

allocation_shape(pk) ==
  [p \in DOMAIN pk |-> [executor |-> pk[p].executor, depends_on |-> pk[p].depends_on,
                        critical |-> pk[p].critical, writable |-> pk[p].writable,
                        acceptance |-> pk[p].acceptance]]

Baseline(pk) ==
  [p \in DOMAIN pk |-> [base_credits |-> pk[p].base_credits, base_seconds |-> pk[p].base_seconds,
                        depends_on |-> pk[p].depends_on, critical |-> pk[p].critical,
                        writable |-> pk[p].writable, acceptance |-> pk[p].acceptance]]

Credits(pk) == SumOf(pk, LAMBDA p : p.credits)
ExpectedRecoveryCredits(pk) ==
  SumOf(pk, LAMBDA p : p.repair * p.repair_credits + p.terminal * p.terminal_credits)
ExpectedRecoverySeconds(pk) ==
  SumOf(pk, LAMBDA p : p.repair * p.repair_seconds + p.terminal * p.terminal_seconds)

\* One repair and one terminal recovery of every package, and after each of them
\* the packages downstream once more.
MaximumRecoveryCredits(pk) ==
  SumFunction([p \in DOMAIN pk |-> pk[p].repair_credits + pk[p].terminal_credits
                 + 2 * SumOfSome(pk, Downstream(pk, p), LAMBDA d : d.credits)])
MaximumRecoverySeconds(pk) ==
  SumFunction([p \in DOMAIN pk |-> pk[p].repair_seconds + pk[p].terminal_seconds
                 + 2 * SumOfSome(pk, Downstream(pk, p), LAMBDA d : d.seconds)])

\* Union bounds over the packages, in percent.
FirstPass(pk) == Max({0, 100 - SumOf(pk, LAMBDA p : 100 - p.first)})
FinalDefect(pk) == Min({100, SumOf(pk, LAMBDA p : p.defect + p.terminal)})
=============================================================================
