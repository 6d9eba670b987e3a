-------------------------- MODULE FrontierSchedules --------------------------
(***************************************************************************)
(* The schedules that routing_policy.py and net_substitution.py expect of  *)
(* the plan that a frontier document declares: the same packages and       *)
(* dependencies, before any of them has started.                           *)
(***************************************************************************)
EXTENDS Frontier, NetSubstitution

CONSTANTS Writers,   \* numbers of Luna writers a request may ask for
          Config     \* the gates of net_substitution.py

ASSUME SchedulesAssumption ==
  /\ Writers \subseteq Nat \ {0}
  /\ Config \in [first : 0..100, defect : 0..100, savings : 0..100, labor : 0..100,
                 burden : 0..100, writers : Nat \ {0}]

\* A package as the estimators read it.  A new context takes two seconds, a retained
\* one none, and Sol is half as fast.
Estimated ==
  [p \in Packages |->
     [executor |-> package[p].executor, depends_on |-> dependencies[p],
      critical |-> package[p].critical_path, writable |-> {p}, acceptance |-> {p},
      domain |-> package[p].domain_id, seconds |-> package[p].expected_seconds,
      base_seconds |-> 2 * package[p].expected_seconds, base_credits |-> 20,
      credits |-> 5, context_seconds |-> 2, retained_seconds |-> 0,
      context_credits |-> 2, retained_credits |-> 0, overhead_credits |-> 1,
      overhead_seconds |-> 0, first |-> 95, repair |-> 5, terminal |-> 0, defect |-> 0,
      replay |-> 5, repair_credits |-> 4, terminal_credits |-> 0, repair_actor |-> "SOL",
      terminal_actor |-> "SOL"]]

-----------------------------------------------------------------------------
(* The reference: what any schedule that never waits without need does.    *)

\* Work from begins to ends, where a lane holds lanes[p] packages at a time.
IsGreedy(pk, begins, ends, lane, capacity) ==
  LET at(t, l) == {p \in DOMAIN pk : lane[p] = l /\ begins[p] <= t /\ t < ends[p]}
      free(t, p) == Cardinality(at(t, lane[p])) < capacity[lane[p]]
      after(p) == {ends[d] : d \in pk[p].depends_on}
      times == 0..Max({ends[p] : p \in DOMAIN pk})
  IN /\ \A p \in DOMAIN pk : \A end \in after(p) : end <= begins[p]
     /\ \A t \in times : \A l \in DOMAIN capacity : Cardinality(at(t, l)) <= capacity[l]
     /\ \A t \in times : \A p \in DOMAIN pk :
          free(t, p) /\ (\A end \in after(p) : end <= t) => begins[p] <= t

LaneOf(pk) == [p \in DOMAIN pk |-> pk[p].executor]
Lanes(writers) == [l \in {"SOL", "LUNA"} |-> IF l = "SOL" THEN 1 ELSE writers]

ScheduleIsExact(pk, s, lane, capacity) ==
  LET begins == [p \in DOMAIN pk |-> s.ends[p] - pk[p].seconds]
  IN /\ HasCycle(pk, s) <=> ~IsAcyclic
     /\ IsAcyclic => IsGreedy(pk, begins, s.ends, lane, capacity)

OverlapMatches(pk, s) ==
  LET busy(l, t) == \E p \in DOMAIN pk : /\ pk[p].executor = l
                                         /\ s.ends[p] - pk[p].seconds <= t /\ t < s.ends[p]
  IN Overlap(pk, s) = Cardinality({t \in 0..Makespan(s) : busy("SOL", t) /\ busy("LUNA", t)})

\* A writer works on one package at a time, and keeps its context when the last
\* package it did was of the same domain.
ContextsAreKept(pk, s) ==
  \A p \in DOMAIN s.writer :
    LET earlier == {q \in DOMAIN s.writer : s.writer[q] = s.writer[p] /\ s.begins[q] < s.begins[p]}
        last == {q \in earlier : \A r \in earlier : s.begins[r] <= s.begins[q]}
    IN /\ \A q \in earlier : s.ends[q] <= s.begins[p]
       /\ p \in s.fresh <=> \A q \in last : pk[q].domain # pk[p].domain

NetIsExact(pk, luna, writers) ==
  LET s == net_schedule(pk, luna, writers)
      lane == [p \in DOMAIN pk |-> IF p \in luna THEN "LUNA" ELSE "SOL"]
  IN /\ IsGreedy(pk, s.begins, s.ends, lane, Lanes(writers))
     /\ ContextsAreKept(pk, s)

Untouched == queues = NothingPlanned /\ \A p \in Packages : status[p] = "PENDING"

\* For every plan and every choice of Luna's packages: each estimator's schedule
\* keeps the dependencies, Sol's single lane and the number of writers, leaves no
\* writer idle that could work, refuses exactly the circular plans, counts the
\* seconds in which Sol and Luna both work, and keeps a writer's context exactly
\* while it stays in a domain; what is then selected is not slower than Sol alone.
SchedulesAreExact ==
  Untouched =>
    LET chosen(luna) ==
          [p \in Packages |-> [Estimated[p] EXCEPT !.executor = IF p \in luna THEN "LUNA" ELSE "SOL"]]
    IN /\ \A w \in Writers :
            /\ ScheduleIsExact(Estimated, schedule_v4(Estimated, w),
                               [p \in Packages |-> "ALL"], [l \in {"ALL"} |-> w])
            /\ \A luna \in (SUBSET Packages) \ {{}} :
                 LET pk == chosen(luna)
                     s == schedule_v5(pk, w)
                 IN /\ ScheduleIsExact(pk, s, LaneOf(pk), Lanes(w))
                    /\ IsAcyclic => OverlapMatches(pk, s) /\ NetIsExact(pk, luna, w)
       /\ IsAcyclic => \A c \in net_selected(Estimated, Config) :
            Max({net_schedule(Estimated, c.luna, c.writers).ends[p] : p \in Packages})
              <= SumOf(Estimated, LAMBDA p : p.base_seconds)
=============================================================================
