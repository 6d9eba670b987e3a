--------------------------- MODULE NetSubstitution ---------------------------
(***************************************************************************)
(* net_substitution.py: which packages of a plan Luna should take over.    *)
(* Every subset of the packages is scheduled with every number of writers, *)
(* where a writer that stays in its domain keeps its context, and of the   *)
(* subsets that pass the gates the one with the greatest net substitution  *)
(* is selected.                                                            *)
(*                                                                         *)
(* Abstraction.  As in Schedule; a duration is the whole Luna duration of  *)
(* a package, its expected repair and recovery included.                   *)
(***************************************************************************)
EXTENDS Schedule

\* The loop of _schedule: what is done when, by which writer in which context.
Start == [now |-> 0, ends |-> [p \in {} |-> 0], begins |-> [p \in {} |-> 0], done |-> {},
          writer |-> [p \in {} |-> 0], fresh |-> {}]

ReadyPackages(pk, s) == {p \in DOMAIN pk \ DOMAIN s.ends : pk[p].depends_on \subseteq s.done}

\* The domain a writer worked in last; none before its first package.
DomainOf(pk, s, w) ==
  LET mine == {p \in DOMAIN s.writer : s.writer[p] = w}
  IN  {pk[p].domain : p \in {q \in mine : \A r \in mine : s.begins[r] <= s.begins[q]}}

Idle_writers(luna, writers, s) ==
  (1..writers) \ {s.writer[p] : p \in (luna \cap DOMAIN s.ends) \ s.done}

\* A dictionary with one more entry.
With(f, p, value) == [q \in DOMAIN f \cup {p} |-> IF q = p THEN value ELSE f[q]]

Placed(s, p, seconds) ==
  [s EXCEPT !.ends = With(@, p, s.now + seconds), !.begins = With(@, p, s.now)]

\* One package of the sorted list of those ready: a writer that knows the domain, or
\* the first that is free; Sol takes what is not Luna's.
Assign(pk, luna, writers, s, p) ==
  LET free == Idle_writers(luna, writers, s)
      same == {w \in free : pk[p].domain \in DomainOf(pk, s, w)}
      w == Min(IF same # {} THEN same ELSE free)
      context == IF same # {} THEN pk[p].retained_seconds ELSE pk[p].context_seconds
  IN IF p \in luna
       THEN IF free = {} THEN s
            ELSE [Placed(s, p, pk[p].seconds + context)
                    EXCEPT !.writer = With(@, p, w),
                           !.fresh = @ \cup IF same # {} THEN {} ELSE {p}]
     ELSE IF (DOMAIN s.ends \ s.done) \ luna # {} THEN s
     ELSE Placed(s, p, pk[p].base_seconds)

\* The packages in the order of their identifiers.
InTurn(S) ==
  [i \in 1..Cardinality(S) |-> CHOOSE p \in S : Cardinality({q \in S : q < p}) = i - 1]

\* The packages that are ready, offered one after the other.
Assigned(pk, luna, writers, s) ==
  LET ready == InTurn(ReadyPackages(pk, s))
      after[i \in 0..Len(ready)] ==
        IF i = 0 THEN s ELSE Assign(pk, luna, writers, after[i - 1], ready[i])
  IN  after[Len(ready)]

\* Assign what may start, then go to the next end and complete what ends there.
NetRound(pk, luna, writers, s) ==
  LET t == Assigned(pk, luna, writers, s)
      next == Min({t.ends[p] : p \in DOMAIN t.ends \ t.done})
  IN IF DOMAIN t.ends = t.done THEN t
     ELSE [t EXCEPT !.now = next, !.done = {p \in DOMAIN t.ends : t.ends[p] <= next}]

net_schedule(pk, luna, writers) ==
  LET after[n \in 0..Cardinality(DOMAIN pk)] ==
        IF n = 0 THEN Start ELSE NetRound(pk, luna, writers, after[n - 1])
  IN after[Cardinality(DOMAIN pk)]

-----------------------------------------------------------------------------
(* _candidate and evaluate: credits in hundredths *)

Expected(pk, S, Of(_)) == SumOfSome(pk, S, Of)

Baseline_credits(pk) == Expected(pk, DOMAIN pk, LAMBDA p : 100 * p.base_credits)

ContextCredits(pk, s) ==
  MapThenSumSet(LAMBDA p : 100 * IF p \in s.fresh THEN pk[p].context_credits
                                                  ELSE pk[p].retained_credits, DOMAIN s.writer)

SolOverhead(pk, luna) == Expected(pk, luna, LAMBDA p : 100 * p.overhead_credits)
Replay(pk, luna) == Expected(pk, luna, LAMBDA p : p.replay * p.base_credits)
Retained_credits(pk, luna) == Expected(pk, DOMAIN pk \ luna, LAMBDA p : 100 * p.base_credits)

\* Repairs and terminal recoveries, all of them or those that Sol does.
Recovery(pk, luna, actors) ==
  Expected(pk, luna, LAMBDA p :
    (IF p.repair_actor \in actors THEN p.repair * p.repair_credits ELSE 0)
    + (IF p.terminal_actor \in actors THEN p.terminal * p.terminal_credits ELSE 0))

expected_total(pk, luna, s) ==
  Retained_credits(pk, luna) + Expected(pk, luna, LAMBDA p : 100 * p.credits)
    + ContextCredits(pk, s) + SolOverhead(pk, luna) + Recovery(pk, luna, {"SOL", "LUNA"})
    + Replay(pk, luna)

sol_labor(pk, luna) ==
  Retained_credits(pk, luna) + SolOverhead(pk, luna) + Recovery(pk, luna, {"SOL"}) + Replay(pk, luna)

\* The gates: config holds the floors and ceilings, in percent.
Eligible(pk, luna, writers, config) ==
  LET s == net_schedule(pk, luna, writers)
      base == Baseline_credits(pk)
  IN /\ Max({0, 100 - Expected(pk, luna, LAMBDA p : 100 - p.first)}) >= config.first
     /\ Min({100, Expected(pk, luna, LAMBDA p : p.defect)}) <= config.defect
     /\ 100 * (base - expected_total(pk, luna, s)) >= config.savings * base
     /\ 100 * (base - sol_labor(pk, luna)) >= config.labor * base
     /\ 100 * (SolOverhead(pk, luna) + ContextCredits(pk, s))
          <= config.burden * Expected(pk, luna, LAMBDA p : 100 * p.base_credits)
     /\ s.now + Expected(pk, luna, LAMBDA p : p.overhead_seconds)
          <= Expected(pk, DOMAIN pk, LAMBDA p : p.base_seconds)

Net(pk, c) ==
  LET s == net_schedule(pk, c.luna, c.writers)
      total == expected_total(pk, c.luna, s)
      labor == sol_labor(pk, c.luna)
  IN <<0 - Max({total, labor}), 0 - total, 0 - labor,
       0 - (s.now + Expected(pk, c.luna, LAMBDA p : p.overhead_seconds)), 0 - c.writers>>

\* The candidates that may be selected: what is left of ties goes by identifiers.
net_selected(pk, config) ==
  LET all == {c \in [luna : (SUBSET DOMAIN pk) \ {{}}, writers : 1..config.writers] :
                Eligible(pk, c.luna, c.writers, config)}
      rated == {[candidate |-> c, net |-> Net(pk, c)] : c \in all}
      above(k, l) == \E i \in 1..5 : k[i] > l[i] /\ \A j \in 1..i - 1 : k[j] = l[j]
  IN {x.candidate : x \in {y \in rated : ~\E z \in rated : above(z.net, y.net)}}
=============================================================================
