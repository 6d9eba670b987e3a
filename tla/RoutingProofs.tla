---------------------------- MODULE RoutingProofs ----------------------------
(***************************************************************************)
(* The evidence ledger and the route evaluation.  For any number of append *)
(* commands that overlap or are killed, the lock makes what a command has  *)
(* loaded the ledger as it stands, and a validated record is one that      *)
(* load_records takes.  What the evaluation recommends is earned by        *)
(* records of that ledger, and a cold start that it selects is affordable  *)
(* however its packages fail.                                              *)
(***************************************************************************)
EXTENDS Routing, SequenceTheorems, FiniteSetTheorems, WellFoundedInduction, TLAPS

\* Whatever may be in a ledger.
AnyRecord == (UNION {Range(l) : l \in Ledgers}) \cup {validate_record(d) : d \in Documents}

\* What a command that holds the lock is about to do.
Holds(p) ==
  /\ lock = p
  /\ cmd[p].step \in {"locked", "loaded", "written"}
  /\ cmd[p].step \in {"locked", "loaded"} => Admissible(cmd[p].record) /\ cmd[p].record \in AnyRecord
  /\ cmd[p].step = "loaded" =>
       /\ cmd[p].records = ledger
       /\ Loads(ledger) /\ IsNew(cmd[p].record, ledger)

Inv ==
  /\ ledger \in Seq(AnyRecord)
  /\ DOMAIN cmd = Procs
  /\ \A p \in Procs : cmd[p] = Idle \/ Holds(p)

\* A record that validate_record returns is one it lets pass: reading the ledger
\* back does not refuse what a command has just written.
LEMMA ValidatedRecordsLoad ==
  ASSUME NEW d \in Documents, Admissible(d)
  PROVE  Admissible(validate_record(d))
<1> DEFINE r == validate_record(d)
<1>1. Fields \subseteq DOMAIN d /\ None \notin Nat
  BY LedgerAssumption
<1>2. /\ r.schema_version = 5
      /\ r.upgraded_from = IF d.schema_version < 5 THEN d.schema_version ELSE d.upgraded_from
      /\ \A f \in Fields \ {"schema_version", "upgraded_from"} : r[f] = d[f]
  BY <1>1 DEF validate_record, Fields, SCHEMA_VERSION
<1>3. d.schema_version \in 1..5
  BY DEF Admissible, SchemaIsReadable, SCHEMA_VERSION
<1>4. SchemaIsReadable(r)
  BY <1>2, <1>3 DEF Admissible, SchemaIsReadable, SCHEMA_VERSION
<1>5. LegacySchema(r) <=> LegacySchema(d)
  BY <1>1, <1>2, <1>3 DEF LegacySchema, SCHEMA_VERSION
<1> HIDE DEF r
<1>6. /\ r.route = d.route /\ r.outcome = d.outcome /\ r.suite = d.suite
      /\ r.independent_acceptance = d.independent_acceptance
      /\ r.failure_class = d.failure_class /\ r.candidate = d.candidate
      /\ r.mode = d.mode /\ r.sol_model = d.sol_model /\ r.luna_model = d.luna_model
      /\ r.effort = d.effort /\ r.credits = d.credits /\ r.kind = d.kind
      /\ r.credit_source = d.credit_source /\ r.credit_uncertainty = d.credit_uncertainty
      /\ r.tokens = d.tokens /\ r.token_source = d.token_source
      /\ r.token_uncertainty = d.token_uncertainty
      /\ r.verification = d.verification /\ r.receipt = d.receipt /\ r.window = d.window
      /\ r.phase_seconds = d.phase_seconds /\ r.phase_credits = d.phase_credits
      /\ r.elapsed = d.elapsed /\ r.repair_rounds = d.repair_rounds
      /\ r.extra_repair_basis = d.extra_repair_basis
  BY <1>2 DEF Fields
<1>7. OutcomeIsSupported(r)
  BY <1>6 DEF Admissible, OutcomeIsSupported
<1>8. MatchedIsComplete(r)
  <2>1. \A f \in {"pair", "campaign", "suite_digest", "task", "policy", "first_pass",
                   "elapsed"} : r[f] = d[f]
    BY <1>2 DEF Fields
  <2> QED
    BY <1>5, <1>6, <2>1 DEF Admissible, MatchedIsComplete
<1>9. TokensAreBound(r) /\ CreditsAreBound(r)
  BY <1>6 DEF Admissible, TokensAreBound, CreditsAreBound
<1>10. PhasesAddUp(r)
  BY <1>5, <1>6 DEF Admissible, PhasesAddUp, RequiredPhases
<1> QED
  BY <1>4, <1>6, <1>7, <1>8, <1>9, <1>10 DEF Admissible, r

\* A new record keeps a ledger one that loads.
LEMMA NewRecordsKeepTheLedger ==
  ASSUME NEW q \in Seq(AnyRecord), NEW r \in AnyRecord, Loads(q), IsNew(r, q), Admissible(r)
  PROVE  Loads(Append(q, r)) /\ IsPrefix(q, Append(q, r)) /\ Len(Append(q, r)) > Len(q)
<1> DEFINE n == Len(q)
           t == Append(q, r)
<1>1. /\ n \in Nat /\ DOMAIN q = 1..n /\ DOMAIN t = 1..(n + 1) /\ Len(t) = n + 1
      /\ t[n + 1] = r /\ \A i \in 1..n : t[i] = q[i]
  OBVIOUS
<1>2. SubSeq(t, 1, n) = SubSeq(q, 1, n)
  BY <1>1
<1> HIDE DEF n, t
<1>3. \A i \in DOMAIN t : Admissible(t[i])
  BY <1>1 DEF Loads
<1>4. ASSUME NEW i \in DOMAIN t, NEW j \in DOMAIN t, i # j, t[i].receipt # None
      PROVE  t[i].receipt # t[j].receipt
  <2>1. CASE i = n + 1
    BY <1>1, <1>4, <2>1 DEF IsNew
  <2>2. CASE j = n + 1
    <3>1. i \in DOMAIN q /\ t[i] = q[i] /\ t[j] = r
      BY <1>1, <1>4, <2>2
    <3>2. r.receipt # None => q[i].receipt # r.receipt
      BY <3>1 DEF IsNew
    <3> QED
      BY <1>4, <3>1, <3>2
  <2>3. CASE i # n + 1 /\ j # n + 1
    BY <1>1, <1>4, <2>3 DEF Loads
  <2> QED
    BY <2>1, <2>2, <2>3
<1>5. Loads(t)
  BY <1>3, <1>4 DEF Loads
<1>6. IsPrefix(q, t)
  BY <1>1, <1>2 DEF IsPrefix, n
<1> QED
  BY <1>1, <1>5, <1>6 DEF n, t

\* What one append command does.
LEMMA AppendStep ==
  ASSUME Inv, NEW p \in Procs, Appends(p)
  PROVE  /\ Inv'
         /\ ledger' # ledger =>
              Len(ledger') > Len(ledger) /\ IsPrefix(ledger, ledger') /\ Loads(ledger')
<1>1. ASSUME NEW c, cmd' = [cmd EXCEPT ![p] = c]
      PROVE  /\ DOMAIN cmd' = Procs /\ cmd'[p] = c
             /\ \A q \in Procs \ {p} : cmd'[q] = cmd[q]
  BY <1>1 DEF Inv
<1>2. Free \notin Procs /\ Idle.step = "idle"
  BY LedgerAssumption DEF Idle
<1>3. CASE Take(p)
  <2>1. PICK d \in Documents :
          /\ Admissible(d)
          /\ cmd' = [cmd EXCEPT ![p] = [step |-> "locked", record |-> validate_record(d)]]
    BY <1>3 DEF Take
  <2>2. Admissible(validate_record(d)) /\ validate_record(d) \in AnyRecord
    BY <2>1, ValidatedRecordsLoad DEF AnyRecord
  <2>3. lock = Free /\ lock' = p /\ ledger' = ledger
    BY <1>3 DEF Take, LockIsFree
  <2>4. Holds(p)'
    BY <1>1, <2>1, <2>2, <2>3 DEF Holds
  <2>5. \A q \in Procs \ {p} : cmd'[q] = Idle
    BY <1>1, <1>2, <2>1, <2>3 DEF Inv, Holds
  <2> QED
    BY <1>1, <2>1, <2>3, <2>4, <2>5 DEF Inv
<1>4. CASE Load(p)
  <2>1. cmd[p].step = "locked" /\ ledger' = ledger /\ Holds(p)
    BY <1>2, <1>4 DEF Load, Inv
  <2>2. \A q \in Procs \ {p} : cmd[q] = Idle
    BY <2>1 DEF Inv, Holds
  <2>3. CASE Loads(ledger) /\ IsNew(cmd[p].record, ledger)
    <3>1. /\ cmd' = [cmd EXCEPT ![p] = [step |-> "loaded", record |-> cmd[p].record,
                                        records |-> ledger]]
          /\ lock' = lock
      BY <1>4, <2>3 DEF Load
    <3>2. Holds(p)'
      BY <1>1, <2>1, <2>3, <3>1 DEF Holds
    <3> QED
      BY <1>1, <2>1, <2>2, <3>1, <3>2 DEF Inv
  <2>4. CASE ~(Loads(ledger) /\ IsNew(cmd[p].record, ledger))
    <3>1. cmd' = [cmd EXCEPT ![p] = Idle]
      BY <1>4, <2>4 DEF Load
    <3> QED
      BY <1>1, <2>1, <2>2, <3>1 DEF Inv
  <2> QED
    BY <2>3, <2>4
<1>5. CASE Replace(p)
  <2>1. /\ cmd[p].step = "loaded" /\ Holds(p) /\ lock' = lock
        /\ cmd' = [cmd EXCEPT ![p] = [step |-> "written", record |-> cmd[p].record]]
    BY <1>2, <1>5 DEF Replace, Inv
  <2>2. \A q \in Procs \ {p} : cmd[q] = Idle
    BY <2>1 DEF Inv, Holds
  <2>3. ledger' = Append(ledger, cmd[p].record) /\ cmd[p].record \in AnyRecord
    BY <1>5, <2>1 DEF Replace, Holds
  <2>4. ledger' \in Seq(AnyRecord)
    BY <2>3 DEF Inv
  <2>5. Holds(p)'
    BY <1>1, <2>1 DEF Holds
  <2>6. Len(ledger') > Len(ledger) /\ IsPrefix(ledger, ledger') /\ Loads(ledger')
    BY <2>1, <2>3, NewRecordsKeepTheLedger DEF Holds, Inv
  <2> QED
    BY <1>1, <2>1, <2>2, <2>4, <2>5, <2>6 DEF Inv
<1>6. CASE Return(p) \/ Die(p)
  <2>1. cmd[p] # Idle /\ cmd' = [cmd EXCEPT ![p] = Idle] /\ ledger' = ledger
    BY <1>2, <1>6 DEF Return, Die
  <2>2. \A q \in Procs \ {p} : cmd[q] = Idle
    BY <2>1 DEF Inv, Holds
  <2> QED
    BY <1>1, <2>1, <2>2 DEF Inv
<1> QED
  BY <1>3, <1>4, <1>5, <1>6 DEF Appends

\* The invariant of the ledger: at most one command is under way, and what it has
\* loaded is the ledger.
THEOREM EvidenceInvariant == Spec => []Inv
<1>1. Init => Inv
  <2> SUFFICES ASSUME Init PROVE Inv
    OBVIOUS
  <2>1. ledger \in Seq(Range(ledger)) /\ Range(ledger) \subseteq AnyRecord
    BY LedgerAssumption DEF Init, EvidenceInit, AnyRecord
  <2>2. ledger \in Seq(AnyRecord)
    BY <2>1, SeqMonotonic
  <2> QED
    BY <2>2 DEF Init, EvidenceInit, Inv
<1>2. Inv /\ [Next]_vars => Inv'
  <2> SUFFICES ASSUME Inv, [Next]_vars PROVE Inv'
    OBVIOUS
  <2>1. CASE \E p \in Procs : Appends(p)
    BY <2>1, AppendStep
  <2>2. CASE UNCHANGED <<ledger, lock, cmd>>
    BY <2>2 DEF Inv, Holds
  <2> QED
    BY <2>1, <2>2 DEF Next, Start, Consult, Evaluate, Finish, EditManifest, vars
<1> QED
  BY <1>1, <1>2, PTL DEF Spec

\* LedgerStaysWhole for any number of commands, records and kills.
THEOREM AppendsAreNotLost == Spec => LedgerStaysWhole
<1>1. Inv /\ [Next]_vars =>
        [Len(ledger') > Len(ledger) /\ IsPrefix(ledger, ledger') /\ Loads(ledger')]_ledger
  <2> SUFFICES ASSUME Inv, [Next]_vars, ledger' # ledger
               PROVE  Len(ledger') > Len(ledger) /\ IsPrefix(ledger, ledger') /\ Loads(ledger')
    OBVIOUS
  <2>1. \E p \in Procs : Appends(p)
    BY DEF Next, Start, Consult, Evaluate, Finish, EditManifest, vars
  <2> QED
    BY <2>1, AppendStep
<1> QED
  BY <1>1, EvidenceInvariant, PTL DEF Spec, LedgerStaysWhole

-----------------------------------------------------------------------------
(* Medians *)

LEMMA LeastNatural ==
  ASSUME NEW T, T \subseteq Nat, T # {}
  PROVE  \E x \in T : \A y \in T : x <= y
<1>1. \E x \in T : \A y \in T : ~(<<y, x>> \in OpToRel(<, Nat))
  BY NatLessThanWellFounded, WFMin
<1>2. \E x \in T : \A y \in T : ~(y < x)
  BY <1>1 DEF OpToRel
<1> QED
  BY <1>2

LEMMA UpToIs ==
  ASSUME NEW S, IsFiniteSet(S), NEW f \in [S -> Int], NEW v \in Int
  PROVE  /\ UpTo(f, v) \in Nat /\ UpTo(f, v) <= Cardinality(S)
         /\ UpTo(f, v) = Cardinality(S) \/ \E x \in S : v < f[x]
<1> DEFINE A == {x \in S : f[x] <= v}
<1>1. UpTo(f, v) = Cardinality(A)
  BY DEF UpTo
<1>2. IsFiniteSet(A) /\ Cardinality(A) <= Cardinality(S)
  BY FS_Subset
<1>3. Cardinality(A) \in Nat
  BY <1>2, FS_CardinalityType
<1>4. A = S \/ \E x \in S : v < f[x]
  OBVIOUS
<1> HIDE DEF A
<1> QED
  BY <1>1, <1>2, <1>3, <1>4

\* More values are up to a larger value.
LEMMA UpToGrows ==
  ASSUME NEW S, IsFiniteSet(S), NEW f \in [S -> Int], NEW v \in Int, NEW y \in S, v < f[y]
  PROVE  UpTo(f, v) < UpTo(f, f[y])
<1> DEFINE A == {x \in S : f[x] <= v}
           B == {x \in S : f[x] <= f[y]}
<1>1. UpTo(f, v) = Cardinality(A) /\ UpTo(f, f[y]) = Cardinality(B)
  BY DEF UpTo
<1>2. A \subseteq B /\ y \in B /\ y \notin A
  OBVIOUS
<1>3. IsFiniteSet(B) /\ Cardinality(B) \in Nat
  BY FS_Subset, FS_CardinalityType
<1> HIDE DEF A, B
<1>4. Cardinality(A) <= Cardinality(B) /\ Cardinality(A) # Cardinality(B) /\ Cardinality(A) \in Nat
  <2>1. IsFiniteSet(A)
    BY <1>2, <1>3, FS_Subset
  <2> QED
    BY <1>2, <1>3, <2>1, FS_Subset, FS_CardinalityType
<1> QED
  BY <1>1, <1>3, <1>4

\* A rank is a value that enough values are up to, and the least of these.
LEMMA RankIs ==
  ASSUME NEW S, IsFiniteSet(S), NEW f \in [S -> Int], NEW k \in 1..Cardinality(S)
  PROVE  /\ \E x \in S : Rank(f, k) = f[x]
         /\ UpTo(f, Rank(f, k)) >= k
         /\ \A x \in S : UpTo(f, f[x]) >= k => Rank(f, k) <= f[x]
<1> DEFINE N == Cardinality(S)
           K == {x \in S : UpTo(f, f[x]) >= k}
<1>0. N \in Nat /\ k \in Nat /\ k <= N /\ S # {}
  BY FS_CardinalityType, FS_EmptySet
<1>1. \A x \in S : UpTo(f, f[x]) \in Nat /\ UpTo(f, f[x]) <= N
  BY UpToIs
<1>2. K # {}
  <2> DEFINE D == {N - UpTo(f, f[x]) : x \in S}
  <2>1. D \subseteq Nat /\ D # {}
    BY <1>0, <1>1
  <2>2. PICK x \in S : \A y \in S : N - UpTo(f, f[x]) <= N - UpTo(f, f[y])
    <3> HIDE DEF D
    <3>1. PICK m \in D : \A d \in D : m <= d
      BY <2>1, LeastNatural
    <3> QED
      BY <3>1 DEF D
  <2>3. ~\E y \in S : f[x] < f[y]
    <3> SUFFICES ASSUME NEW y \in S, f[x] < f[y] PROVE FALSE
      OBVIOUS
    <3>1. UpTo(f, f[x]) < UpTo(f, f[y])
      BY UpToGrows
    <3> QED
      BY <1>0, <1>1, <2>2, <3>1
  <2>4. UpTo(f, f[x]) = N
    BY <2>3, UpToIs
  <2> QED
    BY <1>0, <2>4
<1>3. PICK x \in K : \A y \in K : f[x] <= f[y]
  <2> DEFINE D == {UpTo(f, f[y]) : y \in K}
  <2>1. D \subseteq Nat /\ D # {}
    BY <1>1, <1>2
  <2>2. PICK x \in K : \A y \in K : UpTo(f, f[x]) <= UpTo(f, f[y])
    <3> HIDE DEF D
    <3>1. PICK m \in D : \A d \in D : m <= d
      BY <2>1, LeastNatural
    <3> QED
      BY <3>1 DEF D
  <2>3. ASSUME NEW y \in K PROVE f[x] <= f[y]
    <3>1. f[x] \in Int /\ f[y] \in Int
      OBVIOUS
    <3>2. ASSUME f[y] < f[x] PROVE FALSE
      <4>1. UpTo(f, f[y]) < UpTo(f, f[x])
        BY <3>1, <3>2, UpToGrows
      <4> QED
        BY <1>1, <2>2, <4>1
    <3> QED
      BY <3>1, <3>2
  <2> QED
    BY <2>3
<1> DEFINE Least(v) == /\ UpTo(f, v) >= k
                       /\ \A w \in Range(f) : UpTo(f, w) >= k => v <= w
<1>4. Range(f) = {f[y] : y \in S}
  BY DEF Range
<1>5. \E v \in Range(f) : Least(v)
  BY <1>3, <1>4
<1>6. Rank(f, k) = CHOOSE v \in Range(f) : Least(v)
  BY DEF Rank
<1>7. Rank(f, k) \in Range(f) /\ Least(Rank(f, k))
  <2> HIDE DEF Least
  <2> QED
    BY <1>5, <1>6
<1> QED
  BY <1>4, <1>7

\* The two ranks of a median, in their order.
LEMMA MedianIs ==
  ASSUME NEW S, IsFiniteSet(S), S # {}, NEW f \in [S -> Int]
  PROVE  \E k, l \in 1..Cardinality(S) :
           /\ 2 * k >= Cardinality(S) /\ 2 * (l - 1) <= Cardinality(S)
           /\ Median2(f) = Rank(f, k) + Rank(f, l)
           /\ Rank(f, k) \in Int /\ Rank(f, l) \in Int /\ Rank(f, k) <= Rank(f, l)
<1> DEFINE n == Cardinality(S)
           k == (n + 1) \div 2
           l == n \div 2 + 1
<1>1. n \in Nat /\ n # 0
  BY FS_CardinalityType, FS_EmptySet
<1>2. k \in 1..n /\ l \in 1..n /\ k <= l /\ 2 * k >= n /\ 2 * (l - 1) <= n
  BY <1>1
<1>3. Median2(f) = Rank(f, k) + Rank(f, l)
  BY DEF Median2
<1> HIDE DEF n, k, l
<1>4. /\ \E x \in S : Rank(f, k) = f[x]
      /\ \A x \in S : UpTo(f, f[x]) >= k => Rank(f, k) <= f[x]
  BY <1>2, RankIs DEF n
<1>5. \E x \in S : Rank(f, l) = f[x] /\ UpTo(f, Rank(f, l)) >= l
  BY <1>2, RankIs DEF n
<1>6. PICK x \in S : Rank(f, l) = f[x] /\ UpTo(f, f[x]) >= l
  BY <1>5
<1>7. UpTo(f, f[x]) \in Nat
  BY UpToIs
<1>8. Rank(f, k) <= Rank(f, l)
  BY <1>2, <1>4, <1>6, <1>7
<1> QED
  BY <1>2, <1>3, <1>4, <1>5, <1>8 DEF n

\* At least half of the values are no larger than the median.
LEMMA LowerHalf ==
  ASSUME NEW S, IsFiniteSet(S), S # {}, NEW f \in [S -> Int], NEW v \in Int, Median2(f) <= 2 * v
  PROVE  2 * Cardinality({x \in S : f[x] <= v}) >= Cardinality(S)
<1>1. PICK k \in 1..Cardinality(S), l \in 1..Cardinality(S) :
        /\ 2 * k >= Cardinality(S)
        /\ Median2(f) = Rank(f, k) + Rank(f, l)
        /\ Rank(f, k) \in Int /\ Rank(f, l) \in Int /\ Rank(f, k) <= Rank(f, l)
  BY MedianIs
<1>2. Rank(f, k) <= v
  BY <1>1
<1> DEFINE A == {x \in S : f[x] <= Rank(f, k)}
           B == {x \in S : f[x] <= v}
<1>3. Cardinality(A) >= k
  <2>1. UpTo(f, Rank(f, k)) >= k
    BY RankIs
  <2> QED
    BY <2>1 DEF UpTo
<1>4. A \subseteq B
  BY <1>1, <1>2
<1>5. IsFiniteSet(B)
  BY FS_Subset
<1> HIDE DEF A, B
<1>6. Cardinality(A) <= Cardinality(B) /\ Cardinality(A) \in Nat /\ Cardinality(B) \in Nat
  <2>1. IsFiniteSet(A)
    BY <1>4, <1>5, FS_Subset
  <2> QED
    BY <1>4, <1>5, <2>1, FS_Subset, FS_CardinalityType
<1>7. Cardinality(S) \in Nat
  BY FS_CardinalityType
<1>8. 2 * Cardinality(B) >= Cardinality(S)
  BY <1>1, <1>3, <1>6, <1>7
<1> QED
  BY <1>8 DEF B

\* At least half of the values are no smaller than the median.
LEMMA UpperHalf ==
  ASSUME NEW S, IsFiniteSet(S), S # {}, NEW f \in [S -> Int], NEW v \in Int, Median2(f) >= 2 * v
  PROVE  2 * Cardinality({x \in S : f[x] >= v}) >= Cardinality(S)
<1> DEFINE n == Cardinality(S)
           B == {x \in S : f[x] < v}
           C == {x \in S : f[x] >= v}
           g == [x \in B |-> f[x]]
<1>1. PICK k \in 1..n, l \in 1..n :
        /\ 2 * (l - 1) <= n
        /\ Median2(f) = Rank(f, k) + Rank(f, l)
        /\ Rank(f, k) \in Int /\ Rank(f, l) \in Int /\ Rank(f, k) <= Rank(f, l)
  BY MedianIs
<1>2. v <= Rank(f, l)
  BY <1>1
<1>3. IsFiniteSet(B) /\ IsFiniteSet(C)
  BY FS_Subset
<1>4. Cardinality(B) \in Nat /\ Cardinality(C) \in Nat /\ n \in Nat
  BY <1>3, FS_CardinalityType
<1>5. Cardinality(B) + Cardinality(C) = n
  <2>1. B \cup C = S /\ B \cap C = {}
    OBVIOUS
  <2>2. Cardinality(B \cup C) = Cardinality(B) + Cardinality(C) - Cardinality(B \cap C)
    BY <1>3, FS_Union
  <2> HIDE DEF B, C
  <2>3. n = Cardinality(B \cup C) /\ Cardinality(B \cap C) = 0
    BY <2>1, FS_EmptySet
  <2> HIDE DEF n
  <2> QED
    BY <1>4, <2>2, <2>3
<1>6. ASSUME Cardinality(B) >= l PROVE FALSE
  <2> DEFINE m == Cardinality(B)
  <2>1. m \in 1..Cardinality(B) /\ g \in [B -> Int]
    BY <1>4, <1>6
  <2>2. PICK x \in B : Rank(g, m) = g[x] /\ UpTo(g, g[x]) >= m
    <3> HIDE DEF B, g, m
    <3> QED
      BY <1>3, <2>1, RankIs DEF m
  <2>3. f[x] < v /\ g[x] = f[x] /\ x \in S
    OBVIOUS
  <2>4. UpTo(f, f[x]) >= m
    <3> DEFINE G == {y \in B : g[y] <= f[x]}
               A == {y \in S : f[y] <= f[x]}
    <3>1. G \subseteq A /\ IsFiniteSet(A)
      BY FS_Subset
    <3>2. UpTo(g, f[x]) = Cardinality(G) /\ UpTo(f, f[x]) = Cardinality(A)
      BY DEF UpTo
    <3> HIDE DEF G, A
    <3>3. Cardinality(G) <= Cardinality(A) /\ Cardinality(G) \in Nat /\ Cardinality(A) \in Nat
      <4>1. IsFiniteSet(G)
        BY <3>1, FS_Subset
      <4> QED
        BY <3>1, <4>1, FS_Subset, FS_CardinalityType
    <3>4. Cardinality(G) >= m
      BY <2>2, <2>3, <3>2
    <3> HIDE DEF m
    <3>5. m \in Nat
      BY <1>4 DEF m
    <3> QED
      BY <3>2, <3>3, <3>4, <3>5
  <2>5. UpTo(f, f[x]) \in Nat
    BY <2>3, UpToIs
  <2>6. Rank(f, l) <= f[x]
    <3>1. \A y \in S : UpTo(f, f[y]) >= l => Rank(f, l) <= f[y]
      BY RankIs
    <3> QED
      BY <1>4, <1>6, <2>3, <2>4, <2>5, <3>1
  <2> QED
    BY <1>1, <1>2, <2>3, <2>6
<1> HIDE DEF B, C, n
<1>7. 2 * Cardinality(C) >= n
  BY <1>1, <1>4, <1>5, <1>6
<1> QED
  BY <1>7 DEF C, n

-----------------------------------------------------------------------------
(* Matched pairs *)

LEMMA TwoMembers ==
  ASSUME NEW T, IsFiniteSet(T), Cardinality(T) = 2, NEW a \in T, NEW b \in T, a # b
  PROVE  T = {a, b}
<1> DEFINE A == {a}
           B == A \cup {b}
<1>1. IsFiniteSet(A) /\ Cardinality(A) = 1
  BY FS_Singleton
<1>2. b \notin A
  OBVIOUS
<1>3. B = {a, b} /\ B \subseteq T
  OBVIOUS
<1> HIDE DEF A
<1>4. Cardinality(B) = 2
  <2>1. Cardinality(A \cup {b}) = IF b \in A THEN Cardinality(A) ELSE Cardinality(A) + 1
    BY <1>1, FS_AddElement
  <2> QED
    BY <1>1, <1>2, <2>1
<1> HIDE DEF B
<1>5. B \in SUBSET T /\ Cardinality(T) = Cardinality(B)
  BY <1>3, <1>4
<1>6. T = B
  BY <1>5, FS_Subset
<1> QED
  BY <1>3, <1>6

\* A pair is the two runs of a group.
LEMMA PairsAreGroups ==
  ASSUME NEW S, IsFiniteSet(S), NEW family, NEW p \in Pairs(S, family)
  PROVE  /\ \E g : Members(S, family, g) = {p.sol, p.luna}
         /\ p.sol.route = "SOL_ONLY" /\ p.luna.route = "SOL_LUNA"
         /\ p = [sol |-> p.sol, luna |-> p.luna] /\ Comparable(p)
<1> DEFINE Arm(g, route_name) == CHOOSE r \in Members(S, family, g) : r.route = route_name
<1>1. PICK g : /\ Cardinality(Members(S, family, g)) = 2
               /\ {r.route : r \in Members(S, family, g)} = ROUTES
               /\ p = [sol |-> Arm(g, "SOL_ONLY"), luna |-> Arm(g, "SOL_LUNA")]
               /\ Comparable(p)
  BY DEF Pairs
<1>2. \E r \in Members(S, family, g) : r.route = "SOL_ONLY"
  BY <1>1 DEF ROUTES
<1>3. \E r \in Members(S, family, g) : r.route = "SOL_LUNA"
  BY <1>1 DEF ROUTES
<1>4. Arm(g, "SOL_ONLY") \in Members(S, family, g) /\ Arm(g, "SOL_ONLY").route = "SOL_ONLY"
  BY <1>2
<1>5. Arm(g, "SOL_LUNA") \in Members(S, family, g) /\ Arm(g, "SOL_LUNA").route = "SOL_LUNA"
  BY <1>3
<1> HIDE DEF Arm
<1>6. p.sol = Arm(g, "SOL_ONLY") /\ p.luna = Arm(g, "SOL_LUNA")
  BY <1>1
<1>7. IsFiniteSet(Members(S, family, g))
  <2>1. Members(S, family, g) \subseteq S
    BY DEF Members
  <2> QED
    BY <2>1, FS_Subset
<1>8. Members(S, family, g) = {p.sol, p.luna}
  <2>1. p.sol # p.luna /\ p.sol \in Members(S, family, g) /\ p.luna \in Members(S, family, g)
    BY <1>4, <1>5, <1>6
  <2> QED
    BY <1>1, <1>7, <2>1, TwoMembers
<1>9. p.sol.route = "SOL_ONLY" /\ p.luna.route = "SOL_LUNA"
  BY <1>4, <1>5, <1>6
<1>10. p = [sol |-> p.sol, luna |-> p.luna] /\ Comparable(p)
  BY <1>1, <1>6
<1> QED
  BY <1>8, <1>9, <1>10

\* A percentage rounded down is at least v only if the fraction is.
LEMMA Percentages ==
  ASSUME NEW sol \in Nat, NEW luna \in Nat, sol > 0, NEW v \in Int
  PROVE  /\ (100 * (sol - luna)) \div sol \in Int
         /\ (100 * (sol - luna)) \div sol >= v => 100 * luna <= (100 - v) * sol
<1> DEFINE a == 100 * (sol - luna)
           q == a \div sol
<1>1. a \in Int /\ q \in Int
  OBVIOUS
<1>2. a = q * sol + (a % sol) /\ a % sol \in Int /\ a % sol >= 0
  BY <1>1
<1>3. ASSUME q >= v PROVE q * sol >= v * sol
  BY <1>1, <1>3
<1>4. (100 - v) * sol = 100 * sol - v * sol
  OBVIOUS
<1>5. q * sol \in Int /\ v * sol \in Int
  BY <1>1
<1>6. a = 100 * sol - 100 * luna
  OBVIOUS
<1> HIDE DEF q, a
<1>7. ASSUME q >= v PROVE 100 * luna <= 100 * sol - v * sol
  BY <1>2, <1>3, <1>5, <1>6, <1>7
<1> QED
  BY <1>1, <1>4, <1>7 DEF q, a

\* The amounts of the records of a ledger are numbers, where there are any.
LEMMA AmountsAreNumbers ==
  ASSUME NEW r \in AnyRecord
  PROVE  r.credits \in Nat \cup {None} /\ r.elapsed \in Nat \cup {None}
<1>1. CASE \E l \in Ledgers : r \in Range(l)
  BY <1>1, LedgerAssumption
<1>2. ASSUME NEW d \in Documents, r = validate_record(d)
      PROVE  r.credits \in Nat \cup {None} /\ r.elapsed \in Nat \cup {None}
  <2>1. r.credits = d.credits /\ r.elapsed = d.elapsed
    BY <1>2, LedgerAssumption DEF validate_record, Fields
  <2> QED
    BY <2>1, LedgerAssumption
<1> QED
  BY <1>1, <1>2 DEF AnyRecord

\* The runs of a ledger as the set that the statistics read.
RunsOf(runs) == {runs[i] : i \in DOMAIN runs}

\* The positions of a verified pair of a ledger that loads.
LEMMA VerifiedRunsAreMatched ==
  ASSUME NEW runs, NEW n \in Nat, DOMAIN runs = 1..n, Loads(runs), NEW family,
         NEW p \in Pairs(RunsOf(runs), family), p.sol.policy = CurrentPolicy,
         IndependentlyVerified(p.sol, Index), IndependentlyVerified(p.luna, Index)
  PROVE  \E q \in Matched(runs, family) : runs[q[1]] = p.sol /\ runs[q[2]] = p.luna
<1>1. IsFiniteSet(RunsOf(runs))
  <2> DEFINE F == [i \in 1..n |-> runs[i]]
  <2>1. F \in Surjection(1..n, RunsOf(runs))
    BY DEF RunsOf, Surjection
  <2>2. IsFiniteSet(1..n)
    BY FS_Interval
  <2> HIDE DEF F
  <2> QED
    BY <2>1, <2>2, FS_Surjection
<1>2. /\ \E g : Members(RunsOf(runs), family, g) = {p.sol, p.luna}
      /\ p.sol.route = "SOL_ONLY" /\ p.luna.route = "SOL_LUNA"
      /\ Comparable(p)
  BY <1>1, PairsAreGroups
<1>3. PICK g : Members(RunsOf(runs), family, g) = {p.sol, p.luna}
  BY <1>2
<1>4. /\ p.sol \in RunsOf(runs) /\ p.sol.task_family = family /\ <<p.sol.campaign, p.sol.pair>> = g
      /\ p.luna \in RunsOf(runs) /\ p.luna.task_family = family /\ <<p.luna.campaign, p.luna.pair>> = g
      /\ \A r \in RunsOf(runs) :
           r.task_family = family /\ <<r.campaign, r.pair>> = g => r \in {p.sol, p.luna}
  BY <1>3 DEF Members
<1>5. PICK i \in DOMAIN runs : runs[i] = p.sol
  BY <1>4 DEF RunsOf
<1>6. PICK j \in DOMAIN runs : runs[j] = p.luna
  BY <1>4 DEF RunsOf
<1>7. p.sol.receipt # None /\ p.luna.receipt # None
  BY DEF IndependentlyVerified
<1>8. ASSUME NEW k \in DOMAIN runs, runs[i].pair = runs[k].pair,
             runs[i].campaign = runs[k].campaign, runs[i].task_family = runs[k].task_family
      PROVE  k \in {i, j}
  <2>1. runs[k] \in {p.sol, p.luna}
    BY <1>4, <1>5, <1>8 DEF RunsOf
  <2>2. runs[k] = runs[i] => k = i
    BY <1>5, <1>7 DEF Loads
  <2>3. runs[k] = runs[j] => k = j
    BY <1>6, <1>7 DEF Loads
  <2> QED
    BY <1>5, <1>6, <2>1, <2>2, <2>3
<1>9. /\ runs[i].pair = runs[j].pair /\ runs[i].campaign = runs[j].campaign
      /\ runs[i].task_family = runs[j].task_family
  BY <1>4, <1>5, <1>6
<1>10. runs[j].policy = CurrentPolicy /\ runs[i].task = runs[j].task
  BY <1>2, <1>5, <1>6 DEF Comparable
<1>11. /\ \E c \in Index : c.receipt = runs[i].receipt /\ c.record = runs[i]
       /\ \E c \in Index : c.receipt = runs[j].receipt /\ c.record = runs[j]
  BY <1>5, <1>6 DEF IndependentlyVerified
<1>12. <<i, j>> \in Matched(runs, family)
  BY <1>2, <1>4, <1>5, <1>6, <1>8, <1>9, <1>10, <1>11 DEF Matched
<1> QED
  BY <1>5, <1>6, <1>12

\* As many are mapped to a part of D as that part has elements.
LEMMA SameCount ==
  ASSUME NEW C, IsFiniteSet(C), NEW D, NEW G \in Bijection(C, D), NEW T \in SUBSET D
  PROVE  IsFiniteSet(T) /\ Cardinality({q \in C : G[q] \in T}) = Cardinality(T)
<1> DEFINE A == {q \in C : G[q] \in T}
           H == [q \in A |-> G[q]]
<1>1. IsFiniteSet(A)
  BY FS_Subset
<1>2. /\ \A q \in A : H[q] \in T
      /\ \A q, r \in A : H[q] = H[r] => q = r
      /\ \A t \in T : \E q \in A : H[q] = t
  BY DEF Bijection, Injection, Surjection, IsInjective
<1>3. H \in Bijection(A, T)
  BY <1>2 DEF Bijection, Injection, Surjection, IsInjective
<1> HIDE DEF A, H
<1>4. ExistsBijection(A, T)
  BY <1>3 DEF ExistsBijection
<1> QED
  BY <1>1, <1>4, FS_Bijection DEF A

\* Two pairs of positions have no run in common, and no receipt.
LEMMA ReceiptsAreDistinct ==
  ASSUME NEW runs, Loads(runs), NEW family, NEW C \in SUBSET Matched(runs, family), IsFiniteSet(C),
         \A q \in C : runs[q[1]].receipt # None /\ runs[q[2]].receipt # None
  PROVE  Cardinality({runs[q[1]].receipt : q \in C} \cup {runs[q[2]].receipt : q \in C})
           = 2 * Cardinality(C)
<1> DEFINE R1 == {runs[q[1]].receipt : q \in C}
           R2 == {runs[q[2]].receipt : q \in C}
           F1 == [q \in C |-> runs[q[1]].receipt]
           F2 == [q \in C |-> runs[q[2]].receipt]
<1>1. \A q \in C :
        /\ q[1] \in DOMAIN runs /\ q[2] \in DOMAIN runs /\ q = <<q[1], q[2]>>
        /\ runs[q[1]].route = "SOL_ONLY" /\ runs[q[2]].route = "SOL_LUNA"
        /\ runs[q[1]].pair = runs[q[2]].pair /\ runs[q[1]].campaign = runs[q[2]].campaign
        /\ runs[q[1]].task_family = runs[q[2]].task_family
        /\ \A k \in DOMAIN runs :
             /\ runs[q[1]].pair = runs[k].pair /\ runs[q[1]].campaign = runs[k].campaign
             /\ runs[q[1]].task_family = runs[k].task_family
             => k \in {q[1], q[2]}
  BY DEF Matched
<1>2. \A i, j \in DOMAIN runs :
        runs[i].receipt # None /\ runs[i].receipt = runs[j].receipt => i = j
  BY DEF Loads
<1>3. ASSUME NEW q \in C, NEW r \in C, runs[q[1]].receipt = runs[r[1]].receipt PROVE q = r
  <2>1. q[1] = r[1]
    BY <1>1, <1>2, <1>3
  <2>2. r[2] \in {q[1], q[2]} /\ r[2] # q[1]
    BY <1>1, <2>1
  <2> QED
    BY <1>1, <2>1, <2>2
<1>4. ASSUME NEW q \in C, NEW r \in C, runs[q[2]].receipt = runs[r[2]].receipt PROVE q = r
  <2>1. q[2] = r[2]
    BY <1>1, <1>2, <1>4
  <2>2. r[1] \in {q[1], q[2]} /\ r[1] # q[2]
    BY <1>1, <2>1
  <2> QED
    BY <1>1, <2>1, <2>2
<1>5. ASSUME NEW q \in C, NEW r \in C PROVE runs[q[1]].receipt # runs[r[2]].receipt
  <2>1. q[1] # r[2]
    BY <1>1
  <2> QED
    BY <1>1, <1>2, <2>1
<1>6. F1 \in Bijection(C, R1)
  BY <1>3 DEF Bijection, Injection, Surjection, IsInjective
<1>7. F2 \in Bijection(C, R2)
  BY <1>4 DEF Bijection, Injection, Surjection, IsInjective
<1>8. R1 \cap R2 = {}
  BY <1>5
<1> HIDE DEF R1, R2, F1, F2
<1>9. IsFiniteSet(R1) /\ Cardinality(R1) = Cardinality(C)
  BY <1>6, FS_Bijection DEF ExistsBijection
<1>10. IsFiniteSet(R2) /\ Cardinality(R2) = Cardinality(C)
  BY <1>7, FS_Bijection DEF ExistsBijection
<1>11. Cardinality(R1 \cup R2) = Cardinality(R1) + Cardinality(R2) - Cardinality(R1 \cap R2)
  BY <1>9, <1>10, FS_Union
<1>12. Cardinality(R1 \cap R2) = 0 /\ Cardinality(C) \in Nat
  BY <1>8, FS_EmptySet, FS_CardinalityType
<1>13. Cardinality(R1 \cup R2) = 2 * Cardinality(C)
  BY <1>9, <1>10, <1>11, <1>12
<1> QED
  BY <1>13 DEF R1, R2

LEMMA FloorIsNumber == SavingsFloor \in Int
<1>1. SavingsFloor \in 0..100
  BY PolicyAssumption, Zenon
<1> QED
  BY <1>1

\* What passes the gates of the code is earned.
LEMMA EligibleIsEarned ==
  ASSUME NEW runs \in Seq(AnyRecord), Loads(runs), NEW family,
         NEW cohort \in cohorts(RunsOf(runs), family), HasSeconds(cohort),
         policy_change_eligible(cohort, Index), \A p \in cohort : p.sol.policy = CurrentPolicy
  PROVE  IsEarned(runs, family)
<1> DEFINE pairing(q) == [sol |-> runs[q[1]], luna |-> runs[q[2]]]
           C == {q \in Matched(runs, family) : pairing(q) \in cohort}
           G == [q \in C |-> pairing(q)]
<1>1. Len(runs) \in Nat /\ DOMAIN runs = 1..Len(runs) /\ \A i \in DOMAIN runs : runs[i] \in AnyRecord
  OBVIOUS
<1>2. \A p \in cohort :
        /\ p \in Pairs(RunsOf(runs), family)
        /\ MetricOf(p) = "credits"
        /\ IndependentlyVerified(p.sol, Index) /\ IndependentlyVerified(p.luna, Index)
  BY DEF cohorts, policy_change_eligible, EconomyGates
<1>3. IsFiniteSet(RunsOf(runs))
  <2> DEFINE F == [i \in 1..Len(runs) |-> runs[i]]
  <2>1. F \in Surjection(1..Len(runs), RunsOf(runs))
    BY <1>1 DEF RunsOf, Surjection
  <2>2. IsFiniteSet(1..Len(runs))
    BY <1>1, FS_Interval
  <2> HIDE DEF F
  <2> QED
    BY <2>1, <2>2, FS_Surjection
<1>4. ASSUME NEW p \in cohort PROVE p = [sol |-> p.sol, luna |-> p.luna]
  <2>1. p \in Pairs(RunsOf(runs), family)
    BY <1>2
  <2> QED
    BY <1>3, <2>1, PairsAreGroups
<1>5. ASSUME NEW p \in cohort PROVE \E q \in C : G[q] = p
  <2>1. /\ p \in Pairs(RunsOf(runs), family) /\ p.sol.policy = CurrentPolicy
        /\ IndependentlyVerified(p.sol, Index) /\ IndependentlyVerified(p.luna, Index)
    BY <1>2
  <2>2. PICK q \in Matched(runs, family) : runs[q[1]] = p.sol /\ runs[q[2]] = p.luna
    BY <1>1, <2>1, VerifiedRunsAreMatched
  <2>3. pairing(q) = p
    BY <1>4, <2>2
  <2> QED
    BY <2>3
<1>6. ASSUME NEW q \in C
      PROVE  /\ q[1] \in DOMAIN runs /\ q[2] \in DOMAIN runs /\ q = <<q[1], q[2]>>
             /\ G[q] \in cohort /\ G[q].sol = runs[q[1]] /\ G[q].luna = runs[q[2]]
  <2>1. q \in Matched(runs, family) /\ G[q] = pairing(q) /\ pairing(q) \in cohort
    OBVIOUS
  <2>2. q \in (DOMAIN runs) \X (DOMAIN runs)
    BY <2>1 DEF Matched
  <2> QED
    BY <2>1, <2>2
<1>7. ASSUME NEW q \in C
      PROVE  /\ runs[q[1]].receipt # None /\ runs[q[2]].receipt # None
             /\ runs[q[1]].credits \in Nat /\ runs[q[2]].credits \in Nat
             /\ runs[q[1]].elapsed \in Nat /\ runs[q[2]].elapsed \in Nat
  <2>1. /\ IndependentlyVerified(runs[q[1]], Index) /\ IndependentlyVerified(runs[q[2]], Index)
        /\ None \notin {runs[q[1]].elapsed, runs[q[2]].elapsed}
    BY <1>2, <1>6 DEF HasSeconds
  <2>2. /\ runs[q[1]].credits \in Nat \cup {None} /\ runs[q[1]].elapsed \in Nat \cup {None}
        /\ runs[q[2]].credits \in Nat \cup {None} /\ runs[q[2]].elapsed \in Nat \cup {None}
    BY <1>1, <1>6, AmountsAreNumbers
  <2> QED
    BY <2>1, <2>2 DEF IndependentlyVerified
<1>8. IsFiniteSet(C)
  <2>1. C \subseteq (DOMAIN runs) \X (DOMAIN runs)
    BY DEF Matched
  <2>2. IsFiniteSet((DOMAIN runs) \X (DOMAIN runs))
    <3>1. IsFiniteSet(DOMAIN runs)
      BY <1>1, FS_Interval
    <3> QED
      BY <3>1, FS_Product
  <2> QED
    BY <2>1, <2>2, FS_Subset
<1>9. G \in Bijection(C, cohort)
  <2>1. G \in [C -> cohort]
    OBVIOUS
  <2>2. ASSUME NEW q \in C, NEW r \in C, G[q] = G[r] PROVE q = r
    <3>1. runs[q[1]] = runs[r[1]] /\ runs[q[2]] = runs[r[2]]
      BY <1>6, <2>2
    <3>2. q[1] = r[1] /\ q[2] = r[2]
      BY <1>6, <1>7, <3>1 DEF Loads
    <3> QED
      BY <1>6, <3>2
  <2> HIDE DEF C, G
  <2> QED
    BY <1>5, <2>1, <2>2 DEF Bijection, Injection, Surjection, IsInjective
<1>10. C \in SUBSET Matched(runs, family)
  OBVIOUS
<1> HIDE DEF C, G
<1>11. IsFiniteSet(cohort) /\ Cardinality(cohort) = Cardinality(C)
  BY <1>8, <1>9, FS_Bijection DEF ExistsBijection
<1>12. Cardinality(C) >= ReviewPairs
  BY <1>11 DEF policy_change_eligible
<1>13. Cardinality({runs[q[1]].receipt : q \in C} \cup {runs[q[2]].receipt : q \in C})
         = 2 * Cardinality(C)
  <2>1. \A q \in C : runs[q[1]].receipt # None /\ runs[q[2]].receipt # None
    BY <1>7
  <2> QED
    BY <1>8, <1>10, <2>1, ReceiptsAreDistinct
<1>0. SavingsFloor \in Int
  BY FloorIsNumber
<1> DEFINE spent == {q \in C : runs[q[1]].credits > 0}
           saving == {q \in spent : 100 * runs[q[2]].credits
                                     <= (100 - SavingsFloor) * runs[q[1]].credits}
           quick == {q \in C : runs[q[2]].elapsed <= runs[q[1]].elapsed}
<1>14. IsFiniteSet(saving) /\ IsFiniteSet(quick)
  BY <1>8, FS_Subset
<1>15. spent # {} /\ 2 * Cardinality(saving) >= Cardinality(spent)
  <2> DEFINE S == Spent(cohort)
             f == [p \in S |-> Savings(p)]
             U == {p \in S : f[p] >= SavingsFloor}
             back(T) == {q \in C : G[q] \in T}
  <2>1. S \subseteq cohort /\ S # {} /\ Median2(f) >= 2 * SavingsFloor
    BY DEF Spent, policy_change_eligible, EconomyGates
  <2>2. spent = back(S)
    BY <1>2, <1>6 DEF Spent, Cost
  <2>3. ASSUME NEW q \in C, G[q] \in S
        PROVE  /\ Savings(G[q]) \in Int
               /\ Savings(G[q]) >= SavingsFloor =>
                    100 * runs[q[2]].credits <= (100 - SavingsFloor) * runs[q[1]].credits
    <3>1. runs[q[1]].credits \in Nat /\ runs[q[2]].credits \in Nat /\ SavingsFloor \in Int
      BY <1>0, <1>7
    <3>2. runs[q[1]].credits > 0
      BY <2>2, <2>3
    <3>3. Savings(G[q]) = (100 * (runs[q[1]].credits - runs[q[2]].credits)) \div runs[q[1]].credits
      <4>1. G[q] \in cohort /\ G[q].sol = runs[q[1]] /\ G[q].luna = runs[q[2]]
        BY <1>6
      <4>2. MetricOf(G[q]) = "credits"
        BY <1>2, <4>1
      <4> QED
        BY <4>1, <4>2 DEF Savings, Cost
    <3> DEFINE sol == runs[q[1]].credits
               luna == runs[q[2]].credits
    <3> HIDE DEF sol, luna
    <3>4. /\ (100 * (sol - luna)) \div sol \in Int
          /\ (100 * (sol - luna)) \div sol >= SavingsFloor =>
               100 * luna <= (100 - SavingsFloor) * sol
      BY <3>1, <3>2, Percentages DEF sol, luna
    <3> QED
      BY <3>3, <3>4 DEF sol, luna
  <2>4. f \in [S -> Int]
    <3>1. ASSUME NEW p \in S PROVE Savings(p) \in Int
      BY <1>5, <2>1, <2>3
    <3> QED
      BY <3>1
  <2>5. IsFiniteSet(S)
    BY <1>11, <2>1, FS_Subset
  <2>6. 2 * Cardinality(U) >= Cardinality(S)
    <3> HIDE DEF f, S
    <3> QED
      BY <1>0, <2>1, <2>4, <2>5, UpperHalf
  <2>7. back(U) \subseteq saving
    <3> SUFFICES ASSUME NEW q \in back(U) PROVE q \in saving
      OBVIOUS
    <3>0. q \in C /\ G[q] \in U
      OBVIOUS
    <3>1. G[q] \in S /\ Savings(G[q]) >= SavingsFloor
      BY <3>0
    <3>2. q \in spent
      BY <2>2, <3>0, <3>1
    <3>3. 100 * runs[q[2]].credits <= (100 - SavingsFloor) * runs[q[1]].credits
      BY <2>3, <3>0, <3>1
    <3> HIDE DEF spent, back
    <3> QED
      BY <3>2, <3>3
  <2>8. Cardinality(spent) = Cardinality(S)
    <3>1. S \in SUBSET cohort
      BY <2>1
    <3> HIDE DEF S
    <3>2. Cardinality(back(S)) = Cardinality(S)
      BY <1>8, <1>9, <3>1, SameCount
    <3> HIDE DEF spent, back
    <3> QED
      BY <2>2, <3>2
  <2>9. Cardinality(back(U)) = Cardinality(U) /\ IsFiniteSet(U)
    <3>1. U \in SUBSET cohort
      BY <2>1
    <3> HIDE DEF U
    <3> QED
      BY <1>8, <1>9, <3>1, SameCount
  <2>10. spent # {}
    BY <1>5, <2>1, <2>2
  <2> HIDE DEF U, S, saving, spent
  <2>11. Cardinality(back(U)) <= Cardinality(saving)
    BY <1>14, <2>7, FS_Subset
  <2>12. Cardinality(U) \in Nat /\ Cardinality(S) \in Nat /\ Cardinality(saving) \in Nat
    BY <1>14, <2>5, <2>9, FS_CardinalityType
  <2> QED
    BY <2>6, <2>8, <2>9, <2>10, <2>11, <2>12
<1>16. 2 * Cardinality(quick) >= Cardinality(C)
  <2> DEFINE f == [p \in cohort |-> ElapsedDelta(p)]
             U == {p \in cohort : f[p] <= 0}
             back(T) == {q \in C : G[q] \in T}
  <2>1. Median2(f) <= 2 * 0
    BY DEF policy_change_eligible, EconomyGates
  <2>2. ASSUME NEW q \in C
        PROVE  /\ ElapsedDelta(G[q]) \in Int
               /\ ElapsedDelta(G[q]) <= 0 => runs[q[2]].elapsed <= runs[q[1]].elapsed
    <3>1. ElapsedDelta(G[q]) = runs[q[2]].elapsed - runs[q[1]].elapsed
      BY <1>6 DEF ElapsedDelta
    <3> QED
      BY <1>7, <3>1
  <2>3. f \in [cohort -> Int]
    <3>1. ASSUME NEW p \in cohort PROVE ElapsedDelta(p) \in Int
      BY <1>5, <2>2
    <3> QED
      BY <3>1
  <2>4. cohort # {}
    BY DEF policy_change_eligible, EconomyGates, Spent
  <2>5. 2 * Cardinality(U) >= Cardinality(cohort)
    <3> HIDE DEF f
    <3> QED
      BY <1>11, <2>1, <2>3, <2>4, LowerHalf
  <2>6. back(U) \subseteq quick
    BY <2>2
  <2>7. Cardinality(back(U)) = Cardinality(U) /\ IsFiniteSet(U)
    <3>1. U \in SUBSET cohort
      OBVIOUS
    <3> HIDE DEF U
    <3> QED
      BY <1>8, <1>9, <3>1, SameCount
  <2> HIDE DEF U, quick
  <2>8. Cardinality(back(U)) <= Cardinality(quick)
    BY <1>14, <2>6, FS_Subset
  <2>9. Cardinality(U) \in Nat /\ Cardinality(quick) \in Nat /\ Cardinality(C) \in Nat
    BY <1>8, <1>14, <2>7, FS_CardinalityType
  <2> QED
    BY <1>11, <2>5, <2>7, <2>8, <2>9
<1> QED
  BY <1>10, <1>12, <1>13, <1>15, <1>16 DEF IsEarned

\* What an evaluation that is under way, or has answered, has seen of the ledger.
Seen ==
  route.step \in {"consulted", "answered"} =>
    /\ route.seen \in 0..Len(ledger)
    /\ route.recommended => IsEarned(SubSeq(ledger, 1, route.seen), route.request.task_family)

LEMMA ConsultIsEarned == Inv /\ Consult => Seen'
<1> SUFFICES ASSUME Inv, Consult PROVE Seen'
  OBVIOUS
<1> DEFINE family == route.request.task_family
<1>0. ledger' = ledger /\ Len(ledger) \in Nat
  BY DEF Consult, Inv
<1>1. CASE ~route.request.ledger
  BY <1>0, <1>1 DEF Consult, Seen
<1>2. CASE route.request.ledger /\ ~FeedbackIsAvailable(family)
  BY <1>2 DEF Consult, Seen
<1>3. CASE route.request.ledger /\ FeedbackIsAvailable(family)
  <2>1. PICK recommended \in Recommendations(family) :
          route' = [step |-> "consulted", request |-> route.request, bound |-> route.bound,
                    recommended |-> recommended, seen |-> Len(ledger)]
    BY <1>3 DEF Consult
  <2>2. ASSUME recommended PROVE IsEarned(ledger, family)
    <3>1. PICK cohort \in strongest_cohorts(Records, family, Index) :
            human_review_recommendation(cohort)
      BY <2>2 DEF Recommendations
    <3>2. cohort \in cohorts(Records, family)
      BY DEF strongest_cohorts
    <3>3. /\ policy_change_eligible(cohort, Index)
          /\ \A p \in cohort : p.sol.policy = CurrentPolicy
      BY <3>1 DEF human_review_recommendation
    <3>4. Loads(ledger) /\ HasSeconds(cohort)
      BY <1>3, <3>2 DEF FeedbackIsAvailable
    <3>5. Records = RunsOf(ledger) /\ ledger \in Seq(AnyRecord)
      BY DEF Records, RunsOf, Inv
    <3> QED
      BY <3>2, <3>3, <3>4, <3>5, EligibleIsEarned
  <2>3. SubSeq(ledger, 1, Len(ledger)) = ledger
    BY DEF Inv
  <2>4. /\ route'.seen = Len(ledger) /\ (route'.recommended <=> recommended)
        /\ route'.request = route.request
    BY <2>1
  <2>5. route'.seen \in 0..Len(ledger')
    BY <1>0, <2>4
  <2>6. route'.recommended =>
          IsEarned(SubSeq(ledger', 1, route'.seen), route'.request.task_family)
    BY <1>0, <2>2, <2>3, <2>4
  <2> QED
    BY <2>5, <2>6 DEF Seen
<1> QED
  BY <1>1, <1>2, <1>3

\* RecommendationIsEarned for every ledger, every index of receipts and every policy,
\* whatever is appended while the request is evaluated.
THEOREM RecommendationsAreEarned == Spec => []RecommendationIsEarned
<1>1. Init => Seen
  BY DEF Init, Ready, Seen
<1>2. Inv /\ Seen /\ [Next]_vars => Seen'
  <2> SUFFICES ASSUME Inv, Seen, [Next]_vars PROVE Seen'
    OBVIOUS
  <2>1. CASE Consult
    BY <2>1, ConsultIsEarned
  <2>2. CASE \E p \in Procs : Appends(p) /\ UNCHANGED <<manifest, route>>
    <3>0. PICK p \in Procs : Appends(p) /\ UNCHANGED <<manifest, route>>
      BY <2>2
    <3>1. ledger' = ledger \/ (Len(ledger') > Len(ledger) /\ IsPrefix(ledger, ledger'))
      <4>1. ledger' # ledger =>
              Len(ledger') > Len(ledger) /\ IsPrefix(ledger, ledger') /\ Loads(ledger')
        BY <3>0, AppendStep
      <4> QED
        BY <4>1
    <3>2. ledger \in Seq(AnyRecord) /\ ledger' \in Seq(AnyRecord)
      <4>1. Inv'
        BY <3>0, AppendStep
      <4> QED
        BY <4>1 DEF Inv
    <3>3. ASSUME NEW n \in 0..Len(ledger)
          PROVE  n \in 0..Len(ledger') /\ SubSeq(ledger', 1, n) = SubSeq(ledger, 1, n)
      <4>1. CASE ledger' = ledger
        BY <4>1
      <4>2. CASE Len(ledger') > Len(ledger) /\ IsPrefix(ledger, ledger')
        <5>1. \A i \in 1..Len(ledger) : ledger'[i] = ledger[i]
          BY <3>2, <4>2 DEF IsPrefix
        <5> QED
          BY <3>2, <4>2, <5>1
      <4> QED
        BY <3>1, <4>1, <4>2
    <3> QED
      BY <2>2, <3>3 DEF Seen
  <2>3. CASE Evaluate
    BY <2>3 DEF Evaluate, Seen
  <2>4. CASE Start \/ Finish
    BY <2>4 DEF Start, Finish, Ready, Seen
  <2>5. CASE EditManifest \/ UNCHANGED vars
    BY <2>5 DEF EditManifest, vars, Seen
  <2> QED
    BY <2>1, <2>2, <2>3, <2>4, <2>5 DEF Next
<1>3. Seen => RecommendationIsEarned
  BY DEF Seen, RecommendationIsEarned
<1> QED
  BY <1>1, <1>2, <1>3, EvidenceInvariant, PTL DEF Spec

-----------------------------------------------------------------------------
(* Sums over finite sets *)

\* What the fold of SumFunctionOnSet computes on the way: of each subset its sum.
Sums(f, S, sum) ==
  \A s \in SUBSET S :
    sum[s] = IF s = {} THEN 0
             ELSE f[CHOOSE x \in s : TRUE] + sum[s \ {CHOOSE x \in s : TRUE}]

LEMMA SumIsChosen ==
  ASSUME NEW f, NEW S
  PROVE  SumFunctionOnSet(f, S)
           = (CHOOSE sum : sum = [s \in SUBSET S |->
                IF s = {} THEN 0
                ELSE f[CHOOSE x \in s : TRUE] + sum[s \ {CHOOSE x \in s : TRUE}]])[S]
  BY DEF SumFunctionOnSet, FoldFunctionOnSet, MapThenFoldSet

\* A family of subsets of a finite set has a smallest member.
LEMMA SmallestSet ==
  ASSUME NEW U, NEW Bad, Bad \subseteq SUBSET U, Bad # {}, IsFiniteSet(U)
  PROVE  \E s \in Bad : \A t \in Bad : t \subseteq s => t = s
<1>1. IsWellFoundedOn(StrictSubsetOrdering(U), FiniteSubsetsOf(U))
  BY FS_StrictSubsetOrderingWellFounded
<1>2. Bad \subseteq FiniteSubsetsOf(U)
  BY FS_Subset DEF FiniteSubsetsOf
<1>3. PICK s \in Bad : \A t \in Bad : ~(<<t, s>> \in StrictSubsetOrdering(U))
  BY <1>1, <1>2, WFMin
<1> QED
  BY <1>3 DEF StrictSubsetOrdering

\* Two of them agree wherever both have a value.
LEMMA SumsAgree ==
  ASSUME NEW f, NEW S, IsFiniteSet(S), NEW a, NEW b, NEW T \in SUBSET S,
         Sums(f, S, a), Sums(f, T, b)
  PROVE  \A s \in SUBSET T : a[s] = b[s]
<1> DEFINE Bad == {s \in SUBSET T : a[s] # b[s]}
<1>1. SUFFICES ASSUME Bad # {} PROVE FALSE
  OBVIOUS
<1>2. PICK s \in Bad : \A t \in Bad : t \subseteq s => t = s
  <2>1. Bad \subseteq SUBSET S
    OBVIOUS
  <2> HIDE DEF Bad
  <2> QED
    BY <1>1, <2>1, SmallestSet
<1>3. s # {}
  BY <1>2 DEF Sums
<1> DEFINE x == CHOOSE x \in s : TRUE
<1>4. x \in s
  BY <1>3
<1> HIDE DEF x
<1>5. s \ {x} \in SUBSET T /\ s \ {x} \notin Bad
  BY <1>2, <1>4
<1>6. a[s] = f[x] + a[s \ {x}] /\ b[s] = f[x] + b[s \ {x}]
  BY <1>2, <1>3 DEF Sums, x
<1> QED
  BY <1>2, <1>5, <1>6

LEMMA SumsExist ==
  ASSUME NEW f, NEW S, IsFiniteSet(S)
  PROVE  Sums(f, S, [s \in SUBSET S |-> SumFunctionOnSet(f, s)])
<1> DEFINE next(sum, s) ==
             IF s = {} THEN 0
             ELSE f[CHOOSE x \in s : TRUE] + sum[s \ {CHOOSE x \in s : TRUE}]
           Exists(T) == \E sum : sum = [s \in SUBSET T |-> next(sum, s)]
           chosen(T) == CHOOSE sum : sum = [s \in SUBSET T |-> next(sum, s)]
           of(T) == SumFunctionOnSet(f, T)
           Bad == {T \in SUBSET S : ~Exists(T)}
<1>1. \A T : of(T) = chosen(T)[T]
  BY SumIsChosen
<1>2. ASSUME NEW T, Exists(T) PROVE Sums(f, T, chosen(T))
  <2>1. chosen(T) = [s \in SUBSET T |-> next(chosen(T), s)]
    BY <1>2
  <2> HIDE DEF chosen
  <2>2. \A s \in SUBSET T : chosen(T)[s] = next(chosen(T), s)
    BY <2>1, Zenon
  <2> QED
    BY <2>2 DEF Sums
<1>3. ASSUME NEW T \in SUBSET S, Exists(T), NEW t \in SUBSET T, Exists(t)
      PROVE  chosen(T)[t] = of(t)
  <2>1. Sums(f, T, chosen(T)) /\ Sums(f, t, chosen(t)) /\ IsFiniteSet(T)
    BY <1>2, <1>3, FS_Subset
  <2> HIDE DEF chosen
  <2>2. chosen(T)[t] = chosen(t)[t]
    BY <2>1, SumsAgree
  <2> QED
    BY <1>1, <2>2
<1>4. ASSUME NEW T \in SUBSET S, Exists(T), \A t \in SUBSET T : Exists(t)
      PROVE  of(T) = IF T = {} THEN 0
                     ELSE f[CHOOSE x \in T : TRUE] + of(T \ {CHOOSE x \in T : TRUE})
  <2> DEFINE x == CHOOSE x \in T : TRUE
  <2>1. Sums(f, T, chosen(T)) /\ of(T) = chosen(T)[T]
    BY <1>1, <1>2, <1>4
  <2>2. chosen(T)[T \ {x}] = of(T \ {x})
    <3> HIDE DEF x, chosen, of, Exists
    <3>1. T \ {x} \in SUBSET T
      OBVIOUS
    <3>2. Exists(T \ {x})
      BY <1>4, <3>1
    <3> QED
      BY <1>3, <1>4, <3>1, <3>2
  <2> HIDE DEF chosen, of, Exists
  <2>3. T \in SUBSET T
    OBVIOUS
  <2> QED
    BY <2>1, <2>2, <2>3 DEF Sums
<1>5. Bad = {}
  <2>1. SUFFICES ASSUME Bad # {} PROVE FALSE
    OBVIOUS
  <2>2. PICK T \in Bad : \A t \in Bad : t \subseteq T => t = T
    <3>1. Bad \subseteq SUBSET S
      OBVIOUS
    <3> HIDE DEF Bad
    <3> QED
      BY <2>1, <3>1, SmallestSet
  <2> DEFINE x == CHOOSE x \in T : TRUE
             g == [s \in SUBSET T |->
                     IF s # T THEN of(s) ELSE IF T = {} THEN 0 ELSE f[x] + of(T \ {x})]
  <2>3. T \in SUBSET S /\ ~Exists(T)
    BY <2>2
  <2>4. \A t \in SUBSET T : t # T => Exists(t)
    <3> HIDE DEF Exists
    <3> QED
      BY <2>2, <2>3
  <2>5. ASSUME NEW s \in SUBSET T PROVE g[s] = next(g, s)
    <3> HIDE DEF of, Exists, chosen
    <3>1. CASE s = {}
      <4>1. s # T => of(s) = 0
        <5>1. s # T => s \in SUBSET S /\ Exists(s) /\ \A t \in SUBSET s : Exists(t)
          BY <2>3, <2>4, <3>1
        <5> QED
          BY <1>4, <3>1, <5>1
      <4> QED
        BY <3>1, <4>1
    <3>2. CASE s # {}
      <4> DEFINE y == CHOOSE y \in s : TRUE
      <4>1. y \in s
        BY <3>2
      <4>2. s \ {y} \in SUBSET T /\ s \ {y} # T
        BY <4>1
      <4>3. g[s \ {y}] = of(s \ {y})
        BY <4>2
      <4>4. CASE s = T
        BY <3>2, <4>3, <4>4
      <4>5. CASE s # T
        <5>1. s \in SUBSET S /\ Exists(s) /\ \A t \in SUBSET s : Exists(t)
          BY <2>3, <2>4, <4>5
        <5>2. of(s) = f[y] + of(s \ {y})
          BY <1>4, <3>2, <5>1
        <5> QED
          BY <3>2, <4>3, <4>5, <5>2
      <4> QED
        BY <4>4, <4>5
    <3> QED
      BY <3>1, <3>2
  <2>6. g = [s \in SUBSET T |-> next(g, s)]
    <3>1. DOMAIN g = SUBSET T /\ g = [s \in SUBSET T |-> g[s]]
      OBVIOUS
    <3> HIDE DEF g
    <3> QED
      BY <2>5, <3>1
  <2>7. Exists(T)
    <3> HIDE DEF g
    <3> QED
      BY <2>6
  <2> QED
    BY <2>3, <2>7
<1>6. \A T \in SUBSET S : Exists(T)
  <2> HIDE DEF Exists
  <2> QED
    BY <1>5
<1>7. ASSUME NEW T \in SUBSET S
      PROVE  of(T) = IF T = {} THEN 0
                     ELSE f[CHOOSE x \in T : TRUE] + of(T \ {CHOOSE x \in T : TRUE})
  <2> HIDE DEF of, Exists
  <2>1. Exists(T) /\ \A t \in SUBSET T : Exists(t)
    BY <1>6
  <2> QED
    BY <1>4, <2>1
<1>8. \A T \in SUBSET S : T \ {CHOOSE x \in T : TRUE} \in SUBSET S
  OBVIOUS
<1> HIDE DEF of
<1>9. Sums(f, S, [s \in SUBSET S |-> of(s)])
  BY <1>7, <1>8 DEF Sums
<1> QED
  BY <1>9 DEF of

\* A sum is that of one term and the rest, or nothing.
LEMMA SumStarts ==
  ASSUME NEW f, NEW S, IsFiniteSet(S)
  PROVE  /\ S = {} => SumFunctionOnSet(f, S) = 0
         /\ S # {} => \E x \in S : SumFunctionOnSet(f, S) = f[x] + SumFunctionOnSet(f, S \ {x})
<1> DEFINE sum == [s \in SUBSET S |-> SumFunctionOnSet(f, s)]
           x == CHOOSE x \in S : TRUE
<1>1. Sums(f, S, sum)
  BY SumsExist
<1>2. S \in SUBSET S /\ S \ {x} \in SUBSET S
  OBVIOUS
<1>3. sum[S] = SumFunctionOnSet(f, S) /\ sum[S \ {x}] = SumFunctionOnSet(f, S \ {x})
  BY <1>2
<1> HIDE DEF sum
<1>4. S # {} => x \in S
  OBVIOUS
<1> QED
  BY <1>1, <1>2, <1>3, <1>4 DEF Sums

\* A sum of integers is an integer.
LEMMA SumIsInt ==
  ASSUME NEW f, NEW S, IsFiniteSet(S), \A x \in S : f[x] \in Int
  PROVE  SumFunctionOnSet(f, S) \in Int
<1> DEFINE Bad == {s \in SUBSET S : SumFunctionOnSet(f, s) \notin Int}
<1>1. SUFFICES ASSUME Bad # {} PROVE FALSE
  OBVIOUS
<1>2. PICK s \in Bad : \A t \in Bad : t \subseteq s => t = s
  <2>1. Bad \subseteq SUBSET S
    OBVIOUS
  <2> HIDE DEF Bad
  <2> QED
    BY <1>1, <2>1, SmallestSet
<1>3. IsFiniteSet(s)
  BY <1>2, FS_Subset
<1>4. s # {}
  BY <1>2, <1>3, SumStarts
<1>5. PICK x \in s : SumFunctionOnSet(f, s) = f[x] + SumFunctionOnSet(f, s \ {x})
  BY <1>3, <1>4, SumStarts
<1>6. s \ {x} \notin Bad /\ s \ {x} \in SUBSET S
  BY <1>2, <1>5
<1> QED
  BY <1>2, <1>5, <1>6

\* The order in which the terms are added does not matter.
LEMMA SumTakesOut ==
  ASSUME NEW f, NEW S, IsFiniteSet(S), \A x \in S : f[x] \in Int, NEW y \in S
  PROVE  SumFunctionOnSet(f, S) = f[y] + SumFunctionOnSet(f, S \ {y})
<1> DEFINE of(s) == SumFunctionOnSet(f, s)
           Bad == {s \in SUBSET S : \E z \in s : of(s) # f[z] + of(s \ {z})}
<1>1. SUFFICES ASSUME Bad # {} PROVE FALSE
  OBVIOUS
<1>2. PICK s \in Bad : \A t \in Bad : t \subseteq s => t = s
  <2>1. Bad \subseteq SUBSET S
    OBVIOUS
  <2> HIDE DEF Bad
  <2> QED
    BY <1>1, <2>1, SmallestSet
<1>3. PICK z \in s : of(s) # f[z] + of(s \ {z})
  BY <1>2
<1>4. IsFiniteSet(s) /\ s \in SUBSET S
  BY <1>2, FS_Subset
<1>5. PICK x \in s : of(s) = f[x] + of(s \ {x})
  BY <1>3, <1>4, SumStarts
<1>6. x # z
  BY <1>3, <1>5
<1> DEFINE rest == (s \ {x}) \ {z}
<1>7. (s \ {z}) \ {x} = rest
  OBVIOUS
<1>8. \A t \in SUBSET s : t # s => \A w \in t : of(t) = f[w] + of(t \ {w})
  <2> HIDE DEF of
  <2> QED
    BY <1>2
<1>9. /\ s \ {x} \in SUBSET s /\ s \ {x} # s /\ z \in s \ {x}
      /\ s \ {z} \in SUBSET s /\ s \ {z} # s /\ x \in s \ {z}
  BY <1>3, <1>5, <1>6
<1> HIDE DEF of, rest
<1>10. of(s \ {x}) = f[z] + of(rest)
  BY <1>8, <1>9 DEF rest
<1>11. of(s \ {z}) = f[x] + of(rest)
  BY <1>7, <1>8, <1>9
<1>12. of(rest) \in Int
  <2>1. IsFiniteSet(rest) /\ \A w \in rest : f[w] \in Int
    BY <1>4, FS_Subset DEF rest
  <2> QED
    BY <2>1, SumIsInt DEF of
<1>13. f[x] \in Int /\ f[z] \in Int
  BY <1>3, <1>4, <1>5
<1> QED
  BY <1>3, <1>5, <1>10, <1>11, <1>12, <1>13

\* A sum whose terms are bounded by those of two others is bounded by theirs.
LEMMA SumIsBounded ==
  ASSUME NEW f, NEW g, NEW h, NEW S, IsFiniteSet(S),
         \A x \in S : f[x] \in Int /\ g[x] \in Int /\ h[x] \in Int /\ f[x] <= g[x] + h[x]
  PROVE  SumFunctionOnSet(f, S) <= SumFunctionOnSet(g, S) + SumFunctionOnSet(h, S)
<1> DEFINE F(s) == SumFunctionOnSet(f, s)
           G(s) == SumFunctionOnSet(g, s)
           H(s) == SumFunctionOnSet(h, s)
           Bad == {s \in SUBSET S : ~(F(s) <= G(s) + H(s))}
<1>1. SUFFICES ASSUME Bad # {} PROVE FALSE
  OBVIOUS
<1>2. PICK s \in Bad : \A t \in Bad : t \subseteq s => t = s
  <2>1. Bad \subseteq SUBSET S
    OBVIOUS
  <2> HIDE DEF Bad
  <2> QED
    BY <1>1, <2>1, SmallestSet
<1>3. \A t \in SUBSET S : IsFiniteSet(t)
  BY FS_Subset
<1>4. \A t \in SUBSET S : F(t) \in Int /\ G(t) \in Int /\ H(t) \in Int
  <2>1. TAKE t \in SUBSET S
  <2>2. IsFiniteSet(t) /\ \A x \in t : f[x] \in Int /\ g[x] \in Int /\ h[x] \in Int
    BY <1>3
  <2>3. F(t) \in Int
    BY <2>2, SumIsInt
  <2>4. G(t) \in Int
    BY <2>2, SumIsInt
  <2>5. H(t) \in Int
    BY <2>2, SumIsInt
  <2> QED
    BY <2>3, <2>4, <2>5
<1>5. s # {}
  BY <1>2, <1>3, SumStarts
<1>6. PICK x \in s : F(s) = f[x] + F(s \ {x})
  BY <1>2, <1>3, <1>5, SumStarts
<1>7. \A y \in s : f[y] \in Int /\ g[y] \in Int /\ h[y] \in Int
  BY <1>2
<1>8. G(s) = g[x] + G(s \ {x})
  BY <1>2, <1>3, <1>7, SumTakesOut
<1>9. H(s) = h[x] + H(s \ {x})
  BY <1>2, <1>3, <1>7, SumTakesOut
<1>10. s \ {x} \in SUBSET S /\ s \ {x} \notin Bad /\ s \in SUBSET S
  BY <1>2, <1>6
<1>11. F(s \ {x}) <= G(s \ {x}) + H(s \ {x})
  BY <1>10
<1> HIDE DEF F, G, H
<1>12. ~(F(s) <= G(s) + H(s))
  BY <1>2
<1> QED
  BY <1>4, <1>6, <1>7, <1>8, <1>9, <1>10, <1>11, <1>12

\* What is left out of a sum of amounts only makes it smaller.
LEMMA SumOfPart ==
  ASSUME NEW f, NEW S, IsFiniteSet(S), \A x \in S : f[x] \in Nat, NEW T \in SUBSET S
  PROVE  /\ SumFunctionOnSet(f, T) \in Nat
         /\ SumFunctionOnSet(f, T) <= SumFunctionOnSet(f, S)
<1> DEFINE of(s) == SumFunctionOnSet(f, s)
           Bad == {s \in SUBSET S : of(s) \notin Nat \/ ~(of(s \cap T) <= of(s))}
<1>1. \A s \in SUBSET S : IsFiniteSet(s) /\ of(s) \in Int
  <2>1. TAKE s \in SUBSET S
  <2>2. IsFiniteSet(s) /\ \A x \in s : f[x] \in Int
    BY FS_Subset
  <2> QED
    BY <2>2, SumIsInt
<1>2. Bad = {}
  <2>1. SUFFICES ASSUME Bad # {} PROVE FALSE
    OBVIOUS
  <2>2. PICK s \in Bad : \A t \in Bad : t \subseteq s => t = s
    <3>1. Bad \subseteq SUBSET S
      OBVIOUS
    <3> HIDE DEF Bad
    <3> QED
      BY <2>1, <3>1, SmallestSet
  <2>3. s # {}
    <3>1. SUFFICES ASSUME s = {} PROVE FALSE
      OBVIOUS
    <3>2. of(s) = 0
      BY <1>1, <2>2, <3>1, SumStarts
    <3>3. of(s \cap T) = of(s)
      BY <3>1
    <3>4. of(s) \notin Nat \/ ~(of(s \cap T) <= of(s))
      BY <2>2
    <3> HIDE DEF of
    <3> QED
      BY <3>2, <3>3, <3>4
  <2>4. PICK x \in s : of(s) = f[x] + of(s \ {x})
    BY <1>1, <2>2, <2>3, SumStarts
  <2>5. s \ {x} \in SUBSET S /\ s \ {x} \notin Bad /\ s \in SUBSET S
    BY <2>2, <2>4
  <2>6. of(s \ {x}) \in Nat /\ of((s \ {x}) \cap T) <= of(s \ {x})
    <3> HIDE DEF of
    <3> QED
      BY <2>5
  <2>7. f[x] \in Nat
    BY <2>4, <2>5
  <2>8. of(s) \in Nat
    BY <2>4, <2>6, <2>7
  <2>9. of(s \cap T) <= of(s)
    <3>1. CASE x \in T
      <4>1. s \cap T \in SUBSET S /\ x \in s \cap T /\ (s \cap T) \ {x} = (s \ {x}) \cap T
        BY <2>2, <3>1
      <4>2. IsFiniteSet(s \cap T) /\ \A y \in s \cap T : f[y] \in Int
        BY <1>1, <4>1
      <4>3. of(s \cap T) = f[x] + of((s \cap T) \ {x})
        BY <4>1, <4>2, SumTakesOut
      <4>4. of((s \ {x}) \cap T) \in Int
        BY <1>1
      <4> HIDE DEF of
      <4> QED
        BY <2>4, <2>6, <2>7, <4>1, <4>3, <4>4
    <3>2. CASE x \notin T
      <4>1. s \cap T = (s \ {x}) \cap T
        BY <3>2
      <4>2. of((s \ {x}) \cap T) \in Int
        BY <1>1
      <4> HIDE DEF of
      <4> QED
        BY <2>4, <2>6, <2>7, <4>1, <4>2
    <3> QED
      BY <3>1, <3>2
  <2> HIDE DEF of
  <2> QED
    BY <2>2, <2>8, <2>9
<1>3. S \in SUBSET S /\ S \cap T = T /\ T \in SUBSET S
  OBVIOUS
<1> HIDE DEF of
<1>4. of(T) \in Nat /\ of(S \cap T) <= of(S)
  BY <1>2, <1>3
<1> QED
  BY <1>3, <1>4 DEF of

-----------------------------------------------------------------------------
(* Cold starts *)

\* Layers of a set that grow by a function of the layer before.
Grown(n, base, grow, layer) ==
  layer[0] = base /\ \A i \in 1..n : layer[i] = grow[layer[i - 1]]

LEMMA GrownExists ==
  ASSUME NEW N \in Nat, NEW D, NEW base \in SUBSET D, NEW grow \in [SUBSET D -> SUBSET D]
  PROVE  \E f \in [0..N -> SUBSET D] : Grown(N, base, grow, f)
<1> DEFINE Bad == {n \in Nat : n <= N /\ ~\E f \in [0..n -> SUBSET D] : Grown(n, base, grow, f)}
<1>1. SUFFICES ASSUME ~\E f \in [0..N -> SUBSET D] : Grown(N, base, grow, f) PROVE FALSE
  OBVIOUS
<1>2. PICK m \in Bad : \A n \in Bad : m <= n
  <2>1. N \in Bad /\ Bad \subseteq Nat
    BY <1>1
  <2> HIDE DEF Bad
  <2> QED
    BY <2>1, LeastNatural
<1>3. CASE m = 0
  <2>1. Grown(0, base, grow, [n \in 0..0 |-> base])
    BY DEF Grown
  <2> QED
    BY <1>2, <1>3, <2>1
<1>4. CASE m # 0
  <2>1. m - 1 \in Nat /\ m \in 1..N /\ m - 1 <= N /\ m \in Nat
    BY <1>2, <1>4
  <2>2. m - 1 \notin Bad
    <3> HIDE DEF Bad
    <3> QED
      BY <1>2, <2>1
  <2>3. PICK f \in [0..m - 1 -> SUBSET D] : Grown(m - 1, base, grow, f)
    BY <2>1, <2>2
  <2> DEFINE g == [n \in 0..m |-> IF n = m THEN grow[f[m - 1]] ELSE f[n]]
  <2>4. f[m - 1] \in SUBSET D
    BY <2>1
  <2>5. g \in [0..m -> SUBSET D]
    <3>1. ASSUME NEW n \in 0..m PROVE g[n] \in SUBSET D
      <4>1. n # m => n \in 0..m - 1
        BY <2>1
      <4> QED
        BY <2>3, <2>4, <4>1
    <3> QED
      BY <3>1
  <2>6. \A n \in 0..m - 1 : g[n] = f[n]
    BY <2>1
  <2>7. g[m] = grow[f[m - 1]]
    BY <2>1
  <2>8. Grown(m, base, grow, g)
    <3> HIDE DEF g
    <3>1. g[0] = base
      BY <2>1, <2>3, <2>6 DEF Grown
    <3>2. ASSUME NEW i \in 1..m PROVE g[i] = grow[g[i - 1]]
      <4>1. CASE i = m
        BY <2>1, <2>6, <2>7, <4>1
      <4>2. CASE i # m
        <5>1. i \in 1..m - 1 /\ i \in 0..m - 1 /\ i - 1 \in 0..m - 1
          BY <2>1, <4>2
        <5> QED
          BY <2>3, <2>6, <5>1 DEF Grown
      <4> QED
        BY <4>1, <4>2
    <3> QED
      BY <3>1, <3>2 DEF Grown
  <2> HIDE DEF g
  <2> QED
    BY <1>2, <2>5, <2>8
<1> QED
  BY <1>3, <1>4

\* What depends on a package, at any distance, is downstream of it.
LEMMA RerunsAreDownstream ==
  ASSUME NEW pk, IsFiniteSet(DOMAIN pk), NEW p \in DOMAIN pk
  PROVE  Downstream(pk, p) \subseteq DOMAIN pk /\ Reruns(pk, p) \subseteq Downstream(pk, p)
<1> DEFINE D == DOMAIN pk
           N == Cardinality(D)
           direct(q) == {d \in D : q \in pk[d].depends_on}
           more(s) == s \cup UNION {direct(q) : q \in s}
           grow == [s \in SUBSET D |-> more(s)]
           layers(w) == [n \in 0..N |-> IF n = 0 THEN direct(p) ELSE more(w[n - 1])]
           within == CHOOSE w : w = layers(w)
<1>1. N \in Nat
  BY FS_CardinalityType
<1>2. Downstream(pk, p) = within[N]
  BY DEF Downstream
<1>3. direct(p) \in SUBSET D /\ \A s \in SUBSET D : more(s) \in SUBSET D
  OBVIOUS
<1>4. \E w : w = layers(w)
  <2>1. grow \in [SUBSET D -> SUBSET D]
    BY <1>3
  <2> HIDE DEF grow
  <2>2. PICK f \in [0..N -> SUBSET D] : Grown(N, direct(p), grow, f)
    <3> HIDE DEF N, D, direct
    <3> QED
      BY <1>1, <1>3, <2>1, GrownExists
  <2>3. ASSUME NEW n \in 0..N
        PROVE  f[n] = IF n = 0 THEN direct(p) ELSE more(f[n - 1])
    <3> HIDE DEF N, direct, D, more
    <3>1. CASE n = 0
      BY <2>2, <3>1 DEF Grown
    <3>2. CASE n # 0
      <4>1. n \in 1..N /\ n - 1 \in 0..N
        BY <1>1, <3>2
      <4>2. f[n] = grow[f[n - 1]] /\ f[n - 1] \in SUBSET D
        BY <2>2, <4>1 DEF Grown
      <4> QED
        BY <3>2, <4>2 DEF grow
    <3> QED
      BY <3>1, <3>2
  <2>4. f = [n \in 0..N |-> f[n]]
    OBVIOUS
  <2>5. f = layers(f)
    <3> HIDE DEF N, direct, D, more
    <3> QED
      BY <2>3, <2>4
  <2> QED
    BY <2>5
<1>5. within = layers(within)
  <2> HIDE DEF layers
  <2> QED
    BY <1>4
<1> HIDE DEF within
<1>6. \A n \in 0..N : within[n] = IF n = 0 THEN direct(p) ELSE more(within[n - 1])
  <2> HIDE DEF N, direct, more
  <2> QED
    BY <1>5, Zenon
<1> HIDE DEF N, layers
<1>7. \A n \in 1..N : n \in 0..N /\ n - 1 \in 0..N /\ n # 0
  BY <1>1
<1>8. \A n \in 1..N : within[n] = more(within[n - 1])
  <2> HIDE DEF direct, more
  <2> QED
    BY <1>6, <1>7
<1>9. within[0] = direct(p)
  <2> HIDE DEF direct, more
  <2> QED
    BY <1>1, <1>6
<1>10. \A n \in 0..N : within[n] \subseteq D
  <2> DEFINE Bad == {n \in 0..N : ~(within[n] \subseteq D)}
  <2>1. SUFFICES ASSUME Bad # {} PROVE FALSE
    OBVIOUS
  <2>2. PICK m \in Bad : \A n \in Bad : m <= n
    <3>1. Bad \subseteq Nat
      OBVIOUS
    <3> HIDE DEF Bad
    <3> QED
      BY <2>1, <3>1, LeastNatural
  <2>3. m # 0
    BY <1>3, <1>9, <2>2
  <2>4. m \in 1..N /\ m - 1 \in 0..N /\ m - 1 < m
    BY <1>1, <2>2, <2>3
  <2>5. within[m - 1] \in SUBSET D
    BY <2>2, <2>4
  <2>6. within[m] \in SUBSET D
    <3> HIDE DEF direct, more
    <3> QED
      BY <1>3, <1>8, <2>4, <2>5
  <2> QED
    BY <2>2, <2>6
<1>11. ASSUME NEW m \in 0..N PROVE within[m] \subseteq within[N]
  <2> DEFINE Bad == {n \in Nat : n <= N - m /\ ~(within[m] \subseteq within[m + n])}
  <2>1. SUFFICES ASSUME Bad # {} PROVE FALSE
    <3>1. N - m \in Nat /\ N - m <= N - m /\ m + (N - m) = N
      BY <1>1
    <3>2. N - m \notin Bad => within[m] \subseteq within[m + (N - m)]
      BY <3>1
    <3> HIDE DEF Bad
    <3> QED
      BY <3>1, <3>2
  <2>2. PICK k \in Bad : \A n \in Bad : k <= n
    <3>1. Bad \subseteq Nat
      OBVIOUS
    <3> HIDE DEF Bad
    <3> QED
      BY <2>1, <3>1, LeastNatural
  <2>3. k \in Nat /\ k # 0
    BY <2>2
  <2>4. ~(k <= k - 1) /\ k - 1 \in Nat /\ k - 1 <= N - m /\ m + k \in 1..N /\ (m + k) - 1 = m + (k - 1)
    BY <1>1, <2>2, <2>3
  <2>5. k - 1 \notin Bad
    <3> HIDE DEF Bad
    <3> QED
      BY <2>2, <2>4
  <2>6. within[m] \subseteq within[m + (k - 1)]
    BY <2>4, <2>5
  <2>7. within[m + k] = more(within[m + (k - 1)])
    <3> HIDE DEF more
    <3> QED
      BY <1>8, <2>4
  <2> QED
    BY <2>2, <2>6, <2>7
<1>12. ASSUME NEW d \in Reruns(pk, p) PROVE d \in within[N]
  <2>1. PICK n \in 1..N : \E path \in [0..n -> D] :
          path[0] = p /\ path[n] = d /\ \A i \in 1..n : path[i - 1] \in pk[path[i]].depends_on
    BY <1>12 DEF Reruns, N
  <2>2. PICK path \in [0..n -> D] :
          path[0] = p /\ path[n] = d /\ \A i \in 1..n : path[i - 1] \in pk[path[i]].depends_on
    BY <2>1
  <2> DEFINE Bad == {i \in 1..n : path[i] \notin within[i - 1]}
  <2>3. Bad = {}
    <3>1. SUFFICES ASSUME Bad # {} PROVE FALSE
      OBVIOUS
    <3>2. PICK i \in Bad : \A j \in Bad : i <= j
      <4>1. Bad \subseteq Nat
        OBVIOUS
      <4> HIDE DEF Bad
      <4> QED
        BY <3>1, <4>1, LeastNatural
    <3>3. i \in 1..n /\ path[i] \in D /\ path[i] \in direct(path[i - 1])
      BY <2>2, <3>2
    <3>4. i # 1
      BY <1>9, <2>2, <3>2, <3>3
    <3>5. i - 1 \in 1..n /\ i - 1 \in 1..N /\ ~(i <= i - 1)
      BY <1>1, <2>1, <3>3, <3>4
    <3>6. path[i - 1] \in within[(i - 1) - 1]
      BY <3>2, <3>5
    <3>7. within[i - 1] = more(within[(i - 1) - 1])
      <4> HIDE DEF more
      <4> QED
        BY <1>8, <3>5
    <3>8. path[i] \in within[i - 1]
      BY <3>3, <3>6, <3>7
    <3> QED
      BY <3>2, <3>8
  <2>4. d \in within[n - 1] /\ n - 1 \in 0..N
    BY <1>1, <2>1, <2>2, <2>3
  <2> QED
    BY <1>11, <2>4
<1>13. N \in 0..N
  BY <1>1
<1> QED
  BY <1>2, <1>10, <1>12, <1>13

\* However the packages fail, no more is spent than their credits and the most that
\* their recovery may take.
LEMMA SpendingIsBounded ==
  ASSUME NEW r \in Requests, NEW c \in Range(r.candidates),
         NEW failures \in [DOMAIN c.packages -> 0..2], CoordinationIsComplete(r)
  PROVE  /\ {Overhead(r), Credits(c.packages), MaximumRecoveryCredits(c.packages)} \subseteq Nat
         /\ Spending(r, c.packages, failures) \in Int
         /\ Spending(r, c.packages, failures)
              <= Overhead(r) + Credits(c.packages) + MaximumRecoveryCredits(c.packages)
<1> DEFINE pk == c.packages
           D == DOMAIN pk
           again(S) == SumOfSome(pk, S, LAMBDA d : d.credits)
           g == [p \in D |-> pk[p].credits]
           h == [p \in D |-> pk[p].repair_credits + pk[p].terminal_credits
                               + 2 * again(Downstream(pk, p))]
           spent(p) == pk[p].credits
                        + (IF failures[p] > 0 THEN pk[p].repair_credits ELSE 0)
                        + (IF failures[p] > 1 THEN pk[p].terminal_credits ELSE 0)
                        + failures[p] * again(Reruns(pk, p))
           f == [p \in D |-> spent(p)]
<1>1. /\ IsFiniteSet(D)
      /\ \A p \in D : /\ pk[p].credits \in Nat
                      /\ pk[p].repair_credits \in Nat /\ pk[p].terminal_credits \in Nat
  BY RequestsAssumption
<1>2. \A S : again(S) = SumFunctionOnSet(g, S)
  BY DEF SumOfSome
<1>3. /\ Credits(pk) = SumFunctionOnSet(g, D)
      /\ MaximumRecoveryCredits(pk) = SumFunctionOnSet(h, D)
      /\ Spending(r, pk, failures) = Overhead(r) + SumFunctionOnSet(f, D)
  BY DEF Credits, MaximumRecoveryCredits, Spending, SumOf, SumOfSome, SumFunction
<1> HIDE DEF again
<1>4. \A p \in D : g[p] \in Nat
  BY <1>1
<1>5. ASSUME NEW p \in D
      PROVE  /\ again(Downstream(pk, p)) \in Nat /\ again(Reruns(pk, p)) \in Nat
             /\ again(Reruns(pk, p)) <= again(Downstream(pk, p))
  <2> HIDE DEF g, pk
  <2>1. Downstream(pk, p) \subseteq D /\ Reruns(pk, p) \subseteq Downstream(pk, p)
    BY <1>1, RerunsAreDownstream
  <2>2. IsFiniteSet(Downstream(pk, p))
    BY <1>1, <2>1, FS_Subset
  <2>3. \A d \in Downstream(pk, p) : g[d] \in Nat
    BY <1>4, <2>1
  <2>4. /\ SumFunctionOnSet(g, Reruns(pk, p)) \in Nat
        /\ SumFunctionOnSet(g, Reruns(pk, p)) <= SumFunctionOnSet(g, Downstream(pk, p))
    BY <2>1, <2>2, <2>3, SumOfPart
  <2>5. SumFunctionOnSet(g, Downstream(pk, p)) \in Nat
    BY <1>1, <1>4, <2>1, SumOfPart
  <2> QED
    BY <1>2, <2>4, <2>5
<1>6. ASSUME NEW p \in D
      PROVE  f[p] \in Int /\ g[p] \in Int /\ h[p] \in Nat /\ f[p] <= g[p] + h[p]
  <2> DEFINE k == failures[p]
             x == again(Reruns(pk, p))
             y == again(Downstream(pk, p))
             a == pk[p].repair_credits
             b == pk[p].terminal_credits
  <2>1. k \in {0, 1, 2}
    OBVIOUS
  <2>2. x \in Nat /\ y \in Nat /\ x <= y
    BY <1>5
  <2>3. a \in Nat /\ b \in Nat /\ pk[p].credits \in Nat
    BY <1>1
  <2>4. h[p] = a + b + 2 * y /\ g[p] = pk[p].credits
    OBVIOUS
  <2>5. f[p] = pk[p].credits + (IF k > 0 THEN a ELSE 0) + (IF k > 1 THEN b ELSE 0) + k * x
    OBVIOUS
  <2> HIDE DEF k, x, y, a, b, f, g, h, pk
  <2>6. CASE k = 0
    BY <2>2, <2>3, <2>4, <2>5, <2>6
  <2>7. CASE k = 1
    BY <2>2, <2>3, <2>4, <2>5, <2>7
  <2>8. CASE k = 2
    BY <2>2, <2>3, <2>4, <2>5, <2>8
  <2> QED
    BY <2>1, <2>6, <2>7, <2>8
<1>7. Overhead(r) \in Nat
  <2> DEFINE o == [p \in CoordinationPhases(r) |-> r.coordination[p].credits]
  <2>1. Overhead(r) = SumFunctionOnSet(o, CoordinationPhases(r))
    BY DEF Overhead, SumFunction
  <2>2. IsFiniteSet(CoordinationPhases(r))
    <3>1. IsFiniteSet({"sol_planning", "sol_review", "integration", "queue", "merge_contention"})
      <4>1. IsFiniteSet({"sol_planning"})
        BY FS_Singleton
      <4>2. IsFiniteSet({"sol_planning"} \cup {"sol_review"})
        BY <4>1, FS_AddElement
      <4>3. IsFiniteSet(({"sol_planning"} \cup {"sol_review"}) \cup {"integration"})
        BY <4>2, FS_AddElement
      <4>4. IsFiniteSet((({"sol_planning"} \cup {"sol_review"}) \cup {"integration"})
                          \cup {"queue"})
        BY <4>3, FS_AddElement
      <4>5. IsFiniteSet(((({"sol_planning"} \cup {"sol_review"}) \cup {"integration"})
                          \cup {"queue"}) \cup {"merge_contention"})
        BY <4>4, FS_AddElement
      <4>6. ((({"sol_planning"} \cup {"sol_review"}) \cup {"integration"}) \cup {"queue"})
                \cup {"merge_contention"}
              = {"sol_planning", "sol_review", "integration", "queue", "merge_contention"}
        OBVIOUS
      <4> QED
        BY <4>5, <4>6
    <3>2. CoordinationPhases(r)
            \subseteq {"sol_planning", "sol_review", "integration", "queue", "merge_contention"}
      BY DEF CoordinationPhases
    <3> QED
      BY <3>1, <3>2, FS_Subset
  <2>3. \A p \in CoordinationPhases(r) : o[p] \in Nat
    BY RequestsAssumption DEF CoordinationIsComplete
  <2>4. CoordinationPhases(r) \in SUBSET CoordinationPhases(r)
    OBVIOUS
  <2> HIDE DEF o
  <2> QED
    BY <2>1, <2>2, <2>3, <2>4, SumOfPart
<1>8. SumFunctionOnSet(g, D) \in Nat
  <2> HIDE DEF g, pk
  <2> QED
    BY <1>1, <1>4, SumOfPart
<1>9. SumFunctionOnSet(h, D) \in Nat
  <2> HIDE DEF h, pk, f, g
  <2> QED
    BY <1>1, <1>6, SumOfPart
<1>10. SumFunctionOnSet(f, D) \in Int
  <2> HIDE DEF h, pk, f, g
  <2> QED
    BY <1>1, <1>6, SumIsInt
<1>11. SumFunctionOnSet(f, D) <= SumFunctionOnSet(g, D) + SumFunctionOnSet(h, D)
  <2> HIDE DEF h, pk, f, g
  <2> QED
    BY <1>1, <1>6, SumIsBounded
<1>12. /\ {Overhead(r), Credits(pk), MaximumRecoveryCredits(pk)} \subseteq Nat
       /\ Spending(r, pk, failures) \in Int
       /\ Spending(r, pk, failures) <= Overhead(r) + Credits(pk) + MaximumRecoveryCredits(pk)
  <2> HIDE DEF f, g, h, pk, D
  <2> QED
    BY <1>3, <1>7, <1>8, <1>9, <1>10, <1>11
<1> QED
  BY <1>12

\* What a cold start is expected to cost includes all the recovery there may be.
LEMMA ColdStartEstimate ==
  ASSUME NEW r, NEW c, ColdStart(r)
  PROVE  Estimate(r, c).credits
           = 100 * (Overhead(r) + Retained(r).credits + Credits(c.packages))
               + 100 * MaximumRecoveryCredits(c.packages)
<1>1. ~SingleRequest(r) /\ ~QualityMode(r)
  BY DEF ColdStart, SingleRequest, QualityMode
<1> QED
  BY <1>1 DEF Estimate

\* A cold start that no gate rejects saves what the policy asks even so.
LEMMA ColdStartSaves ==
  ASSUME NEW r \in Admitted, ColdStart(r), NEW c \in Range(r.candidates),
         rejection_reasons(r, c) = {}, SolCredits(r) > 0 \/ SavingsFloor > 0,
         NEW failures \in [DOMAIN c.packages -> 0..2]
  PROVE  100 * 100 * Spending(r, c.packages, failures) <= (100 - SavingsFloor) * SolCredits(r)
<1> DEFINE sol == SolCredits(r)
           cost == Estimate(r, c).credits
           o == Overhead(r)
           k == Retained(r).credits
           a == Credits(c.packages)
           b == MaximumRecoveryCredits(c.packages)
           s == Spending(r, c.packages, failures)
           floor == r.savings_floor
<1>1. r \in Requests /\ RequestIsAdmissible(r)
  BY DEF Admitted
<1>2. CoordinationIsComplete(r) /\ floor >= SavingsFloor
  BY <1>1 DEF RequestIsAdmissible
<1>3. floor \in 0..100 /\ SavingsFloor \in 0..100
  BY <1>1, RequestsAssumption, PolicyAssumption
<1>4. sol \in Nat
  <2>0. {r.sol.credits, r.sol.recovery_credits} \subseteq Nat /\ r.sol.first \in 0..100
    BY <1>1, RequestsAssumption
  <2>1. /\ r.sol.credits \in Nat /\ r.sol.recovery_credits \in Nat
        /\ 100 - r.sol.first \in Nat
    BY <2>0
  <2>2. \A x, y \in Nat : x * y \in Nat
    OBVIOUS
  <2>3. (100 - r.sol.first) * r.sol.recovery_credits \in Nat
    BY <2>1, <2>2
  <2> QED
    BY <2>1, <2>3 DEF SolCredits
<1>5. k \in Nat
  BY <1>1, RequestsAssumption DEF Retained
<1>6. /\ o \in Nat /\ a \in Nat /\ b \in Nat /\ s \in Int /\ s <= o + a + b
  BY <1>1, <1>2, SpendingIsBounded
<1>7. cost = 100 * (o + k + a) + 100 * b
  BY ColdStartEstimate
<1>8. EconomyReasons(r, c, Estimate(r, c)) = {}
  BY DEF rejection_reasons
<1>9. ~(IF sol = 0 THEN floor > 0 ELSE 100 * (sol - cost) < floor * sol)
  BY <1>8 DEF EconomyReasons, When
<1> HIDE DEF sol, cost, o, k, a, b, s, floor
<1>10. sol # 0 /\ ~(100 * (sol - cost) < floor * sol)
  <2>1. sol = 0 => ~(floor > 0)
    BY <1>9
  <2>2. sol = 0 => SavingsFloor > 0
    BY <1>4 DEF sol
  <2> QED
    BY <1>2, <1>3, <1>9, <2>1, <2>2
<1>11. SavingsFloor * sol <= floor * sol
  <2>1. \A x, y, z \in Nat : x <= y => x * z <= y * z
    OBVIOUS
  <2> QED
    BY <1>2, <1>3, <1>4, <2>1
<1>12. cost \in Nat /\ 100 * s <= cost
  BY <1>5, <1>6, <1>7
<1>13. (100 - SavingsFloor) * sol = 100 * sol - SavingsFloor * sol
  BY <1>3, <1>4
<1>14. SavingsFloor * sol \in Int /\ floor * sol \in Int
  BY <1>3, <1>4
<1>15. 100 * (100 * s) <= 100 * sol - SavingsFloor * sol
  <2> DEFINE m == SavingsFloor * sol
             n == floor * sol
  <2>1. m \in Int /\ n \in Int /\ m <= n /\ ~(100 * (sol - cost) < n)
    BY <1>10, <1>11, <1>14
  <2> HIDE DEF m, n
  <2>2. 100 * (100 * s) <= 100 * sol - m
    BY <1>4, <1>6, <1>12, <2>1
  <2> QED
    BY <2>2 DEF m
<1>16. 100 * 100 * s = 100 * (100 * s)
  BY <1>6
<1> QED
  BY <1>13, <1>15, <1>16 DEF sol, s

\* The only candidate of a cold start is the one that is selected.
LEMMA ColdStartSelection ==
  ASSUME NEW r \in Admitted, ColdStart(r), selected(r) # None
  PROVE  selected(r) \in Range(r.candidates) /\ rejection_reasons(r, selected(r)) = {}
<1>1. r.candidates \in Seq(Range(r.candidates))
  BY RequestsAssumption DEF Admitted
<1>2. eligible(r) # {}
  BY DEF selected
<1>3. ASSUME NEW c \in eligible(r), NEW d \in eligible(r) PROVE c = d
  <2>1. ColdStartReasons(r, c) = {}
    BY DEF eligible, rejection_reasons
  <2>2. Len(r.candidates) = 1
    BY <2>1 DEF ColdStartReasons, When
  <2>3. DOMAIN r.candidates = 1..1
    BY <1>1, <2>2
  <2> QED
    BY <2>3 DEF eligible, Range
<1>4. \E c \in eligible(r) : \A d \in eligible(r) : c = d \/ Cheaper(r, c, d)
  BY <1>2, <1>3
<1>5. selected(r) \in eligible(r)
  BY <1>2, <1>4 DEF selected
<1> QED
  BY <1>5 DEF eligible

\* An answer is about an admitted request, and to a cold start the manifest is still
\* the one that it is about.
Answered ==
  route.step = "answered" =>
    /\ route.request \in Admitted
    /\ route.selected = selected(route.request)
    /\ ColdStart(route.request) => route.suite.contracts = route.request.contracts

\* ColdStartIsAffordable for every allocation, of any number of packages that depend
\* on each other in any way, however they fail, and every manifest.
THEOREM ColdStartsAreAffordable == Spec => []ColdStartIsAffordable
<1>1. Init => Answered
  BY DEF Init, Ready, Answered
<1>2. Answered /\ [Next]_vars => Answered'
  <2> SUFFICES ASSUME Answered, [Next]_vars PROVE Answered'
    OBVIOUS
  <2>1. CASE Evaluate
    <3> DEFINE r == route.request
    <3>1. CASE r \in Admitted /\ (ColdStart(r) => ManifestHolds(r, route.bound))
      <4>1. route' = [step |-> "answered", request |-> r, selected |-> Selection[r],
                      recommended |-> route.recommended, seen |-> route.seen,
                      suite |-> manifest]
        BY <2>1, <3>1 DEF Evaluate
      <4>2. /\ route'.request = r /\ route'.suite = manifest
            /\ route'.selected = Selection[r]
        BY <4>1
      <4>3. Selection[r] = selected(r)
        BY <3>1 DEF Selection
      <4>4. ColdStart(r) => manifest.contracts = r.contracts
        BY <3>1 DEF ManifestHolds
      <4> HIDE DEF r
      <4> QED
        BY <3>1, <4>2, <4>3, <4>4 DEF Answered
    <3>2. CASE ~(r \in Admitted /\ (ColdStart(r) => ManifestHolds(r, route.bound)))
      <4>1. route' = [step |-> "error"]
        BY <2>1, <3>2 DEF Evaluate
      <4> QED
        BY <4>1 DEF Answered
    <3> QED
      BY <3>1, <3>2
  <2>2. CASE Start \/ Consult \/ Finish
    BY <2>2 DEF Start, Consult, Finish, Ready, Answered
  <2>3. CASE \/ EditManifest \/ UNCHANGED vars
             \/ \E p \in Procs : Appends(p) /\ UNCHANGED <<manifest, route>>
    BY <2>3 DEF EditManifest, vars, Answered
  <2> QED
    BY <2>1, <2>2, <2>3 DEF Next
<1>3. Answered => ColdStartIsAffordable
  <2> SUFFICES ASSUME Answered, route.step = "answered", ColdStart(route.request),
                      route.selected # None
               PROVE  LET r == route.request
                          pk == route.selected.packages
                      IN /\ SolCredits(r) > 0 \/ SavingsFloor > 0 =>
                              \A failures \in [DOMAIN pk -> 0..2] :
                                100 * 100 * Spending(r, pk, failures)
                                  <= (100 - SavingsFloor) * SolCredits(r)
                         /\ route.suite.contracts = UNION {pk[p].acceptance : p \in DOMAIN pk}
    BY DEF ColdStartIsAffordable
  <2> DEFINE r == route.request
             c == route.selected
  <2>1. r \in Admitted /\ c = selected(r) /\ route.suite.contracts = r.contracts
    BY DEF Answered
  <2> HIDE DEF r, c
  <2>2. ColdStart(r) /\ c # None
    BY DEF r, c
  <2>3. c \in Range(r.candidates) /\ rejection_reasons(r, c) = {}
    BY <2>1, <2>2, ColdStartSelection
  <2>4. SolCredits(r) > 0 \/ SavingsFloor > 0 =>
          \A failures \in [DOMAIN c.packages -> 0..2] :
            100 * 100 * Spending(r, c.packages, failures) <= (100 - SavingsFloor) * SolCredits(r)
    BY <2>1, <2>2, <2>3, ColdStartSaves
  <2>5. r.contracts = UNION {c.packages[p].acceptance : p \in DOMAIN c.packages}
    <3>1. RequestIsAdmissible(r)
      BY <2>1 DEF Admitted
    <3>2. PICK i \in DOMAIN r.candidates : c = r.candidates[i]
      BY <2>3 DEF Range
    <3>3. CandidateIsAdmissible(r, c)
      BY <3>1, <3>2 DEF RequestIsAdmissible
    <3>4. V5Mode(r)
      BY <2>2 DEF ColdStart, V5Mode
    <3>5. CompletePartition(c.packages, r.contracts)
      BY <3>3, <3>4 DEF CandidateIsAdmissible
    <3> QED
      BY <3>5 DEF CompletePartition
  <2> QED
    BY <2>1, <2>4, <2>5 DEF r, c
<1> QED
  BY <1>1, <1>2, <1>3, PTL DEF Spec
=============================================================================
