---------------------------- MODULE UsageProofs ----------------------------
(***************************************************************************)
(* Proofs about Usage: what it reports is what happened.                   *)
(*                                                                         *)
(* The sums are recursive definitions, over sets of any size.  The first   *)
(* section gets hold of them: by the least counterexample, which the       *)
(* library states without operator parameters.                             *)
(***************************************************************************)
EXTENDS Usage, FiniteSetTheorems, TLAPS

(* The element a sum takes next.                                           *)
Pick(S) == CHOOSE x \in S : TRUE

(* What holds of the empty set, and of a set when it holds without the     *)
(* element picked, holds of every finite set.                              *)
LEMMA SubsetInduction ==
  ASSUME NEW S, IsFiniteSet(S), NEW G,
         {} \in G,
         \A T \in SUBSET S : T # {} /\ T \ {Pick(T)} \in G => T \in G
  PROVE  S \in G
PROOF
<1> SUFFICES ASSUME S \notin G PROVE FALSE
  OBVIOUS
<1> DEFINE Bad == (SUBSET S) \ G
           R == StrictSubsetOrdering(S)
<1>1. Bad \subseteq FiniteSubsetsOf(S) /\ Bad # {}
  BY FS_FiniteSubsetsOfFinite
<1>2. IsWellFoundedOn(R, FiniteSubsetsOf(S))
  BY FS_StrictSubsetOrderingWellFounded
<1> HIDE DEF R
<1>3. PICK T \in Bad : \A U \in Bad : <<U, T>> \notin R
  <2> HIDE DEF Bad
  <2> QED BY <1>1, <1>2, WFMin
<1>4. T # {} /\ T \subseteq S
  OBVIOUS
<1>5. Pick(T) \in T
  BY <1>4 DEF Pick
<1>6. T \ {Pick(T)} \in Bad
  BY <1>4
<1>7. <<T \ {Pick(T)}, T>> \in R
  BY <1>4, <1>5 DEF R, StrictSubsetOrdering
<1> QED BY <1>3, <1>6, <1>7

(* A sum of naturals counts the pairs of an element and a number up to its *)
(* value.                                                                  *)
Units(f, T) == {p \in T \X Nat : p[2] \in 1 .. f[p[1]]}

(* There are as many more with an element as its value.                    *)
LEMMA UnitsAdd ==
  ASSUME NEW f, NEW T, NEW x \in T, f[x] \in Nat, IsFiniteSet(Units(f, T \ {x}))
  PROVE  /\ IsFiniteSet(Units(f, T))
         /\ Cardinality(Units(f, T)) = f[x] + Cardinality(Units(f, T \ {x}))
PROOF
<1> DEFINE A == {x} \X (1 .. f[x])
           B == Units(f, T \ {x})
<1>1. Units(f, T) = A \cup B
  BY DEF Units
<1>2. A \cap B = {}
  BY DEF Units
<1>3. IsFiniteSet({x}) /\ Cardinality({x}) = 1
  BY FS_Singleton
<1>4. IsFiniteSet(1 .. f[x])
  BY FS_Interval
<1>5. Cardinality(1 .. f[x]) = IF 1 > f[x] THEN 0 ELSE f[x] - 1 + 1
  BY FS_Interval
<1>6. Cardinality(1 .. f[x]) = f[x]
  BY <1>5
<1>7. IsFiniteSet(A) /\ Cardinality(A) = f[x]
  <2>1. IsFiniteSet(A) /\ Cardinality(A) = Cardinality({x}) * Cardinality(1 .. f[x])
    BY <1>3, <1>4, FS_Product
  <2>2. Cardinality(A) = 1 * f[x]
    BY <2>1, <1>3, <1>6
  <2>3. 1 * f[x] = f[x]
    OBVIOUS
  <2> QED BY <2>1, <2>2, <2>3
<1>8. /\ IsFiniteSet(A \cup B)
      /\ Cardinality(A \cup B) = Cardinality(A) + Cardinality(B) - Cardinality(A \cap B)
  BY <1>7, FS_Union
<1>9. Cardinality({}) = 0 /\ Cardinality(B) \in Nat
  BY FS_EmptySet, FS_CardinalityType
<1> HIDE DEF A, B
<1>10. Cardinality(A \cap B) = 0
  BY <1>2, <1>9
<1>11. Cardinality(A \cup B) = f[x] + Cardinality(B)
  BY <1>7, <1>8, <1>9, <1>10
<1> QED BY <1>1, <1>8, <1>11 DEF B

(* g[T] is the sum of f over a subset T of its domain S.                   *)
Adds(g, f, S) ==
  /\ SumFunction(f) = g[S]
  /\ g[{}] = 0
  /\ \A T \in SUBSET S : T # {} => g[T] = f[Pick(T)] + g[T \ {Pick(T)}]

(* The equation that defines a sum has a solution, so that the sum is one. *)
LEMMA SumEquation ==
  ASSUME NEW S, IsFiniteSet(S), NEW f \in [S -> Nat]
  PROVE  \E g : Adds(g, f, S)
PROOF
<1> DEFINE Solves(g) == g = [T \in SUBSET S |->
                             IF T = {} THEN 0
                             ELSE f[CHOOSE x \in T : TRUE]
                                    + g[T \ {CHOOSE x \in T : TRUE}]]
<1>1. SumFunction(f) = (CHOOSE g : Solves(g))[S]
  BY DEF SumFunction, SumFunctionOnSet, FoldFunctionOnSet, MapThenFoldSet
<1>2. \A T \in SUBSET S : IsFiniteSet(Units(f, T))
  <2> SUFFICES ASSUME NEW T \in SUBSET S PROVE IsFiniteSet(Units(f, T))
    OBVIOUS
  <2> DEFINE G == {U \in SUBSET T : IsFiniteSet(Units(f, U))}
  <2>1. IsFiniteSet(T)
    BY FS_Subset
  <2>2. {} \in G
    BY FS_EmptySet DEF Units
  <2>3. ASSUME NEW U \in SUBSET T, U # {}, U \ {Pick(U)} \in G PROVE U \in G
    <3>1. Pick(U) \in U
      BY <2>3 DEF Pick
    <3> QED BY <2>3, <3>1, UnitsAdd
  <2> HIDE DEF G
  <2>4. T \in G
    BY <2>1, <2>2, <2>3, SubsetInduction
  <2> QED BY <2>4 DEF G
<1>3. \E g : Solves(g)
  <2> DEFINE h == [T \in SUBSET S |-> Cardinality(Units(f, T))]
  <2>1. ASSUME NEW T \in SUBSET S
        PROVE  h[T] = IF T = {} THEN 0
                      ELSE f[CHOOSE x \in T : TRUE] + h[T \ {CHOOSE x \in T : TRUE}]
    <3>1. CASE T = {}
      BY <3>1, FS_EmptySet DEF Units
    <3>2. CASE T # {}
      <4>1. Pick(T) \in T
        BY <3>2 DEF Pick
      <4>2. h[T] = f[Pick(T)] + h[T \ {Pick(T)}]
        BY <1>2, <4>1, UnitsAdd
      <4> QED BY <3>2, <4>2 DEF Pick
    <3> QED BY <3>1, <3>2
  <2>2. Solves(h)
    BY <2>1
  <2> QED BY <2>2
<1> HIDE DEF Solves
<1>4. PICK g : Solves(g) /\ SumFunction(f) = g[S]
  BY <1>1, <1>3
<1>5. g = [T \in SUBSET S |-> IF T = {} THEN 0
                              ELSE f[Pick(T)] + g[T \ {Pick(T)}]]
  BY <1>4 DEF Solves, Pick
<1>6. g[{}] = 0 /\ \A T \in SUBSET S : T # {} => g[T] = f[Pick(T)] + g[T \ {Pick(T)}]
  BY <1>5
<1> QED BY <1>4, <1>6 DEF Adds

(* It counts those pairs.                                                  *)
LEMMA SumCounts ==
  ASSUME NEW S, IsFiniteSet(S), NEW f \in [S -> Nat]
  PROVE  /\ IsFiniteSet(Units(f, S)) /\ SumFunction(f) \in Nat
         /\ SumFunction(f) = Cardinality(Units(f, S))
PROOF
<1>1. PICK g : Adds(g, f, S)
  BY SumEquation
<1> USE DEF Adds
<1> DEFINE Counts(T) == IsFiniteSet(Units(f, T)) /\ g[T] = Cardinality(Units(f, T))
           G == {T \in SUBSET S : Counts(T)}
<1>2. {} \in G
  <2>1. Units(f, {}) = {}
    BY DEF Units
  <2> QED BY <1>1, <2>1, FS_EmptySet
<1>3. ASSUME NEW T \in SUBSET S, T # {}, T \ {Pick(T)} \in G PROVE T \in G
  <2>1. Pick(T) \in T
    BY <1>3 DEF Pick
  <2>2. /\ IsFiniteSet(Units(f, T))
        /\ Cardinality(Units(f, T)) = f[Pick(T)] + Cardinality(Units(f, T \ {Pick(T)}))
    BY <1>3, <2>1, UnitsAdd
  <2> QED BY <1>1, <1>3, <2>2
<1> HIDE DEF G
<1>4. S \in G
  BY <1>2, <1>3, SubsetInduction
<1>5. Counts(S)
  BY <1>4 DEF G
<1> QED BY <1>1, <1>5, FS_CardinalityType

(* A sum is no greater than another whose terms are no smaller, whatever   *)
(* else it may add: each positive term has one of its own there.           *)
LEMMA SumGrows ==
  ASSUME NEW S, IsFiniteSet(S), NEW f \in [S -> Nat],
         NEW T, IsFiniteSet(T), NEW g \in [T -> Nat],
         NEW m \in [{x \in S : f[x] > 0} -> T],
         \A x \in S : f[x] > 0 => f[x] <= g[m[x]],
         \A x, y \in S : f[x] > 0 /\ f[y] > 0 /\ m[x] = m[y] => x = y
  PROVE  SumFunction(f) <= SumFunction(g)
PROOF
<1> DEFINE A == Units(f, S)
           B == Units(g, T)
           h == [p \in A |-> <<m[p[1]], p[2]>>]
<1>1. /\ SumFunction(f) = Cardinality(A)
      /\ SumFunction(g) = Cardinality(B) /\ IsFiniteSet(B)
  BY SumCounts
<1>2. ASSUME NEW p \in A
      PROVE  /\ p[1] \in S /\ p[2] \in Nat /\ f[p[1]] > 0
             /\ h[p] = <<m[p[1]], p[2]>> /\ h[p] \in B /\ p = <<p[1], p[2]>>
  <2>1. /\ p[1] \in S /\ p[2] \in Nat /\ p[2] >= 1 /\ p[2] <= f[p[1]]
        /\ p = <<p[1], p[2]>>
    BY DEF Units
  <2>2. f[p[1]] \in Nat /\ f[p[1]] > 0
    BY <2>1
  <2>3. m[p[1]] \in T /\ g[m[p[1]]] \in Nat /\ f[p[1]] <= g[m[p[1]]]
    BY <2>1, <2>2
  <2>4. <<m[p[1]], p[2]>> \in B
    BY <2>1, <2>2, <2>3 DEF Units
  <2> QED BY <2>1, <2>2, <2>4
<1>3. ASSUME NEW p \in A, NEW q \in A, h[p] = h[q]
      PROVE  p = q
  <2>1. m[p[1]] = m[q[1]] /\ p[2] = q[2]
    BY <1>2, <1>3
  <2>2. p[1] = q[1]
    BY <1>2, <2>1
  <2> QED BY <1>2, <2>1, <2>2
<1>4. h \in Injection(A, B)
  <2>1. h \in [A -> B]
    BY <1>2
  <2> HIDE DEF h, A, B
  <2> QED BY <1>3, <2>1 DEF Injection, IsInjective
<1> HIDE DEF A, B, h
<1>5. Cardinality(A) <= Cardinality(B)
  BY <1>1, <1>4, FS_Injection
<1> QED BY <1>1, <1>5

-----------------------------------------------------------------------------
(* Overlaps.                                                               *)

(* What Math.min and Math.max return.                                      *)
LEMMA MinMax ==
  ASSUME NEW a \in Int, NEW b \in Int
  PROVE  /\ Min({a, b}) = IF a <= b THEN a ELSE b
         /\ Max({a, b}) = IF a <= b THEN b ELSE a
PROOF
<1>1. \A m \in {a, b} : (\A y \in {a, b} : m <= y) <=> m = IF a <= b THEN a ELSE b
  OBVIOUS
<1>2. \A m \in {a, b} : (\A y \in {a, b} : m >= y) <=> m = IF a <= b THEN b ELSE a
  OBVIOUS
<1>3. Min({a, b}) = IF a <= b THEN a ELSE b
  BY <1>1 DEF Min
<1>4. Max({a, b}) = IF a <= b THEN b ELSE a
  BY <1>2 DEF Max
<1> QED BY <1>3, <1>4

(* The instants of a window in which a session was running.                *)
Slice(start, end, from, to) == {x \in from .. to - 1 : start <= x /\ x < end}

(* overlapSeconds counts them.                                             *)
LEMMA OverlapCounts ==
  ASSUME NEW start \in Int, NEW end \in Int, NEW from \in Int, NEW to \in Int
  PROVE  /\ Overlap(start, end, from, to) \in Nat
         /\ IsFiniteSet(Slice(start, end, from, to))
         /\ Cardinality(Slice(start, end, from, to)) = Overlap(start, end, from, to)
PROOF
<1> DEFINE lo == IF start <= from THEN from ELSE start
           hi == IF end <= to THEN end ELSE to
<1>1. lo \in Int /\ hi \in Int
  OBVIOUS
<1>2. Min({end, to}) = hi /\ Max({start, from}) = lo
  BY MinMax
<1>3. Overlap(start, end, from, to) = IF hi - lo <= 0 THEN 0 ELSE hi - lo
  <2>1. Overlap(start, end, from, to) = Max({0, hi - lo})
    BY <1>2 DEF Overlap
  <2> HIDE DEF lo, hi
  <2>2. hi - lo \in Int
    BY <1>1
  <2>3. Max({0, hi - lo}) = IF 0 <= hi - lo THEN hi - lo ELSE 0
    BY <2>2, MinMax
  <2> QED BY <1>1, <2>1, <2>3
<1>4. Slice(start, end, from, to) = lo .. (hi - 1)
  BY DEF Slice
<1> HIDE DEF lo, hi
<1>5. hi - 1 \in Int
  BY <1>1
<1>6. IsFiniteSet(lo .. (hi - 1))
  BY <1>1, <1>5, FS_Interval
<1>7. Cardinality(lo .. (hi - 1)) = IF lo > hi - 1 THEN 0 ELSE (hi - 1) - lo + 1
  BY <1>1, <1>5, FS_Interval
<1>8. Cardinality(lo .. (hi - 1)) = IF hi - lo <= 0 THEN 0 ELSE hi - lo
  BY <1>1, <1>7
<1>9. Overlap(start, end, from, to) \in Nat
  BY <1>1, <1>3
<1> QED BY <1>3, <1>4, <1>6, <1>8, <1>9

-----------------------------------------------------------------------------
(* Seconds.                                                                *)

(* Math.round is off by half a second at most.                             *)
LEMMA SecondsBounds ==
  ASSUME NEW units \in Nat
  PROVE  /\ Seconds(units) \in Nat
         /\ 2 * (PerSecond * Seconds(units)) <= 2 * units + PerSecond
         /\ 2 * units < 2 * (PerSecond * Seconds(units)) + PerSecond
PROOF
<1> DEFINE n == 2 * units + PerSecond
           d == 2 * PerSecond
           q == Seconds(units)
<1>1. PerSecond \in Nat /\ PerSecond > 0 /\ n \in Nat /\ d \in Nat /\ d > 0
  BY UsageAssumption
<1>2. q = n \div d
  BY DEF Seconds
<1>3. q \in Nat
  <2> HIDE DEF n, d, q
  <2> QED BY <1>1, <1>2
<1>4. d * q <= n /\ n < d * q + d
  <2> HIDE DEF n, d, q
  <2> QED BY <1>1, <1>2
<1>5. d * q = 2 * (PerSecond * q)
  <2> HIDE DEF q
  <2> QED BY <1>1, <1>3
<1>6. PerSecond * q \in Nat
  <2> HIDE DEF q
  <2> QED BY <1>1, <1>3
<1> HIDE DEF q
<1> QED BY <1>1, <1>3, <1>4, <1>5, <1>6 DEF q

(* More units are not fewer seconds.                                       *)
LEMMA SecondsGrow ==
  ASSUME NEW u \in Nat, NEW v \in Nat, u <= v
  PROVE  Seconds(u) <= Seconds(v)
PROOF
<1> DEFINE p == Seconds(u)
           q == Seconds(v)
<1>1. /\ p \in Nat /\ q \in Nat
      /\ 2 * (PerSecond * p) <= 2 * u + PerSecond
      /\ 2 * v < 2 * (PerSecond * q) + PerSecond
  BY SecondsBounds
<1>2. PerSecond \in Nat /\ PerSecond > 0
  BY UsageAssumption
<1> HIDE DEF p, q
<1>3. SUFFICES ASSUME p >= q + 1 PROVE FALSE
  BY <1>1 DEF p, q
<1>4. /\ PerSecond * p \in Nat /\ PerSecond * q \in Nat
      /\ PerSecond * p >= PerSecond * q + PerSecond
  <2>1. p - q - 1 \in Nat
    BY <1>1, <1>3
  <2>2. PerSecond * p = PerSecond * (p - q - 1) + PerSecond * q + PerSecond
    BY <1>1, <1>2
  <2>3. PerSecond * (p - q - 1) \in Nat
    BY <1>2, <2>1
  <2>4. PerSecond * p \in Nat /\ PerSecond * q \in Nat
    BY <1>1, <1>2
  <2> QED BY <1>2, <2>2, <2>3, <2>4
<1> QED BY <1>1, <1>2, <1>4

-----------------------------------------------------------------------------
(* The inductive invariant.                                                *)

(* A row is what the handlers and the sweeper have made of it by time t.   *)
RowOK(row, t) ==
  /\ row \in Row
  /\ row.status = "ENDED" <=> row.endedAt # NotEnded
  /\ row.status = "ENDED" => row.endedAt <= t
  /\ row.startedAt <= t

RowsOK ==
  /\ rows \in [SessionId -> Row \cup {NoRow}]
  /\ \A s \in SessionId : rows[s] # NoRow => RowOK(rows[s], now)

(* What a row tells of its session is what happened: it counts every       *)
(* instant in u, and none that is not in p.                                *)
Tells(row, u, p, t) ==
  /\ row.status = "EXPIRED" => row.expiresAt <= t
  /\ \A x \in u : row.startedAt <= x /\ x < UsableUntil(row, t)
  /\ \A x \in Nat : row.startedAt <= x /\ x < UsableUntil(row, t) => x \in p

HistoryOK ==
  /\ used \in [SessionId -> SUBSET (0 .. MaxTime)]
  /\ usable \in [SessionId -> SUBSET (0 .. MaxTime)]
  /\ overtaken \subseteq SessionId
  /\ \A s \in SessionId :
       /\ \A x \in used[s] \cup usable[s] : x < now
       /\ rows[s] = NoRow => used[s] = {}
       /\ rows[s] # NoRow /\ s \notin overtaken =>
            Tells(rows[s], used[s], usable[s], now)

(* The row of a creation under way: nothing of its time is lost.           *)
Created(row, p, t) ==
  /\ row \in Row /\ row.status = "ACTIVE" /\ row.endedAt = NotEnded
  /\ row.startedAt <= t
  /\ \A x \in Nat : row.startedAt <= x /\ x < t => x \in p

(* A handler carries what its step needs, and an end under way is not      *)
(* earlier than anything its session is known to have been used for.       *)
CallOK(c) ==
  /\ call[c].step \in {"idle", "starting", "inserting", "extend", "end",
                       "extending", "ending"}
  /\ call[c].step \notin {"idle", "starting"} => call[c].id \in SessionId
  /\ call[c].step \in {"extend", "end"} =>
       rows[call[c].id] # NoRow /\ call[c].data \in Row
  /\ call[c].step = "extending" => rows[call[c].id] # NoRow /\ call[c].data \in Nat
  /\ call[c].step = "ending" =>
       /\ rows[call[c].id] # NoRow
       /\ call[c].data \in Nat /\ call[c].data <= now
       /\ \A x \in used[call[c].id] : x < call[c].data
  /\ call[c].step = "inserting" =>
       rows[call[c].id] = NoRow /\ Created(call[c].data, usable[call[c].id], now)

CallsOK ==
  /\ call = [c \in Caller |-> call[c]]
  /\ \A c \in Caller : CallOK(c)
  /\ \A c, d \in Caller :
       call[c].step = "inserting" /\ call[d].step = "inserting"
         /\ call[c].id = call[d].id => c = d

Asked(r) ==
  /\ r.from \in Nat /\ r.to \in Nat /\ r.from < r.to
  /\ r.asOf \in Nat /\ r.asOf <= now

(* A listed session counts what was used before the report was asked for,  *)
(* and no more than was usable before the rows were read.                  *)
Counts(a, r) ==
  \A x \in r.from .. r.to - 1 :
    /\ x \in used[a.id] /\ x < r.asOf => a.start <= x /\ x < a.end
    /\ a.start <= x /\ x < a.end => x \in usable[a.id] /\ x < r.readAt

Missing(s, r) == \A a \in r.sessions : a.id # s

Right(r) ==
  /\ Asked(r)
  /\ r.readAt \in Nat /\ r.asOf <= r.readAt /\ r.readAt <= now
  /\ IsFiniteSet(r.sessions)
  /\ \A a \in r.sessions :
       /\ a.id \in SessionId /\ rows[a.id] # NoRow
       /\ a.start \in Nat /\ a.end \in Nat
       /\ a.usedSeconds = Seconds(Overlap(a.start, a.end, r.from, r.to))
       /\ a.id \notin overtaken => Counts(a, r)
  /\ \A a, b \in r.sessions : a.id = b.id => a = b
  /\ \A s \in SessionId \ overtaken : Missing(s, r) =>
       \A x \in r.from .. r.to - 1 : ~(x \in used[s] /\ x < r.asOf)
  /\ r.usedSeconds =
       Seconds(SumFunction([a \in r.sessions |-> Overlap(a.start, a.end, r.from, r.to)]))

ReportOK ==
  /\ report.step \in {"none", "reading", "done"}
  /\ report.step = "reading" => Asked(report)
  /\ Done => Right(report)

ClockOK == now \in 0 .. MaxTime /\ calls \in 0 .. MaxCalls

Inv == ClockOK /\ RowsOK /\ HistoryOK /\ CallsOK /\ ReportOK

-----------------------------------------------------------------------------
(* Rows.                                                                   *)

(* usableUntil of a row.                                                   *)
LEMMA UsableUntilIs ==
  ASSUME NEW t, NEW row, RowOK(row, t), NEW asOf \in Nat
  PROVE  /\ UsableUntil(row, asOf)
              = CASE row.status = "ACTIVE" ->
                       IF row.expiresAt <= asOf THEN row.expiresAt ELSE asOf
                  [] row.status = "EXPIRED" -> row.expiresAt
                  [] row.status = "ENDED" ->
                       IF row.expiresAt <= row.endedAt THEN row.expiresAt ELSE row.endedAt
         /\ UsableUntil(row, asOf) \in Nat
PROOF
<1>1. /\ row.expiresAt \in Nat /\ row.expiresAt \in Int
      /\ row.status \in {"ACTIVE", "EXPIRED", "ENDED"}
      /\ row.endedAt \in Int
      /\ row.endedAt # NotEnded => row.endedAt \in Nat
  BY DEF RowOK, Row, NotEnded
<1>2. CASE row.status = "ACTIVE"
  <2>1. UsableUntil(row, asOf) = Min({row.expiresAt, asOf})
    <3>1. {row.expiresAt} \cup {} \cup {asOf} = {row.expiresAt, asOf}
      OBVIOUS
    <3>2. row.endedAt = NotEnded
      BY <1>2 DEF RowOK
    <3> QED BY <1>2, <3>1, <3>2 DEF UsableUntil
  <2>2. Min({row.expiresAt, asOf}) = IF row.expiresAt <= asOf THEN row.expiresAt ELSE asOf
    BY <1>1, MinMax
  <2> QED BY <1>1, <1>2, <2>1, <2>2
<1>3. CASE row.status = "EXPIRED"
  <2>1. UsableUntil(row, asOf) = Min({row.expiresAt, row.expiresAt})
    <3>1. {row.expiresAt} \cup {} \cup {} = {row.expiresAt, row.expiresAt}
      OBVIOUS
    <3>2. row.endedAt = NotEnded
      BY <1>3 DEF RowOK
    <3> QED BY <1>3, <3>1, <3>2 DEF UsableUntil
  <2>2. Min({row.expiresAt, row.expiresAt}) = row.expiresAt
    BY <1>1, MinMax
  <2> QED BY <1>1, <1>3, <2>1, <2>2
<1>4. CASE row.status = "ENDED"
  <2>0. row.endedAt # NotEnded
    BY <1>4 DEF RowOK
  <2>1. UsableUntil(row, asOf) = Min({row.expiresAt, row.endedAt})
    <3>1. {row.expiresAt} \cup {row.endedAt} \cup {} = {row.expiresAt, row.endedAt}
      OBVIOUS
    <3> QED BY <1>4, <2>0, <3>1 DEF UsableUntil
  <2>2. Min({row.expiresAt, row.endedAt})
          = IF row.expiresAt <= row.endedAt THEN row.expiresAt ELSE row.endedAt
    BY <1>1, MinMax
  <2> QED BY <1>1, <1>4, <2>0, <2>1, <2>2
<1> QED BY <1>1, <1>2, <1>3, <1>4

(* Read later it is no earlier, and until an instant that has been both    *)
(* agree on what has been.                                                 *)
LEMMA UntilGrows ==
  ASSUME NEW t \in Nat, NEW row, RowOK(row, t), NEW asOf \in Nat, asOf <= t,
         row.status = "EXPIRED" => row.expiresAt <= t
  PROVE  /\ UsableUntil(row, asOf) \in Nat
         /\ UsableUntil(row, asOf) <= UsableUntil(row, t)
         /\ UsableUntil(row, t) \in Nat
         /\ UsableUntil(row, t) <= t
         /\ UsableUntil(row, t) <= row.expiresAt
         /\ \A x \in Nat : x < asOf /\ x < UsableUntil(row, t) =>
                             x < UsableUntil(row, asOf)
PROOF
<1>1. /\ row.status \in {"ACTIVE", "EXPIRED", "ENDED"} /\ row.expiresAt \in Nat
      /\ row.endedAt \in Int
      /\ row.status = "ENDED" => row.endedAt <= t
  BY DEF RowOK, Row, NotEnded
<1>2. CASE row.status = "ACTIVE"
  <2>1. UsableUntil(row, asOf) = IF row.expiresAt <= asOf THEN row.expiresAt ELSE asOf
    BY <1>2, UsableUntilIs
  <2>2. UsableUntil(row, t) = IF row.expiresAt <= t THEN row.expiresAt ELSE t
    BY <1>2, UsableUntilIs
  <2> QED BY <1>1, <2>1, <2>2
<1>3. CASE row.status = "EXPIRED"
  <2>1. UsableUntil(row, asOf) = row.expiresAt /\ UsableUntil(row, t) = row.expiresAt
    BY <1>3, UsableUntilIs
  <2> QED BY <1>1, <1>3, <2>1
<1>4. CASE row.status = "ENDED"
  <2>1. UsableUntil(row, asOf)
          = IF row.expiresAt <= row.endedAt THEN row.expiresAt ELSE row.endedAt
    BY <1>4, UsableUntilIs
  <2>2. UsableUntil(row, t)
          = IF row.expiresAt <= row.endedAt THEN row.expiresAt ELSE row.endedAt
    BY <1>4, UsableUntilIs
  <2>3. UsableUntil(row, t) \in Nat
    BY UsableUntilIs
  <2> QED BY <1>1, <1>4, <2>1, <2>2, <2>3
<1> QED BY <1>1, <1>2, <1>3, <1>4

(* What expireStale makes of the rows tells the same.                      *)
LEMMA StaleRows ==
  ASSUME ClockOK, RowsOK, HistoryOK
  PROVE  /\ ExpireStale \in [SessionId -> Row \cup {NoRow}]
         /\ \A s \in SessionId :
              /\ ExpireStale[s] = NoRow <=> rows[s] = NoRow
              /\ rows[s] # NoRow => RowOK(ExpireStale[s], now)
              /\ rows[s] # NoRow /\ s \notin overtaken =>
                   Tells(ExpireStale[s], used[s], usable[s], now)
PROOF
<1>1. rows \in [SessionId -> Row \cup {NoRow}] /\ now \in Nat /\ NoRow \notin Row
  BY UsageAssumption DEF RowsOK, ClockOK
<1>2. ASSUME NEW s \in SessionId, rows[s] # NoRow
      PROVE  /\ ExpireStale[s] \in Row
             /\ RowOK(ExpireStale[s], now)
             /\ s \notin overtaken => Tells(ExpireStale[s], used[s], usable[s], now)
  <2> DEFINE old == rows[s]
             new == ExpireStale[s]
  <2>1. /\ RowOK(old, now) /\ old \in Row
        /\ s \notin overtaken => Tells(old, used[s], usable[s], now)
    BY <1>2 DEF RowsOK, RowOK, HistoryOK
  <2>2. CASE Active(s) /\ old.expiresAt < now
    <3>1. new = [old EXCEPT !.status = "EXPIRED"] /\ old.status = "ACTIVE"
      BY <2>2 DEF ExpireStale, Expired, Active
    <3>2. /\ new \in Row /\ new.status = "EXPIRED" /\ new.endedAt = old.endedAt
          /\ new.startedAt = old.startedAt /\ new.expiresAt = old.expiresAt
      BY <2>1, <3>1 DEF Row
    <3>3. old.expiresAt \in Nat
      BY <2>1 DEF Row
    <3> HIDE DEF old, new
    <3>4. RowOK(new, now)
      BY <2>1, <3>1, <3>2 DEF RowOK
    <3>5. UsableUntil(new, now) = new.expiresAt
      BY <1>1, <3>2, <3>4, UsableUntilIs
    <3>6. UsableUntil(old, now) = old.expiresAt
      <4>1. UsableUntil(old, now) = IF old.expiresAt <= now THEN old.expiresAt ELSE now
        BY <1>1, <2>1, <3>1, UsableUntilIs
      <4>2. old.expiresAt <= now
        BY <1>1, <2>2, <3>3 DEF old
      <4> QED BY <4>1, <4>2
    <3>7. new.expiresAt <= now
      BY <1>1, <2>2, <3>2, <3>3 DEF old
    <3> QED BY <2>1, <3>2, <3>4, <3>5, <3>6, <3>7 DEF new, Tells
  <2>3. CASE ~(Active(s) /\ old.expiresAt < now)
    BY <2>1, <2>3 DEF ExpireStale
  <2> QED BY <2>2, <2>3
<1>3. ASSUME NEW s \in SessionId, rows[s] = NoRow
      PROVE  ExpireStale[s] = NoRow
  BY <1>3 DEF ExpireStale, Active
<1>4. ExpireStale = [s \in SessionId |-> ExpireStale[s]]
  BY DEF ExpireStale
<1>5. \A s \in SessionId : ExpireStale[s] \in Row \cup {NoRow}
  BY <1>2, <1>3
<1>6. ExpireStale \in [SessionId -> Row \cup {NoRow}]
  <2> HIDE DEF ExpireStale
  <2> QED BY <1>4, <1>5
<1> QED BY <1>1, <1>2, <1>3, <1>6

-----------------------------------------------------------------------------
(* What most steps have in common.                                         *)

(* A report in progress, or made, stays right as sessions go on.           *)
LEMMA ReportKept ==
  ASSUME ClockOK, ReportOK, UNCHANGED report,
         now' \in Nat, now <= now', overtaken \subseteq overtaken',
         \A s \in SessionId :
           /\ rows[s] # NoRow => rows'[s] # NoRow /\ usable[s] \subseteq usable'[s]
           /\ \A x \in used'[s] : x < now => x \in used[s]
  PROVE  ReportOK'
PROOF
<1>1. now \in Nat
  BY DEF ClockOK
<1>2. Asked(report) => Asked(report)'
  BY <1>1 DEF Asked
<1>3. ASSUME Right(report) PROVE Right(report)'
  <2>1. /\ report.asOf \in Nat /\ report.asOf <= now /\ report.readAt \in Nat
        /\ report.readAt <= now /\ report.from \in Nat /\ report.to \in Nat
    BY <1>3 DEF Right, Asked
  <2>2. ASSUME NEW a \in report.sessions
        PROVE  /\ a.id \in SessionId /\ rows'[a.id] # NoRow
               /\ a.id \notin overtaken' => Counts(a, report)'
    <3>1. /\ a.id \in SessionId /\ rows[a.id] # NoRow
          /\ a.id \notin overtaken => Counts(a, report)
      BY <1>3 DEF Right
    <3>2. ASSUME a.id \notin overtaken', NEW x \in report.from .. report.to - 1
          PROVE  /\ x \in used'[a.id] /\ x < report.asOf => a.start <= x /\ x < a.end
                 /\ a.start <= x /\ x < a.end => x \in usable'[a.id] /\ x < report.readAt
      <4>1. x \in Nat
        BY <2>1
      <4>2. x \in used'[a.id] /\ x < report.asOf => x \in used[a.id]
        BY <1>1, <2>1, <3>1, <4>1
      <4>3. x \in usable[a.id] => x \in usable'[a.id]
        BY <3>1
      <4>4. /\ x \in used[a.id] /\ x < report.asOf => a.start <= x /\ x < a.end
            /\ a.start <= x /\ x < a.end => x \in usable[a.id] /\ x < report.readAt
        BY <3>1, <3>2 DEF Counts
      <4> QED BY <4>2, <4>3, <4>4
    <3> QED BY <3>1, <3>2 DEF Counts
  <2>3. ASSUME NEW s \in SessionId \ overtaken', Missing(s, report),
               NEW x \in report.from .. report.to - 1
        PROVE  ~(x \in used'[s] /\ x < report.asOf)
    <3>1. x \in Nat /\ s \notin overtaken
      BY <2>1
    <3>2. ~(x \in used[s] /\ x < report.asOf)
      BY <1>3, <2>3, <3>1 DEF Right
    <3> QED BY <1>1, <2>1, <3>1, <3>2
  <2>4. \A s : Missing(s, report)' = Missing(s, report)
    BY DEF Missing
  <2>5. Asked(report)' /\ report.readAt <= now'
    BY <1>1, <1>2, <1>3, <2>1 DEF Right
  <2> HIDE DEF Asked, Counts, Missing
  <2> QED BY <1>3, <2>2, <2>3, <2>4, <2>5 DEF Right
<1> QED BY <1>2, <1>3 DEF ReportOK, Done

(* The handlers of other requests do not notice a step of one.             *)
LEMMA OthersKept ==
  ASSUME ClockOK, CallsOK, NEW c \in Caller, UNCHANGED <<now, used>>,
         \A d \in Caller \ {c} : call'[d] = call[d],
         \A s \in SessionId : rows[s] # NoRow => rows'[s] # NoRow,
         \A d \in Caller \ {c} : call[d].step = "inserting" =>
           /\ rows'[call[d].id] = NoRow
           /\ usable'[call[d].id] = usable[call[d].id]
  PROVE  \A d \in Caller \ {c} : CallOK(d)'
PROOF
<1> SUFFICES ASSUME NEW d \in Caller \ {c} PROVE CallOK(d)'
  OBVIOUS
<1>1. CallOK(d) /\ call'[d] = call[d]
  BY DEF CallsOK
<1> QED BY <1>1 DEF CallOK, Created

(* A handler's step that leaves the rows and their history as they are.    *)
LEMMA OnlyCallChanges ==
  ASSUME Inv, NEW c \in Caller, NEW new, call' = [call EXCEPT ![c] = new],
         UNCHANGED <<now, rows, history, report>>, calls' \in 0 .. MaxCalls,
         CallOK(c)',
         new.step = "inserting" =>
           \A d \in Caller : ~(call[d].step = "inserting" /\ call[d].id = new.id)
  PROVE  Inv'
PROOF
<1>1. ClockOK /\ RowsOK /\ HistoryOK /\ CallsOK /\ ReportOK
  BY DEF Inv
<1>2. UNCHANGED <<used, usable, overtaken>>
  BY DEF history
<1>3. /\ call' = [d \in Caller |-> call'[d]] /\ call'[c] = new
      /\ \A d \in Caller \ {c} : call'[d] = call[d]
  BY <1>1 DEF CallsOK
<1>4. \A d \in Caller : CallOK(d)'
  <2>1. \A d \in Caller \ {c} : call[d].step = "inserting" =>
          rows'[call[d].id] = NoRow /\ usable'[call[d].id] = usable[call[d].id]
    BY <1>1, <1>2 DEF CallsOK, CallOK
  <2>2. \A d \in Caller \ {c} : CallOK(d)'
    <3> HIDE DEF CallOK
    <3> QED BY <1>1, <1>2, <1>3, <2>1, OthersKept
  <2> QED BY <2>2
<1>5. ASSUME NEW d \in Caller, NEW e \in Caller, call'[d].step = "inserting",
             call'[e].step = "inserting", call'[d].id = call'[e].id
      PROVE  d = e
  BY <1>1, <1>3, <1>5 DEF CallsOK
<1>6. CallsOK'
  BY <1>3, <1>4, <1>5 DEF CallsOK
<1>7. ClockOK' /\ RowsOK' /\ HistoryOK'
  BY <1>1, <1>2 DEF ClockOK, RowsOK, HistoryOK
<1>8. ReportOK'
  <2>1. now \in Nat
    BY <1>1 DEF ClockOK
  <2> QED BY <1>1, <1>2, <2>1, ReportKept
<1> QED BY <1>6, <1>7, <1>8 DEF Inv

(* What is stale expires: the rows go on telling what happened.            *)
LEMMA RowsSwept ==
  ASSUME Inv, rows' = ExpireStale, UNCHANGED <<now, history>>
  PROVE  RowsOK' /\ HistoryOK'
PROOF
<1>1. ClockOK /\ RowsOK /\ HistoryOK /\ UNCHANGED <<used, usable, overtaken>>
  BY DEF Inv, history
<1>2. /\ rows' \in [SessionId -> Row \cup {NoRow}]
      /\ \A s \in SessionId :
           /\ rows'[s] = NoRow <=> rows[s] = NoRow
           /\ rows[s] # NoRow => RowOK(rows'[s], now)
           /\ rows[s] # NoRow /\ s \notin overtaken =>
                Tells(rows'[s], used[s], usable[s], now)
  <2> HIDE DEF ExpireStale
  <2> QED BY <1>1, StaleRows
<1>3. RowsOK'
  BY <1>2 DEF RowsOK
<1>4. HistoryOK'
  BY <1>1, <1>2 DEF HistoryOK
<1> QED BY <1>3, <1>4

(* The sweeper.                                                            *)
LEMMA SweepStep == Inv /\ Sweep => Inv'
PROOF
<1> SUFFICES ASSUME Inv, Sweep PROVE Inv'
  OBVIOUS
<1>1. /\ rows' = ExpireStale /\ UNCHANGED <<now, call, calls, history, report>>
      /\ UNCHANGED <<used, usable, overtaken>>
  BY DEF Sweep, history
<1>2. RowsOK' /\ HistoryOK'
  BY <1>1, RowsSwept
<1>3. ClockOK /\ RowsOK /\ HistoryOK /\ CallsOK /\ ReportOK /\ now \in Nat
  BY DEF Inv, ClockOK
<1>4. \A s \in SessionId : rows'[s] = NoRow <=> rows[s] = NoRow
  <2> HIDE DEF ExpireStale
  <2> QED BY <1>1, <1>3, StaleRows
<1>5. CallsOK'
  <2>1. \A c \in Caller : CallOK(c)'
    BY <1>1, <1>3, <1>4 DEF CallsOK, CallOK
  <2> QED BY <1>1, <1>3, <2>1 DEF CallsOK
<1>6. ClockOK' /\ ReportOK'
  <2>1. ClockOK'
    BY <1>1, <1>3 DEF ClockOK
  <2>2. ReportOK'
    BY <1>1, <1>3, <1>4, ReportKept
  <2> QED BY <2>1, <2>2
<1> QED BY <1>2, <1>5, <1>6 DEF Inv

(* start: what is stale expires.                                           *)
LEMMA BeginStartStep ==
  ASSUME Inv, NEW c \in Caller, BeginStart(c)
  PROVE  Inv'
PROOF
<1>1. /\ rows' = ExpireStale /\ UNCHANGED <<now, history, report>>
      /\ call' = [call EXCEPT ![c] = [step |-> "starting"]]
      /\ calls' = calls + 1 /\ calls < MaxCalls
      /\ UNCHANGED <<used, usable, overtaken>>
  BY DEF BeginStart, NewCall, history
<1>2. RowsOK' /\ HistoryOK'
  BY <1>1, RowsSwept
<1>3. ClockOK /\ RowsOK /\ HistoryOK /\ CallsOK /\ ReportOK /\ now \in Nat
  BY DEF Inv, ClockOK
<1>4. \A s \in SessionId : rows'[s] = NoRow <=> rows[s] = NoRow
  <2> HIDE DEF ExpireStale
  <2> QED BY <1>1, <1>3, StaleRows
<1>5. /\ call' = [d \in Caller |-> call'[d]] /\ call'[c].step = "starting"
      /\ \A d \in Caller \ {c} : call'[d] = call[d]
  BY <1>1, <1>3 DEF CallsOK
<1>6. \A d \in Caller : CallOK(d)'
  <2>1. \A d \in Caller \ {c} : call[d].step = "inserting" =>
          rows'[call[d].id] = NoRow /\ usable'[call[d].id] = usable[call[d].id]
    BY <1>1, <1>3, <1>4 DEF CallsOK, CallOK
  <2>2. \A d \in Caller \ {c} : CallOK(d)'
    <3> HIDE DEF CallOK, ExpireStale
    <3> QED BY <1>1, <1>3, <1>4, <1>5, <2>1, OthersKept
  <2>3. CallOK(c)'
    BY <1>5 DEF CallOK
  <2> QED BY <2>2, <2>3
<1>7. CallsOK'
  <2>1. ASSUME NEW d \in Caller, NEW e \in Caller, call'[d].step = "inserting",
               call'[e].step = "inserting", call'[d].id = call'[e].id
        PROVE  d = e
    BY <1>3, <1>5, <2>1 DEF CallsOK
  <2> QED BY <1>5, <1>6, <2>1 DEF CallsOK
<1>8. ClockOK'
  BY <1>1, <1>3, UsageAssumption DEF ClockOK
<1>9. ReportOK'
  BY <1>1, <1>3, <1>4, ReportKept
<1> QED BY <1>2, <1>7, <1>8, <1>9 DEF Inv

(* start: the row is computed.                                             *)
LEMMA IssueCreateStep ==
  ASSUME Inv, NEW c \in Caller, NEW s \in SessionId, NEW duration \in Granted,
         IssueCreate(c, s, duration)
  PROVE  Inv'
PROOF
<1> DEFINE row == [startedAt |-> now, expiresAt |-> now + duration,
                   endedAt |-> NotEnded, status |-> "ACTIVE"]
           new == [step |-> "inserting", id |-> s, data |-> row]
<1>1. /\ rows[s] = NoRow /\ \A d \in Caller : ~At(d, "inserting", s)
      /\ call' = [call EXCEPT ![c] = new]
      /\ UNCHANGED <<now, rows, calls, history, report>>
      /\ UNCHANGED <<used, usable, overtaken>>
  BY DEF IssueCreate, Goes, history
<1>2. now \in Nat /\ calls \in 0 .. MaxCalls /\ CallsOK
  BY DEF Inv, ClockOK
<1>3. row \in Row
  <2>1. now + duration \in Nat
    BY <1>2, UsageAssumption
  <2> QED BY <1>2, <2>1 DEF Row
<1>4. CallOK(c)'
  <2>1. call'[c] = new
    BY <1>1, <1>2 DEF CallsOK
  <2>2. Created(row, usable[s], now)
    BY <1>2, <1>3 DEF Created
  <2> HIDE DEF row
  <2>3. /\ call'[c].step = "inserting" /\ call'[c].id = s /\ call'[c].data = row
    BY <2>1
  <2> HIDE DEF new
  <2> QED BY <1>1, <2>2, <2>3 DEF CallOK
<1> HIDE DEF row
<1>5. \A d \in Caller : ~(call[d].step = "inserting" /\ call[d].id = new.id)
  BY <1>1 DEF At
<1> HIDE DEF new
<1> QED BY <1>1, <1>2, <1>4, <1>5, OnlyCallChanges

(* extend and end: the row is read.                                        *)
LEMMA ReadSessionStep ==
  ASSUME Inv, NEW c \in Caller, NEW s \in SessionId, NEW kind \in {"extend", "end"},
         ReadSession(c, s, kind)
  PROVE  Inv'
PROOF
<1> DEFINE new == [step |-> kind, id |-> s, data |-> rows[s]]
<1>1. /\ rows[s] # NoRow /\ call' = [call EXCEPT ![c] = new]
      /\ calls < MaxCalls /\ calls' = calls + 1
      /\ UNCHANGED <<now, rows, history, report>>
  BY DEF ReadSession, NewCall, Goes
<1>2. /\ CallsOK /\ rows[s] \in Row /\ calls' \in 0 .. MaxCalls
  BY <1>1, UsageAssumption DEF Inv, ClockOK, RowsOK
<1>3. /\ call'[c].step = kind /\ call'[c].id = s /\ call'[c].data = rows[s]
  BY <1>1, <1>2 DEF CallsOK
<1>4. CallOK(c)'
  BY <1>1, <1>2, <1>3 DEF CallOK
<1>5. new.step # "inserting"
  OBVIOUS
<1> HIDE DEF new
<1> QED BY <1>1, <1>2, <1>4, <1>5, OnlyCallChanges

(* The request is refused.                                                 *)
LEMMA RefuseStep ==
  ASSUME Inv, NEW c \in Caller, Refuse(c)
  PROVE  Inv'
PROOF
<1>1. /\ call' = [call EXCEPT ![c] = Idle]
      /\ UNCHANGED <<now, rows, calls, history, report>>
  BY DEF Refuse, Finish
<1>2. CallsOK /\ calls' \in 0 .. MaxCalls /\ Idle.step = "idle"
  BY <1>1 DEF Inv, ClockOK, Idle
<1>3. CallOK(c)'
  BY <1>1, <1>2 DEF CallsOK, CallOK
<1> QED BY <1>1, <1>2, <1>3, OnlyCallChanges

(* extend: the update is issued.                                           *)
LEMMA IssueExtendStep ==
  ASSUME Inv, NEW c \in Caller, NEW s \in SessionId, NEW duration \in Granted,
         IssueExtend(c, s, duration)
  PROVE  Inv'
PROOF
<1> DEFINE until == call[c].data.expiresAt + duration
           new == [step |-> "extending", id |-> s, data |-> until]
<1>1. /\ At(c, "extend", s) /\ call' = [call EXCEPT ![c] = new]
      /\ UNCHANGED <<now, rows, calls, history, report>>
  BY DEF IssueExtend, Goes
<1>2. CallsOK /\ calls' \in 0 .. MaxCalls
  BY <1>1 DEF Inv, ClockOK
<1>3. rows[s] # NoRow /\ until \in Nat
  <2>1. rows[call[c].id] # NoRow /\ call[c].data \in Row /\ call[c].id = s
    BY <1>1, <1>2 DEF CallsOK, CallOK, At
  <2>2. call[c].data.expiresAt \in Nat /\ duration \in Nat
    BY <2>1, UsageAssumption DEF Row
  <2> QED BY <2>1, <2>2
<1> HIDE DEF until
<1>4. /\ call'[c].step = "extending" /\ call'[c].id = s /\ call'[c].data = until
  BY <1>1, <1>2 DEF CallsOK
<1>5. CallOK(c)'
  BY <1>1, <1>3, <1>4 DEF CallOK
<1>6. new.step # "inserting"
  OBVIOUS
<1> HIDE DEF new
<1> QED BY <1>1, <1>2, <1>5, <1>6, OnlyCallChanges

(* end: the update is issued, with the time it is.                         *)
LEMMA IssueEndStep ==
  ASSUME Inv, NEW c \in Caller, NEW s \in SessionId, IssueEnd(c, s)
  PROVE  Inv'
PROOF
<1> DEFINE new == [step |-> "ending", id |-> s, data |-> now]
<1>1. /\ At(c, "end", s) /\ call' = [call EXCEPT ![c] = new]
      /\ UNCHANGED <<now, rows, calls, history, report>>
      /\ UNCHANGED <<used, usable, overtaken>>
  BY DEF IssueEnd, Goes, history
<1>2. CallsOK /\ calls' \in 0 .. MaxCalls /\ now \in Nat /\ HistoryOK
  BY <1>1 DEF Inv, ClockOK
<1>3. rows[s] # NoRow
  BY <1>1, <1>2 DEF CallsOK, CallOK, At
<1>4. /\ call'[c].step = "ending" /\ call'[c].id = s /\ call'[c].data = now
  BY <1>1, <1>2 DEF CallsOK
<1>5. \A x \in used[s] : x < now
  BY <1>2 DEF HistoryOK
<1>6. CallOK(c)'
  BY <1>1, <1>2, <1>3, <1>4, <1>5 DEF CallOK
<1>7. new.step # "inserting"
  OBVIOUS
<1> HIDE DEF new
<1> QED BY <1>1, <1>2, <1>6, <1>7, OnlyCallChanges

(* start: the row is inserted; it tells of the time since it was computed. *)
LEMMA InsertStep ==
  ASSUME Inv, NEW c \in Caller, NEW s \in SessionId, Insert(c, s)
  PROVE  Inv'
PROOF
<1> DEFINE row == call[c].data
<1>1. /\ call[c].step = "inserting" /\ call[c].id = s
      /\ rows' = [rows EXCEPT ![s] = row] /\ call' = [call EXCEPT ![c] = Idle]
      /\ UNCHANGED <<now, calls, history, report>>
      /\ UNCHANGED <<used, usable, overtaken>>
  BY DEF Insert, At, Finish, history
<1>2. ClockOK /\ RowsOK /\ HistoryOK /\ CallsOK /\ ReportOK /\ now \in Nat
  BY DEF Inv, ClockOK
<1>3. rows[s] = NoRow /\ Created(row, usable[s], now)
  BY <1>1, <1>2 DEF CallsOK, CallOK
<1>4. /\ rows' \in [SessionId -> Row \cup {NoRow}] /\ rows'[s] = row /\ row # NoRow
      /\ \A t \in SessionId \ {s} : rows'[t] = rows[t]
  BY <1>1, <1>2, <1>3, UsageAssumption DEF RowsOK, Created
<1>5. RowOK(row, now)
  BY <1>3 DEF RowOK, Created
<1>6. Tells(row, {}, usable[s], now)
  <2>1. UsableUntil(row, now) = IF row.expiresAt <= now THEN row.expiresAt ELSE now
    BY <1>2, <1>3, <1>5, UsableUntilIs DEF Created
  <2>2. row.expiresAt \in Nat
    BY <1>3 DEF Created, Row
  <2> QED BY <1>2, <1>3, <2>1, <2>2 DEF Tells, Created
<1> HIDE DEF row
<1>7. RowsOK'
  BY <1>1, <1>2, <1>4, <1>5 DEF RowsOK
<1>8. HistoryOK'
  BY <1>1, <1>2, <1>3, <1>4, <1>6 DEF HistoryOK
<1>9. /\ call' = [d \in Caller |-> call'[d]] /\ call'[c].step = "idle"
      /\ \A d \in Caller \ {c} : call'[d] = call[d]
  BY <1>1, <1>2 DEF CallsOK, Idle
<1>10. \A d \in Caller \ {c} : call[d].step = "inserting" =>
         rows'[call[d].id] = NoRow /\ usable'[call[d].id] = usable[call[d].id]
  BY <1>1, <1>2, <1>4 DEF CallsOK, CallOK
<1>11. CallsOK'
  <2>1. \A d \in Caller \ {c} : CallOK(d)'
    <3> HIDE DEF CallOK
    <3> QED BY <1>1, <1>2, <1>4, <1>9, <1>10, OthersKept
  <2>2. CallOK(c)'
    BY <1>9 DEF CallOK
  <2>3. ASSUME NEW d \in Caller, NEW e \in Caller, call'[d].step = "inserting",
               call'[e].step = "inserting", call'[d].id = call'[e].id
        PROVE  d = e
    BY <1>2, <1>9, <2>3 DEF CallsOK
  <2> QED BY <1>9, <2>1, <2>2, <2>3 DEF CallsOK
<1>12. ClockOK' /\ ReportOK'
  <2>1. ClockOK'
    BY <1>1, <1>2 DEF ClockOK
  <2>2. ReportOK'
    BY <1>1, <1>2, <1>4, ReportKept
  <2> QED BY <2>1, <2>2
<1> QED BY <1>7, <1>8, <1>11, <1>12 DEF Inv

(* start: the index objects.                                               *)
LEMMA ConflictStep ==
  ASSUME Inv, NEW c \in Caller, NEW s \in SessionId, Conflict(c, s)
  PROVE  Inv'
PROOF
<1>1. /\ call[c].step = "inserting" /\ call[c].id = s
      /\ call' = [call EXCEPT ![c] = Idle]
      /\ usable' = [usable EXCEPT ![s] = {}]
      /\ UNCHANGED <<now, rows, calls, used, overtaken, report>>
  BY DEF Conflict, At, Finish
<1>2. ClockOK /\ RowsOK /\ HistoryOK /\ CallsOK /\ ReportOK /\ now \in Nat
  BY DEF Inv, ClockOK
<1>3. rows[s] = NoRow
  BY <1>1, <1>2 DEF CallsOK, CallOK
<1>4. /\ usable' \in [SessionId -> SUBSET (0 .. MaxTime)] /\ usable'[s] = {}
      /\ \A t \in SessionId \ {s} : usable'[t] = usable[t]
  BY <1>1, <1>2 DEF HistoryOK
<1>5. RowsOK' /\ HistoryOK'
  BY <1>1, <1>2, <1>3, <1>4 DEF RowsOK, HistoryOK
<1>6. /\ call' = [d \in Caller |-> call'[d]] /\ call'[c].step = "idle"
      /\ \A d \in Caller \ {c} : call'[d] = call[d]
  BY <1>1, <1>2 DEF CallsOK, Idle
<1>7. \A d \in Caller \ {c} : call[d].step = "inserting" =>
        rows'[call[d].id] = NoRow /\ usable'[call[d].id] = usable[call[d].id]
  BY <1>1, <1>2, <1>4 DEF CallsOK, CallOK
<1>8. CallsOK'
  <2>1. \A d \in Caller \ {c} : CallOK(d)'
    <3> HIDE DEF CallOK
    <3> QED BY <1>1, <1>2, <1>6, <1>7, OthersKept
  <2>2. CallOK(c)'
    BY <1>6 DEF CallOK
  <2>3. ASSUME NEW d \in Caller, NEW e \in Caller, call'[d].step = "inserting",
               call'[e].step = "inserting", call'[d].id = call'[e].id
        PROVE  d = e
    BY <1>2, <1>6, <2>3 DEF CallsOK
  <2> QED BY <1>6, <2>1, <2>2, <2>3 DEF CallsOK
<1>9. ClockOK' /\ ReportOK'
  <2>1. ClockOK'
    BY <1>1, <1>2 DEF ClockOK
  <2>2. ReportOK'
    BY <1>1, <1>2, <1>3, <1>4, ReportKept
  <2> QED BY <2>1, <2>2
<1> QED BY <1>5, <1>8, <1>9 DEF Inv

(* An update of a row that commits, and if it is not too late leaves the   *)
(* row telling what happened.                                              *)
Writes(c, s, row) ==
  /\ call[c].step \in {"extending", "ending"} /\ call[c].id = s
  /\ rows' = [rows EXCEPT ![s] = row] /\ RowOK(row, now)
  /\ call' = [call EXCEPT ![c] = Idle]
  /\ UNCHANGED <<now, calls, used, usable, report>>
  /\ overtaken' = overtaken \/ overtaken' = overtaken \cup {s}
  /\ s \notin overtaken' => Tells(row, used[s], usable[s], now)

(* It keeps the invariant.                                                 *)
LEMMA RowWritten ==
  ASSUME Inv, NEW c \in Caller, NEW s \in SessionId, NEW row, Writes(c, s, row)
  PROVE  Inv'
PROOF
<1>1. /\ call[c].step \in {"extending", "ending"} /\ call[c].id = s
      /\ rows' = [rows EXCEPT ![s] = row] /\ RowOK(row, now)
      /\ call' = [call EXCEPT ![c] = Idle]
      /\ UNCHANGED <<now, calls, used, usable, report>>
      /\ overtaken' = overtaken \/ overtaken' = overtaken \cup {s}
      /\ s \notin overtaken' => Tells(row, used[s], usable[s], now)
  BY DEF Writes
<1>2. ClockOK /\ RowsOK /\ HistoryOK /\ CallsOK /\ ReportOK /\ now \in Nat
  BY DEF Inv, ClockOK
<1>3. rows[s] # NoRow
  BY <1>1, <1>2 DEF CallsOK, CallOK
<1>4. /\ rows' \in [SessionId -> Row \cup {NoRow}] /\ rows'[s] = row /\ row # NoRow
      /\ \A t \in SessionId \ {s} : rows'[t] = rows[t]
  BY <1>1, <1>2, UsageAssumption DEF RowsOK, RowOK
<1>5. RowsOK'
  BY <1>1, <1>2, <1>4 DEF RowsOK
<1>6. HistoryOK'
  <2>1. overtaken' \subseteq SessionId /\ overtaken \subseteq overtaken'
    BY <1>1, <1>2 DEF HistoryOK
  <2> QED BY <1>1, <1>2, <1>3, <1>4, <2>1 DEF HistoryOK
<1>7. /\ call' = [d \in Caller |-> call'[d]] /\ call'[c].step = "idle"
      /\ \A d \in Caller \ {c} : call'[d] = call[d]
  BY <1>1, <1>2 DEF CallsOK, Idle
<1>8. \A d \in Caller \ {c} : call[d].step = "inserting" =>
        rows'[call[d].id] = NoRow /\ usable'[call[d].id] = usable[call[d].id]
  BY <1>1, <1>2, <1>3, <1>4 DEF CallsOK, CallOK
<1>9. CallsOK'
  <2>1. \A d \in Caller \ {c} : CallOK(d)'
    <3> HIDE DEF CallOK
    <3> QED BY <1>1, <1>2, <1>4, <1>7, <1>8, OthersKept
  <2>2. CallOK(c)'
    BY <1>7 DEF CallOK
  <2>3. ASSUME NEW d \in Caller, NEW e \in Caller, call'[d].step = "inserting",
               call'[e].step = "inserting", call'[d].id = call'[e].id
        PROVE  d = e
    BY <1>2, <1>7, <2>3 DEF CallsOK
  <2> QED BY <1>7, <2>1, <2>2, <2>3 DEF CallsOK
<1>10. ClockOK' /\ ReportOK'
  <2>1. ClockOK'
    BY <1>1, <1>2 DEF ClockOK
  <2>2. ReportOK'
    BY <1>1, <1>2, <1>3, <1>4, ReportKept
  <2> QED BY <2>1, <2>2
<1> QED BY <1>5, <1>6, <1>9, <1>10 DEF Inv

(* extend: unless it comes too late, the past is what it was.              *)
LEMMA ExtendStep ==
  ASSUME Inv, NEW c \in Caller, NEW s \in SessionId, Extend(c, s)
  PROVE  Inv'
PROOF
<1> DEFINE old == rows[s]
           until == call[c].data
           new == [old EXCEPT !.expiresAt = until]
<1>1. /\ call[c].step = "extending" /\ call[c].id = s
      /\ rows' = [rows EXCEPT ![s] = new]
      /\ call' = [call EXCEPT ![c] = Idle]
      /\ UNCHANGED <<now, calls, used, usable, report>>
      /\ overtaken' = IF LateExtension(old, until) THEN overtaken \cup {s} ELSE overtaken
  BY DEF Extend, At, Finish, OvertakenIf
<1>2. ClockOK /\ RowsOK /\ HistoryOK /\ CallsOK /\ now \in Nat
  BY DEF Inv, ClockOK
<1>3. rows[s] # NoRow /\ until \in Nat
  BY <1>1, <1>2 DEF CallsOK, CallOK
<1>4. RowOK(old, now) /\ old \in Row /\ old.expiresAt \in Nat /\ old.endedAt \in Int
  BY <1>2, <1>3 DEF RowsOK, RowOK, Row, NotEnded
<1>5. /\ new \in Row /\ new.expiresAt = until /\ new.startedAt = old.startedAt
      /\ new.status = old.status /\ new.endedAt = old.endedAt
  BY <1>3, <1>4 DEF Row
<1> HIDE DEF old, until, new
<1>6. RowOK(new, now)
  BY <1>4, <1>5 DEF RowOK
<1>7. ASSUME s \notin overtaken' PROVE Tells(new, used[s], usable[s], now)
  <2>1. ~LateExtension(old, until) /\ Tells(old, used[s], usable[s], now)
    BY <1>1, <1>2, <1>3, <1>7 DEF HistoryOK, old
  <2>2. UsableUntil(new, now) = UsableUntil(old, now) /\ old.status # "EXPIRED"
    <3>1. CASE old.status = "ENDED"
      <4>1. Min({until, old.expiresAt}) = IF until <= old.expiresAt THEN until ELSE old.expiresAt
        BY <1>3, <1>4, MinMax
      <4>2. ~(Min({until, old.expiresAt}) < old.endedAt)
        BY <2>1, <3>1 DEF LateExtension
      <4>3. until >= old.endedAt /\ old.expiresAt >= old.endedAt
        BY <1>3, <1>4, <4>1, <4>2
      <4>4. UsableUntil(old, now)
              = IF old.expiresAt <= old.endedAt THEN old.expiresAt ELSE old.endedAt
        BY <1>2, <1>4, <3>1, UsableUntilIs
      <4>5. UsableUntil(new, now)
              = IF new.expiresAt <= new.endedAt THEN new.expiresAt ELSE new.endedAt
        BY <1>2, <1>5, <1>6, <3>1, UsableUntilIs
      <4> QED BY <1>3, <1>4, <1>5, <3>1, <4>3, <4>4, <4>5
    <3>2. CASE old.status # "ENDED"
      <4>1. old.status = "ACTIVE" /\ old.expiresAt > now /\ until >= now
        BY <1>2, <1>3, <2>1, <3>2 DEF LateExtension, IsActiveRow
      <4>2. UsableUntil(old, now) = IF old.expiresAt <= now THEN old.expiresAt ELSE now
        BY <1>2, <1>4, <4>1, UsableUntilIs
      <4>3. UsableUntil(new, now) = IF new.expiresAt <= now THEN new.expiresAt ELSE now
        BY <1>2, <1>5, <1>6, <4>1, UsableUntilIs
      <4> QED BY <1>2, <1>3, <1>4, <1>5, <4>1, <4>2, <4>3
    <3> QED BY <3>1, <3>2
  <2> QED BY <1>5, <2>1, <2>2 DEF Tells
<1>8. overtaken' = overtaken \/ overtaken' = overtaken \cup {s}
  BY <1>1
<1>9. call[c].step \in {"extending", "ending"} /\ call[c].id = s
  BY <1>1
<1>10. /\ rows' = [rows EXCEPT ![s] = new] /\ call' = [call EXCEPT ![c] = Idle]
       /\ UNCHANGED <<now, calls, used, usable, report>>
  BY <1>1
<1>11. Writes(c, s, new)
  BY <1>6, <1>7, <1>8, <1>9, <1>10 DEF Writes
<1> QED BY <1>11, RowWritten

(* end: what was used while it was under way counts or not.                *)
LEMMA EndStep ==
  ASSUME Inv, NEW c \in Caller, NEW s \in SessionId, End(c, s)
  PROVE  Inv'
PROOF
<1> DEFINE old == rows[s]
           at == call[c].data
           new == [old EXCEPT !.status = "ENDED", !.endedAt = at]
<1>1. /\ call[c].step = "ending" /\ call[c].id = s
      /\ rows' = [rows EXCEPT ![s] = new]
      /\ call' = [call EXCEPT ![c] = Idle]
      /\ UNCHANGED <<now, calls, used, usable, report>>
      /\ overtaken' = IF LateEnd(old) THEN overtaken \cup {s} ELSE overtaken
  BY DEF End, At, Finish, OvertakenIf
<1>2. ClockOK /\ RowsOK /\ HistoryOK /\ CallsOK /\ now \in Nat
  BY DEF Inv, ClockOK
<1>3. /\ rows[s] # NoRow /\ at \in Nat /\ at <= now
      /\ \A x \in used[s] : x < at
  BY <1>1, <1>2 DEF CallsOK, CallOK
<1>4. /\ RowOK(old, now) /\ old \in Row /\ old.expiresAt \in Nat
      /\ old.status \in {"ACTIVE", "EXPIRED", "ENDED"}
  BY <1>2, <1>3 DEF RowsOK, RowOK, Row, NotEnded
<1>5. /\ new \in Row /\ new.expiresAt = old.expiresAt /\ new.startedAt = old.startedAt
      /\ new.status = "ENDED" /\ new.endedAt = at
  BY <1>3, <1>4 DEF Row
<1> HIDE DEF old, at, new
<1>6. RowOK(new, now)
  BY <1>3, <1>4, <1>5 DEF RowOK, NotEnded
<1>7. ASSUME s \notin overtaken' PROVE Tells(new, used[s], usable[s], now)
  <2>1. old.status # "ENDED" /\ Tells(old, used[s], usable[s], now)
    BY <1>1, <1>2, <1>3, <1>7 DEF HistoryOK, old, LateEnd
  <2>2. UsableUntil(new, now) = IF old.expiresAt <= at THEN old.expiresAt ELSE at
    BY <1>2, <1>5, <1>6, UsableUntilIs
  <2>3. /\ UsableUntil(old, now) \in Nat /\ UsableUntil(old, now) <= old.expiresAt
        /\ UsableUntil(new, now) <= UsableUntil(old, now)
    <3>1. CASE old.status = "ACTIVE"
      <4>1. UsableUntil(old, now) = IF old.expiresAt <= now THEN old.expiresAt ELSE now
        BY <1>2, <1>4, <3>1, UsableUntilIs
      <4> QED BY <1>2, <1>3, <1>4, <2>2, <4>1
    <3>2. CASE old.status = "EXPIRED"
      <4>1. UsableUntil(old, now) = old.expiresAt
        BY <1>2, <1>4, <3>2, UsableUntilIs
      <4> QED BY <1>3, <1>4, <2>2, <4>1
    <3> QED BY <1>4, <2>1, <3>1, <3>2
  <2>4. \A x \in used[s] : x \in Int /\ new.startedAt <= x /\ x < UsableUntil(new, now)
    <3>1. \A x \in used[s] : x \in Int
      BY <1>2 DEF HistoryOK
    <3>2. \A x \in used[s] : old.startedAt <= x /\ x < UsableUntil(old, now)
      BY <2>1 DEF Tells
    <3> QED BY <1>3, <1>4, <1>5, <2>2, <2>3, <3>1, <3>2
  <2>5. \A x \in Nat : new.startedAt <= x /\ x < UsableUntil(new, now) => x \in usable[s]
    <3>1. UsableUntil(new, now) \in Nat
      BY <1>2, <1>6, UsableUntilIs
    <3> QED BY <1>5, <2>1, <2>3, <3>1 DEF Tells
  <2> QED BY <1>5, <2>4, <2>5 DEF Tells
<1>8. overtaken' = overtaken \/ overtaken' = overtaken \cup {s}
  BY <1>1
<1>9. call[c].step \in {"extending", "ending"} /\ call[c].id = s
  BY <1>1
<1>10. /\ rows' = [rows EXCEPT ![s] = new] /\ call' = [call EXCEPT ![c] = Idle]
       /\ UNCHANGED <<now, calls, used, usable, report>>
  BY <1>1
<1>11. Writes(c, s, new)
  BY <1>6, <1>7, <1>8, <1>9, <1>10 DEF Writes
<1> QED BY <1>11, RowWritten

(* A unit of time passes.                                                  *)
LEMMA PassTimeStep == Inv /\ PassTime => Inv'
PROOF
<1> SUFFICES ASSUME Inv, PassTime PROVE Inv'
  OBVIOUS
<1> DEFINE running == {s \in SessionId : Running(s)}
           ending == {s \in SessionId : \E c \in Caller : At(c, "ending", s)}
           created == {s \in SessionId : \E c \in Caller : At(c, "inserting", s)}
<1>1. /\ now < MaxTime /\ now' = now + 1
      /\ used' = Seen(used, running \ ending)
      /\ usable' = Seen(usable, running \cup created)
      /\ UNCHANGED <<rows, call, calls, overtaken, report>>
  BY DEF PassTime
<1>2. ClockOK /\ RowsOK /\ HistoryOK /\ CallsOK /\ ReportOK
  BY DEF Inv
<1>3. now \in Nat /\ now \in 0 .. MaxTime /\ now' \in 0 .. MaxTime /\ now' \in Nat
  BY <1>1, <1>2, UsageAssumption DEF ClockOK
<1>4. /\ used' \in [SessionId -> SUBSET (0 .. MaxTime)]
      /\ usable' \in [SessionId -> SUBSET (0 .. MaxTime)]
      /\ \A s \in SessionId :
           /\ used'[s] = IF s \in running /\ s \notin ending THEN used[s] \cup {now}
                                                            ELSE used[s]
           /\ usable'[s] = IF s \in running \/ s \in created THEN usable[s] \cup {now}
                                                           ELSE usable[s]
  <2> HIDE DEF running, ending, created
  <2> QED BY <1>1, <1>2, <1>3 DEF HistoryOK, Seen
<1>5. RowsOK'
  <2>1. \A s \in SessionId : rows[s] # NoRow => RowOK(rows[s], now + 1)
    BY <1>2, <1>3 DEF RowsOK, RowOK, Row, NotEnded
  <2> QED BY <1>1, <1>2, <2>1 DEF RowsOK
<1>6. ASSUME NEW s \in SessionId, rows[s] # NoRow, s \notin overtaken
      PROVE  Tells(rows[s], used'[s], usable'[s], now + 1)
  <2> DEFINE row == rows[s]
  <2>1. /\ RowOK(row, now) /\ RowOK(row, now + 1) /\ row \in Row
        /\ row.expiresAt \in Nat /\ row.status \in {"ACTIVE", "EXPIRED", "ENDED"}
        /\ Tells(row, used[s], usable[s], now)
    BY <1>1, <1>2, <1>5, <1>6 DEF RowsOK, RowOK, HistoryOK, Row
  <2>2. Running(s) <=> row.status = "ACTIVE" /\ row.expiresAt > now
    BY <1>6 DEF Running, IsActiveRow
  <2>3. s \in running <=> Running(s)
    OBVIOUS
  <2>4. row.startedAt \in Nat /\ \A x \in used[s] : x \in Nat
    BY <1>2, <2>1 DEF Row, HistoryOK
  <2>7. UsableUntil(row, now) \in Nat
    BY <1>3, <2>1, UsableUntilIs
  <2> HIDE DEF row, running, ending, created
  <2>5. CASE Running(s)
    <3>1. UsableUntil(row, now) = now
      <4>1. UsableUntil(row, now) = IF row.expiresAt <= now THEN row.expiresAt ELSE now
        BY <1>3, <2>1, <2>2, <2>5, UsableUntilIs
      <4> QED BY <1>3, <2>1, <2>2, <2>5, <4>1
    <3>2. UsableUntil(row, now + 1) = now + 1
      <4>1. UsableUntil(row, now + 1)
              = IF row.expiresAt <= now + 1 THEN row.expiresAt ELSE now + 1
        BY <1>3, <2>1, <2>2, <2>5, UsableUntilIs
      <4> QED BY <1>3, <2>1, <2>2, <2>5, <4>1
    <3>3. row.startedAt <= now
      BY <2>1 DEF RowOK
    <3> QED BY <1>3, <1>4, <2>1, <2>2, <2>3, <2>4, <2>5, <3>1, <3>2, <3>3 DEF Tells, row
  <2>6. CASE ~Running(s)
    <3>1. UsableUntil(row, now + 1) = UsableUntil(row, now)
      <4>1. CASE row.status = "ACTIVE"
        <5>1. UsableUntil(row, now) = IF row.expiresAt <= now THEN row.expiresAt ELSE now
          BY <1>3, <2>1, <4>1, UsableUntilIs
        <5>2. UsableUntil(row, now + 1)
                = IF row.expiresAt <= now + 1 THEN row.expiresAt ELSE now + 1
          BY <1>3, <2>1, <4>1, UsableUntilIs
        <5> QED BY <1>3, <2>1, <2>2, <2>6, <4>1, <5>1, <5>2
      <4>2. CASE row.status = "EXPIRED"
        <5>1. UsableUntil(row, now) = row.expiresAt
          BY <1>3, <2>1, <4>2, UsableUntilIs
        <5>2. UsableUntil(row, now + 1) = row.expiresAt
          BY <1>3, <2>1, <4>2, UsableUntilIs
        <5> QED BY <5>1, <5>2
      <4>3. CASE row.status = "ENDED"
        <5>1. UsableUntil(row, now)
                = IF row.expiresAt <= row.endedAt THEN row.expiresAt ELSE row.endedAt
          BY <1>3, <2>1, <4>3, UsableUntilIs
        <5>2. UsableUntil(row, now + 1)
                = IF row.expiresAt <= row.endedAt THEN row.expiresAt ELSE row.endedAt
          BY <1>3, <2>1, <4>3, UsableUntilIs
        <5> QED BY <5>1, <5>2
      <4> QED BY <2>1, <4>1, <4>2, <4>3
    <3>2. used'[s] = used[s] /\ usable[s] \subseteq usable'[s]
      BY <1>4, <2>3, <2>6
    <3> QED BY <1>3, <2>1, <3>1, <3>2 DEF Tells, row
  <2> QED BY <2>5, <2>6 DEF row
<1>7. ASSUME NEW s \in SessionId
      PROVE  /\ \A x \in used'[s] \cup usable'[s] : x < now + 1
             /\ rows[s] = NoRow => used'[s] = {}
  <2>1. /\ \A x \in used[s] \cup usable[s] : x < now /\ x \in Int
        /\ rows[s] = NoRow => used[s] = {}
    BY <1>2 DEF HistoryOK
  <2>2. rows[s] = NoRow => s \notin running
    BY DEF Running
  <2> HIDE DEF running, ending, created
  <2> QED BY <1>3, <1>4, <2>1, <2>2
<1>8. HistoryOK'
  BY <1>1, <1>2, <1>4, <1>6, <1>7 DEF HistoryOK
<1>9. CallsOK'
  <2>1. ASSUME NEW c \in Caller PROVE CallOK(c)'
    <3>1. CallOK(c) /\ call'[c] = call[c]
      BY <1>1, <1>2 DEF CallsOK
    <3>2. call[c].step = "ending" => used'[call[c].id] = used[call[c].id]
      <4>1. call[c].step = "ending" => call[c].id \in SessionId /\ call[c].id \in ending
        BY <3>1 DEF CallOK, At
      <4> HIDE DEF running, ending, created
      <4> QED BY <1>4, <4>1
    <3>3. call[c].step = "inserting" =>
            Created(call[c].data, usable'[call[c].id], now + 1)
      <4> SUFFICES ASSUME call[c].step = "inserting"
                   PROVE  Created(call[c].data, usable'[call[c].id], now + 1)
        OBVIOUS
      <4>1. /\ call[c].id \in SessionId /\ call[c].id \in created
            /\ Created(call[c].data, usable[call[c].id], now)
        BY <3>1 DEF CallOK, At
      <4>2. usable'[call[c].id] = usable[call[c].id] \cup {now}
        <5> HIDE DEF running, ending, created
        <5> QED BY <1>4, <4>1
      <4>3. call[c].data.startedAt \in Nat
        BY <4>1 DEF Created, Row
      <4> QED BY <1>3, <4>1, <4>2, <4>3 DEF Created
    <3>4. call[c].data <= now /\ call[c].data \in Nat => call[c].data <= now + 1
      BY <1>3
    <3> HIDE DEF Created
    <3> QED BY <1>1, <3>1, <3>2, <3>3, <3>4 DEF CallOK
  <2> QED BY <1>1, <1>2, <2>1 DEF CallsOK
<1>10. ClockOK' /\ ReportOK'
  <2>1. ClockOK'
    BY <1>1, <1>2, <1>3 DEF ClockOK
  <2>2. ASSUME NEW s \in SessionId
        PROVE  /\ usable[s] \subseteq usable'[s]
               /\ \A x \in used'[s] : x < now => x \in used[s]
    <3> HIDE DEF running, ending, created
    <3> QED BY <1>3, <1>4
  <2>3. ReportOK'
    BY <1>1, <1>2, <1>3, <2>2, ReportKept
  <2> QED BY <2>1, <2>3
<1> QED BY <1>5, <1>8, <1>9, <1>10 DEF Inv

(* BeginReport takes its `now`, and reads no row yet.                      *)
LEMMA BeginStep ==
  ASSUME Inv, NEW from \in Borders, NEW to \in Borders, BeginReport(from, to)
  PROVE  Inv'
PROOF
<1>1. /\ UNCHANGED <<now, rows, call, calls, used, usable, overtaken>>
      /\ report' = [step |-> "reading", from |-> from, to |-> to, asOf |-> now]
      /\ from < to
  BY DEF BeginReport, table, history
<1>2. ClockOK /\ RowsOK /\ HistoryOK /\ CallsOK /\ now \in Nat
  BY DEF Inv, ClockOK
<1>3. from \in Nat /\ to \in Nat
  BY UsageAssumption
<1>4. RowsOK' /\ HistoryOK' /\ ClockOK'
  BY <1>1, <1>2 DEF RowsOK, HistoryOK, ClockOK
<1>5. CallsOK'
  BY <1>1, <1>2 DEF CallsOK, CallOK
<1>6. ReportOK'
  BY <1>1, <1>2, <1>3 DEF ReportOK, Asked, Done
<1> QED BY <1>4, <1>5, <1>6 DEF Inv

(* What findMany selects and reportSessions lists of one session.          *)
LEMMA SelectedRow ==
  ASSUME Inv, Asked(report), NEW s \in Selected(report.from, report.to)
  PROVE  /\ s \in SessionId /\ rows[s] # NoRow /\ RowOK(rows[s], now)
         /\ rows[s].startedAt \in Nat
         /\ UsableUntil(rows[s], report.asOf) \in Nat
         /\ InWindow(s, report) \in Nat
         /\ Listed(s, report).id = s
         /\ Listed(s, report).start = rows[s].startedAt
         /\ Listed(s, report).end = UsableUntil(rows[s], report.asOf)
         /\ Listed(s, report).usedSeconds = Seconds(InWindow(s, report))
PROOF
<1>1. s \in SessionId /\ rows[s] # NoRow
  BY DEF Selected
<1>2. RowOK(rows[s], now)
  BY <1>1 DEF Inv, RowsOK
<1>3. rows[s].startedAt \in Nat /\ report.asOf \in Nat
  BY <1>2 DEF RowOK, Row, Asked
<1>4. UsableUntil(rows[s], report.asOf) \in Nat
  BY <1>2, <1>3, UsableUntilIs
<1>5. InWindow(s, report) \in Nat
  <2> DEFINE until == UsableUntil(rows[s], report.asOf)
  <2>1. /\ report.from \in Int /\ report.to \in Int
        /\ rows[s].startedAt \in Int /\ until \in Int
    BY <1>3, <1>4 DEF Asked
  <2> HIDE DEF until
  <2>2. Overlap(rows[s].startedAt, until, report.from, report.to) \in Nat
    BY <2>1, OverlapCounts
  <2> QED BY <2>2 DEF InWindow, until
<1> QED BY <1>1, <1>2, <1>3, <1>4, <1>5 DEF Listed

(* What was used of a session that nothing came too late for is counted,   *)
(* and nothing is that was not usable.                                     *)
LEMMA RowTells ==
  ASSUME Inv, Asked(report), NEW s \in SessionId, s \notin overtaken,
         rows[s] # NoRow, NEW x \in Nat
  PROVE  /\ x \in used[s] /\ x < report.asOf =>
              /\ rows[s].startedAt <= x /\ x < UsableUntil(rows[s], report.asOf)
              /\ x < rows[s].expiresAt
         /\ rows[s].startedAt <= x /\ x < UsableUntil(rows[s], report.asOf) =>
              x \in usable[s] /\ x < now
PROOF
<1>1. /\ RowOK(rows[s], now) /\ now \in Nat
      /\ report.asOf \in Nat /\ report.asOf <= now
      /\ Tells(rows[s], used[s], usable[s], now)
      /\ \A y \in usable[s] : y < now
  BY DEF Inv, RowsOK, HistoryOK, ClockOK, Asked
<1>2. /\ UsableUntil(rows[s], report.asOf) \in Nat
      /\ UsableUntil(rows[s], report.asOf) <= UsableUntil(rows[s], now)
      /\ UsableUntil(rows[s], now) \in Nat
      /\ UsableUntil(rows[s], now) <= rows[s].expiresAt
      /\ x < report.asOf /\ x < UsableUntil(rows[s], now) =>
           x < UsableUntil(rows[s], report.asOf)
  BY <1>1, UntilGrows DEF Tells
<1>3. rows[s].expiresAt \in Nat
  BY <1>1 DEF RowOK, Row
<1>4. x \in used[s] => rows[s].startedAt <= x /\ x < UsableUntil(rows[s], now)
  BY <1>1 DEF Tells
<1>5. rows[s].startedAt <= x /\ x < UsableUntil(rows[s], now) => x \in usable[s]
  BY <1>1 DEF Tells
<1>6. x < UsableUntil(rows[s], report.asOf) => x < UsableUntil(rows[s], now)
  BY <1>2
<1> QED BY <1>1, <1>2, <1>3, <1>4, <1>5, <1>6

(* The rows are read, listed and added up.                                 *)
LEMMA ReadStep == Inv /\ ReadSessions => Inv'
PROOF
<1> SUFFICES ASSUME Inv, ReadSessions PROVE Inv'
  OBVIOUS
<1> DEFINE from == report.from
           to == report.to
           S == Selected(from, to)
           U == {s \in S : InWindow(s, report) > 0}
           L == ReportSessions(report)
           window(a) == Overlap(a.start, a.end, from, to)
<1>1. /\ report.step = "reading"
      /\ UNCHANGED <<now, rows, call, calls, used, usable, overtaken>>
      /\ report'.step = "done" /\ report'.from = from /\ report'.to = to
      /\ report'.asOf = report.asOf /\ report'.readAt = now
      /\ report'.usedSeconds = UsedSeconds(report)
      /\ report'.sessions = L
  BY DEF ReadSessions, table, history
<1>2. /\ ClockOK /\ RowsOK /\ HistoryOK /\ CallsOK /\ Asked(report)
  BY <1>1 DEF Inv, ReportOK
<1>3. /\ from \in Nat /\ to \in Nat /\ from < to /\ now \in Nat
      /\ report.asOf \in Nat /\ report.asOf <= now
  BY <1>2 DEF Asked, ClockOK
<1>4. ASSUME NEW s \in S
      PROVE  /\ s \in SessionId /\ rows[s] # NoRow
             /\ rows[s].startedAt \in Nat
             /\ UsableUntil(rows[s], report.asOf) \in Nat
             /\ InWindow(s, report) \in Nat
             /\ Listed(s, report).id = s
             /\ Listed(s, report).start = rows[s].startedAt
             /\ Listed(s, report).end = UsableUntil(rows[s], report.asOf)
             /\ Listed(s, report).usedSeconds = Seconds(InWindow(s, report))
             /\ window(Listed(s, report)) = InWindow(s, report)
  BY <1>2, SelectedRow DEF InWindow
<1>5. L = {Listed(s, report) : s \in U}
  BY DEF ReportSessions
<1>6. IsFiniteSet(S) /\ IsFiniteSet(U) /\ S \subseteq SessionId
  BY UsageAssumption, FS_Subset DEF Selected
<1>7. IsFiniteSet(L)
  <2> DEFINE F == [s \in U |-> Listed(s, report)]
  <2>1. F \in Surjection(U, L)
    BY <1>5 DEF Surjection
  <2> HIDE DEF F, U, L
  <2> QED BY <1>6, <2>1, FS_Surjection
<1> HIDE DEF L, S, window
<1>8. ASSUME NEW a \in L
      PROVE  /\ a.id \in U /\ a.id \in S /\ a = Listed(a.id, report)
             /\ a.id \in SessionId /\ rows[a.id] # NoRow
             /\ a.start = rows[a.id].startedAt /\ a.start \in Nat
             /\ a.end = UsableUntil(rows[a.id], report.asOf) /\ a.end \in Nat
             /\ a.usedSeconds = Seconds(window(a))
             /\ window(a) = InWindow(a.id, report)
  <2>1. PICK s \in U : a = Listed(s, report)
    BY <1>5
  <2> QED BY <1>4, <2>1
<1>9. ASSUME NEW a \in L, a.id \notin overtaken
      PROVE  Counts(a, report)'
  <2> SUFFICES ASSUME NEW x \in from .. to - 1
               PROVE  /\ x \in used[a.id] /\ x < report.asOf => a.start <= x /\ x < a.end
                      /\ a.start <= x /\ x < a.end => x \in usable[a.id] /\ x < now
    BY <1>1 DEF Counts
  <2>1. x \in Nat
    BY <1>3
  <2> QED BY <1>2, <1>8, <1>9, <2>1, RowTells
<1>10. ASSUME NEW s \in SessionId, s \notin overtaken, Missing(s, report)',
              NEW x \in from .. to - 1, x \in used[s], x < report.asOf
       PROVE  FALSE
  <2> DEFINE until == UsableUntil(rows[s], report.asOf)
  <2>1. x \in Nat /\ from <= x /\ x < to
    BY <1>3
  <2>2. rows[s] # NoRow
    BY <1>2, <1>10 DEF HistoryOK
  <2>3. rows[s].startedAt <= x /\ x < until /\ x < rows[s].expiresAt
    BY <1>2, <1>10, <2>1, <2>2, RowTells
  <2>4. rows[s].startedAt \in Nat /\ rows[s].expiresAt \in Nat
    BY <1>2, <2>2 DEF RowsOK, RowOK, Row
  <2>5. s \in S
    BY <1>3, <2>1, <2>2, <2>3, <2>4 DEF S, Selected
  <2>6. until \in Nat /\ InWindow(s, report) \in Nat
    BY <1>4, <2>5
  <2> DEFINE P == Slice(rows[s].startedAt, until, from, to)
  <2>7. x \in P
    BY <2>3 DEF Slice
  <2> HIDE DEF until, P
  <2>8. IsFiniteSet(P) /\ Cardinality(P) = Overlap(rows[s].startedAt, until, from, to)
    <3>1. /\ rows[s].startedAt \in Int /\ until \in Int
          /\ from \in Int /\ to \in Int
      BY <1>3, <2>4, <2>6
    <3> QED BY <3>1, OverlapCounts DEF P
  <2>9. Cardinality(P) = InWindow(s, report)
    BY <2>8 DEF InWindow, until
  <2>10. InWindow(s, report) # 0
    BY <2>7, <2>8, <2>9, FS_EmptySet
  <2>11. Listed(s, report) \in L
    BY <1>5, <2>5, <2>6, <2>10
  <2> QED BY <1>1, <1>4, <1>10, <2>5, <2>11 DEF Missing
<1>11. UsedSeconds(report) = Seconds(SumFunction([a \in L |-> window(a)]))
  <2> DEFINE f == [s \in S |-> InWindow(s, report)]
             g == [a \in L |-> window(a)]
  <2>1. f \in [S -> Nat] /\ g \in [L -> Nat]
    BY <1>4, <1>8
  <2>2. UsedSeconds(report) = Seconds(SumFunction(f))
    BY DEF UsedSeconds, S
  <2>3. \A s \in S : f[s] = InWindow(s, report)
    OBVIOUS
  <2>4. \A a \in L : g[a] = window(a)
    OBVIOUS
  <2> HIDE DEF f, g
  <2>5. SumFunction(f) <= SumFunction(g)
    <3> DEFINE m == [s \in {x \in S : f[x] > 0} |-> Listed(s, report)]
    <3>1. m \in [{x \in S : f[x] > 0} -> L]
      BY <1>5, <2>3
    <3>2. \A s \in S : f[s] > 0 => m[s] = Listed(s, report) /\ m[s] \in L
      BY <3>1
    <3> HIDE DEF m
    <3>3. \A s \in S : f[s] > 0 => f[s] <= g[m[s]]
      BY <1>4, <2>3, <2>4, <3>2
    <3>4. \A s, q \in S : f[s] > 0 /\ f[q] > 0 /\ m[s] = m[q] => s = q
      BY <1>4, <3>2
    <3> QED BY <1>6, <1>7, <2>1, <3>1, <3>3, <3>4, SumGrows
  <2>6. SumFunction(g) <= SumFunction(f)
    <3> DEFINE m == [a \in {x \in L : g[x] > 0} |-> a.id]
    <3>1. m \in [{x \in L : g[x] > 0} -> S]
      BY <1>8
    <3>2. \A a \in L : g[a] > 0 => m[a] = a.id
      OBVIOUS
    <3> HIDE DEF m
    <3>3. \A a \in L : g[a] > 0 => g[a] <= f[m[a]]
      BY <1>4, <1>8, <2>3, <2>4, <3>2
    <3>4. \A a, b \in L : g[a] > 0 /\ g[b] > 0 /\ m[a] = m[b] => a = b
      BY <1>8, <3>2
    <3> QED BY <1>6, <1>7, <2>1, <3>1, <3>3, <3>4, SumGrows
  <2>7. SumFunction(f) \in Nat /\ SumFunction(g) \in Nat
    BY <1>6, <1>7, <2>1, SumCounts
  <2>8. SumFunction(f) = SumFunction(g)
    BY <2>5, <2>6, <2>7
  <2> QED BY <2>2, <2>8 DEF g
<1>12. Right(report)'
  <2>1. Asked(report)'
    BY <1>1, <1>2 DEF Asked
  <2>2. \A a \in L : a.usedSeconds = Seconds(Overlap(a.start, a.end, from, to))
    BY <1>8 DEF window
  <2>3. \A a, b \in L : a.id = b.id => a = b
    BY <1>8
  <2>4. UsedSeconds(report)
          = Seconds(SumFunction([a \in L |-> Overlap(a.start, a.end, from, to)]))
    BY <1>11 DEF window
  <2>5. \A a \in L : /\ a.id \in SessionId /\ rows[a.id] # NoRow
                     /\ a.start \in Nat /\ a.end \in Nat
    BY <1>8
  <2> QED BY <1>1, <1>3, <1>7, <1>9, <1>10, <2>1, <2>2, <2>3, <2>4, <2>5 DEF Right
<1>13. ReportOK'
  BY <1>1, <1>12 DEF ReportOK
<1>14. RowsOK' /\ HistoryOK' /\ ClockOK'
  BY <1>1, <1>2 DEF RowsOK, HistoryOK, ClockOK
<1>15. CallsOK'
  BY <1>1, <1>2 DEF CallsOK, CallOK
<1> QED BY <1>13, <1>14, <1>15 DEF Inv

(* A machine starts without sessions, requests or reports.                 *)
LEMMA InitInv == Init => Inv
PROOF
<1> SUFFICES ASSUME Init PROVE Inv
  OBVIOUS
<1>1. ClockOK /\ RowsOK /\ HistoryOK
  BY UsageAssumption DEF Init, ClockOK, RowsOK, HistoryOK
<1>2. CallsOK /\ ReportOK
  BY DEF Init, CallsOK, CallOK, Idle, ReportOK, NoReport, Done
<1> QED BY <1>1, <1>2 DEF Inv

(* Every handler, timer and report keeps the invariant.                    *)
LEMMA NextInv == Inv /\ [Next]_vars => Inv'
PROOF
<1> SUFFICES ASSUME Inv, [Next]_vars PROVE Inv'
  OBVIOUS
<1>1. ASSUME NEW c \in Caller, Request(c) PROVE Inv'
  <2>1. CASE BeginStart(c)
    BY <2>1, BeginStartStep
  <2>2. CASE \E s \in SessionId : \E kind \in {"extend", "end"} : ReadSession(c, s, kind)
    BY <2>2, ReadSessionStep
  <2> QED BY <1>1, <2>1, <2>2 DEF Request
<1>2. ASSUME NEW c \in Caller, Continue(c) PROVE Inv'
  <2>1. CASE Refuse(c)
    BY <2>1, RefuseStep
  <2>2. ASSUME NEW s \in SessionId, NEW duration \in Granted,
               IssueCreate(c, s, duration) \/ IssueExtend(c, s, duration)
        PROVE  Inv'
    BY <2>2, IssueCreateStep, IssueExtendStep
  <2>3. ASSUME NEW s \in SessionId,
               Insert(c, s) \/ Conflict(c, s) \/ IssueEnd(c, s) \/ Extend(c, s) \/ End(c, s)
        PROVE  Inv'
    BY <2>3, InsertStep, ConflictStep, IssueEndStep, ExtendStep, EndStep
  <2> QED BY <1>2, <2>1, <2>2, <2>3 DEF Continue
<1>3. CASE Sweep
  BY <1>3, SweepStep
<1>4. CASE PassTime
  BY <1>4, PassTimeStep
<1>5. CASE \E from, to \in Borders : BeginReport(from, to)
  BY <1>5, BeginStep
<1>6. CASE ReadSessions
  BY <1>6, ReadStep
<1>7. CASE UNCHANGED vars
  <2>1. UNCHANGED <<now, rows, call, calls, used, usable, overtaken, report>>
    BY <1>7 DEF vars, table, history
  <2>2. ClockOK' /\ RowsOK' /\ HistoryOK'
    BY <2>1 DEF Inv, ClockOK, RowsOK, HistoryOK
  <2>3. CallsOK'
    BY <2>1 DEF Inv, CallsOK, CallOK
  <2>4. ReportOK'
    BY <2>1 DEF Inv, ReportOK, Asked, Right, Counts, Missing, Done
  <2> QED BY <2>2, <2>3, <2>4 DEF Inv
<1> QED BY <1>1, <1>2, <1>3, <1>4, <1>5, <1>6, <1>7 DEF Next

(* Whatever is requested when, rows tell what happened unless a write came *)
(* too late, and reports tell what the rows do.                            *)
THEOREM Invariant == Spec => []Inv
PROOF
<1>1. Init => Inv
  BY InitInv
<1>2. Inv /\ [Next]_vars => Inv'
  BY NextInv
<1> QED BY <1>1, <1>2, PTL DEF Spec

-----------------------------------------------------------------------------
(* What the reports show.                                                  *)

(* The type invariant of the handlers' and the report's state.             *)
THEOREM TypeCorrect == Spec => []TypeOK
PROOF
<1>1. Inv => TypeOK
  <2> SUFFICES ASSUME Inv PROVE TypeOK
    OBVIOUS
  <2>1. /\ ClockOK /\ rows \in [SessionId -> Row \cup {NoRow}]
        /\ \A s \in SessionId : rows[s] # NoRow =>
             (rows[s].status = "ENDED" <=> rows[s].endedAt # NotEnded)
    BY DEF Inv, RowsOK, RowOK
  <2>2. \A c \in Caller : call[c].step \in {"extend", "end", "extending", "ending"} =>
          rows[call[c].id] # NoRow
    BY DEF Inv, CallsOK, CallOK
  <2>3. {used, usable} \subseteq [SessionId -> SUBSET (0 .. MaxTime)]
          /\ overtaken \subseteq SessionId
    BY DEF Inv, HistoryOK
  <2>4. Done => report.usedSeconds \in Nat
    <3> SUFFICES ASSUME Done PROVE report.usedSeconds \in Nat
      OBVIOUS
    <3>1. Right(report)
      BY DEF Inv, ReportOK
    <3> DEFINE f == [a \in report.sessions |-> Overlap(a.start, a.end, report.from, report.to)]
    <3>2. ASSUME NEW a \in report.sessions
          PROVE  Overlap(a.start, a.end, report.from, report.to) \in Nat
      <4>1. /\ a.start \in Int /\ a.end \in Int
            /\ report.from \in Int /\ report.to \in Int
        BY <3>1 DEF Right, Asked
      <4> QED BY <4>1, OverlapCounts
    <3>3. IsFiniteSet(report.sessions) /\ f \in [report.sessions -> Nat]
      BY <3>1, <3>2 DEF Right
    <3>4. report.usedSeconds = Seconds(SumFunction(f))
      BY <3>1 DEF Right
    <3> HIDE DEF f
    <3> QED BY <3>3, <3>4, SumCounts, SecondsBounds
  <2>5. report.step \in {"none", "reading", "done"}
    BY DEF Inv, ReportOK
  <2> QED BY <2>1, <2>2, <2>3, <2>4, <2>5 DEF TypeOK, ClockOK
<1> QED BY <1>1, Invariant, PTL

(* Instants are counted by naturals.                                       *)
LEMMA InstantsFinite ==
  ASSUME NEW instants \in SUBSET (0 .. MaxTime), NEW from, NEW to, NEW t
  PROVE  IsFiniteSet(instants) /\ Within(instants, from, to, t) \in Nat
PROOF
<1>1. MaxTime \in Int /\ 0 \in Int
  BY UsageAssumption
<1>2. IsFiniteSet(0 .. MaxTime)
  BY <1>1, FS_Interval
<1>3. IsFiniteSet(instants)
  BY <1>2, FS_Subset
<1>4. IsFiniteSet({x \in instants : from <= x /\ x < to /\ x < t})
  BY <1>3, FS_Subset
<1> QED BY <1>3, <1>4, FS_CardinalityType DEF Within

(* What a listed session has in a part of the window lies between what was *)
(* used in it and what was usable.                                         *)
LEMMA ListedWithin ==
  ASSUME Inv, Done, NEW a \in report.sessions, NEW lo \in Nat, NEW hi \in Nat,
         report.from <= lo, hi <= report.to
  PROVE  /\ Overlap(a.start, a.end, lo, hi) \in Nat
         /\ a.id \notin overtaken =>
              /\ Within(used[a.id], lo, hi, report.asOf)
                   <= Overlap(a.start, a.end, lo, hi)
              /\ Overlap(a.start, a.end, lo, hi)
                   <= Within(usable[a.id], lo, hi, report.readAt)
PROOF
<1> DEFINE P == Slice(a.start, a.end, lo, hi)
           A == {x \in used[a.id] : lo <= x /\ x < hi /\ x < report.asOf}
           B == {x \in usable[a.id] : lo <= x /\ x < hi /\ x < report.readAt}
<1>1. Right(report)
  BY DEF Inv, ReportOK
<1>2. /\ a.start \in Nat /\ a.end \in Nat /\ a.id \in SessionId
      /\ a.start \in Int /\ a.end \in Int /\ lo \in Int /\ hi \in Int
      /\ report.from \in Nat /\ report.to \in Nat
      /\ a.id \notin overtaken => Counts(a, report)
  BY <1>1 DEF Right, Asked
<1>3. /\ Overlap(a.start, a.end, lo, hi) \in Nat
      /\ IsFiniteSet(P) /\ Cardinality(P) = Overlap(a.start, a.end, lo, hi)
  BY <1>2, OverlapCounts
<1>4. /\ used[a.id] \in SUBSET (0 .. MaxTime) /\ usable[a.id] \in SUBSET (0 .. MaxTime)
  BY <1>2 DEF Inv, HistoryOK
<1>5. /\ IsFiniteSet(B)
      /\ Cardinality(A) = Within(used[a.id], lo, hi, report.asOf)
      /\ Cardinality(B) = Within(usable[a.id], lo, hi, report.readAt)
  <2>1. IsFiniteSet(usable[a.id])
    BY <1>4, InstantsFinite
  <2>2. IsFiniteSet(B)
    BY <2>1, FS_Subset
  <2> QED BY <2>2 DEF Within
<1>6. ASSUME a.id \notin overtaken PROVE A \subseteq P /\ P \subseteq B
  <2>1. \A x \in Nat : lo <= x /\ x < hi => x \in report.from .. report.to - 1
    BY <1>2
  <2>2. \A x \in A : x \in P
    <3> TAKE x \in A
    <3>1. x \in Nat /\ lo <= x /\ x < hi /\ x \in used[a.id] /\ x < report.asOf
      BY <1>4
    <3>2. a.start <= x /\ x < a.end
      BY <1>2, <1>6, <2>1, <3>1 DEF Counts
    <3> QED BY <3>1, <3>2 DEF Slice
  <2>3. \A x \in P : x \in B
    <3> TAKE x \in P
    <3>1. x \in Nat /\ lo <= x /\ x < hi /\ a.start <= x /\ x < a.end
      BY DEF Slice
    <3> QED BY <1>2, <1>6, <2>1, <3>1 DEF Counts
  <2> QED BY <2>2, <2>3
<1> HIDE DEF P, A, B
<1>7. a.id \notin overtaken => Cardinality(A) <= Cardinality(P) /\ Cardinality(P) <= Cardinality(B)
  BY <1>3, <1>5, <1>6, FS_Subset
<1> QED BY <1>3, <1>5, <1>7

(* A session that is not listed was not used in the window.                *)
LEMMA MissingWithin ==
  ASSUME Inv, Done, NEW s \in SessionId, s \notin overtaken, Missing(s, report),
         NEW lo \in Nat, NEW hi \in Nat, report.from <= lo, hi <= report.to
  PROVE  Within(used[s], lo, hi, report.asOf) = 0
PROOF
<1>1. Right(report)
  BY DEF Inv, ReportOK
<1>2. /\ report.from \in Nat /\ report.to \in Nat /\ used[s] \subseteq Nat
      /\ \A x \in report.from .. report.to - 1 : ~(x \in used[s] /\ x < report.asOf)
  BY <1>1 DEF Right, Asked, Inv, HistoryOK
<1>3. {x \in used[s] : lo <= x /\ x < hi /\ x < report.asOf} = {}
  BY <1>2
<1> QED BY <1>3, FS_EmptySet DEF Within

(* The listed sessions together have, in a part of the window, what all    *)
(* have used in it or more, and no more than was usable.                   *)
LEMMA SumsWithin ==
  ASSUME Inv, Done, overtaken = {}, NEW lo \in Nat, NEW hi \in Nat,
         report.from <= lo, hi <= report.to
  PROVE  Seconds(SumFunction([a \in report.sessions |-> Overlap(a.start, a.end, lo, hi)]))
           \in OfAll(lo, hi, report)
PROOF
<1> DEFINE L == report.sessions
           u == [s \in SessionId |-> Within(used[s], lo, hi, report.asOf)]
           g == [a \in L |-> Overlap(a.start, a.end, lo, hi)]
           p == [s \in SessionId |-> Within(usable[s], lo, hi, report.readAt)]
<1>1. Right(report)
  BY DEF Inv, ReportOK
<1>2. /\ IsFiniteSet(L) /\ IsFiniteSet(SessionId)
      /\ \A a \in L : a.id \in SessionId
      /\ \A a, b \in L : a.id = b.id => a = b
  BY <1>1, UsageAssumption DEF Right
<1>3. \A s \in SessionId : /\ used[s] \in SUBSET (0 .. MaxTime)
                           /\ usable[s] \in SUBSET (0 .. MaxTime)
  BY DEF Inv, HistoryOK
<1>4. u \in [SessionId -> Nat] /\ p \in [SessionId -> Nat]
  BY <1>3, InstantsFinite
<1>5. \A a \in L : /\ g[a] \in Nat
                   /\ u[a.id] <= g[a] /\ g[a] <= p[a.id]
  BY <1>2, ListedWithin
<1>6. g \in [L -> Nat]
  BY <1>5
<1>7. \A s \in SessionId : u[s] > 0 => \E a \in L : a.id = s
  <2> SUFFICES ASSUME NEW s \in SessionId, Missing(s, report) PROVE u[s] = 0
    BY <1>4 DEF Missing
  <2> QED BY MissingWithin
<1>8. OfAll(lo, hi, report) = Seconds(SumFunction(u)) .. Seconds(SumFunction(p))
  BY DEF OfAll
<1> HIDE DEF L, u, g, p
<1>9. SumFunction(u) <= SumFunction(g)
  <2> DEFINE m == [s \in {x \in SessionId : u[x] > 0} |-> CHOOSE a \in L : a.id = s]
  <2>1. \A s \in SessionId : u[s] > 0 => m[s] \in L /\ m[s].id = s
    BY <1>7
  <2>2. m \in [{x \in SessionId : u[x] > 0} -> L]
    BY <1>7
  <2> HIDE DEF m
  <2>3. \A s \in SessionId : u[s] > 0 => u[s] <= g[m[s]]
    BY <1>5, <2>1
  <2>4. \A s, q \in SessionId : u[s] > 0 /\ u[q] > 0 /\ m[s] = m[q] => s = q
    BY <2>1
  <2> QED BY <1>2, <1>4, <1>6, <2>2, <2>3, <2>4, SumGrows
<1>10. SumFunction(g) <= SumFunction(p)
  <2> DEFINE m == [a \in {x \in L : g[x] > 0} |-> a.id]
  <2>1. \A a \in L : g[a] > 0 => m[a] = a.id
    OBVIOUS
  <2>2. m \in [{x \in L : g[x] > 0} -> SessionId]
    BY <1>2
  <2> HIDE DEF m
  <2>3. \A a \in L : g[a] > 0 => g[a] <= p[m[a]]
    BY <1>5, <2>1
  <2>4. \A a, b \in L : g[a] > 0 /\ g[b] > 0 /\ m[a] = m[b] => a = b
    BY <1>2, <2>1
  <2> QED BY <1>2, <1>4, <1>6, <2>2, <2>3, <2>4, SumGrows
<1>11. SumFunction(u) \in Nat /\ SumFunction(g) \in Nat /\ SumFunction(p) \in Nat
  BY <1>2, <1>4, <1>6, SumCounts
<1>12. Seconds(SumFunction(g)) \in Seconds(SumFunction(u)) .. Seconds(SumFunction(p))
  <2>1. /\ Seconds(SumFunction(u)) \in Nat /\ Seconds(SumFunction(g)) \in Nat
        /\ Seconds(SumFunction(p)) \in Nat
    BY <1>11, SecondsBounds
  <2>2. /\ Seconds(SumFunction(u)) <= Seconds(SumFunction(g))
        /\ Seconds(SumFunction(g)) <= Seconds(SumFunction(p))
    BY <1>9, <1>10, <1>11, SecondsGrow
  <2> QED BY <2>1, <2>2
<1> QED BY <1>8, <1>12 DEF L, g

(* Where no write comes too late, a report's total counts what had been    *)
(* used when it was asked for, and nothing that had not been usable when   *)
(* the rows were read.                                                     *)
THEOREM MatchesHistory == Spec => []ReportMatchesHistory
PROOF
<1>1. Inv => ReportMatchesHistory
  <2> SUFFICES ASSUME Inv, Done, overtaken = {}
               PROVE  report.usedSeconds \in OfAll(report.from, report.to, report)
    BY DEF ReportMatchesHistory
  <2>1. Right(report)
    BY DEF Inv, ReportOK
  <2>2. report.from \in Nat /\ report.to \in Nat
    BY <2>1 DEF Right, Asked
  <2>3. report.usedSeconds
          = Seconds(SumFunction([a \in report.sessions |->
                                   Overlap(a.start, a.end, report.from, report.to)]))
    BY <2>1 DEF Right
  <2>4. report.from <= report.from /\ report.to <= report.to
    BY <2>2
  <2> QED BY <2>2, <2>3, <2>4, SumsWithin
<1> QED BY <1>1, Invariant, PTL

(* So does each of its days, whichever instants are midnights.             *)
THEOREM DaysCorrect == Spec => []DaysMatchHistory
PROOF
<1>1. Inv => DaysMatchHistory
  <2> SUFFICES ASSUME Inv, Done, overtaken = {}, NEW d \in Days,
                      report.from <= d[1], d[2] <= report.to
               PROVE  DaySeconds(report, d[1], d[2]) \in OfAll(d[1], d[2], report)
    BY DEF DaysMatchHistory
  <2>1. d[1] \in Nat /\ d[2] \in Nat
    BY UsageAssumption DEF Days
  <2> QED BY <2>1, SumsWithin DEF DaySeconds
<1> QED BY <1>1, Invariant, PTL

(* And each listed session counts what it was itself used, in whole        *)
(* seconds: one left out was not, and what came too late for others does   *)
(* not matter.                                                             *)
THEOREM RowsCorrect == Spec => []RowsMatchHistory
PROOF
<1>1. Inv => RowsMatchHistory
  <2> SUFFICES ASSUME Inv, Done, NEW s \in SessionId \ overtaken
               PROVE  \/ \E x \in report.sessions :
                           /\ x.id = s
                           /\ x.usedSeconds \in OfSession(s, report.from, report.to, report)
                      \/ /\ \A x \in report.sessions : x.id # s
                         /\ Within(used[s], report.from, report.to, report.asOf) = 0
    BY DEF RowsMatchHistory
  <2>1. Right(report)
    BY DEF Inv, ReportOK
  <2>2. /\ report.from \in Nat /\ report.to \in Nat
        /\ report.from <= report.from /\ report.to <= report.to
    BY <2>1 DEF Right, Asked
  <2>3. CASE Missing(s, report)
    BY <2>2, <2>3, MissingWithin DEF Missing
  <2>4. ASSUME NEW a \in report.sessions, a.id = s
        PROVE  a.usedSeconds \in OfSession(s, report.from, report.to, report)
    <3> DEFINE u == Within(used[s], report.from, report.to, report.asOf)
               o == Overlap(a.start, a.end, report.from, report.to)
               p == Within(usable[s], report.from, report.to, report.readAt)
    <3>1. o \in Nat /\ u <= o /\ o <= p
      BY <2>2, <2>4, ListedWithin
    <3>2. used[s] \in SUBSET (0 .. MaxTime) /\ usable[s] \in SUBSET (0 .. MaxTime)
      BY DEF Inv, HistoryOK
    <3>3. u \in Nat /\ p \in Nat
      BY <3>2, InstantsFinite
    <3>4. a.usedSeconds = Seconds(o)
      BY <2>1 DEF Right
    <3>5. OfSession(s, report.from, report.to, report) = Seconds(u) .. Seconds(p)
      BY DEF OfSession
    <3> HIDE DEF u, o, p
    <3>6. Seconds(u) \in Nat /\ Seconds(o) \in Nat /\ Seconds(p) \in Nat
      BY <3>1, <3>3, SecondsBounds
    <3>7. Seconds(u) <= Seconds(o) /\ Seconds(o) <= Seconds(p)
      BY <3>1, <3>3, SecondsGrow
    <3>8. Seconds(o) \in Seconds(u) .. Seconds(p)
      BY <3>6, <3>7
    <3> QED BY <3>4, <3>5, <3>8
  <2> QED BY <2>3, <2>4 DEF Missing
<1> QED BY <1>1, Invariant, PTL

=============================================================================
