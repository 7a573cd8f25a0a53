--------------------------- MODULE IterationLemmas --------------------------
(***************************************************************************)
(* Induction over the natural numbers in first-order form, and the         *)
(* existence of functions defined step by step.  The batch operations of   *)
(* the contract (a loop over the entries of the call) are such functions.  *)
(* Then sequences that are used as tables: a row is added at the end and   *)
(* found by its place, and sums over the keys of a map.                    *)
(***************************************************************************)
EXTENDS Storage, WellFoundedInduction, NaturalsInduction, FiniteSetTheorems, TLAPS

(* A set of natural numbers that is not empty has a least element. *)
LEMMA LeastNat ==
  ASSUME NEW T, T \subseteq Nat, T # {}
  PROVE  \E n \in T : \A m \in T : n <= m
<1>1. IsWellFoundedOn(OpToRel(<, Nat), Nat)
  BY NatLessThanWellFounded
<1>2. PICK n \in T : \A m \in T : ~(<<m, n>> \in OpToRel(<, Nat))
  BY <1>1, WFMin
<1>3. \A m \in T : ~(m < n)
  BY <1>2 DEF OpToRel
<1> QED BY <1>3

(* A set that holds 0 and with each number the next holds them all. *)
LEMMA SetInduction ==
  ASSUME NEW S, 0 \in S, \A n \in Nat : n \in S => n + 1 \in S
  PROVE  Nat \subseteq S
<1> SUFFICES ASSUME Nat \ S # {} PROVE FALSE
  OBVIOUS
<1>1. PICK n \in Nat \ S : \A m \in Nat \ S : n <= m
  BY LeastNat
<1>2. n # 0
  OBVIOUS
<1>3. n - 1 \in Nat
  BY <1>1, <1>2
<1>4. n - 1 \in S
  BY <1>1, <1>3
<1>5. (n - 1) + 1 \in S
  BY <1>4, <1>3
<1> QED BY <1>5

(* Finitely many natural numbers, listed by a table, have a greatest.      *)
LEMMA GreatestNat ==
  ASSUME NEW n, n \in Nat, NEW f, \A i \in 1..n : f[i] \in Nat,
         NEW T, 0 \in T, \A k \in T : k = 0 \/ \E i \in 1..n : k = f[i]
  PROVE  \E m \in T : \A k \in T : k <= m
<1> DEFINE B == {k \in Nat : \E u \in Nat : \A i \in 1..n : i <= k => f[i] <= u}
<1>1. 0 \in B
  OBVIOUS
<1>2. ASSUME NEW k \in Nat, k \in B PROVE k + 1 \in B
  <2>1. PICK u \in Nat : \A i \in 1..n : i <= k => f[i] <= u
    BY <1>2
  <2>2. CASE k + 1 \in 1..n
    <3>1. f[k + 1] \in Nat
      BY <2>2
    <3>2. PICK v \in Nat : u <= v /\ f[k + 1] <= v
      BY <3>1
    <3>3. ASSUME NEW i \in 1..n, i <= k + 1 PROVE f[i] <= v
      <4>1. CASE i = k + 1
        BY <3>2, <4>1
      <4>2. CASE i <= k
        <5>1. f[i] \in Nat /\ f[i] <= u
          BY <2>1, <4>2
        <5> QED BY <3>2, <5>1
      <4> QED BY <3>3, <4>1, <4>2
    <3> QED BY <3>3
  <2>3. CASE k + 1 \notin 1..n
    <3>1. \A i \in 1..n : i <= k + 1 => i <= k
      BY <2>3
    <3>2. \A i \in 1..n : i <= k + 1 => f[i] <= u
      BY <2>1, <3>1
    <3> QED BY <3>2
  <2> QED BY <2>2, <2>3
<1>3. n \in B
  <2> HIDE DEF B
  <2>1. Nat \subseteq B
    BY <1>1, <1>2, SetInduction
  <2> QED BY <2>1
<1>4. PICK u \in Nat : \A i \in 1..n : f[i] <= u
  BY <1>3
<1> DEFINE U == {v \in Nat : \A k \in T : k <= v}
<1>5. u \in U /\ U \subseteq Nat
  BY <1>4
<1>6. PICK m \in U : \A v \in U : m <= v
  <2> HIDE DEF U
  <2> QED BY <1>5, LeastNat
<1>7. T \subseteq Nat /\ 0 \in T
  OBVIOUS
<1>8. ASSUME m \notin T PROVE FALSE
  <2>1. \A k \in T : k < m
    BY <1>6, <1>7, <1>8
  <2>2. m - 1 \in U
    BY <1>6, <1>7, <2>1
  <2>3. m <= m - 1
    BY <1>6, <2>2
  <2> QED BY <1>6, <2>3
<1> QED BY <1>6, <1>8

(* n steps from start, the i-th of which takes x to step[<<i, x>>]. *)
Iterate(n, step, start) ==
  CHOOSE g : g = [i \in 0..n |-> IF i = 0 THEN start ELSE step[<<i, g[i - 1]>>]]

(* Such a function exists for every number of steps. *)
LEMMA IterateDef ==
  ASSUME NEW n \in Nat, NEW step, NEW start, NEW g, g = Iterate(n, step, start)
  PROVE  g = [i \in 0..n |-> IF i = 0 THEN start ELSE step[<<i, g[i - 1]>>]]
<1> DEFINE T == {k \in Nat : \E h : h = [i \in 0..k |->
                   IF i = 0 THEN start ELSE step[<<i, h[i - 1]>>]]}
<1>1. 0 \in T
  <2> DEFINE h == [i \in 0..0 |-> start]
  <2>1. h = [i \in 0..0 |-> IF i = 0 THEN start ELSE step[<<i, h[i - 1]>>]]
    OBVIOUS
  <2> QED BY <2>1
<1>2. ASSUME NEW k \in Nat, k \in T PROVE k + 1 \in T
  <2>1. PICK f : f = [i \in 0..k |-> IF i = 0 THEN start ELSE step[<<i, f[i - 1]>>]]
    BY <1>2
  <2> DEFINE h == [i \in 0..(k + 1) |->
                     IF i = k + 1 THEN step[<<k + 1, f[k]>>] ELSE f[i]]
  <2>2. ASSUME NEW i \in 0..(k + 1)
        PROVE  h[i] = IF i = 0 THEN start ELSE step[<<i, h[i - 1]>>]
    <3>1. CASE i = k + 1
      <4>1. h[k] = f[k] /\ k \in 0..(k + 1) /\ i - 1 = k /\ i # 0
        BY <3>1
      <4>2. h[i] = step[<<k + 1, f[k]>>]
        BY <3>1
      <4> HIDE DEF h
      <4> QED BY <3>1, <4>1, <4>2
    <3>2. CASE i # k + 1 /\ i # 0
      <4>1. i - 1 \in 0..k /\ i \in 0..k /\ h[i - 1] = f[i - 1] /\ h[i] = f[i]
        BY <3>2
      <4>2. f[i] = step[<<i, f[i - 1]>>]
        BY <2>1, <4>1, <3>2
      <4> QED BY <4>1, <4>2, <3>2
    <3>3. CASE i = 0
      BY <3>3, <2>1
    <3> QED BY <3>1, <3>2, <3>3
  <2>3. h = [i \in 0..(k + 1) |-> IF i = 0 THEN start ELSE step[<<i, h[i - 1]>>]]
    BY <2>2
  <2> HIDE DEF h
  <2> QED BY <2>3
<1>3. Nat \subseteq T
  <2> HIDE DEF T
  <2> QED BY <1>1, <1>2, SetInduction
<1> QED BY <1>3 DEF Iterate

(* All the steps stay in the set they start in. *)
LEMMA IterateIn ==
  ASSUME NEW n \in Nat, NEW S, NEW start \in S, NEW step \in [(1..n) \X S -> S],
         NEW g, g = Iterate(n, step, start)
  PROVE  \A k \in 0..n : g[k] \in S
<1>1. g = [i \in 0..n |-> IF i = 0 THEN start ELSE step[<<i, g[i - 1]>>]]
  BY IterateDef
<1> DEFINE T == {k \in Nat : k <= n => g[k] \in S}
<1>2. 0 \in T
  BY <1>1
<1>3. ASSUME NEW k \in Nat, k \in T PROVE k + 1 \in T
  <2> SUFFICES ASSUME k + 1 <= n PROVE g[k + 1] \in S
    OBVIOUS
  <2>1. g[k + 1] = step[<<k + 1, g[(k + 1) - 1]>>]
    BY <1>1
  <2>2. <<k + 1, g[k]>> \in (1..n) \X S
    BY <1>3
  <2> QED BY <2>1, <2>2
<1>4. Nat \subseteq T
  <2> HIDE DEF T
  <2> QED BY <1>2, <1>3, SetInduction
<1> QED BY <1>4

-----------------------------------------------------------------------------
(* Tables: a row is added at the end and found by its place. *)

IsSeq(s) == \E S : s \in Seq(S)

(* A table without rows. *)
LEMMA EmptyIsSeq == IsSeq(<<>>) /\ DOMAIN <<>> = {}
<1>1. <<>> \in Seq({})
  OBVIOUS
<1> QED BY <1>1 DEF IsSeq

(* An INSERT leaves the rows that are there alone. *)
Inserted(s, e, t) ==
  /\ IsSeq(t)
  /\ Len(s) \in Nat /\ Len(t) = Len(s) + 1
  /\ Len(t) \notin DOMAIN s
  /\ DOMAIN t = DOMAIN s \cup {Len(t)}
  /\ t[Len(t)] = e
  /\ \A i \in DOMAIN s : t[i] = s[i]

(* Append inserts. *)
LEMMA AppendedRow ==
  ASSUME NEW s, IsSeq(s), NEW e, NEW t, t = Append(s, e)
  PROVE  Inserted(s, e, t)
<1>1. PICK S : s \in Seq(S)
  BY DEF IsSeq
<1>2. s \in Seq(S \cup {e}) /\ e \in S \cup {e}
  BY <1>1
<1>3. t \in Seq(S \cup {e})
  BY <1>2
<1>4. /\ Len(t) = Len(s) + 1 /\ Len(s) \in Nat
      /\ DOMAIN s = 1..Len(s) /\ DOMAIN t = 1..Len(t)
  BY <1>2, <1>3
<1>5. t[Len(t)] = e /\ \A i \in 1..Len(s) : t[i] = s[i]
  BY <1>2, <1>4
<1> QED BY <1>3, <1>4, <1>5 DEF IsSeq, Inserted

(* An UPDATE neither adds nor removes a row. *)
LEMMA UpdatedRows ==
  ASSUME NEW s, IsSeq(s), NEW t, t = [i \in DOMAIN s |-> t[i]]
  PROVE  IsSeq(t) /\ DOMAIN t = DOMAIN s /\ Len(t) = Len(s)
<1>1. PICK S : s \in Seq(S)
  BY DEF IsSeq
<1>2. DOMAIN s = 1..Len(s) /\ Len(s) \in Nat
  BY <1>1
<1> DEFINE T == {t[i] : i \in DOMAIN s}
<1>3. t \in [1..Len(s) -> T]
  BY <1>2
<1>4. t \in Seq(T) /\ DOMAIN t = 1..Len(s)
  BY <1>2, <1>3
<1>5. Len(t) = Len(s)
  BY <1>2, <1>4
<1> QED BY <1>2, <1>4, <1>5 DEF IsSeq

(* An UPDATE leaves rows of the type of the table. *)
LEMMA RowsTyped ==
  ASSUME NEW S, NEW T, NEW s \in Seq(T), NEW t, t = [i \in DOMAIN s |-> t[i]],
         \A i \in DOMAIN s : t[i] \in S
  PROVE  t \in Seq(S) /\ DOMAIN t = DOMAIN s
<1>1. DOMAIN s = 1..Len(s) /\ Len(s) \in Nat
  OBVIOUS
<1>2. t \in [1..Len(s) -> S]
  BY <1>1
<1> QED BY <1>1, <1>2

(* A table whose rows are of one type. *)
LEMMA SeqOfRows ==
  ASSUME NEW S, NEW t, IsSeq(t), \A i \in DOMAIN t : t[i] \in S
  PROVE  t \in Seq(S)
<1>1. PICK T : t \in Seq(T)
  BY DEF IsSeq
<1>2. t = [i \in DOMAIN t |-> t[i]]
  BY <1>1
<1> QED BY <1>1, <1>2, RowsTyped

(* A table is finite. *)
LEMMA RowsAreFinite ==
  ASSUME NEW t, IsSeq(t)
  PROVE  IsFiniteSet(DOMAIN t)
<1>1. DOMAIN t = 1..Len(t) /\ Len(t) \in Nat
  BY DEF IsSeq
<1> QED BY <1>1, FS_Interval

(* An UPDATE of one row. *)
Replaced(s, i, e, t) ==
  /\ IsSeq(t) /\ DOMAIN t = DOMAIN s /\ Len(t) = Len(s)
  /\ i \in DOMAIN s => t[i] = e
  /\ \A j \in DOMAIN s \ {i} : t[j] = s[j]

(* EXCEPT replaces. *)
LEMMA UpdatedRow ==
  ASSUME NEW s, IsSeq(s), NEW i, NEW e, NEW t, t = [s EXCEPT ![i] = e]
  PROVE  Replaced(s, i, e, t)
<1>1. t = [j \in DOMAIN s |-> t[j]]
  OBVIOUS
<1>2. IsSeq(t) /\ DOMAIN t = DOMAIN s /\ Len(t) = Len(s)
  BY <1>1, UpdatedRows
<1> QED BY <1>2 DEF Replaced

(* A table whose rows are of one type keeps it: an INSERT of such a row,   *)
(* and an UPDATE that leaves such a row in the place, if there is one.     *)
TableOf(s, S) == IsSeq(s) /\ \A i \in DOMAIN s : s[i] \in S

(* A new row.                                                              *)
LEMMA TableInserted ==
  ASSUME NEW s, NEW S, TableOf(s, S), NEW e, e \in S, NEW t, t = Append(s, e)
  PROVE  TableOf(t, S) /\ DOMAIN s \subseteq DOMAIN t
<1>1. Inserted(s, e, t)
  BY AppendedRow DEF TableOf
<1> QED BY <1>1 DEF TableOf, Inserted

(* A row written.                                                          *)
LEMMA TableUpdated ==
  ASSUME NEW s, NEW S, TableOf(s, S), NEW i, NEW e, i \in DOMAIN s => e \in S,
         NEW t, t = [s EXCEPT ![i] = e]
  PROVE  TableOf(t, S) /\ DOMAIN t = DOMAIN s
<1>1. Replaced(s, i, e, t)
  BY UpdatedRow DEF TableOf
<1> QED BY <1>1 DEF TableOf, Replaced

(* All rows written.                                                       *)
LEMMA TableRewritten ==
  ASSUME NEW s, NEW S, TableOf(s, S), NEW t, t = [i \in DOMAIN s |-> t[i]],
         \A i \in DOMAIN s : t[i] \in S
  PROVE  TableOf(t, S) /\ DOMAIN t = DOMAIN s
BY UpdatedRows DEF TableOf

(* What is a table is a sequence.                                          *)
LEMMA TableIsSeq ==
  ASSUME NEW s, NEW S, TableOf(s, S)
  PROVE  s \in Seq(S)
BY SeqOfRows DEF TableOf

-----------------------------------------------------------------------------
(* Maps.                                                                   *)

(* A value written under a key.                                            *)
LEMMA KeyWritten ==
  ASSUME NEW K, NEW V, NEW map, IsMap(map, K, V), NEW k \in K, NEW v \in V,
         NEW new, new = Put(map, k, v)
  PROVE  IsMap(new, K, V)
BY DEF IsMap, Put

(* A key taken out.                                                        *)
LEMMA KeyDropped ==
  ASSUME NEW K, NEW V, NEW map, IsMap(map, K, V), NEW k, NEW new, new = Drop(map, k)
  PROVE  IsMap(new, K, V)
BY DEF IsMap, Drop

(* What is read, or its default.                                           *)
LEMMA KeyRead ==
  ASSUME NEW K, NEW V, NEW map, IsMap(map, K, V), NEW k, NEW v, v \in V
  PROVE  Stored(map, k, v) \in V
BY DEF IsMap, Stored

(* The empty map.                                                          *)
LEMMA NoKeys ==
  ASSUME NEW K, NEW V
  PROVE  IsMap(EmptyMap, K, V)
BY DEF IsMap, EmptyMap

-----------------------------------------------------------------------------
(* Lists written anew without some of their elements. *)

(* The lists that Without has written after 0, 1, ... elements. *)
KeptSoFar(s, gone) ==
  CHOOSE f : f = [n \in 0..Len(s) |->
                    IF n = 0 THEN << >>
                    ELSE IF s[n] \in gone THEN f[n - 1] ELSE Append(f[n - 1], s[n])]

(* Each element of w is one of the first n of s, h says which, and their   *)
(* order is that of s.                                                     *)
Embeds(h, w, s, n) ==
  /\ \A i \in 1..Len(w) : h[i] \in 1..n /\ w[i] = s[h[i]]
  /\ \A i, j \in 1..Len(w) : i < j => h[i] < h[j]

(* What is left of s: what is not gone, in the same order. *)
LeftOf(s, gone, n, w) ==
  /\ \E h : Embeds(h, w, s, n)
  /\ \A i \in 1..Len(w) : w[i] \notin gone
  /\ \A k \in 1..n : s[k] \notin gone => \E i \in 1..Len(w) : w[i] = s[k]

(* The lists are written step by step. *)
LEMMA KeptSoFarDef ==
  ASSUME NEW S, NEW s \in Seq(S), NEW gone, NEW f, f = KeptSoFar(s, gone)
  PROVE  /\ f[0] = << >>
         /\ \A k \in 0..Len(s) : f[k] \in Seq(S)
         /\ \A k \in 1..Len(s) :
              f[k] = IF s[k] \in gone THEN f[k - 1] ELSE Append(f[k - 1], s[k])
<1> DEFINE n == Len(s)
           step == [t \in (1..n) \X Seq(S) |->
                      IF s[t[1]] \in gone THEN t[2] ELSE Append(t[2], s[t[1]])]
           g == Iterate(n, step, << >>)
<1>1. n \in Nat /\ \A i \in 1..n : s[i] \in S
  OBVIOUS
<1> HIDE DEF n
<1>2. step \in [(1..n) \X Seq(S) -> Seq(S)]
  BY <1>1
<1>3. \A i \in 1..n, x \in Seq(S) :
        step[<<i, x>>] = IF s[i] \in gone THEN x ELSE Append(x, s[i])
  OBVIOUS
<1>4. g = Iterate(n, step, << >>)
  OBVIOUS
<1> HIDE DEF g, step
<1>5. g = [i \in 0..n |-> IF i = 0 THEN << >> ELSE step[<<i, g[i - 1]>>]]
  BY <1>1, <1>4, IterateDef
<1>6. \A k \in 0..n : g[k] \in Seq(S)
  <2>1. << >> \in Seq(S)
    OBVIOUS
  <2> QED BY <1>1, <1>2, <1>4, <2>1, IterateIn
<1>7. ASSUME NEW i \in 0..n
      PROVE  g[i] = IF i = 0 THEN << >>
                    ELSE IF s[i] \in gone THEN g[i - 1] ELSE Append(g[i - 1], s[i])
  <2>1. CASE i # 0
    <3>1. i \in 1..n /\ i - 1 \in 0..n
      BY <1>1, <2>1
    <3>2. g[i] = step[<<i, g[i - 1]>>]
      BY <1>5, <2>1
    <3> QED BY <1>3, <1>6, <2>1, <3>1, <3>2
  <2>2. CASE i = 0
    BY <1>5, <2>2
  <2> QED BY <2>1, <2>2
<1>8. g = [i \in 0..n |-> IF i = 0 THEN << >>
                          ELSE IF s[i] \in gone THEN g[i - 1] ELSE Append(g[i - 1], s[i])]
  <2>1. g = [i \in 0..n |-> g[i]]
    BY <1>5
  <2> QED BY <2>1, <1>7
<1>9. f = [i \in 0..n |-> IF i = 0 THEN << >>
                          ELSE IF s[i] \in gone THEN f[i - 1] ELSE Append(f[i - 1], s[i])]
  BY <1>8 DEF KeptSoFar, n
<1>10. f[0] = << >>
  BY <1>1, <1>9
<1>11. ASSUME NEW k \in 1..n
       PROVE  f[k] = IF s[k] \in gone THEN f[k - 1] ELSE Append(f[k - 1], s[k])
  <2>1. k \in 0..n /\ k # 0
    BY <1>1
  <2> QED BY <1>9, <2>1
<1> DEFINE T == {k \in Nat : k <= n => f[k] \in Seq(S)}
<1>12. 0 \in T
  <2>1. << >> \in Seq(S)
    OBVIOUS
  <2> QED BY <1>10, <2>1
<1>13. ASSUME NEW k \in Nat, k \in T PROVE k + 1 \in T
  <2> SUFFICES ASSUME k + 1 <= n PROVE f[k + 1] \in Seq(S)
    OBVIOUS
  <2>1. k + 1 \in 1..n /\ (k + 1) - 1 = k /\ f[k] \in Seq(S)
    BY <1>1, <1>13
  <2>2. f[k + 1] = IF s[k + 1] \in gone THEN f[k] ELSE Append(f[k], s[k + 1])
    BY <1>11, <2>1
  <2> QED BY <1>1, <2>1, <2>2
<1>14. Nat \subseteq T
  <2> HIDE DEF T
  <2> QED BY <1>12, <1>13, SetInduction
<1>15. \A k \in 0..n : f[k] \in Seq(S)
  BY <1>1, <1>14
<1> QED BY <1>10, <1>11, <1>15 DEF n

(* One element more that is gone changes nothing. *)
LEMMA LeftAfterGone ==
  ASSUME NEW s, NEW gone, NEW n \in Nat, NEW w, LeftOf(s, gone, n, w), s[n + 1] \in gone
  PROVE  LeftOf(s, gone, n + 1, w)
<1>1. PICK h : Embeds(h, w, s, n)
  BY DEF LeftOf
<1>2. Embeds(h, w, s, n + 1)
  <2>1. 1..n \subseteq 1..(n + 1)
    OBVIOUS
  <2> QED BY <1>1, <2>1 DEF Embeds
<1>3. \A k \in 1..(n + 1) : k \in 1..n \/ k = n + 1
  OBVIOUS
<1> QED BY <1>2, <1>3, Zenon DEF LeftOf

(* One element more that is not gone is written at the end. *)
LEMMA LeftAfterKept ==
  ASSUME NEW S, NEW s, NEW gone, NEW n \in Nat, NEW w \in Seq(S), LeftOf(s, gone, n, w),
         s[n + 1] \in S \ gone, NEW more, more = Append(w, s[n + 1])
  PROVE  LeftOf(s, gone, n + 1, more)
<1> DEFINE m == Len(w)
           last == s[n + 1]
<1>1. PICK h : Embeds(h, w, s, n)
  BY DEF LeftOf
<1> DEFINE g == [i \in 1..(m + 1) |-> IF i = m + 1 THEN n + 1 ELSE h[i]]
<1>2. m \in Nat /\ Len(more) = m + 1 /\ more[m + 1] = last /\ \A i \in 1..m : more[i] = w[i]
  OBVIOUS
<1>3. /\ \A i \in 1..m : h[i] \in 1..n /\ w[i] = s[h[i]] /\ w[i] \notin gone
      /\ \A i, j \in 1..m : i < j => h[i] < h[j]
      /\ \A k \in 1..n : s[k] \notin gone => \E i \in 1..m : w[i] = s[k]
      /\ last \notin gone
  BY <1>1 DEF Embeds, LeftOf
<1> HIDE DEF m
<1>4. g[m + 1] = n + 1 /\ \A i \in 1..m : g[i] = h[i]
  BY <1>2
<1>5. \A i \in 1..(m + 1) : i = m + 1 \/ (i \in 1..m /\ i < m + 1)
  BY <1>2
<1> HIDE DEF g
<1>6. ASSUME NEW i \in 1..(m + 1)
      PROVE  g[i] \in 1..(n + 1) /\ more[i] = s[g[i]] /\ more[i] \notin gone
  <2>1. CASE i = m + 1
    BY <1>2, <1>3, <1>4, <2>1
  <2>2. CASE i \in 1..m
    <3>1. g[i] = h[i] /\ more[i] = w[i] /\ h[i] \in 1..n
      BY <1>2, <1>3, <1>4, <2>2
    <3> QED BY <1>3, <2>2, <3>1
  <2> QED BY <1>5, <2>1, <2>2
<1>7. ASSUME NEW i \in 1..(m + 1), NEW j \in 1..(m + 1), i < j PROVE g[i] < g[j]
  <2>1. i \in 1..m
    BY <1>2, <1>7
  <2>2. CASE j = m + 1
    BY <1>3, <1>4, <2>1, <2>2
  <2>3. CASE j \in 1..m
    BY <1>3, <1>4, <1>7, <2>1, <2>3
  <2> QED BY <1>5, <2>2, <2>3
<1>8. ASSUME NEW k \in 1..(n + 1), s[k] \notin gone PROVE \E i \in 1..(m + 1) : more[i] = s[k]
  <2>1. CASE k = n + 1
    <3>1. m + 1 \in 1..(m + 1)
      BY <1>2
    <3> QED BY <1>2, <2>1, <3>1
  <2>2. CASE k \in 1..n
    <3>1. PICK i \in 1..m : w[i] = s[k]
      BY <1>3, <1>8, <2>2
    <3>2. i \in 1..(m + 1)
      BY <1>2
    <3> QED BY <1>2, <3>1, <3>2
  <2>3. k \in 1..n \/ k = n + 1
    OBVIOUS
  <2> QED BY <2>1, <2>2, <2>3
<1>9. Embeds(g, more, s, n + 1)
  BY <1>2, <1>6, <1>7 DEF Embeds
<1> QED BY <1>2, <1>6, <1>8, <1>9 DEF LeftOf

(* Without leaves what is not gone, in the same order. *)
LEMMA WithoutLeaves ==
  ASSUME NEW S, NEW s \in Seq(S), NEW gone, NEW w, w = Without(s, gone)
  PROVE  w \in Seq(S) /\ LeftOf(s, gone, Len(s), w)
<1> DEFINE f == KeptSoFar(s, gone)
           n == Len(s)
<1>1. /\ f[0] = << >>
      /\ \A k \in 0..n : f[k] \in Seq(S)
      /\ \A k \in 1..n : f[k] = IF s[k] \in gone THEN f[k - 1] ELSE Append(f[k - 1], s[k])
  <2>1. f = KeptSoFar(s, gone)
    OBVIOUS
  <2> HIDE DEF f
  <2> QED BY <2>1, KeptSoFarDef
<1>2. w = f[n]
  BY DEF Without, KeptSoFar
<1>3. n \in Nat /\ \A i \in 1..n : s[i] \in S
  OBVIOUS
<1> HIDE DEF f, n
<1> DEFINE T == {k \in Nat : k <= n => LeftOf(s, gone, k, f[k])}
<1>4. 0 \in T
  <2>1. LeftOf(s, gone, 0, << >>)
    BY DEF LeftOf, Embeds
  <2> QED BY <1>1, <2>1
<1>5. ASSUME NEW k \in Nat, k \in T PROVE k + 1 \in T
  <2> SUFFICES ASSUME k + 1 <= n PROVE LeftOf(s, gone, k + 1, f[k + 1])
    OBVIOUS
  <2>1. k + 1 \in 1..n /\ (k + 1) - 1 = k /\ k \in 0..n
    BY <1>3
  <2>2. f[k + 1] = IF s[k + 1] \in gone THEN f[k] ELSE Append(f[k], s[k + 1])
    BY <1>1, <2>1
  <2>3. LeftOf(s, gone, k, f[k]) /\ f[k] \in Seq(S) /\ s[k + 1] \in S
    BY <1>1, <1>3, <1>5, <2>1
  <2>4. CASE s[k + 1] \in gone
    BY <2>2, <2>3, <2>4, LeftAfterGone
  <2>5. CASE s[k + 1] \notin gone
    BY <2>2, <2>3, <2>5, LeftAfterKept
  <2> QED BY <2>4, <2>5
<1>6. Nat \subseteq T
  <2> HIDE DEF T
  <2> QED BY <1>4, <1>5, SetInduction
<1>7. LeftOf(s, gone, n, f[n]) /\ f[n] \in Seq(S)
  BY <1>1, <1>3, <1>6
<1> QED BY <1>2, <1>7 DEF n

(* The lists of elements of S: a name for Seq(S) that provers do not open. *)
ListOf(S) == Seq(S)

(* A list of numbers that grow, and one that names nothing twice. *)
Ascending(s) == \A i, j \in DOMAIN s : i < j => s[i] < s[j]

Distinct(s) == \A i, j \in DOMAIN s : s[i] = s[j] => i = j

AllBelow(s, e) == \A x : InSeq(s, x) => x < e

(* What Without leaves: the same elements but those gone, ascending or     *)
(* distinct as before.                                                     *)
LEMMA WithoutKeeps ==
  ASSUME NEW S, NEW s \in ListOf(S), NEW gone, NEW w, w = Without(s, gone)
  PROVE  /\ w \in ListOf(S)
         /\ \A x : InSeq(w, x) <=> InSeq(s, x) /\ x \notin gone
         /\ Ascending(s) => Ascending(w)
         /\ Distinct(s) => Distinct(w)
<1> USE DEF ListOf
<1>1. w \in Seq(S) /\ LeftOf(s, gone, Len(s), w)
  BY WithoutLeaves
<1>2. PICK h : Embeds(h, w, s, Len(s))
  BY <1>1 DEF LeftOf
<1> DEFINE D == DOMAIN s
           E == DOMAIN w
<1>3. D = 1..Len(s) /\ E = 1..Len(w) /\ D \subseteq Nat /\ E \subseteq Nat
  BY <1>1
<1>4. /\ \A i \in E : h[i] \in D /\ w[i] = s[h[i]] /\ w[i] \notin gone
      /\ \A i, j \in E : i < j => h[i] < h[j]
      /\ \A k \in D : s[k] \notin gone => \E i \in E : w[i] = s[k]
  BY <1>1, <1>2, <1>3 DEF LeftOf, Embeds
<1>5. \A x : InSeq(w, x) <=> InSeq(s, x) /\ x \notin gone
  <2> SUFFICES ASSUME NEW x PROVE InSeq(w, x) <=> InSeq(s, x) /\ x \notin gone
    OBVIOUS
  <2> HIDE DEF D, E
  <2>1. (\E i \in E : w[i] = x) => (\E i \in D : s[i] = x) /\ x \notin gone
    BY <1>4
  <2>2. (\E i \in D : s[i] = x) /\ x \notin gone => \E i \in E : w[i] = x
    BY <1>4
  <2> QED BY <2>1, <2>2 DEF InSeq, D, E
<1>6. ASSUME Ascending(s) PROVE Ascending(w)
  <2>1. \A i, j \in D : i < j => s[i] < s[j]
    BY <1>6 DEF Ascending
  <2> HIDE DEF D, E
  <2>2. \A i, j \in E : i < j => w[i] < w[j]
    BY <1>4, <2>1
  <2> QED BY <2>2 DEF Ascending, E
<1>7. ASSUME Distinct(s) PROVE Distinct(w)
  <2>1. \A i, j \in D : s[i] = s[j] => i = j
    BY <1>7 DEF Distinct
  <2> HIDE DEF D, E
  <2>2. ASSUME NEW i \in E, NEW j \in E, w[i] = w[j] PROVE i = j
    <3>1. h[i] = h[j] /\ h[i] \in Nat
      BY <1>3, <1>4, <2>1, <2>2
    <3>2. ~(i < j) /\ ~(j < i)
      BY <1>4, <3>1
    <3>3. i \in Nat /\ j \in Nat
      BY <1>3
    <3> QED BY <3>2, <3>3
  <2> QED BY <2>2 DEF Distinct, E
<1> QED BY <1>1, <1>5, <1>6, <1>7

(* Append adds one element; larger than the others, it keeps the list      *)
(* ascending, and new it keeps it distinct.                                *)
LEMMA AppendKeeps ==
  ASSUME NEW s, IsSeq(s), NEW e, NEW w, w = Append(s, e)
  PROVE  /\ \A x : InSeq(w, x) <=> InSeq(s, x) \/ x = e
         /\ Ascending(s) /\ AllBelow(s, e) => Ascending(w)
         /\ Distinct(s) /\ ~InSeq(s, e) => Distinct(w)
<1> DEFINE D == DOMAIN s
           E == DOMAIN w
           n == Len(s)
<1>1. /\ n \in Nat /\ D = 1..n /\ E = 1..(n + 1) /\ w[n + 1] = e
      /\ \A i \in 1..n : w[i] = s[i]
  <2>1. Inserted(s, e, w)
    BY AppendedRow
  <2>2. DOMAIN s = 1..Len(s)
    BY DEF IsSeq
  <2>3. 1..(Len(s) + 1) = 1..Len(s) \cup {Len(s) + 1}
    BY <2>1 DEF Inserted
  <2> QED BY <2>1, <2>2, <2>3 DEF Inserted
<1>2. /\ D \subseteq E /\ n + 1 \in E
      /\ \A i \in E : i = n + 1 \/ (i \in D /\ i < n + 1)
      /\ \A i \in D : w[i] = s[i] /\ i < n + 1
      /\ E \subseteq Nat
  BY <1>1
<1> HIDE DEF D, E, n
<1>3. \A x : InSeq(s, x) <=> \E i \in D : s[i] = x
  BY DEF InSeq, D
<1>4. \A x : InSeq(w, x) <=> \E i \in E : w[i] = x
  BY DEF InSeq, E
<1>5. ASSUME NEW x PROVE InSeq(w, x) <=> InSeq(s, x) \/ x = e
  <2>1. ASSUME InSeq(w, x), x # e PROVE InSeq(s, x)
    <3>1. PICK i \in E : w[i] = x
      BY <1>4, <2>1
    <3>2. i \in D /\ s[i] = x
      BY <1>1, <1>2, <2>1, <3>1
    <3> QED BY <1>3, <3>2
  <2>2. ASSUME InSeq(s, x) PROVE InSeq(w, x)
    <3>1. PICK i \in D : s[i] = x
      BY <1>3, <2>2
    <3>2. i \in E /\ w[i] = x
      BY <1>2, <3>1
    <3> QED BY <1>4, <3>2
  <2>3. InSeq(w, e)
    BY <1>1, <1>2, <1>4
  <2> QED BY <2>1, <2>2, <2>3
<1>6. ASSUME Ascending(s), AllBelow(s, e) PROVE Ascending(w)
  <2>1. \A i, j \in D : i < j => s[i] < s[j]
    BY <1>6 DEF Ascending, D
  <2>2. \A i \in D : s[i] < e
    BY <1>3, <1>6 DEF AllBelow
  <2>3. ASSUME NEW i \in E, NEW j \in E, i < j PROVE w[i] < w[j]
    <3>1. i \in D
      BY <1>1, <1>2, <2>3
    <3>2. CASE j = n + 1
      BY <1>1, <1>2, <2>2, <3>1, <3>2
    <3>3. CASE j \in D
      BY <1>2, <2>1, <2>3, <3>1, <3>3
    <3> QED BY <1>2, <3>2, <3>3
  <2> QED BY <2>3 DEF Ascending, E
<1>7. ASSUME Distinct(s), ~InSeq(s, e) PROVE Distinct(w)
  <2>1. /\ \A i, j \in D : s[i] = s[j] => i = j
        /\ \A i \in D : s[i] # e
    BY <1>3, <1>7 DEF Distinct, D
  <2>2. \A i, j \in E : w[i] = w[j] => i = j
    BY <1>1, <1>2, <2>1
  <2> QED BY <2>2 DEF Distinct, E
<1> QED BY <1>5, <1>6, <1>7

(* Two lists, one after the other: the elements of both, and ascending     *)
(* when the second goes on above the first.                                *)
LEMMA ConcatKeeps ==
  ASSUME NEW S, NEW s \in ListOf(S), NEW t \in ListOf(S), NEW w, w = s \o t
  PROVE  /\ w \in ListOf(S)
         /\ \A x : InSeq(w, x) <=> InSeq(s, x) \/ InSeq(t, x)
         /\ Ascending(s) /\ Ascending(t)
              /\ (\A x, y : InSeq(s, x) /\ InSeq(t, y) => x < y) => Ascending(w)
<1> USE DEF ListOf
<1> DEFINE n == Len(s)
           m == Len(t)
           D == DOMAIN s
           F == DOMAIN t
           E == DOMAIN w
<1>1. /\ n \in Nat /\ m \in Nat /\ D = 1..n /\ F = 1..m /\ E = 1..(n + m)
      /\ w \in Seq(S)
      /\ \A i \in 1..n : w[i] = s[i]
      /\ \A i \in (n + 1)..(n + m) : w[i] = t[i - n]
  OBVIOUS
<1> HIDE DEF n, m, D, F, E
<1>2. /\ \A i \in E : \/ i \in D /\ w[i] = s[i]
                      \/ i - n \in F /\ w[i] = t[i - n] /\ i > n
      /\ \A i \in D : i \in E /\ w[i] = s[i] /\ i <= n
      /\ \A j \in F : j + n \in E /\ w[j + n] = t[j]
      /\ E \subseteq Nat
  <2>1. ASSUME NEW i \in E PROVE \/ i \in D /\ w[i] = s[i]
                                 \/ i - n \in F /\ w[i] = t[i - n] /\ i > n
    <3>1. CASE i <= n
      <4>1. i \in 1..n
        BY ONLY i \in E, <1>1, <3>1
      <4> QED BY <1>1, <4>1
    <3>2. CASE i > n
      <4>1. i \in (n + 1)..(n + m) /\ i - n \in 1..m
        BY ONLY i \in E, <1>1, <3>2
      <4> QED BY <1>1, <3>2, <4>1
    <3>3. i \in Nat
      BY ONLY i \in E, <1>1
    <3> QED BY ONLY <1>1, <3>1, <3>2, <3>3
  <2>2. ASSUME NEW j \in F PROVE j + n \in E /\ w[j + n] = t[j]
    <3>1. j + n \in (n + 1)..(n + m) /\ j + n \in 1..(n + m) /\ (j + n) - n = j
      BY ONLY j \in F, <1>1
    <3> QED BY <1>1, <3>1
  <2>3. ASSUME NEW i \in D PROVE i \in E /\ w[i] = s[i] /\ i <= n
    <3>1. i \in 1..n /\ i \in 1..(n + m) /\ i <= n
      BY ONLY i \in D, <1>1
    <3> QED BY <1>1, <3>1
  <2>4. E \subseteq Nat
    BY ONLY <1>1
  <2> QED BY <2>1, <2>2, <2>3, <2>4
<1>3. /\ \A x : InSeq(s, x) <=> \E i \in D : s[i] = x
      /\ \A x : InSeq(t, x) <=> \E i \in F : t[i] = x
      /\ \A x : InSeq(w, x) <=> \E i \in E : w[i] = x
  BY DEF InSeq, D, F, E
<1>4. \A x : InSeq(w, x) <=> InSeq(s, x) \/ InSeq(t, x)
  <2> SUFFICES ASSUME NEW x PROVE InSeq(w, x) <=> InSeq(s, x) \/ InSeq(t, x)
    OBVIOUS
  <2>1. InSeq(w, x) => InSeq(s, x) \/ InSeq(t, x)
    BY <1>2, <1>3
  <2>2. InSeq(s, x) => InSeq(w, x)
    BY <1>2, <1>3
  <2>3. InSeq(t, x) => InSeq(w, x)
    BY <1>2, <1>3
  <2> QED BY <2>1, <2>2, <2>3
<1>5. ASSUME Ascending(s), Ascending(t), \A x, y : InSeq(s, x) /\ InSeq(t, y) => x < y
      PROVE  Ascending(w)
  <2>1. /\ \A i, j \in D : i < j => s[i] < s[j]
        /\ \A i, j \in F : i < j => t[i] < t[j]
    BY <1>5 DEF Ascending, D, F
  <2>2. ASSUME NEW i \in E, NEW j \in E, i < j PROVE w[i] < w[j]
    <3>0. i \in Nat /\ j \in Nat /\ n \in Nat
      BY <1>1, <1>2
    <3>1. CASE i \in D /\ j \in D
      BY <1>2, <2>1, <2>2, <3>1
    <3>2. CASE i \in D /\ w[i] = s[i] /\ j - n \in F /\ w[j] = t[j - n]
      <4>1. InSeq(s, w[i]) /\ InSeq(t, w[j])
        BY <1>3, <3>2
      <4> QED BY <1>5, <4>1
    <3>3. CASE /\ i - n \in F /\ w[i] = t[i - n] /\ j - n \in F /\ w[j] = t[j - n]
      <4>1. i - n < j - n
        BY <2>2, <3>0
      <4> QED BY <2>1, <3>3, <4>1
    <3>4. CASE i > n /\ j \in D
      BY <1>2, <2>2, <3>0, <3>4
    <3> QED BY <1>2, <3>1, <3>2, <3>3, <3>4
  <2> QED BY <2>2 DEF Ascending, E
<1> QED BY <1>1, <1>4, <1>5

-----------------------------------------------------------------------------
(* Sums over the keys of a map: Total adds the values in the order in      *)
(* which CHOOSE picks the keys, and no order makes a difference.           *)

Picked(s) == CHOOSE x \in s : TRUE

(* What a map f adds up to on each set s of its keys. *)
SumTable(f, g) ==
  g = [s \in SUBSET DOMAIN f |->
         IF s = {} THEN 0 ELSE f[Picked(s)] + g[s \ {Picked(s)}]]

(* An element is taken from a finite set. *)
LEMMA PickedFrom ==
  ASSUME NEW s, IsFiniteSet(s), s # {}
  PROVE  /\ Picked(s) \in s
         /\ IsFiniteSet(s \ {Picked(s)})
         /\ Cardinality(s) \in Nat
         /\ Cardinality(s) = Cardinality(s \ {Picked(s)}) + 1
<1>1. Picked(s) \in s
  BY DEF Picked
<1>2. Cardinality(s) \in Nat
  BY FS_CardinalityType
<1>3. IsFiniteSet(s \ {Picked(s)}) /\ Cardinality(s \ {Picked(s)}) = Cardinality(s) - 1
  BY <1>1, FS_RemoveElement
<1> QED BY <1>1, <1>2, <1>3

(* There is such a table for every finite map. *)
LEMMA SumTableExists ==
  ASSUME NEW f, IsFiniteSet(DOMAIN f)
  PROVE  \E g : SumTable(f, g)
<1> DEFINE Small(n) == {s \in SUBSET DOMAIN f : Cardinality(s) <= n}
           Value(g, s) == IF s = {} THEN 0 ELSE f[Picked(s)] + g[s \ {Picked(s)}]
           T == {n \in Nat : \E g : \A s \in Small(n) : g[s] = Value(g, s)}
<1>1. \A s \in SUBSET DOMAIN f : IsFiniteSet(s) /\ Cardinality(s) \in Nat
  BY FS_Subset, FS_CardinalityType
<1>2. 0 \in T
  <2> DEFINE g == [s \in SUBSET DOMAIN f |-> 0]
  <2>1. \A s \in Small(0) : s = {}
    BY <1>1, FS_EmptySet
  <2>2. \A s \in Small(0) : g[s] = Value(g, s)
    BY <2>1
  <2> HIDE DEF g
  <2> QED BY <2>2
<1>3. ASSUME NEW n \in Nat, n \in T PROVE n + 1 \in T
  <2>1. PICK g : \A s \in Small(n) : g[s] = Value(g, s)
    BY <1>3
  <2> DEFINE h == [s \in SUBSET DOMAIN f |-> Value(g, s)]
  <2>2. \A s \in Small(n) : h[s] = g[s]
    BY <2>1
  <2>3. ASSUME NEW s \in Small(n + 1) PROVE h[s] = Value(h, s)
    <3>1. CASE s = {}
      BY <3>1
    <3>2. CASE s # {}
      <4>1. IsFiniteSet(s)
        BY <1>1
      <4>2. Cardinality(s) = Cardinality(s \ {Picked(s)}) + 1
            /\ Picked(s) \in s
        BY <3>2, <4>1, PickedFrom
      <4>3. s \ {Picked(s)} \in Small(n)
        BY <1>1, <4>2
      <4>4. h[s \ {Picked(s)}] = g[s \ {Picked(s)}]
        BY <2>2, <4>3
      <4>5. h[s] = f[Picked(s)] + g[s \ {Picked(s)}]
        BY <3>2
      <4> QED BY <3>2, <4>4, <4>5
    <3> QED BY <3>1, <3>2
  <2> HIDE DEF h
  <2>4. \E e : \A s \in Small(n + 1) : e[s] = Value(e, s)
    BY ONLY <2>3, Zenon
  <2>5. n + 1 \in Nat
    OBVIOUS
  <2> HIDE DEF Small, Value
  <2> QED BY ONLY <2>4, <2>5, Zenon
<1>4. Nat \subseteq T
  <2> HIDE DEF T
  <2> QED BY <1>2, <1>3, SetInduction
<1>5. Cardinality(DOMAIN f) \in T
  BY <1>1, <1>4
<1>6. PICK g : \A s \in Small(Cardinality(DOMAIN f)) : g[s] = Value(g, s)
  BY <1>5
<1>7. \A s \in SUBSET DOMAIN f : g[s] = Value(g, s)
  <2>1. \A s \in SUBSET DOMAIN f : Cardinality(s) <= Cardinality(DOMAIN f)
    BY FS_Subset
  <2> QED BY <1>6, <2>1
<1> DEFINE h == [s \in SUBSET DOMAIN f |-> g[s]]
<1>8. ASSUME NEW s \in SUBSET DOMAIN f PROVE h[s] = Value(h, s)
  <2>1. s \ {Picked(s)} \in SUBSET DOMAIN f
    OBVIOUS
  <2> QED BY <1>7, <2>1
<1>9. h = [s \in SUBSET DOMAIN f |-> Value(h, s)]
  BY <1>8
<1> HIDE DEF h
<1> QED BY <1>9 DEF SumTable

(* The table in which Total looks up the whole map. *)
LEMMA TotalTable ==
  ASSUME NEW f, IsFiniteSet(DOMAIN f)
  PROVE  \E g : SumTable(f, g) /\ Total(f) = g[DOMAIN f]
<1> DEFINE g == CHOOSE h : SumTable(f, h)
<1>1. SumTable(f, g)
  BY SumTableExists
<1>2. Total(f) = g[DOMAIN f]
  BY DEF Total, Fold!SumFunction, Fold!SumFunctionOnSet, Fold!FoldFunctionOnSet,
         Fold!MapThenFoldSet, SumTable, Picked
<1> QED BY <1>1, <1>2

(* A row of the table. *)
LEMMA SumRow ==
  ASSUME NEW f, NEW g, SumTable(f, g), NEW s \in SUBSET DOMAIN f
  PROVE  g[s] = IF s = {} THEN 0 ELSE f[Picked(s)] + g[s \ {Picked(s)}]
BY DEF SumTable

(* What holds of the empty set, and of a finite set when it holds of all   *)
(* smaller ones, holds of all finite subsets.                              *)
LEMMA SizeInduction ==
  ASSUME NEW D, IsFiniteSet(D), NEW P,
         \A s \in SUBSET D :
           (\A t \in SUBSET D : Cardinality(t) + 1 = Cardinality(s) => t \in P) => s \in P
  PROVE  SUBSET D \subseteq P
<1> DEFINE T == {n \in Nat : \A s \in SUBSET D : Cardinality(s) = n => s \in P}
<1>1. \A s \in SUBSET D : Cardinality(s) \in Nat
  BY FS_Subset, FS_CardinalityType
<1>2. 0 \in T
  <2>1. ASSUME NEW s \in SUBSET D, Cardinality(s) = 0 PROVE s \in P
    <3>1. \A t \in SUBSET D : Cardinality(t) + 1 # Cardinality(s)
      BY <1>1, <2>1
    <3> QED BY <3>1
  <2> QED BY <2>1
<1>3. ASSUME NEW n \in Nat, n \in T PROVE n + 1 \in T
  <2>1. ASSUME NEW s \in SUBSET D, Cardinality(s) = n + 1 PROVE s \in P
    <3>1. ASSUME NEW t \in SUBSET D, Cardinality(t) + 1 = Cardinality(s) PROVE t \in P
      <4>1. Cardinality(t) = n
        BY <1>1, <2>1, <3>1
      <4> QED BY <1>3, <4>1
    <3> QED BY <3>1
  <2> QED BY <2>1
<1>4. Nat \subseteq T
  <2> HIDE DEF T
  <2> QED BY <1>2, <1>3, SetInduction
<1> QED BY <1>1, <1>4

(* The sums are integers.                                                  *)
LEMMA SumsAreInt ==
  ASSUME NEW f, IsFiniteSet(DOMAIN f), \A k \in DOMAIN f : f[k] \in Int,
         NEW g, SumTable(f, g)
  PROVE  \A s \in SUBSET DOMAIN f : g[s] \in Int
<1> DEFINE P == {s \in SUBSET DOMAIN f : g[s] \in Int}
<1>1. ASSUME NEW s \in SUBSET DOMAIN f,
             \A t \in SUBSET DOMAIN f : Cardinality(t) + 1 = Cardinality(s) => t \in P
      PROVE  s \in P
  <2>1. CASE s = {}
    BY <2>1, SumRow
  <2>2. CASE s # {}
    <3>1. IsFiniteSet(s)
      BY FS_Subset
    <3>2. Picked(s) \in s /\ Cardinality(s \ {Picked(s)}) + 1 = Cardinality(s)
      BY <2>2, <3>1, PickedFrom
    <3>3. g[s \ {Picked(s)}] \in Int /\ f[Picked(s)] \in Int
      BY <1>1, <3>2
    <3>4. g[s] = f[Picked(s)] + g[s \ {Picked(s)}]
      BY <2>2, SumRow
    <3> QED BY <3>3, <3>4
  <2> QED BY <2>1, <2>2
<1>2. SUBSET DOMAIN f \subseteq P
  <2> HIDE DEF P
  <2> QED BY <1>1, SizeInduction
<1> QED BY <1>2

(* Any element may be added last.                                          *)
LEMMA SumLast ==
  ASSUME NEW f, IsFiniteSet(DOMAIN f), \A k \in DOMAIN f : f[k] \in Int,
         NEW g, SumTable(f, g)
  PROVE  \A s \in SUBSET DOMAIN f : \A x \in s : g[s] = f[x] + g[s \ {x}]
<1> DEFINE P == {s \in SUBSET DOMAIN f : \A x \in s : g[s] = f[x] + g[s \ {x}]}
<1>1. ASSUME NEW s \in SUBSET DOMAIN f,
             \A t \in SUBSET DOMAIN f : Cardinality(t) + 1 = Cardinality(s) => t \in P
      PROVE  s \in P
  <2> SUFFICES ASSUME NEW x \in s PROVE g[s] = f[x] + g[s \ {x}]
    OBVIOUS
  <2> DEFINE c == Picked(s)
  <2>1. IsFiniteSet(s)
    BY FS_Subset
  <2>2. c \in s /\ Cardinality(s \ {c}) + 1 = Cardinality(s)
    BY <2>1, PickedFrom
  <2>3. g[s] = f[c] + g[s \ {c}]
    BY SumRow
  <2>4. CASE x = c
    BY <2>3, <2>4
  <2>5. CASE x # c
    <3>1. Cardinality(s \ {x}) + 1 = Cardinality(s)
      <4>1. Cardinality(s) \in Nat /\ Cardinality(s \ {x}) = Cardinality(s) - 1
        BY <2>1, FS_RemoveElement, FS_CardinalityType
      <4> QED BY <4>1
    <3>2. s \ {c} \in P /\ s \ {x} \in P
      BY <1>1, <2>2, <3>1
    <3>3. /\ g[s \ {c}] = f[x] + g[(s \ {c}) \ {x}]
          /\ g[s \ {x}] = f[c] + g[(s \ {x}) \ {c}]
      BY <2>2, <2>5, <3>2
    <3>4. (s \ {c}) \ {x} = (s \ {x}) \ {c}
      OBVIOUS
    <3> DEFINE rest == g[(s \ {x}) \ {c}]
    <3>5. rest \in Int /\ f[x] \in Int /\ f[c] \in Int
      BY <2>2, SumsAreInt
    <3> HIDE DEF rest, c
    <3>6. g[s \ {c}] = f[x] + rest /\ g[s \ {x}] = f[c] + rest
      BY <3>3, <3>4 DEF rest
    <3> QED BY <2>3, <3>5, <3>6
  <2> QED BY <2>4, <2>5
<1>2. SUBSET DOMAIN f \subseteq P
  <2> HIDE DEF P
  <2> QED BY <1>1, SizeInduction
<1> QED BY <1>2

(* Two maps that agree on some keys have one sum over them. *)
LEMMA SumsAgree ==
  ASSUME NEW f, NEW e, NEW D, D \subseteq DOMAIN f, D \subseteq DOMAIN e, IsFiniteSet(D),
         \A k \in D : f[k] = e[k],
         NEW g, SumTable(f, g), NEW h, SumTable(e, h)
  PROVE  g[D] = h[D]
<1> DEFINE P == {s \in SUBSET D : g[s] = h[s]}
<1>1. ASSUME NEW s \in SUBSET D,
             \A t \in SUBSET D : Cardinality(t) + 1 = Cardinality(s) => t \in P
      PROVE  s \in P
  <2>0. s \in SUBSET DOMAIN f /\ s \in SUBSET DOMAIN e
    OBVIOUS
  <2>1. CASE s = {}
    BY <2>0, <2>1, SumRow
  <2>2. CASE s # {}
    <3>1. IsFiniteSet(s)
      BY FS_Subset
    <3>2. Picked(s) \in s /\ Cardinality(s \ {Picked(s)}) + 1 = Cardinality(s)
      BY <2>2, <3>1, PickedFrom
    <3>3. g[s \ {Picked(s)}] = h[s \ {Picked(s)}] /\ f[Picked(s)] = e[Picked(s)]
      BY <1>1, <3>2
    <3> QED BY <2>0, <2>2, <3>3, SumRow
  <2> QED BY <2>1, <2>2
<1>2. SUBSET D \subseteq P
  <2> HIDE DEF P
  <2> QED BY <1>1, SizeInduction
<1> QED BY <1>2

IntMap(f) == IsFiniteSet(DOMAIN f) /\ \A k \in DOMAIN f : f[k] \in Int

(* The total of a finite map to integers is an integer.                    *)
LEMMA TotalIsInt ==
  ASSUME NEW f, IntMap(f)
  PROVE  Total(f) \in Int
BY TotalTable, SumsAreInt DEF IntMap

(* The total of a map, one key at a time. *)
LEMMA TotalWithout ==
  ASSUME NEW f, IntMap(f), NEW x \in DOMAIN f
  PROVE  Total(f) = f[x] + Total(Drop(f, x))
<1> DEFINE e == Drop(f, x)
<1>1. DOMAIN e = DOMAIN f \ {x} /\ \A k \in DOMAIN e : e[k] = f[k]
  BY DEF Drop
<1>2. IsFiniteSet(DOMAIN e)
  BY <1>1, FS_RemoveElement DEF IntMap
<1>3. PICK g : SumTable(f, g) /\ Total(f) = g[DOMAIN f]
  BY TotalTable DEF IntMap
<1> HIDE DEF e
<1>4. PICK h : SumTable(e, h) /\ Total(e) = h[DOMAIN e]
  BY <1>2, TotalTable
<1>5. g[DOMAIN f] = f[x] + g[DOMAIN f \ {x}]
  BY <1>3, SumLast DEF IntMap
<1>6. g[DOMAIN e] = h[DOMAIN e]
  <2>1. DOMAIN e \subseteq DOMAIN f
    BY <1>1
  <2> QED BY <1>1, <1>2, <1>3, <1>4, <2>1, SumsAgree
<1>7. Total(f) = f[x] + Total(e)
  BY <1>1, <1>3, <1>4, <1>5, <1>6
<1> QED BY <1>7 DEF e

(* A map without keys. *)
LEMMA TotalOfNothing ==
  ASSUME NEW f, DOMAIN f = {}
  PROVE  Total(f) = 0
<1>1. PICK g : SumTable(f, g) /\ Total(f) = g[DOMAIN f]
  BY TotalTable, FS_EmptySet
<1> QED BY <1>1, SumRow

(* Two maps that differ in one key at most, which either may lack. *)
LEMMA TotalChanges ==
  ASSUME NEW f, IntMap(f), NEW e, IntMap(e), NEW x,
         DOMAIN f \ {x} = DOMAIN e \ {x},
         \A k \in DOMAIN f \ {x} : e[k] = f[k]
  PROVE  /\ Total(f) \in Int /\ Total(e) \in Int
         /\ Total(e) - Stored(e, x, 0) = Total(f) - Stored(f, x, 0)
<1>1. ASSUME NEW m, IntMap(m)
      PROVE  Total(m) \in Int /\ Total(m) - Stored(m, x, 0) = Total(Drop(m, x))
  <2>1. Total(m) \in Int
    BY <1>1, TotalIsInt
  <2>2. IntMap(Drop(m, x))
    <3>1. IsFiniteSet(DOMAIN m \ {x})
      BY <1>1, FS_RemoveElement DEF IntMap
    <3> QED BY <1>1, <3>1 DEF IntMap, Drop
  <2>3. Total(Drop(m, x)) \in Int
    BY <2>2, TotalIsInt
  <2>4. CASE x \in DOMAIN m
    <3>1. Total(m) = m[x] + Total(Drop(m, x)) /\ m[x] \in Int
      BY <1>1, <2>4, TotalWithout DEF IntMap
    <3> QED BY <2>3, <2>4, <3>1 DEF Stored
  <2>5. CASE x \notin DOMAIN m
    <3>1. PICK g : SumTable(m, g) /\ Total(m) = g[DOMAIN m]
      BY <1>1, TotalTable DEF IntMap
    <3> DEFINE d == Drop(m, x)
    <3>2. DOMAIN d = DOMAIN m /\ \A k \in DOMAIN m : d[k] = m[k]
      BY <2>5 DEF Drop
    <3> HIDE DEF d
    <3>3. PICK h : SumTable(d, h) /\ Total(d) = h[DOMAIN d]
      BY <1>1, <3>2, TotalTable DEF IntMap
    <3>4. g[DOMAIN m] = h[DOMAIN m]
      BY <1>1, <3>1, <3>2, <3>3, SumsAgree DEF IntMap
    <3>5. Total(m) = Total(d)
      BY <3>1, <3>2, <3>3, <3>4
    <3> QED BY <2>1, <2>5, <3>5 DEF Stored, d
  <2> QED BY <2>1, <2>4, <2>5
<1>2. Drop(f, x) = Drop(e, x)
  BY DEF Drop
<1> QED BY <1>1, <1>2

(* A map without negative values has no negative total, and no value       *)
(* above it.                                                               *)
LEMMA TotalOfNats ==
  ASSUME NEW f, IsFiniteSet(DOMAIN f), \A k \in DOMAIN f : f[k] \in Nat
  PROVE  /\ Total(f) \in Nat
         /\ \A k \in DOMAIN f : f[k] <= Total(f)
<1>1. PICK g : SumTable(f, g) /\ Total(f) = g[DOMAIN f]
  BY TotalTable
<1> DEFINE P == {s \in SUBSET DOMAIN f : g[s] \in Nat}
<1>2. ASSUME NEW s \in SUBSET DOMAIN f,
             \A t \in SUBSET DOMAIN f : Cardinality(t) + 1 = Cardinality(s) => t \in P
      PROVE  s \in P
  <2>1. CASE s = {}
    BY <1>1, <2>1, SumRow
  <2>2. CASE s # {}
    <3>1. IsFiniteSet(s)
      BY FS_Subset
    <3>2. Picked(s) \in s /\ Cardinality(s \ {Picked(s)}) + 1 = Cardinality(s)
      BY <2>2, <3>1, PickedFrom
    <3>3. g[s \ {Picked(s)}] \in Nat /\ f[Picked(s)] \in Nat
      BY <1>2, <3>2
    <3> QED BY <1>1, <2>2, <3>3, SumRow
  <2> QED BY <2>1, <2>2
<1>3. SUBSET DOMAIN f \subseteq P
  <2> DEFINE D == DOMAIN f
  <2>1. /\ IsFiniteSet(D)
        /\ \A s \in SUBSET D :
             (\A t \in SUBSET D : Cardinality(t) + 1 = Cardinality(s) => t \in P) => s \in P
    BY <1>2
  <2> HIDE DEF P, D
  <2>2. SUBSET D \subseteq P
    BY <2>1, SizeInduction
  <2> QED BY <2>2 DEF D
<1>4. ASSUME NEW k \in DOMAIN f PROVE f[k] <= g[DOMAIN f]
  <2>1. g[DOMAIN f] = f[k] + g[DOMAIN f \ {k}]
    BY <1>1, SumLast
  <2>2. g[DOMAIN f \ {k}] \in Nat
    BY <1>3
  <2> QED BY <2>1, <2>2
<1> QED BY <1>1, <1>3, <1>4

(* A part of a map without negative values has no greater total. *)
LEMMA PartTotal ==
  ASSUME NEW f, IsFiniteSet(DOMAIN f), \A k \in DOMAIN f : f[k] \in Nat,
         NEW e, DOMAIN e \subseteq DOMAIN f, \A k \in DOMAIN e : e[k] = f[k]
  PROVE  Total(e) \in Nat /\ Total(f) \in Nat /\ Total(e) <= Total(f)
<1> DEFINE D == DOMAIN f
           E == DOMAIN e
<1>1. IsFiniteSet(E) /\ \A k \in E : e[k] \in Nat
  BY FS_Subset
<1>2. Total(e) \in Nat /\ Total(f) \in Nat
  BY <1>1, TotalOfNats
<1>3. PICK g : SumTable(f, g) /\ Total(f) = g[D]
  BY TotalTable
<1>4. PICK h : SumTable(e, h) /\ Total(e) = h[E]
  BY <1>1, TotalTable
<1>5. g[E] = h[E]
  BY <1>1, <1>3, <1>4, SumsAgree
<1>6. \A s \in SUBSET D : g[s] \in Int
  BY <1>3, SumsAreInt
<1>7. ASSUME NEW s \in SUBSET D, NEW x \in s PROVE g[s] = f[x] + g[s \ {x}]
  BY <1>3, SumLast
<1> DEFINE P == {t \in SUBSET D : \A s \in SUBSET t : g[s] <= g[t]}
<1> HIDE DEF E
<1>8. ASSUME NEW t \in SUBSET D,
             \A u \in SUBSET D : Cardinality(u) + 1 = Cardinality(t) => u \in P
      PROVE  t \in P
  <2> SUFFICES ASSUME NEW s \in SUBSET t PROVE g[s] <= g[t]
    OBVIOUS
  <2>1. CASE s = t
    BY <1>6, <2>1
  <2>2. CASE s # t
    <3>1. PICK x \in t : x \notin s
      BY <2>2
    <3> DEFINE u == t \ {x}
    <3>2. IsFiniteSet(t)
      BY FS_Subset
    <3>3. Cardinality(u) + 1 = Cardinality(t)
      <4>1. Cardinality(t) \in Nat /\ Cardinality(t \ {x}) = Cardinality(t) - 1
        BY <3>2, FS_RemoveElement, FS_CardinalityType
      <4> QED BY <4>1
    <3>4. u \in P /\ s \in SUBSET u /\ u \in SUBSET D
      BY <1>8, <3>1, <3>3
    <3>5. g[t] = f[x] + g[u] /\ f[x] \in Nat
      BY <1>7
    <3>6. g[s] <= g[u] /\ g[s] \in Int /\ g[u] \in Int
      BY <1>6, <3>4
    <3> HIDE DEF u
    <3> QED BY <3>5, <3>6
  <2> QED BY <2>1, <2>2
<1>9. SUBSET D \subseteq P
  <2>1. IsFiniteSet(D)
    OBVIOUS
  <2> HIDE DEF P, D
  <2> QED BY <1>8, <2>1, SizeInduction
<1>10. g[E] <= g[D]
  BY <1>9 DEF E
<1> QED BY <1>2, <1>3, <1>4, <1>5, <1>10 DEF E

(* What a map holds of some of its keys. *)
Portion(f, B) == [k \in B |-> f[k]]

(* The total of a map is that of a part of it and of the rest.             *)
LEMMA PortionsTotal ==
  ASSUME NEW f, IntMap(f), NEW B, B \subseteq DOMAIN f
  PROVE  /\ IntMap(Portion(f, B)) /\ IntMap(Portion(f, DOMAIN f \ B))
         /\ Total(Portion(f, B)) \in Int /\ Total(Portion(f, DOMAIN f \ B)) \in Int
         /\ Total(f) = Total(Portion(f, DOMAIN f \ B)) + Total(Portion(f, B))
<1> DEFINE D == DOMAIN f
           p == Portion(f, B)
           q == Portion(f, D \ B)
<1>1. /\ DOMAIN p = B /\ \A k \in B : p[k] = f[k]
      /\ DOMAIN q = D \ B /\ \A k \in D \ B : q[k] = f[k]
  BY DEF Portion
<1>2. /\ IsFiniteSet(D) /\ IsFiniteSet(B) /\ IsFiniteSet(D \ B)
      /\ \A k \in D : f[k] \in Int
  BY FS_Subset DEF IntMap
<1> HIDE DEF p, q
<1>3. IntMap(p) /\ IntMap(q)
  BY <1>1, <1>2 DEF IntMap
<1>4. PICK g : SumTable(f, g) /\ Total(f) = g[D]
  BY <1>2, TotalTable
<1>5. PICK gp : SumTable(p, gp) /\ Total(p) = gp[DOMAIN p]
  BY <1>1, <1>2, TotalTable
<1>6. PICK gq : SumTable(q, gq) /\ Total(q) = gq[DOMAIN q]
  BY <1>1, <1>2, TotalTable
<1>7. g[B] = gp[B]
  BY <1>1, <1>2, <1>4, <1>5, SumsAgree
<1>8. g[D \ B] = gq[D \ B]
  BY <1>1, <1>2, <1>4, <1>6, SumsAgree
<1>9. \A s \in SUBSET D : g[s] \in Int
  BY <1>2, <1>4, SumsAreInt
<1>10. ASSUME NEW s \in SUBSET D, NEW x \in s PROVE g[s] = f[x] + g[s \ {x}]
  BY <1>2, <1>4, SumLast
<1>0. B \subseteq D
  OBVIOUS
<1> HIDE DEF D
<1> DEFINE P == {s \in SUBSET B : g[D] = g[D \ s] + g[s]}
<1>11. ASSUME NEW s \in SUBSET B,
              \A t \in SUBSET B : Cardinality(t) + 1 = Cardinality(s) => t \in P
       PROVE  s \in P
  <2>1. CASE s = {}
    <3>1. g[{}] = 0
      BY <1>4, SumRow
    <3>2. D \ s = D /\ g[D] \in Int
      BY <1>9, <2>1
    <3> QED BY <2>1, <3>1, <3>2
  <2>2. CASE s # {}
    <3>1. IsFiniteSet(s)
      BY <1>2, FS_Subset
    <3> DEFINE x == Picked(s)
               t == s \ {x}
    <3>2. x \in s /\ Cardinality(t) + 1 = Cardinality(s)
      BY <2>2, <3>1, PickedFrom
    <3> HIDE DEF x
    <3>3. t \in SUBSET B /\ g[D] = g[D \ t] + g[t]
      BY <1>11, <3>2
    <3>4. /\ D \ t \in SUBSET D /\ x \in D \ t /\ (D \ t) \ {x} = D \ s
          /\ s \in SUBSET D /\ t \in SUBSET D /\ D \ s \in SUBSET D /\ x \in D
      BY <1>0, <3>2
    <3>5. g[D \ t] = f[x] + g[D \ s] /\ g[s] = f[x] + g[t]
      BY <1>10, <3>2, <3>4
    <3>6. g[D \ s] \in Int /\ g[t] \in Int /\ f[x] \in Int
      BY <1>2, <1>9, <3>4
    <3> HIDE DEF t
    <3>7. g[D] = g[D \ s] + g[s]
      BY ONLY <3>3, <3>5, <3>6
    <3> QED BY <3>7
  <2> QED BY <2>1, <2>2
<1>12. SUBSET B \subseteq P
  <2> HIDE DEF P
  <2> QED BY <1>2, <1>11, SizeInduction
<1>13. g[D] = g[D \ B] + g[B]
  BY <1>12
<1>14. Total(p) \in Int /\ Total(q) \in Int
  BY <1>3, TotalIsInt
<1>15. Total(f) = Total(q) + Total(p)
  BY <1>1, <1>4, <1>5, <1>6, <1>7, <1>8, <1>13
<1> QED BY <1>3, <1>14, <1>15 DEF p, q, D

(* In a table of sums any element may be the last one. *)
AnyLast(f, g) == \A t \in SUBSET DOMAIN f : \A k \in t : g[t] = f[k] + g[t \ {k}]

(* It may in the table of a finite map. *)
LEMMA SumAnyLast ==
  ASSUME NEW f, IntMap(f), NEW g, SumTable(f, g)
  PROVE  AnyLast(f, g)
<1>1. IsFiniteSet(DOMAIN f) /\ \A k \in DOMAIN f : f[k] \in Int
  BY DEF IntMap
<1> SUFFICES ASSUME NEW t \in SUBSET DOMAIN f, NEW k \in t PROVE g[t] = f[k] + g[t \ {k}]
  BY DEF AnyLast
<1> QED BY <1>1, SumLast

(* Where each value of w is reached from a key of f that holds at least as *)
(* much, f adds up to at least as much as w.                               *)
LEMMA ImageTotal ==
  ASSUME NEW f, IsFiniteSet(DOMAIN f), \A i \in DOMAIN f : f[i] \in Nat,
         NEW w, IsFiniteSet(DOMAIN w), \A k \in DOMAIN w : w[k] \in Nat,
         NEW h, \A k \in DOMAIN w : \E i \in DOMAIN f : h[i] = k /\ w[k] <= f[i]
  PROVE  Total(w) \in Nat /\ Total(f) \in Nat /\ Total(w) <= Total(f)
<1> DEFINE D == DOMAIN f
           K == DOMAIN w
           r == [k \in K |-> CHOOSE i \in D : h[i] = k /\ w[k] <= f[i]]
<1>1. \A k \in K : r[k] \in D /\ h[r[k]] = k /\ w[k] <= f[r[k]]
  OBVIOUS
<1>2. Total(w) \in Nat /\ Total(f) \in Nat
  BY TotalOfNats
<1>9. (\A i \in D : f[i] \in Nat) /\ (\A k \in K : w[k] \in Nat) /\ IsFiniteSet(K) /\ IsFiniteSet(D)
  OBVIOUS
<1> HIDE DEF r
<1>3. PICK g : SumTable(f, g) /\ Total(f) = g[D]
  BY TotalTable
<1>4. PICK gw : SumTable(w, gw) /\ Total(w) = gw[K]
  BY TotalTable
<1>5. \A s \in SUBSET D : g[s] \in Int
  BY <1>3, SumsAreInt
<1>6. ASSUME NEW s \in SUBSET D, NEW x \in s PROVE g[s] = f[x] + g[s \ {x}]
  BY <1>3, SumLast
<1>7. \A s \in SUBSET K : gw[s] \in Int
  BY <1>4, SumsAreInt
<1>8. ASSUME NEW s \in SUBSET K, NEW x \in s PROVE gw[s] = w[x] + gw[s \ {x}]
  <2>1. IntMap(w)
    BY <1>9 DEF IntMap
  <2>2. AnyLast(w, gw)
    BY ONLY <1>4, <2>1, SumAnyLast
  <2> QED BY <2>2 DEF AnyLast
<1> DEFINE R(s) == {r[k] : k \in s}
           P == {s \in SUBSET K : gw[s] <= g[R(s)]}
<1>10. ASSUME NEW s \in SUBSET K,
              \A t \in SUBSET K : Cardinality(t) + 1 = Cardinality(s) => t \in P
       PROVE  s \in P
  <2>1. CASE s = {}
    <3>1. gw[s] = 0
      BY <1>4, <2>1, SumRow
    <3>2. R(s) = {}
      BY <2>1
    <3>3. g[{}] = 0
      BY <1>3, SumRow
    <3> HIDE DEF R
    <3>4. gw[s] <= g[R(s)]
      BY <3>1, <3>2, <3>3
    <3> QED BY <3>4
  <2>2. CASE s # {}
    <3>1. IsFiniteSet(s)
      BY FS_Subset
    <3> DEFINE x == Picked(s)
               t == s \ {x}
    <3>2. x \in s /\ Cardinality(t) + 1 = Cardinality(s)
      BY <2>2, <3>1, PickedFrom
    <3> HIDE DEF x
    <3>3. t \in SUBSET K /\ gw[t] <= g[R(t)]
      BY <1>10, <3>2
    <3>4. R(s) \ {r[x]} = R(t)
      <4>1. \A k \in t : r[k] # r[x]
        BY <1>1, <3>2
      <4> QED BY <3>2, <4>1
    <3>5. R(s) \in SUBSET D /\ R(t) \in SUBSET D /\ r[x] \in R(s) /\ x \in K
      BY <1>1, <3>2
    <3> HIDE DEF t, R
    <3>6. gw[s] = w[x] + gw[t]
      BY <1>8, <3>2 DEF t
    <3>7. g[R(s)] = f[r[x]] + g[R(t)]
      <4>1. g[R(s)] = f[r[x]] + g[R(s) \ {r[x]}]
        BY <1>6, <3>5
      <4> QED BY <3>4, <4>1
    <3>8. w[x] <= f[r[x]] /\ w[x] \in Nat /\ f[r[x]] \in Nat
      BY <1>1, <1>9, <3>5
    <3>9. gw[t] \in Int /\ g[R(t)] \in Int
      BY <1>5, <1>7, <3>3, <3>5
    <3>10. gw[s] <= g[R(s)]
      BY ONLY <3>3, <3>6, <3>7, <3>8, <3>9
    <3> QED BY <3>10
  <2> QED BY <2>1, <2>2
<1>11. SUBSET K \subseteq P
  <2> HIDE DEF P, K
  <2> QED BY <1>9, <1>10, SizeInduction
<1>12. gw[K] <= g[R(K)] /\ R(K) \in SUBSET D
  BY <1>1, <1>11
<1>13. g[R(K)] <= g[D]
  <2> DEFINE e == Portion(f, R(K))
  <2>1. DOMAIN e = R(K) /\ \A i \in R(K) : e[i] = f[i]
    BY DEF Portion
  <2> HIDE DEF e
  <2>2. IsFiniteSet(R(K))
    BY <1>12, FS_Subset
  <2>3. PICK ge : SumTable(e, ge) /\ Total(e) = ge[DOMAIN e]
    BY <2>1, <2>2, TotalTable
  <2>4. g[R(K)] = ge[R(K)]
    BY <1>3, <1>12, <2>1, <2>2, <2>3, SumsAgree
  <2>5. Total(e) <= Total(f)
    BY <1>12, <2>1, PartTotal
  <2> QED BY <1>3, <2>1, <2>3, <2>4, <2>5
<1>14. g[R(K)] \in Int
  BY <1>5, <1>12
<1> QED BY <1>2, <1>3, <1>4, <1>12, <1>13, <1>14

(* Nothings add up to nothing. *)
LEMMA TotalOfZeros ==
  ASSUME NEW f, IsFiniteSet(DOMAIN f), \A k \in DOMAIN f : f[k] = 0
  PROVE  Total(f) = 0
<1>1. PICK g : SumTable(f, g) /\ Total(f) = g[DOMAIN f]
  BY TotalTable
<1> DEFINE D == DOMAIN f
           P == {s \in SUBSET D : g[s] = 0}
<1>2. ASSUME NEW s \in SUBSET D,
             \A t \in SUBSET D : Cardinality(t) + 1 = Cardinality(s) => t \in P
      PROVE  s \in P
  <2>1. CASE s = {}
    BY <1>1, <2>1, SumRow
  <2>2. CASE s # {}
    <3>1. IsFiniteSet(s)
      BY FS_Subset
    <3> DEFINE x == Picked(s)
    <3>2. x \in s /\ Cardinality(s \ {x}) + 1 = Cardinality(s)
      BY <2>2, <3>1, PickedFrom
    <3>3. g[s] = f[x] + g[s \ {x}]
      BY <1>1, <2>2, SumRow
    <3> HIDE DEF x
    <3>4. g[s \ {x}] = 0 /\ f[x] = 0
      BY <1>2, <3>2
    <3> QED BY <3>3, <3>4
  <2> QED BY <2>1, <2>2
<1>3. SUBSET D \subseteq P
  <2>1. IsFiniteSet(D)
    OBVIOUS
  <2> HIDE DEF P, D
  <2> QED BY <1>2, <2>1, SizeInduction
<1> QED BY <1>1, <1>3

(* The total of a single value. *)
LEMMA TotalOfOne ==
  ASSUME NEW f, NEW x, DOMAIN f = {x}, f[x] \in Int
  PROVE  Total(f) = f[x]
<1>1. IntMap(f)
  BY FS_Singleton DEF IntMap
<1>2. DOMAIN Drop(f, x) = {}
  BY DEF Drop
<1>3. Total(Drop(f, x)) = 0
  BY <1>2, TotalOfNothing
<1>4. Total(f) = f[x] + Total(Drop(f, x))
  BY <1>1, TotalWithout
<1> QED BY <1>3, <1>4

(* Where K times each value of e is at most M times that of f, so it is    *)
(* with what they add up to.                                               *)
Scaled(K, a, M, b) == K * a <= M * b

(* One more value keeps the two in proportion. *)
LEMMA ScaledSum ==
  ASSUME NEW K \in Nat, NEW M \in Nat, NEW a \in Nat, NEW b \in Nat, NEW c \in Nat, NEW d \in Nat,
         Scaled(K, a, M, b), Scaled(K, c, M, d)
  PROVE  Scaled(K, a + c, M, b + d)
<1>1. K * (a + c) = K * a + K * c /\ M * (b + d) = M * b + M * d
  OBVIOUS
<1>2. K * a \in Nat /\ K * c \in Nat /\ M * b \in Nat /\ M * d \in Nat
  OBVIOUS
<1> QED BY <1>1, <1>2 DEF Scaled

(* The totals are in the same proportion. *)
LEMMA ScaledTotals ==
  ASSUME NEW f, IsFiniteSet(DOMAIN f), \A k \in DOMAIN f : f[k] \in Nat,
         NEW e, DOMAIN e = DOMAIN f, \A k \in DOMAIN f : e[k] \in Nat,
         NEW K, NEW M, K \in Nat /\ M \in Nat, \A k \in DOMAIN f : Scaled(K, e[k], M, f[k])
  PROVE  Scaled(K, Total(e), M, Total(f))
<1> DEFINE D == DOMAIN f
<1>1. PICK g : SumTable(f, g) /\ Total(f) = g[D]
  BY TotalTable
<1>2. PICK h : SumTable(e, h) /\ Total(e) = h[D]
  BY TotalTable
<1> DEFINE P == {s \in SUBSET D : g[s] \in Nat /\ h[s] \in Nat /\ Scaled(K, h[s], M, g[s])}
<1>3. ASSUME NEW s \in SUBSET D,
             \A t \in SUBSET D : Cardinality(t) + 1 = Cardinality(s) => t \in P
      PROVE  s \in P
  <2>1. CASE s = {}
    <3>1. g[s] = 0 /\ h[s] = 0
      BY <1>1, <1>2, <2>1, SumRow
    <3>2. Scaled(K, 0, M, 0)
      BY DEF Scaled
    <3> QED BY <3>1, <3>2
  <2>2. CASE s # {}
    <3>1. IsFiniteSet(s)
      BY FS_Subset
    <3> DEFINE x == Picked(s)
               r == s \ {x}
    <3>2. x \in s /\ Cardinality(r) + 1 = Cardinality(s)
      BY <2>2, <3>1, PickedFrom
    <3>3. g[s] = f[x] + g[r] /\ h[s] = e[x] + h[r]
      <4>1. g[s] = f[x] + g[r]
        <5>1. SumTable(f, g) /\ s \in SUBSET DOMAIN f
          BY <1>1
        <5> QED BY <2>2, <5>1, SumRow
      <4>2. s \in SUBSET DOMAIN e /\ SumTable(e, h)
        BY <1>2
      <4>3. h[s] = e[x] + h[r]
        BY <2>2, <4>2, SumRow
      <4> QED BY <4>1, <4>3
    <3> HIDE DEF x, P
    <3>4. r \in P
      BY <1>3, <3>2
    <3>5. g[r] \in Nat /\ h[r] \in Nat /\ Scaled(K, h[r], M, g[r])
      BY <3>4 DEF P
    <3>6. f[x] \in Nat /\ e[x] \in Nat /\ Scaled(K, e[x], M, f[x])
      BY <3>2
    <3> HIDE DEF r
    <3>7. Scaled(K, e[x] + h[r], M, f[x] + g[r])
      BY <3>5, <3>6, ScaledSum
    <3> QED BY <3>3, <3>5, <3>6, <3>7 DEF P
  <2> QED BY <2>1, <2>2
<1>4. SUBSET D \subseteq P
  <2>1. IsFiniteSet(D)
    OBVIOUS
  <2> HIDE DEF P, D
  <2> QED BY <1>3, <2>1, SizeInduction
<1>5. D \in P
  BY <1>4
<1> QED BY <1>1, <1>2, <1>5
=============================================================================
