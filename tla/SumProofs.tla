------------------------------ MODULE SumProofs ------------------------------
(***************************************************************************)
(* What the sums of Sums obey.  No induction principle can be instantiated *)
(* here, so each induction looks at the least number for which the claim   *)
(* fails, which exists because < is well founded on the naturals.          *)
(***************************************************************************)
EXTENDS Sums, WellFoundedInduction, FiniteSetTheorems, TLAPS

LEMMA Least ==
  ASSUME NEW T, T \subseteq Nat, T # {}
  PROVE  \E m \in T : \A k \in T : m <= k
<1>1. \E m \in T : \A k \in T : ~(<<k, m>> \in OpToRel(<, Nat))
  BY NatLessThanWellFounded, WFMin
<1>2. PICK m \in T : \A k \in T : ~(<<k, m>> \in OpToRel(<, Nat)) BY <1>1
<1>3. ASSUME NEW k \in T PROVE m <= k
  <2>1. k \in Nat /\ m \in Nat OBVIOUS
  <2>2. <<k, m>> \in Nat \X Nat BY <2>1
  <2>3. ~(k < m) BY <1>2, <2>2 DEF OpToRel
  <2> QED BY <2>1, <2>3
<1> QED BY <1>3

Partial(f, n, s) == s = [i \in 0 .. n |-> IF i = 0 THEN 0 ELSE s[i - 1] + f[i]]

LEMMA PartialExists == ASSUME NEW f, NEW n \in Nat PROVE \E s : Partial(f, n, s)
<1> DEFINE T == {m \in Nat : ~ \E s : Partial(f, m, s)}
<1>1. ASSUME T # {} PROVE FALSE
  <2>1. PICK m \in T : \A k \in T : m <= k BY <1>1, Least
  <2>2. m \in Nat /\ ~ \E s : Partial(f, m, s) OBVIOUS
  <2>3. CASE m = 0
    <3> DEFINE s == [i \in 0 .. 0 |-> 0]
    <3>1. Partial(f, 0, s) BY DEF Partial
    <3> QED BY <2>2, <2>3, <3>1
  <2>4. CASE m # 0
    <3>1. m - 1 \in Nat /\ ~(m <= m - 1) BY <2>2, <2>4
    <3>2. PICK s : Partial(f, m - 1, s) BY <2>1, <3>1
    <3> DEFINE u == [i \in 0 .. m |-> IF i = 0 THEN 0 ELSE s[i - 1] + f[i]]
    <3>3. ASSUME NEW i \in 0 .. m - 1 PROVE u[i] = s[i]
      BY <2>2, <3>2, <3>3 DEF Partial
    <3>4. Partial(f, m, u)
      <4>1. ASSUME NEW i \in 0 .. m PROVE (IF i = 0 THEN 0 ELSE u[i - 1] + f[i]) = (IF i = 0 THEN 0 ELSE s[i - 1] + f[i])
        <5>1. CASE i = 0 BY <5>1
        <5>2. CASE i # 0
          <6>1. i - 1 \in 0 .. m - 1 BY <2>2, <4>1, <5>2
          <6>2. u[i - 1] = s[i - 1] BY <3>3, <6>1
          <6> QED BY <5>2, <6>2
        <5> QED BY <5>1, <5>2
      <4>2. u = [i \in 0 .. m |-> IF i = 0 THEN 0 ELSE u[i - 1] + f[i]] BY <4>1
      <4> QED BY <4>2 DEF Partial
    <3> QED BY <2>2, <3>4
  <2> QED BY <2>3, <2>4
<1> QED BY <1>1

LEMMA SumIs == ASSUME NEW f, NEW n PROVE SumTo(f, n) = (CHOOSE s : Partial(f, n, s))[n]
BY DEF SumTo, Partial

Agree(f, g, l) == \A i \in 1 .. l : f[i] = g[i]

\* Two sequences of partial sums agree as far as their terms do.
LEMMA PartialAgree ==
  ASSUME NEW f, NEW g, NEW n \in Nat, NEW m \in Nat, NEW l \in Nat, l <= n, l <= m,
         Agree(f, g, l), NEW s, NEW u, Partial(f, n, s), Partial(g, m, u)
  PROVE  \A i \in 0 .. l : s[i] = u[i]
<1> DEFINE T == {i \in 0 .. l : s[i] # u[i]}
<1>1. ASSUME T # {} PROVE FALSE
  <2>1. PICK i \in T : \A k \in T : i <= k
    <3>1. T \subseteq Nat OBVIOUS
    <3> QED BY <1>1, <3>1, Least
  <2>2. i \in 0 .. l /\ s[i] # u[i] OBVIOUS
  <2>3. i \in 0 .. n /\ i \in 0 .. m BY <2>2
  <2>4. /\ s[i] = IF i = 0 THEN 0 ELSE s[i - 1] + f[i]
        /\ u[i] = IF i = 0 THEN 0 ELSE u[i - 1] + g[i]
    BY <2>3 DEF Partial
  <2>5. i # 0 BY <2>2, <2>4
  <2>6. i - 1 \in 0 .. l /\ i \in 1 .. l /\ ~(i <= i - 1) BY <2>2, <2>5
  <2>7. s[i - 1] = u[i - 1] BY <2>1, <2>6
  <2>8. f[i] = g[i] BY <2>6 DEF Agree
  <2> QED BY <2>2, <2>4, <2>5, <2>7, <2>8
<1> QED BY <1>1

LEMMA SumChosen ==
  ASSUME NEW f, NEW n \in Nat
  PROVE  \E s : Partial(f, n, s) /\ SumTo(f, n) = s[n]
<1>1. Partial(f, n, CHOOSE s : Partial(f, n, s)) BY PartialExists
<1> QED BY <1>1, SumIs

\* An empty sum.
LEMMA SumZero == ASSUME NEW f PROVE SumTo(f, 0) = 0
<1>1. PICK s : Partial(f, 0, s) /\ SumTo(f, 0) = s[0] BY SumChosen
<1> QED BY <1>1 DEF Partial

\* One term more.
LEMMA SumNext ==
  ASSUME NEW f, NEW n \in Nat
  PROVE  SumTo(f, n + 1) = SumTo(f, n) + f[n + 1]
<1>1. PICK s : Partial(f, n, s) /\ SumTo(f, n) = s[n] BY SumChosen
<1>2. PICK u : Partial(f, n + 1, u) /\ SumTo(f, n + 1) = u[n + 1] BY SumChosen
<1>3. n \in 0 .. n /\ n + 1 \in 0 .. n + 1 /\ n + 1 # 0 /\ (n + 1) - 1 = n OBVIOUS
<1>4. u[n + 1] = u[n] + f[n + 1] BY <1>2, <1>3 DEF Partial
<1>5. s[n] = u[n]
  <2>1. Agree(f, f, n) BY DEF Agree
  <2>2. n <= n /\ n <= n + 1 /\ n + 1 \in Nat OBVIOUS
  <2> QED BY <1>1, <1>2, <1>3, <2>1, <2>2, PartialAgree
<1> QED BY <1>1, <1>2, <1>4, <1>5

\* Only the terms count.
LEMMA SumSame ==
  ASSUME NEW f, NEW g, NEW n \in Nat, \A i \in 1 .. n : f[i] = g[i]
  PROVE  SumTo(f, n) = SumTo(g, n)
<1>1. PICK s : Partial(f, n, s) /\ SumTo(f, n) = s[n] BY SumChosen
<1>2. PICK u : Partial(g, n, u) /\ SumTo(g, n) = u[n] BY SumChosen
<1>3. n \in 0 .. n /\ n <= n OBVIOUS
<1>4. \A i \in 0 .. n : s[i] = u[i]
  <2>1. Partial(f, n, s) /\ Partial(g, n, u) BY <1>1, <1>2
  <2>2. Agree(f, g, n) BY DEF Agree
  <2> QED BY <1>3, <2>1, <2>2, PartialAgree
<1> QED BY <1>1, <1>2, <1>3, <1>4

LEMMA SumType ==
  ASSUME NEW f, NEW n \in Nat, \A i \in 1 .. n : f[i] \in Nat
  PROVE  SumTo(f, n) \in Nat
<1> DEFINE T == {m \in 0 .. n : SumTo(f, m) \notin Nat}
<1>1. ASSUME T # {} PROVE FALSE
  <2>1. PICK m \in T : \A k \in T : m <= k
    <3>1. T \subseteq Nat OBVIOUS
    <3> QED BY <1>1, <3>1, Least
  <2>2. m \in 0 .. n /\ SumTo(f, m) \notin Nat OBVIOUS
  <2>3. m # 0 BY <2>2, SumZero
  <2>4. m - 1 \in 0 .. n /\ m - 1 \in Nat /\ ~(m <= m - 1) /\ m \in 1 .. n /\ (m - 1) + 1 = m
    BY <2>2, <2>3
  <2>5. SumTo(f, m - 1) \in Nat BY <2>1, <2>4
  <2>6. SumTo(f, m) = SumTo(f, m - 1) + f[m] BY <2>4, SumNext
  <2>7. f[m] \in Nat BY <2>4
  <2> QED BY <2>2, <2>5, <2>6, <2>7
<1> QED BY <1>1

OnlyAt(f, g, n, k) ==
  /\ k \in 1 .. n
  /\ \A i \in 1 .. n : f[i] \in Nat /\ g[i] \in Nat /\ (i # k => f[i] = g[i])

\* A sum in which one term changes.
LEMMA SumChange ==
  ASSUME NEW f, NEW g, NEW n \in Nat, NEW k, OnlyAt(f, g, n, k)
  PROVE  SumTo(g, n) + f[k] = SumTo(f, n) + g[k]
<1>0. /\ k \in 1 .. n
      /\ \A i \in 1 .. n : f[i] \in Nat /\ g[i] \in Nat
      /\ \A i \in 1 .. n : i # k => f[i] = g[i]
  BY DEF OnlyAt
<1> DEFINE T == {m \in k .. n : ~(SumTo(g, m) + f[k] = SumTo(f, m) + g[k])}
<1>1. \A m \in 0 .. n : SumTo(f, m) \in Nat /\ SumTo(g, m) \in Nat BY <1>0, SumType
<1>2. f[k] \in Nat /\ g[k] \in Nat BY <1>0
<1>3. ASSUME T # {} PROVE FALSE
  <2>1. PICK m \in T : \A j \in T : m <= j
    <3>1. T \subseteq Nat BY <1>0
    <3> QED BY <1>3, <3>1, Least
  <2>2. m \in k .. n /\ ~(SumTo(g, m) + f[k] = SumTo(f, m) + g[k]) OBVIOUS
  <2>3. m - 1 \in Nat /\ m - 1 \in 0 .. n /\ (m - 1) + 1 = m /\ ~(m <= m - 1) /\ m \in 1 .. n
    BY <1>0, <2>2
  <2>4. SumTo(f, m) = SumTo(f, m - 1) + f[m] /\ SumTo(g, m) = SumTo(g, m - 1) + g[m]
    BY <2>3, SumNext
  <2>5. SumTo(f, m - 1) \in Nat /\ SumTo(g, m - 1) \in Nat BY <1>1, <2>3
  <2>6. CASE m = k
    <3>1. \A i \in 1 .. m - 1 : f[i] = g[i] BY <1>0, <2>2, <2>6
    <3>2. SumTo(f, m - 1) = SumTo(g, m - 1) BY <2>3, <3>1, SumSame
    <3> QED BY <1>2, <2>2, <2>4, <2>5, <2>6, <3>2
  <2>7. CASE m # k
    <3>1. m - 1 \in k .. n BY <1>0, <2>2, <2>7
    <3>2. SumTo(g, m - 1) + f[k] = SumTo(f, m - 1) + g[k] BY <2>1, <2>3, <3>1
    <3>3. f[m] = g[m] /\ f[m] \in Nat BY <1>0, <2>3, <2>7
    <3> QED BY <1>2, <2>2, <2>4, <2>5, <3>2, <3>3
  <2> QED BY <2>6, <2>7
<1> QED BY <1>0, <1>3

\* The first term apart from the others.
LEMMA SumFirst ==
  ASSUME NEW f, NEW g, NEW n \in Nat, \A i \in 1 .. n + 1 : f[i] \in Nat,
         \A i \in 1 .. n : g[i] = f[i + 1]
  PROVE  SumTo(f, n + 1) = f[1] + SumTo(g, n)
<1> DEFINE T == {m \in 0 .. n : ~(SumTo(f, m + 1) = f[1] + SumTo(g, m))}
<1>1. \A i \in 1 .. n : g[i] \in Nat OBVIOUS
<1>2. f[1] \in Nat OBVIOUS
<1>3. ASSUME T # {} PROVE FALSE
  <2>1. PICK m \in T : \A j \in T : m <= j
    <3>1. T \subseteq Nat OBVIOUS
    <3> QED BY <1>3, <3>1, Least
  <2>2. m \in 0 .. n /\ m \in Nat /\ ~(SumTo(f, m + 1) = f[1] + SumTo(g, m)) OBVIOUS
  <2>3. SumTo(f, m + 1) = SumTo(f, m) + f[m + 1] BY <2>2, SumNext
  <2>4. CASE m = 0
    <3>1. SumTo(f, m) = 0 /\ SumTo(g, m) = 0 BY <2>4, SumZero
    <3> QED BY <1>2, <2>2, <2>3, <2>4, <3>1
  <2>5. CASE m # 0
    <3>1. m - 1 \in 0 .. n /\ m - 1 \in Nat /\ (m - 1) + 1 = m /\ ~(m <= m - 1) /\ m \in 1 .. n
      BY <2>2, <2>5
    <3>2. SumTo(f, m) = f[1] + SumTo(g, m - 1) BY <2>1, <3>1
    <3>3. SumTo(g, m) = SumTo(g, m - 1) + g[m] BY <3>1, SumNext
    <3>4. g[m] = f[m + 1] /\ f[m + 1] \in Nat BY <3>1
    <3>5. SumTo(g, m - 1) \in Nat
      <4>1. \A i \in 1 .. m - 1 : g[i] \in Nat BY <1>1, <3>1
      <4> QED BY <3>1, <4>1, SumType
    <3> QED BY <1>2, <2>2, <2>3, <3>2, <3>3, <3>4, <3>5
  <2> QED BY <2>4, <2>5
<1> QED BY <1>3

\* A sum of zeros.
LEMMA SumZeros ==
  ASSUME NEW f, NEW n \in Nat, \A i \in 1 .. n : f[i] = 0
  PROVE  SumTo(f, n) = 0
<1> DEFINE T == {m \in 0 .. n : SumTo(f, m) # 0}
<1>1. ASSUME T # {} PROVE FALSE
  <2>1. PICK m \in T : \A k \in T : m <= k
    <3>1. T \subseteq Nat OBVIOUS
    <3> QED BY <1>1, <3>1, Least
  <2>2. m \in 0 .. n /\ SumTo(f, m) # 0 OBVIOUS
  <2>3. m # 0 BY <2>2, SumZero
  <2>4. m - 1 \in 0 .. n /\ m - 1 \in Nat /\ ~(m <= m - 1) /\ m \in 1 .. n /\ (m - 1) + 1 = m
    BY <2>2, <2>3
  <2>5. SumTo(f, m - 1) = 0 BY <2>1, <2>4
  <2>6. SumTo(f, m) = SumTo(f, m - 1) + f[m] BY <2>4, SumNext
  <2>7. f[m] = 0 BY <2>4
  <2> QED BY <2>2, <2>5, <2>6, <2>7
<1> QED BY <1>1

----------------------------------------------------------------------------
(* Sums over a finite set *)

\* A listing names every element once.
LEMMA ListingIs ==
  ASSUME NEW S, IsFiniteSet(S)
  PROVE  /\ Len(Listing(S)) \in Nat
         /\ \A i \in 1 .. Len(Listing(S)) : Listing(S)[i] \in S
         /\ \A x \in S : \E i \in 1 .. Len(Listing(S)) : Listing(S)[i] = x
         /\ \A i, j \in 1 .. Len(Listing(S)) : Listing(S)[i] = Listing(S)[j] => i = j
<1>1. Cardinality(S) \in Nat /\ ExistsBijection(1 .. Cardinality(S), S) BY FS_CardinalityType
<1>2. Bijection(1 .. Cardinality(S), S) # {} BY <1>1 DEF ExistsBijection
<1>3. Listing(S) \in Bijection(1 .. Cardinality(S), S) BY <1>2 DEF Listing
<1>4. Listing(S) \in [1 .. Cardinality(S) -> S] BY <1>3 DEF Bijection, Injection
<1>5. Len(Listing(S)) = Cardinality(S) BY <1>1, <1>4
<1> QED BY <1>1, <1>3, <1>5 DEF Bijection, Injection, Surjection, IsInjective

\* The terms of a sum over a set, in the order of its listing.
AlongTerms(f, l) == [i \in 1 .. Len(l) |-> f[l[i]]]

LEMMA AlongIs == ASSUME NEW f, NEW l PROVE SumAlong(f, l) = SumTo(AlongTerms(f, l), Len(l))
BY DEF SumAlong, AlongTerms

\* A sum over a set is a number when its terms are.
LEMMA AlongType ==
  ASSUME NEW S, IsFiniteSet(S), NEW f, \A x \in S : f[x] \in Nat
  PROVE  SumAlong(f, Listing(S)) \in Nat
<1>1. \A i \in 1 .. Len(Listing(S)) : AlongTerms(f, Listing(S))[i] \in Nat BY ListingIs DEF AlongTerms
<1>2. Len(Listing(S)) \in Nat BY ListingIs
<1> QED BY <1>1, <1>2, SumType, AlongIs

\* A sum of zeros over a set.
LEMMA AlongZeros ==
  ASSUME NEW S, IsFiniteSet(S), NEW f, \A x \in S : f[x] = 0
  PROVE  SumAlong(f, Listing(S)) = 0
<1>1. \A i \in 1 .. Len(Listing(S)) : AlongTerms(f, Listing(S))[i] = 0 BY ListingIs DEF AlongTerms
<1>2. Len(Listing(S)) \in Nat BY ListingIs
<1> QED BY <1>1, <1>2, SumZeros, AlongIs

\* Only the terms of the elements count.
LEMMA AlongSame ==
  ASSUME NEW S, IsFiniteSet(S), NEW f, NEW g, \A x \in S : f[x] = g[x]
  PROVE  SumAlong(f, Listing(S)) = SumAlong(g, Listing(S))
<1>1. \A i \in 1 .. Len(Listing(S)) : AlongTerms(f, Listing(S))[i] = AlongTerms(g, Listing(S))[i]
  BY ListingIs DEF AlongTerms
<1>2. Len(Listing(S)) \in Nat BY ListingIs
<1> QED BY <1>1, <1>2, SumSame, AlongIs

OnlyIn(f, g, S, x) ==
  /\ x \in S
  /\ \A y \in S : f[y] \in Nat /\ g[y] \in Nat /\ (y # x => f[y] = g[y])

\* A sum over a set in which the term of one element changes.
LEMMA AlongChange ==
  ASSUME NEW S, IsFiniteSet(S), NEW f, NEW g, NEW x, OnlyIn(f, g, S, x)
  PROVE  SumAlong(g, Listing(S)) + f[x] = SumAlong(f, Listing(S)) + g[x]
<1> DEFINE l == Listing(S)
<1>1. /\ Len(l) \in Nat
      /\ \A i \in 1 .. Len(l) : l[i] \in S
      /\ \A y \in S : \E i \in 1 .. Len(l) : l[i] = y
      /\ \A i, j \in 1 .. Len(l) : l[i] = l[j] => i = j
  BY ListingIs
<1> HIDE DEF l
<1>2. PICK k \in 1 .. Len(l) : l[k] = x BY <1>1 DEF OnlyIn
<1>3. AlongTerms(f, l)[k] = f[x] /\ AlongTerms(g, l)[k] = g[x] BY <1>2 DEF AlongTerms
<1>4. OnlyAt(AlongTerms(f, l), AlongTerms(g, l), Len(l), k)
  <2>1. ASSUME NEW i \in 1 .. Len(l)
        PROVE  /\ AlongTerms(f, l)[i] \in Nat /\ AlongTerms(g, l)[i] \in Nat
               /\ i # k => AlongTerms(f, l)[i] = AlongTerms(g, l)[i]
    <3>1. l[i] \in S /\ (i # k => l[i] # x) BY <1>1, <1>2
    <3>2. AlongTerms(f, l)[i] = f[l[i]] /\ AlongTerms(g, l)[i] = g[l[i]] BY DEF AlongTerms
    <3> QED BY <3>1, <3>2 DEF OnlyIn
  <2> QED BY <2>1 DEF OnlyAt
<1>5. SumTo(AlongTerms(g, l), Len(l)) + AlongTerms(f, l)[k] = SumTo(AlongTerms(f, l), Len(l)) + AlongTerms(g, l)[k]
  BY <1>1, <1>4, SumChange
<1> QED BY <1>3, <1>5, AlongIs DEF l
==============================================================================
