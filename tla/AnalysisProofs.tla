--------------------------- MODULE AnalysisProofs ---------------------------
(***************************************************************************)
(* What postprocessing makes of a recording.                               *)
(*                                                                         *)
(* For any geometry of the Roofline cache, any number of remembered hits   *)
(* and any addresses: a remembered hit is the hit the search would have    *)
(* found, and the cache implements the least-recently-used cache LruCache. *)
(*                                                                         *)
(* For any program, threads and batches: the control-flow graph is the one *)
(* that the executions make one by one, calls and returns paired, and all  *)
(* that was counted is charged to some block.                              *)
(*                                                                         *)
(* For any threads, addresses, calls and readings of the clock: the replay *)
(* of the allocation boundaries rebuilds exactly the generations that      *)
(* there were.                                                             *)
(***************************************************************************)
EXTENDS CacheModel, DynamicCfg, AllocationReplay, SumProofs, FunctionTheorems

----------------------------------------------------------------------------
(* CacheModel: remembered hits *)
\* Multiplication by Ways is monotonic: the step no solver takes by itself.
LEMMA RowsApart ==
  ASSUME NEW s \in Nat, NEW t \in Nat, s < t
  PROVE  s * Ways + Ways <= t * Ways
<1>1. Ways \in Nat BY CacheAssumption
<1>2. PICK d \in Nat : t = s + 1 + d
  <2>1. t - s - 1 \in Nat /\ t = s + 1 + (t - s - 1) OBVIOUS
  <2> QED BY <2>1
<1>3. t * Ways = s * Ways + Ways + d * Ways BY <1>1, <1>2
<1>4. d * Ways \in Nat /\ s * Ways \in Nat BY <1>1
<1> QED BY <1>1, <1>3, <1>4

\* An address has a set and a tag.
LEMMA PlaceType ==
  ASSUME NEW a \in Addresses
  PROVE  SetOf(a) \in 0 .. SetCount - 1 /\ TagOf(a) \in Nat /\ TagOf(a) # Invalid
BY CacheAssumption DEF SetOf, TagOf

\* The lines of a set are lines of the cache.
LEMMA WaysAreIndices ==
  ASSUME NEW a \in Addresses
  PROVE  WaysOf(a) \subseteq Indices
<1>1. SetOf(a) \in Nat /\ SetCount \in Nat /\ SetOf(a) < SetCount /\ Ways \in Nat
  BY PlaceType, CacheAssumption
<1>2. SetOf(a) * Ways + Ways <= SetCount * Ways BY <1>1, RowsApart
<1>3. SetOf(a) * Ways \in Nat /\ SetCount * Ways \in Nat BY <1>1
<1> QED BY <1>1, <1>2, <1>3 DEF WaysOf, Indices

\* The lines of different sets are different lines.
LEMMA WaysApart ==
  ASSUME NEW a \in Addresses, NEW b \in Addresses, SetOf(a) # SetOf(b)
  PROVE  WaysOf(a) \cap WaysOf(b) = {}
<1>1. SetOf(a) \in Nat /\ SetOf(b) \in Nat /\ Ways \in Nat BY PlaceType, CacheAssumption
<1>2. SetOf(a) * Ways \in Nat /\ SetOf(b) * Ways \in Nat BY <1>1
<1>3. CASE SetOf(a) < SetOf(b)
  <2>1. SetOf(a) * Ways + Ways <= SetOf(b) * Ways BY <1>1, <1>3, RowsApart
  <2> QED BY <1>1, <1>2, <2>1 DEF WaysOf
<1>4. CASE SetOf(b) < SetOf(a)
  <2>1. SetOf(b) * Ways + Ways <= SetOf(a) * Ways BY <1>1, <1>4, RowsApart
  <2> QED BY <1>1, <1>2, <2>1 DEF WaysOf
<1> QED BY <1>1, <1>3, <1>4

\* A step that changes no tag leaves every search as it was.
LEMMA SameTagsSameHits ==
  ASSUME CacheTypeOK, NEW i \in Indices, NEW store \in BOOLEAN, lines' = Used(i, store)
  PROVE  /\ lines' \in [Indices -> [tag : Nat \cup {Invalid}, last_used : Nat, dirty : BOOLEAN]]
         /\ \A a \in Addresses : Hits(a)' = Hits(a)
<1>1. lines' \in [Indices -> [tag : Nat \cup {Invalid}, last_used : Nat, dirty : BOOLEAN]]
  <2>1. lines[i].tag \in Nat \cup {Invalid} /\ lines[i].dirty \in BOOLEAN BY DEF CacheTypeOK
  <2>2. (lines[i].dirty \/ store) \in BOOLEAN BY <2>1, Zenon
  <2> DEFINE line == [tag |-> lines[i].tag, last_used |-> clock + 1, dirty |-> lines[i].dirty \/ store]
  <2>3. lines' = [lines EXCEPT ![i] = line] BY DEF Used
  <2>4. line \in [tag : Nat \cup {Invalid}, last_used : Nat, dirty : BOOLEAN]
    BY <2>1, <2>2 DEF CacheTypeOK
  <2> HIDE DEF line
  <2> QED BY <2>3, <2>4 DEF CacheTypeOK
<1>2. \A j \in Indices : lines'[j].tag = lines[j].tag BY DEF CacheTypeOK, Used
<1>3. ASSUME NEW a \in Addresses PROVE Hits(a)' = Hits(a)
  BY <1>2, WaysAreIndices DEF Hits, WaysOf
<1> QED BY <1>1, <1>3

\* An empty cache remembers nothing.
LEMMA CacheInitially == CacheInit => CacheInvariant
<1> SUFFICES ASSUME CacheInit PROVE CacheInvariant OBVIOUS
<1>1. 0 \in Indices
  <2>1. SetCount * Ways >= 1
    <3>1. SetCount \in Nat /\ Ways \in Nat \ {0} /\ 0 < SetCount BY CacheAssumption
    <3>2. 0 * Ways + Ways <= SetCount * Ways BY <3>1, RowsApart
    <3>3. SetCount * Ways \in Nat BY <3>1
    <3> QED BY <3>1, <3>2, <3>3
  <2>2. SetCount * Ways \in Nat BY CacheAssumption
  <2> QED BY <2>1, <2>2 DEF Indices
<1>2. CacheTypeOK
  BY <1>1, CacheAssumption DEF CacheInit, CacheTypeOK, NoLine, NoRecent, Slots
<1>3. ASSUME NEW a \in Addresses PROVE Hits(a) = {}
  BY WaysAreIndices, PlaceType DEF CacheInit, Hits, NoLine
<1>4. NoAliases BY <1>3 DEF NoAliases
<1>5. RecentHitsAreCurrent BY DEF CacheInit, RecentHitsAreCurrent, NoRecent
<1> QED BY <1>2, <1>4, <1>5 DEF CacheInvariant

\* A recent hit.
LEMMA RecentHitKeeps ==
  ASSUME CacheInvariant, NEW a \in Addresses, NEW store \in BOOLEAN,
         clock' = clock + 1, RecentHit(a, store)
  PROVE  CacheInvariant'
<1>1. PICK m \in Recents(a) : lines' = Used(mru[m].index, store) BY DEF RecentHit
<1>2. m \in Slots /\ mru[m].index \in Indices
  BY <1>1 DEF CacheInvariant, CacheTypeOK, Recents
<1>3. /\ lines' \in [Indices -> [tag : Nat \cup {Invalid}, last_used : Nat, dirty : BOOLEAN]]
      /\ \A b \in Addresses : Hits(b)' = Hits(b)
  BY <1>1, <1>2, SameTagsSameHits DEF CacheInvariant
<1>4. UNCHANGED <<mru, cursor, loads, stores>> BY DEF RecentHit
<1>5. CacheTypeOK' BY <1>3, <1>4 DEF CacheInvariant, CacheTypeOK
<1>6. NoAliases' BY <1>3 DEF CacheInvariant, NoAliases
<1>7. RecentHitsAreCurrent'
  BY <1>3, <1>4 DEF CacheInvariant, CacheTypeOK, RecentHitsAreCurrent
<1> QED BY <1>5, <1>6, <1>7 DEF CacheInvariant

\* A hit the search finds.
LEMMA SetHitKeeps ==
  ASSUME CacheInvariant, NEW a \in Addresses, NEW store \in BOOLEAN,
         clock' = clock + 1, SetHit(a, store)
  PROVE  CacheInvariant'
<1>1. PICK i \in Hits(a) : /\ lines' = Used(i, store)
                           /\ mru' = [mru EXCEPT ![cursor] = [address |-> a, index |-> i]]
  BY DEF SetHit
<1>2. i \in Indices BY <1>1, WaysAreIndices DEF Hits
<1>3. /\ lines' \in [Indices -> [tag : Nat \cup {Invalid}, last_used : Nat, dirty : BOOLEAN]]
      /\ \A b \in Addresses : Hits(b)' = Hits(b)
  BY <1>1, <1>2, SameTagsSameHits DEF CacheInvariant
<1>4. cursor' = (cursor + 1) % MruWays /\ UNCHANGED <<loads, stores>> BY DEF SetHit
<1>5. cursor' \in Slots
  BY <1>4, CacheAssumption DEF CacheInvariant, CacheTypeOK, Slots
<1>6. CacheTypeOK' BY <1>1, <1>2, <1>3, <1>4, <1>5 DEF CacheInvariant, CacheTypeOK
<1>7. NoAliases' BY <1>3 DEF CacheInvariant, NoAliases
<1>8. Hits(a) = {i} BY <1>1 DEF CacheInvariant, NoAliases
<1>9. RecentHitsAreCurrent'
  <2> SUFFICES ASSUME NEW m \in Slots, mru'[m].address # Invalid
               PROVE  (Hits(mru[m].address) = {mru[m].index})'
    BY DEF RecentHitsAreCurrent
  <2>0. \A b \in Addresses : {k \in WaysOf(b) : lines'[k].tag = TagOf(b)} = Hits(b)
    BY <1>3 DEF Hits, WaysOf, SetOf, TagOf
  <2>1. CASE m = cursor
    <3>1. mru'[m] = [address |-> a, index |-> i]
      BY <1>1, <2>1 DEF CacheInvariant, CacheTypeOK
    <3> QED BY <1>8, <2>0, <3>1 DEF Hits, WaysOf, SetOf, TagOf
  <2>2. CASE m # cursor
    <3>1. mru'[m] = mru[m] /\ mru[m].address \in Addresses
      BY <1>1, <2>2 DEF CacheInvariant, CacheTypeOK
    <3>2. Hits(mru[m].address) = {mru[m].index}
      BY <3>1 DEF CacheInvariant, RecentHitsAreCurrent
    <3> QED BY <2>0, <3>1, <3>2 DEF Hits, WaysOf, SetOf, TagOf
  <2> QED BY <2>1, <2>2
<1> QED BY <1>6, <1>7, <1>9 DEF CacheInvariant

\* A miss.
LEMMA MissKeeps ==
  ASSUME CacheInvariant, NEW a \in Addresses, NEW store \in BOOLEAN,
         clock' = clock + 1, Miss(a, store)
  PROVE  CacheInvariant'
<1> DEFINE new == [tag |-> TagOf(a), last_used |-> clock + 1, dirty |-> store]
<1>1. PICK v \in Victims(a) :
        /\ lines' = [lines EXCEPT ![v] = new]
        /\ stores' = stores + (IF lines[v].tag # Invalid /\ lines[v].dirty THEN 1 ELSE 0)
  BY DEF Miss
<1>2. v \in WaysOf(a) /\ v \in Indices
  BY <1>1, WaysAreIndices DEF Victims, Unused, Oldest
<1>3. mru' = [m \in Slots |-> NoRecent] /\ loads' = loads + 1 /\ cursor' = cursor
  BY DEF Miss, Forget
<1>4. new \in [tag : Nat \cup {Invalid}, last_used : Nat, dirty : BOOLEAN]
  BY PlaceType DEF CacheInvariant, CacheTypeOK
<1>5. lines' \in [Indices -> [tag : Nat \cup {Invalid}, last_used : Nat, dirty : BOOLEAN]]
  BY <1>1, <1>4 DEF CacheInvariant, CacheTypeOK
<1>6. mru' \in [Slots -> [address : Addresses \cup {Invalid}, index : Indices]]
  <2>1. 0 \in Indices BY <1>2, CacheAssumption DEF Indices
  <2> QED BY <1>3, <2>1 DEF NoRecent
<1>7. CacheTypeOK' BY <1>1, <1>3, <1>5, <1>6 DEF CacheInvariant, CacheTypeOK
<1>8. \A j \in Indices : lines'[j] = IF j = v THEN new ELSE lines[j]
  BY <1>1 DEF CacheInvariant, CacheTypeOK
<1>9. NoAliases'
  <2> SUFFICES ASSUME NEW b \in Addresses, NEW i \in Hits(b)', NEW j \in Hits(b)'
               PROVE  i = j
    BY DEF NoAliases
  <2>1. /\ i \in WaysOf(b) /\ i \in Indices /\ lines'[i].tag = TagOf(b)
        /\ j \in WaysOf(b) /\ j \in Indices /\ lines'[j].tag = TagOf(b)
    BY WaysAreIndices DEF Hits, WaysOf, SetOf, TagOf
  <2>2. CASE i # v /\ j # v
    <3>1. i \in Hits(b) /\ j \in Hits(b) BY <1>8, <2>1, <2>2 DEF Hits
    <3> QED BY <3>1 DEF CacheInvariant, NoAliases
  <2>3. CASE v \in WaysOf(b) /\ TagOf(b) = TagOf(a)
    <3>1. SetOf(a) = SetOf(b) BY <1>2, <2>3, WaysApart
    <3>2. Hits(b) = {} BY <2>3, <3>1 DEF Miss, Hits, WaysOf
    <3>3. ASSUME NEW k \in Indices, k \in WaysOf(b), lines'[k].tag = TagOf(b), k # v PROVE FALSE
      BY <1>8, <3>2, <3>3 DEF Hits
    <3> QED BY <2>1, <3>3
  <2>4. CASE (i = v \/ j = v) /\ ~(v \in WaysOf(b) /\ TagOf(b) = TagOf(a))
    BY <1>2, <1>8, <2>1, <2>4
  <2> QED BY <2>2, <2>3, <2>4
<1>10. RecentHitsAreCurrent' BY <1>3 DEF RecentHitsAreCurrent, NoRecent
<1> QED BY <1>7, <1>9, <1>10 DEF CacheInvariant

\* The end.
LEMMA FlushCacheKeeps ==
  ASSUME CacheInvariant, FlushCache
  PROVE  CacheInvariant'
<1>1. /\ mru' = [m \in Slots |-> NoRecent]
      /\ lines' = [i \in Indices |-> NoLine]
      /\ UNCHANGED <<clock, cursor, loads>>
  BY DEF FlushCache, Forget
<1>2. 0 \in Indices BY CacheAssumption DEF FlushCache, Indices
<1>3. stores' \in Nat
  <2>1. IsFiniteSet(Indices) BY CacheAssumption, FS_Interval DEF Indices
  <2>2. IsFiniteSet(Dirty) BY <2>1, FS_Subset DEF Dirty
  <2>3. Cardinality(Dirty) \in Nat BY <2>2, FS_CardinalityType
  <2> QED BY <2>3 DEF FlushCache, CacheInvariant, CacheTypeOK
<1>4. CacheTypeOK' BY <1>1, <1>2, <1>3 DEF CacheInvariant, CacheTypeOK, NoLine, NoRecent
<1>5. ASSUME NEW a \in Addresses PROVE Hits(a)' = {}
  BY <1>1, WaysAreIndices, PlaceType DEF Hits, NoLine, WaysOf, SetOf, TagOf
<1>6. NoAliases' BY <1>5 DEF NoAliases
<1>7. RecentHitsAreCurrent' BY <1>1 DEF RecentHitsAreCurrent, NoRecent
<1> QED BY <1>4, <1>6, <1>7 DEF CacheInvariant

\* Every step keeps the invariant.
LEMMA CacheInductive == CacheInvariant /\ [CacheNext]_cacheVars => CacheInvariant'
<1> SUFFICES ASSUME CacheInvariant, [CacheNext]_cacheVars PROVE CacheInvariant' OBVIOUS
<1>1. ASSUME NEW a \in Addresses, NEW store \in BOOLEAN, AccessLine(a, store)
      PROVE  CacheInvariant'
  <2>1. clock' = clock + 1 BY <1>1 DEF AccessLine
  <2>2. CASE RecentHit(a, store) BY <2>1, <2>2, RecentHitKeeps
  <2>3. CASE SetHit(a, store) BY <2>1, <2>3, SetHitKeeps
  <2>4. CASE Miss(a, store) BY <2>1, <2>4, MissKeeps
  <2> QED BY <1>1, <2>2, <2>3, <2>4 DEF AccessLine
<1>2. CASE FlushCache BY <1>2, FlushCacheKeeps
<1>3. CASE UNCHANGED cacheVars
  BY <1>3 DEF cacheVars, CacheInvariant, CacheTypeOK, NoAliases, RecentHitsAreCurrent,
              Hits, WaysOf, SetOf, TagOf
<1> QED BY <1>1, <1>2, <1>3 DEF CacheNext

\* A remembered hit is always the one line that the search of the set would
\* have found, in every cache: what makes the shortcut of access invisible.
THEOREM ShortcutIsSound == CacheSpec => []RecentHitsAreCurrent
<1>1. CacheInit => CacheInvariant BY CacheInitially
<1>2. CacheInvariant /\ [CacheNext]_cacheVars => CacheInvariant' BY CacheInductive
<1>3. CacheInvariant => RecentHitsAreCurrent BY DEF CacheInvariant
<1> QED BY <1>1, <1>2, <1>3, PTL DEF CacheSpec

----------------------------------------------------------------------------
(* CacheModel: the order of last use *)

\* No two elements of S have the same time.
Timed(S, time) ==
  /\ \A i \in S : time[i] \in Nat
  /\ \A i, j \in S : time[i] = time[j] => i = j

\* q lists S, the latest first.
Lists(q, n, S, time) ==
  /\ n \in Nat /\ q = [k \in 1 .. n |-> q[k]]
  /\ \A k \in 1 .. n : q[k] \in S
  /\ \A i \in S : \E k \in 1 .. n : q[k] = i
  /\ \A k, l \in 1 .. n : k < l => time[q[k]] > time[q[l]]

\* The elements later than i.
LaterThan(i, S, time) == {j \in S : time[j] > time[i]}

\* As many are later as come before in the list.
LEMMA ListedAfter ==
  ASSUME NEW S, NEW time, Timed(S, time), NEW q, NEW n, Lists(q, n, S, time), NEW k \in 1 .. n
  PROVE  Cardinality(LaterThan(q[k], S, time)) = k - 1
<1> DEFINE f == [l \in 1 .. k - 1 |-> q[l]]
           T == LaterThan(q[k], S, time)
<1>1. n \in Nat /\ k \in Nat /\ k >= 1 /\ k <= n BY DEF Lists
<1>2. \A l \in 1 .. k - 1 : l \in 1 .. n /\ l < k BY <1>1
<1>3. \A l \in 1 .. n : q[l] \in S /\ time[q[l]] \in Nat BY DEF Lists, Timed
<1>4. \A l \in 1 .. k - 1 : q[l] \in T BY <1>2, <1>3 DEF LaterThan, Lists
<1>5. ASSUME NEW i \in T PROVE \E l \in 1 .. k - 1 : q[l] = i
  <2>1. i \in S /\ time[i] > time[q[k]] BY DEF LaterThan
  <2>2. PICK l \in 1 .. n : q[l] = i BY <2>1 DEF Lists
  <2>3. ~(k < l) /\ l # k
    <3>1. time[q[l]] \in Nat /\ time[q[k]] \in Nat BY <1>3
    <3>2. k < l => time[q[k]] > time[q[l]] BY DEF Lists
    <3> QED BY <2>1, <2>2, <3>1, <3>2
  <2>4. l \in 1 .. k - 1 BY <1>1, <2>3
  <2> QED BY <2>2, <2>4
<1>6. ASSUME NEW l \in 1 .. k - 1, NEW m \in 1 .. k - 1, q[l] = q[m] PROVE l = m
  <2>1. l \in 1 .. n /\ m \in 1 .. n BY <1>2
  <2>2. time[q[l]] \in Nat BY <1>3, <2>1
  <2>3. ~(time[q[l]] > time[q[m]]) /\ ~(time[q[m]] > time[q[l]]) BY <1>6, <2>2
  <2>4. ~(l < m) /\ ~(m < l) BY <2>1, <2>3 DEF Lists
  <2> QED BY <2>1, <2>4, <1>1
<1>7. f \in [1 .. k - 1 -> T] BY <1>4
<1>8. \A l, m \in 1 .. k - 1 : f[l] = f[m] => l = m BY <1>6
<1>9. \A i \in T : \E l \in 1 .. k - 1 : f[l] = i BY <1>5
<1> HIDE DEF f
<1>10. f \in Bijection(1 .. k - 1, T) BY <1>7, <1>8, <1>9, Fun_IsBij
<1>11. IsFiniteSet(1 .. k - 1) /\ Cardinality(1 .. k - 1) = k - 1 BY <1>1, FS_Interval
<1>12. ExistsBijection(1 .. k - 1, T) BY <1>10 DEF ExistsBijection
<1>13. Cardinality(T) = Cardinality(1 .. k - 1) BY <1>11, <1>12, FS_Bijection
<1> QED BY <1>11, <1>13

\* A list has each element once.
LEMMA ListedAll ==
  ASSUME NEW S, NEW time, Timed(S, time), NEW q, NEW n, Lists(q, n, S, time)
  PROVE  /\ IsFiniteSet(S) /\ Cardinality(S) = n
         /\ \A k, l \in 1 .. n : q[k] = q[l] => k = l
<1>1. n \in Nat BY DEF Lists
<1>2. ASSUME NEW l \in 1 .. n, NEW m \in 1 .. n, q[l] = q[m] PROVE l = m
  <2>1. time[q[l]] \in Nat BY DEF Lists, Timed
  <2>2. ~(time[q[l]] > time[q[m]]) /\ ~(time[q[m]] > time[q[l]]) BY <1>2, <2>1
  <2>3. ~(l < m) /\ ~(m < l) BY <2>2 DEF Lists
  <2> QED BY <1>1, <2>3
<1>3. q \in [1 .. n -> S] BY DEF Lists
<1>4. \A i \in S : \E l \in 1 .. n : q[l] = i BY DEF Lists
<1>5. q \in Bijection(1 .. n, S) BY <1>2, <1>3, <1>4, Fun_IsBij
<1>6. IsFiniteSet(1 .. n) /\ Cardinality(1 .. n) = n BY <1>1, FS_Interval
<1>7. ExistsBijection(1 .. n, S) BY <1>5 DEF ExistsBijection
<1> QED BY <1>2, <1>6, <1>7, FS_Bijection

\* There is only one such list.
LEMMA OneList ==
  ASSUME NEW S, NEW time, Timed(S, time), NEW q, NEW n, Lists(q, n, S, time)
  PROVE  q = LatestFirst(S, time)
<1>1. n \in Nat /\ Cardinality(S) = n BY ListedAll DEF Lists
<1>2. ASSUME NEW k \in 1 .. n
      PROVE  q[k] = CHOOSE i \in S : Cardinality({j \in S : time[j] > time[i]}) = k - 1
  <2>1. q[k] \in S /\ Cardinality({j \in S : time[j] > time[q[k]]}) = k - 1
    BY ListedAfter DEF Lists, LaterThan
  <2>2. ASSUME NEW i \in S, Cardinality({j \in S : time[j] > time[i]}) = k - 1 PROVE i = q[k]
    <3>1. PICK l \in 1 .. n : q[l] = i BY DEF Lists
    <3>2. Cardinality({j \in S : time[j] > time[q[l]]}) = l - 1 BY ListedAfter DEF LaterThan
    <3>3. l - 1 = k - 1 BY <2>2, <3>1, <3>2
    <3>4. l = k BY <1>1, <3>3
    <3> QED BY <3>1, <3>4
  <2> QED BY <2>1, <2>2
<1>3. q = [k \in 1 .. n |-> q[k]] BY DEF Lists
<1>4. q = [k \in 1 .. n |-> CHOOSE i \in S : Cardinality({j \in S : time[j] > time[i]}) = k - 1]
  BY <1>2, <1>3
<1> QED BY <1>1, <1>4 DEF LatestFirst

\* And there is one.
LEMMA LatestFirstLists ==
  ASSUME NEW S, NEW time, IsFiniteSet(S), Timed(S, time)
  PROVE  Lists(LatestFirst(S, time), Cardinality(S), S, time)
<1> DEFINE n == Cardinality(S)
           Rank(i) == Cardinality(LaterThan(i, S, time))
           f == [i \in S |-> Rank(i) + 1]
<1>1. n \in Nat BY FS_CardinalityType
<1>2. \A i \in S : time[i] \in Nat BY DEF Timed
<1>3. ASSUME NEW i \in S PROVE Rank(i) \in Nat /\ Rank(i) < n /\ IsFiniteSet(LaterThan(i, S, time))
  <2>1. LaterThan(i, S, time) \in SUBSET S BY DEF LaterThan
  <2>2. i \notin LaterThan(i, S, time) BY <1>2 DEF LaterThan
  <2>3. /\ IsFiniteSet(LaterThan(i, S, time)) /\ Rank(i) <= n
        /\ n = Rank(i) => S = LaterThan(i, S, time)
    BY <2>1, FS_Subset
  <2>4. Rank(i) # n BY <2>2, <2>3
  <2>5. Rank(i) \in Nat BY <2>3, FS_CardinalityType
  <2> QED BY <1>1, <2>3, <2>4, <2>5
<1>4. ASSUME NEW i \in S, NEW j \in S, time[i] > time[j] PROVE Rank(i) < Rank(j)
  <2>1. LaterThan(i, S, time) \in SUBSET LaterThan(j, S, time) BY <1>2, <1>4 DEF LaterThan
  <2>2. i \in LaterThan(j, S, time) /\ i \notin LaterThan(i, S, time) BY <1>2, <1>4 DEF LaterThan
  <2>3. IsFiniteSet(LaterThan(j, S, time)) /\ Rank(i) \in Nat /\ Rank(j) \in Nat BY <1>3
  <2>4. Rank(i) <= Rank(j) /\ (Rank(j) = Rank(i) => LaterThan(j, S, time) = LaterThan(i, S, time))
    BY <2>1, <2>3, FS_Subset
  <2>5. Rank(i) # Rank(j) BY <2>2, <2>4
  <2> QED BY <2>3, <2>4, <2>5
<1>5. ASSUME NEW i \in S, NEW j \in S, Rank(i) = Rank(j) PROVE i = j
  <2>1. Rank(i) \in Nat BY <1>3
  <2>2. ~(Rank(i) < Rank(j)) /\ ~(Rank(j) < Rank(i)) BY <1>5, <2>1
  <2>3. ~(time[i] > time[j]) /\ ~(time[j] > time[i]) BY <1>4, <2>2
  <2>4. time[i] = time[j] BY <1>2, <2>3
  <2> QED BY <2>4 DEF Timed
<1>6. f \in [S -> 1 .. n] /\ \A i \in S : f[i] = Rank(i) + 1
  <2>1. \A i \in S : Rank(i) + 1 \in 1 .. n BY <1>1, <1>3
  <2> QED BY <2>1
<1> HIDE DEF f
<1>7. \A i, j \in S : f[i] = f[j] => i = j
  <2> SUFFICES ASSUME NEW i \in S, NEW j \in S, f[i] = f[j] PROVE i = j OBVIOUS
  <2>1. Rank(i) \in Nat /\ Rank(j) \in Nat /\ Rank(i) + 1 = Rank(j) + 1 BY <1>3, <1>6
  <2>2. Rank(i) = Rank(j) BY <2>1
  <2> QED BY <1>5, <2>2
<1>8. f \in Injection(S, 1 .. n) BY <1>6, <1>7, Fun_IsInj
<1>9. IsFiniteSet(1 .. n) /\ Cardinality(1 .. n) = n BY <1>1, FS_Interval
<1>10. f \in Surjection(S, 1 .. n) BY <1>8, <1>9, FS_Injection
<1>11. \A k \in 1 .. n : \E i \in S : f[i] = k BY <1>10 DEF Surjection
<1> DEFINE q == LatestFirst(S, time)
<1>12. ASSUME NEW k \in 1 .. n PROVE q[k] \in S /\ Rank(q[k]) = k - 1
  <2>1. PICK i \in S : f[i] = k BY <1>11
  <2>2. Rank(i) = k - 1 BY <1>3, <1>6, <2>1
  <2>3. \E e \in S : Cardinality({j \in S : time[j] > time[e]}) = k - 1 BY <2>2 DEF LaterThan
  <2>4. q[k] = CHOOSE e \in S : Cardinality({j \in S : time[j] > time[e]}) = k - 1
    BY DEF LatestFirst
  <2> QED BY <2>3, <2>4 DEF LaterThan
<1>13. q = [k \in 1 .. n |-> q[k]] BY DEF LatestFirst
<1>14. ASSUME NEW i \in S PROVE \E k \in 1 .. n : q[k] = i
  <2>1. PICK k \in 1 .. n : k = f[i] BY <1>6
  <2>2. Rank(i) = k - 1 BY <1>3, <1>6, <2>1
  <2> QED BY <1>5, <1>12, <2>2
<1>15. ASSUME NEW k \in 1 .. n, NEW l \in 1 .. n, k < l PROVE time[q[k]] > time[q[l]]
  <2>1. q[k] \in S /\ q[l] \in S /\ Rank(q[k]) = k - 1 /\ Rank(q[l]) = l - 1 BY <1>12
  <2>2. k - 1 < l - 1 /\ k - 1 # l - 1 BY <1>1, <1>15
  <2>3. ~(Rank(q[l]) < Rank(q[k])) /\ Rank(q[l]) # Rank(q[k])
    BY <1>1, <1>15, <2>1
  <2>4. ~(time[q[l]] > time[q[k]]) BY <1>4, <2>1, <2>3
  <2>5. time[q[k]] # time[q[l]]
    <3> SUFFICES ASSUME time[q[k]] = time[q[l]] PROVE FALSE OBVIOUS
    <3>1. q[k] = q[l] BY <2>1 DEF Timed
    <3> QED BY <2>3, <3>1
  <2>6. time[q[k]] \in Nat /\ time[q[l]] \in Nat BY <1>2, <2>1
  <2> QED BY <2>4, <2>5, <2>6
<1> QED BY <1>1, <1>12, <1>13, <1>14, <1>15 DEF Lists

\* An element that becomes the latest moves to the front.
Fronted(q, n, p) == [k \in 1 .. n |-> IF k = 1 THEN q[p] ELSE IF k <= p THEN q[k - 1] ELSE q[k]]

\* A step of the times: v becomes the latest of all.
Advances(v, S, time, later) ==
  /\ later[v] \in Nat
  /\ \A i \in S : i # v => later[i] = time[i] /\ later[v] > time[i]

\* Then times still differ.
LEMMA TimedStill ==
  ASSUME NEW S, NEW time, NEW later, NEW v, Timed(S, time), Advances(v, S, time, later)
  PROVE  Timed(S \cup {v}, later)
<1>1. \A i \in S : time[i] \in Nat BY DEF Timed
<1>2. \A i \in S \cup {v} : later[i] \in Nat BY <1>1 DEF Advances
<1>3. ASSUME NEW i \in S \cup {v}, NEW j \in S \cup {v}, later[i] = later[j] PROVE i = j
  <2>1. CASE i # v /\ j # v BY <1>3, <2>1 DEF Advances, Timed
  <2>2. CASE i = v /\ j # v
    <3>1. later[v] > time[j] /\ later[j] = time[j] /\ time[j] \in Nat /\ later[v] \in Nat
      BY <1>1, <2>2 DEF Advances
    <3> QED BY <1>3, <2>2, <3>1
  <2>3. CASE i # v /\ j = v
    <3>1. later[v] > time[i] /\ later[i] = time[i] /\ time[i] \in Nat /\ later[v] \in Nat
      BY <1>1, <2>3 DEF Advances
    <3> QED BY <1>3, <2>3, <3>1
  <2> QED BY <2>1, <2>2, <2>3
<1> QED BY <1>2, <1>3 DEF Timed

\* Fronted lists them by the new times.
LEMMA MovedToFront ==
  ASSUME NEW S, NEW time, NEW later, Timed(S, time), NEW q, NEW n, Lists(q, n, S, time),
         NEW p \in 1 .. n, Advances(q[p], S, time, later)
  PROVE  Lists(Fronted(q, n, p), n, S, later)
<1> DEFINE r == Fronted(q, n, p)
<1>1. n \in Nat /\ p \in Nat /\ p >= 1 /\ p <= n BY DEF Lists
<1>2. \A k \in 1 .. n : r[k] = IF k = 1 THEN q[p] ELSE IF k <= p THEN q[k - 1] ELSE q[k]
  BY DEF Fronted
<1>3. r = [k \in 1 .. n |-> r[k]] BY DEF Fronted
<1> HIDE DEF r
<1>4. \A k \in 1 .. n : q[k] \in S BY DEF Lists
<1>5. \A k, l \in 1 .. n : q[k] = q[l] => k = l BY ListedAll
<1>6. \A k \in 1 .. n : k # p => later[q[k]] = time[q[k]] /\ later[q[p]] > time[q[k]]
  BY <1>4, <1>5 DEF Advances
<1>7. ASSUME NEW k \in 1 .. n PROVE r[k] \in S
  <2>1. k = 1 \/ k - 1 \in 1 .. n BY <1>1
  <2> QED BY <1>2, <1>4, <2>1
<1>8. ASSUME NEW i \in S PROVE \E k \in 1 .. n : r[k] = i
  <2>1. PICK l \in 1 .. n : q[l] = i BY DEF Lists
  <2>2. CASE l = p
    <3>1. 1 \in 1 .. n BY <1>1
    <3> QED BY <1>2, <2>1, <2>2, <3>1
  <2>3. CASE l < p
    <3>1. l + 1 \in 1 .. n /\ l + 1 # 1 /\ l + 1 <= p /\ (l + 1) - 1 = l BY <1>1, <2>3
    <3> QED BY <1>2, <2>1, <3>1
  <2>4. CASE l > p
    <3>1. l # 1 /\ ~(l <= p) BY <1>1, <2>4
    <3> QED BY <1>2, <2>1, <3>1
  <2> QED BY <1>1, <2>2, <2>3, <2>4
<1>9. ASSUME NEW k \in 1 .. n, NEW l \in 1 .. n, k < l PROVE later[r[k]] > later[r[l]]
  <2>1. l # 1 BY <1>1, <1>9
  <2>2. PICK m \in 1 .. n : r[l] = q[m] /\ m # p /\ m = IF l <= p THEN l - 1 ELSE l
    <3>1. CASE l <= p
      <4>1. l - 1 \in 1 .. n /\ l - 1 # p BY <1>1, <2>1, <3>1
      <4> QED BY <1>2, <2>1, <3>1, <4>1
    <3>2. CASE ~(l <= p)
      <4>1. l # p BY <1>1, <3>2
      <4> QED BY <1>2, <2>1, <3>2, <4>1
    <3> QED BY <3>1, <3>2
  <2>3. later[r[l]] = time[q[m]] /\ later[q[p]] > time[q[m]] BY <1>6, <2>2
  <2>4. CASE k = 1 BY <1>2, <2>3, <2>4
  <2>5. CASE k # 1
    <3>1. PICK j \in 1 .. n : r[k] = q[j] /\ j # p /\ j = IF k <= p THEN k - 1 ELSE k
      <4>1. CASE k <= p
        <5>1. k - 1 \in 1 .. n /\ k - 1 # p BY <1>1, <2>5, <4>1
        <5> QED BY <1>2, <2>5, <4>1, <5>1
      <4>2. CASE ~(k <= p)
        <5>1. k # p BY <1>1, <4>2
        <5> QED BY <1>2, <2>5, <4>2, <5>1
      <4> QED BY <4>1, <4>2
    <3>2. later[r[k]] = time[q[j]] BY <1>6, <3>1
    <3>3. j < m BY <1>1, <1>9, <2>2, <3>1
    <3>4. time[q[j]] > time[q[m]] BY <3>3 DEF Lists
    <3> QED BY <2>3, <3>2, <3>4
  <2> QED BY <2>4, <2>5
<1>10. Lists(r, n, S, later) BY <1>1, <1>3, <1>7, <1>8, <1>9 DEF Lists
<1> QED BY <1>10 DEF r

\* So does one that is added.
Headed(q, n, v) == [k \in 1 .. n + 1 |-> IF k = 1 THEN v ELSE q[k - 1]]

\* Headed lists the larger set by the new times.
LEMMA AddedToFront ==
  ASSUME NEW S, NEW time, NEW later, Timed(S, time), NEW q, NEW n, Lists(q, n, S, time),
         NEW v, v \notin S, Advances(v, S, time, later)
  PROVE  Lists(Headed(q, n, v), n + 1, S \cup {v}, later)
<1> DEFINE r == Headed(q, n, v)
<1>1. n \in Nat /\ n + 1 \in Nat BY DEF Lists
<1>2. \A k \in 1 .. n + 1 : r[k] = IF k = 1 THEN v ELSE q[k - 1] BY DEF Headed
<1>3. r = [k \in 1 .. n + 1 |-> r[k]] BY DEF Headed
<1> HIDE DEF r
<1>4. \A k \in 1 .. n : q[k] \in S /\ q[k] # v BY DEF Lists
<1>5. \A k \in 1 .. n : later[q[k]] = time[q[k]] /\ later[v] > time[q[k]] BY <1>4 DEF Advances
<1>6. \A k \in 1 .. n + 1 : k = 1 \/ k - 1 \in 1 .. n BY <1>1
<1>7. \A k \in 1 .. n + 1 : r[k] \in S \cup {v} BY <1>2, <1>4, <1>6
<1>8. ASSUME NEW i \in S \cup {v} PROVE \E k \in 1 .. n + 1 : r[k] = i
  <2>1. CASE i = v
    <3>1. 1 \in 1 .. n + 1 BY <1>1
    <3> QED BY <1>2, <2>1, <3>1
  <2>2. CASE i # v
    <3>1. PICK l \in 1 .. n : q[l] = i BY <2>2 DEF Lists
    <3>2. l + 1 \in 1 .. n + 1 /\ l + 1 # 1 /\ (l + 1) - 1 = l BY <1>1
    <3> QED BY <1>2, <3>1, <3>2
  <2> QED BY <2>1, <2>2
<1>9. ASSUME NEW k \in 1 .. n + 1, NEW l \in 1 .. n + 1, k < l PROVE later[r[k]] > later[r[l]]
  <2>1. l # 1 /\ l - 1 \in 1 .. n BY <1>1, <1>9
  <2>2. later[r[l]] = time[q[l - 1]] /\ later[v] > time[q[l - 1]] BY <1>2, <1>5, <2>1
  <2>3. CASE k = 1 BY <1>2, <2>2, <2>3
  <2>4. CASE k # 1
    <3>1. k - 1 \in 1 .. n /\ k - 1 < l - 1 BY <1>1, <1>9, <2>4
    <3>2. time[q[k - 1]] > time[q[l - 1]] BY <2>1, <3>1 DEF Lists
    <3>3. later[r[k]] = time[q[k - 1]] BY <1>2, <1>5, <2>4, <3>1
    <3> QED BY <2>2, <3>2, <3>3
  <2> QED BY <2>3, <2>4
<1>10. Lists(r, n + 1, S \cup {v}, later) BY <1>1, <1>3, <1>7, <1>8, <1>9 DEF Lists
<1> QED BY <1>10 DEF r

----------------------------------------------------------------------------
(* CacheModel: sequences of LruCache *)

\* The elements of Without.
LEMMA WithoutIs ==
  ASSUME NEW T, NEW s \in Seq(T), NEW p \in 1 .. Len(s)
  PROVE  /\ Lru!Without(s, p) = [k \in 1 .. Len(s) - 1 |-> IF k < p THEN s[k] ELSE s[k + 1]]
         /\ Lru!Without(s, p) \in Seq(T) /\ Len(Lru!Without(s, p)) = Len(s) - 1
<1>1. PICK n \in Nat : n = Len(s) OBVIOUS
<1>2. p \in Nat /\ p >= 1 /\ p <= n BY <1>1
<1>3. PICK a : a = SubSeq(s, 1, p - 1) OBVIOUS
<1>4. PICK b : b = SubSeq(s, p + 1, n) OBVIOUS
<1>5. a \in Seq(T) /\ Len(a) = p - 1 /\ \A k \in 1 .. p - 1 : a[k] = s[k] BY <1>1, <1>2, <1>3
<1>6. b \in Seq(T) /\ Len(b) = n - p /\ \A k \in 1 .. n - p : b[k] = s[k + p] BY <1>1, <1>2, <1>4
<1>7. PICK w : w = a \o b OBVIOUS
<1>8. w \in Seq(T) /\ Len(w) = n - 1
  <2>0. a \in Seq(T) /\ b \in Seq(T) BY <1>5, <1>6
  <2>1. w \in Seq(T) /\ Len(w) = Len(a) + Len(b) BY <1>7, <2>0
  <2>2. (p - 1) + (n - p) = n - 1 BY <1>2
  <2> QED BY <1>5, <1>6, <2>1, <2>2
<1>9. ASSUME NEW k \in 1 .. n - 1 PROVE w[k] = IF k < p THEN s[k] ELSE s[k + 1]
  <2>1. CASE k < p
    <3>1. k \in 1 .. Len(a) BY <1>2, <1>5, <2>1
    <3>2. w[k] = a[k] BY <1>5, <1>6, <1>7, <3>1
    <3> QED BY <1>5, <2>1, <3>1, <3>2
  <2>2. CASE ~(k < p)
    <3>1. k - (p - 1) \in 1 .. n - p BY <1>2, <2>2
    <3>2. k \in 1 .. Len(a) + Len(b) /\ k > Len(a) BY <1>2, <1>5, <1>6, <2>2
    <3>3. w[k] = b[k - Len(a)] BY <1>5, <1>6, <1>7, <3>2
    <3>4. b[k - (p - 1)] = s[(k - (p - 1)) + p] BY <1>6, <3>1
    <3>5. (k - (p - 1)) + p = k + 1 BY <1>2
    <3> QED BY <1>5, <2>2, <3>3, <3>4, <3>5
  <2> QED BY <2>1, <2>2
<1>10. w = [k \in 1 .. n - 1 |-> IF k < p THEN s[k] ELSE s[k + 1]] BY <1>8, <1>9
<1>11. Lru!Without(s, p) = w BY <1>1, <1>3, <1>4, <1>7 DEF Lru!Without
<1> QED BY <1>1, <1>8, <1>10, <1>11

\* The elements of a sequence with a new head.
LEMMA ConsIs ==
  ASSUME NEW T, NEW s \in Seq(T), NEW x \in T
  PROVE  <<x>> \o s = [k \in 1 .. Len(s) + 1 |-> IF k = 1 THEN x ELSE s[k - 1]]
<1>1. PICK n \in Nat : n = Len(s) OBVIOUS
<1>2. PICK w : w = <<x>> \o s OBVIOUS
<1>3. <<x>> \in Seq(T) /\ Len(<<x>>) = 1 /\ <<x>>[1] = x OBVIOUS
<1>4. w \in Seq(T) /\ Len(w) = n + 1 BY <1>1, <1>2, <1>3
<1>5. ASSUME NEW k \in 1 .. n + 1 PROVE w[k] = IF k = 1 THEN x ELSE s[k - 1]
  BY <1>1, <1>2, <1>3
<1>6. w = [k \in 1 .. n + 1 |-> IF k = 1 THEN x ELSE s[k - 1]] BY <1>4, <1>5
<1> QED BY <1>1, <1>2, <1>6

----------------------------------------------------------------------------
(* CacheModel: sets, addresses and times *)

\* The sets of the cache.
Sets == 0 .. SetCount - 1

\* The lines of set s.
SetLines(s) == s * Ways .. s * Ways + Ways - 1

\* They are Ways many.
LEMMA SetLinesIn ==
  ASSUME NEW s \in Sets
  PROVE  /\ SetLines(s) \subseteq Indices /\ s \in Nat /\ s < SetCount
         /\ IsFiniteSet(SetLines(s)) /\ Cardinality(SetLines(s)) = Ways
<1>1. s \in Nat /\ SetCount \in Nat /\ s < SetCount /\ Ways \in Nat /\ Ways # 0
  BY CacheAssumption DEF Sets
<1>2. s * Ways + Ways <= SetCount * Ways BY <1>1, RowsApart
<1>3. PICK m \in Nat : m = s * Ways BY <1>1
<1>4. PICK l \in Nat : l = SetCount * Ways BY <1>1
<1>5. SetLines(s) = m .. m + Ways - 1 BY <1>3 DEF SetLines
<1>6. SetLines(s) \subseteq Indices BY <1>1, <1>2, <1>3, <1>4, <1>5 DEF Indices
<1>7. m \in Int /\ m + Ways - 1 \in Int /\ ~(m > m + Ways - 1) /\ (m + Ways - 1) - m + 1 = Ways
  BY <1>1, <1>3
<1>8. IsFiniteSet(SetLines(s)) /\ Cardinality(SetLines(s)) = Ways BY <1>5, <1>7, FS_Interval
<1> QED BY <1>1, <1>6, <1>8

\* No line is in two sets.
LEMMA SetsApart ==
  ASSUME NEW s \in Sets, NEW t \in Sets, s # t
  PROVE  SetLines(s) \cap SetLines(t) = {}
<1>1. s \in Nat /\ t \in Nat /\ Ways \in Nat BY CacheAssumption DEF Sets
<1>2. s * Ways \in Nat /\ t * Ways \in Nat BY <1>1
<1>3. CASE s < t
  <2>1. s * Ways + Ways <= t * Ways BY <1>1, <1>3, RowsApart
  <2> QED BY <1>1, <1>2, <2>1 DEF SetLines
<1>4. CASE t < s
  <2>1. t * Ways + Ways <= s * Ways BY <1>1, <1>4, RowsApart
  <2> QED BY <1>1, <1>2, <2>1 DEF SetLines
<1> QED BY <1>1, <1>3, <1>4

\* Every line is in a set.
LEMMA LinesInSets == ASSUME NEW i \in Indices PROVE \E s \in Sets : i \in SetLines(s)
<1>1. SetCount \in Nat \ {0} /\ Ways \in Nat \ {0} BY CacheAssumption
<1>2. i \in Nat /\ i < SetCount * Ways BY <1>1 DEF Indices
<1>3. PICK s \in Int : s = i \div Ways BY <1>1, <1>2
<1>4. PICK r \in Int : r = i % Ways BY <1>1, <1>2
<1>5. i = Ways * s + r /\ 0 <= r /\ r < Ways BY <1>1, <1>2, <1>3, <1>4
<1>6. s >= 0 BY <1>1, <1>2, <1>3
<1>7. s < SetCount
  <2> SUFFICES ASSUME s >= SetCount PROVE FALSE BY <1>1, <1>3
  <2>1. PICK d \in Nat : s = SetCount + d
    <3>1. s - SetCount \in Nat /\ s = SetCount + (s - SetCount) BY <1>1, <1>3
    <3> QED BY <3>1
  <2>2. Ways * s = SetCount * Ways + d * Ways BY <1>1, <2>1
  <2>3. d * Ways \in Nat /\ SetCount * Ways \in Nat BY <1>1
  <2> QED BY <1>2, <1>5, <2>2, <2>3
<1>8. s \in Sets BY <1>1, <1>6, <1>7 DEF Sets
<1>9. s * Ways = Ways * s /\ s * Ways \in Nat BY <1>1, <1>6
<1>10. i \in SetLines(s) BY <1>1, <1>2, <1>5, <1>9 DEF SetLines
<1> QED BY <1>8, <1>10

\* An address is its tag and its set.
LEMMA AddressIs ==
  ASSUME NEW a \in Addresses
  PROVE  /\ SetOf(a) \in Sets /\ WaysOf(a) = SetLines(SetOf(a)) /\ TagOf(a) \in Nat
         /\ TagOf(a) * SetCount + SetOf(a) = a
         /\ \A tag \in Nat : tag * SetCount + SetOf(a) = a => tag = TagOf(a)
<1>1. SetCount \in Nat \ {0} /\ a \in Nat BY CacheAssumption
<1>2. SetOf(a) \in Sets /\ TagOf(a) \in Nat BY PlaceType DEF Sets
<1>3. WaysOf(a) = SetLines(SetOf(a)) BY DEF WaysOf, SetLines
<1>4. PICK d \in Nat : d = TagOf(a) BY <1>2
<1>5. PICK r \in Nat : r = SetOf(a) BY <1>1, <1>2 DEF Sets
<1>6. a = SetCount * d + r BY <1>1, <1>4, <1>5 DEF TagOf, SetOf
<1>7. d * SetCount + r = a BY <1>1, <1>6
<1>8. ASSUME NEW tag \in Nat, tag * SetCount + r = a PROVE tag = d
  <2>1. tag * SetCount = d * SetCount
    <3>1. tag * SetCount \in Nat /\ d * SetCount \in Nat BY <1>1
    <3> QED BY <1>7, <1>8, <3>1
  <2>2. CASE tag < d
    <3>1. PICK e \in Nat : d = tag + 1 + e
      <4>1. d - tag - 1 \in Nat /\ d = tag + 1 + (d - tag - 1) BY <2>2
      <4> QED BY <4>1
    <3>2. d * SetCount = tag * SetCount + SetCount + e * SetCount BY <1>1, <3>1
    <3>3. e * SetCount \in Nat /\ tag * SetCount \in Nat BY <1>1
    <3> QED BY <1>1, <2>1, <3>2, <3>3
  <2>3. CASE d < tag
    <3>1. PICK e \in Nat : tag = d + 1 + e
      <4>1. tag - d - 1 \in Nat /\ tag = d + 1 + (tag - d - 1) BY <2>3
      <4> QED BY <4>1
    <3>2. tag * SetCount = d * SetCount + SetCount + e * SetCount BY <1>1, <3>1
    <3>3. e * SetCount \in Nat /\ d * SetCount \in Nat BY <1>1
    <3> QED BY <1>1, <2>1, <3>2, <3>3
  <2> QED BY <2>2, <2>3
<1> QED BY <1>2, <1>3, <1>4, <1>5, <1>7, <1>8

\* Lines in use were used at different times.
Ordered ==
  /\ \A i \in Indices : lines[i].last_used <= clock
  /\ \A i, j \in Indices :
       lines[i].tag # Invalid /\ lines[j].tag # Invalid /\ lines[i].last_used = lines[j].last_used
         => i = j

\* The values of a line.
CacheLines == [tag : Nat \cup {Invalid}, last_used : Nat, dirty : BOOLEAN]

\* The fields of a line.
LEMMA LineTyped ==
  ASSUME CacheTypeOK, NEW i \in Indices
  PROVE  /\ lines[i].tag \in Nat \cup {Invalid} /\ lines[i].last_used \in Nat
         /\ lines[i].dirty \in BOOLEAN /\ LastUses[i] = lines[i].last_used
<1>1. lines[i] \in CacheLines BY DEF CacheTypeOK, CacheLines
<1> QED BY <1>1 DEF CacheLines, LastUses

\* The lines of a set in use are finitely many, used at different times.
LEMMA UsedTimed ==
  ASSUME CacheTypeOK, Ordered, NEW s \in Sets
  PROVE  /\ UsedLines(s) \subseteq SetLines(s) /\ UsedLines(s) \subseteq Indices
         /\ IsFiniteSet(UsedLines(s)) /\ Timed(UsedLines(s), LastUses)
<1>1. UsedLines(s) \in SUBSET SetLines(s) BY DEF UsedLines, SetLines
<1>2. UsedLines(s) \subseteq Indices BY <1>1, SetLinesIn
<1>3. IsFiniteSet(UsedLines(s)) BY <1>1, SetLinesIn, FS_Subset
<1>4. \A i \in UsedLines(s) : lines[i].tag # Invalid BY DEF UsedLines
<1>5. \A i \in UsedLines(s) : LastUses[i] = lines[i].last_used /\ lines[i].last_used \in Nat
  BY <1>2, LineTyped
<1>6. Timed(UsedLines(s), LastUses) BY <1>2, <1>4, <1>5 DEF Timed, Ordered
<1> QED BY <1>1, <1>2, <1>3, <1>6

\* The entries of the abstract cache.
Entries == [address : Nat, dirty : BOOLEAN]

\* The entry of a line.
LEMMA LineAtIs ==
  ASSUME CacheTypeOK, NEW s \in Sets, NEW i \in UsedLines(s)
  PROVE  /\ LineAt(i, s) \in Entries /\ LineAt(i, s).dirty = lines[i].dirty
         /\ LineAt(i, s).address = lines[i].tag * SetCount + s
<1>1. i \in SetLines(s) /\ lines[i].tag # Invalid BY DEF UsedLines, SetLines
<1>2. i \in Indices BY <1>1, SetLinesIn
<1>3. lines[i].tag \in Nat /\ lines[i].dirty \in BOOLEAN BY <1>1, <1>2, LineTyped
<1>4. PICK c \in Nat : c = lines[i].tag * SetCount + s
  <2>1. SetCount \in Nat /\ s \in Nat BY CacheAssumption, SetLinesIn
  <2> QED BY <1>3, <2>1
<1>5. LineAt(i, s) = [address |-> c, dirty |-> lines[i].dirty] BY <1>4 DEF LineAt
<1> QED BY <1>3, <1>4, <1>5 DEF Entries

\* The entries of a set, from the list of its lines in use.
LEMMA RecencyIs ==
  ASSUME CacheTypeOK, Ordered, NEW s \in Sets, NEW q, q = LatestFirst(UsedLines(s), LastUses),
         NEW n, n = Cardinality(UsedLines(s))
  PROVE  /\ n \in Nat /\ Lists(q, n, UsedLines(s), LastUses)
         /\ RecencyOf(s) = [k \in 1 .. n |-> LineAt(q[k], s)]
         /\ RecencyOf(s) \in Seq(Entries) /\ Len(RecencyOf(s)) = n
         /\ \A k \in 1 .. n : RecencyOf(s)[k] = LineAt(q[k], s) /\ q[k] \in UsedLines(s)
<1>1. Lists(q, n, UsedLines(s), LastUses) BY UsedTimed, LatestFirstLists
<1>2. n \in Nat /\ \A k \in 1 .. n : q[k] \in UsedLines(s) BY <1>1 DEF Lists
<1>3. DOMAIN q = 1 .. n
  <2>1. q = [k \in 1 .. n |-> q[k]] BY <1>1 DEF Lists
  <2> QED BY <2>1
<1>4. RecencyOf(s) = [k \in 1 .. n |-> LineAt(q[k], s)] BY <1>3 DEF RecencyOf
<1>5. \A k \in 1 .. n : LineAt(q[k], s) \in Entries BY <1>2, LineAtIs
<1>6. [k \in 1 .. n |-> LineAt(q[k], s)] \in Seq(Entries) /\ Len([k \in 1 .. n |-> LineAt(q[k], s)]) = n
  BY <1>2, <1>5
<1> QED BY <1>1, <1>2, <1>4, <1>6

----------------------------------------------------------------------------
(* CacheModel: a step of one line *)

\* A line used by this access.
LineNow(tag, d) == [tag |-> tag, last_used |-> clock + 1, dirty |-> d]

\* A line is used: it gets a tag and the time of the access.
UsesLine(v, tag, d) ==
  /\ clock' = clock + 1
  /\ lines' = [lines EXCEPT ![v] = LineNow(tag, d)]

\* It is the only line that changes, and the latest used.
LEMMA LineUsed ==
  ASSUME CacheTypeOK, Ordered, NEW v \in Indices, NEW tag \in Nat, NEW d \in BOOLEAN, UsesLine(v, tag, d)
  PROVE  /\ \A i \in Indices : i # v => lines'[i] = lines[i]
         /\ lines'[v] = LineNow(tag, d)
         /\ lines'[v].tag = tag /\ lines'[v].last_used = clock + 1 /\ lines'[v].dirty = d
         /\ \A i \in Indices : (LastUses')[i] = lines'[i].last_used
         /\ Ordered'
<1>1. lines \in [Indices -> CacheLines] /\ clock \in Nat BY DEF CacheTypeOK, CacheLines
<1>2. /\ \A i \in Indices : i # v => lines'[i] = lines[i]
      /\ lines'[v] = LineNow(tag, d)
  BY <1>1 DEF UsesLine
<1>3. lines'[v].tag = tag /\ lines'[v].last_used = clock + 1 /\ lines'[v].dirty = d
  BY <1>2 DEF LineNow
<1>4. \A i \in Indices : (LastUses')[i] = lines'[i].last_used BY DEF LastUses
<1>5. \A i \in Indices : lines[i].last_used \in Nat BY LineTyped
<1>6. \A i \in Indices : lines[i].last_used <= clock BY DEF Ordered
<1>7. clock' = clock + 1 BY DEF UsesLine
<1>8. ASSUME NEW i \in Indices PROVE lines'[i].last_used <= clock'
  BY <1>1, <1>2, <1>3, <1>5, <1>6, <1>7
<1>9. ASSUME NEW i \in Indices, NEW j \in Indices, lines'[i].tag # Invalid, lines'[j].tag # Invalid,
             lines'[i].last_used = lines'[j].last_used
      PROVE  i = j
  <2>1. CASE i = v /\ j # v BY <1>1, <1>2, <1>3, <1>5, <1>6, <1>9, <2>1
  <2>2. CASE i # v /\ j = v BY <1>1, <1>2, <1>3, <1>5, <1>6, <1>9, <2>2
  <2>3. CASE i # v /\ j # v BY <1>2, <1>9, <2>3 DEF Ordered
  <2> QED BY <2>1, <2>2, <2>3
<1>10. Ordered' BY <1>8, <1>9 DEF Ordered
<1> QED BY <1>2, <1>3, <1>4, <1>10

\* Its time becomes the latest of all.
LEMMA UseAdvances ==
  ASSUME CacheTypeOK, Ordered, NEW v \in Indices, NEW tag \in Nat, NEW d \in BOOLEAN, UsesLine(v, tag, d),
         NEW S \in SUBSET Indices
  PROVE  Advances(v, S, LastUses, LastUses')
<1>1. clock \in Nat BY DEF CacheTypeOK
<1>2. (LastUses')[v] = clock + 1 BY LineUsed
<1>3. ASSUME NEW i \in S, i # v PROVE (LastUses')[i] = LastUses[i] /\ clock + 1 > LastUses[i]
  <2>1. lines'[i] = lines[i] /\ (LastUses')[i] = lines'[i].last_used BY <1>3, LineUsed
  <2>2. LastUses[i] = lines[i].last_used /\ lines[i].last_used \in Nat BY LineTyped
  <2>3. lines[i].last_used <= clock BY DEF Ordered
  <2> QED BY <1>1, <2>1, <2>2, <2>3
<1> QED BY <1>1, <1>2, <1>3 DEF Advances

\* The entries of a set after a step, from a list of its lines.
LEMMA NextRecency ==
  ASSUME NEW s, NEW S, S = UsedLines(s)', NEW later, later = LastUses', Timed(S, later),
         NEW q, NEW n, Lists(q, n, S, later)
  PROVE  RecencyOf(s)' = [k \in 1 .. n |-> LineAt(q[k], s)']
<1>1. q = LatestFirst(S, later) BY OneList
<1>2. DOMAIN q = 1 .. n
  <2>1. q = [k \in 1 .. n |-> q[k]] BY DEF Lists
  <2> QED BY <2>1
<1>3. RecencyOf(s)' = [k \in DOMAIN LatestFirst(S, later) |-> LineAt(LatestFirst(S, later)[k], s)']
  BY DEF RecencyOf, LineAt
<1> QED BY <1>1, <1>2, <1>3

\* The other sets keep their entries and their order.
LEMMA OtherSetsKept ==
  ASSUME CacheTypeOK, Ordered, NEW s \in Sets, NEW v \in SetLines(s),
         NEW tag \in Nat, NEW d \in BOOLEAN, UsesLine(v, tag, d), NEW t \in Sets, t # s
  PROVE  RecencyOf(t)' = RecencyOf(t)
<1>0. v \in Indices BY SetLinesIn
<1>1. \A i \in SetLines(t) : i \in Indices /\ i # v BY SetsApart, SetLinesIn
<1>2. \A i \in SetLines(t) : lines'[i] = lines[i] BY <1>0, <1>1, LineUsed
<1>3. UsedLines(t)' = UsedLines(t) BY <1>2 DEF UsedLines, SetLines
<1>4. PICK S : S = UsedLines(t) OBVIOUS
<1>5. PICK q : q = LatestFirst(S, LastUses) OBVIOUS
<1>6. PICK n : n = Cardinality(S) OBVIOUS
<1>7. /\ n \in Nat /\ Lists(q, n, S, LastUses)
      /\ RecencyOf(t) = [k \in 1 .. n |-> LineAt(q[k], t)]
      /\ \A k \in 1 .. n : q[k] \in S
  BY <1>4, <1>5, <1>6, RecencyIs
<1>8. S \subseteq SetLines(t) /\ S \subseteq Indices /\ Timed(S, LastUses) BY <1>4, UsedTimed
<1>9. \A i \in S : (LastUses')[i] = LastUses[i]
  <2> SUFFICES ASSUME NEW i \in S PROVE (LastUses')[i] = LastUses[i] OBVIOUS
  <2>1. i \in Indices /\ lines'[i] = lines[i] BY <1>2, <1>8
  <2>2. (LastUses')[i] = lines'[i].last_used BY <1>0, <2>1, LineUsed
  <2>3. LastUses[i] = lines[i].last_used BY <2>1, LineTyped
  <2> QED BY <2>1, <2>2, <2>3
<1>10. PICK later : later = LastUses' OBVIOUS
<1>11. Timed(S, later) /\ Lists(q, n, S, later) BY <1>7, <1>8, <1>9, <1>10 DEF Timed, Lists
<1>12. RecencyOf(t)' = [k \in 1 .. n |-> LineAt(q[k], t)'] BY <1>3, <1>4, <1>10, <1>11, NextRecency
<1>13. \A k \in 1 .. n : LineAt(q[k], t)' = LineAt(q[k], t) BY <1>2, <1>7, <1>8 DEF LineAt
<1> QED BY <1>7, <1>12, <1>13

\* So one set of the abstract cache changes.
LEMMA OneSetChanged ==
  ASSUME CacheTypeOK, Ordered, NEW s \in Sets, NEW v \in SetLines(s),
         NEW tag \in Nat, NEW d \in BOOLEAN, UsesLine(v, tag, d)
  PROVE  /\ Recency' = [Recency EXCEPT ![s] = RecencyOf(s)']
         /\ Recency[s] = RecencyOf(s)
<1>1. \A t \in Sets : t # s => RecencyOf(t)' = RecencyOf(t) BY OtherSetsKept
<1>2. Recency' = [t \in Sets |-> RecencyOf(t)'] BY DEF Recency, Sets
<1>3. Recency = [t \in Sets |-> RecencyOf(t)] BY DEF Recency, Sets
<1>4. PICK x : x = RecencyOf(s)' OBVIOUS
<1>5. PICK f : f = [t \in Sets |-> RecencyOf(t)] OBVIOUS
<1>6. [f EXCEPT ![s] = x] = [t \in Sets |-> IF t = s THEN x ELSE f[t]] BY <1>5
<1>7. \A t \in Sets : RecencyOf(t)' = IF t = s THEN x ELSE f[t] BY <1>1, <1>4, <1>5
<1>8. Recency' = [f EXCEPT ![s] = x] BY <1>2, <1>6, <1>7
<1> QED BY <1>3, <1>4, <1>5, <1>8

\* A hit moves the line's entry to the front of its set.
LEMMA HitMovesToFront ==
  ASSUME CacheTypeOK, Ordered, NEW a \in Addresses, NEW store \in BOOLEAN, NEW v \in Hits(a),
         NEW d \in BOOLEAN, d = (lines[v].dirty \/ store), UsesLine(v, TagOf(a), d), UNCHANGED <<loads, stores>>
  PROVE  Lru!Reuse(a, store)
<1>1. PICK s \in Sets : s = SetOf(a) BY AddressIs
<1>2. v \in SetLines(s) /\ lines[v].tag = TagOf(a) /\ TagOf(a) \in Nat BY <1>1, AddressIs DEF Hits
<1>3. v \in Indices BY <1>2, SetLinesIn
<1>4. lines[v].tag # Invalid BY <1>2, CacheAssumption
<1>5. PICK S : S = UsedLines(s) OBVIOUS
<1>6. v \in S BY <1>2, <1>4, <1>5 DEF UsedLines, SetLines
<1>7. PICK q : q = LatestFirst(S, LastUses) OBVIOUS
<1>8. PICK n : n = Cardinality(S) OBVIOUS
<1>9. PICK R \in Seq(Entries) : R = RecencyOf(s) BY <1>5, <1>7, <1>8, RecencyIs
<1>10. /\ n \in Nat /\ Lists(q, n, S, LastUses) /\ Len(R) = n
       /\ \A k \in 1 .. n : R[k] = LineAt(q[k], s) /\ q[k] \in S
  BY <1>5, <1>7, <1>8, <1>9, RecencyIs
<1>11. S \subseteq SetLines(s) /\ S \subseteq Indices /\ Timed(S, LastUses) BY <1>5, UsedTimed
<1>12. PICK p \in 1 .. n : q[p] = v BY <1>6, <1>10 DEF Lists
<1>13. PICK later : later = LastUses' OBVIOUS
<1>14. Advances(v, S, LastUses, later) BY <1>2, <1>3, <1>11, <1>13, UseAdvances
<1>15. /\ \A i \in Indices : i # v => lines'[i] = lines[i]
       /\ lines'[v].tag = TagOf(a) /\ lines'[v].dirty = d
  BY <1>2, <1>3, LineUsed
<1>16. S = UsedLines(s)'
  <2>1. \A i \in SetLines(s) : i \in Indices BY SetLinesIn
  <2>2. \A i \in SetLines(s) : lines'[i].tag = lines[i].tag BY <1>2, <1>15, <2>1
  <2> QED BY <1>5, <2>2 DEF UsedLines, SetLines
<1>17. Lists(Fronted(q, n, p), n, S, later) BY <1>10, <1>11, <1>12, <1>14, MovedToFront
<1>18. Timed(S, later)
  <2>1. Timed(S \cup {v}, later) BY <1>11, <1>14, TimedStill
  <2>2. S \cup {v} = S BY <1>6
  <2> QED BY <2>1, <2>2
<1>19. RecencyOf(s)' = [k \in 1 .. n |-> LineAt(Fronted(q, n, p)[k], s)']
  BY <1>13, <1>16, <1>17, <1>18, NextRecency
<1>20. a \in Nat /\ TagOf(a) * SetCount + s = a BY <1>1, AddressIs, CacheAssumption
<1>21. PICK e \in Entries : e = [address |-> a, dirty |-> d] BY <1>20 DEF Entries
<1>22. LineAt(v, s)' = e BY <1>15, <1>20, <1>21 DEF LineAt
<1>23. \A i \in S : i # v => LineAt(i, s)' = LineAt(i, s) BY <1>11, <1>15 DEF LineAt
<1>24. \A k \in 1 .. n : k # p => q[k] # v BY <1>10, <1>11, <1>12, ListedAll
<1>25. PICK W \in Seq(Entries) : W = Lru!Without(R, p) BY <1>9, <1>10, <1>12, WithoutIs
<1>26. Len(W) = n - 1 /\ W = [k \in 1 .. n - 1 |-> IF k < p THEN R[k] ELSE R[k + 1]]
  <2>1. p \in 1 .. Len(R) BY <1>10, <1>12
  <2>2. Len(W) = Len(R) - 1 BY <1>25, <2>1, WithoutIs
  <2>3. W = [k \in 1 .. Len(R) - 1 |-> IF k < p THEN R[k] ELSE R[k + 1]] BY <1>25, <2>1, WithoutIs
  <2> QED BY <1>10, <2>2, <2>3
<1>27. <<e>> \o W = [k \in 1 .. n |-> IF k = 1 THEN e ELSE W[k - 1]]
  <2>1. (n - 1) + 1 = n BY <1>10
  <2>2. <<e>> \o W = [k \in 1 .. Len(W) + 1 |-> IF k = 1 THEN e ELSE W[k - 1]] BY ConsIs
  <2>3. Len(W) + 1 = n BY <1>26, <2>1
  <2> QED BY <2>2, <2>3
<1>28. ASSUME NEW k \in 1 .. n PROVE LineAt(Fronted(q, n, p)[k], s)' = IF k = 1 THEN e ELSE W[k - 1]
  <2>1. CASE k = 1 BY <1>12, <1>22, <2>1 DEF Fronted
  <2>2. CASE k # 1 /\ k <= p
    <3>1. k - 1 \in 1 .. n /\ k - 1 # p /\ k - 1 \in 1 .. n - 1 /\ k - 1 < p BY <1>10, <1>12, <2>2
    <3>2. Fronted(q, n, p)[k] = q[k - 1] BY <2>2 DEF Fronted
    <3>3. W[k - 1] = R[k - 1] BY <1>26, <3>1
    <3>4. q[k - 1] # v /\ q[k - 1] \in S /\ R[k - 1] = LineAt(q[k - 1], s) BY <1>10, <1>24, <3>1
    <3>5. LineAt(q[k - 1], s)' = LineAt(q[k - 1], s) BY <1>23, <3>4
    <3> QED BY <2>2, <3>2, <3>3, <3>4, <3>5
  <2>3. CASE k # 1 /\ ~(k <= p)
    <3>1. k # p /\ k - 1 \in 1 .. n - 1 /\ ~(k - 1 < p) /\ (k - 1) + 1 = k BY <1>10, <1>12, <2>3
    <3>2. Fronted(q, n, p)[k] = q[k] BY <2>3 DEF Fronted
    <3>3. W[k - 1] = R[k] BY <1>26, <3>1
    <3>4. q[k] # v /\ q[k] \in S /\ R[k] = LineAt(q[k], s) BY <1>10, <1>24, <3>1
    <3>5. LineAt(q[k], s)' = LineAt(q[k], s) BY <1>23, <3>4
    <3> QED BY <2>3, <3>2, <3>3, <3>4, <3>5
  <2> QED BY <2>1, <2>2, <2>3
<1>29. RecencyOf(s)' = <<e>> \o W BY <1>19, <1>27, <1>28
<1>30. Recency' = [Recency EXCEPT ![s] = <<e>> \o W] /\ Recency[s] = R
  BY <1>2, <1>9, <1>29, OneSetChanged
<1>31. DOMAIN R = 1 .. n /\ p \in DOMAIN R BY <1>9, <1>10, <1>12
<1>32. R[p].address = a /\ R[p].dirty = lines[v].dirty
  BY <1>2, <1>5, <1>6, <1>10, <1>12, <1>20, LineAtIs
<1>33. e = [address |-> a, dirty |-> R[p].dirty \/ store] BY <1>21, <1>32
<1>34. a % SetCount = s BY <1>1 DEF SetOf
<1>35. /\ R[p].address = a
       /\ Recency' = [Recency EXCEPT ![a % SetCount] =
                        <<[address |-> a, dirty |-> R[p].dirty \/ store]>> \o Lru!Without(R, p)]
       /\ UNCHANGED <<loads, stores>>
  BY <1>25, <1>30, <1>32, <1>33, <1>34
<1>36. Recency[a % SetCount] = R BY <1>30, <1>34
<1> QED BY <1>31, <1>35, <1>36 DEF Lru!Reuse

\* No entry of the set of an address that is missed has that address.
LEMMA MissedNowhere ==
  ASSUME CacheTypeOK, NEW a \in Addresses, Hits(a) = {}, NEW i \in UsedLines(SetOf(a))
  PROVE  LineAt(i, SetOf(a)).address # a
<1>1. PICK s \in Sets : s = SetOf(a) BY AddressIs
<1>2. i \in SetLines(s) /\ lines[i].tag # Invalid BY <1>1 DEF UsedLines, SetLines
<1>3. i \in Indices BY <1>2, SetLinesIn
<1>4. lines[i].tag \in Nat BY <1>2, <1>3, LineTyped
<1>5. lines[i].tag # TagOf(a)
  <2>1. i \in WaysOf(a) BY <1>1, <1>2, AddressIs
  <2> QED BY <2>1 DEF Hits
<1>6. lines[i].tag * SetCount + s # a BY <1>1, <1>4, <1>5, AddressIs
<1> QED BY <1>1, <1>6, LineAtIs

\* A miss with a free line adds an entry to the set.
LEMMA MissTakesFree ==
  ASSUME CacheTypeOK, Ordered, NEW a \in Addresses, NEW store \in BOOLEAN, Hits(a) = {}, NEW v \in Unused(a),
         UsesLine(v, TagOf(a), store), loads' = loads + 1, stores' = stores
  PROVE  Lru!Fetch(a, store)
<1>1. PICK s \in Sets : s = SetOf(a) BY AddressIs
<1>2. v \in SetLines(s) /\ lines[v].tag = Invalid /\ TagOf(a) \in Nat BY <1>1, AddressIs DEF Unused
<1>3. v \in Indices BY <1>2, SetLinesIn
<1>5. PICK S : S = UsedLines(s) OBVIOUS
<1>6. v \notin S BY <1>2, <1>5 DEF UsedLines, SetLines
<1>7. PICK q : q = LatestFirst(S, LastUses) OBVIOUS
<1>8. PICK n : n = Cardinality(S) OBVIOUS
<1>9. PICK R \in Seq(Entries) : R = RecencyOf(s) BY <1>5, <1>7, <1>8, RecencyIs
<1>10. /\ n \in Nat /\ Lists(q, n, S, LastUses) /\ Len(R) = n
       /\ \A k \in 1 .. n : R[k] = LineAt(q[k], s) /\ q[k] \in S
  BY <1>5, <1>7, <1>8, <1>9, RecencyIs
<1>11. S \subseteq SetLines(s) /\ S \subseteq Indices /\ Timed(S, LastUses) BY <1>5, UsedTimed
<1>12. n # Ways
  <2>1. S \in SUBSET SetLines(s) /\ S # SetLines(s) BY <1>2, <1>6, <1>11
  <2>2. IsFiniteSet(SetLines(s)) /\ Cardinality(SetLines(s)) = Ways BY SetLinesIn
  <2> QED BY <1>8, <2>1, <2>2, FS_Subset
<1>13. PICK later : later = LastUses' OBVIOUS
<1>14. Advances(v, S, LastUses, later) BY <1>2, <1>3, <1>11, <1>13, UseAdvances
<1>15. /\ \A i \in Indices : i # v => lines'[i] = lines[i]
       /\ lines'[v].tag = TagOf(a) /\ lines'[v].dirty = store
  BY <1>2, <1>3, LineUsed
<1>16. S \cup {v} = UsedLines(s)'
  <2>1. \A i \in SetLines(s) : i \in Indices BY SetLinesIn
  <2>2. \A i \in SetLines(s) : i # v => lines'[i].tag = lines[i].tag BY <1>15, <2>1
  <2>3. lines'[v].tag # Invalid BY <1>2, <1>15, CacheAssumption
  <2>4. S = {i \in SetLines(s) : lines[i].tag # Invalid} BY <1>5 DEF UsedLines, SetLines
  <2>5. UsedLines(s)' = {i \in SetLines(s) : lines'[i].tag # Invalid} BY DEF UsedLines, SetLines
  <2> QED BY <1>2, <2>2, <2>3, <2>4, <2>5
<1>17. Lists(Headed(q, n, v), n + 1, S \cup {v}, later) BY <1>6, <1>10, <1>11, <1>14, AddedToFront
<1>18. Timed(S \cup {v}, later) BY <1>11, <1>14, TimedStill
<1>19. RecencyOf(s)' = [k \in 1 .. n + 1 |-> LineAt(Headed(q, n, v)[k], s)']
  <2>1. PICK S2 : S2 = S \cup {v} OBVIOUS
  <2>2. S2 = UsedLines(s)' /\ Timed(S2, later) /\ Lists(Headed(q, n, v), n + 1, S2, later)
    BY <1>16, <1>17, <1>18, <2>1
  <2>3. PICK h : h = Headed(q, n, v) OBVIOUS
  <2>4. PICK m : m = n + 1 OBVIOUS
  <2>5. RecencyOf(s)' = [k \in 1 .. m |-> LineAt(h[k], s)'] BY <1>13, <2>2, <2>3, <2>4, NextRecency
  <2> QED BY <2>3, <2>4, <2>5
<1>20. a \in Nat /\ TagOf(a) * SetCount + s = a BY <1>1, AddressIs, CacheAssumption
<1>21. PICK e \in Entries : e = [address |-> a, dirty |-> store] BY <1>20 DEF Entries
<1>22. LineAt(v, s)' = e BY <1>15, <1>20, <1>21 DEF LineAt
<1>23. \A i \in S : LineAt(i, s)' = LineAt(i, s) BY <1>6, <1>11, <1>15 DEF LineAt
<1>27. <<e>> \o R = [k \in 1 .. n + 1 |-> IF k = 1 THEN e ELSE R[k - 1]]
  <2>1. <<e>> \o R = [k \in 1 .. Len(R) + 1 |-> IF k = 1 THEN e ELSE R[k - 1]] BY ConsIs
  <2> QED BY <1>10, <2>1
<1>28. ASSUME NEW k \in 1 .. n + 1 PROVE LineAt(Headed(q, n, v)[k], s)' = IF k = 1 THEN e ELSE R[k - 1]
  <2>1. CASE k = 1 BY <1>22, <2>1 DEF Headed
  <2>2. CASE k # 1
    <3>1. k - 1 \in 1 .. n BY <1>10, <2>2
    <3>2. Headed(q, n, v)[k] = q[k - 1] BY <2>2 DEF Headed
    <3>3. q[k - 1] \in S /\ R[k - 1] = LineAt(q[k - 1], s) BY <1>10, <3>1
    <3>4. LineAt(q[k - 1], s)' = LineAt(q[k - 1], s) BY <1>23, <3>3
    <3> QED BY <2>2, <3>2, <3>3, <3>4
  <2> QED BY <2>1, <2>2
<1>29. RecencyOf(s)' = <<e>> \o R BY <1>19, <1>27, <1>28
<1>30. Recency' = [Recency EXCEPT ![s] = <<e>> \o R] /\ Recency[s] = R
  BY <1>2, <1>9, <1>29, OneSetChanged
<1>31. \A k \in DOMAIN R : R[k].address # a
  <2>1. DOMAIN R = 1 .. n BY <1>9, <1>10
  <2> QED BY <1>1, <1>5, <1>10, <2>1, MissedNowhere
<1>34. a % SetCount = s BY <1>1 DEF SetOf
<1>36. Recency[a % SetCount] = R BY <1>30, <1>34
<1>37. Len(R) # Ways BY <1>10, <1>12
<1>38. stores' = stores + 0 BY DEF CacheTypeOK
<1>39. Recency' = [Recency EXCEPT ![a % SetCount] = <<[address |-> a, dirty |-> store]>> \o R]
  BY <1>21, <1>30, <1>34
<1> QED BY <1>31, <1>36, <1>37, <1>38, <1>39 DEF Lru!Fetch

\* A miss in a full set drops the entry of its last line.
LEMMA MissDropsLast ==
  ASSUME CacheTypeOK, Ordered, NEW a \in Addresses, NEW store \in BOOLEAN, Hits(a) = {},
         Unused(a) = {}, NEW v \in Oldest(a), UsesLine(v, TagOf(a), store),
         loads' = loads + 1, stores' = stores + (IF lines[v].dirty THEN 1 ELSE 0)
  PROVE  Lru!Fetch(a, store)
<1>1. PICK s \in Sets : s = SetOf(a) BY AddressIs
<1>2. v \in SetLines(s) /\ TagOf(a) \in Nat BY <1>1, AddressIs DEF Oldest
<1>3. v \in Indices BY <1>2, SetLinesIn
<1>5. PICK S : S = UsedLines(s) OBVIOUS
<1>6. S = SetLines(s)
  <2>1. \A i \in SetLines(s) : lines[i].tag # Invalid BY <1>1, AddressIs DEF Unused
  <2> QED BY <1>5, <2>1 DEF UsedLines, SetLines
<1>7. PICK q : q = LatestFirst(S, LastUses) OBVIOUS
<1>8. PICK n : n = Cardinality(S) OBVIOUS
<1>9. PICK R \in Seq(Entries) : R = RecencyOf(s) BY <1>5, <1>7, <1>8, RecencyIs
<1>10. /\ n \in Nat /\ Lists(q, n, S, LastUses) /\ Len(R) = n
       /\ \A k \in 1 .. n : R[k] = LineAt(q[k], s) /\ q[k] \in S
  BY <1>5, <1>7, <1>8, <1>9, RecencyIs
<1>11. S \subseteq Indices /\ Timed(S, LastUses) BY <1>5, UsedTimed
<1>12. n = Ways /\ n > 0 /\ n \in 1 .. n BY <1>6, <1>8, <1>10, SetLinesIn, CacheAssumption
<1>13. PICK later : later = LastUses' OBVIOUS
<1>14. Advances(v, S, LastUses, later) BY <1>2, <1>3, <1>11, <1>13, UseAdvances
<1>15. /\ \A i \in Indices : i # v => lines'[i] = lines[i]
       /\ lines'[v].tag = TagOf(a) /\ lines'[v].dirty = store
  BY <1>2, <1>3, LineUsed
<1>16. S = UsedLines(s)'
  <2>1. \A i \in SetLines(s) : i \in Indices BY SetLinesIn
  <2>2. \A i \in SetLines(s) : lines[i].tag # Invalid BY <1>5, <1>6 DEF UsedLines
  <2>3. lines'[v].tag # Invalid BY <1>2, <1>15, CacheAssumption
  <2>4. \A i \in SetLines(s) : lines'[i].tag # Invalid BY <1>15, <2>1, <2>2, <2>3
  <2>5. UsedLines(s)' = {i \in SetLines(s) : lines'[i].tag # Invalid} BY DEF UsedLines, SetLines
  <2> QED BY <1>6, <2>4, <2>5
<1>17. q[n] = v
  <2>1. PICK p \in 1 .. n : q[p] = v BY <1>2, <1>6, <1>10 DEF Lists
  <2>2. SUFFICES ASSUME p # n PROVE FALSE BY <2>1
  <2>3. p < n BY <1>10, <2>2
  <2>4. LastUses[v] > LastUses[q[n]] BY <1>10, <1>12, <2>1, <2>3 DEF Lists
  <2>5. q[n] \in S /\ v \in S BY <1>2, <1>6, <1>10, <1>12
  <2>6. q[n] \in Indices BY <1>11, <2>5
  <2>7. LastUses[v] = lines[v].last_used /\ LastUses[q[n]] = lines[q[n]].last_used
        /\ lines[v].last_used \in Nat /\ lines[q[n]].last_used \in Nat
    BY <1>3, <2>6, LineTyped
  <2>8. lines[v].last_used <= lines[q[n]].last_used
    <3>1. q[n] \in WaysOf(a) BY <1>1, <1>6, <2>5, AddressIs
    <3> QED BY <3>1 DEF Oldest
  <2> QED BY <2>4, <2>7, <2>8
<1>18. Lists(Fronted(q, n, n), n, S, later) BY <1>10, <1>11, <1>12, <1>14, <1>17, MovedToFront
<1>19. Timed(S, later)
  <2>1. Timed(S \cup {v}, later) BY <1>11, <1>14, TimedStill
  <2>2. S \cup {v} = S BY <1>2, <1>6
  <2> QED BY <2>1, <2>2
<1>20. RecencyOf(s)' = [k \in 1 .. n |-> LineAt(Fronted(q, n, n)[k], s)']
  BY <1>13, <1>16, <1>18, <1>19, NextRecency
<1>21. a \in Nat /\ TagOf(a) * SetCount + s = a BY <1>1, AddressIs, CacheAssumption
<1>22. PICK e \in Entries : e = [address |-> a, dirty |-> store] BY <1>21 DEF Entries
<1>23. LineAt(v, s)' = e BY <1>15, <1>21, <1>22 DEF LineAt
<1>24. \A i \in S : i # v => LineAt(i, s)' = LineAt(i, s) BY <1>11, <1>15 DEF LineAt
<1>25. \A k \in 1 .. n : k # n => q[k] # v BY <1>10, <1>11, <1>12, <1>17, ListedAll
<1>26. PICK W : W = SubSeq(R, 1, Ways - 1) OBVIOUS
<1>27. W \in Seq(Entries) /\ Len(W) = n - 1 /\ \A k \in 1 .. n - 1 : W[k] = R[k]
  BY <1>9, <1>10, <1>12, <1>26
<1>28. <<e>> \o W = [k \in 1 .. n |-> IF k = 1 THEN e ELSE W[k - 1]]
  <2>1. <<e>> \o W = [k \in 1 .. Len(W) + 1 |-> IF k = 1 THEN e ELSE W[k - 1]] BY <1>27, ConsIs
  <2>2. Len(W) + 1 = n BY <1>10, <1>27
  <2> QED BY <2>1, <2>2
<1>29. ASSUME NEW k \in 1 .. n PROVE LineAt(Fronted(q, n, n)[k], s)' = IF k = 1 THEN e ELSE W[k - 1]
  <2>1. CASE k = 1 BY <1>17, <1>23, <2>1 DEF Fronted
  <2>2. CASE k # 1
    <3>1. k - 1 \in 1 .. n /\ k - 1 # n /\ k - 1 \in 1 .. n - 1 /\ k <= n BY <1>10, <2>2
    <3>2. Fronted(q, n, n)[k] = q[k - 1] BY <2>2, <3>1 DEF Fronted
    <3>3. W[k - 1] = R[k - 1] BY <1>27, <3>1
    <3>4. q[k - 1] # v /\ q[k - 1] \in S /\ R[k - 1] = LineAt(q[k - 1], s) BY <1>10, <1>25, <3>1
    <3>5. LineAt(q[k - 1], s)' = LineAt(q[k - 1], s) BY <1>24, <3>4
    <3> QED BY <2>2, <3>2, <3>3, <3>4, <3>5
  <2> QED BY <2>1, <2>2
<1>30. RecencyOf(s)' = <<e>> \o W BY <1>20, <1>28, <1>29
<1>31. Recency' = [Recency EXCEPT ![s] = <<e>> \o W] /\ Recency[s] = R
  BY <1>2, <1>9, <1>30, OneSetChanged
<1>32. \A k \in DOMAIN R : R[k].address # a
  <2>1. DOMAIN R = 1 .. n BY <1>9, <1>10
  <2> QED BY <1>1, <1>5, <1>10, <2>1, MissedNowhere
<1>33. a % SetCount = s BY <1>1 DEF SetOf
<1>34. Recency[a % SetCount] = R BY <1>31, <1>33
<1>35. Len(R) = Ways BY <1>10, <1>12
<1>36. R[Ways].dirty = lines[v].dirty
  <2>1. R[n] = LineAt(v, s) /\ v \in S BY <1>10, <1>12, <1>17
  <2>2. LineAt(v, s).dirty = lines[v].dirty BY <1>5, <2>1, LineAtIs
  <2> QED BY <1>12, <2>1, <2>2
<1>37. stores' = stores + (IF R[Ways].dirty THEN 1 ELSE 0) BY <1>36
<1>38. Recency' = [Recency EXCEPT ![a % SetCount] = <<[address |-> a, dirty |-> store]>> \o SubSeq(R, 1, Ways - 1)]
  BY <1>22, <1>26, <1>31, <1>33
<1> QED BY <1>32, <1>34, <1>35, <1>37, <1>38 DEF Lru!Fetch

\* The lines written back are those of the entries that were stored to.
LEMMA StoredAreDirty ==
  ASSUME CacheTypeOK, Ordered
  PROVE  Cardinality(Lru!Stored) = Cardinality(Dirty)
<1> DEFINE order(s) == LatestFirst(UsedLines(s), LastUses)
           size(s) == Cardinality(UsedLines(s))
           D == Dirty
           St == Lru!Stored
<1>1. ASSUME NEW s \in Sets
      PROVE  /\ size(s) \in Nat /\ DOMAIN RecencyOf(s) = 1 .. size(s)
             /\ \A k \in 1 .. size(s) : /\ order(s)[k] \in UsedLines(s)
                                        /\ RecencyOf(s)[k].dirty = lines[order(s)[k]].dirty
             /\ \A i \in UsedLines(s) : \E k \in 1 .. size(s) : order(s)[k] = i
             /\ \A k, l \in 1 .. size(s) : order(s)[k] = order(s)[l] => k = l
  <2>1. PICK q : q = order(s) OBVIOUS
  <2>2. PICK n : n = size(s) OBVIOUS
  <2>3. /\ n \in Nat /\ Lists(q, n, UsedLines(s), LastUses)
        /\ RecencyOf(s) = [k \in 1 .. n |-> LineAt(q[k], s)]
        /\ \A k \in 1 .. n : RecencyOf(s)[k] = LineAt(q[k], s) /\ q[k] \in UsedLines(s)
    BY <2>1, <2>2, RecencyIs
  <2>4. DOMAIN RecencyOf(s) = 1 .. n BY <2>3
  <2>5. \A k \in 1 .. n : RecencyOf(s)[k].dirty = lines[q[k]].dirty BY <2>3, LineAtIs
  <2>6. Timed(UsedLines(s), LastUses) BY UsedTimed
  <2>7. \A k, l \in 1 .. n : q[k] = q[l] => k = l BY <2>3, <2>6, ListedAll
  <2>8. \A i \in UsedLines(s) : \E k \in 1 .. n : q[k] = i BY <2>3 DEF Lists
  <2> QED BY <2>1, <2>2, <2>3, <2>4, <2>5, <2>7, <2>8
<1>2. \A x : x \in St <=> \E s \in Sets : \E k \in 1 .. size(s) : x = <<s, k>> /\ RecencyOf(s)[k].dirty
  <2>1. DOMAIN Recency = Sets /\ \A s \in Sets : Recency[s] = RecencyOf(s) BY DEF Recency, Sets
  <2>2. St = UNION {{s} \X {i \in DOMAIN Recency[s] : Recency[s][i].dirty} : s \in DOMAIN Recency}
    BY DEF Lru!Stored
  <2>3. \A s \in Sets : {i \in DOMAIN Recency[s] : Recency[s][i].dirty}
                          = {k \in 1 .. size(s) : RecencyOf(s)[k].dirty}
    BY <1>1, <2>1
  <2>4. St = UNION {{s} \X {k \in 1 .. size(s) : RecencyOf(s)[k].dirty} : s \in Sets} BY <2>1, <2>2, <2>3
  <2> HIDE DEF St, size
  <2> QED BY <2>4
<1>3. \A s \in Sets : UsedLines(s) = {i \in SetLines(s) : lines[i].tag # Invalid} BY DEF UsedLines, SetLines
<1>4. D = {i \in Indices : lines[i].tag # Invalid /\ lines[i].dirty} BY DEF Dirty
<1> HIDE DEF order, size, St, D
<1> DEFINE f == [x \in St |-> order(x[1])[x[2]]]
<1>5. ASSUME NEW s \in Sets, NEW k \in 1 .. size(s), RecencyOf(s)[k].dirty
      PROVE  <<s, k>> \in St /\ f[<<s, k>>] = order(s)[k] /\ order(s)[k] \in D
  <2>1. <<s, k>> \in St BY <1>2, <1>5
  <2>2. f[<<s, k>>] = order(s)[k] BY <2>1
  <2>3. order(s)[k] \in UsedLines(s) /\ lines[order(s)[k]].dirty BY <1>1, <1>5
  <2>4. order(s)[k] \in Indices BY <1>3, <2>3, SetLinesIn
  <2> QED BY <1>3, <1>4, <2>1, <2>2, <2>3, <2>4
<1>6. f \in [St -> D]
  <2>1. \A x \in St : f[x] \in D
    <3> SUFFICES ASSUME NEW x \in St PROVE f[x] \in D OBVIOUS
    <3>1. PICK s \in Sets : \E k \in 1 .. size(s) : x = <<s, k>> /\ RecencyOf(s)[k].dirty BY <1>2
    <3>2. PICK k \in 1 .. size(s) : x = <<s, k>> /\ RecencyOf(s)[k].dirty BY <3>1
    <3> HIDE DEF f
    <3> QED BY <1>5, <3>2
  <2>2. f = [x \in St |-> f[x]] OBVIOUS
  <2> HIDE DEF f
  <2> QED BY <2>1, <2>2
<1> HIDE DEF f
<1>7. \A x, y \in St : f[x] = f[y] => x = y
  <2> SUFFICES ASSUME NEW x \in St, NEW y \in St, f[x] = f[y] PROVE x = y OBVIOUS
  <2>1. PICK s \in Sets : \E k \in 1 .. size(s) : x = <<s, k>> /\ RecencyOf(s)[k].dirty BY <1>2
  <2>2. PICK k \in 1 .. size(s) : x = <<s, k>> /\ RecencyOf(s)[k].dirty BY <2>1
  <2>3. PICK t \in Sets : \E l \in 1 .. size(t) : y = <<t, l>> /\ RecencyOf(t)[l].dirty BY <1>2
  <2>4. PICK l \in 1 .. size(t) : y = <<t, l>> /\ RecencyOf(t)[l].dirty BY <2>3
  <2>5. order(s)[k] = order(t)[l] BY <1>5, <2>2, <2>4
  <2>6. order(s)[k] \in SetLines(s) /\ order(t)[l] \in SetLines(t) BY <1>1, <1>3
  <2>7. s = t BY <2>5, <2>6, SetsApart
  <2>8. k = l BY <1>1, <2>5, <2>7
  <2> QED BY <2>2, <2>4, <2>7, <2>8
<1>8. ASSUME NEW i \in D PROVE \E x \in St : f[x] = i
  <2>1. i \in Indices /\ lines[i].tag # Invalid /\ lines[i].dirty BY <1>4
  <2>2. PICK s \in Sets : i \in SetLines(s) BY <2>1, LinesInSets
  <2>3. i \in UsedLines(s) BY <1>3, <2>1, <2>2
  <2>4. PICK k \in 1 .. size(s) : order(s)[k] = i BY <1>1, <2>3
  <2>5. RecencyOf(s)[k].dirty BY <1>1, <2>1, <2>4
  <2> QED BY <1>5, <2>4, <2>5
<1>9. f \in Injection(St, D) /\ f \in Surjection(St, D) BY <1>6, <1>7, <1>8, Zenon DEF Injection, Surjection, IsInjective
<1>10. IsFiniteSet(D)
  <2>1. SetCount * Ways \in Nat BY CacheAssumption
  <2>2. IsFiniteSet(Indices) BY <2>1, FS_Interval DEF Indices
  <2>3. D \in SUBSET Indices BY <1>4
  <2> QED BY <2>2, <2>3, FS_Subset
<1>11. Cardinality(St) = Cardinality(D) BY <1>9, <1>10, FS_Injection
<1> QED BY <1>11 DEF St, D

\* Emptying the cache is a write-back of everything.
LEMMA FlushWritesBack ==
  ASSUME CacheTypeOK, Ordered, FlushCache
  PROVE  Lru!WriteBack /\ Ordered'
<1>1. \A i \in Indices : lines'[i] = NoLine BY DEF FlushCache
<1>2. \A i \in Indices : lines'[i].tag = Invalid /\ lines'[i].last_used = 0 BY <1>1 DEF NoLine
<1>3. ASSUME NEW s \in Sets PROVE RecencyOf(s)' = <<>>
  <2>1. \A i \in SetLines(s) : i \in Indices BY SetLinesIn
  <2>2. {} = UsedLines(s)' BY <1>2, <2>1 DEF UsedLines, SetLines
  <2>3. PICK later : later = LastUses' OBVIOUS
  <2>4. PICK q : q = <<>> OBVIOUS
  <2>5. PICK S : S = {} OBVIOUS
  <2>6. PICK n \in Nat : n = 0 OBVIOUS
  <2>7. 1 .. n = {} BY <2>6
  <2>8. q = [k \in 1 .. n |-> q[k]] BY <2>4, <2>7
  <2>9. Lists(q, n, S, later) /\ Timed(S, later) BY <2>5, <2>7, <2>8 DEF Lists, Timed
  <2>10. S = UsedLines(s)' BY <2>2, <2>5
  <2>11. RecencyOf(s)' = [k \in 1 .. n |-> LineAt(q[k], s)'] BY <2>3, <2>9, <2>10, NextRecency
  <2> QED BY <2>7, <2>11
<1>4. Recency' = [s \in Sets |-> RecencyOf(s)'] /\ DOMAIN Recency = Sets BY DEF Recency, Sets
<1>5. Recency' = [s \in DOMAIN Recency |-> <<>>] BY <1>3, <1>4
<1>6. stores' = stores + Lru!Cardinality(Lru!Stored)
  <2>1. stores' = stores + Cardinality(Lru!Stored) BY StoredAreDirty DEF FlushCache
  <2>2. PICK S : S = Lru!Stored OBVIOUS
  <2>3. Lru!Cardinality(S) = Cardinality(S) BY DEF Lru!Cardinality, Cardinality
  <2> QED BY <2>1, <2>2, <2>3
<1>7. loads' = loads /\ clock' = clock BY DEF FlushCache
<1>8. clock \in Nat BY DEF CacheTypeOK
<1>9. Ordered' BY <1>2, <1>7, <1>8 DEF Ordered
<1> QED BY <1>5, <1>6, <1>7, <1>9 DEF Lru!WriteBack

\* An access is a reuse or a fetch of the abstract cache, and the latest use there is.
LEMMA AccessImplements ==
  ASSUME CacheInvariant, Ordered, NEW a \in Addresses, NEW store \in BOOLEAN, AccessLine(a, store)
  PROVE  (Lru!Reuse(a, store) \/ Lru!Fetch(a, store)) /\ Ordered'
<1>1. CacheTypeOK /\ RecentHitsAreCurrent BY DEF CacheInvariant
<1>2. clock' = clock + 1 BY DEF AccessLine
<1>3. TagOf(a) \in Nat /\ WaysOf(a) \subseteq Indices BY AddressIs, SetLinesIn
<1>4. a \in Nat BY CacheAssumption
<1>5. ASSUME NEW i \in Hits(a), lines' = Used(i, store), UNCHANGED <<loads, stores>>
      PROVE  Lru!Reuse(a, store) /\ Ordered'
  <2>1. i \in Indices /\ lines[i].tag = TagOf(a) BY <1>3 DEF Hits
  <2>2. lines[i].dirty \in BOOLEAN BY <1>1, <2>1, LineTyped
  <2>3. PICK d \in BOOLEAN : d = (lines[i].dirty \/ store) BY <2>2
  <2>4. lines' = [lines EXCEPT ![i] = [tag |-> TagOf(a), last_used |-> clock + 1, dirty |-> d]]
    BY <1>5, <2>1, <2>3 DEF Used
  <2>5. UsesLine(i, TagOf(a), d) BY <1>2, <2>4 DEF UsesLine, LineNow
  <2>6. Lru!Reuse(a, store) BY <1>1, <1>5, <2>3, <2>5, HitMovesToFront
  <2> QED BY <1>1, <1>3, <2>1, <2>5, <2>6, LineUsed
<1>6. CASE RecentHit(a, store)
  <2>1. PICK m \in Recents(a) : lines' = Used(mru[m].index, store) BY <1>6 DEF RecentHit
  <2>2. m \in Slots /\ mru[m].address = a BY DEF Recents
  <2>3. a # Invalid BY <1>4, CacheAssumption
  <2>4. mru[m].index \in Hits(a) BY <1>1, <2>2, <2>3 DEF RecentHitsAreCurrent
  <2>5. UNCHANGED <<loads, stores>> BY <1>6 DEF RecentHit
  <2> QED BY <1>5, <2>1, <2>4, <2>5
<1>7. CASE SetHit(a, store)
  <2>1. PICK i \in Hits(a) : lines' = Used(i, store) BY <1>7 DEF SetHit
  <2>2. UNCHANGED <<loads, stores>> BY <1>7 DEF SetHit
  <2> QED BY <1>5, <2>1, <2>2
<1>8. CASE Miss(a, store)
  <2>1. PICK v \in Victims(a) :
          /\ lines' = [lines EXCEPT ![v] = [tag |-> TagOf(a), last_used |-> clock + 1, dirty |-> store]]
          /\ stores' = stores + (IF lines[v].tag # Invalid /\ lines[v].dirty THEN 1 ELSE 0)
    BY <1>8 DEF Miss
  <2>2. Hits(a) = {} /\ loads' = loads + 1 BY <1>8 DEF Miss
  <2>3. UsesLine(v, TagOf(a), store) BY <1>2, <2>1 DEF UsesLine, LineNow
  <2>4. v \in WaysOf(a) BY DEF Victims, Unused, Oldest
  <2>5. Ordered' BY <1>1, <1>3, <2>3, <2>4, LineUsed
  <2>6. CASE Unused(a) # {}
    <3>1. v \in Unused(a) /\ lines[v].tag = Invalid BY <2>6 DEF Victims, Unused
    <3>2. stores' = stores BY <1>1, <2>1, <3>1 DEF CacheTypeOK
    <3> QED BY <1>1, <2>2, <2>3, <2>5, <3>1, <3>2, MissTakesFree
  <2>7. CASE Unused(a) = {}
    <3>1. v \in Oldest(a) BY <2>7 DEF Victims
    <3>2. lines[v].tag # Invalid BY <2>4, <2>7 DEF Unused
    <3>3. stores' = stores + (IF lines[v].dirty THEN 1 ELSE 0) BY <2>1, <3>2
    <3> QED BY <1>1, <2>2, <2>3, <2>5, <2>7, <3>1, <3>3, MissDropsLast
  <2> QED BY <2>6, <2>7
<1> QED BY <1>6, <1>7, <1>8 DEF AccessLine

\* Every step of the cache is a step of the abstract one, or none it shows.
LEMMA CacheStepImplements ==
  CacheInvariant /\ Ordered /\ [CacheNext]_cacheVars => [Lru!Next]_(Lru!vars) /\ Ordered'
<1> SUFFICES ASSUME CacheInvariant, Ordered, [CacheNext]_cacheVars
             PROVE  (Lru!Next \/ UNCHANGED Lru!vars) /\ Ordered'
  OBVIOUS
<1>1. ASSUME NEW a \in Addresses, NEW store \in BOOLEAN, AccessLine(a, store)
      PROVE  Lru!Next /\ Ordered'
  BY <1>1, AccessImplements DEF Lru!Next
<1>2. CASE FlushCache
  BY <1>2, FlushWritesBack DEF Lru!Next, CacheInvariant
<1>3. CASE UNCHANGED cacheVars
  <2>1. lines' = lines /\ clock' = clock /\ loads' = loads /\ stores' = stores BY <1>3 DEF cacheVars
  <2>2. Ordered' BY <2>1 DEF Ordered
  <2>3. \A s \in Sets : RecencyOf(s)' = RecencyOf(s)
    BY <2>1 DEF RecencyOf, LatestFirst, UsedLines, LastUses, LineAt, Indices
  <2>4. Recency' = Recency BY <2>3 DEF Recency, Sets
  <2> QED BY <2>1, <2>2, <2>4 DEF Lru!vars
<1> QED BY <1>1, <1>2, <1>3 DEF CacheNext

\* An empty cache is an empty abstract cache.
LEMMA CacheInitImplements == CacheInit => Lru!Init /\ Ordered
<1> SUFFICES ASSUME CacheInit PROVE Lru!Init /\ Ordered OBVIOUS
<1>1. \A i \in Indices : lines[i].tag = Invalid /\ lines[i].last_used = 0 BY DEF CacheInit, NoLine
<1>2. clock = 0 /\ loads = 0 /\ stores = 0 BY DEF CacheInit
<1>3. Ordered BY <1>1, <1>2 DEF Ordered
<1>4. CacheTypeOK BY CacheInitially DEF CacheInvariant
<1>5. ASSUME NEW s \in Sets PROVE RecencyOf(s) = <<>>
  <2>1. UsedLines(s) = {}
    <3>1. \A i \in SetLines(s) : i \in Indices BY SetLinesIn
    <3> QED BY <1>1, <3>1 DEF UsedLines, SetLines
  <2>2. Cardinality(UsedLines(s)) = 0 BY <2>1, FS_EmptySet
  <2>3. PICK R : R = RecencyOf(s) OBVIOUS
  <2>4. R \in Seq(Entries) /\ Len(R) = 0 BY <1>3, <1>4, <2>2, <2>3, RecencyIs
  <2> QED BY <2>3, <2>4
<1>6. Recency = [s \in 0 .. SetCount - 1 |-> <<>>] BY <1>5 DEF Recency, Sets
<1> QED BY <1>2, <1>3, <1>6 DEF Lru!Init

\* The cache that skips the search after a recent hit, evicts by last_used and counts its traffic as it
\* goes is the least-recently-used cache: it fetches and writes back the same lines at the same
\* accesses, for every number of sets and ways, every number of remembered hits and all addresses.
THEOREM CacheImplementsLru == CacheSpec => ImplementsLru
<1> QED
  BY CacheInitially, CacheInductive, CacheInitImplements, CacheStepImplements, PTL
     DEF CacheSpec, ImplementsLru, Lru!Spec

----------------------------------------------------------------------------
(* DynamicCfg: calls and returns of a sequence of blocks *)

\* The positions of s from i to j that leave by flow.
Leaving(s, i, j, flow) == {k \in i .. j : FlowOf[s[k]] = flow}

\* They are finitely many, and Occurrences counts them.
LEMMA LeavingIs ==
  ASSUME NEW s, NEW i \in Int, NEW j \in Int, NEW flow
  PROVE  /\ IsFiniteSet(Leaving(s, i, j, flow)) /\ Occurrences(s, i, j, flow) = Cardinality(Leaving(s, i, j, flow))
         /\ Occurrences(s, i, j, flow) \in Nat
<1>1. IsFiniteSet(i .. j) BY FS_Interval
<1>2. Leaving(s, i, j, flow) \in SUBSET (i .. j) BY DEF Leaving
<1>3. IsFiniteSet(Leaving(s, i, j, flow)) BY <1>1, <1>2, FS_Subset
<1>4. Occurrences(s, i, j, flow) = Cardinality(Leaving(s, i, j, flow)) BY DEF Occurrences, Leaving
<1>5. Cardinality(Leaving(s, i, j, flow)) \in Nat BY <1>3, FS_CardinalityType
<1> QED BY <1>3, <1>4, <1>5

\* One position more.
LEMMA OccurrencesNext ==
  ASSUME NEW s, NEW i \in Int, NEW j \in Int, i <= j + 1, NEW flow
  PROVE  Occurrences(s, i, j + 1, flow)
           = Occurrences(s, i, j, flow) + IF FlowOf[s[j + 1]] = flow THEN 1 ELSE 0
<1>1. PICK m \in Int : m = j + 1 OBVIOUS
<1>2. PICK A : A = Leaving(s, i, j, flow) OBVIOUS
<1>3. IsFiniteSet(A) /\ Occurrences(s, i, j, flow) = Cardinality(A) /\ Cardinality(A) \in Nat
  BY <1>2, LeavingIs
<1>4. Occurrences(s, i, m, flow) = Cardinality(Leaving(s, i, m, flow)) BY <1>1, LeavingIs
<1>5. i .. m = (i .. j) \cup {m} /\ m \notin i .. j BY <1>1
<1>6. m \notin A BY <1>2, <1>5 DEF Leaving
<1>7. CASE FlowOf[s[m]] = flow
  <2>1. Leaving(s, i, m, flow) = A \cup {m} BY <1>2, <1>5, <1>7 DEF Leaving
  <2>2. Cardinality(A \cup {m}) = Cardinality(A) + 1 BY <1>3, <1>6, FS_AddElement
  <2> QED BY <1>1, <1>3, <1>4, <1>7, <2>1, <2>2
<1>8. CASE FlowOf[s[m]] # flow
  <2>1. Leaving(s, i, m, flow) = A BY <1>2, <1>5, <1>8 DEF Leaving
  <2> QED BY <1>1, <1>3, <1>4, <1>8, <2>1
<1> QED BY <1>7, <1>8

\* There are none in no positions.
LEMMA OccurrencesNone ==
  ASSUME NEW s, NEW j \in Int, NEW flow
  PROVE  Occurrences(s, j + 1, j, flow) = 0
<1>1. Leaving(s, j + 1, j, flow) = {} BY DEF Leaving
<1>2. Occurrences(s, j + 1, j, flow) = Cardinality(Leaving(s, j + 1, j, flow)) BY LeavingIs
<1> QED BY <1>1, <1>2, FS_EmptySet

\* They depend on those positions only.
LEMMA OccurrencesSame ==
  ASSUME NEW s, NEW u, NEW i \in Int, NEW j \in Int, NEW flow, \A k \in i .. j : s[k] = u[k]
  PROVE  Occurrences(s, i, j, flow) = Occurrences(u, i, j, flow)
<1>1. Leaving(s, i, j, flow) = Leaving(u, i, j, flow) BY DEF Leaving
<1> QED BY <1>1, LeavingIs

\* How many more calls than returns there are from position i + 1 to m.
Net(s, i, m) == Occurrences(s, i + 1, m, "Call") - Occurrences(s, i + 1, m, "Return")

\* What the next position does to it.
Change(h) == IF FlowOf[h] = "Call" THEN 1 ELSE IF FlowOf[h] = "Return" THEN 0 - 1 ELSE 0

\* Net from one position to the next,
LEMMA NetNext ==
  ASSUME NEW s, NEW m \in Nat, NEW i \in 0 .. m
  PROVE  Net(s, i, m) \in Int /\ Net(s, i, m + 1) = Net(s, i, m) + Change(s[m + 1])
<1>1. i + 1 \in Int /\ i + 1 <= m + 1 OBVIOUS
<1>2. PICK c \in Nat : c = Occurrences(s, i + 1, m, "Call") BY <1>1, LeavingIs
<1>3. PICK r \in Nat : r = Occurrences(s, i + 1, m, "Return") BY <1>1, LeavingIs
<1>4. Occurrences(s, i + 1, m + 1, "Call") = c + IF FlowOf[s[m + 1]] = "Call" THEN 1 ELSE 0
  BY <1>1, <1>2, OccurrencesNext
<1>5. Occurrences(s, i + 1, m + 1, "Return") = r + IF FlowOf[s[m + 1]] = "Return" THEN 1 ELSE 0
  BY <1>1, <1>3, OccurrencesNext
<1>6. Net(s, i, m) = c - r BY <1>2, <1>3 DEF Net
<1>7. "Call" # "Return" OBVIOUS
<1>8. CASE FlowOf[s[m + 1]] = "Call" BY <1>4, <1>5, <1>6, <1>7, <1>8 DEF Net, Change
<1>9. CASE FlowOf[s[m + 1]] = "Return" BY <1>4, <1>5, <1>6, <1>7, <1>9 DEF Net, Change
<1>10. CASE FlowOf[s[m + 1]] # "Call" /\ FlowOf[s[m + 1]] # "Return"
  BY <1>4, <1>5, <1>6, <1>10 DEF Net, Change
<1> QED BY <1>8, <1>9, <1>10

\* at its start,
LEMMA NetStart == ASSUME NEW s, NEW m \in Nat PROVE Net(s, m, m) = 0
BY OccurrencesNone DEF Net

\* and in another sequence with the same positions.
LEMMA NetSame ==
  ASSUME NEW s, NEW u, NEW m \in Nat, NEW i \in 0 .. m, \A k \in 1 .. m : s[k] = u[k]
  PROVE  Net(s, i, m) = Net(u, i, m)
<1>1. \A k \in i + 1 .. m : s[k] = u[k] OBVIOUS
<1>2. i + 1 \in Int OBVIOUS
<1> QED BY <1>1, <1>2, OccurrencesSame DEF Net

\* p lists the calls among the first m positions of s that have not returned,
\* the outermost first.  A call that has returned has been followed by more
\* returns than calls, of those that came after the k calls listed before it.
Stacked(s, m, p, n) ==
  /\ n \in Nat
  /\ \A k \in 1 .. n : p[k] \in 1 .. m /\ FlowOf[s[p[k]]] = "Call" /\ Net(s, p[k], m) = n - k
  /\ \A k, l \in 1 .. n : k < l => p[k] < p[l]
  /\ \A i \in 1 .. m : FlowOf[s[i]] = "Call" /\ (\A k \in 1 .. n : p[k] # i) =>
       \A k \in 0 .. n : (k = 0 \/ p[k] < i) => Net(s, i, m) <= n - k - 1

\* It is about the first m positions only.
LEMMA StackedSame ==
  ASSUME NEW s, NEW u, NEW m \in Nat, \A k \in 1 .. m : s[k] = u[k], NEW p, NEW n, Stacked(s, m, p, n)
  PROVE  Stacked(u, m, p, n)
<1>1. \A i \in 1 .. m : Net(s, i, m) = Net(u, i, m) BY NetSame
<1> QED BY <1>1 DEF Stacked

\* A block that falls through.
LEMMA StackedNormal ==
  ASSUME NEW s, NEW m \in Nat, NEW p, NEW n, Stacked(s, m, p, n), FlowOf[s[m + 1]] = "Normal"
  PROVE  Stacked(s, m + 1, p, n)
<1>1. ASSUME NEW i \in 1 .. m PROVE Net(s, i, m) \in Int /\ Net(s, i, m + 1) = Net(s, i, m)
  <2>1. Change(s[m + 1]) = 0 BY DEF Change
  <2>2. i \in 0 .. m OBVIOUS
  <2>3. Net(s, i, m) \in Int /\ Net(s, i, m + 1) = Net(s, i, m) + Change(s[m + 1]) BY <2>2, NetNext
  <2> QED BY <2>1, <2>3
<1>2. FlowOf[s[m + 1]] # "Call" OBVIOUS
<1>3. n \in Nat BY DEF Stacked
<1>4. \A k \in 1 .. n : p[k] \in 1 .. m + 1 /\ FlowOf[s[p[k]]] = "Call" /\ Net(s, p[k], m + 1) = n - k
  BY <1>1 DEF Stacked
<1>5. \A k, l \in 1 .. n : k < l => p[k] < p[l] BY DEF Stacked
<1>6. ASSUME NEW i \in 1 .. m + 1, FlowOf[s[i]] = "Call", \A k \in 1 .. n : p[k] # i,
             NEW k \in 0 .. n, k = 0 \/ p[k] < i
      PROVE  Net(s, i, m + 1) <= n - k - 1
  <2>1. i \in 1 .. m BY <1>2, <1>6
  <2>2. Net(s, i, m) <= n - k - 1 BY <1>6, <2>1 DEF Stacked
  <2> QED BY <1>1, <2>1, <2>2
<1> QED BY <1>3, <1>4, <1>5, <1>6 DEF Stacked

\* A block that calls.
LEMMA StackedCall ==
  ASSUME NEW s, NEW m \in Nat, NEW p, NEW n, Stacked(s, m, p, n), FlowOf[s[m + 1]] = "Call"
  PROVE  Stacked(s, m + 1, [k \in 1 .. n + 1 |-> IF k <= n THEN p[k] ELSE m + 1], n + 1)
<1> DEFINE r == [k \in 1 .. n + 1 |-> IF k <= n THEN p[k] ELSE m + 1]
<1>1. ASSUME NEW i \in 1 .. m PROVE Net(s, i, m) \in Int /\ Net(s, i, m + 1) = Net(s, i, m) + 1
  <2>1. Change(s[m + 1]) = 1 BY DEF Change
  <2>2. i \in 0 .. m OBVIOUS
  <2>3. Net(s, i, m) \in Int /\ Net(s, i, m + 1) = Net(s, i, m) + Change(s[m + 1]) BY <2>2, NetNext
  <2> QED BY <2>1, <2>3
<1>2. Net(s, m + 1, m + 1) = 0 BY NetStart
<1>3. n \in Nat /\ n + 1 \in Nat BY DEF Stacked
<1>4. /\ \A k \in 1 .. n : p[k] \in 1 .. m /\ FlowOf[s[p[k]]] = "Call" /\ Net(s, p[k], m) = n - k
      /\ \A k, l \in 1 .. n : k < l => p[k] < p[l]
  BY DEF Stacked
<1>5. \A k \in 1 .. n : r[k] = p[k] BY <1>3
<1>6. r[n + 1] = m + 1 BY <1>3
<1> HIDE DEF r
<1>7. ASSUME NEW k \in 1 .. n + 1
      PROVE  r[k] \in 1 .. m + 1 /\ FlowOf[s[r[k]]] = "Call" /\ Net(s, r[k], m + 1) = (n + 1) - k
  <2>1. CASE k = n + 1 BY <1>2, <1>3, <1>6, <2>1
  <2>2. CASE k # n + 1
    <3>1. k \in 1 .. n BY <1>3, <2>2
    <3>2. p[k] \in 1 .. m /\ FlowOf[s[p[k]]] = "Call" /\ Net(s, p[k], m) = n - k BY <1>4, <3>1
    <3>3. Net(s, p[k], m + 1) = (n - k) + 1 BY <1>1, <3>2
    <3> QED BY <1>3, <1>5, <3>1, <3>2, <3>3
  <2> QED BY <2>1, <2>2
<1>8. ASSUME NEW k \in 1 .. n + 1, NEW l \in 1 .. n + 1, k < l PROVE r[k] < r[l]
  <2>1. k \in 1 .. n /\ p[k] \in 1 .. m BY <1>3, <1>4, <1>8
  <2>2. CASE l = n + 1 BY <1>5, <1>6, <2>1, <2>2
  <2>3. CASE l # n + 1
    <3>1. l \in 1 .. n BY <1>3, <2>3
    <3> QED BY <1>4, <1>5, <1>8, <2>1, <3>1
  <2> QED BY <2>2, <2>3
<1>9. ASSUME NEW i \in 1 .. m + 1, FlowOf[s[i]] = "Call", \A k \in 1 .. n + 1 : r[k] # i,
             NEW k \in 0 .. n + 1, k = 0 \/ r[k] < i
      PROVE  Net(s, i, m + 1) <= (n + 1) - k - 1
  <2>1. i # m + 1
    <3>1. n + 1 \in 1 .. n + 1 BY <1>3
    <3> QED BY <1>6, <1>9, <3>1
  <2>2. i \in 1 .. m BY <2>1
  <2>3. \A l \in 1 .. n : p[l] # i
    <3>1. \A l \in 1 .. n : l \in 1 .. n + 1 BY <1>3
    <3> QED BY <1>5, <1>9, <3>1
  <2>4. k \in 0 .. n
    <3>1. k # n + 1 BY <1>3, <1>6, <1>9, <2>2
    <3> QED BY <1>3, <3>1
  <2>5. k = 0 \/ p[k] < i BY <1>3, <1>5, <1>9, <2>4
  <2>6. Net(s, i, m) <= n - k - 1 BY <1>9, <2>2, <2>3, <2>4, <2>5 DEF Stacked
  <2> QED BY <1>1, <1>3, <2>2, <2>4, <2>6
<1>10. Stacked(s, m + 1, r, n + 1) BY <1>3, <1>7, <1>8, <1>9 DEF Stacked
<1> QED BY <1>10 DEF r

\* A block that returns from a call.
LEMMA StackedReturn ==
  ASSUME NEW s, NEW m \in Nat, NEW p, NEW n, Stacked(s, m, p, n), n # 0, FlowOf[s[m + 1]] = "Return"
  PROVE  Stacked(s, m + 1, p, n - 1)
<1>1. ASSUME NEW i \in 1 .. m PROVE Net(s, i, m) \in Int /\ Net(s, i, m + 1) = Net(s, i, m) - 1
  <2>1. Change(s[m + 1]) = 0 - 1 BY DEF Change
  <2>2. i \in 0 .. m OBVIOUS
  <2>3. Net(s, i, m) \in Int /\ Net(s, i, m + 1) = Net(s, i, m) + Change(s[m + 1]) BY <2>2, NetNext
  <2> QED BY <2>1, <2>3
<1>2. FlowOf[s[m + 1]] # "Call" OBVIOUS
<1>3. n \in Nat /\ n - 1 \in Nat /\ n \in 1 .. n BY DEF Stacked
<1>4. /\ \A k \in 1 .. n : p[k] \in 1 .. m /\ FlowOf[s[p[k]]] = "Call" /\ Net(s, p[k], m) = n - k
      /\ \A k, l \in 1 .. n : k < l => p[k] < p[l]
  BY DEF Stacked
<1>5. ASSUME NEW k \in 1 .. n - 1
      PROVE  p[k] \in 1 .. m + 1 /\ FlowOf[s[p[k]]] = "Call" /\ Net(s, p[k], m + 1) = (n - 1) - k
  <2>1. k \in 1 .. n BY <1>3
  <2>2. p[k] \in 1 .. m /\ FlowOf[s[p[k]]] = "Call" /\ Net(s, p[k], m) = n - k BY <1>4, <2>1
  <2>3. Net(s, p[k], m + 1) = (n - k) - 1 BY <1>1, <2>2
  <2> QED BY <1>3, <2>2, <2>3
<1>6. \A k, l \in 1 .. n - 1 : k < l => p[k] < p[l]
  <2>1. \A k \in 1 .. n - 1 : k \in 1 .. n BY <1>3
  <2> QED BY <1>4, <2>1
<1>7. ASSUME NEW i \in 1 .. m + 1, FlowOf[s[i]] = "Call", \A k \in 1 .. n - 1 : p[k] # i,
             NEW k \in 0 .. n - 1, k = 0 \/ p[k] < i
      PROVE  Net(s, i, m + 1) <= (n - 1) - k - 1
  <2>1. i \in 1 .. m BY <1>2, <1>7
  <2>2. CASE p[n] = i
    <3>1. Net(s, i, m) = n - n BY <1>3, <1>4, <2>2
    <3>2. Net(s, i, m + 1) = 0 - 1 BY <1>1, <1>3, <2>1, <3>1
    <3> QED BY <1>3, <3>2
  <2>3. CASE p[n] # i
    <3>1. \A l \in 1 .. n : p[l] # i
      <4>1. \A l \in 1 .. n : l \in 1 .. n - 1 \/ l = n BY <1>3
      <4> QED BY <1>7, <2>3, <4>1
    <3>2. k \in 0 .. n BY <1>3
    <3>3. Net(s, i, m) <= n - k - 1 BY <1>7, <2>1, <3>1, <3>2 DEF Stacked
    <3> QED BY <1>1, <1>3, <2>1, <3>3
  <2> QED BY <2>2, <2>3
<1> QED BY <1>3, <1>5, <1>6, <1>7 DEF Stacked

\* A return from a call that was not observed.
LEMMA StackedUnderflow ==
  ASSUME NEW s, NEW m \in Nat, NEW p, Stacked(s, m, p, 0), FlowOf[s[m + 1]] = "Return"
  PROVE  Stacked(s, m + 1, p, 0)
<1>1. ASSUME NEW i \in 1 .. m PROVE Net(s, i, m) \in Int /\ Net(s, i, m + 1) = Net(s, i, m) - 1
  <2>1. Change(s[m + 1]) = 0 - 1 BY DEF Change
  <2>2. i \in 0 .. m OBVIOUS
  <2>3. Net(s, i, m) \in Int /\ Net(s, i, m + 1) = Net(s, i, m) + Change(s[m + 1]) BY <2>2, NetNext
  <2> QED BY <2>1, <2>3
<1>2. FlowOf[s[m + 1]] # "Call" OBVIOUS
<1>3. 1 .. 0 = {} /\ 0 .. 0 = {0} OBVIOUS
<1>4. \A i \in 1 .. m : FlowOf[s[i]] = "Call" => Net(s, i, m) <= 0 - 1
  <2>1. \A i \in 1 .. m : FlowOf[s[i]] = "Call" => Net(s, i, m) <= 0 - 0 - 1 BY <1>3 DEF Stacked
  <2> QED BY <2>1
<1>5. ASSUME NEW i \in 1 .. m + 1, FlowOf[s[i]] = "Call" PROVE Net(s, i, m + 1) <= 0 - 0 - 1
  <2>1. i \in 1 .. m BY <1>2, <1>5
  <2> QED BY <1>1, <1>4, <1>5, <2>1
<1> QED BY <1>3, <1>5 DEF Stacked

\* The innermost call is the one that a return takes back.
LEMMA CallersAre ==
  ASSUME NEW s, NEW m \in Nat, FlowOf[s[m + 1]] = "Return"
  PROVE  Callers(s, m + 2) = {i \in 1 .. m : FlowOf[s[i]] = "Call" /\ Net(s, i, m) = 0}
<1>1. (m + 2) - 1 = m + 1 OBVIOUS
<1>2. FlowOf[s[m + 1]] # "Call" OBVIOUS
<1>3. ASSUME NEW i \in 1 .. m
      PROVE  (Occurrences(s, i + 1, m + 1, "Return") = Occurrences(s, i + 1, m + 1, "Call") + 1)
               <=> Net(s, i, m) = 0
  <2>1. Change(s[m + 1]) = 0 - 1 BY DEF Change
  <2>0. i \in 0 .. m OBVIOUS
  <2>a. Net(s, i, m) \in Int /\ Net(s, i, m + 1) = Net(s, i, m) + Change(s[m + 1]) BY <2>0, NetNext
  <2>2. Net(s, i, m) \in Int /\ Net(s, i, m + 1) = Net(s, i, m) - 1 BY <2>1, <2>a
  <2>3. PICK c \in Nat : c = Occurrences(s, i + 1, m + 1, "Call") BY LeavingIs
  <2>4. PICK r \in Nat : r = Occurrences(s, i + 1, m + 1, "Return") BY LeavingIs
  <2>5. Net(s, i, m + 1) = c - r BY <2>3, <2>4 DEF Net
  <2> QED BY <2>2, <2>3, <2>4, <2>5
<1>4. Callers(s, m + 2) = {i \in 1 .. m + 1 : /\ FlowOf[s[i]] = "Call"
        /\ Occurrences(s, i + 1, m + 1, "Return") = Occurrences(s, i + 1, m + 1, "Call") + 1}
  BY <1>1 DEF Callers
<1>5. \A i \in 1 .. m + 1 : FlowOf[s[i]] = "Call" => i \in 1 .. m BY <1>2
<1>6. 1 .. m \subseteq 1 .. m + 1 OBVIOUS
<1> QED BY <1>3, <1>4, <1>5, <1>6

\* And it is the last of them, if the stack is not empty.
LEMMA ReturnTakesLast ==
  ASSUME NEW s, NEW m \in Nat, NEW p, NEW n, Stacked(s, m, p, n), FlowOf[s[m + 1]] = "Return"
  PROVE  {i \in Callers(s, m + 2) : \A k \in Callers(s, m + 2) : k <= i} = IF n = 0 THEN {} ELSE {p[n]}
<1>1. PICK C : C = Callers(s, m + 2) OBVIOUS
<1>2. C = {i \in 1 .. m : FlowOf[s[i]] = "Call" /\ Net(s, i, m) = 0} BY <1>1, CallersAre
<1>3. n \in Nat BY DEF Stacked
<1>4. CASE n = 0
  <2>1. \A i \in 1 .. m : FlowOf[s[i]] = "Call" => Net(s, i, m) <= 0 - 0 - 1 BY <1>4 DEF Stacked
  <2>2. C = {} BY <1>2, <2>1
  <2> QED BY <1>1, <1>4, <2>2
<1>5. CASE n # 0
  <2>1. n \in 1 .. n /\ n - n = 0 BY <1>3, <1>5
  <2>2. p[n] \in C BY <1>2, <2>1 DEF Stacked
  <2>3. ASSUME NEW i \in C PROVE i <= p[n]
    <3>1. i \in 1 .. m /\ FlowOf[s[i]] = "Call" /\ Net(s, i, m) = 0 BY <1>2
    <3>2. p[n] \in 1 .. m BY <1>2, <2>2
    <3>3. SUFFICES ASSUME p[n] < i PROVE FALSE BY <3>1, <3>2
    <3>4. \A k \in 1 .. n : p[k] # i
      <4>1. \A k \in 1 .. n : p[k] \in 1 .. m /\ (k = n \/ p[k] < p[n]) BY <1>3, <2>1 DEF Stacked
      <4> QED BY <3>1, <3>2, <3>3, <4>1
    <3>5. n \in 0 .. n BY <1>3
    <3>6. Net(s, i, m) <= n - n - 1 BY <3>1, <3>3, <3>4, <3>5 DEF Stacked
    <3> QED BY <1>3, <3>1, <3>6
  <2>4. \A i \in C : i \in 1 .. m BY <1>2
  <2>5. {i \in C : \A k \in C : k <= i} = {p[n]}
    <3>1. ASSUME NEW i \in C, \A k \in C : k <= i PROVE i = p[n]
      <4>1. p[n] <= i /\ i <= p[n] BY <2>2, <2>3, <3>1
      <4> QED BY <2>2, <2>4, <4>1
    <3> QED BY <2>2, <2>3, <3>1
  <2> QED BY <1>1, <1>5, <2>5
<1> QED BY <1>4, <1>5

\* What a position follows is a matter of the positions before it.
LEMMA PreviousSame ==
  ASSUME NEW s, NEW u, NEW j \in Nat \ {0}, \A k \in 1 .. j - 1 : s[k] = u[k]
  PROVE  Previous(s, j) = Previous(u, j)
<1>1. ASSUME NEW i \in 1 .. j - 1, NEW flow
      PROVE  Occurrences(s, i + 1, j - 1, flow) = Occurrences(u, i + 1, j - 1, flow)
  <2>1. i + 1 \in Int /\ j - 1 \in Int /\ \A k \in i + 1 .. j - 1 : s[k] = u[k] OBVIOUS
  <2> QED BY <2>1, OccurrencesSame
<1>2. Callers(s, j) = Callers(u, j) BY <1>1 DEF Callers
<1>3. j > 1 => s[j - 1] = u[j - 1] OBVIOUS
<1>4. CASE j = 1 BY <1>4 DEF Previous
<1>5. CASE j > 1
  <2>1. j # 1 BY <1>5
  <2> QED BY <1>2, <1>3, <1>5, <2>1 DEF Previous
<1> QED BY <1>4, <1>5

\* l is the last block of s, and c the stack before it: what has been recorded of a thread.
Recorded(s, l, c) ==
  /\ s \in Seq(Handles) /\ c \in Seq(Blocks)
  /\ s = <<>> => l = None /\ c = <<>>
  /\ s # <<>> =>
       /\ l = s[Len(s)]
       /\ \E p : /\ Stacked(s, Len(s) - 1, p, Len(c))
                 /\ \A k \in 1 .. Len(c) : c[k] = BlockOf[s[p[k]]]

\* The attributes of a registered block.
LEMMA FlowIs == ASSUME NEW h \in Handles PROVE FlowOf[h] \in {"Normal", "Call", "Return"} /\ BlockOf[h] \in Blocks /\ h # None
BY CfgAssumption

\* Origin is the block that the next position follows.
LEMMA OriginIs ==
  ASSUME NEW t, NEW s, s = trace[t], Recorded(s, last[t], calls[t])
  PROVE  \/ Origin(t) = None /\ Previous(s, Len(s) + 1) = {}
         \/ \E i \in 1 .. Len(s) : /\ Previous(s, Len(s) + 1) = {i}
                                   /\ Origin(t) = BlockOf[s[i]] /\ BlockOf[s[i]] \in Blocks
<1>0. PICK l : l = last[t] OBVIOUS
<1>1. PICK c : c = calls[t] OBVIOUS
<1>2. s \in Seq(Handles) /\ c \in Seq(Blocks) /\ Len(s) \in Nat BY <1>1 DEF Recorded
<1>3. CASE s = <<>>
  <2>1. Origin(t) = None BY <1>3 DEF Origin, Recorded
  <2>2. Previous(s, Len(s) + 1) = {} BY <1>3 DEF Previous
  <2> QED BY <2>1, <2>2
<1>4. CASE s # <<>>
  <2>1. PICK n \in Nat : n = Len(s) BY <1>2
  <2>2. n \in 1 .. n /\ n # 0 BY <1>2, <1>4, <2>1
  <2>3. l = s[n] /\ l \in Handles BY <1>0, <1>2, <1>4, <2>1, <2>2 DEF Recorded
  <2>4. l # None /\ BlockOf[l] \in Blocks /\ FlowOf[l] \in {"Normal", "Call", "Return"} BY <2>3, FlowIs
  <2>5. PICK p : /\ Stacked(s, n - 1, p, Len(c))
                 /\ \A k \in 1 .. Len(c) : c[k] = BlockOf[s[p[k]]]
    BY <1>1, <1>4, <2>1 DEF Recorded
  <2>6. n + 1 > 1 /\ n + 1 # 1 /\ (n + 1) - 1 = n BY <2>2
  <2>7. CASE FlowOf[l] = "Normal"
    <3>1. Previous(s, n + 1) = {n} BY <2>3, <2>6, <2>7 DEF Previous
    <3>2. Origin(t) = BlockOf[l] BY <1>0, <2>4, <2>7 DEF Origin
    <3> QED BY <2>1, <2>2, <2>3, <2>4, <3>1, <3>2
  <2>8. CASE FlowOf[l] = "Call"
    <3>1. Previous(s, n + 1) = {} BY <2>3, <2>6, <2>8 DEF Previous
    <3>2. Origin(t) = None BY <1>0, <2>4, <2>8 DEF Origin
    <3> QED BY <2>1, <3>1, <3>2
  <2>9. CASE FlowOf[l] = "Return"
    <3>1. Previous(s, n + 1) = {i \in Callers(s, n + 1) : \A k \in Callers(s, n + 1) : k <= i}
      BY <2>3, <2>6, <2>9 DEF Previous
    <3>2. Origin(t) = IF c = <<>> THEN None ELSE c[Len(c)] BY <1>0, <1>1, <2>4, <2>9 DEF Origin
    <3>3. PICK m \in Nat : m = n - 1 BY <2>2
    <3>4. m + 1 = n /\ m + 2 = n + 1 BY <2>2, <3>3
    <3>5. PICK z \in Nat : z = Len(c) BY <1>2
    <3>6. Stacked(s, m, p, z) BY <2>5, <3>3, <3>5
    <3>7. {i \in Callers(s, m + 2) : \A k \in Callers(s, m + 2) : k <= i} = IF z = 0 THEN {} ELSE {p[z]}
      BY <2>3, <2>9, <3>4, <3>6, ReturnTakesLast
    <3>8. CASE z = 0
      <4>0. c \in Seq(Blocks) /\ Len(c) = 0 BY <1>2, <3>5, <3>8
      <4>1. c = <<>> BY <4>0
      <4> QED BY <2>1, <3>1, <3>2, <3>4, <3>7, <3>8, <4>1
    <3>9. CASE z # 0
      <4>1. c # <<>> /\ z \in 1 .. z BY <1>2, <3>5, <3>9
      <4>2. Previous(s, n + 1) = {p[z]} BY <3>1, <3>4, <3>7, <3>9
      <4>3. p[z] \in 1 .. m BY <3>6, <4>1 DEF Stacked
      <4>4. p[z] \in 1 .. n BY <2>1, <3>3, <4>3
      <4>5. Origin(t) = BlockOf[s[p[z]]] BY <2>5, <3>2, <3>5, <4>1
      <4>6. BlockOf[s[p[z]]] \in Blocks
        <5>1. s[p[z]] \in Handles BY <1>2, <2>1, <4>4
        <5> QED BY <5>1, FlowIs
      <4> QED BY <2>1, <4>2, <4>4, <4>5, <4>6
    <3> QED BY <3>8, <3>9
  <2> QED BY <2>4, <2>7, <2>8, <2>9
<1> QED BY <1>3, <1>4

\* The stack that the last block leaves is the one before the next block.
LEMMA StackFollows ==
  ASSUME NEW t, NEW s, s = trace[t], Recorded(s, last[t], calls[t]), NEW h \in Handles
  PROVE  Recorded(Append(s, h), h, Stack(t))
<1>0. PICK l : l = last[t] OBVIOUS
<1>1. PICK c : c = calls[t] OBVIOUS
<1>2. s \in Seq(Handles) /\ c \in Seq(Blocks) BY <1>1 DEF Recorded
<1>3. PICK n \in Nat : n = Len(s) BY <1>2
<1>4. PICK u : u = Append(s, h) OBVIOUS
<1>5. u \in Seq(Handles) /\ Len(u) = n + 1 /\ u[n + 1] = h /\ u # <<>> /\ \A k \in 1 .. n : u[k] = s[k]
  BY <1>2, <1>3, <1>4
<1>6. Len(u) - 1 = n BY <1>5
<1>7. SUFFICES ASSUME TRUE
               PROVE  Stack(t) \in Seq(Blocks) /\ \E p : /\ Stacked(u, n, p, Len(Stack(t)))
                                                         /\ \A k \in 1 .. Len(Stack(t)) : Stack(t)[k] = BlockOf[u[p[k]]]
  BY <1>4, <1>5, <1>6 DEF Recorded
<1>8. CASE s = <<>>
  <2>1. c = <<>> /\ l = None BY <1>0, <1>1, <1>8 DEF Recorded
  <2>2. Stack(t) = <<>> BY <1>0, <1>1, <2>1 DEF Stack
  <2>3. n = 0 BY <1>3, <1>8
  <2>4. PICK p : p = <<>> OBVIOUS
  <2>5. Stacked(u, n, p, 0) BY <2>3 DEF Stacked
  <2> QED BY <2>2, <2>5
<1>9. CASE s # <<>>
  <2>1. n # 0 /\ n \in 1 .. n BY <1>2, <1>3, <1>9
  <2>2. l = s[n] /\ l \in Handles BY <1>0, <1>2, <1>3, <1>9, <2>1 DEF Recorded
  <2>3. l # None /\ BlockOf[l] \in Blocks /\ FlowOf[l] \in {"Normal", "Call", "Return"} BY <2>2, FlowIs
  <2>4. PICK z \in Nat : z = Len(c) BY <1>2
  <2>5. PICK m \in Nat : m = n - 1 BY <2>1
  <2>6. PICK p : Stacked(s, m, p, z) /\ \A k \in 1 .. z : c[k] = BlockOf[s[p[k]]]
    BY <1>1, <1>3, <1>9, <2>4, <2>5 DEF Recorded
  <2>7. m + 1 = n /\ \A k \in 1 .. m : s[k] = u[k] BY <1>5, <2>5
  <2>8. Stacked(u, m, p, z) BY <2>6, <2>7, StackedSame
  <2>9. u[m + 1] = l BY <1>5, <2>1, <2>2, <2>7
  <2>10. \A k \in 1 .. z : c[k] = BlockOf[u[p[k]]]
    <3>1. \A k \in 1 .. z : p[k] \in 1 .. m BY <2>6 DEF Stacked
    <3> QED BY <2>6, <2>7, <3>1
  <2>11. CASE FlowOf[l] = "Normal"
    <3>1. Stack(t) = c BY <1>0, <1>1, <2>11 DEF Stack
    <3>2. Stacked(u, n, p, z) BY <2>7, <2>8, <2>9, <2>11, StackedNormal
    <3> QED BY <1>2, <2>4, <2>10, <3>1, <3>2
  <2>12. CASE FlowOf[l] = "Call"
    <3>1. PICK c2 : c2 = Append(c, BlockOf[l]) OBVIOUS
    <3>2. Stack(t) = c2 BY <1>0, <1>1, <2>3, <2>12, <3>1 DEF Stack
    <3>3. /\ c2 \in Seq(Blocks) /\ Len(c2) = z + 1 /\ c2[z + 1] = BlockOf[l]
          /\ \A k \in 1 .. z : c2[k] = c[k]
      BY <1>2, <2>3, <2>4, <3>1
    <3>4. PICK r : r = [k \in 1 .. z + 1 |-> IF k <= z THEN p[k] ELSE m + 1] OBVIOUS
    <3>5. Stacked(u, n, r, z + 1) BY <2>7, <2>8, <2>9, <2>12, <3>4, StackedCall
    <3>6. ASSUME NEW k \in 1 .. z + 1 PROVE c2[k] = BlockOf[u[r[k]]]
      <4>1. CASE k = z + 1
        <5>1. r[k] = m + 1 BY <3>4, <4>1
        <5> QED BY <2>9, <3>3, <4>1, <5>1
      <4>2. CASE k # z + 1
        <5>1. k \in 1 .. z /\ k <= z BY <4>2
        <5>2. r[k] = p[k] BY <3>4, <5>1
        <5> QED BY <2>10, <3>3, <5>1, <5>2
      <4> QED BY <4>1, <4>2
    <3> QED BY <3>2, <3>3, <3>5, <3>6
  <2>13. CASE FlowOf[l] = "Return" /\ c # <<>>
    <3>1. z # 0 BY <1>2, <2>4, <2>13
    <3>2. PICK c2 : c2 = SubSeq(c, 1, z - 1) OBVIOUS
    <3>3. Stack(t) = c2 BY <1>0, <1>1, <2>3, <2>4, <2>13, <3>2 DEF Stack
    <3>4. c2 \in Seq(Blocks) /\ Len(c2) = z - 1 /\ \A k \in 1 .. z - 1 : c2[k] = c[k]
      BY <1>2, <2>4, <3>1, <3>2
    <3>5. Stacked(u, n, p, z - 1) BY <2>7, <2>8, <2>9, <2>13, <3>1, StackedReturn
    <3>6. \A k \in 1 .. z - 1 : c2[k] = BlockOf[u[p[k]]] BY <2>10, <3>4
    <3> QED BY <3>3, <3>4, <3>5, <3>6
  <2>14. CASE FlowOf[l] = "Return" /\ c = <<>>
    <3>1. Stack(t) = c BY <1>0, <1>1, <2>14 DEF Stack
    <3>2. z = 0 BY <2>4, <2>14
    <3>3. Stacked(u, n, p, 0) BY <2>7, <2>8, <2>9, <2>14, <3>2, StackedUnderflow
    <3> QED BY <1>2, <2>4, <2>10, <3>1, <3>2, <3>3
  <2> QED BY <2>3, <2>11, <2>12, <2>13, <2>14
<1> QED BY <1>8, <1>9

\* A block that falls through and follows itself changes nothing.
LEMMA RepeatFollows ==
  ASSUME NEW s, NEW h \in Handles, NEW c, Recorded(s, h, c), FlowOf[h] = "Normal"
  PROVE  /\ Recorded(Append(s, h), h, c) /\ s # <<>> /\ Len(s) \in 1 .. Len(s) /\ s[Len(s)] = h
         /\ Previous(s, Len(s) + 1) = {Len(s)}
<1>1. s \in Seq(Handles) /\ c \in Seq(Blocks) /\ s # <<>> BY FlowIs DEF Recorded
<1>2. PICK n \in Nat : n = Len(s) BY <1>1
<1>3. n # 0 /\ n \in 1 .. n BY <1>1, <1>2
<1>4. PICK u : u = Append(s, h) OBVIOUS
<1>5. u \in Seq(Handles) /\ Len(u) = n + 1 /\ u[n + 1] = h /\ u # <<>> /\ \A k \in 1 .. n : u[k] = s[k]
  BY <1>1, <1>2, <1>4
<1>6. s[n] = h BY <1>1, <1>2 DEF Recorded
<1>7. PICK m \in Nat : m = n - 1 BY <1>3
<1>8. PICK p : Stacked(s, m, p, Len(c)) /\ \A k \in 1 .. Len(c) : c[k] = BlockOf[s[p[k]]]
  BY <1>1, <1>2, <1>7 DEF Recorded
<1>9. m + 1 = n /\ \A k \in 1 .. m : s[k] = u[k] BY <1>5, <1>7
<1>10. Stacked(u, m, p, Len(c)) BY <1>8, <1>9, StackedSame
<1>11. u[m + 1] = h BY <1>3, <1>5, <1>6, <1>9
<1>12. Stacked(u, n, p, Len(c)) BY <1>9, <1>10, <1>11, StackedNormal
<1>13. \A k \in 1 .. Len(c) : c[k] = BlockOf[u[p[k]]]
  <2>1. \A k \in 1 .. Len(c) : p[k] \in 1 .. m BY <1>8 DEF Stacked
  <2> QED BY <1>8, <1>9, <2>1
<1>14. Len(u) - 1 = n BY <1>5
<1>15. Recorded(u, h, c) BY <1>1, <1>5, <1>12, <1>13, <1>14 DEF Recorded
<1>16. n + 1 > 1 /\ n + 1 # 1 /\ (n + 1) - 1 = n BY <1>3
<1>17. Previous(s, n + 1) = {n} BY <1>6, <1>16 DEF Previous
<1> QED BY <1>1, <1>2, <1>3, <1>4, <1>6, <1>15, <1>17

----------------------------------------------------------------------------
(* DynamicCfg: what one execution more adds to a trace *)

\* The positions of a trace.
PositionsOf(tr) == UNION {{t} \X DOMAIN tr[t] : t \in Tids}

\* The positions that make an edge from a to b.
EdgesAt(tr, a, b) ==
  {p \in PositionsOf(tr) : LET s == tr[p[1]] IN
     BlockOf[s[p[2]]] = b /\ \E i \in Previous(s, p[2]) : BlockOf[s[i]] = a}

\* The blocks entered from outside.
EntriesAt(tr) ==
  {BlockOf[tr[p[1]][p[2]]] : p \in {q \in PositionsOf(tr) : Previous(tr[q[1]], q[2]) = {}}}

\* The executions of b.
ExecsAt(s, b) == {j \in DOMAIN s : BlockOf[s[j]] = b}

\* Thread t executes h.
Grows(tr, later, t, h) ==
  /\ tr \in [Tids -> Seq(Handles)] /\ t \in Tids /\ h \in Handles
  /\ later = [tr EXCEPT ![t] = Append(@, h)]

\* A position follows earlier ones.
LEMMA PreviousIn ==
  ASSUME NEW s \in Seq(Handles), NEW j \in 1 .. Len(s) + 1
  PROVE  Previous(s, j) \subseteq 1 .. j - 1
<1>0. Len(s) \in Nat OBVIOUS
<1>1. Callers(s, j) \subseteq 1 .. j - 1 BY DEF Callers
<1>2. CASE j = 1 BY <1>2 DEF Previous
<1>3. CASE j > 1
  <2>1. j - 1 \in 1 .. j - 1 /\ j # 1 /\ j - 1 \in 1 .. Len(s) BY <1>0, <1>3
  <2>2. CASE FlowOf[s[j - 1]] = "Normal" BY <1>3, <2>1, <2>2 DEF Previous
  <2>3. CASE FlowOf[s[j - 1]] = "Call" BY <1>3, <2>1, <2>3 DEF Previous
  <2>4. CASE FlowOf[s[j - 1]] = "Return" BY <1>1, <1>3, <2>1, <2>4 DEF Previous
  <2>5. FlowOf[s[j - 1]] \in {"Normal", "Call", "Return"}
    <3>1. s[j - 1] \in Handles BY <2>1
    <3> QED BY <3>1, FlowIs
  <2> QED BY <2>2, <2>3, <2>4, <2>5
<1>4. j = 1 \/ j > 1 BY <1>0
<1> QED BY <1>2, <1>3, <1>4

\* A position is a thread and an index of its trace.
LEMMA InPositions ==
  ASSUME NEW tr \in [Tids -> Seq(Handles)], NEW p
  PROVE  p \in PositionsOf(tr) <=> \E t \in Tids : \E j \in 1 .. Len(tr[t]) : p = <<t, j>>
<1>1. \A t \in Tids : tr[t] \in Seq(Handles) OBVIOUS
<1>2. \A t \in Tids : DOMAIN tr[t] = 1 .. Len(tr[t]) BY <1>1
<1> QED BY <1>2 DEF PositionsOf

\* One position more,
LEMMA PositionsGrow ==
  ASSUME NEW tr, NEW later, NEW t, NEW h, Grows(tr, later, t, h), NEW n, n = Len(tr[t]) + 1
  PROVE  /\ n \in Nat \ {0} /\ <<t, n>> \notin PositionsOf(tr)
         /\ PositionsOf(later) = PositionsOf(tr) \cup {<<t, n>>}
         /\ later[t][n] = h
         /\ Previous(later[t], n) = Previous(tr[t], n)
         /\ \A i \in Previous(tr[t], n) : later[t][i] = tr[t][i]
<1>1. tr \in [Tids -> Seq(Handles)] /\ t \in Tids /\ h \in Handles BY DEF Grows
<1>2. PICK s \in Seq(Handles) : s = tr[t] BY <1>1
<1>3. PICK m \in Nat : m = Len(s) BY <1>2
<1>4. n = m + 1 /\ n \in Nat \ {0} BY <1>2, <1>3
<1>5. PICK u : u = Append(s, h) OBVIOUS
<1>6. /\ u \in Seq(Handles) /\ Len(u) = n /\ u[n] = h /\ \A k \in 1 .. m : u[k] = s[k]
  BY <1>1, <1>2, <1>3, <1>4, <1>5
<1>7. later[t] = u /\ \A x \in Tids : x # t => later[x] = tr[x] BY <1>1, <1>2, <1>5 DEF Grows
<1>8. later \in [Tids -> Seq(Handles)] BY <1>1, <1>2, <1>5, <1>6 DEF Grows
<1>9. \A x \in Tids : Len(tr[x]) \in Nat BY <1>1
<1>10. 1 .. n = (1 .. m) \cup {n} /\ n \notin 1 .. m BY <1>4
<1>11. <<t, n>> \notin PositionsOf(tr)
  <2>1. SUFFICES ASSUME <<t, n>> \in PositionsOf(tr) PROVE FALSE OBVIOUS
  <2>2. PICK x \in Tids : \E j \in 1 .. Len(tr[x]) : <<t, n>> = <<x, j>> BY <1>1, <2>1, InPositions
  <2>3. x = t /\ n \in 1 .. Len(tr[x]) BY <2>2
  <2> QED BY <1>2, <1>3, <1>10, <2>3
<1>12. PositionsOf(later) = PositionsOf(tr) \cup {<<t, n>>}
  <2>1. ASSUME NEW p \in PositionsOf(later) PROVE p \in PositionsOf(tr) \cup {<<t, n>>}
    <3>1. PICK x \in Tids : \E j \in 1 .. Len(later[x]) : p = <<x, j>> BY <1>8, InPositions
    <3>2. PICK j \in 1 .. Len(later[x]) : p = <<x, j>> BY <3>1
    <3>3. CASE x = t
      <4>1. j \in (1 .. m) \cup {n} BY <1>6, <1>7, <1>10, <3>3
      <4>2. j = n \/ j \in 1 .. Len(tr[t]) BY <1>2, <1>3, <4>1
      <4> QED BY <1>1, <3>2, <3>3, <4>2, InPositions
    <3>4. CASE x # t
      <4>1. j \in 1 .. Len(tr[x]) BY <1>7, <3>4
      <4> QED BY <1>1, <3>2, <4>1, InPositions
    <3> QED BY <3>3, <3>4
  <2>2. ASSUME NEW p \in PositionsOf(tr) PROVE p \in PositionsOf(later)
    <3>1. PICK x \in Tids : \E j \in 1 .. Len(tr[x]) : p = <<x, j>> BY <1>1, InPositions
    <3>2. PICK j \in 1 .. Len(tr[x]) : p = <<x, j>> BY <3>1
    <3>3. j \in 1 .. Len(later[x])
      <4>1. CASE x = t
        <5>1. j \in 1 .. m BY <1>2, <1>3, <4>1
        <5> QED BY <1>6, <1>7, <1>10, <4>1, <5>1
      <4>2. CASE x # t BY <1>7, <4>2
      <4> QED BY <4>1, <4>2
    <3> QED BY <1>8, <3>2, <3>3, InPositions
  <2>3. <<t, n>> \in PositionsOf(later)
    <3>1. n \in 1 .. Len(later[t]) BY <1>6, <1>7, <1>10
    <3> QED BY <1>1, <1>8, <3>1, InPositions
  <2> QED BY <2>1, <2>2, <2>3
<1>13. Previous(u, n) = Previous(s, n)
  <2>1. \A k \in 1 .. n - 1 : u[k] = s[k] BY <1>4, <1>6
  <2> QED BY <1>4, <2>1, PreviousSame
<1>14. \A i \in Previous(s, n) : u[i] = s[i]
  <2>0. n \in 1 .. Len(s) + 1 BY <1>3, <1>4
  <2>1. Previous(s, n) \subseteq 1 .. n - 1 BY <1>2, <2>0, PreviousIn
  <2>2. 1 .. n - 1 = 1 .. m BY <1>4
  <2> QED BY <1>6, <2>1, <2>2
<1> QED BY <1>2, <1>4, <1>6, <1>7, <1>11, <1>12, <1>13, <1>14

\* and the others as they were.
LEMMA PositionsKept ==
  ASSUME NEW tr, NEW later, NEW t, NEW h, Grows(tr, later, t, h), NEW p \in PositionsOf(tr)
  PROVE  /\ later[p[1]][p[2]] = tr[p[1]][p[2]]
         /\ Previous(later[p[1]], p[2]) = Previous(tr[p[1]], p[2])
         /\ \A i \in Previous(tr[p[1]], p[2]) : later[p[1]][i] = tr[p[1]][i]
<1>1. tr \in [Tids -> Seq(Handles)] /\ t \in Tids /\ h \in Handles BY DEF Grows
<1>2. PICK s \in Seq(Handles) : s = tr[t] BY <1>1
<1>3. PICK m \in Nat : m = Len(s) BY <1>2
<1>4. PICK u : u = Append(s, h) OBVIOUS
<1>5. \A k \in 1 .. m : u[k] = s[k] BY <1>1, <1>2, <1>3, <1>4
<1>6. later[t] = u /\ \A x \in Tids : x # t => later[x] = tr[x] BY <1>1, <1>2, <1>4 DEF Grows
<1>7. PICK x \in Tids : \E j \in 1 .. Len(tr[x]) : p = <<x, j>> BY <1>1, InPositions
<1>8. PICK j \in 1 .. Len(tr[x]) : p = <<x, j>> BY <1>7
<1>9. p[1] = x /\ p[2] = j BY <1>8
<1>10. CASE x # t BY <1>6, <1>9, <1>10
<1>11. CASE x = t
  <2>1. tr[x] = s /\ later[x] = u /\ j \in 1 .. m BY <1>2, <1>3, <1>6, <1>11
  <2>2. u[j] = s[j] BY <1>5, <2>1
  <2>3. j \in Nat \ {0} /\ \A k \in 1 .. j - 1 : k \in 1 .. m BY <2>1
  <2>4. \A k \in 1 .. j - 1 : u[k] = s[k] BY <1>5, <2>3
  <2>5. Previous(u, j) = Previous(s, j) BY <2>3, <2>4, PreviousSame
  <2>6. Previous(s, j) \subseteq 1 .. j - 1
    <3>1. j \in 1 .. Len(s) + 1 BY <1>3, <2>1
    <3> QED BY <1>2, <3>1, PreviousIn
  <2>7. \A i \in Previous(s, j) : u[i] = s[i] BY <2>4, <2>6
  <2> QED BY <1>9, <2>1, <2>2, <2>5, <2>7
<1> QED BY <1>10, <1>11

\* There is one position more.
LEMMA CountGrows ==
  ASSUME NEW tr, NEW later, NEW t, NEW h, Grows(tr, later, t, h), IsFiniteSet(PositionsOf(tr))
  PROVE  /\ IsFiniteSet(PositionsOf(later)) /\ Cardinality(PositionsOf(tr)) \in Nat
         /\ Cardinality(PositionsOf(later)) = Cardinality(PositionsOf(tr)) + 1
<1>1. PICK n : n = Len(tr[t]) + 1 OBVIOUS
<1>2. PositionsOf(later) = PositionsOf(tr) \cup {<<t, n>>} /\ <<t, n>> \notin PositionsOf(tr)
  BY <1>1, PositionsGrow
<1> QED BY <1>2, FS_AddElement, FS_CardinalityType

\* The next execution of a thread is an edge from a to b.
NewEdge(s, h, a, b) == BlockOf[h] = b /\ \E i \in Previous(s, Len(s) + 1) : BlockOf[s[i]] = a

\* The new position has an edge from what it follows.
LEMMA EdgesGrow ==
  ASSUME NEW tr, NEW later, NEW t, NEW h, Grows(tr, later, t, h), IsFiniteSet(PositionsOf(tr)),
         NEW a, NEW b, NEW k, k = Cardinality(EdgesAt(tr, a, b)), NEW m, m = Cardinality(EdgesAt(later, a, b))
  PROVE  k \in Nat /\ (NewEdge(tr[t], h, a, b) => m = k + 1) /\ (~NewEdge(tr[t], h, a, b) => m = k)
<1>1. PICK n : n = Len(tr[t]) + 1 OBVIOUS
<1>2. PICK P : P = PositionsOf(tr) OBVIOUS
<1>3. PICK q : q = <<t, n>> OBVIOUS
<1>4. /\ PositionsOf(later) = P \cup {q} /\ q \notin P
      /\ later[t][n] = h /\ Previous(later[t], n) = Previous(tr[t], n)
      /\ \A i \in Previous(tr[t], n) : later[t][i] = tr[t][i]
  BY <1>1, <1>2, <1>3, PositionsGrow
<1>5. \A p \in P :
        /\ later[p[1]][p[2]] = tr[p[1]][p[2]]
        /\ Previous(later[p[1]], p[2]) = Previous(tr[p[1]], p[2])
        /\ \A i \in Previous(tr[p[1]], p[2]) : later[p[1]][i] = tr[p[1]][i]
  BY <1>2, PositionsKept
<1> DEFINE Has(u, p) == BlockOf[u[p[1]][p[2]]] = b /\ \E i \in Previous(u[p[1]], p[2]) : BlockOf[u[p[1]][i]] = a
<1>6. \A p \in P : Has(later, p) <=> Has(tr, p)
  <2> SUFFICES ASSUME NEW p \in P PROVE Has(later, p) <=> Has(tr, p) OBVIOUS
  <2>1. /\ later[p[1]][p[2]] = tr[p[1]][p[2]]
        /\ Previous(later[p[1]], p[2]) = Previous(tr[p[1]], p[2])
        /\ \A i \in Previous(tr[p[1]], p[2]) : later[p[1]][i] = tr[p[1]][i]
    BY <1>5
  <2> QED BY <2>1
<1>7. Has(later, q) <=> NewEdge(tr[t], h, a, b)
  <2>1. q[1] = t /\ q[2] = n BY <1>3
  <2> QED BY <1>1, <1>4, <2>1 DEF NewEdge
<1>8. EdgesAt(tr, a, b) = {p \in P : Has(tr, p)} BY <1>2 DEF EdgesAt
<1>9. EdgesAt(later, a, b) = {p \in P \cup {q} : Has(later, p)} BY <1>4 DEF EdgesAt
<1> HIDE DEF Has
<1>10. PICK E : E = EdgesAt(tr, a, b) OBVIOUS
<1>11. E \in SUBSET P /\ q \notin E BY <1>4, <1>8, <1>10
<1>12. IsFiniteSet(E) /\ Cardinality(E) \in Nat BY <1>2, <1>11, FS_Subset, FS_CardinalityType
<1>13. CASE NewEdge(tr[t], h, a, b)
  <2>1. EdgesAt(later, a, b) = E \cup {q} BY <1>6, <1>7, <1>8, <1>9, <1>10, <1>13
  <2> QED BY <1>10, <1>11, <1>12, <1>13, <2>1, FS_AddElement
<1>14. CASE ~NewEdge(tr[t], h, a, b)
  <2>1. EdgesAt(later, a, b) = E BY <1>6, <1>7, <1>8, <1>9, <1>10, <1>14
  <2> QED BY <1>10, <1>12, <1>14, <2>1
<1> QED BY <1>13, <1>14

\* A position that follows none is an entry.
LEMMA EntriesGrow ==
  ASSUME NEW tr, NEW later, NEW t, NEW h, Grows(tr, later, t, h)
  PROVE  EntriesAt(later)
           = EntriesAt(tr) \cup IF Previous(tr[t], Len(tr[t]) + 1) = {} THEN {BlockOf[h]} ELSE {}
<1>1. PICK n : n = Len(tr[t]) + 1 OBVIOUS
<1>2. PICK P : P = PositionsOf(tr) OBVIOUS
<1>3. PICK q : q = <<t, n>> OBVIOUS
<1>4. /\ PositionsOf(later) = P \cup {q}
      /\ later[t][n] = h /\ Previous(later[t], n) = Previous(tr[t], n)
  BY <1>1, <1>2, <1>3, PositionsGrow
<1>5. \A p \in P : /\ later[p[1]][p[2]] = tr[p[1]][p[2]]
                   /\ Previous(later[p[1]], p[2]) = Previous(tr[p[1]], p[2])
  BY <1>2, PositionsKept
<1>6. q[1] = t /\ q[2] = n BY <1>3
<1> DEFINE Entry(u, p) == Previous(u[p[1]], p[2]) = {}
           Block(u, p) == BlockOf[u[p[1]][p[2]]]
<1>7. \A p \in P : (Entry(later, p) <=> Entry(tr, p)) /\ Block(later, p) = Block(tr, p) BY <1>5
<1>8. (Entry(later, q) <=> Previous(tr[t], n) = {}) /\ Block(later, q) = BlockOf[h] BY <1>4, <1>6
<1>9. EntriesAt(tr) = {Block(tr, p) : p \in {r \in P : Entry(tr, r)}} BY <1>2 DEF EntriesAt
<1>10. EntriesAt(later) = {Block(later, p) : p \in {r \in P \cup {q} : Entry(later, r)}}
  BY <1>4 DEF EntriesAt
<1> HIDE DEF Entry, Block
<1>11. CASE Previous(tr[t], n) = {}
  <2>1. EntriesAt(later) = EntriesAt(tr) \cup {BlockOf[h]} BY <1>7, <1>8, <1>9, <1>10, <1>11
  <2> QED BY <1>1, <1>11, <2>1
<1>12. CASE Previous(tr[t], n) # {}
  <2>1. EntriesAt(later) = EntriesAt(tr) BY <1>7, <1>8, <1>9, <1>10, <1>12
  <2> QED BY <1>1, <1>12, <2>1
<1> QED BY <1>11, <1>12

\* The thread has executed the block once more.
LEMMA ExecsGrow ==
  ASSUME NEW tr, NEW later, NEW t, NEW h, Grows(tr, later, t, h), NEW x \in Tids, NEW b,
         NEW k, k = Cardinality(ExecsAt(tr[x], b)), NEW m, m = Cardinality(ExecsAt(later[x], b))
  PROVE  /\ k \in Nat /\ (x = t /\ BlockOf[h] = b => m = k + 1)
         /\ ~(x = t /\ BlockOf[h] = b) => m = k
<1>1. tr \in [Tids -> Seq(Handles)] /\ t \in Tids /\ h \in Handles BY DEF Grows
<1>2. PICK s \in Seq(Handles) : s = tr[x] BY <1>1
<1>3. PICK z \in Nat : z = Len(s) BY <1>2
<1>4. PICK E : E = ExecsAt(s, b) OBVIOUS
<1>5. DOMAIN s = 1 .. z BY <1>2, <1>3
<1>6. E \in SUBSET (1 .. z) BY <1>4, <1>5 DEF ExecsAt
<1>7. IsFiniteSet(E) /\ Cardinality(E) \in Nat 
  <2>1. IsFiniteSet(1 .. z) BY FS_Interval
  <2> QED BY <1>6, <2>1, FS_Subset, FS_CardinalityType
<1>8. CASE x # t
  <2>1. later[x] = tr[x] BY <1>1, <1>8 DEF Grows
  <2> QED BY <1>2, <1>4, <1>7, <1>8, <2>1
<1>9. CASE x = t
  <2>1. PICK u : u = Append(s, h) OBVIOUS
  <2>2. later[x] = u BY <1>1, <1>2, <1>9, <2>1 DEF Grows
  <2>3. PICK n \in Nat : n = z + 1 OBVIOUS
  <2>4. u \in Seq(Handles) /\ Len(u) = n /\ u[n] = h /\ \A i \in 1 .. z : u[i] = s[i]
    BY <1>1, <1>2, <1>3, <2>1, <2>3
  <2>5. DOMAIN u = (1 .. z) \cup {n} /\ n \notin 1 .. z
    <3>1. DOMAIN u = 1 .. n BY <2>4
    <3> QED BY <2>3, <3>1
  <2>6. n \notin E BY <1>6, <2>5
  <2>7. CASE BlockOf[h] = b
    <3>1. ExecsAt(u, b) = E \cup {n} BY <1>4, <1>5, <2>4, <2>5, <2>7 DEF ExecsAt
    <3>2. Cardinality(E \cup {n}) = Cardinality(E) + 1 BY <1>7, <2>6, FS_AddElement
    <3> QED BY <1>2, <1>4, <1>7, <1>9, <2>2, <2>7, <3>1, <3>2
  <2>8. CASE BlockOf[h] # b
    <3>1. ExecsAt(u, b) = E BY <1>4, <1>5, <2>4, <2>5, <2>8 DEF ExecsAt
    <3> QED BY <1>2, <1>4, <1>7, <2>2, <2>8, <3>1
  <2> QED BY <2>7, <2>8
<1> QED BY <1>8, <1>9

----------------------------------------------------------------------------
(* DynamicCfg: bags and amounts *)

\* A bag that counts.
Counted(bag) == \A e \in DOMAIN bag : bag[e] \in Nat

\* What it counts is a number.
LEMMA TimesType == ASSUME NEW bag, Counted(bag), NEW e PROVE Times(e, bag) \in Nat
BY DEF Counted, Times, BagIn, BagToSet

\* The empty bag counts nothing.
LEMMA TimesNone == ASSUME NEW e PROVE Times(e, EmptyBag) = 0 /\ Counted(EmptyBag)
BY DEF Times, BagIn, BagToSet, EmptyBag, SetToBag, Counted

\* Adding n copies of x.
LEMMA TimesMore ==
  ASSUME NEW bag, Counted(bag), NEW x, NEW n \in Nat, NEW more, more = bag (+) Copies(x, n)
  PROVE  Counted(more) /\ \A e : Times(e, more) = Times(e, bag) + IF e = x THEN n ELSE 0
<1>1. PICK c : c = Copies(x, n) OBVIOUS
<1>2. more = [e \in (DOMAIN bag) \cup (DOMAIN c) |->
                (IF e \in DOMAIN bag THEN bag[e] ELSE 0) + (IF e \in DOMAIN c THEN c[e] ELSE 0)]
  BY <1>1 DEF (+)
<1>3. \A e : (e \in DOMAIN c => c[e] \in Nat) /\ (IF e \in DOMAIN c THEN c[e] ELSE 0) = IF e = x THEN n ELSE 0
  <2>1. CASE n = 0
    <3>1. DOMAIN c = {} BY <1>1, <2>1 DEF Copies, EmptyBag, SetToBag
    <3> QED BY <2>1, <3>1
  <2>2. CASE n # 0
    <3>1. c = [e \in {x} |-> n] BY <1>1, <2>2 DEF Copies
    <3> QED BY <3>1
  <2> QED BY <2>1, <2>2
<1>4. \A e \in DOMAIN bag : bag[e] \in Nat BY DEF Counted
<1>5. DOMAIN more = (DOMAIN bag) \cup (DOMAIN c) BY <1>2
<1>6. \A e \in DOMAIN more : more[e] = (IF e \in DOMAIN bag THEN bag[e] ELSE 0) + (IF e \in DOMAIN c THEN c[e] ELSE 0)
  BY <1>2, <1>5
<1>7. Counted(more) BY <1>3, <1>4, <1>5, <1>6 DEF Counted
<1>8. ASSUME NEW e PROVE Times(e, more) = Times(e, bag) + IF e = x THEN n ELSE 0
  <2>1. Times(e, bag) = IF e \in DOMAIN bag THEN bag[e] ELSE 0 BY DEF Times, BagIn, BagToSet
  <2>2. Times(e, more) = IF e \in DOMAIN more THEN more[e] ELSE 0 BY DEF Times, BagIn, BagToSet
  <2>3. CASE e \in DOMAIN more BY <1>3, <1>6, <2>1, <2>2, <2>3
  <2>4. CASE e \notin DOMAIN more
    <3>1. e \notin DOMAIN bag /\ e \notin DOMAIN c BY <1>5, <2>4
    <3>2. (IF e = x THEN n ELSE 0) = 0 BY <1>3, <3>1
    <3> QED BY <2>1, <2>2, <2>4, <3>1, <3>2
  <2> QED BY <2>3, <2>4
<1> QED BY <1>7, <1>8

\* Values of the counters.
Amounts == [Fields -> Nat]

\* The names of the counters.
LEMMA FieldsAre ==
  /\ "ops" \in Fields /\ "bytes" \in Fields /\ "loads" \in Fields
  /\ "stores" \in Fields /\ "unclassified" \in Fields
BY DEF Fields

\* Nothing is zero everywhere.
LEMMA NothingIs == Nothing \in Amounts /\ \A f \in Fields : Nothing[f] = 0
BY DEF Nothing, Amounts

\* Add adds counter by counter.
LEMMA AddIs ==
  ASSUME NEW x \in Amounts, NEW y \in Amounts
  PROVE  Add(x, y) \in Amounts /\ \A f \in Fields : Add(x, y)[f] = x[f] + y[f]
BY DEF Add, Amounts

\* An execution costs operations and no lines written back.
LEMMA CostIs ==
  ASSUME NEW n \in Nat
  PROVE  /\ Cost(n) \in Amounts /\ Cost(n)["ops"] = n
         /\ Cost(n)["stores"] = 0
<1>1. Cost(n) = [[Nothing EXCEPT !["ops"] = n] EXCEPT !["bytes"] = n] BY DEF Cost
<1>2. Nothing \in [Fields -> Nat] BY NothingIs DEF Amounts
<1>3. [Nothing EXCEPT !["ops"] = n] \in [Fields -> Nat] BY <1>2, FieldsAre
<1> QED BY <1>1, <1>2, <1>3, FieldsAre, NothingIs DEF Amounts

\* What the blocks are charged with is a number.
LEMMA ChargedType ==
  ASSUME NEW c \in [Blocks -> Amounts], NEW f \in Fields PROVE ChargedIn(c, f) \in Nat
<1>1. PICK g : g = [b \in Blocks |-> c[b][f]] OBVIOUS
<1>2. \A b \in Blocks : g[b] \in Nat BY <1>1 DEF Amounts
<1>3. SumAlong(g, Listing(Blocks)) \in Nat BY <1>2, AlongType, CfgAssumption
<1> QED BY <1>1, <1>3 DEF ChargedIn, BlockList

\* Charging a block with x.
Charge(c, b, x) == [c EXCEPT ![b] = Add(@, x)]

\* It adds x to the sum.
LEMMA ChargedMore ==
  ASSUME NEW c \in [Blocks -> Amounts], NEW b \in Blocks, NEW x \in Amounts,
         NEW d, d = Charge(c, b, x)
  PROVE  /\ d \in [Blocks -> Amounts]
         /\ \A f \in Fields : ChargedIn(d, f) = ChargedIn(c, f) + x[f]
<1>1. c[b] \in Amounts BY DEF Amounts
<1>2. PICK y : y = Add(c[b], x) OBVIOUS
<1>3. y \in Amounts /\ \A f \in Fields : y[f] = c[b][f] + x[f] BY <1>1, <1>2, AddIs
<1>4. d = [c EXCEPT ![b] = y] BY <1>2 DEF Charge
<1>5. d \in [Blocks -> Amounts] /\ d[b] = y /\ \A a \in Blocks : a # b => d[a] = c[a] BY <1>3, <1>4
<1>6. ASSUME NEW f \in Fields PROVE ChargedIn(d, f) = ChargedIn(c, f) + x[f]
  <2>1. PICK g : g = [a \in Blocks |-> c[a][f]] OBVIOUS
  <2>2. PICK k : k = [a \in Blocks |-> d[a][f]] OBVIOUS
  <2>3. \A a \in Blocks : g[a] \in Nat /\ k[a] \in Nat BY <1>5, <2>1, <2>2 DEF Amounts
  <2>4. \A a \in Blocks : a # b => g[a] = k[a] BY <1>5, <2>1, <2>2
  <2>5. g[b] = c[b][f] /\ k[b] = y[f] BY <1>5, <2>1, <2>2
  <2>6. OnlyIn(g, k, Blocks, b) BY <2>3, <2>4 DEF OnlyIn
  <2>7. SumAlong(k, Listing(Blocks)) + g[b] = SumAlong(g, Listing(Blocks)) + k[b]
    BY <2>6, AlongChange, CfgAssumption
  <2>8. SumAlong(k, Listing(Blocks)) = ChargedIn(d, f) /\ SumAlong(g, Listing(Blocks)) = ChargedIn(c, f)
    BY <2>1, <2>2 DEF ChargedIn, BlockList
  <2>9. ChargedIn(d, f) \in Nat /\ ChargedIn(c, f) \in Nat BY <1>5, ChargedType
  <2>10. c[b][f] \in Nat /\ x[f] \in Nat BY <1>1 DEF Amounts
  <2>11. ChargedIn(d, f) + c[b][f] = ChargedIn(c, f) + (c[b][f] + x[f]) BY <1>3, <2>5, <2>7, <2>8
  <2> QED BY <2>9, <2>10, <2>11
<1> QED BY <1>5, <1>6

----------------------------------------------------------------------------
(* DynamicCfg: the inductive invariant *)

\* The types of the variables.
CfgTypeOK ==
  /\ trace \in [Tids -> Seq(Handles)]
  /\ last \in [Tids -> Handles \cup {None}] /\ calls \in [Tids -> Seq(Blocks)]
  /\ Counted(edges) /\ Counted(execs)
  /\ counts \in [Blocks -> Amounts] /\ totals \in Amounts
  /\ batch \in Batches \cup {None}
  /\ finished \in BOOLEAN

\* A run is of the last block of the thread, which falls through.
BatchShaped ==
  batch # None =>
    /\ ~finished
    /\ batch.run # None => FlowOf[batch.run] = "Normal" /\ last[batch.thread] = batch.run
    /\ batch.run = None => batch.count = 0
    /\ batch.block = None => batch.pending = Nothing

\* Every thread has been followed.
Traced == \A t \in Tids : Recorded(trace[t], last[t], calls[t])

\* The edges with the run that is still to be recorded.
GraphEdges == IF batch = None THEN edges ELSE RunEdges
\* The same for executions.
GraphExecs == IF batch = None THEN execs ELSE RunExecs

\* Each edge has been taken as often as the trace has it.
EdgesExact ==
  \A a \in Blocks, b \in Blocks : Times(<<a, b>>, GraphEdges) = Cardinality(EdgesAt(trace, a, b))

\* Each block has been executed as often as the trace has it.
ExecsExact ==
  \A b \in Blocks, t \in Tids : Times(<<b, t>>, GraphExecs) = Cardinality(ExecsAt(trace[t], b))

\* The entries are those of the trace.
EntriesExact == entries = EntriesAt(trace)

\* Executions of the run, and accesses, that are still to be charged.
RunCount == IF batch = None THEN 0 ELSE batch.count
Waiting  == IF batch = None THEN Nothing ELSE batch.pending

\* Every execution is in the counters or in the run.
OpsExact ==
  /\ IsFiniteSet(PositionsOf(trace))
  /\ totals["ops"] + RunCount = Cardinality(PositionsOf(trace))

\* What is charged and what waits make up the counters, apart from the lines written back in the end.
ChargesExact ==
  /\ \A f \in Fields : f # "stores" \/ ~finished => ChargedIn(counts, f) + Waiting[f] = totals[f]
  /\ finished => ChargedIn(counts, "stores") <= totals["stores"]

\* The inductive invariant: AccountingExact also within a batch, with what the batch holds back,
\* and that the last block and the stack of each thread are those of its trace.
CfgInvariant ==
  /\ CfgTypeOK /\ BatchShaped /\ Traced
  /\ EdgesExact /\ ExecsExact /\ EntriesExact /\ OpsExact /\ ChargesExact

\* A bag with a run of n added to it.
WithRun(bag, x, n) == IF n = 0 THEN bag ELSE bag (+) Copies(x, n)

\* What it counts.
LEMMA WithRunIs ==
  ASSUME NEW bag, Counted(bag), NEW x, NEW n \in Nat, NEW more, more = WithRun(bag, x, n)
  PROVE  Counted(more) /\ \A e : Times(e, more) = Times(e, bag) + IF e = x THEN n ELSE 0
<1>1. CASE n = 0
  <2>1. more = bag BY <1>1 DEF WithRun
  <2>2. \A e : Times(e, bag) \in Nat BY TimesType
  <2> QED BY <1>1, <2>1, <2>2
<1>2. CASE n # 0
  <2>1. more = bag (+) Copies(x, n) BY <1>2 DEF WithRun
  <2> QED BY <2>1, TimesMore
<1> QED BY <1>1, <1>2

\* The fields of the batch.
LEMMA BatchIs ==
  ASSUME CfgTypeOK, batch # None
  PROVE  /\ batch \in Batches /\ batch.thread \in Tids /\ batch.run \in Handles \cup {None}
         /\ batch.count \in Nat /\ batch.block \in Blocks \cup {None} /\ batch.pending \in Amounts
<1>1. batch \in Batches BY DEF CfgTypeOK
<1> QED BY <1>1 DEF Batches, Amounts

\* RunEdges and RunExecs add the run.
LEMMA RunIs ==
  ASSUME CfgTypeOK, batch # None
  PROVE  /\ RunEdges = WithRun(edges, <<BlockOf[batch.run], BlockOf[batch.run]>>, batch.count)
         /\ RunExecs = WithRun(execs, <<BlockOf[batch.run], batch.thread>>, batch.count)
         /\ Counted(RunEdges) /\ Counted(RunExecs)
<1>1. RunEdges = WithRun(edges, <<BlockOf[batch.run], BlockOf[batch.run]>>, batch.count) BY DEF RunEdges, WithRun
<1>2. RunExecs = WithRun(execs, <<BlockOf[batch.run], batch.thread>>, batch.count) BY DEF RunExecs, WithRun
<1>3. batch.count \in Nat BY BatchIs
<1>4. Counted(edges) /\ Counted(execs) BY DEF CfgTypeOK
<1>5. Counted(RunEdges) BY <1>1, <1>3, <1>4, WithRunIs
<1>6. Counted(RunExecs) BY <1>2, <1>3, <1>4, WithRunIs
<1> QED BY <1>1, <1>2, <1>5, <1>6

----------------------------------------------------------------------------
(* DynamicCfg: an execution *)

\* Two bags count the same.
AsMany(more, bag) == \A e : Times(e, more) = Times(e, bag)
\* One x more.
OneMore(more, bag, x) == \A e : Times(e, more) = Times(e, bag) + IF e = x THEN 1 ELSE 0

\* An execution of h where P is what it follows in s: an entry.
Entered(s, h, P) == P = {} /\ entries' = entries \cup {BlockOf[h]} /\ AsMany(GraphEdges', GraphEdges)
\* An edge.
Continued(s, h, P) ==
  /\ entries' = entries
  /\ \E i : P = {i} /\ OneMore(GraphEdges', GraphEdges, <<BlockOf[s[i]], BlockOf[h]>>)

\* The graph after an execution.
LEMMA GraphGrows ==
  ASSUME NEW t, NEW h, Grows(trace, trace', t, h), OpsExact, EdgesExact, EntriesExact, ExecsExact,
         NEW s, s = trace[t], NEW P, P = Previous(s, Len(s) + 1), Entered(s, h, P) \/ Continued(s, h, P),
         OneMore(GraphExecs', GraphExecs, <<BlockOf[h], t>>)
  PROVE  EdgesExact' /\ EntriesExact' /\ ExecsExact'
<1>1. IsFiniteSet(PositionsOf(trace)) BY DEF OpsExact
<1>2. PICK later : later = trace' OBVIOUS
<1>3. Grows(trace, later, t, h) BY <1>2
<1>4. ASSUME NEW a \in Blocks, NEW b \in Blocks
      PROVE  Times(<<a, b>>, GraphEdges') = Cardinality(EdgesAt(trace', a, b))
  <2>1. NewEdge(s, h, a, b) <=> (BlockOf[h] = b /\ \E i \in P : BlockOf[s[i]] = a) BY DEF NewEdge
  <2>k. PICK k : k = Cardinality(EdgesAt(trace, a, b)) OBVIOUS
  <2>m. PICK m : m = Cardinality(EdgesAt(later, a, b)) OBVIOUS
  <2>2. k \in Nat /\ (NewEdge(s, h, a, b) => m = k + 1) /\ (~NewEdge(s, h, a, b) => m = k)
    BY <1>1, <1>3, <2>k, <2>m, EdgesGrow
  <2>3. Times(<<a, b>>, GraphEdges) = k BY <2>k DEF EdgesExact
  <2>4. CASE Entered(s, h, P)
    <3>1. ~NewEdge(s, h, a, b) BY <2>1, <2>4 DEF Entered
    <3>2. Times(<<a, b>>, GraphEdges') = Times(<<a, b>>, GraphEdges) BY <2>4 DEF Entered, AsMany
    <3> QED BY <1>2, <2>m, <2>2, <2>3, <3>1, <3>2
  <2>5. CASE Continued(s, h, P)
    <3>1. PICK i : P = {i} /\ OneMore(GraphEdges', GraphEdges, <<BlockOf[s[i]], BlockOf[h]>>)
      BY <2>5 DEF Continued
    <3>2. NewEdge(s, h, a, b) <=> <<a, b>> = <<BlockOf[s[i]], BlockOf[h]>> BY <2>1, <3>1
    <3>3. Times(<<a, b>>, GraphEdges') = Times(<<a, b>>, GraphEdges)
            + IF <<a, b>> = <<BlockOf[s[i]], BlockOf[h]>> THEN 1 ELSE 0
      BY <3>1 DEF OneMore
    <3> QED BY <1>2, <2>m, <2>2, <2>3, <3>2, <3>3
  <2> QED BY <2>4, <2>5
<1>5. EdgesExact' BY <1>4 DEF EdgesExact
<1>6. EntriesExact'
  <2>1. entries = EntriesAt(trace) BY DEF EntriesExact
  <2>2. EntriesAt(later) = EntriesAt(trace) \cup IF P = {} THEN {BlockOf[h]} ELSE {}
    BY <1>3, EntriesGrow
  <2>3. entries' = EntriesAt(later) BY <2>1, <2>2 DEF Entered, Continued
  <2> QED BY <1>2, <2>3 DEF EntriesExact
<1>7. ASSUME NEW b \in Blocks, NEW x \in Tids
      PROVE  Times(<<b, x>>, GraphExecs') = Cardinality(ExecsAt(trace'[x], b))
  <2>k. PICK k : k = Cardinality(ExecsAt(trace[x], b)) OBVIOUS
  <2>m. PICK m : m = Cardinality(ExecsAt(later[x], b)) OBVIOUS
  <2>1. k \in Nat /\ (x = t /\ BlockOf[h] = b => m = k + 1) /\ (~(x = t /\ BlockOf[h] = b) => m = k)
    BY <1>3, <2>k, <2>m, ExecsGrow
  <2>2. Times(<<b, x>>, GraphExecs) = k BY <2>k DEF ExecsExact
  <2>3. (x = t /\ BlockOf[h] = b) <=> <<b, x>> = <<BlockOf[h], t>> OBVIOUS
  <2>4. Times(<<b, x>>, GraphExecs') = Times(<<b, x>>, GraphExecs) + IF <<b, x>> = <<BlockOf[h], t>> THEN 1 ELSE 0
    BY DEF OneMore
  <2> QED BY <1>2, <2>m, <2>1, <2>2, <2>3, <2>4
<1>8. ExecsExact' BY <1>7 DEF ExecsExact
<1> QED BY <1>5, <1>6, <1>8

\* The thread of an execution, followed, and the others as they were.
LEMMA TracedStill ==
  ASSUME CfgTypeOK, Traced, NEW t \in Tids, NEW h \in Handles, NEW c,
         trace' = [trace EXCEPT ![t] = Append(@, h)], last' = [last EXCEPT ![t] = h],
         calls' = [calls EXCEPT ![t] = c], Recorded(Append(trace[t], h), h, c)
  PROVE  Traced' /\ Grows(trace, trace', t, h) /\ trace' \in [Tids -> Seq(Handles)]
         /\ last' \in [Tids -> Handles \cup {None}] /\ calls' \in [Tids -> Seq(Blocks)]
<1>1. /\ trace \in [Tids -> Seq(Handles)] /\ last \in [Tids -> Handles \cup {None}]
      /\ calls \in [Tids -> Seq(Blocks)]
  BY DEF CfgTypeOK
<1>2. Append(trace[t], h) \in Seq(Handles) /\ c \in Seq(Blocks) BY DEF Recorded
<1>3. trace' \in [Tids -> Seq(Handles)] /\ trace'[t] = Append(trace[t], h) /\ \A x \in Tids : x # t => trace'[x] = trace[x]
  BY <1>1, <1>2
<1>4. last' \in [Tids -> Handles \cup {None}] /\ last'[t] = h /\ \A x \in Tids : x # t => last'[x] = last[x]
  BY <1>1
<1>5. calls' \in [Tids -> Seq(Blocks)] /\ calls'[t] = c /\ \A x \in Tids : x # t => calls'[x] = calls[x]
  BY <1>1, <1>2
<1>6. ASSUME NEW x \in Tids PROVE Recorded(trace'[x], last'[x], calls'[x])
  <2>1. CASE x = t BY <1>3, <1>4, <1>5, <2>1
  <2>2. CASE x # t BY <1>3, <1>4, <1>5, <2>2 DEF Traced
  <2> QED BY <2>1, <2>2
<1>7. Traced' BY <1>6 DEF Traced
<1>8. Grows(trace, trace', t, h) BY <1>1 DEF Grows
<1> QED BY <1>3, <1>4, <1>5, <1>7, <1>8

----------------------------------------------------------------------------
(* DynamicCfg: each action keeps the invariant *)

\* What an action does that executes nothing.
LEMMA GraphStays ==
  ASSUME Traced, EdgesExact, ExecsExact, EntriesExact, trace' = trace, last' = last, calls' = calls,
         entries' = entries, GraphEdges' = GraphEdges, GraphExecs' = GraphExecs
  PROVE  Traced' /\ EdgesExact' /\ ExecsExact' /\ EntriesExact'
<1>1. Traced' BY DEF Traced
<1>2. EdgesExact' BY DEF EdgesExact
<1>3. ExecsExact' BY DEF ExecsExact
<1>4. EntriesExact' BY DEF EntriesExact
<1> QED BY <1>1, <1>2, <1>3, <1>4

\* The cost of one execution more.
LEMMA CostAdds ==
  ASSUME NEW n \in Nat, NEW f \in Fields
  PROVE  Cost(0)[f] = 0 /\ Cost(n + 1)[f] = Cost(n)[f] + Cost(1)[f]
<1>1. \A m \in Nat : Cost(m) = [[Nothing EXCEPT !["ops"] = m] EXCEPT !["bytes"] = m] BY DEF Cost
<1>2. Nothing \in [Fields -> Nat] BY NothingIs DEF Amounts
<1>3. ASSUME NEW m \in Nat PROVE Cost(m)[f] = IF f = "ops" \/ f = "bytes" THEN m ELSE 0
  <2>1. PICK x : x = [Nothing EXCEPT !["ops"] = m] OBVIOUS
  <2>2. x \in [Fields -> Nat] /\ x[f] = IF f = "ops" THEN m ELSE 0 BY <1>2, <2>1, NothingIs
  <2>3. Cost(m) = [x EXCEPT !["bytes"] = m] BY <1>1, <2>1
  <2>4. Cost(m)[f] = IF f = "bytes" THEN m ELSE x[f] BY <2>2, <2>3
  <2> QED BY <2>2, <2>4
<1>4. n + 1 \in Nat /\ 0 \in Nat /\ 1 \in Nat OBVIOUS
<1>5. PICK k \in Nat : k = n + 1 BY <1>4
<1>6. Cost(k)[f] = IF f = "ops" \/ f = "bytes" THEN k ELSE 0 BY <1>3
<1>7. Cost(n)[f] = IF f = "ops" \/ f = "bytes" THEN n ELSE 0 BY <1>3
<1>8. Cost(1)[f] = IF f = "ops" \/ f = "bytes" THEN 1 ELSE 0 BY <1>3, <1>4
<1>9. Cost(0)[f] = 0 BY <1>3, <1>4
<1>10. Cost(k)[f] = Cost(n)[f] + Cost(1)[f] BY <1>5, <1>6, <1>7, <1>8
<1> QED BY <1>5, <1>9, <1>10

\* What the run charges its block with,
LEMMA RunCharges ==
  ASSUME CfgTypeOK, BatchShaped, batch # None, NEW c, c = RunCounts
  PROVE  /\ c \in [Blocks -> Amounts]
         /\ \A f \in Fields : ChargedIn(c, f) = ChargedIn(counts, f) + Cost(batch.count)[f]
<1>1. counts \in [Blocks -> Amounts] BY DEF CfgTypeOK
<1>2. PICK n \in Nat : n = batch.count BY BatchIs
<1>3. CASE n = 0
  <2>1. c = counts BY <1>2, <1>3 DEF RunCounts
  <2>2. \A f \in Fields : Cost(n)[f] = 0 /\ ChargedIn(counts, f) \in Nat BY <1>1, <1>3, CostAdds, ChargedType
  <2> QED BY <1>1, <1>2, <2>1, <2>2
<1>4. CASE n # 0
  <2>1. batch.run \in Handles BY <1>2, <1>4, BatchIs DEF BatchShaped
  <2>2. PICK b \in Blocks : b = BlockOf[batch.run] BY <2>1, FlowIs
  <2>3. PICK x \in Amounts : x = Cost(n) BY CostIs
  <2>4. PICK k \in [Blocks -> Amounts] : k = counts BY <1>1
  <2>5. c = Charge(k, b, x) BY <1>2, <1>4, <2>2, <2>3, <2>4 DEF RunCounts, Charge
  <2>6. c \in [Blocks -> Amounts] /\ \A f \in Fields : ChargedIn(c, f) = ChargedIn(k, f) + x[f]
    BY <2>5, ChargedMore
  <2> QED BY <1>2, <2>3, <2>4, <2>6
<1> QED BY <1>3, <1>4

\* and what is pending.
LEMMA PendingCharges ==
  ASSUME CfgTypeOK, BatchShaped, batch # None, NEW c \in [Blocks -> Amounts], NEW d, d = PendingFlush(c)
  PROVE  /\ d \in [Blocks -> Amounts]
         /\ \A f \in Fields : ChargedIn(d, f) = ChargedIn(c, f) + batch.pending[f]
<1>1. CASE batch.pending = Nothing
  <2>1. d = c BY <1>1 DEF PendingFlush
  <2>2. \A f \in Fields : batch.pending[f] = 0 /\ ChargedIn(c, f) \in Nat BY <1>1, NothingIs, ChargedType
  <2> QED BY <2>1, <2>2
<1>2. CASE batch.pending # Nothing
  <2>1. batch.block \in Blocks /\ batch.pending \in Amounts BY <1>2, BatchIs DEF BatchShaped
  <2>2. PICK b \in Blocks : b = batch.block BY <2>1
  <2>3. PICK x \in Amounts : x = batch.pending BY <2>1
  <2>4. d = Charge(c, b, x) BY <1>2, <2>2, <2>3 DEF PendingFlush, Charge
  <2>5. d \in [Blocks -> Amounts] /\ \A f \in Fields : ChargedIn(d, f) = ChargedIn(c, f) + x[f]
    BY <2>4, ChargedMore
  <2> QED BY <2>3, <2>5
<1> QED BY <1>1, <1>2

\* What waits is an amount.
LEMMA WaitingIs == ASSUME CfgTypeOK PROVE Waiting \in Amounts
BY BatchIs, NothingIs DEF Waiting

\* Whatever is added to the counters is charged or waits to be.
LEMMA ChargesKept ==
  ASSUME CfgTypeOK, ChargesExact, ~finished, ~finished', NEW d \in Amounts, totals' = Add(totals, d),
         \A f \in Fields : ChargedIn(counts', f) + Waiting'[f] = (ChargedIn(counts, f) + Waiting[f]) + d[f]
  PROVE  ChargesExact' /\ totals' \in Amounts /\ totals'["ops"] = totals["ops"] + d["ops"]
<1>1. totals \in Amounts BY DEF CfgTypeOK
<1>2. totals' \in Amounts /\ \A f \in Fields : totals'[f] = totals[f] + d[f] BY <1>1, AddIs
<1>3. \A f \in Fields : ChargedIn(counts, f) + Waiting[f] = totals[f] BY DEF ChargesExact
<1>4. \A f \in Fields : ChargedIn(counts', f) + Waiting'[f] = totals'[f] BY <1>2, <1>3
<1>5. ChargesExact' BY <1>4 DEF ChargesExact
<1> QED BY <1>2, <1>5, FieldsAre

\* The parts of the invariant that say how many executions there were.
LEMMA OpsKept ==
  ASSUME OpsExact, trace' = trace, totals'["ops"] + RunCount' = totals["ops"] + RunCount
  PROVE  OpsExact'
BY DEF OpsExact

\* A batch begins holding nothing back.
LEMMA BeginKeeps ==
  ASSUME CfgInvariant, NEW t \in Tids, Begin(t) PROVE CfgInvariant'
<1> USE DEF CfgInvariant
<1>1. /\ batch = None /\ finished = FALSE /\ UNCHANGED <<last, calls, entries, edges, execs, counts, totals, finished, trace>>
      /\ batch' = [thread |-> t, run |-> None, count |-> 0, block |-> None, pending |-> Nothing]
  BY DEF Begin, CfgTypeOK
<1>2. batch' \in Batches
  <2>1. Nothing \in [Fields -> Nat] BY NothingIs DEF Amounts
  <2> QED BY <1>1, <2>1 DEF Batches
<1>3. batch' # None BY <1>2, CfgAssumption
<1>4. batch'.count = 0 /\ batch'.run = None /\ batch'.pending = Nothing BY <1>1
<1>5. CfgTypeOK' BY <1>1, <1>2 DEF CfgTypeOK
<1>6. BatchShaped' BY <1>1, <1>4 DEF BatchShaped
<1>7. GraphEdges' = GraphEdges /\ GraphExecs' = GraphExecs
  BY <1>1, <1>3, <1>4 DEF GraphEdges, GraphExecs, RunEdges, RunExecs
<1>8. Traced' /\ EdgesExact' /\ ExecsExact' /\ EntriesExact' BY <1>1, <1>7, GraphStays
<1>9. RunCount' = RunCount /\ Waiting' = Waiting BY <1>1, <1>3, <1>4 DEF RunCount, Waiting
<1>10. OpsExact' BY <1>1, <1>9, OpsKept
<1>11. ChargesExact' BY <1>1, <1>9 DEF ChargesExact
<1> QED BY <1>5, <1>6, <1>8, <1>10, <1>11

\* The end of a batch records and charges all that it held back.
LEMMA EndBatchKeeps ==
  ASSUME CfgInvariant, EndBatch PROVE CfgInvariant'
<1> USE DEF CfgInvariant
<1>1. /\ batch # None /\ edges' = RunEdges /\ execs' = RunExecs /\ counts' = Charged /\ batch' = None
      /\ totals' = Add(totals, Cost(batch.count))
      /\ UNCHANGED <<last, calls, entries, finished, trace>>
  BY DEF EndBatch
<1>2. finished = FALSE BY <1>1 DEF BatchShaped, CfgTypeOK
<1>3. PICK n \in Nat : n = batch.count BY <1>1, BatchIs
<1>4. PICK c : c = RunCounts OBVIOUS
<1>5. /\ c \in [Blocks -> Amounts]
      /\ \A f \in Fields : ChargedIn(c, f) = ChargedIn(counts, f) + Cost(n)[f]
  BY <1>1, <1>3, <1>4, RunCharges
<1>6. PICK d : d = PendingFlush(c) OBVIOUS
<1>7. /\ d \in [Blocks -> Amounts]
      /\ \A f \in Fields : ChargedIn(d, f) = ChargedIn(c, f) + batch.pending[f]
  BY <1>1, <1>5, <1>6, PendingCharges
<1>8. counts' = d BY <1>1, <1>4, <1>6 DEF Charged
<1>9. Waiting = batch.pending /\ Waiting' = Nothing /\ RunCount = n /\ RunCount' = 0
  BY <1>1, <1>3 DEF Waiting, RunCount
<1>10. Cost(n) \in Amounts /\ Cost(n)["ops"] = n BY CostIs
<1>11. ASSUME NEW f \in Fields
       PROVE  ChargedIn(counts', f) + Waiting'[f] = (ChargedIn(counts, f) + Waiting[f]) + Cost(n)[f]
  <2>1. PICK x \in Nat : x = ChargedIn(counts, f) BY ChargedType DEF CfgTypeOK
  <2>2. PICK y \in Nat : y = Cost(n)[f] BY <1>10 DEF Amounts
  <2>3. PICK z \in Nat : z = Waiting[f] BY WaitingIs DEF Amounts
  <2>4. ChargedIn(counts', f) = (x + y) + z BY <1>5, <1>7, <1>8, <1>9, <2>1, <2>2, <2>3
  <2>5. Waiting'[f] = 0 BY <1>9, NothingIs
  <2> QED BY <2>1, <2>2, <2>3, <2>4, <2>5
<1>12. PICK cost \in Amounts : cost = Cost(n) BY <1>10
<1>13. ChargesExact' /\ totals' \in Amounts /\ totals'["ops"] = totals["ops"] + cost["ops"]
  BY <1>1, <1>2, <1>3, <1>11, <1>12, ChargesKept
<1>14. CfgTypeOK' BY <1>1, <1>7, <1>8, <1>13, RunIs DEF CfgTypeOK
<1>15. BatchShaped' BY <1>1 DEF BatchShaped
<1>16. GraphEdges' = GraphEdges /\ GraphExecs' = GraphExecs BY <1>1 DEF GraphEdges, GraphExecs
<1>17. Traced' /\ EdgesExact' /\ ExecsExact' /\ EntriesExact' BY <1>1, <1>16, GraphStays
<1>18. OpsExact'
  <2>1. totals["ops"] \in Nat BY FieldsAre DEF CfgTypeOK, Amounts
  <2>2. totals'["ops"] + RunCount' = totals["ops"] + RunCount BY <1>9, <1>10, <1>12, <1>13, <2>1
  <2> QED BY <1>1, <2>2, OpsKept
<1> QED BY <1>13, <1>14, <1>15, <1>17, <1>18

\* So does a handle that is not registered with the run before it.
LEMMA ExecUnknownKeeps ==
  ASSUME CfgInvariant, ExecUnknown PROVE CfgInvariant'
<1> USE DEF CfgInvariant
<1>1. /\ batch # None /\ edges' = RunEdges /\ execs' = RunExecs /\ counts' = RunCounts
      /\ batch' = [batch EXCEPT !.run = None, !.count = 0]
      /\ totals' = Add(totals, Cost(batch.count))
      /\ UNCHANGED <<last, calls, entries, finished, trace>>
  BY DEF ExecUnknown
<1>2. finished = FALSE BY <1>1 DEF BatchShaped, CfgTypeOK
<1>3. PICK n \in Nat : n = batch.count BY <1>1, BatchIs
<1>4. batch \in Batches /\ batch.pending \in Amounts BY <1>1, BatchIs
<1>5. /\ batch' \in Batches /\ batch'.thread = batch.thread /\ batch'.run = None
      /\ batch'.count = 0 /\ batch'.block = batch.block /\ batch'.pending = batch.pending
  BY <1>1, <1>4 DEF Batches
<1>6. batch' # None BY <1>5, CfgAssumption
<1>7. PICK c : c = counts' OBVIOUS
<1>8. /\ c \in [Blocks -> Amounts]
      /\ \A f \in Fields : ChargedIn(c, f) = ChargedIn(counts, f) + Cost(n)[f]
  BY <1>1, <1>3, <1>7, RunCharges
<1>9. Waiting' = Waiting /\ RunCount = n /\ RunCount' = 0
  BY <1>1, <1>3, <1>5, <1>6 DEF Waiting, RunCount
<1>10. Cost(n) \in Amounts /\ Cost(n)["ops"] = n BY CostIs
<1>11. ASSUME NEW f \in Fields
       PROVE  ChargedIn(counts', f) + Waiting'[f] = (ChargedIn(counts, f) + Waiting[f]) + Cost(n)[f]
  <2>1. PICK x \in Nat : x = ChargedIn(counts, f) BY ChargedType DEF CfgTypeOK
  <2>2. PICK y \in Nat : y = Cost(n)[f] BY <1>10 DEF Amounts
  <2>3. PICK z \in Nat : z = Waiting[f] BY WaitingIs DEF Amounts
  <2>4. ChargedIn(counts', f) = x + y BY <1>7, <1>8, <2>1, <2>2
  <2> QED BY <1>9, <2>1, <2>2, <2>3, <2>4
<1>12. PICK cost \in Amounts : cost = Cost(n) BY <1>10
<1>13. ChargesExact' /\ totals' \in Amounts /\ totals'["ops"] = totals["ops"] + cost["ops"]
  BY <1>1, <1>2, <1>3, <1>11, <1>12, ChargesKept
<1>14. CfgTypeOK' BY <1>1, <1>5, <1>7, <1>8, <1>13, RunIs DEF CfgTypeOK
<1>15. BatchShaped' BY <1>1, <1>5 DEF BatchShaped
<1>16. GraphEdges' = GraphEdges /\ GraphExecs' = GraphExecs
  BY <1>1, <1>5, <1>6 DEF GraphEdges, GraphExecs, RunEdges, RunExecs
<1>17. Traced' /\ EdgesExact' /\ ExecsExact' /\ EntriesExact' BY <1>1, <1>16, GraphStays
<1>18. OpsExact'
  <2>1. totals["ops"] \in Nat BY FieldsAre DEF CfgTypeOK, Amounts
  <2>2. totals'["ops"] + RunCount' = totals["ops"] + RunCount BY <1>9, <1>10, <1>12, <1>13, <2>1
  <2> QED BY <1>1, <2>2, OpsKept
<1> QED BY <1>13, <1>14, <1>15, <1>17, <1>18

\* Lines written back in the end are in the counters only.
LEMMA FinalizeKeeps ==
  ASSUME CfgInvariant, NEW dirty \in Nat, Finalize(dirty) PROVE CfgInvariant'
<1> USE DEF CfgInvariant
<1>1. /\ batch = None /\ finished = FALSE /\ finished' = TRUE
      /\ totals' = [totals EXCEPT !["stores"] = @ + dirty]
      /\ UNCHANGED <<last, calls, entries, edges, execs, counts, batch, trace>>
  BY DEF Finalize, CfgTypeOK
<1>2. totals \in [Fields -> Nat] BY DEF CfgTypeOK, Amounts
<1>3. /\ totals' \in [Fields -> Nat] /\ totals'["stores"] = totals["stores"] + dirty
      /\ \A f \in Fields : f # "stores" => totals'[f] = totals[f]
  BY <1>1, <1>2, FieldsAre
<1>4. CfgTypeOK' BY <1>1, <1>3 DEF CfgTypeOK, Amounts
<1>5. BatchShaped' BY <1>1 DEF BatchShaped
<1>6. GraphEdges' = GraphEdges /\ GraphExecs' = GraphExecs BY <1>1 DEF GraphEdges, GraphExecs
<1>7. Traced' /\ EdgesExact' /\ ExecsExact' /\ EntriesExact' BY <1>1, <1>6, GraphStays
<1>8. RunCount' = RunCount /\ Waiting' = Waiting /\ Waiting = Nothing BY <1>1 DEF RunCount, Waiting
<1>9. OpsExact'
  <2>1. totals'["ops"] = totals["ops"] BY <1>3, FieldsAre
  <2> QED BY <1>1, <1>8, <2>1, OpsKept
<1>10. ChargesExact'
  <2>1. \A f \in Fields : ChargedIn(counts, f) + Waiting[f] = totals[f] BY <1>1 DEF ChargesExact
  <2>2. \A f \in Fields : f # "stores" => ChargedIn(counts', f) + Waiting'[f] = totals'[f]
    BY <1>1, <1>3, <1>8, <2>1
  <2>3. ChargedIn(counts', "stores") <= totals'["stores"]
    <3>1. PICK x \in Nat : x = ChargedIn(counts, "stores") BY FieldsAre, ChargedType DEF CfgTypeOK
    <3>2. x + 0 = totals["stores"] BY <1>8, <2>1, <3>1, FieldsAre, NothingIs
    <3> QED BY <1>1, <1>3, <3>1, <3>2
  <2> QED BY <1>1, <2>2, <2>3 DEF ChargesExact
<1> QED BY <1>4, <1>5, <1>7, <1>9, <1>10

\* An access that cannot be classified is charged at once.
LEMMA UnclassifiedKeeps ==
  ASSUME CfgInvariant, NEW h \in Handles, Unclassified(h) PROVE CfgInvariant'
<1> USE DEF CfgInvariant
<1>0. PICK one : one = [Nothing EXCEPT !["unclassified"] = 1] OBVIOUS
<1>1. /\ batch # None /\ totals' = Add(totals, one)
      /\ counts' = [counts EXCEPT ![BlockOf[h]] = Add(@, one)]
      /\ UNCHANGED <<last, calls, entries, edges, execs, batch, finished, trace>>
  BY <1>0 DEF Unclassified
<1>2. finished = FALSE BY <1>1 DEF BatchShaped, CfgTypeOK
<1>3. one \in Amounts /\ one["ops"] = 0
  <2>1. Nothing \in [Fields -> Nat] BY NothingIs DEF Amounts
  <2> QED BY <1>0, <2>1, FieldsAre, NothingIs DEF Amounts
<1>4. PICK c \in [Blocks -> Amounts] : c = counts BY DEF CfgTypeOK
<1>5. PICK b \in Blocks : b = BlockOf[h] BY FlowIs
<1>6. PICK d : d = counts' OBVIOUS
<1>7. d = Charge(c, b, one) BY <1>1, <1>4, <1>5, <1>6 DEF Charge
<1>8. d \in [Blocks -> Amounts] /\ \A f \in Fields : ChargedIn(d, f) = ChargedIn(c, f) + one[f]
  BY <1>3, <1>7, ChargedMore
<1>9. Waiting' = Waiting /\ RunCount' = RunCount BY <1>1 DEF Waiting, RunCount
<1>10. ASSUME NEW f \in Fields
       PROVE  ChargedIn(counts', f) + Waiting'[f] = (ChargedIn(counts, f) + Waiting[f]) + one[f]
  <2>1. PICK x \in Nat : x = ChargedIn(counts, f) BY ChargedType DEF CfgTypeOK
  <2>2. PICK y \in Nat : y = one[f] BY <1>3 DEF Amounts
  <2>3. PICK z \in Nat : z = Waiting[f] BY WaitingIs DEF Amounts
  <2>4. ChargedIn(counts', f) = x + y BY <1>4, <1>6, <1>8, <2>1, <2>2
  <2> QED BY <1>9, <2>1, <2>2, <2>3, <2>4
<1>11. ChargesExact' /\ totals' \in Amounts /\ totals'["ops"] = totals["ops"] + one["ops"]
  BY <1>1, <1>2, <1>3, <1>10, ChargesKept
<1>12. CfgTypeOK' BY <1>1, <1>6, <1>8, <1>11 DEF CfgTypeOK
<1>13. BatchShaped' BY <1>1 DEF BatchShaped
<1>14. GraphEdges' = GraphEdges /\ GraphExecs' = GraphExecs
  BY <1>1 DEF GraphEdges, GraphExecs, RunEdges, RunExecs
<1>15. Traced' /\ EdgesExact' /\ ExecsExact' /\ EntriesExact' BY <1>1, <1>14, GraphStays
<1>16. OpsExact'
  <2>1. totals["ops"] \in Nat BY FieldsAre DEF CfgTypeOK, Amounts
  <2>2. totals'["ops"] = totals["ops"] BY <1>3, <1>11, <2>1
  <2> QED BY <1>1, <1>9, <2>2, OpsKept
<1> QED BY <1>11, <1>12, <1>13, <1>15, <1>16

\* An access waits with those of its block, and those of another block are charged.
LEMMA MemoryRecordKeeps ==
  ASSUME CfgInvariant, NEW b \in Blocks, NEW fetched \in Nat, NEW stored \in Nat,
         MemoryRecord(b, fetched, stored)
  PROVE  CfgInvariant'
<1> USE DEF CfgInvariant
<1>0. PICK seen : seen = [[[Nothing EXCEPT !["bytes"] = 1] EXCEPT !["loads"] = fetched] EXCEPT !["stores"] = stored]
  OBVIOUS
<1>1. /\ batch # None /\ totals' = Add(totals, seen)
      /\ UNCHANGED <<last, calls, entries, edges, execs, finished, trace>>
      /\ \/ /\ batch.block = b /\ counts' = counts
            /\ batch' = [batch EXCEPT !.pending = Add(@, seen)]
         \/ /\ batch.block # b /\ counts' = PendingFlush(counts)
            /\ batch' = [batch EXCEPT !.block = b, !.pending = seen]
  BY <1>0 DEF MemoryRecord
<1>2. finished = FALSE BY <1>1 DEF BatchShaped, CfgTypeOK
<1>3. seen \in Amounts /\ seen["ops"] = 0
  <2>1. Nothing \in [Fields -> Nat] BY NothingIs DEF Amounts
  <2>2. PICK x : x = [Nothing EXCEPT !["bytes"] = 1] OBVIOUS
  <2>3. x \in [Fields -> Nat] /\ x["ops"] = 0 BY <2>1, <2>2, FieldsAre, NothingIs
  <2>4. PICK y : y = [x EXCEPT !["loads"] = fetched] OBVIOUS
  <2>5. y \in [Fields -> Nat] /\ y["ops"] = 0 BY <2>3, <2>4, FieldsAre
  <2>6. seen = [y EXCEPT !["stores"] = stored] BY <1>0, <2>2, <2>4
  <2> QED BY <2>5, <2>6, FieldsAre DEF Amounts
<1>4. batch \in Batches /\ batch.pending \in Amounts BY <1>1, BatchIs
<1>5. PICK p \in Amounts : p = batch.pending BY <1>4
<1>6. PICK q \in Amounts : q = IF batch.block = b THEN Add(p, seen) ELSE seen BY <1>3, AddIs
<1>7. /\ batch' \in Batches /\ batch'.thread = batch.thread /\ batch'.run = batch.run
      /\ batch'.count = batch.count /\ batch'.block = b /\ batch'.pending = q
  <2>1. q \in [Fields -> Nat] BY <1>6 DEF Amounts
  <2>2. CASE batch.block = b
    <3>1. batch' = [batch EXCEPT !.pending = q] BY <1>1, <1>5, <1>6, <2>2
    <3> QED BY <1>4, <2>1, <2>2, <3>1 DEF Batches
  <2>3. CASE batch.block # b
    <3>1. batch' = [batch EXCEPT !.block = b, !.pending = q] BY <1>1, <1>6, <2>3
    <3> QED BY <1>4, <2>1, <3>1 DEF Batches
  <2> QED BY <2>2, <2>3
<1>8. batch' # None BY <1>7, CfgAssumption
<1>9. Waiting = p /\ Waiting' = q /\ RunCount' = RunCount BY <1>1, <1>5, <1>7, <1>8 DEF Waiting, RunCount
<1>10. counts \in [Blocks -> Amounts] BY DEF CfgTypeOK
<1>11. PICK c \in [Blocks -> Amounts] : c = counts BY <1>10
<1>12. PICK d : d = counts' OBVIOUS
<1>13. /\ d \in [Blocks -> Amounts]
       /\ \A f \in Fields : ChargedIn(d, f) + q[f] = (ChargedIn(c, f) + p[f]) + seen[f]
  <2>1. CASE batch.block = b
    <3>1. d = c /\ q = Add(p, seen) BY <1>1, <1>6, <1>11, <1>12, <2>1
    <3>2. ASSUME NEW f \in Fields PROVE ChargedIn(d, f) + q[f] = (ChargedIn(c, f) + p[f]) + seen[f]
      <4>1. q[f] = p[f] + seen[f] BY <1>3, <3>1, AddIs
      <4>2. ChargedIn(c, f) \in Nat BY ChargedType
      <4>3. p[f] \in Nat /\ seen[f] \in Nat BY <1>3 DEF Amounts
      <4> QED BY <3>1, <4>1, <4>2, <4>3
    <3> QED BY <3>1, <3>2
  <2>2. CASE batch.block # b
    <3>1. d = PendingFlush(c) /\ q = seen BY <1>1, <1>6, <1>11, <1>12, <2>2
    <3>2. d \in [Blocks -> Amounts] /\ \A f \in Fields : ChargedIn(d, f) = ChargedIn(c, f) + batch.pending[f]
      BY <1>1, <3>1, PendingCharges
    <3> QED BY <1>5, <3>1, <3>2
  <2> QED BY <2>1, <2>2
<1>14. \A f \in Fields : ChargedIn(counts', f) + Waiting'[f] = (ChargedIn(counts, f) + Waiting[f]) + seen[f]
  BY <1>9, <1>11, <1>12, <1>13
<1>15. ChargesExact' /\ totals' \in Amounts /\ totals'["ops"] = totals["ops"] + seen["ops"]
  BY <1>1, <1>2, <1>3, <1>14, ChargesKept
<1>16. CfgTypeOK' BY <1>1, <1>7, <1>12, <1>13, <1>15 DEF CfgTypeOK
<1>17. BatchShaped'
  <2>1. b # None BY CfgAssumption
  <2> QED BY <1>1, <1>7, <2>1 DEF BatchShaped
<1>18. GraphEdges' = GraphEdges /\ GraphExecs' = GraphExecs
  BY <1>1, <1>7, <1>8 DEF GraphEdges, GraphExecs, RunEdges, RunExecs
<1>19. Traced' /\ EdgesExact' /\ ExecsExact' /\ EntriesExact' BY <1>1, <1>18, GraphStays
<1>20. OpsExact'
  <2>1. totals["ops"] \in Nat BY FieldsAre DEF CfgTypeOK, Amounts
  <2>2. totals'["ops"] = totals["ops"] BY <1>3, <1>15, <2>1
  <2> QED BY <1>1, <1>9, <2>2, OpsKept
<1> QED BY <1>15, <1>16, <1>17, <1>19, <1>20

\* One execution more.
LEMMA OpsGrow ==
  ASSUME OpsExact, NEW t, NEW h, Grows(trace, trace', t, h), totals["ops"] + RunCount \in Nat,
         totals'["ops"] + RunCount' = (totals["ops"] + RunCount) + 1
  PROVE  OpsExact'
<1>1. PICK later : later = trace' OBVIOUS
<1>2. Grows(trace, later, t, h) /\ IsFiniteSet(PositionsOf(trace)) BY <1>1 DEF OpsExact
<1>3. /\ IsFiniteSet(PositionsOf(later))
      /\ Cardinality(PositionsOf(later)) = Cardinality(PositionsOf(trace)) + 1
  BY <1>2, CountGrows
<1>4. totals["ops"] + RunCount = Cardinality(PositionsOf(trace)) BY DEF OpsExact
<1>5. totals'["ops"] + RunCount' = Cardinality(PositionsOf(later)) BY <1>3, <1>4
<1> QED BY <1>1, <1>3, <1>5 DEF OpsExact

\* A run longer by one.
LEMMA OneLonger ==
  ASSUME NEW bag, Counted(bag), NEW x, NEW n \in Nat
  PROVE  OneMore(WithRun(bag, x, n + 1), WithRun(bag, x, n), x)
<1>1. PICK m \in Nat : m = n + 1 OBVIOUS
<1>2. PICK one : one = WithRun(bag, x, n) OBVIOUS
<1>3. PICK two : two = WithRun(bag, x, m) OBVIOUS
<1>4. \A e : Times(e, one) = Times(e, bag) + IF e = x THEN n ELSE 0 BY <1>2, WithRunIs
<1>5. \A e : Times(e, two) = Times(e, bag) + IF e = x THEN m ELSE 0 BY <1>3, WithRunIs
<1>6. \A e : Times(e, bag) \in Nat BY TimesType
<1>7. ASSUME NEW e PROVE Times(e, two) = Times(e, one) + IF e = x THEN 1 ELSE 0
  <2>1. PICK k \in Nat : k = Times(e, bag) BY <1>6
  <2>2. Times(e, one) = k + IF e = x THEN n ELSE 0 BY <1>4, <2>1
  <2>3. Times(e, two) = k + IF e = x THEN m ELSE 0 BY <1>5, <2>1
  <2> QED BY <1>1, <2>2, <2>3
<1> QED BY <1>1, <1>2, <1>3, <1>7 DEF OneMore

\* An execution that continues the run makes the run longer, and is an edge from the block to itself.
LEMMA RepeatKeeps ==
  ASSUME CfgInvariant, NEW h \in Handles, Repeat(h) PROVE CfgInvariant'
<1> USE DEF CfgInvariant
<1>1. /\ batch # None /\ trace' = [trace EXCEPT ![batch.thread] = Append(@, h)]
      /\ h = batch.run /\ batch' = [batch EXCEPT !.count = @ + 1]
      /\ UNCHANGED <<last, calls, entries, edges, execs, counts, totals, finished>>
  BY DEF Repeat, Executed
<1>2. PICK t \in Tids : t = batch.thread BY <1>1, BatchIs
<1>3. PICK n \in Nat : n = batch.count BY <1>1, BatchIs
<1>4. h # None /\ FlowOf[h] = "Normal" /\ last[t] = h BY <1>1, <1>2, FlowIs DEF BatchShaped
<1>5. PICK s : s = trace[t] OBVIOUS
<1>6. PICK c : c = calls[t] OBVIOUS
<1>7. Recorded(s, h, c) BY <1>2, <1>4, <1>5, <1>6 DEF Traced
<1>8. /\ Recorded(Append(s, h), h, c) /\ s[Len(s)] = h /\ Previous(s, Len(s) + 1) = {Len(s)}
  BY <1>4, <1>7, RepeatFollows
<1>9. last' = [last EXCEPT ![t] = h] /\ calls' = [calls EXCEPT ![t] = c]
  BY <1>1, <1>4, <1>6 DEF CfgTypeOK
<1>10. trace' = [trace EXCEPT ![t] = Append(@, h)] BY <1>1, <1>2
<1>11. /\ Traced' /\ Grows(trace, trace', t, h) /\ trace' \in [Tids -> Seq(Handles)]
  BY <1>5, <1>8, <1>9, <1>10, TracedStill
<1>12. batch \in Batches BY <1>1, BatchIs
<1>13. /\ batch' \in Batches /\ batch'.thread = t /\ batch'.run = h /\ batch'.count = n + 1
       /\ batch'.block = batch.block /\ batch'.pending = batch.pending
  BY <1>1, <1>2, <1>3, <1>12 DEF Batches
<1>14. batch' # None BY <1>13, CfgAssumption
<1>15. CfgTypeOK' BY <1>1, <1>11, <1>13 DEF CfgTypeOK
<1>16. BatchShaped' BY <1>1, <1>4, <1>13 DEF BatchShaped
<1>17. RunCount' = RunCount + 1 /\ RunCount \in Nat /\ Waiting' = Waiting
  BY <1>1, <1>3, <1>13, <1>14 DEF RunCount, Waiting
<1>18. ChargesExact' BY <1>1, <1>17 DEF ChargesExact
<1>19. OpsExact'
  <2>1. totals["ops"] \in Nat BY FieldsAre DEF CfgTypeOK, Amounts
  <2>2. totals'["ops"] + RunCount' = (totals["ops"] + RunCount) + 1 /\ totals["ops"] + RunCount \in Nat
    BY <1>1, <1>17, <2>1
  <2> QED BY <1>11, <2>2, OpsGrow
<1>20. PICK e0 : e0 = edges OBVIOUS
<1>21. PICK x0 : x0 = execs OBVIOUS
<1>22. Counted(e0) /\ Counted(x0) BY <1>20, <1>21 DEF CfgTypeOK
<1>23. PICK be : be = <<BlockOf[h], BlockOf[h]>> OBVIOUS
<1>24. PICK bx : bx = <<BlockOf[h], t>> OBVIOUS
<1>25. GraphEdges = WithRun(e0, be, n) /\ GraphExecs = WithRun(x0, bx, n)
  BY <1>1, <1>2, <1>3, <1>20, <1>21, <1>23, <1>24, RunIs DEF GraphEdges, GraphExecs
<1>26. GraphEdges' = WithRun(e0, be, n + 1) /\ GraphExecs' = WithRun(x0, bx, n + 1)
  BY <1>1, <1>13, <1>14, <1>20, <1>21, <1>23, <1>24 DEF GraphEdges, GraphExecs, RunEdges, RunExecs, WithRun
<1>27. OneMore(GraphEdges', GraphEdges, be) BY <1>22, <1>25, <1>26, OneLonger
<1>28. OneMore(GraphExecs', GraphExecs, bx) BY <1>22, <1>25, <1>26, OneLonger
<1>29. PICK P : P = Previous(s, Len(s) + 1) OBVIOUS
<1>30. Continued(s, h, P) BY <1>1, <1>8, <1>23, <1>27, <1>29 DEF Continued
<1>31. EdgesExact' /\ EntriesExact' /\ ExecsExact'
  BY <1>5, <1>11, <1>24, <1>28, <1>29, <1>30, GraphGrows
<1> QED BY <1>11, <1>15, <1>16, <1>18, <1>19, <1>31

\* One copy more.
LEMMA OneAdded ==
  ASSUME NEW bag, Counted(bag), NEW x, NEW more, more = bag (+) Copies(x, 1)
  PROVE  Counted(more) /\ OneMore(more, bag, x)
<1>1. PICK n \in Nat : n = 1 OBVIOUS
<1>2. more = bag (+) Copies(x, n) BY <1>1
<1>3. Counted(more) /\ \A e : Times(e, more) = Times(e, bag) + IF e = x THEN n ELSE 0 BY <1>2, TimesMore
<1> QED BY <1>1, <1>3 DEF OneMore

\* Any other execution ends the run and is recorded after it.
LEMMA ExecKeeps ==
  ASSUME CfgInvariant, NEW h \in Handles, Exec(h) PROVE CfgInvariant'
<1> USE DEF CfgInvariant
<1>0. PICK t : t = batch.thread OBVIOUS
<1>1. /\ batch # None /\ trace' = [trace EXCEPT ![t] = Append(@, h)]
      /\ RecordBlock(t, h, RunEdges, RunExecs)
      /\ counts' = [RunCounts EXCEPT ![BlockOf[h]] = Add(@, Cost(1))]
      /\ totals' = Add(totals, Cost(batch.count + 1))
      /\ batch' = [batch EXCEPT !.run = RunOf(h), !.count = 0]
      /\ finished' = finished
  BY <1>0 DEF Exec, Executed
<1>2. t \in Tids BY <1>0, <1>1, BatchIs
<1>3. PICK n \in Nat : n = batch.count BY <1>1, BatchIs
<1>4. finished = FALSE BY <1>1 DEF BatchShaped, CfgTypeOK
<1>5. PICK b \in Blocks : b = BlockOf[h] BY FlowIs
<1>6. PICK e0 : e0 = RunEdges OBVIOUS
<1>7. PICK x0 : x0 = RunExecs OBVIOUS
<1>8. /\ \/ Origin(t) = None /\ entries' = entries \cup {b} /\ edges' = e0
         \/ Origin(t) # None /\ edges' = e0 (+) Copies(<<Origin(t), b>>, 1) /\ entries' = entries
      /\ calls' = [calls EXCEPT ![t] = Stack(t)] /\ last' = [last EXCEPT ![t] = h]
      /\ execs' = x0 (+) Copies(<<b, t>>, 1)
  BY <1>1, <1>5, <1>6, <1>7 DEF RecordBlock
<1>9. Counted(e0) /\ Counted(x0) BY <1>1, <1>6, <1>7, RunIs
<1>10. PICK s : s = trace[t] OBVIOUS
<1>11. Recorded(s, last[t], calls[t]) BY <1>2, <1>10 DEF Traced
<1>12. PICK c : c = Stack(t) OBVIOUS
<1>13. Recorded(Append(s, h), h, c) BY <1>10, <1>11, <1>12, StackFollows
<1>14. /\ Traced' /\ Grows(trace, trace', t, h) /\ trace' \in [Tids -> Seq(Handles)]
       /\ last' \in [Tids -> Handles \cup {None}] /\ calls' \in [Tids -> Seq(Blocks)]
  BY <1>1, <1>2, <1>8, <1>10, <1>12, <1>13, TracedStill
<1>15. batch \in Batches /\ batch.pending \in Amounts BY <1>1, BatchIs
<1>16. RunOf(h) \in Handles \cup {None} BY DEF RunOf
<1>17. /\ batch' \in Batches /\ batch'.thread = t /\ batch'.run = RunOf(h) /\ batch'.count = 0
       /\ batch'.block = batch.block /\ batch'.pending = batch.pending
  BY <1>0, <1>1, <1>15, <1>16 DEF Batches
<1>18. batch' # None BY <1>17, CfgAssumption
<1>19. Waiting' = Waiting /\ RunCount = n /\ RunCount' = 0
  BY <1>1, <1>3, <1>17, <1>18 DEF Waiting, RunCount
<1>20. BatchShaped'
  <2>1. last'[t] = h BY <1>2, <1>8 DEF CfgTypeOK
  <2>2. RunOf(h) # None => RunOf(h) = h /\ FlowOf[h] = "Normal" BY DEF RunOf
  <2> QED BY <1>1, <1>4, <1>17, <2>1, <2>2 DEF BatchShaped
<1>21. PICK r : r = RunCounts OBVIOUS
<1>22. /\ r \in [Blocks -> Amounts]
       /\ \A f \in Fields : ChargedIn(r, f) = ChargedIn(counts, f) + Cost(n)[f]
  BY <1>1, <1>3, <1>21, RunCharges
<1>23. PICK one \in Amounts : one = Cost(1) BY CostIs
<1>24. PICK d : d = counts' OBVIOUS
<1>25. d = Charge(r, b, one) BY <1>1, <1>5, <1>21, <1>23, <1>24 DEF Charge
<1>26. d \in [Blocks -> Amounts] /\ \A f \in Fields : ChargedIn(d, f) = ChargedIn(r, f) + one[f]
  BY <1>22, <1>25, ChargedMore
<1>27. PICK m \in Nat : m = n + 1 OBVIOUS
<1>28. PICK cost \in Amounts : cost = Cost(m) /\ cost["ops"] = m BY CostIs
<1>29. ASSUME NEW f \in Fields
       PROVE  ChargedIn(counts', f) + Waiting'[f] = (ChargedIn(counts, f) + Waiting[f]) + cost[f]
  <2>1. PICK x \in Nat : x = ChargedIn(counts, f) BY ChargedType DEF CfgTypeOK
  <2>2. Cost(n) \in Amounts BY CostIs
  <2>3. PICK y \in Nat : y = Cost(n)[f] BY <2>2 DEF Amounts
  <2>4. PICK o \in Nat : o = one[f] BY <1>23 DEF Amounts
  <2>5. PICK z \in Nat : z = Waiting[f] BY WaitingIs DEF Amounts
  <2>6. cost[f] = y + o BY <1>23, <1>27, <1>28, <2>3, <2>4, CostAdds
  <2>7. ChargedIn(counts', f) = (x + y) + o BY <1>22, <1>24, <1>26, <2>1, <2>3, <2>4
  <2> QED BY <1>19, <2>1, <2>5, <2>6, <2>7
<1>30. ChargesExact' /\ totals' \in Amounts /\ totals'["ops"] = totals["ops"] + cost["ops"]
  <2>1. totals' = Add(totals, cost) BY <1>1, <1>3, <1>27, <1>28
  <2> QED BY <1>1, <1>4, <1>29, <2>1, ChargesKept
<1>31. OpsExact'
  <2>1. totals["ops"] \in Nat BY FieldsAre DEF CfgTypeOK, Amounts
  <2>2. totals'["ops"] + RunCount' = (totals["ops"] + RunCount) + 1 /\ totals["ops"] + RunCount \in Nat
    BY <1>19, <1>27, <1>28, <1>30, <2>1
  <2> QED BY <1>14, <2>2, OpsGrow
<1>32. GraphEdges = e0 /\ GraphExecs = x0 /\ GraphEdges' = edges' /\ GraphExecs' = execs'
  BY <1>1, <1>6, <1>7, <1>17, <1>18 DEF GraphEdges, GraphExecs, RunEdges, RunExecs
<1>33. Counted(execs') /\ OneMore(GraphExecs', GraphExecs, <<BlockOf[h], t>>)
  BY <1>5, <1>8, <1>9, <1>32, OneAdded
<1>34. PICK P : P = Previous(s, Len(s) + 1) OBVIOUS
<1>35. Counted(edges') /\ (Entered(s, h, P) \/ Continued(s, h, P))
  <2>0. b # None BY CfgAssumption
  <2>1. CASE Origin(t) = None /\ P = {}
    <3>1. entries' = entries \cup {b} /\ edges' = e0 BY <1>8, <2>1
    <3>2. AsMany(GraphEdges', GraphEdges) BY <1>32, <3>1 DEF AsMany
    <3> QED BY <1>5, <1>9, <2>1, <3>1, <3>2 DEF Entered
  <2>2. CASE \E i \in 1 .. Len(s) : P = {i} /\ Origin(t) = BlockOf[s[i]] /\ BlockOf[s[i]] \in Blocks
    <3>1. PICK i : P = {i} /\ Origin(t) = BlockOf[s[i]] /\ BlockOf[s[i]] \in Blocks BY <2>2
    <3>2. Origin(t) # None BY <3>1, CfgAssumption
    <3>3. PICK e : e = <<BlockOf[s[i]], BlockOf[h]>> OBVIOUS
    <3>4. edges' = e0 (+) Copies(e, 1) /\ entries' = entries BY <1>5, <1>8, <3>1, <3>2, <3>3
    <3>5. Counted(edges') /\ OneMore(GraphEdges', GraphEdges, e) BY <1>9, <1>32, <3>4, OneAdded
    <3> QED BY <3>1, <3>3, <3>4, <3>5 DEF Continued
  <2> QED BY <1>10, <1>11, <1>34, <2>1, <2>2, OriginIs
<1>36. EdgesExact' /\ EntriesExact' /\ ExecsExact'
  BY <1>10, <1>14, <1>33, <1>34, <1>35, GraphGrows
<1>37. CfgTypeOK' BY <1>1, <1>14, <1>17, <1>24, <1>26, <1>30, <1>33, <1>35 DEF CfgTypeOK
<1> QED BY <1>14, <1>20, <1>30, <1>31, <1>36, <1>37

\* Nothing is executed and nothing charged in the beginning.
LEMMA CfgStarts == CfgInit => CfgInvariant
<1> SUFFICES ASSUME CfgInit PROVE CfgInvariant OBVIOUS
<1> USE DEF CfgInit
<1>1. trace \in [Tids -> Seq(Handles)] /\ calls \in [Tids -> Seq(Blocks)] /\ \A t \in Tids : trace[t] = <<>> /\ calls[t] = <<>>
  OBVIOUS
<1>2. Counted(EmptyBag) /\ \A e : Times(e, EmptyBag) = 0 BY TimesNone
<1>3. counts \in [Blocks -> Amounts] /\ \A b \in Blocks : counts[b] = Nothing BY NothingIs
<1>4. CfgTypeOK BY <1>1, <1>2, <1>3, NothingIs DEF CfgTypeOK
<1>5. BatchShaped BY DEF BatchShaped
<1>6. Traced
  <2>1. \A t \in Tids : <<>> \in Seq(Handles) /\ <<>> \in Seq(Blocks) /\ last[t] = None OBVIOUS
  <2> QED BY <1>1, <2>1 DEF Traced, Recorded
<1>7. PositionsOf(trace) = {}
  <2>1. PICK tr \in [Tids -> Seq(Handles)] : tr = trace /\ \A t \in Tids : tr[t] = <<>> BY <1>1
  <2>2. \A t \in Tids : Len(tr[t]) = 0 BY <2>1
  <2>3. PositionsOf(tr) = {}
    <3> HIDE DEF CfgInit
    <3>1. ASSUME NEW p \in PositionsOf(tr) PROVE FALSE
      <4>1. PICK t \in Tids : \E j \in 1 .. Len(tr[t]) : p = <<t, j>> BY InPositions
      <4> QED BY <2>2, <4>1
    <3> QED BY <3>1
  <2> QED BY <2>1, <2>3
<1>8. Cardinality({}) = 0 /\ IsFiniteSet({}) BY FS_EmptySet
<1>9. GraphEdges = EmptyBag /\ GraphExecs = EmptyBag BY DEF GraphEdges, GraphExecs
<1>10. EdgesExact
  <2>1. ASSUME NEW a \in Blocks, NEW b \in Blocks
        PROVE  Times(<<a, b>>, GraphEdges) = Cardinality(EdgesAt(trace, a, b))
    <3>1. EdgesAt(trace, a, b) = {} BY <1>7 DEF EdgesAt
    <3> QED BY <1>2, <1>8, <1>9, <3>1
  <2> QED BY <2>1 DEF EdgesExact
<1>11. ExecsExact
  <2>1. ASSUME NEW b \in Blocks, NEW t \in Tids
        PROVE  Times(<<b, t>>, GraphExecs) = Cardinality(ExecsAt(trace[t], b))
    <3>1. ExecsAt(trace[t], b) = {} BY <1>1 DEF ExecsAt
    <3> QED BY <1>2, <1>8, <1>9, <3>1
  <2> QED BY <2>1 DEF ExecsExact
<1>12. EntriesExact BY <1>7 DEF EntriesExact, EntriesAt
<1>13. OpsExact
  <2>1. totals["ops"] = 0 /\ RunCount = 0 BY NothingIs, FieldsAre DEF RunCount
  <2>2. Cardinality(PositionsOf(trace)) = 0 /\ IsFiniteSet(PositionsOf(trace)) BY <1>7, <1>8
  <2> HIDE DEF CfgInit
  <2>3. totals["ops"] + RunCount = 0 BY <2>1
  <2> QED BY <2>2, <2>3 DEF OpsExact
<1>14. ChargesExact
  <2>1. ASSUME NEW f \in Fields PROVE ChargedIn(counts, f) + Waiting[f] = totals[f]
    <3>1. PICK g : g = [b \in Blocks |-> counts[b][f]] OBVIOUS
    <3>2. \A b \in Blocks : g[b] = 0 BY <1>3, <3>1, NothingIs
    <3>3. SumAlong(g, Listing(Blocks)) = 0 BY <3>2, AlongZeros, CfgAssumption
    <3>4. ChargedIn(counts, f) = 0 BY <3>1, <3>3 DEF ChargedIn, BlockList
    <3>5. Waiting[f] = 0 /\ totals[f] = 0 BY NothingIs DEF Waiting
    <3> QED BY <3>4, <3>5
  <2> QED BY <2>1 DEF ChargesExact
<1> QED BY <1>4, <1>5, <1>6, <1>10, <1>11, <1>12, <1>13, <1>14 DEF CfgInvariant

\* CfgInvariant is inductive.
LEMMA CfgKeeps == CfgInvariant /\ [CfgNext]_cfgVars => CfgInvariant'
<1> SUFFICES ASSUME CfgInvariant, [CfgNext]_cfgVars PROVE CfgInvariant' OBVIOUS
<1>1. CASE \E t \in Tids : Begin(t) BY <1>1, BeginKeeps
<1>2. CASE \E h \in Handles : Repeat(h) BY <1>2, RepeatKeeps
<1>3. CASE \E h \in Handles : Exec(h) BY <1>3, ExecKeeps
<1>4. CASE \E h \in Handles : Unclassified(h) BY <1>4, UnclassifiedKeeps
<1>5. CASE \E b \in Blocks, fetched \in 0 .. 1 : \E stored \in 0 .. fetched :
             MemoryRecord(b, fetched, stored)
  <2>1. 0 .. 1 \subseteq Nat /\ \A fetched \in 0 .. 1 : 0 .. fetched \subseteq Nat OBVIOUS
  <2> QED BY <1>5, <2>1, MemoryRecordKeeps
<1>6. CASE EndBatch BY <1>6, EndBatchKeeps
<1>7. CASE \E dirty \in 0 .. 1 : Finalize(dirty)
  <2>1. 0 .. 1 \subseteq Nat OBVIOUS
  <2> QED BY <1>7, <2>1, FinalizeKeeps
<1>8. CASE UNCHANGED cfgVars
  <2>1. UNCHANGED <<last, calls, entries, edges, execs, counts, totals, batch, finished, trace>>
    BY <1>8 DEF cfgVars
  <2>2. GraphEdges' = GraphEdges /\ GraphExecs' = GraphExecs
    BY <2>1 DEF GraphEdges, GraphExecs, RunEdges, RunExecs
  <2>3. Traced' /\ EdgesExact' /\ ExecsExact' /\ EntriesExact' BY <2>1, <2>2, GraphStays DEF CfgInvariant
  <2>4. Waiting' = Waiting /\ RunCount' = RunCount BY <2>1 DEF Waiting, RunCount
  <2>5. OpsExact' BY <2>1, <2>4, OpsKept DEF CfgInvariant
  <2>6. ChargesExact' BY <2>1, <2>4 DEF CfgInvariant, ChargesExact
  <2>7. CfgTypeOK' BY <2>1 DEF CfgInvariant, CfgTypeOK
  <2>8. BatchShaped' BY <2>1 DEF CfgInvariant, BatchShaped
  <2> QED BY <2>3, <2>5, <2>6, <2>7, <2>8 DEF CfgInvariant
<1>9. CASE ExecUnknown BY <1>9, ExecUnknownKeeps
<1> QED BY <1>1, <1>2, <1>3, <1>4, <1>5, <1>6, <1>7, <1>8, <1>9 DEF CfgNext

\* Between batches nothing is held back.
LEMMA CfgImplies == CfgInvariant => AccountingExact
<1> SUFFICES ASSUME CfgInvariant, batch = None PROVE AccountingExact BY DEF AccountingExact
<1> USE DEF CfgInvariant
<1>1. Positions = PositionsOf(trace) BY DEF Positions, PositionsOf
<1>2. GraphEdges = edges /\ GraphExecs = execs /\ RunCount = 0 /\ Waiting = Nothing
  BY DEF GraphEdges, GraphExecs, RunCount, Waiting
<1>3. \A a \in Blocks, b \in Blocks :
        Times(<<a, b>>, edges) =
          Cardinality({p \in Positions : LET s == trace[p[1]] IN
            BlockOf[s[p[2]]] = b /\ \E i \in Previous(s, p[2]) : BlockOf[s[i]] = a})
  BY <1>1, <1>2 DEF EdgesExact, EdgesAt
<1>4. entries = {BlockOf[trace[p[1]][p[2]]] :
                   p \in {q \in Positions : Previous(trace[q[1]], q[2]) = {}}}
  BY <1>1 DEF EntriesExact, EntriesAt
<1>5. \A b \in Blocks, t \in Tids :
        Times(<<b, t>>, execs) = Cardinality({j \in DOMAIN trace[t] : BlockOf[trace[t][j]] = b})
  BY <1>2 DEF ExecsExact, ExecsAt
<1>6. \A f \in Fields : ChargedTo(f) \in Nat /\ totals[f] \in Nat /\ Waiting[f] = 0
  BY <1>2, ChargedType, NothingIs DEF CfgTypeOK, ChargedTo, Amounts
<1>7. \A f \in Fields : f # "stores" \/ ~finished => ChargedTo(f) = totals[f]
  BY <1>6 DEF ChargesExact, ChargedTo
<1>8. ChargedTo("stores") <= totals["stores"]
  <2>1. CASE finished BY <2>1 DEF ChargesExact, ChargedTo
  <2>2. CASE ~finished BY <1>6, <1>7, <2>2, FieldsAre
  <2> QED BY <2>1, <2>2
<1>9. totals["ops"] = Cardinality(Positions)
  <2>1. totals["ops"] \in Nat BY <1>6, FieldsAre
  <2> QED BY <1>1, <1>2, <2>1 DEF OpsExact
<1> QED BY <1>3, <1>4, <1>5, <1>7, <1>8, <1>9, FieldsAre DEF AccountingExact

\* AccountingExact for any program, threads and batches: the graph the engines
\* leave is the one the executions make one by one, and every amount is charged.
THEOREM AccountingIsExact == CfgSpec => []AccountingExact
<1>1. CfgInit => CfgInvariant BY CfgStarts
<1>2. CfgInvariant /\ [CfgNext]_cfgVars => CfgInvariant' BY CfgKeeps
<1>3. CfgInvariant => AccountingExact BY CfgImplies
<1> QED BY <1>1, <1>2, <1>3, PTL DEF CfgSpec

----------------------------------------------------------------------------
(* AllocationReplay: the inductive invariant *)

\* The values of pc, and of the operation of a call.
Stages == {"idle", "number", "stamp", "free", "realloc", "return"}
Ops    == {"none", "Allocated", "Freed", "ReallocBegin", "ReallocEnd"}

\* Calls, and the boundaries recorded of them.
Calls ==
  [op : Ops, old : Addrs \cup {0}, addr : Addrs \cup {0}, id : Nat, retires : BOOLEAN,
   seq : Nat, ts : Nat]

\* Generations.
Generations == [addr : Addrs, born : Nat, died : Nat]

\* The types of the variables.
ReplayType ==
  /\ heap \in [Addrs -> Nat] /\ app \in SUBSET Addrs /\ now \in Nat /\ accepting \in BOOLEAN
  /\ seq \in Nat /\ ops \in Nat
  /\ pc \in [Threads -> Stages] /\ call \in [Threads -> Calls]
  /\ log \in SUBSET Calls /\ IsFiniteSet(log) /\ life \in Seq(Generations)

\* What the arguments of a call look like.
Shaped(c) ==
  /\ c.op = "none" => c = NoCall
  /\ c.op = "Allocated" => c.addr # 0 /\ c.old = 0 /\ ~c.retires
  /\ c.op = "Freed" => c.addr = 0 /\ c.old # 0 /\ ~c.retires
  /\ c.op = "ReallocBegin" => c.addr = 0 /\ ~c.retires
  /\ c.op = "ReallocEnd" => /\ c.retires => c.old # 0
                            /\ c.addr # 0 /\ c.old # 0 => c.retires

\* Which calls are at which stage.
Staged(t) ==
  LET c == call[t] IN
  /\ pc[t] = "idle" <=> c.op = "none"
  /\ pc[t] = "free" => c.op = "Freed"
  /\ pc[t] = "realloc" => c.op = "ReallocBegin"
  /\ pc[t] = "return" => c.op \in {"Allocated", "ReallocEnd"}
  /\ pc[t] = "number" => c.seq = 0
  /\ pc[t] = "stamp" => c.seq # 0
  /\ c.op = "ReallocEnd" /\ pc[t] # "return" => c.id # 0

\* Of every call and every record.
CallsShaped ==
  /\ \A t \in Threads : Shaped(call[t]) /\ Staged(t)
  /\ \A r \in log : Shaped(r) /\ r.op # "none"

\* The boundary of c is recorded.
Logged(c) == \E r \in log : r.seq = c.seq /\ r.op = c.op /\ r.old = c.old /\ r.addr = c.addr

\* Sequence numbers name boundaries.
NumbersUnique ==
  /\ \A r \in log : r.seq # 0 /\ r.seq <= seq /\ r.ts <= now /\ r.id <= seq
  /\ \A r, q \in log : r.seq = q.seq => r = q
  /\ \A t \in Threads : call[t].seq <= seq /\ call[t].id <= seq
  /\ \A t \in Threads : pc[t] = "stamp" => \A r \in log : r.seq # call[t].seq
  /\ \A t, u \in Threads : t # u /\ call[t].seq # 0 => call[t].seq # call[u].seq
  /\ \A t \in Threads : pc[t] \in {"free", "realloc", "return"} =>
       IF call[t].seq = 0 THEN ~accepting ELSE Logged(call[t])

\* The block a call is about: what the application has again when it returns.
Owned(t) ==
  LET c == call[t] IN (IF c.addr # 0 \/ c.retires THEN {c.addr} ELSE {c.old}) \ {0}

\* A block belongs to the application or to one call.
BlocksOwned ==
  /\ \A a \in app : heap[a] # 0
  /\ \A t \in Threads : \A a \in Owned(t) : heap[a] # 0 /\ a \notin app
  /\ \A t, u \in Threads : t # u => Owned(t) \cap Owned(u) = {}
  /\ \A a \in Addrs : heap[a] # 0 => a \in app \/ \E t \in Threads : a \in Owned(t)

\* The generation in the heap is the last one at its address.
HeapLast ==
  \A a \in Addrs : heap[a] # 0 =>
    /\ heap[a] \in 1 .. Len(life) /\ life[heap[a]].addr = a
    /\ \A k \in 1 .. Len(life) : k > heap[a] => life[k].addr # a

\* The begin of generation k is recorded, or was not because recording had ended.
BirthKnown(k) ==
  \/ life[k].born = 0 /\ ~accepting
  \/ life[k].born # 0 /\ \E r \in log : /\ r.seq = life[k].born /\ r.addr = life[k].addr
                                       /\ r.op \in {"Allocated", "ReallocEnd"}

\* The same for its end.
DeathKnown(k) ==
  \/ life[k].died = 0 /\ ~accepting
  \/ life[k].died # 0 /\ \E r \in log : /\ r.seq = life[k].died /\ r.old = life[k].addr
                                       /\ r.op \in {"Freed", "ReallocBegin"}

\* What is recorded of a generation in the hands of the application, of a call, and after.
Kept(a) == BirthKnown(heap[a]) /\ life[heap[a]].died = 0

\* The application: of each of its blocks.
InApp == \A a \in app : Kept(a)

\* A call that holds block a, at each of its stages.
Handled(t, a) ==
  LET c == call[t]
      g == life[heap[a]] IN
  /\ c.addr # 0 =>
       /\ g.died = 0
       /\ pc[t] = "number" => g.born = 0
       /\ pc[t] = "stamp" => g.born = c.seq
       /\ pc[t] = "return" => BirthKnown(heap[a])
  /\ c.addr = 0 =>
       /\ BirthKnown(heap[a])
       /\ c.op # "Freed" \/ pc[t] = "number" => g.died = 0
       /\ c.op = "Freed" /\ pc[t] = "stamp" => g.died = c.seq
       /\ pc[t] = "free" => DeathKnown(heap[a])

\* Of each block in the hands of a call.
InCall == \A t \in Threads : \A a \in Owned(t) : Handled(t, a)

\* Generation k is no longer in the heap.
Retired(k) == heap[life[k].addr] # k

\* Then both its ends are known.
AfterLife == \A k \in 1 .. Len(life) : Retired(k) => BirthKnown(k) /\ DeathKnown(k)

\* The boundary numbered m was recorded before the one numbered n was numbered.
Follows(m, n) ==
  /\ m < n
  /\ \E r \in log : r.seq = m /\ \A q \in log : q.seq = n => r.ts <= q.ts

\* A reallocation whose outcome is open.
Reallocating(t) == call[t].op = "ReallocBegin" /\ call[t].seq # 0

\* The boundary numbered n ended a generation at a, or none.
Died(n, a) == \E k \in 1 .. Len(life) : life[k].died = n /\ life[k].addr = a
\* No generation ended at the boundary numbered n.
Survived(n) == \A k \in 1 .. Len(life) : life[k].died # n

\* A generation ends after it began, and the next one at its address begins later.
Generational ==
  /\ \A k \in 1 .. Len(life) : life[k].born <= seq /\ life[k].died <= seq
  /\ \A k \in 1 .. Len(life) : life[k].died # 0 =>
       life[k].born # 0 /\ Follows(life[k].born, life[k].died)
  /\ \A j, k \in 1 .. Len(life) : j < k /\ life[j].addr = life[k].addr /\ life[k].born # 0 =>
       life[j].died # 0 /\ Follows(life[j].died, life[k].born)
  /\ \A j, k \in 1 .. Len(life) : j # k =>
       /\ life[j].born # 0 => life[j].born # life[k].born
       /\ life[j].died # 0 => life[j].died # life[k].died

\* A reallocation was begun after its block was, and nothing has come of it yet.
Undecided(t) ==
  /\ call[t].old # 0 =>
       /\ life[heap[call[t].old]].born # 0
       /\ Follows(life[heap[call[t].old]].born, call[t].seq)
  /\ Survived(call[t].seq)
  /\ \A e \in log : e.op = "ReallocEnd" => e.id # call[t].seq
  /\ \A u \in Threads : call[u].op = "ReallocEnd" => call[u].id # call[t].seq

\* What came of one that the allocator has answered.
Decided(t) ==
  LET c == call[t] IN
  /\ \E r \in log : r.seq = c.id /\ r.op = "ReallocBegin" /\ r.old = c.old
  /\ IF c.retires THEN Died(c.id, c.old) ELSE Survived(c.id)

\* Every reallocation is open or answered.
Reallocations ==
  \A t \in Threads :
    /\ Reallocating(t) => Undecided(t)
    /\ call[t].op = "ReallocEnd" /\ call[t].id # 0 => Decided(t)

\* The recorded boundaries are those of generations.
Outcomes ==
  /\ \A r \in log : Introduces(r) =>
       \E k \in 1 .. Len(life) : life[k].born = r.seq /\ life[k].addr = r.addr
  /\ \A r \in log : r.op = "Freed" => Died(r.seq, r.old)
  /\ \A r \in log : r.op = "ReallocBegin" => \A e \in Ends(r) :
       IF e.retires THEN Died(r.seq, r.old) ELSE Survived(r.seq)

\* A recorded reallocation whose outcome is not recorded yet is still under way.
Completes(t, n) ==
  \/ pc[t] = "realloc" /\ call[t].seq = n
  \/ pc[t] \in {"number", "stamp"} /\ call[t].op = "ReallocEnd" /\ call[t].id = n

\* While the collector accepts.
UnderWay == accepting => \A r \in Uncertain : \E t \in Threads : Completes(t, r.seq)

\* The inductive invariant.
ReplayInvariant ==
  /\ ReplayType /\ CallsShaped /\ NumbersUnique /\ BlocksOwned /\ HeapLast
  /\ InApp /\ InCall /\ AfterLife /\ Generational /\ Reallocations /\ Outcomes /\ UnderWay

----------------------------------------------------------------------------
(* AllocationReplay: what the parts of a step do *)

\* Only thread t moves.
Others(t) == \A u \in Threads : u # t => pc'[u] = pc[u] /\ call'[u] = call[u]

\* The arguments of a call.
CallHas(c, op, old, addr, id, retires, n) ==
  /\ c.op = op /\ c.old = old /\ c.addr = addr /\ c.id = id /\ c.retires = retires /\ c.seq = n

\* A call that is given its number or its timestamp.
LEMMA CallWith ==
  ASSUME NEW c \in Calls, NEW n \in Nat
  PROVE  /\ [c EXCEPT !.seq = n] \in Calls /\ [c EXCEPT !.ts = n] \in Calls
         /\ CallHas([c EXCEPT !.seq = n], c.op, c.old, c.addr, c.id, c.retires, n)
         /\ CallHas([c EXCEPT !.ts = n], c.op, c.old, c.addr, c.id, c.retires, c.seq)
         /\ [c EXCEPT !.ts = n].ts = n
<1>1. /\ c.op \in Ops /\ c.old \in Addrs \cup {0} /\ c.addr \in Addrs \cup {0} /\ c.id \in Nat
      /\ c.retires \in BOOLEAN /\ c.seq \in Nat /\ c.ts \in Nat
  BY DEF Calls
<1>2. c = [op |-> c.op, old |-> c.old, addr |-> c.addr, id |-> c.id, retires |-> c.retires,
           seq |-> c.seq, ts |-> c.ts]
  BY DEF Calls
<1>3. [c EXCEPT !.seq = n] = [op |-> c.op, old |-> c.old, addr |-> c.addr, id |-> c.id,
                              retires |-> c.retires, seq |-> n, ts |-> c.ts]
  BY <1>2
<1>4. [c EXCEPT !.ts = n] = [op |-> c.op, old |-> c.old, addr |-> c.addr, id |-> c.id,
                             retires |-> c.retires, seq |-> c.seq, ts |-> n]
  BY <1>2
<1>5. [c EXCEPT !.seq = n] \in Calls BY <1>1, <1>3 DEF Calls
<1>6. [c EXCEPT !.ts = n] \in Calls BY <1>1, <1>4 DEF Calls
<1> QED BY <1>3, <1>4, <1>5, <1>6 DEF CallHas

\* A generation that is given the number of its begin or its end.
LEMMA GenerationWith ==
  ASSUME NEW g \in Generations, NEW n \in Nat
  PROVE  /\ [g EXCEPT !.born = n] \in Generations /\ [g EXCEPT !.died = n] \in Generations
         /\ [g EXCEPT !.born = n].addr = g.addr /\ [g EXCEPT !.born = n].born = n
         /\ [g EXCEPT !.born = n].died = g.died
         /\ [g EXCEPT !.died = n].addr = g.addr /\ [g EXCEPT !.died = n].born = g.born
         /\ [g EXCEPT !.died = n].died = n
<1>1. g.addr \in Addrs /\ g.born \in Nat /\ g.died \in Nat BY DEF Generations
<1>2. /\ [g EXCEPT !.born = n] = [addr |-> g.addr, born |-> n, died |-> g.died]
      /\ [g EXCEPT !.died = n] = [addr |-> g.addr, born |-> g.born, died |-> n]
  BY DEF Generations
<1> QED BY <1>1, <1>2 DEF Generations

\* A sequence with one element replaced.
LEMMA SeqWith ==
  ASSUME NEW S, NEW s \in Seq(S), NEW k \in 1 .. Len(s), NEW x \in S
  PROVE  /\ [s EXCEPT ![k] = x] \in Seq(S) /\ Len([s EXCEPT ![k] = x]) = Len(s)
         /\ [s EXCEPT ![k] = x][k] = x
         /\ \A j \in 1 .. Len(s) : j # k => [s EXCEPT ![k] = x][j] = s[j]
OBVIOUS

\* The arguments Call puts together.
LEMMA CallIs ==
  ASSUME NEW op \in Ops, NEW old \in Addrs \cup {0}, NEW addr \in Addrs \cup {0}, NEW id \in Nat,
         NEW retires \in BOOLEAN
  PROVE  Call(op, old, addr, id, retires) \in Calls
         /\ CallHas(Call(op, old, addr, id, retires), op, old, addr, id, retires, 0)
BY DEF Call, NoCall, Calls, CallHas

\* The arguments of a thread in no call.
LEMMA NoCallIs == NoCall \in Calls /\ CallHas(NoCall, "none", 0, 0, 0, FALSE, 0)
BY DEF NoCall, Calls, CallHas, Ops

\* What Enter does to the thread and to no other.
LEMMA EnterIs ==
  ASSUME ReplayType, NEW t \in Threads, NEW c \in Calls, Enter(t, c)
  PROVE  /\ pc[t] = "idle" /\ pc'[t] = "number" /\ call'[t] = c /\ Others(t)
         /\ pc' \in [Threads -> Stages] /\ call' \in [Threads -> Calls] /\ ops' \in Nat
BY DEF Enter, Goto, Others, ReplayType, Stages

\* What Leave does to the thread and to no other.
LEMMA LeaveIs ==
  ASSUME ReplayType, NEW t \in Threads, Leave(t)
  PROVE  /\ pc'[t] = "idle" /\ call'[t] = NoCall /\ Others(t)
         /\ pc' \in [Threads -> Stages] /\ call' \in [Threads -> Calls]
BY NoCallIs DEF Leave, Goto, Others, ReplayType, Stages

\* How a step changes the generations: x is numbered b at its begin, y is numbered d at
\* its end, and one begins at address n.
Evolves(x, b, y, d, n) ==
  /\ Len(life') = Len(life) + (IF n = 0 THEN 0 ELSE 1)
  /\ \A k \in 1 .. Len(life) :
       /\ life'[k].addr = life[k].addr
       /\ life'[k].born = IF k = x THEN b ELSE life[k].born
       /\ life'[k].died = IF k = y THEN d ELSE life[k].died
  /\ n # 0 => /\ life'[Len(life) + 1].addr = n
              /\ life'[Len(life) + 1].born = 0 /\ life'[Len(life) + 1].died = 0

\* How it changes the heap: the new generation is put at p, and q is given back.
HeapStep(p, q) ==
  \A b \in Addrs : heap'[b] = IF b = p THEN Len(life) + 1 ELSE IF b = q THEN 0 ELSE heap[b]

\* No generation is touched.
LEMMA LifeStays ==
  ASSUME ReplayType, life' = life PROVE Evolves(0, 0, 0, 0, 0)
<1>1. Len(life) \in Nat BY DEF ReplayType
<1> QED BY <1>1 DEF Evolves

\* No block is touched.
LEMMA HeapStays == ASSUME ReplayType, heap' = heap PROVE HeapStep(0, 0)
<1>1. 0 \notin Addrs BY DEF Addrs
<1> QED BY <1>1 DEF HeapStep

\* The effect of Malloc.
LEMMA MallocIs ==
  ASSUME ReplayType, NEW t \in Threads, NEW a \in FreeAddrs, Malloc(t, a)
  PROVE  /\ pc[t] = "idle" /\ pc'[t] = "number" /\ Others(t)
         /\ CallHas(call'[t], "Allocated", 0, a, 0, FALSE, 0)
         /\ a \in Addrs /\ a # 0 /\ heap[a] = 0 /\ HeapStep(a, 0) /\ Evolves(0, 0, 0, 0, a)
         /\ UNCHANGED <<app, now, accepting, seq, log>>
         /\ ReplayType'
<1>1. a \in Addrs /\ heap[a] = 0 /\ a # 0 /\ 0 \notin Addrs BY DEF FreeAddrs, Addrs
<1>2. Call("Allocated", 0, a, 0, FALSE) \in Calls
      /\ CallHas(Call("Allocated", 0, a, 0, FALSE), "Allocated", 0, a, 0, FALSE, 0)
  <2>1. "Allocated" \in Ops /\ FALSE \in BOOLEAN BY DEF Ops
  <2>2. 0 \in Addrs \cup {0} /\ a \in Addrs \cup {0} /\ 0 \in Nat BY <1>1
  <2> QED BY <2>1, <2>2, CallIs
<1>3. Enter(t, Call("Allocated", 0, a, 0, FALSE)) BY DEF Malloc
<1>4. /\ pc[t] = "idle" /\ pc'[t] = "number" /\ Others(t)
      /\ call'[t] = Call("Allocated", 0, a, 0, FALSE)
      /\ pc' \in [Threads -> Stages] /\ call' \in [Threads -> Calls] /\ ops' \in Nat
  BY <1>2, <1>3, EnterIs
<1>5. /\ heap' = [heap EXCEPT ![a] = Len(life) + 1]
      /\ life' = Append(life, [addr |-> a, born |-> 0, died |-> 0])
      /\ UNCHANGED <<app, now, accepting, seq, log>>
  BY DEF Malloc
<1>6. life \in Seq(Generations) /\ [addr |-> a, born |-> 0, died |-> 0] \in Generations
      /\ heap \in [Addrs -> Nat]
  BY <1>1 DEF ReplayType, Generations
<1>7. Evolves(0, 0, 0, 0, a) /\ life' \in Seq(Generations) BY <1>1, <1>5, <1>6 DEF Evolves
<1>8. HeapStep(a, 0) /\ heap' \in [Addrs -> Nat]
  BY <1>1, <1>5, <1>6 DEF HeapStep
<1>9. ReplayType' BY <1>4, <1>5, <1>7, <1>8 DEF ReplayType
<1> QED BY <1>1, <1>2, <1>4, <1>5, <1>7, <1>8, <1>9

\* free and realloc take their block from the application.
LEMMA TakeIs ==
  ASSUME ReplayType, NEW t \in Threads, NEW a \in app \cup {0}, NEW op \in {"Freed", "ReallocBegin"},
         Enter(t, Call(op, a, 0, 0, FALSE)), app' = app \ {a},
         UNCHANGED <<heap, now, accepting, seq, log, life>>
  PROVE  /\ pc[t] = "idle" /\ pc'[t] = "number" /\ Others(t)
         /\ CallHas(call'[t], op, a, 0, 0, FALSE, 0) /\ a \in Addrs \cup {0}
         /\ ReplayType'
<1>1. a \in Addrs \cup {0} BY DEF ReplayType
<1>2. Call(op, a, 0, 0, FALSE) \in Calls /\ CallHas(Call(op, a, 0, 0, FALSE), op, a, 0, 0, FALSE, 0)
  <2>1. op \in Ops /\ FALSE \in BOOLEAN /\ 0 \in Nat /\ 0 \in Addrs \cup {0} BY DEF Ops
  <2> QED BY <1>1, <2>1, CallIs
<1>3. /\ pc[t] = "idle" /\ pc'[t] = "number" /\ Others(t) /\ call'[t] = Call(op, a, 0, 0, FALSE)
      /\ pc' \in [Threads -> Stages] /\ call' \in [Threads -> Calls] /\ ops' \in Nat
  BY <1>2, EnterIs
<1>4. ReplayType' BY <1>3 DEF ReplayType
<1> QED BY <1>1, <1>2, <1>3, <1>4

\* The effect of Free.
LEMMA FreeIs ==
  ASSUME ReplayType, NEW t \in Threads, NEW a \in app, Free(t, a)
  PROVE  /\ pc[t] = "idle" /\ pc'[t] = "number" /\ Others(t)
         /\ CallHas(call'[t], "Freed", a, 0, 0, FALSE, 0) /\ a \in Addrs \cup {0} /\ a # 0
         /\ app' = app \ {a} /\ UNCHANGED <<heap, now, accepting, seq, log, life>>
         /\ ReplayType'
<1>1. /\ Enter(t, Call("Freed", a, 0, 0, FALSE)) /\ app' = app \ {a}
      /\ UNCHANGED <<heap, now, accepting, seq, log, life>>
  BY DEF Free
<1>2. a # 0 BY DEF ReplayType, Addrs
<1> QED BY <1>1, <1>2, TakeIs

\* The effect of Realloc.
LEMMA ReallocIs ==
  ASSUME ReplayType, NEW t \in Threads, NEW a \in app \cup {0}, Realloc(t, a)
  PROVE  /\ pc[t] = "idle" /\ pc'[t] = "number" /\ Others(t)
         /\ CallHas(call'[t], "ReallocBegin", a, 0, 0, FALSE, 0) /\ a \in Addrs \cup {0}
         /\ app' = app \ {a} /\ UNCHANGED <<heap, now, accepting, seq, log, life>>
         /\ ReplayType'
<1>1. /\ Enter(t, Call("ReallocBegin", a, 0, 0, FALSE)) /\ app' = app \ {a}
      /\ UNCHANGED <<heap, now, accepting, seq, log, life>>
  BY DEF Realloc
<1> QED BY <1>1, TakeIs

\* The effect of Refused.
LEMMA RefusedIs ==
  ASSUME ReplayType, NEW t \in Threads, Refused(t)
  PROVE  /\ pc[t] = "number" /\ ~accepting /\ Others(t) /\ call' = call
         /\ pc'[t] = After(call[t].op)
         /\ UNCHANGED <<heap, app, now, accepting, seq, log, life>>
         /\ ReplayType'
<1>1. After(call[t].op) \in Stages BY DEF After, Stages
<1> QED BY <1>1 DEF Refused, Goto, Others, ReplayType

\* A recorded boundary has the arguments of its call and the time of the step.
Records(t, r) ==
  /\ CallHas(r, call[t].op, call[t].old, call[t].addr, call[t].id, call[t].retires, call[t].seq)
  /\ r \in Calls /\ r.ts = now /\ log' = log \cup {r}

\* The effect of Stamp.
LEMMA StampIs ==
  ASSUME ReplayType, NEW t \in Threads, Stamp(t)
  PROVE  /\ pc[t] = "stamp" /\ Others(t) /\ call' = call
         /\ pc'[t] = After(call[t].op)
         /\ \E r : Records(t, r)
         /\ UNCHANGED <<heap, app, now, accepting, seq, life>>
         /\ ReplayType'
<1>1. After(call[t].op) \in Stages BY DEF After, Stages
<1>2. call[t] \in Calls /\ now \in Nat BY DEF ReplayType
<1> DEFINE r == [call[t] EXCEPT !.ts = now]
<1>3. log' = log \cup {r} BY DEF Stamp
<1>4. Records(t, r) BY <1>2, <1>3, CallWith DEF Records
<1>5. IsFiniteSet(log') BY <1>3, FS_AddElement DEF ReplayType
<1>6. log' \in SUBSET Calls BY <1>3, <1>4 DEF ReplayType, Records
<1> HIDE DEF r
<1> QED BY <1>1, <1>4, <1>5, <1>6 DEF Stamp, Goto, Others, ReplayType

\* A block in the hands of a call is in the heap and not with the application.
LEMMA OwnedBlock ==
  ASSUME ReplayType, BlocksOwned, HeapLast, NEW t \in Threads, NEW a \in Owned(t)
  PROVE  /\ a \in Addrs /\ a # 0 /\ heap[a] # 0 /\ heap[a] \in 1 .. Len(life)
         /\ life[heap[a]].addr = a /\ a \notin app
<1>1. call[t] \in Calls BY DEF ReplayType
<1>2. a \in Addrs /\ a # 0 BY <1>1 DEF Owned, Calls
<1> QED BY <1>2 DEF BlocksOwned, HeapLast

\* Numbering the begin or the end of one generation.
LEMMA Marked ==
  ASSUME ReplayType, NEW k \in 1 .. Len(life), NEW n \in Nat
  PROVE  /\ life' = [life EXCEPT ![k].born = n] =>
              Evolves(k, n, 0, 0, 0) /\ life' \in Seq(Generations)
         /\ life' = [life EXCEPT ![k].died = n] =>
              Evolves(0, 0, k, n, 0) /\ life' \in Seq(Generations)
<1>1. life \in Seq(Generations) /\ life[k] \in Generations /\ k # 0 /\ Len(life) \in Nat
      /\ \A j \in 1 .. Len(life) : j # 0
  BY DEF ReplayType
<1>2. ASSUME life' = [life EXCEPT ![k].born = n]
      PROVE  Evolves(k, n, 0, 0, 0) /\ life' \in Seq(Generations)
  <2>1. life' = [life EXCEPT ![k] = [life[k] EXCEPT !.born = n]] BY <1>2
  <2>2. /\ [life[k] EXCEPT !.born = n] \in Generations
        /\ [life[k] EXCEPT !.born = n].addr = life[k].addr /\ [life[k] EXCEPT !.born = n].born = n
        /\ [life[k] EXCEPT !.born = n].died = life[k].died
    BY <1>1, GenerationWith
  <2>3. PICK g \in Generations : g = [life[k] EXCEPT !.born = n] BY <2>2
  <2>4. life' = [life EXCEPT ![k] = g] BY <2>1, <2>3
  <2>5. /\ life' \in Seq(Generations) /\ Len(life') = Len(life) /\ life'[k] = g
        /\ \A j \in 1 .. Len(life) : j # k => life'[j] = life[j]
    BY <1>1, <2>4, SeqWith
  <2>6. g.addr = life[k].addr /\ g.born = n /\ g.died = life[k].died BY <2>2, <2>3
  <2> QED BY <1>1, <2>5, <2>6 DEF Evolves
<1>3. ASSUME life' = [life EXCEPT ![k].died = n]
      PROVE  Evolves(0, 0, k, n, 0) /\ life' \in Seq(Generations)
  <2>1. life' = [life EXCEPT ![k] = [life[k] EXCEPT !.died = n]] BY <1>3
  <2>2. /\ [life[k] EXCEPT !.died = n] \in Generations
        /\ [life[k] EXCEPT !.died = n].addr = life[k].addr /\ [life[k] EXCEPT !.died = n].died = n
        /\ [life[k] EXCEPT !.died = n].born = life[k].born
    BY <1>1, GenerationWith
  <2>3. PICK g \in Generations : g = [life[k] EXCEPT !.died = n] BY <2>2
  <2>4. life' = [life EXCEPT ![k] = g] BY <2>1, <2>3
  <2>5. /\ life' \in Seq(Generations) /\ Len(life') = Len(life) /\ life'[k] = g
        /\ \A j \in 1 .. Len(life) : j # k => life'[j] = life[j]
    BY <1>1, <2>4, SeqWith
  <2>6. g.addr = life[k].addr /\ g.born = life[k].born /\ g.died = n BY <2>2, <2>3
  <2> QED BY <1>1, <2>5, <2>6 DEF Evolves
<1> QED BY <1>2, <1>3

\* The generation at address a, none for the null pointer.
At(a) == IF a = 0 THEN 0 ELSE heap[a]

\* The effect of Number: the generation of the block is numbered.
LEMMA NumberIs ==
  ASSUME ReplayType, CallsShaped, BlocksOwned, HeapLast, NEW t \in Threads, Number(t)
  PROVE  /\ pc[t] = "number" /\ accepting /\ pc'[t] = "stamp" /\ Others(t)
         /\ CallHas(call'[t], call[t].op, call[t].old, call[t].addr, call[t].id, call[t].retires,
                   seq + 1)
         /\ seq' = seq + 1
         /\ Evolves(At(call[t].addr), seq + 1,
                    IF call[t].op = "Freed" THEN At(call[t].old) ELSE 0, seq + 1, 0)
         /\ UNCHANGED <<heap, app, now, accepting, log>>
         /\ ReplayType'
<1>1. /\ pc[t] = "number" /\ accepting /\ seq' = seq + 1
      /\ call' = [call EXCEPT ![t].seq = seq + 1] /\ life' = Numbered(call[t], seq + 1)
      /\ pc' = [pc EXCEPT ![t] = "stamp"] /\ UNCHANGED <<heap, app, now, accepting, ops, log>>
  BY DEF Number, Goto
<1>2. call \in [Threads -> Calls] /\ pc \in [Threads -> Stages] /\ seq \in Nat
      /\ heap \in [Addrs -> Nat] /\ life \in Seq(Generations) /\ seq + 1 \in Nat
  BY DEF ReplayType
<1>3. PICK c \in Calls : c = call[t] BY <1>2
<1>4. PICK n \in Nat : n = seq + 1 BY <1>2
<1>5. call' \in [Threads -> Calls] /\ pc' \in [Threads -> Stages] /\ seq' \in Nat
      /\ call'[t] = [c EXCEPT !.seq = n]
  <2>1. [c EXCEPT !.seq = n] \in Calls BY CallWith
  <2>2. call' = [call EXCEPT ![t] = [c EXCEPT !.seq = n]] BY <1>1, <1>2, <1>3, <1>4
  <2>3. "stamp" \in Stages BY DEF Stages
  <2> QED BY <1>1, <1>2, <2>1, <2>2, <2>3
<1>6. CallHas(call'[t], c.op, c.old, c.addr, c.id, c.retires, n) BY <1>5, CallWith
<1>7. pc'[t] = "stamp" /\ Others(t) BY <1>1, <1>2 DEF Others
<1>8. Shaped(c) BY <1>3 DEF CallsShaped
<1>9. Evolves(At(c.addr), n, IF c.op = "Freed" THEN At(c.old) ELSE 0, n, 0)
      /\ life' \in Seq(Generations)
  <2>1. CASE c.addr # 0
    <3>1. c.addr \in Owned(t) BY <1>3, <2>1 DEF Owned
    <3>2. PICK k \in 1 .. Len(life) : k = heap[c.addr] BY <3>1, OwnedBlock
    <3>3. c.op # "Freed" BY <1>8, <2>1 DEF Shaped
    <3>4. life' = [life EXCEPT ![k].born = n]
      BY <1>1, <1>3, <1>4, <2>1, <3>2, <3>3 DEF Numbered
    <3>5. Evolves(k, n, 0, 0, 0) /\ life' \in Seq(Generations) BY <3>4, Marked
    <3>6. Evolves(k, n, 0, n, 0) BY <1>2, <3>5 DEF Evolves
    <3> QED BY <2>1, <3>2, <3>3, <3>5, <3>6 DEF At
  <2>2. CASE c.addr = 0 /\ c.op = "Freed"
    <3>1. c.old # 0 /\ ~c.retires BY <1>8, <2>2 DEF Shaped
    <3>2. c.old \in Owned(t) BY <1>3, <2>2, <3>1 DEF Owned
    <3>3. PICK k \in 1 .. Len(life) : k = heap[c.old] BY <3>2, OwnedBlock
    <3>4. life' = [life EXCEPT ![k].died = n] BY <1>1, <1>3, <1>4, <2>2, <3>3 DEF Numbered
    <3>5. Evolves(0, 0, k, n, 0) /\ life' \in Seq(Generations) BY <3>4, Marked
    <3>6. Evolves(0, n, k, n, 0) BY <1>2, <3>5 DEF Evolves
    <3>7. At(c.addr) = 0 /\ At(c.old) = k BY <2>2, <3>1, <3>3 DEF At
    <3> QED BY <2>2, <3>5, <3>6, <3>7
  <2>3. CASE c.addr = 0 /\ c.op # "Freed"
    <3>1. life' = life BY <1>1, <1>3, <2>3 DEF Numbered
    <3>2. Evolves(0, 0, 0, 0, 0) BY <3>1, LifeStays
    <3>3. Evolves(0, n, 0, n, 0) BY <1>2, <3>2 DEF Evolves
    <3> QED BY <1>2, <2>3, <3>1, <3>3 DEF At
  <2> QED BY <2>1, <2>2, <2>3
<1>10. ReplayType' BY <1>1, <1>2, <1>5, <1>9 DEF ReplayType
<1> QED BY <1>1, <1>3, <1>4, <1>6, <1>7, <1>9, <1>10

\* The effect of RealFree.
LEMMA RealFreeIs ==
  ASSUME ReplayType, CallsShaped, NEW t \in Threads, RealFree(t)
  PROVE  /\ pc[t] = "free" /\ pc'[t] = "idle" /\ call'[t] = NoCall /\ Others(t)
         /\ call[t].op = "Freed" /\ call[t].old # 0 /\ call[t].addr = 0 /\ ~call[t].retires
         /\ call[t].old \in Addrs /\ HeapStep(0, call[t].old)
         /\ UNCHANGED <<app, now, accepting, seq, log, life>>
         /\ ReplayType'
<1>1. /\ pc[t] = "free" /\ heap' = [heap EXCEPT ![call[t].old] = 0] /\ Leave(t)
      /\ UNCHANGED <<app, now, accepting, seq, ops, log, life>>
  BY DEF RealFree
<1>2. call[t].op = "Freed" BY <1>1 DEF CallsShaped, Staged
<1>3. call[t].old # 0 /\ call[t].addr = 0 /\ ~call[t].retires BY <1>2 DEF CallsShaped, Shaped
<1>4. call[t].old \in Addrs BY <1>3 DEF ReplayType, Calls
<1>5. /\ pc'[t] = "idle" /\ call'[t] = NoCall /\ Others(t)
      /\ pc' \in [Threads -> Stages] /\ call' \in [Threads -> Calls]
  BY <1>1, LeaveIs
<1>6. heap \in [Addrs -> Nat] /\ 0 \notin Addrs BY DEF ReplayType, Addrs
<1>7. HeapStep(0, call[t].old) /\ heap' \in [Addrs -> Nat] BY <1>1, <1>4, <1>6 DEF HeapStep
<1>8. ReplayType' BY <1>1, <1>5, <1>7 DEF ReplayType
<1> QED BY <1>1, <1>2, <1>3, <1>4, <1>5, <1>7, <1>8

\* The effect of Return.
LEMMA ReturnIs ==
  ASSUME ReplayType, NEW t \in Threads, Return(t)
  PROVE  /\ pc[t] = "return" /\ pc'[t] = "idle" /\ call'[t] = NoCall /\ Others(t)
         /\ app' = app \cup Owned(t)
         /\ UNCHANGED <<heap, now, accepting, seq, log, life>>
         /\ ReplayType'
<1>1. /\ pc[t] = "return" /\ Leave(t) /\ UNCHANGED <<heap, now, accepting, seq, ops, log, life>>
  BY DEF Return
<1>2. app' = app \cup Owned(t) BY DEF Return, Owned
<1>3. /\ pc'[t] = "idle" /\ call'[t] = NoCall /\ Others(t)
      /\ pc' \in [Threads -> Stages] /\ call' \in [Threads -> Calls]
  BY <1>1, LeaveIs
<1>4. Owned(t) \subseteq Addrs BY DEF ReplayType, Calls, Owned
<1>5. ReplayType' BY <1>1, <1>2, <1>3, <1>4 DEF ReplayType
<1> QED BY <1>1, <1>2, <1>3, <1>5

\* What the allocator may answer to realloc of block old.
Answered(old, n, retires) ==
  /\ n \in Addrs \cup {0} /\ retires \in BOOLEAN
  /\ n # 0 => (heap[n] = 0 \/ n = old) /\ (retires <=> old # 0)
  /\ retires => old # 0

\* What the allocator may answer, case by case.
LEMMA AnswerIs ==
  ASSUME NEW old \in Addrs \cup {0}, NEW answer \in Answers(old)
  PROVE  Answered(old, answer.addr, answer.retires)
<1>1. 0 \notin Addrs BY DEF Addrs
<1> QED BY <1>1 DEF Answers, FreeAddrs, Answered

\* The effect of RealRealloc.
LEMMA RealReallocIs ==
  ASSUME ReplayType, CallsShaped, BlocksOwned, HeapLast, NEW t \in Threads,
         NEW answer \in Answers(call[t].old), RealRealloc(t, answer)
  PROVE  \E n \in Addrs \cup {0}, retires \in BOOLEAN :
         /\ Answered(call[t].old, n, retires)
         /\ pc[t] = "realloc" /\ Others(t)
         /\ pc'[t] = IF call[t].seq # 0 THEN "number" ELSE "return"
         /\ call[t].op = "ReallocBegin" /\ call[t].addr = 0 /\ ~call[t].retires
         /\ CallHas(call'[t], "ReallocEnd", call[t].old, n, call[t].seq, retires, 0)
         /\ HeapStep(n, IF retires THEN call[t].old ELSE 0)
         /\ Evolves(0, 0, IF retires THEN heap[call[t].old] ELSE 0, call[t].seq, n)
         /\ UNCHANGED <<app, now, accepting, seq, log>>
         /\ ReplayType'
<1>1. call \in [Threads -> Calls] /\ pc \in [Threads -> Stages]
      /\ heap \in [Addrs -> Nat] /\ life \in Seq(Generations) /\ 0 \notin Addrs
      /\ Len(life) \in Nat
  BY DEF ReplayType, Addrs
<1>2. PICK c \in Calls : c = call[t] BY <1>1
<1>3. c.old \in Addrs \cup {0} /\ c.seq \in Nat BY DEF Calls
<1>4. Answered(c.old, answer.addr, answer.retires) BY <1>2, <1>3, AnswerIs
<1>5. PICK n \in Addrs \cup {0}, retires \in BOOLEAN : n = answer.addr /\ retires = answer.retires
  BY <1>4 DEF Answered
<1>6. Answered(c.old, n, retires) BY <1>4, <1>5
<1> DEFINE new == [addr |-> n, born |-> 0, died |-> 0]
           old == IF retires THEN [life EXCEPT ![heap[c.old]].died = c.seq] ELSE life
           d == IF retires THEN heap[c.old] ELSE 0
<1>7. /\ pc[t] = "realloc"
      /\ heap' = [a \in Addrs |-> CASE a = n -> Len(life) + 1
                                    [] a = c.old /\ a # n /\ retires -> 0
                                    [] OTHER -> heap[a]]
      /\ life' = old \o (IF n = 0 THEN <<>> ELSE <<new>>)
      /\ call' = [call EXCEPT ![t] = Call("ReallocEnd", c.old, n, c.seq, retires)]
      /\ pc' = [pc EXCEPT ![t] = IF c.seq # 0 THEN "number" ELSE "return"]
      /\ UNCHANGED <<app, now, accepting, seq, ops, log>>
  BY <1>2, <1>5 DEF RealRealloc, Goto
<1>8. c.op = "ReallocBegin" BY <1>2, <1>7 DEF CallsShaped, Staged
<1>9. c.addr = 0 /\ ~c.retires BY <1>2, <1>8 DEF CallsShaped, Shaped
<1>10. pc'[t] = (IF c.seq # 0 THEN "number" ELSE "return") /\ Others(t)
       /\ pc' \in [Threads -> Stages]
  <2>1. (IF c.seq # 0 THEN "number" ELSE "return") \in Stages BY DEF Stages
  <2> QED BY <1>1, <1>7, <2>1 DEF Others
<1>11. CallHas(call'[t], "ReallocEnd", c.old, n, c.seq, retires, 0) /\ call' \in [Threads -> Calls]
  <2>1. "ReallocEnd" \in Ops BY DEF Ops
  <2>2. Call("ReallocEnd", c.old, n, c.seq, retires) \in Calls
        /\ CallHas(Call("ReallocEnd", c.old, n, c.seq, retires), "ReallocEnd", c.old, n, c.seq, retires, 0)
    BY <1>3, <2>1, CallIs
  <2> QED BY <1>1, <1>7, <2>2
<1>12. HeapStep(n, IF retires THEN c.old ELSE 0) /\ heap' \in [Addrs -> Nat]
  <2>1. \A b \in Addrs : heap'[b] = IF b = n THEN Len(life) + 1
                                    ELSE IF b = (IF retires THEN c.old ELSE 0) THEN 0 ELSE heap[b]
    BY <1>1, <1>7
  <2>2. heap' \in [Addrs -> Nat] BY <1>1, <1>7
  <2> QED BY <2>1, <2>2 DEF HeapStep
<1>13. /\ old \in Seq(Generations) /\ Len(old) = Len(life)
       /\ \A k \in 1 .. Len(life) :
            /\ old[k].addr = life[k].addr /\ old[k].born = life[k].born
            /\ old[k].died = IF k = d THEN c.seq ELSE life[k].died
  <2>1. CASE ~retires
    <3>1. \A k \in 1 .. Len(life) : k # 0 OBVIOUS
    <3> QED BY <1>1, <2>1, <3>1
  <2>2. CASE retires
    <3>1. c.old \in Owned(t) BY <1>2, <1>6, <1>9, <2>2 DEF Owned, Answered
    <3>2. PICK k \in 1 .. Len(life) : k = heap[c.old] BY <3>1, OwnedBlock
    <3>3. life[k] \in Generations BY <1>1
    <3>4. PICK g \in Generations : g = [life[k] EXCEPT !.died = c.seq]
      BY <1>3, <3>3, GenerationWith
    <3>5. g.addr = life[k].addr /\ g.born = life[k].born /\ g.died = c.seq
      BY <1>3, <3>3, <3>4, GenerationWith
    <3>6. old = [life EXCEPT ![k] = g] BY <2>2, <3>2, <3>4
    <3> HIDE DEF old
    <3>7. /\ old \in Seq(Generations) /\ Len(old) = Len(life) /\ old[k] = g
          /\ \A j \in 1 .. Len(life) : j # k => old[j] = life[j]
      BY <1>1, <3>6, SeqWith
    <3> QED BY <2>2, <3>2, <3>5, <3>7
  <2> QED BY <2>1, <2>2
<1>14. Evolves(0, 0, d, c.seq, n) /\ life' \in Seq(Generations)
  <2>1. PICK s \in Seq(Generations) : s = old BY <1>13
  <2>2. Len(s) = Len(life) BY <1>13, <2>1
  <2>3. \A k \in 1 .. Len(life) : k # 0 OBVIOUS
  <2>4. CASE n = 0
    <3>1. life' = s BY <1>7, <2>1, <2>4
    <3> HIDE DEF old, d
    <3> QED BY <1>1, <1>13, <2>1, <2>3, <2>4, <3>1 DEF Evolves
  <2>5. CASE n # 0
    <3>1. new \in Generations /\ new.addr = n /\ new.born = 0 /\ new.died = 0
      BY <2>5 DEF Generations
    <3>2. PICK g \in Generations : g = new BY <3>1
    <3>3. life' = s \o <<g>> BY <1>7, <2>1, <2>5, <3>2
    <3> HIDE DEF old, d, new
    <3>4. /\ Len(life') = Len(life) + 1 /\ life' \in Seq(Generations)
          /\ \A k \in 1 .. Len(life) : life'[k] = s[k]
          /\ life'[Len(life) + 1] = g
      <4>1. /\ Len(s \o <<g>>) = Len(s) + 1 /\ s \o <<g>> \in Seq(Generations)
            /\ \A k \in 1 .. Len(s) : (s \o <<g>>)[k] = s[k]
            /\ (s \o <<g>>)[Len(s) + 1] = g
        OBVIOUS
      <4> QED BY <2>2, <3>3, <4>1
    <3> QED BY <1>13, <2>1, <2>3, <2>5, <3>1, <3>2, <3>4 DEF Evolves
  <2> QED BY <2>4, <2>5
<1> HIDE DEF old, new
<1>15. ReplayType' BY <1>7, <1>10, <1>11, <1>12, <1>14 DEF ReplayType
<1>16. d = IF retires THEN heap[c.old] ELSE 0 OBVIOUS
<1> HIDE DEF d
<1>17. WITNESS n \in Addrs \cup {0}, retires \in BOOLEAN
<1> QED BY <1>2, <1>6, <1>7, <1>8, <1>9, <1>10, <1>11, <1>12, <1>14, <1>15, <1>16

----------------------------------------------------------------------------
(* AllocationReplay: what a step of one thread leaves alone *)

\* A step that only thread t's own block and calls can be affected by.
Undisturbed(a) ==
  /\ heap'[a] = heap[a] /\ life'[heap[a]].addr = life[heap[a]].addr
  /\ life'[heap[a]].born = life[heap[a]].born /\ life'[heap[a]].died = life[heap[a]].died

\* Records are kept, and recording does not resume.
Recording == log \subseteq log' /\ (accepting' => accepting)

\* A step of t leaves the blocks of others alone.
Local(t) ==
  /\ Others(t) /\ Recording
  /\ \A a \in Addrs : heap[a] # 0 /\ a \notin Owned(t) => Undisturbed(a)

\* The generations a step of t marks are those of its own blocks.
Touches(t, p, q, x, y) ==
  /\ p # 0 => p \in Addrs /\ (heap[p] = 0 \/ p \in Owned(t))
  /\ q # 0 => q \in Owned(t)
  /\ x # 0 => \E a \in Owned(t) : x = heap[a]
  /\ y # 0 => \E a \in Owned(t) : y = heap[a]

\* A step that touches the blocks of its own call disturbs no other.
LEMMA LocalIs ==
  ASSUME ReplayType, BlocksOwned, HeapLast, NEW t \in Threads, Others(t), Recording,
         NEW p, NEW q, NEW x, NEW y, NEW b, NEW d, NEW n,
         HeapStep(p, q), Evolves(x, b, y, d, n), Touches(t, p, q, x, y)
  PROVE  Local(t)
<1> SUFFICES ASSUME NEW a \in Addrs, heap[a] # 0, a \notin Owned(t) PROVE Undisturbed(a)
  BY DEF Local
<1>1. 0 \notin Addrs BY DEF Addrs
<1>2. heap'[a] = heap[a] BY <1>1 DEF HeapStep, Touches
<1>3. PICK k \in 1 .. Len(life) : k = heap[a] /\ life[k].addr = a BY DEF HeapLast
<1>4. \A c \in Owned(t) : life[heap[c]].addr = c BY OwnedBlock
<1>5. k # x /\ k # y
  <2>1. k # 0 OBVIOUS
  <2> QED BY <1>3, <1>4, <2>1 DEF Touches
<1> QED BY <1>2, <1>3, <1>5 DEF Evolves, Undisturbed

\* A recorded begin stays recorded.
LEMMA BirthStays ==
  ASSUME NEW k, BirthKnown(k), Recording, life'[k].addr = life[k].addr, life'[k].born = life[k].born
  PROVE  BirthKnown(k)'
BY DEF BirthKnown, Recording

\* A recorded end stays recorded.
LEMMA DeathStays ==
  ASSUME NEW k, DeathKnown(k), Recording, life'[k].addr = life[k].addr, life'[k].died = life[k].died
  PROVE  DeathKnown(k)'
BY DEF DeathKnown, Recording

\* The same for the block at an undisturbed address.
LEMMA BirthAtStays ==
  ASSUME NEW a, BirthKnown(heap[a]), Recording, Undisturbed(a)
  PROVE  BirthKnown(heap[a])'
<1>1. PICK k : k = heap[a] OBVIOUS
<1>2. BirthKnown(k)' BY <1>1, BirthStays DEF Undisturbed
<1>3. heap'[a] = k BY <1>1 DEF Undisturbed
<1> QED BY <1>2, <1>3 DEF BirthKnown

\* The same for its end.
LEMMA DeathAtStays ==
  ASSUME NEW a, DeathKnown(heap[a]), Recording, Undisturbed(a)
  PROVE  DeathKnown(heap[a])'
<1>1. PICK k : k = heap[a] OBVIOUS
<1>2. DeathKnown(k)' BY <1>1, DeathStays DEF Undisturbed
<1>3. heap'[a] = k BY <1>1 DEF Undisturbed
<1> QED BY <1>2, <1>3 DEF DeathKnown

\* What the application holds is not affected by a step elsewhere,
LEMMA KeptStays ==
  ASSUME NEW a, Kept(a), Recording, Undisturbed(a)
  PROVE  Kept(a)'
<1>1. BirthKnown(heap[a])' BY BirthAtStays DEF Kept
<1> QED BY <1>1 DEF Kept, Undisturbed

\* nor is what another call holds.
LEMMA HandledStays ==
  ASSUME NEW u, NEW a, Handled(u, a), Recording, Undisturbed(a),
         pc'[u] = pc[u], call'[u] = call[u]
  PROVE  Handled(u, a)'
<1>1. BirthKnown(heap[a]) => BirthKnown(heap[a])' BY BirthAtStays
<1>2. DeathKnown(heap[a]) => DeathKnown(heap[a])' BY DeathAtStays
<1>3. life'[heap'[a]].born = life[heap[a]].born /\ life'[heap'[a]].died = life[heap[a]].died
  BY DEF Undisturbed
<1> QED BY <1>1, <1>2, <1>3 DEF Handled

\* The other calls keep their blocks.
LEMMA OthersOwn ==
  ASSUME NEW t \in Threads, Others(t), NEW u \in Threads, u # t
  PROVE  Owned(u)' = Owned(u)
BY DEF Others, Owned

\* The application keeps what it had.
LEMMA AppStays ==
  ASSUME ReplayType, BlocksOwned, InApp, NEW t \in Threads, Local(t), NEW a \in app
  PROVE  Kept(a)'
<1>1. a \in Addrs /\ heap[a] # 0 /\ a \notin Owned(t) BY DEF ReplayType, BlocksOwned
<1> QED BY <1>1, KeptStays DEF InApp, Local

\* The other calls stand where they stood.
LEMMA OthersHandle ==
  ASSUME ReplayType, BlocksOwned, HeapLast, InCall, NEW t \in Threads, Local(t),
         NEW u \in Threads, u # t, NEW a \in Owned(u)
  PROVE  Handled(u, a)'
<1>1. a \in Addrs /\ heap[a] # 0 BY OwnedBlock
<1>2. a \notin Owned(t) BY DEF BlocksOwned
<1>3. Undisturbed(a) /\ Recording BY <1>1, <1>2 DEF Local
<1>4. pc'[u] = pc[u] /\ call'[u] = call[u] BY DEF Local, Others
<1>5. Handled(u, a) BY DEF InCall
<1> QED BY <1>3, <1>4, <1>5, HandledStays

\* What a step of t owes for the two invariants about blocks in use.
LEMMA InUse ==
  ASSUME ReplayType, BlocksOwned, HeapLast, InApp, InCall, NEW t \in Threads, Local(t),
         \A a \in app' : a \notin app => Kept(a)',
         \A a \in Owned(t)' : Handled(t, a)'
  PROVE  InApp' /\ InCall'
<1>1. InApp' BY AppStays DEF InApp
<1>2. InCall'
  <2> SUFFICES ASSUME NEW u \in Threads, NEW a \in Owned(u)' PROVE Handled(u, a)' BY DEF InCall
  <2>1. CASE u = t BY <2>1
  <2>2. CASE u # t
    <3>1. Owned(u)' = Owned(u) BY <2>2, OthersOwn DEF Local
    <3> QED BY <2>2, <3>1, OthersHandle
  <2> QED BY <2>1, <2>2
<1> QED BY <1>1, <1>2

\* Blocks handed between the application, the allocator and one call have one owner still.
LEMMA OwnersStay ==
  ASSUME ReplayType, ReplayType', BlocksOwned, NEW t \in Threads, Others(t),
         \A a \in Addrs : heap'[a] # 0 <=>
           \/ a \in app' \/ a \in Owned(t)'
           \/ heap[a] # 0 /\ a \notin app /\ a \notin Owned(t),
         \A a \in app' \cup Owned(t)' : a \in app \/ a \in Owned(t) \/ heap[a] = 0,
         app' \cap Owned(t)' = {}
  PROVE  BlocksOwned'
<1>1. app' \subseteq Addrs /\ app \subseteq Addrs BY DEF ReplayType
<1>2. \A u \in Threads : Owned(u) \subseteq Addrs /\ Owned(u)' \subseteq Addrs
  BY DEF ReplayType, Calls, Owned
<1>3. \A u \in Threads : u # t => Owned(u)' = Owned(u) BY OthersOwn
<1>4. \A u \in Threads, a \in Addrs : u # t /\ a \in Owned(u) =>
        heap[a] # 0 /\ a \notin app /\ a \notin Owned(t)
  BY DEF BlocksOwned
<1>5. ASSUME NEW a \in app' PROVE heap'[a] # 0 BY <1>1
<1>6. ASSUME NEW u \in Threads, NEW a \in Owned(u)' PROVE heap'[a] # 0 /\ a \notin app'
  <2>1. a \in Addrs BY <1>2
  <2> QED BY <1>3, <1>4, <2>1
<1>7. ASSUME NEW u \in Threads, NEW v \in Threads, u # v PROVE (Owned(u) \cap Owned(v))' = {}
  <2>1. ASSUME NEW w \in Threads, w # t PROVE Owned(t)' \cap Owned(w)' = {}
    <3>1. ASSUME NEW a \in Owned(t)', a \in Owned(w)' PROVE FALSE
      BY <1>2, <1>3, <1>4, <2>1, <3>1
    <3> QED BY <3>1
  <2>2. CASE u # t /\ v # t BY <1>3, <1>7, <2>2 DEF BlocksOwned
  <2> QED BY <1>7, <2>1, <2>2
<1>8. ASSUME NEW a \in Addrs, heap'[a] # 0 PROVE a \in app' \/ \E u \in Threads : a \in Owned(u)'
  <2>1. CASE heap[a] # 0 /\ a \notin app /\ a \notin Owned(t)
    <3>1. PICK u \in Threads : a \in Owned(u) BY <2>1 DEF BlocksOwned
    <3> QED BY <1>3, <2>1, <3>1
  <2> QED BY <1>8, <2>1
<1> QED BY <1>5, <1>6, <1>7, <1>8 DEF BlocksOwned

\* A new generation is the last at its address.
LEMMA HeapLastStays ==
  ASSUME ReplayType, ReplayType', HeapLast, NEW p \in Addrs \cup {0}, NEW q, NEW x, NEW b, NEW y, NEW d,
         HeapStep(p, q), Evolves(x, b, y, d, p)
  PROVE  HeapLast'
<1> SUFFICES ASSUME NEW a \in Addrs, heap'[a] # 0
             PROVE  /\ heap'[a] \in 1 .. Len(life') /\ life'[heap'[a]].addr = a
                    /\ \A k \in 1 .. Len(life') : k > heap'[a] => life'[k].addr # a
  BY DEF HeapLast
<1>1. PICK m \in Nat : m = Len(life) BY DEF ReplayType
<1>2. Len(life') = m + (IF p = 0 THEN 0 ELSE 1) BY <1>1 DEF Evolves
<1>3. a # 0 BY DEF Addrs
<1>4. CASE a = p
  <2>1. heap'[a] = m + 1 BY <1>1, <1>4 DEF HeapStep
  <2>2. life'[m + 1].addr = a BY <1>1, <1>3, <1>4 DEF Evolves
  <2> QED BY <1>2, <1>3, <1>4, <2>1, <2>2
<1>5. CASE a # p
  <2>1. heap'[a] = heap[a] /\ heap[a] # 0 BY <1>5 DEF HeapStep
  <2>2. PICK k \in 1 .. m : k = heap[a] /\ life[k].addr = a BY <1>1, <2>1 DEF HeapLast
  <2>3. \A j \in 1 .. m : j > k => life[j].addr # a BY <1>1, <2>1, <2>2 DEF HeapLast
  <2>4. \A j \in 1 .. m : life'[j].addr = life[j].addr BY <1>1 DEF Evolves
  <2>5. p # 0 => life'[m + 1].addr = p BY <1>1 DEF Evolves
  <2>6. \A j \in 1 .. Len(life') : j \in 1 .. m \/ (p # 0 /\ j = m + 1) BY <1>1, <1>2
  <2> QED BY <1>1, <1>2, <1>5, <2>1, <2>2, <2>3, <2>4, <2>5, <2>6
<1> QED BY <1>4, <1>5

\* A block leaves the heap only when its begin and its end are known.
LEMMA AfterLifeStays ==
  ASSUME ReplayType, ReplayType', BlocksOwned, HeapLast, AfterLife, NEW t \in Threads, Recording,
         NEW p \in Addrs \cup {0}, NEW q, NEW x, NEW b, NEW y, NEW d,
         HeapStep(p, q), Evolves(x, b, y, d, p), Touches(t, p, q, x, y),
         \A k \in 1 .. Len(life) : heap[life[k].addr] = k /\ life[k].addr \in {p, q} =>
           BirthKnown(k)' /\ DeathKnown(k)'
  PROVE  AfterLife'
<1> SUFFICES ASSUME NEW k \in 1 .. Len(life'), heap'[life'[k].addr] # k
             PROVE  BirthKnown(k)' /\ DeathKnown(k)'
  BY DEF AfterLife, Retired
<1>1. PICK m \in Nat : m = Len(life) BY DEF ReplayType
<1>2. Len(life') = m + (IF p = 0 THEN 0 ELSE 1) BY <1>1 DEF Evolves
<1>3. CASE k \in 1 .. m
  <2>1. life'[k].addr = life[k].addr BY <1>1, <1>3 DEF Evolves
  <2>2. life[k].addr \in Addrs
    <3>1. life[k] \in Generations BY <1>1, <1>3 DEF ReplayType
    <3> QED BY <3>1 DEF Generations
  <2>3. CASE heap[life[k].addr] = k
    <3>1. life[k].addr \in {p, q} BY <2>1, <2>2, <2>3 DEF HeapStep
    <3> QED BY <1>1, <1>3, <2>3, <3>1
  <2>4. CASE heap[life[k].addr] # k
    <3>1. BirthKnown(k) /\ DeathKnown(k) BY <1>1, <1>3, <2>4 DEF AfterLife, Retired
    <3>2. \A a \in Owned(t) : life[heap[a]].addr = a BY OwnedBlock
    <3>3. k # 0 BY <1>3
    <3>4. k # x /\ k # y BY <2>4, <3>2, <3>3 DEF Touches
    <3>5. life'[k].born = life[k].born /\ life'[k].died = life[k].died
      BY <1>1, <1>3, <3>4 DEF Evolves
    <3> QED BY <2>1, <3>1, <3>5, BirthStays, DeathStays
  <2> QED BY <2>3, <2>4
<1>4. CASE p # 0 /\ k = m + 1
  <2>1. life'[k].addr = p BY <1>1, <1>4 DEF Evolves
  <2>2. heap'[p] = k BY <1>1, <1>4 DEF HeapStep
  <2> QED BY <2>1, <2>2
<1> QED BY <1>1, <1>2, <1>3, <1>4

----------------------------------------------------------------------------
(* AllocationReplay: generations follow one another *)

\* Records are added with the time of the step.
LogGrows == log' = log \/ \E r : log' = log \cup {r} /\ r.ts = now

\* What follows keeps following: later records have later timestamps.
LEMMA FollowsStays ==
  ASSUME ReplayType, NumbersUnique, LogGrows, NEW m, NEW n, Follows(m, n)
  PROVE  Follows(m, n)'
<1>1. PICK r \in log : r.seq = m /\ \A q \in log : q.seq = n => r.ts <= q.ts BY DEF Follows
<1>2. r.ts <= now BY DEF NumbersUnique
<1>3. r \in log' BY DEF LogGrows
<1>4. \A q \in log' : q.seq = n => r.ts <= q.ts BY <1>1, <1>2 DEF LogGrows
<1> QED BY <1>1, <1>3, <1>4 DEF Follows

\* A number not yet given out comes after every recorded one.
LEMMA FollowsAll ==
  ASSUME ReplayType, NumbersUnique, NEW r \in log
  PROVE  Follows(r.seq, seq + 1)
<1>1. r.seq \in Nat /\ seq \in Nat /\ r.seq <= seq BY DEF NumbersUnique, ReplayType, Calls
<1>2. \A q \in log : q.seq # seq + 1
  <2> TAKE q \in log
  <2>1. q.seq \in Nat /\ seq \in Nat /\ q.seq <= seq BY DEF NumbersUnique, ReplayType, Calls
  <2> QED BY <2>1
<1> QED BY <1>1, <1>2 DEF Follows

\* The numbers a step gives to generations are new, and it gives them once.
Sane(x, b, y, d) ==
  /\ LogGrows /\ seq <= seq'
  /\ x # 0 => /\ x \in 1 .. Len(life) /\ life[x].born = 0 /\ life[x].died = 0
              /\ heap[life[x].addr] = x /\ accepting /\ b = seq + 1 /\ seq' = seq + 1
  /\ y # 0 => /\ y \in 1 .. Len(life) /\ life[y].died = 0 /\ heap[life[y].addr] = y
              /\ d \in Nat
              /\ d # 0 => /\ d <= seq' /\ Survived(d) /\ life[y].born # 0
                          /\ Follows(life[y].born, d)

\* The fields of a generation.
LEMMA GenerationTyped ==
  ASSUME ReplayType, NEW k \in 1 .. Len(life)
  PROVE  life[k].addr \in Addrs /\ life[k].born \in Nat /\ life[k].died \in Nat /\ k \in Nat /\ k # 0
<1>1. life[k] \in Generations BY DEF ReplayType
<1> QED BY <1>1 DEF Generations

\* New numbers keep the generations at an address one after the other.
LEMMA GenerationalStays ==
  ASSUME ReplayType, ReplayType', NumbersUnique, HeapLast, AfterLife, Generational,
         NEW p \in Addrs \cup {0}, NEW x, NEW b, NEW y, NEW d,
         Evolves(x, b, y, d, p), Sane(x, b, y, d)
  PROVE  Generational'
<1>1. PICK m \in Nat : m = Len(life) BY DEF ReplayType
<1>2. \A k \in 1 .. Len(life') : k \in 1 .. m \/ (p # 0 /\ k = m + 1)
  BY <1>1 DEF Evolves
<1>3. \A k \in 1 .. m : /\ life'[k].addr = life[k].addr
                        /\ life'[k].born = IF k = x THEN b ELSE life[k].born
                        /\ life'[k].died = IF k = y THEN d ELSE life[k].died
  BY <1>1 DEF Evolves
<1>4. p # 0 => life'[m + 1].born = 0 /\ life'[m + 1].died = 0 BY <1>1 DEF Evolves
<1>5. seq \in Nat /\ seq' \in Nat /\ seq <= seq' BY DEF ReplayType, Sane
<1>6. \A k \in 1 .. m : /\ life[k].born \in Nat /\ life[k].died \in Nat
                        /\ life[k].born <= seq /\ life[k].died <= seq
  BY <1>1, GenerationTyped DEF Generational
<1>7. x # 0 => x \in 1 .. m /\ life[x].born = 0 /\ life[x].died = 0 /\ b = seq + 1 /\ seq' = seq + 1
  BY <1>1 DEF Sane
<1>8. y # 0 => y \in 1 .. m /\ life[y].died = 0 /\ d \in Nat /\ (d # 0 => d <= seq')
  BY <1>1 DEF Sane
<1>9. \A k \in 1 .. m : k # 0 OBVIOUS
<1>10. ASSUME NEW k \in 1 .. Len(life') PROVE life'[k].born <= seq' /\ life'[k].died <= seq'
  <2>1. CASE k \in 1 .. m
    <3>1. life'[k].born <= seq' BY <1>3, <1>5, <1>6, <1>7, <1>9, <2>1
    <3>2. life'[k].died <= seq' BY <1>3, <1>5, <1>6, <1>8, <1>9, <2>1
    <3> QED BY <3>1, <3>2
  <2>2. CASE p # 0 /\ k = m + 1 BY <1>4, <1>5, <2>2
  <2> QED BY <1>2, <2>1, <2>2
<1>11. ASSUME NEW k \in 1 .. Len(life'), life'[k].died # 0
       PROVE  life'[k].born # 0 /\ Follows(life[k].born, life[k].died)'
  <2>1. k \in 1 .. m /\ k # 0 BY <1>2, <1>4, <1>9, <1>11
  <2>2. life[k].born # 0 /\ Follows(life[k].born, life'[k].died)
    <3>1. CASE k = y
      <4>1. life'[k].died = d BY <1>3, <2>1, <3>1
      <4> QED BY <1>11, <2>1, <3>1, <4>1 DEF Sane
    <3>2. CASE k # y
      <4>1. life'[k].died = life[k].died BY <1>3, <2>1, <3>2
      <4> QED BY <1>1, <1>11, <2>1, <4>1 DEF Generational
    <3> QED BY <3>1, <3>2
  <2>3. k # x BY <1>7, <2>1, <2>2
  <2>4. life'[k].born = life[k].born BY <1>3, <2>1, <2>3
  <2>5. PICK v, w : v = life[k].born /\ w = life'[k].died OBVIOUS
  <2>6. Follows(v, w)' BY <2>2, <2>5, FollowsStays DEF Sane
  <2> QED BY <2>2, <2>4, <2>5, <2>6
<1>12. ASSUME NEW j \in 1 .. Len(life'), NEW k \in 1 .. Len(life'), j < k,
              life'[j].addr = life'[k].addr, life'[k].born # 0
       PROVE  life'[j].died # 0 /\ Follows(life[j].died, life[k].born)'
  <2>1. k \in 1 .. m /\ k # 0 BY <1>2, <1>4, <1>9, <1>12
  <2>2. j \in 1 .. m /\ j # 0 BY <1>1, <1>2, <1>12, <2>1
  <2>3. life[j].addr = life[k].addr BY <1>3, <1>12, <2>1, <2>2
  <2>4. life[j].died # 0 /\ Follows(life[j].died, life'[k].born)
    <3>1. CASE k = x
      <4>1. heap[life[j].addr] # j BY <1>12, <2>1, <2>3, <3>1 DEF Sane
      <4>2. DeathKnown(j) /\ accepting BY <1>1, <2>1, <2>2, <3>1, <4>1 DEF AfterLife, Retired, Sane
      <4>3. life[j].died # 0 /\ \E r \in log : r.seq = life[j].died BY <4>2 DEF DeathKnown
      <4>4. Follows(life[j].died, seq + 1) BY <4>3, FollowsAll
      <4>5. life'[k].born = seq + 1 BY <1>3, <1>7, <2>1, <3>1
      <4> QED BY <4>3, <4>4, <4>5
    <3>2. CASE k # x
      <4>1. life'[k].born = life[k].born BY <1>3, <2>1, <3>2
      <4> QED BY <1>1, <1>12, <2>1, <2>2, <2>3, <4>1 DEF Generational
    <3> QED BY <3>1, <3>2
  <2>5. j # y BY <1>8, <2>2, <2>4
  <2>6. life'[j].died = life[j].died BY <1>3, <2>2, <2>5
  <2>7. PICK v, w : v = life[j].died /\ w = life'[k].born OBVIOUS
  <2>8. Follows(v, w)' BY <2>4, <2>7, FollowsStays DEF Sane
  <2> QED BY <2>4, <2>6, <2>7, <2>8
<1>13. ASSUME NEW j \in 1 .. Len(life'), NEW k \in 1 .. Len(life'), j # k
       PROVE  /\ life'[j].born # 0 => life'[j].born # life'[k].born
              /\ life'[j].died # 0 => life'[j].died # life'[k].died
  <2>1. CASE j \in 1 .. m /\ k \in 1 .. m
    <3>1. /\ life[j].born # 0 => life[j].born # life[k].born
          /\ life[j].died # 0 => life[j].died # life[k].died
      BY <1>1, <1>13, <2>1 DEF Generational
    <3>2. life'[j].born # 0 => life'[j].born # life'[k].born
      BY <1>3, <1>5, <1>6, <1>7, <1>9, <1>13, <2>1, <3>1
    <3>3. y # 0 /\ d # 0 => life[j].died # d /\ life[k].died # d BY <1>1, <2>1 DEF Sane, Survived
    <3>4. life'[j].died # 0 => life'[j].died # life'[k].died
      BY <1>3, <1>8, <1>9, <1>13, <2>1, <3>1, <3>3
    <3> QED BY <3>2, <3>4
  <2>2. CASE (p # 0 /\ j = m + 1) \/ (p # 0 /\ k = m + 1) BY <1>2, <1>4, <1>13, <2>2
  <2> QED BY <1>2, <2>1, <2>2
<1> QED BY <1>10, <1>11, <1>12, <1>13 DEF Generational

----------------------------------------------------------------------------
(* AllocationReplay: reallocations and their outcomes *)

\* An end is not revoked.
LEMMA DiedStays ==
  ASSUME ReplayType, NEW n, n # 0, NEW a, Died(n, a),
         NEW p, NEW x, NEW b, NEW y, NEW d, Evolves(x, b, y, d, p), Sane(x, b, y, d)
  PROVE  Died(n, a)'
<1>1. PICK m \in Nat : m = Len(life) BY DEF ReplayType
<1>2. PICK k \in 1 .. m : life[k].died = n /\ life[k].addr = a BY <1>1 DEF Died
<1>3. k # 0 /\ k \in 1 .. Len(life') BY <1>1 DEF Evolves
<1>4. k # y BY <1>2, <1>3 DEF Sane
<1>5. life'[k].died = n /\ life'[k].addr = a BY <1>1, <1>2, <1>4 DEF Evolves
<1> QED BY <1>3, <1>5 DEF Died

\* A number that ended nothing is not given to an end again.
LEMMA SurvivedStays ==
  ASSUME ReplayType, NEW n, n # 0, Survived(n),
         NEW p, NEW x, NEW b, NEW y, NEW d, Evolves(x, b, y, d, p), y # 0 => d # n
  PROVE  Survived(n)'
<1>1. PICK m \in Nat : m = Len(life) BY DEF ReplayType
<1>2. ASSUME NEW k \in 1 .. Len(life') PROVE life'[k].died # n
  <2>1. CASE k \in 1 .. m
    <3>1. life[k].died # n /\ k # 0 BY <1>1, <2>1 DEF Survived
    <3>2. life'[k].died = IF k = y THEN d ELSE life[k].died BY <1>1, <2>1 DEF Evolves
    <3> QED BY <3>1, <3>2
  <2>2. CASE k \notin 1 .. m
    <3>1. p # 0 /\ k = m + 1 BY <1>1, <2>2 DEF Evolves
    <3>2. life'[k].died = 0 BY <1>1, <3>1 DEF Evolves
    <3> QED BY <3>2
  <2> QED BY <2>1, <2>2
<1> QED BY <1>2 DEF Survived

\* The number given to a generation at its end is not that of another's reallocation.
Apart(t, y, d) ==
  y # 0 /\ d # 0 => \A u \in Threads : u # t =>
    /\ Reallocating(u) => call[u].seq # d
    /\ call[u].op = "ReallocEnd" /\ call[u].id # 0 => call[u].id # d

\* A reallocation of another thread stays open,
LEMMA UndecidedStays ==
  ASSUME ReplayType, NumbersUnique, NEW u \in Threads, Reallocating(u), Undecided(u),
         call'[u] = call[u], LogGrows,
         \A e \in log' : e \in log \/ (e.op = "ReallocEnd" => e.id # call[u].seq),
         call[u].old # 0 => Undisturbed(call[u].old),
         NEW p, NEW x, NEW b, NEW y, NEW d, Evolves(x, b, y, d, p), y # 0 => d # call[u].seq,
         \A v \in Threads : call'[v].op = "ReallocEnd" =>
           (call[v].op = "ReallocEnd" /\ call'[v].id = call[v].id) \/ call'[v].id # call[u].seq
  PROVE  Undecided(u)'
<1>1. PICK n, old : n = call[u].seq /\ old = call[u].old OBVIOUS
<1>2. call'[u].seq = n /\ call'[u].old = old /\ n # 0 BY <1>1 DEF Reallocating
<1>3. Survived(n)' BY <1>1, <1>2, SurvivedStays DEF Undecided
<1>4. ASSUME old # 0
      PROVE life'[heap'[old]].born # 0 /\ Follows(life[heap[old]].born, n)'
  <2>1. PICK v : v = life[heap[old]].born OBVIOUS
  <2>2. life'[heap'[old]].born = v /\ v # 0 /\ Follows(v, n)
    BY <1>1, <1>4, <2>1 DEF Undecided, Undisturbed
  <2>3. Follows(v, n)' BY <2>2, FollowsStays
  <2> QED BY <2>2, <2>3
<1>5. \A e \in log' : e.op = "ReallocEnd" => e.id # n BY <1>1 DEF Undecided
<1>6. \A v \in Threads : call'[v].op = "ReallocEnd" => call'[v].id # n BY <1>1 DEF Undecided
<1> QED BY <1>2, <1>3, <1>4, <1>5, <1>6 DEF Undecided

\* or answered as it was,
LEMMA DecidedStays ==
  ASSUME ReplayType, NEW u, Decided(u), call[u].id # 0, Recording,
         call'[u].id = call[u].id, call'[u].old = call[u].old, call'[u].retires = call[u].retires,
         NEW p, NEW x, NEW b, NEW y, NEW d, Evolves(x, b, y, d, p), Sane(x, b, y, d),
         y # 0 => d # call[u].id
  PROVE  Decided(u)'
<1>1. PICK n, old : n = call[u].id /\ old = call[u].old OBVIOUS
<1>2. call'[u].id = n /\ call'[u].old = old /\ n # 0 BY <1>1
<1>3. Died(n, old) => Died(n, old)' BY <1>2, DiedStays
<1>4. Survived(n) => Survived(n)' BY <1>1, <1>2, SurvivedStays
<1>5. \E r \in log' : r.seq = n /\ r.op = "ReallocBegin" /\ r.old = old
  BY <1>1 DEF Decided, Recording
<1> QED BY <1>1, <1>2, <1>3, <1>4, <1>5 DEF Decided

\* whatever another thread does.
LEMMA OthersRealloc ==
  ASSUME ReplayType, CallsShaped, NumbersUnique, BlocksOwned, HeapLast, Reallocations,
         NEW t \in Threads, Local(t), LogGrows,
         NEW p, NEW x, NEW b, NEW y, NEW d, Evolves(x, b, y, d, p), Sane(x, b, y, d), Apart(t, y, d),
         \A e \in log' : e \in log \/ (e.op = "ReallocEnd" => call[t].op = "ReallocEnd" /\ e.id = call[t].id),
         call'[t].op = "ReallocEnd" =>
           \/ call[t].op = "ReallocEnd" /\ call'[t].id = call[t].id
           \/ call[t].op = "ReallocBegin" /\ call'[t].id = call[t].seq,
         NEW u \in Threads, u # t
  PROVE  /\ Reallocating(u)' => Undecided(u)'
         /\ call'[u].op = "ReallocEnd" /\ call'[u].id # 0 => Decided(u)'
<1>1. call'[u] = call[u] /\ Recording /\ \A v \in Threads : v # t => call'[v] = call[v]
  BY DEF Local, Others
<1>2. ASSUME Reallocating(u) PROVE Undecided(u)'
  <2>1. Undecided(u) BY <1>2 DEF Reallocations
  <2>2. call[u].seq # 0 /\ call[u].op = "ReallocBegin" BY <1>2 DEF Reallocating
  <2>3. call[t].op = "ReallocEnd" => call[t].id # call[u].seq BY <2>1 DEF Undecided
  <2>4. call[t].seq # call[u].seq BY <2>2 DEF NumbersUnique
  <2>5. ASSUME call[u].old # 0 PROVE Undisturbed(call[u].old)
    <3>1. call[u].addr = 0 /\ ~call[u].retires BY <2>2 DEF CallsShaped, Shaped
    <3>2. call[u].old \in Owned(u) BY <2>5, <3>1 DEF Owned
    <3>3. call[u].old \in Addrs /\ heap[call[u].old] # 0 BY <3>2, OwnedBlock
    <3>4. call[u].old \notin Owned(t) BY <3>2 DEF BlocksOwned
    <3> QED BY <3>3, <3>4 DEF Local
  <2>6. y # 0 => d # call[u].seq BY <1>2, <2>2 DEF Apart
  <2>7. \A e \in log' : e \in log \/ (e.op = "ReallocEnd" => e.id # call[u].seq) BY <2>3
  <2>8. \A v \in Threads : call'[v].op = "ReallocEnd" =>
          (call[v].op = "ReallocEnd" /\ call'[v].id = call[v].id) \/ call'[v].id # call[u].seq
    BY <1>1, <2>4
  <2> QED BY <1>1, <1>2, <2>1, <2>5, <2>6, <2>7, <2>8, UndecidedStays
<1>3. ASSUME call[u].op = "ReallocEnd", call[u].id # 0 PROVE Decided(u)'
  <2>1. Decided(u) BY <1>3 DEF Reallocations
  <2>2. y # 0 => d # call[u].id BY <1>3 DEF Apart
  <2> QED BY <1>1, <1>3, <2>1, <2>2, DecidedStays
<1> QED BY <1>1, <1>2, <1>3 DEF Reallocating

\* With no new record, what is recorded stays true.
LEMMA OutcomesStay ==
  ASSUME ReplayType, NumbersUnique, Outcomes, log' = log,
         NEW p, NEW x, NEW b, NEW y, NEW d, Evolves(x, b, y, d, p), Sane(x, b, y, d),
         \A r \in log : y # 0 /\ r.op = "ReallocBegin" /\ Ends(r) # {} => d # r.seq
  PROVE  Outcomes'
<1>1. PICK m \in Nat : m = Len(life) BY DEF ReplayType
<1>2. \A r \in log : r.seq # 0 BY DEF NumbersUnique
<1>3. ASSUME NEW r \in log, Introduces(r)
      PROVE \E k \in 1 .. Len(life') : life'[k].born = r.seq /\ life'[k].addr = r.addr
  <2>1. PICK k \in 1 .. m : life[k].born = r.seq /\ life[k].addr = r.addr
    BY <1>1, <1>3 DEF Outcomes
  <2>2. k # 0 /\ k \in 1 .. Len(life') BY <1>1 DEF Evolves
  <2>3. k # x BY <1>2, <2>1, <2>2 DEF Sane
  <2>4. life'[k].born = r.seq /\ life'[k].addr = r.addr BY <1>1, <2>1, <2>3 DEF Evolves
  <2> QED BY <2>2, <2>4
<1>4. ASSUME NEW r \in log, r.op = "Freed" PROVE Died(r.seq, r.old)'
  BY <1>2, <1>4, DiedStays DEF Outcomes
<1>5. ASSUME NEW r \in log, r.op = "ReallocBegin", NEW e \in Ends(r)
      PROVE IF e.retires THEN Died(r.seq, r.old)' ELSE Survived(r.seq)'
  <2>1. IF e.retires THEN Died(r.seq, r.old) ELSE Survived(r.seq) BY <1>5 DEF Outcomes
  <2>2. y # 0 => d # r.seq BY <1>5
  <2>3. Died(r.seq, r.old) => Died(r.seq, r.old)' BY <1>2, DiedStays
  <2>4. Survived(r.seq) => Survived(r.seq)' BY <1>2, <2>2, SurvivedStays
  <2> QED BY <2>1, <2>3, <2>4
<1>6. \A r \in log : Ends(r)' = Ends(r) BY DEF Ends
<1> QED BY <1>3, <1>4, <1>5, <1>6 DEF Outcomes, Introduces

\* With no new record, the reallocations under way stay under way.
LEMMA UnderWayStays ==
  ASSUME UnderWay, NEW t \in Threads, Others(t), log' = log, accepting' => accepting,
         accepting' => \A n : n # 0 /\ Completes(t, n) => Completes(t, n)', NumbersUnique
  PROVE  UnderWay'
<1> SUFFICES ASSUME accepting', NEW r \in Uncertain' PROVE \E u \in Threads : Completes(u, r.seq)'
  BY DEF UnderWay
<1>1. r \in Uncertain /\ r \in log BY DEF Uncertain, Ends
<1>2. PICK u \in Threads : Completes(u, r.seq) BY <1>1 DEF UnderWay
<1>3. r.seq # 0 BY <1>1 DEF NumbersUnique
<1>4. u # t => Completes(u, r.seq)' BY <1>2 DEF Completes, Others
<1> QED BY <1>2, <1>3, <1>4

----------------------------------------------------------------------------
(* AllocationReplay: the parts of the invariant under a step *)

\* A thread in no call holds nothing.
LEMMA IdleIs ==
  ASSUME ReplayType, CallsShaped, NEW t \in Threads, pc[t] = "idle"
  PROVE  Owned(t) = {} /\ call[t] = NoCall /\ call[t].seq = 0 /\ call[t].op = "none"
<1>1. call[t] = NoCall BY DEF CallsShaped, Staged, Shaped
<1>2. CallHas(call[t], "none", 0, 0, 0, FALSE, 0) BY <1>1, NoCallIs
<1> QED BY <1>1, <1>2 DEF CallHas, Owned

\* The block of a call with given arguments.
LEMMA OwnedIs ==
  ASSUME NEW t, NEW op, NEW old, NEW addr, NEW id, NEW retires, NEW n,
         CallHas(call'[t], op, old, addr, id, retires, n)
  PROVE  Owned(t)' = (IF addr # 0 \/ retires THEN {addr} ELSE {old}) \ {0}
BY DEF CallHas, Owned

\* What every step owes for the invariants about the heap and the generations.
LEMMA HeapKeeps ==
  ASSUME ReplayInvariant, ReplayType', NEW t \in Threads, Others(t), Recording,
         NEW p \in Addrs \cup {0}, NEW q, NEW x, NEW b, NEW y, NEW d,
         HeapStep(p, q), Evolves(x, b, y, d, p), Touches(t, p, q, x, y), Sane(x, b, y, d),
         \A k \in 1 .. Len(life) : heap[life[k].addr] = k /\ life[k].addr \in {p, q} =>
           BirthKnown(k)' /\ DeathKnown(k)'
  PROVE  Local(t) /\ HeapLast' /\ AfterLife' /\ Generational'
<1>1. /\ ReplayType /\ BlocksOwned /\ HeapLast /\ AfterLife /\ NumbersUnique /\ Generational
  BY DEF ReplayInvariant
<1>2. Local(t) BY <1>1, LocalIs
<1>3. HeapLast' BY <1>1, HeapLastStays
<1>4. AfterLife' BY <1>1, AfterLifeStays
<1>5. Generational' BY <1>1, GenerationalStays
<1> QED BY <1>2, <1>3, <1>4, <1>5

\* A step that leaves heap and generations alone.
LEMMA QuietKeeps ==
  ASSUME ReplayInvariant, ReplayType', NEW t \in Threads, Others(t), Recording, LogGrows,
         heap' = heap, life' = life, seq' = seq
  PROVE  /\ Local(t) /\ HeapLast' /\ AfterLife' /\ Generational'
         /\ Evolves(0, 0, 0, 0, 0) /\ Sane(0, 0, 0, 0) /\ Apart(t, 0, 0)
<1>1. ReplayType BY DEF ReplayInvariant
<1>2. HeapStep(0, 0) /\ Evolves(0, 0, 0, 0, 0) BY <1>1, HeapStays, LifeStays
<1>3. Sane(0, 0, 0, 0) BY <1>1 DEF Sane, ReplayType
<1>4. Touches(t, 0, 0, 0, 0) /\ Apart(t, 0, 0) BY DEF Touches, Apart
<1>5. \A k \in 1 .. Len(life) : life[k].addr \notin {0}
  <2> TAKE k \in 1 .. Len(life)
  <2>1. life[k].addr \in Addrs BY <1>1, GenerationTyped
  <2> QED BY <2>1 DEF Addrs
<1>6. 0 \in Addrs \cup {0} /\ {0, 0} = {0} OBVIOUS
<1>7. Local(t) /\ HeapLast' /\ AfterLife' /\ Generational'
  BY <1>2, <1>3, <1>4, <1>5, <1>6, HeapKeeps
<1> QED BY <1>2, <1>3, <1>4, <1>7

\* One call changes, the others keep their shape.
LEMMA CallsStay ==
  ASSUME CallsShaped, NEW t \in Threads, Others(t), Shaped(call[t])', Staged(t)',
         \A r \in log' : r \in log \/ (Shaped(r) /\ r.op # "none")
  PROVE  CallsShaped'
<1>1. \A u \in Threads : u # t => Shaped(call[u])' /\ Staged(u)'
  BY DEF CallsShaped, Others, Shaped, Staged, NoCall
<1>2. \A r \in log' : Shaped(r)' /\ r.op # "none" BY DEF CallsShaped, Shaped, NoCall
<1> QED BY <1>1, <1>2 DEF CallsShaped

\* No number is given twice.
LEMMA NumbersStay ==
  ASSUME ReplayType, ReplayType', NumbersUnique, NEW t \in Threads, Others(t), log' = log, now' = now,
         seq <= seq', accepting' => accepting,
         call'[t].seq <= seq', call'[t].id <= seq',
         pc'[t] = "stamp" => \A r \in log : r.seq # call'[t].seq,
         call'[t].seq # 0 => \A u \in Threads : u # t => call'[t].seq # call[u].seq,
         pc'[t] \in {"free", "realloc", "return"} =>
           IF call'[t].seq = 0 THEN ~accepting' ELSE Logged(call'[t])
  PROVE  NumbersUnique'
<1>1. seq \in Nat /\ seq' \in Nat BY DEF ReplayType
<1>2. \A u \in Threads : u # t => pc'[u] = pc[u] /\ call'[u] = call[u] BY DEF Others
<1>3. \A r \in log' : r.seq # 0 /\ r.seq <= seq' /\ r.ts <= now' /\ r.id <= seq'
  <2> TAKE r \in log'
  <2>1. r \in Calls BY DEF ReplayType
  <2>2. r.seq \in Nat /\ r.id \in Nat BY <2>1 DEF Calls
  <2> QED BY <1>1, <2>2 DEF NumbersUnique
<1>4. \A u \in Threads : call'[u].seq <= seq' /\ call'[u].id <= seq'
  <2> TAKE u \in Threads
  <2>1. call[u] \in Calls BY DEF ReplayType
  <2>2. call[u].seq \in Nat /\ call[u].id \in Nat BY <2>1 DEF Calls
  <2>3. call[u].seq <= seq /\ call[u].id <= seq BY DEF NumbersUnique
  <2> QED BY <1>1, <1>2, <2>2, <2>3
<1>5. \A u \in Threads : pc'[u] = "stamp" => \A r \in log' : r.seq # call'[u].seq
  BY <1>2 DEF NumbersUnique
<1>6. \A u, v \in Threads : u # v /\ call'[u].seq # 0 => call'[u].seq # call'[v].seq
  BY <1>2 DEF NumbersUnique
<1>7. \A u \in Threads : pc'[u] \in {"free", "realloc", "return"} =>
        IF call'[u].seq = 0 THEN ~accepting' ELSE Logged(call[u])'
  BY <1>2 DEF NumbersUnique, Logged
<1>8. \A r, q \in log' : r.seq = q.seq => r = q BY DEF NumbersUnique
<1> QED BY <1>3, <1>4, <1>5, <1>6, <1>7, <1>8 DEF NumbersUnique

\* One call changes, the reallocations of the others keep their state.
LEMMA ReallocationsStay ==
  ASSUME ReplayInvariant, NEW t \in Threads, Local(t), LogGrows,
         NEW p, NEW x, NEW b, NEW y, NEW d, Evolves(x, b, y, d, p), Sane(x, b, y, d), Apart(t, y, d),
         \A e \in log' : e \in log \/ (e.op = "ReallocEnd" => call[t].op = "ReallocEnd" /\ e.id = call[t].id),
         call'[t].op = "ReallocEnd" =>
           \/ call[t].op = "ReallocEnd" /\ call'[t].id = call[t].id
           \/ call[t].op = "ReallocBegin" /\ call'[t].id = call[t].seq,
         Reallocating(t)' => Undecided(t)',
         call'[t].op = "ReallocEnd" /\ call'[t].id # 0 => Decided(t)'
  PROVE  Reallocations'
<1>1. /\ ReplayType /\ CallsShaped /\ NumbersUnique /\ BlocksOwned /\ HeapLast /\ Reallocations
  BY DEF ReplayInvariant
<1>2. ASSUME NEW u \in Threads, u # t
      PROVE  /\ Reallocating(u)' => Undecided(u)'
             /\ call'[u].op = "ReallocEnd" /\ call'[u].id # 0 => Decided(u)'
  BY <1>1, <1>2, OthersRealloc
<1> QED BY <1>2 DEF Reallocations

----------------------------------------------------------------------------
(* AllocationReplay: each action keeps the invariant *)

\* Malloc: a new generation, in the hands of the call.
LEMMA MallocKeeps ==
  ASSUME ReplayInvariant, NEW t \in Threads, NEW a \in FreeAddrs, Malloc(t, a)
  PROVE  ReplayInvariant'
<1>1. /\ ReplayType /\ CallsShaped /\ NumbersUnique /\ BlocksOwned /\ HeapLast /\ InApp /\ InCall
      /\ Outcomes /\ UnderWay
  BY DEF ReplayInvariant
<1>2. /\ pc[t] = "idle" /\ pc'[t] = "number" /\ Others(t)
      /\ CallHas(call'[t], "Allocated", 0, a, 0, FALSE, 0)
      /\ a \in Addrs /\ a # 0 /\ heap[a] = 0 /\ HeapStep(a, 0) /\ Evolves(0, 0, 0, 0, a)
      /\ UNCHANGED <<app, now, accepting, seq, log>> /\ ReplayType'
  BY <1>1, MallocIs
<1>3. Owned(t) = {} /\ call[t].op = "none" BY <1>1, <1>2, IdleIs
<1>4. Owned(t)' = {a} BY <1>2 DEF Owned, CallHas
<1>5. Recording /\ LogGrows /\ Sane(0, 0, 0, 0) /\ Touches(t, a, 0, 0, 0) /\ Apart(t, 0, 0)
  BY <1>1, <1>2 DEF Recording, LogGrows, Sane, Touches, Apart, ReplayType
<1>6. \A k \in 1 .. Len(life) : ~(heap[life[k].addr] = k /\ life[k].addr \in {a, 0})
  <2> TAKE k \in 1 .. Len(life)
  <2>1. life[k].addr \in Addrs /\ k # 0 BY <1>1, GenerationTyped
  <2>2. life[k].addr # 0 BY <2>1 DEF Addrs
  <2> QED BY <1>2, <2>1, <2>2
<1>7. a \in Addrs \cup {0} BY <1>2
<1>8. Local(t) /\ HeapLast' /\ AfterLife' /\ Generational'
  BY <1>2, <1>5, <1>6, <1>7, HeapKeeps
<1>9. CallsShaped'
  <2>1. Shaped(call[t])' /\ Staged(t)' BY <1>2 DEF CallHas, Shaped, Staged
  <2> QED BY <1>1, <1>2, <2>1, CallsStay
<1>10. NumbersUnique'
  <2>1. call'[t].seq = 0 /\ call'[t].id = 0 BY <1>2 DEF CallHas
  <2>2. seq \in Nat BY <1>1 DEF ReplayType
  <2> QED BY <1>1, <1>2, <2>1, <2>2, NumbersStay
<1>11. BlocksOwned'
  <2>1. Len(life) + 1 # 0 BY <1>1 DEF ReplayType
  <2>2. \A c \in Addrs : heap'[c] = IF c = a THEN Len(life) + 1 ELSE heap[c]
    BY <1>2 DEF HeapStep, Addrs
  <2>3. \A c \in app : c \in Addrs /\ heap[c] # 0 BY <1>1 DEF BlocksOwned, ReplayType
  <2>4. \A c \in Addrs : heap'[c] # 0 <=>
          c \in app' \/ c \in Owned(t)' \/ (heap[c] # 0 /\ c \notin app /\ c \notin Owned(t))
    BY <1>2, <1>3, <1>4, <2>1, <2>2, <2>3
  <2>5. \A c \in app' \cup Owned(t)' : c \in app \/ c \in Owned(t) \/ heap[c] = 0 BY <1>2, <1>4
  <2>6. app' \cap Owned(t)' = {} BY <1>2, <1>4, <2>3
  <2> QED BY <1>1, <1>2, <2>4, <2>5, <2>6, OwnersStay
<1>12. InApp' /\ InCall'
  <2>1. heap'[a] = Len(life) + 1 BY <1>2 DEF HeapStep
  <2>2. life'[heap'[a]].born = 0 /\ life'[heap'[a]].died = 0 BY <1>2, <2>1 DEF Evolves
  <2>3. Handled(t, a)' BY <1>2, <2>2 DEF CallHas, Handled
  <2> QED BY <1>1, <1>2, <1>4, <1>8, <2>3, InUse
<1>13. Reallocations'
  <2>1. call'[t].op = "Allocated" BY <1>2 DEF CallHas
  <2>2. ~Reallocating(t)' BY <2>1 DEF Reallocating
  <2> QED BY <1>2, <1>5, <1>8, <2>1, <2>2, ReallocationsStay
<1>14. Outcomes' BY <1>1, <1>2, <1>5, OutcomesStay
<1>15. UnderWay'
  <2>1. \A n : ~Completes(t, n) BY <1>2 DEF Completes
  <2> QED BY <1>1, <1>2, <2>1, UnderWayStays
<1> QED BY <1>2, <1>8, <1>9, <1>10, <1>11, <1>12, <1>13, <1>14, <1>15 DEF ReplayInvariant

\* free and realloc take the block from the application.
LEMMA TakeKeeps ==
  ASSUME ReplayInvariant, NEW t \in Threads, NEW a \in app \cup {0},
         NEW op \in {"Freed", "ReallocBegin"}, op = "Freed" => a # 0,
         pc[t] = "idle", pc'[t] = "number", Others(t), CallHas(call'[t], op, a, 0, 0, FALSE, 0),
         app' = app \ {a}, UNCHANGED <<heap, now, accepting, seq, log, life>>, ReplayType'
  PROVE  ReplayInvariant'
<1>1. /\ ReplayType /\ CallsShaped /\ NumbersUnique /\ BlocksOwned /\ HeapLast /\ InApp /\ InCall
      /\ Outcomes /\ UnderWay
  BY DEF ReplayInvariant
<1>2. Owned(t) = {} /\ call[t].op = "none" BY <1>1, IdleIs
<1>3. Owned(t)' = {a} \ {0} BY OwnedIs
<1>4. Recording /\ LogGrows BY DEF Recording, LogGrows
<1>5. /\ Local(t) /\ HeapLast' /\ AfterLife' /\ Generational'
      /\ Evolves(0, 0, 0, 0, 0) /\ Sane(0, 0, 0, 0) /\ Apart(t, 0, 0)
  BY <1>4, QuietKeeps
<1>6. CallsShaped'
  <2>1. Shaped(call[t])' /\ Staged(t)' BY DEF CallHas, Shaped, Staged
  <2> QED BY <1>1, <2>1, CallsStay
<1>7. NumbersUnique'
  <2>1. call'[t].seq = 0 /\ call'[t].id = 0 BY DEF CallHas
  <2>2. seq \in Nat BY <1>1 DEF ReplayType
  <2> QED BY <1>1, <2>1, <2>2, NumbersStay
<1>8. \A c \in app : c \in Addrs /\ heap[c] # 0 /\ c # 0 BY <1>1 DEF BlocksOwned, ReplayType, Addrs
<1>9. BlocksOwned'
  <2>1. \A c \in Addrs : heap'[c] # 0 <=>
          c \in app' \/ c \in Owned(t)' \/ (heap[c] # 0 /\ c \notin app /\ c \notin Owned(t))
    BY <1>2, <1>3, <1>8
  <2>2. \A c \in app' \cup Owned(t)' : c \in app \/ c \in Owned(t) \/ heap[c] = 0 BY <1>3
  <2>3. app' \cap Owned(t)' = {} BY <1>3
  <2> QED BY <1>1, <2>1, <2>2, <2>3, OwnersStay
<1>10. InApp' /\ InCall'
  <2>1. ASSUME NEW c \in Owned(t)' PROVE Handled(t, c)'
    <3>1. c = a /\ a \in app BY <1>3
    <3>2. Kept(c)' BY <1>1, <1>5, <3>1, AppStays
    <3> QED BY <3>2 DEF Kept, Handled, CallHas
  <2>2. \A c \in app' : c \in app OBVIOUS
  <2> QED BY <1>1, <1>5, <2>1, <2>2, InUse
<1>11. Reallocations'
  <2>1. call'[t].op # "ReallocEnd" /\ ~Reallocating(t)' BY DEF CallHas, Reallocating
  <2> QED BY <1>4, <1>5, <2>1, ReallocationsStay
<1>12. Outcomes' BY <1>1, <1>5, OutcomesStay
<1>13. UnderWay'
  <2>1. \A n : ~Completes(t, n) BY DEF Completes
  <2> QED BY <1>1, <2>1, UnderWayStays
<1> QED BY <1>5, <1>6, <1>7, <1>9, <1>10, <1>11, <1>12, <1>13 DEF ReplayInvariant

\* Free takes a block from the application.
LEMMA FreeKeeps ==
  ASSUME ReplayInvariant, NEW t \in Threads, NEW a \in app, Free(t, a) PROVE ReplayInvariant'
<1>1. ReplayType BY DEF ReplayInvariant
<1>2. "Freed" \in {"Freed", "ReallocBegin"} /\ a \in app \cup {0} OBVIOUS
<1>3. /\ pc[t] = "idle" /\ pc'[t] = "number" /\ Others(t)
      /\ CallHas(call'[t], "Freed", a, 0, 0, FALSE, 0) /\ a # 0
      /\ app' = app \ {a} /\ UNCHANGED <<heap, now, accepting, seq, log, life>> /\ ReplayType'
  BY <1>1, FreeIs
<1> QED BY <1>2, <1>3, TakeKeeps

\* So does Realloc.
LEMMA ReallocKeeps ==
  ASSUME ReplayInvariant, NEW t \in Threads, NEW a \in app \cup {0}, Realloc(t, a)
  PROVE  ReplayInvariant'
<1>1. ReplayType BY DEF ReplayInvariant
<1>2. "ReallocBegin" \in {"Freed", "ReallocBegin"} OBVIOUS
<1>3. /\ pc[t] = "idle" /\ pc'[t] = "number" /\ Others(t)
      /\ CallHas(call'[t], "ReallocBegin", a, 0, 0, FALSE, 0)
      /\ app' = app \ {a} /\ UNCHANGED <<heap, now, accepting, seq, log, life>> /\ ReplayType'
  BY <1>1, ReallocIs
<1> QED BY <1>2, <1>3, TakeKeeps

\* Where a call at "number" or "stamp" goes on.
LEMMA AfterIs ==
  ASSUME ReplayType, CallsShaped, NEW t \in Threads, pc[t] \in {"number", "stamp"}
  PROVE  /\ call[t].op \in {"Allocated", "Freed", "ReallocBegin", "ReallocEnd"}
         /\ After(call[t].op) \in {"free", "realloc", "return"}
         /\ After(call[t].op) = "free" <=> call[t].op = "Freed"
         /\ After(call[t].op) = "realloc" <=> call[t].op = "ReallocBegin"
         /\ After(call[t].op) = "return" <=> call[t].op \in {"Allocated", "ReallocEnd"}
         /\ call[t].addr # 0 => After(call[t].op) = "return"
<1>1. call[t] \in Calls BY DEF ReplayType
<1>2. call[t].op \in Ops BY <1>1 DEF Calls
<1>3. call[t].op # "none" BY DEF CallsShaped, Staged
<1>4. call[t].addr # 0 => call[t].op \in {"Allocated", "ReallocEnd"}
  BY <1>2, <1>3 DEF CallsShaped, Shaped, Ops
<1> QED BY <1>2, <1>3, <1>4 DEF After, Ops

\* Refused: nothing is recorded, and the collector does not accept.
LEMMA RefusedKeeps ==
  ASSUME ReplayInvariant, NEW t \in Threads, Refused(t) PROVE ReplayInvariant'
<1>1. /\ ReplayType /\ CallsShaped /\ NumbersUnique /\ BlocksOwned /\ HeapLast /\ InApp /\ InCall
      /\ Reallocations /\ Outcomes /\ UnderWay
  BY DEF ReplayInvariant
<1>2. /\ pc[t] = "number" /\ ~accepting /\ Others(t) /\ call' = call
      /\ pc'[t] = After(call[t].op)
      /\ UNCHANGED <<heap, app, now, accepting, seq, log, life>> /\ ReplayType'
  BY <1>1, RefusedIs
<1>3. /\ After(call[t].op) \in {"free", "realloc", "return"}
      /\ After(call[t].op) = "free" <=> call[t].op = "Freed"
      /\ After(call[t].op) = "realloc" <=> call[t].op = "ReallocBegin"
      /\ After(call[t].op) = "return" <=> call[t].op \in {"Allocated", "ReallocEnd"}
      /\ call[t].addr # 0 => After(call[t].op) = "return"
      /\ call[t].op \in {"Allocated", "Freed", "ReallocBegin", "ReallocEnd"}
  BY <1>1, <1>2, AfterIs
<1>4. call[t].seq = 0 BY <1>1, <1>2 DEF CallsShaped, Staged
<1>5. Recording /\ LogGrows BY <1>2 DEF Recording, LogGrows
<1>6. /\ Local(t) /\ HeapLast' /\ AfterLife' /\ Generational'
      /\ Evolves(0, 0, 0, 0, 0) /\ Sane(0, 0, 0, 0) /\ Apart(t, 0, 0)
  BY <1>2, <1>5, QuietKeeps
<1>7. CallsShaped'
  <2>1. Shaped(call[t])' BY <1>1, <1>2 DEF CallsShaped, Shaped, NoCall
  <2>2. call[t].op = "ReallocEnd" => call[t].id # 0 BY <1>1, <1>2 DEF CallsShaped, Staged
  <2>3. Staged(t)' BY <1>2, <1>3, <1>4, <2>2 DEF Staged
  <2> QED BY <1>1, <1>2, <2>1, <2>3, CallsStay
<1>8. NumbersUnique'
  <2>1. call'[t].seq = 0 /\ call'[t].id <= seq BY <1>1, <1>2, <1>4 DEF NumbersUnique
  <2>2. seq \in Nat BY <1>1 DEF ReplayType
  <2>3. pc'[t] # "stamp" BY <1>2, <1>3
  <2> QED BY <1>1, <1>2, <2>1, <2>2, <2>3, NumbersStay
<1>9. Owned(t)' = Owned(t) BY <1>2 DEF Owned
<1>10. BlocksOwned'
  <2>1. \A c \in app : heap[c] # 0 /\ c \notin Owned(t) BY <1>1 DEF BlocksOwned
  <2>2. \A c \in Owned(t) : heap[c] # 0 BY <1>1 DEF BlocksOwned
  <2> QED BY <1>1, <1>2, <1>9, <2>1, <2>2, OwnersStay
<1>11. InApp' /\ InCall'
  <2>1. ASSUME NEW a \in Owned(t) PROVE Handled(t, a)'
    <3>1. Handled(t, a) BY <1>1 DEF InCall
    <3>2. BirthKnown(heap[a]) => BirthKnown(heap[a])' BY <1>2 DEF BirthKnown
    <3>3. life[heap[a]].died = 0 => DeathKnown(heap[a])' BY <1>2 DEF DeathKnown
    <3>4. life[heap[a]].born = 0 => BirthKnown(heap[a])' BY <1>2 DEF BirthKnown
    <3> QED BY <1>2, <1>3, <3>1, <3>2, <3>3, <3>4 DEF Handled
  <2> QED BY <1>1, <1>2, <1>6, <1>9, <2>1, InUse
<1>12. Reallocations'
  <2>1. ~Reallocating(t)' BY <1>2, <1>4 DEF Reallocating
  <2>2. ASSUME call'[t].op = "ReallocEnd", call'[t].id # 0 PROVE Decided(t)'
    <3>1. Decided(t) BY <1>1, <1>2, <2>2 DEF Reallocations
    <3> QED BY <1>1, <1>2, <1>5, <1>6, <2>2, <3>1, DecidedStays
  <2> QED BY <1>2, <1>5, <1>6, <2>1, <2>2, ReallocationsStay
<1>13. Outcomes' BY <1>1, <1>2, <1>6, OutcomesStay
<1>14. UnderWay' BY <1>2 DEF UnderWay
<1> QED BY <1>2, <1>6, <1>7, <1>8, <1>10, <1>11, <1>12, <1>13, <1>14 DEF ReplayInvariant

\* Number: the number follows everything recorded.
LEMMA NumberKeeps ==
  ASSUME ReplayInvariant, NEW t \in Threads, Number(t) PROVE ReplayInvariant'
<1>1. /\ ReplayType /\ CallsShaped /\ NumbersUnique /\ BlocksOwned /\ HeapLast /\ InApp /\ InCall
      /\ Generational /\ Reallocations /\ Outcomes /\ UnderWay
  BY DEF ReplayInvariant
<1> DEFINE c == call[t]
           x == At(c.addr)
           y == IF c.op = "Freed" THEN At(c.old) ELSE 0
<1>2. /\ pc[t] = "number" /\ accepting /\ pc'[t] = "stamp" /\ Others(t)
      /\ CallHas(call'[t], c.op, c.old, c.addr, c.id, c.retires, seq + 1)
      /\ seq' = seq + 1 /\ Evolves(x, seq + 1, y, seq + 1, 0)
      /\ UNCHANGED <<heap, app, now, accepting, log>> /\ ReplayType'
  BY <1>1, NumberIs
<1>3. seq \in Nat /\ c \in Calls BY <1>1 DEF ReplayType
<1>4. Shaped(c) /\ c.op # "none" /\ (c.op = "ReallocEnd" => c.id # 0)
  BY <1>1, <1>2 DEF CallsShaped, Staged
<1>5. Recording /\ LogGrows BY <1>2 DEF Recording, LogGrows
<1>6. c.addr # 0 => c.addr \in Owned(t) BY DEF Owned
<1>7. c.op = "Freed" => c.addr = 0 /\ c.old # 0 /\ c.old \in Owned(t) BY <1>4 DEF Owned, Shaped
<1>8. \A a \in Owned(t) : /\ a \in Addrs /\ a # 0 /\ heap[a] # 0 /\ heap[a] \in 1 .. Len(life)
                          /\ life[heap[a]].addr = a
  BY <1>1, OwnedBlock
<1>9. \A a \in Owned(t) : Handled(t, a) BY <1>1 DEF InCall
<1>10. \A a \in Owned(t) : c.addr = 0 =>
         /\ BirthKnown(heap[a]) /\ life[heap[a]].born # 0 /\ life[heap[a]].died = 0
         /\ Follows(life[heap[a]].born, seq + 1)
  <2> SUFFICES ASSUME NEW a \in Owned(t), c.addr = 0
               PROVE  /\ BirthKnown(heap[a]) /\ life[heap[a]].born # 0 /\ life[heap[a]].died = 0
                      /\ Follows(life[heap[a]].born, seq + 1)
    OBVIOUS
  <2>1. BirthKnown(heap[a]) /\ life[heap[a]].died = 0 BY <1>2, <1>9 DEF Handled
  <2>2. life[heap[a]].born # 0 /\ \E r \in log : r.seq = life[heap[a]].born
    BY <1>2, <2>1 DEF BirthKnown
  <2>3. Follows(life[heap[a]].born, seq + 1) BY <1>1, <2>2, FollowsAll
  <2> QED BY <2>1, <2>2, <2>3
<1>11. Survived(seq + 1)
  <2>1. ASSUME NEW k \in 1 .. Len(life) PROVE life[k].died # seq + 1
    <3>1. life[k].died \in Nat /\ life[k].died <= seq BY <1>1, GenerationTyped DEF Generational
    <3> QED BY <1>3, <3>1
  <2> QED BY <2>1 DEF Survived
<1>12. x # 0 => x = heap[c.addr] /\ c.addr # 0 BY DEF At
<1>13. y # 0 => y = heap[c.old] /\ c.op = "Freed" BY <1>7 DEF At
<1>14. Touches(t, 0, 0, x, y) BY <1>6, <1>7, <1>12, <1>13 DEF Touches
<1>15. Sane(x, seq + 1, y, seq + 1)
  <2>1. seq <= seq' /\ seq + 1 \in Nat /\ seq + 1 <= seq' BY <1>2, <1>3
  <2>2. ASSUME x # 0
        PROVE  /\ x \in 1 .. Len(life) /\ life[x].born = 0 /\ life[x].died = 0
               /\ heap[life[x].addr] = x
    <3>1. c.addr \in Owned(t) /\ c.addr # 0 /\ x = heap[c.addr] BY <1>6, <1>12, <2>2
    <3>2. Handled(t, c.addr) BY <1>9, <3>1
    <3> QED BY <1>2, <1>8, <3>1, <3>2 DEF Handled
  <2>3. ASSUME y # 0
        PROVE  /\ y \in 1 .. Len(life) /\ life[y].died = 0 /\ heap[life[y].addr] = y
               /\ life[y].born # 0 /\ Follows(life[y].born, seq + 1)
    BY <1>7, <1>8, <1>10, <1>13, <2>3
  <2> QED BY <1>2, <1>5, <1>11, <2>1, <2>2, <2>3 DEF Sane
<1>16. Apart(t, y, seq + 1)
  <2>1. ASSUME NEW u \in Threads PROVE call[u].seq # seq + 1 /\ call[u].id # seq + 1
    <3>1. call[u] \in Calls BY <1>1 DEF ReplayType
    <3>2. call[u].seq \in Nat /\ call[u].id \in Nat BY <3>1 DEF Calls
    <3>3. call[u].seq <= seq /\ call[u].id <= seq BY <1>1 DEF NumbersUnique
    <3> QED BY <1>3, <3>2, <3>3
  <2> QED BY <2>1 DEF Apart
<1>17. Local(t) /\ HeapLast' /\ AfterLife' /\ Generational'
  <2>1. HeapStep(0, 0) BY <1>1, <1>2, HeapStays
  <2>2. \A k \in 1 .. Len(life) : life[k].addr \notin {0, 0}
    <3> TAKE k \in 1 .. Len(life)
    <3>1. life[k].addr \in Addrs BY <1>1, GenerationTyped
    <3> QED BY <3>1 DEF Addrs
  <2>3. 0 \in Addrs \cup {0} OBVIOUS
  <2> HIDE DEF x, y, c
  <2> QED BY <1>2, <1>5, <1>14, <1>15, <2>1, <2>2, <2>3, HeapKeeps
<1> HIDE DEF x, y
<1>18. /\ call'[t].op = c.op /\ call'[t].old = c.old /\ call'[t].addr = c.addr /\ call'[t].id = c.id
       /\ call'[t].retires = c.retires /\ call'[t].seq = seq + 1
  BY <1>2 DEF CallHas
<1>19. CallsShaped'
  <2>1. Shaped(call[t])' BY <1>4, <1>18 DEF Shaped
  <2>2. seq + 1 # 0 BY <1>3
  <2>3. Staged(t)' BY <1>2, <1>4, <1>18, <2>2 DEF Staged
  <2> QED BY <1>1, <1>2, <2>1, <2>3, CallsStay
<1>20. \A r \in log : r.seq # seq + 1 /\ r.id # seq + 1 /\ r.seq # 0
  <2> TAKE r \in log
  <2>1. r \in Calls BY <1>1 DEF ReplayType
  <2>2. r.seq \in Nat /\ r.id \in Nat BY <2>1 DEF Calls
  <2>3. r.seq <= seq /\ r.id <= seq /\ r.seq # 0 BY <1>1 DEF NumbersUnique
  <2> QED BY <1>3, <2>2, <2>3
<1>21. \A u \in Threads : call[u].seq # seq + 1 /\ call[u].id # seq + 1
  <2> TAKE u \in Threads
  <2>1. call[u] \in Calls BY <1>1 DEF ReplayType
  <2>2. call[u].seq \in Nat /\ call[u].id \in Nat BY <2>1 DEF Calls
  <2>3. call[u].seq <= seq /\ call[u].id <= seq BY <1>1 DEF NumbersUnique
  <2> QED BY <1>3, <2>2, <2>3
<1>22. NumbersUnique'
  <2>1. c.id \in Nat /\ c.id <= seq BY <1>1, <1>3 DEF NumbersUnique, Calls
  <2>2. call'[t].seq <= seq' /\ call'[t].id <= seq' /\ seq <= seq' BY <1>2, <1>3, <1>18, <2>1
  <2>3. pc'[t] \notin {"free", "realloc", "return"} BY <1>2
  <2> QED BY <1>1, <1>2, <1>18, <1>20, <1>21, <2>2, <2>3, NumbersStay
<1>23. Owned(t)' = Owned(t) BY <1>18 DEF Owned
<1>24. BlocksOwned'
  <2>1. \A a \in app : heap[a] # 0 /\ a \notin Owned(t) BY <1>1 DEF BlocksOwned
  <2> QED BY <1>1, <1>2, <1>8, <1>23, <2>1, OwnersStay
<1>25. InApp' /\ InCall'
  <2>1. ASSUME NEW a \in Owned(t) PROVE Handled(t, a)'
    <3>1. PICK k \in 1 .. Len(life) : k = heap[a] /\ k # 0 BY <1>8
    <3>2. /\ life'[k].addr = life[k].addr
          /\ life'[k].born = IF k = x THEN seq + 1 ELSE life[k].born
          /\ life'[k].died = IF k = y THEN seq + 1 ELSE life[k].died
      BY <1>2 DEF Evolves
    <3>3. CASE c.addr # 0
      <4>1. a = c.addr BY <3>3 DEF Owned
      <4>2. k = x /\ y = 0 BY <1>7, <3>1, <3>3, <4>1 DEF x, y, At
      <4>3. life[k].died = 0 BY <1>9, <3>1, <3>3 DEF Handled
      <4> QED BY <1>2, <1>18, <3>1, <3>2, <3>3, <4>2, <4>3 DEF Handled
    <3>4. CASE c.addr = 0
      <4>1. a = c.old /\ a # 0 BY <3>4 DEF Owned
      <4>2. x = 0 /\ (c.op = "Freed" => y = k) /\ (c.op # "Freed" => y = 0)
        BY <3>1, <3>4, <4>1 DEF x, y, At
      <4>3. BirthKnown(k) /\ life[k].died = 0 BY <1>10, <3>1, <3>4
      <4>4. BirthKnown(k)' BY <1>5, <3>1, <3>2, <4>2, <4>3, BirthStays
      <4>5. heap'[a] = k BY <1>2, <3>1
      <4>6. BirthKnown(heap[a])' BY <4>4, <4>5 DEF BirthKnown
      <4> QED BY <1>2, <1>18, <3>1, <3>2, <3>4, <4>2, <4>3, <4>5, <4>6 DEF Handled
    <3> QED BY <3>3, <3>4
  <2> QED BY <1>1, <1>2, <1>17, <1>23, <2>1, InUse
<1>26. Reallocations'
  <2>1. ASSUME Reallocating(t)' PROVE Undecided(t)'
    <3>1. c.op = "ReallocBegin" BY <1>18, <2>1 DEF Reallocating
    <3>2. c.addr = 0 /\ ~c.retires BY <1>4, <3>1 DEF Shaped
    <3>3. x = 0 /\ y = 0 BY <3>1, <3>2 DEF x, y, At
    <3>4. PICK n \in Nat : n = seq + 1 BY <1>3
    <3>5. n # 0 BY <1>3, <3>4
    <3>6. Survived(n)' BY <1>1, <1>2, <1>11, <3>3, <3>4, <3>5, SurvivedStays
    <3>7. ASSUME c.old # 0
          PROVE life'[heap'[c.old]].born # 0 /\ Follows(life[heap[call[t].old]].born, n)'
      <4>1. c.old \in Owned(t) BY <3>2, <3>7 DEF Owned
      <4>2. PICK k \in 1 .. Len(life) : k = heap[c.old] /\ k # 0 BY <1>8, <4>1
      <4>3. PICK v : v = life[k].born OBVIOUS
      <4>4. v # 0 /\ Follows(v, n) BY <1>10, <3>2, <3>4, <4>1, <4>2, <4>3
      <4>5. Follows(v, n)' BY <1>1, <1>5, <4>4, FollowsStays
      <4>6. life'[k].born = v BY <1>2, <3>3, <4>2, <4>3 DEF Evolves
      <4>7. heap'[call'[t].old] = k /\ heap'[c.old] = k BY <1>2, <1>18, <4>2
      <4> QED BY <4>4, <4>5, <4>6, <4>7
    <3>8. \A e \in log' : e.id # n BY <1>2, <1>20, <3>4
    <3>9. \A u \in Threads : call'[u].op = "ReallocEnd" => call'[u].id # n
      BY <1>2, <1>18, <1>21, <3>1, <3>4 DEF Others
    <3> QED BY <1>18, <3>4, <3>6, <3>7, <3>8, <3>9 DEF Undecided
  <2>2. ASSUME call'[t].op = "ReallocEnd", call'[t].id # 0 PROVE Decided(t)'
    <3>1. Decided(t) BY <1>1, <1>18, <2>2 DEF Reallocations
    <3>2. y # 0 => seq + 1 # call[t].id BY <1>21
    <3> QED BY <1>1, <1>2, <1>5, <1>15, <1>18, <2>2, <3>1, <3>2, DecidedStays
  <2>3. \A e \in log' : e \in log BY <1>2
  <2>4. call'[t].op = "ReallocEnd" => call[t].op = "ReallocEnd" /\ call'[t].id = call[t].id BY <1>18
  <2> QED BY <1>2, <1>5, <1>15, <1>16, <1>17, <2>1, <2>2, <2>3, <2>4, ReallocationsStay
<1>27. Outcomes' BY <1>1, <1>2, <1>15, <1>20, OutcomesStay
<1>28. UnderWay'
  <2>1. \A n : Completes(t, n) => Completes(t, n)' BY <1>2, <1>18 DEF Completes
  <2> QED BY <1>1, <1>2, <2>1, UnderWayStays
<1> QED BY <1>2, <1>17, <1>19, <1>22, <1>24, <1>25, <1>26, <1>27, <1>28 DEF ReplayInvariant

\* Stamp: the boundary is recorded, no earlier than any other.
LEMMA StampKeeps ==
  ASSUME ReplayInvariant, NEW t \in Threads, Stamp(t) PROVE ReplayInvariant'
<1>1. /\ ReplayType /\ CallsShaped /\ NumbersUnique /\ BlocksOwned /\ HeapLast /\ InApp /\ InCall
      /\ Generational /\ Reallocations /\ Outcomes /\ UnderWay
  BY DEF ReplayInvariant
<1> DEFINE c == call[t]
<1>2. /\ pc[t] = "stamp" /\ Others(t) /\ call' = call /\ pc'[t] = After(c.op)
      /\ UNCHANGED <<heap, app, now, accepting, seq, life>> /\ ReplayType'
  BY <1>1, StampIs
<1>3. PICK r : Records(t, r) BY <1>1, StampIs
<1>4. /\ r.op = c.op /\ r.old = c.old /\ r.addr = c.addr /\ r.id = c.id /\ r.retires = c.retires
      /\ r.seq = c.seq /\ r \in Calls /\ r.ts = now /\ log' = log \cup {r}
  BY <1>3 DEF Records, CallHas
<1>5. /\ After(c.op) \in {"free", "realloc", "return"}
      /\ After(c.op) = "free" <=> c.op = "Freed"
      /\ After(c.op) = "realloc" <=> c.op = "ReallocBegin"
      /\ After(c.op) = "return" <=> c.op \in {"Allocated", "ReallocEnd"}
      /\ c.addr # 0 => After(c.op) = "return"
      /\ c.op \in {"Allocated", "Freed", "ReallocBegin", "ReallocEnd"}
  BY <1>1, <1>2, AfterIs
<1>6. c.seq # 0 /\ Shaped(c) /\ (c.op = "ReallocEnd" => c.id # 0)
  BY <1>1, <1>2 DEF CallsShaped, Staged
<1>7. Recording /\ LogGrows BY <1>2, <1>4 DEF Recording, LogGrows
<1>8. /\ Local(t) /\ HeapLast' /\ AfterLife' /\ Generational'
      /\ Evolves(0, 0, 0, 0, 0) /\ Sane(0, 0, 0, 0) /\ Apart(t, 0, 0)
  BY <1>2, <1>7, QuietKeeps
<1>9. CallsShaped'
  <2>1. Shaped(call[t])' BY <1>2, <1>6 DEF Shaped, NoCall
  <2>2. Staged(t)' BY <1>2, <1>5, <1>6 DEF Staged
  <2>3. Shaped(r) /\ r.op # "none" BY <1>4, <1>5, <1>6 DEF Shaped
  <2>4. \A e \in log' : e \in log \/ (Shaped(e) /\ e.op # "none") BY <1>4, <2>3
  <2> QED BY <1>1, <1>2, <2>1, <2>2, <2>4, CallsStay
<1>10. NumbersUnique'
  <2>1. now \in Nat /\ seq \in Nat BY <1>1 DEF ReplayType
  <2>2. c.seq <= seq /\ c.id <= seq BY <1>1 DEF NumbersUnique
  <2>3. \A e \in log' : e.seq # 0 /\ e.seq <= seq' /\ e.ts <= now' /\ e.id <= seq'
    BY <1>1, <1>2, <1>4, <1>6, <2>1, <2>2 DEF NumbersUnique
  <2>4. \A e \in log : e.seq # c.seq BY <1>1, <1>2 DEF NumbersUnique
  <2>5. \A e, q \in log' : e.seq = q.seq => e = q BY <1>1, <1>4, <2>4 DEF NumbersUnique
  <2>6. \A u \in Threads : call'[u].seq <= seq' /\ call'[u].id <= seq' BY <1>1, <1>2 DEF NumbersUnique
  <2>7. \A u \in Threads : pc'[u] = "stamp" => \A e \in log' : e.seq # call'[u].seq
    <3> SUFFICES ASSUME NEW u \in Threads, pc'[u] = "stamp", NEW e \in log'
                 PROVE  e.seq # call'[u].seq
      OBVIOUS
    <3>1. u # t BY <1>2, <1>5
    <3>2. pc[u] = "stamp" BY <1>2, <3>1 DEF Others
    <3>3. e \in log => e.seq # call[u].seq BY <1>1, <3>2 DEF NumbersUnique
    <3>4. c.seq # call[u].seq BY <1>1, <1>6, <3>1 DEF NumbersUnique
    <3> QED BY <1>2, <1>4, <3>3, <3>4
  <2>8. \A u, v \in Threads : u # v /\ call'[u].seq # 0 => call'[u].seq # call'[v].seq
    BY <1>1, <1>2 DEF NumbersUnique
  <2>9. \A u \in Threads : pc'[u] \in {"free", "realloc", "return"} =>
          IF call'[u].seq = 0 THEN ~accepting' ELSE Logged(call[u])'
    <3> SUFFICES ASSUME NEW u \in Threads, pc'[u] \in {"free", "realloc", "return"}
                 PROVE  IF call'[u].seq = 0 THEN ~accepting' ELSE Logged(call[u])'
      OBVIOUS
    <3>1. CASE u = t
      <4>1. Logged(call[t])' BY <1>2, <1>4 DEF Logged
      <4> QED BY <1>2, <1>6, <3>1, <4>1
    <3>2. CASE u # t
      <4>1. pc[u] \in {"free", "realloc", "return"} BY <1>2, <3>2 DEF Others
      <4>2. IF call[u].seq = 0 THEN ~accepting ELSE Logged(call[u]) BY <1>1, <4>1 DEF NumbersUnique
      <4>3. Logged(call[u]) => Logged(call[u])' BY <1>2, <1>4 DEF Logged
      <4> QED BY <1>2, <4>2, <4>3
    <3> QED BY <3>1, <3>2
  <2> QED BY <2>3, <2>5, <2>6, <2>7, <2>8, <2>9 DEF NumbersUnique
<1>11. Owned(t)' = Owned(t) BY <1>2 DEF Owned
<1>12. \A a \in Owned(t) : heap[a] # 0 /\ life[heap[a]].addr = a /\ a \in Addrs
         /\ heap[a] \in 1 .. Len(life)
  BY <1>1, OwnedBlock
<1>13. BlocksOwned'
  <2>1. \A a \in app : heap[a] # 0 /\ a \notin Owned(t) BY <1>1 DEF BlocksOwned
  <2> QED BY <1>1, <1>2, <1>11, <1>12, <2>1, OwnersStay
<1>14. InApp' /\ InCall'
  <2>1. ASSUME NEW a \in Owned(t) PROVE Handled(t, a)'
    <3>1. Handled(t, a) BY <1>1 DEF InCall
    <3>2. PICK k : k = heap[a] OBVIOUS
    <3>3. heap'[a] = k /\ life'[k] = life[k] /\ life[k].addr = a BY <1>2, <1>12, <3>2
    <3>4. BirthKnown(k) => BirthKnown(k)' BY <1>7, <3>3, BirthStays
    <3>5. CASE c.addr # 0
      <4>1. a = c.addr BY <3>5 DEF Owned
      <4>2. life[k].born = c.seq /\ life[k].died = 0 BY <1>2, <3>1, <3>2, <3>5 DEF Handled
      <4>3. c.op \in {"Allocated", "ReallocEnd"} BY <1>5, <3>5
      <4>4. BirthKnown(k)' BY <1>4, <1>6, <3>3, <4>1, <4>2, <4>3 DEF BirthKnown
      <4>5. BirthKnown(heap[a])' BY <3>3, <4>4 DEF BirthKnown
      <4> QED BY <1>2, <1>5, <3>3, <3>5, <4>2, <4>5 DEF Handled
    <3>6. CASE c.addr = 0
      <4>1. a = c.old BY <3>6 DEF Owned
      <4>2. BirthKnown(k) /\ (c.op # "Freed" => life[k].died = 0)
            /\ (c.op = "Freed" => life[k].died = c.seq)
        BY <1>2, <3>1, <3>2, <3>6 DEF Handled
      <4>3. BirthKnown(heap[a])' BY <3>3, <3>4, <4>2 DEF BirthKnown
      <4>4. c.op = "Freed" => DeathKnown(k)' BY <1>4, <1>6, <3>3, <4>1, <4>2 DEF DeathKnown
      <4>5. c.op = "Freed" => DeathKnown(heap[a])' BY <3>3, <4>4 DEF DeathKnown
      <4> QED BY <1>2, <1>5, <3>3, <3>6, <4>2, <4>3, <4>5 DEF Handled
    <3> QED BY <3>5, <3>6
  <2> QED BY <1>1, <1>2, <1>8, <1>11, <2>1, InUse
<1>15. Reallocations'
  <2>1. \A e \in log' : e \in log \/ (e.op = "ReallocEnd" => call[t].op = "ReallocEnd" /\ e.id = call[t].id)
    BY <1>4
  <2>2. ASSUME Reallocating(t)' PROVE Undecided(t)'
    <3>1. Reallocating(t) /\ c.op = "ReallocBegin" BY <1>2, <2>2 DEF Reallocating
    <3>2. Undecided(t) BY <1>1, <3>1 DEF Reallocations
    <3>3. \A e \in log' : e \in log \/ (e.op = "ReallocEnd" => e.id # call[t].seq) BY <1>4, <3>1
    <3>4. c.old # 0 => Undisturbed(c.old) BY <1>2 DEF Undisturbed
    <3> QED BY <1>1, <1>2, <1>7, <1>8, <3>1, <3>2, <3>3, <3>4, UndecidedStays
  <2>3. ASSUME call'[t].op = "ReallocEnd", call'[t].id # 0 PROVE Decided(t)'
    <3>1. Decided(t) BY <1>1, <1>2, <2>3 DEF Reallocations
    <3> QED BY <1>1, <1>2, <1>7, <1>8, <2>3, <3>1, DecidedStays
  <2> QED BY <1>2, <1>7, <1>8, <2>1, <2>2, <2>3, ReallocationsStay
<1>16. Outcomes'
  <2>1. \A n, a : (Died(n, a) <=> Died(n, a)') /\ (Survived(n) <=> Survived(n)')
    BY <1>2 DEF Died, Survived
  <2>2. ASSUME NEW e \in log', Introduces(e)
        PROVE  \E k \in 1 .. Len(life') : life'[k].born = e.seq /\ life'[k].addr = e.addr
    <3>1. CASE e \in log BY <1>1, <1>2, <2>2, <3>1 DEF Outcomes
    <3>2. CASE e = r
      <4>1. c.addr # 0 BY <1>4, <2>2, <3>2 DEF Introduces
      <4>2. c.addr \in Owned(t) BY <4>1 DEF Owned
      <4>3. Handled(t, c.addr) BY <1>1, <4>2 DEF InCall
      <4>4. life[heap[c.addr]].born = c.seq BY <1>2, <4>1, <4>3 DEF Handled
      <4> QED BY <1>2, <1>4, <1>12, <3>2, <4>2, <4>4
    <3> QED BY <1>4, <3>1, <3>2
  <2>3. ASSUME NEW e \in log', e.op = "Freed" PROVE Died(e.seq, e.old)
    <3>1. CASE e \in log BY <1>1, <2>3, <3>1 DEF Outcomes
    <3>2. CASE e = r
      <4>1. c.op = "Freed" BY <1>4, <2>3, <3>2
      <4>2. c.addr = 0 /\ c.old # 0 /\ ~c.retires BY <1>6, <4>1 DEF Shaped
      <4>3. c.old \in Owned(t) BY <4>2 DEF Owned
      <4>4. Handled(t, c.old) BY <1>1, <4>3 DEF InCall
      <4>5. life[heap[c.old]].died = c.seq BY <1>2, <4>1, <4>2, <4>4 DEF Handled
      <4> QED BY <1>4, <1>12, <3>2, <4>3, <4>5 DEF Died
    <3> QED BY <1>4, <3>1, <3>2
  <2>4. ASSUME NEW e \in log', e.op = "ReallocBegin", NEW f \in Ends(e)'
        PROVE  IF f.retires THEN Died(e.seq, e.old) ELSE Survived(e.seq)
    <3>1. f \in log' /\ f.op = "ReallocEnd" /\ f.id = e.seq BY DEF Ends
    <3>2. CASE e \in log /\ f \in log
      <4>1. f \in Ends(e) BY <3>1, <3>2 DEF Ends
      <4> QED BY <1>1, <2>4, <3>2, <4>1 DEF Outcomes
    <3>3. CASE e \in log /\ f = r
      <4>1. c.op = "ReallocEnd" /\ c.id = e.seq /\ c.id # 0 BY <1>4, <1>6, <3>1, <3>3
      <4>2. Decided(t) BY <1>1, <4>1 DEF Reallocations
      <4>3. PICK q \in log : q.seq = c.id /\ q.old = c.old BY <4>2 DEF Decided
      <4>4. q = e BY <1>1, <3>3, <4>1, <4>3 DEF NumbersUnique
      <4> QED BY <1>4, <3>3, <4>1, <4>2, <4>3, <4>4 DEF Decided
    <3>4. CASE e = r
      <4>1. c.op = "ReallocBegin" /\ f # r BY <1>4, <2>4, <3>1, <3>4
      <4>2. Reallocating(t) BY <1>6, <4>1 DEF Reallocating
      <4>3. f.id # c.seq BY <1>1, <1>4, <3>1, <4>1, <4>2 DEF Reallocations, Undecided
      <4> QED BY <1>4, <3>1, <3>4, <4>3
    <3> QED BY <1>4, <3>1, <3>2, <3>3, <3>4
  <2>5. \A e \in log' : e.op = "Freed" => Died(e.seq, e.old)' BY <2>1, <2>3
  <2>6. \A e \in log' : e.op = "ReallocBegin" => \A f \in Ends(e)' :
          IF f.retires THEN Died(e.seq, e.old)' ELSE Survived(e.seq)'
    BY <2>1, <2>4
  <2> QED BY <2>2, <2>5, <2>6 DEF Outcomes, Introduces
<1>17. UnderWay'
  <2> SUFFICES ASSUME accepting', NEW e \in Uncertain' PROVE \E u \in Threads : Completes(u, e.seq)'
    BY DEF UnderWay
  <2>1. e \in log' /\ e.op = "ReallocBegin" /\ Ends(e)' = {} BY DEF Uncertain
  <2>2. CASE e = r
    <3>1. c.op = "ReallocBegin" BY <1>4, <2>1, <2>2
    <3>2. pc'[t] = "realloc" BY <1>2, <1>5, <3>1
    <3> QED BY <1>2, <1>4, <2>2, <3>2 DEF Completes
  <2>3. CASE e \in log
    <3>1. e \in Uncertain BY <1>4, <2>1, <2>3 DEF Uncertain, Ends
    <3>2. PICK u \in Threads : Completes(u, e.seq) BY <1>1, <1>2, <3>1 DEF UnderWay
    <3>3. CASE u # t BY <1>2, <3>2, <3>3 DEF Completes, Others
    <3>4. CASE u = t
      <4>1. c.op = "ReallocEnd" /\ c.id = e.seq BY <1>2, <3>2, <3>4 DEF Completes
      <4>2. r \in Ends(e)' BY <1>4, <4>1 DEF Ends
      <4> QED BY <2>1, <4>2
    <3> QED BY <3>3, <3>4
  <2> QED BY <1>4, <2>1, <2>2, <2>3
<1> QED BY <1>2, <1>8, <1>9, <1>10, <1>13, <1>14, <1>15, <1>16, <1>17 DEF ReplayInvariant

\* RealFree: the generation leaves the heap with its end recorded.
LEMMA RealFreeKeeps ==
  ASSUME ReplayInvariant, NEW t \in Threads, RealFree(t) PROVE ReplayInvariant'
<1>1. /\ ReplayType /\ CallsShaped /\ NumbersUnique /\ BlocksOwned /\ HeapLast /\ InApp /\ InCall
      /\ Outcomes /\ UnderWay
  BY DEF ReplayInvariant
<1> DEFINE old == call[t].old
<1>2. /\ pc[t] = "free" /\ pc'[t] = "idle" /\ call'[t] = NoCall /\ Others(t)
      /\ call[t].op = "Freed" /\ old # 0 /\ call[t].addr = 0 /\ ~call[t].retires
      /\ old \in Addrs /\ HeapStep(0, old)
      /\ UNCHANGED <<app, now, accepting, seq, log, life>> /\ ReplayType'
  BY <1>1, RealFreeIs
<1>3. CallHas(call'[t], "none", 0, 0, 0, FALSE, 0) BY <1>2, NoCallIs
<1>4. Owned(t) = {old} /\ Owned(t)' = {} BY <1>2, <1>3 DEF Owned, CallHas
<1>5. Evolves(0, 0, 0, 0, 0) BY <1>1, <1>2, LifeStays
<1>6. Recording /\ LogGrows /\ Sane(0, 0, 0, 0) /\ Touches(t, 0, old, 0, 0) /\ Apart(t, 0, 0)
  BY <1>1, <1>2, <1>4 DEF Recording, LogGrows, Sane, Touches, Apart, ReplayType
<1>7. \A k \in 1 .. Len(life) : heap[life[k].addr] = k /\ life[k].addr \in {0, old} =>
        BirthKnown(k)' /\ DeathKnown(k)'
  <2> SUFFICES ASSUME NEW k \in 1 .. Len(life), heap[life[k].addr] = k, life[k].addr \in {0, old}
               PROVE  BirthKnown(k)' /\ DeathKnown(k)'
    OBVIOUS
  <2>1. life[k].addr \in Addrs BY <1>1, GenerationTyped
  <2>2. life[k].addr = old /\ heap[old] = k BY <2>1 DEF Addrs
  <2>3. Handled(t, old) BY <1>1, <1>4 DEF InCall
  <2>4. BirthKnown(k) /\ DeathKnown(k) BY <1>2, <2>2, <2>3 DEF Handled
  <2> QED BY <1>2, <1>6, <2>4, BirthStays, DeathStays
<1>8. 0 \in Addrs \cup {0} OBVIOUS
<1> HIDE DEF old
<1>9. Local(t) /\ HeapLast' /\ AfterLife' /\ Generational'
  <2>1. Others(t) /\ HeapStep(0, old) /\ ReplayType' BY <1>2
  <2> QED BY <1>5, <1>6, <1>7, <1>8, <2>1, HeapKeeps
<1>10. CallsShaped'
  <2>1. Shaped(call[t])' /\ Staged(t)' BY <1>2, <1>3 DEF CallHas, Shaped, Staged, NoCall
  <2> QED BY <1>1, <1>2, <2>1, CallsStay
<1>11. NumbersUnique'
  <2>1. call'[t].seq = 0 /\ call'[t].id = 0 BY <1>3 DEF CallHas
  <2>2. seq \in Nat BY <1>1 DEF ReplayType
  <2> QED BY <1>1, <1>2, <2>1, <2>2, NumbersStay
<1>12. BlocksOwned'
  <2>1. \A c \in Addrs : heap'[c] = IF c = old THEN 0 ELSE heap[c] BY <1>2 DEF HeapStep, Addrs
  <2>2. \A c \in app : c \in Addrs /\ heap[c] # 0 /\ c # old
    BY <1>1, <1>4 DEF BlocksOwned, ReplayType
  <2>3. \A c \in Addrs : heap'[c] # 0 <=>
          c \in app' \/ c \in Owned(t)' \/ (heap[c] # 0 /\ c \notin app /\ c \notin Owned(t))
    BY <1>2, <1>4, <2>1, <2>2
  <2> QED BY <1>1, <1>2, <1>4, <2>3, OwnersStay
<1>13. InApp' /\ InCall' BY <1>1, <1>2, <1>4, <1>9, InUse
<1>14. Reallocations'
  <2>1. call'[t].op = "none" BY <1>3 DEF CallHas
  <2>2. ~Reallocating(t)' BY <2>1 DEF Reallocating
  <2> QED BY <1>2, <1>5, <1>6, <1>9, <2>1, <2>2, ReallocationsStay
<1>15. Outcomes' BY <1>1, <1>2, <1>5, <1>6, OutcomesStay
<1>16. UnderWay'
  <2>1. \A n : ~Completes(t, n) BY <1>2 DEF Completes
  <2> QED BY <1>1, <1>2, <2>1, UnderWayStays
<1> QED BY <1>2, <1>9, <1>10, <1>11, <1>12, <1>13, <1>14, <1>15, <1>16 DEF ReplayInvariant

\* Return: the block goes to the application with its begin recorded.
LEMMA ReturnKeeps ==
  ASSUME ReplayInvariant, NEW t \in Threads, Return(t) PROVE ReplayInvariant'
<1>1. /\ ReplayType /\ CallsShaped /\ NumbersUnique /\ BlocksOwned /\ HeapLast /\ InApp /\ InCall
      /\ Outcomes /\ UnderWay
  BY DEF ReplayInvariant
<1>2. /\ pc[t] = "return" /\ pc'[t] = "idle" /\ call'[t] = NoCall /\ Others(t)
      /\ app' = app \cup Owned(t)
      /\ UNCHANGED <<heap, now, accepting, seq, log, life>> /\ ReplayType'
  BY <1>1, ReturnIs
<1>3. CallHas(call'[t], "none", 0, 0, 0, FALSE, 0) BY <1>2, NoCallIs
<1>4. Owned(t)' = {} BY <1>3 DEF Owned, CallHas
<1>5. call[t].op \in {"Allocated", "ReallocEnd"} BY <1>1, <1>2 DEF CallsShaped, Staged
<1>6. Recording /\ LogGrows BY <1>2 DEF Recording, LogGrows
<1>7. /\ Local(t) /\ HeapLast' /\ AfterLife' /\ Generational'
      /\ Evolves(0, 0, 0, 0, 0) /\ Sane(0, 0, 0, 0) /\ Apart(t, 0, 0)
  BY <1>2, <1>6, QuietKeeps
<1>8. CallsShaped'
  <2>1. Shaped(call[t])' /\ Staged(t)' BY <1>2, <1>3 DEF CallHas, Shaped, Staged, NoCall
  <2> QED BY <1>1, <1>2, <2>1, CallsStay
<1>9. NumbersUnique'
  <2>1. call'[t].seq = 0 /\ call'[t].id = 0 BY <1>3 DEF CallHas
  <2>2. seq \in Nat BY <1>1 DEF ReplayType
  <2> QED BY <1>1, <1>2, <2>1, <2>2, NumbersStay
<1>10. BlocksOwned'
  <2>1. \A c \in app \cup Owned(t) : heap[c] # 0 BY <1>1 DEF BlocksOwned
  <2> QED BY <1>1, <1>2, <1>4, <2>1, OwnersStay
<1>11. InApp' /\ InCall'
  <2>1. ASSUME NEW a \in Owned(t) PROVE Kept(a)'
    <3>1. Handled(t, a) BY <1>1 DEF InCall
    <3>2. Kept(a) BY <1>2, <1>5, <3>1 DEF Handled, Kept
    <3> QED BY <1>2, <3>2 DEF Kept, BirthKnown
  <2> QED BY <1>1, <1>2, <1>4, <1>7, <2>1, InUse
<1>12. Reallocations'
  <2>1. call'[t].op = "none" BY <1>3 DEF CallHas
  <2>2. ~Reallocating(t)' BY <2>1 DEF Reallocating
  <2> QED BY <1>2, <1>6, <1>7, <2>1, <2>2, ReallocationsStay
<1>13. Outcomes' BY <1>1, <1>2, <1>7, OutcomesStay
<1>14. UnderWay'
  <2>1. \A n : ~Completes(t, n) BY <1>2 DEF Completes
  <2> QED BY <1>1, <1>2, <2>1, UnderWayStays
<1> QED BY <1>2, <1>7, <1>8, <1>9, <1>10, <1>11, <1>12, <1>13, <1>14 DEF ReplayInvariant

\* RealRealloc: a moved or freed block ends with the number of the begin, recorded before.
LEMMA RealReallocKeeps ==
  ASSUME ReplayInvariant, NEW t \in Threads, NEW answer \in Answers(call[t].old),
         RealRealloc(t, answer)
  PROVE  ReplayInvariant'
<1>1. /\ ReplayType /\ CallsShaped /\ NumbersUnique /\ BlocksOwned /\ HeapLast /\ InApp /\ InCall
      /\ Generational /\ Reallocations /\ Outcomes /\ UnderWay
  BY DEF ReplayInvariant
<1> DEFINE c == call[t]
           old == call[t].old
<1>2. PICK n \in Addrs \cup {0}, retires \in BOOLEAN :
        /\ Answered(old, n, retires)
        /\ pc[t] = "realloc" /\ Others(t)
        /\ pc'[t] = IF c.seq # 0 THEN "number" ELSE "return"
        /\ c.op = "ReallocBegin" /\ c.addr = 0 /\ ~c.retires
        /\ CallHas(call'[t], "ReallocEnd", old, n, c.seq, retires, 0)
        /\ HeapStep(n, IF retires THEN old ELSE 0)
        /\ Evolves(0, 0, IF retires THEN heap[old] ELSE 0, c.seq, n)
        /\ UNCHANGED <<app, now, accepting, seq, log>>
        /\ ReplayType'
  BY <1>1, RealReallocIs
<1> DEFINE q == IF retires THEN old ELSE 0
           y == IF retires THEN heap[old] ELSE 0
<1>3. c \in Calls /\ seq \in Nat /\ Len(life) \in Nat BY <1>1 DEF ReplayType
<1>4. c.seq \in Nat /\ c.seq <= seq BY <1>1, <1>3 DEF NumbersUnique, Calls
<1>5. Owned(t) = {old} \ {0} BY <1>2 DEF Owned
<1>6. Owned(t)' = (IF n # 0 \/ retires THEN {n} ELSE {old}) \ {0} BY <1>2 DEF Owned, CallHas
<1>7. /\ n # 0 => (heap[n] = 0 \/ n = old) /\ (retires <=> old # 0)
      /\ retires => old # 0
  BY <1>2 DEF Answered
<1>8. retires => old \in Owned(t) BY <1>5, <1>7
<1>9. ASSUME old # 0
      PROVE  /\ old \in Addrs /\ heap[old] # 0 /\ heap[old] \in 1 .. Len(life)
             /\ life[heap[old]].addr = old /\ old \notin app
             /\ BirthKnown(heap[old]) /\ life[heap[old]].died = 0
  <2>1. old \in Owned(t) BY <1>5, <1>9
  <2>2. Handled(t, old) BY <1>1, <2>1 DEF InCall
  <2>3. BirthKnown(heap[old]) /\ life[heap[old]].died = 0 BY <1>2, <2>2 DEF Handled
  <2> QED BY <1>1, <2>1, <2>3, OwnedBlock
<1>10. IF c.seq = 0 THEN ~accepting
       ELSE \E r \in log : r.seq = c.seq /\ r.op = "ReallocBegin" /\ r.old = old
  BY <1>1, <1>2 DEF NumbersUnique, Logged
<1>11. c.seq # 0 => Undecided(t) BY <1>1, <1>2 DEF Reallocations, Reallocating
<1>12. Recording /\ LogGrows BY <1>2 DEF Recording, LogGrows
<1>13. Touches(t, n, q, 0, y)
  <2>1. n # 0 => n \in Addrs /\ (heap[n] = 0 \/ n \in Owned(t)) BY <1>2, <1>5, <1>7
  <2>2. q # 0 => q \in Owned(t) BY <1>8
  <2>3. y # 0 => \E a \in Owned(t) : y = heap[a] BY <1>8
  <2> QED BY <2>1, <2>2, <2>3 DEF Touches
<1>14. Sane(0, 0, y, c.seq)
  <2>1. seq <= seq' BY <1>2, <1>3
  <2>2. ASSUME y # 0
        PROVE  /\ y \in 1 .. Len(life) /\ life[y].died = 0 /\ heap[life[y].addr] = y
               /\ c.seq # 0 => Survived(c.seq) /\ life[y].born # 0 /\ Follows(life[y].born, c.seq)
    <3>1. y = heap[old] /\ old # 0 BY <1>7, <2>2
    <3> QED BY <1>9, <1>11, <3>1 DEF Undecided
  <2>3. c.seq <= seq' BY <1>2, <1>4
  <2> HIDE DEF y
  <2> QED BY <1>4, <1>12, <2>1, <2>2, <2>3 DEF Sane
<1>15. Apart(t, y, c.seq)
  <2>1. ASSUME NEW u \in Threads, u # t, c.seq # 0
        PROVE  /\ Reallocating(u) => call[u].seq # c.seq
               /\ call[u].op = "ReallocEnd" /\ call[u].id # 0 => call[u].id # c.seq
    <3>1. call[u].seq # c.seq BY <1>1, <2>1 DEF NumbersUnique
    <3>2. call[u].op = "ReallocEnd" => call[u].id # c.seq BY <1>11, <2>1 DEF Undecided
    <3> QED BY <3>1, <3>2
  <2> QED BY <2>1 DEF Apart
<1>16. \A k \in 1 .. Len(life) : heap[life[k].addr] = k /\ life[k].addr \in {n, q} =>
         BirthKnown(k)' /\ DeathKnown(k)'
  <2> SUFFICES ASSUME NEW k \in 1 .. Len(life), heap[life[k].addr] = k, life[k].addr \in {n, q}
               PROVE  BirthKnown(k)' /\ DeathKnown(k)'
    OBVIOUS
  <2>1. life[k].addr \in Addrs /\ k # 0 BY <1>1, GenerationTyped
  <2>2. life[k].addr # 0 BY <2>1 DEF Addrs
  <2>3. life[k].addr = old /\ retires /\ k = heap[old] /\ old # 0 BY <1>7, <2>1, <2>2
  <2>4. /\ life'[k].addr = life[k].addr /\ life'[k].born = life[k].born /\ life'[k].died = c.seq
    BY <1>2, <2>1, <2>3 DEF Evolves
  <2>5. BirthKnown(k)' BY <1>9, <1>12, <2>3, <2>4, BirthStays
  <2>6. DeathKnown(k)' BY <1>2, <1>10, <2>3, <2>4 DEF DeathKnown
  <2> QED BY <2>5, <2>6
<1>17. Local(t) /\ HeapLast' /\ AfterLife' /\ Generational'
  <2>1. Others(t) /\ HeapStep(n, q) /\ ReplayType' /\ Evolves(0, 0, y, c.seq, n) BY <1>2
  <2> HIDE DEF q, y, c
  <2> QED BY <1>12, <1>13, <1>14, <1>16, <2>1, HeapKeeps
<1>18. /\ call'[t].op = "ReallocEnd" /\ call'[t].old = old /\ call'[t].addr = n
       /\ call'[t].id = c.seq /\ call'[t].retires = retires /\ call'[t].seq = 0
  BY <1>2 DEF CallHas
<1>19. CallsShaped'
  <2>1. Shaped(call[t])' BY <1>7, <1>18 DEF Shaped
  <2>2. Staged(t)' BY <1>2, <1>18 DEF Staged
  <2> QED BY <1>1, <1>2, <2>1, <2>2, CallsStay
<1>20. NumbersUnique'
  <2>1. call'[t].seq <= seq' /\ call'[t].id <= seq' /\ seq <= seq' BY <1>2, <1>3, <1>4, <1>18
  <2>2. pc'[t] # "stamp" BY <1>2
  <2>3. pc'[t] \in {"free", "realloc", "return"} => ~accepting' BY <1>2, <1>10
  <2> QED BY <1>1, <1>2, <1>18, <2>1, <2>2, <2>3, NumbersStay
<1>21. \A a \in Addrs : heap'[a] = IF a = n THEN Len(life) + 1
                                   ELSE IF retires /\ a = old THEN 0 ELSE heap[a]
  BY <1>2 DEF HeapStep, Addrs
<1>22. BlocksOwned'
  <2>1. \A a \in app : a \in Addrs /\ a # 0 /\ heap[a] # 0 /\ a # old
    BY <1>1, <1>5 DEF BlocksOwned, ReplayType, Addrs
  <2>2. Len(life) + 1 # 0 /\ 0 \notin Addrs BY <1>3 DEF Addrs
  <2>3. ASSUME NEW a \in Addrs
        PROVE  heap'[a] # 0 <=>
                 a \in app' \/ a \in Owned(t)' \/ (heap[a] # 0 /\ a \notin app /\ a \notin Owned(t))
    <3>1. CASE a = n
      <4>1. a \in Owned(t)' BY <1>6, <2>2, <3>1
      <4> QED BY <1>21, <2>2, <3>1, <4>1
    <3>2. CASE a # n /\ a = old
      <4>1. a \in Owned(t) /\ a \notin app /\ heap[a] # 0 BY <1>5, <1>9, <2>2, <3>2
      <4>2. a \in Owned(t)' <=> ~(n # 0 \/ retires) BY <1>6, <2>2, <3>2
      <4>3. n # 0 => retires BY <1>7, <2>2, <3>2
      <4> QED BY <1>2, <1>21, <3>2, <4>1, <4>2, <4>3
    <3>3. CASE a # n /\ a # old
      <4>1. a \notin Owned(t) /\ a \notin Owned(t)' BY <1>5, <1>6, <3>3
      <4> QED BY <1>2, <1>21, <2>1, <3>3, <4>1
    <3> QED BY <3>1, <3>2, <3>3
  <2>4. \A a \in app' \cup Owned(t)' : a \in app \/ a \in Owned(t) \/ heap[a] = 0
    BY <1>2, <1>5, <1>6, <1>7
  <2>5. app' \cap Owned(t)' = {} BY <1>2, <1>6, <1>7, <2>1
  <2> QED BY <1>1, <1>2, <2>3, <2>4, <2>5, OwnersStay
<1>23. InApp' /\ InCall'
  <2>1. ASSUME NEW a \in Owned(t)' PROVE Handled(t, a)'
    <3>1. CASE n # 0
      <4>1. a = n /\ n \in Addrs BY <1>2, <1>6, <3>1
      <4>2. heap'[a] = Len(life) + 1 BY <1>21, <4>1
      <4>3. life'[heap'[a]].born = 0 /\ life'[heap'[a]].died = 0 BY <1>2, <3>1, <4>2 DEF Evolves
      <4>4. pc'[t] = "return" => BirthKnown(heap[a])' BY <1>2, <1>10, <4>3 DEF BirthKnown
      <4>5. pc'[t] # "stamp" BY <1>2
      <4> QED BY <1>18, <3>1, <4>3, <4>4, <4>5 DEF Handled
    <3>2. CASE n = 0
      <4>1. a = old /\ old # 0 /\ ~retires BY <1>6, <3>2
      <4>2. PICK k \in 1 .. Len(life) :
              k = heap[old] /\ BirthKnown(k) /\ life[k].died = 0 /\ k # 0
        BY <1>9, <4>1
      <4>3. heap'[a] = k BY <1>9, <1>21, <3>2, <4>1, <4>2 DEF Addrs
      <4>4. life'[k].addr = life[k].addr /\ life'[k].born = life[k].born /\ life'[k].died = 0
        BY <1>2, <4>1, <4>2 DEF Evolves
      <4>5. BirthKnown(k)' BY <1>12, <4>2, <4>4, BirthStays
      <4>6. BirthKnown(heap[a])' BY <4>3, <4>5 DEF BirthKnown
      <4>7. pc'[t] # "free" BY <1>2
      <4> QED BY <1>18, <3>2, <4>3, <4>4, <4>6, <4>7 DEF Handled
    <3> QED BY <3>1, <3>2
  <2> QED BY <1>1, <1>2, <1>17, <2>1, InUse
<1>24. Reallocations'
  <2>1. ~Reallocating(t)' BY <1>18 DEF Reallocating
  <2>2. ASSUME c.seq # 0 PROVE Decided(t)'
    <3>1. PICK v \in Nat : v = c.seq /\ v # 0 BY <1>4, <2>2
    <3>2. \E r \in log' : r.seq = v /\ r.op = "ReallocBegin" /\ r.old = old
      BY <1>2, <1>10, <3>1
    <3>3. CASE retires
      <4>1. PICK k \in 1 .. Len(life) : k = heap[old] /\ life[k].addr = old BY <1>7, <1>9, <3>3
      <4>2. life'[k].addr = old /\ life'[k].died = v /\ k \in 1 .. Len(life')
        BY <1>2, <1>3, <3>1, <3>3, <4>1 DEF Evolves
      <4>3. \E j \in 1 .. Len(life') : life'[j].died = v /\ life'[j].addr = old BY <4>2
      <4>4. call'[t].id = v /\ call'[t].old = old /\ call'[t].retires BY <1>18, <3>1, <3>3
      <4> HIDE DEF old
      <4> QED BY <3>2, <4>3, <4>4 DEF Decided, Died
    <3>4. CASE ~retires
      <4>1. Survived(v) BY <1>11, <2>2, <3>1 DEF Undecided
      <4>2. Evolves(0, 0, 0, c.seq, n) BY <1>2, <3>4
      <4>3. Survived(v)' BY <1>1, <3>1, <4>1, <4>2, SurvivedStays
      <4>4. call'[t].id = v /\ call'[t].old = old /\ ~call'[t].retires BY <1>18, <3>1, <3>4
      <4> HIDE DEF old
      <4> QED BY <3>2, <4>3, <4>4 DEF Decided
    <3> QED BY <1>2, <3>3, <3>4
  <2>3. Evolves(0, 0, y, c.seq, n) BY <1>2
  <2>4. \A e \in log' : e \in log BY <1>2
  <2>5. call[t].op = "ReallocBegin" /\ call'[t].id = call[t].seq BY <1>2, <1>18
  <2> HIDE DEF y, c
  <2>6. call'[t].id # 0 => Decided(t)' BY <2>2, <2>5 DEF c
  <2> QED BY <1>12, <1>14, <1>15, <1>17, <2>1, <2>3, <2>4, <2>5, <2>6, ReallocationsStay
<1>25. Outcomes'
  <2>1. ASSUME NEW r \in log, Ends(r) # {} PROVE c.seq # r.seq
    <3>1. PICK e \in log : e.op = "ReallocEnd" /\ e.id = r.seq BY <2>1 DEF Ends
    <3>2. r.seq # 0 BY <1>1 DEF NumbersUnique
    <3> QED BY <1>11, <3>1, <3>2 DEF Undecided
  <2>2. Evolves(0, 0, y, c.seq, n) /\ log' = log BY <1>2
  <2> HIDE DEF y, c
  <2> QED BY <1>1, <1>14, <2>1, <2>2, OutcomesStay
<1>26. UnderWay'
  <2>1. \A m : m # 0 /\ Completes(t, m) => Completes(t, m)' BY <1>2, <1>18 DEF Completes
  <2> QED BY <1>1, <1>2, <2>1, UnderWayStays
<1>27. ReplayType' BY <1>2
<1> QED BY <1>17, <1>19, <1>20, <1>22, <1>23, <1>24, <1>25, <1>26, <1>27 DEF ReplayInvariant

\* A step that changes only the clock or stops the recording.
LEMMA AmbientKeeps ==
  ASSUME ReplayInvariant, ReplayType', Recording, now <= now',
         UNCHANGED <<heap, app, seq, pc, call, log, life>>
  PROVE  ReplayInvariant'
<1>1. /\ ReplayType /\ CallsShaped /\ NumbersUnique /\ BlocksOwned /\ HeapLast /\ InApp /\ InCall
      /\ AfterLife /\ Generational /\ Reallocations /\ Outcomes /\ UnderWay
  BY DEF ReplayInvariant
<1>2. CallsShaped' BY <1>1 DEF CallsShaped, Shaped, Staged, NoCall
<1>3. NumbersUnique'
  <2>1. ASSUME NEW r \in log PROVE r.ts <= now'
    <3>1. r \in Calls BY <1>1 DEF ReplayType
    <3>2. r.ts \in Nat /\ now \in Nat /\ now' \in Nat BY <1>1, <3>1 DEF ReplayType, Calls
    <3>3. r.ts <= now BY <1>1 DEF NumbersUnique
    <3> QED BY <3>2, <3>3
  <2> QED BY <1>1, <2>1 DEF NumbersUnique, Logged, Recording
<1>4. BlocksOwned' /\ HeapLast' BY <1>1 DEF BlocksOwned, HeapLast, Owned
<1>5. \A k : (BirthKnown(k) => BirthKnown(k)') /\ (DeathKnown(k) => DeathKnown(k)')
  BY BirthStays, DeathStays
<1>6. \A a : /\ BirthKnown(heap[a]) => BirthKnown(heap[a])'
             /\ DeathKnown(heap[a]) => DeathKnown(heap[a])'
  BY DEF BirthKnown, DeathKnown, Recording
<1>7. InApp' /\ InCall' BY <1>1, <1>6 DEF InApp, InCall, Kept, Handled, Owned
<1>8. AfterLife' BY <1>1, <1>5 DEF AfterLife, Retired
<1>9. Generational' BY <1>1 DEF Generational, Follows
<1>10. Reallocations'
  BY <1>1 DEF Reallocations, Reallocating, Undecided, Decided, Follows, Died, Survived
<1>11. Outcomes' BY <1>1 DEF Outcomes, Introduces, Ends, Died, Survived
<1>12. UnderWay' BY <1>1 DEF UnderWay, Uncertain, Ends, Completes, Recording
<1> QED BY <1>2, <1>3, <1>4, <1>7, <1>8, <1>9, <1>10, <1>11, <1>12 DEF ReplayInvariant

\* Nothing has happened yet.
LEMMA ReplayInitially == ASSUME Init PROVE ReplayInvariant
<1>1. /\ heap = [a \in Addrs |-> 0] /\ app = {} /\ now = 0 /\ accepting = TRUE /\ seq = 0
      /\ pc = [t \in Threads |-> "idle"] /\ call = [t \in Threads |-> NoCall] /\ ops = 0
      /\ log = {} /\ life = <<>>
  BY DEF Init
<1>2. NoCall \in Calls /\ CallHas(NoCall, "none", 0, 0, 0, FALSE, 0) BY NoCallIs
<1>3. ReplayType BY <1>1, <1>2, FS_EmptySet DEF ReplayType, Stages
<1>4. \A t \in Threads : /\ pc[t] = "idle" /\ call[t] = NoCall /\ call[t].op = "none" /\ call[t].seq = 0
                         /\ call[t].id = 0
  BY <1>1, <1>2 DEF CallHas
<1>5. CallsShaped BY <1>1, <1>4 DEF CallsShaped, Shaped, Staged
<1>6. NumbersUnique BY <1>1, <1>4 DEF NumbersUnique
<1>7. \A t \in Threads : Owned(t) = {} BY <1>3, <1>4, <1>5, IdleIs
<1>8. 1 .. Len(life) = {} BY <1>1
<1>9. BlocksOwned /\ HeapLast BY <1>1, <1>7 DEF BlocksOwned, HeapLast
<1>10. InApp /\ InCall BY <1>1, <1>7 DEF InApp, InCall
<1>11. AfterLife /\ Generational BY <1>8 DEF AfterLife, Generational
<1>12. Reallocations BY <1>4 DEF Reallocations, Reallocating
<1>13. Outcomes /\ UnderWay BY <1>1 DEF Outcomes, UnderWay, Uncertain
<1> QED BY <1>3, <1>5, <1>6, <1>9, <1>10, <1>11, <1>12, <1>13 DEF ReplayInvariant

\* Every step of Next keeps the invariant.
LEMMA ReplaySteps == ASSUME ReplayInvariant, [Next]_vars PROVE ReplayInvariant'
<1>1. ReplayType BY DEF ReplayInvariant
<1>2. ASSUME NEW t \in Threads, NEW a \in FreeAddrs, Malloc(t, a) PROVE ReplayInvariant'
  BY <1>2, MallocKeeps
<1>3. ASSUME NEW t \in Threads, NEW a \in app, Free(t, a) PROVE ReplayInvariant'
  BY <1>3, FreeKeeps
<1>4. ASSUME NEW t \in Threads, NEW a \in app \cup {0}, Realloc(t, a) PROVE ReplayInvariant'
  BY <1>4, ReallocKeeps
<1>5. ASSUME NEW t \in Threads, Refused(t) PROVE ReplayInvariant' BY <1>5, RefusedKeeps
<1>6. ASSUME NEW t \in Threads, Number(t) PROVE ReplayInvariant' BY <1>6, NumberKeeps
<1>7. ASSUME NEW t \in Threads, Stamp(t) PROVE ReplayInvariant' BY <1>7, StampKeeps
<1>8. ASSUME NEW t \in Threads, RealFree(t) PROVE ReplayInvariant' BY <1>8, RealFreeKeeps
<1>9. ASSUME NEW t \in Threads, Return(t) PROVE ReplayInvariant' BY <1>9, ReturnKeeps
<1>10. ASSUME NEW t \in Threads, NEW answer \in Answers(call[t].old), RealRealloc(t, answer)
       PROVE  ReplayInvariant'
  BY <1>10, RealReallocKeeps
<1>11. CASE Tick
  <2>1. ReplayType' /\ Recording /\ now <= now' BY <1>1, <1>11 DEF Tick, ReplayType, Recording
  <2> QED BY <1>11, <2>1, AmbientKeeps DEF Tick
<1>12. CASE Shutdown
  <2>1. accepting' \in BOOLEAN /\ ~accepting' BY <1>12 DEF Shutdown
  <2>2. UNCHANGED <<heap, app, now, seq, pc, call, ops, log, life>> BY <1>12 DEF Shutdown
  <2>3. ReplayType' BY <1>1, <2>1, <2>2 DEF ReplayType
  <2>4. Recording /\ now <= now' BY <1>1, <2>1, <2>2 DEF ReplayType, Recording
  <2> QED BY <2>2, <2>3, <2>4, AmbientKeeps DEF Shutdown
<1>13. CASE UNCHANGED vars
  <2>1. ReplayType' /\ Recording /\ now <= now' BY <1>1, <1>13 DEF vars, ReplayType, Recording
  <2> QED BY <1>13, <2>1, AmbientKeeps DEF vars
<1> QED BY <1>2, <1>3, <1>4, <1>5, <1>6, <1>7, <1>8, <1>9, <1>10, <1>11, <1>12, <1>13 DEF Next

\* The interposed calls of any number of threads, record_allocation and the allocator keep the
\* recorded boundaries and the real generations in step.
THEOREM ReplayInductive == Spec => []ReplayInvariant
BY ReplayInitially, ReplaySteps, PTL DEF Spec

\* Stamp, RealRealloc and Number of one realloc: while the collector accepts and no call is
\* under way, every recorded beginning has its recorded outcome.
THEOREM OutcomesRecorded == Spec => []UncertainOnlyAtShutdown
<1>1. ReplayInvariant => UncertainOnlyAtShutdown
  <2> SUFFICES ASSUME ReplayInvariant, Settled, accepting, NEW r \in Uncertain PROVE FALSE
    BY DEF UncertainOnlyAtShutdown
  <2>1. PICK t \in Threads : Completes(t, r.seq) BY DEF ReplayInvariant, UnderWay
  <2> QED BY <2>1 DEF Completes, Settled
<1> QED BY <1>1, ReplayInductive, PTL

----------------------------------------------------------------------------
(* The order of the replay *)

\* How many boundaries come before r.
Rank(r) == Cardinality({q \in log : Before(q, r)})

\* The fields of a record.
LEMMA RecordTyped ==
  ASSUME ReplayType, NEW r \in log
  PROVE  /\ r.seq \in Nat /\ r.ts \in Nat /\ r.id \in Nat /\ r.old \in Addrs \cup {0}
         /\ r.addr \in Addrs \cup {0} /\ r.op \in Ops
<1>1. r \in Calls BY DEF ReplayType
<1> QED BY <1>1 DEF Calls

\* Before orders the records strictly and totally, because numbers are unique.
LEMMA BeforeOrders ==
  ASSUME ReplayType, NumbersUnique
  PROVE  /\ \A q \in log : ~Before(q, q)
         /\ \A p, q, r \in log : Before(p, q) /\ Before(q, r) => Before(p, r)
         /\ \A q, r \in log : q # r => Before(q, r) \/ Before(r, q)
<1>1. \A r \in log : r.seq \in Nat /\ r.ts \in Nat BY RecordTyped
<1>2. \A q, r \in log : q # r => q.seq # r.seq BY DEF NumbersUnique
<1>3. \A q \in log : ~Before(q, q) BY <1>1 DEF Before
<1>4. ASSUME NEW p \in log, NEW q \in log, NEW r \in log, Before(p, q), Before(q, r)
      PROVE  Before(p, r)
  BY <1>1, <1>4 DEF Before
<1>5. ASSUME NEW q \in log, NEW r \in log, q # r PROVE Before(q, r) \/ Before(r, q)
  BY <1>1, <1>2, <1>5 DEF Before
<1> QED BY <1>3, <1>4, <1>5

\* A rank is below the number of records.
LEMMA RankTyped ==
  ASSUME ReplayType, NumbersUnique, NEW r \in log
  PROVE  /\ Rank(r) \in Nat /\ Cardinality(log) \in Nat /\ Rank(r) < Cardinality(log)
         /\ IsFiniteSet({q \in log : Before(q, r)})
<1> DEFINE B == {q \in log : Before(q, r)}
<1>1. IsFiniteSet(log) BY DEF ReplayType
<1>2. B \in SUBSET log OBVIOUS
<1>3. IsFiniteSet(B) /\ Cardinality(B) <= Cardinality(log) /\ (Cardinality(log) = Cardinality(B) => log = B)
  BY <1>1, <1>2, FS_Subset
<1>4. r \notin B BY BeforeOrders
<1>5. Cardinality(B) # Cardinality(log) BY <1>3, <1>4
<1>6. Cardinality(B) \in Nat /\ Cardinality(log) \in Nat BY <1>1, <1>3, FS_CardinalityType
<1> QED BY <1>3, <1>5, <1>6 DEF Rank

\* Ranks grow in the order of the replay.
LEMMA RankMonotone ==
  ASSUME ReplayType, NumbersUnique, NEW q \in log, NEW r \in log, Before(q, r)
  PROVE  Rank(q) < Rank(r)
<1> DEFINE B == {e \in log : Before(e, q)}
           C == {e \in log : Before(e, r)}
<1>1. IsFiniteSet(C) /\ Rank(r) \in Nat /\ Rank(q) \in Nat BY RankTyped
<1>2. B \in SUBSET C BY BeforeOrders
<1>3. q \in C /\ q \notin B BY BeforeOrders
<1>4. Cardinality(B) <= Cardinality(C) /\ (Cardinality(C) = Cardinality(B) => C = B)
  BY <1>1, <1>2, FS_Subset
<1>5. Cardinality(B) # Cardinality(C) BY <1>3, <1>4
<1> QED BY <1>1, <1>4, <1>5 DEF Rank

\* Every position below the number of boundaries is the rank of exactly one.
LEMMA RankOnto ==
  ASSUME ReplayType, NumbersUnique, NEW i \in 1 .. Cardinality(log)
  PROVE  \E r \in log : Rank(r) = i - 1
<1> DEFINE n == Cardinality(log)
           f == [r \in log |-> Rank(r) + 1]
<1>1. IsFiniteSet(log) BY DEF ReplayType
<1>2. n \in Nat BY <1>1, FS_CardinalityType
<1>3. \A r \in log : Rank(r) \in Nat /\ Rank(r) < n BY RankTyped
<1>4. f \in [log -> 1 .. n] BY <1>2, <1>3
<1>5. \A q, r \in log : q # r => Rank(q) # Rank(r)
  <2> SUFFICES ASSUME NEW q \in log, NEW r \in log, q # r PROVE Rank(q) # Rank(r) OBVIOUS
  <2>1. Before(q, r) \/ Before(r, q) BY BeforeOrders
  <2> QED BY <1>3, <2>1, RankMonotone
<1>6. f \in Injection(log, 1 .. n)
  <2>1. \A q, r \in log : f[q] = f[r] => q = r BY <1>3, <1>5
  <2> QED BY <1>4, <2>1, Fun_IsInj
<1>7. IsFiniteSet(1 .. n) /\ Cardinality(1 .. n) = n BY <1>2, FS_Interval
<1>8. f \in Surjection(log, 1 .. n) BY <1>6, <1>7, FS_Injection
<1>9. \A r \in log : f[r] = Rank(r) + 1 OBVIOUS
<1>10. i \in 1 .. n OBVIOUS
<1> HIDE DEF f, n
<1>11. \E r \in log : f[r] = i BY <1>8, <1>10 DEF Surjection
<1> QED BY <1>3, <1>9, <1>10, <1>11

\* Sorted lists the records once each, in the order of the replay.
LEMMA SortedIs ==
  ASSUME ReplayType, NumbersUnique
  PROVE  /\ Len(Sorted) = Cardinality(log) /\ Len(Sorted) \in Nat
         /\ \A i \in 1 .. Len(Sorted) : Sorted[i] \in log /\ Rank(Sorted[i]) = i - 1
         /\ \A r \in log : \E i \in 1 .. Len(Sorted) : Sorted[i] = r
         /\ \A i, j \in 1 .. Len(Sorted) : Before(Sorted[i], Sorted[j]) => i < j
<1> DEFINE n == Cardinality(log)
<1>1. n \in Nat BY FS_CardinalityType DEF ReplayType
<1>2. Len(Sorted) = n BY <1>1 DEF Sorted
<1>3. ASSUME NEW i \in 1 .. n PROVE Sorted[i] \in log /\ Rank(Sorted[i]) = i - 1
  <2>1. \E r \in log : Cardinality({q \in log : Before(q, r)}) = i - 1 BY RankOnto DEF Rank
  <2>2. Sorted[i] = CHOOSE r \in log : Cardinality({q \in log : Before(q, r)}) = i - 1
    BY DEF Sorted
  <2> QED BY <2>1, <2>2 DEF Rank
<1>4. \A q, r \in log : Rank(q) = Rank(r) => q = r
  <2> SUFFICES ASSUME NEW q \in log, NEW r \in log, q # r PROVE Rank(q) # Rank(r) OBVIOUS
  <2>1. Before(q, r) \/ Before(r, q) BY BeforeOrders
  <2>2. Rank(q) \in Nat /\ Rank(r) \in Nat BY RankTyped
  <2> QED BY <2>1, <2>2, RankMonotone
<1>5. ASSUME NEW r \in log PROVE \E i \in 1 .. n : Sorted[i] = r
  <2>1. Rank(r) \in Nat /\ Rank(r) < n BY RankTyped
  <2>2. PICK i \in 1 .. n : i = Rank(r) + 1 BY <1>1, <2>1
  <2>3. Sorted[i] \in log /\ Rank(Sorted[i]) = Rank(r) BY <1>3, <2>1, <2>2
  <2> QED BY <1>4, <2>3
<1>6. ASSUME NEW i \in 1 .. n, NEW j \in 1 .. n, Before(Sorted[i], Sorted[j]) PROVE i < j
  <2>1. Rank(Sorted[i]) < Rank(Sorted[j]) BY <1>3, <1>6, RankMonotone
  <2>2. i - 1 < j - 1 BY <1>3, <2>1
  <2> QED BY <1>1, <2>2
<1> QED BY <1>1, <1>2, <1>3, <1>5, <1>6

----------------------------------------------------------------------------
(* What the recorded boundaries say once every call has returned *)

\* Each end of a generation is one recorded boundary, at one place of the replay.
BornAt(k, i) ==
  Introduces(Sorted[i]) /\ Sorted[i].seq = life[k].born /\ Sorted[i].addr = life[k].addr

\* The same for its end.
DiedAt(k, i) ==
  Retires(Sorted[i]) /\ Sorted[i].seq = life[k].died /\ Sorted[i].old = life[k].addr

\* The places of the replay.
Rows == 1 .. Len(Sorted)

\* Each numbered end of a generation has its row, and each such row its generation.
BoundariesAgree ==
  /\ \A k \in 1 .. Len(life) : life[k].born # 0 => \E i \in Rows : BornAt(k, i)
  /\ \A k \in 1 .. Len(life) : life[k].died # 0 => \E i \in Rows : DiedAt(k, i)
  /\ \A i \in Rows : Introduces(Sorted[i]) => \E k \in 1 .. Len(life) : BornAt(k, i)
  /\ \A i \in Rows : Retires(Sorted[i]) => \E k \in 1 .. Len(life) : DiedAt(k, i)

\* The order and the numbers of the rows.
RowsOrdered ==
  /\ \A i \in Rows : Sorted[i].seq \in Nat /\ Sorted[i].seq # 0
  /\ \A i, j \in Rows : Sorted[i].seq = Sorted[j].seq => i = j
  /\ \A i, j \in Rows : Follows(Sorted[i].seq, Sorted[j].seq) => i < j
  /\ \A i \in Rows : ~(Introduces(Sorted[i]) /\ Retires(Sorted[i]))

\* Rows are numbered once each, and rows that follow one another stand in that order.
LEMMA RowsAre ==
  ASSUME ReplayInvariant
  PROVE  RowsOrdered
<1>1. ReplayType /\ NumbersUnique BY DEF ReplayInvariant
<1>2. /\ Len(Sorted) \in Nat
      /\ \A i \in Rows : Sorted[i] \in log /\ Rank(Sorted[i]) = i - 1
      /\ \A i, j \in Rows : Before(Sorted[i], Sorted[j]) => i < j
  BY <1>1, SortedIs DEF Rows
<1>3. ASSUME NEW i \in Rows
      PROVE  Sorted[i].seq \in Nat /\ Sorted[i].seq # 0 /\ ~(Introduces(Sorted[i]) /\ Retires(Sorted[i]))
  <2>1. Sorted[i] \in log BY <1>2
  <2>2. Sorted[i].seq \in Nat BY <1>1, <2>1, RecordTyped
  <2>3. Sorted[i].seq # 0 BY <1>1, <2>1 DEF NumbersUnique
  <2> QED BY <2>2, <2>3 DEF Introduces, Retires
<1>4. ASSUME NEW i \in Rows, NEW j \in Rows, Sorted[i].seq = Sorted[j].seq PROVE i = j
  <2>1. Sorted[i] = Sorted[j] BY <1>1, <1>2, <1>4 DEF NumbersUnique
  <2>2. i - 1 = j - 1 BY <1>2, <2>1
  <2> QED BY <1>2, <2>2 DEF Rows
<1>5. ASSUME NEW i \in Rows, NEW j \in Rows, Follows(Sorted[i].seq, Sorted[j].seq) PROVE i < j
  <2>1. PICK r \in log : r.seq = Sorted[i].seq /\ \A q \in log : q.seq = Sorted[j].seq => r.ts <= q.ts
    BY <1>5 DEF Follows
  <2>2. Sorted[i] \in log /\ Sorted[j] \in log BY <1>2
  <2>3. r = Sorted[i] BY <1>1, <2>1, <2>2 DEF NumbersUnique
  <2>4. Sorted[i].ts <= Sorted[j].ts BY <2>1, <2>2, <2>3
  <2>5. Sorted[i].seq < Sorted[j].seq BY <1>5 DEF Follows
  <2>6. Sorted[i].ts \in Nat /\ Sorted[j].ts \in Nat BY <1>1, <2>2, RecordTyped
  <2>7. Before(Sorted[i], Sorted[j]) BY <2>4, <2>5, <2>6 DEF Before
  <2> QED BY <1>2, <2>7
<1> QED BY <1>3, <1>4, <1>5 DEF RowsOrdered

\* With no call under way, each numbered end of a generation is recorded.
LEMMA SettledKnown ==
  ASSUME ReplayInvariant, Settled, NEW k \in 1 .. Len(life)
  PROVE  /\ life[k].born # 0 => \E r \in log : /\ r.seq = life[k].born /\ r.addr = life[k].addr
                                               /\ r.op \in {"Allocated", "ReallocEnd"}
         /\ life[k].died # 0 => \E r \in log : /\ r.seq = life[k].died /\ r.old = life[k].addr
                                               /\ r.op \in {"Freed", "ReallocBegin"}
<1>1. ReplayType /\ CallsShaped BY DEF ReplayInvariant
<1>2. \A t \in Threads : Owned(t) = {} BY <1>1, IdleIs DEF Settled
<1>3. CASE Retired(k)
  <2>1. BirthKnown(k) /\ DeathKnown(k) BY <1>3 DEF ReplayInvariant, AfterLife
  <2> QED BY <2>1 DEF BirthKnown, DeathKnown
<1>4. CASE ~Retired(k)
  <2>1. life[k].addr \in Addrs BY <1>1, GenerationTyped
  <2>2. heap[life[k].addr] = k /\ k # 0 BY <1>4 DEF Retired
  <2>3. life[k].addr \in app BY <1>2, <2>1, <2>2 DEF ReplayInvariant, BlocksOwned
  <2>4. Kept(life[k].addr) BY <2>3 DEF ReplayInvariant, InApp
  <2>5. BirthKnown(k) /\ life[k].died = 0 BY <2>2, <2>4 DEF Kept
  <2> QED BY <2>5 DEF BirthKnown
<1> QED BY <1>3, <1>4

\* If moreover every reallocation has its outcome, rows and ends of generations correspond.
LEMMA BoundariesDo ==
  ASSUME ReplayInvariant, Settled, Uncertain = {}
  PROVE  BoundariesAgree
<1>1. ReplayType /\ NumbersUnique /\ CallsShaped BY DEF ReplayInvariant
<1>2. /\ \A i \in Rows : Sorted[i] \in log
      /\ \A r \in log : \E i \in Rows : Sorted[i] = r
  BY <1>1, SortedIs DEF Rows
<1>3. ASSUME NEW k \in 1 .. Len(life), life[k].born # 0 PROVE \E i \in Rows : BornAt(k, i)
  <2>1. PICK r \in log : /\ r.seq = life[k].born /\ r.addr = life[k].addr
                         /\ r.op \in {"Allocated", "ReallocEnd"}
    BY <1>3, SettledKnown
  <2>2. PICK i \in Rows : Sorted[i] = r BY <1>2
  <2>3. life[k].addr \in Addrs BY <1>1, GenerationTyped
  <2>4. life[k].addr # 0 BY <2>3 DEF Addrs
  <2>5. BornAt(k, i) BY <2>1, <2>2, <2>4 DEF BornAt, Introduces
  <2> QED BY <2>5
<1>4. ASSUME NEW k \in 1 .. Len(life), life[k].died # 0 PROVE \E i \in Rows : DiedAt(k, i)
  <2>1. PICK r \in log : /\ r.seq = life[k].died /\ r.old = life[k].addr
                         /\ r.op \in {"Freed", "ReallocBegin"}
    BY <1>4, SettledKnown
  <2>2. PICK i \in Rows : Sorted[i] = r BY <1>2
  <2>3. CASE r.op = "Freed" BY <2>1, <2>2, <2>3 DEF DiedAt, Retires
  <2>4. CASE r.op = "ReallocBegin"
    <3>1. PICK e : e \in Ends(r) BY <2>1, <2>4 DEF Uncertain
    <3>2. IF e.retires THEN Died(r.seq, r.old) ELSE Survived(r.seq)
      BY <2>1, <2>4, <3>1 DEF ReplayInvariant, Outcomes
    <3>3. ~Survived(r.seq) BY <2>1 DEF Survived
    <3>4. Retires(r) BY <2>4, <3>1, <3>2, <3>3 DEF Retires
    <3> QED BY <2>1, <2>2, <3>4 DEF DiedAt
  <2> QED BY <2>1, <2>3, <2>4
<1>5. ASSUME NEW i \in Rows, Introduces(Sorted[i]) PROVE \E k \in 1 .. Len(life) : BornAt(k, i)
  <2>1. PICK k \in 1 .. Len(life) : life[k].born = Sorted[i].seq /\ life[k].addr = Sorted[i].addr
    BY <1>2, <1>5 DEF ReplayInvariant, Outcomes
  <2>2. BornAt(k, i) BY <1>5, <2>1 DEF BornAt
  <2> QED BY <2>2
<1>6. ASSUME NEW i \in Rows, Retires(Sorted[i]) PROVE \E k \in 1 .. Len(life) : DiedAt(k, i)
  <2> DEFINE r == Sorted[i]
  <2>1. r \in log BY <1>2
  <2>2. Died(r.seq, r.old)
    <3>1. CASE r.op = "Freed" BY <2>1, <3>1 DEF ReplayInvariant, Outcomes
    <3>2. CASE r.op = "ReallocBegin"
      <4>1. r.op # "Freed" BY <3>2
      <4>2. PICK e \in Ends(r) : e.retires BY <1>6, <4>1 DEF Retires
      <4> QED BY <2>1, <3>2, <4>2 DEF ReplayInvariant, Outcomes
    <3> QED BY <1>6, <3>1, <3>2 DEF Retires
  <2>3. PICK k \in 1 .. Len(life) : life[k].died = r.seq /\ life[k].addr = r.old BY <2>2 DEF Died
  <2>4. DiedAt(k, i) BY <1>6, <2>3 DEF DiedAt
  <2> QED BY <2>4
<1> QED BY <1>3, <1>4, <1>5, <1>6 DEF BoundariesAgree

----------------------------------------------------------------------------
(* The steps of the replay *)

\* The states of the replay.
States == [live : [Addrs -> Nat], lifetimes : Seq(Generations), conflicts : Nat]

\* The address of an entry.
LEMMA EntryTyped ==
  ASSUME NEW s \in States, NEW y \in 1 .. Len(s.lifetimes)
  PROVE  s.lifetimes[y].addr \in Addrs
<1>1. s.lifetimes \in Seq(Generations) BY DEF States
<1>2. s.lifetimes[y] \in Generations BY <1>1
<1> QED BY <1>2 DEF Generations

\* An entry's end is set.
LEMMA RetireStep ==
  ASSUME NEW s \in States, NEW r, Retires(r), ~Introduces(r), r.old \in Addrs, r.seq \in Nat,
         s.live[r.old] \in 1 .. Len(s.lifetimes), NEW p, p = ReplayStep(s, r)
  PROVE  /\ p \in States /\ p.conflicts = s.conflicts /\ Len(p.lifetimes) = Len(s.lifetimes)
         /\ p.live[r.old] = 0 /\ \A a \in Addrs : a # r.old => p.live[a] = s.live[a]
         /\ p.lifetimes[s.live[r.old]] = [s.lifetimes[s.live[r.old]] EXCEPT !.died = r.seq]
         /\ \A y \in 1 .. Len(s.lifetimes) : y # s.live[r.old] => p.lifetimes[y] = s.lifetimes[y]
<1>1. s.live \in [Addrs -> Nat] /\ s.lifetimes \in Seq(Generations) /\ s.conflicts \in Nat
  BY DEF States
<1>2. PICK x \in 1 .. Len(s.lifetimes) : x = s.live[r.old] OBVIOUS
<1>3. x # 0 /\ r.old # 0 BY <1>2 DEF Addrs
<1>4. PICK g : g = [s.lifetimes[x] EXCEPT !.died = r.seq] OBVIOUS
<1>5. g \in Generations
  <2>1. s.lifetimes[x] \in Generations BY <1>1
  <2> QED BY <1>4, <2>1, GenerationWith
<1>6. PICK l : l = [s.lifetimes EXCEPT ![x] = g] OBVIOUS
<1>7. l \in Seq(Generations) /\ Len(l) = Len(s.lifetimes) /\ l[x] = g
      /\ \A y \in 1 .. Len(s.lifetimes) : y # x => l[y] = s.lifetimes[y]
  BY <1>1, <1>5, <1>6, SeqWith
<1>8. p = [s EXCEPT !.live[r.old] = 0, !.lifetimes[s.live[r.old]].died = r.seq]
  BY <1>2, <1>3 DEF ReplayStep
<1>9. s = [live |-> s.live, lifetimes |-> s.lifetimes, conflicts |-> s.conflicts] BY DEF States
<1>10. p = [live |-> [s.live EXCEPT ![r.old] = 0], lifetimes |-> l, conflicts |-> s.conflicts]
  BY <1>2, <1>4, <1>6, <1>8, <1>9
<1>11. [s.live EXCEPT ![r.old] = 0] \in [Addrs -> Nat] BY <1>1
<1>12. p \in States BY <1>1, <1>7, <1>10, <1>11 DEF States
<1> QED BY <1>1, <1>2, <1>4, <1>7, <1>10, <1>12

\* An entry is appended.
LEMMA IntroduceStep ==
  ASSUME NEW s \in States, NEW r, ~Retires(r), Introduces(r), r.addr \in Addrs, r.seq \in Nat,
         s.live[r.addr] = 0, NEW p, p = ReplayStep(s, r)
  PROVE  /\ p \in States /\ p.conflicts = s.conflicts /\ Len(p.lifetimes) = Len(s.lifetimes) + 1
         /\ p.live[r.addr] = Len(s.lifetimes) + 1
         /\ \A a \in Addrs : a # r.addr => p.live[a] = s.live[a]
         /\ p.lifetimes[Len(s.lifetimes) + 1] = [addr |-> r.addr, born |-> r.seq, died |-> 0]
         /\ \A y \in 1 .. Len(s.lifetimes) : p.lifetimes[y] = s.lifetimes[y]
<1>1. s.live \in [Addrs -> Nat] /\ s.lifetimes \in Seq(Generations) /\ s.conflicts \in Nat
  BY DEF States
<1>2. PICK g : g = [addr |-> r.addr, born |-> r.seq, died |-> 0] OBVIOUS
<1>3. g \in Generations BY <1>2 DEF Generations
<1>4. PICK l : l = Append(s.lifetimes, g) OBVIOUS
<1>5. l \in Seq(Generations) /\ Len(l) = Len(s.lifetimes) + 1 /\ l[Len(s.lifetimes) + 1] = g
      /\ \A y \in 1 .. Len(s.lifetimes) : l[y] = s.lifetimes[y]
  BY <1>1, <1>3, <1>4
<1>6. p = [live |-> [s.live EXCEPT ![r.addr] = Len(s.lifetimes) + 1], lifetimes |-> l,
           conflicts |-> s.conflicts + 0]
  BY <1>2, <1>4 DEF ReplayStep
<1>7. Len(s.lifetimes) + 1 \in Nat BY <1>1
<1>8. [s.live EXCEPT ![r.addr] = Len(s.lifetimes) + 1] \in [Addrs -> Nat] BY <1>1, <1>7
<1>9. s.conflicts + 0 = s.conflicts BY <1>1
<1>10. p \in States BY <1>1, <1>5, <1>6, <1>8, <1>9 DEF States
<1> QED BY <1>1, <1>2, <1>5, <1>6, <1>9, <1>10

\* A boundary that ends and begins nothing.
LEMMA OtherStep ==
  ASSUME NEW s, NEW r, ~Retires(r), ~Introduces(r)
  PROVE  ReplayStep(s, r) = s
BY DEF ReplayStep

----------------------------------------------------------------------------
(* What the replay has rebuilt after i boundaries *)

\* The boundary numbered n is among the first i.
Seen(i, n) == \E j \in 1 .. i : Sorted[j].seq = n

\* Generation k as far as the first i rows tell.
Rebuilt(i, k) ==
  [addr |-> life[k].addr, born |-> life[k].born,
   died |-> IF Seen(i, life[k].died) THEN life[k].died ELSE 0]

\* Every entry is a generation begun within the first i rows,
EntriesTrue(i, s) ==
  \A x \in 1 .. Len(s.lifetimes) :
    \E k \in 1 .. Len(life) : /\ life[k].born # 0 /\ Seen(i, life[k].born)
                              /\ s.lifetimes[x] = Rebuilt(i, k)

\* and every such generation has an entry.
EntriesAll(i, s) ==
  \A k \in 1 .. Len(life) : life[k].born # 0 /\ Seen(i, life[k].born) =>
    \E x \in 1 .. Len(s.lifetimes) : s.lifetimes[x].born = life[k].born

\* The live entry at an address is the one that is open there.
LiveOpen(s) ==
  /\ \A a \in Addrs : s.live[a] # 0 =>
       /\ s.live[a] \in 1 .. Len(s.lifetimes)
       /\ s.lifetimes[s.live[a]].addr = a /\ s.lifetimes[s.live[a]].died = 0
  /\ \A x \in 1 .. Len(s.lifetimes) : s.lifetimes[x].died = 0 => s.live[s.lifetimes[x].addr] = x

\* The replay is right after i rows.
Replayed(i, s) ==
  s \in States /\ s.conflicts = 0 /\ EntriesTrue(i, s) /\ EntriesAll(i, s) /\ LiveOpen(s)

\* What the replay needs of the rows.
Consistent == ReplayType /\ Generational /\ BoundariesAgree /\ RowsOrdered /\ Len(Sorted) \in Nat

\* The fields of a rebuilt generation.
LEMMA RebuiltIs ==
  ASSUME NEW i, NEW k
  PROVE  /\ Rebuilt(i, k).addr = life[k].addr /\ Rebuilt(i, k).born = life[k].born
         /\ Rebuilt(i, k).died = IF Seen(i, life[k].died) THEN life[k].died ELSE 0
BY DEF Rebuilt

\* One boundary more is seen.
LEMMA SeenNext ==
  ASSUME Consistent, NEW i \in Rows, NEW n
  PROVE  /\ Seen(i, n) <=> Seen(i - 1, n) \/ Sorted[i].seq = n
         /\ ~Seen(i - 1, Sorted[i].seq)
<1>1. Len(Sorted) \in Nat /\ i \in Nat /\ i >= 1 /\ i <= Len(Sorted) BY DEF Consistent, Rows
<1>2. ASSUME NEW j \in 1 .. i PROVE j = i \/ j \in 1 .. i - 1 BY <1>1
<1>3. ASSUME NEW j \in 1 .. i - 1 PROVE j \in 1 .. i /\ j # i /\ j \in Rows BY <1>1 DEF Rows
<1>4. i \in 1 .. i BY <1>1
<1>5. ~Seen(i - 1, Sorted[i].seq) BY <1>3 DEF Seen, Consistent, RowsOrdered
<1>6. Seen(i, n) => Seen(i - 1, n) \/ Sorted[i].seq = n BY <1>2 DEF Seen
<1>7. Seen(i - 1, n) => Seen(i, n) BY <1>3 DEF Seen
<1>8. Sorted[i].seq = n => Seen(i, n) BY <1>4 DEF Seen
<1> QED BY <1>5, <1>6, <1>7, <1>8

\* What a boundary is recorded before is seen after it.
LEMMA SeenBefore ==
  ASSUME Consistent, NEW i \in Rows, NEW j \in Rows, Follows(Sorted[j].seq, Sorted[i].seq)
  PROVE  Seen(i - 1, Sorted[j].seq) /\ ~Seen(j, Sorted[i].seq)
<1>1. Len(Sorted) \in Nat /\ i \in Nat /\ j \in Nat /\ i >= 1 /\ j >= 1
      /\ i <= Len(Sorted) /\ j <= Len(Sorted)
  BY DEF Consistent, Rows
<1>2. j < i BY DEF Consistent, RowsOrdered
<1>3. j \in 1 .. i - 1 BY <1>1, <1>2
<1>4. Seen(i - 1, Sorted[j].seq) BY <1>3 DEF Seen
<1>5. ASSUME NEW l \in 1 .. j PROVE Sorted[l].seq # Sorted[i].seq
  <2>1. l \in Rows /\ l # i BY <1>1, <1>2 DEF Rows
  <2> QED BY <2>1 DEF Consistent, RowsOrdered
<1> QED BY <1>4, <1>5 DEF Seen

\* Generations with the same beginning, or the same end, are the same.
LEMMA OneGeneration ==
  ASSUME Consistent, NEW j \in 1 .. Len(life), NEW k \in 1 .. Len(life)
  PROVE  /\ life[j].born = life[k].born /\ life[j].born # 0 => j = k
         /\ life[j].died = life[k].died /\ life[j].died # 0 => j = k
BY DEF Consistent, Generational

\* A boundary that ends a generation finds it open, and closes that one.
LEMMA LastRetires ==
  ASSUME Consistent, NEW i \in Rows, NEW s, Replayed(i - 1, s), Retires(Sorted[i])
  PROVE  Replayed(i, ReplayStep(s, Sorted[i]))
<1> DEFINE r == Sorted[i]
<1>1. PICK k \in 1 .. Len(life) : DiedAt(k, i) BY DEF Consistent, BoundariesAgree
<1>2. r.seq = life[k].died /\ r.old = life[k].addr BY <1>1 DEF DiedAt
<1>3. r.seq \in Nat /\ r.seq # 0 /\ ~Introduces(r) BY DEF Consistent, RowsOrdered
<1>4. r.old \in Addrs BY <1>2, GenerationTyped DEF Consistent
<1>5. life[k].born # 0 /\ Follows(life[k].born, life[k].died)
  BY <1>2, <1>3 DEF Consistent, Generational
<1>6. PICK j \in Rows : BornAt(k, j) BY <1>5 DEF Consistent, BoundariesAgree
<1>7. Sorted[j].seq = life[k].born BY <1>6 DEF BornAt
<1>8. Seen(i - 1, life[k].born) BY <1>2, <1>5, <1>7, SeenBefore
<1>9. s \in States /\ s.conflicts = 0 /\ EntriesTrue(i - 1, s) /\ EntriesAll(i - 1, s) /\ LiveOpen(s)
  BY DEF Replayed
<1>10. PICK x \in 1 .. Len(s.lifetimes) : s.lifetimes[x].born = life[k].born
  BY <1>5, <1>8, <1>9 DEF EntriesAll
<1>11. ~Seen(i - 1, life[k].died) BY <1>2, SeenNext
<1>12. ASSUME NEW y \in 1 .. Len(s.lifetimes), s.lifetimes[y].born = life[k].born
       PROVE  s.lifetimes[y] = Rebuilt(i - 1, k) /\ s.live[r.old] = y
  <2>1. PICK m \in 1 .. Len(life) : life[m].born # 0 /\ s.lifetimes[y] = Rebuilt(i - 1, m)
    BY <1>9 DEF EntriesTrue
  <2>2. m = k BY <1>5, <1>12, <2>1, RebuiltIs, OneGeneration
  <2>3. s.lifetimes[y].died = 0 /\ s.lifetimes[y].addr = r.old BY <1>2, <1>11, <2>1, <2>2, RebuiltIs
  <2> QED BY <1>9, <2>1, <2>2, <2>3 DEF LiveOpen
<1>13. s.live[r.old] = x /\ s.lifetimes[x] = Rebuilt(i - 1, k) BY <1>10, <1>12
<1>14. PICK p : p = ReplayStep(s, r) OBVIOUS
<1>15. /\ p \in States /\ p.conflicts = s.conflicts /\ Len(p.lifetimes) = Len(s.lifetimes)
       /\ p.live[r.old] = 0 /\ \A a \in Addrs : a # r.old => p.live[a] = s.live[a]
       /\ p.lifetimes[x] = [s.lifetimes[x] EXCEPT !.died = r.seq]
       /\ \A y \in 1 .. Len(s.lifetimes) : y # x => p.lifetimes[y] = s.lifetimes[y]
  <2>1. s.live[r.old] \in 1 .. Len(s.lifetimes) BY <1>13
  <2> QED BY <1>3, <1>4, <1>9, <1>13, <1>14, <2>1, RetireStep
<1>16. Seen(i, life[k].died) /\ Seen(i, life[k].born) BY <1>2, <1>8, SeenNext
<1>17. p.lifetimes[x] = Rebuilt(i, k) BY <1>2, <1>13, <1>15, <1>16 DEF Rebuilt
<1>18. EntriesTrue(i, p)
  <2> SUFFICES ASSUME NEW y \in 1 .. Len(s.lifetimes), y # x
               PROVE  \E m \in 1 .. Len(life) : /\ life[m].born # 0 /\ Seen(i, life[m].born)
                                                /\ p.lifetimes[y] = Rebuilt(i, m)
    BY <1>5, <1>15, <1>16, <1>17 DEF EntriesTrue
  <2>1. PICK m \in 1 .. Len(life) : /\ life[m].born # 0 /\ Seen(i - 1, life[m].born)
                                    /\ s.lifetimes[y] = Rebuilt(i - 1, m)
    BY <1>9 DEF EntriesTrue
  <2>2. m # k BY <1>12, <1>13, <2>1, RebuiltIs
  <2>3. life[m].died # r.seq BY <1>2, <1>3, <2>2, OneGeneration
  <2>4. Seen(i, life[m].died) <=> Seen(i - 1, life[m].died) BY <2>3, SeenNext
  <2>5. Rebuilt(i, m) = Rebuilt(i - 1, m) BY <2>4 DEF Rebuilt
  <2>6. Seen(i, life[m].born) BY <2>1, SeenNext
  <2> QED BY <1>15, <2>1, <2>5, <2>6
<1>19. EntriesAll(i, p)
  <2> SUFFICES ASSUME NEW m \in 1 .. Len(life), life[m].born # 0, Seen(i, life[m].born)
               PROVE  \E y \in 1 .. Len(p.lifetimes) : p.lifetimes[y].born = life[m].born
    BY DEF EntriesAll
  <2>1. PICK l \in Rows : BornAt(m, l) BY DEF Consistent, BoundariesAgree
  <2>2. Sorted[l].seq = life[m].born /\ Introduces(Sorted[l]) BY <2>1 DEF BornAt
  <2>3. r.seq # life[m].born BY <1>3, <2>2 DEF Consistent, RowsOrdered
  <2>4. Seen(i - 1, life[m].born) BY <2>3, SeenNext
  <2>5. PICK y \in 1 .. Len(s.lifetimes) : s.lifetimes[y].born = life[m].born
    BY <1>9, <2>4 DEF EntriesAll
  <2>6. p.lifetimes[y].born = life[m].born
    <3>1. CASE y = x BY <1>10, <1>17, <2>5, <3>1, RebuiltIs
    <3>2. CASE y # x BY <1>15, <2>5, <3>2
    <3> QED BY <3>1, <3>2
  <2> QED BY <1>15, <2>5, <2>6
<1>20. LiveOpen(p)
  <2>1. ASSUME NEW a \in Addrs, p.live[a] # 0
        PROVE  /\ p.live[a] \in 1 .. Len(p.lifetimes)
               /\ p.lifetimes[p.live[a]].addr = a /\ p.lifetimes[p.live[a]].died = 0
    <3>1. a # r.old /\ p.live[a] = s.live[a] BY <1>15, <2>1
    <3>2. /\ s.live[a] \in 1 .. Len(s.lifetimes)
          /\ s.lifetimes[s.live[a]].addr = a /\ s.lifetimes[s.live[a]].died = 0
      BY <1>9, <2>1, <3>1 DEF LiveOpen
    <3>3. s.live[a] # x BY <1>2, <1>13, <3>1, <3>2, RebuiltIs
    <3> QED BY <1>15, <3>1, <3>2, <3>3
  <2>2. ASSUME NEW y \in 1 .. Len(p.lifetimes), p.lifetimes[y].died = 0
        PROVE  p.live[p.lifetimes[y].addr] = y
    <3>1. y # x BY <1>3, <1>16, <1>17, <1>2, <2>2, RebuiltIs
    <3>2. p.lifetimes[y] = s.lifetimes[y] BY <1>15, <3>1
    <3>3. s.live[s.lifetimes[y].addr] = y BY <1>9, <1>15, <2>2, <3>2 DEF LiveOpen
    <3>4. s.lifetimes[y].addr # r.old BY <1>13, <3>1, <3>3
    <3>5. s.lifetimes[y].addr \in Addrs BY <1>9, <1>15, EntryTyped
    <3> QED BY <1>15, <3>2, <3>3, <3>4, <3>5
  <2> QED BY <2>1, <2>2 DEF LiveOpen
<1>21. Replayed(i, p) BY <1>9, <1>15, <1>18, <1>19, <1>20 DEF Replayed
<1> QED BY <1>14, <1>21

\* A boundary that begins a generation finds no open one at its address: the one before has
\* ended by then, and a later one has not begun.
LEMMA LastIntroduces ==
  ASSUME Consistent, NEW i \in Rows, NEW s, Replayed(i - 1, s), Introduces(Sorted[i])
  PROVE  Replayed(i, ReplayStep(s, Sorted[i]))
<1> DEFINE r == Sorted[i]
<1>1. PICK k \in 1 .. Len(life) : BornAt(k, i) BY DEF Consistent, BoundariesAgree
<1>2. r.seq = life[k].born /\ r.addr = life[k].addr BY <1>1 DEF BornAt
<1>3. r.seq \in Nat /\ r.seq # 0 /\ ~Retires(r) BY DEF Consistent, RowsOrdered
<1>4. r.addr \in Addrs BY <1>2, GenerationTyped DEF Consistent
<1>5. s \in States /\ s.conflicts = 0 /\ EntriesTrue(i - 1, s) /\ EntriesAll(i - 1, s) /\ LiveOpen(s)
  BY DEF Replayed
<1>6. ~Seen(i - 1, life[k].born) BY <1>2, SeenNext
<1>7. s.live[r.addr] = 0
  <2> SUFFICES ASSUME s.live[r.addr] # 0 PROVE FALSE OBVIOUS
  <2>1. PICK x \in 1 .. Len(s.lifetimes) :
          s.live[r.addr] = x /\ s.lifetimes[x].addr = r.addr /\ s.lifetimes[x].died = 0
    BY <1>4, <1>5 DEF LiveOpen
  <2>2. PICK m \in 1 .. Len(life) : /\ life[m].born # 0 /\ Seen(i - 1, life[m].born)
                                    /\ s.lifetimes[x] = Rebuilt(i - 1, m)
    BY <1>5 DEF EntriesTrue
  <2>3. life[m].addr = life[k].addr BY <1>2, <2>1, <2>2, RebuiltIs
  <2>4. m # k BY <1>6, <2>2
  <2>5. CASE m < k
    <3>1. life[m].died # 0 /\ Follows(life[m].died, life[k].born)
      BY <1>2, <1>3, <2>3, <2>5 DEF Consistent, Generational
    <3>2. PICK j \in Rows : DiedAt(m, j) BY <3>1 DEF Consistent, BoundariesAgree
    <3>3. Sorted[j].seq = life[m].died BY <3>2 DEF DiedAt
    <3>4. Seen(i - 1, life[m].died) BY <1>2, <3>1, <3>3, SeenBefore
    <3> QED BY <2>1, <2>2, <3>1, <3>4, RebuiltIs
  <2>6. CASE k < m
    <3>1. life[k].died # 0 /\ Follows(life[k].died, life[m].born)
      BY <2>2, <2>3, <2>6 DEF Consistent, Generational
    <3>2. Follows(life[k].born, life[k].died) BY <3>1 DEF Consistent, Generational
    <3>3. PICK j \in Rows : DiedAt(k, j) BY <3>1 DEF Consistent, BoundariesAgree
    <3>4. PICK l \in Rows : BornAt(m, l) BY <2>2 DEF Consistent, BoundariesAgree
    <3>5. Sorted[j].seq = life[k].died /\ Sorted[l].seq = life[m].born
      BY <3>3, <3>4 DEF DiedAt, BornAt
    <3>6. i < j /\ j < l BY <1>2, <3>1, <3>2, <3>5 DEF Consistent, RowsOrdered
    <3>7. PICK q \in 1 .. i - 1 : Sorted[q].seq = life[m].born BY <2>2 DEF Seen
    <3>8. i \in Nat /\ i >= 1 /\ i <= Len(Sorted) /\ Len(Sorted) \in Nat /\ j \in Nat /\ l \in Nat
      BY DEF Consistent, Rows
    <3>9. q \in Rows /\ q < i BY <3>7, <3>8 DEF Rows
    <3>10. q = l BY <3>5, <3>7, <3>9 DEF Consistent, RowsOrdered
    <3> QED BY <3>6, <3>8, <3>9, <3>10
  <2> QED BY <2>4, <2>5, <2>6, GenerationTyped DEF Consistent
<1>8. PICK p : p = ReplayStep(s, r) OBVIOUS
<1>9. PICK n \in Nat : n = Len(s.lifetimes) BY <1>5 DEF States
<1>10. /\ p \in States /\ p.conflicts = s.conflicts /\ Len(p.lifetimes) = n + 1
       /\ p.live[r.addr] = n + 1
       /\ \A a \in Addrs : a # r.addr => p.live[a] = s.live[a]
       /\ p.lifetimes[n + 1] = [addr |-> r.addr, born |-> r.seq, died |-> 0]
       /\ \A y \in 1 .. n : p.lifetimes[y] = s.lifetimes[y]
  BY <1>3, <1>4, <1>5, <1>7, <1>8, <1>9, IntroduceStep
<1>11. \A y \in 1 .. Len(p.lifetimes) : y = n + 1 \/ y \in 1 .. n BY <1>9, <1>10
<1>12. n + 1 \in 1 .. Len(p.lifetimes) /\ \A y \in 1 .. n : y \in 1 .. Len(p.lifetimes) /\ y # n + 1
  BY <1>9, <1>10
<1>13. Seen(i, life[k].born) BY <1>2, SeenNext
<1>14. ~Seen(i, life[k].died)
  <2> SUFFICES ASSUME Seen(i, life[k].died) PROVE FALSE OBVIOUS
  <2>1. PICK q \in 1 .. i : Sorted[q].seq = life[k].died BY DEF Seen
  <2>2. i \in Nat /\ i >= 1 /\ i <= Len(Sorted) /\ Len(Sorted) \in Nat BY DEF Consistent, Rows
  <2>3. q \in Rows /\ q <= i /\ q \in Nat BY <2>1, <2>2 DEF Rows
  <2>4. life[k].died # 0 BY <2>1, <2>3 DEF Consistent, RowsOrdered
  <2>5. Follows(life[k].born, life[k].died) BY <2>4 DEF Consistent, Generational
  <2>6. i < q BY <1>2, <2>1, <2>3, <2>5 DEF Consistent, RowsOrdered
  <2> QED BY <2>2, <2>3, <2>6
<1>15. p.lifetimes[n + 1] = Rebuilt(i, k) BY <1>2, <1>10, <1>14 DEF Rebuilt
<1>16. EntriesTrue(i, p)
  <2> SUFFICES ASSUME NEW y \in 1 .. n
               PROVE  \E m \in 1 .. Len(life) : /\ life[m].born # 0 /\ Seen(i, life[m].born)
                                                /\ p.lifetimes[y] = Rebuilt(i, m)
    BY <1>2, <1>3, <1>11, <1>13, <1>15 DEF EntriesTrue
  <2>1. PICK m \in 1 .. Len(life) : /\ life[m].born # 0 /\ Seen(i - 1, life[m].born)
                                    /\ s.lifetimes[y] = Rebuilt(i - 1, m)
    BY <1>5, <1>9 DEF EntriesTrue
  <2>2. life[m].died # r.seq
    <3> SUFFICES ASSUME life[m].died = r.seq PROVE FALSE OBVIOUS
    <3>1. PICK j \in Rows : DiedAt(m, j) BY <1>3 DEF Consistent, BoundariesAgree
    <3>2. Sorted[j].seq = r.seq /\ Retires(Sorted[j]) BY <3>1 DEF DiedAt
    <3>3. i = j BY <3>2 DEF Consistent, RowsOrdered
    <3> QED BY <1>3, <3>2, <3>3
  <2>3. Seen(i, life[m].died) <=> Seen(i - 1, life[m].died) BY <2>2, SeenNext
  <2>4. Rebuilt(i, m) = Rebuilt(i - 1, m) BY <2>3 DEF Rebuilt
  <2>5. Seen(i, life[m].born) BY <2>1, SeenNext
  <2> QED BY <1>10, <2>1, <2>4, <2>5
<1>17. EntriesAll(i, p)
  <2> SUFFICES ASSUME NEW m \in 1 .. Len(life), life[m].born # 0, Seen(i, life[m].born)
               PROVE  \E y \in 1 .. Len(p.lifetimes) : p.lifetimes[y].born = life[m].born
    BY DEF EntriesAll
  <2>1. CASE r.seq = life[m].born BY <1>10, <1>12, <2>1
  <2>2. CASE r.seq # life[m].born
    <3>1. Seen(i - 1, life[m].born) BY <2>2, SeenNext
    <3>2. PICK y \in 1 .. n : s.lifetimes[y].born = life[m].born
      BY <1>5, <1>9, <3>1 DEF EntriesAll
    <3> QED BY <1>10, <1>12, <3>2
  <2> QED BY <2>1, <2>2
<1>18. LiveOpen(p)
  <2>1. ASSUME NEW a \in Addrs, p.live[a] # 0
        PROVE  /\ p.live[a] \in 1 .. Len(p.lifetimes)
               /\ p.lifetimes[p.live[a]].addr = a /\ p.lifetimes[p.live[a]].died = 0
    <3>1. CASE a = r.addr BY <1>10, <1>12, <3>1
    <3>2. CASE a # r.addr
      <4>1. p.live[a] = s.live[a] BY <1>10, <3>2
      <4>2. /\ s.live[a] \in 1 .. n
            /\ s.lifetimes[s.live[a]].addr = a /\ s.lifetimes[s.live[a]].died = 0
        BY <1>5, <1>9, <2>1, <4>1 DEF LiveOpen
      <4> QED BY <1>10, <1>12, <4>1, <4>2
    <3> QED BY <3>1, <3>2
  <2>2. ASSUME NEW y \in 1 .. Len(p.lifetimes), p.lifetimes[y].died = 0
        PROVE  p.live[p.lifetimes[y].addr] = y
    <3>1. CASE y = n + 1 BY <1>10, <3>1
    <3>2. CASE y \in 1 .. n
      <4>1. p.lifetimes[y] = s.lifetimes[y] BY <1>10, <3>2
      <4>2. s.live[s.lifetimes[y].addr] = y BY <1>5, <1>9, <2>2, <3>2, <4>1 DEF LiveOpen
      <4>3. s.lifetimes[y].addr # r.addr BY <1>7, <3>2, <4>2
      <4>4. s.lifetimes[y].addr \in Addrs BY <1>5, <1>9, <3>2, EntryTyped
      <4> QED BY <1>10, <4>1, <4>2, <4>3, <4>4
    <3> QED BY <1>11, <3>1, <3>2
  <2> QED BY <2>1, <2>2 DEF LiveOpen
<1>19. Replayed(i, p) BY <1>5, <1>10, <1>16, <1>17, <1>18 DEF Replayed
<1> QED BY <1>8, <1>19

\* The begin of a reallocation that failed changes nothing.
LEMMA LastOther ==
  ASSUME Consistent, NEW i \in Rows, NEW s, Replayed(i - 1, s), ~Introduces(Sorted[i]), ~Retires(Sorted[i])
  PROVE  Replayed(i, ReplayStep(s, Sorted[i]))
<1>1. ASSUME NEW k \in 1 .. Len(life)
      PROVE  /\ life[k].born # 0 => (Seen(i, life[k].born) <=> Seen(i - 1, life[k].born))
             /\ Rebuilt(i, k) = Rebuilt(i - 1, k)
  <2>1. life[k].born # 0 => life[k].born # Sorted[i].seq
    <3> SUFFICES ASSUME life[k].born # 0, life[k].born = Sorted[i].seq PROVE FALSE OBVIOUS
    <3>1. PICK j \in Rows : BornAt(k, j) BY DEF Consistent, BoundariesAgree
    <3>2. Sorted[j].seq = Sorted[i].seq /\ Introduces(Sorted[j]) BY <3>1 DEF BornAt
    <3> QED BY <3>2 DEF Consistent, RowsOrdered
  <2>2. life[k].died # Sorted[i].seq
    <3> SUFFICES ASSUME life[k].died = Sorted[i].seq PROVE FALSE OBVIOUS
    <3>1. life[k].died # 0 BY DEF Consistent, RowsOrdered
    <3>2. PICK j \in Rows : DiedAt(k, j) BY <3>1 DEF Consistent, BoundariesAgree
    <3>3. Sorted[j].seq = Sorted[i].seq /\ Retires(Sorted[j]) BY <3>2 DEF DiedAt
    <3> QED BY <3>3 DEF Consistent, RowsOrdered
  <2>3. Seen(i, life[k].died) <=> Seen(i - 1, life[k].died) BY <2>2, SeenNext
  <2> QED BY <2>1, <2>3, SeenNext DEF Rebuilt
<1>2. ReplayStep(s, Sorted[i]) = s BY OtherStep
<1>3. EntriesTrue(i, s) BY <1>1 DEF EntriesTrue, Replayed
<1>4. EntriesAll(i, s) BY <1>1 DEF EntriesAll, Replayed
<1>5. Replayed(i, s) BY <1>3, <1>4 DEF Replayed
<1> QED BY <1>2, <1>5

----------------------------------------------------------------------------
(* The whole replay *)

\* The states the replay passes through.
Passes(n, g) == g = [i \in 0 .. n |-> IF i = 0 THEN Replay0 ELSE ReplayStep(g[i - 1], Sorted[i])]

\* The recursive function of Replay exists.
LEMMA PassesExist == ASSUME NEW n \in Nat PROVE \E g : Passes(n, g)
<1> DEFINE T == {m \in Nat : ~ \E g : Passes(m, g)}
<1>1. ASSUME T # {} PROVE FALSE
  <2>1. PICK m \in T : \A k \in T : m <= k BY <1>1, Least
  <2>2. m \in Nat /\ ~ \E g : Passes(m, g) OBVIOUS
  <2>3. CASE m = 0
    <3> DEFINE g == [i \in 0 .. 0 |-> Replay0]
    <3>1. Passes(0, g)
      <4>1. \A i \in 0 .. 0 : i = 0 OBVIOUS
      <4>2. g = [i \in 0 .. 0 |-> IF i = 0 THEN Replay0 ELSE ReplayStep(g[i - 1], Sorted[i])]
        BY <4>1
      <4> QED BY <4>2 DEF Passes
    <3> QED BY <2>2, <2>3, <3>1
  <2>4. CASE m # 0
    <3>1. m - 1 \in Nat /\ ~(m <= m - 1) BY <2>2, <2>4
    <3>2. PICK g : Passes(m - 1, g) BY <2>1, <3>1
    <3> DEFINE u == [i \in 0 .. m |-> IF i = 0 THEN Replay0 ELSE ReplayStep(g[i - 1], Sorted[i])]
    <3>3. ASSUME NEW i \in 0 .. m - 1 PROVE u[i] = g[i]
      <4>1. i \in 0 .. m BY <2>2
      <4> QED BY <3>2, <4>1 DEF Passes
    <3>4. Passes(m, u)
      <4>1. ASSUME NEW i \in 0 .. m
            PROVE  (IF i = 0 THEN Replay0 ELSE ReplayStep(u[i - 1], Sorted[i]))
                     = (IF i = 0 THEN Replay0 ELSE ReplayStep(g[i - 1], Sorted[i]))
        <5>1. CASE i = 0 BY <5>1
        <5>2. CASE i # 0
          <6>1. i - 1 \in 0 .. m - 1 BY <2>2, <4>1, <5>2
          <6>2. u[i - 1] = g[i - 1] BY <3>3, <6>1
          <6> QED BY <5>2, <6>2
        <5> QED BY <5>1, <5>2
      <4>2. u = [i \in 0 .. m |-> IF i = 0 THEN Replay0 ELSE ReplayStep(u[i - 1], Sorted[i])] BY <4>1
      <4> QED BY <4>2 DEF Passes
    <3> QED BY <2>2, <3>4
  <2> QED BY <2>3, <2>4
<1> QED BY <1>1

\* Replay is its last value.
LEMMA ReplayIs == ASSUME Len(Sorted) \in Nat PROVE \E g : Passes(Len(Sorted), g) /\ Replay = g[Len(Sorted)]
<1>1. Passes(Len(Sorted), CHOOSE g : Passes(Len(Sorted), g)) BY PassesExist
<1>2. Replay = (CHOOSE g : Passes(Len(Sorted), g))[Len(Sorted)] BY DEF Replay, Passes
<1> QED BY <1>1, <1>2

\* Before the first row there is nothing.
LEMMA NothingReplayed == ASSUME Consistent PROVE Replayed(0, Replay0)
<1>1. [a \in Addrs |-> 0] \in [Addrs -> Nat] OBVIOUS
<1>2. << >> \in Seq(Generations) /\ Len(<< >>) = 0 OBVIOUS
<1>3. Replay0 \in States BY <1>1, <1>2 DEF Replay0, States
<1>4. Replay0.lifetimes = << >> /\ Replay0.conflicts = 0 /\ Replay0.live = [a \in Addrs |-> 0]
  BY DEF Replay0
<1>5. 1 .. Len(Replay0.lifetimes) = {} BY <1>2, <1>4
<1>6. \A n : ~Seen(0, n) BY DEF Seen
<1> QED BY <1>3, <1>4, <1>5, <1>6 DEF Replayed, EntriesTrue, EntriesAll, LiveOpen

\* By induction on the boundaries: the first one after which the replay is wrong does not exist.
LEMMA AllReplayed ==
  ASSUME Consistent, NEW g, Passes(Len(Sorted), g)
  PROVE  Replayed(Len(Sorted), g[Len(Sorted)])
<1>1. Len(Sorted) \in Nat BY DEF Consistent
<1> DEFINE T == {i \in 0 .. Len(Sorted) : ~Replayed(i, g[i])}
<1>2. ASSUME T # {} PROVE FALSE
  <2>1. PICK i \in T : \A j \in T : i <= j
    <3>1. T \subseteq Nat OBVIOUS
    <3> QED BY <1>2, <3>1, Least
  <2>2. i \in 0 .. Len(Sorted) /\ ~Replayed(i, g[i]) OBVIOUS
  <2>3. g[i] = IF i = 0 THEN Replay0 ELSE ReplayStep(g[i - 1], Sorted[i]) BY <2>2 DEF Passes
  <2>4. i # 0 BY <2>2, <2>3, NothingReplayed
  <2>5. i \in Rows /\ i - 1 \in 0 .. Len(Sorted) /\ ~(i <= i - 1) BY <1>1, <2>2, <2>4 DEF Rows
  <2>6. Replayed(i - 1, g[i - 1]) BY <2>1, <2>5
  <2>7. Replayed(i, ReplayStep(g[i - 1], Sorted[i]))
    BY <2>5, <2>6, LastRetires, LastIntroduces, LastOther
  <2> QED BY <2>2, <2>3, <2>4, <2>7
<1>3. Len(Sorted) \in 0 .. Len(Sorted) BY <1>1
<1> QED BY <1>2, <1>3

\* process of allocations.rs, over what record_allocation recorded: whatever the threads, addresses
\* and clock did, the replay rebuilds exactly the generations there were and reports no conflict.
THEOREM ReplayRebuildsGenerations == Spec => []ReplayExact
<1>1. ReplayInvariant => ReplayExact
  <2> SUFFICES ASSUME ReplayInvariant, Settled, Uncertain = {}
               PROVE  /\ SeqRange(Replay.lifetimes) = {e \in SeqRange(life) : e.born # 0}
                      /\ Replay.conflicts = 0
    BY DEF ReplayExact
  <2>1. ReplayType /\ NumbersUnique /\ Generational BY DEF ReplayInvariant
  <2>2. Len(Sorted) \in Nat BY <2>1, SortedIs
  <2>3. Consistent BY <2>1, <2>2, RowsAre, BoundariesDo DEF Consistent
  <2>4. PICK g : Passes(Len(Sorted), g) /\ Replay = g[Len(Sorted)] BY <2>2, ReplayIs
  <2>5. PICK s : s = Replay OBVIOUS
  <2>6. Replayed(Len(Sorted), s) BY <2>3, <2>4, <2>5, AllReplayed
  <2>7. s.lifetimes \in Seq(Generations) /\ DOMAIN s.lifetimes = 1 .. Len(s.lifetimes)
    BY <2>6 DEF Replayed, States
  <2>8. DOMAIN life = 1 .. Len(life) BY <2>1 DEF ReplayType
  <2>9. ASSUME NEW k \in 1 .. Len(life)
        PROVE  /\ Rebuilt(Len(Sorted), k) = life[k]
               /\ life[k].born # 0 => Seen(Len(Sorted), life[k].born)
    <3>1. ASSUME life[k].died # 0 PROVE Seen(Len(Sorted), life[k].died)
      BY <2>3, <3>1 DEF Consistent, BoundariesAgree, DiedAt, Rows, Seen
    <3>2. ASSUME life[k].born # 0 PROVE Seen(Len(Sorted), life[k].born)
      BY <2>3, <3>2 DEF Consistent, BoundariesAgree, BornAt, Rows, Seen
    <3>3. life[k] \in Generations BY <2>1 DEF ReplayType
    <3>4. life[k] = [addr |-> life[k].addr, born |-> life[k].born, died |-> life[k].died]
      BY <3>3 DEF Generations
    <3>5. (IF Seen(Len(Sorted), life[k].died) THEN life[k].died ELSE 0) = life[k].died BY <3>1
    <3> QED BY <3>2, <3>4, <3>5 DEF Rebuilt
  <2>10. ASSUME NEW e \in SeqRange(s.lifetimes) PROVE e \in SeqRange(life) /\ e.born # 0
    <3>1. PICK x \in 1 .. Len(s.lifetimes) : e = s.lifetimes[x] BY <2>7 DEF SeqRange
    <3>2. PICK k \in 1 .. Len(life) : life[k].born # 0 /\ s.lifetimes[x] = Rebuilt(Len(Sorted), k)
      BY <2>6 DEF Replayed, EntriesTrue
    <3> QED BY <2>8, <2>9, <3>1, <3>2 DEF SeqRange
  <2>11. ASSUME NEW e \in SeqRange(life), e.born # 0 PROVE e \in SeqRange(s.lifetimes)
    <3>1. PICK k \in 1 .. Len(life) : e = life[k] BY <2>8 DEF SeqRange
    <3>2. PICK x \in 1 .. Len(s.lifetimes) : s.lifetimes[x].born = life[k].born
      BY <2>6, <2>9, <2>11, <3>1 DEF Replayed, EntriesAll
    <3>3. PICK m \in 1 .. Len(life) : life[m].born # 0 /\ s.lifetimes[x] = Rebuilt(Len(Sorted), m)
      BY <2>6 DEF Replayed, EntriesTrue
    <3>4. s.lifetimes[x] = life[m] BY <2>9, <3>3
    <3>5. m = k BY <2>3, <3>2, <3>3, <3>4, OneGeneration
    <3> QED BY <2>7, <3>1, <3>4, <3>5 DEF SeqRange
  <2>12. s.conflicts = 0 BY <2>6 DEF Replayed
  <2> QED BY <2>5, <2>10, <2>11, <2>12
<1> QED BY <1>1, ReplayInductive, PTL
=============================================================================
