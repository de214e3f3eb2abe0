----------------------------- MODULE CacheModel -----------------------------
(***************************************************************************)
(* The shared last-level cache the Roofline accounting engines simulate:   *)
(* set-associative, write-back, write-allocate, least recently used, with  *)
(* a few recent hits remembered in front of the search of a set.           *)
(*                                                                         *)
(* An address is the address of a cache line.  An access that covers       *)
(* several lines is one AccessLine per line, all under the session's lock. *)
(* Lines that are not in use have the tag Invalid, entries of the recent   *)
(* hits that are not have the address Invalid.                             *)
(***************************************************************************)
EXTENDS Naturals, FiniteSets

CONSTANTS
  SetCount,     \* set_count
  Ways,         \* associativity
  MruWays,      \* MRU_WAYS
  Addresses,    \* the addresses accessed
  Invalid,      \* TAG_INVALID and the address of MRU_INVALID
  MaxAccesses   \* bound: accesses

ASSUME CacheAssumption ==
  /\ SetCount \in Nat \ {0} /\ Ways \in Nat \ {0} /\ MruWays \in Nat \ {0}
  /\ Addresses \subseteq Nat
  /\ Invalid \notin Nat
  /\ MaxAccesses \in Nat

VARIABLES
  lines,    \* the lines, of one set after the other
  clock,    \* counts the lines accessed
  mru,      \* recent hits: an address and the index of its line
  cursor,   \* mru_cursor
  loads,    \* lines read from memory
  stores    \* lines written back

cacheVars == <<lines, clock, mru, cursor, loads, stores>>

Indices == 0 .. SetCount * Ways - 1
Slots   == 0 .. MruWays - 1

NoLine   == [tag |-> Invalid, last_used |-> 0, dirty |-> FALSE]
NoRecent == [address |-> Invalid, index |-> 0]

SetOf(a) == a % SetCount
TagOf(a) == a \div SetCount

\* The lines of the set of a.
WaysOf(a) == SetOf(a) * Ways .. SetOf(a) * Ways + Ways - 1

Hits(a) == {i \in WaysOf(a) : lines[i].tag = TagOf(a)}

Recents(a) == {m \in Slots : mru[m].address = a}

\* Mutant of Used: a hit does not make its line the latest.
UsedInPlace(i, store) == [lines EXCEPT ![i].dirty = @ \/ store]

\* A hit makes its line the latest used.
Used(i, store) ==
  [lines EXCEPT ![i] = [tag |-> @.tag, last_used |-> clock + 1, dirty |-> @.dirty \/ store]]

\* A recent hit, which does not look at the set.
RecentHit(a, store) ==
  /\ \E m \in Recents(a) :
       /\ \A n \in Recents(a) : m <= n
       /\ lines' = Used(mru[m].index, store)
  /\ UNCHANGED <<mru, cursor, loads, stores>>

\* A hit in the set is remembered.
SetHit(a, store) ==
  /\ Recents(a) = {}
  /\ \E i \in Hits(a) :
       /\ \A j \in Hits(a) : i <= j
       /\ lines' = Used(i, store)
       /\ mru' = [mru EXCEPT ![cursor] = [address |-> a, index |-> i]]
  /\ cursor' = (cursor + 1) % MruWays
  /\ UNCHANGED <<loads, stores>>

Unused(a) == {i \in WaysOf(a) : lines[i].tag = Invalid}

Oldest(a) == {i \in WaysOf(a) : \A j \in WaysOf(a) : lines[i].last_used <= lines[j].last_used}

\* The line to replace: the first that is free, else the first of the oldest.
Victims(a) == IF Unused(a) # {} THEN Unused(a) ELSE Oldest(a)

\* Mutant of Forget: a miss leaves the recent hits alone.
ForgetNothing == mru

\* A miss may replace a line that is remembered.
Forget == [m \in Slots |-> NoRecent]

Miss(a, store) ==
  /\ Recents(a) = {} /\ Hits(a) = {}
  /\ mru' = Forget
  /\ \E v \in Victims(a) :
       /\ \A j \in Victims(a) : v <= j
       /\ lines' = [lines EXCEPT ![v] = [tag |-> TagOf(a), last_used |-> clock + 1, dirty |-> store]]
       /\ stores' = stores + (IF lines[v].tag # Invalid /\ lines[v].dirty THEN 1 ELSE 0)
  /\ loads' = loads + 1
  /\ UNCHANGED cursor

AccessLine(a, store) ==
  /\ clock < MaxAccesses
  /\ clock' = clock + 1
  /\ RecentHit(a, store) \/ SetHit(a, store) \/ Miss(a, store)

Dirty == {i \in Indices : lines[i].tag # Invalid /\ lines[i].dirty}

\* flush.
FlushCache ==
  /\ \E i \in Indices : lines[i].tag # Invalid
  /\ mru' = Forget
  /\ lines' = [i \in Indices |-> NoLine]
  /\ stores' = stores + Cardinality(Dirty)
  /\ UNCHANGED <<clock, cursor, loads>>

CacheInit ==
  /\ lines = [i \in Indices |-> NoLine]
  /\ clock = 0
  /\ mru = [m \in Slots |-> NoRecent]
  /\ cursor = 0
  /\ loads = 0 /\ stores = 0

CacheNext == (\E a \in Addresses, store \in BOOLEAN : AccessLine(a, store)) \/ FlushCache

CacheSpec == CacheInit /\ [][CacheNext]_cacheVars

----------------------------------------------------------------------------
(* Properties *)

CacheTypeOK ==
  /\ lines \in [Indices -> [tag : Nat \cup {Invalid}, last_used : Nat, dirty : BOOLEAN]]
  /\ clock \in Nat
  /\ mru \in [Slots -> [address : Addresses \cup {Invalid}, index : Indices]]
  /\ cursor \in Slots
  /\ loads \in Nat /\ stores \in Nat

\* A remembered hit leads to the line that the search of the set would have
\* found, and the only one it could have found, however many misses have
\* replaced lines since.
RecentHitsAreCurrent ==
  \A m \in Slots :
    mru[m].address # Invalid => Hits(mru[m].address) = {mru[m].index}

\* No set holds the same address twice.
NoAliases ==
  \A a \in Addresses : \A i, j \in Hits(a) : i = j

CacheInvariant == CacheTypeOK /\ NoAliases /\ RecentHitsAreCurrent

\* The elements of S, the latest first: the k-th is the one that k - 1 are later than.
LatestFirst(S, time) ==
  [k \in 1 .. Cardinality(S) |->
     CHOOSE i \in S : Cardinality({j \in S : time[j] > time[i]}) = k - 1]

LastUses == [i \in Indices |-> lines[i].last_used]

UsedLines(s) == {i \in s * Ways .. s * Ways + Ways - 1 : lines[i].tag # Invalid}

LineAt(i, s) == [address |-> lines[i].tag * SetCount + s, dirty |-> lines[i].dirty]

\* The lines of set s in use, the latest used first.
RecencyOf(s) ==
  LET order == LatestFirst(UsedLines(s), LastUses) IN [k \in DOMAIN order |-> LineAt(order[k], s)]

Recency == [s \in 0 .. SetCount - 1 |-> RecencyOf(s)]

Lru == INSTANCE LruCache WITH recency <- Recency, fetched <- loads, written <- stores

\* The cache with its remembered hits is a least-recently-used cache: it
\* fetches, evicts and writes back what one without them would.
ImplementsLru == Lru!Spec
============================================================================
