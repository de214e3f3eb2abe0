------------------------------ MODULE LruCache ------------------------------
(***************************************************************************)
(* What CacheModel promises: every set keeps its lines in the order of     *)
(* their last use, the latest first, and a miss in a full set drops the    *)
(* last one, writing it back if it was stored to.                          *)
(***************************************************************************)
EXTENDS Naturals, Sequences, FiniteSets

CONSTANTS
  SetCount,    \* number of sets
  Ways,        \* lines in a set
  Addresses    \* the addresses accessed

VARIABLES
  recency,  \* the lines of each set
  fetched,  \* lines read from memory
  written   \* lines written back

vars == <<recency, fetched, written>>

Without(s, i) == SubSeq(s, 1, i - 1) \o SubSeq(s, i + 1, Len(s))

\* An access to a line in the cache moves it to the front.
Reuse(a, store) ==
  LET set == recency[a % SetCount]
  IN \E i \in DOMAIN set :
       /\ set[i].address = a
       /\ recency' = [recency EXCEPT ![a % SetCount] =
                        <<[address |-> a, dirty |-> set[i].dirty \/ store]>> \o Without(set, i)]
       /\ UNCHANGED <<fetched, written>>

\* An access to any other line fetches it.
Fetch(a, store) ==
  LET set  == recency[a % SetCount]
      full == Len(set) = Ways
  IN /\ fetched' = fetched + 1
     /\ \A i \in DOMAIN set : set[i].address # a
     /\ recency' = [recency EXCEPT ![a % SetCount] =
                      <<[address |-> a, dirty |-> store]>>
                        \o (IF full THEN SubSeq(set, 1, Ways - 1) ELSE set)]
     /\ written' = written + (IF full /\ set[Ways].dirty THEN 1 ELSE 0)

Stored == UNION {{s} \X {i \in DOMAIN recency[s] : recency[s][i].dirty} : s \in DOMAIN recency}

\* In the end everything that was stored to is written back.
WriteBack ==
  /\ recency' = [s \in DOMAIN recency |-> <<>>]
  /\ written' = written + Cardinality(Stored)
  /\ UNCHANGED fetched

Init == /\ recency = [s \in 0 .. SetCount - 1 |-> <<>>]
        /\ fetched = 0 /\ written = 0

Next == \/ WriteBack
        \/ \E a \in Addresses, store \in BOOLEAN : Reuse(a, store) \/ Fetch(a, store)

Spec == Init /\ [][Next]_vars
============================================================================
