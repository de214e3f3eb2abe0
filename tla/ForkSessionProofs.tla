------------------------- MODULE ForkSessionProofs -------------------------
(***************************************************************************)
(* For any number of threads, forks and calls, in every process that       *)
(* starts no thread while FORKED is set: a process starts one collector, a *)
(* record goes to the collector of its own process, and shutdown is final. *)
(* What holds in the others, and what a fork needs of its parent, is only  *)
(* that every collector was started by this process or one before it.      *)
(***************************************************************************)
EXTENDS ForkSession, TLAPS

Labels == {"idle", "forked", "cached", "swap", "reset", "read", "start", "record", "take"}

TypeOK ==
  /\ epoch \in Nat /\ birth \in Seq(Nat) /\ threads \subseteq Threads
  /\ accepting \subseteq DOMAIN birth
  /\ global \in 0 .. Len(birth)
  /\ cached \in [Threads -> 0 .. Len(birth)] /\ slot \in [Threads -> 0 .. Len(birth)]
  /\ pc \in [Threads -> Labels]

\* Collector c was started by this process.
Current(c) == c \in DOMAIN birth /\ birth[c] = epoch

\* COLLECTOR may still be the parent's.
Stale == forked \/ \E t \in threads : pc[t] = "reset"

\* FORKED is dealt with before there is a second thread.
Alone == Stale => \A t, u \in threads : t = u

BirthsPast == \A c \in DOMAIN birth : birth[c] <= epoch

OneBirth == \A c, d \in DOMAIN birth : birth[c] = epoch /\ birth[d] = epoch => c = d

\* COLLECTOR is this process's own collector once FORKED has been dealt with.
GlobalCurrent ==
  /\ Stale => \A c \in DOMAIN birth : ~Current(c)
  /\ ~Stale => global = 0 \/ Current(global)
  /\ ~closed => \A c \in DOMAIN birth : Current(c) => global = c

\* Only the collector in COLLECTOR accepts records of this process, and the thread
\* that closed it takes it out.
AcceptingCurrent ==
  /\ \A t \in threads : pc[t] = "take" => closed
  /\ \A c \in accepting : Current(c) => global = c
  /\ closed /\ (\A t \in threads : pc[t] # "take") => \A c \in accepting : ~Current(c)

\* A thread that has seen FORKED has no cached collector, and one that has not is
\* on its way to look.
CachedCurrent ==
  \A t \in threads :
    /\ forked => pc[t] \in {"idle", "forked", "cached", "swap"}
    /\ pc[t] \in {"swap", "reset", "read", "start"} => cached[t] = 0
    /\ forked /\ pc[t] = "cached" => cached[t] = 0
    /\ ~forked => cached[t] = 0 \/ Current(cached[t])
    /\ ~Stale => slot[t] = 0 \/ Current(slot[t])
    /\ pc[t] = "record" => cached[t] # 0

Orderly == Alone /\ OneBirth /\ GlobalCurrent /\ AcceptingCurrent /\ CachedCurrent

\* A process that was orderly so far.
Tidy == TypeOK /\ BirthsPast /\ Orderly

ForkInvariant == TypeOK /\ BirthsPast /\ (~early => Orderly)

----------------------------------------------------------------------------
LEMMA ForkInitially == ForkInit => Tidy
<1> SUFFICES ASSUME ForkInit PROVE Tidy OBVIOUS
<1>1. birth = <<>> /\ birth \in Seq(Nat) /\ DOMAIN birth = {} /\ Len(birth) = 0 BY DEF ForkInit
<1>2. ~Stale BY DEF ForkInit, Stale
<1> QED BY <1>1, <1>2 DEF ForkInit, Tidy, Orderly, TypeOK, Alone, BirthsPast, OneBirth,
           GlobalCurrent, AcceptingCurrent, CachedCurrent, Labels

\* The thread that works for this process after a fork finds COLLECTOR its own.
LEMMA PastReset ==
  ASSUME Tidy, NEW t \in threads, pc[t] \in {"read", "start"}
  PROVE  ~Stale
BY DEF Tidy, Orderly, Alone, CachedCurrent, Stale

\* Collector::start adds the only collector of this process.
LEMMA StartPreserves ==
  ASSUME Tidy, NEW t \in Threads, Stands(t, "start"), ~closed, global = 0, Start(t),
         UNCHANGED <<epoch, forked, closed, threads, slot, calls, early>>
  PROVE  Tidy'
<1>0. PICK new \in Nat : new = Len(birth) + 1
  BY DEF Tidy, Orderly, TypeOK
<1>1. /\ birth' \in Seq(Nat) /\ Len(birth') = new
      /\ DOMAIN birth = 1 .. Len(birth) /\ DOMAIN birth' = 1 .. new
      /\ birth'[new] = epoch /\ \A c \in DOMAIN birth : birth'[c] = birth[c]
  BY <1>0 DEF Start, Tidy, TypeOK
<1>2. /\ global' = new /\ accepting' = accepting \cup {new}
      /\ cached' = [cached EXCEPT ![t] = new] /\ pc' = [pc EXCEPT ![t] = "record"]
  BY <1>0 DEF Start, Found, Move
<1>3. new \in Nat /\ new # 0 /\ new \notin DOMAIN birth BY <1>0, <1>1 DEF Tidy, Orderly, TypeOK
<1>4. t \in threads /\ pc[t] = "start" BY DEF Stands
<1>5. ~Stale BY <1>4, PastReset
<1>6. ~Stale' BY <1>2, <1>4, <1>5 DEF Stale, Tidy, TypeOK
<1>7. \A c \in DOMAIN birth : ~Current(c)
  BY <1>1 DEF Tidy, Orderly, GlobalCurrent, TypeOK
<1>8. /\ \A c \in 0 .. Len(birth) : ~Current(c)' /\ ~Current(c)
      /\ Current(new)'
  <2>1. Len(birth) \in Nat BY DEF Tidy, Orderly, TypeOK
  <2>2. new \in DOMAIN birth' BY <1>0, <1>1, <2>1
  <2>3. Current(new)' BY <1>1, <2>2 DEF Current
  <2>4. ASSUME NEW c \in 0 .. Len(birth) PROVE ~Current(c)' /\ ~Current(c)
    <3>1. CASE c = 0 BY <1>1, <3>1 DEF Current
    <3>2. CASE c \in DOMAIN birth BY <1>1, <1>7, <3>2 DEF Current
    <3> QED BY <1>1, <2>1, <3>1, <3>2
  <2> QED BY <2>3, <2>4
<1>9. TypeOK'
  <2>1. 0 .. Len(birth) \subseteq 0 .. Len(birth') /\ new \in 0 .. Len(birth')
    BY <1>0, <1>1, <1>3 DEF Tidy, Orderly, TypeOK
  <2> QED BY <1>1, <1>2, <1>3, <2>1 DEF Tidy, Orderly, TypeOK, Labels
<1>10. Alone' BY <1>5, <1>6 DEF Tidy, Orderly, Alone
<1>11. BirthsPast' /\ OneBirth'
  <2>1. \A c \in DOMAIN birth' : c = new \/ c \in DOMAIN birth
    BY <1>0, <1>1 DEF Tidy, TypeOK
  <2>2. \A c \in DOMAIN birth : birth[c] \in Nat /\ birth[c] < epoch
    BY <1>7 DEF Tidy, TypeOK, BirthsPast, Current
  <2>3. \A c \in DOMAIN birth' : birth'[c] <= epoch'
    BY <1>1, <2>1, <2>2 DEF Tidy, TypeOK
  <2>4. ASSUME NEW c \in DOMAIN birth', NEW d \in DOMAIN birth', birth'[c] = epoch',
               birth'[d] = epoch'
        PROVE  c = d
    BY <1>1, <2>1, <2>2, <2>4 DEF Tidy, TypeOK
  <2> QED BY <2>3, <2>4 DEF BirthsPast, OneBirth
<1>12. GlobalCurrent'
  <2>1. \A c \in DOMAIN birth' : c = new \/ c \in 0 .. Len(birth)
    BY <1>0, <1>1 DEF Tidy, Orderly, TypeOK
  <2> QED BY <1>2, <1>6, <1>8, <2>1 DEF GlobalCurrent, Current
<1>13. AcceptingCurrent'
  BY <1>1, <1>2, <1>4, <1>8 DEF Tidy, Orderly, AcceptingCurrent, TypeOK, Labels
<1>14. CachedCurrent'
  <2> SUFFICES ASSUME NEW u \in threads
               PROVE  /\ forked' => pc'[u] \in {"idle", "forked", "cached", "swap"}
                      /\ pc'[u] \in {"swap", "reset", "read", "start"} => cached'[u] = 0
                      /\ forked' /\ pc'[u] = "cached" => cached'[u] = 0
                      /\ cached'[u] = 0 \/ Current(cached[u])'
                      /\ slot'[u] = 0 \/ Current(slot[u])'
                      /\ pc'[u] = "record" => cached'[u] # 0
    BY DEF CachedCurrent
  <2>1. ~forked /\ ~forked' BY <1>5, <1>6 DEF Stale
  <2>2. cached[u] \in 0 .. Len(birth) /\ slot[u] \in 0 .. Len(birth) /\ u \in Threads
    BY DEF Tidy, Orderly, TypeOK
  <2>3. cached[u] = 0 /\ slot[u] = 0
    BY <1>5, <1>8, <2>1, <2>2 DEF Tidy, Orderly, CachedCurrent
  <2>4. CASE u = t
    BY <1>2, <1>3, <1>8, <2>1, <2>2, <2>3, <2>4 DEF Tidy, Orderly, TypeOK
  <2>5. CASE u # t
    BY <1>2, <1>3, <2>1, <2>2, <2>3, <2>5 DEF Tidy, Orderly, TypeOK, CachedCurrent
  <2> QED BY <2>4, <2>5
<1> QED BY <1>9, <1>10, <1>11, <1>12, <1>13, <1>14 DEF Tidy, Orderly

\* A thread that takes over the collector in COLLECTOR.
LEMMA FoundPreserves ==
  ASSUME Tidy, NEW t \in Threads, t \in threads, pc[t] \in {"read", "start"},
         global # 0, Found(t, global),
         UNCHANGED <<epoch, birth, accepting, forked, closed, global, threads, slot, calls>>
  PROVE  Tidy'
<1>1. ~Stale /\ ~Stale' BY PastReset DEF Stale, Found, Move, Tidy, TypeOK
<1>2. Current(global) BY <1>1 DEF Tidy, Orderly, GlobalCurrent
<1>3. cached' = [cached EXCEPT ![t] = global] /\ pc' = [pc EXCEPT ![t] = "record"]
  BY DEF Found, Move
<1>4. TypeOK' /\ Alone' /\ BirthsPast' /\ OneBirth'
  BY <1>1, <1>3 DEF Tidy, Orderly, TypeOK, Alone, BirthsPast, OneBirth, Labels
<1>5. GlobalCurrent' /\ AcceptingCurrent'
  BY <1>1, <1>3 DEF Tidy, Orderly, TypeOK, GlobalCurrent, AcceptingCurrent, Current
<1>6. CachedCurrent'
  BY <1>1, <1>2, <1>3 DEF Tidy, Orderly, TypeOK, CachedCurrent, Stale, Current
<1> QED BY <1>4, <1>5, <1>6 DEF Tidy, Orderly

\* After a fork every collector is the parent's, and FORKED tells the child so.
LEMMA ForkTidies ==
  ASSUME TypeOK, BirthsPast, NEW t \in Threads, Fork(t)
  PROVE  Tidy'
<1>1. t \in threads /\ pc[t] = "idle" /\ threads' = {t} /\ epoch' = epoch + 1 BY DEF Fork, Stands
<1>2. UNCHANGED <<birth, accepting, closed, global, cached, slot, pc>> BY DEF Fork
<1>3. \A c \in DOMAIN birth : ~Current(c)'
  BY <1>1, <1>2 DEF TypeOK, BirthsPast, Current
<1>4. birth = <<>> => Len(birth) = 0 /\ DOMAIN birth = {} OBVIOUS
<1>5. ~forked' => birth = <<>> BY DEF Fork
<1>6. TypeOK' /\ Alone' /\ BirthsPast' /\ OneBirth'
  BY <1>1, <1>2, <1>3 DEF TypeOK, Alone, BirthsPast, OneBirth, Current, Labels
<1>7. ~forked' => global = 0 /\ cached[t] = 0 /\ slot[t] = 0
  BY <1>4, <1>5 DEF TypeOK
<1>8. GlobalCurrent' /\ AcceptingCurrent'
  BY <1>1, <1>2, <1>3, <1>7 DEF TypeOK, GlobalCurrent, AcceptingCurrent, Stale
<1>9. CachedCurrent'
  BY <1>1, <1>2, <1>7 DEF CachedCurrent, Stale
<1> QED BY <1>6, <1>8, <1>9 DEF Tidy, Orderly

\* Every other step keeps a process orderly, unless it is the start of a thread while
\* FORKED is set.
LEMMA StepKeepsTidy ==
  ASSUME Tidy, [ForkNext]_forkVars, ~early', \A t \in Threads : ~Fork(t)
  PROVE  Tidy'
<1> USE DEF TypeOK, Alone, BirthsPast, OneBirth, GlobalCurrent, AcceptingCurrent, CachedCurrent,
            Stale, Current, Stands, Move, Labels
<1>1. ASSUME NEW t \in Threads, CheckClosed(t) PROVE Tidy'
  <2>1. TypeOK' /\ Alone' /\ BirthsPast' /\ OneBirth' BY <1>1 DEF Tidy, Orderly, CheckClosed
  <2>2. GlobalCurrent' /\ AcceptingCurrent' BY <1>1 DEF Tidy, Orderly, CheckClosed
  <2>3. CachedCurrent' BY <1>1 DEF Tidy, Orderly, CheckClosed
  <2> QED BY <2>1, <2>2, <2>3 DEF Tidy, Orderly
<1>2. ASSUME NEW t \in Threads, CheckForked(t) PROVE Tidy'
  <2>1. TypeOK' /\ Alone' /\ BirthsPast' /\ OneBirth' BY <1>2 DEF Tidy, Orderly, CheckForked
  <2>2. GlobalCurrent' /\ AcceptingCurrent' BY <1>2 DEF Tidy, Orderly, CheckForked
  <2>3. CachedCurrent' BY <1>2 DEF Tidy, Orderly, CheckForked
  <2> QED BY <2>1, <2>2, <2>3 DEF Tidy, Orderly
<1>3. ASSUME NEW t \in Threads, CheckCached(t) PROVE Tidy'
  <2>1. TypeOK' /\ Alone' /\ BirthsPast' /\ OneBirth' BY <1>3 DEF Tidy, Orderly, CheckCached
  <2>2. GlobalCurrent' /\ AcceptingCurrent' BY <1>3 DEF Tidy, Orderly, CheckCached
  <2>3. CachedCurrent' BY <1>3 DEF Tidy, Orderly, CheckCached
  <2> QED BY <2>1, <2>2, <2>3 DEF Tidy, Orderly
<1>4. ASSUME NEW t \in Threads, SwapForked(t) PROVE Tidy'
  <2>1. TypeOK' /\ Alone' /\ BirthsPast' /\ OneBirth' BY <1>4 DEF Tidy, Orderly, SwapForked
  <2>2. GlobalCurrent' /\ AcceptingCurrent' BY <1>4 DEF Tidy, Orderly, SwapForked
  <2>3. CachedCurrent' BY <1>4 DEF Tidy, Orderly, SwapForked
  <2> QED BY <2>1, <2>2, <2>3 DEF Tidy, Orderly
<1>5. ASSUME NEW t \in Threads, Reset(t) PROVE Tidy'
  <2>1. TypeOK' /\ Alone' /\ BirthsPast' /\ OneBirth' BY <1>5 DEF Tidy, Orderly, Reset
  <2>2. GlobalCurrent' /\ AcceptingCurrent' BY <1>5 DEF Tidy, Orderly, Reset
  <2>3. CachedCurrent' BY <1>5 DEF Tidy, Orderly, Reset
  <2> QED BY <2>1, <2>2, <2>3 DEF Tidy, Orderly
<1>6. ASSUME NEW t \in Threads, UseSlot(t) PROVE Tidy'
  <2>1. TypeOK' /\ Alone' /\ BirthsPast' /\ OneBirth' BY <1>6 DEF Tidy, Orderly, UseSlot
  <2>2. GlobalCurrent' /\ AcceptingCurrent' BY <1>6 DEF Tidy, Orderly, UseSlot
  <2>3. CachedCurrent' BY <1>6 DEF Tidy, Orderly, UseSlot
  <2> QED BY <2>1, <2>2, <2>3 DEF Tidy, Orderly
<1>7. ASSUME NEW t \in Threads, ShutdownClose(t) PROVE Tidy'
  <2>1. TypeOK' /\ Alone' /\ BirthsPast' /\ OneBirth' BY <1>7 DEF Tidy, Orderly, ShutdownClose
  <2>2. GlobalCurrent' /\ AcceptingCurrent' BY <1>7 DEF Tidy, Orderly, ShutdownClose
  <2>3. CachedCurrent' BY <1>7 DEF Tidy, Orderly, ShutdownClose
  <2> QED BY <2>1, <2>2, <2>3 DEF Tidy, Orderly
<1>8. ASSUME NEW t \in Threads, ShutdownTake(t) PROVE Tidy'
  <2>1. TypeOK' /\ Alone' /\ BirthsPast' /\ OneBirth' BY <1>8 DEF Tidy, Orderly, ShutdownTake
  <2>2. GlobalCurrent' /\ AcceptingCurrent' BY <1>8 DEF Tidy, Orderly, ShutdownTake
  <2>3. CachedCurrent' BY <1>8 DEF Tidy, Orderly, ShutdownTake
  <2> QED BY <2>1, <2>2, <2>3 DEF Tidy, Orderly
<1>9. ASSUME NEW t \in Threads, Spawn(t) PROVE Tidy'
  <2>0. ~Stale BY <1>9 DEF Tidy, Orderly, Spawn
  <2>1. TypeOK' /\ Alone' /\ BirthsPast' /\ OneBirth' BY <1>9, <2>0 DEF Tidy, Orderly, Spawn
  <2>2. GlobalCurrent' /\ AcceptingCurrent' BY <1>9, <2>0 DEF Tidy, Orderly, Spawn
  <2>3. CachedCurrent' BY <1>9, <2>0 DEF Tidy, Orderly, Spawn
  <2> QED BY <2>1, <2>2, <2>3 DEF Tidy, Orderly
<1>10. ASSUME NEW t \in Threads, ReadGlobal(t) PROVE Tidy'
  <2>1. CASE global # 0 BY <1>10, <2>1, FoundPreserves DEF ReadGlobal
  <2>2. CASE global = 0
    <3>1. UNCHANGED <<epoch, birth, accepting, forked, closed, global, threads, slot, cached>>
      BY <1>10, <2>2 DEF ReadGlobal
    <3>2. t \in threads /\ pc[t] = "read" /\ pc' = [pc EXCEPT ![t] = "start"]
      BY <1>10, <2>2 DEF ReadGlobal
    <3> QED BY <3>1, <3>2 DEF Tidy, Orderly
  <2> QED BY <2>1, <2>2
<1>11. ASSUME NEW t \in Threads, StartCollector(t) PROVE Tidy'
  <2>1. CASE ~closed /\ global # 0 BY <1>11, <2>1, FoundPreserves DEF StartCollector
  <2>2. CASE ~closed /\ global = 0 BY <1>11, <2>2, StartPreserves DEF StartCollector
  <2>3. CASE closed
    <3>1. UNCHANGED <<epoch, birth, accepting, forked, closed, global, threads, slot, cached>>
      BY <1>11, <2>3 DEF StartCollector
    <3>2. t \in threads /\ pc[t] = "start" /\ pc' = [pc EXCEPT ![t] = "idle"]
      BY <1>11, <2>3 DEF StartCollector
    <3> QED BY <3>1, <3>2 DEF Tidy, Orderly
  <2> QED BY <2>1, <2>2, <2>3
<1>12. CASE UNCHANGED forkVars BY <1>12 DEF forkVars, Tidy, Orderly
<1> QED BY <1>1, <1>2, <1>3, <1>4, <1>5, <1>6, <1>7, <1>8, <1>9, <1>10, <1>11, <1>12
        DEF ForkNext

\* Whatever threads a process starts, its collectors are its own or its ancestors'.
LEMMA TypeKept ==
  ASSUME TypeOK, BirthsPast, [ForkNext]_forkVars
  PROVE  TypeOK' /\ BirthsPast'
<1> USE DEF TypeOK, BirthsPast, Stands, Move, Found, Labels
<1>1. ASSUME NEW t \in Threads, CheckClosed(t) PROVE TypeOK' /\ BirthsPast'
  BY <1>1 DEF CheckClosed
<1>2. ASSUME NEW t \in Threads, CheckForked(t) PROVE TypeOK' /\ BirthsPast'
  BY <1>2 DEF CheckForked
<1>3. ASSUME NEW t \in Threads, CheckCached(t) PROVE TypeOK' /\ BirthsPast'
  BY <1>3 DEF CheckCached
<1>4. ASSUME NEW t \in Threads, SwapForked(t) PROVE TypeOK' /\ BirthsPast'
  BY <1>4 DEF SwapForked
<1>5. ASSUME NEW t \in Threads, Reset(t) PROVE TypeOK' /\ BirthsPast'
  BY <1>5 DEF Reset
<1>6. ASSUME NEW t \in Threads, UseSlot(t) PROVE TypeOK' /\ BirthsPast'
  BY <1>6 DEF UseSlot
<1>7. ASSUME NEW t \in Threads, ShutdownClose(t) PROVE TypeOK' /\ BirthsPast'
  BY <1>7 DEF ShutdownClose
<1>8. ASSUME NEW t \in Threads, ShutdownTake(t) PROVE TypeOK' /\ BirthsPast'
  BY <1>8 DEF ShutdownTake
<1>9. ASSUME NEW t \in Threads, Spawn(t) PROVE TypeOK' /\ BirthsPast'
  BY <1>9 DEF Spawn
<1>10. ASSUME NEW t \in Threads, Fork(t) PROVE TypeOK' /\ BirthsPast'
  BY <1>10, ForkTidies DEF Tidy
<1>11. ASSUME NEW t \in Threads, ReadGlobal(t) PROVE TypeOK' /\ BirthsPast'
  <2>1. CASE global # 0 BY <1>11, <2>1 DEF ReadGlobal
  <2>2. CASE global = 0 BY <1>11, <2>2 DEF ReadGlobal
  <2> QED BY <2>1, <2>2
<1>12. ASSUME NEW t \in Threads, StartCollector(t) PROVE TypeOK' /\ BirthsPast'
  <2>1. CASE closed BY <1>12, <2>1 DEF StartCollector
  <2>2. CASE ~closed /\ global # 0 BY <1>12, <2>2 DEF StartCollector
  <2>3. CASE ~closed /\ global = 0
    <3>1. Start(t) /\ UNCHANGED <<epoch, forked, closed, threads, slot, calls, early>>
      BY <1>12, <2>3 DEF StartCollector
    <3>2. PICK new \in Nat : new = Len(birth) + 1 OBVIOUS
    <3>3. /\ birth' \in Seq(Nat) /\ Len(birth') = new
          /\ DOMAIN birth = 1 .. Len(birth) /\ DOMAIN birth' = 1 .. new
          /\ birth'[new] = epoch /\ \A c \in DOMAIN birth : birth'[c] = birth[c]
      BY <3>1, <3>2 DEF Start
    <3>4. /\ global' = new /\ accepting' = accepting \cup {new}
          /\ cached' = [cached EXCEPT ![t] = new] /\ pc' = [pc EXCEPT ![t] = "record"]
      BY <3>1, <3>2 DEF Start
    <3>5. 0 .. Len(birth) \subseteq 0 .. Len(birth') /\ new \in 0 .. Len(birth')
      BY <3>2, <3>3
    <3>6. TypeOK' BY <3>1, <3>2, <3>3, <3>4, <3>5
    <3>7. \A c \in DOMAIN birth' : c = new \/ c \in DOMAIN birth BY <3>2, <3>3
    <3>8. BirthsPast'
      <4>1. epoch' = epoch /\ epoch \in Nat BY <3>1
      <4>2. \A c \in DOMAIN birth : birth[c] <= epoch OBVIOUS
      <4>3. \A c \in DOMAIN birth' : birth'[c] <= epoch BY <3>3, <3>7, <4>1, <4>2
      <4> QED BY <4>1, <4>3
    <3> QED BY <3>6, <3>8
  <2> QED BY <2>1, <2>2, <2>3
<1>13. CASE UNCHANGED forkVars BY <1>13 DEF forkVars
<1> QED BY <1>1, <1>2, <1>3, <1>4, <1>5, <1>6, <1>7, <1>8, <1>9, <1>10, <1>11, <1>12, <1>13
        DEF ForkNext

\* A fork makes its child orderly again; no other step does.
LEMMA EarlyStays ==
  ASSUME [ForkNext]_forkVars, \A t \in Threads : ~Fork(t), early
  PROVE  early'
BY DEF ForkNext, forkVars, CheckClosed, CheckForked, CheckCached, SwapForked, Reset, ReadGlobal,
       StartCollector, UseSlot, ShutdownClose, ShutdownTake, Spawn

LEMMA ForkInductive ==
  ASSUME ForkInvariant, [ForkNext]_forkVars
  PROVE  ForkInvariant'
<1>1. TypeOK' /\ BirthsPast' BY TypeKept DEF ForkInvariant
<1>2. ASSUME NEW t \in Threads, Fork(t) PROVE Orderly'
  BY <1>2, ForkTidies DEF ForkInvariant, Tidy
<1>3. ASSUME \A t \in Threads : ~Fork(t), ~early' PROVE Orderly'
  <2>1. ~early BY <1>3, EarlyStays
  <2>2. Tidy BY <2>1 DEF ForkInvariant, Tidy
  <2>3. Tidy' BY <1>3, <2>2, StepKeepsTidy
  <2> QED BY <2>3 DEF Tidy
<1> QED BY <1>1, <1>2, <1>3 DEF ForkInvariant

\* However many threads a parent had when it forked, and whatever its child starts
\* once FORKED is dealt with, a process starts at most one collector and its shutdown
\* is final.
THEOREM OneCollectorPerProcess == ForkSpec => []OneCollector
<1>1. ForkInvariant => OneCollector
  BY DEF ForkInvariant, Orderly, TypeOK, OneBirth, AcceptingCurrent, Current, OneCollector
<1>2. ForkInit => ForkInvariant BY ForkInitially DEF Tidy, ForkInvariant
<1> QED BY <1>1, <1>2, ForkInductive, PTL DEF ForkSpec

\* In such a process a record never goes to the parent's collector, nor through a slot
\* registered there.
THEOREM RecordsReachOwnCollector == ForkSpec => []RecordsDrained
<1>1. ForkInvariant => RecordsDrained
  <2> SUFFICES ASSUME ForkInvariant, ~early, NEW t \in threads, pc[t] = "record"
               PROVE  birth[cached[t]] = epoch /\ slot[t] \in {0, cached[t]}
    BY DEF RecordsDrained
  <2>1. Tidy BY DEF ForkInvariant, Tidy
  <2>2. ~Stale BY <2>1 DEF Tidy, Orderly, Alone, CachedCurrent, Stale
  <2>3. Current(cached[t]) BY <2>1, <2>2 DEF Tidy, Orderly, CachedCurrent, Stale
  <2>4. slot[t] = 0 \/ Current(slot[t]) BY <2>1, <2>2 DEF Tidy, Orderly, CachedCurrent
  <2> QED BY <2>1, <2>3, <2>4 DEF Tidy, Orderly, OneBirth, Current
<1>2. ForkInit => ForkInvariant BY ForkInitially DEF Tidy, ForkInvariant
<1> QED BY <1>1, <1>2, ForkInductive, PTL DEF ForkSpec
============================================================================
