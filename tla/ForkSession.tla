---------------------------- MODULE ForkSession ----------------------------
(***************************************************************************)
(* The process-wide collector of collector-core/src/session.rs across      *)
(* fork: collector(), initialize_collector(), shutdown() and atfork_child. *)
(* The model follows one process and, at each fork, its child: only the    *)
(* forking thread survives, with its thread-locals, and every collector    *)
(* made before the fork has lost its writer thread.  Any process may start *)
(* threads at any time.  The session has no allocation channel, and        *)
(* MPERF_SESSION_DIR is set.                                               *)
(***************************************************************************)
EXTENDS Integers, Sequences

CONSTANTS
  Threads,      \* threads the process may have
  MaxForks,     \* bound: forks followed
  MaxCalls      \* bound: calls of collector()

ASSUME ForkAssumption ==
  /\ Threads # {}
  /\ MaxForks \in Nat /\ MaxCalls \in Nat

VARIABLES
  epoch,      \* forks so far
  birth,      \* the collectors started so far: the epoch of each
  accepting,  \* collectors that accept records
  forked,     \* FORKED
  closed,     \* CLOSED
  global,     \* COLLECTOR, 0 for None
  threads,    \* threads of the process
  cached,     \* CACHED_COLLECTOR of each thread, 0 for None
  slot,       \* SLOT of each thread: the collector it is registered with, 0 for None
  pc,         \* where each thread is
  calls,      \* calls of collector() so far
  early       \* history: this process started a thread while FORKED was set

forkVars == <<epoch, birth, accepting, forked, closed, global, threads, cached, slot,
              pc, calls, early>>

Stands(t, label) == t \in threads /\ pc[t] = label

Move(t, label) == pc' = [pc EXCEPT ![t] = label]

----------------------------------------------------------------------------
(* collector() *)

CheckClosed(t) ==
  /\ Stands(t, "idle")
  /\ calls < MaxCalls
  /\ calls' = calls + 1
  /\ Move(t, IF closed THEN "idle" ELSE "forked")
  /\ UNCHANGED <<epoch, birth, accepting, forked, closed, global, threads, cached,
                 slot, early>>

\* Mutant of CheckForked: the cached collector survives the fork.
CheckForkedNothing(t) ==
  /\ Stands(t, "forked")
  /\ Move(t, "cached")
  /\ UNCHANGED <<epoch, birth, accepting, forked, closed, global, threads, cached, slot,
                 calls, early>>

\* A thread that sees FORKED forgets its cached collector.
CheckForked(t) ==
  /\ Stands(t, "forked")
  /\ cached' = IF forked THEN [cached EXCEPT ![t] = 0] ELSE cached
  /\ Move(t, "cached")
  /\ UNCHANGED <<epoch, birth, accepting, forked, closed, global, threads, slot,
                 calls, early>>

CheckCached(t) ==
  /\ Stands(t, "cached")
  /\ Move(t, CASE cached[t] = 0 -> "swap"
               [] cached[t] # 0 /\ cached[t] \in accepting -> "record"
               [] OTHER -> "idle")
  /\ UNCHANGED <<epoch, birth, accepting, forked, closed, global, threads, cached,
                 slot, calls, early>>

----------------------------------------------------------------------------
(* initialize_collector() *)

\* The thread that takes FORKED resets the globals and its own slot.
SwapForked(t) ==
  /\ Stands(t, "swap")
  /\ forked' = FALSE
  /\ Move(t, IF forked THEN "reset" ELSE "read")
  /\ UNCHANGED <<epoch, birth, accepting, closed, global, threads, cached, slot,
                 calls, early>>

Reset(t) ==
  /\ Stands(t, "reset")
  /\ global' = 0
  /\ slot' = [slot EXCEPT ![t] = 0]
  /\ Move(t, "read")
  /\ UNCHANGED <<epoch, birth, accepting, forked, closed, threads, cached, calls, early>>

Found(t, c) == cached' = [cached EXCEPT ![t] = c] /\ Move(t, "record")

ReadGlobal(t) ==
  /\ Stands(t, "read")
  /\ IF global # 0 THEN Found(t, global) ELSE Move(t, "start") /\ UNCHANGED cached
  /\ UNCHANGED <<epoch, birth, accepting, forked, closed, global, threads, slot,
                 calls, early>>

\* Collector::start, published in COLLECTOR.
Start(t) ==
  /\ birth' = Append(birth, epoch)
  /\ accepting' = accepting \cup {Len(birth) + 1}
  /\ global' = Len(birth) + 1
  /\ Found(t, Len(birth) + 1)

\* Mutant of StartCollector: a collector started meanwhile is replaced.
StartAgain(t) ==
  /\ Stands(t, "start")
  /\ IF closed
       THEN Move(t, "idle") /\ UNCHANGED <<birth, accepting, global, cached>>
       ELSE Start(t)
  /\ UNCHANGED <<epoch, forked, closed, threads, slot, calls, early>>

\* Under the write lock: closed meanwhile, started meanwhile, or start it.
StartCollector(t) ==
  /\ Stands(t, "start")
  /\ CASE closed -> Move(t, "idle") /\ UNCHANGED <<birth, accepting, global, cached>>
       [] ~closed /\ global # 0 ->
            Found(t, global) /\ UNCHANGED <<birth, accepting, global>>
       [] OTHER -> Start(t)
  /\ UNCHANGED <<epoch, forked, closed, threads, slot, calls, early>>

\* record: thread_slot registers a missing slot with this collector.
UseSlot(t) ==
  /\ Stands(t, "record")
  /\ slot' = IF slot[t] = 0 THEN [slot EXCEPT ![t] = cached[t]] ELSE slot
  /\ Move(t, "idle")
  /\ UNCHANGED <<epoch, birth, accepting, forked, closed, global, threads, cached,
                 calls, early>>

----------------------------------------------------------------------------
(* shutdown(), fork and thread creation *)

\* A child that never touched the collector has nothing to shut down.
ShutdownClose(t) ==
  /\ Stands(t, "idle")
  /\ ~forked
  /\ ~closed
  /\ closed' = TRUE
  /\ Move(t, "take")
  /\ UNCHANGED <<epoch, birth, accepting, forked, global, threads, cached, slot, calls, early>>

\* The collector is taken out of COLLECTOR and finished.
ShutdownTake(t) ==
  /\ Stands(t, "take")
  /\ accepting' = accepting \ {global}
  /\ global' = 0
  /\ Move(t, "idle")
  /\ UNCHANGED <<epoch, birth, forked, closed, threads, cached, slot, calls, early>>

\* atfork_child was installed when the first collector was started.
Fork(t) ==
  /\ Stands(t, "idle")
  /\ epoch < MaxForks
  /\ epoch' = epoch + 1
  /\ forked' = (forked \/ birth # <<>>)
  /\ threads' = {t}
  /\ early' = FALSE
  /\ UNCHANGED <<birth, accepting, closed, global, cached, slot, pc, calls>>

\* A thread outside the collector starts another, with empty thread-locals.
Spawn(t) ==
  /\ t \notin threads
  /\ \E u \in threads : pc[u] = "idle"
  /\ threads' = threads \cup {t}
  /\ cached' = [cached EXCEPT ![t] = 0]
  /\ slot' = [slot EXCEPT ![t] = 0]
  /\ Move(t, "idle")
  /\ early' = (early \/ forked)
  /\ UNCHANGED <<epoch, birth, accepting, forked, closed, global, calls>>

----------------------------------------------------------------------------
ForkInit ==
  /\ epoch = 0 /\ birth = <<>> /\ accepting = {}
  /\ forked = FALSE /\ closed = FALSE /\ global = 0
  /\ \E t \in Threads : threads = {t}
  /\ cached = [t \in Threads |-> 0] /\ slot = [t \in Threads |-> 0]
  /\ pc = [t \in Threads |-> "idle"] /\ calls = 0 /\ early = FALSE

ForkNext ==
  \E t \in Threads :
    \/ CheckClosed(t) \/ CheckForked(t) \/ CheckCached(t)
    \/ SwapForked(t) \/ Reset(t) \/ ReadGlobal(t) \/ StartCollector(t) \/ UseSlot(t)
    \/ ShutdownClose(t) \/ ShutdownTake(t) \/ Fork(t) \/ Spawn(t)

ForkSpec == ForkInit /\ [][ForkNext]_forkVars

----------------------------------------------------------------------------
(* Properties *)

\* session.rs:130-131: the collector is "reinitialized transparently in fork
\* children".  A record goes to a collector of this process, whose writer thread
\* exists.  It fails in a child that starts a thread before the forking thread
\* used the collector again: FORKED is taken by whoever comes first, and the others
\* keep or find the parent's collector.
Reinitialized ==
  \A t \in threads : pc[t] = "record" => birth[cached[t]] = epoch

\* In every other process, the threads started before and after a fork included, a
\* record goes to a collector of this process, through a slot that collector will
\* drain.
RecordsDrained ==
  ~early =>
    \A t \in threads :
      pc[t] = "record" =>
        /\ birth[cached[t]] = epoch
        /\ slot[t] \in {0, cached[t]}

\* A process starts at most one collector, since two would write the same
\* segments, and after shutdown none of it accepts records again.  Not so in a child
\* that starts a thread while FORKED is set: if another thread of its parent was then
\* between the reset and the start of a collector, COLLECTOR is empty, the new
\* thread starts one, and the reset by the thread that took FORKED makes room for
\* a second.
OneCollector ==
  ~early =>
    /\ \A c, d \in DOMAIN birth : birth[c] = epoch /\ birth[d] = epoch => c = d
    /\ closed /\ (\A t \in threads : pc[t] # "take") => \A c \in accepting : birth[c] # epoch

============================================================================
