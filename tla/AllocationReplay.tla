-------------------------- MODULE AllocationReplay --------------------------
(***************************************************************************)
(* Allocation lifetimes: the libc shim (shims/libc/src/lib.rs) records an  *)
(* ownership boundary around each allocator call, record_allocation        *)
(* numbers and then timestamps it, and postprocessing                      *)
(* (mperf/src/postprocess/allocations.rs) sorts the boundaries and replays *)
(* them into generations.  Threads interleave between every two steps, the *)
(* allocator reuses an address as soon as it is free, and shutdown may cut *)
(* the recording off anywhere.  No boundary is dropped or paused: the      *)
(* capture is otherwise incomplete (AllocationCapture).                    *)
(***************************************************************************)
EXTENDS Integers, Sequences, FiniteSets

CONSTANTS
  Threads,    \* application threads
  MaxAddr,    \* addresses 1 .. MaxAddr; 0 is the null pointer
  MaxOps,     \* bound: allocator calls
  MaxClock    \* bound: distinct values of CLOCK_MONOTONIC

ASSUME ReplayAssumption ==
  MaxAddr \in Nat \ {0} /\ MaxOps \in Nat /\ MaxClock \in Nat

VARIABLES
  heap,       \* the allocator: generation living at each address, 0 if free
  app,        \* pointers the application owns and may free or reallocate
  now,        \* CLOCK_MONOTONIC
  accepting,  \* Collector.accepting
  seq,        \* Collector.allocation_sequence
  pc, call,   \* per thread: where it is in an interposed call, and its arguments
  ops,        \* calls made so far
  log,        \* recorded boundaries
  life        \* history: the generations as they really were

vars == <<heap, app, now, accepting, seq, pc, call, ops, log, life>>

Addrs == 1 .. MaxAddr

FreeAddrs == {a \in Addrs : heap[a] = 0}

NoCall == [op |-> "none", old |-> 0, addr |-> 0, id |-> 0, retires |-> FALSE,
           seq |-> 0, ts |-> 0]

Call(op, old, addr, id, retires) ==
  [NoCall EXCEPT !.op = op, !.old = old, !.addr = addr, !.id = id, !.retires = retires]

Goto(t, label) == pc' = [pc EXCEPT ![t] = label]

Leave(t) == Goto(t, "idle") /\ call' = [call EXCEPT ![t] = NoCall]

Enter(t, c) ==
  /\ pc[t] = "idle"
  /\ ops < MaxOps
  /\ ops' = ops + 1
  /\ call' = [call EXCEPT ![t] = c]
  /\ Goto(t, "number")

----------------------------------------------------------------------------
(* Interposed calls *)

\* malloc, calloc and their kin call the allocator first and record afterwards.
Malloc(t, a) ==
  /\ Enter(t, Call("Allocated", 0, a, 0, FALSE))
  /\ heap' = [heap EXCEPT ![a] = Len(life) + 1]
  /\ life' = Append(life, [addr |-> a, born |-> 0, died |-> 0])
  /\ UNCHANGED <<app, now, accepting, seq, log>>

\* free records before it calls the allocator.
Free(t, a) ==
  /\ Enter(t, Call("Freed", a, 0, 0, FALSE))
  /\ app' = app \ {a}
  /\ UNCHANGED <<heap, now, accepting, seq, log, life>>

\* realloc records its begin before and its outcome after the allocator.
Realloc(t, a) ==
  /\ Enter(t, Call("ReallocBegin", a, 0, 0, FALSE))
  /\ app' = app \ {a}
  /\ UNCHANGED <<heap, now, accepting, seq, log, life>>

\* Where a call continues once its boundary was recorded or refused.
After(op) ==
  CASE op = "Freed" -> "free" [] op = "ReallocBegin" -> "realloc" [] OTHER -> "return"

\* The generation a boundary belongs to, told the number of its boundary.
Numbered(c, n) ==
  CASE c.addr # 0 -> [life EXCEPT ![heap[c.addr]].born = n]
    [] c.op = "Freed" -> [life EXCEPT ![heap[c.old]].died = n]
    [] OTHER -> life

\* record_allocation: a collector that no longer accepts returns 0 ...
Refused(t) ==
  /\ pc[t] = "number"
  /\ ~accepting
  /\ Goto(t, After(call[t].op))
  /\ UNCHANGED <<heap, app, now, accepting, seq, call, ops, log, life>>

\* ... and otherwise takes the next sequence number first
Number(t) ==
  /\ pc[t] = "number"
  /\ accepting
  /\ seq' = seq + 1
  /\ call' = [call EXCEPT ![t].seq = seq + 1]
  /\ life' = Numbered(call[t], seq + 1)
  /\ Goto(t, "stamp")
  /\ UNCHANGED <<heap, app, now, accepting, ops, log>>

\* and reads the clock second.
Stamp(t) ==
  /\ pc[t] = "stamp"
  /\ log' = log \cup {[call[t] EXCEPT !.ts = now]}
  /\ Goto(t, After(call[t].op))
  /\ UNCHANGED <<heap, app, now, accepting, seq, call, ops, life>>

RealFree(t) ==
  /\ pc[t] = "free"
  /\ heap' = [heap EXCEPT ![call[t].old] = 0]
  /\ Leave(t)
  /\ UNCHANGED <<app, now, accepting, seq, ops, log, life>>

\* What the allocator may answer: a new or the same block, failure, or, for size
\* 0 of a block, NULL after freeing it.
Answers(old) ==
  [addr : FreeAddrs \cup ({old} \ {0}), retires : {old # 0}]
  \cup [addr : {0}, retires : {FALSE, old # 0}]

\* Mutant of RealRealloc: a failed reallocation records no outcome.
RealReallocSuccessOnly(t, answer) ==
  LET c == call[t]
      new == IF answer.addr = 0 THEN <<>>
             ELSE <<[addr |-> answer.addr, born |-> 0, died |-> 0]>> IN
  /\ pc[t] = "realloc"
  /\ heap' = [a \in Addrs |->
                CASE a = answer.addr -> Len(life) + 1
                  [] a = c.old /\ a # answer.addr /\ answer.retires -> 0
                  [] OTHER -> heap[a]]
  /\ life' = (IF answer.retires THEN [life EXCEPT ![heap[c.old]].died = c.seq] ELSE life)
             \o new
  /\ call' = [call EXCEPT ![t] =
                Call("ReallocEnd", c.old, answer.addr, c.seq, answer.retires)]
  /\ Goto(t, IF c.seq # 0 /\ answer.addr # 0 THEN "number" ELSE "return")
  /\ UNCHANGED <<app, now, accepting, seq, ops, log>>

\* The allocator's realloc, then the ReallocEnd boundary if the begin was recorded.
RealRealloc(t, answer) ==
  LET c == call[t]
      new == IF answer.addr = 0 THEN <<>>
             ELSE <<[addr |-> answer.addr, born |-> 0, died |-> 0]>> IN
  /\ pc[t] = "realloc"
  /\ heap' = [a \in Addrs |->
                CASE a = answer.addr -> Len(life) + 1
                  [] a = c.old /\ a # answer.addr /\ answer.retires -> 0
                  [] OTHER -> heap[a]]
  /\ life' = (IF answer.retires THEN [life EXCEPT ![heap[c.old]].died = c.seq] ELSE life)
             \o new
  /\ call' = [call EXCEPT ![t] =
                Call("ReallocEnd", c.old, answer.addr, c.seq, answer.retires)]
  /\ Goto(t, IF c.seq # 0 THEN "number" ELSE "return")
  /\ UNCHANGED <<app, now, accepting, seq, ops, log>>

\* The application gets the new pointer, or keeps the old one if realloc failed.
Return(t) ==
  LET c == call[t] IN
  /\ pc[t] = "return"
  /\ app' = app \cup ((IF c.retires \/ c.addr # 0 THEN {c.addr} ELSE {c.old}) \ {0})
  /\ Leave(t)
  /\ UNCHANGED <<heap, now, accepting, seq, ops, log, life>>

Tick ==
  /\ now < MaxClock
  /\ now' = now + 1
  /\ UNCHANGED <<heap, app, accepting, seq, pc, call, ops, log, life>>

\* finish: no boundary is recorded from here on.
Shutdown ==
  /\ accepting
  /\ accepting' = FALSE
  /\ UNCHANGED <<heap, app, now, seq, pc, call, ops, log, life>>

----------------------------------------------------------------------------
(* Replay: process in mperf/src/postprocess/allocations.rs *)

\* Mutant of Before: ties of the timestamp put the younger boundary first.
BeforeYounger(a, b) == a.ts < b.ts \/ (a.ts = b.ts /\ a.seq > b.seq)

\* ORDER BY timestamp_ns, sequence
Before(a, b) == a.ts < b.ts \/ (a.ts = b.ts /\ a.seq < b.seq)

\* The i-th boundary is the one that i - 1 others come before.
Sorted ==
  [i \in 1 .. Cardinality(log) |->
     CHOOSE r \in log : Cardinality({q \in log : Before(q, r)}) = i - 1]

Ends(begin) == {e \in log : e.op = "ReallocEnd" /\ e.id = begin.seq}

Retires(r) == r.op = "Freed" \/ (r.op = "ReallocBegin" /\ \E e \in Ends(r) : e.retires)

Introduces(r) == r.op \in {"Allocated", "ReallocEnd"} /\ r.addr # 0

Replay0 == [live |-> [a \in Addrs |-> 0], lifetimes |-> <<>>, conflicts |-> 0]

\* One boundary: the generation at the old address ends, one at the new begins.
ReplayStep(state, r) ==
  LET ends == Retires(r) /\ r.old # 0 /\ state.live[r.old] # 0
      kept == IF ends
        THEN [state EXCEPT !.live[r.old] = 0,
                           !.lifetimes[state.live[r.old]].died = r.seq]
        ELSE state IN
  IF Introduces(r)
    THEN [live |-> [kept.live EXCEPT ![r.addr] = Len(kept.lifetimes) + 1],
          lifetimes |-> Append(kept.lifetimes,
                               [addr |-> r.addr, born |-> r.seq, died |-> 0]),
          conflicts |-> kept.conflicts + (IF kept.live[r.addr] # 0 THEN 1 ELSE 0)]
    ELSE kept

Replay ==
  LET rows == Sorted
      after[i \in 0 .. Len(rows)] ==
        IF i = 0 THEN Replay0 ELSE ReplayStep(after[i - 1], rows[i])
  IN after[Len(rows)]

\* Reallocations whose outcome was not recorded.
Uncertain == {r \in log : r.op = "ReallocBegin" /\ Ends(r) = {}}

----------------------------------------------------------------------------
Init ==
  /\ heap = [a \in Addrs |-> 0] /\ app = {} /\ now = 0 /\ accepting = TRUE /\ seq = 0
  /\ pc = [t \in Threads |-> "idle"] /\ call = [t \in Threads |-> NoCall] /\ ops = 0
  /\ log = {} /\ life = <<>>

Next ==
  \/ \E t \in Threads :
       \/ \E a \in FreeAddrs : Malloc(t, a)
       \/ \E a \in app : Free(t, a)
       \/ \E a \in app \cup {0} : Realloc(t, a)
       \/ Refused(t) \/ Number(t) \/ Stamp(t) \/ RealFree(t) \/ Return(t)
       \/ \E answer \in Answers(call[t].old) : RealRealloc(t, answer)
  \/ Tick
  \/ Shutdown

Spec == Init /\ [][Next]_vars

----------------------------------------------------------------------------
(* Properties *)

Settled == \A t \in Threads : pc[t] = "idle"

SeqRange(s) == {s[i] : i \in DOMAIN s}

\* Replaying the recorded boundaries in timestamp order reconstructs exactly the
\* generations that existed, each with its true end, however calls overlapped,
\* addresses were reused and timestamps tied; no conflict is reported.  It needs
\* every recorded realloc to have a recorded outcome.
ReplayExact ==
  Settled /\ Uncertain = {} =>
    /\ SeqRange(Replay.lifetimes) = {g \in SeqRange(life) : g.born # 0}
    /\ Replay.conflicts = 0

\* A realloc's outcome is missing only if the shutdown came during the call.
UncertainOnlyAtShutdown == Settled /\ accepting => Uncertain = {}
============================================================================
