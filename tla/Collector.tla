----------------------------- MODULE Collector -----------------------------
(***************************************************************************)
(* The in-process trace collector (collector-core/src/session.rs and       *)
(* buffer.rs).  Application threads append records to the buffer of their  *)
(* own slot; a bounded pool of buffers circulates between the slots, the   *)
(* queue of filled buffers and the writer thread; shutdown stops the       *)
(* producers, drains the slots and joins the writer.                       *)
(*                                                                         *)
(* A record is one unit of a buffer.  The atomics and mutexes are accessed *)
(* one per step.  Holding a slot's mutex is a fact about its thread's pc   *)
(* (Busy); the queue's mutex protects single steps only.                   *)
(***************************************************************************)
EXTENDS Integers, Sequences, FiniteSets, Sums

CONSTANTS
  Threads,      \* application threads
  Late,         \* the collector-owned late_slot
  Kinds,        \* calls the application makes: "event", "alloc"
  MaxCalls,     \* bound: record and record_allocation calls
  Pool,         \* POOL_BUFFERS
  BufCap,       \* records a buffer holds (BUFFER_BYTES)
  RowBatch,     \* rows that trigger a flush to the segment writer (8192)
  Chunk,        \* allocation records per packet (512)
  ChanCap,      \* packets the allocation channel holds
  Commands,     \* control-plane commands the profiler may send
  MaxCommands   \* bound: commands sent

ASSUME ThreadsAssumption == IsFiniteSet(Threads) /\ Late \notin Threads
ASSUME KindsAssumption   == Kinds \subseteq {"event", "alloc"}
ASSUME PoolAssumption    == Pool \in Nat
ASSUME BufCapAssumption  == BufCap \in Nat /\ BufCap >= 2
ASSUME WriterAssumption  ==
  /\ RowBatch \in Nat /\ Chunk \in Nat \ {0} /\ ChanCap \in Nat
  /\ Commands \subseteq {"Pause", "Resume", "Flush"}
ASSUME BoundsAssumption  == MaxCalls \in Nat /\ MaxCommands \in Nat

VARIABLES
  \* the Collector struct
  accepting, paused, producers, totalDropped,
  slots,         \* slots: the registered slots, in order of registration
  walker,        \* who iterates over slots with its mutex held
  buffer,        \* per slot: its buffer, or None
  slotDropped,   \* per slot: drops not yet reported by a Loss row
  allocSeq, allocDropped, allocPaused,
  \* the BufferQueue
  pool,          \* empty buffers
  full,          \* filled buffers
  closing,
  \* application threads
  pc, kind,      \* where a thread is in record or record_allocation
  num,           \* the sequence its allocation was given
  tls,           \* whether the thread-local SLOT still exists
  calls,         \* calls made so far
  \* the writer thread
  wpc, cur,      \* its buffer in hand
  why,           \* what flush_slots was called for
  wi,            \* next slot of flush_slots
  batch,         \* allocation records still to send
  unflushed,     \* rows parsed and not yet given to the segment writer
  batchSeq, chanLost,
  commands,      \* commands received so far
  chan,          \* the allocation channel: packets sent and not received
  chanDropped,   \* the allocation channel: packets refused
  \* shutdown
  fpc, fi,
  \* history
  parsed,        \* every record the writer parsed, in order
  appended       \* per slot: records appended to it

flags     == <<accepting, paused>>
counters  == <<allocSeq, allocDropped, allocPaused>>
queue     == <<pool, full, closing>>
threads   == <<pc, kind, num, tls, calls>>
sending   == <<batchSeq, chanLost, chan, chanDropped>>
writer    == <<wpc, cur, why, wi, batch, unflushed, commands, sending>>
finisher  == <<fpc, fi>>
vars == <<flags, producers, totalDropped, slots, walker, buffer, slotDropped,
          counters, queue, threads, writer, finisher, parsed, appended>>

SlotIds == Threads \cup {Late}

\* A record in a buffer: the slot it was appended to, its number there, and the
\* drop count of a Loss row or the sequence of an allocation.
Entry == [kind : {"event", "alloc", "loss"}, slot : SlotIds, n : Nat, value : Nat]

None == [held |-> FALSE, data |-> <<>>]

Held(data) == [held |-> TRUE, data |-> data]

\* Mutant of Need: a buffer that is not over its capacity yet is taken to have room.
NeedNone(k) == 0

\* record reserves room for a Loss row besides the event.
Need(k) == IF k = "event" THEN 2 ELSE 1

HasRoom(data, k) == Len(data) + Need(k) <= BufCap

\* The slot a call of t uses: late_slot once the thread-local one is destroyed.
SlotOf(t) == IF tls[t] THEN t ELSE Late

Registered == {slots[i] : i \in 1 .. Len(slots)}

Holding == {"submit", "acquire", "append"}

Busy(s) == \E t \in Threads : pc[t] \in Holding /\ SlotOf(t) = s

----------------------------------------------------------------------------
(* Application threads: record and record_allocation *)

Step(t, from, to) == pc[t] = from /\ pc' = [pc EXCEPT ![t] = to]

\* collector() hands out the cached collector while it is accepting.
Begin(t, k) ==
  /\ accepting
  /\ calls < MaxCalls
  /\ Step(t, "idle", "enter")
  /\ kind' = [kind EXCEPT ![t] = k]
  /\ calls' = calls + 1
  /\ UNCHANGED <<flags, producers, totalDropped, slots, walker, buffer, slotDropped,
                 counters, queue, num, tls, writer, finisher, parsed, appended>>

\* ProducerGuard::enter.
Enter(t) ==
  /\ Step(t, "enter", "check")
  /\ producers' = producers + 1
  /\ UNCHANGED <<flags, totalDropped, slots, walker, buffer, slotDropped, counters,
                 queue, kind, num, tls, calls, writer, finisher, parsed, appended>>

\* An allocation is numbered before the pause flag is read.
Admitted(t) == IF kind[t] = "alloc" THEN "number" ELSE "pause"

\* Mutant of CheckAccepting: the early return forgets the producer guard.
CheckAcceptingLeaks(t) ==
  /\ Step(t, "check", IF accepting THEN Admitted(t) ELSE "idle")
  /\ UNCHANGED <<flags, producers, totalDropped, slots, walker, buffer, slotDropped,
                 counters, queue, kind, num, tls, calls, writer, finisher, parsed, appended>>

CheckAccepting(t) ==
  /\ Step(t, "check", IF accepting THEN Admitted(t) ELSE "leave")
  /\ UNCHANGED <<flags, producers, totalDropped, slots, walker, buffer, slotDropped,
                 counters, queue, kind, num, tls, calls, writer, finisher, parsed, appended>>

Number(t) ==
  /\ Step(t, "number", "pause")
  /\ allocSeq' = allocSeq + 1
  /\ num' = [num EXCEPT ![t] = allocSeq + 1]
  /\ UNCHANGED <<flags, producers, totalDropped, slots, walker, buffer, slotDropped,
                 allocDropped, allocPaused, queue, kind, tls, calls, writer, finisher,
                 parsed, appended>>

\* Mutant of CheckPaused: a paused allocation is not counted.
CheckPausedSilently(t) ==
  /\ Step(t, "pause", IF paused THEN "leave" ELSE "slot")
  /\ UNCHANGED <<flags, producers, totalDropped, slots, walker, buffer, slotDropped,
                 counters, queue, kind, num, tls, calls, writer, finisher, parsed, appended>>

CheckPaused(t) ==
  /\ Step(t, "pause", IF paused THEN "leave" ELSE "slot")
  /\ allocPaused' = IF paused /\ kind[t] = "alloc" THEN allocPaused + 1 ELSE allocPaused
  /\ UNCHANGED <<flags, producers, totalDropped, slots, walker, buffer, slotDropped,
                 allocSeq, allocDropped, queue, kind, num, tls, calls, writer, finisher,
                 parsed, appended>>

\* thread_slot registers the slot of a thread on its first call.
ThreadSlot(t) ==
  /\ Step(t, "slot", "lock")
  /\ IF SlotOf(t) \in Registered
       THEN UNCHANGED slots
       ELSE walker = "none" /\ slots' = Append(slots, t)
  /\ UNCHANGED <<flags, producers, totalDropped, walker, buffer, slotDropped, counters,
                 queue, kind, num, tls, calls, writer, finisher, parsed, appended>>

LockSlot(t) ==
  /\ ~Busy(SlotOf(t))
  /\ Step(t, "lock", "submit")
  /\ UNCHANGED <<flags, producers, totalDropped, slots, walker, buffer, slotDropped,
                 counters, queue, kind, num, tls, calls, writer, finisher, parsed, appended>>

\* Mutant of SubmitSlot: the buffer is pushed in front of the ones that wait.
SubmitSlotFirst(s) ==
  /\ full' = <<buffer[s].data>> \o full
  /\ buffer' = [buffer EXCEPT ![s] = None]

SubmitSlot(s) ==
  /\ full' = Append(full, buffer[s].data)
  /\ buffer' = [buffer EXCEPT ![s] = None]

\* A buffer without room is submitted; the slot is then without a buffer.
SubmitFull(t) ==
  LET s == SlotOf(t)
      fits == buffer[s].held /\ HasRoom(buffer[s].data, kind[t]) IN
  /\ Step(t, "submit", IF fits THEN "append" ELSE "acquire")
  /\ IF ~fits /\ buffer[s].held
       THEN SubmitSlot(s)
       ELSE UNCHANGED <<full, buffer>>
  /\ UNCHANGED <<flags, producers, totalDropped, slots, walker, slotDropped, counters,
                 pool, closing, kind, num, tls, calls, writer, finisher, parsed, appended>>

\* Mutant of Acquire: the pool is not checked for exhaustion.
AcquireAlways(t) ==
  /\ Step(t, "acquire", "append")
  /\ pool' = pool - 1
  /\ buffer' = [buffer EXCEPT ![SlotOf(t)] = Held(<<>>)]
  /\ UNCHANGED <<flags, producers, totalDropped, slots, walker, slotDropped, counters,
                 full, closing, kind, num, tls, calls, writer, finisher, parsed, appended>>

\* acquire never waits: an empty pool leaves the slot without a buffer.
Acquire(t) ==
  /\ Step(t, "acquire", "append")
  /\ IF pool > 0
       THEN /\ pool' = pool - 1
            /\ buffer' = [buffer EXCEPT ![SlotOf(t)] = Held(<<>>)]
       ELSE UNCHANGED <<pool, buffer>>
  /\ UNCHANGED <<flags, producers, totalDropped, slots, walker, slotDropped, counters,
                 full, closing, kind, num, tls, calls, writer, finisher, parsed, appended>>

\* The Loss row that reports the slot's drops goes ahead of the event.
LossRow(s) ==
  IF slotDropped[s] = 0 THEN <<>>
  ELSE <<[kind |-> "loss", slot |-> s, n |-> 0, value |-> slotDropped[s]]>>

Row(t, s) ==
  <<[kind |-> kind[t], slot |-> s, n |-> appended[s] + 1,
     value |-> IF kind[t] = "alloc" THEN num[t] ELSE 0]>>

\* Mutant of AppendRecord: the drop counter is read without being reset.
AppendRecordNoSwap(t) ==
  LET s == SlotOf(t) IN
  /\ Step(t, "append", "leave")
  /\ buffer[s].held
  /\ buffer' = [buffer EXCEPT ![s].data =
                  @ \o (IF kind[t] = "event" THEN LossRow(s) ELSE <<>>) \o Row(t, s)]
  /\ appended' = [appended EXCEPT ![s] = @ + 1]
  /\ UNCHANGED <<flags, producers, totalDropped, slots, walker, slotDropped, counters,
                 queue, kind, num, tls, calls, writer, finisher, parsed>>

AppendRecord(t) ==
  LET s == SlotOf(t) IN
  /\ Step(t, "append", "leave")
  /\ buffer[s].held
  /\ buffer' = [buffer EXCEPT ![s].data =
                  @ \o (IF kind[t] = "event" THEN LossRow(s) ELSE <<>>) \o Row(t, s)]
  /\ slotDropped' = IF kind[t] = "event" THEN [slotDropped EXCEPT ![s] = 0]
                    ELSE slotDropped
  /\ appended' = [appended EXCEPT ![s] = @ + 1]
  /\ UNCHANGED <<flags, producers, totalDropped, slots, walker, counters, queue, kind,
                 num, tls, calls, writer, finisher, parsed>>

DropRecord(t) ==
  LET s == SlotOf(t) IN
  /\ Step(t, "append", "leave")
  /\ ~buffer[s].held
  /\ IF kind[t] = "event"
       THEN /\ slotDropped' = [slotDropped EXCEPT ![s] = @ + 1]
            /\ totalDropped' = totalDropped + 1
            /\ UNCHANGED allocDropped
       ELSE /\ allocDropped' = allocDropped + 1
            /\ UNCHANGED <<slotDropped, totalDropped>>
  /\ UNCHANGED <<flags, producers, slots, walker, buffer, allocSeq, allocPaused, queue,
                 kind, num, tls, calls, writer, finisher, parsed, appended>>

\* The producer guard is dropped last, after the slot's mutex.
Leave(t) ==
  /\ Step(t, "leave", "idle")
  /\ producers' = producers - 1
  /\ UNCHANGED <<flags, totalDropped, slots, walker, buffer, slotDropped, counters,
                 queue, kind, num, tls, calls, writer, finisher, parsed, appended>>

\* A thread's TLS destructors have run; calls made from later destructors find
\* no SLOT.  The slot itself stays registered.
Teardown(t) ==
  /\ pc[t] = "idle"
  /\ tls[t]
  /\ tls' = [tls EXCEPT ![t] = FALSE]
  /\ UNCHANGED <<flags, producers, totalDropped, slots, walker, buffer, slotDropped,
                 counters, queue, pc, kind, num, calls, writer, finisher, parsed, appended>>

ThreadStep(t) ==
  \/ Enter(t) \/ CheckAccepting(t) \/ Number(t) \/ CheckPaused(t) \/ ThreadSlot(t)
  \/ LockSlot(t) \/ SubmitFull(t) \/ Acquire(t) \/ AppendRecord(t) \/ DropRecord(t)
  \/ Leave(t)

----------------------------------------------------------------------------
(* The writer thread: writer_loop and BufferQueue::next_full *)

WStep(from, to) == wpc = from /\ wpc' = to

\* Everything of the collector that is neither the queue, the slots nor the writer.
Outside == <<accepting, producers, totalDropped, slots, slotDropped, counters, threads,
             finisher, appended>>

NextFull ==
  /\ full # <<>>
  /\ WStep("next", "drain")
  /\ cur' = Held(Head(full))
  /\ full' = Tail(full)
  /\ UNCHANGED <<Outside, paused, walker, buffer, pool, closing, why, wi, batch,
                 unflushed, commands, sending, parsed>>

NextClosed ==
  /\ full = <<>>
  /\ WStep("next", IF closing THEN "footer" ELSE "waiting")
  /\ UNCHANGED <<Outside, paused, walker, buffer, queue, cur, why, wi, batch, unflushed,
                 commands, sending, parsed>>

\* Notified by submit or close; a spurious wakeup only waits again.
Notified ==
  /\ full # <<>> \/ closing
  /\ WStep("waiting", "next")
  /\ UNCHANGED <<Outside, paused, walker, buffer, queue, cur, why, wi, batch, unflushed,
                 commands, sending, parsed>>

\* Mutant of Tick: a timeout does not flush the slots.
TickIdle ==
  /\ ~closing
  /\ WStep("waiting", "rows")
  /\ UNCHANGED <<Outside, paused, walker, buffer, queue, cur, why, wi, batch, unflushed,
                 commands, sending, parsed>>

\* The 20 ms timeout returns a buffer without capacity, even when a buffer was
\* submitted meanwhile; the writer flushes the slots for it.
Tick ==
  /\ ~closing
  /\ WStep("waiting", "flush")
  /\ why' = "tick"
  /\ UNCHANGED <<Outside, paused, walker, buffer, queue, cur, wi, batch, unflushed,
                 commands, sending, parsed>>

\* One record of the buffer in hand: an allocation joins the batch to send, an
\* event or Loss becomes a row.  cur.data is what is left to parse.
ParseRecord ==
  /\ wpc = "drain"
  /\ cur.data # <<>>
  /\ LET e == Head(cur.data) IN
       /\ parsed' = Append(parsed, e)
       /\ batch' = IF e.kind = "alloc" THEN Append(batch, e) ELSE batch
       /\ unflushed' = IF e.kind = "alloc" THEN unflushed ELSE unflushed + 1
  /\ cur' = [cur EXCEPT !.data = Tail(@)]
  /\ UNCHANGED <<Outside, paused, walker, buffer, queue, wpc, why, wi, commands, sending>>

\* send_sync on the allocation channel, and the comparison of its drop counter.
Send(packet) ==
  /\ batchSeq' = batchSeq + 1
  /\ IF Len(chan) < ChanCap
       THEN /\ chan' = Append(chan, packet)
            /\ UNCHANGED <<chanLost, chanDropped>>
       ELSE /\ chanLost' = chanLost + Len(packet.records)
            /\ chanDropped' = chanDropped + 1
            /\ UNCHANGED chan

Packet(footer, records) ==
  [sequence |-> batchSeq + 1, produced |-> allocSeq, dropped |-> allocDropped,
   lost |-> chanLost, paused |-> allocPaused, footer |-> footer, records |-> records]

ChunkLen == IF Len(batch) < Chunk THEN Len(batch) ELSE Chunk

SendChunk ==
  /\ wpc = "drain"
  /\ cur.data = <<>>
  /\ batch # <<>>
  /\ Send(Packet(FALSE, SubSeq(batch, 1, ChunkLen)))
  /\ batch' = SubSeq(batch, ChunkLen + 1, Len(batch))
  /\ UNCHANGED <<Outside, paused, walker, buffer, queue, wpc, cur, why, wi, unflushed,
                 commands, parsed>>

\* Mutant of Recycle: the parsed buffer is freed instead of recycled.
RecycleNothing ==
  /\ cur.data = <<>> /\ batch = <<>>
  /\ WStep("drain", "rows")
  /\ cur' = None
  /\ UNCHANGED <<Outside, paused, walker, buffer, queue, why, wi, batch, unflushed,
                 commands, sending, parsed>>

Recycle ==
  /\ cur.data = <<>> /\ batch = <<>>
  /\ WStep("drain", "rows")
  /\ pool' = pool + 1
  /\ cur' = None
  /\ UNCHANGED <<Outside, paused, walker, buffer, full, closing, why, wi, batch,
                 unflushed, commands, sending, parsed>>

\* flush_slots holds the mutex of slots and takes each slot's mutex in turn.
FlushLock ==
  /\ walker = "none"
  /\ WStep("flush", "walk")
  /\ walker' = "writer"
  /\ wi' = 1
  /\ UNCHANGED <<Outside, paused, buffer, queue, cur, why, batch, unflushed, commands,
                 sending, parsed>>

FlushSlot ==
  /\ wpc = "walk"
  /\ wi <= Len(slots)
  /\ ~Busy(slots[wi])
  /\ IF buffer[slots[wi]].held /\ buffer[slots[wi]].data # <<>>
       THEN SubmitSlot(slots[wi])
       ELSE UNCHANGED <<full, buffer>>
  /\ wi' = wi + 1
  /\ UNCHANGED <<Outside, paused, walker, pool, closing, wpc, cur, why, batch, unflushed,
                 commands, sending, parsed>>

\* A Flush command also hands the rows to the segment writer.
FlushDone ==
  /\ wi > Len(slots)
  /\ WStep("walk", IF why = "tick" THEN "rows" ELSE "command")
  /\ walker' = "none"
  /\ unflushed' = IF why = "tick" THEN unflushed ELSE 0
  /\ UNCHANGED <<Outside, paused, buffer, queue, cur, why, wi, batch, commands, sending,
                 parsed>>

FlushRows ==
  /\ WStep("rows", "command")
  /\ unflushed' = IF unflushed >= RowBatch THEN 0 ELSE unflushed
  /\ UNCHANGED <<Outside, paused, walker, buffer, queue, cur, why, wi, batch, commands,
                 sending, parsed>>

Command(c) ==
  /\ commands < MaxCommands
  /\ commands' = commands + 1
  /\ WStep("command", IF c = "Flush" THEN "flush" ELSE "command")
  /\ paused' = IF c = "Flush" THEN paused ELSE c = "Pause"
  /\ why' = IF c = "Flush" THEN "flush" ELSE why
  /\ UNCHANGED <<Outside, walker, buffer, queue, cur, wi, batch, unflushed, sending,
                 parsed>>

NoCommand ==
  /\ WStep("command", "next")
  /\ UNCHANGED <<Outside, paused, walker, buffer, queue, cur, why, wi, batch, unflushed,
                 commands, sending, parsed>>

Footer ==
  /\ WStep("footer", "segments")
  /\ Send(Packet(TRUE, <<>>))
  /\ UNCHANGED <<Outside, paused, walker, buffer, queue, cur, why, wi, batch, unflushed,
                 commands, parsed>>

\* The last rows are flushed, every segment is closed and the thread ends.
FinishSegments ==
  /\ WStep("segments", "done")
  /\ unflushed' = 0
  /\ UNCHANGED <<Outside, paused, walker, buffer, queue, cur, why, wi, batch, commands,
                 sending, parsed>>

WriterStep ==
  \/ NextFull \/ NextClosed \/ Notified \/ Tick \/ ParseRecord \/ SendChunk \/ Recycle
  \/ FlushLock \/ FlushSlot \/ FlushDone \/ FlushRows \/ NoCommand \/ Footer
  \/ FinishSegments

----------------------------------------------------------------------------
(* shutdown and Collector::finish, on the thread that exits *)

FStep(from, to) == fpc = from /\ fpc' = to

Stop ==
  /\ FStep("running", "spin")
  /\ accepting' = FALSE
  /\ UNCHANGED <<paused, producers, totalDropped, slots, walker, buffer, slotDropped,
                 counters, queue, threads, writer, fi, parsed, appended>>

\* Mutant of NoProducers: shutdown does not wait for producers to leave.
NoWait ==
  /\ FStep("spin", "lock")
  /\ UNCHANGED <<flags, producers, totalDropped, slots, walker, buffer, slotDropped,
                 counters, queue, threads, writer, fi, parsed, appended>>

NoProducers ==
  /\ producers = 0
  /\ FStep("spin", "lock")
  /\ UNCHANGED <<flags, producers, totalDropped, slots, walker, buffer, slotDropped,
                 counters, queue, threads, writer, fi, parsed, appended>>

FinishLock ==
  /\ walker = "none"
  /\ FStep("lock", "walk")
  /\ walker' = "finish"
  /\ fi' = 1
  /\ UNCHANGED <<flags, producers, totalDropped, slots, buffer, slotDropped, counters,
                 queue, threads, writer, parsed, appended>>

FinishSlot ==
  /\ fpc = "walk"
  /\ fi <= Len(slots)
  /\ ~Busy(slots[fi])
  /\ IF buffer[slots[fi]].held THEN SubmitSlot(slots[fi]) ELSE UNCHANGED <<full, buffer>>
  /\ fi' = fi + 1
  /\ UNCHANGED <<flags, producers, totalDropped, slots, walker, slotDropped, counters,
                 pool, closing, threads, writer, fpc, parsed, appended>>

FinishUnlock ==
  /\ fi > Len(slots)
  /\ FStep("walk", "close")
  /\ walker' = "none"
  /\ UNCHANGED <<flags, producers, totalDropped, slots, buffer, slotDropped, counters,
                 queue, threads, writer, fi, parsed, appended>>

CloseQueue ==
  /\ FStep("close", "join")
  /\ closing' = TRUE
  /\ UNCHANGED <<flags, producers, totalDropped, slots, walker, buffer, slotDropped,
                 counters, pool, full, threads, writer, fi, parsed, appended>>

Join ==
  /\ wpc = "done"
  /\ FStep("join", "joined")
  /\ UNCHANGED <<flags, producers, totalDropped, slots, walker, buffer, slotDropped,
                 counters, queue, threads, writer, fi, parsed, appended>>

FinishStep ==
  NoProducers \/ FinishLock \/ FinishSlot \/ FinishUnlock \/ CloseQueue \/ Join

----------------------------------------------------------------------------
Init ==
  /\ accepting = TRUE /\ paused = FALSE /\ producers = 0 /\ totalDropped = 0
  /\ slots = <<Late>> /\ walker = "none"
  /\ buffer = [s \in SlotIds |-> None]
  /\ slotDropped = [s \in SlotIds |-> 0]
  /\ allocSeq = 0 /\ allocDropped = 0 /\ allocPaused = 0
  /\ pool = Pool /\ full = <<>> /\ closing = FALSE
  /\ pc = [t \in Threads |-> "idle"] /\ kind = [t \in Threads |-> "event"]
  /\ num = [t \in Threads |-> 0]
  /\ tls = [t \in Threads |-> TRUE] /\ calls = 0
  /\ wpc = "next" /\ cur = None /\ why = "tick" /\ wi = 1 /\ batch = <<>>
  /\ unflushed = 0 /\ batchSeq = 0 /\ chanLost = 0 /\ commands = 0
  /\ chan = <<>> /\ chanDropped = 0
  /\ fpc = "running" /\ fi = 1
  /\ parsed = <<>> /\ appended = [s \in SlotIds |-> 0]

Next ==
  \/ \E t \in Threads : (\E k \in Kinds : Begin(t, k)) \/ ThreadStep(t) \/ Teardown(t)
  \/ WriterStep
  \/ \E c \in Commands : Command(c)
  \/ Stop
  \/ FinishStep

Spec == Init /\ [][Next]_vars

(***************************************************************************)
(* Threads inside a call, the writer and a running shutdown are scheduled. *)
(* The mutex of slots, which the writer takes for a pass every 20 ms, is   *)
(* eventually obtained by a thread that finds it free again and again.     *)
(* Nothing obliges the application to record or to exit.                   *)
(***************************************************************************)
Fairness ==
  /\ \A t \in Threads : WF_vars(ThreadStep(t)) /\ SF_vars(ThreadSlot(t))
  /\ WF_vars(WriterStep)
  /\ WF_vars(FinishStep) /\ SF_vars(FinishLock)

FairSpec == Spec /\ Fairness

----------------------------------------------------------------------------
(* Properties *)

BufferType == [held : BOOLEAN, data : Seq(Entry)]

PacketType ==
  [sequence : Nat, produced : Nat, dropped : Nat, lost : Nat, paused : Nat,
   footer : BOOLEAN, records : Seq(Entry)]

Inside == {"number", "pause", "slot", "lock", "submit", "acquire", "append"}

FlagsType == accepting \in BOOLEAN /\ paused \in BOOLEAN /\ producers \in Nat

SlotsType ==
  /\ slots \in Seq(SlotIds) /\ walker \in {"none", "writer", "finish"}
  /\ buffer \in [SlotIds -> BufferType]

CountersType ==
  /\ slotDropped \in [SlotIds -> Nat] /\ totalDropped \in Nat
  /\ allocSeq \in Nat /\ allocDropped \in Nat /\ allocPaused \in Nat
  /\ appended \in [SlotIds -> Nat]

QueueType == pool \in Nat /\ full \in Seq(Seq(Entry)) /\ closing \in BOOLEAN

ThreadsType ==
  /\ pc \in [Threads -> Inside \cup {"idle", "enter", "check", "leave"}]
  /\ kind \in [Threads -> {"event", "alloc"}] /\ num \in [Threads -> Nat]
  /\ tls \in [Threads -> BOOLEAN] /\ calls \in Nat

WriterType ==
  /\ wpc \in {"next", "waiting", "drain", "flush", "walk", "rows", "command",
              "footer", "segments", "done"}
  /\ why \in {"tick", "flush"} /\ wi \in Nat \ {0}
  /\ unflushed \in Nat /\ commands \in Nat

ParsingType == cur \in BufferType /\ batch \in Seq(Entry) /\ parsed \in Seq(Entry)

SendingType ==
  /\ batchSeq \in Nat /\ chanLost \in Nat
  /\ chan \in Seq(PacketType) /\ chanDropped \in Nat

FinishType ==
  /\ fpc \in {"running", "spin", "lock", "walk", "close", "join", "joined"}
  /\ fi \in Nat \ {0}

\* The type of every variable.
TypeOK ==
  /\ FlagsType /\ SlotsType /\ CountersType /\ QueueType /\ ThreadsType
  /\ WriterType /\ ParsingType /\ SendingType /\ FinishType

\* No buffer ever grows past its capacity: the room record asks for covers the
\* Loss row it may have to append ahead of the event.
WithinCapacity ==
  /\ \A s \in SlotIds : Len(buffer[s].data) <= BufCap
  /\ \A i \in 1 .. Len(full) : Len(full[i]) <= BufCap
  /\ Len(cur.data) <= BufCap

HeldSlots == {s \in SlotIds : buffer[s].held}

\* The pool neither leaks nor grows: every buffer is in the pool, in a slot, in
\* the queue or in the writer's hands, also across ticks, teardown and shutdown.
BuffersAccounted ==
  pool + Cardinality(HeldSlots) + Len(full) + (IF cur.held THEN 1 ELSE 0) = Pool

\* Once the writer saw the queue closed and drained, no producer is between its
\* check of accepting and the end of its append, and no record is left behind
\* in a slot or the queue (ProducerGuard and accepting against finish).
DrainedAtClose ==
  wpc \in {"footer", "segments", "done"} =>
    /\ \A t \in Threads : pc[t] \notin Inside
    /\ \A s \in SlotIds : ~buffer[s].held
    /\ full = <<>> /\ ~cur.held /\ batch = <<>>
    /\ wpc = "done" => unflushed = 0

\* When the writer writes the footer, every numbered allocation was parsed,
\* dropped or skipped while paused, so the footer's totals add up.
FooterBalances ==
  wpc \in {"footer", "segments", "done"} =>
    allocSeq = Cardinality({i \in DOMAIN parsed : parsed[i].kind = "alloc"})
               + allocDropped + allocPaused

\* The drops that the Loss rows of a sequence of records report.
Losses(seq) ==
  SumTo([i \in DOMAIN seq |-> IF seq[i].kind = "loss" THEN seq[i].value ELSE 0], Len(seq))

\* Drops of a slot that did not leave it: in its buffer, or in no Loss row yet.
SlotLosses == [s \in SlotIds |-> slotDropped[s] + Losses(buffer[s].data)]

\* The slots, listed to add up over them.
SlotList == Listing(SlotIds)

\* Drops reported in filled buffers.
FullLosses == [i \in DOMAIN full |-> Losses(full[i])]

\* A dropped event is counted in one place: a Loss row on its way to the writer or
\* past it, or the slot that dropped it.
DropsKept ==
  totalDropped = Losses(parsed) + Losses(cur.data) + SumTo(FullLosses, Len(full))
                 + SumAlong(SlotLosses, SlotList)

\* A dropped event is counted exactly once, however producers, flushes and thread
\* exits interleave.  A slot's count leaves it with the next event recorded there
\* only: finish submits the buffers and passes the counts over (session.rs:478),
\* so when the writer has ended, the Loss rows fall short of the drops by exactly
\* what the slots still hold.
DropsCounted ==
  /\ DropsKept
  /\ wpc = "done" => totalDropped = Losses(parsed) + SumAlong(slotDropped, SlotList)

\* What the comment of record (session.rs:364-366) and the Loss policy of the
\* tracing guide promise: when shutdown has returned, every dropped event is in a
\* Loss row the writer got.
LossesSurface == fpc = "joined" => Losses(parsed) = totalDropped

\* Where records of slot s are, from the oldest to the youngest.
Trail(s) == <<parsed, cur.data>> \o full \o <<buffer[s].data>>

\* The records of slot s in a sequence; a Loss row has no number.
Mine(seq, s) == {i \in DOMAIN seq : seq[i].slot = s /\ seq[i].kind # "loss"}

Ordered(seq, s) == \A i, j \in Mine(seq, s) : i < j => seq[i].n < seq[j].n

Before(seq, next, s) == \A i \in Mine(seq, s), j \in Mine(next, s) : seq[i].n < next[j].n

\* A record appended to a slot is in exactly one place, and the records of a
\* slot reach the writer in the order they were appended: nothing is lost,
\* repeated or overtaken between append, submit, flush_slots and finish.
Conserved ==
  \A s \in SlotIds :
    LET trail == Trail(s) IN
      /\ UNION {{trail[k][i].n : i \in Mine(trail[k], s)} : k \in DOMAIN trail}
           = 1 .. appended[s]
      /\ \A k \in DOMAIN trail : Ordered(trail[k], s)
      /\ \A k, l \in DOMAIN trail : k < l => Before(trail[k], trail[l], s)
      /\ \A r \in SlotIds \ {s} : Mine(buffer[r].data, s) = {}

\* shutdown returns once it was called: producers leave, the writer drains the
\* queue and the join succeeds, whatever the threads were doing.
ShutdownCompletes == fpc = "spin" ~> fpc = "joined"

\* Records appended and not yet parsed.
Unparsed ==
  {r \in [slot : SlotIds, n : 1 .. MaxCalls] :
     /\ r.n <= appended[r.slot]
     /\ ~\E i \in DOMAIN parsed : parsed[i].slot = r.slot /\ parsed[i].n = r.n}

\* Records appended to a buffer are parsed by the writer even when their thread
\* never records again or has exited: the tick flushes every registered slot.
EventuallyParsed == Unparsed # {} ~> Unparsed = {}
============================================================================
