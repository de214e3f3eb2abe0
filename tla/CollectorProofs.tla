-------------------------- MODULE CollectorProofs --------------------------
(***************************************************************************)
(* Proofs about Collector, for every number of threads, buffers and calls. *)
(* The inductive invariant IInv is the conjunction of the type invariant   *)
(* and of the named parts below, each about one protocol of the code.      *)
(* Then about AllocationCapture, which puts the source behind the          *)
(* collector's channel: packets lost to a full channel are told from       *)
(* corruption, and a capture judged complete holds every allocation.       *)
(***************************************************************************)
EXTENDS AllocationCapture, SumProofs, FiniteSetTheorems, SequenceTheorems, TLAPS

\* Threads that hold a ProducerGuard.
Guarded == {t \in Threads : pc[t] \notin {"idle", "enter"}}

ProducersCounted == producers = Cardinality(Guarded)

\* finish clears accepting before anything else, and walks the slots only
\* after every thread that had seen accepting has left.
Stopped == accepting <=> fpc = "running"

Draining == {"lock", "walk", "close", "join", "joined"}

NobodyInside == fpc \in Draining => \A t \in Threads : pc[t] \notin Inside

\* A buffer is only ever held by a registered slot, so that a walk over slots
\* finds every buffer.
InsideSlot == {"lock", "submit", "acquire", "append"}

SlotsKnown ==
  /\ Late \in Registered
  /\ \A s \in SlotIds : buffer[s].held => s \in Registered
  /\ \A t \in Threads : pc[t] \in InsideSlot => SlotOf(t) \in Registered

\* The walk of finish leaves no buffer behind it.
Walked ==
  /\ fpc = "walk" => \A i \in 1 .. Len(slots) : i < fi => ~buffer[slots[i]].held
  /\ fpc \in {"close", "join", "joined"} => \A s \in SlotIds : ~buffer[s].held

Ending == {"footer", "segments", "done"}

QueueClosed ==
  /\ closing <=> fpc \in {"join", "joined"}
  /\ wpc \in Ending => closing /\ full = <<>>

\* The writer has a buffer in hand only while it drains it.
InHand ==
  /\ wpc = "drain" <=> cur.held
  /\ ~cur.held => cur.data = <<>> /\ batch = <<>>
  /\ wpc = "done" => unflushed = 0

IInv ==
  /\ TypeOK /\ ProducersCounted /\ Stopped /\ NobodyInside /\ SlotsKnown /\ Walked
  /\ QueueClosed /\ InHand

----------------------------------------------------------------------------
(* Types of the operators the actions are built from *)

\* A cleared buffer is a sequence of records.
LEMMA EmptyType == <<>> \in Seq(Entry)
OBVIOUS

\* A slot without a buffer has a buffer value.
LEMMA NoneType == None \in BufferType
BY EmptyType DEF None, BufferType

\* A buffer in hand is its records.
LEMMA HeldType == ASSUME NEW d \in Seq(Entry) PROVE Held(d) \in BufferType
BY DEF Held, BufferType

\* thread_slot always finds a slot: the thread's own or late_slot.
LEMMA SlotOfType ==
  ASSUME ThreadsType, NEW t \in Threads
  PROVE  SlotOf(t) \in SlotIds
BY DEF ThreadsType, SlotOf, SlotIds

\* The Loss row and the row of a call are records.
LEMMA RowsType ==
  ASSUME CountersType, ThreadsType, NEW t \in Threads, NEW s \in SlotIds
  PROVE  LossRow(s) \in Seq(Entry) /\ Row(t, s) \in Seq(Entry)
<1>1. /\ slotDropped[s] \in Nat /\ appended[s] + 1 \in Nat
      /\ num[t] \in Nat /\ kind[t] \in {"event", "alloc"}
  BY DEF CountersType, ThreadsType
<1>2. [kind |-> "loss", slot |-> s, n |-> 0, value |-> slotDropped[s]] \in Entry
  BY <1>1 DEF Entry
<1>3. [kind |-> kind[t], slot |-> s, n |-> appended[s] + 1,
       value |-> IF kind[t] = "alloc" THEN num[t] ELSE 0] \in Entry
  BY <1>1 DEF Entry
<1>4. LossRow(s) \in Seq(Entry)
  BY <1>2, EmptyType DEF LossRow
<1> QED BY <1>3, <1>4 DEF Row

\* The packets of writer_loop are well formed.
LEMMA PacketInType ==
  ASSUME CountersType, SendingType, NEW f \in BOOLEAN, NEW r \in Seq(Entry)
  PROVE  Packet(f, r) \in PacketType
BY DEF CountersType, SendingType, Packet, PacketType

\* Sending a packet, or having it refused, keeps the channel's types.
LEMMA SendType ==
  ASSUME SendingType, NEW p \in PacketType, Send(p)
  PROVE  SendingType'
<1>1. Len(p.records) \in Nat
  BY DEF PacketType
<1>2. CASE Len(chan) < ChanCap
  BY <1>2 DEF SendingType, Send
<1>3. CASE ~(Len(chan) < ChanCap)
  BY <1>1, <1>3 DEF SendingType, Send
<1> QED BY <1>2, <1>3

\* BufferQueue::submit keeps the types of the slots and the queue.
LEMMA SubmitSlotType ==
  ASSUME SlotsType, QueueType, NEW s \in SlotIds, SubmitSlot(s)
  PROVE  buffer' \in [SlotIds -> BufferType] /\ full' \in Seq(Seq(Entry))
<1>1. buffer[s].data \in Seq(Entry)
  BY DEF SlotsType, BufferType
<1>2. full' \in Seq(Seq(Entry))
  BY <1>1 DEF SubmitSlot, QueueType
<1>3. buffer' \in [SlotIds -> BufferType]
  BY NoneType DEF SubmitSlot, SlotsType
<1> QED BY <1>2, <1>3

----------------------------------------------------------------------------
(* Every step keeps the types; the guard counter never goes below zero *)

USE DEF Step, WStep, FStep, flags, counters, queue, threads, sending, writer,
        finisher, Outside

\* Every step keeps the type of every variable.  Only Leave needs more than
\* types: the guard counter it decrements counts at least the leaving thread.
LEMMA TypeStep ==
  ASSUME TypeOK, ProducersCounted, Next
  PROVE  TypeOK'
<1> USE DEF TypeOK
<1>1. ASSUME NEW t \in Threads, NEW k \in Kinds, Begin(t, k) PROVE TypeOK'
  <2>1. ThreadsType'
    BY <1>1, KindsAssumption DEF Begin, ThreadsType
  <2> QED BY <1>1, <2>1 DEF Begin, FlagsType, SlotsType, CountersType, QueueType,
        WriterType, ParsingType, SendingType, FinishType
<1>2. ASSUME NEW t \in Threads, Enter(t) PROVE TypeOK'
  <2>1. FlagsType'
    BY <1>2 DEF Enter, FlagsType
  <2>2. ThreadsType'
    BY <1>2 DEF Enter, ThreadsType
  <2> QED BY <1>2, <2>1, <2>2 DEF Enter, SlotsType, CountersType, QueueType,
        WriterType, ParsingType, SendingType, FinishType
<1>3. ASSUME NEW t \in Threads, CheckAccepting(t) PROVE TypeOK'
  <2>1. ThreadsType'
    BY <1>3 DEF CheckAccepting, Admitted, ThreadsType, Inside
  <2> QED BY <1>3, <2>1 DEF CheckAccepting, FlagsType, SlotsType, CountersType,
        QueueType, WriterType, ParsingType, SendingType, FinishType
<1>4. ASSUME NEW t \in Threads, Number(t) PROVE TypeOK'
  <2>1. CountersType'
    BY <1>4 DEF Number, CountersType
  <2>2. ThreadsType'
    BY <1>4 DEF Number, ThreadsType, CountersType, Inside
  <2> QED BY <1>4, <2>1, <2>2 DEF Number, FlagsType, SlotsType, QueueType, WriterType,
        ParsingType, SendingType, FinishType
<1>5. ASSUME NEW t \in Threads, CheckPaused(t) PROVE TypeOK'
  <2>1. CountersType'
    BY <1>5 DEF CheckPaused, CountersType
  <2>2. ThreadsType'
    BY <1>5 DEF CheckPaused, ThreadsType, Inside
  <2> QED BY <1>5, <2>1, <2>2 DEF CheckPaused, FlagsType, SlotsType, QueueType,
        WriterType, ParsingType, SendingType, FinishType
<1>6. ASSUME NEW t \in Threads, ThreadSlot(t) PROVE TypeOK'
  <2>1. SlotsType'
    BY <1>6 DEF ThreadSlot, SlotsType, SlotIds
  <2>2. ThreadsType'
    BY <1>6 DEF ThreadSlot, ThreadsType, Inside
  <2> QED BY <1>6, <2>1, <2>2 DEF ThreadSlot, FlagsType, CountersType, QueueType,
        WriterType, ParsingType, SendingType, FinishType
<1>7. ASSUME NEW t \in Threads, LockSlot(t) PROVE TypeOK'
  <2>1. ThreadsType'
    BY <1>7 DEF LockSlot, ThreadsType, Inside
  <2> QED BY <1>7, <2>1 DEF LockSlot, FlagsType, SlotsType, CountersType, QueueType,
        WriterType, ParsingType, SendingType, FinishType
<1>8. ASSUME NEW t \in Threads, SubmitFull(t) PROVE TypeOK'
  <2>1. SlotOf(t) \in SlotIds
    BY SlotOfType
  <2>2. buffer' \in [SlotIds -> BufferType] /\ full' \in Seq(Seq(Entry))
    BY <1>8, <2>1, SubmitSlotType DEF SubmitFull, SlotsType, QueueType
  <2>3. SlotsType'
    BY <1>8, <2>2 DEF SubmitFull, SlotsType
  <2>4. QueueType'
    BY <1>8, <2>2 DEF SubmitFull, QueueType
  <2>5. ThreadsType'
    BY <1>8 DEF SubmitFull, ThreadsType, Inside
  <2> QED BY <1>8, <2>3, <2>4, <2>5 DEF SubmitFull, FlagsType, CountersType,
        WriterType, ParsingType, SendingType, FinishType
<1>9. ASSUME NEW t \in Threads, Acquire(t) PROVE TypeOK'
  <2>1. SlotOf(t) \in SlotIds
    BY SlotOfType
  <2>2. Held(<<>>) \in BufferType
    BY EmptyType, HeldType
  <2>3. SlotsType'
    BY <1>9, <2>1, <2>2 DEF Acquire, SlotsType
  <2>4. QueueType'
    BY <1>9 DEF Acquire, QueueType
  <2>5. ThreadsType'
    BY <1>9 DEF Acquire, ThreadsType, Inside
  <2> QED BY <1>9, <2>3, <2>4, <2>5 DEF Acquire, FlagsType, CountersType, WriterType,
        ParsingType, SendingType, FinishType
<1>10. ASSUME NEW t \in Threads, AppendRecord(t) PROVE TypeOK'
  <2> DEFINE s == SlotOf(t)
             d == buffer[s].data \o (IF kind[t] = "event" THEN LossRow(s) ELSE <<>>)
                                \o Row(t, s)
  <2>1. s \in SlotIds
    BY SlotOfType
  <2>2. buffer[s] \in BufferType /\ buffer[s].data \in Seq(Entry)
    BY <2>1 DEF SlotsType, BufferType
  <2>3. LossRow(s) \in Seq(Entry) /\ Row(t, s) \in Seq(Entry)
    BY <2>1, RowsType
  <2>4. d \in Seq(Entry)
    BY <2>2, <2>3
  <2>5. buffer' = [buffer EXCEPT ![s].data = d]
    BY <1>10 DEF AppendRecord
  <2> HIDE DEF d
  <2>6. [buffer[s] EXCEPT !.data = d] \in BufferType
    BY <2>2, <2>4 DEF BufferType
  <2>7. buffer' \in [SlotIds -> BufferType]
    BY <2>1, <2>5, <2>6 DEF SlotsType
  <2>8. SlotsType'
    BY <1>10, <2>7 DEF AppendRecord, SlotsType
  <2>9. CountersType'
    BY <1>10, <2>1 DEF AppendRecord, CountersType
  <2>10. ThreadsType'
    BY <1>10 DEF AppendRecord, ThreadsType, Inside
  <2> QED BY <1>10, <2>8, <2>9, <2>10 DEF AppendRecord, FlagsType, QueueType,
        WriterType, ParsingType, SendingType, FinishType
<1>11. ASSUME NEW t \in Threads, DropRecord(t) PROVE TypeOK'
  <2>1. SlotOf(t) \in SlotIds
    BY SlotOfType
  <2>2. CountersType'
    BY <1>11, <2>1 DEF DropRecord, CountersType
  <2>3. ThreadsType'
    BY <1>11 DEF DropRecord, ThreadsType, Inside
  <2> QED BY <1>11, <2>2, <2>3 DEF DropRecord, FlagsType, SlotsType, QueueType,
        WriterType, ParsingType, SendingType, FinishType
<1>12. ASSUME NEW t \in Threads, Leave(t) PROVE TypeOK'
  <2>1. t \in Guarded
    BY <1>12 DEF Leave, Guarded
  <2>2. IsFiniteSet(Guarded)
    BY ThreadsAssumption, FS_Subset DEF Guarded
  <2>3. Cardinality(Guarded) \in Nat /\ Cardinality(Guarded) # 0
    BY <2>1, <2>2, FS_CardinalityType, FS_EmptySet
  <2>4. producers - 1 \in Nat
    BY <2>3 DEF ProducersCounted
  <2>5. FlagsType'
    BY <1>12, <2>4 DEF Leave, FlagsType
  <2>6. ThreadsType'
    BY <1>12 DEF Leave, ThreadsType
  <2> QED BY <1>12, <2>5, <2>6 DEF Leave, SlotsType, CountersType, QueueType,
        WriterType, ParsingType, SendingType, FinishType
<1>13. ASSUME NEW t \in Threads, Teardown(t) PROVE TypeOK'
  <2>1. ThreadsType'
    BY <1>13 DEF Teardown, ThreadsType
  <2> QED BY <1>13, <2>1 DEF Teardown, FlagsType, SlotsType, CountersType, QueueType,
        WriterType, ParsingType, SendingType, FinishType
<1>14. CASE NextFull
  <2>1. Head(full) \in Seq(Entry) /\ Tail(full) \in Seq(Seq(Entry))
    BY <1>14 DEF NextFull, QueueType
  <2>2. Held(Head(full)) \in BufferType
    BY <2>1, HeldType
  <2>3. QueueType'
    BY <1>14, <2>1 DEF NextFull, QueueType
  <2>4. WriterType'
    BY <1>14 DEF NextFull, WriterType
  <2>5. ParsingType'
    BY <1>14, <2>2 DEF NextFull, ParsingType
  <2> QED BY <1>14, <2>3, <2>4, <2>5 DEF NextFull, FlagsType, SlotsType, CountersType,
        ThreadsType, SendingType, FinishType
<1>15. CASE NextClosed
  <2>1. WriterType'
    BY <1>15 DEF NextClosed, WriterType
  <2> QED BY <1>15, <2>1 DEF NextClosed, FlagsType, SlotsType, CountersType,
        QueueType, ThreadsType, ParsingType, SendingType, FinishType
<1>16. CASE Notified
  <2>1. WriterType'
    BY <1>16 DEF Notified, WriterType
  <2> QED BY <1>16, <2>1 DEF Notified, FlagsType, SlotsType, CountersType, QueueType,
        ThreadsType, ParsingType, SendingType, FinishType
<1>17. CASE Tick
  <2>1. WriterType'
    BY <1>17 DEF Tick, WriterType
  <2> QED BY <1>17, <2>1 DEF Tick, FlagsType, SlotsType, CountersType, QueueType,
        ThreadsType, ParsingType, SendingType, FinishType
<1>18. CASE ParseRecord
  <2>1. cur.data \in Seq(Entry) /\ cur.data # <<>>
    BY <1>18 DEF ParseRecord, ParsingType, BufferType
  <2>2. Head(cur.data) \in Entry /\ Tail(cur.data) \in Seq(Entry)
    BY <2>1
  <2>3. [cur EXCEPT !.data = Tail(@)] \in BufferType
    BY <2>2 DEF ParsingType, BufferType
  <2>4. WriterType'
    BY <1>18 DEF ParseRecord, WriterType
  <2>5. ParsingType'
    BY <1>18, <2>2, <2>3 DEF ParseRecord, ParsingType
  <2> QED BY <1>18, <2>4, <2>5 DEF ParseRecord, FlagsType, SlotsType, CountersType,
        QueueType, ThreadsType, SendingType, FinishType
<1>19. CASE SendChunk
  <2>1. Len(batch) \in Nat /\ ChunkLen \in 0 .. Len(batch)
    BY WriterAssumption DEF ChunkLen, ParsingType
  <2>2. /\ SubSeq(batch, 1, ChunkLen) \in Seq(Entry)
        /\ SubSeq(batch, ChunkLen + 1, Len(batch)) \in Seq(Entry)
    BY <2>1 DEF ParsingType
  <2>3. Packet(FALSE, SubSeq(batch, 1, ChunkLen)) \in PacketType
    BY <2>2, PacketInType
  <2>4. ParsingType'
    BY <1>19, <2>2 DEF SendChunk, ParsingType
  <2>5. SendingType'
    BY <1>19, <2>3, SendType DEF SendChunk
  <2> QED BY <1>19, <2>4, <2>5 DEF SendChunk, FlagsType, SlotsType, CountersType,
        QueueType, ThreadsType, WriterType, FinishType
<1>20. CASE Recycle
  <2>1. QueueType'
    BY <1>20 DEF Recycle, QueueType
  <2>2. WriterType'
    BY <1>20 DEF Recycle, WriterType
  <2>3. ParsingType'
    BY <1>20, NoneType DEF Recycle, ParsingType
  <2> QED BY <1>20, <2>1, <2>2, <2>3 DEF Recycle, FlagsType, SlotsType, CountersType,
        ThreadsType, SendingType, FinishType
<1>21. CASE FlushLock
  <2>1. SlotsType'
    BY <1>21 DEF FlushLock, SlotsType
  <2>2. WriterType'
    BY <1>21 DEF FlushLock, WriterType
  <2> QED BY <1>21, <2>1, <2>2 DEF FlushLock, FlagsType, CountersType, QueueType,
        ThreadsType, ParsingType, SendingType, FinishType
<1>22. CASE FlushSlot
  <2>1. slots[wi] \in SlotIds
    BY <1>22 DEF FlushSlot, SlotsType, WriterType
  <2>2. buffer' \in [SlotIds -> BufferType] /\ full' \in Seq(Seq(Entry))
    BY <1>22, <2>1, SubmitSlotType DEF FlushSlot, SlotsType, QueueType
  <2>3. SlotsType'
    BY <1>22, <2>2 DEF FlushSlot, SlotsType
  <2>4. QueueType'
    BY <1>22, <2>2 DEF FlushSlot, QueueType
  <2>5. WriterType'
    BY <1>22 DEF FlushSlot, WriterType
  <2> QED BY <1>22, <2>3, <2>4, <2>5 DEF FlushSlot, FlagsType, CountersType,
        ThreadsType, ParsingType, SendingType, FinishType
<1>23. CASE FlushDone
  <2>1. SlotsType'
    BY <1>23 DEF FlushDone, SlotsType
  <2>2. WriterType'
    BY <1>23 DEF FlushDone, WriterType
  <2> QED BY <1>23, <2>1, <2>2 DEF FlushDone, FlagsType, CountersType, QueueType,
        ThreadsType, ParsingType, SendingType, FinishType
<1>24. CASE FlushRows
  <2>1. WriterType'
    BY <1>24 DEF FlushRows, WriterType
  <2> QED BY <1>24, <2>1 DEF FlushRows, FlagsType, SlotsType, CountersType, QueueType,
        ThreadsType, ParsingType, SendingType, FinishType
<1>25. CASE NoCommand
  <2>1. WriterType'
    BY <1>25 DEF NoCommand, WriterType
  <2> QED BY <1>25, <2>1 DEF NoCommand, FlagsType, SlotsType, CountersType, QueueType,
        ThreadsType, ParsingType, SendingType, FinishType
<1>26. CASE Footer
  <2>1. Packet(TRUE, <<>>) \in PacketType
    BY EmptyType, PacketInType
  <2>2. WriterType'
    BY <1>26 DEF Footer, WriterType
  <2>3. SendingType'
    BY <1>26, <2>1, SendType DEF Footer
  <2> QED BY <1>26, <2>2, <2>3 DEF Footer, FlagsType, SlotsType, CountersType,
        QueueType, ThreadsType, ParsingType, FinishType
<1>27. CASE FinishSegments
  <2>1. WriterType'
    BY <1>27 DEF FinishSegments, WriterType
  <2> QED BY <1>27, <2>1 DEF FinishSegments, FlagsType, SlotsType, CountersType,
        QueueType, ThreadsType, ParsingType, SendingType, FinishType
<1>28. ASSUME NEW c \in Commands, Command(c) PROVE TypeOK'
  <2>1. FlagsType'
    BY <1>28 DEF Command, FlagsType
  <2>2. WriterType'
    BY <1>28 DEF Command, WriterType
  <2> QED BY <1>28, <2>1, <2>2 DEF Command, SlotsType, CountersType, QueueType,
        ThreadsType, ParsingType, SendingType, FinishType
<1>29. CASE Stop
  <2>1. FlagsType'
    BY <1>29 DEF Stop, FlagsType
  <2>2. FinishType'
    BY <1>29 DEF Stop, FinishType
  <2> QED BY <1>29, <2>1, <2>2 DEF Stop, SlotsType, CountersType, QueueType,
        ThreadsType, WriterType, ParsingType, SendingType
<1>30. CASE NoProducers
  <2>1. FinishType'
    BY <1>30 DEF NoProducers, FinishType
  <2> QED BY <1>30, <2>1 DEF NoProducers, FlagsType, SlotsType, CountersType,
        QueueType, ThreadsType, WriterType, ParsingType, SendingType
<1>31. CASE FinishLock
  <2>1. SlotsType'
    BY <1>31 DEF FinishLock, SlotsType
  <2>2. FinishType'
    BY <1>31 DEF FinishLock, FinishType
  <2> QED BY <1>31, <2>1, <2>2 DEF FinishLock, FlagsType, CountersType, QueueType,
        ThreadsType, WriterType, ParsingType, SendingType
<1>32. CASE FinishSlot
  <2>1. slots[fi] \in SlotIds
    BY <1>32 DEF FinishSlot, SlotsType, FinishType
  <2>2. buffer' \in [SlotIds -> BufferType] /\ full' \in Seq(Seq(Entry))
    BY <1>32, <2>1, SubmitSlotType DEF FinishSlot, SlotsType, QueueType
  <2>3. SlotsType'
    BY <1>32, <2>2 DEF FinishSlot, SlotsType
  <2>4. QueueType'
    BY <1>32, <2>2 DEF FinishSlot, QueueType
  <2>5. FinishType'
    BY <1>32 DEF FinishSlot, FinishType
  <2> QED BY <1>32, <2>3, <2>4, <2>5 DEF FinishSlot, FlagsType, CountersType,
        ThreadsType, WriterType, ParsingType, SendingType
<1>33. CASE FinishUnlock
  <2>1. SlotsType'
    BY <1>33 DEF FinishUnlock, SlotsType
  <2>2. FinishType'
    BY <1>33 DEF FinishUnlock, FinishType
  <2> QED BY <1>33, <2>1, <2>2 DEF FinishUnlock, FlagsType, CountersType, QueueType,
        ThreadsType, WriterType, ParsingType, SendingType
<1>34. CASE CloseQueue
  <2>1. QueueType'
    BY <1>34 DEF CloseQueue, QueueType
  <2>2. FinishType'
    BY <1>34 DEF CloseQueue, FinishType
  <2> QED BY <1>34, <2>1, <2>2 DEF CloseQueue, FlagsType, SlotsType, CountersType,
        ThreadsType, WriterType, ParsingType, SendingType
<1>35. CASE Join
  <2>1. FinishType'
    BY <1>35 DEF Join, FinishType
  <2> QED BY <1>35, <2>1 DEF Join, FlagsType, SlotsType, CountersType, QueueType,
        ThreadsType, WriterType, ParsingType, SendingType
<1> QED BY <1>1, <1>2, <1>3, <1>4, <1>5, <1>6, <1>7, <1>8, <1>9, <1>10, <1>11, <1>12,
      <1>13, <1>14, <1>15, <1>16, <1>17, <1>18, <1>19, <1>20, <1>21, <1>22, <1>23,
      <1>24, <1>25, <1>26, <1>27, <1>28, <1>29, <1>30, <1>31, <1>32, <1>33, <1>34,
      <1>35 DEF Next, ThreadStep, WriterStep, FinishStep
----------------------------------------------------------------------------
(* What each process leaves alone *)

ThreadAny(t) == (\E k \in Kinds : Begin(t, k)) \/ ThreadStep(t) \/ Teardown(t)
WriterAny    == WriterStep \/ \E c \in Commands : Command(c)
FinishAny    == Stop \/ FinishStep

\* A step is a step of one thread, of the writer or of the thread that exits.
LEMMA NextCases ==
  Next <=> (\E t \in Threads : ThreadAny(t)) \/ WriterAny \/ FinishAny
BY DEF Next, ThreadAny, WriterAny, FinishAny

\* Threads leave the flags, the writer and shutdown alone.
LEMMA ThreadFrame ==
  ASSUME NEW t \in Threads, ThreadAny(t)
  PROVE  UNCHANGED <<accepting, paused, walker, closing, writer, finisher, parsed>>
<1>1. ASSUME NEW k \in Kinds, Begin(t, k)
      PROVE  UNCHANGED <<accepting, paused, walker, closing, writer, finisher, parsed>>
  BY <1>1 DEF Begin
<1>2. CASE Teardown(t)
  BY <1>2 DEF Teardown
<1>3. CASE Enter(t) \/ CheckAccepting(t) \/ Number(t) \/ CheckPaused(t) \/ ThreadSlot(t)
  BY <1>3 DEF Enter, CheckAccepting, Number, CheckPaused, ThreadSlot
<1>4. CASE LockSlot(t) \/ SubmitFull(t) \/ Acquire(t)
  BY <1>4 DEF LockSlot, SubmitFull, Acquire
<1>5. CASE AppendRecord(t) \/ DropRecord(t) \/ Leave(t)
  BY <1>5 DEF AppendRecord, DropRecord, Leave
<1> QED BY <1>1, <1>2, <1>3, <1>4, <1>5 DEF ThreadAny, ThreadStep

\* The writer leaves threads, counters, slots and shutdown alone.
LEMMA WriterFrame ==
  ASSUME WriterAny
  PROVE  UNCHANGED <<Outside, closing>>
<1>1. CASE NextFull \/ NextClosed \/ Notified \/ Tick
  BY <1>1 DEF NextFull, NextClosed, Notified, Tick
<1>2. CASE ParseRecord \/ SendChunk \/ Recycle
  BY <1>2 DEF ParseRecord, SendChunk, Recycle
<1>3. CASE FlushLock \/ FlushSlot \/ FlushDone \/ FlushRows
  BY <1>3 DEF FlushLock, FlushSlot, FlushDone, FlushRows
<1>4. CASE NoCommand \/ Footer \/ FinishSegments
  BY <1>4 DEF NoCommand, Footer, FinishSegments
<1>5. ASSUME NEW c \in Commands, Command(c)
      PROVE  UNCHANGED <<Outside, closing>>
  BY <1>5 DEF Command
<1> QED BY <1>1, <1>2, <1>3, <1>4, <1>5 DEF WriterAny, WriterStep

\* Shutdown leaves threads, counters and the writer's own state alone.
LEMMA FinishFrame ==
  ASSUME FinishAny
  PROVE  UNCHANGED <<paused, producers, totalDropped, slots, slotDropped, counters, pool,
                     threads, writer, parsed, appended>>
<1>1. CASE Stop \/ NoProducers \/ FinishLock
  BY <1>1 DEF Stop, NoProducers, FinishLock
<1>2. CASE FinishSlot \/ FinishUnlock
  BY <1>2 DEF FinishSlot, FinishUnlock
<1>3. CASE CloseQueue \/ Join
  BY <1>3 DEF CloseQueue, Join
<1> QED BY <1>1, <1>2, <1>3 DEF FinishAny, FinishStep

----------------------------------------------------------------------------
(* ProducerGuard: the counter is the number of threads that hold a guard *)

\* ProducerGuard: producers counts the threads that hold a guard, on every path
\* out of record and record_allocation.
LEMMA GuardStep ==
  ASSUME TypeOK, ProducersCounted, Next
  PROVE  ProducersCounted'
<1>1. CASE UNCHANGED producers /\ Guarded' = Guarded
  BY <1>1 DEF ProducersCounted
<1>2. IsFiniteSet(Guarded)
  BY ThreadsAssumption, FS_Subset DEF Guarded
<1>3. ASSUME NEW t \in Threads, Enter(t)
      PROVE  ProducersCounted'
  <2>1. t \notin Guarded /\ Guarded' = Guarded \cup {t}
    BY <1>3 DEF Enter, Guarded, TypeOK, ThreadsType
  <2>2. Cardinality(Guarded') = Cardinality(Guarded) + 1
    BY <1>2, <2>1, FS_AddElement
  <2> QED BY <1>3, <2>2 DEF Enter, ProducersCounted
<1>4. ASSUME NEW t \in Threads, Leave(t)
      PROVE  ProducersCounted'
  <2>1. t \in Guarded /\ Guarded' = Guarded \ {t}
    BY <1>4 DEF Leave, Guarded, TypeOK, ThreadsType
  <2>2. Cardinality(Guarded') = Cardinality(Guarded) - 1
    BY <1>2, <2>1, FS_RemoveElement
  <2> QED BY <1>4, <2>2 DEF Leave, ProducersCounted
<1>5. ASSUME NEW t \in Threads, NEW k \in Kinds, Begin(t, k)
      PROVE  UNCHANGED producers /\ Guarded' = Guarded
  BY <1>5 DEF Begin, Guarded, TypeOK, ThreadsType
<1>6. ASSUME NEW t \in Threads,
             CheckAccepting(t) \/ Number(t) \/ CheckPaused(t) \/ ThreadSlot(t) \/ LockSlot(t)
      PROVE  UNCHANGED producers /\ Guarded' = Guarded
  BY <1>6 DEF CheckAccepting, Admitted, Number, CheckPaused, ThreadSlot, LockSlot, Guarded,
     TypeOK, ThreadsType
<1>7. ASSUME NEW t \in Threads,
             SubmitFull(t) \/ Acquire(t) \/ AppendRecord(t) \/ DropRecord(t) \/ Teardown(t)
      PROVE  UNCHANGED producers /\ Guarded' = Guarded
  BY <1>7 DEF SubmitFull, Acquire, AppendRecord, DropRecord, Teardown, Guarded,
     TypeOK, ThreadsType
<1>8. CASE WriterAny
  BY <1>1, <1>8, WriterFrame DEF Guarded
<1>9. CASE FinishAny
  BY <1>1, <1>9, FinishFrame DEF Guarded
<1> QED BY <1>1, <1>3, <1>4, <1>5, <1>6, <1>7, <1>8, <1>9, NextCases
        DEF ThreadAny, ThreadStep

\* accepting is cleared by the first step of finish and never set again.
LEMMA StoppedStep ==
  ASSUME TypeOK, Stopped, Next
  PROVE  Stopped'
<1>1. ASSUME NEW t \in Threads, ThreadAny(t) PROVE Stopped'
  BY <1>1, ThreadFrame DEF Stopped
<1>2. CASE WriterAny
  BY <1>2, WriterFrame DEF Stopped
<1>3. CASE Stop
  BY <1>3 DEF Stop, Stopped
<1>4. CASE FinishStep
  BY <1>4 DEF FinishStep, NoProducers, FinishLock, FinishSlot, FinishUnlock, CloseQueue, Join,
     Stopped
<1> QED BY <1>1, <1>2, <1>3, <1>4, NextCases DEF FinishAny

\* Once shutdown has seen the guard counter at zero no thread is, or gets, past
\* the check of accepting.
LEMMA NobodyInsideStep ==
  ASSUME TypeOK, ProducersCounted, Stopped, NobodyInside, Next
  PROVE  NobodyInside'
<1>1. ASSUME NEW t \in Threads, ThreadAny(t) PROVE NobodyInside'
  <2>1. SUFFICES ASSUME fpc \in Draining, \A u \in Threads : pc[u] \notin Inside, ~accepting
                 PROVE  \A u \in Threads : pc'[u] \notin Inside
    BY <1>1, ThreadFrame DEF NobodyInside, Stopped, Draining
  <2>2. pc[t] \notin Inside
    BY <2>1
  <2>3. \/ \E k \in Kinds : Begin(t, k)
        \/ Enter(t) \/ CheckAccepting(t) \/ Leave(t) \/ Teardown(t)
    BY <1>1, <2>2 DEF ThreadAny, ThreadStep, Number, CheckPaused, ThreadSlot, LockSlot,
       SubmitFull, Acquire, AppendRecord, DropRecord, Inside
  <2> QED BY <2>1, <2>3 DEF Begin, Enter, CheckAccepting, Leave, Teardown, Inside,
          TypeOK, ThreadsType
<1>2. CASE WriterAny
  BY <1>2, WriterFrame DEF NobodyInside
<1>3. CASE NoProducers
  <2>1. IsFiniteSet(Guarded)
    BY ThreadsAssumption, FS_Subset DEF Guarded
  <2>2. Guarded = {}
    BY <1>3, <2>1, FS_EmptySet DEF NoProducers, ProducersCounted
  <2> QED BY <1>3, <2>2 DEF NoProducers, Guarded, Inside, NobodyInside
<1>4. CASE Stop \/ FinishLock \/ FinishSlot \/ FinishUnlock \/ CloseQueue \/ Join
  <2>1. fpc' \in Draining => fpc \in Draining
    BY <1>4 DEF Stop, FinishLock, FinishSlot, FinishUnlock, CloseQueue, Join, Draining
  <2>2. UNCHANGED pc
    BY <1>4, FinishFrame DEF FinishAny, FinishStep
  <2> QED BY <2>1, <2>2 DEF NobodyInside
<1> QED BY <1>1, <1>2, <1>3, <1>4, NextCases DEF FinishAny, FinishStep
----------------------------------------------------------------------------
(* The slots, the walks over them and the queue *)

\* A registered slot stays registered.
LEMMA RegisteredGrows ==
  ASSUME TypeOK, Next
  PROVE  Registered \subseteq Registered'
<1>1. CASE UNCHANGED slots
  BY <1>1 DEF Registered
<1>2. ASSUME NEW t \in Threads, ThreadSlot(t), slots' = Append(slots, t)
      PROVE  Registered \subseteq Registered'
  <2>1. Len(slots') = Len(slots) + 1 /\ \A i \in 1 .. Len(slots) : slots'[i] = slots[i]
    BY <1>2 DEF TypeOK, SlotsType
  <2> QED BY <2>1 DEF Registered, TypeOK, SlotsType
<1>3. ASSUME NEW t \in Threads, ThreadAny(t), ~ThreadSlot(t)
      PROVE  UNCHANGED slots
  BY <1>3 DEF ThreadAny, ThreadStep, Begin, Enter, CheckAccepting, Number, CheckPaused,
     LockSlot, SubmitFull, Acquire, AppendRecord, DropRecord, Leave, Teardown
<1>4. ASSUME NEW t \in Threads, ThreadSlot(t)
      PROVE  UNCHANGED slots \/ slots' = Append(slots, t)
  BY <1>4 DEF ThreadSlot
<1> QED BY <1>1, <1>2, <1>3, <1>4, WriterFrame, FinishFrame, NextCases

\* Only Acquire gives a slot a buffer.
LEMMA HeldShrinks ==
  ASSUME TypeOK, Next, \A t \in Threads : ~Acquire(t), NEW s \in SlotIds, buffer'[s].held
  PROVE  buffer[s].held
<1> USE DEF TypeOK, SlotsType, None
<1>1. CASE UNCHANGED buffer
  BY <1>1
<1>2. ASSUME NEW t \in Threads, SubmitFull(t) PROVE buffer[s].held
  <2>1. SlotOf(t) \in SlotIds
    BY SlotOfType
  <2> QED BY <1>2, <2>1 DEF SubmitFull, SubmitSlot
<1>3. ASSUME NEW t \in Threads, AppendRecord(t) PROVE buffer[s].held
  <2>1. SlotOf(t) \in SlotIds
    BY SlotOfType
  <2> QED BY <1>3, <2>1 DEF AppendRecord, BufferType
<1>4. CASE FlushSlot
  BY <1>4 DEF FlushSlot, SubmitSlot, WriterType
<1>5. CASE FinishSlot
  BY <1>5 DEF FinishSlot, SubmitSlot, FinishType
<1>6. ASSUME NEW t \in Threads, ThreadAny(t), ~SubmitFull(t), ~Acquire(t), ~AppendRecord(t)
      PROVE  UNCHANGED buffer
  BY <1>6 DEF ThreadAny, ThreadStep, Begin, Enter, CheckAccepting, Number, CheckPaused,
     ThreadSlot, LockSlot, DropRecord, Leave, Teardown
<1>7. ASSUME WriterAny, ~FlushSlot PROVE UNCHANGED buffer
  BY <1>7 DEF WriterAny, WriterStep, NextFull, NextClosed, Notified, Tick, ParseRecord,
     SendChunk, Recycle, FlushLock, FlushDone, FlushRows, NoCommand, Footer, FinishSegments,
     Command
<1>8. ASSUME FinishAny, ~FinishSlot PROVE UNCHANGED buffer
  BY <1>8 DEF FinishAny, FinishStep, Stop, NoProducers, FinishLock, FinishUnlock, CloseQueue,
     Join
<1> QED BY <1>1, <1>2, <1>3, <1>4, <1>5, <1>6, <1>7, <1>8, NextCases

\* Every buffer is in a registered slot, also those of threads that are gone.
LEMMA SlotsKnownStep ==
  ASSUME TypeOK, SlotsKnown, Next
  PROVE  SlotsKnown'
<1>1. Registered \subseteq Registered'
  BY RegisteredGrows
<1>2. \A s \in SlotIds : buffer'[s].held => s \in Registered'
  <2>1. SUFFICES ASSUME NEW s \in SlotIds, buffer'[s].held PROVE s \in Registered
    BY <1>1
  <2>2. ASSUME NEW t \in Threads, Acquire(t) PROVE s \in Registered
    <3>1. SlotOf(t) \in Registered
      BY <2>2 DEF Acquire, SlotsKnown, InsideSlot
    <3>2. CASE s = SlotOf(t)
      BY <3>1, <3>2
    <3>3. CASE s # SlotOf(t)
      <4>1. buffer'[s] = buffer[s]
        BY <2>2, <3>3 DEF Acquire, TypeOK, SlotsType
      <4> QED BY <2>1, <4>1 DEF SlotsKnown
    <3> QED BY <3>2, <3>3
  <2>3. CASE \A t \in Threads : ~Acquire(t)
    BY <2>1, <2>3, HeldShrinks DEF SlotsKnown
  <2> QED BY <2>2, <2>3
<1>3. ASSUME NEW u \in Threads, pc'[u] \in InsideSlot
      PROVE  SlotOf(u)' \in Registered'
  <2> USE DEF TypeOK, ThreadsType
  <2>1. CASE UNCHANGED <<pc, tls>>
    BY <1>1, <1>3, <2>1 DEF SlotsKnown, SlotOf
  <2>2. ASSUME NEW t \in Threads, ThreadAny(t), t # u
        PROVE  pc'[u] = pc[u] /\ tls'[u] = tls[u]
    BY <2>2 DEF ThreadAny, ThreadStep, Begin, Enter, CheckAccepting, Number, CheckPaused,
       ThreadSlot, LockSlot, SubmitFull, Acquire, AppendRecord, DropRecord, Leave, Teardown
  <2>3. CASE ThreadSlot(u)
    <3>1. SlotOf(u)' = SlotOf(u)
      BY <2>3 DEF ThreadSlot, SlotOf
    <3>2. CASE SlotOf(u) \in Registered
      BY <1>1, <3>1, <3>2
    <3>3. CASE SlotOf(u) \notin Registered
      <4>1. SlotOf(u) = u
        BY <3>3 DEF SlotOf, SlotsKnown
      <4>2. slots' = Append(slots, u)
        BY <2>3, <3>3 DEF ThreadSlot
      <4>3. Len(slots') \in Nat /\ Len(slots') >= 1 /\ slots'[Len(slots')] = u
        BY <4>2 DEF SlotsType
      <4>4. u \in Registered'
        BY <4>3 DEF Registered
      <4> QED BY <3>1, <4>1, <4>4
    <3> QED BY <3>2, <3>3
  <2>4. CASE LockSlot(u) \/ SubmitFull(u) \/ Acquire(u)
    <3>1. pc[u] \in InsideSlot /\ UNCHANGED tls
      BY <2>4 DEF LockSlot, SubmitFull, Acquire, InsideSlot
    <3> QED BY <1>1, <3>1 DEF SlotsKnown, SlotOf
  <2>5. CASE \/ Enter(u) \/ CheckAccepting(u) \/ Number(u) \/ CheckPaused(u)
             \/ AppendRecord(u) \/ DropRecord(u) \/ Leave(u)
             \/ \E k \in Kinds : Begin(u, k)
    <3>1. pc'[u] \notin InsideSlot
      BY <2>5 DEF Enter, CheckAccepting, Admitted, Number, CheckPaused, AppendRecord,
         DropRecord, Leave, Begin, InsideSlot
    <3> QED BY <1>3, <3>1
  <2>6. CASE Teardown(u)
    BY <1>3, <2>6 DEF Teardown, InsideSlot
  <2>7. ASSUME NEW t \in Threads, ThreadAny(t), t # u
        PROVE  SlotOf(u)' \in Registered'
    BY <1>1, <1>3, <2>2, <2>7 DEF SlotsKnown, SlotOf
  <2> QED BY <2>1, <2>3, <2>4, <2>5, <2>6, <2>7, WriterFrame, FinishFrame, NextCases
          DEF ThreadAny, ThreadStep
<1> QED BY <1>1, <1>2, <1>3 DEF SlotsKnown

\* The walk of finish leaves no buffer behind, since nobody acquires one meanwhile.
LEMMA WalkedStep ==
  ASSUME TypeOK, Stopped, NobodyInside, SlotsKnown, Walked, Next
  PROVE  Walked'
<1>1. ASSUME fpc \in Draining
      PROVE  /\ UNCHANGED slots
             /\ \A s \in SlotIds : buffer'[s].held => buffer[s].held
  <2>1. \A t \in Threads : ~Acquire(t) /\ ~ThreadSlot(t)
    BY <1>1 DEF NobodyInside, Acquire, ThreadSlot, Inside
  <2>2. ASSUME NEW t \in Threads, ThreadAny(t) PROVE UNCHANGED slots
    BY <2>1, <2>2 DEF ThreadAny, ThreadStep, Begin, Enter, CheckAccepting, Number,
       CheckPaused, LockSlot, SubmitFull, AppendRecord, DropRecord, Leave, Teardown
  <2>3. UNCHANGED slots
    BY <2>2, WriterFrame, FinishFrame, NextCases
  <2> QED BY <2>1, <2>3, HeldShrinks
<1>2. \A i \in 1 .. Len(slots) : slots[i] \in SlotIds
  BY DEF TypeOK, SlotsType
<1>3. CASE UNCHANGED finisher
  BY <1>1, <1>2, <1>3 DEF Walked, Draining
<1>4. CASE Stop \/ NoProducers
  BY <1>4 DEF Stop, NoProducers, Walked
<1>5. CASE FinishLock
  BY <1>5 DEF FinishLock, Walked
<1>6. CASE FinishSlot
  <2>1. slots[fi] \in SlotIds
    BY <1>2, <1>6 DEF FinishSlot, TypeOK, FinishType
  <2>2. ~buffer'[slots[fi]].held
    BY <1>6, <2>1 DEF FinishSlot, SubmitSlot, None, TypeOK, SlotsType
  <2>3. fpc = "walk" /\ fpc' = "walk" /\ fi' = fi + 1 /\ fi \in Nat
    BY <1>6 DEF FinishSlot, TypeOK, FinishType
  <2>4. /\ UNCHANGED slots
        /\ \A i \in 1 .. Len(slots) : i < fi => ~buffer'[slots[i]].held
    BY <1>1, <1>2, <2>3 DEF Walked, Draining
  <2>5. \A i \in 1 .. Len(slots) : i < fi + 1 => i < fi \/ i = fi
    BY <2>3
  <2> QED BY <2>2, <2>3, <2>4, <2>5 DEF Walked
<1>7. CASE FinishUnlock
  <2>1. fi \in Nat /\ fi > Len(slots) /\ fpc = "walk" /\ fpc' = "close" /\ UNCHANGED buffer
    BY <1>7 DEF FinishUnlock, TypeOK, FinishType
  <2>2. \A i \in 1 .. Len(slots) : ~buffer[slots[i]].held
    BY <2>1 DEF Walked, TypeOK, SlotsType
  <2>3. \A s \in SlotIds : ~buffer[s].held
    BY <2>2 DEF SlotsKnown, Registered
  <2> QED BY <2>1, <2>3 DEF Walked
<1>8. CASE CloseQueue \/ Join
  BY <1>8 DEF CloseQueue, Join, Walked
<1> QED BY <1>3, <1>4, <1>5, <1>6, <1>7, <1>8, ThreadFrame, WriterFrame, NextCases
        DEF FinishAny, FinishStep

\* The writer ends only after the queue was closed, and the queue stays empty.
LEMMA QueueClosedStep ==
  ASSUME TypeOK, NobodyInside, QueueClosed, Next
  PROVE  QueueClosed'
<1>1. closing' <=> fpc' \in {"join", "joined"}
  <2>1. CASE UNCHANGED <<closing, fpc>>
    BY <2>1 DEF QueueClosed
  <2>2. CASE Stop \/ NoProducers \/ FinishLock \/ FinishSlot \/ FinishUnlock
    BY <2>2 DEF Stop, NoProducers, FinishLock, FinishSlot, FinishUnlock, QueueClosed
  <2>3. CASE CloseQueue \/ Join
    BY <2>3 DEF CloseQueue, Join, QueueClosed
  <2> QED BY <2>1, <2>2, <2>3, ThreadFrame, WriterFrame, NextCases DEF FinishAny, FinishStep
<1>2. wpc' \in Ending => closing' /\ full' = <<>>
  <2>1. ASSUME NEW t \in Threads, ThreadAny(t), wpc' \in Ending
        PROVE  closing' /\ full' = <<>>
    <3>1. UNCHANGED <<wpc, closing>> /\ closing /\ full = <<>>
      BY <2>1, ThreadFrame DEF QueueClosed
    <3>2. ~SubmitFull(t)
      BY <3>1 DEF QueueClosed, NobodyInside, Draining, SubmitFull, Inside
    <3>3. UNCHANGED full
      BY <2>1, <3>2 DEF ThreadAny, ThreadStep, Begin, Enter, CheckAccepting, Number,
         CheckPaused, ThreadSlot, LockSlot, Acquire, AppendRecord, DropRecord, Leave, Teardown
    <3> QED BY <3>1, <3>3
  <2>2. CASE NextClosed \/ Footer \/ FinishSegments
    BY <2>2 DEF NextClosed, Footer, FinishSegments, QueueClosed, Ending
  <2>3. CASE NextFull \/ Notified \/ Tick \/ ParseRecord \/ SendChunk \/ Recycle
    BY <2>3 DEF NextFull, Notified, Tick, ParseRecord, SendChunk, Recycle, Ending
  <2>4. CASE FlushLock \/ FlushSlot \/ FlushDone \/ FlushRows \/ NoCommand
    BY <2>4 DEF FlushLock, FlushSlot, FlushDone, FlushRows, NoCommand, Ending
  <2>5. ASSUME NEW c \in Commands, Command(c)
        PROVE  wpc' \notin Ending
    BY <2>5 DEF Command, Ending
  <2>6. ASSUME FinishAny, wpc' \in Ending
        PROVE  closing' /\ full' = <<>>
    <3>1. UNCHANGED wpc /\ closing /\ full = <<>>
      BY <2>6, FinishFrame DEF QueueClosed
    <3>2. fpc \in {"join", "joined"}
      BY <3>1 DEF QueueClosed
    <3> QED BY <2>6, <3>1, <3>2 DEF FinishAny, FinishStep, Stop, NoProducers, FinishLock,
            FinishSlot, FinishUnlock, CloseQueue, Join
  <2> QED BY <2>1, <2>2, <2>3, <2>4, <2>5, <2>6, NextCases DEF WriterAny, WriterStep
<1> QED BY <1>1, <1>2 DEF QueueClosed

\* The writer holds a buffer exactly while it drains it, and no allocations to
\* send otherwise.
LEMMA InHandStep ==
  ASSUME TypeOK, InHand, Next
  PROVE  InHand'
<1>1. CASE UNCHANGED writer
  BY <1>1 DEF InHand
<1>2. CASE NextFull
  BY <1>2 DEF NextFull, Held, InHand
<1>3. CASE NextClosed \/ Notified \/ Tick \/ FlushLock \/ FlushRows \/ NoCommand
  BY <1>3 DEF NextClosed, Notified, Tick, FlushLock, FlushRows, NoCommand, InHand
<1>4. CASE ParseRecord
  BY <1>4 DEF ParseRecord, InHand, TypeOK, ParsingType, BufferType
<1>5. CASE SendChunk
  BY <1>5 DEF SendChunk, InHand
<1>6. CASE Recycle
  BY <1>6 DEF Recycle, None, InHand
<1>7. CASE FlushSlot \/ FlushDone
  BY <1>7 DEF FlushSlot, FlushDone, InHand
<1>8. CASE Footer \/ FinishSegments
  BY <1>8 DEF Footer, FinishSegments, InHand
<1>9. ASSUME NEW c \in Commands, Command(c) PROVE InHand'
  BY <1>9 DEF Command, InHand
<1> QED BY <1>1, <1>2, <1>3, <1>4, <1>5, <1>6, <1>7, <1>8, <1>9, ThreadFrame, FinishFrame,
        NextCases DEF WriterAny, WriterStep

----------------------------------------------------------------------------
(* The inductive invariant and what follows from it *)

\* The invariant holds of a collector that was just started.
LEMMA InitIInv ==
  ASSUME Init
  PROVE  IInv
<1>1. SlotsType /\ QueueType /\ ParsingType
  <2>1. Late \in SlotIds
    BY DEF SlotIds
  <2>2. slots \in Seq(SlotIds)
    BY <2>1 DEF Init
  <2>3. full \in Seq(Seq(Entry)) /\ batch \in Seq(Entry) /\ parsed \in Seq(Entry)
    BY DEF Init
  <2> QED BY <2>2, <2>3, PoolAssumption, NoneType DEF Init, SlotsType, QueueType, ParsingType
<1>2. FlagsType /\ CountersType /\ ThreadsType /\ WriterType /\ FinishType
  <2>1. CountersType
    BY DEF Init, CountersType
  <2>2. ThreadsType
    BY DEF Init, ThreadsType, Inside
  <2>3. WriterType /\ FinishType
    BY DEF Init, WriterType, FinishType
  <2>4. accepting \in BOOLEAN /\ paused \in BOOLEAN
    BY DEF Init
  <2>5. producers \in Nat
    BY DEF Init
  <2> QED BY <2>1, <2>2, <2>3, <2>4, <2>5 DEF FlagsType
<1>3. SendingType
  BY DEF Init, SendingType
<1>4. ProducersCounted
  <2>1. Guarded = {}
    BY DEF Init, Guarded
  <2> QED BY <2>1, FS_EmptySet DEF Init, ProducersCounted
<1>5. Stopped /\ NobodyInside /\ Walked /\ QueueClosed /\ InHand
  BY DEF Init, Stopped, NobodyInside, Draining, Walked, QueueClosed, Ending, InHand, None
<1>6. SlotsKnown
  <2>1. Late \in Registered
    BY DEF Init, Registered
  <2> QED BY <2>1 DEF Init, SlotsKnown, None, InsideSlot
<1> QED BY <1>1, <1>2, <1>3, <1>4, <1>5, <1>6 DEF IInv, TypeOK

\* Every step keeps the invariant.
LEMMA NextIInv ==
  ASSUME IInv, [Next]_vars
  PROVE  IInv'
<1>1. CASE Next
  BY <1>1, TypeStep, GuardStep, StoppedStep, NobodyInsideStep, SlotsKnownStep, WalkedStep,
     QueueClosedStep, InHandStep DEF IInv
<1>2. CASE UNCHANGED vars
  <2>1. TypeOK'
    BY <1>2 DEF IInv, vars, TypeOK, FlagsType, SlotsType, CountersType, QueueType,
       ThreadsType, WriterType, ParsingType, SendingType, FinishType
  <2>2. ProducersCounted' /\ Stopped' /\ NobodyInside'
    BY <1>2 DEF IInv, vars, ProducersCounted, Guarded, Stopped, NobodyInside
  <2>3. SlotsKnown' /\ Walked' /\ QueueClosed' /\ InHand'
    BY <1>2 DEF IInv, vars, SlotsKnown, Registered, SlotOf, Walked, QueueClosed, InHand
  <2> QED BY <2>1, <2>2, <2>3 DEF IInv
<1> QED BY <1>1, <1>2

\* The invariant holds in every reachable state.
THEOREM Inductive == Spec => []IInv
<1>1. Init => IInv
  BY InitIInv
<1>2. IInv /\ [Next]_vars => IInv'
  BY NextIInv
<1> QED BY <1>1, <1>2, PTL DEF Spec

\* Every variable keeps its type; in particular the producer counter never
\* underflows, whichever early return of record or record_allocation is taken.
THEOREM TypeCorrect == Spec => []TypeOK
<1>1. IInv => TypeOK
  BY DEF IInv
<1> QED BY <1>1, Inductive, PTL

\* When the writer has seen the queue closed and empty, no thread is past its
\* check of accepting and no record is left in a slot, the queue or the writer,
\* for any number of threads and buffers (ProducerGuard against finish).
THEOREM Drained == Spec => []DrainedAtClose
<1>1. IInv => DrainedAtClose
  <2>1. SUFFICES ASSUME IInv, wpc \in Ending PROVE DrainedAtClose
    BY DEF DrainedAtClose, Ending
  <2>2. closing /\ full = <<>> /\ fpc \in {"join", "joined"}
    BY <2>1 DEF IInv, QueueClosed
  <2>3. \A t \in Threads : pc[t] \notin Inside
    BY <2>1, <2>2 DEF IInv, NobodyInside, Draining
  <2>4. \A s \in SlotIds : ~buffer[s].held
    BY <2>1, <2>2 DEF IInv, Walked
  <2>5. ~cur.held /\ batch = <<>> /\ (wpc = "done" => unflushed = 0)
    BY <2>1 DEF IInv, InHand, Ending
  <2> QED BY <2>2, <2>3, <2>4, <2>5 DEF DrainedAtClose
<1> QED BY <1>1, Inductive, PTL

----------------------------------------------------------------------------
(* Buffers: the slot mutex, the room it protects and the pool *)

\* At most one thread holds a slot's mutex.
SlotMutex ==
  \A t, u \in Threads :
    pc[t] \in Holding /\ pc[u] \in Holding /\ SlotOf(t) = SlotOf(u) => t = u

\* What a thread established under the slot's mutex still holds when it uses it.
Emptied == \A t \in Threads : pc[t] = "acquire" => ~buffer[SlotOf(t)].held

RoomMade ==
  \A t \in Threads :
    pc[t] = "append" /\ buffer[SlotOf(t)].held => HasRoom(buffer[SlotOf(t)].data, kind[t])

BInv ==
  /\ IInv /\ SlotMutex /\ Emptied /\ RoomMade /\ WithinCapacity /\ BuffersAccounted

\* A thread that is in Holding after a step was there before, or just locked its slot.
LEMMA HoldingSince ==
  ASSUME TypeOK, Next, NEW u \in Threads, pc'[u] \in Holding
  PROVE  (pc[u] \in Holding \/ LockSlot(u)) /\ tls'[u] = tls[u]
<1> USE DEF TypeOK, ThreadsType, Holding
<1>1. CASE UNCHANGED threads
  BY <1>1
<1>2. ASSUME NEW t \in Threads, ThreadAny(t), t # u
      PROVE  pc'[u] = pc[u] /\ tls'[u] = tls[u]
  BY <1>2 DEF ThreadAny, ThreadStep, Begin, Enter, CheckAccepting, Number, CheckPaused,
     ThreadSlot, LockSlot, SubmitFull, Acquire, AppendRecord, DropRecord, Leave, Teardown
<1>3. CASE LockSlot(u)
  BY <1>3 DEF LockSlot
<1>4. CASE SubmitFull(u) \/ Acquire(u) \/ AppendRecord(u) \/ DropRecord(u)
  BY <1>4 DEF SubmitFull, Acquire, AppendRecord, DropRecord
<1>5. CASE \/ Enter(u) \/ CheckAccepting(u) \/ Number(u) \/ CheckPaused(u) \/ ThreadSlot(u)
           \/ Leave(u) \/ \E k \in Kinds : Begin(u, k)
  BY <1>5 DEF Enter, CheckAccepting, Admitted, Number, CheckPaused, ThreadSlot, Leave, Begin
<1>6. CASE Teardown(u)
  BY <1>6 DEF Teardown
<1> QED BY <1>1, <1>2, <1>3, <1>4, <1>5, <1>6, WriterFrame, FinishFrame, NextCases
        DEF ThreadAny, ThreadStep

\* A slot's mutex excludes: LockSlot is the only way into Holding.
LEMMA SlotMutexStep ==
  ASSUME TypeOK, SlotMutex, Next
  PROVE  SlotMutex'
<1>1. ASSUME NEW t \in Threads, NEW u \in Threads, t # u,
             pc'[t] \in Holding, pc'[u] \in Holding, SlotOf(t)' = SlotOf(u)',
             LockSlot(t)
      PROVE  FALSE
  <2>1. pc'[u] = pc[u] /\ UNCHANGED tls
    BY <1>1 DEF LockSlot, TypeOK, ThreadsType
  <2>2. pc[u] \in Holding /\ SlotOf(u) = SlotOf(t)
    BY <1>1, <2>1 DEF SlotOf
  <2> QED BY <1>1, <2>2 DEF LockSlot, Busy
<1>2. ASSUME NEW t \in Threads, NEW u \in Threads,
             pc'[t] \in Holding, pc'[u] \in Holding, SlotOf(t)' = SlotOf(u)'
      PROVE  t = u
  <2>1. /\ pc[t] \in Holding \/ LockSlot(t)
        /\ pc[u] \in Holding \/ LockSlot(u)
        /\ SlotOf(t)' = SlotOf(t) /\ SlotOf(u)' = SlotOf(u)
    BY <1>2, HoldingSince DEF SlotOf
  <2>2. CASE pc[t] \in Holding /\ pc[u] \in Holding
    BY <1>2, <2>1, <2>2 DEF SlotMutex
  <2>3. CASE LockSlot(t)
    BY <1>1, <1>2, <2>3
  <2>4. CASE LockSlot(u)
    BY <1>1, <1>2, <2>4
  <2> QED BY <2>1, <2>2, <2>3, <2>4
<1> QED BY <1>2 DEF SlotMutex

\* While a thread holds its slot's mutex and takes no step, nobody touches the
\* slot's buffer: not another thread with the same slot, not flush_slots and not
\* finish.
LEMMA SlotUntouched ==
  ASSUME TypeOK, SlotMutex, Next, NEW t \in Threads, pc[t] \in Holding, pc'[t] = pc[t]
  PROVE  /\ buffer'[SlotOf(t)] = buffer[SlotOf(t)]
         /\ SlotOf(t)' = SlotOf(t) /\ kind'[t] = kind[t]
<1>1. SlotOf(t) \in SlotIds /\ SlotOf(t)' = SlotOf(t)
  BY SlotOfType, HoldingSince DEF SlotOf, TypeOK
<1>2. ASSUME NEW u \in Threads, ThreadAny(u)
      PROVE  buffer'[SlotOf(t)] = buffer[SlotOf(t)] /\ kind'[t] = kind[t]
  <2> USE DEF TypeOK, ThreadsType
  <2>1. u # t
    BY <1>2 DEF ThreadAny, ThreadStep, Begin, Enter, CheckAccepting, Number, CheckPaused,
       ThreadSlot, LockSlot, SubmitFull, Acquire, AppendRecord, DropRecord, Leave, Teardown,
       Holding, Admitted
  <2>2. kind'[t] = kind[t]
    BY <1>2, <2>1 DEF ThreadAny, ThreadStep, Begin, Enter, CheckAccepting, Number,
       CheckPaused, ThreadSlot, LockSlot, SubmitFull, Acquire, AppendRecord, DropRecord,
       Leave, Teardown
  <2>3. pc[u] \in Holding => SlotOf(u) # SlotOf(t)
    BY <2>1 DEF SlotMutex
  <2>4. SlotOf(u) \in SlotIds
    BY SlotOfType
  <2>5. CASE SubmitFull(u) \/ Acquire(u) \/ AppendRecord(u)
    <3>1. SlotOf(u) # SlotOf(t)
      BY <2>3, <2>5 DEF SubmitFull, Acquire, AppendRecord, Holding
    <3> QED BY <1>1, <2>2, <2>4, <2>5, <3>1 DEF SubmitFull, SubmitSlot, Acquire, AppendRecord,
            SlotsType
  <2>6. CASE ~SubmitFull(u) /\ ~Acquire(u) /\ ~AppendRecord(u)
    BY <1>2, <2>2, <2>6 DEF ThreadAny, ThreadStep, Begin, Enter, CheckAccepting, Number,
       CheckPaused, ThreadSlot, LockSlot, DropRecord, Leave, Teardown
  <2> QED BY <2>5, <2>6
<1>3. Busy(SlotOf(t))
  BY DEF Busy
<1>4. CASE FlushSlot
  BY <1>1, <1>3, <1>4 DEF FlushSlot, SubmitSlot, TypeOK, SlotsType, WriterType
<1>5. CASE FinishSlot
  BY <1>1, <1>3, <1>5 DEF FinishSlot, SubmitSlot, TypeOK, SlotsType, FinishType
<1>6. ASSUME WriterAny, ~FlushSlot PROVE UNCHANGED buffer
  BY <1>6 DEF WriterAny, WriterStep, NextFull, NextClosed, Notified, Tick, ParseRecord,
     SendChunk, Recycle, FlushLock, FlushDone, FlushRows, NoCommand, Footer, FinishSegments,
     Command
<1>7. ASSUME FinishAny, ~FinishSlot PROVE UNCHANGED buffer
  BY <1>7 DEF FinishAny, FinishStep, Stop, NoProducers, FinishLock, FinishUnlock, CloseQueue,
     Join
<1>8. WriterAny \/ FinishAny => UNCHANGED kind
  BY WriterFrame, FinishFrame
<1> QED BY <1>1, <1>2, <1>4, <1>5, <1>6, <1>7, <1>8, NextCases

\* How a thread gets to acquire and to append.
LEMMA ArrivesByOwnStep ==
  ASSUME TypeOK, Next, NEW t \in Threads, pc'[t] \in {"acquire", "append"}
  PROVE  pc'[t] = pc[t] \/ SubmitFull(t) \/ (Acquire(t) /\ pc'[t] = "append")
<1> USE DEF TypeOK, ThreadsType
<1>1. ASSUME NEW u \in Threads, ThreadAny(u), u # t PROVE pc'[t] = pc[t]
  BY <1>1 DEF ThreadAny, ThreadStep, Begin, Enter, CheckAccepting, Number, CheckPaused,
     ThreadSlot, LockSlot, SubmitFull, Acquire, AppendRecord, DropRecord, Leave, Teardown
<1>2. ASSUME ThreadAny(t), ~SubmitFull(t), ~Acquire(t) PROVE pc'[t] = pc[t]
  BY <1>2 DEF ThreadAny, ThreadStep, Begin, Enter, CheckAccepting, Admitted, Number,
     CheckPaused, ThreadSlot, LockSlot, AppendRecord, DropRecord, Leave, Teardown
<1>3. Acquire(t) => pc'[t] = "append"
  BY DEF Acquire
<1>4. CASE WriterAny \/ FinishAny
  BY <1>4, WriterFrame, FinishFrame
<1> QED BY <1>1, <1>2, <1>3, <1>4, NextCases

\* An emptied slot stays empty until the thread acquires a buffer, and the room
\* it found stays until it appends.
LEMMA SlotFactsStep ==
  ASSUME TypeOK, SlotMutex, Emptied, RoomMade, Next
  PROVE  Emptied' /\ RoomMade'
<1>1. ASSUME NEW t \in Threads, pc'[t] = "acquire"
      PROVE  ~buffer'[SlotOf(t)'].held
  <2>1. SlotOf(t) \in SlotIds
    BY SlotOfType DEF TypeOK
  <2>2. CASE pc'[t] = pc[t]
    BY <1>1, <2>2, SlotUntouched DEF Emptied, Holding
  <2>3. CASE SubmitFull(t)
    BY <1>1, <2>1, <2>3 DEF SubmitFull, SubmitSlot, None, SlotOf, TypeOK, SlotsType, ThreadsType
  <2> QED BY <1>1, <2>2, <2>3, ArrivesByOwnStep
<1>2. ASSUME NEW t \in Threads, pc'[t] = "append", buffer'[SlotOf(t)'].held
      PROVE  HasRoom(buffer'[SlotOf(t)'].data, kind'[t])
  <2>1. SlotOf(t) \in SlotIds
    BY SlotOfType DEF TypeOK
  <2>2. CASE pc'[t] = pc[t]
    BY <1>2, <2>2, SlotUntouched DEF RoomMade, Holding
  <2>3. CASE SubmitFull(t)
    <3>1. buffer[SlotOf(t)].held /\ HasRoom(buffer[SlotOf(t)].data, kind[t])
      BY <1>2, <2>3 DEF SubmitFull, TypeOK, ThreadsType
    <3>2. UNCHANGED <<buffer, kind, tls>>
      BY <2>3, <3>1 DEF SubmitFull
    <3> QED BY <3>1, <3>2 DEF SlotOf
  <2>4. CASE Acquire(t)
    <3>1. UNCHANGED <<kind, tls>> /\ SlotOf(t)' = SlotOf(t)
      BY <2>4 DEF Acquire, SlotOf
    <3>2. ~buffer[SlotOf(t)].held
      BY <2>4 DEF Acquire, Emptied
    <3>3. buffer'[SlotOf(t)] = Held(<<>>)
      BY <1>2, <2>1, <2>4, <3>1, <3>2 DEF Acquire, TypeOK, SlotsType
    <3>4. HasRoom(<<>>, kind[t])
      BY BufCapAssumption DEF HasRoom, Need
    <3> QED BY <3>1, <3>3, <3>4 DEF Held
  <2> QED BY <1>2, <2>2, <2>3, <2>4, ArrivesByOwnStep
<1> QED BY <1>1, <1>2 DEF Emptied, RoomMade

\* Which actions move or change a buffer.
BufferMoves ==
  \/ \E t \in Threads : SubmitFull(t) \/ Acquire(t) \/ AppendRecord(t)
  \/ NextFull \/ ParseRecord \/ Recycle \/ FlushSlot \/ FinishSlot

\* The remaining actions leave every buffer where it is.
LEMMA BuffersStill ==
  ASSUME Next, ~BufferMoves
  PROVE  UNCHANGED <<buffer, pool, full, cur, parsed, appended>>
<1>1. ASSUME NEW t \in Threads, ThreadAny(t)
      PROVE  UNCHANGED <<buffer, pool, full, cur, parsed, appended>>
  BY <1>1 DEF BufferMoves, ThreadAny, ThreadStep, Begin, Enter, CheckAccepting, Number,
     CheckPaused, ThreadSlot, LockSlot, DropRecord, Leave, Teardown
<1>2. CASE WriterAny
  BY <1>2 DEF BufferMoves, WriterAny, WriterStep, NextClosed, Notified, Tick, SendChunk,
     FlushLock, FlushDone, FlushRows, NoCommand, Footer, FinishSegments, Command
<1>3. CASE FinishAny
  BY <1>3 DEF BufferMoves, FinishAny, FinishStep, Stop, NoProducers, FinishLock,
     FinishUnlock, CloseQueue, Join
<1> QED BY <1>1, <1>2, <1>3, NextCases

\* BufferQueue::submit moves one buffer from its slot to the queue.
LEMMA SubmitMoves ==
  ASSUME TypeOK, WithinCapacity, NEW s \in SlotIds, buffer[s].held, SubmitSlot(s),
         UNCHANGED <<pool, cur>>
  PROVE  /\ WithinCapacity'
         /\ BuffersAccounted => BuffersAccounted'
<1>1. full' = Append(full, buffer[s].data) /\ buffer' = [buffer EXCEPT ![s] = None]
  BY DEF SubmitSlot
<1>2. full \in Seq(Seq(Entry)) /\ buffer[s].data \in Seq(Entry)
  BY DEF TypeOK, QueueType, SlotsType, BufferType
<1>3. Len(full') = Len(full) + 1 /\ full'[Len(full) + 1] = buffer[s].data
      /\ \A i \in 1 .. Len(full) : full'[i] = full[i]
  BY <1>1, <1>2
<1>4. WithinCapacity'
  <2>1. \A r \in SlotIds : Len(buffer'[r].data) <= BufCap
    BY <1>1, BufCapAssumption DEF WithinCapacity, None, TypeOK, SlotsType
  <2>2. \A i \in 1 .. Len(full') : i \in 1 .. Len(full) \/ i = Len(full) + 1
    BY <1>2, <1>3
  <2>3. \A i \in 1 .. Len(full') : Len(full'[i]) <= BufCap
    BY <1>3, <2>2 DEF WithinCapacity
  <2> QED BY <2>1, <2>3 DEF WithinCapacity
<1>5. ASSUME BuffersAccounted PROVE BuffersAccounted'
  <2>1. s \in HeldSlots /\ HeldSlots' = HeldSlots \ {s}
    BY <1>1 DEF HeldSlots, None, TypeOK, SlotsType
  <2>2. IsFiniteSet(HeldSlots)
    BY ThreadsAssumption, FS_AddElement, FS_Subset DEF HeldSlots, SlotIds
  <2>3. Cardinality(HeldSlots') = Cardinality(HeldSlots) - 1 /\ Cardinality(HeldSlots) \in Nat
    BY <2>1, <2>2, FS_RemoveElement, FS_CardinalityType
  <2>4. pool \in Nat /\ Len(full) \in Nat
    BY <1>2 DEF TypeOK, QueueType
  <2>5. pool' = pool /\ cur'.held = cur.held
    OBVIOUS
  <2>6. PICK c \in {0, 1} : c = (IF cur.held THEN 1 ELSE 0)
    OBVIOUS
  <2>7. pool + Cardinality(HeldSlots) + Len(full) + c = Pool
    BY <1>5, <2>6 DEF BuffersAccounted
  <2>8. pool' + Cardinality(HeldSlots') + Len(full') + c = Pool
    BY <1>3, <2>3, <2>4, <2>5, <2>7
  <2> QED BY <2>5, <2>6, <2>8 DEF BuffersAccounted
<1> QED BY <1>4, <1>5

\* No step makes a buffer outgrow its capacity.
LEMMA CapacityStep ==
  ASSUME TypeOK, RoomMade, WithinCapacity, Next
  PROVE  WithinCapacity'
<1>1. CASE ~BufferMoves
  BY <1>1, BuffersStill DEF WithinCapacity
<1>2. ASSUME NEW t \in Threads, SubmitFull(t) PROVE WithinCapacity'
  <2>1. SlotOf(t) \in SlotIds
    BY SlotOfType DEF TypeOK
  <2>2. CASE UNCHANGED <<full, buffer>>
    BY <1>2, <2>2 DEF SubmitFull, WithinCapacity
  <2>3. CASE buffer[SlotOf(t)].held /\ SubmitSlot(SlotOf(t))
    BY <1>2, <2>1, <2>3, SubmitMoves DEF SubmitFull
  <2> QED BY <1>2, <2>2, <2>3 DEF SubmitFull
<1>3. ASSUME NEW t \in Threads, Acquire(t) PROVE WithinCapacity'
  <2>1. UNCHANGED <<full, cur>>
    BY <1>3 DEF Acquire
  <2>2. \A s \in SlotIds : buffer'[s] = buffer[s] \/ buffer'[s] = Held(<<>>)
    BY <1>3 DEF Acquire, TypeOK, SlotsType
  <2>3. Len(Held(<<>>).data) = 0
    BY DEF Held
  <2>4. \A s \in SlotIds : Len(buffer'[s].data) <= BufCap
    BY <2>2, <2>3, BufCapAssumption DEF WithinCapacity
  <2> QED BY <2>1, <2>4 DEF WithinCapacity
<1>4. ASSUME NEW t \in Threads, AppendRecord(t) PROVE WithinCapacity'
  <2> DEFINE s == SlotOf(t)
             lead == IF kind[t] = "event" THEN LossRow(s) ELSE <<>>
             d == buffer[s].data \o lead \o Row(t, s)
  <2>1. s \in SlotIds
    BY SlotOfType DEF TypeOK
  <2>2. buffer[s].data \in Seq(Entry)
    BY <2>1 DEF TypeOK, SlotsType, BufferType
  <2>3. LossRow(s) \in Seq(Entry) /\ Row(t, s) \in Seq(Entry) /\ lead \in Seq(Entry)
    BY <2>1, RowsType, EmptyType DEF TypeOK
  <2>4. Len(LossRow(s)) <= 1 /\ Len(Row(t, s)) = 1
    BY DEF LossRow, Row
  <2>5. Len(lead) + Len(Row(t, s)) <= Need(kind[t])
    <3>1. CASE kind[t] = "event"
      BY <2>3, <2>4, <3>1 DEF Need
    <3>2. CASE kind[t] # "event"
      BY <2>4, <3>2 DEF Need
    <3> QED BY <3>1, <3>2
  <2>6. Len(buffer[s].data) + Need(kind[t]) <= BufCap
    BY <1>4, <2>1 DEF AppendRecord, RoomMade, HasRoom
  <2>7. Len(d) = Len(buffer[s].data) + Len(lead) + Len(Row(t, s))
    BY <2>2, <2>3
  <2>8. buffer' = [buffer EXCEPT ![s].data = d] /\ UNCHANGED <<full, cur>>
    BY <1>4 DEF AppendRecord
  <2>9. Len(d) <= BufCap
    <3>1. /\ Len(buffer[s].data) \in Nat /\ Len(lead) \in Nat /\ Len(Row(t, s)) \in Nat
          /\ Need(kind[t]) \in Nat
      BY <2>2, <2>3 DEF Need
    <3> HIDE DEF d, lead, s
    <3> QED BY <2>5, <2>6, <2>7, <3>1, BufCapAssumption
  <2> HIDE DEF d
  <2>10. \A r \in SlotIds : Len(buffer'[r].data) <= BufCap
    BY <2>1, <2>8, <2>9 DEF WithinCapacity, TypeOK, SlotsType, BufferType
  <2> QED BY <2>8, <2>10 DEF WithinCapacity
<1>5. CASE NextFull
  <2>1. full \in Seq(Seq(Entry)) /\ full # <<>>
    BY <1>5 DEF NextFull, TypeOK, QueueType
  <2>2. /\ Len(Tail(full)) = Len(full) - 1
        /\ \A i \in 1 .. Len(full) - 1 : Tail(full)[i] = full[i + 1]
        /\ Head(full) = full[1] /\ Len(full) \in Nat /\ Len(full) >= 1
    BY <2>1
  <2>3. \A i \in 1 .. Len(Tail(full)) : Len(Tail(full)[i]) <= BufCap
    BY <2>2 DEF WithinCapacity
  <2>4. Len(Held(Head(full)).data) <= BufCap
    BY <2>2 DEF WithinCapacity, Held
  <2> QED BY <1>5, <2>3, <2>4 DEF NextFull, WithinCapacity
<1>6. CASE ParseRecord
  <2>1. cur.data \in Seq(Entry) /\ cur.data # <<>> /\ cur'.data = Tail(cur.data)
    BY <1>6 DEF ParseRecord, TypeOK, ParsingType, BufferType
  <2>2. Len(cur'.data) <= Len(cur.data)
    BY <2>1
  <2>3. Len(cur'.data) <= BufCap
    BY <2>1, <2>2, BufCapAssumption DEF WithinCapacity
  <2> QED BY <1>6, <2>3 DEF ParseRecord, WithinCapacity
<1>7. CASE Recycle
  BY <1>7, BufCapAssumption DEF Recycle, None, WithinCapacity
<1>8. CASE FlushSlot
  <2>1. slots[wi] \in SlotIds
    BY <1>8 DEF FlushSlot, TypeOK, SlotsType, WriterType
  <2> QED BY <1>8, <2>1, SubmitMoves DEF FlushSlot, WithinCapacity
<1>9. CASE FinishSlot
  <2>1. slots[fi] \in SlotIds
    BY <1>9 DEF FinishSlot, TypeOK, SlotsType, FinishType
  <2> QED BY <1>9, <2>1, SubmitMoves DEF FinishSlot, WithinCapacity
<1> QED BY <1>1, <1>2, <1>3, <1>4, <1>5, <1>6, <1>7, <1>8, <1>9 DEF BufferMoves

\* No step loses or makes a buffer.
LEMMA AccountedStep ==
  ASSUME TypeOK, Emptied, InHand, WithinCapacity, BuffersAccounted, Next
  PROVE  BuffersAccounted'
<1> DEFINE hand == IF cur.held THEN 1 ELSE 0
<1>1. IsFiniteSet(HeldSlots) /\ Cardinality(HeldSlots) \in Nat
  BY ThreadsAssumption, FS_AddElement, FS_Subset, FS_CardinalityType DEF HeldSlots, SlotIds
<1>2. pool \in Nat /\ Len(full) \in Nat /\ hand \in Nat
  BY DEF TypeOK, QueueType
<1>3. CASE ~BufferMoves
  BY <1>3, BuffersStill DEF BuffersAccounted, HeldSlots
<1>4. ASSUME NEW t \in Threads, SubmitFull(t) PROVE BuffersAccounted'
  <2>1. SlotOf(t) \in SlotIds
    BY SlotOfType DEF TypeOK
  <2>2. CASE UNCHANGED <<full, buffer>>
    BY <1>4, <2>2 DEF SubmitFull, BuffersAccounted, HeldSlots
  <2>3. CASE buffer[SlotOf(t)].held /\ SubmitSlot(SlotOf(t))
    BY <1>4, <2>1, <2>3, SubmitMoves DEF SubmitFull
  <2> QED BY <1>4, <2>2, <2>3 DEF SubmitFull
<1>5. ASSUME NEW t \in Threads, Acquire(t) PROVE BuffersAccounted'
  <2>1. CASE pool = 0
    BY <1>5, <2>1 DEF Acquire, BuffersAccounted, HeldSlots
  <2>2. CASE pool > 0
    <3>1. SlotOf(t) \in SlotIds \ HeldSlots
      BY <1>5, SlotOfType DEF Acquire, Emptied, HeldSlots, TypeOK
    <3>2. HeldSlots' = HeldSlots \cup {SlotOf(t)}
      BY <1>5, <2>2, <3>1 DEF Acquire, Held, HeldSlots, TypeOK, SlotsType
    <3>3. Cardinality(HeldSlots') = Cardinality(HeldSlots) + 1
      BY <1>1, <3>1, <3>2, FS_AddElement
    <3>4. pool' = pool - 1 /\ UNCHANGED <<full, cur>>
      BY <1>5, <2>2 DEF Acquire
    <3> QED BY <1>1, <1>2, <3>3, <3>4 DEF BuffersAccounted
  <2> QED BY <1>2, <2>1, <2>2
<1>6. ASSUME NEW t \in Threads, AppendRecord(t) PROVE BuffersAccounted'
  <2>1. \A s \in SlotIds : buffer'[s].held = buffer[s].held
    BY <1>6 DEF AppendRecord, TypeOK, SlotsType, BufferType
  <2>2. HeldSlots' = HeldSlots
    BY <2>1 DEF HeldSlots
  <2> QED BY <1>6, <2>2 DEF AppendRecord, BuffersAccounted
<1>7. CASE NextFull
  <2>1. ~cur.held /\ cur'.held
    BY <1>7 DEF NextFull, Held, InHand
  <2>2. Len(full') = Len(full) - 1
    BY <1>7 DEF NextFull, TypeOK, QueueType
  <2>3. UNCHANGED <<pool, buffer>>
    BY <1>7 DEF NextFull
  <2>4. HeldSlots' = HeldSlots
    BY <2>3 DEF HeldSlots
  <2> QED BY <1>1, <1>2, <2>1, <2>2, <2>3, <2>4 DEF BuffersAccounted
<1>8. CASE ParseRecord
  <2>1. cur'.held = cur.held
    BY <1>8 DEF ParseRecord, TypeOK, ParsingType, BufferType
  <2> QED BY <1>8, <2>1 DEF ParseRecord, BuffersAccounted, HeldSlots
<1>9. CASE Recycle
  <2>1. cur.held /\ ~cur'.held
    BY <1>9 DEF Recycle, None, InHand
  <2>2. pool' = pool + 1 /\ UNCHANGED <<full, buffer>>
    BY <1>9 DEF Recycle
  <2>3. HeldSlots' = HeldSlots
    BY <2>2 DEF HeldSlots
  <2> QED BY <1>1, <1>2, <2>1, <2>2, <2>3 DEF BuffersAccounted
<1>10. CASE FlushSlot
  <2>1. slots[wi] \in SlotIds
    BY <1>10 DEF FlushSlot, TypeOK, SlotsType, WriterType
  <2> QED BY <1>10, <2>1, SubmitMoves DEF FlushSlot, BuffersAccounted, HeldSlots
<1>11. CASE FinishSlot
  <2>1. slots[fi] \in SlotIds
    BY <1>11 DEF FinishSlot, TypeOK, SlotsType, FinishType
  <2> QED BY <1>11, <2>1, SubmitMoves DEF FinishSlot, BuffersAccounted, HeldSlots
<1> QED BY <1>3, <1>4, <1>5, <1>6, <1>7, <1>8, <1>9, <1>10, <1>11 DEF BufferMoves

\* The buffer invariant holds of a collector that was just started.
LEMMA InitBInv ==
  ASSUME Init
  PROVE  BInv
<1>1. HeldSlots = {}
  BY DEF Init, HeldSlots, None
<1>2. BuffersAccounted
  BY <1>1, PoolAssumption, FS_EmptySet DEF Init, BuffersAccounted, None
<1>3. WithinCapacity
  BY BufCapAssumption DEF Init, WithinCapacity, None
<1>4. SlotMutex /\ Emptied /\ RoomMade
  BY DEF Init, SlotMutex, Emptied, RoomMade, Holding
<1> QED BY <1>2, <1>3, <1>4, InitIInv DEF BInv

\* Every step keeps the buffer invariant.
LEMMA NextBInv ==
  ASSUME BInv, [Next]_vars
  PROVE  BInv'
<1>1. CASE Next
  <2>1. IInv'
    BY <1>1, NextIInv DEF BInv
  <2> QED BY <1>1, <2>1, SlotMutexStep, SlotFactsStep, CapacityStep, AccountedStep
          DEF BInv, IInv
<1>2. CASE UNCHANGED vars
  <2>1. IInv'
    BY <1>2, NextIInv DEF BInv
  <2> QED BY <1>2, <2>1 DEF BInv, vars, SlotMutex, Emptied, RoomMade, WithinCapacity,
          BuffersAccounted, HeldSlots, SlotOf
<1> QED BY <1>1, <1>2

\* The buffer invariant holds in every reachable state.
THEOREM BuffersInductive == Spec => []BInv
<1>1. Init => BInv
  BY InitBInv
<1>2. BInv /\ [Next]_vars => BInv'
  BY NextBInv
<1> QED BY <1>1, <1>2, PTL DEF Spec

\* The room record reserves is still there when it appends: no buffer outgrows
\* its capacity, whatever other threads, flush_slots and finish do meanwhile.
THEOREM Capacity == Spec => []WithinCapacity
<1>1. BInv => WithinCapacity
  BY DEF BInv
<1> QED BY <1>1, BuffersInductive, PTL

\* No buffer leaks and none is made: the pool, the slots, the queue and the
\* writer's hand hold POOL_BUFFERS buffers between them in every state.
THEOREM Accounted == Spec => []BuffersAccounted
<1>1. BInv => BuffersAccounted
  BY DEF BInv
<1> QED BY <1>1, BuffersInductive, PTL

----------------------------------------------------------------------------
(* Records: where they are, in which order and how many *)

\* The numbers of the records of slot s in a sequence.
NumbersIn(seq, s) == {seq[i].n : i \in Mine(seq, s)}

\* Which sequence comes before which is a matter of the numbers they hold.
LEMMA BeforeByNumbers ==
  ASSUME NEW a, NEW b, NEW s
  PROVE  Before(a, b, s) <=> \A m \in NumbersIn(a, s), n \in NumbersIn(b, s) : m < n
BY DEF Before, NumbersIn

\* An empty sequence holds no number.
LEMMA EmptyNumbers ==
  ASSUME NEW s
  PROVE  NumbersIn(<<>>, s) = {} /\ Ordered(<<>>, s)
BY DEF NumbersIn, Mine, Ordered

\* Where the elements of a joined sequence are.
LEMMA ConcatPositions ==
  ASSUME NEW S, NEW a \in Seq(S), NEW b \in Seq(S)
  PROVE  /\ a \o b \in Seq(S) /\ Len(a \o b) = Len(a) + Len(b)
         /\ Len(a) \in Nat /\ Len(b) \in Nat
         /\ DOMAIN a = 1 .. Len(a) /\ DOMAIN b = 1 .. Len(b)
         /\ DOMAIN (a \o b) = 1 .. (Len(a) + Len(b))
         /\ \A i \in 1 .. Len(a) : (a \o b)[i] = a[i]
         /\ \A i \in 1 .. Len(b) : (a \o b)[Len(a) + i] = b[i]
OBVIOUS

\* Joining two sequences joins their numbers.
LEMMA ConcatNumbers ==
  ASSUME NEW a \in Seq(Entry), NEW b \in Seq(Entry), NEW s
  PROVE  NumbersIn(a \o b, s) = NumbersIn(a, s) \cup NumbersIn(b, s)
<1>1. /\ a \o b \in Seq(Entry) /\ Len(a \o b) = Len(a) + Len(b)
      /\ Len(a) \in Nat /\ Len(b) \in Nat
      /\ \A i \in 1 .. Len(a) : (a \o b)[i] = a[i]
      /\ \A i \in 1 .. Len(b) : (a \o b)[Len(a) + i] = b[i]
  BY ConcatPositions
<1>2. /\ DOMAIN a = 1 .. Len(a) /\ DOMAIN b = 1 .. Len(b)
      /\ DOMAIN (a \o b) = 1 .. (Len(a) + Len(b))
  BY ConcatPositions
<1>3. ASSUME NEW n \in NumbersIn(a \o b, s)
      PROVE  n \in NumbersIn(a, s) \cup NumbersIn(b, s)
  <2>1. PICK i \in Mine(a \o b, s) : n = (a \o b)[i].n
    BY DEF NumbersIn
  <2>2. CASE i <= Len(a)
    BY <1>1, <1>2, <2>1, <2>2 DEF NumbersIn, Mine
  <2>3. CASE i > Len(a)
    <3>1. i - Len(a) \in 1 .. Len(b) /\ (a \o b)[i] = b[i - Len(a)]
      BY <1>1, <1>2, <2>1, <2>3 DEF Mine
    <3> QED BY <1>2, <2>1, <3>1 DEF NumbersIn, Mine
  <2> QED BY <1>1, <1>2, <2>1, <2>2, <2>3 DEF Mine
<1>4. ASSUME NEW n \in NumbersIn(a, s) PROVE n \in NumbersIn(a \o b, s)
  BY <1>1, <1>2, <1>4 DEF NumbersIn, Mine
<1>5. ASSUME NEW n \in NumbersIn(b, s) PROVE n \in NumbersIn(a \o b, s)
  <2>1. PICK i \in Mine(b, s) : n = b[i].n
    BY <1>5 DEF NumbersIn
  <2>2. Len(a) + i \in Mine(a \o b, s) /\ (a \o b)[Len(a) + i].n = n
    BY <1>1, <1>2, <2>1 DEF Mine
  <2> QED BY <2>2 DEF NumbersIn
<1> QED BY <1>3, <1>4, <1>5

\* Two ordered sequences, one before the other, join to an ordered one.
LEMMA ConcatOrdered ==
  ASSUME NEW a \in Seq(Entry), NEW b \in Seq(Entry), NEW s,
         Ordered(a, s), Ordered(b, s), Before(a, b, s)
  PROVE  Ordered(a \o b, s)
<1>1. /\ a \o b \in Seq(Entry) /\ Len(a \o b) = Len(a) + Len(b)
      /\ Len(a) \in Nat /\ Len(b) \in Nat
      /\ \A i \in 1 .. Len(a) : (a \o b)[i] = a[i]
      /\ \A i \in 1 .. Len(b) : (a \o b)[Len(a) + i] = b[i]
  BY ConcatPositions
<1>2. /\ DOMAIN a = 1 .. Len(a) /\ DOMAIN b = 1 .. Len(b)
      /\ DOMAIN (a \o b) = 1 .. (Len(a) + Len(b))
  BY ConcatPositions
<1>3. ASSUME NEW i \in Mine(a \o b, s)
      PROVE  \/ i \in Mine(a, s) /\ (a \o b)[i] = a[i]
             \/ i > Len(a) /\ i - Len(a) \in Mine(b, s) /\ (a \o b)[i] = b[i - Len(a)]
  <2>1. i \in 1 .. (Len(a) + Len(b))
    BY <1>2 DEF Mine
  <2>2. CASE i <= Len(a)
    BY <1>1, <1>2, <2>1, <2>2 DEF Mine
  <2>3. CASE i > Len(a)
    <3>1. i - Len(a) \in 1 .. Len(b) /\ (a \o b)[i] = b[i - Len(a)]
      BY <1>1, <2>1, <2>3
    <3> QED BY <1>2, <2>3, <3>1 DEF Mine
  <2> QED BY <1>1, <2>1, <2>2, <2>3
<1>4. ASSUME NEW i \in Mine(a \o b, s), NEW j \in Mine(a \o b, s), i < j
      PROVE  (a \o b)[i].n < (a \o b)[j].n
  <2>1. i \in Int /\ j \in Int /\ (\A k \in Mine(a, s) : k <= Len(a))
    BY <1>1, <1>2 DEF Mine
  <2>2. CASE i \in Mine(a, s) /\ (a \o b)[i] = a[i] /\ j \in Mine(a, s) /\ (a \o b)[j] = a[j]
    BY <1>4, <2>2 DEF Ordered
  <2>3. CASE /\ i \in Mine(a, s) /\ (a \o b)[i] = a[i]
             /\ j > Len(a) /\ j - Len(a) \in Mine(b, s) /\ (a \o b)[j] = b[j - Len(a)]
    BY <2>3 DEF Before
  <2>4. CASE /\ i > Len(a) /\ i - Len(a) \in Mine(b, s) /\ (a \o b)[i] = b[i - Len(a)]
             /\ j > Len(a) /\ j - Len(a) \in Mine(b, s) /\ (a \o b)[j] = b[j - Len(a)]
    <3>1. i - Len(a) < j - Len(a)
      BY <1>1, <1>4, <2>1
    <3> QED BY <2>4, <3>1 DEF Ordered
  <2>5. ASSUME i > Len(a), j \in Mine(a, s) PROVE FALSE
    BY <1>1, <1>4, <2>1, <2>5
  <2> QED BY <1>3, <2>2, <2>3, <2>4, <2>5
<1> QED BY <1>4 DEF Ordered

\* The first record and the rest of a sequence.
LEMMA HeadFirst ==
  ASSUME NEW a \in Seq(Entry), a # <<>>, NEW s
  PROVE  /\ Head(a) \in Entry /\ Tail(a) \in Seq(Entry)
         /\ a = <<Head(a)>> \o Tail(a)
         /\ NumbersIn(a, s) = NumbersIn(<<Head(a)>>, s) \cup NumbersIn(Tail(a), s)
         /\ Ordered(a, s) => /\ Ordered(Tail(a), s)
                             /\ Before(<<Head(a)>>, Tail(a), s)
<1> DEFINE e == Head(a)  t == Tail(a)
<1>1. /\ e \in Entry /\ t \in Seq(Entry) /\ <<e>> \in Seq(Entry)
      /\ Len(a) \in Nat /\ Len(a) >= 1 /\ Len(t) = Len(a) - 1
      /\ e = a[1] /\ \A i \in 1 .. Len(t) : t[i] = a[i + 1]
  OBVIOUS
<1>2. a = <<e>> \o t
  BY <1>1
<1>3. NumbersIn(a, s) = NumbersIn(<<e>>, s) \cup NumbersIn(t, s)
  <2>1. NumbersIn(<<e>> \o t, s) = NumbersIn(<<e>>, s) \cup NumbersIn(t, s)
    BY <1>1, ConcatNumbers
  <2> QED BY <1>2, <2>1
<1>4. /\ DOMAIN a = 1 .. Len(a) /\ DOMAIN t = 1 .. Len(t)
      /\ DOMAIN <<e>> = {1} /\ <<e>>[1] = e
  BY <1>1
<1>5. \A i \in Mine(t, s) : i \in Int /\ i >= 1 /\ i + 1 \in Mine(a, s) /\ t[i] = a[i + 1]
  BY <1>1, <1>4 DEF Mine
<1>6. \A i \in Mine(<<e>>, s) : i = 1 /\ 1 \in Mine(a, s) /\ <<e>>[i] = a[1]
  BY <1>1, <1>4 DEF Mine
<1> HIDE DEF e, t
<1>7. ASSUME Ordered(a, s) PROVE Ordered(t, s)
  BY <1>5, <1>7 DEF Ordered
<1>8. ASSUME Ordered(a, s) PROVE Before(<<e>>, t, s)
  BY <1>5, <1>6, <1>8 DEF Ordered, Before
<1> QED BY <1>1, <1>2, <1>3, <1>7, <1>8 DEF e, t

\* A record of its own is in order.
LEMMA SingleOrdered ==
  ASSUME NEW e \in Entry, NEW s
  PROVE  Ordered(<<e>>, s)
BY DEF Ordered, Mine

----------------------------------------------------------------------------
\* A slot without a buffer holds no record, and a slot's buffer only its own.
SlotData ==
  \A s \in SlotIds :
    /\ ~buffer[s].held => buffer[s].data = <<>>
    /\ \A i \in DOMAIN buffer[s].data : buffer[s].data[i].slot = s

\* Each place of the trail of slot s is in order.
InPlace(s) ==
  /\ Ordered(parsed, s) /\ Ordered(cur.data, s) /\ Ordered(buffer[s].data, s)
  /\ \A j \in 1 .. Len(full) : Ordered(full[j], s)

\* What is ahead in the trail of slot s was appended before.
InTurn(s) ==
  /\ Before(parsed, cur.data, s) /\ Before(parsed, buffer[s].data, s)
  /\ Before(cur.data, buffer[s].data, s)
  /\ \A j \in 1 .. Len(full) :
       /\ Before(parsed, full[j], s) /\ Before(cur.data, full[j], s)
       /\ Before(full[j], buffer[s].data, s)
  /\ \A j, k \in 1 .. Len(full) : j < k => Before(full[j], full[k], s)

OnTrail(s, n) ==
  \/ n \in NumbersIn(parsed, s) \/ n \in NumbersIn(cur.data, s)
  \/ n \in NumbersIn(buffer[s].data, s)
  \/ \E j \in 1 .. Len(full) : n \in NumbersIn(full[j], s)

AllThere(s) == \A n : OnTrail(s, n) <=> n \in 1 .. appended[s]

OnItsWay(s) == InPlace(s) /\ InTurn(s) /\ AllThere(s)

CInv == BInv /\ SlotData /\ \A s \in SlotIds : OnItsWay(s)

\* A buffer holds no record of another slot.
LEMMA ForeignNumbers ==
  ASSUME SlotData, NEW r \in SlotIds, NEW s \in SlotIds, r # s
  PROVE  Mine(buffer[r].data, s) = {} /\ NumbersIn(buffer[r].data, s) = {}
         /\ Ordered(buffer[r].data, s)
BY DEF SlotData, Mine, NumbersIn, Ordered

\* submit puts a slot's buffer behind the others in the queue.
LEMMA SubmitKeepsWay ==
  ASSUME TypeOK, SlotData, NEW r \in SlotIds, SubmitSlot(r), UNCHANGED <<parsed, cur, appended>>,
         NEW s \in SlotIds, OnItsWay(s)
  PROVE  OnItsWay(s)'
<1> DEFINE L == Len(full)
           D == buffer[r].data
           B == buffer'[s].data
<1>1. /\ full \in Seq(Seq(Entry)) /\ D \in Seq(Entry) /\ L \in Nat
      /\ full' = Append(full, D) /\ buffer' = [buffer EXCEPT ![r] = None]
  BY DEF TypeOK, QueueType, SlotsType, BufferType, SubmitSlot
<1>2. /\ Len(full') = L + 1 /\ full'[L + 1] = D
      /\ \A i \in 1 .. L : full'[i] = full[i]
      /\ 1 .. (L + 1) = (1 .. L) \cup {L + 1}
      /\ \A i \in 1 .. L : i < L + 1
  BY <1>1
<1>3. /\ s = r => B = <<>> /\ D = buffer[s].data
      /\ s # r => B = buffer[s].data
  BY <1>1 DEF None, TypeOK, SlotsType
<1>4. /\ s = r => NumbersIn(B, s) = {} /\ NumbersIn(D, s) = NumbersIn(buffer[s].data, s)
      /\ s # r => NumbersIn(D, s) = {} /\ NumbersIn(B, s) = NumbersIn(buffer[s].data, s)
  BY <1>3, EmptyNumbers, ForeignNumbers
<1>5. NumbersIn(D, s) \cup NumbersIn(B, s) = NumbersIn(buffer[s].data, s)
  BY <1>4
<1>6. \A i \in 1 .. L : i # L + 1
  BY <1>1
<1> HIDE DEF L, D, B
<1>7. InPlace(s)'
  <2>1. Ordered(D, s) /\ Ordered(B, s)
    BY <1>3, EmptyNumbers, ForeignNumbers DEF OnItsWay, InPlace, D
  <2>2. \A j \in 1 .. Len(full') : Ordered(full'[j], s)
    BY <1>2, <2>1 DEF OnItsWay, InPlace, L
  <2> QED BY <2>1, <2>2 DEF OnItsWay, InPlace, B
<1>8. InTurn(s)'
  <2>1. /\ Before(parsed, D, s) /\ Before(cur.data, D, s) /\ Before(D, B, s)
        /\ Before(parsed, B, s) /\ Before(cur.data, B, s)
        /\ \A j \in 1 .. L : Before(full[j], D, s) /\ Before(full[j], B, s)
    BY <1>4, BeforeByNumbers DEF OnItsWay, InTurn, L
  <2>2. \A j \in 1 .. Len(full') :
          Before(parsed, full'[j], s) /\ Before(cur.data, full'[j], s) /\ Before(full'[j], B, s)
    BY <1>2, <2>1 DEF OnItsWay, InTurn, L
  <2>3. \A j, k \in 1 .. Len(full') : j < k => Before(full'[j], full'[k], s)
    <3>1. SUFFICES ASSUME NEW j \in 1 .. (L + 1), NEW k \in 1 .. (L + 1), j < k
                   PROVE  Before(full'[j], full'[k], s)
      BY <1>2
    <3>2. j \in 1 .. L
      BY <1>1, <3>1
    <3>3. CASE k \in 1 .. L
      BY <1>2, <3>1, <3>2, <3>3 DEF OnItsWay, InTurn, L
    <3>4. CASE k = L + 1
      BY <1>2, <2>1, <3>2, <3>4
    <3> QED BY <1>2, <3>1, <3>3, <3>4
  <2> QED BY <2>1, <2>2, <2>3 DEF OnItsWay, InTurn, B
<1>9. AllThere(s)'
  <2>1. ASSUME NEW n PROVE  OnTrail(s, n)' <=> OnTrail(s, n)
    <3>1. (\E j \in 1 .. Len(full') : n \in NumbersIn(full'[j], s))
            <=> (\E j \in 1 .. L : n \in NumbersIn(full[j], s)) \/ n \in NumbersIn(D, s)
      BY <1>2
    <3>2. n \in NumbersIn(D, s) \/ n \in NumbersIn(B, s) <=> n \in NumbersIn(buffer[s].data, s)
      BY <1>5
    <3> QED BY <3>1, <3>2 DEF OnTrail, B, L
  <2> QED BY <2>1 DEF OnItsWay, AllThere
<1> QED BY <1>7, <1>8, <1>9 DEF OnItsWay

\* next_full takes the oldest buffer of the queue.
LEMMA NextFullKeepsWay ==
  ASSUME TypeOK, InHand, NextFull, NEW s \in SlotIds, OnItsWay(s)
  PROVE  OnItsWay(s)'
<1> DEFINE L == Len(full)
<1>1. /\ full \in Seq(Seq(Entry)) /\ full # <<>> /\ L \in Nat /\ L >= 1
      /\ full' = Tail(full) /\ cur'.data = full[1] /\ cur.data = <<>>
      /\ UNCHANGED <<parsed, buffer, appended>>
  <2>1. full \in Seq(Seq(Entry)) /\ full # <<>> /\ full' = Tail(full) /\ cur' = Held(Head(full))
        /\ UNCHANGED <<parsed, buffer, appended>>
    BY DEF TypeOK, QueueType, NextFull
  <2>2. cur.data = <<>>
    BY DEF NextFull, InHand
  <2>3. cur'.data = Head(full)
    BY <2>1 DEF Held
  <2>4. Head(full) = full[1] /\ L \in Nat /\ L >= 1
    BY <2>1
  <2> QED BY <2>1, <2>2, <2>3, <2>4
<1>2. Len(full') = L - 1 /\ \A i \in 1 .. (L - 1) : full'[i] = full[i + 1]
  BY <1>1
<1>3. \A i \in 1 .. (L - 1) : i + 1 \in 1 .. L /\ 1 < i + 1
  BY <1>1
<1>4. 1 \in 1 .. L /\ \A i \in 1 .. L : i = 1 \/ \E k \in 1 .. (L - 1) : k + 1 = i
  <2> HIDE DEF L
  <2>1. ASSUME NEW i \in 1 .. L, i # 1 PROVE i - 1 \in 1 .. (L - 1) /\ (i - 1) + 1 = i
    BY <1>1, <2>1
  <2> QED BY <1>1, <2>1
<1>5. InPlace(s)'
  BY <1>1, <1>2, <1>3, <1>4 DEF OnItsWay, InPlace
<1>6. InTurn(s)'
  <2>1. \A j \in 1 .. L : Before(parsed, full[j], s) /\ Before(full[j], buffer[s].data, s)
    BY DEF OnItsWay, InTurn
  <2>2. \A j, k \in 1 .. L : j < k => Before(full[j], full[k], s)
    BY DEF OnItsWay, InTurn
  <2>3. \A j, k \in 1 .. (L - 1) : j < k => Before(full'[j], full'[k], s)
    BY <1>1, <1>2, <1>3, <2>2
  <2>4. \A j \in 1 .. (L - 1) : Before(full[1], full'[j], s)
    BY <1>2, <1>3, <1>4, <2>2
  <2> QED BY <1>1, <1>2, <1>3, <1>4, <2>1, <2>3, <2>4 DEF OnItsWay, InTurn
<1>7. AllThere(s)'
  <2>1. ASSUME NEW n PROVE OnTrail(s, n)' <=> OnTrail(s, n)
    <3>1. n \notin NumbersIn(cur.data, s)
      BY <1>1, EmptyNumbers
    <3>2. (\E j \in 1 .. L : n \in NumbersIn(full[j], s)) <=>
            n \in NumbersIn(full[1], s) \/ \E j \in 1 .. (L - 1) : n \in NumbersIn(full'[j], s)
      <4>1. ASSUME NEW j \in 1 .. L, n \in NumbersIn(full[j], s), j # 1
            PROVE  \E k \in 1 .. (L - 1) : n \in NumbersIn(full'[k], s)
        BY <1>2, <1>4, <4>1
      <4> QED BY <1>2, <1>3, <1>4, <4>1
    <3> QED BY <1>1, <1>2, <3>1, <3>2 DEF OnTrail
  <2> QED BY <1>1, <2>1 DEF OnItsWay, AllThere
<1> QED BY <1>5, <1>6, <1>7 DEF OnItsWay

\* The writer parses a buffer from its first record to its last.
LEMMA ParseKeepsWay ==
  ASSUME TypeOK, ParseRecord, NEW s \in SlotIds, OnItsWay(s)
  PROVE  OnItsWay(s)'
<1> DEFINE e == Head(cur.data)
           rest == Tail(cur.data)
           P == parsed \o <<e>>
<1>1. /\ cur.data \in Seq(Entry) /\ cur.data # <<>> /\ parsed \in Seq(Entry)
      /\ cur'.data = rest /\ parsed' = Append(parsed, e)
      /\ UNCHANGED <<full, buffer, appended>>
  <2>1. cur' = [cur EXCEPT !.data = rest] /\ cur \in BufferType /\ parsed \in Seq(Entry)
    BY DEF TypeOK, ParsingType, ParseRecord
  <2>2. cur.data \in Seq(Entry) /\ cur'.data = rest
    BY <2>1 DEF BufferType
  <2> QED BY <2>1, <2>2 DEF ParseRecord
<1>2. /\ e \in Entry /\ rest \in Seq(Entry) /\ <<e>> \in Seq(Entry)
      /\ NumbersIn(cur.data, s) = NumbersIn(<<e>>, s) \cup NumbersIn(rest, s)
      /\ Ordered(cur.data, s) => Ordered(rest, s) /\ Before(<<e>>, rest, s)
  BY <1>1, HeadFirst
<1>3. parsed' = P
  <2>1. \A p \in Seq(Entry), x \in Entry : Append(p, x) = p \o <<x>>
    OBVIOUS
  <2> QED BY <1>1, <1>2, <2>1
<1>4. NumbersIn(P, s) = NumbersIn(parsed, s) \cup NumbersIn(<<e>>, s)
  BY <1>1, <1>2, ConcatNumbers
<1>5. Ordered(<<e>>, s)
  BY <1>2, SingleOrdered
<1> HIDE DEF e, rest
<1>6. Ordered(P, s) /\ Ordered(rest, s) /\ Before(P, rest, s)
  <2>1. Before(parsed, <<e>>, s) /\ Before(parsed, rest, s)
    BY <1>2, BeforeByNumbers DEF OnItsWay, InTurn
  <2>2. Ordered(P, s)
    BY <1>1, <1>2, <1>5, <2>1, ConcatOrdered DEF OnItsWay, InPlace
  <2>3. Ordered(rest, s) /\ Before(<<e>>, rest, s)
    BY <1>2 DEF OnItsWay, InPlace
  <2>4. Before(P, rest, s)
    BY <1>4, <2>1, <2>3, BeforeByNumbers
  <2> QED BY <2>2, <2>3, <2>4
<1> HIDE DEF P
<1>7. InPlace(s)'
  BY <1>1, <1>3, <1>6 DEF OnItsWay, InPlace
<1>8. InTurn(s)'
  <2>1. ASSUME NEW b, Before(parsed, b, s), Before(cur.data, b, s)
        PROVE  Before(P, b, s) /\ Before(rest, b, s)
    BY <1>2, <1>4, <2>1, BeforeByNumbers
  <2> QED BY <1>1, <1>3, <1>6, <2>1 DEF OnItsWay, InTurn
<1>9. AllThere(s)'
  <2>1. ASSUME NEW n PROVE OnTrail(s, n)' <=> OnTrail(s, n)
    BY <1>1, <1>2, <1>3, <1>4 DEF OnTrail
  <2> QED BY <1>1, <2>1 DEF OnItsWay, AllThere
<1> QED BY <1>7, <1>8, <1>9 DEF OnItsWay

\* A new record carries the next number of its slot; a Loss row ahead of it
\* carries none.
LEMMA AppendKeepsWay ==
  ASSUME TypeOK, SlotData, NEW t \in Threads, AppendRecord(t), NEW s \in SlotIds, OnItsWay(s)
  PROVE  OnItsWay(s)' /\ SlotData'
<1> DEFINE r == SlotOf(t)
           lead == IF kind[t] = "event" THEN LossRow(r) ELSE <<>>
           old == buffer[r].data
           new == lead \o Row(t, r)
           d == old \o new
<1>1. r \in SlotIds
  BY SlotOfType DEF TypeOK
<1>2. LossRow(r) \in Seq(Entry) /\ Row(t, r) \in Seq(Entry) /\ lead \in Seq(Entry)
  BY <1>1, RowsType, EmptyType DEF TypeOK
<1>3. old \in Seq(Entry) /\ new \in Seq(Entry) /\ d \in Seq(Entry)
  BY <1>1, <1>2 DEF TypeOK, SlotsType, BufferType
<1>4. old \o lead \o Row(t, r) = d
  <2>1. \A a, b, c \in Seq(Entry) : (a \o b) \o c = a \o (b \o c)
    OBVIOUS
  <2> HIDE DEF lead, old
  <2> QED BY <1>2, <1>3, <2>1
<1>5. /\ buffer' = [buffer EXCEPT ![r].data = d]
      /\ appended' = [appended EXCEPT ![r] = @ + 1]
      /\ buffer[r].held
      /\ UNCHANGED <<full, cur, parsed>>
  BY <1>4 DEF AppendRecord
<1>6. appended[r] \in Nat
  BY <1>1 DEF TypeOK, CountersType
<1>7. \A i \in DOMAIN lead : lead[i].kind = "loss" /\ lead[i].slot = r
  BY DEF LossRow
<1>8. /\ DOMAIN Row(t, r) = {1} /\ Row(t, r)[1].slot = r /\ Row(t, r)[1].n = appended[r] + 1
      /\ Row(t, r)[1].kind = kind[t] /\ kind[t] # "loss"
  BY DEF Row, TypeOK, ThreadsType
<1>9. NumbersIn(lead, s) = {} /\ Ordered(lead, s)
  BY <1>7 DEF NumbersIn, Mine, Ordered
<1>10. /\ NumbersIn(Row(t, r), s) = IF s = r THEN {appended[r] + 1} ELSE {}
       /\ Ordered(Row(t, r), s)
  BY <1>8 DEF NumbersIn, Mine, Ordered
<1>11. /\ buffer'[r].data = d /\ buffer'[r].held
       /\ \A q \in SlotIds : q # r => buffer'[q] = buffer[q] /\ appended'[q] = appended[q]
       /\ appended'[r] = appended[r] + 1
  BY <1>1, <1>5 DEF TypeOK, SlotsType, BufferType, CountersType
<1>12. \A i \in DOMAIN new : new[i].slot = r
  <2>1. \A i \in 1 .. Len(new) : new[i] = (IF i <= Len(lead) THEN lead[i] ELSE Row(t, r)[i - Len(lead)])
    BY <1>2
  <2>2. Len(new) = Len(lead) + 1 /\ Len(lead) \in Nat /\ DOMAIN lead = 1 .. Len(lead)
        /\ DOMAIN new = 1 .. Len(new)
    BY <1>2 DEF Row
  <2> HIDE DEF lead, new
  <2> QED BY <1>7, <1>8, <2>1, <2>2
<1> HIDE DEF r, lead, old
<1>13. NumbersIn(new, s) = IF s = r THEN {appended[r] + 1} ELSE {}
  <2>1. NumbersIn(new, s) = NumbersIn(lead, s) \cup NumbersIn(Row(t, r), s)
    BY <1>2, ConcatNumbers
  <2> QED BY <1>9, <1>10, <2>1
<1>14. Ordered(new, s)
  <2>1. Before(lead, Row(t, r), s)
    BY <1>9, BeforeByNumbers
  <2> QED BY <1>2, <1>9, <1>10, <2>1, ConcatOrdered
<1> HIDE DEF new
<1>15. NumbersIn(d, s) = NumbersIn(old, s) \cup NumbersIn(new, s)
  BY <1>3, ConcatNumbers
<1>16. SlotData'
  <2>1. \A i \in DOMAIN d : d[i].slot = r
    <3>1. \A i \in DOMAIN old : old[i].slot = r
      BY <1>1 DEF SlotData, old
    <3>2. /\ \A i \in 1 .. Len(d) : d[i] = (IF i <= Len(old) THEN old[i] ELSE new[i - Len(old)])
          /\ Len(d) = Len(old) + Len(new) /\ Len(old) \in Nat /\ Len(new) \in Nat
          /\ DOMAIN d = 1 .. Len(d) /\ DOMAIN old = 1 .. Len(old) /\ DOMAIN new = 1 .. Len(new)
      BY <1>3
    <3> HIDE DEF d
    <3> QED BY <1>12, <3>1, <3>2
  <2> HIDE DEF d
  <2>2. ASSUME NEW q \in SlotIds
        PROVE  /\ ~buffer'[q].held => buffer'[q].data = <<>>
               /\ \A i \in DOMAIN buffer'[q].data : buffer'[q].data[i].slot = q
    <3>1. CASE q = r
      BY <1>11, <2>1, <3>1
    <3>2. CASE q # r
      BY <1>11, <3>2 DEF SlotData
    <3> QED BY <3>1, <3>2
  <2> QED BY <2>2 DEF SlotData
<1> HIDE DEF d
<1>17. CASE s # r
  <2>1. buffer'[s] = buffer[s] /\ appended'[s] = appended[s]
    BY <1>11, <1>17
  <2> QED BY <1>5, <1>16, <2>1 DEF OnItsWay, InPlace, InTurn, AllThere, OnTrail
<1>18. CASE s = r
  <2>1. \A n : OnTrail(s, n) => n < appended[s] + 1
    BY <1>6, <1>18 DEF OnItsWay, AllThere
  <2>2. old = buffer[s].data /\ buffer'[s].data = d /\ NumbersIn(new, s) = {appended[s] + 1}
    BY <1>11, <1>13, <1>18 DEF old
  <2>3. /\ Before(old, new, s) /\ Before(parsed, new, s) /\ Before(cur.data, new, s)
        /\ \A j \in 1 .. Len(full) : Before(full[j], new, s)
    BY <2>1, <2>2, BeforeByNumbers DEF OnTrail
  <2>4. ASSUME NEW a, Before(a, old, s), Before(a, new, s) PROVE Before(a, d, s)
    BY <1>15, <2>4, BeforeByNumbers
  <2>5. Ordered(d, s)
    BY <1>3, <1>14, <2>2, <2>3, ConcatOrdered DEF OnItsWay, InPlace, d
  <2>6. InPlace(s)'
    BY <1>5, <2>2, <2>5 DEF OnItsWay, InPlace
  <2>7. InTurn(s)'
    BY <1>5, <2>2, <2>3, <2>4 DEF OnItsWay, InTurn
  <2>8. AllThere(s)'
    <3>1. ASSUME NEW n PROVE OnTrail(s, n)' <=> OnTrail(s, n) \/ n = appended[s] + 1
      BY <1>5, <1>15, <2>2 DEF OnTrail
    <3>2. \A n : n \in 1 .. appended'[s] <=> n \in 1 .. appended[s] \/ n = appended[s] + 1
      BY <1>6, <1>11, <1>18
    <3> QED BY <3>1, <3>2 DEF OnItsWay, AllThere
  <2> QED BY <1>16, <2>6, <2>7, <2>8 DEF OnItsWay
<1> QED BY <1>17, <1>18

\* Every record stays on its way, in every step.
LEMMA ConservedStep ==
  ASSUME BInv, SlotData, \A s \in SlotIds : OnItsWay(s), Next
  PROVE  SlotData' /\ \A s \in SlotIds : OnItsWay(s)'
<1> USE DEF BInv, IInv
<1>1. ASSUME \A s \in SlotIds : buffer'[s].data = buffer[s].data,
             \A s \in SlotIds : buffer'[s].held = buffer[s].held \/ buffer[s].data = <<>>,
             cur'.data = cur.data, UNCHANGED <<full, parsed, appended>>
      PROVE  SlotData' /\ \A s \in SlotIds : OnItsWay(s)'
  <2>1. SlotData'
    BY <1>1 DEF SlotData
  <2>2. ASSUME NEW s \in SlotIds PROVE OnItsWay(s)'
    BY <1>1 DEF OnItsWay, InPlace, InTurn, AllThere, OnTrail
  <2> QED BY <2>1, <2>2
<1>2. CASE ~BufferMoves
  BY <1>1, <1>2, BuffersStill
<1>3. ASSUME NEW r \in SlotIds, SubmitSlot(r), UNCHANGED <<parsed, cur, appended>>
      PROVE  SlotData' /\ \A s \in SlotIds : OnItsWay(s)'
  <2>1. \A s \in SlotIds : buffer'[s] = IF s = r THEN None ELSE buffer[s]
    BY <1>3 DEF SubmitSlot, TypeOK, SlotsType
  <2>2. None.data = <<>>
    BY DEF None
  <2>3. SlotData'
    BY <2>1, <2>2 DEF SlotData
  <2> QED BY <1>3, <2>3, SubmitKeepsWay
<1>4. ASSUME NEW t \in Threads, SubmitFull(t)
      PROVE  SlotData' /\ \A s \in SlotIds : OnItsWay(s)'
  <2>1. SlotOf(t) \in SlotIds /\ UNCHANGED <<parsed, cur, appended>>
    BY <1>4, SlotOfType DEF SubmitFull, TypeOK
  <2>2. CASE UNCHANGED <<full, buffer>>
    BY <1>1, <2>1, <2>2
  <2>3. CASE SubmitSlot(SlotOf(t))
    BY <1>3, <2>1, <2>3
  <2> QED BY <1>4, <2>2, <2>3 DEF SubmitFull
<1>5. ASSUME NEW t \in Threads, Acquire(t)
      PROVE  SlotData' /\ \A s \in SlotIds : OnItsWay(s)'
  <2>1. SlotOf(t) \in SlotIds /\ UNCHANGED <<full, parsed, cur, appended>>
    BY <1>5, SlotOfType DEF Acquire, TypeOK
  <2>2. buffer[SlotOf(t)].data = <<>>
    BY <1>5, <2>1 DEF Acquire, Emptied, SlotData
  <2>3. \A s \in SlotIds : s # SlotOf(t) => buffer'[s] = buffer[s]
    BY <1>5, <2>1 DEF Acquire, TypeOK, SlotsType
  <2>4. buffer'[SlotOf(t)] = buffer[SlotOf(t)] \/ buffer'[SlotOf(t)] = Held(<<>>)
    BY <1>5, <2>1 DEF Acquire, TypeOK, SlotsType
  <2>5. buffer'[SlotOf(t)].data = <<>> /\ (buffer[SlotOf(t)].held => buffer'[SlotOf(t)].held)
    BY <2>2, <2>4 DEF Held
  <2> QED BY <1>1, <2>1, <2>2, <2>3, <2>5
<1>6. ASSUME NEW t \in Threads, AppendRecord(t)
      PROVE  SlotData' /\ \A s \in SlotIds : OnItsWay(s)'
  BY <1>6, AppendKeepsWay DEF SlotIds
<1>7. CASE NextFull
  <2>1. SlotData'
    BY <1>7 DEF NextFull, SlotData
  <2> QED BY <1>7, <2>1, NextFullKeepsWay
<1>8. CASE ParseRecord
  <2>1. SlotData'
    BY <1>8 DEF ParseRecord, SlotData
  <2> QED BY <1>8, <2>1, ParseKeepsWay
<1>9. CASE Recycle
  <2>1. cur'.data = cur.data /\ UNCHANGED <<buffer, full, parsed, appended>>
    BY <1>9 DEF Recycle, None
  <2> QED BY <1>1, <2>1
<1>10. CASE FlushSlot
  <2>1. slots[wi] \in SlotIds /\ UNCHANGED <<parsed, cur, appended>>
    BY <1>10 DEF FlushSlot, TypeOK, SlotsType, WriterType
  <2>2. CASE UNCHANGED <<full, buffer>>
    BY <1>1, <2>1, <2>2
  <2> QED BY <1>3, <1>10, <2>1, <2>2 DEF FlushSlot
<1>11. CASE FinishSlot
  <2>1. slots[fi] \in SlotIds /\ UNCHANGED <<parsed, cur, appended>>
    BY <1>11 DEF FinishSlot, TypeOK, SlotsType, FinishType
  <2>2. CASE UNCHANGED <<full, buffer>>
    BY <1>1, <2>1, <2>2
  <2> QED BY <1>3, <1>11, <2>1, <2>2 DEF FinishSlot
<1> QED BY <1>2, <1>4, <1>5, <1>6, <1>7, <1>8, <1>9, <1>10, <1>11 DEF BufferMoves

\* A collector that was just started has no record anywhere.
LEMMA InitCInv ==
  ASSUME Init
  PROVE  CInv
<1>1. \A s \in SlotIds : buffer[s].data = <<>> /\ appended[s] = 0
  BY DEF Init, None
<1>2. parsed = <<>> /\ cur.data = <<>> /\ full = <<>>
  BY DEF Init, None
<1>3. SlotData
  BY <1>1 DEF SlotData
<1>4. ASSUME NEW s \in SlotIds PROVE OnItsWay(s)
  BY <1>1, <1>2, EmptyNumbers, BeforeByNumbers DEF OnItsWay, InPlace, InTurn, AllThere, OnTrail
<1> QED BY <1>3, <1>4, InitBInv DEF CInv

\* Every step keeps the conservation invariant.
LEMMA NextCInv ==
  ASSUME CInv, [Next]_vars
  PROVE  CInv'
<1>1. CASE Next
  BY <1>1, ConservedStep, NextBInv DEF CInv
<1>2. CASE UNCHANGED vars
  BY <1>2, NextBInv DEF CInv, vars, SlotData, OnItsWay, InPlace, InTurn, AllThere, OnTrail
<1> QED BY <1>1, <1>2

\* The conservation invariant holds in every reachable state.
THEOREM ConservationInductive == Spec => []CInv
<1>1. Init => CInv
  BY InitCInv
<1>2. CInv /\ [Next]_vars => CInv'
  BY NextCInv
<1> QED BY <1>1, <1>2, PTL DEF Spec

\* The places of a slot's trail.
LEMMA TrailPlaces ==
  ASSUME TypeOK, NEW s \in SlotIds
  PROVE  /\ DOMAIN Trail(s) = 1 .. (Len(full) + 3) /\ Len(full) \in Nat
         /\ Trail(s)[1] = parsed /\ Trail(s)[2] = cur.data
         /\ Trail(s)[Len(full) + 3] = buffer[s].data
         /\ \A j \in 1 .. Len(full) : Trail(s)[j + 2] = full[j]
<1> DEFINE a == <<parsed, cur.data>>
           c == <<buffer[s].data>>
<1>1. full \in Seq(Seq(Entry)) /\ a \in Seq(Seq(Entry)) /\ c \in Seq(Seq(Entry))
  <2>1. /\ full \in Seq(Seq(Entry)) /\ parsed \in Seq(Entry) /\ cur.data \in Seq(Entry)
        /\ buffer[s].data \in Seq(Entry)
    BY DEF TypeOK, QueueType, ParsingType, SlotsType, BufferType
  <2> QED BY <2>1
<1>2. /\ Len(a) = 2 /\ a[1] = parsed /\ a[2] = cur.data
      /\ Len(c) = 1 /\ c[1] = buffer[s].data /\ Len(full) \in Nat
  BY <1>1
<1> HIDE DEF a, c
<1> DEFINE b == a \o full
<1>3. /\ b \in Seq(Seq(Entry)) /\ Len(b) = 2 + Len(full)
      /\ \A i \in 1 .. 2 : b[i] = a[i]
      /\ \A i \in 1 .. Len(full) : b[2 + i] = full[i]
  <2>1. /\ b \in Seq(Seq(Entry)) /\ Len(b) = Len(a) + Len(full)
        /\ \A i \in 1 .. Len(a) : b[i] = a[i]
        /\ \A i \in 1 .. Len(full) : b[Len(a) + i] = full[i]
    BY <1>1, ConcatPositions
  <2> HIDE DEF b
  <2> QED BY <1>2, <2>1
<1> HIDE DEF b
<1>4. /\ Len(b \o c) = 3 + Len(full) /\ DOMAIN (b \o c) = 1 .. (Len(full) + 3)
      /\ \A i \in 1 .. (2 + Len(full)) : (b \o c)[i] = b[i]
      /\ (b \o c)[Len(full) + 3] = c[1]
  <2>1. b \in Seq(Seq(Entry)) /\ c \in Seq(Seq(Entry))
    BY <1>1, <1>3
  <2>2. /\ Len(b \o c) = Len(b) + Len(c) /\ DOMAIN (b \o c) = 1 .. (Len(b) + Len(c))
        /\ \A i \in 1 .. Len(b) : (b \o c)[i] = b[i]
        /\ \A i \in 1 .. Len(c) : (b \o c)[Len(b) + i] = c[i]
    BY <2>1, ConcatPositions
  <2>3. Len(b) + 1 = Len(full) + 3 /\ Len(b) + 1 = 3 + Len(full)
    BY <1>2, <1>3
  <2>4. (b \o c)[Len(b) + 1] = c[1]
    BY <1>2, <2>2
  <2> QED BY <1>2, <1>3, <2>2, <2>3, <2>4
<1>5. Trail(s) = b \o c
  BY DEF Trail, a, b, c
<1>6. \A i \in 1 .. Len(full) : 2 + i \in 1 .. (2 + Len(full)) /\ 2 + i = i + 2
  BY <1>2
<1>7. 1 \in 1 .. (2 + Len(full)) /\ 2 \in 1 .. (2 + Len(full)) /\ 1 \in 1 .. 2 /\ 2 \in 1 .. 2
  BY <1>2
<1>8. \A j \in 1 .. Len(full) : (b \o c)[j + 2] = full[j]
  BY <1>3, <1>4, <1>6
<1>9. (b \o c)[1] = parsed /\ (b \o c)[2] = cur.data
  BY <1>2, <1>3, <1>4, <1>7
<1> QED BY <1>2, <1>4, <1>5, <1>8, <1>9

\* Every record appended to a slot is in one place, in the order it was appended,
\* for any number of threads, slots, buffers and records: nothing is lost,
\* repeated or overtaken on the way from record to the writer.
THEOREM RecordsConserved == Spec => []Conserved
<1>1. ASSUME CInv, NEW s \in SlotIds
      PROVE  /\ UNION {{Trail(s)[k][i].n : i \in Mine(Trail(s)[k], s)} : k \in DOMAIN Trail(s)}
                  = 1 .. appended[s]
             /\ \A k \in DOMAIN Trail(s) : Ordered(Trail(s)[k], s)
             /\ \A k, l \in DOMAIN Trail(s) : k < l => Before(Trail(s)[k], Trail(s)[l], s)
             /\ \A r \in SlotIds \ {s} : Mine(buffer[r].data, s) = {}
  <2> DEFINE T == Trail(s)  L == Len(full)
  <2>1. OnItsWay(s) /\ TypeOK /\ SlotData
    BY <1>1 DEF CInv, BInv, IInv
  <2>2. /\ DOMAIN T = 1 .. (L + 3) /\ L \in Nat /\ T[1] = parsed /\ T[2] = cur.data
        /\ T[L + 3] = buffer[s].data /\ \A j \in 1 .. L : T[j + 2] = full[j]
    BY <2>1, TrailPlaces
  <2> HIDE DEF T, L
  <2>3. \A k \in 1 .. (L + 3) : \/ k = 1 \/ k = 2 \/ k = L + 3
                                \/ k - 2 \in 1 .. L /\ T[k] = full[k - 2]
    <3>1. ASSUME NEW k \in 1 .. (L + 3), k # 1, k # 2, k # L + 3
          PROVE  k - 2 \in 1 .. L /\ (k - 2) + 2 = k
      BY <2>2, <3>1
    <3> QED BY <2>2, <3>1
  <2>4. \A j \in 1 .. L : j + 2 \in 1 .. (L + 3)
    BY <2>2
  <2>5. 1 \in 1 .. (L + 3) /\ 2 \in 1 .. (L + 3) /\ L + 3 \in 1 .. (L + 3)
    BY <2>2
  <2>6. \A n : OnTrail(s, n) <=> \E k \in DOMAIN T : n \in NumbersIn(T[k], s)
    <3>1. ASSUME NEW n, OnTrail(s, n) PROVE \E k \in DOMAIN T : n \in NumbersIn(T[k], s)
      <4>1. ASSUME NEW j \in 1 .. L, n \in NumbersIn(full[j], s)
            PROVE  \E k \in DOMAIN T : n \in NumbersIn(T[k], s)
        BY <2>2, <2>4, <4>1
      <4> QED BY <2>2, <2>5, <3>1, <4>1 DEF OnTrail, L
    <3>2. ASSUME NEW n, NEW k \in DOMAIN T, n \in NumbersIn(T[k], s) PROVE OnTrail(s, n)
      BY <2>2, <2>3, <3>2 DEF OnTrail, L
    <3> QED BY <3>1, <3>2
  <2>7. UNION {{T[k][i].n : i \in Mine(T[k], s)} : k \in DOMAIN T} = 1 .. appended[s]
    <3>1. UNION {NumbersIn(T[k], s) : k \in DOMAIN T} = 1 .. appended[s]
      BY <2>1, <2>6 DEF OnItsWay, AllThere
    <3> QED BY <3>1 DEF NumbersIn
  <2>8. \A k \in DOMAIN T : Ordered(T[k], s)
    BY <2>1, <2>2, <2>3 DEF OnItsWay, InPlace, L
  <2>9. ASSUME NEW k \in DOMAIN T, NEW l \in DOMAIN T, k < l PROVE Before(T[k], T[l], s)
    <3>1. k \in 1 .. (L + 3) /\ l \in 1 .. (L + 3)
      BY <2>2
    <3>2. CASE k = 1
      <4>1. l # 1
        BY <2>9, <3>2
      <4> QED BY <2>1, <2>2, <2>3, <3>1, <3>2, <4>1 DEF OnItsWay, InTurn, L
    <3>3. CASE k = 2
      <4>1. l # 1 /\ l # 2
        BY <2>9, <3>3
      <4> QED BY <2>1, <2>2, <2>3, <3>1, <3>3, <4>1 DEF OnItsWay, InTurn, L
    <3>4. CASE k - 2 \in 1 .. L /\ T[k] = full[k - 2]
      <4>1. l # 1 /\ l # 2
        BY <2>2, <2>9, <3>1, <3>4
      <4>2. CASE l = L + 3
        BY <2>1, <2>2, <3>4, <4>2 DEF OnItsWay, InTurn, L
      <4>3. CASE l - 2 \in 1 .. L /\ T[l] = full[l - 2]
        <5>1. k - 2 < l - 2
          BY <2>9, <3>1
        <5> QED BY <2>1, <3>4, <4>3, <5>1 DEF OnItsWay, InTurn, L
      <4> QED BY <2>3, <3>1, <4>1, <4>2, <4>3
    <3>5. k # L + 3
      BY <2>2, <2>9, <3>1
    <3> QED BY <2>3, <3>1, <3>2, <3>3, <3>4, <3>5
  <2>10. \A r \in SlotIds \ {s} : Mine(buffer[r].data, s) = {}
    BY <2>1, ForeignNumbers
  <2> QED BY <2>7, <2>8, <2>9, <2>10 DEF T
<1>2. CInv => Conserved
  BY <1>1 DEF Conserved
<1> QED BY <1>2, ConservationInductive, PTL

----------------------------------------------------------------------------
(* Allocations: every number is with a thread, in a record or counted *)

\* The allocation records in a sequence.
AllocAt(seq)  == {i \in DOMAIN seq : seq[i].kind = "alloc"}
AllocsIn(seq) == {seq[i] : i \in AllocAt(seq)}

\* Allocation records appended so far, wherever they are now.
Kept(e) ==
  \/ e \in AllocsIn(parsed) \/ e \in AllocsIn(cur.data)
  \/ \E j \in 1 .. Len(full) : e \in AllocsIn(full[j])
  \/ \E s \in SlotIds : e \in AllocsIn(buffer[s].data)

Recorded == {e \in Entry : Kept(e)}

\* Threads that have numbered their allocation and not yet appended or dropped it.
Numbered == {"pause", "slot", "lock", "submit", "acquire", "append"}
Carrying == {t \in Threads : kind[t] = "alloc" /\ pc[t] \in Numbered}

Balanced ==
  /\ IsFiniteSet(Recorded)
  /\ allocSeq = Cardinality(Recorded) + Cardinality(Carrying) + allocDropped + allocPaused

\* Only allocations are numbered.
NumbersAllocs == \A t \in Threads : pc[t] = "number" => kind[t] = "alloc"

FInv == CInv /\ NumbersAllocs /\ Balanced

\* Joining sequences joins their allocation records.
LEMMA ConcatAllocs ==
  ASSUME NEW a \in Seq(Entry), NEW b \in Seq(Entry)
  PROVE  AllocsIn(a \o b) = AllocsIn(a) \cup AllocsIn(b)
<1>1. /\ a \o b \in Seq(Entry) /\ Len(a \o b) = Len(a) + Len(b)
      /\ Len(a) \in Nat /\ Len(b) \in Nat
      /\ \A i \in 1 .. Len(a) : (a \o b)[i] = a[i]
      /\ \A i \in 1 .. Len(b) : (a \o b)[Len(a) + i] = b[i]
  BY ConcatPositions
<1>2. /\ DOMAIN a = 1 .. Len(a) /\ DOMAIN b = 1 .. Len(b)
      /\ DOMAIN (a \o b) = 1 .. (Len(a) + Len(b))
  BY ConcatPositions
<1>3. ASSUME NEW e \in AllocsIn(a \o b) PROVE e \in AllocsIn(a) \cup AllocsIn(b)
  <2>1. PICK i \in AllocAt(a \o b) : e = (a \o b)[i]
    BY DEF AllocsIn
  <2>2. CASE i <= Len(a)
    BY <1>1, <1>2, <2>1, <2>2 DEF AllocsIn, AllocAt
  <2>3. CASE i > Len(a)
    <3>1. i - Len(a) \in 1 .. Len(b) /\ (a \o b)[i] = b[i - Len(a)]
      BY <1>1, <1>2, <2>1, <2>3 DEF AllocAt
    <3> QED BY <1>2, <2>1, <3>1 DEF AllocsIn, AllocAt
  <2> QED BY <1>1, <1>2, <2>1, <2>2, <2>3 DEF AllocAt
<1>4. ASSUME NEW e \in AllocsIn(a) PROVE e \in AllocsIn(a \o b)
  BY <1>1, <1>2, <1>4 DEF AllocsIn, AllocAt
<1>5. ASSUME NEW e \in AllocsIn(b) PROVE e \in AllocsIn(a \o b)
  <2>1. PICK i \in AllocAt(b) : e = b[i]
    BY <1>5 DEF AllocsIn
  <2>2. Len(a) + i \in AllocAt(a \o b) /\ (a \o b)[Len(a) + i] = e
    BY <1>1, <1>2, <2>1 DEF AllocAt
  <2> QED BY <2>2 DEF AllocsIn
<1> QED BY <1>3, <1>4, <1>5

\* An empty sequence holds no allocation record.
LEMMA EmptyAllocs == AllocsIn(<<>>) = {}
BY DEF AllocsIn, AllocAt

\* submit moves the allocation records of a slot to the queue.
LEMMA SubmitAllocs ==
  ASSUME TypeOK, NEW r \in SlotIds, SubmitSlot(r), UNCHANGED <<parsed, cur>>
  PROVE  Recorded' = Recorded
<1> DEFINE L == Len(full)
           D == buffer[r].data
<1>1. /\ full \in Seq(Seq(Entry)) /\ D \in Seq(Entry) /\ L \in Nat
      /\ full' = Append(full, D) /\ buffer' = [buffer EXCEPT ![r] = None]
  BY DEF TypeOK, QueueType, SlotsType, BufferType, SubmitSlot
<1>2. /\ Len(full') = L + 1 /\ full'[L + 1] = D
      /\ \A i \in 1 .. L : full'[i] = full[i]
      /\ 1 .. (L + 1) = (1 .. L) \cup {L + 1}
  BY <1>1
<1>3. \A s \in SlotIds : buffer'[s] = IF s = r THEN None ELSE buffer[s]
  BY <1>1 DEF TypeOK, SlotsType
<1>4. AllocsIn(None.data) = {}
  BY EmptyAllocs DEF None
<1>5. ASSUME NEW e PROVE Kept(e)' <=> Kept(e)
  <2>1. (\E j \in 1 .. Len(full') : e \in AllocsIn(full'[j])) <=>
          (\E j \in 1 .. L : e \in AllocsIn(full[j])) \/ e \in AllocsIn(D)
    BY <1>2
  <2> HIDE DEF D
  <2>2. (\E s \in SlotIds : e \in AllocsIn(buffer[s].data)) <=>
          (\E s \in SlotIds : e \in AllocsIn(buffer'[s].data)) \/ e \in AllocsIn(D)
    BY <1>3, <1>4 DEF D
  <2> QED BY <2>1, <2>2 DEF Kept
<1> QED BY <1>5 DEF Recorded

\* next_full and the parser only move allocation records.
LEMMA TakeAllocs ==
  ASSUME TypeOK, InHand, NextFull
  PROVE  Recorded' = Recorded
<1> DEFINE L == Len(full)
<1>1. /\ full \in Seq(Seq(Entry)) /\ full # <<>> /\ full' = Tail(full)
      /\ cur' = Held(Head(full)) /\ UNCHANGED <<parsed, buffer>>
  BY DEF TypeOK, QueueType, NextFull
<1>2. AllocsIn(cur.data) = {} /\ cur'.data = Head(full)
  BY <1>1, EmptyAllocs DEF NextFull, InHand, Held
<1>3. /\ Head(full) = full[1] /\ L \in Nat /\ L >= 1 /\ Len(full') = L - 1
      /\ \A i \in 1 .. (L - 1) : full'[i] = full[i + 1]
  BY <1>1
<1> HIDE DEF L
<1>4. 1 \in 1 .. L /\ \A i \in 1 .. (L - 1) : i + 1 \in 1 .. L
  BY <1>3
<1>5. \A i \in 1 .. L : i = 1 \/ \E k \in 1 .. (L - 1) : full[i] = full'[k]
  <2>1. ASSUME NEW i \in 1 .. L, i # 1 PROVE i - 1 \in 1 .. (L - 1) /\ (i - 1) + 1 = i
    BY <1>3, <2>1
  <2> QED BY <1>3, <2>1
<1>6. ASSUME NEW e PROVE Kept(e)' <=> Kept(e)
  <2>1. (\E j \in 1 .. L : e \in AllocsIn(full[j])) <=>
          e \in AllocsIn(full[1]) \/ \E j \in 1 .. (L - 1) : e \in AllocsIn(full'[j])
    BY <1>3, <1>4, <1>5
  <2> QED BY <1>1, <1>2, <1>3, <2>1 DEF Kept, L
<1> QED BY <1>6 DEF Recorded

\* The parser moves one allocation record, or none.
LEMMA ParseAllocs ==
  ASSUME TypeOK, ParseRecord
  PROVE  Recorded' = Recorded
<1> DEFINE e == Head(cur.data)
           rest == Tail(cur.data)
<1>1. cur \in BufferType /\ parsed \in Seq(Entry) /\ cur' = [cur EXCEPT !.data = rest]
      /\ cur.data # <<>> /\ parsed' = Append(parsed, e) /\ UNCHANGED <<full, buffer>>
  BY DEF TypeOK, ParsingType, ParseRecord
<1>2. cur.data \in Seq(Entry) /\ cur'.data = rest
  BY <1>1 DEF BufferType
<1>3. /\ e \in Entry /\ rest \in Seq(Entry) /\ <<e>> \in Seq(Entry)
      /\ cur.data = <<e>> \o rest
  BY <1>1, <1>2, HeadFirst
<1>4. parsed' = parsed \o <<e>>
  <2>1. \A p \in Seq(Entry), x \in Entry : Append(p, x) = p \o <<x>>
    OBVIOUS
  <2> QED BY <1>1, <1>3, <2>1
<1> HIDE DEF e, rest
<1>5. AllocsIn(parsed') = AllocsIn(parsed) \cup AllocsIn(<<e>>)
  BY <1>1, <1>3, <1>4, ConcatAllocs
<1>6. AllocsIn(cur.data) = AllocsIn(<<e>>) \cup AllocsIn(rest)
  BY <1>3, ConcatAllocs
<1>7. ASSUME NEW x PROVE Kept(x)' <=> Kept(x)
  BY <1>1, <1>2, <1>5, <1>6 DEF Kept
<1> QED BY <1>7 DEF Recorded

\* An appended allocation is a record that was nowhere before; an appended event
\* is none.
LEMMA AppendAllocs ==
  ASSUME TypeOK, SlotData, \A s \in SlotIds : OnItsWay(s), NEW t \in Threads, AppendRecord(t)
  PROVE  \/ kind[t] # "alloc" /\ Recorded' = Recorded
         \/ /\ kind[t] = "alloc"
            /\ \E x : /\ x \notin Recorded /\ Recorded' = Recorded \cup {x}
                      /\ x.value = num[t]
<1> DEFINE r == SlotOf(t)
           lead == IF kind[t] = "event" THEN LossRow(r) ELSE <<>>
           old == buffer[r].data
           d == old \o lead \o Row(t, r)
           x == Row(t, r)[1]
<1>1. r \in SlotIds
  BY SlotOfType DEF TypeOK
<1>2. LossRow(r) \in Seq(Entry) /\ Row(t, r) \in Seq(Entry) /\ lead \in Seq(Entry)
  BY <1>1, RowsType, EmptyType DEF TypeOK
<1>3. old \in Seq(Entry) /\ old \o lead \in Seq(Entry)
  BY <1>1, <1>2 DEF TypeOK, SlotsType, BufferType
<1>4. /\ buffer' = [buffer EXCEPT ![r].data = d]
      /\ UNCHANGED <<full, cur, parsed>>
  BY DEF AppendRecord
<1>5. \A i \in DOMAIN lead : lead[i].kind = "loss"
  BY DEF LossRow
<1>6. /\ DOMAIN Row(t, r) = {1} /\ x.slot = r /\ x.n = appended[r] + 1 /\ x.kind = kind[t]
      /\ x \in Entry /\ (kind[t] = "alloc" => x.value = num[t])
  <2>1. x \in Entry
    BY <1>2 DEF Row
  <2> QED BY <2>1 DEF Row
<1>7. AllocsIn(lead) = {}
  BY <1>5 DEF AllocsIn, AllocAt
<1>8. AllocsIn(Row(t, r)) = IF kind[t] = "alloc" THEN {x} ELSE {}
  BY <1>6 DEF AllocsIn, AllocAt
<1> HIDE DEF r, lead, old, x
<1>9. AllocsIn(d) = AllocsIn(old) \cup AllocsIn(Row(t, r))
  <2>1. AllocsIn(old \o lead) = AllocsIn(old)
    <3>1. AllocsIn(old \o lead) = AllocsIn(old) \cup AllocsIn(lead)
      BY <1>2, <1>3, ConcatAllocs
    <3> QED BY <1>7, <3>1
  <2> QED BY <1>2, <1>3, <2>1, ConcatAllocs
<1> HIDE DEF d
<1>10. \A s \in SlotIds : buffer'[s].data = IF s = r THEN d ELSE buffer[s].data
  BY <1>1, <1>4 DEF TypeOK, SlotsType, BufferType
<1>11. \A e : Kept(e)' <=> Kept(e) \/ e \in AllocsIn(Row(t, r))
  <2>1. \A e : (\E s \in SlotIds : e \in AllocsIn(buffer'[s].data)) <=>
                 (\E s \in SlotIds : e \in AllocsIn(buffer[s].data)) \/ e \in AllocsIn(Row(t, r))
    BY <1>1, <1>9, <1>10 DEF old
  <2> QED BY <1>4, <2>1 DEF Kept
<1>12. CASE kind[t] # "alloc"
  BY <1>8, <1>11, <1>12 DEF Recorded
<1>13. CASE kind[t] = "alloc"
  <2>1. Recorded' = Recorded \cup {x}
    <3>1. \A e : Kept(e)' <=> Kept(e) \/ e = x
      BY <1>8, <1>11, <1>13
    <3> QED BY <1>6, <3>1 DEF Recorded
  <2>2. appended[r] \in Nat
    BY <1>1 DEF TypeOK, CountersType
  <2>3. ~OnTrail(r, x.n)
    BY <1>1, <1>6, <2>2 DEF OnItsWay, AllThere
  <2>4. ASSUME NEW seq, x \in AllocsIn(seq) PROVE x.n \in NumbersIn(seq, r)
    BY <1>6, <2>4 DEF AllocsIn, AllocAt, NumbersIn, Mine
  <2>5. ASSUME NEW s \in SlotIds, x \in AllocsIn(buffer[s].data) PROVE s = r
    BY <1>6, <2>5 DEF AllocsIn, AllocAt, SlotData
  <2>6. x \notin Recorded
    BY <2>3, <2>4, <2>5 DEF Recorded, Kept, OnTrail
  <2> QED BY <1>6, <1>13, <2>1, <2>6
<1> QED BY <1>12, <1>13

\* No step but record's append adds or removes an allocation record.
LEMMA RecordedStill ==
  ASSUME BInv, SlotData, Next, \A t \in Threads : ~AppendRecord(t)
  PROVE  Recorded' = Recorded
<1> USE DEF BInv, IInv
<1>1. ASSUME \A s \in SlotIds : buffer'[s].data = buffer[s].data,
             cur'.data = cur.data, UNCHANGED <<full, parsed>>
      PROVE  Recorded' = Recorded
  BY <1>1 DEF Recorded, Kept
<1>2. CASE ~BufferMoves
  BY <1>1, <1>2, BuffersStill
<1>3. ASSUME NEW t \in Threads, SubmitFull(t) PROVE Recorded' = Recorded
  <2>1. SlotOf(t) \in SlotIds /\ UNCHANGED <<parsed, cur>>
    BY <1>3, SlotOfType DEF SubmitFull, TypeOK
  <2> QED BY <1>1, <1>3, <2>1, SubmitAllocs DEF SubmitFull
<1>4. ASSUME NEW t \in Threads, Acquire(t) PROVE Recorded' = Recorded
  <2>1. SlotOf(t) \in SlotIds /\ UNCHANGED <<full, parsed, cur>>
    BY <1>4, SlotOfType DEF Acquire, TypeOK
  <2>2. buffer[SlotOf(t)].data = <<>>
    BY <1>4, <2>1 DEF Acquire, Emptied, SlotData
  <2>3. \A s \in SlotIds : s # SlotOf(t) => buffer'[s] = buffer[s]
    BY <1>4, <2>1 DEF Acquire, TypeOK, SlotsType
  <2>4. buffer'[SlotOf(t)] = buffer[SlotOf(t)] \/ buffer'[SlotOf(t)] = Held(<<>>)
    BY <1>4, <2>1 DEF Acquire, TypeOK, SlotsType
  <2>5. buffer'[SlotOf(t)].data = <<>>
    BY <2>2, <2>4 DEF Held
  <2> QED BY <1>1, <2>1, <2>2, <2>3, <2>5
<1>5. CASE NextFull
  BY <1>5, TakeAllocs
<1>6. CASE ParseRecord
  BY <1>6, ParseAllocs
<1>7. CASE Recycle
  <2>1. cur'.data = cur.data /\ UNCHANGED <<buffer, full, parsed>>
    BY <1>7 DEF Recycle, None
  <2> QED BY <1>1, <2>1
<1>8. CASE FlushSlot
  <2>1. slots[wi] \in SlotIds /\ UNCHANGED <<parsed, cur>>
    BY <1>8 DEF FlushSlot, TypeOK, SlotsType, WriterType
  <2> QED BY <1>1, <1>8, <2>1, SubmitAllocs DEF FlushSlot
<1>9. CASE FinishSlot
  <2>1. slots[fi] \in SlotIds /\ UNCHANGED <<parsed, cur>>
    BY <1>9 DEF FinishSlot, TypeOK, SlotsType, FinishType
  <2> QED BY <1>1, <1>9, <2>1, SubmitAllocs DEF FinishSlot
<1> QED BY <1>2, <1>3, <1>4, <1>5, <1>6, <1>7, <1>8, <1>9 DEF BufferMoves

\* Where the numbers of allocations come from and go.
Counting(t) == Number(t) \/ CheckPaused(t) \/ AppendRecord(t) \/ DropRecord(t)

\* The remaining actions neither number an allocation nor finish one.
LEMMA CarryingStill ==
  ASSUME TypeOK, Next, \A t \in Threads : ~Counting(t)
  PROVE  Carrying' = Carrying /\ UNCHANGED counters
<1> USE DEF TypeOK, ThreadsType, Counting, Carrying, Numbered
<1>1. CASE WriterAny \/ FinishAny
  BY <1>1, WriterFrame, FinishFrame
<1>2. ASSUME NEW t \in Threads, ThreadAny(t)
      PROVE  Carrying' = Carrying /\ UNCHANGED counters
  <2>1. ASSUME NEW k \in Kinds, Begin(t, k) PROVE Carrying' = Carrying /\ UNCHANGED counters
    BY <2>1 DEF Begin
  <2>2. CASE Enter(t) \/ Leave(t) \/ Teardown(t)
    BY <2>2 DEF Enter, Leave, Teardown
  <2>3. CASE CheckAccepting(t)
    BY <2>3 DEF CheckAccepting, Admitted
  <2>4. CASE ThreadSlot(t) \/ LockSlot(t)
    BY <2>4 DEF ThreadSlot, LockSlot
  <2>5. CASE SubmitFull(t) \/ Acquire(t)
    BY <2>5 DEF SubmitFull, Acquire
  <2> QED BY <1>2, <2>1, <2>2, <2>3, <2>4, <2>5 DEF ThreadAny, ThreadStep
<1> QED BY <1>1, <1>2, NextCases

\* Only an allocation gets to the step that numbers it.
LEMMA NumbersAllocsStep ==
  ASSUME TypeOK, NumbersAllocs, Next
  PROVE  NumbersAllocs'
<1> USE DEF TypeOK, ThreadsType, NumbersAllocs
<1>1. CASE WriterAny \/ FinishAny
  BY <1>1, WriterFrame, FinishFrame
<1>2. ASSUME NEW t \in Threads, ThreadAny(t) PROVE NumbersAllocs'
  <2>1. ASSUME NEW k \in Kinds, Begin(t, k) PROVE NumbersAllocs'
    BY <2>1 DEF Begin
  <2>2. CASE Enter(t) \/ Leave(t) \/ Teardown(t)
    BY <2>2 DEF Enter, Leave, Teardown
  <2>3. CASE CheckAccepting(t)
    BY <2>3 DEF CheckAccepting, Admitted
  <2>4. CASE Number(t) \/ CheckPaused(t) \/ ThreadSlot(t) \/ LockSlot(t)
    BY <2>4 DEF Number, CheckPaused, ThreadSlot, LockSlot
  <2>5. CASE SubmitFull(t) \/ Acquire(t) \/ AppendRecord(t) \/ DropRecord(t)
    BY <2>5 DEF SubmitFull, Acquire, AppendRecord, DropRecord
  <2> QED BY <1>2, <2>1, <2>2, <2>3, <2>4, <2>5 DEF ThreadAny, ThreadStep
<1> QED BY <1>1, <1>2, NextCases

\* Every numbered allocation stays accounted for.
LEMMA BalancedStep ==
  ASSUME FInv, Next
  PROVE  Balanced'
<1> USE DEF FInv, CInv, BInv, IInv
<1> DEFINE R == Cardinality(Recorded)
           C == Cardinality(Carrying)
<1>1. IsFiniteSet(Carrying) /\ C \in Nat /\ IsFiniteSet(Recorded) /\ R \in Nat
  BY ThreadsAssumption, FS_Subset, FS_CardinalityType DEF Carrying, Balanced
<1>2. allocSeq \in Nat /\ allocDropped \in Nat /\ allocPaused \in Nat
  BY DEF TypeOK, CountersType
<1>3. allocSeq = R + C + allocDropped + allocPaused
  BY DEF Balanced
<1>4. \A t \in Threads : t \in Carrying => Cardinality(Carrying \ {t}) = C - 1
  BY <1>1, FS_RemoveElement
<1> USE DEF TypeOK, ThreadsType
<1>5. ASSUME NEW t \in Threads, Number(t) PROVE Balanced'
  <2>1. Recorded' = Recorded
    BY <1>5, RecordedStill DEF Number, AppendRecord
  <2>2. t \notin Carrying /\ Carrying' = Carrying \cup {t}
    BY <1>5 DEF Number, Carrying, Numbered, NumbersAllocs
  <2>3. Cardinality(Carrying') = C + 1
    BY <1>1, <2>2, FS_AddElement
  <2>4. allocSeq' = allocSeq + 1 /\ UNCHANGED <<allocDropped, allocPaused>>
    BY <1>5 DEF Number
  <2> QED BY <1>1, <1>2, <1>3, <2>1, <2>3, <2>4 DEF Balanced
<1>6. ASSUME NEW t \in Threads, CheckPaused(t) PROVE Balanced'
  <2>1. Recorded' = Recorded
    BY <1>6, RecordedStill DEF CheckPaused, AppendRecord
  <2>2. UNCHANGED <<allocSeq, allocDropped>>
    BY <1>6 DEF CheckPaused
  <2>3. CASE paused /\ kind[t] = "alloc"
    <3>1. t \in Carrying /\ Carrying' = Carrying \ {t} /\ allocPaused' = allocPaused + 1
      BY <1>6, <2>3 DEF CheckPaused, Carrying, Numbered
    <3>2. Cardinality(Carrying') = C - 1
      BY <1>4, <3>1
    <3> QED BY <1>1, <1>2, <1>3, <2>1, <2>2, <3>1, <3>2 DEF Balanced
  <2>4. CASE ~(paused /\ kind[t] = "alloc")
    <3>1. Carrying' = Carrying /\ UNCHANGED allocPaused
      BY <1>6, <2>4 DEF CheckPaused, Carrying, Numbered
    <3> QED BY <2>1, <2>2, <3>1 DEF Balanced
  <2> QED BY <2>3, <2>4
<1>7. ASSUME NEW t \in Threads, AppendRecord(t) PROVE Balanced'
  <2>1. UNCHANGED <<allocSeq, allocDropped, allocPaused>>
    BY <1>7 DEF AppendRecord
  <2>2. CASE kind[t] # "alloc"
    <3>1. Recorded' = Recorded
      BY <1>7, <2>2, AppendAllocs
    <3>2. Carrying' = Carrying
      BY <1>7, <2>2 DEF AppendRecord, Carrying, Numbered
    <3> QED BY <2>1, <3>1, <3>2 DEF Balanced
  <2>3. CASE kind[t] = "alloc"
    <3>1. PICK x : x \notin Recorded /\ Recorded' = Recorded \cup {x}
      BY <1>7, <2>3, AppendAllocs
    <3>2. IsFiniteSet(Recorded') /\ Cardinality(Recorded') = R + 1
      BY <1>1, <3>1, FS_AddElement
    <3>3. t \in Carrying /\ Carrying' = Carrying \ {t}
      BY <1>7, <2>3 DEF AppendRecord, Carrying, Numbered
    <3>4. Cardinality(Carrying') = C - 1
      BY <1>4, <3>3
    <3> QED BY <1>1, <1>2, <1>3, <2>1, <3>2, <3>4 DEF Balanced
  <2> QED BY <2>2, <2>3
<1>8. ASSUME NEW t \in Threads, DropRecord(t) PROVE Balanced'
  <2>1. Recorded' = Recorded
    <3>1. \A u \in Threads : ~AppendRecord(u)
      <4>1. ASSUME NEW u \in Threads, AppendRecord(u) PROVE FALSE
        <5>1. pc' = [pc EXCEPT ![u] = "leave"] /\ pc[u] = "append" /\ buffer[SlotOf(u)].held
          BY <4>1 DEF AppendRecord
        <5>2. pc' = [pc EXCEPT ![t] = "leave"] /\ pc[t] = "append" /\ ~buffer[SlotOf(t)].held
          BY <1>8 DEF DropRecord
        <5>3. u = t
          BY <5>1, <5>2
        <5> QED BY <5>1, <5>2, <5>3
      <4> QED BY <4>1
    <3> QED BY <3>1, RecordedStill
  <2>2. UNCHANGED <<allocSeq, allocPaused>>
    BY <1>8 DEF DropRecord
  <2>3. CASE kind[t] = "event"
    <3>1. Carrying' = Carrying /\ UNCHANGED allocDropped
      BY <1>8, <2>3 DEF DropRecord, Carrying, Numbered
    <3> QED BY <2>1, <2>2, <3>1 DEF Balanced
  <2>4. CASE kind[t] = "alloc"
    <3>1. t \in Carrying /\ Carrying' = Carrying \ {t} /\ allocDropped' = allocDropped + 1
      BY <1>8, <2>4 DEF DropRecord, Carrying, Numbered
    <3>2. Cardinality(Carrying') = C - 1
      BY <1>4, <3>1
    <3> QED BY <1>1, <1>2, <1>3, <2>1, <2>2, <3>1, <3>2 DEF Balanced
  <2> QED BY <2>3, <2>4
<1>9. CASE \A t \in Threads : ~Counting(t)
  <2>1. Carrying' = Carrying /\ UNCHANGED counters /\ Recorded' = Recorded
    BY <1>9, CarryingStill, RecordedStill DEF Counting
  <2> QED BY <2>1 DEF Balanced
<1> QED BY <1>5, <1>6, <1>7, <1>8, <1>9 DEF Counting

\* Nothing is numbered before the first call.
LEMMA InitFInv ==
  ASSUME Init
  PROVE  FInv
<1>1. Carrying = {} /\ NumbersAllocs
  BY DEF Init, Carrying, Numbered, NumbersAllocs
<1>2. \A e : ~Kept(e)
  BY EmptyAllocs DEF Init, None, Kept
<1>3. Recorded = {}
  BY <1>2 DEF Recorded
<1>4. allocSeq = 0 /\ allocDropped = 0 /\ allocPaused = 0
  BY DEF Init
<1>5. Balanced
  BY <1>1, <1>3, <1>4, FS_EmptySet DEF Balanced
<1> QED BY <1>1, <1>5, InitCInv DEF FInv

\* Every step keeps the balance of allocations.
LEMMA NextFInv ==
  ASSUME FInv, [Next]_vars
  PROVE  FInv'
<1>1. CInv'
  BY NextCInv DEF FInv
<1>2. CASE Next
  BY <1>1, <1>2, BalancedStep, NumbersAllocsStep DEF FInv, CInv, BInv, IInv
<1>3. CASE UNCHANGED vars
  BY <1>1, <1>3 DEF FInv, vars, NumbersAllocs, Balanced, Recorded, Kept, Carrying
<1> QED BY <1>2, <1>3

\* The balance of allocations holds in every reachable state.
THEOREM BalanceInductive == Spec => []FInv
<1>1. Init => FInv
  BY InitFInv
<1>2. FInv /\ [Next]_vars => FInv'
  BY NextFInv
<1> QED BY <1>1, <1>2, PTL DEF Spec

\* No two positions of what the writer parsed hold the same allocation record.
LEMMA ParsedOnce ==
  ASSUME TypeOK, \A s \in SlotIds : OnItsWay(s),
         NEW i \in AllocAt(parsed), NEW j \in AllocAt(parsed), parsed[i] = parsed[j]
  PROVE  i = j
<1>1. parsed \in Seq(Entry) /\ i \in DOMAIN parsed /\ j \in DOMAIN parsed
  BY DEF TypeOK, ParsingType, AllocAt
<1>2. parsed[i] \in Entry /\ i \in Int /\ j \in Int
  BY <1>1
<1> DEFINE s == parsed[i].slot
<1>3. s \in SlotIds /\ parsed[i].n \in Nat
  BY <1>2 DEF Entry
<1>4. i \in Mine(parsed, s) /\ j \in Mine(parsed, s) /\ Ordered(parsed, s)
  BY <1>1, <1>3 DEF AllocAt, Mine, OnItsWay, InPlace
<1>5. ~(i < j) /\ ~(j < i)
  BY <1>3, <1>4 DEF Ordered
<1> QED BY <1>2, <1>5

\* Once the writer has left its loop every allocation record was parsed, and no
\* thread is on its way with a number.
LEMMA AllParsed ==
  ASSUME FInv, wpc \in Ending
  PROVE  Carrying = {} /\ Recorded = AllocsIn(parsed) /\ parsed \in Seq(Entry)
<1> USE DEF FInv, CInv, BInv, IInv
<1>1. closing /\ full = <<>> /\ fpc \in {"join", "joined"}
  BY DEF QueueClosed
<1>2. Carrying = {}
  BY <1>1 DEF NobodyInside, Draining, Inside, Carrying, Numbered
<1>3. \A s \in SlotIds : buffer[s].data = <<>>
  BY <1>1 DEF Walked, SlotData
<1>4. cur.data = <<>>
  BY DEF InHand, Ending
<1>5. \A e : Kept(e) <=> e \in AllocsIn(parsed)
  BY <1>1, <1>3, <1>4, EmptyAllocs DEF Kept
<1>6. parsed \in Seq(Entry)
  BY DEF TypeOK, ParsingType
<1>7. Recorded = AllocsIn(parsed)
  BY <1>5, <1>6 DEF Recorded, AllocsIn, AllocAt
<1> QED BY <1>2, <1>6, <1>7

\* When the writer has reached the footer, the allocations it parsed, the dropped
\* ones and those skipped while paused add up to the numbers given out.
LEMMA BalanceAtFooter ==
  ASSUME FInv, wpc \in Ending
  PROVE  allocSeq = Cardinality(AllocAt(parsed)) + allocDropped + allocPaused
<1> USE DEF FInv, CInv, BInv, IInv
<1>1. Carrying = {}
  BY AllParsed
<1>2. parsed \in Seq(Entry)
  BY AllParsed
<1>3. Recorded = AllocsIn(parsed)
  BY AllParsed
<1> DEFINE f == [i \in AllocAt(parsed) |-> parsed[i]]
<1>4. IsFiniteSet(AllocAt(parsed))
  <2>1. AllocAt(parsed) \in SUBSET (1 .. Len(parsed)) /\ Len(parsed) \in Int
    BY <1>2 DEF AllocAt
  <2>2. IsFiniteSet(1 .. Len(parsed))
    BY <2>1, FS_Interval
  <2> QED BY <2>1, <2>2, FS_Subset
<1>5. f \in Bijection(AllocAt(parsed), AllocsIn(parsed))
  <2>1. f \in [AllocAt(parsed) -> AllocsIn(parsed)]
    BY DEF AllocsIn
  <2>2. \A i, j \in AllocAt(parsed) : f[i] = f[j] => i = j
    BY ParsedOnce
  <2>3. \A e \in AllocsIn(parsed) : \E i \in AllocAt(parsed) : f[i] = e
    BY DEF AllocsIn
  <2> HIDE DEF f
  <2> QED BY <2>1, <2>2, <2>3 DEF Bijection, Injection, Surjection, IsInjective
<1>6. ExistsBijection(AllocAt(parsed), AllocsIn(parsed))
  BY <1>5 DEF ExistsBijection
<1>7. Cardinality(AllocAt(parsed)) = Cardinality(Recorded)
  BY <1>3, <1>4, <1>6, FS_Bijection
<1>8. Cardinality(Carrying) = 0
  BY <1>1, FS_EmptySet
<1>9. Cardinality(AllocAt(parsed)) \in Nat /\ allocDropped \in Nat /\ allocPaused \in Nat
  BY <1>4, FS_CardinalityType DEF TypeOK, CountersType
<1> QED BY <1>7, <1>8, <1>9 DEF Balanced

\* The totals of the footer add up, for any number of threads, allocations,
\* buffers and pauses.
THEOREM FooterTotals == Spec => []FooterBalances
<1>1. FInv => FooterBalances
  BY BalanceAtFooter DEF FooterBalances, Ending, AllocAt
<1> QED BY <1>1, BalanceInductive, PTL

----------------------------------------------------------------------------
(* DropsKept: a drop is moved by every step that moves records, and a step
   that adds one adds it to total_dropped *)

Loss(e) == IF e.kind = "loss" THEN e.value ELSE 0

LossTerms(seq) == [i \in DOMAIN seq |-> Loss(seq[i])]

LEMMA LossesIs == ASSUME NEW seq PROVE Losses(seq) = SumTo(LossTerms(seq), Len(seq))
BY DEF Losses, LossTerms, Loss

LEMMA LossType == ASSUME NEW e \in Entry PROVE Loss(e) \in Nat
BY DEF Loss, Entry

\* The terms of the sum over the Loss rows.
LEMMA LossTermsType ==
  ASSUME NEW seq \in Seq(Entry)
  PROVE  /\ Len(seq) \in Nat
         /\ \A i \in 1 .. Len(seq) : LossTerms(seq)[i] = Loss(seq[i]) /\ LossTerms(seq)[i] \in Nat
<1>1. /\ Len(seq) \in Nat /\ DOMAIN seq = 1 .. Len(seq)
      /\ \A i \in 1 .. Len(seq) : seq[i] \in Entry
  OBVIOUS
<1> QED BY <1>1, LossType DEF LossTerms

\* What Loss rows report is a number.
LEMMA LossesType == ASSUME NEW seq \in Seq(Entry) PROVE Losses(seq) \in Nat
BY LossTermsType, LossesIs, SumType

\* An empty buffer reports no drops.
LEMMA LossesEmpty == Losses(<<>>) = 0
<1>1. Len(<<>>) = 0 OBVIOUS
<1> QED BY <1>1, LossesIs, SumZero

\* A record appended adds what it reports.
LEMMA LossesAppend ==
  ASSUME NEW a \in Seq(Entry), NEW e \in Entry
  PROVE  Append(a, e) \in Seq(Entry) /\ Losses(Append(a, e)) = Losses(a) + Loss(e)
<1> DEFINE b == Append(a, e)
<1>1. /\ b \in Seq(Entry) /\ Len(a) \in Nat /\ Len(b) = Len(a) + 1 /\ b[Len(a) + 1] = e
      /\ \A i \in 1 .. Len(a) : b[i] = a[i]
  OBVIOUS
<1> HIDE DEF b
<1>2. LossTerms(b)[Len(a) + 1] = Loss(e)
  BY <1>1, LossTermsType
<1>3. \A i \in 1 .. Len(a) : LossTerms(b)[i] = LossTerms(a)[i]
  BY <1>1, LossTermsType
<1>4. SumTo(LossTerms(b), Len(a)) = SumTo(LossTerms(a), Len(a))
  BY <1>1, <1>3, SumSame
<1>5. SumTo(LossTerms(b), Len(a) + 1) = SumTo(LossTerms(b), Len(a)) + LossTerms(b)[Len(a) + 1]
  BY <1>1, SumNext
<1> QED BY <1>1, <1>2, <1>4, <1>5, LossesIs DEF b

\* The first record and the others report what the sequence does.
LEMMA LossesTail ==
  ASSUME NEW a \in Seq(Entry), a # <<>>
  PROVE  /\ Head(a) \in Entry /\ Tail(a) \in Seq(Entry)
         /\ Losses(a) = Loss(Head(a)) + Losses(Tail(a))
<1> DEFINE b == Tail(a)
<1>1. /\ b \in Seq(Entry) /\ Head(a) \in Entry /\ Head(a) = a[1]
      /\ Len(b) \in Nat /\ Len(a) = Len(b) + 1 /\ 1 \in 1 .. Len(a)
      /\ \A i \in 1 .. Len(b) : b[i] = a[i + 1] /\ i + 1 \in 1 .. Len(a)
  OBVIOUS
<1> HIDE DEF b
<1>2. \A i \in 1 .. Len(b) + 1 : LossTerms(a)[i] \in Nat
  BY <1>1, LossTermsType
<1>3. \A i \in 1 .. Len(b) : LossTerms(b)[i] = LossTerms(a)[i + 1]
  BY <1>1, LossTermsType
<1>4. SumTo(LossTerms(a), Len(b) + 1) = LossTerms(a)[1] + SumTo(LossTerms(b), Len(b))
  BY <1>1, <1>2, <1>3, SumFirst
<1>5. LossTerms(a)[1] = Loss(Head(a))
  BY <1>1, LossTermsType
<1> QED BY <1>1, <1>4, <1>5, LossesIs DEF b

\* The drops in the four places are numbers.
FullSum == SumTo(FullLosses, Len(full))
SlotSum == SumAlong(SlotLosses, SlotList)

LEMMA CountedIs ==
  DropsKept <=> totalDropped = Losses(parsed) + Losses(cur.data) + FullSum + SlotSum
BY DEF DropsKept, FullSum, SlotSum

LEMMA SlotsFinite == IsFiniteSet(SlotIds)
BY ThreadsAssumption, FS_AddElement DEF SlotIds

LEMMA SlotLossesType ==
  ASSUME TypeOK, NEW s \in SlotIds
  PROVE  /\ SlotLosses[s] = slotDropped[s] + Losses(buffer[s].data)
         /\ SlotLosses[s] \in Nat /\ slotDropped[s] \in Nat /\ Losses(buffer[s].data) \in Nat
<1>1. buffer[s].data \in Seq(Entry) /\ slotDropped[s] \in Nat
  BY DEF TypeOK, SlotsType, CountersType, BufferType
<1>2. Losses(buffer[s].data) \in Nat
  BY <1>1, LossesType
<1> QED BY <1>1, <1>2 DEF SlotLosses

LEMMA FullLossesType ==
  ASSUME TypeOK
  PROVE  /\ Len(full) \in Nat
         /\ \A i \in 1 .. Len(full) : FullLosses[i] = Losses(full[i]) /\ FullLosses[i] \in Nat
<1>1. /\ Len(full) \in Nat /\ DOMAIN full = 1 .. Len(full)
      /\ \A i \in 1 .. Len(full) : full[i] \in Seq(Entry)
  BY DEF TypeOK, QueueType
<1> QED BY <1>1, LossesType DEF FullLosses

LEMMA PlacesType ==
  ASSUME TypeOK
  PROVE  /\ Losses(parsed) \in Nat /\ Losses(cur.data) \in Nat
         /\ FullSum \in Nat /\ SlotSum \in Nat /\ totalDropped \in Nat
<1>1. parsed \in Seq(Entry) /\ cur.data \in Seq(Entry) /\ totalDropped \in Nat
  BY DEF TypeOK, ParsingType, BufferType, CountersType
<1>2. FullSum \in Nat
  BY FullLossesType, SumType DEF FullSum
<1>3. \A s \in SlotIds : SlotLosses[s] \in Nat
  BY SlotLossesType
<1>4. SlotSum \in Nat
  BY <1>3, SlotsFinite, AlongType DEF SlotSum, SlotList
<1> QED BY <1>1, <1>2, <1>4, LossesType

LEMMA SlotSumType == ASSUME TypeOK' PROVE SlotSum' \in Nat
<1>1. ASSUME NEW s \in SlotIds PROVE buffer'[s].data \in Seq(Entry) /\ slotDropped'[s] \in Nat
  BY DEF TypeOK, SlotsType, CountersType, BufferType
<1>2. \A s \in SlotIds : SlotLosses'[s] \in Nat
  BY <1>1, LossesType DEF SlotLosses
<1> QED BY <1>2, SlotsFinite, AlongType DEF SlotSum, SlotList

LEMMA FullSumType == ASSUME TypeOK' PROVE FullSum' \in Nat
<1>1. /\ Len(full') \in Nat /\ DOMAIN full' = 1 .. Len(full')
      /\ \A i \in 1 .. Len(full') : full'[i] \in Seq(Entry)
  BY DEF TypeOK, QueueType
<1>2. \A i \in 1 .. Len(full') : FullLosses'[i] \in Nat
  BY <1>1, LossesType DEF FullLosses
<1> QED BY <1>1, <1>2, SumType DEF FullSum

\* A step that touches the drops of one slot at most.
LEMMA SlotSumMoves ==
  ASSUME TypeOK, TypeOK', NEW r \in SlotIds,
         \A s \in SlotIds : s # r => slotDropped'[s] = slotDropped[s] /\ buffer'[s].data = buffer[s].data
  PROVE  SlotSum' + SlotLosses[r] = SlotSum + SlotLosses'[r]
<1>1. \A s \in SlotIds : /\ SlotLosses[s] = slotDropped[s] + Losses(buffer[s].data)
                         /\ SlotLosses[s] \in Nat
  BY SlotLossesType
<1>2. \A s \in SlotIds : /\ SlotLosses'[s] = slotDropped'[s] + Losses(buffer'[s].data)
                         /\ SlotLosses'[s] \in Nat
  <2>1. ASSUME NEW s \in SlotIds PROVE buffer'[s].data \in Seq(Entry) /\ slotDropped'[s] \in Nat
    BY DEF TypeOK, SlotsType, CountersType, BufferType
  <2>2. \A s \in SlotIds : Losses(buffer'[s].data) \in Nat
    BY <2>1, LossesType
  <2> QED BY <2>1, <2>2 DEF SlotLosses
<1>3. OnlyIn(SlotLosses, SlotLosses', SlotIds, r)
  BY <1>1, <1>2 DEF OnlyIn
<1> QED BY <1>3, SlotsFinite, AlongChange DEF SlotSum, SlotList

LEMMA SlotSumStill ==
  ASSUME TypeOK, TypeOK',
         \A s \in SlotIds : slotDropped'[s] = slotDropped[s] /\ buffer'[s].data = buffer[s].data
  PROVE  SlotSum' = SlotSum
<1>1. \A s \in SlotIds : SlotLosses[s] = SlotLosses'[s]
  BY DEF SlotLosses
<1> QED BY <1>1, SlotsFinite, AlongSame DEF SlotSum, SlotList

\* submit moves what the buffer of a slot reports to the queue.
LEMMA SubmitDrops ==
  ASSUME TypeOK, TypeOK', NEW r \in SlotIds, SubmitSlot(r), UNCHANGED slotDropped
  PROVE  FullSum' + SlotSum' = FullSum + SlotSum
<1> DEFINE L == Len(full)
           D == buffer[r].data
<1>1. /\ full \in Seq(Seq(Entry)) /\ D \in Seq(Entry) /\ L \in Nat
      /\ full' = Append(full, D) /\ buffer' = [buffer EXCEPT ![r] = None]
  BY DEF TypeOK, QueueType, SlotsType, BufferType, SubmitSlot
<1>2. /\ Len(full') = L + 1 /\ full'[L + 1] = D /\ L + 1 \in DOMAIN full'
      /\ \A i \in 1 .. L : full'[i] = full[i] /\ i \in DOMAIN full /\ i \in DOMAIN full'
  BY <1>1
<1>3. \A s \in SlotIds : buffer'[s] = IF s = r THEN None ELSE buffer[s]
  BY <1>1 DEF TypeOK, SlotsType
<1>4. FullSum' = FullSum + Losses(D)
  <2>1. FullLosses'[L + 1] = Losses(D) /\ \A i \in 1 .. L : FullLosses'[i] = FullLosses[i]
    BY <1>2 DEF FullLosses
  <2>2. SumTo(FullLosses', L + 1) = SumTo(FullLosses', L) + FullLosses'[L + 1]
    BY <1>1, SumNext
  <2>3. SumTo(FullLosses', L) = SumTo(FullLosses, L)
    BY <1>1, <2>1, SumSame
  <2> QED BY <1>2, <2>1, <2>2, <2>3 DEF FullSum
<1>5. SlotSum' + SlotLosses[r] = SlotSum + SlotLosses'[r]
  BY <1>3, SlotSumMoves
<1>6. SlotLosses[r] = slotDropped[r] + Losses(D) /\ slotDropped[r] \in Nat /\ Losses(D) \in Nat
  BY SlotLossesType
<1>7. SlotLosses'[r] = slotDropped[r]
  BY <1>3, <1>6, LossesEmpty DEF SlotLosses, None
<1>8. FullSum \in Nat /\ SlotSum \in Nat
  BY PlacesType
<1>9. SlotSum' \in Nat
  BY SlotSumType
<1> HIDE DEF D
<1> QED BY <1>4, <1>5, <1>6, <1>7, <1>8, <1>9

\* next_full takes what its buffer reports out of the queue.
LEMMA TakeDrops ==
  ASSUME TypeOK, InHand, NextFull
  PROVE  FullSum' + Losses(cur'.data) = FullSum + Losses(cur.data)
<1> DEFINE L == Len(full')
<1>1. /\ full \in Seq(Seq(Entry)) /\ full # <<>> /\ full' = Tail(full)
      /\ cur' = Held(Head(full))
  BY DEF TypeOK, QueueType, NextFull
<1>2. Losses(cur.data) = 0 /\ cur'.data = Head(full)
  <2>1. cur.data = <<>> /\ cur'.data = Head(full)
    BY <1>1 DEF NextFull, InHand, Held
  <2> QED BY <2>1, LossesEmpty
<1>3. /\ Head(full) = full[1] /\ L \in Nat /\ Len(full) = L + 1 /\ 1 \in 1 .. Len(full)
      /\ \A i \in 1 .. L : full'[i] = full[i + 1] /\ i + 1 \in 1 .. Len(full) /\ i \in DOMAIN full'
  BY <1>1
<1>4. \A i \in 1 .. Len(full) : FullLosses[i] = Losses(full[i]) /\ FullLosses[i] \in Nat
  BY FullLossesType
<1> HIDE DEF L
<1>5. \A i \in 1 .. L : FullLosses'[i] = FullLosses[i + 1]
  <2>1. \A i \in 1 .. L : FullLosses'[i] = Losses(full'[i])
    BY <1>3 DEF FullLosses
  <2> QED BY <1>3, <1>4, <2>1
<1>6. SumTo(FullLosses, L + 1) = FullLosses[1] + SumTo(FullLosses', L)
  <2>1. \A i \in 1 .. L + 1 : FullLosses[i] \in Nat
    BY <1>3, <1>4
  <2> QED BY <1>3, <1>5, <2>1, SumFirst
<1>7. FullSum = Losses(Head(full)) + FullSum'
  BY <1>3, <1>4, <1>6 DEF FullSum, L
<1>8. Losses(Head(full)) \in Nat /\ FullSum' \in Nat
  <2>1. \A i \in 1 .. L : FullLosses'[i] \in Nat
    BY <1>3, <1>4, <1>5
  <2>2. FullSum' \in Nat
    BY <1>3, <2>1, SumType DEF FullSum, L
  <2> QED BY <1>3, <1>4, <2>2
<1> QED BY <1>2, <1>7, <1>8

\* A record parsed reports what it reported in the buffer.
LEMMA ParseDrops ==
  ASSUME TypeOK, ParseRecord
  PROVE  Losses(parsed') + Losses(cur'.data) = Losses(parsed) + Losses(cur.data)
<1>1. cur \in BufferType /\ parsed \in Seq(Entry) /\ cur' = [cur EXCEPT !.data = Tail(cur.data)]
      /\ cur.data # <<>> /\ parsed' = Append(parsed, Head(cur.data))
  BY DEF TypeOK, ParsingType, ParseRecord
<1>2. cur.data \in Seq(Entry) /\ cur'.data = Tail(cur.data)
  BY <1>1 DEF BufferType
<1>3. /\ Head(cur.data) \in Entry /\ Tail(cur.data) \in Seq(Entry)
      /\ Losses(cur.data) = Loss(Head(cur.data)) + Losses(Tail(cur.data))
  BY <1>1, <1>2, LossesTail
<1>4. Losses(parsed') = Losses(parsed) + Loss(Head(cur.data))
  BY <1>1, <1>3, LossesAppend
<1>5. Losses(parsed) \in Nat /\ Loss(Head(cur.data)) \in Nat /\ Losses(Tail(cur.data)) \in Nat
  BY <1>1, <1>3, LossesType, LossType
<1> QED BY <1>2, <1>3, <1>4, <1>5

\* An event appended carries the drops of its slot in a Loss row.
LEMMA AppendDrops ==
  ASSUME TypeOK, TypeOK', NEW t \in Threads, AppendRecord(t)
  PROVE  SlotSum' = SlotSum
<1> DEFINE r == SlotOf(t)
           lead == IF kind[t] = "event" THEN LossRow(r) ELSE <<>>
           old == buffer[r].data
           x == Row(t, r)[1]
           d == old \o lead \o Row(t, r)
           loss == [kind |-> "loss", slot |-> r, n |-> 0, value |-> slotDropped[r]]
<1>1. r \in SlotIds
  BY SlotOfType DEF TypeOK
<1>2. LossRow(r) \in Seq(Entry) /\ Row(t, r) \in Seq(Entry)
  BY <1>1, RowsType DEF TypeOK
<1>3. old \in Seq(Entry) /\ slotDropped[r] \in Nat /\ kind[t] \in {"event", "alloc"}
  BY <1>1 DEF TypeOK, SlotsType, BufferType, CountersType, ThreadsType
<1>4. buffer' = [buffer EXCEPT ![r].data = d]
      /\ slotDropped' = IF kind[t] = "event" THEN [slotDropped EXCEPT ![r] = 0] ELSE slotDropped
  BY DEF AppendRecord
<1>5. Row(t, r) = <<x>> /\ x \in Entry /\ x.kind = kind[t]
  <2>1. Row(t, r) = <<x>> /\ x.kind = kind[t]
    BY DEF Row
  <2>2. x \in Entry
    BY <1>2 DEF Row
  <2> QED BY <2>1, <2>2
<1>6. Loss(x) = 0
  BY <1>3, <1>5 DEF Loss
<1>7. loss \in Entry /\ Loss(loss) = slotDropped[r]
  BY <1>1, <1>3 DEF Loss, Entry
<1> HIDE DEF r, x, old, loss
<1>8. Losses(d) = Losses(old) + (IF kind[t] = "event" THEN slotDropped[r] ELSE 0)
  <2>1. CASE lead = <<>>
    <3>1. d = Append(old, x)
      <4>1. \A p \in Seq(Entry), y \in Entry : p \o <<>> \o <<y>> = Append(p, y)
        OBVIOUS
      <4> QED BY <1>3, <1>5, <2>1, <4>1
    <3>2. kind[t] = "event" => slotDropped[r] = 0
      BY <2>1 DEF LossRow
    <3>3. Losses(d) = Losses(old) + 0
      BY <1>3, <1>5, <1>6, <3>1, LossesAppend
    <3> QED BY <3>2, <3>3
  <2>2. CASE lead # <<>>
    <3>1. kind[t] = "event" /\ lead = <<loss>>
      BY <2>2 DEF LossRow, loss
    <3>2. d = Append(Append(old, loss), x)
      <4>1. \A p \in Seq(Entry), z, y \in Entry : p \o <<z>> \o <<y>> = Append(Append(p, z), y)
        OBVIOUS
      <4> QED BY <1>3, <1>5, <1>7, <3>1, <4>1
    <3>3. Append(old, loss) \in Seq(Entry) /\ Losses(Append(old, loss)) = Losses(old) + slotDropped[r]
      BY <1>3, <1>7, LossesAppend
    <3>4. Losses(d) = Losses(Append(old, loss)) + 0
      BY <1>5, <1>6, <3>2, <3>3, LossesAppend
    <3>5. Losses(old) \in Nat
      BY <1>3, LossesType
    <3> QED BY <1>3, <3>1, <3>3, <3>4, <3>5
  <2> QED BY <2>1, <2>2
<1> HIDE DEF d
<1>9. \A s \in SlotIds : buffer'[s].data = IF s = r THEN d ELSE buffer[s].data
  BY <1>1, <1>4 DEF TypeOK, SlotsType, BufferType
<1>10. \A s \in SlotIds : slotDropped'[s] = IF s = r /\ kind[t] = "event" THEN 0 ELSE slotDropped[s]
  BY <1>1, <1>4 DEF TypeOK, CountersType
<1>11. SlotSum' + SlotLosses[r] = SlotSum + SlotLosses'[r]
  BY <1>1, <1>9, <1>10, SlotSumMoves
<1>12. SlotLosses[r] = slotDropped[r] + Losses(old) /\ Losses(old) \in Nat
  BY <1>1, SlotLossesType DEF old
<1>13. SlotLosses'[r] = slotDropped'[r] + Losses(d)
  BY <1>1, <1>9 DEF SlotLosses
<1>14. SlotLosses'[r] = SlotLosses[r]
  <2>1. CASE kind[t] = "event" BY <1>1, <1>3, <1>8, <1>10, <1>12, <1>13, <2>1
  <2>2. CASE kind[t] # "event" BY <1>1, <1>3, <1>8, <1>10, <1>12, <1>13, <2>2
  <2> QED BY <2>1, <2>2
<1>15. SlotSum \in Nat /\ SlotSum' \in Nat
  BY PlacesType, SlotSumType
<1> QED BY <1>3, <1>11, <1>12, <1>14, <1>15

\* A drop is counted in its slot.
LEMMA DropDrops ==
  ASSUME TypeOK, TypeOK', NEW t \in Threads, DropRecord(t)
  PROVE  SlotSum' - SlotSum = totalDropped' - totalDropped
<1> DEFINE r == SlotOf(t)
<1>1. r \in SlotIds
  BY SlotOfType DEF TypeOK
<1>2. SlotSum \in Nat /\ SlotSum' \in Nat /\ totalDropped \in Nat
  BY PlacesType, SlotSumType
<1>3. CASE kind[t] = "event"
  <2>1. /\ slotDropped' = [slotDropped EXCEPT ![r] = @ + 1] /\ totalDropped' = totalDropped + 1
        /\ UNCHANGED buffer
    BY <1>3 DEF DropRecord
  <2> HIDE DEF r
  <2>2. \A s \in SlotIds : slotDropped'[s] = IF s = r THEN slotDropped[r] + 1 ELSE slotDropped[s]
    BY <1>1, <2>1 DEF TypeOK, CountersType
  <2>3. SlotSum' + SlotLosses[r] = SlotSum + SlotLosses'[r]
    BY <1>1, <2>1, <2>2, SlotSumMoves
  <2>4. /\ SlotLosses[r] = slotDropped[r] + Losses(buffer[r].data)
        /\ slotDropped[r] \in Nat /\ Losses(buffer[r].data) \in Nat
    BY <1>1, SlotLossesType
  <2>5. SlotLosses'[r] = slotDropped[r] + 1 + Losses(buffer[r].data)
    BY <1>1, <2>1, <2>2 DEF SlotLosses
  <2>6. SlotSum' = SlotSum + 1
    BY <1>2, <2>3, <2>4, <2>5
  <2> QED BY <1>2, <2>1, <2>6
<1>4. CASE kind[t] # "event"
  <2>1. UNCHANGED <<slotDropped, buffer, totalDropped>>
    BY <1>4 DEF DropRecord
  <2>2. SlotSum' = SlotSum
    BY <2>1, SlotSumStill
  <2> QED BY <1>2, <2>1, <2>2
<1> QED BY <1>3, <1>4

\* Apart from record's append and its drop no step changes the drop counters.
LEMMA CountersStill ==
  ASSUME Next, \A t \in Threads : ~AppendRecord(t) /\ ~DropRecord(t)
  PROVE  UNCHANGED <<totalDropped, slotDropped>>
<1>1. ASSUME NEW t \in Threads, ThreadAny(t) PROVE UNCHANGED <<totalDropped, slotDropped>>
  BY <1>1 DEF ThreadAny, ThreadStep, Begin, Enter, CheckAccepting, Number, CheckPaused,
     ThreadSlot, LockSlot, SubmitFull, Acquire, Leave, Teardown
<1>2. CASE WriterAny BY <1>2, WriterFrame
<1>3. CASE FinishAny BY <1>3, FinishFrame
<1> QED BY <1>1, <1>2, <1>3, NextCases

\* Every step keeps the drops counted.
LEMMA DropsStep ==
  ASSUME CInv, CInv', DropsKept, Next
  PROVE  DropsKept'
<1>1. TypeOK /\ TypeOK' /\ InHand
  BY DEF CInv, BInv, IInv
<1>2. /\ Losses(parsed) \in Nat /\ Losses(cur.data) \in Nat /\ FullSum \in Nat
      /\ SlotSum \in Nat /\ totalDropped \in Nat
  BY <1>1, PlacesType
<1>3. totalDropped = Losses(parsed) + Losses(cur.data) + FullSum + SlotSum
  BY CountedIs
<1>4. SUFFICES totalDropped' = Losses(parsed') + Losses(cur'.data) + FullSum' + SlotSum'
  BY DEF DropsKept, FullSum, SlotSum
<1>5. ASSUME NEW t \in Threads, DropRecord(t) PROVE totalDropped' = Losses(parsed') + Losses(cur'.data) + FullSum' + SlotSum'
  <2>1. UNCHANGED <<parsed, cur, full>> /\ totalDropped' \in Nat
    BY <1>1, <1>5 DEF DropRecord, TypeOK, CountersType
  <2>2. FullSum' = FullSum
    BY <2>1 DEF FullSum, FullLosses
  <2>3. SlotSum' - SlotSum = totalDropped' - totalDropped /\ SlotSum' \in Nat
    BY <1>1, <1>5, DropDrops, SlotSumType
  <2>4. Losses(parsed') = Losses(parsed) /\ Losses(cur'.data) = Losses(cur.data)
    BY <2>1
  <2>5. PICK n \in Nat : n = Losses(parsed) + Losses(cur.data) + FullSum
    BY <1>2
  <2>6. totalDropped = n + SlotSum
    BY <1>3, <2>5
  <2>7. totalDropped' = n + SlotSum'
    <3>1. \A a, b, c, d \in Nat : d - b = c - a /\ a = n + b => c = n + d
      OBVIOUS
    <3> QED BY <1>2, <2>1, <2>3, <2>6, <3>1
  <2> QED BY <2>2, <2>4, <2>5, <2>7
<1>6. ASSUME NEW t \in Threads, AppendRecord(t) PROVE totalDropped' = Losses(parsed') + Losses(cur'.data) + FullSum' + SlotSum'
  <2>1. UNCHANGED <<parsed, cur, full, totalDropped>>
    BY <1>6 DEF AppendRecord
  <2>2. FullSum' = FullSum
    BY <2>1 DEF FullSum, FullLosses
  <2> QED BY <1>1, <1>3, <1>6, <2>1, <2>2, AppendDrops
<1>7. CASE \A t \in Threads : ~AppendRecord(t) /\ ~DropRecord(t)
  <2>1. UNCHANGED <<totalDropped, slotDropped>>
    BY <1>7, CountersStill
  <2>2. ASSUME \A s \in SlotIds : buffer'[s].data = buffer[s].data,
               cur'.data = cur.data, UNCHANGED <<full, parsed>>
        PROVE  totalDropped' = Losses(parsed') + Losses(cur'.data) + FullSum' + SlotSum'
    <3>1. FullSum' = FullSum
      BY <2>2 DEF FullSum, FullLosses
    <3>2. SlotSum' = SlotSum
      BY <1>1, <2>1, <2>2, SlotSumStill
    <3> QED BY <1>3, <2>1, <2>2, <3>1, <3>2
  <2>3. ASSUME NEW r \in SlotIds, SubmitSlot(r), UNCHANGED <<parsed, cur>>
        PROVE  totalDropped' = Losses(parsed') + Losses(cur'.data) + FullSum' + SlotSum'
    <3>1. FullSum' + SlotSum' = FullSum + SlotSum
      BY <1>1, <2>1, <2>3, SubmitDrops
    <3>2. FullSum' \in Nat /\ SlotSum' \in Nat
      BY <1>1, FullSumType, SlotSumType
    <3>3. Losses(parsed') = Losses(parsed) /\ Losses(cur'.data) = Losses(cur.data)
      BY <2>3
    <3>4. PICK n \in Nat : n = Losses(parsed) + Losses(cur.data)
      BY <1>2
    <3>5. totalDropped = n + FullSum + SlotSum
      BY <1>3, <3>4
    <3>6. totalDropped' = n + FullSum' + SlotSum'
      <4>1. \A a, b \in Nat : n + a + b = n + (a + b)
        OBVIOUS
      <4>2. n + FullSum' + SlotSum' = n + FullSum + SlotSum
        <5>1. n + FullSum' + SlotSum' = n + (FullSum' + SlotSum')
          BY <3>2, <4>1
        <5>2. n + FullSum + SlotSum = n + (FullSum + SlotSum)
          BY <1>2, <4>1
        <5> QED BY <3>1, <5>1, <5>2
      <4> QED BY <2>1, <3>5, <4>2
    <3> QED BY <3>3, <3>4, <3>6
  <2>4. CASE ~BufferMoves
    BY <2>2, <2>4, BuffersStill
  <2>5. ASSUME NEW t \in Threads, SubmitFull(t) PROVE totalDropped' = Losses(parsed') + Losses(cur'.data) + FullSum' + SlotSum'
    <3>1. SlotOf(t) \in SlotIds /\ UNCHANGED <<parsed, cur>>
      BY <1>1, <2>5, SlotOfType DEF SubmitFull, TypeOK
    <3> QED BY <2>2, <2>3, <2>5, <3>1 DEF SubmitFull
  <2>6. ASSUME NEW t \in Threads, Acquire(t) PROVE totalDropped' = Losses(parsed') + Losses(cur'.data) + FullSum' + SlotSum'
    <3>1. SlotOf(t) \in SlotIds /\ UNCHANGED <<full, parsed, cur>>
      BY <1>1, <2>6, SlotOfType DEF Acquire, TypeOK
    <3>2. buffer[SlotOf(t)].data = <<>>
      BY <2>6, <3>1 DEF Acquire, CInv, BInv, Emptied, SlotData
    <3>3. \A s \in SlotIds : s # SlotOf(t) => buffer'[s] = buffer[s]
      BY <1>1, <2>6, <3>1 DEF Acquire, TypeOK, SlotsType
    <3>4. buffer'[SlotOf(t)] = buffer[SlotOf(t)] \/ buffer'[SlotOf(t)] = Held(<<>>)
      BY <1>1, <2>6, <3>1 DEF Acquire, TypeOK, SlotsType
    <3>5. buffer'[SlotOf(t)].data = <<>>
      BY <3>2, <3>4 DEF Held
    <3> QED BY <2>2, <3>1, <3>2, <3>3, <3>5
  <2>7. CASE NextFull
    <3>1. UNCHANGED <<parsed, buffer>>
      BY <2>7 DEF NextFull
    <3>2. FullSum' + Losses(cur'.data) = FullSum + Losses(cur.data)
      BY <1>1, <2>7, TakeDrops
    <3>3. SlotSum' = SlotSum
      BY <1>1, <2>1, <3>1, SlotSumStill
    <3>4. FullSum' \in Nat /\ Losses(cur'.data) \in Nat
      BY <1>1, FullSumType, LossesType DEF TypeOK, ParsingType, BufferType
    <3> QED BY <1>2, <1>3, <2>1, <3>1, <3>2, <3>3, <3>4
  <2>8. CASE ParseRecord
    <3>1. UNCHANGED <<full, buffer>>
      BY <2>8 DEF ParseRecord
    <3>2. Losses(parsed') + Losses(cur'.data) = Losses(parsed) + Losses(cur.data)
      BY <1>1, <2>8, ParseDrops
    <3>3. SlotSum' = SlotSum
      BY <1>1, <2>1, <3>1, SlotSumStill
    <3>4. FullSum' = FullSum
      BY <3>1 DEF FullSum, FullLosses
    <3> QED BY <1>3, <2>1, <3>2, <3>3, <3>4
  <2>9. CASE Recycle
    <3>1. cur'.data = cur.data /\ UNCHANGED <<buffer, full, parsed>>
      BY <2>9 DEF Recycle, None
    <3> QED BY <2>2, <3>1
  <2>10. CASE FlushSlot
    <3>1. slots[wi] \in SlotIds /\ UNCHANGED <<parsed, cur>>
      BY <1>1, <2>10 DEF FlushSlot, TypeOK, SlotsType, WriterType
    <3> QED BY <2>2, <2>3, <2>10, <3>1 DEF FlushSlot
  <2>11. CASE FinishSlot
    <3>1. slots[fi] \in SlotIds /\ UNCHANGED <<parsed, cur>>
      BY <1>1, <2>11 DEF FinishSlot, TypeOK, SlotsType, FinishType
    <3> QED BY <2>2, <2>3, <2>11, <3>1 DEF FinishSlot
  <2> QED BY <1>7, <2>4, <2>5, <2>6, <2>7, <2>8, <2>9, <2>10, <2>11 DEF BufferMoves
<1> QED BY <1>5, <1>6, <1>7

\* Nothing is dropped at first.
LEMMA InitDrops == ASSUME Init PROVE DropsKept
<1>1. /\ totalDropped = 0 /\ parsed = <<>> /\ cur.data = <<>> /\ full = <<>>
      /\ \A s \in SlotIds : slotDropped[s] = 0 /\ buffer[s].data = <<>>
  BY DEF Init, None
<1>2. Losses(parsed) = 0 /\ Losses(cur.data) = 0
  BY <1>1, LossesEmpty
<1>3. FullSum = 0
  <2>1. Len(full) = 0 BY <1>1
  <2> QED BY <2>1, SumZero DEF FullSum
<1>4. \A s \in SlotIds : SlotLosses[s] = 0
  BY <1>1, LossesEmpty DEF SlotLosses
<1>5. SlotSum = 0
  BY <1>4, SlotsFinite, AlongZeros DEF SlotSum, SlotList
<1> QED BY <1>1, <1>2, <1>3, <1>5, CountedIs

\* When the writer has ended, no buffer is left anywhere, and a drop is either in a
\* row that was parsed or still in its slot.
LEMMA KeptAtTheEnd ==
  ASSUME CInv, DropsKept, wpc = "done"
  PROVE  totalDropped = Losses(parsed) + SumAlong(slotDropped, SlotList)
<1>1. IInv BY DEF CInv, BInv
<1>2. TypeOK BY <1>1 DEF IInv
<1>3. wpc \in Ending BY DEF Ending
<1>4. full = <<>> /\ fpc \in {"join", "joined"} BY <1>1, <1>3 DEF IInv, QueueClosed
<1>5. ~cur.held BY <1>1 DEF IInv, InHand
<1>6. cur.data = <<>> BY <1>1, <1>5 DEF IInv, InHand
<1>7. FullSum = 0
  <2>1. Len(full) = 0 BY <1>4
  <2> QED BY <2>1, SumZero DEF FullSum
<1>8. \A s \in SlotIds : buffer[s].data = <<>>
  BY <1>1, <1>4 DEF IInv, Walked, CInv, SlotData
<1>9. \A s \in SlotIds : SlotLosses[s] = slotDropped[s]
  BY <1>2, <1>8, SlotLossesType, LossesEmpty
<1>10. SlotSum = SumAlong(slotDropped, SlotList)
  BY <1>9, SlotsFinite, AlongSame DEF SlotSum, SlotList
<1>11. Losses(cur.data) = 0 BY <1>6, LossesEmpty
<1>12. totalDropped = Losses(parsed) + Losses(cur.data) + FullSum + SlotSum BY CountedIs
<1>13. Losses(parsed) \in Nat /\ SlotSum \in Nat BY <1>2, PlacesType
<1> QED BY <1>7, <1>10, <1>11, <1>12, <1>13

\* Every dropped event is counted once, and what the Loss rows do not report when the
\* writer has ended is what finish left in the slots.
THEOREM DropsAccounted == Spec => []DropsCounted
<1>1. Init => DropsKept
  BY InitDrops
<1>2. CInv /\ CInv' /\ DropsKept /\ [Next]_vars => DropsKept'
  <2>1. CASE UNCHANGED vars
    BY <2>1 DEF vars, DropsKept, SlotLosses, FullLosses
  <2> QED BY <2>1, DropsStep
<1>3. CInv /\ DropsKept => DropsCounted
  <2> SUFFICES ASSUME CInv, DropsKept PROVE DropsCounted OBVIOUS
  <2>1. ASSUME wpc = "done"
        PROVE  totalDropped = Losses(parsed) + SumAlong(slotDropped, SlotList)
    BY <2>1, KeptAtTheEnd
  <2> QED BY <2>1 DEF DropsCounted
<1> QED BY <1>1, <1>2, <1>3, ConservationInductive, PTL DEF Spec

----------------------------------------------------------------------------
(* AllocationCapture: the packets of the channel *)

Over == {"segments", "done"}

OutcomeType ==
  [footer : BOOLEAN, records : Seq(Entry), produced : Nat, dropped : Nat, lost : Nat,
   packets : Nat, paused : Nat, invalid : BOOLEAN]

SourceType ==
  /\ rpc \in {"poll", "check", "end", "joined"} /\ stop \in BOOLEAN
  /\ expected \in Nat /\ missing \in Nat /\ outcome \in OutcomeType

\* Packets in the channel are numbered upwards, from what the source expects to
\* what the collector sent last.
PacketsInOrder ==
  /\ expected <= batchSeq + 1
  /\ \A i \in 1 .. Len(chan) :
       expected + i <= chan[i].sequence + 1 /\ chan[i].sequence <= batchSeq
  /\ \A i, j \in 1 .. Len(chan) : i < j => chan[i].sequence + (j - i) <= chan[j].sequence

\* Every number the source has missed, or will miss, belongs to a refused packet.
GapsAreDrops == chanDropped + Len(chan) + expected = missing + batchSeq + 1

\* The totals of a footer are final.
Final(p) ==
  /\ wpc \in Over
  /\ p.produced = allocSeq /\ p.dropped = allocDropped /\ p.paused = allocPaused

\* Nothing follows the footer.
FooterLast ==
  /\ \A i \in 1 .. Len(chan) : chan[i].footer => i = Len(chan) /\ Final(chan[i])
  /\ outcome.footer => chan = <<>> /\ Final(outcome)

\* The refused packets are counted when no more can be.
RefusalsKnown == rpc = "joined" /\ outcome.footer => outcome.packets = chanDropped

SInv ==
  /\ FInv /\ SourceType /\ PacketsInOrder /\ GapsAreDrops /\ FooterLast /\ RefusalsKnown
  /\ LossIsNotCorruption

USE DEF Step, WStep, FStep, flags, counters, queue, threads, sending, writer, finisher,
        Outside

\* Which actions of the collector prepare or send packets.
Sends == ParseRecord \/ SendChunk \/ Footer

\* The remaining actions leave packets alone.
LEMMA SendingStill ==
  ASSUME Next, ~Sends
  PROVE  UNCHANGED <<batch, parsed, sending>>
<1>1. ASSUME NEW t \in Threads, ThreadAny(t) PROVE UNCHANGED <<batch, parsed, sending>>
  BY <1>1, ThreadFrame
<1>2. CASE WriterAny
  BY <1>2 DEF Sends, WriterAny, WriterStep, NextFull, NextClosed, Notified, Tick, Recycle,
     FlushLock, FlushSlot, FlushDone, FlushRows, NoCommand, FinishSegments, Command
<1>3. CASE FinishAny
  BY <1>3, FinishFrame
<1> QED BY <1>1, <1>2, <1>3, NextCases

\* Once the footer was sent, the collector's counters and its packets are final.
LEMMA OverStays ==
  ASSUME IInv, Next, wpc \in Over
  PROVE  wpc' \in Over /\ UNCHANGED <<counters, sending>>
<1>1. \A t \in Threads : pc[t] \notin Inside
  BY DEF IInv, QueueClosed, NobodyInside, Draining, Ending, Over
<1>2. \A t \in Threads : ~Counting(t)
  BY <1>1 DEF Counting, Number, CheckPaused, AppendRecord, DropRecord, Inside
<1>3. UNCHANGED counters
  BY <1>2, CarryingStill DEF IInv
<1>4. wpc \notin {"drain", "footer"}
  BY DEF Over
<1>5. UNCHANGED sending
  BY <1>4, SendingStill DEF Sends, ParseRecord, SendChunk, Footer
<1>6. ASSUME NEW t \in Threads, ThreadAny(t) PROVE wpc' \in Over
  BY <1>6, ThreadFrame
<1>7. CASE FinishAny
  BY <1>7, FinishFrame
<1>8. CASE WriterAny
  BY <1>8 DEF WriterAny, WriterStep, NextFull, NextClosed, Notified, Tick, ParseRecord,
     SendChunk, Recycle, FlushLock, FlushSlot, FlushDone, FlushRows, NoCommand, Footer,
     FinishSegments, Command, Over
<1> QED BY <1>3, <1>5, <1>6, <1>7, <1>8, NextCases

\* Sending a packet, or having it refused, keeps the numbers in step.
LEMMA SendKeepsNumbers ==
  ASSUME SendingType, SourceType, PacketsInOrder, GapsAreDrops,
         NEW p \in PacketType, p.sequence = batchSeq + 1, Send(p), UNCHANGED source
  PROVE  PacketsInOrder' /\ GapsAreDrops'
<1> DEFINE L == Len(chan)
<1>1. /\ chan \in Seq(PacketType) /\ L \in Nat /\ batchSeq \in Nat /\ chanDropped \in Nat
      /\ expected \in Nat /\ missing \in Nat /\ batchSeq' = batchSeq + 1
      /\ UNCHANGED <<expected, missing>>
  BY DEF SendingType, SourceType, Send, source
<1>2. \A i \in 1 .. L : chan[i].sequence \in Nat
  <2>1. \A i \in 1 .. L : chan[i] \in PacketType
    BY <1>1
  <2> QED BY <2>1 DEF PacketType
<1>3. CASE chan' = Append(chan, p) /\ chanDropped' = chanDropped
  <2>1. /\ Len(chan') = L + 1 /\ chan'[L + 1] = p /\ \A i \in 1 .. L : chan'[i] = chan[i]
    BY <1>1, <1>3
  <2>2. GapsAreDrops'
    BY <1>1, <1>3, <2>1 DEF GapsAreDrops
  <2>3. ASSUME NEW i \in 1 .. L PROVE chan[i].sequence + ((L + 1) - i) <= batchSeq + 1
    <3>1. CASE i = L
      BY <1>1, <1>2, <3>1 DEF PacketsInOrder
    <3>2. CASE i # L
      <4>1. L \in 1 .. L /\ i < L
        BY <1>1, <3>2
      <4>2. chan[i].sequence + (L - i) <= chan[L].sequence /\ chan[L].sequence <= batchSeq
        BY <4>1 DEF PacketsInOrder
      <4>3. chan[i].sequence \in Nat /\ chan[L].sequence \in Nat
        BY <1>2, <4>1
      <4>4. \A x, y, b, n, k \in Int :
              x + (n - k) <= y /\ y <= b => x + ((n + 1) - k) <= b + 1
        OBVIOUS
      <4>5. L \in Int /\ batchSeq \in Int /\ i \in Int BY <1>1
      <4> HIDE DEF L
      <4> QED BY <4>2, <4>3, <4>4, <4>5
    <3> QED BY <3>1, <3>2
  <2>4. expected + (L + 1) <= batchSeq + 2
    <3>1. CASE L = 0
      BY <1>1, <3>1 DEF PacketsInOrder
    <3>2. CASE L # 0
      <4>1. L \in 1 .. L
        BY <1>1, <3>2
      <4>2. expected + L <= chan[L].sequence + 1 /\ chan[L].sequence <= batchSeq
        BY <4>1 DEF PacketsInOrder
      <4>3. chan[L].sequence \in Nat
        BY <1>2, <4>1
      <4> QED BY <1>1, <4>2, <4>3
    <3> QED BY <3>1, <3>2
  <2> HIDE DEF L
  <2>5. ASSUME NEW i \in 1 .. (L + 1)
        PROVE  expected + i <= chan'[i].sequence + 1 /\ chan'[i].sequence <= batchSeq + 1
    <3>1. CASE i = L + 1
      BY <1>1, <2>1, <2>4, <3>1
    <3>2. CASE i \in 1 .. L
      BY <1>1, <1>2, <2>1, <3>2 DEF PacketsInOrder, L
    <3> QED BY <1>1, <3>1, <3>2
  <2>6. ASSUME NEW i \in 1 .. (L + 1), NEW j \in 1 .. (L + 1), i < j
        PROVE  chan'[i].sequence + (j - i) <= chan'[j].sequence
    <3>1. i \in 1 .. L
      BY <1>1, <2>6
    <3>2. CASE j = L + 1
      BY <2>1, <2>3, <3>1, <3>2
    <3>3. CASE j \in 1 .. L
      BY <2>1, <2>6, <3>1, <3>3 DEF PacketsInOrder, L
    <3> QED BY <1>1, <3>2, <3>3
  <2>7. expected <= batchSeq' + 1
    BY <1>1 DEF PacketsInOrder
  <2> QED BY <1>1, <2>1, <2>2, <2>5, <2>6, <2>7 DEF PacketsInOrder
<1>4. CASE chan' = chan /\ chanDropped' = chanDropped + 1
  <2>1. GapsAreDrops'
    BY <1>1, <1>4 DEF GapsAreDrops
  <2>2. PacketsInOrder'
    BY <1>1, <1>2, <1>4 DEF PacketsInOrder
  <2> QED BY <2>1, <2>2
<1> QED BY <1>3, <1>4 DEF Send

\* A received packet is the next one expected or follows refused ones, and it
\* does not follow the footer.
LEMMA ReceiveKeepsNumbers ==
  ASSUME SendingType, SourceType, PacketsInOrder, GapsAreDrops, FooterLast,
         LossIsNotCorruption, Source!Receive, UNCHANGED CollectorRest
  PROVE  /\ SendingType' /\ SourceType' /\ PacketsInOrder' /\ GapsAreDrops' /\ FooterLast'
         /\ RefusalsKnown' /\ LossIsNotCorruption'
<1> DEFINE L == Len(chan)
           b == Head(chan)
<1>1. /\ chan \in Seq(PacketType) /\ chan # <<>> /\ chan' = Tail(chan)
      /\ UNCHANGED <<chanDropped, rpc, stop, batchSeq, chanLost, wpc, allocSeq, allocDropped,
                     allocPaused>>
      /\ expected' = b.sequence + 1 /\ missing' = missing + Source!Behind(b.sequence)
      /\ rpc = "poll"
  BY DEF SendingType, Source!Receive, CollectorRest
<1>2. /\ L \in Nat /\ L >= 1 /\ b = chan[1] /\ Len(chan') = L - 1 /\ chan' \in Seq(PacketType)
      /\ \A i \in 1 .. (L - 1) : chan'[i] = chan[i + 1]
  BY <1>1
<1>3. \A i \in 1 .. L : chan[i] \in PacketType
  BY <1>1
<1>4. /\ b.sequence \in Nat /\ b.produced \in Nat /\ b.dropped \in Nat /\ b.lost \in Nat
      /\ b.paused \in Nat /\ b.footer \in BOOLEAN /\ b.records \in Seq(Entry)
      /\ \A i \in 1 .. L : chan[i].sequence \in Nat
  <2>1. b \in PacketType
    BY <1>2, <1>3
  <2> QED BY <1>3, <2>1 DEF PacketType
<1>5. /\ batchSeq \in Nat /\ chanDropped \in Nat /\ expected \in Nat /\ missing \in Nat
      /\ outcome \in OutcomeType
  BY DEF SendingType, SourceType
<1> HIDE DEF L, b
<1>6. 1 \in 1 .. L /\ \A i \in 1 .. (L - 1) : i + 1 \in 1 .. L /\ 1 < i + 1
  BY <1>2
<1>7. expected <= b.sequence /\ b.sequence <= batchSeq
  <2>1. expected + 1 <= chan[1].sequence + 1 /\ chan[1].sequence <= batchSeq
    BY <1>6 DEF PacketsInOrder, L
  <2> QED BY <1>2, <1>4, <1>5, <2>1
<1>8. Source!Behind(b.sequence) = b.sequence - expected
  BY <1>4, <1>5, <1>7 DEF Source!Behind
<1>9. SendingType'
  BY <1>1, <1>2 DEF SendingType
<1>10. ~outcome.footer
  BY <1>1 DEF FooterLast
<1>11. outcome' = [outcome EXCEPT
         !.invalid = outcome.invalid \/ b.sequence < expected \/ outcome.footer,
         !.produced = b.produced, !.dropped = b.dropped, !.lost = b.lost,
         !.paused = b.paused, !.footer = b.footer,
         !.records = outcome.records \o b.records]
  BY DEF Source!Receive, b
<1>12. outcome.invalid = FALSE /\ ~(b.sequence < expected)
  <2>1. outcome.invalid \in BOOLEAN
    BY <1>5 DEF OutcomeType
  <2> QED BY <1>4, <1>5, <1>7, <2>1 DEF LossIsNotCorruption
<1>13. /\ outcome' \in OutcomeType /\ outcome'.invalid = FALSE /\ outcome'.footer = b.footer
       /\ outcome'.produced = b.produced /\ outcome'.dropped = b.dropped
       /\ outcome'.paused = b.paused
  <2>1. outcome.records \in Seq(Entry)
    BY <1>5 DEF OutcomeType
  <2>2. outcome.records \o b.records \in Seq(Entry)
    BY <1>4, <2>1
  <2> QED BY <1>4, <1>5, <1>10, <1>11, <1>12, <2>2 DEF OutcomeType
<1>14. SourceType'
  BY <1>1, <1>4, <1>5, <1>7, <1>8, <1>13 DEF SourceType
<1>15. GapsAreDrops'
  <2>1. chanDropped + L + expected = missing + batchSeq + 1
    BY DEF GapsAreDrops, L
  <2>2. L \in Nat /\ b.sequence \in Nat
    BY <1>2, <1>4
  <2>3. chanDropped + (L - 1) + (b.sequence + 1)
          = missing + (b.sequence - expected) + batchSeq + 1
    BY <1>5, <2>1, <2>2
  <2> QED BY <1>1, <1>2, <1>8, <2>3 DEF GapsAreDrops
<1>16. PacketsInOrder'
  <2>1. ASSUME NEW i \in 1 .. (L - 1)
        PROVE  (b.sequence + 1) + i <= chan'[i].sequence + 1 /\ chan'[i].sequence <= batchSeq
    <3>1. chan[1].sequence + ((i + 1) - 1) <= chan[i + 1].sequence
          /\ chan[i + 1].sequence <= batchSeq
      BY <1>6 DEF PacketsInOrder, L
    <3>2. chan[i + 1].sequence \in Nat /\ i \in Nat
      BY <1>4, <1>6
    <3>3. chan[1].sequence = b.sequence /\ chan'[i] = chan[i + 1]
      BY <1>2
    <3>4. b.sequence + ((i + 1) - 1) <= chan[i + 1].sequence
      BY <3>1, <3>3
    <3>5. (b.sequence + 1) + i <= chan[i + 1].sequence + 1
      BY <1>4, <3>2, <3>4
    <3> QED BY <3>1, <3>3, <3>5
  <2>2. ASSUME NEW i \in 1 .. (L - 1), NEW j \in 1 .. (L - 1), i < j
        PROVE  chan'[i].sequence + (j - i) <= chan'[j].sequence
    <3>1. chan[i + 1].sequence + ((j + 1) - (i + 1)) <= chan[j + 1].sequence
      BY <1>6, <2>2 DEF PacketsInOrder, L
    <3>2. (j + 1) - (i + 1) = j - i
      OBVIOUS
    <3> QED BY <1>2, <3>1, <3>2
  <2>3. expected' <= batchSeq' + 1
    BY <1>1, <1>4, <1>5, <1>7
  <2> QED BY <1>1, <1>2, <2>1, <2>2, <2>3 DEF PacketsInOrder
<1>17. FooterLast'
  <2>1. ASSUME NEW i \in 1 .. (L - 1), chan'[i].footer PROVE i = L - 1 /\ Final(chan[i + 1])
    <3>1. i + 1 \in 1 .. L /\ chan[i + 1].footer
      BY <1>2, <1>6, <2>1
    <3>2. i + 1 = L /\ Final(chan[i + 1])
      BY <3>1 DEF FooterLast, L
    <3> QED BY <1>2, <3>2
  <2>2. ASSUME b.footer PROVE L = 1 /\ Final(b)
    BY <1>2, <1>6, <2>2 DEF FooterLast, L
  <2>3. L = 1 => chan' = <<>>
    BY <1>2
  <2> QED BY <1>1, <1>2, <1>13, <2>1, <2>2, <2>3 DEF FooterLast, Final
<1>18. RefusalsKnown' /\ LossIsNotCorruption'
  BY <1>1, <1>13 DEF RefusalsKnown, LossIsNotCorruption
<1> QED BY <1>9, <1>14, <1>15, <1>16, <1>17, <1>18

\* At the end the source has missed no more packets than the channel refused.
LEMMA EndKeeps ==
  ASSUME SendingType, SourceType, PacketsInOrder, GapsAreDrops, FooterLast,
         LossIsNotCorruption, Source!End, UNCHANGED CollectorRest
  PROVE  SourceType' /\ FooterLast' /\ RefusalsKnown' /\ LossIsNotCorruption'
<1> DEFINE L == Len(chan)
<1>1. /\ chan \in Seq(PacketType) /\ batchSeq \in Nat /\ chanDropped \in Nat
      /\ expected \in Nat /\ missing \in Nat /\ outcome \in OutcomeType /\ L \in Nat
  BY DEF SendingType, SourceType
<1>2. L + expected <= batchSeq + 1
  <2>1. CASE L = 0
    BY <1>1, <2>1 DEF PacketsInOrder
  <2>2. CASE L # 0
    <3>1. L \in 1 .. L /\ chan[L] \in PacketType
      BY <1>1, <2>2
    <3>2. expected + L <= chan[L].sequence + 1 /\ chan[L].sequence <= batchSeq
      BY <3>1 DEF PacketsInOrder
    <3>3. chan[L].sequence \in Nat
      BY <3>1 DEF PacketType
    <3> HIDE DEF L
    <3> QED BY <1>1, <3>2, <3>3
  <2> QED BY <2>1, <2>2
<1>3. ~(missing > chanDropped)
  BY <1>1, <1>2 DEF GapsAreDrops
<1>4. outcome.invalid = FALSE
  BY <1>1 DEF LossIsNotCorruption, OutcomeType
<1>5. /\ outcome' = [outcome EXCEPT !.packets = chanDropped,
                                    !.invalid = outcome.invalid \/ missing > chanDropped]
      /\ UNCHANGED <<chan, chanDropped, stop, expected, missing, wpc, allocSeq, allocDropped,
                     allocPaused>>
      /\ rpc' = "joined"
  BY DEF Source!End, CollectorRest
<1>6. /\ outcome' \in OutcomeType /\ outcome'.invalid = FALSE
      /\ outcome'.packets = chanDropped /\ outcome'.footer = outcome.footer
      /\ outcome'.produced = outcome.produced /\ outcome'.dropped = outcome.dropped
      /\ outcome'.paused = outcome.paused
  BY <1>1, <1>3, <1>4, <1>5 DEF OutcomeType
<1> QED BY <1>1, <1>5, <1>6 DEF SourceType, FooterLast, Final, RefusalsKnown, LossIsNotCorruption

\* Receiving packets does not disturb the collector.
LEMMA CollectorUndisturbed ==
  ASSUME FInv, UNCHANGED CollectorRest, SendingType'
  PROVE  FInv'
<1> USE DEF CollectorRest
<1>1. TypeOK'
  BY DEF FInv, CInv, BInv, IInv, TypeOK, FlagsType, SlotsType, CountersType, QueueType,
     ThreadsType, WriterType, ParsingType, FinishType
<1>2. /\ ProducersCounted' /\ Stopped' /\ NobodyInside' /\ SlotsKnown' /\ Walked'
      /\ QueueClosed' /\ InHand'
  BY DEF FInv, CInv, BInv, IInv, ProducersCounted, Guarded, Stopped, NobodyInside, SlotsKnown,
     Registered, SlotOf, Walked, QueueClosed, InHand
<1>3. /\ SlotMutex' /\ Emptied' /\ RoomMade' /\ WithinCapacity' /\ BuffersAccounted'
  BY DEF FInv, CInv, BInv, SlotMutex, SlotOf, Emptied, RoomMade, WithinCapacity,
     BuffersAccounted, HeldSlots
<1>4. SlotData' /\ \A s \in SlotIds : OnItsWay(s)'
  BY DEF FInv, CInv, SlotData, OnItsWay, InPlace, InTurn, AllThere, OnTrail
<1>5. NumbersAllocs' /\ Balanced'
  BY DEF FInv, NumbersAllocs, Balanced, Recorded, Kept, Carrying
<1> QED BY <1>1, <1>2, <1>3, <1>4, <1>5 DEF FInv, CInv, BInv, IInv

\* A step of the collector keeps the source's view right.
LEMMA TargetKeeps ==
  ASSUME SInv, Next, UNCHANGED source
  PROVE  SInv'
<1> USE DEF SInv
<1>1. FInv'
  BY NextFInv
<1>2. IInv /\ TypeOK /\ SendingType /\ CountersType /\ batch \in Seq(Entry)
  BY DEF FInv, CInv, BInv, IInv, TypeOK, ParsingType
<1>3. SourceType' /\ LossIsNotCorruption'
  BY DEF source, SourceType, LossIsNotCorruption
<1>4. CASE wpc \in Over
  <2>1. wpc' \in Over /\ UNCHANGED <<counters, sending>>
    BY <1>2, <1>4, OverStays
  <2>2. PacketsInOrder' /\ GapsAreDrops'
    BY <2>1 DEF PacketsInOrder, GapsAreDrops, source
  <2>3. FooterLast'
    BY <1>4, <2>1 DEF FooterLast, Final, source
  <2>4. RefusalsKnown'
    BY <2>1 DEF RefusalsKnown, source
  <2> QED BY <1>1, <1>3, <2>2, <2>3, <2>4
<1>5. CASE wpc \notin Over
  <2>1. ~outcome.footer /\ \A i \in 1 .. Len(chan) : ~chan[i].footer
    BY <1>5 DEF FooterLast, Final
  <2>2. RefusalsKnown'
    BY <2>1 DEF RefusalsKnown, source
  <2>3. CASE UNCHANGED sending
    <3>1. PacketsInOrder' /\ GapsAreDrops'
      BY <2>3 DEF PacketsInOrder, GapsAreDrops, source
    <3>2. FooterLast'
      BY <2>1, <2>3 DEF FooterLast, source
    <3> QED BY <1>1, <1>3, <2>2, <3>1, <3>2
  <2>4. CASE SendChunk
    <3> DEFINE p == Packet(FALSE, SubSeq(batch, 1, ChunkLen))
    <3>1. SubSeq(batch, 1, ChunkLen) \in Seq(Entry)
      BY <1>2, WriterAssumption DEF ChunkLen
    <3>2. p \in PacketType
      BY <1>2, <3>1, PacketInType
    <3>3. p.sequence = batchSeq + 1 /\ p.footer = FALSE /\ Send(p)
      BY <2>4 DEF Packet, SendChunk
    <3> HIDE DEF p
    <3>4. PacketsInOrder' /\ GapsAreDrops'
      BY <1>2, <3>2, <3>3, SendKeepsNumbers
    <3>5. \A i \in 1 .. Len(chan') : ~chan'[i].footer
      <4>1. CASE chan' = Append(chan, p)
        <5>1. Len(chan') = Len(chan) + 1 /\ Len(chan) \in Nat /\ chan'[Len(chan) + 1] = p
              /\ \A i \in 1 .. Len(chan) : chan'[i] = chan[i]
          BY <1>2, <3>2, <4>1 DEF SendingType
        <5> QED BY <2>1, <3>3, <5>1
      <4>2. CASE chan' = chan
        BY <2>1, <4>2
      <4> QED BY <3>3, <4>1, <4>2 DEF Send
    <3>6. FooterLast'
      BY <2>1, <3>5 DEF FooterLast, source
    <3> QED BY <1>1, <1>3, <2>2, <3>4, <3>6
  <2>5. CASE Footer
    <3> DEFINE p == Packet(TRUE, <<>>)
    <3>1. p \in PacketType
      BY <1>2, EmptyType, PacketInType
    <3>2. /\ p.sequence = batchSeq + 1 /\ p.produced = allocSeq /\ p.dropped = allocDropped
          /\ p.paused = allocPaused /\ Send(p) /\ wpc' = "segments"
          /\ UNCHANGED <<allocSeq, allocDropped, allocPaused>>
      BY <2>5 DEF Packet, Footer
    <3> HIDE DEF p
    <3>3. PacketsInOrder' /\ GapsAreDrops'
      BY <1>2, <3>1, <3>2, SendKeepsNumbers
    <3>4. \A i \in 1 .. Len(chan') : chan'[i].footer => i = Len(chan') /\ chan'[i] = p
      <4>1. CASE chan' = Append(chan, p)
        <5>1. Len(chan') = Len(chan) + 1 /\ Len(chan) \in Nat /\ chan'[Len(chan) + 1] = p
              /\ \A i \in 1 .. Len(chan) : chan'[i] = chan[i]
          BY <1>2, <3>1, <4>1 DEF SendingType
        <5> QED BY <2>1, <5>1
      <4>2. CASE chan' = chan
        BY <2>1, <4>2
      <4> QED BY <3>2, <4>1, <4>2 DEF Send
    <3>5. FooterLast'
      BY <2>1, <3>2, <3>4 DEF FooterLast, Final, Over, source
    <3> QED BY <1>1, <1>3, <2>2, <3>3, <3>5
  <2>6. ParseRecord => UNCHANGED sending
    BY DEF ParseRecord
  <2> QED BY <2>3, <2>4, <2>5, <2>6, SendingStill DEF Sends
<1> QED BY <1>4, <1>5

\* Every step of the capture keeps the invariant.
LEMMA NextSInv ==
  ASSUME SInv, [CaptureNext]_capture
  PROVE  SInv'
<1> USE DEF SInv
<1>1. CASE Target
  BY <1>1, TargetKeeps DEF Target
<1>2. SendingType
  BY DEF FInv, CInv, BInv, IInv, TypeOK
<1>3. CASE Source!Receive /\ UNCHANGED CollectorRest
  BY <1>2, <1>3, ReceiveKeepsNumbers, CollectorUndisturbed
<1>4. CASE Source!End /\ UNCHANGED CollectorRest
  <2>1. UNCHANGED <<chan, chanDropped, expected, missing, batchSeq, chanLost>>
    BY <1>4 DEF Source!End, CollectorRest
  <2>2. SendingType' /\ PacketsInOrder' /\ GapsAreDrops'
    BY <1>2, <2>1 DEF SendingType, PacketsInOrder, GapsAreDrops
  <2> QED BY <1>2, <1>4, <2>2, EndKeeps, CollectorUndisturbed
<1>5. ASSUME UNCHANGED <<CollectorRest, chan, chanDropped, expected, missing, outcome>>,
             rpc' \in {"poll", "check", "end"} \/ rpc' = rpc, stop' \in BOOLEAN
      PROVE  SInv'
  <2>1. UNCHANGED <<batchSeq, chanLost, wpc, allocSeq, allocDropped, allocPaused>>
    BY <1>5 DEF CollectorRest
  <2>2. SendingType' /\ PacketsInOrder' /\ GapsAreDrops'
    BY <1>2, <1>5, <2>1 DEF SendingType, PacketsInOrder, GapsAreDrops
  <2>3. SourceType' /\ FooterLast' /\ RefusalsKnown' /\ LossIsNotCorruption'
    BY <1>5, <2>1 DEF SourceType, FooterLast, Final, RefusalsKnown, LossIsNotCorruption
  <2>4. FInv'
    BY <1>5, <2>2, CollectorUndisturbed
  <2> QED BY <2>2, <2>3, <2>4
<1>6. CASE Source!ChannelEmpty /\ UNCHANGED CollectorRest
  BY <1>5, <1>6 DEF Source!ChannelEmpty, SourceType
<1>7. CASE Source!CheckStop /\ UNCHANGED CollectorRest
  BY <1>5, <1>7 DEF Source!CheckStop, SourceType
<1>8. CASE StopSource
  BY <1>5, <1>8 DEF StopSource, Source!RequestStop
<1>9. CASE Kill \/ UNCHANGED capture
  <2>1. UNCHANGED vars /\ UNCHANGED source
    BY <1>9 DEF Kill, capture, vars, source
  <2>2. FInv'
    BY <2>1, NextFInv
  <2> QED BY <2>1, <2>2 DEF vars, source, SourceType, PacketsInOrder, GapsAreDrops, FooterLast,
          Final, RefusalsKnown, LossIsNotCorruption
<1> QED BY <1>1, <1>3, <1>4, <1>6, <1>7, <1>8, <1>9 DEF CaptureNext, Worker, Source!Next

\* The invariant holds when the target and the source start.
LEMMA InitSInv ==
  ASSUME CaptureInit
  PROVE  SInv
<1>1. FInv
  BY InitFInv DEF CaptureInit
<1>2. chan = <<>> /\ batchSeq = 0 /\ chanDropped = 0
  BY DEF CaptureInit, Init
<1>3. /\ rpc = "poll" /\ stop = FALSE /\ expected = 1 /\ missing = 0
      /\ outcome = Source!Outcome0
  BY DEF CaptureInit, Source!Init
<1>4. outcome \in OutcomeType /\ outcome.footer = FALSE /\ outcome.invalid = FALSE
  BY <1>3, EmptyType DEF Source!Outcome0, OutcomeType
<1>5. Len(chan) = 0 /\ 1 .. Len(chan) = {}
  BY <1>2
<1>6. PacketsInOrder /\ GapsAreDrops
  BY <1>2, <1>3, <1>5 DEF PacketsInOrder, GapsAreDrops
<1>7. SourceType
  BY <1>3, <1>4 DEF SourceType
<1>8. FooterLast /\ RefusalsKnown /\ LossIsNotCorruption
  BY <1>3, <1>4, <1>5 DEF FooterLast, RefusalsKnown, LossIsNotCorruption
<1> QED BY <1>1, <1>6, <1>7, <1>8 DEF SInv

\* The invariant of the capture holds in every reachable state.
THEOREM CaptureInductive == CaptureSpec => []SInv
<1>1. CaptureInit => SInv
  BY InitSInv
<1>2. SInv /\ [CaptureNext]_capture => SInv'
  BY NextSInv
<1> QED BY <1>1, <1>2, PTL DEF CaptureSpec

\* Neither refused packets nor a killed target make a capture look corrupt: the
\* numbers the source misses are those of refused packets, for every capacity of
\* the channel and wherever the target dies.
THEOREM NoFalseCorruption == CaptureSpec => []LossIsNotCorruption
<1>1. SInv => LossIsNotCorruption
  BY DEF SInv
<1> QED BY <1>1, CaptureInductive, PTL

\* The footer's totals add up in a capture too, where the channel is emptied
\* concurrently and the target may be killed.
THEOREM CaptureTotals == CaptureSpec => []FooterBalances
<1>1. SInv => FooterBalances
  BY BalanceAtFooter DEF SInv, FooterBalances, Ending, AllocAt
<1> QED BY <1>1, CaptureInductive, PTL

----------------------------------------------------------------------------
(* A complete capture holds every allocation *)

\* Unless one was dropped or skipped, every number given out is with the thread
\* that drew it or in a record.
EveryNumber ==
  allocDropped = 0 /\ allocPaused = 0 =>
    \A v \in 1 .. allocSeq :
      (\E t \in Carrying : num[t] = v) \/ (\E e \in Recorded : e.value = v)

\* Unless a packet was refused, every allocation parsed is in the batch, in the
\* channel or with the source.
OnItsWayOut(e) ==
  \/ e \in AllocsIn(batch) \/ e \in AllocsIn(outcome.records)
  \/ \E j \in 1 .. Len(chan) : e \in AllocsIn(chan[j].records)

Onward == chanDropped = 0 => \A e \in AllocsIn(parsed) : OnItsWayOut(e)

EInv == SInv /\ EveryNumber /\ Onward

\* A number, once drawn, is kept until the call ends.
LEMMA NumStill ==
  ASSUME Next, \A t \in Threads : ~Number(t)
  PROVE  UNCHANGED num
<1>1. CASE WriterAny \/ FinishAny
  BY <1>1, WriterFrame, FinishFrame
<1>2. ASSUME NEW t \in Threads, ThreadAny(t) PROVE UNCHANGED num
  BY <1>2 DEF ThreadAny, ThreadStep, Begin, Enter, CheckAccepting, CheckPaused, ThreadSlot,
     LockSlot, SubmitFull, Acquire, AppendRecord, DropRecord, Leave, Teardown
<1> QED BY <1>1, <1>2, NextCases

\* No step of the collector loses a number without counting it.
LEMMA EveryNumberStep ==
  ASSUME FInv, EveryNumber, Next
  PROVE  EveryNumber'
<1> USE DEF FInv, CInv, BInv, IInv
<1>1. allocSeq \in Nat /\ allocDropped \in Nat /\ allocPaused \in Nat
  BY DEF TypeOK, CountersType
<1> USE DEF TypeOK, ThreadsType
<1>2. ASSUME NEW t \in Threads, Number(t) PROVE EveryNumber'
  <2>1. Recorded' = Recorded
    BY <1>2, RecordedStill DEF Number, AppendRecord
  <2>2. t \notin Carrying /\ Carrying' = Carrying \cup {t}
    BY <1>2 DEF Number, Carrying, Numbered, NumbersAllocs
  <2>3. /\ allocSeq' = allocSeq + 1 /\ UNCHANGED <<allocDropped, allocPaused>>
        /\ num'[t] = allocSeq + 1 /\ \A u \in Threads : u # t => num'[u] = num[u]
    BY <1>2 DEF Number
  <2>4. \A v \in 1 .. (allocSeq + 1) : v = allocSeq + 1 \/ v \in 1 .. allocSeq
    BY <1>1
  <2>5. \A u \in Carrying : u \in Threads /\ num'[u] = num[u]
    BY <2>2, <2>3 DEF Carrying
  <2> QED BY <2>1, <2>2, <2>3, <2>4, <2>5 DEF EveryNumber
<1>3. ASSUME NEW t \in Threads, CheckPaused(t) PROVE EveryNumber'
  <2>1. Recorded' = Recorded /\ UNCHANGED <<allocSeq, allocDropped, num>>
    BY <1>3, RecordedStill DEF CheckPaused, AppendRecord
  <2>2. CASE paused /\ kind[t] = "alloc"
    <3>1. allocPaused' # 0
      BY <1>1, <1>3, <2>2 DEF CheckPaused
    <3> QED BY <3>1 DEF EveryNumber
  <2>3. CASE ~(paused /\ kind[t] = "alloc")
    <3>1. Carrying' = Carrying /\ UNCHANGED allocPaused
      BY <1>3, <2>3 DEF CheckPaused, Carrying, Numbered
    <3> QED BY <2>1, <3>1 DEF EveryNumber
  <2> QED BY <2>2, <2>3
<1>4. ASSUME NEW t \in Threads, AppendRecord(t) PROVE EveryNumber'
  <2>1. UNCHANGED <<allocSeq, allocDropped, allocPaused, num>>
    BY <1>4 DEF AppendRecord
  <2>2. CASE kind[t] # "alloc"
    <3>1. Recorded' = Recorded
      BY <1>4, <2>2, AppendAllocs
    <3>2. Carrying' = Carrying
      BY <1>4, <2>2 DEF AppendRecord, Carrying, Numbered
    <3> QED BY <2>1, <3>1, <3>2 DEF EveryNumber
  <2>3. CASE kind[t] = "alloc"
    <3>1. PICK x : Recorded' = Recorded \cup {x} /\ x.value = num[t]
      BY <1>4, <2>3, AppendAllocs
    <3>2. Carrying' = Carrying \ {t}
      BY <1>4, <2>3 DEF AppendRecord, Carrying, Numbered
    <3> QED BY <2>1, <3>1, <3>2 DEF EveryNumber
  <2> QED BY <2>2, <2>3
<1>5. ASSUME NEW t \in Threads, DropRecord(t) PROVE EveryNumber'
  <2>1. CASE kind[t] = "alloc"
    <3>1. allocDropped' # 0
      BY <1>1, <1>5, <2>1 DEF DropRecord
    <3> QED BY <3>1 DEF EveryNumber
  <2>2. CASE kind[t] = "event"
    <3>1. Carrying' = Carrying /\ UNCHANGED <<allocSeq, allocDropped, allocPaused, num>>
      BY <1>5, <2>2 DEF DropRecord, Carrying, Numbered
    <3>2. UNCHANGED <<parsed, cur, full, buffer>>
      BY <1>5 DEF DropRecord
    <3>3. Recorded' = Recorded
      BY <3>2 DEF Recorded, Kept
    <3> QED BY <3>1, <3>3 DEF EveryNumber
  <2> QED BY <2>1, <2>2
<1>6. CASE \A t \in Threads : ~Counting(t)
  <2>1. Carrying' = Carrying /\ UNCHANGED <<counters, num>> /\ Recorded' = Recorded
    BY <1>6, CarryingStill, RecordedStill, NumStill DEF Counting
  <2> QED BY <2>1 DEF EveryNumber
<1> QED BY <1>2, <1>3, <1>4, <1>5, <1>6 DEF Counting

\* What the collector sends stays on its way out, or is counted as refused.
LEMMA OnwardSend ==
  ASSUME TypeOK, Onward, Next, UNCHANGED source
  PROVE  Onward'
<1>1. /\ chan \in Seq(PacketType) /\ batch \in Seq(Entry) /\ parsed \in Seq(Entry)
      /\ chanDropped \in Nat /\ UNCHANGED outcome
  BY DEF TypeOK, SendingType, ParsingType, source
<1>2. CASE UNCHANGED <<batch, parsed, sending>>
  BY <1>1, <1>2 DEF Onward, OnItsWayOut
<1>3. CASE ParseRecord
  <2> DEFINE e == Head(cur.data)
  <2>1. cur.data \in Seq(Entry) /\ cur.data # <<>>
    BY <1>3 DEF ParseRecord, TypeOK, ParsingType, BufferType
  <2>2. e \in Entry /\ <<e>> \in Seq(Entry)
    BY <2>1
  <2>3. /\ parsed' = Append(parsed, e)
        /\ batch' = (IF e.kind = "alloc" THEN Append(batch, e) ELSE batch)
        /\ UNCHANGED <<chan, chanDropped>>
    BY <1>3 DEF ParseRecord
  <2> HIDE DEF e
  <2>4. \A p \in Seq(Entry) : Append(p, e) = p \o <<e>>
    BY <2>2
  <2>5. \A p \in Seq(Entry) : AllocsIn(Append(p, e)) = AllocsIn(p) \cup AllocsIn(<<e>>)
    BY <2>2, <2>4, ConcatAllocs
  <2>6. AllocsIn(parsed') = AllocsIn(parsed) \cup AllocsIn(<<e>>)
    BY <1>1, <2>3, <2>5
  <2>7. AllocsIn(batch') = AllocsIn(batch) \cup AllocsIn(<<e>>)
    <3>1. e.kind # "alloc" => AllocsIn(<<e>>) = {}
      BY DEF AllocsIn, AllocAt
    <3> QED BY <1>1, <2>3, <2>5, <3>1
  <2> QED BY <1>1, <2>3, <2>6, <2>7 DEF Onward, OnItsWayOut
<1>4. ASSUME NEW p \in PacketType, NEW rest \in Seq(Entry), Send(p),
             batch = p.records \o rest, batch' = rest, UNCHANGED parsed
      PROVE  Onward'
  <2>1. CASE chanDropped' = chanDropped + 1
    <3>1. chanDropped' # 0
      BY <1>1, <2>1
    <3> QED BY <3>1 DEF Onward
  <2>2. CASE chan' = Append(chan, p) /\ chanDropped' = chanDropped
    <3>1. /\ Len(chan') = Len(chan) + 1 /\ Len(chan) \in Nat /\ chan'[Len(chan) + 1] = p
          /\ \A i \in 1 .. Len(chan) : chan'[i] = chan[i]
      BY <1>1, <2>2
    <3>2. AllocsIn(batch) = AllocsIn(p.records) \cup AllocsIn(batch')
      BY <1>4, ConcatAllocs DEF PacketType
    <3>3. \A e : (\E j \in 1 .. Len(chan) : e \in AllocsIn(chan[j].records))
                   \/ e \in AllocsIn(p.records)
                 => \E j \in 1 .. Len(chan') : e \in AllocsIn(chan'[j].records)
      BY <3>1
    <3>4. \A e : OnItsWayOut(e) => OnItsWayOut(e)'
      BY <1>1, <3>2, <3>3 DEF OnItsWayOut
    <3> QED BY <1>4, <2>2, <3>4 DEF Onward
  <2> QED BY <1>4, <2>1, <2>2 DEF Send
<1>5. CASE SendChunk
  <2>1. Len(batch) \in Nat /\ ChunkLen \in 0 .. Len(batch)
    BY <1>1, WriterAssumption DEF ChunkLen
  <2> DEFINE head == SubSeq(batch, 1, ChunkLen)
             rest == SubSeq(batch, ChunkLen + 1, Len(batch))
  <2>2. head \in Seq(Entry) /\ rest \in Seq(Entry)
    BY <1>1, <2>1
  <2>3. batch = head \o rest
    <3>1. head \o rest = SubSeq(batch, 1, Len(batch))
      <4>1. 1 \in 1 .. (Len(batch) + 1) /\ ChunkLen \in (1 - 1) .. Len(batch)
            /\ Len(batch) \in ChunkLen .. Len(batch)
        BY <2>1
      <4> QED BY <1>1, <4>1, ConcatAdjacentSubSeq
    <3> QED BY <1>1, <3>1, SubSeqFull
  <2>4. Packet(FALSE, head) \in PacketType /\ Packet(FALSE, head).records = head
    BY <2>2, PacketInType DEF TypeOK, Packet
  <2> QED BY <1>4, <1>5, <2>2, <2>3, <2>4 DEF SendChunk
<1>6. CASE Footer
  <2>1. Packet(TRUE, <<>>) \in PacketType /\ Packet(TRUE, <<>>).records = <<>>
    BY EmptyType, PacketInType DEF TypeOK, Packet
  <2>2. batch = <<>> \o batch
    BY <1>1
  <2> QED BY <1>1, <1>4, <1>6, <2>1, <2>2 DEF Footer
<1> QED BY <1>2, <1>3, <1>5, <1>6, SendingStill DEF Sends

\* What the source receives leaves the channel for its records.
LEMMA OnwardReceive ==
  ASSUME SendingType, SourceType, Onward, Source!Receive, UNCHANGED CollectorRest
  PROVE  Onward'
<1> DEFINE L == Len(chan)
<1>1. /\ chan \in Seq(PacketType) /\ chan # <<>> /\ chan' = Tail(chan)
      /\ UNCHANGED <<chanDropped, batch, parsed>> /\ outcome \in OutcomeType
  BY DEF SendingType, SourceType, Source!Receive, CollectorRest
<1>2. /\ L \in Nat /\ L >= 1 /\ Head(chan) = chan[1] /\ Len(chan') = L - 1
      /\ \A i \in 1 .. (L - 1) : chan'[i] = chan[i + 1] /\ chan[1] \in PacketType
  BY <1>1
<1>3. chan[1] \in PacketType
  BY <1>1
<1>4. outcome.records \in Seq(Entry) /\ chan[1].records \in Seq(Entry)
  BY <1>1, <1>3 DEF OutcomeType, PacketType
<1>5. outcome'.records = outcome.records \o chan[1].records
  BY <1>1, <1>2 DEF Source!Receive, OutcomeType
<1>6. AllocsIn(outcome'.records) = AllocsIn(outcome.records) \cup AllocsIn(chan[1].records)
  BY <1>4, <1>5, ConcatAllocs
<1> HIDE DEF L
<1>7. \A i \in 1 .. L : i = 1 \/ \E k \in 1 .. (L - 1) : chan[i] = chan'[k]
  <2>1. ASSUME NEW i \in 1 .. L, i # 1 PROVE i - 1 \in 1 .. (L - 1) /\ (i - 1) + 1 = i
    BY <1>2, <2>1
  <2> QED BY <1>2, <2>1
<1>8. ASSUME NEW e, OnItsWayOut(e) PROVE OnItsWayOut(e)'
  <2>1. ASSUME NEW j \in 1 .. L, e \in AllocsIn(chan[j].records)
        PROVE  \/ e \in AllocsIn(chan[1].records)
               \/ \E k \in 1 .. Len(chan') : e \in AllocsIn(chan'[k].records)
    BY <1>2, <1>7, <2>1
  <2> QED BY <1>1, <1>6, <1>8, <2>1 DEF OnItsWayOut, L
<1> QED BY <1>1, <1>8 DEF Onward

\* Every step keeps the allocations on their way out.
LEMMA NextEInv ==
  ASSUME EInv, [CaptureNext]_capture
  PROVE  EInv'
<1> USE DEF EInv
<1>1. SInv'
  BY NextSInv
<1>2. FInv /\ TypeOK /\ SendingType /\ SourceType
  BY DEF SInv, FInv, CInv, BInv, IInv, TypeOK
<1>3. CASE Target
  <2>1. EveryNumber'
    BY <1>2, <1>3, EveryNumberStep DEF Target
  <2>2. Onward'
    BY <1>2, <1>3, OnwardSend DEF Target
  <2> QED BY <1>1, <2>1, <2>2
<1>4. UNCHANGED CollectorRest => EveryNumber'
  BY DEF CollectorRest, EveryNumber, Recorded, Kept, Carrying
<1>5. CASE Source!Receive /\ UNCHANGED CollectorRest
  BY <1>1, <1>2, <1>4, <1>5, OnwardReceive
<1>6. CASE /\ UNCHANGED <<CollectorRest, chan, chanDropped>>
           /\ outcome'.records = outcome.records
  <2>1. Onward'
    BY <1>6 DEF CollectorRest, Onward, OnItsWayOut
  <2> QED BY <1>1, <1>4, <1>6, <2>1
<1>7. CASE Source!End /\ UNCHANGED CollectorRest
  <2>1. outcome'.records = outcome.records
    BY <1>2, <1>7 DEF Source!End, SourceType, OutcomeType
  <2> QED BY <1>6, <1>7, <2>1 DEF Source!End
<1>8. CASE (Source!ChannelEmpty \/ Source!CheckStop) /\ UNCHANGED CollectorRest
  BY <1>6, <1>8 DEF Source!ChannelEmpty, Source!CheckStop
<1>9. CASE StopSource
  BY <1>6, <1>9 DEF StopSource, Source!RequestStop
<1>10. CASE Kill \/ UNCHANGED capture
  <2>1. UNCHANGED vars /\ UNCHANGED outcome
    BY <1>10 DEF Kill, capture, source
  <2>2. EveryNumber' /\ Onward'
    BY <2>1 DEF vars, EveryNumber, Recorded, Kept, Carrying, Onward, OnItsWayOut
  <2> QED BY <1>1, <2>2
<1> QED BY <1>3, <1>5, <1>7, <1>8, <1>9, <1>10 DEF CaptureNext, Worker, Source!Next

\* The invariant holds when the target and the source start.
LEMMA InitEInv ==
  ASSUME CaptureInit
  PROVE  EInv
<1>1. SInv
  BY InitSInv
<1>2. allocSeq = 0 /\ parsed = <<>>
  BY DEF CaptureInit, Init
<1>3. EveryNumber
  BY <1>2 DEF EveryNumber
<1>4. AllocsIn(parsed) = {}
  BY <1>2, EmptyAllocs
<1>5. Onward
  BY <1>4 DEF Onward
<1> QED BY <1>1, <1>3, <1>5 DEF EInv

\* The invariant of a complete capture holds in every reachable state.
THEOREM CompleteInductive == CaptureSpec => []EInv
<1>1. CaptureInit => EInv
  BY InitEInv
<1>2. EInv /\ [CaptureNext]_capture => EInv'
  BY NextEInv
<1> QED BY <1>1, <1>2, PTL DEF CaptureSpec

\* As many records as numbers, and a record of each number: each exactly once.
LEMMA ExactlyOnce ==
  ASSUME NEW n \in Nat, NEW seq \in Seq(Entry), Len(seq) = n,
         1 .. n \subseteq {seq[i].value : i \in DOMAIN seq}
  PROVE  {seq[i].value : i \in DOMAIN seq} = 1 .. n
<1> DEFINE V == {seq[i].value : i \in DOMAIN seq}
           f == [i \in 1 .. n |-> seq[i].value]
<1>1. DOMAIN seq = 1 .. n
  OBVIOUS
<1>2. f \in Surjection(1 .. n, V)
  BY <1>1 DEF Surjection
<1>3. IsFiniteSet(1 .. n) /\ Cardinality(1 .. n) = n
  BY FS_Interval
<1> HIDE DEF f
<1>4. IsFiniteSet(V) /\ Cardinality(V) <= n
  BY <1>2, <1>3, FS_Surjection
<1>5. 1 .. n \in SUBSET V
  OBVIOUS
<1> HIDE DEF V
<1>6. Cardinality(V) \in Nat
  BY <1>4, FS_CardinalityType
<1>7. n <= Cardinality(V)
  BY <1>3, <1>4, <1>5, FS_Subset
<1>8. Cardinality(V) = n
  BY <1>4, <1>6, <1>7
<1>9. V = 1 .. n
  BY <1>3, <1>4, <1>5, <1>8, FS_Subset
<1> QED BY <1>9 DEF V

\* A complete capture has received every number.
LEMMA CompleteHasAll ==
  ASSUME EInv, Judged, Source!Complete
  PROVE  /\ wpc \in Over /\ outcome.records \in Seq(Entry) /\ allocSeq \in Nat
         /\ Len(outcome.records) = allocSeq /\ 1 .. allocSeq \subseteq Numbers
<1> USE DEF EInv, SInv
<1>1. /\ outcome.footer /\ outcome.dropped = 0 /\ outcome.packets = 0 /\ outcome.paused = 0
      /\ outcome.produced = Len(outcome.records)
  BY DEF Source!Complete
<1>2. chan = <<>> /\ Final(outcome)
  BY <1>1 DEF FooterLast
<1>3. wpc \in Over /\ allocDropped = 0 /\ allocPaused = 0 /\ Len(outcome.records) = allocSeq
  BY <1>1, <1>2 DEF Final
<1>4. chanDropped = 0
  BY <1>1 DEF Judged, RefusalsKnown
<1>5. wpc \in Ending /\ ~cur.held
  BY <1>3 DEF FInv, CInv, BInv, IInv, InHand, Ending, Over
<1>6. Carrying = {} /\ Recorded = AllocsIn(parsed)
  BY <1>5, AllParsed
<1>7. batch = <<>>
  BY <1>5 DEF FInv, CInv, BInv, IInv, InHand
<1>8. \A e \in AllocsIn(parsed) : e \in AllocsIn(outcome.records)
  <2>1. Len(chan) = 0 /\ AllocsIn(batch) = {}
    BY <1>2, <1>7, EmptyAllocs
  <2> QED BY <1>4, <2>1 DEF Onward, OnItsWayOut
<1>9. outcome.records \in Seq(Entry) /\ allocSeq \in Nat
  BY DEF SourceType, OutcomeType, FInv, CInv, BInv, IInv, TypeOK, CountersType
<1>10. ASSUME NEW v \in 1 .. allocSeq PROVE v \in Numbers
  <2>1. PICK e \in AllocsIn(parsed) : e.value = v
    BY <1>3, <1>6 DEF EveryNumber
  <2>2. PICK i \in DOMAIN outcome.records : e = outcome.records[i]
    BY <1>8 DEF AllocsIn, AllocAt
  <2> QED BY <2>1, <2>2 DEF Numbers
<1> QED BY <1>3, <1>9, <1>10

\* A capture that stop() judges complete holds each allocation the target
\* numbered exactly once, and the collector had finished: for any number of
\* threads and buffers, any capacity of the channel and any moment of a kill.
THEOREM CompleteCapture == CaptureSpec => []CompleteIsExact
<1>1. EInv => CompleteIsExact
  <2>1. SUFFICES ASSUME EInv, Judged, Source!Complete
                 PROVE  /\ wpc \in {"segments", "done"} /\ Numbers = 1 .. allocSeq
                        /\ Len(outcome.records) = allocSeq
    BY DEF CompleteIsExact
  <2>2. /\ wpc \in Over /\ outcome.records \in Seq(Entry) /\ allocSeq \in Nat
        /\ Len(outcome.records) = allocSeq /\ 1 .. allocSeq \subseteq Numbers
    BY <2>1, CompleteHasAll
  <2>3. Numbers = 1 .. allocSeq
    BY <2>2, ExactlyOnce DEF Numbers
  <2> QED BY <2>2, <2>3 DEF Over
<1> QED BY <1>1, CompleteInductive, PTL
============================================================================
