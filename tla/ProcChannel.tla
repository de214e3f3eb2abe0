---------------------------- MODULE ProcChannel ----------------------------
(***************************************************************************)
(* The single-producer single-consumer byte ring that two processes share  *)
(* (shmem/src/proc_channel.rs).  A record is one header word holding the   *)
(* payload length, followed by the payload padded to whole words, so the   *)
(* ring is modelled in words.  Every load or store of head and tail, every *)
(* word copied into or out of the ring and every semaphore operation is a  *)
(* step of its own.  The sending process may be killed at any of them.     *)
(*                                                                         *)
(* head and tail are usize counters that wrap.  2^64 is a multiple of the  *)
(* power-of-two capacity; PosMod is the model's 2^64.                      *)
(***************************************************************************)
EXTENDS Integers, Sequences, FiniteSets

CONSTANTS
  Size,        \* capacity of the ring in words
  Wraps,       \* PosMod = Wraps * Size: how often a counter laps before wrapping
  MaxSend,     \* bound: calls of send_sync
  Lengths,     \* payload lengths (in words) a message may have
  Modes,       \* receive operations the consumer may be built on
  MayCrash     \* whether the sending process may be killed

ASSUME SizeAssumption  == Size \in Nat \ {0}
ASSUME WrapsAssumption == Wraps \in Nat /\ Wraps >= 2
ASSUME SendAssumption  == MaxSend \in Nat
ASSUME LengthsAssumption == Lengths \subseteq Nat
ASSUME ModesAssumption ==
  Modes \subseteq {"try_recv", "poll", "recv_sync", "recv"}
ASSUME CrashAssumption == MayCrash \in BOOLEAN

VARIABLES
  ring,      \* the data area: word stored at each offset
  head,      \* consumer position, shared
  tail,      \* producer position, shared
  dropped,   \* messages refused for lack of room, shared
  sem,       \* semaphore counting publications
  fin,       \* finish semaphore
  spc,       \* sender: where it is in send_sync or close
  msg,       \* sender: id and payload length of the message being sent
  put,       \* sender: words of the record already copied
  alive,     \* sender: FALSE once its process was killed
  mode,      \* receiver: the operation it is built on
  rpc,       \* receiver: where it is in that operation
  seen,      \* receiver: the tail it loaded in read_one
  got,       \* receiver: words of the record copied out so far
  last,      \* receiver: how the last operation returned
  written,   \* history: every word of every published record, in order
  begins,    \* history: the positions in written where the records begin, in order
  taken,     \* history: every word handed to the consumer, in order
  received   \* history: the header of every record handed to the consumer, in order

shared   == <<ring, head, tail, dropped, sem, fin>>
sender   == <<spc, msg, put, alive>>
receiver == <<mode, rpc, seen, got, last>>
history  == <<written, begins, taken, received>>
vars     == <<shared, sender, receiver, history>>

PosMod == Wraps * Size

(***************************************************************************)
(* A word carries the message it belongs to, its index in the record (0 is *)
(* the header) and the payload length, which is what a header stores.      *)
(***************************************************************************)
Word(id, part, len) == [id |-> id, part |-> part, len |-> len]

Record(id, len) == [i \in 1 .. len + 1 |-> Word(id, i - 1, len)]

RecordLen(len) == len + 1

\* usize::wrapping_add and usize::wrapping_sub
WrappingAdd(a, b) == (a + b) % PosMod

WrappingSub(a, b) == (a - b) % PosMod

\* Offset of the i-th word of a copy starting at a position: write_wrapped and
\* read_wrapped mask the position and continue at offset 0 past the end.
Offset(position, i) == ((position % Size) + i) % Size

\* Offset of the i-th word of the record at a position: the header is copied
\* at the position itself, the payload one word further.
RecordOffset(position, i) ==
  IF i = 0 THEN Offset(position, 0) ELSE Offset(WrappingAdd(position, 1), i - 1)

----------------------------------------------------------------------------
(* Sender *)

At(label) == alive /\ spc = label

\* Mutant of NoRoom: the header word is forgotten.
NoRoomForPayload(len) ==
  RecordLen(len) > Size \/ WrappingSub(tail, head) > Size - len

\* Mutant of NoRoom: a record that exactly fits is refused.
NoRoomExact(len) ==
  RecordLen(len) > Size \/ WrappingSub(tail, head) >= Size - RecordLen(len)

\* send_sync compares the record with the room left by the head it loads.
NoRoom(len) ==
  \/ RecordLen(len) > Size
  \/ WrappingSub(tail, head) > Size - RecordLen(len)

SendRoom(len) ==
  /\ At("idle")
  /\ msg.id < MaxSend
  /\ msg' = [id |-> msg.id + 1, len |-> len]
  /\ put' = 0
  /\ spc' = IF NoRoom(len) THEN "drop" ELSE "copy"
  /\ UNCHANGED <<shared, alive, receiver, history>>

SendDrop ==
  /\ At("drop")
  /\ dropped' = dropped + 1
  /\ spc' = "idle"
  /\ UNCHANGED <<ring, head, tail, sem, fin, msg, put, alive, receiver, history>>

SendWord ==
  /\ At("copy")
  /\ put < RecordLen(msg.len)
  /\ ring' = [ring EXCEPT ![RecordOffset(tail, put)] = Word(msg.id, put, msg.len)]
  /\ put' = put + 1
  /\ UNCHANGED <<head, tail, dropped, sem, fin, spc, msg, alive, receiver, history>>

SendPublish ==
  /\ At("copy")
  /\ put = RecordLen(msg.len)
  /\ tail' = WrappingAdd(tail, RecordLen(msg.len))
  /\ written' = written \o Record(msg.id, msg.len)
  /\ begins' = Append(begins, Len(written))
  /\ spc' = "post"
  /\ UNCHANGED <<ring, head, dropped, sem, fin, msg, put, alive, receiver, taken, received>>

\* Mutant of SendPost: the semaphore is posted for the first record only.
SendPostOnce ==
  /\ At("post")
  /\ sem' = IF msg.id = 1 THEN sem + 1 ELSE sem
  /\ spc' = "idle"
  /\ UNCHANGED <<ring, head, tail, dropped, fin, msg, put, alive, receiver, history>>

SendPost ==
  /\ At("post")
  /\ sem' = sem + 1
  /\ spc' = "idle"
  /\ UNCHANGED <<ring, head, tail, dropped, fin, msg, put, alive, receiver, history>>

\* close posts the finish semaphore, then wakes a receiver blocked on an
\* empty queue.  ControlPlane::close calls it and Drop calls it again.
CloseFinish ==
  /\ At("idle") \/ At("closed")
  /\ fin' = fin + 1
  /\ spc' = IF spc = "idle" THEN "closing" ELSE "dropping"
  /\ UNCHANGED <<ring, head, tail, dropped, sem, msg, put, alive, receiver, history>>

CloseWake ==
  /\ At("closing") \/ At("dropping")
  /\ sem' = sem + 1
  /\ spc' = IF spc = "closing" THEN "closed" ELSE "gone"
  /\ UNCHANGED <<ring, head, tail, dropped, fin, msg, put, alive, receiver, history>>

Crash ==
  /\ MayCrash
  /\ alive
  /\ alive' = FALSE
  /\ UNCHANGED <<shared, spc, msg, put, receiver, history>>

SenderStep ==
  \/ SendDrop \/ SendWord \/ SendPublish \/ SendPost \/ CloseWake

----------------------------------------------------------------------------
(* Receiver *)

Goto(label) == rpc' = label /\ UNCHANGED <<mode, seen, got, last>>

Return(how) ==
  /\ rpc' = "idle"
  /\ last' = how
  /\ got' = <<>>
  /\ UNCHANGED <<mode, seen>>

Empty == head = tail

\* A blocking consumer stops at the first None (while let Some(..) = recv).
Finished == mode \in {"recv_sync", "recv"} /\ last = "none"

\* try_recv, and poll_command and latest_stats, which call recv_sync only
\* after a look at empty(), return without touching the semaphore.
CallEmpty ==
  /\ rpc = "idle"
  /\ mode \in {"try_recv", "poll"}
  /\ Empty
  /\ Return("empty")
  /\ UNCHANGED <<shared, sender, history>>

Call ==
  /\ rpc = "idle"
  /\ ~Finished
  /\ mode \in {"try_recv", "poll"} => ~Empty
  /\ Goto(CASE mode = "try_recv" -> "try"
            [] mode = "recv" -> "async"
            [] OTHER -> "wait")
  /\ UNCHANGED <<shared, sender, history>>

\* The result of try_wait is ignored by try_recv.
TryWait ==
  /\ rpc = "try"
  /\ sem' = IF sem > 0 THEN sem - 1 ELSE sem
  /\ Goto("read")
  /\ UNCHANGED <<ring, head, tail, dropped, fin, sender, history>>

Wait ==
  /\ rpc = "wait"
  /\ sem > 0
  /\ sem' = sem - 1
  /\ Goto("read")
  /\ UNCHANGED <<ring, head, tail, dropped, fin, sender, history>>

\* sem_wait interrupted by a signal: recv_sync returns None through ok()?.
WaitInterrupted ==
  /\ rpc = "wait"
  /\ Return("error")
  /\ UNCHANGED <<shared, sender, history>>

\* recv polls: try_wait first, then, on EAGAIN, the finish counter.
AsyncTake ==
  /\ rpc = "async"
  /\ sem > 0
  /\ sem' = sem - 1
  /\ Goto("read")
  /\ UNCHANGED <<ring, head, tail, dropped, fin, sender, history>>

AsyncAgain ==
  /\ rpc = "async"
  /\ sem = 0
  /\ Goto("again")
  /\ UNCHANGED <<shared, sender, history>>

\* Mutant of AsyncFinish: the finish counter is not looked at.
AsyncFinishAlways ==
  /\ rpc = "again"
  /\ Goto("read")
  /\ UNCHANGED <<shared, sender, history>>

AsyncFinish ==
  /\ rpc = "again"
  /\ Goto(IF fin > 0 THEN "read" ELSE "async")
  /\ UNCHANGED <<shared, sender, history>>

ReadTail ==
  /\ rpc = "read"
  /\ seen' = tail
  /\ IF head = tail
       THEN rpc' = "idle" /\ last' = "none"
       ELSE rpc' = "header" /\ UNCHANGED last
  /\ UNCHANGED <<mode, got, shared, sender, history>>

\* The length check of read_one: a record never reaches past the tail.
Overruns(len) ==
  \/ RecordLen(len) > WrappingSub(seen, head)
  \/ RecordLen(len) > Size

ReadHeader ==
  /\ rpc = "header"
  /\ LET word == ring[RecordOffset(head, 0)] IN
       IF Overruns(word.len)
         THEN Return("invalid")
         ELSE /\ rpc' = "copy"
              /\ got' = <<word>>
              /\ UNCHANGED <<mode, seen, last>>
  /\ UNCHANGED <<shared, sender, history>>

ReadWord ==
  /\ rpc = "copy"
  /\ Len(got) < RecordLen(got[1].len)
  /\ got' = Append(got, ring[RecordOffset(head, Len(got))])
  /\ UNCHANGED <<mode, rpc, seen, last, shared, sender, history>>

ReadCommit ==
  /\ rpc = "copy"
  /\ Len(got) = RecordLen(got[1].len)
  /\ head' = WrappingAdd(head, Len(got))
  /\ taken' = taken \o got
  /\ received' = Append(received, got[1])
  /\ Return("some")
  /\ UNCHANGED <<ring, tail, dropped, sem, fin, sender, written, begins>>

ReceiverStep ==
  \/ Call \/ TryWait \/ Wait \/ AsyncTake \/ AsyncAgain \/ AsyncFinish
  \/ ReadTail \/ ReadHeader \/ ReadWord \/ ReadCommit

----------------------------------------------------------------------------
Init ==
  /\ ring = [o \in 0 .. Size - 1 |-> Word(0, 0, 0)]
  /\ head = 0 /\ tail = 0 /\ dropped = 0 /\ sem = 0 /\ fin = 0
  /\ spc = "idle" /\ msg = [id |-> 0, len |-> 0] /\ put = 0 /\ alive = TRUE
  /\ mode \in Modes
  /\ rpc = "idle" /\ seen = 0 /\ got = <<>> /\ last = "empty"
  /\ written = <<>> /\ begins = <<>> /\ taken = <<>> /\ received = <<>>

Next ==
  \/ \E len \in Lengths : SendRoom(len)
  \/ SenderStep
  \/ CloseFinish
  \/ Crash
  \/ CallEmpty
  \/ WaitInterrupted
  \/ ReceiverStep

Spec == Init /\ [][Next]_vars

(***************************************************************************)
(* A running sender finishes the call it is in, unless it is killed; a     *)
(* scheduled receiver keeps taking steps; signals do not interrupt every   *)
(* sem_wait that could have succeeded.  Nothing obliges the application to *)
(* send or to close.                                                       *)
(***************************************************************************)
Fairness == WF_vars(SenderStep) /\ WF_vars(ReceiverStep) /\ SF_vars(Wait)

FairSpec == Spec /\ Fairness

----------------------------------------------------------------------------
(* Properties *)

Starts == {begins[k] : k \in DOMAIN begins}

\* What the consumer was handed is a prefix of what was published, in order,
\* without a torn, stale or repeated word, and it ends at a record boundary,
\* wherever the sender was killed and however often the counters wrapped
\* (send_sync against read_one).  read_one never meets a length it rejects.
StreamIntact ==
  /\ Len(taken) <= Len(written)
  /\ \A i \in 1 .. Len(taken) : taken[i] = written[i]
  /\ Len(taken) \in Starts \cup {Len(written)}
  /\ last # "invalid"

\* read_one finds the ring empty only at the end of the stream: never after
\* try_recv or poll_command saw data, and for the blocking receivers only when
\* the sender closed and every published record was received.
EndOfStream ==
  last = "none" =>
    /\ mode \in {"recv_sync", "recv"}
    /\ fin > 0
    /\ Len(taken) = Len(written)

\* What was published is eventually received: no wakeup is lost between the
\* store of tail and the post, whichever receive operation the consumer is built
\* on.  A sender killed between the two leaves only try_recv, which does not
\* depend on the post, with the guarantee.
Delivered ==
  Len(taken) < Len(written)
    ~> Len(taken) = Len(written) \/ (~alive /\ mode # "try_recv")
============================================================================
