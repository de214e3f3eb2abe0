---------------------------- MODULE SegmentStore ----------------------------
(***************************************************************************)
(* The writing side of a recording: EventDispatcher's bounded queue and    *)
(* the writer thread behind it, which buffers rows per table and writes    *)
(* them through SegmentWriter into numbered Parquet segments, and `mperf   *)
(* recover`, which quarantines what a killed recording left unfinished.    *)
(*                                                                         *)
(* A row is its number among the rows published for its table.  The tables *)
(* stand for the ways the writer treats one: "samples" (also mem_samples,  *)
(* events and resources) is written when a batch is full, or earlier, and  *)
(* its errors are printed; "allocations" remembers an error and fails      *)
(* finish; "modules" (also payloads, clock, strings, processes and         *)
(* metrics) is kept in memory and written by finish.  A segment's size is  *)
(* counted in rows.                                                        *)
(***************************************************************************)
EXTENDS Naturals, SequencesExt

CONSTANTS
  QueueCap,      \* BATCH_ROWS, the bound of the sync_channel
  BatchRows,     \* rows that make a batch
  SegmentRows,   \* rows at which a segment is closed
  MaxRows,       \* bound: rows published per table
  MaxFaults      \* bound: failing file operations

ASSUME StoreAssumption ==
  /\ QueueCap \in Nat \ {0} /\ BatchRows \in Nat \ {0} /\ SegmentRows \in Nat \ {0}
  /\ MaxFaults \in Nat

Tables == {"samples", "allocations", "modules"}

ASSUME RowsAssumption == MaxRows \in [Tables -> Nat]

VARIABLES
  queue,     \* messages of the channel, oldest first
  senders,   \* some Arc<EventDispatcher> is still held
  sent,      \* rows published so far, per table
  refused,   \* module rows try_send could not queue
  rows,      \* rows buffered by the writer thread, per table
  current,   \* SegmentWriter::current is Some, per table
  seq,       \* SegmentWriter::seq, per table
  files,     \* segments on disk, per table: file n is files[t][n + 1]
  failure,   \* allocations::Writer::failure is Some
  dpc,       \* where the writer thread is
  step,      \* the step of Worker::finish it is at
  result,    \* what the writer thread returned
  faults     \* file operations that failed

memory == <<queue, senders, sent, refused>>
disk   == <<current, seq, files>>
store  == <<queue, senders, sent, refused, rows, current, seq, files, failure, dpc, step,
            result, faults>>

Row(t, n) == [table |-> t, n |-> n]

OpenFile == [rows |-> <<>>, footer |-> FALSE]

----------------------------------------------------------------------------
(* EventDispatcher: publishing a record *)

\* record: every kind but a module map waits for room in the channel.
Send(t) ==
  /\ senders
  /\ sent[t] < MaxRows[t]
  /\ Len(queue) < QueueCap
  /\ sent' = [sent EXCEPT ![t] = @ + 1]
  /\ queue' = Append(queue, Row(t, sent[t] + 1))
  /\ UNCHANGED <<senders, refused, rows, disk, failure, dpc, step, result, faults>>

\* publish_proc_map_sync: a module map that finds no room is lost.
TrySend(t) ==
  /\ senders
  /\ sent[t] < MaxRows[t]
  /\ sent' = [sent EXCEPT ![t] = @ + 1]
  /\ IF Len(queue) < QueueCap
       THEN queue' = Append(queue, Row(t, sent[t] + 1)) /\ UNCHANGED refused
       ELSE refused' = refused \cup {sent[t] + 1} /\ UNCHANGED queue
  /\ UNCHANGED <<senders, rows, disk, failure, dpc, step, result, faults>>

\* The last Arc<EventDispatcher> is dropped: do_record's own, after the sources'.
DropSenders ==
  /\ senders
  /\ senders' = FALSE
  /\ UNCHANGED <<queue, sent, refused, rows, disk, failure, dpc, step, result, faults>>

----------------------------------------------------------------------------
(* SegmentWriter *)

\* File::create truncates whatever a segment of this number left behind.
Create(t) == SubSeq(files[t], 1, seq[t]) \o <<OpenFile>>

Opened(t) == IF current[t] THEN files[t] ELSE Create(t)

Filled(t, batch) == [Opened(t) EXCEPT ![seq[t] + 1].rows = @ \o batch]

Closed(segments, t) == [segments EXCEPT ![seq[t] + 1].footer = TRUE]

Fault == faults < MaxFaults /\ faults' = faults + 1

\* Mutant of CloseOk: the number of the closed segment is used again.
CloseReused(t, segments) ==
  /\ files' = [files EXCEPT ![t] = Closed(segments, t)]
  /\ current' = [current EXCEPT ![t] = FALSE]
  /\ UNCHANGED seq

\* roll: the footer is written and the number advances.
CloseOk(t, segments) ==
  /\ files' = [files EXCEPT ![t] = Closed(segments, t)]
  /\ seq' = [seq EXCEPT ![t] = @ + 1]
  /\ current' = [current EXCEPT ![t] = FALSE]

\* roll took the writer out before close failed: the number stays, and the
\* next write creates the same file again.
CloseFails(t, segments) ==
  /\ files' = [files EXCEPT ![t] = segments]
  /\ current' = [current EXCEPT ![t] = FALSE]
  /\ UNCHANGED seq

\* write, and the roll it ends with when the segment is full.
WriteOk(t, batch) ==
  /\ IF Len(Filled(t, batch)[seq[t] + 1].rows) >= SegmentRows
       THEN CloseOk(t, Filled(t, batch))
       ELSE /\ files' = [files EXCEPT ![t] = Filled(t, batch)]
            /\ current' = [current EXCEPT ![t] = TRUE]
            /\ UNCHANGED seq
  /\ UNCHANGED faults

\* The file cannot be created or its writer not set up, the batch cannot be
\* written or only its flush fails, or the full segment cannot be closed.
WriteFails(t, batch) ==
  /\ Fault
  /\ \/ /\ ~current[t]
        /\ files' \in {files, [files EXCEPT ![t] = Opened(t)]}
        /\ UNCHANGED <<current, seq>>
     \/ /\ \E segments \in {Opened(t), Filled(t, batch)} :
             files' = [files EXCEPT ![t] = segments]
        /\ current' = [current EXCEPT ![t] = TRUE]
        /\ UNCHANGED seq
     \/ /\ Len(Filled(t, batch)[seq[t] + 1].rows) >= SegmentRows
        /\ CloseFails(t, Filled(t, batch))

\* SegmentWriter::finish.
RollOk(t) ==
  /\ IF current[t] THEN CloseOk(t, files[t]) ELSE UNCHANGED disk
  /\ UNCHANGED faults

RollFails(t) ==
  /\ current[t]
  /\ Fault
  /\ CloseFails(t, files[t])

----------------------------------------------------------------------------
(* The writer thread *)

\* Mutant of Remembered: an error of the allocation table is only printed.
Forgotten(t) == UNCHANGED failure

\* flush of allocations::Writer keeps the error for finish.
Remembered(t) == failure' = (failure \/ t = "allocations")

\* Mutant of Flush: the columns keep what was written.
FlushKeepsRows(t, batch) ==
  /\ rows' = [rows EXCEPT ![t] = batch]
  /\ \/ batch = <<>> /\ UNCHANGED <<disk, faults, failure>>
     \/ batch # <<>> /\ WriteOk(t, batch) /\ UNCHANGED failure

\* to_batch empties the buffered columns before the write is tried.
Flush(t, batch) ==
  /\ rows' = [rows EXCEPT ![t] = <<>>]
  /\ \/ batch = <<>> /\ UNCHANGED <<disk, faults, failure>>
     \/ batch # <<>> /\ WriteOk(t, batch) /\ UNCHANGED failure
     \/ batch # <<>> /\ WriteFails(t, batch) /\ Remembered(t)

\* A batch is written when it is full; samples also at BATCH_STACK_BYTES,
\* resources also when RESOURCE_FLUSH_INTERVAL has passed.
MustFlush(t, batch) == t # "modules" /\ Len(batch) >= BatchRows
MayFlush(t)         == t = "samples"

Consume ==
  /\ dpc = "recv"
  /\ queue # <<>>
  /\ queue' = Tail(queue)
  /\ LET t == Head(queue).table
         batch == Append(rows[t], Head(queue).n)
     IN \/ (MustFlush(t, batch) \/ MayFlush(t)) /\ Flush(t, batch)
        \/ /\ ~MustFlush(t, batch)
           /\ rows' = [rows EXCEPT ![t] = batch]
           /\ UNCHANGED <<disk, faults, failure>>
  /\ UNCHANGED <<senders, sent, refused, dpc, step, result>>

\* recv fails once the channel is empty and no sender is left.
Disconnected ==
  /\ dpc = "recv"
  /\ queue = <<>> /\ ~senders
  /\ dpc' = "finish"
  /\ UNCHANGED <<memory, rows, disk, failure, step, result, faults>>

\* Mutant of FinishSteps: the last samples stay in their buffer.
FinishWithoutFlush ==
  <<[do |-> "flush", table |-> "allocations"], [do |-> "roll", table |-> "allocations"],
    [do |-> "all", table |-> "modules"], [do |-> "roll", table |-> "samples"]>>

\* The order in which finish empties buffers and closes files.
FinishSteps ==
  <<[do |-> "flush", table |-> "allocations"], [do |-> "roll", table |-> "allocations"],
    [do |-> "flush", table |-> "samples"],     [do |-> "all", table |-> "modules"],
    [do |-> "roll", table |-> "samples"]>>

\* write_all: one batch, then finish; an error of either leaves no footer.
WriteAll(t, batch) ==
  \/ batch = <<>> /\ UNCHANGED <<disk, faults>>
  \/ batch # <<>> /\ CloseOk(t, Filled(t, batch)) /\ UNCHANGED faults
  \/ batch # <<>> /\ Fault /\ UNCHANGED disk
  \/ batch # <<>> /\ Fault /\ CloseFails(t, Filled(t, batch))

Verdict(t, ok) ==
  IF t = "allocations" /\ (failure \/ ~ok) THEN "err" ELSE result

FinishStep ==
  /\ dpc = "finish"
  /\ step <= Len(FinishSteps)
  /\ LET t == FinishSteps[step].table IN
       \/ /\ FinishSteps[step].do = "flush"
          /\ Flush(t, rows[t])
          /\ UNCHANGED result
       \/ /\ FinishSteps[step].do = "all"
          /\ WriteAll(t, rows[t])
          /\ rows' = [rows EXCEPT ![t] = <<>>]
          /\ UNCHANGED <<failure, result>>
       \/ /\ FinishSteps[step].do = "roll"
          /\ \/ RollOk(t) /\ result' = Verdict(t, TRUE)
             \/ RollFails(t) /\ result' = Verdict(t, FALSE)
          /\ UNCHANGED <<rows, failure>>
  /\ step' = step + 1
  /\ UNCHANGED <<memory, dpc>>

FinishDone ==
  /\ dpc = "finish"
  /\ step > Len(FinishSteps)
  /\ dpc' = "done"
  /\ UNCHANGED <<memory, rows, disk, failure, step, result, faults>>

WriterThread == Consume \/ Disconnected \/ FinishStep \/ FinishDone

----------------------------------------------------------------------------
(* A killed recording, and mperf recover *)

\* Everything in memory is gone; the open segments have no footer.
Kill ==
  /\ dpc \in {"recv", "finish"}
  /\ dpc' = "killed"
  /\ queue' = <<>> /\ senders' = FALSE
  /\ rows' = [t \in Tables |-> <<>>]
  /\ current' = [t \in Tables |-> FALSE]
  /\ UNCHANGED <<sent, refused, seq, files, failure, step, result, faults>>

IsHealthy(file) == file.footer

\* Mutant of Unreadable: recovery keeps what has no footer.
NoneUnreadable(t) == {}

Unreadable(t) == {i \in DOMAIN files[t] : ~IsHealthy(files[t][i])}

\* recover_session renames one unreadable file out of its table; interrupted
\* and run again, it goes on where it was.
Quarantine(t) ==
  /\ dpc = "killed"
  /\ \E i \in Unreadable(t) : files' = [files EXCEPT ![t] = RemoveAt(@, i)]
  /\ UNCHANGED <<memory, rows, current, seq, failure, dpc, step, result, faults>>

Recovered ==
  /\ dpc = "killed"
  /\ \A t \in Tables : Unreadable(t) = {}
  /\ dpc' = "recovered"
  /\ UNCHANGED <<memory, rows, disk, failure, step, result, faults>>

Recovery == (\E t \in Tables : Quarantine(t)) \/ Recovered

----------------------------------------------------------------------------
StoreInit ==
  /\ queue = <<>> /\ senders = TRUE
  /\ sent = [t \in Tables |-> 0] /\ refused = {}
  /\ rows = [t \in Tables |-> <<>>]
  /\ current = [t \in Tables |-> FALSE] /\ seq = [t \in Tables |-> 0]
  /\ files = [t \in Tables |-> <<>>]
  /\ failure = FALSE
  /\ dpc = "recv" /\ step = 1 /\ result = "ok" /\ faults = 0

============================================================================
