----------------------------- MODULE MCPipeline -----------------------------
(***************************************************************************)
(* The way of a sample: the kernel's rings, the sampling worker, the       *)
(* dispatcher's queue, the segments on disk, and the recovery of a killed  *)
(* recording.  The worker hands a sample over with a send that waits for   *)
(* room, so a slow disk fills the queue, then the ring, and the kernel     *)
(* drops; a module map is handed over with a send that does not wait.      *)
(***************************************************************************)
EXTENDS PerfSampling, SegmentStore, SequencesExt, Sums

RecordBounds == <<4>>

RowBounds == [samples |-> 4, modules |-> 4, allocations |-> 2]

vars == <<sampling, store>>

Alive == dpc \in {"recv", "finish", "done"}

\* A step of the recording process itself, which a kill ends.
Sampling(action) == Alive /\ action /\ UNCHANGED store

WorkerStep ==
  \/ Sampling(RingEmpty \/ CopyRecord \/ UpdateTail \/ CountLost \/ CheckRunning)
  \/ Alive /\ EmitSample /\ Send("samples")
  \/ Alive /\ EmitAddress /\ TrySend("modules")

\* The other sources of the pass publish until they are stopped too; the
\* allocation records stand for them.
OtherSources ==
  /\ vpc # "dropped"
  /\ Send("allocations")
  /\ UNCHANGED sampling

\* do_record drops its dispatcher after the sources.
Release == vpc = "dropped" /\ DropSenders /\ UNCHANGED sampling

Init == SamplingInit /\ StoreInit

Next ==
  \/ Sampling(KernelStep)
  \/ WorkerStep
  \/ Sampling(OwnerStep)
  \/ OtherSources
  \/ Release
  \/ WriterThread /\ UNCHANGED sampling
  \/ Kill /\ UNCHANGED sampling
  \/ Recovery /\ UNCHANGED sampling

Spec == Init /\ [][Next]_vars

----------------------------------------------------------------------------
(* Properties *)

\* The segments of table t that a reader can open, and the rows it finds there.
Readable(t) == {k \in DOMAIN files[t] : IsHealthy(files[t][k])}

TableRows(t) == UNION {ToSet(files[t][k].rows) : k \in Readable(t)}

\* Read by segment number, the rows of table t ascend: none twice, none out of turn.
InOrder(t) ==
  \A k, m \in Readable(t) : \A i \in DOMAIN files[t][k].rows, j \in DOMAIN files[t][m].rows :
    k < m \/ (k = m /\ i < j) => files[t][k].rows[i] < files[t][m].rows[j]

Over(f) == SumTo(f, Rings)

InHand == IF wpc \in {"copied", "parsed"} /\ rec.kind # "lost" THEN 1 ELSE 0

\* What a record stands for: itself, or the records that the kernel dropped.
Weight(e) == IF e.kind = "lost" THEN e.value ELSE 1

\* Records of ring r that the worker has copied.
Copied(r) == tail[r] + (IF wpc = "copied" /\ wring = r THEN 1 ELSE 0)

\* Records still in a ring that the worker has not copied, those it stands for
\* included.
Unread(r) ==
  SumTo([i \in 1 .. Len(written[r]) |-> IF i > Copied(r) THEN Weight(written[r][i]) ELSE 0],
        Len(written[r]))

LostInHand == IF wpc \in {"copied", "parsed"} /\ rec.kind = "lost" THEN rec.value ELSE 0

\* Every record the kernel produced is on its way to a table, refused by the
\* full queue (a module map), counted in lost_samples, or not yet read from the
\* ring: none disappears, and none is counted as lost and also delivered.
RecordsAccounted ==
  Alive =>
    Over(generated) = sent["samples"] + sent["modules"] + lost + InHand + LostInHand
                      + Over([r \in RingIds |-> Unread(r) + pending[r]])

\* A table that is written while recording never holds a row twice, or two rows
\* in the wrong order, whichever writes, closes and retries failed.
RowsInOrder == \A t \in {"samples", "allocations"} : InOrder(t)

\* Rows of table t that the writer thread has taken from the queue.
Taken(t) == sent[t] - Cardinality({i \in DOMAIN queue : queue[i].table = t})

\* A crash costs the queue and no more than the open segment and one batch; and
\* a recovered table can be read and is the beginning of what was published.
CrashLosesTail ==
  faults = 0 =>
    /\ dpc = "recv" => \A t \in {"samples", "allocations"} :
         Taken(t) - Cardinality(TableRows(t)) <= (SegmentRows - 1) + (BatchRows - 1)
    /\ dpc = "recovered" => \A t \in {"samples", "allocations"} :
         /\ \A i \in DOMAIN files[t] : files[t][i].footer
         /\ InOrder(t) /\ \E n \in 0 .. sent[t] : TableRows(t) = 1 .. n

\* Once the writer thread has ended without a failing file operation, every row
\* that was published is in a closed segment, but for refused module maps.
FinishWritesAll ==
  dpc = "done" /\ faults = 0 =>
    \A t \in Tables :
      /\ \A i \in DOMAIN files[t] : files[t][i].footer
      /\ TableRows(t) = (1 .. sent[t]) \ (IF t = "modules" THEN refused ELSE {})

\* The writer thread reports success only when every allocation record is on
\* disk, whatever failed and however late.
AllocationsHonest ==
  dpc = "done" /\ result = "ok" =>
    InOrder("allocations") /\ TableRows("allocations") = 1 .. sent["allocations"]

\* A closed segment is never touched again: not by later writes, not by a
\* failing close, not by a kill and not by recovery.
ClosedSegmentsStay ==
  [][\A t \in Tables : \A i \in DOMAIN files[t] :
       files[t][i].footer => i \in DOMAIN files'[t] /\ files'[t][i] = files[t][i]]_vars
============================================================================
