------------------------- MODULE AllocationCapture -------------------------
(***************************************************************************)
(* Allocation capture end to end: the collector in the target sends its    *)
(* allocation records through the channel to AllocationSource in the       *)
(* profiler.  The target may be killed at any step; the profiler waits for *)
(* it to be gone before it stops the source (snapshot and wait_for_target  *)
(* in mperf/src/record.rs).                                                *)
(***************************************************************************)
EXTENDS Collector

CONSTANT MayKill   \* whether the target may be killed

ASSUME KillAssumption == MayKill \in BOOLEAN

VARIABLES alive, rpc, stop, expected, missing, outcome

Source == INSTANCE AllocationSource

source  == <<rpc, stop, expected, missing, outcome>>
capture == <<vars, alive, source>>

CaptureInit == Init /\ alive = TRUE /\ Source!Init

Target ==
  /\ alive
  /\ Next
  /\ UNCHANGED <<alive, source>>

Kill ==
  /\ MayKill
  /\ alive
  /\ alive' = FALSE
  /\ UNCHANGED <<vars, source>>

\* The target is gone: it was killed, or it left main through shutdown.
TargetGone == ~alive \/ fpc = "joined"

\* Everything of the collector but the channel.
CollectorRest ==
  <<flags, producers, totalDropped, slots, walker, buffer, slotDropped, counters, queue,
    threads, wpc, cur, why, wi, batch, unflushed, commands, batchSeq, chanLost, finisher,
    parsed, appended, alive>>

Worker == Source!Next /\ UNCHANGED CollectorRest

StopSource == TargetGone /\ Source!RequestStop /\ UNCHANGED CollectorRest

CaptureNext == Target \/ Kill \/ Worker \/ StopSource

CaptureSpec == CaptureInit /\ [][CaptureNext]_capture

----------------------------------------------------------------------------
(* Properties *)

Numbers == {outcome.records[i].value : i \in DOMAIN outcome.records}

Judged == rpc = "joined"

\* A capture judged complete is complete: the collector is done and each
\* operation it numbered was received exactly once.
CompleteIsExact ==
  Judged /\ Source!Complete =>
    /\ wpc \in {"segments", "done"}
    /\ Numbers = 1 .. allocSeq
    /\ Len(outcome.records) = allocSeq

\* Packets lost to a full channel, and a killed target, are never taken for a
\* protocol violation (sequence, expected and missing_packets).
LossIsNotCorruption == ~outcome.invalid

============================================================================
