---------------------------- MODULE PerfSampling ----------------------------
(***************************************************************************)
(* PerfSamplingDriver: one kernel ring per sampling group, the worker      *)
(* thread that empties them, and the driver's start, stop and drop.        *)
(*                                                                         *)
(* A ring slot holds one record: a sample with the cumulative counter of   *)
(* its thread, a module map, or the kernel's count of what it had to drop. *)
(* A sample carries one counter value, and counts one event.               *)
(***************************************************************************)
EXTENDS Naturals, Sequences

CONSTANTS
  Rings,       \* number of sampling groups; ring r belongs to group r
  Tids,        \* thread identifiers of the target
  RingCap,     \* records a ring holds
  Targets,     \* what may be sampled: "child", "process" or "self"
  MaxRecords,  \* bound: records the kernel produces, for each ring
  MaxMaps,     \* bound: the target maps modules only among its first records
  MaxReuse,    \* bound: thread identifiers the kernel hands out again
  MayFail      \* ioctls, and reads of a group's times, may fail

ASSUME SamplingAssumption ==
  /\ Rings \in Nat \ {0} /\ RingCap \in Nat \ {0}
  /\ MaxRecords \in [1 .. Rings -> Nat] /\ MaxMaps \in Nat /\ MaxReuse \in Nat
  /\ Targets \subseteq {"child", "process", "self"} /\ MayFail \in BOOLEAN

RingIds == 1 .. Rings

VARIABLES
  mode,       \* the target: a suspended child, a running process, or ourselves
  target,     \* "suspended", "executing" or "exited"
  armed,      \* enable_on_exec is pending
  fits,       \* the PMU has room to run group r
  enabled,    \* the kernel counts and samples group r
  timed,      \* group r has accrued enabled time: the target reached its PMU
  counter,    \* cumulative counter of a thread in group r
  slot,       \* the ring's memory, by position modulo its size
  head, tail, \* data_head and data_tail, per ring
  pending,    \* records the kernel dropped and has not reported, per ring
  reused,     \* thread identifiers handed out again
  wpc,        \* where the worker thread is
  wring,      \* the ring it is reading
  rec,        \* the record it copied
  base,       \* last_samples_map, per ring and thread
  running,    \* shared with the worker: keep reading
  lost,       \* shared with the worker: lost_samples
  vpc,        \* where the driver's owner is
  leader,     \* the group leader that start or stop is at
  failed,     \* disable_error is Some
  judged,     \* what groups_scheduled said, and why it said nothing
  status,     \* what start or stop returned
  mapped,     \* the rings are mapped
  executed,   \* history: the target executed while the driver was sampling
  generated,  \* history: records the kernel produced, per ring
  total,      \* history: events counted, per ring and thread
  written,    \* history: records written into the ring, per ring
  handled,    \* history: records the worker handled, per ring
  credited    \* history: sum of the values handed to the sink, per ring and thread

kernel  == <<mode, target, armed, fits, enabled, timed, counter, slot, head, pending, reused>>
shared  == <<running, lost>>
owner   == <<vpc, leader, failed, judged, status, mapped>>
produced == <<executed, generated, total, written>>
sampling == <<kernel, tail, wpc, wring, rec, base, shared, owner, produced, handled, credited>>

Nothing      == [kind |-> "none", tid |-> 0, value |-> 0]
Sample(t, v) == [kind |-> "sample", tid |-> t, value |-> v]
Lost(n)      == [kind |-> "lost", tid |-> 0, value |-> n]
Address      == [kind |-> "mmap", tid |-> 0, value |-> 0]

Monus(a, b) == IF a > b THEN a - b ELSE 0   \* saturating_sub

----------------------------------------------------------------------------
(* The kernel and the target *)

\* A record needs room together with the report of those dropped before it.
Produce(r, record) ==
  LET report == IF pending[r] > 0 THEN <<Lost(pending[r])>> ELSE <<>>
      records == Append(report, record)
  IN /\ generated[r] < MaxRecords[r]
     /\ generated' = [generated EXCEPT ![r] = @ + 1]
     /\ IF head[r] - tail[r] + Len(records) <= RingCap
          THEN /\ slot' = [slot EXCEPT ![r] = [p \in 0 .. RingCap - 1 |->
                     IF \E i \in 1 .. Len(records) : p = (head[r] + i - 1) % RingCap
                       THEN records[CHOOSE i \in 1 .. Len(records) :
                                      p = (head[r] + i - 1) % RingCap]
                       ELSE @[p]]]
               /\ head' = [head EXCEPT ![r] = @ + Len(records)]
               /\ written' = [written EXCEPT ![r] = @ \o records]
               /\ pending' = [pending EXCEPT ![r] = 0]
          ELSE /\ pending' = [pending EXCEPT ![r] = @ + 1]
               /\ UNCHANGED <<slot, head, written>>

\* The target ran on the PMU of group r while it was enabled, and the group with it.
Ran(r) == timed[r] /\ fits[r]

\* A sampling interrupt of group r in thread t.
Interrupt(r, t) ==
  /\ target = "executing" /\ enabled[r] /\ Ran(r)
  /\ counter' = [counter EXCEPT ![r][t] = @ + 1]
  /\ total' = [total EXCEPT ![r][t] = @ + 1]
  /\ Produce(r, Sample(t, counter[r][t] + 1))
  /\ UNCHANGED <<mode, target, armed, fits, enabled, timed, reused, tail, wpc, wring, rec,
                 base, shared, owner, executed, handled, credited>>

\* The target maps a module.
MapModule(r) ==
  /\ target = "executing" /\ enabled[r]
  /\ generated[r] < MaxMaps
  /\ Produce(r, Address)
  /\ UNCHANGED <<mode, target, armed, fits, enabled, timed, counter, reused, tail, wpc, wring,
                 rec, base, shared, owner, executed, total, handled, credited>>

\* A thread exits and the next one gets its identifier, and counters from zero.
ReuseTid(t) ==
  /\ target = "executing"
  /\ reused < MaxReuse
  /\ \E r \in RingIds : counter[r][t] > 0
  /\ reused' = reused + 1
  /\ counter' = [r \in RingIds |-> [counter[r] EXCEPT ![t] = 0]]
  /\ UNCHANGED <<mode, target, armed, fits, enabled, timed, slot, head, pending, tail, wpc,
                 wring, rec, base, shared, owner, produced, handled, credited>>

\* The target comes to a CPU of another kind, whose PMU is that of group r.
Reach(r) ==
  /\ target = "executing" /\ enabled[r] /\ ~timed[r]
  /\ timed' = [timed EXCEPT ![r] = TRUE]
  /\ UNCHANGED <<mode, target, armed, fits, enabled, counter, slot, head, pending, reused, tail,
                 wpc, wring, rec, base, shared, owner, produced, handled, credited>>

\* execve enables groups opened with enable_on_exec, in one of which the target
\* runs.  A launched child comes to it once the owner releases it, a process that
\* was running already at any time, if ever.
Exec(r) ==
  /\ armed
  /\ \/ target = "suspended" /\ vpc = "sampling"
     \/ mode = "process" /\ target = "executing" /\ vpc # "dropped"
  /\ armed' = FALSE
  /\ target' = "executing"
  /\ executed' = (executed \/ vpc = "sampling")
  /\ enabled' = [g \in RingIds |-> TRUE]
  /\ timed' = [timed EXCEPT ![r] = TRUE]
  /\ UNCHANGED <<mode, fits, counter, slot, head, pending, reused, tail, wpc, wring, rec, base,
                 shared, owner, generated, total, written, handled, credited>>

Exit ==
  /\ target = "executing" /\ mode # "self"
  /\ target' = "exited"
  /\ UNCHANGED <<mode, armed, fits, enabled, timed, counter, slot, head, pending, reused, tail,
                 wpc, wring, rec, base, shared, owner, produced, handled, credited>>

KernelStep ==
  \/ \E r \in RingIds : (\E t \in Tids : Interrupt(r, t)) \/ MapModule(r) \/ Reach(r) \/ Exec(r)
  \/ \E t \in Tids : ReuseTid(t)
  \/ Exit

----------------------------------------------------------------------------
(* The worker thread of start *)

\* Records::next finds the ring empty: on to the next one.
RingEmpty ==
  /\ wpc = "pass"
  /\ wring <= Rings
  /\ head[wring] = tail[wring]
  /\ wring' = wring + 1
  /\ UNCHANGED <<kernel, tail, wpc, rec, base, shared, owner, produced, handled, credited>>

\* copy_from_ring.
CopyRecord ==
  /\ wpc = "pass"
  /\ wring <= Rings
  /\ head[wring] # tail[wring]
  /\ rec' = slot[wring][tail[wring] % RingCap]
  /\ wpc' = "copied"
  /\ UNCHANGED <<kernel, tail, wring, base, shared, owner, produced, handled, credited>>

\* Mutant of UpdateTail: everything the kernel has published is skipped.
UpdateTailToHead ==
  /\ wpc = "copied"
  /\ tail' = [tail EXCEPT ![wring] = head[wring]]
  /\ wpc' = "parsed"
  /\ UNCHANGED <<kernel, wring, rec, base, shared, owner, produced, handled, credited>>

\* update_tail, before the record is parsed: the kernel may write again.
UpdateTail ==
  /\ wpc = "copied"
  /\ tail' = [tail EXCEPT ![wring] = @ + 1]
  /\ wpc' = "parsed"
  /\ UNCHANGED <<kernel, wring, rec, base, shared, owner, produced, handled, credited>>

Handle ==
  /\ wpc = "parsed"
  /\ wpc' = "pass"
  /\ rec' = Nothing
  /\ handled' = [handled EXCEPT ![wring] = Append(@, rec)]

\* Mutant of Delta: the cumulative value is reported.
Cumulative == rec.value

Delta == Monus(rec.value, base[wring][rec.tid])

\* One Record::Sample for the sink: the progress since the thread's last one.
EmitSample ==
  /\ Handle
  /\ rec.kind = "sample"
  /\ base' = [base EXCEPT ![wring][rec.tid] = rec.value]
  /\ credited' = [credited EXCEPT ![wring][rec.tid] = @ + Delta]
  /\ UNCHANGED <<kernel, tail, wring, shared, owner, produced>>

\* One Record::ProcAddr for the sink.
EmitAddress ==
  /\ Handle
  /\ rec.kind = "mmap"
  /\ UNCHANGED <<kernel, tail, wring, base, shared, owner, produced, credited>>

\* Mutant of CountLost: a report of lost records is skipped.
SkipLost ==
  /\ Handle
  /\ rec.kind = "lost"
  /\ UNCHANGED <<kernel, tail, wring, base, shared, owner, produced, credited>>

CountLost ==
  /\ Handle
  /\ rec.kind = "lost"
  /\ lost' = lost + rec.value
  /\ UNCHANGED <<kernel, tail, wring, base, running, owner, produced, credited>>

\* After a pass over every ring: leave, or sleep and go round again.
CheckRunning ==
  /\ wpc = "pass"
  /\ wring > Rings
  /\ IF running
       THEN wring' = 1 /\ UNCHANGED wpc
       ELSE wpc' = "ended" /\ UNCHANGED wring
  /\ UNCHANGED <<kernel, tail, rec, base, shared, owner, produced, handled, credited>>

----------------------------------------------------------------------------
(* The driver's owner: start, stop, drop *)

EnableOnStart == mode = "self"   \* PerfSamplingDriver::new: pid.is_none()

\* ENABLE of one leader.  We run on the PMU of one of the groups, at the latest the
\* last to be enabled.
StartEnable ==
  /\ vpc = "built" /\ EnableOnStart
  /\ leader <= Rings
  /\ \/ /\ enabled' = [enabled EXCEPT ![leader] = TRUE]
        /\ \/ timed' = [timed EXCEPT ![leader] = TRUE]
           \/ UNCHANGED timed /\ (leader < Rings \/ \E r \in RingIds : timed[r])
        /\ leader' = leader + 1
        /\ UNCHANGED <<vpc, status>>
     \/ /\ MayFail
        /\ vpc' = "failed" /\ status' = "enable"
        /\ UNCHANGED <<enabled, timed, leader>>
  /\ UNCHANGED <<mode, target, armed, fits, counter, slot, head, pending, reused, tail, wpc,
                 wring, rec, base, shared, failed, judged, mapped, produced, handled, credited>>

StartWorker ==
  /\ vpc = "built"
  /\ EnableOnStart => leader > Rings
  /\ running' = TRUE
  /\ wpc' = "pass" /\ wring' = 1
  /\ vpc' = "sampling" /\ leader' = 1
  /\ executed' = (target = "executing")
  /\ UNCHANGED <<kernel, tail, rec, base, lost, failed, judged, status, mapped, generated, total,
                 written, handled, credited>>

\* stop disables every group, whatever an ioctl returned for the one before.
StopDisable ==
  /\ vpc \in {"sampling", "stopping"}
  /\ leader <= Rings
  /\ \/ enabled' = [enabled EXCEPT ![leader] = FALSE] /\ UNCHANGED failed
     \/ MayFail /\ failed' = TRUE /\ UNCHANGED enabled
  /\ leader' = leader + 1
  /\ vpc' = "stopping"
  /\ UNCHANGED <<mode, target, armed, fits, timed, counter, slot, head, pending, reused, tail,
                 wpc, wring, rec, base, shared, judged, status, mapped, produced, handled, credited>>

StopFlag ==
  /\ vpc = "stopping"
  /\ leader > Rings
  /\ running' = FALSE
  /\ vpc' = "joining"
  /\ UNCHANGED <<kernel, tail, wpc, wring, rec, base, lost, leader, failed, judged, status, mapped,
                 produced, handled, credited>>

\* groups_scheduled goes through the leaders: Some(true) at the first that ran,
\* Some(false) if some accrued enabled time and none ran, None if none accrued any ...
Scheduling ==
  IF \E r \in RingIds : Ran(r) THEN "ran"
  ELSE IF \E r \in RingIds : timed[r] THEN "never" ELSE "unreached"

\* ... or if a leader's times could not be read before there was an answer.
GroupsScheduled == {Scheduling} \cup (IF MayFail THEN {"unread"} ELSE {})

\* Mutant of Outcome: whether a group ever ran is not looked at.
OutcomeUnscheduled(verdict) ==
  IF failed THEN "disable" ELSE IF lost # 0 THEN "lost" ELSE "ok"

Outcome(verdict) ==
  IF failed THEN "disable"
  ELSE IF verdict = "never" THEN "unscheduled"
  ELSE IF lost # 0 THEN "lost"
  ELSE "ok"

StopJoin ==
  /\ vpc = "joining"
  /\ wpc = "ended"
  /\ judged' \in GroupsScheduled
  /\ status' = Outcome(judged')
  /\ vpc' = "stopped"
  /\ UNCHANGED <<kernel, tail, wpc, wring, rec, base, shared, leader, failed, mapped, produced,
                 handled, credited>>

\* drop, with or without a stop before it.
DropFlag ==
  /\ vpc \in {"sampling", "stopped", "failed"}
  /\ running' = FALSE
  /\ vpc' = "dropping"
  /\ UNCHANGED <<kernel, tail, wpc, wring, rec, base, lost, leader, failed, judged, status, mapped,
                 produced, handled, credited>>

\* Mutant of DropUnmap: the rings are unmapped without joining the worker.
DropUnmapEarly ==
  /\ vpc = "dropping"
  /\ mapped' = FALSE
  /\ enabled' = [r \in RingIds |-> FALSE]
  /\ vpc' = "dropped"
  /\ UNCHANGED <<mode, target, armed, fits, timed, counter, slot, head, pending, reused, tail,
                 wpc, wring, rec, base, shared, leader, failed, judged, status, produced, handled,
                 credited>>

DropUnmap ==
  /\ vpc = "dropping"
  /\ wpc \in {"none", "ended"}
  /\ mapped' = FALSE
  /\ enabled' = [r \in RingIds |-> FALSE]
  /\ vpc' = "dropped"
  /\ UNCHANGED <<mode, target, armed, fits, timed, counter, slot, head, pending, reused, tail,
                 wpc, wring, rec, base, shared, leader, failed, judged, status, produced, handled,
                 credited>>

OwnerStep ==
  StartEnable \/ StartWorker \/ StopDisable \/ StopFlag \/ StopJoin \/ DropFlag \/ DropUnmap

----------------------------------------------------------------------------
SamplingInit ==
  /\ mode \in Targets
  /\ target = (IF mode = "child" THEN "suspended" ELSE "executing")
  /\ armed = (mode # "self")
  /\ fits \in [RingIds -> BOOLEAN]
  /\ enabled = [r \in RingIds |-> FALSE] /\ timed = [r \in RingIds |-> FALSE]
  /\ counter = [r \in RingIds |-> [t \in Tids |-> 0]]
  /\ slot = [r \in RingIds |-> [p \in 0 .. RingCap - 1 |-> Nothing]]
  /\ head = [r \in RingIds |-> 0] /\ tail = [r \in RingIds |-> 0]
  /\ pending = [r \in RingIds |-> 0] /\ reused = 0
  /\ wpc = "none" /\ wring = 1 /\ rec = Nothing
  /\ base = [r \in RingIds |-> [t \in Tids |-> 0]]
  /\ running = FALSE /\ lost = 0
  /\ vpc = "built" /\ leader = 1 /\ failed = FALSE
  /\ judged = "none" /\ status = "none" /\ mapped = TRUE
  /\ executed = FALSE
  /\ generated = [r \in RingIds |-> 0]
  /\ total = [r \in RingIds |-> [t \in Tids |-> 0]]
  /\ written = [r \in RingIds |-> <<>>] /\ handled = [r \in RingIds |-> <<>>]
  /\ credited = [r \in RingIds |-> [t \in Tids |-> 0]]

Sampler ==
  \/ RingEmpty \/ CopyRecord \/ UpdateTail \/ CheckRunning
  \/ EmitSample \/ EmitAddress \/ CountLost

\* The driver by itself, whatever becomes of what it hands to the sink.
SamplingNext == KernelStep \/ Sampler \/ OwnerStep

----------------------------------------------------------------------------
(* Properties *)

\* What the worker has handled is, record for record, what the kernel wrote,
\* up to the tail it published; the record in its hand is the next one.  The
\* kernel never overwrites what copy_from_ring is still to read.
StreamFaithful ==
  \A r \in RingIds :
    LET inHand == IF wpc \in {"copied", "parsed"} /\ wring = r THEN <<rec>> ELSE <<>>
        done   == handled[r] \o inHand
    IN /\ Len(done) <= Len(written[r])
       /\ done = SubSeq(written[r], 1, Len(done))
       /\ tail[r] = IF wpc = "copied" /\ wring = r THEN Len(done) - 1 ELSE Len(done)

\* The values handed over telescope to the thread's last counter, whatever was
\* lost in between; and when the kernel reuses a thread identifier the sum
\* falls short of what was counted but never exceeds it.
DeltasTelescope ==
  \A r \in RingIds, t \in Tids :
    /\ reused = 0 => credited[r][t] = base[r][t]
    /\ credited[r][t] <= total[r][t]

\* The worker reads a ring only while it is mapped: drop joins it first, also
\* for a driver that was never stopped.
NoReadAfterUnmap == wpc \in {"pass", "copied", "parsed"} => mapped

\* A stop that reports no error had something to sample with, and one that says
\* that no group ran had nothing to hand over.
SampledWhenOk ==
  status = "ok" /\ executed /\ judged # "unread" => \E r \in RingIds : Ran(r)

\* A driver that launched its target, or samples its own process, and whose stop
\* reports no error although the target executed meanwhile: some group that the
\* target reached could run, unless the kernel would not tell.  And the error that
\* no group ran is never given to a driver that delivered a sample.
OkMeansSampled ==
  /\ mode # "process" => SampledWhenOk
  /\ status = "unscheduled" => \A r \in RingIds, t \in Tids : credited[r][t] = 0

\* The same of sampling that "attaches ... to an already-running process"
\* (driver/mod.rs:341), which is armed with enable_on_exec and not enabled by start.
AttachedIsSampled == SampledWhenOk
============================================================================
