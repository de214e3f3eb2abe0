--------------------------- MODULE RecordSession ---------------------------
(***************************************************************************)
(* One snapshot or TMA recording, from do_record to the outcome its caller *)
(* sees: sources are started around a launched (gated) or attached target, *)
(* the target's process tree is polled, asked and then forced to exit when *)
(* the time limit passes, the sources are stopped, and everything is       *)
(* unwound in the order Rust drops it, after a failure too. The writer     *)
(* thread ends when the last clone of the dispatcher is dropped.           *)
(*                                                                         *)
(* What the sources record is the subject of the other modules; here a     *)
(* source is its worker and the clone of the sink the worker holds.  The   *)
(* host exposes a process tree (Linux), waiting for a child succeeds, and  *)
(* a process's first thread does not exit before its others, which procfs  *)
(* would show as a zombie.                                                 *)
(***************************************************************************)
EXTENDS Naturals, Sequences, FiniteSets

CONSTANTS
  None,           \* no value
  Root,           \* the process at the root of the measured tree
  Others,         \* processes it may start, directly or not
  Reaper,         \* init, to which orphans are handed
  FailingStarts   \* sources whose start may return an error

Order   == <<"pmu", "precise", "telemetry", "procfs", "bpf", "allocations">>
Sources == {Order[i] : i \in DOMAIN Order}
Procs   == {Root} \cup Others

ASSUME SessionAssumption ==
  /\ Root \notin Others /\ Reaper \notin Procs
  /\ FailingStarts \subseteq Sources

\* The sources of the snapshot and of the TMA pass, in the order of Order.
Pass == [snapshot |-> Sources \ {"precise"}, tma |-> Sources \ {"procfs", "bpf"}]

VARIABLES
  scenario,   \* "snapshot" or "tma"
  attached,   \* --pid was given
  limited,    \* --duration was given
  ps,         \* the state of each process
  parent,     \* the parent of each process
  targets,    \* members of the tree the session is about to kill
  pc,         \* where the session is
  at,         \* the source it is at
  available,  \* the sources the pass resolved to
  worker,     \* each source's thread, or its bpftrace
  flag,       \* the sources whose stop flag is set
  exited,     \* Process::exited
  reason,     \* the stop reason, or the error
  sink,       \* the session itself holds the dispatcher
  writer,     \* the dispatcher's thread
  dir         \* the output directory

options == <<scenario, attached, limited>>
procs  == <<ps, parent, targets>>
tasks  == <<available, worker, flag>>
ends   == <<sink, writer, dir>>
vars   == <<options, procs, pc, at, tasks, exited, reason, ends>>

----------------------------------------------------------------------------
(* The processes of the target *)

Present == {p \in Procs : ps[p] \in {"gated", "live", "zombie"}}

\* process_tree: what can be reached from the root by parent links.
Tree == {p \in Present :
           /\ Root \in Present
           /\ \A S \in SUBSET Present :
                Root \in S /\ (\A q \in Present : parent[q] \in S => q \in S) => p \in S}

Living == {p \in Tree : ps[p] # "zombie"}

\* The processes and their parents once those in `dead` have died.  The root of
\* a launched target stays a zombie until the session collects it, every other
\* zombie is collected by its parent or by init.
Dead(dead) ==
  /\ ps' = [p \in Procs |->
              IF p \in dead
                THEN IF p = Root \/ parent[p] \in Procs \ dead THEN "zombie" ELSE "gone"
                ELSE IF ps[p] = "zombie" /\ parent[p] \in dead THEN "gone" ELSE ps[p]]
  /\ parent' = [p \in Procs |-> IF parent[p] \in dead THEN Reaper ELSE parent[p]]

Fork(p, q) ==
  /\ ps[p] = "live" /\ ps[q] = "none"
  /\ ps' = [ps EXCEPT ![q] = "live"]
  /\ parent' = [parent EXCEPT ![q] = p]
  /\ UNCHANGED <<options, targets, pc, at, tasks, exited, reason, ends>>

ProcExit(p) ==
  /\ ps[p] = "live"
  /\ Dead({p})
  /\ UNCHANGED <<options, targets, pc, at, tasks, exited, reason, ends>>

Collect(p) ==
  /\ ps[p] = "zombie"
  /\ p # Root \/ attached
  /\ ps' = [ps EXCEPT ![p] = "gone"]
  /\ UNCHANGED <<options, parent, targets, pc, at, tasks, exited, reason, ends>>

----------------------------------------------------------------------------
(* Threads that hold the sink *)

Holders == {s \in Sources \ {"bpf"} : worker[s] = "running"}

\* A worker that sees its flag leaves its loop, and bpftrace ends on SIGINT.
WorkerEnds(s) ==
  /\ worker[s] = "running"
  /\ s \in flag
  /\ worker' = [worker EXCEPT ![s] = "ended"]
  /\ UNCHANGED <<options, procs, pc, at, available, flag, exited, reason, ends>>

\* The telemetry thread also ends when the host has no sensor or one fails.
TelemetryEnds ==
  /\ worker["telemetry"] = "running"
  /\ worker' = [worker EXCEPT !["telemetry"] = "ended"]
  /\ UNCHANGED <<options, procs, pc, at, available, flag, exited, reason, ends>>

\* The dispatcher's receiver is disconnected: the worker flushes and ends.
WriterEnds ==
  /\ writer = "running"
  /\ ~sink
  /\ Holders = {}
  /\ writer' = "ended"
  /\ UNCHANGED <<options, procs, pc, at, tasks, exited, reason, sink, dir>>

----------------------------------------------------------------------------
(* Starting *)

Goto(there) == pc' = there /\ at' = 1

Always == {"pmu", "telemetry"}   \* sources that always probe as available

\* Pass::resolve.
Resolve ==
  /\ pc = "resolve"
  /\ \E found \in SUBSET (Pass[scenario] \ Always) : available' = Always \cup found
  /\ Goto(IF attached THEN "start" ELSE "spawn")
  /\ UNCHANGED <<options, procs, worker, flag, exited, reason, ends>>

Fail == reason' = "error" /\ Goto("reap")

\* Process::new: the child waits at the read end of a pipe.
Spawn ==
  /\ pc = "spawn"
  /\ \/ /\ ps' = [ps EXCEPT ![Root] = "gated"]
        /\ Goto("start")
        /\ UNCHANGED reason
     \/ /\ Fail
        /\ UNCHANGED ps
  /\ UNCHANGED <<options, parent, targets, tasks, exited, ends>>

Current == Order[at]

Runs(s) ==
  /\ s \in available
  /\ s = "allocations" => ~attached

\* Source::start of the next source.  bpftrace that does not come up only
\* degrades the source.
StartSource ==
  /\ pc = "start"
  /\ at <= Len(Order)
  /\ at' = at + 1
  /\ \/ /\ Runs(Current)
        /\ worker' = [worker EXCEPT ![Current] = "running"]
     \/ /\ ~Runs(Current) \/ Current = "bpf"
        /\ UNCHANGED worker
  /\ UNCHANGED <<options, procs, pc, available, flag, exited, reason, ends>>

StartFails ==
  /\ pc = "start"
  /\ at <= Len(Order)
  /\ Runs(Current) /\ Current \in FailingStarts
  /\ Fail
  /\ UNCHANGED <<options, procs, tasks, exited, ends>>

\* wait_for_target begins, or topdown lets the program run: Process::cont, and
\* execve in the child.
Release ==
  /\ pc = "start" /\ at > Len(Order)
  /\ ps' = IF attached THEN ps ELSE [ps EXCEPT ![Root] = "live"]
  /\ Goto(IF scenario = "tma" THEN "wait" ELSE "poll")
  /\ UNCHANGED <<options, parent, targets, tasks, exited, reason, ends>>

\* topdown finds that the driver opened fewer counters than TMA needs.
CountersMissing ==
  /\ pc = "start" /\ at > Len(Order)
  /\ scenario = "tma"
  /\ reason' = "error"
  /\ Goto("stop")
  /\ UNCHANGED <<options, procs, tasks, exited, ends>>

----------------------------------------------------------------------------
(* wait_for_target and terminate *)

\* The tree has nobody left but zombies.  A root that is a zombie has no children,
\* init has them, so the loop never goes on for descendants that outlive it.
\* A launched root is waited for.
PollExit ==
  /\ pc = "poll"
  /\ Living = {}
  /\ exited' = ~attached
  /\ reason' = "tree_exit"
  /\ Goto("stop")
  /\ UNCHANGED <<options, procs, tasks, ends>>

\* The limit passed; an attached target is left alone.
PollLimit ==
  /\ pc = "poll"
  /\ limited
  /\ Living # {}
  /\ reason' = "duration"
  /\ Goto(IF attached THEN "stop" ELSE "term")
  /\ UNCHANGED <<options, procs, tasks, exited, ends>>

\* SIGTERM to every member of the tree, which may exit now as at any time, or
\* ignore it.
Terminate ==
  /\ pc = "term"
  /\ Goto("grace")
  /\ UNCHANGED <<options, procs, tasks, exited, reason, ends>>

\* Within the grace period the root was seen to be gone: nobody is insisted on.
GraceOver ==
  /\ pc = "grace"
  /\ Root \notin Living
  /\ Goto("wait")
  /\ UNCHANGED <<options, procs, tasks, exited, reason, ends>>

\* Mutant of Insist: the deadline passes and nobody is killed.
InsistNot == pc' = "wait" /\ at' = 1

\* The deadline passed: SIGKILL.
Insist == Goto("kill")

GraceExpired ==
  /\ pc = "grace"
  /\ targets' = Living
  /\ Insist
  /\ UNCHANGED <<options, ps, parent, tasks, exited, reason, ends>>

\* The members of the snapshot are killed one by one; some have exited by then.
SendKill(p) ==
  /\ pc = "kill" /\ p \in targets
  /\ targets' = targets \ {p}
  /\ IF ps[p] = "live" THEN Dead({p}) ELSE UNCHANGED <<ps, parent>>
  /\ UNCHANGED <<options, pc, at, tasks, exited, reason, ends>>

Killed ==
  /\ pc = "kill" /\ targets = {}
  /\ Goto("wait")
  /\ UNCHANGED <<options, procs, tasks, exited, reason, ends>>

\* Mutant of RootEnded: terminate is trusted to have ended the root.
RootEndedTrusted == TRUE

\* Process::wait returns once the root is a zombie.
RootEnded == ps[Root] = "zombie"

WaitRoot ==
  /\ pc = "wait"
  /\ RootEnded
  /\ exited' = TRUE
  /\ Goto("stop")
  /\ UNCHANGED <<options, procs, tasks, reason, ends>>

----------------------------------------------------------------------------
(* Stopping, and unwinding in the order of Rust's drops *)

\* Source::stop of the next source asks it to end ...
AskStop ==
  /\ pc = "stop"
  /\ at <= Len(Order) /\ Current \notin flag
  /\ flag' = flag \cup {Current}
  /\ UNCHANGED <<options, procs, pc, at, available, worker, exited, reason, ends>>

\* ... and joins it.
Joined ==
  /\ pc = "stop"
  /\ at <= Len(Order) /\ Current \in flag
  /\ worker[Current] # "running"
  /\ at' = at + 1
  /\ UNCHANGED <<options, procs, pc, tasks, exited, reason, ends>>

Stopped ==
  /\ pc = "stop" /\ at > Len(Order)
  /\ Goto("reap")
  /\ UNCHANGED <<options, procs, tasks, exited, reason, ends>>

\* Mutant of Reaped: only a child that was waited for is collected.
ReapedIfExited == IF exited THEN "gone" ELSE ps[Root]

Reaped == IF attached \/ ps[Root] = "none" THEN ps[Root] ELSE "gone"

\* Drop of Process: a child that was not seen to exit is killed, then reaped.
Reap ==
  /\ pc = "reap"
  /\ ps' = [p \in Procs |->
              IF p = Root THEN Reaped
              ELSE IF ps[p] = "zombie" /\ parent[p] = Root /\ Reaped = "gone" THEN "gone"
              ELSE ps[p]]
  /\ parent' = [p \in Procs |-> IF parent[p] = Root /\ Reaped = "gone" THEN Reaper
                                ELSE parent[p]]
  /\ Goto("drop")
  /\ UNCHANGED <<options, targets, tasks, exited, reason, ends>>

\* Sources whose drop sets the flag and joins the worker.
JoinedOnDrop == {"pmu", "precise", "allocations"}

AskDrop ==
  /\ pc = "drop"
  /\ at <= Len(Order)
  /\ Current \in JoinedOnDrop /\ Current \notin flag
  /\ flag' = flag \cup {Current}
  /\ UNCHANGED <<options, procs, pc, at, available, worker, exited, reason, ends>>

DropSource ==
  /\ pc = "drop"
  /\ at <= Len(Order)
  /\ Current \in JoinedOnDrop => Current \in flag /\ worker[Current] # "running"
  /\ at' = at + 1
  /\ UNCHANGED <<options, procs, pc, tasks, exited, reason, ends>>

\* snapshot has returned, and do_record drops its own dispatcher.
DropDispatcher ==
  /\ pc = "drop" /\ at > Len(Order)
  /\ sink' = FALSE
  /\ Goto("join")
  /\ UNCHANGED <<options, procs, tasks, exited, reason, writer, dir>>

MayConclude == writer = "ended"

\* join_handle.join, then the recording's result: info.json, or an error after
\* which the caller removes the directory.
Conclude ==
  /\ pc = "join"
  /\ MayConclude
  /\ \/ reason # "error" /\ dir' = "info"
     \/ dir' = "removed"
  /\ Goto("done")
  /\ UNCHANGED <<options, procs, tasks, exited, reason, sink, writer>>

----------------------------------------------------------------------------
Init ==
  /\ \/ scenario = "snapshot" /\ attached \in BOOLEAN /\ limited \in BOOLEAN
     \/ scenario = "tma" /\ attached = FALSE /\ limited = FALSE
  /\ ps = [p \in Procs |-> IF attached /\ p = Root THEN "live" ELSE "none"]
  /\ parent = [p \in Procs |-> Reaper]
  /\ targets = {}
  /\ pc = "resolve" /\ at = 1
  /\ available = {}
  /\ worker = [s \in Sources |-> "none"]
  /\ flag = {}
  /\ exited = FALSE
  /\ reason = None
  /\ sink = TRUE /\ writer = "running" /\ dir = "open"

Target ==
  \/ \E p \in Procs, q \in Others : Fork(p, q)
  \/ \E p \in Procs : ProcExit(p) \/ Collect(p)

Session ==
  \/ Resolve \/ Spawn \/ StartSource \/ StartFails \/ Release \/ CountersMissing
  \/ PollExit \/ PollLimit
  \/ Terminate \/ GraceOver \/ GraceExpired
  \/ (\E p \in Procs : SendKill(p)) \/ Killed \/ WaitRoot
  \/ AskStop \/ Joined \/ Stopped
  \/ Reap \/ AskDrop \/ DropSource \/ DropDispatcher \/ Conclude

Threads == (\E s \in Sources : WorkerEnds(s)) \/ TelemetryEnds \/ WriterEnds

\* The recording is over.
Over == pc = "done" /\ UNCHANGED vars

Next == Target \/ Session \/ Threads \/ Over

Spec == Init /\ [][Next]_vars

\* The session and the threads run; the target owes nothing, but the limit, when
\* there is one, passes.
Fairness ==
  /\ WF_vars(Session)
  /\ WF_vars(PollLimit)
  /\ \A s \in Sources : WF_vars(WorkerEnds(s))
  /\ WF_vars(WriterEnds)

FairSpec == Spec /\ Fairness

----------------------------------------------------------------------------
(* Properties *)

\* As long as the root of a launched target runs, the sampling driver, the
\* resource poller and the allocation worker run: nothing of it goes unmeasured,
\* at its start or when the time limit cuts it short.
RootIsMeasured ==
  ~attached /\ ps[Root] = "live" =>
    \A s \in {"pmu", "procfs", "allocations"} \cap available : worker[s] = "running"

\* When the recording is over the process it launched is neither running nor
\* suspended at its gate nor a zombie, on every path, failed starts included.
RootIsCollected ==
  pc = "done" /\ ~attached => ps[Root] \in {"none", "gone"}

\* A recording with a time limit ends, whatever the target does, and so does one
\* that failed, with one exception: the telemetry source joins its worker in stop
\* only, so a start that fails after it (the procfs thread cannot be created)
\* leaves the worker holding the sink, and do_record waits for the writer.
RecordReturns ==
  limited \/ reason = "error"
    ~> pc = "done" \/ (/\ reason = "error" /\ pc = "join"
                       /\ worker["telemetry"] = "running"
                       /\ worker["procfs"] = "none" /\ "procfs" \in available)
============================================================================
