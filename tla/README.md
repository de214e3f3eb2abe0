# Verification of miniperf

TLA+ models of the core of miniperf, their TLC configurations and TLAPS proofs. Paths below are relative to the repository.

miniperf (`mperf`) records a target program. The **profiler** process launches the target, runs a set of *sources* (PMU sampling, procfs, telemetry, allocations, ...), and writes what they produce into Parquet segments that are post-processed afterwards. Inside the **target**, shims and instrumentation call the *collector*, a library with its own buffers, writer thread and segment files. The two processes talk through shared-memory channels: allocation packets and statistics go to the profiler, control commands go to the target.

## Inventory

| Part | State | Operations | Talks to |
|---|---|---|---|
| Shared-memory channel, `shmem/src/proc_channel.rs` | ring bytes, `head`, `tail`, `dropped`, a semaphore, a finish semaphore | `send_sync`, `close`, `try_recv`, `recv_sync`, `recv` | sender and receiver are different processes |
| Collector, `collector-core/src/session.rs`, `buffer.rs` | `accepting`, `paused`, `producers`, thread slots with a buffer each, buffer pool and queue, allocation counters | `record`, `record_allocation`, `thread_slot`, `flush_slots`, `writer_loop`, `finish` | application threads, its writer thread, the channels |
| Process-wide collector, `session.rs` | `COLLECTOR`, `CLOSED`, `FORKED`, the thread-locals `CACHED_COLLECTOR` and `SLOT` | `collector`, `initialize_collector`, `shutdown`, `atfork_child` | all threads, fork |
| Control plane, `collector-core/src/control.rs` | two channels | `poll_command`, `publish` | writer thread, profiler |
| Allocation source, `libprof/src/source/allocations.rs` | expected packet, missing packets, totals, stop flag | worker loop, `stop` | channel, record session |
| libc shim, `shims/libc/src/lib.rs` | the allocator's real state, the reentrancy guard | `malloc`, `free`, `realloc`, ... | the collector |
| Allocation replay, `mperf/src/postprocess/allocations.rs` | live generations, lifetimes, conflicts | ordered fold over the operations | session store |
| Record session, `mperf/src/record.rs`, `source.rs`, `libprof/src/process.rs` | sources and their workers, the gated child, the target's process tree, the dispatcher's clones | resolve, start, `wait_for_target`, `terminate`, stop, drop, join | sources, dispatcher, target |
| Perf driver, `libprof/src/driver/perf*` | perf descriptors, mmap rings, counter baselines, `running`, `lost_samples` | start, worker pass, stop, drop | the kernel, the sink |
| Dispatcher and segment writers, `mperf/src/event_dispatcher.rs`, `store/writer/src` | bounded queue, row batches, open segment and sequence number per table | record, flush, roll, finish, recover | sources, the file system |
| Periodic sources, `libprof/src/source` | worker, stop flag, sink | start, sample, stop | procfs, BPF, sink |
| Roofline engines, `utils/roofline-core`, `mperf/src/roofline/loops.rs` | simulated cache, observed control flow, order-statistic tree, dominators | `access`, `rc_process_batch`, `analyze`, `rc_finalize` | QEMU and DynamoRIO plugins, the artifacts |
| Graphical shell, `mperf-gui/src/shell` | recording, filter, tabs, caches of derived datasets | open, filter, select and close tabs, `ensure_derived`, `install` | background executor |

`PROJECT.json` lists these and the remaining parts (platform tables, other shims, instruction decoding, queries, presentation) with their sources and why they are or are not modelled.

What is hard, and what makes the parts correct:

- **Channel.** Positions wrap, records straddle the end of the ring, a sender may be killed between any two stores, and a record may be consumed before its token is posted. *Correct:* the receiver gets an unbroken prefix of what was sent, ends only at the end, and misses no wakeup.
- **Collector.** Producers, the writer's periodic walk over the slots, thread exits and shutdown interleave; the pool is bounded. *Correct:* no record is lost, repeated or reordered once appended, drops are counted once and reported, no buffer leaks or overflows, shutdown drains everything and returns.
- **Fork.** A child inherits memory but one thread. *Correct:* records always go to a collector whose writer exists, and there is one collector per process.
- **Allocation capture.** Packets are refused when the channel is full, collection pauses, the target is killed. *Correct:* a capture judged complete really is, and loss is not mistaken for corruption.
- **Sampling.** The kernel writes a ring while the worker reads it and the owner starts, stops and drops the driver; counters are cumulative, records are lost. *Correct:* what is handed on is what was written, losses are counted once, deltas add up, nothing is read after unmapping, and success means that sampling happened.
- **Dispatcher and segments.** A bounded queue, batches per table, file operations that fail, a profiler that is killed. *Correct:* rows are in order and not repeated, a failed write is not reported as success, a crash costs a bounded tail, and closed segments stay as they are.
- **Record session.** Starting, a time limit, a tree of processes that forks and exits meanwhile, errors at every step. *Correct:* the root is measured as long as it runs, it is collected, and the recording returns.
- **Roofline.** Shortcuts: remembered cache hits, run-length batches, a randomized tree, a fixed point in address order. *Correct:* each computes what its definition says.
- **Shell.** Results arrive after what they were computed for has changed. *Correct:* what is shown as current is current, and computing ends.
- **Replay.** Calls of several threads overlap, addresses are reused at once, timestamps tie. *Correct:* the replay finds exactly the generations that existed.

## Modules

| Module | Models |
|---|---|
| `ProcChannel` | `proc_channel.rs`: the ring, word by word, between one sender and one receiver |
| `LossyFifo` | what the channel promises: a bounded first-in first-out queue that refuses a message exactly when it does not fit |
| `MCProcChannel` | instance of `ProcChannel`; the mapping to `LossyFifo` |
| `Collector` | `session.rs` and `buffer.rs` from `record` to the packets and segment flushes of the writer, and `finish` |
| `MCCollector` | instance of `Collector` |
| `CollectorProofs` | theorems about `Collector` and `AllocationCapture` |
| `Sums`, `SumProofs` | sums over sequences and finite sets, and what they obey |
| `AllocationSource` | the profiler's worker on the allocation channel and its verdict |
| `AllocationCapture`, `MCAllocationCapture` | `Collector` and `AllocationSource` composed over the channel, with a target that may be killed |
| `AllocationReplay` | boundaries recorded by the libc shim, and the replay that turns them into lifetimes |
| `ForkSession` | `collector()`, initialization, shutdown, fork and threads started at any time |
| `MCRuntime` | instances of `ProcChannel` and `ForkSession`, side by side |
| `PerfSampling` | `PerfSamplingDriver` with the kernel's rings and the target |
| `SegmentStore` | `EventDispatcher`, its writer thread, `SegmentWriter`, `recover_session` |
| `MCPipeline` | `PerfSampling` and `SegmentStore` composed; the properties that span both |
| `RecordSession` | `do_record`, `snapshot`, `topdown`, `wait_for_target`, `terminate`, `Process`, start and stop of the sources |
| `MCSession` | instances of `RecordSession` and, with several groups, of `PerfSampling`, side by side |
| `ShellView`, `MCShellView` | the state of the graphical shell and its background computations |
| `CacheModel`, `LruCache` | the simulated cache with its remembered hits, and the least-recently-used cache it promises to be, with the mapping between them |
| `AnalysisProofs` | theorems about `CacheModel` (its refinement of `LruCache` included), `DynamicCfg` and `AllocationReplay` |
| `ProcChannelProofs`, `RecordSessionProofs`, `ForkSessionProofs`, `ShellViewProofs` | theorems about `ProcChannel` (its refinement of `LossyFifo` included), `RecordSession`, `ForkSession`, `ShellView` |
| `PipelineProofs` | theorems about the sampling driver and the store within `MCPipeline` |
| `DynamicCfg` | `rc_process_batch` and the control-flow graph it fills |
| `LoopNest` | dominators, natural loops, nesting, irreducible cycles |
| `ReuseDistance` | reuse distances, working-set windows, strides and footprints |
| `MCAnalysis` | instances of `CacheModel`, `DynamicCfg`, `LoopNest`, `ReuseDistance` and `AllocationReplay`, side by side |

`MCRuntime`, `MCSession` and `MCAnalysis` put parts that share no state into one run: a variable `subject` chooses at the start which of them moves, and the others stay in one initial state, so the reachable states are the union of those of the parts.

`LossyFifo` is what links the levels: `ProcChannel` is shown to implement it, and `Collector` and `AllocationSource` use a queue of that kind (`chan`, `chanDropped`), with the ring's capacity counted in packets.

### ProcChannel

The ring holds words. A record is a length word followed by the payload words; every word carries the identity of its message and its place in it, so a torn or stale read is visible. Positions live in `0 .. Wraps * Size - 1`, which stands for the wrap of `usize`: the counters' range is a multiple of the ring size, as `2^64` is of the power of two that `Inner::new` demands. `send_sync` is `SendRoom`, then either `SendDrop` or one `SendWord` per word, `SendPublish` (the release store of `tail`) and `SendPost`. `close` is `CloseFinish` and `CloseWake`; `Sender::drop` does the same again. `Crash` kills the sender between any two steps. `mode` selects how the consumer receives: `try_recv`, `poll_command` (which looks at `empty` and then calls `recv_sync`), `recv_sync` or the asynchronous `recv`. `WaitInterrupted` is `EINTR`. `read_one` is `ReadTail`, `ReadHeader` (with its rejection of lengths that overrun), `ReadWord` and `ReadCommit`. The history variables are `written` and `taken`, the words published and handed over, `begins`, the positions in `written` where the records begin, and `received`, the headers of the records handed over.

In the mapping to `LossyFifo` a message is its header word. `InFlight`, the queue, is the headers at the positions in `begins` that come after as many as were received; `used` is the difference of the two word histories; the refusal of `send_sync` counts from its decision, the `fetch_add` being the next step of the same call.

### Collector

One buffer unit is one record. Each access to an atomic or a mutex is a step. A call runs `Begin` (the cached collector is handed out), `Enter` (the `ProducerGuard`), the check of `accepting` (and of `paused`; `record_allocation` numbers the operation before it looks at `paused`), `ThreadSlot`, `LockSlot`, `SubmitFull` and `Acquire` when there is no room, and the append with its optional Loss row. After the thread-local slot is destroyed the call falls back to `late_slot`. The writer takes filled buffers, parses them, sends allocation records in chunks, flushes rows, and on the timeout of `next_full` walks all slots; after each buffer or tick it obeys the commands it finds. `finish` clears `accepting`, spins on `producers`, walks the slots, closes the queue and joins. Holding a slot's mutex is a fact about its thread's place (`Busy`); `walker` is the holder of the mutex over the list of slots.

Abstracted: record contents, interning, registries, the bytes of a buffer (a record is one unit and an event asks for two, which keeps the relation between the reservation for a Loss row and the capacity), and the Parquet writer (`unflushed` counts rows not yet handed to it).

### AllocationSource and AllocationCapture

The worker's inner loop is `Receive` and `ChannelEmpty`, `CheckStop` is its look at the flag, `End` the final computation, and `Complete` the verdict of `stop`. In the composition the target's steps are `Collector!Next` while it is alive, and the profiler stops the source only once the target is gone, as `wait_for_target` does. Packets always decode, and come from the root process.

### AllocationReplay

`malloc` records its boundary after the real call, `free` before it, `realloc` both before and after; sequence and timestamp are taken in two steps. The allocator may return any free address, a `realloc` may move, stay in place, fail, or (size 0) free. `Replay` takes the boundaries one by one in the order `timestamp, sequence`; the place of a boundary in `Sorted` is the number of boundaries before it.

### ForkSession

The statics and the thread-locals of `session.rs`. A fork step continues with the child: only the forking thread remains and every earlier collector has lost its writer. Any process may start threads at any time, a fork child included. The history variable `early` says that this process started one while `FORKED` was set; `RecordsDrained` and `OneCollector` speak of all other processes, `Reinitialized` of all. The session has no allocation channel.

### PerfSampling, SegmentStore and MCPipeline

A ring slot holds one record: a sample with its thread's cumulative counter, a module map, or the kernel's count of dropped records, which it writes in front of the next record that fits (`Produce`). The worker's pass is `RingEmpty` (also the move to the next ring), `CopyRecord`, `UpdateTail` (data_tail is published before the record is parsed), one of `EmitSample`, `EmitAddress` and `CountLost`, and `CheckRunning` after the pass over all rings. The owner's side is `StartEnable` per leader, `StartWorker`, `StopDisable` per leader with errors, `StopFlag`, `StopJoin` with its verdict, and `DropFlag` and `DropUnmap`, which may follow at any point. A target is a suspended child (its groups start with its exec), a running process (its groups start if it happens to exec), or the profiler itself. Each group belongs to the PMU of one kind of CPU: `timed` says that the target has come to such a CPU while the group was enabled, so that its enabled time is not zero (`Reach`), and `fits` whether that PMU has room to run it. `GroupsScheduled` is what `groups_scheduled` may say: that some group ran, that groups accrued enabled time and none ran, that none accrued any, or nothing because a leader's times could not be read. Which it was is kept in `judged`, since the code's `None` stands for the last two. History variables hold what the kernel wrote, what was handled, and what was counted and credited.

In the store, three tables stand for the ways the writer treats one: written in batches with errors printed (samples), written in batches with errors remembered (allocations), and kept until finish (modules). `WriteOk`, `CloseOk` and `RollOk` have failing counterparts bounded by `MaxFaults`; a failing close leaves the file without a footer and the sequence number where it was, so that the next write starts the same file again. `FinishStep` runs through the steps of `Worker::finish`. `Kill` loses everything in memory; `Quarantine` is one rename of `recover_session`, which may be interrupted and run again.

The composition hands a sample over with a send that waits (`EmitSample /\ Send`), and a module map with one that does not (`EmitAddress /\ TrySend`), so a slow writer is felt back to the kernel's ring. The dispatcher is released after the driver is dropped.

### RecordSession

Processes are `none`, `gated`, `live`, `zombie` or `gone`, with parents; `Tree` is `process_tree`. Orphans go to init (mperf is no subreaper), so a tree whose root is a zombie has no other member. The session goes through `Resolve`, `Spawn`, one `StartSource` or `StartFails` per source in the order of the pass, `Release`, the polling loop (`PollExit`, `PollLimit`), `Terminate`, the grace period, `SendKill` per member of the snapshot, `WaitRoot`, stopping (`AskStop`, `Joined`), and the drops in Rust's order: the process (`Reap`), the sources (only some of which join their worker in drop), the dispatcher. `Conclude` is the join of the writer, which ends when nobody holds the sink, and the result. Waiting for a child does not fail, and the first thread of a process does not exit before the others.

### ShellView

A job on the executor is a load of a recording or a build of a dataset for a key; a dataset is described by what it was built from. `Ensure` is `ensure_derived` and is part of every action that ends in it (`Refresh`, `SelectTab`, `SetStyle`, `Install`); closing and opening source tabs do not call it, as in the code. Four datasets stand for all: one always needed and keyed by the generation (`analysis`), one keyed with the style (`flame`), one keyed by the filter alone (`cpu_lanes`), and one that may come out empty (`balance`).

### The Roofline modules

`CacheModel` translates `access` line by line: a remembered hit, a hit in the set, or a miss with its victim, each a disjunct of `AccessLine`. `LruCache` has, per set, the lines in order of use, and nothing else; `recency` is recovered from `last_used` (`LatestFirst`: the k-th line is the one that k - 1 are later than). `DynamicCfg` processes one record per step with the run and the pending accesses as part of the state of the batch; an access hits the cache or makes it fetch and perhaps write back a line, and an unknown handle ends the run; `trace` is what each thread really executed, and `AccountingExact` recomputes edges, executions and sums from it. `LoopNest` takes one sweep of the dominator fixed point per step and then analyzes; `LoopsFound` compares with cycles and doors defined over sets of blocks. A cycle is any set of blocks each of which leads to every other within it, so nested ones count too. `ReuseDistance` represents the tree of `memory.rs` by nested records with arbitrary priorities, and compares with distances counted over the list of references. `Tracked` is the part of a line that `LineFootprint` has bits for, 256 bytes: beyond it a footprint is short.

## Runs

| Run | Question | Result |
|---|---|---|
| `runtime` | Channel: is what is received an exact prefix, cut at a record, however the counters wrap and wherever the sender dies? Is the end reported only at the end? Is it a `LossyFifo`? Is every published record received? Fork: one collector per process, none after the end, records drained, in every process but a child that starts a thread while `FORKED` is set | `StreamIntact`, `EndOfStream`, `ImplementsFifo`, `Delivered`, `RecordsDrained`, `OneCollector` hold |
| `collector` | Two threads, one buffer: do buffers stay within capacity, are they all accounted for and drained, is every drop counted once, and what is left of the counts at the end? | `TypeOK`, `WithinCapacity`, `BuffersAccounted`, `DrainedAtClose`, `DropsCounted` hold |
| `collector_live` | Does shutdown always return? Do the records of an idle or exited thread reach the writer without one? Is every record in one place, in order? | `ShutdownCompletes`, `EventuallyParsed`, `Conserved` hold |
| `allocation_capture` | Is a complete verdict right, with pauses, refused packets, a refused footer and a killed target? | `CompleteIsExact`, `FooterBalances`, `LossIsNotCorruption` hold |
| `pipeline` | Does what the kernel wrote arrive in the segments, once, in order, with every loss accounted for, through failing files, kills and recovery? | nine properties hold |
| `session` | Is the root measured while it runs, collected afterwards, and does the recording return? Does a driver's success mean that it could sample, and its error that no group ran that it did not? | `RootIsMeasured`, `RootIsCollected`, `RecordReturns`, `OkMeansSampled` hold |
| `shell` | Is what counts as current right, does the active tab exist, does computing end? | `CurrentIsRight`, `ActiveTabExists`, `AnalysisSettles` hold |
| `analysis` | Do cache, accounting, loops and reuse distances compute what they should? Does the replay of allocations reconstruct the true generations? | `RecentHitsAreCurrent`, `ImplementsLru`, `AccountingExact`, `LoopsFound`, `MemoryExact`, `ReplayExact`, `UncertainOnlyAtShutdown` hold |
| `attach` | Does success mean that an attached process was sampled? | `AttachedIsSampled` violated, see Findings |
| `shell_late` | Are the CPU lanes those of the recording shown? | `LanesAreRight` violated, see Findings |
| `losses` | Is every dropped event in a Loss row when shutdown has returned? | `LossesSurface` violated, see Findings |
| `fork_children` | Does every record of a fork child go to a collector of that child? | `Reinitialized` violated, see Findings |

`CHECK_DEADLOCK FALSE` is in every configuration but that of `session`, because each of these systems has a legitimate end: the steps allowed by the bounds were made and the session is over or the sender gone. `RecordSession` and the driver in `MCSession` have explicit ends (`Over`, `Dropped`) and are checked for deadlock.

**Bounds.** Each is named in its module.

- `ProcChannel`: a ring of 4 words whose positions wrap after 8 (`Wraps = 2`), up to 4 messages of lengths 0, 1, 3 (a record that fills the ring) and 4 (one that never fits). Records of 1, 2 and 4 words reach every alignment, and the positions wrap within the run.
- `Collector`: 2 threads, 3 calls (events and allocations mixed), 1 buffer of 2 records. With one buffer exhaustion is the common case; after one event an allocation still fits and a second event, which reserves room for a Loss row, makes the slot submit; a Loss row and an event fill the buffer; a thread may exit in between and call again through `late_slot`. Rows are flushed at 2. Threads are symmetric in the safety runs; symmetry is not used with liveness. `collector_live` has 2 buffers, so that a slot's next buffer queues behind its last one and the order of the queue matters, and 2 events, each of which fills the part of a buffer that an event may take.
- `AllocationCapture`: 2 threads, 2 allocations, packets of 1 record, a channel of 1 packet, 2 commands: packets and the footer itself are refused, and pauses fall before, between and after the operations.
- `AllocationReplay`: 2 threads, 2 addresses, 3 calls (up to 6 boundaries), a clock that ticks once, so that ties are frequent and an address is reused while another call is under way. Threads are symmetric.
- `MCPipeline`: one ring of 2 records and one thread identifier that may be reused once, 4 records per ring with one module map, a queue of 1 message, batches and segments of 2 rows, one failing file operation. The ring overflows, wraps and carries a report of lost records; the queue blocks samples and refuses maps; segments roll twice; the fault falls on any create, write or close. Rings do not interact in what they carry, so one is enough here; how stop judges several groups is checked in `session`.
- `RecordSession`: the root and 2 other processes, which is enough for a grandchild and for an orphan; every source may be absent and each of four starts may fail.
- `PerfSampling` in `MCSession`: 2 groups and 2 threads, a ring of 2 records, 3 records of the first group and one of the second, all three targets, ioctls and reads that may fail. Each group may be reached or not and fit or not, so that one runs beside one that never does; the first ring overflows.
- `ShellView`: the constants of `ShellView.cfg`: 2 recordings of different views, filter generations and jobs bounded so that an abandoned computation, its replacement and a change of the recording are under way together.
- `MCAnalysis`: 2 sets of 2 ways, 2 remembered hits, 4 line addresses of which 3 share a set, 5 accesses; 3 blocks (a self loop, a caller, a returner) of 2 threads, 5 executions and 2 accesses, which are merged, or flushed by a change of block; all graphs of 4 blocks with up to two successors and one or two entries; 4 lines of 3 bytes, 2 of them tracked, 5 references, windows of 2 references, priorities in either order.
- `ForkSession`: 2 threads, 2 forks, 5 calls: a fork of a fork, with calls before, between and after, and a thread started anywhere. `fork_children` needs one fork only.

**Fairness.** In `ProcChannel`, weak fairness of a sender inside a call (it finishes unless killed) and of the receiver, and strong fairness of `Wait`: signals do not interrupt every wait that could have succeeded. In `Collector`, weak fairness of every thread inside a call, of the writer and of `finish`, which is what an operating system's scheduler gives to runnable threads; strong fairness of taking the mutex over the slots, because the writer takes it again every 20 ms and weak fairness would allow the others to find it taken each time. Nothing obliges the application to call, to exit or to shut down. In `RecordSession`, weak fairness of the session, of workers whose flag is set and of the writer thread, and of the passing of the time limit; the target owes nothing, not even an exit after SIGTERM. In `ShellView`, weak fairness of the executor's tasks; the user owes nothing.

## Proofs

`CollectorProofs` proves, for every finite set of threads, pool size, buffer capacity of at least two records, and any number of calls and commands:

- `TypeCorrect`: `Spec => []TypeOK`;
- `Drained`: `Spec => []DrainedAtClose`: when the writer has seen the queue closed, no producer is inside a call, no slot has a buffer and nothing is queued;
- `Capacity`: `Spec => []WithinCapacity`;
- `Accounted`: `Spec => []BuffersAccounted`;
- `RecordsConserved`: `Spec => []Conserved`: the records of a slot are each in one place between the slot and the writer, and in order;
- `FooterTotals`: `Spec => []FooterBalances`: the totals that the footer carries add up;
- `DropsAccounted`: `Spec => []DropsCounted`: every dropped event is counted once, in a Loss row or in its slot, and at the writer's end the drops are those in the Loss rows it got and those the slots still hold; the latter surface nowhere (finding 3).

The assumptions are the named ones of `Collector`: the threads are a finite set without `late_slot`, `Pool` is a natural number, `BufCap >= 2` (a 256 KiB buffer holds far more than the two records an event reserves), the packet size is positive.

`DrainedAtClose` is not inductive. The argument goes through `IInv`:

1. `ProducersCounted`: `producers` is the number of threads holding a guard, so `finish` reading 0 means that nobody holds one.
2. `Stopped` and `NobodyInside`: `accepting` is cleared before `finish` spins, so a thread that enters afterwards sees it cleared. This is where the order *enter, then read* on one side and *store, then read* on the other matters. From then on nobody is between its check and the end of its append.
3. `SlotsKnown`: only registered slots hold buffers, `late_slot` included, so a walk over `slots` meets them all.
4. `Walked`: the walk of `finish` leaves no buffer behind it, since nobody is left who could put one there.
5. `QueueClosed`, `InHand`: the queue is closed after the walk, and the writer ends only with an empty queue and nothing in hand.

`BInv` adds what the buffers need: two threads never hold the same slot (`SlotMutex`), a slot at `acquire` has no buffer (`Emptied`), and the buffer of a thread at `append` has the room the call asked for, the Loss row included (`RoomMade`). Capacity and accounting follow; the cardinality of the slots holding a buffer changes by one with `SubmitSlot` and `Acquire`, which two lemmas state.

`CInv` adds the records. For each slot, the places of its trail (what was parsed, the buffer in the writer's hand, the queue, the slot's buffer) hold the slot's numbers in ascending order (`InPlace`), a place ahead of another only smaller ones (`InTurn`), and together exactly the numbers appended (`AllThere`). `SlotData`, that a slot's buffer has no record of another slot, is what lets a submit of one slot leave the trails of all others alone. Each action moves one record or one buffer by one place; the lemmas on `Ordered` and `Before` say what `Append`, `Tail` and moving a buffer do to them.

`FInv` adds the allocations. `Balanced` counts them at every moment: those numbered are the ones in a record somewhere on a trail (`Recorded`, a finite set), in the hands of a thread that has numbered and neither appended nor dropped its own (`Carrying`), dropped, or skipped while paused. `FooterBalances` is this with nobody carrying and all trails parsed, which `DrainedAtClose` gives; without the two intermediate terms it is not inductive, and before the end it is false.

The first conjunct of `DropsCounted`, `DropsKept`, is inductive on top of `CInv`, as an equation between `totalDropped` and sums over the records in each place: of the slots, of the queue, of the writer's hand and of what was parsed. A drop adds one to a slot and to the total, a Loss row takes a slot's whole count along, and every other step moves a buffer, and the sum over it, from one place to the next. The second follows from it and `DrainedAtClose`, by which nothing is queued, in hand or in a slot's buffer when the writer has ended. Each of these steps needs to know how a sum changes when a term, or its length, does. Those facts are in `SumProofs`, which every module that counts something uses. `Sums` defines a sum by the function of its partial sums. The library's induction theorems cannot be instantiated here, so each induction (that this function exists, that a sum is a number, that it changes by what one of its terms changes by) is an argument by the *least* counterexample, which exists since `<` is well founded on the naturals.

The second part of `CollectorProofs` carries this over the channel to the profiler, for any channel capacity, packet size and point where the target is killed:

- `NoFalseCorruption`: `CaptureSpec => []LossIsNotCorruption`. `SInv` says that the packets in the channel have ascending numbers between what the source expects and what was sent last (`PacketsInOrder`), that the numbers the source missed and will miss are as many as the packets refused (`GapsAreDrops`), and that nothing follows a footer, whose totals are final when it is sent (`FooterLast`; the collector's counters do not move after it, lemma `OverStays`).
- `CompleteCapture`: `CaptureSpec => []CompleteIsExact`. `EInv` adds where each operation is: unless one was dropped or skipped, every number given out is carried by its thread or in a record (`EveryNumber`), and unless a packet was refused, every parsed allocation is in the batch, in the channel or with the source (`Onward`). The verdict demands a footer that balances with what was received and no loss, so all numbers are there; that none is there twice follows by counting (`ExactlyOnce`).
- `CaptureTotals`: `CaptureSpec => []FooterBalances`, the collector's theorem within the composition.

`AnalysisProofs` proves `ShortcutIsSound`: `CacheSpec => []RecentHitsAreCurrent`, for every number of sets, ways and remembered hits, and any set of addresses: a remembered hit points at the one way that holds its address. Alone this is not inductive. `CacheInvariant` adds the types (a remembered index lies in the set of its address) and `NoAliases`: two ways of a set never hold the same tag, which a miss preserves because it fills a way only when no way has the tag. A hit changes no tag, a miss forgets everything remembered, and a hit found by searching is remembered where it was found. The lemmas give the arithmetic: the ways of a set are indices of the cache, and address and (set, tag) determine each other.

`CacheImplementsLru`, `CacheSpec => ImplementsLru`, is the refinement of `LruCache` for the same constants: what is fetched and written back, and when, is what a least-recently-used cache without the shortcut would. It needs `Ordered` beside `CacheInvariant`: no two lines in use have the same `last_used`, and none is later than `clock`, so that the lines of a set have one order (`OneList`, and `LatestFirstLists` that there is one: the ranks are a bijection). A line that is used becomes the latest of all, and every other keeps its time. A hit therefore moves one entry to the front (`HitMovesToFront`, `MovedToFront`), a miss with a free way adds one there (`MissTakesFree`, `AddedToFront`), and a miss in a full set replaces the *last* entry, since the way that `access` looks for by the smallest `last_used` is the one at the end of the list (`MissDropsLast`); the other sets keep their lists (`OtherSetsKept`). That a remembered hit is a hit is `RecentHitsAreCurrent`; that a miss is a miss in the abstract cache follows from the arithmetic of tags (`MissedNowhere`). For `flush`, the dirty lines and the entries that were stored to are as many, by the bijection that the lists give (`StoredAreDirty`).

`AccountingIsExact`, `CfgSpec => []AccountingExact`, holds for any finite set of blocks, any registered blocks with any flow, any threads and any number of records. `CfgInvariant` says `AccountingExact` *within* a batch too, where it is false as it stands: the edges and executions are those of the traces once the run is added (`GraphEdges`, `GraphExecs`), the executions are those counted and those of the run (`OpsExact`), and what is charged makes up the counters together with what is pending (`ChargesExact`). Three facts carry it.

1. A run is of a block that falls through and is the last of its thread (`BatchShaped`). So an execution that continues it is an edge from the block to itself, and leaves the last block and the stack as they are (`RepeatFollows`), which is why `rc_process_batch` need not touch them. A run of a block that calls would lose a stack entry: that is the mutant.
2. The stack of a thread is the list of its calls that have not returned (`Stacked`, within `Recorded`). `AccountingExact` pairs a return with the *latest* call after which the calls and returns balance, a definition without a stack; `Net` counts them, and `Stacked` bounds it for the calls that are on the stack and for those that are not, returns without an observed call included. `ReturnTakesLast` shows that the two agree, `StackFollows` that a block of each kind keeps `Stacked`, and `OriginIs` that `record_block` takes the edge from the block the definition names.
3. One execution more adds one position to the traces and changes what no other position follows (`PositionsGrow`, `PositionsKept`), so the counts of `AccountingExact` grow by what `record_block` adds (`EdgesGrow`, `EntriesGrow`, `ExecsGrow`, `GraphGrows`). The sums over blocks change by the lemmas of `SumProofs` (`ChargedMore`).

It also proves, of `AllocationReplay`, `ReplayRebuildsGenerations`: `Spec => []ReplayExact`, and `OutcomesRecorded`: `Spec => []UncertainOnlyAtShutdown`, for every set of threads and every number of addresses, calls and clock readings. The inductive invariant, `ReplayInvariant`, relates the recorded boundaries to the real generations at every moment of every call:

- A block in the heap belongs to the application or to exactly one call (`BlocksOwned`), and its generation is the last at its address (`HeapLast`).
- What is recorded of a generation follows from whose hands it is in: the application's blocks have a recorded begin and no end (`InApp`), those of a call have as much as the stage of the call says (`InCall`), and a generation that left the heap has both its ends recorded (`AfterLife`); each unless the collector had stopped accepting.
- Numbers name boundaries (`NumbersUnique`), and the ends of the generations at one address *follow* one another (`Generational`): each has the smaller number, and was stamped before the next was numbered, so its timestamp is not later. This is where the order of the code matters: `malloc` records after the allocator call and `free` before it, and `record_allocation` takes the number before it reads the clock.
- A reallocation whose begin is recorded is open, with nothing said of it (`Undecided`), or answered, and then the answer is what happened to the block (`Decided`, `Outcomes`); one without a recorded outcome is still under way while the collector accepts (`UnderWay`), which is `OutcomesRecorded`.

A step of one thread disturbs only the blocks its own call holds (`Local`), so each action is looked at once. From the invariant, once all calls returned: the ends of the generations and the rows of the replay correspond (`BoundariesDo`), and rows stand in the order in which they follow one another (`RowsAre`; `SortedIs` shows that `Sorted` lists every boundary once, ranks being an injection of a finite set into as many places). The replay is then followed row by row (`AllReplayed`: there is no first row after which it is wrong): after i rows its entries are the generations begun within them, closed if they also ended within them, and the live entry of an address is its open one. A boundary that ends a generation finds that one open; a boundary that begins one finds none open at its address, because the generation before has ended by then and a later one has not begun.

`ProcChannelProofs` proves, for a ring of any size, counters that wrap at any multiple (at least two) of it, any message lengths and a sender that may be killed at any step:

- `StreamIsIntact`: `Spec => []StreamIntact`. `ChannelInvariant` speaks of positions that do not wrap, the lengths of the two histories: the counters are these modulo `PosMod` (`Positions`), every word between them is in its place in the ring (`RingHolds`), records lie end to end and the receiver stands before one (`Boundaries`), a sender in its copy has room for the whole record and the words it wrote are there (`SenderCopies`), and a receiver in `read_one` has loaded a tail at *some* record boundary, perhaps no longer the last one (`ReceiverCopies`). The arithmetic is in lemmas: the mask of a wrapped counter is that of the position because `PosMod` is a multiple of `Size`, a wrapped difference is the true one because `Size < PosMod`, and positions less than `Size` apart have different offsets, so the word being written is one the receiver has given back.
- `EndIsTheEnd`: `Spec => []EndOfStream`. `EndInvariant` adds the semaphore: as long as the channel is open, the tokens posted, held by a receiver on its way to `read_one` and about to be posted are at most the records not yet received (`TokensMatch`), so a blocking receiver that holds one finds a record; and an operation called on a ring that was seen non-empty still finds it so, since nobody else receives (`NotEmptied`).
- `ChannelImplementsFifo`: `Spec => ImplementsFifo`, the refinement of `LossyFifo`. `FifoInvariant` numbers the records: record `k` lies between `begins[k]` and the next one's beginning, and the receiver stands after as many records as it was handed (`RecordsNumbered`), so the header it commits is the head of `InFlight`. `SendRoom` is an `Offer` (`RoomIs`: the wrapped comparison of `send_sync` is the comparison of the true positions), `SendPublish` a `Send`, `ReadCommit` a `Receive`, `CloseFinish` a `Close`, a `ReadTail` that finds the ring empty an `End` (by `EndInvariant` the channel is closed and nothing is in flight); every other step, a kill included, leaves the queue as it is.

`RecordSessionProofs` proves `RootMeasured` and `RootCollected`, for any set of processes the target may start and any sources that may fail. `SessionInvariant` relates the three parties: the root is gated while sources start, runs only between its release and the stopping of the sources, and is gone once `Process` has been dropped (`RootFollows`); no worker has been asked to stop before that (`NoEarlyStop`); and the sources started so far, all of them once the root is released, have their workers (`SourcesRun`). `RootIsMeasured` alone is not inductive: a worker that sees its stop flag ends, so no flag may be set yet.

`ForkSessionProofs` proves `OneCollectorPerProcess` and `RecordsReachOwnCollector`, for any threads, forks and calls and threads started at any time, without an assumption on the program; the exception is in the properties (`~early`), and the run `fork_children` shows that it is needed. `ForkInvariant` says, unless `early`, of everything that names a collector (`COLLECTOR`, the set of accepting collectors, a thread's cached one), that it was started by this process, *unless* the thread that forked has not taken `FORKED` yet or is between taking it and resetting `COLLECTOR`; in that window the process has one thread (`Alone`), so nobody else can read what is stale.

`PipelineProofs` works on `MCPipeline`; its first lemma projects a step of the composition onto a step of the sampling driver (`SamplingNext`), so nothing about the store is needed.

- `StreamIsFaithful`: `RingHolds` says that between `tail` and `head` each slot holds the record the kernel wrote at that position; `WorkerFollows` gives, for each step of the worker, how many records it has handled and which one it has in hand. The kernel writes at `head % RingCap` and only while `head - tail < RingCap`; the lemma `SlotsApart` shows that two positions less than `RingCap` apart have different slots, so it never overwrites an unread record. The tail is published only after the copy, which is why the record in hand cannot be overwritten either.
- `RingsOutliveWorker`: unmapping is guarded by the join, and after it the worker never restarts.
- `DeltasAddUp`: `Spec => []DeltasTelescope`. The worker credits the difference of a sample's counter to the one before; a difference that would be negative, after the kernel reused a thread identifier, is credited as zero. The first half needs `NoLag`: without reuse the counter values waiting in a ring ascend between the last one read and the present one. The second, that no more is credited than was counted, needs for each value in the ring how far it *lags* behind the total, since a counter that started over still climbs: `DeltaInvariant` says that such lags exist which never shrink from one sample to the next (`Lags`), so what a sample adds is at most what the total grew by.
- `EveryRecordCounted`: `Spec => []RecordsAccounted`. `Balance` is the equation with the record in the worker's hand counted by what it stands for, one record or as many as the kernel reports lost. The kernel's write moves pending records into the ring as one record of that weight, the copy moves a record from the ring to the hand (one term of the sum `Unread` becomes zero), the sends and `lost_samples` take it from there.
- `OkIsSampled`: `Spec => []OkMeansSampled`, for any number of groups and every kind of target; the part of it that a stop without error means that some group could run excepts attached drivers, which are finding 1. The invariant follows which groups the target has reached: for the own process one of them at the latest when `start` has enabled the last, for a child that is suspended at `start` one by its exec. So a driver whose target executed is never judged "unreached", and `Outcome` turns "never" into an error. The other part needs that a group whose samples were credited ran (`DeltaAlways`: nothing is credited that was not counted).

The theorems about the store project the composition onto the store in the same way (`StoreNext`), for any batch, segment and queue sizes and any number of faults:

- `ClosedSegmentsSafe`: `Spec => ClosedSegmentsStay`. `DiskOrdered` says that the files of a table are its closed segments, numbered below `seq`, and at most one more without a footer. Every operation of `SegmentWriter`, failing or not, only replaces the file of number `seq` (`DiskStep`); `seq` advances exactly when that file gets its footer. A recording that was killed has no open writer, so the file that recovery renames is the last one.
- `StoreReadsInOrder` (`RowsInOrder`), `StoreComplete` (`FinishWritesAll`), `AllocationsReported` (`AllocationsHonest`), `CrashTail` (`CrashLosesTail`), all from `RowsInvariant` (`StoreRows`). A streamed table has a mark `m`, the rows taken from the queue: the queue holds exactly what comes after `m` (`Queued`), the batch the last rows up to `m` (`Buffered`), the files only earlier rows, ascending (`Ascending`), and *as long as nothing failed that the table would hide* (`Sound`) the closed segments and the open one hold all of them without a gap (`Whole`). `Ascending` has to survive failures, when the open file is started over and rows are lost; `Whole` has to fail with them, and for allocations not before the failure is remembered. Module maps are kept in memory, so their invariant is a partition: published and not refused means queued, buffered or on disk (`ModulesInvariant`). `FinishInvariant` says what each step of `Worker::finish` has left behind. After a kill there is no mark any more; `Beginning` keeps what the closed segments were.

`ShellViewProofs` proves `CurrentDatasetsRight` and `ActiveTabIsOffered`.

- `DataInvariant` says of every cached value *and of every result still on the executor* that its key stands for a generation up to the present one, and that if it is the present generation the value is right for the present recording, filter and style. Every change of filter or recording raises the generation, so all of them become old at once; this is the fact the code relies on instead of cancelling tasks. It covers the caches keyed by the generation: `cpu_lanes` is not, which is finding 2.
- `TabInvariant` bounds `active_tab` by the tabs drawn. Installing a recording selects the first tab, so at least one must be offered: `ShellAssumption` says that `Summary` is always available (`ViewId::is_available`).

The constants in all of these are arbitrary, within the named assumptions; the bounds that TLC needs are guards that the proofs do not use.

Only model-checked: liveness, which needs fairness and `ENABLED`; `LoopsFound` and `MemoryExact`, which compare what recursive operators compute with its definition.

## Findings

1. **Attached processes are never sampled** (`libprof/src/driver/perf.rs:903`, run `attach`). Events are opened disabled; with a pid they are armed with `enable_on_exec`, and `start` enables only drivers without a pid. A process that is already running and does not exec is never enabled, and `stop` reports success, because groups without enabled time are not judged. `libprof/src/driver/mod.rs:341` says "Attaches sampling to an already-running process.", and `docs/src/guide/record.md:53` offers `--pid`.
2. **Late CPU lanes of another recording** (`mperf-gui/src/shell/session.rs:126`, run `shell_late`). `spatial_key` identifies the filter and not the recording. A result that was under way when another recording was installed is accepted as the new one's. `derived.rs:5` says that results arriving after a newer request are dropped. A listing for an assembly tab is attached by frame number alone (`shell/mod.rs:926`) and has the same weakness.

3. **Drops after the last event are not reported** (`collector-core/src/session.rs:478`, run `losses`). A slot's count of dropped events goes into a Loss row in front of the next event recorded in that slot. When none follows, because the thread exits, goes idle or the session ends, `finish` submits the buffer and passes the count over. The comment at `session.rs:364` says that a drop surfaces later as a Loss row, and `docs/src/guide/tracing.md:132` that drops surface as `loss` rows. `DropsCounted` says by how much the rows fall short.
4. **A fork child with threads keeps its parent's collector** (`collector-core/src/session.rs:157`, run `fork_children`). `FORKED` is one flag for the whole child. When the child starts a thread before the forking thread has used the collector again, whoever comes first takes the flag, and the others keep, or find in `COLLECTOR`, the collector of the parent, whose writer thread does not exist in the child. The comment at `session.rs:130` says that the collector is reinitialized transparently in fork children. In such a child `OneCollector` fails too, after two forks: if a thread of the first child had reset `COLLECTOR` and not started a collector when another forked, `COLLECTOR` is empty in the second child, one thread starts a collector, and the reset by the thread that took `FORKED` makes room for a second, which writes the same segments.

## Observations

Met while modelling; each is outside what the runs check, or excluded by the named assumption.

- *Collector.* The allocation worker looks at the stop flag after it found the channel empty and not at the channel again, so a footer sent in between is not read and a graceful capture is judged incomplete (`allocations.rs:142`; `checks/allocations:44`); the window is narrow, since the profiler polls every 100 ms. A profiler killed between publishing a command and posting it leaves `poll_command` blocked in the target.
- *Session.* `RecordReturns` has one exception: telemetry and procfs join their workers in `stop` only, so when the procfs thread cannot be created after telemetry started, its worker keeps the sink and `do_record` waits for ever. Descendants of a root that exited leave `process_tree`, so `terminate`, which returns when the root is gone, never kills those that ignore SIGTERM, although `record.rs:386` and `docs/src/reference/cli.md:121` say that none is left behind. A process whose first thread exits early shows as a zombie while it runs. A profiler killed before the release leaves the child at its gate, since the child holds the write end of its own pipe (`process.rs:143`).
- *Store.* `RESOURCE_FLUSH_INTERVAL` says that it keeps a killed recording's telemetry on disk (`event_dispatcher.rs:51`), but what was flushed into an open segment has no footer and is quarantined; strings and modules are only written by finish.
- *Sampling.* Records between the worker's last pass and the unmapping are not read, and drops the kernel has not reported yet are not counted: `RecordsAccounted` has them as `Unread` and `pending`. A reused thread identifier makes deltas fall short (`DeltasTelescope`).
- *Shell.* Closing the active source tab does not call `ensure_derived`, so the view that comes to the front may show an older dataset until the next event (`mod.rs:1414`; comment at 620). A build without a result leaves the former value in place (`derived.rs:38`). A recording picked while another loads is ignored (`mod.rs:475`).
- *Roofline.* Blocks counted directly (`rc_counted_block`) bypass the ordered stream, so their edges are static. An irreducible cycle inside a natural loop (1 to 2, 2 to 3 and 4, 3 to 4, 4 to 2 and 3: the cycle of 3 and 4) is neither a natural loop nor reported: `analyze` looks for irreducible cycles among the strongly connected components, which are maximal (`loops.rs:80`). Bytes beyond the 256th of a line do not count in its footprint (`memory.rs:17`), and the line size is taken as it comes from sysfs (`qemu.rs:724`).

## Not modelled

Encodings of packets and columns, instruction decoding and classification, event planning and binding, symbolization, queries, postprocessing other than the allocation replay, and what is drawn. These are sequential transformations of data or tables: there is no interleaving or failure for a model checker to explore, and a model would repeat the code. The macOS driver (`kperf.rs`) calls private frameworks whose behaviour is not in the repository. Memory reordering is not modelled: the accesses that matter are sequentially consistent or acquire and release pairs on one location, and the steps are interleaved at that grain.

## Plan

1. `ForkSession` with the inherited lock state and with allocation sessions.
2. The Mem and Roofline scenarios of `do_record`, and the counted blocks of `DynamicCfg`.
3. The counting driver with its multiplexing and scaling.
