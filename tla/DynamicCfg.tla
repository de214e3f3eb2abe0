----------------------------- MODULE DynamicCfg -----------------------------
(***************************************************************************)
(* The control-flow graph the Roofline accounting engines observe: blocks  *)
(* reported by every thread in program order, in batches that are applied  *)
(* under one lock, become edges within functions, with calls summarized by *)
(* a stack per thread.  Runs of a block that follows itself and accesses   *)
(* of one block are gathered within a batch and applied together.          *)
(*                                                                         *)
(* An execution costs one operation and one byte known at translation, an  *)
(* access of a memory record moves one byte, and what the simulated cache  *)
(* answers to it is open.  The entry points that bypass batches (counted   *)
(* blocks, single accesses, vector operations) add to the same two sums at *)
(* once and are left out.                                                  *)
(***************************************************************************)
EXTENDS Naturals, Sequences, FiniteSets, Bags, Sums

CONSTANTS
  None,         \* no value
  Tids,         \* threads of the program
  Blocks,       \* addresses of blocks
  Handles,      \* registered blocks; a block translated again has two
  BlockOf,      \* the address of a registered block
  FlowOf,       \* how control leaves it: "Normal", "Call" or "Return"
  MaxRecords,   \* bound: executions recorded
  MaxAccessed   \* bound: other records

Fields == {"ops", "bytes", "loads", "stores", "unclassified"}

Nothing == [f \in Fields |-> 0]

\* A batch: its thread, the block it repeats and how often, and the block whose
\* accesses are pending.
Batches == [thread : Tids, run : Handles \cup {None}, count : Nat,
            block : Blocks \cup {None}, pending : [Fields -> Nat]]

ASSUME CfgAssumption ==
  /\ BlockOf \in [Handles -> Blocks]
  /\ FlowOf \in [Handles -> {"Normal", "Call", "Return"}]
  /\ IsFiniteSet(Blocks)
  /\ None \notin Blocks /\ None \notin Handles /\ None \notin Batches
  /\ MaxRecords \in Nat /\ MaxAccessed \in Nat

VARIABLES
  last,      \* last_blocks: the last block of each thread
  calls,     \* call_stacks
  entries,   \* blocks entered from outside
  edges,     \* transitions within functions
  execs,     \* executions of each block by each thread
  counts,    \* what each block is charged with
  totals,    \* counters: the same for the whole process
  batch,     \* the batch being processed
  finished,  \* the artifacts are written
  trace      \* history: what each thread executed

cfgVars == <<last, calls, entries, edges, execs, counts, totals, batch, finished, trace>>

Add(x, y) == [f \in Fields |-> x[f] + y[f]]

Copies(e, n) == IF n = 0 THEN EmptyBag ELSE [x \in {e} |-> n]

----------------------------------------------------------------------------
(* DynamicCfg *)

\* The block of the same function that control came from, if there is one.
Origin(t) ==
  CASE last[t] = None -> None
    [] last[t] # None /\ FlowOf[last[t]] = "Normal" -> BlockOf[last[t]]
    [] last[t] # None /\ FlowOf[last[t]] = "Call" -> None
    [] last[t] # None /\ FlowOf[last[t]] = "Return" ->
         IF calls[t] = <<>> THEN None ELSE calls[t][Len(calls[t])]

\* A block that calls is remembered, a block that returns takes one back.
Stack(t) ==
  CASE last[t] # None /\ FlowOf[last[t]] = "Call" -> Append(calls[t], BlockOf[last[t]])
    [] last[t] # None /\ FlowOf[last[t]] = "Return" /\ calls[t] # <<>> ->
         SubSeq(calls[t], 1, Len(calls[t]) - 1)
    [] OTHER -> calls[t]

\* add_exec_counters and add_static_memory: the cost of n executions.
Cost(n) == [Nothing EXCEPT !.ops = n, !.bytes = n]

\* record_block on top of edges and executions already gathered.
RecordBlock(t, h, gathered, executed) ==
  LET b == BlockOf[h]
  IN /\ IF Origin(t) = None
          THEN entries' = entries \cup {b} /\ edges' = gathered
          ELSE edges' = gathered (+) Copies(<<Origin(t), b>>, 1) /\ UNCHANGED entries
     /\ calls' = [calls EXCEPT ![t] = Stack(t)]
     /\ last' = [last EXCEPT ![t] = h]
     /\ execs' = executed (+) Copies(<<b, t>>, 1)

----------------------------------------------------------------------------
(* rc_process_batch *)

Begin(t) ==
  /\ batch = None /\ ~finished
  /\ totals.ops < MaxRecords
  /\ batch' = [thread |-> t, run |-> None, count |-> 0, block |-> None, pending |-> Nothing]
  /\ UNCHANGED <<last, calls, entries, edges, execs, counts, totals, finished, trace>>

\* flush_repeats, record_repeats: what the run adds.
RunEdges == IF batch.count = 0 THEN edges
            ELSE edges (+) Copies(<<BlockOf[batch.run], BlockOf[batch.run]>>, batch.count)

RunExecs == IF batch.count = 0 THEN execs
            ELSE execs (+) Copies(<<BlockOf[batch.run], batch.thread>>, batch.count)

RunCounts == IF batch.count = 0 THEN counts
             ELSE [counts EXCEPT ![BlockOf[batch.run]] = Add(@, Cost(batch.count))]

Executed(h) ==
  /\ batch # None
  /\ totals.ops + batch.count < MaxRecords
  /\ trace' = [trace EXCEPT ![batch.thread] = Append(@, h)]

\* An execution that continues the run is only counted.
Repeat(h) ==
  /\ Executed(h)
  /\ h = batch.run
  /\ batch' = [batch EXCEPT !.count = @ + 1]
  /\ UNCHANGED <<last, calls, entries, edges, execs, counts, totals, finished>>

\* Mutant of RunOf: a block that calls starts a run as well.
RunOfAny(h) == h

\* Only a block that falls through starts a run.
RunOf(h) == IF FlowOf[h] = "Normal" THEN h ELSE None

\* Any other execution of a registered block ends the run and is recorded.
Exec(h) ==
  /\ Executed(h)
  /\ h # batch.run
  /\ RecordBlock(batch.thread, h, RunEdges, RunExecs)
  /\ counts' = [RunCounts EXCEPT ![BlockOf[h]] = Add(@, Cost(1))]
  /\ totals' = Add(totals, Cost(batch.count + 1))
  /\ batch' = [batch EXCEPT !.run = RunOf(h), !.count = 0]
  /\ UNCHANGED finished

\* A handle out of range ends the run too, and records nothing.
ExecUnknown ==
  /\ batch # None
  /\ edges' = RunEdges /\ execs' = RunExecs
  /\ counts' = RunCounts
  /\ totals' = Add(totals, Cost(batch.count))
  /\ batch' = [batch EXCEPT !.run = None, !.count = 0]
  /\ UNCHANGED <<last, calls, entries, finished, trace>>

\* Executions move as many bytes as they count operations, so the rest is accesses.
Room == totals.bytes + totals.unclassified < totals.ops + MaxAccessed

\* PendingMemory::flush.
PendingFlush(charged) ==
  IF batch.pending = Nothing THEN charged
  ELSE [charged EXCEPT ![batch.block] = Add(@, batch.pending)]

\* A memory record of block b, which hits or makes the cache fetch a line, and
\* then perhaps write one back.  Accesses of one block stay pending together.
MemoryRecord(b, fetched, stored) ==
  LET seen == [Nothing EXCEPT !.bytes = 1, !.loads = fetched, !.stores = stored]
  IN /\ batch # None /\ Room
     /\ totals' = Add(totals, seen)
     /\ IF batch.block = b
          THEN /\ batch' = [batch EXCEPT !.pending = Add(@, seen)]
               /\ UNCHANGED counts
          ELSE /\ counts' = PendingFlush(counts)
               /\ batch' = [batch EXCEPT !.block = b, !.pending = seen]
     /\ UNCHANGED <<last, calls, entries, edges, execs, finished, trace>>

\* attribute_unclassified.
Unclassified(h) ==
  LET one == [Nothing EXCEPT !.unclassified = 1]
  IN /\ batch # None /\ Room
     /\ totals' = Add(totals, one)
     /\ counts' = [counts EXCEPT ![BlockOf[h]] = Add(@, one)]
     /\ UNCHANGED <<last, calls, entries, edges, execs, batch, finished, trace>>

\* What the end of the batch charges: the run, then what is pending.
Charged == PendingFlush(RunCounts)

EndBatch ==
  /\ batch # None
  /\ edges' = RunEdges /\ execs' = RunExecs
  /\ counts' = Charged
  /\ totals' = Add(totals, Cost(batch.count))
  /\ batch' = None
  /\ UNCHANGED <<last, calls, entries, finished, trace>>

\* rc_finalize: lines still dirty are written back, which no block is charged for.
Finalize(dirty) ==
  /\ batch = None /\ ~finished
  /\ finished' = TRUE
  /\ totals' = [totals EXCEPT !.stores = @ + dirty]
  /\ UNCHANGED <<last, calls, entries, edges, execs, counts, batch, trace>>

CfgInit ==
  /\ last = [t \in Tids |-> None]
  /\ calls = [t \in Tids |-> <<>>]
  /\ entries = {} /\ edges = EmptyBag /\ execs = EmptyBag
  /\ counts = [b \in Blocks |-> Nothing]
  /\ totals = Nothing
  /\ batch = None /\ finished = FALSE
  /\ trace = [t \in Tids |-> <<>>]

CfgNext ==
  \/ \E t \in Tids : Begin(t)
  \/ \E h \in Handles : Repeat(h) \/ Exec(h) \/ Unclassified(h)
  \/ ExecUnknown
  \/ \E b \in Blocks, fetched \in 0 .. 1 : \E stored \in 0 .. fetched :
       MemoryRecord(b, fetched, stored)
  \/ EndBatch
  \/ \E dirty \in 0 .. 1 : Finalize(dirty)

CfgSpec == CfgInit /\ [][CfgNext]_cfgVars

----------------------------------------------------------------------------
(* Properties *)

Positions == UNION {{t} \X DOMAIN trace[t] : t \in Tids}

Times(e, bag) == IF BagIn(e, bag) THEN bag[e] ELSE 0

Occurrences(s, i, j, flow) == Cardinality({k \in i .. j : FlowOf[s[k]] = flow})

\* The calls that the return before position j of s may be a return from.
Callers(s, j) ==
  {i \in 1 .. j - 1 :
     /\ FlowOf[s[i]] = "Call"
     /\ Occurrences(s, i + 1, j - 1, "Return") = Occurrences(s, i + 1, j - 1, "Call") + 1}

\* The positions of s that position j follows within its function.
Previous(s, j) ==
  CASE j = 1 -> {}
    [] j > 1 /\ FlowOf[s[j - 1]] = "Normal" -> {j - 1}
    [] j > 1 /\ FlowOf[s[j - 1]] = "Call" -> {}
    [] j > 1 /\ FlowOf[s[j - 1]] = "Return" ->
         {i \in Callers(s, j) : \A k \in Callers(s, j) : k <= i}

BlockList == Listing(Blocks)

ChargedIn(charged, f) == SumAlong([b \in Blocks |-> charged[b][f]], BlockList)

ChargedTo(f) == ChargedIn(counts, f)

\* Between batches the graph is what the threads' executions one by one make
\* it, wherever their batches were cut and however they interleaved: an edge
\* for each block that follows another of its function, across calls too, an
\* entry for each that follows none, and every execution counted for its thread.
\* And the artifacts pass validate_cfg_totals: what the blocks are charged with
\* adds up to the counters of the process, except for lines written back in
\* the end, and to what was executed.
AccountingExact ==
  batch = None =>
    /\ \A a \in Blocks, b \in Blocks :
         Times(<<a, b>>, edges) =
           Cardinality({p \in Positions : LET s == trace[p[1]] IN
             BlockOf[s[p[2]]] = b /\ \E i \in Previous(s, p[2]) : BlockOf[s[i]] = a})
    /\ entries = {BlockOf[trace[p[1]][p[2]]] :
                    p \in {q \in Positions : Previous(trace[q[1]], q[2]) = {}}}
    /\ \A b \in Blocks, t \in Tids :
         Times(<<b, t>>, execs) = Cardinality({j \in DOMAIN trace[t] : BlockOf[trace[t][j]] = b})
    /\ \A f \in Fields \ {"stores"} : ChargedTo(f) = totals[f]
    /\ ChargedTo("stores") <= totals.stores
    /\ ~finished => ChargedTo("stores") = totals.stores
    /\ totals.ops = Cardinality(Positions)
============================================================================
