----------------------------- MODULE MCAnalysis -----------------------------
(***************************************************************************)
(* Small instances of the analyses: the parts of a Roofline run, and the   *)
(* replay of allocation boundaries.  They share no state, and a behaviour  *)
(* is one of a single part, the subject; the variables of the others stay  *)
(* as they begin.                                                          *)
(***************************************************************************)
EXTENDS CacheModel, DynamicCfg, LoopNest, ReuseDistance, AllocationReplay

VARIABLE subject

roofline == <<cacheVars, cfgVars, loopVars, memVars>>

MCBlockOf == [loop |-> 1, call |-> 2, return |-> 3]
MCFlowOf  == [loop |-> "Normal", call |-> "Call", return |-> "Return"]

GraphBlocks == 1 .. 4

\* Blocks with up to two successors, entered at one block or at two.
MCGraphs ==
  [entries : {{1}, {1, 2}},
   successors : [GraphBlocks -> {S \in SUBSET GraphBlocks : Cardinality(S) <= 2}]]

NoGraph == [entries |-> {}, successors |-> [b \in GraphBlocks |-> {}]]

\* Accesses of one line, across two lines, and of nothing.
MCRequests == {[address |-> 0, size |-> 1], [address |-> 2, size |-> 2], [address |-> 6, size |-> 1],
               [address |-> 9, size |-> 2], [address |-> 3, size |-> 0]}

AnalysisInit ==
  /\ subject \in {"cache", "cfg", "loops", "memory", "allocations"}
  /\ CacheInit /\ CfgInit /\ MemInit /\ Init
  /\ IF subject = "loops" THEN LoopInit
     ELSE graph = NoGraph /\ doms = FirstGuess /\ analysis = {}

Roofline ==
  \/ subject = "cache" /\ CacheNext /\ UNCHANGED <<cfgVars, loopVars, memVars>>
  \/ subject = "cfg" /\ CfgNext /\ UNCHANGED <<cacheVars, loopVars, memVars>>
  \/ subject = "loops" /\ LoopNext /\ UNCHANGED <<cacheVars, cfgVars, memVars>>
  \/ subject = "memory" /\ MemNext /\ UNCHANGED <<cacheVars, cfgVars, loopVars>>

AnalysisNext ==
  /\ UNCHANGED subject
  /\ \/ Roofline /\ UNCHANGED vars
     \/ subject = "allocations" /\ Next /\ UNCHANGED roofline

AnalysisSpec == AnalysisInit /\ [][AnalysisNext]_<<subject, roofline, vars>>

\* Threads are interchangeable.
AnyThreads == Permutations(Threads) \cup Permutations(Tids)
=============================================================================
