------------------------------ MODULE LoopNest ------------------------------
(***************************************************************************)
(* Loops of an observed control-flow graph: dominators are found by        *)
(* sweeping over the blocks until nothing changes, natural loops from the  *)
(* edges back to a dominator, and cycles that are no natural loop from the *)
(* strongly connected components.  Blocks are their addresses.             *)
(***************************************************************************)
EXTENDS Naturals, Sequences, FiniteSets, SequencesExt

CONSTANTS
  Graphs   \* the graphs analyzed: entries, and the successors of every block

VARIABLES
  graph,     \* the graph
  doms,      \* the dominators of every reachable block, as the sweeps go on
  analysis   \* LoopAnalysis, in a set that is empty before it is there

loopVars == <<graph, doms, analysis>>

Succ(b) == graph.successors[b]

Ascending(S) == SetToSortSeq(S, <)

\* reachable_nodes.
RECURSIVE ReachFrom(_)
ReachFrom(S) ==
  LET more == S \cup UNION {Succ(b) : b \in S} IN IF more = S THEN S ELSE ReachFrom(more)

Reachable == ReachFrom(graph.entries)

\* predecessors.
Pred(b) == {a \in Reachable : b \in Succ(a)}

----------------------------------------------------------------------------
(* dominators *)

Roots == {b \in Reachable : b \in graph.entries \/ Pred(b) = {}}

\* Before the first sweep a root is dominated by itself, any other block by all.
FirstGuess == [b \in Reachable |-> IF b \in Roots THEN {b} ELSE Reachable]

\* A block is dominated by itself and by what dominates all its predecessors.
Refine(d, b) ==
  IF b \in Roots THEN d
  ELSE [d EXCEPT ![b] = {b} \cup {x \in Reachable : \A p \in Pred(b) : x \in d[p]}]

\* One pass over the blocks, each seeing what the pass changed before it.
SweepOnce(d) == FoldLeft(Refine, d, Ascending(Reachable))

----------------------------------------------------------------------------
(* analyze *)

\* natural_loop_blocks: back from the latch until the header.
RECURSIVE Gather(_, _)
Gather(blocks, header) ==
  LET more == blocks \cup UNION {Pred(b) : b \in blocks \ {header}}
  IN IF more = blocks THEN blocks ELSE Gather(more, header)

Latches(header) == {b \in Reachable : header \in Succ(b) /\ header \in doms[b]}

\* Mutant of LoopAt: a header has one loop for its first latch only.
LoopAtFirst(header) ==
  LET latch == Ascending(Latches(header))[1]
  IN [header |-> header, latches |-> {latch}, blocks |-> Gather({header, latch}, header)]

\* The loops of all back edges to one header are one loop.
LoopAt(header) ==
  [header |-> header, latches |-> Latches(header),
   blocks |-> UNION {Gather({header, latch}, header) : latch \in Latches(header)}]

NaturalLoops == {LoopAt(h) : h \in {b \in Reachable : Latches(b) # {}}}

SmallerFirst(l, m) ==
  \/ Cardinality(l.blocks) < Cardinality(m.blocks)
  \/ Cardinality(l.blocks) = Cardinality(m.blocks) /\ l.header < m.header

Enclosing(l, loops) == {m \in loops : l.blocks \subseteq m.blocks /\ m.blocks # l.blocks}

\* The parent is the first enclosing loop in the order of size.
ParentOf(l, loops) ==
  {m \in Enclosing(l, loops) : \A n \in Enclosing(l, loops) \ {m} : SmallerFirst(m, n)}

\* strongly_connected_components: the blocks in the order their visit ends.
RECURSIVE Visit(_, _)
Visit(seen, b) ==
  IF b \in seen.visited THEN seen
  ELSE LET below == FoldLeft(Visit, [seen EXCEPT !.visited = @ \cup {b}], Ascending(Succ(b)))
       IN [below EXCEPT !.order = Append(@, b)]

VisitOrder == FoldLeft(Visit, [visited |-> {}, order |-> <<>>], Ascending(Reachable)).order

\* Back from a block, without the blocks of components already found.
RECURSIVE BackFrom(_, _)
BackFrom(S, taken) ==
  LET more == S \cup (UNION {Pred(b) : b \in S} \ taken)
  IN IF more = S THEN S ELSE BackFrom(more, taken)

Components ==
  LET Take(found, b) == IF b \in UNION found THEN found
                        ELSE found \cup {BackFrom({b}, UNION found)}
  IN FoldLeft(Take, {}, Reverse(VisitOrder))

\* is_cycle.
IsCycle(C) == Cardinality(C) > 1 \/ \E b \in C : b \in Succ(b)

\* Cycles none of whose blocks dominates all of them.
IrreducibleCycles ==
  {C \in Components : IsCycle(C) /\ ~ \E h \in C : \A b \in C : h \in doms[b]}

Sweep ==
  /\ analysis = {}
  /\ SweepOnce(doms) # doms
  /\ doms' = SweepOnce(doms)
  /\ UNCHANGED <<graph, analysis>>

Analyze ==
  /\ analysis = {}
  /\ SweepOnce(doms) = doms
  /\ analysis' = {[loops |-> {[loop |-> l, parent |-> ParentOf(l, NaturalLoops)] : l \in NaturalLoops},
                   irreducible |-> IrreducibleCycles]}
  /\ UNCHANGED <<graph, doms>>

LoopInit ==
  /\ graph \in Graphs
  /\ doms = FirstGuess
  /\ analysis = {}

LoopNext == Sweep \/ Analyze

----------------------------------------------------------------------------
(* Properties *)

\* Block y is reached from S without entering X: every set of blocks that
\* holds S and the successors of its blocks, X apart, holds y.
Reaches(S, y, X) ==
  \A R \in SUBSET Reachable :
    S \ X \subseteq R /\ UNION {Succ(b) : b \in R} \ X \subseteq R => y \in R

\* Sets of blocks in which control can go round for ever: each leads to every
\* other within the set.
Cycles ==
  {C \in SUBSET Reachable :
     /\ \E b \in C : Succ(b) \cap C # {}
     /\ \A S \in SUBSET C : S # {} /\ (\A b \in S : Succ(b) \cap C \subseteq S) => S = C}

MaximalCycles == {C \in Cycles : \A D \in Cycles : C \subseteq D => D = C}

\* The blocks of C that control enters it at.
Doors(C) == {b \in C : b \in graph.entries \/ Pred(b) \ C # {}}

\* The analysis finds the loops there are: a block dominates another exactly
\* when no path from an entry avoids it; a cycle, nested in others or not, one of
\* whose blocks dominates the rest lies in the natural loop of that block; a
\* cycle contained in no larger one is itself a natural loop when it is entered
\* at one block, and is otherwise, and nothing else is, reported as irreducible;
\* a loop holds just the blocks that come back to its header without leaving it;
\* loops are disjoint or nested and a parent is the innermost loop around, so
\* that nothing is counted twice in a report.  Nothing is said of a cycle entered
\* at several blocks inside a natural loop: analyze looks for irreducible cycles
\* among the strongly connected components, which are maximal, and that cycle is
\* neither a loop nor reported.
LoopsFound ==
  \A found \in analysis :
    LET loops == {f.loop : f \in found.loops}
    IN /\ \A b \in Reachable, d \in Reachable :
            d \in doms[b] <=> b = d \/ ~Reaches(graph.entries, b, {d})
       /\ \A C \in Cycles, h \in Reachable : h \in C /\ (\A b \in C : h \in doms[b]) =>
            \E l \in loops : l.header = h /\ C \subseteq l.blocks
       /\ \A C \in MaximalCycles :
            Cardinality(Doors(C)) = 1 => \E l \in loops : l.blocks = C /\ l.header \in Doors(C)
       /\ found.irreducible = {C \in MaximalCycles : Cardinality(Doors(C)) # 1}
       /\ \A l \in loops : l.blocks = {l.header} \cup
            {b \in Reachable : \E t \in l.latches : Reaches({b}, t, {l.header})}
       /\ \A l \in loops, m \in loops :
            l.blocks \subseteq m.blocks \/ m.blocks \subseteq l.blocks \/ l.blocks \cap m.blocks = {}
       /\ \A f \in found.loops :
            /\ \A p \in f.parent : \A m \in Enclosing(f.loop, loops) : p.blocks \subseteq m.blocks
            /\ Enclosing(f.loop, loops) # {} => Cardinality(f.parent) = 1
============================================================================
