--------------------------- MODULE ReuseDistance ---------------------------
(***************************************************************************)
(* The memory analysis of a Roofline run: of every access, the distance to *)
(* the last one of the same cache line, in distinct lines; the lines in    *)
(* use in windows of a fixed width; the bytes touched of each line; the    *)
(* strides of each thread.  Distances come from a tree of the lines'       *)
(* latest references, a search tree by reference and a heap by priority.   *)
(*                                                                         *)
(* The priorities are a hash of the reference and are left open.  A tree   *)
(* is a set of at most one node.  One window stands for all six widths.    *)
(* The sums of bytes loaded and stored are left out.                       *)
(***************************************************************************)
EXTENDS Integers, Sequences, FiniteSets, SequencesExt

CONSTANTS
  LineSize,     \* line_size
  Lines,        \* lines of the memory
  Vcpus,        \* threads
  Tracked,      \* bytes of a line that LineFootprint has room for: 256
  Requests,     \* accesses: an address and a size
  Priorities,   \* priorities of nodes
  Width,        \* width of the window
  MaxSamples,   \* samples kept of a window
  MaxRefs       \* bound: references to lines

ASSUME MemoryAssumption ==
  /\ LineSize \in Nat \ {0} /\ Tracked \in Nat /\ Width \in Nat \ {0} /\ MaxSamples \in Nat /\ MaxRefs \in Nat
  /\ \A r \in Requests : r.size > 0 => (r.address + r.size - 1) \div LineSize \in Lines

VARIABLES
  mem,    \* MemoryAnalysis
  refs    \* history: the references to lines

memVars == <<mem, refs>>

----------------------------------------------------------------------------
(* The tree *)

Root(t) == CHOOSE n \in t : TRUE

NodeSize(t) == IF t = {} THEN 0 ELSE Root(t).size

\* A node with its children; refresh.
Node(n, left, right) ==
  {[key |-> n.key, priority |-> n.priority, size |-> 1 + NodeSize(left) + NodeSize(right),
    left |-> left, right |-> right]}

\* The nodes below a key, and the others.
RECURSIVE Split(_, _)
Split(t, key) ==
  IF t = {} THEN <<{}, {}>>
  ELSE LET n == Root(t)
       IN IF n.key < key
            THEN LET s == Split(n.right, key) IN <<Node(n, n.left, s[1]), s[2]>>
            ELSE LET s == Split(n.left, key) IN <<s[1], Node(n, s[2], n.right)>>

RECURSIVE Merge(_, _)
Merge(t, u) ==
  CASE t = {} -> u
    [] t # {} /\ u = {} -> t
    [] OTHER -> LET l == Root(t)
                    r == Root(u)
                IN IF l.priority >= r.priority
                     THEN Node(l, l.left, Merge(l.right, u))
                     ELSE Node(r, Merge(t, r.left), r.right)

Insert(t, key, priority) ==
  LET s == Split(t, key)
  IN Merge(Merge(s[1], Node([key |-> key, priority |-> priority], {}, {})), s[2])

\* Mutant of NewerAbove: the node on the way down is not counted.
NewerAboveShort(n) == NodeSize(n.right)

\* What a step to the left leaves on the right.
NewerAbove(n) == 1 + NodeSize(n.right)

\* remove_and_retain: the tree without a key, and the number of newer ones.
RECURSIVE RemoveAndRetain(_, _)
RemoveAndRetain(t, key) ==
  IF t = {} THEN [tree |-> {}, newer |-> 0]
  ELSE LET n == Root(t)
       IN CASE n.key = key -> [tree |-> Merge(n.left, n.right), newer |-> NodeSize(n.right)]
            [] key < n.key -> LET r == RemoveAndRetain(n.left, key)
                              IN [tree |-> Node(n, r.tree, n.right), newer |-> r.newer + NewerAbove(n)]
            [] key > n.key -> LET r == RemoveAndRetain(n.right, key)
                              IN [tree |-> Node(n, n.left, r.tree), newer |-> r.newer]

----------------------------------------------------------------------------
(* MemoryAnalysis *)

\* The number of bits of d.
RECURSIVE Bucket(_)
Bucket(d) == IF d = 0 THEN 0 ELSE 1 + Bucket(d \div 2)

Signed(d) == IF d < 0 THEN -Bucket(-d) ELSE Bucket(d)

Buckets == 0 .. Bucket(Cardinality(Lines))

\* WindowAccumulator::observe.
Observe(w, previous, reference) ==
  LET start  == IF w.references = 0 THEN reference ELSE w.start
      unique == w.unique + (IF previous < start THEN 1 ELSE 0)
  IN IF w.references + 1 = Width
       THEN [references |-> 0, start |-> start, unique |-> 0,
             samples |-> IF Len(w.samples) < MaxSamples THEN Append(w.samples, unique) ELSE w.samples]
       ELSE [references |-> w.references + 1, start |-> start, unique |-> unique,
             samples |-> w.samples]

\* The offsets of the line that lie in the request.
Within(r, line) ==
  {o \in 0 .. LineSize - 1 : line * LineSize + o \in r.address .. r.address + r.size - 1}

\* LineFootprint::touch, which ignores what lies too far into the line.
Covered(r, line) == {o \in Within(r, line) : o < Tracked}

\* One line of a request.
Touch(m, vcpu, r, line, priority) ==
  LET now      == m.references + 1
      previous == m.last_touch[line]
      gone     == RemoveAndRetain(m.recency, previous)
      before   == m.last_line[vcpu]
  IN [m EXCEPT
       !.references = now,
       !.bytes[line] = @ \cup Covered(r, line),
       !.last_touch[line] = now,
       !.window = Observe(@, previous, now),
       !.distance = IF previous = 0 THEN @ ELSE [@ EXCEPT ![Bucket(gone.newer)] = @ + 1],
       !.cold = IF previous = 0 THEN @ + 1 ELSE @,
       !.recency = Insert(IF previous = 0 THEN @ ELSE gone.tree, now, priority),
       !.strides = IF before = -1 THEN @ ELSE [@ EXCEPT ![Signed(line - before)] = @ + 1],
       !.last_line[vcpu] = line]

LinesOf(r) ==
  IF r.size = 0 THEN <<>>
  ELSE LET first == r.address \div LineSize
       IN [i \in 1 .. (r.address + r.size - 1) \div LineSize - first + 1 |-> first + i - 1]

AccessMemory(vcpu, r) ==
  /\ mem.references + Len(LinesOf(r)) <= MaxRefs
  /\ \E priority \in [DOMAIN LinesOf(r) -> Priorities] :
       mem' = FoldLeftDomain(LAMBDA m, i : Touch(m, vcpu, r, LinesOf(r)[i], priority[i]),
                             mem, LinesOf(r))
  /\ refs' = refs \o [i \in DOMAIN LinesOf(r) |->
                        [vcpu |-> vcpu, line |-> LinesOf(r)[i], bytes |-> Within(r, LinesOf(r)[i])]]

MemInit ==
  /\ mem = [references |-> 0, cold |-> 0,
            bytes |-> [l \in Lines |-> {}], last_touch |-> [l \in Lines |-> 0],
            recency |-> {}, distance |-> [b \in Buckets |-> 0],
            last_line |-> [v \in Vcpus |-> -1],
            strides |-> [b \in {-c : c \in Buckets} \cup Buckets |-> 0],
            window |-> [references |-> 0, start |-> 0, unique |-> 0, samples |-> <<>>]]
  /\ refs = <<>>

MemNext == \E vcpu \in Vcpus, r \in Requests : AccessMemory(vcpu, r)

----------------------------------------------------------------------------
(* Properties *)

LinesIn(S) == {refs[i].line : i \in S}

\* The reference before i to the same line, or by the same thread.
LastOf(i, S) == {j \in S : j < i /\ \A k \in S : k < i => k <= j}
SameLine(i)  == {j \in DOMAIN refs : refs[j].line = refs[i].line}
SameVcpu(i)  == {j \in DOMAIN refs : refs[j].vcpu = refs[i].vcpu}

InBucket(d, b) == IF b = 0 THEN d = 0 ELSE 2^(b-1) <= d /\ d < 2^b

\* After any accesses the analysis is what the list of references says,
\* whatever shape the tree has taken: how many references find their line
\* again after how many other lines, how many lines each full window used,
\* which of a line's tracked bytes were touched, and each thread's strides.
MemoryExact ==
  /\ \A b \in Buckets : mem.distance[b] = Cardinality({i \in DOMAIN refs :
       \E j \in LastOf(i, SameLine(i)) : InBucket(Cardinality(LinesIn(j + 1 .. i - 1)), b)})
  /\ mem.cold = Cardinality(LinesIn(DOMAIN refs))
  /\ \A i \in DOMAIN mem.window.samples :
       mem.window.samples[i] = Cardinality(LinesIn((i - 1) * Width + 1 .. i * Width))
  /\ Len(mem.window.samples) = IF Len(refs) \div Width <= MaxSamples
                                 THEN Len(refs) \div Width ELSE MaxSamples
  /\ mem.window.unique = Cardinality(LinesIn((Len(refs) \div Width) * Width + 1 .. Len(refs)))
  /\ \A l \in Lines : mem.bytes[l] =
       {o \in UNION {refs[i].bytes : i \in {j \in DOMAIN refs : refs[j].line = l}} : o < Tracked}
  /\ \A b \in Buckets : \A s \in {1, -1} :
       mem.strides[s * b] = Cardinality({i \in DOMAIN refs :
         \E j \in LastOf(i, SameVcpu(i)) :
           LET d == refs[i].line - refs[j].line IN InBucket(s * d, b)})
============================================================================
