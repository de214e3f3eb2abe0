--------------------------- MODULE PipelineProofs ---------------------------
(***************************************************************************)
(* For rings of any size, any number of groups and threads, and any queue  *)
(* and segment sizes: the sampling worker reads what the kernel wrote,     *)
(* never from a ring that was unmapped, the deltas it computes telescope   *)
(* to the counters read, every record the kernel produced is accounted     *)
(* for, and a stop without an error means that something was sampled.      *)
(* Whatever file operations fail and wherever the recording is killed, a   *)
(* closed segment is never touched again, a table is read in the order in  *)
(* which it was published, finish leaves nothing behind, the allocation    *)
(* table's errors are reported, and a crash costs no more than the queue,  *)
(* one batch and the open segment.                                         *)
(***************************************************************************)
EXTENDS MCPipeline, SumProofs, SequenceTheorems, FiniteSetTheorems, FunctionTheorems, TLAPS

Records ==
  [kind : {"none", "sample", "lost", "mmap"}, tid : Tids \cup {0}, value : Nat]

Reading == {"pass", "copied", "parsed"}

SamplingType ==
  /\ head \in [RingIds -> Nat] /\ tail \in [RingIds -> Nat] /\ pending \in [RingIds -> Nat]
  /\ counter \in [RingIds -> [Tids -> Nat]]
  /\ slot \in [RingIds -> [0 .. RingCap - 1 -> Records]]
  /\ written \in [RingIds -> Seq(Records)] /\ handled \in [RingIds -> Seq(Records)]
  /\ rec \in Records
  /\ wpc \in Reading \cup {"none", "ended"}
  /\ wring \in Nat \ {0} /\ leader \in Nat
  /\ vpc = "built" => wpc = "none"
  /\ wpc \in {"copied", "parsed"} => wring \in RingIds

\* The slots between tail and head hold the records not yet released, in order.
RingHolds ==
  \A r \in RingIds :
    /\ head[r] = Len(written[r])
    /\ tail[r] <= head[r] /\ head[r] <= tail[r] + RingCap
    /\ \A p \in Nat : tail[r] <= p /\ p < head[r] =>
         slot[r][p % RingCap] = written[r][p + 1]

\* The worker has handled what it released, but for the record it is parsing.
WorkerFollows ==
  /\ \A r \in RingIds :
       /\ Len(handled[r]) <= Len(written[r])
       /\ \A i \in 1 .. Len(handled[r]) : handled[r][i] = written[r][i]
       /\ tail[r] = IF wpc = "parsed" /\ wring = r THEN Len(handled[r]) + 1
                    ELSE Len(handled[r])
  /\ wpc \in {"copied", "parsed"} =>
       /\ Len(handled[wring]) < Len(written[wring])
       /\ rec = written[wring][Len(handled[wring]) + 1]

StreamInvariant == SamplingType /\ RingHolds /\ WorkerFollows

----------------------------------------------------------------------------
LEMMA SamplingSteps == [Next]_vars => [SamplingNext]_sampling
<1> SUFFICES ASSUME [Next]_vars PROVE [SamplingNext]_sampling OBVIOUS
<1>1. CASE UNCHANGED vars BY <1>1 DEF vars
<1>2. CASE Sampling(KernelStep) \/ Sampling(OwnerStep)
  BY <1>2 DEF Sampling, SamplingNext
<1>3. CASE WorkerStep
  BY <1>3 DEF WorkerStep, Sampling, SamplingNext, Sampler
<1>4. CASE \/ OtherSources
           \/ Release
           \/ WriterThread /\ UNCHANGED sampling
           \/ Kill /\ UNCHANGED sampling
           \/ Recovery /\ UNCHANGED sampling
  BY <1>4 DEF OtherSources, Release
<1> QED BY <1>1, <1>2, <1>3, <1>4 DEF Next

\* Two positions less than a ring apart share a slot only if they are the same.
LEMMA SlotsApart ==
  ASSUME NEW n \in Nat \ {0}, NEW a \in Nat, NEW b \in Nat, a <= b, b < a + n,
         a % n = b % n
  PROVE  a = b
<1> DEFINE q == a \div n  p == b \div n
<1>1. q \in Int /\ a = n * q + (a % n) /\ a % n \in 0 .. n - 1 OBVIOUS
<1>2. p \in Int /\ b = n * p + (b % n) /\ b % n \in 0 .. n - 1 OBVIOUS
<1> HIDE DEF q, p
<1>3. b - a = n * (p - q) BY <1>1, <1>2
<1>4. p - q \in Int /\ 0 <= n * (p - q) /\ n * (p - q) < n BY <1>1, <1>2, <1>3
<1>5. p - q = 0
  <2>1. CASE p - q >= 1
    <3>1. PICK d \in Nat : p - q = d + 1
      <4>1. p - q - 1 \in Nat /\ p - q = (p - q - 1) + 1 BY <1>4, <2>1
      <4> QED BY <4>1
    <3>2. n * (p - q) = n * d + n BY <3>1
    <3>3. n * d >= 0 BY <3>1
    <3> QED BY <1>4, <3>2, <3>3
  <2>2. CASE p - q <= -1
    <3>1. PICK d \in Nat : p - q = -(d + 1)
      <4>1. q - p - 1 \in Nat /\ p - q = -((q - p - 1) + 1) BY <1>4, <2>2
      <4> QED BY <4>1
    <3>2. n * (p - q) = -(n * d) - n BY <3>1
    <3>3. n * d >= 0 BY <3>1
    <3> QED BY <1>4, <3>2, <3>3
  <2> QED BY <1>4, <2>1, <2>2
<1> QED BY <1>3, <1>5

\* What the kernel writes goes to slots the worker has released, and nowhere else.
LEMMA KernelWrites ==
  ASSUME StreamInvariant, NEW r \in RingIds, NEW record \in Records, Produce(r, record),
         UNCHANGED <<tail, wpc, wring, rec, handled>>
  PROVE  /\ head' \in [RingIds -> Nat] /\ pending' \in [RingIds -> Nat]
         /\ slot' \in [RingIds -> [0 .. RingCap - 1 -> Records]]
         /\ written' \in [RingIds -> Seq(Records)]
         /\ RingHolds' /\ WorkerFollows'
<1> DEFINE report  == IF pending[r] > 0 THEN <<Lost(pending[r])>> ELSE <<>>
           records == Append(report, record)
           n == Len(records)
           h == head[r]
           At(i, p) == p = (h + i - 1) % RingCap
           new == [p \in 0 .. RingCap - 1 |->
                     IF \E i \in 1 .. n : At(i, p) THEN records[CHOOSE i \in 1 .. n : At(i, p)]
                     ELSE slot[r][p]]
<1>1. /\ head \in [RingIds -> Nat] /\ tail \in [RingIds -> Nat] /\ pending \in [RingIds -> Nat]
      /\ slot \in [RingIds -> [0 .. RingCap - 1 -> Records]]
      /\ written \in [RingIds -> Seq(Records)] /\ handled \in [RingIds -> Seq(Records)]
  BY DEF StreamInvariant, SamplingType
<1>2. RingCap \in Nat \ {0} BY SamplingAssumption
<1>3. records \in Seq(Records) /\ n \in 1 .. 2
  <2>1. CASE pending[r] > 0
    <3>1. Lost(pending[r]) \in Records BY <1>1 DEF Lost, Records
    <3> QED BY <2>1, <3>1
  <2>2. CASE ~(pending[r] > 0) BY <2>2
  <2> QED BY <2>1, <2>2
<1>4. CASE ~(h - tail[r] + n <= RingCap)
  <2>1. UNCHANGED <<slot, head, written>> /\ pending' = [pending EXCEPT ![r] = @ + 1]
    BY <1>4 DEF Produce
  <2> QED BY <1>1, <2>1 DEF StreamInvariant, RingHolds, WorkerFollows
<1>5. CASE h - tail[r] + n <= RingCap
  <2>1. /\ slot' = [slot EXCEPT ![r] = new]
        /\ head' = [head EXCEPT ![r] = h + n]
        /\ written' = [written EXCEPT ![r] = written[r] \o records]
        /\ pending' = [pending EXCEPT ![r] = 0]
    BY <1>5 DEF Produce
  <2>2. \A i \in 1 .. n : (h + i - 1) \in Nat /\ (h + i - 1) % RingCap \in 0 .. RingCap - 1
    BY <1>1, <1>2, <1>3
  <2>3. ASSUME NEW i \in 1 .. n PROVE new[(h + i - 1) % RingCap] = records[i]
    <3>1. ASSUME NEW j \in 1 .. n, (h + i - 1) % RingCap = (h + j - 1) % RingCap PROVE i = j
      <4>1. n <= RingCap
        BY <1>1, <1>2, <1>3, <1>5 DEF StreamInvariant, RingHolds
      <4>2. CASE i <= j
        <5>1. h + i - 1 <= h + j - 1 /\ h + j - 1 < h + i - 1 + RingCap
          BY <1>1, <1>2, <1>3, <4>1, <4>2
        <5>2. h + i - 1 = h + j - 1 BY <1>2, <2>2, <3>1, <5>1, SlotsApart
        <5> QED BY <1>1, <1>3, <5>2
      <4>3. CASE j <= i
        <5>1. h + j - 1 <= h + i - 1 /\ h + i - 1 < h + j - 1 + RingCap
          BY <1>1, <1>2, <1>3, <4>1, <4>3
        <5>2. h + j - 1 = h + i - 1 BY <1>2, <2>2, <3>1, <5>1, SlotsApart
        <5> QED BY <1>1, <1>3, <5>2
      <4> QED BY <1>3, <4>2, <4>3
    <3>2. (CHOOSE j \in 1 .. n : At(j, (h + i - 1) % RingCap)) = i BY <3>1
    <3> QED BY <2>2, <3>2
  <2>4. ASSUME NEW p \in Nat, tail[r] <= p, p < h
        PROVE  new[p % RingCap] = slot[r][p % RingCap]
    <3>1. p % RingCap \in 0 .. RingCap - 1 BY <1>2
    <3>2. ASSUME NEW i \in 1 .. n, At(i, p % RingCap) PROVE FALSE
      <4>1. p <= h + i - 1 /\ h + i - 1 < p + RingCap BY <1>1, <1>2, <1>3, <1>5, <2>4
      <4>2. p = h + i - 1 BY <1>2, <2>2, <3>2, <4>1, SlotsApart
      <4> QED BY <1>1, <1>3, <2>4, <4>2
    <3> QED BY <3>1, <3>2
  <2>5. new \in [0 .. RingCap - 1 -> Records]
    <3> SUFFICES ASSUME NEW p \in 0 .. RingCap - 1 PROVE new[p] \in Records OBVIOUS
    <3>1. CASE \E i \in 1 .. n : At(i, p)
      <4>1. PICK i \in 1 .. n : p = (h + i - 1) % RingCap BY <3>1
      <4>2. new[p] = records[i] BY <2>3, <4>1
      <4> QED BY <1>3, <4>2
    <3>2. CASE ~\E i \in 1 .. n : At(i, p) BY <1>1, <3>2
    <3> QED BY <3>1, <3>2
  <2> HIDE DEF new, records, n, h
  <2>6. /\ Len(written[r] \o records) = Len(written[r]) + n
        /\ \A i \in 1 .. Len(written[r]) : (written[r] \o records)[i] = written[r][i]
        /\ \A i \in 1 .. n : (written[r] \o records)[Len(written[r]) + i] = records[i]
        /\ written[r] \o records \in Seq(Records)
    BY <1>1, <1>3 DEF n
  <2>7. /\ head' \in [RingIds -> Nat] /\ pending' \in [RingIds -> Nat]
        /\ slot' \in [RingIds -> [0 .. RingCap - 1 -> Records]]
        /\ written' \in [RingIds -> Seq(Records)]
    BY <1>1, <1>3, <2>1, <2>5, <2>6 DEF h
  <2>8. RingHolds'
    <3> SUFFICES ASSUME NEW q \in RingIds
                 PROVE  /\ head'[q] = Len(written'[q])
                        /\ tail[q] <= head'[q] /\ head'[q] <= tail[q] + RingCap
                        /\ \A p \in Nat : tail[q] <= p /\ p < head'[q] =>
                             slot'[q][p % RingCap] = written'[q][p + 1]
      BY DEF RingHolds
    <3>1. CASE q # r BY <1>1, <2>1, <3>1 DEF StreamInvariant, RingHolds
    <3>2. CASE q = r
      <4>1. /\ head'[r] = h + n /\ written'[r] = written[r] \o records /\ slot'[r] = new
        BY <1>1, <2>1
      <4>2. h = Len(written[r]) /\ tail[r] <= h /\ h \in Nat /\ tail[r] \in Nat
        BY <1>1 DEF StreamInvariant, RingHolds, h
      <4>3. /\ head'[r] = Len(written'[r])
            /\ tail[r] <= head'[r] /\ head'[r] <= tail[r] + RingCap
        BY <1>2, <1>3, <1>5, <2>6, <4>1, <4>2
      <4>4. ASSUME NEW p \in Nat, tail[r] <= p, p < h + n
            PROVE  new[p % RingCap] = (written[r] \o records)[p + 1]
        <5>1. CASE p < h
          <6>1. slot[r][p % RingCap] = written[r][p + 1]
            BY <4>4, <5>1 DEF StreamInvariant, RingHolds, h
          <6>2. p + 1 \in 1 .. Len(written[r]) BY <4>2, <5>1
          <6> QED BY <2>4, <2>6, <4>4, <5>1, <6>1, <6>2
        <5>2. CASE h <= p
          <6>1. PICK i \in 1 .. n : p = h + i - 1
            <7>1. p - h + 1 \in 1 .. n /\ p = h + (p - h + 1) - 1 BY <1>3, <4>2, <4>4, <5>2
            <7> QED BY <7>1
          <6>2. p + 1 = Len(written[r]) + i BY <4>2, <6>1, <1>3
          <6> QED BY <2>3, <2>6, <6>1, <6>2
        <5>3. p < h \/ h <= p BY <4>2
        <5> QED BY <5>1, <5>2, <5>3, Zenon
      <4> QED BY <3>2, <4>1, <4>3, <4>4
    <3> QED BY <3>1, <3>2
  <2>9. WorkerFollows'
    <3>1. \A q \in RingIds :
            /\ Len(written[q]) \in Nat /\ Len(handled[q]) \in Nat
            /\ Len(written'[q]) >= Len(written[q])
            /\ \A i \in 1 .. Len(written[q]) : written'[q][i] = written[q][i]
      BY <1>1, <1>3, <2>1, <2>6
    <3>2. \A q \in RingIds :
            /\ Len(handled[q]) <= Len(written'[q])
            /\ \A i \in 1 .. Len(handled[q]) : handled[q][i] = written'[q][i]
      BY <3>1 DEF StreamInvariant, WorkerFollows
    <3>3. wpc \in {"copied", "parsed"} =>
            /\ Len(handled[wring]) < Len(written'[wring])
            /\ rec = written'[wring][Len(handled[wring]) + 1]
      <4> SUFFICES ASSUME wpc \in {"copied", "parsed"}
                   PROVE  /\ Len(handled[wring]) < Len(written'[wring])
                          /\ rec = written'[wring][Len(handled[wring]) + 1]
        OBVIOUS
      <4>1. wring \in RingIds BY DEF StreamInvariant, SamplingType
      <4>2. /\ Len(handled[wring]) < Len(written[wring])
            /\ rec = written[wring][Len(handled[wring]) + 1]
        BY DEF StreamInvariant, WorkerFollows
      <4>3. Len(handled[wring]) + 1 \in 1 .. Len(written[wring]) BY <3>1, <4>1, <4>2
      <4> QED BY <3>1, <4>1, <4>2, <4>3
    <3> QED BY <3>2, <3>3 DEF StreamInvariant, WorkerFollows
  <2> QED BY <2>7, <2>8, <2>9
<1> QED BY <1>4, <1>5

LEMMA StreamInitially == SamplingInit => StreamInvariant
<1> SUFFICES ASSUME SamplingInit PROVE StreamInvariant OBVIOUS
<1>1. <<>> \in Seq(Records) /\ Nothing \in Records BY DEF Nothing, Records
<1>2. SamplingType BY <1>1 DEF SamplingInit, SamplingType
<1>3. RingHolds /\ WorkerFollows
  BY SamplingAssumption DEF SamplingInit, RingHolds, WorkerFollows
<1> QED BY <1>2, <1>3 DEF StreamInvariant

\* Steps that touch neither the rings nor what the worker has in hand.
LEMMA StreamUntouched ==
  ASSUME StreamInvariant, UNCHANGED <<head, tail, pending, slot, written, handled, rec>>,
         counter' \in [RingIds -> [Tids -> Nat]], wpc' \in {"none", "pass", "ended"} \/ wpc' = wpc,
         wpc \in {"copied", "parsed"} => UNCHANGED <<wpc, wring>>,
         wring' \in Nat \ {0}, leader' \in Nat, vpc' = "built" => vpc = "built" /\ wpc' = wpc
  PROVE  StreamInvariant'
BY DEF StreamInvariant, SamplingType, RingHolds, WorkerFollows, Reading

LEMMA KernelPreserves == StreamInvariant /\ KernelStep => StreamInvariant'
<1> SUFFICES ASSUME StreamInvariant, KernelStep PROVE StreamInvariant' OBVIOUS
<1> USE DEF kernel, shared, owner, produced
<1>1. ASSUME NEW r \in RingIds, NEW t \in Tids, Interrupt(r, t) PROVE StreamInvariant'
  <2>1. counter[r][t] + 1 \in Nat /\ counter' \in [RingIds -> [Tids -> Nat]]
    BY <1>1 DEF Interrupt, StreamInvariant, SamplingType
  <2>2. Sample(t, counter[r][t] + 1) \in Records BY <2>1 DEF Sample, Records
  <2>3. UNCHANGED <<tail, wpc, wring, rec, handled, leader, vpc>> BY <1>1 DEF Interrupt
  <2>4. Produce(r, Sample(t, counter[r][t] + 1)) BY <1>1 DEF Interrupt
  <2>5. /\ head' \in [RingIds -> Nat] /\ pending' \in [RingIds -> Nat]
        /\ slot' \in [RingIds -> [0 .. RingCap - 1 -> Records]]
        /\ written' \in [RingIds -> Seq(Records)]
        /\ RingHolds' /\ WorkerFollows'
    BY <2>2, <2>3, <2>4, KernelWrites
  <2> QED BY <2>1, <2>3, <2>5 DEF StreamInvariant, SamplingType
<1>2. ASSUME NEW r \in RingIds, MapModule(r) PROVE StreamInvariant'
  <2>1. Address \in Records BY DEF Address, Records
  <2>2. UNCHANGED <<tail, wpc, wring, rec, handled, leader, vpc, counter>> BY <1>2 DEF MapModule
  <2>3. Produce(r, Address) BY <1>2 DEF MapModule
  <2>4. /\ head' \in [RingIds -> Nat] /\ pending' \in [RingIds -> Nat]
        /\ slot' \in [RingIds -> [0 .. RingCap - 1 -> Records]]
        /\ written' \in [RingIds -> Seq(Records)]
        /\ RingHolds' /\ WorkerFollows'
    BY <2>1, <2>2, <2>3, KernelWrites
  <2> QED BY <2>2, <2>4 DEF StreamInvariant, SamplingType
<1>3. ASSUME NEW t \in Tids, ReuseTid(t) PROVE StreamInvariant'
  <2>1. counter' \in [RingIds -> [Tids -> Nat]]
    BY <1>3 DEF ReuseTid, StreamInvariant, SamplingType
  <2> QED BY <1>3, <2>1, StreamUntouched DEF ReuseTid, StreamInvariant, SamplingType
<1>4. ASSUME NEW r \in RingIds, Reach(r) \/ Exec(r) PROVE StreamInvariant'
  BY <1>4, StreamUntouched DEF Reach, Exec, StreamInvariant, SamplingType
<1>5. CASE Exit
  BY <1>5, StreamUntouched DEF Exit, StreamInvariant, SamplingType
<1> QED BY <1>1, <1>2, <1>3, <1>4, <1>5 DEF KernelStep

LEMMA SamplerPreserves == StreamInvariant /\ Sampler => StreamInvariant'
<1> SUFFICES ASSUME StreamInvariant, Sampler PROVE StreamInvariant' OBVIOUS
<1> USE DEF kernel, shared, owner, produced
<1>1. CASE RingEmpty \/ CheckRunning
  BY <1>1, StreamUntouched DEF RingEmpty, CheckRunning, StreamInvariant, SamplingType
<1>2. CASE CopyRecord
  <2>1. /\ wring \in RingIds /\ wpc = "pass" /\ wpc' = "copied"
        /\ rec' = slot[wring][tail[wring] % RingCap] /\ tail[wring] # head[wring]
        /\ UNCHANGED <<head, tail, pending, slot, written, handled, counter, wring, leader, vpc>>
    <3>1. wring >= 1 BY DEF StreamInvariant, SamplingType
    <3> QED BY <1>2, <3>1, SamplingAssumption DEF CopyRecord, RingIds, StreamInvariant, SamplingType
  <2>2. tail[wring] \in Nat /\ head[wring] \in Nat /\ tail[wring] < head[wring]
    BY <2>1 DEF StreamInvariant, SamplingType, RingHolds
  <2>3. rec' = written[wring][tail[wring] + 1]
    BY <2>1, <2>2 DEF StreamInvariant, RingHolds
  <2>4. tail[wring] = Len(handled[wring]) /\ head[wring] = Len(written[wring])
    BY <2>1 DEF StreamInvariant, WorkerFollows, RingHolds
  <2>5. rec' \in Records
    <3>1. RingCap \in Nat \ {0} BY SamplingAssumption
    <3>2. PICK n \in Nat : n = tail[wring] BY <2>2
    <3>3. n % RingCap \in 0 .. RingCap - 1 BY <3>1
    <3> QED BY <2>1, <3>2, <3>3 DEF StreamInvariant, SamplingType
  <2>6. SamplingType' /\ RingHolds'
    BY <2>1, <2>5 DEF StreamInvariant, SamplingType, RingHolds, Reading
  <2>7. WorkerFollows'
    BY <2>1, <2>2, <2>3, <2>4 DEF StreamInvariant, WorkerFollows
  <2> QED BY <2>6, <2>7 DEF StreamInvariant
<1>3. CASE UpdateTail
  <2>1. /\ wring \in RingIds /\ wpc = "copied" /\ wpc' = "parsed"
        /\ tail' = [tail EXCEPT ![wring] = tail[wring] + 1]
        /\ UNCHANGED <<head, pending, slot, written, handled, rec, counter, wring, leader, vpc>>
    BY <1>3 DEF UpdateTail, StreamInvariant, SamplingType
  <2>2. tail[wring] = Len(handled[wring]) /\ Len(handled[wring]) < Len(written[wring])
    BY <2>1 DEF StreamInvariant, WorkerFollows
  <2>3. SamplingType'
    BY <2>1 DEF StreamInvariant, SamplingType, Reading
  <2>4. RingHolds'
    <3> SUFFICES ASSUME NEW q \in RingIds
                 PROVE  /\ head[q] = Len(written[q])
                        /\ tail'[q] <= head[q] /\ head[q] <= tail'[q] + RingCap
                        /\ \A p \in Nat : tail'[q] <= p /\ p < head[q] =>
                             slot[q][p % RingCap] = written[q][p + 1]
      BY <2>1 DEF RingHolds
    <3>1. tail[q] \in Nat /\ head[q] \in Nat /\ RingCap \in Nat
      BY SamplingAssumption DEF StreamInvariant, SamplingType
    <3>2. /\ head[q] = Len(written[q]) /\ tail[q] <= head[q] /\ head[q] <= tail[q] + RingCap
          /\ \A p \in Nat : tail[q] <= p /\ p < head[q] =>
               slot[q][p % RingCap] = written[q][p + 1]
      BY DEF StreamInvariant, RingHolds
    <3>3. tail'[q] \in {tail[q], tail[q] + 1} /\ tail'[q] <= head[q]
      BY <2>1, <2>2, <3>1, <3>2 DEF StreamInvariant, SamplingType
    <3>4. /\ tail'[q] \in Nat /\ tail[q] <= tail'[q] /\ head[q] <= tail'[q] + RingCap
      BY <3>1, <3>2, <3>3
    <3>5. ASSUME NEW p \in Nat, tail'[q] <= p, p < head[q]
          PROVE  slot[q][p % RingCap] = written[q][p + 1]
      <4>1. tail[q] <= p BY <3>1, <3>4, <3>5
      <4> QED BY <3>2, <3>5, <4>1
    <3> QED BY <3>2, <3>3, <3>4, <3>5
  <2>5. WorkerFollows'
    BY <2>1, <2>2 DEF StreamInvariant, SamplingType, WorkerFollows
  <2> QED BY <2>3, <2>4, <2>5 DEF StreamInvariant
<1>4. CASE EmitSample \/ EmitAddress \/ CountLost
  <2>1. /\ wring \in RingIds /\ wpc = "parsed" /\ wpc' = "pass" /\ rec' = Nothing
        /\ handled' = [handled EXCEPT ![wring] = Append(handled[wring], rec)]
        /\ UNCHANGED <<head, tail, pending, slot, written, counter, wring, leader, vpc>>
    BY <1>4 DEF EmitSample, EmitAddress, CountLost, Handle, StreamInvariant, SamplingType
  <2> DEFINE more == Append(handled[wring], rec)
  <2>2. handled[wring] \in Seq(Records) /\ rec \in Records /\ Len(handled[wring]) \in Nat
    BY <2>1 DEF StreamInvariant, SamplingType
  <2>3. /\ more \in Seq(Records) /\ Len(more) = Len(handled[wring]) + 1
        /\ more[Len(handled[wring]) + 1] = rec
        /\ \A i \in 1 .. Len(handled[wring]) : more[i] = handled[wring][i]
    BY <2>2
  <2> HIDE DEF more
  <2>4. Nothing \in Records BY DEF Nothing, Records
  <2>5. SamplingType' /\ RingHolds'
    BY <2>1, <2>3, <2>4 DEF StreamInvariant, SamplingType, RingHolds, Reading, more
  <2>6. /\ tail[wring] = Len(handled[wring]) + 1
        /\ Len(handled[wring]) < Len(written[wring])
        /\ rec = written[wring][Len(handled[wring]) + 1]
    BY <2>1 DEF StreamInvariant, WorkerFollows
  <2>7. WorkerFollows'
    <3> SUFFICES ASSUME NEW q \in RingIds
                 PROVE  /\ Len(handled'[q]) <= Len(written[q])
                        /\ \A i \in 1 .. Len(handled'[q]) : handled'[q][i] = written[q][i]
                        /\ tail[q] = Len(handled'[q])
      BY <2>1 DEF WorkerFollows
    <3>1. CASE q # wring
      BY <2>1, <3>1 DEF StreamInvariant, SamplingType, WorkerFollows
    <3>2. CASE q = wring
      <4>1. handled'[q] = more
        BY <2>1, <3>2 DEF StreamInvariant, SamplingType, more
      <4>2. \A i \in 1 .. Len(handled[wring]) : handled[wring][i] = written[wring][i]
        BY <2>1 DEF StreamInvariant, WorkerFollows
      <4>3. Len(written[wring]) \in Nat BY <2>1 DEF StreamInvariant, SamplingType
      <4>4. \A i \in 1 .. Len(more) : more[i] = written[wring][i]
        BY <2>2, <2>3, <2>6, <4>2
      <4> QED BY <2>2, <2>3, <2>6, <3>2, <4>1, <4>3, <4>4
    <3> QED BY <3>1, <3>2
  <2> QED BY <2>5, <2>7 DEF StreamInvariant
<1> QED BY <1>1, <1>2, <1>3, <1>4 DEF Sampler

LEMMA OwnerPreserves == StreamInvariant /\ OwnerStep => StreamInvariant'
<1> SUFFICES ASSUME StreamInvariant, OwnerStep PROVE StreamInvariant' OBVIOUS
<1> USE DEF kernel, shared, owner, produced
<1>1. CASE StartWorker
  <2>1. UNCHANGED <<head, tail, pending, slot, written, handled, rec, counter>> BY <1>1 DEF StartWorker
  <2>2. wpc' = "pass" /\ wring' = 1 /\ leader' = 1 /\ vpc = "built" /\ vpc' = "sampling"
    BY <1>1 DEF StartWorker
  <2> QED BY <2>1, <2>2, StreamUntouched DEF StreamInvariant, SamplingType
<1>2. CASE StartEnable \/ StopDisable
  BY <1>2, StreamUntouched DEF StartEnable, StopDisable, StreamInvariant, SamplingType
<1>3. CASE StopFlag \/ StopJoin \/ DropFlag \/ DropUnmap
  BY <1>3, StreamUntouched DEF StopFlag, StopJoin, DropFlag, DropUnmap, StreamInvariant, SamplingType
<1> QED BY <1>1, <1>2, <1>3 DEF OwnerStep

LEMMA StreamInductive == StreamInvariant /\ [Next]_vars => StreamInvariant'
<1> SUFFICES ASSUME StreamInvariant, [SamplingNext]_sampling PROVE StreamInvariant'
  BY SamplingSteps
<1>1. CASE UNCHANGED sampling
  <2>1. UNCHANGED <<head, tail, pending, slot, written, handled, rec, counter, wpc, wring, leader, vpc>>
    BY <1>1 DEF sampling, kernel, shared, owner, produced
  <2> QED BY <2>1, StreamUntouched DEF StreamInvariant, SamplingType
<1> QED BY <1>1, KernelPreserves, SamplerPreserves, OwnerPreserves DEF SamplingNext

LEMMA PrefixIs ==
  ASSUME NEW S, NEW a \in Seq(S), NEW b \in Seq(S), Len(a) <= Len(b),
         \A i \in 1 .. Len(a) : a[i] = b[i]
  PROVE  a = SubSeq(b, 1, Len(a))
<1>1. SubSeq(b, 1, Len(a)) \in Seq(S) /\ Len(SubSeq(b, 1, Len(a))) = Len(a)
  BY SubSeqProperties
<1>2. \A i \in 1 .. Len(a) : SubSeq(b, 1, Len(a))[i] = b[i]
  BY SubSeqProperties
<1> QED BY <1>1, <1>2, SeqEqual

\* A sequence followed by the next element of what it is a prefix of.
LEMMA OneMore ==
  ASSUME NEW S, NEW a \in Seq(S), NEW b \in Seq(S), NEW e \in S, Len(a) < Len(b),
         \A i \in 1 .. Len(a) : a[i] = b[i], e = b[Len(a) + 1]
  PROVE  /\ Len(a \o <<e>>) = Len(a) + 1
         /\ Len(a \o <<e>>) <= Len(b)
         /\ a \o <<e>> = SubSeq(b, 1, Len(a \o <<e>>))
<1>1. Len(a) \in Nat /\ Len(b) \in Nat OBVIOUS
<1> DEFINE more == a \o <<e>>
<1>2. /\ more \in Seq(S) /\ Len(more) = Len(a) + 1
      /\ \A i \in 1 .. Len(a) : more[i] = a[i]
      /\ more[Len(a) + 1] = e
  OBVIOUS
<1> HIDE DEF more
<1>3. Len(more) <= Len(b) BY <1>1, <1>2
<1>4. \A i \in 1 .. Len(more) : more[i] = b[i] BY <1>1, <1>2
<1>5. more = SubSeq(b, 1, Len(more)) BY <1>2, <1>3, <1>4, PrefixIs
<1> QED BY <1>2, <1>3, <1>5 DEF more

\* copy_from_ring and update_tail against a kernel that writes at any time: what the
\* worker handles is the kernel's stream, whatever the size of the ring.
THEOREM StreamIsFaithful == Spec => []StreamFaithful
<1>1. StreamInvariant => StreamFaithful
  <2> SUFFICES ASSUME StreamInvariant, NEW r \in RingIds
               PROVE  LET inHand == IF wpc \in {"copied", "parsed"} /\ wring = r THEN <<rec>>
                                    ELSE <<>>
                          done   == handled[r] \o inHand
                      IN /\ Len(done) <= Len(written[r])
                         /\ done = SubSeq(written[r], 1, Len(done))
                         /\ tail[r] = IF wpc = "copied" /\ wring = r THEN Len(done) - 1
                                     ELSE Len(done)
    BY Zenon DEF StreamFaithful
  <2>1. /\ handled[r] \in Seq(Records) /\ written[r] \in Seq(Records) /\ rec \in Records
        /\ Len(handled[r]) \in Nat /\ Len(written[r]) \in Nat
    BY DEF StreamInvariant, SamplingType
  <2>2. /\ Len(handled[r]) <= Len(written[r])
        /\ \A i \in 1 .. Len(handled[r]) : handled[r][i] = written[r][i]
        /\ tail[r] = IF wpc = "parsed" /\ wring = r THEN Len(handled[r]) + 1 ELSE Len(handled[r])
    BY DEF StreamInvariant, WorkerFollows
  <2>3. CASE wpc \in {"copied", "parsed"} /\ wring = r
    <3>1. /\ Len(handled[r]) < Len(written[r])
          /\ rec = written[r][Len(handled[r]) + 1]
      BY <2>3 DEF StreamInvariant, WorkerFollows
    <3> DEFINE done == handled[r] \o <<rec>>
    <3>2. /\ Len(done) = Len(handled[r]) + 1
          /\ Len(done) <= Len(written[r])
          /\ done = SubSeq(written[r], 1, Len(done))
      BY <2>1, <2>2, <3>1, OneMore
    <3> HIDE DEF done
    <3>3. tail[r] = IF wpc = "copied" /\ wring = r THEN Len(done) - 1 ELSE Len(done)
      BY <2>1, <2>2, <2>3, <3>2
    <3> QED BY <2>3, <3>2, <3>3, Zenon DEF done
  <2>4. CASE ~(wpc \in {"copied", "parsed"} /\ wring = r)
    <3>1. handled[r] \o <<>> = handled[r] BY <2>1, ConcatEmptySeq
    <3>2. handled[r] = SubSeq(written[r], 1, Len(handled[r])) BY <2>1, <2>2, PrefixIs
    <3>3. tail[r] = Len(handled[r]) BY <2>2, <2>4
    <3> QED BY <2>2, <2>4, <3>1, <3>2, <3>3
  <2> QED BY <2>3, <2>4
<1>2. Init => StreamInvariant BY StreamInitially DEF Init
<1> QED BY <1>1, <1>2, StreamInductive, PTL DEF Spec

----------------------------------------------------------------------------
(* The driver's life *)

\* The rings go only after the worker, which nobody starts again.
LifeInvariant ==
  /\ vpc = "built" => wpc = "none"
  /\ wpc \in Reading \cup {"none", "ended"}
  /\ vpc \in {"built", "sampling", "stopping", "joining", "stopped", "failed", "dropping", "dropped"}
  /\ ~mapped => vpc = "dropped" /\ wpc \in {"none", "ended"}

\* A driver that is dropped, stopped or not, while its worker is anywhere in its
\* loop unmaps the rings after the worker has ended.
THEOREM RingsOutliveWorker == Spec => []NoReadAfterUnmap
<1>1. Init => LifeInvariant BY DEF Init, SamplingInit, LifeInvariant, Reading
<1>2. LifeInvariant /\ [Next]_vars => LifeInvariant'
  <2> SUFFICES ASSUME LifeInvariant, [SamplingNext]_sampling PROVE LifeInvariant'
    BY SamplingSteps
  <2> USE DEF LifeInvariant, kernel, shared, owner, produced, Reading
  <2>1. CASE UNCHANGED sampling BY <2>1 DEF sampling
  <2>2. CASE KernelStep
    <3>1. UNCHANGED <<vpc, wpc, mapped>>
      BY <2>2 DEF KernelStep, Interrupt, MapModule, ReuseTid, Reach, Exec, Exit
    <3> QED BY <3>1
  <2>3. CASE Sampler
    <3>1. UNCHANGED <<vpc, mapped>> /\ wpc \in {"pass", "copied", "parsed"}
          /\ wpc' \in {"pass", "copied", "parsed", "ended"}
      BY <2>3 DEF Sampler, RingEmpty, CopyRecord, UpdateTail, CheckRunning, EmitSample, EmitAddress,
         CountLost, Handle
    <3> QED BY <3>1
  <2>4. CASE StartEnable \/ StartWorker \/ StopDisable
    BY <2>4 DEF StartEnable, StartWorker, StopDisable
  <2>5. CASE StopFlag \/ StopJoin \/ DropFlag \/ DropUnmap
    BY <2>5 DEF StopFlag, StopJoin, DropFlag, DropUnmap
  <2> QED BY <2>1, <2>2, <2>3, <2>4, <2>5 DEF SamplingNext, OwnerStep
<1>3. LifeInvariant => NoReadAfterUnmap BY DEF LifeInvariant, NoReadAfterUnmap
<1> QED BY <1>1, <1>2, <1>3, PTL DEF Spec

----------------------------------------------------------------------------
(* The segments on disk *)

Segments == [rows : Seq(Nat), footer : BOOLEAN]

Published == [table : Tables, n : Nat]

RowsTyped ==
  /\ queue \in Seq(Published) /\ sent \in [Tables -> Nat]
  /\ rows \in [Tables -> Seq(Nat)]

\* The segments of a table are its closed ones, numbered below seq, and perhaps one more:
\* the open one, or what a failed close left of it.
DiskOrdered ==
  /\ files \in [Tables -> Seq(Segments)]
  /\ seq \in [Tables -> Nat] /\ current \in [Tables -> BOOLEAN]
  /\ \A t \in Tables :
       /\ seq[t] <= Len(files[t]) /\ Len(files[t]) <= seq[t] + 1
       /\ current[t] => Len(files[t]) = seq[t] + 1
       /\ \A i \in 1 .. Len(files[t]) : files[t][i].footer <=> i <= seq[t]

SegmentInvariant == RowsTyped /\ DiskOrdered

\* The files of table t with the segment of number seq as their last one.
Tip(t, new, done) ==
  /\ new \in Seq(Segments) /\ Len(new) = seq[t] + 1
  /\ \A i \in 1 .. seq[t] : new[i] = files[t][i]
  /\ new[seq[t] + 1].footer = done

\* What any operation of SegmentWriter does on disk.
DiskStep(t) ==
  \/ UNCHANGED disk
  \/ \E new, open :
       /\ Tip(t, new, FALSE) /\ open \in BOOLEAN
       /\ files' = [files EXCEPT ![t] = new] /\ current' = [current EXCEPT ![t] = open]
       /\ seq' = seq
  \/ \E new :
       /\ Tip(t, new, TRUE)
       /\ files' = [files EXCEPT ![t] = new] /\ current' = [current EXCEPT ![t] = FALSE]
       /\ seq' = [seq EXCEPT ![t] = @ + 1]

ClosedStay ==
  \A t \in Tables : \A i \in DOMAIN files[t] :
    files[t][i].footer => i \in DOMAIN files'[t] /\ files'[t][i] = files[t][i]

----------------------------------------------------------------------------
LEMMA StepIsSafe ==
  ASSUME DiskOrdered, NEW t \in Tables, DiskStep(t) PROVE DiskOrdered' /\ ClosedStay
<1>1. CASE UNCHANGED disk
  BY <1>1 DEF disk, DiskOrdered, ClosedStay
<1>2. ASSUME NEW new, NEW open \in BOOLEAN, NEW done \in BOOLEAN,
             Tip(t, new, done), done => ~open,
             files' = [files EXCEPT ![t] = new], current' = [current EXCEPT ![t] = open],
             seq' = [seq EXCEPT ![t] = IF done THEN seq[t] + 1 ELSE seq[t]]
      PROVE  DiskOrdered' /\ ClosedStay
  <2>1. /\ files \in [Tables -> Seq(Segments)] /\ seq \in [Tables -> Nat]
        /\ current \in [Tables -> BOOLEAN] /\ seq[t] \in Nat
    BY DEF DiskOrdered
  <2>2. /\ new \in Seq(Segments) /\ Len(new) = seq[t] + 1
        /\ \A i \in 1 .. seq[t] : new[i] = files[t][i]
        /\ new[seq[t] + 1].footer = done
    BY <1>2 DEF Tip
  <2>3. /\ files' \in [Tables -> Seq(Segments)] /\ seq' \in [Tables -> Nat]
        /\ current' \in [Tables -> BOOLEAN]
    BY <1>2, <2>1, <2>2
  <2>4. /\ files'[t] = new /\ current'[t] = open
        /\ seq'[t] = IF done THEN seq[t] + 1 ELSE seq[t]
        /\ \A u \in Tables : u # t => files'[u] = files[u] /\ seq'[u] = seq[u] /\ current'[u] = current[u]
    BY <1>2, <2>1
  <2>5. /\ seq[t] <= Len(files[t])
        /\ \A i \in 1 .. Len(files[t]) : files[t][i].footer <=> i <= seq[t]
    BY DEF DiskOrdered
  <2>6. Len(files[t]) \in Nat /\ DOMAIN files[t] = 1 .. Len(files[t]) BY <2>1
  <2>7. /\ seq'[t] <= Len(new) /\ Len(new) <= seq'[t] + 1
        /\ open => Len(new) = seq'[t] + 1
    BY <1>2, <2>1, <2>2, <2>4
  <2>8. ASSUME NEW i \in 1 .. seq[t] + 1 PROVE new[i].footer <=> i <= seq'[t]
    <3>1. CASE i = seq[t] + 1 BY <1>2, <2>1, <2>2, <2>4, <3>1
    <3>2. CASE i \in 1 .. seq[t]
      <4>1. i \in 1 .. Len(files[t]) /\ i <= seq[t] BY <2>1, <2>5, <2>6, <3>2
      <4>2. files[t][i].footer BY <2>5, <4>1
      <4>3. i <= seq'[t] BY <1>2, <2>1, <2>4, <4>1
      <4> QED BY <2>2, <3>2, <4>2, <4>3
    <3> QED BY <2>1, <3>1, <3>2
  <2>9. DiskOrdered'
    <3> SUFFICES ASSUME NEW u \in Tables
                 PROVE  /\ seq'[u] <= Len(files'[u]) /\ Len(files'[u]) <= seq'[u] + 1
                        /\ current'[u] => Len(files'[u]) = seq'[u] + 1
                        /\ \A i \in 1 .. Len(files'[u]) : files'[u][i].footer <=> i <= seq'[u]
      BY <2>3 DEF DiskOrdered
    <3>1. CASE u = t BY <2>2, <2>4, <2>7, <2>8, <3>1
    <3>2. CASE u # t BY <2>4, <3>2 DEF DiskOrdered
    <3> QED BY <3>1, <3>2
  <2>10. ClosedStay
    <3> SUFFICES ASSUME NEW u \in Tables, NEW i \in DOMAIN files[u], files[u][i].footer
                 PROVE  i \in DOMAIN files'[u] /\ files'[u][i] = files[u][i]
      BY DEF ClosedStay
    <3>1. CASE u = t
      <4>1. i \in 1 .. seq[t] BY <2>1, <2>5, <2>6, <3>1
      <4>2. DOMAIN new = 1 .. seq[t] + 1 BY <2>2
      <4> QED BY <2>1, <2>2, <2>4, <3>1, <4>1, <4>2
    <3>2. CASE u # t BY <2>4, <3>2
    <3> QED BY <3>1, <3>2
  <2> QED BY <2>9, <2>10
<1>3. CASE \E new, open :
             /\ Tip(t, new, FALSE) /\ open \in BOOLEAN
             /\ files' = [files EXCEPT ![t] = new] /\ current' = [current EXCEPT ![t] = open]
             /\ seq' = seq
  <2>1. seq = [seq EXCEPT ![t] = seq[t]] BY DEF DiskOrdered
  <2> QED BY <1>2, <1>3, <2>1
<1>4. CASE \E new :
             /\ Tip(t, new, TRUE)
             /\ files' = [files EXCEPT ![t] = new] /\ current' = [current EXCEPT ![t] = FALSE]
             /\ seq' = [seq EXCEPT ![t] = @ + 1]
  BY <1>2, <1>4
<1> QED BY <1>1, <1>3, <1>4 DEF DiskStep

\* File::create leaves the segments before its own alone.
LEMMA OpenedIs == ASSUME DiskOrdered, NEW t \in Tables PROVE Tip(t, Opened(t), FALSE)
<1>1. /\ files[t] \in Seq(Segments) /\ seq[t] \in Nat
      /\ seq[t] <= Len(files[t]) /\ Len(files[t]) <= seq[t] + 1
      /\ current[t] => Len(files[t]) = seq[t] + 1
      /\ \A i \in 1 .. Len(files[t]) : files[t][i].footer <=> i <= seq[t]
  BY DEF DiskOrdered
<1>2. CASE current[t]
  <2>1. Opened(t) = files[t] /\ Len(files[t]) = seq[t] + 1 BY <1>1, <1>2 DEF Opened
  <2>2. seq[t] + 1 \in 1 .. Len(files[t]) /\ ~(seq[t] + 1 <= seq[t]) BY <1>1, <2>1
  <2>3. files[t][seq[t] + 1] \in Segments BY <1>1, <2>2
  <2>4. files[t][seq[t] + 1].footer = FALSE BY <1>1, <2>2, <2>3 DEF Segments
  <2> QED BY <1>1, <2>1, <2>4 DEF Tip
<1>3. CASE ~current[t]
  <2> DEFINE kept == SubSeq(files[t], 1, seq[t])
  <2>1. /\ kept \in Seq(Segments) /\ Len(kept) = seq[t]
        /\ \A i \in 1 .. seq[t] : kept[i] = files[t][i]
    BY <1>1
  <2>2. OpenFile \in Segments /\ OpenFile.footer = FALSE
    <3>1. <<>> \in Seq(Nat) OBVIOUS
    <3> QED BY <3>1 DEF OpenFile, Segments
  <2>3. Opened(t) = kept \o <<OpenFile>> BY <1>3 DEF Opened, Create
  <2> HIDE DEF kept
  <2>4. kept \o <<OpenFile>> = Append(kept, OpenFile) BY <2>1, <2>2
  <2>5. /\ Append(kept, OpenFile) \in Seq(Segments)
        /\ Len(Append(kept, OpenFile)) = seq[t] + 1
        /\ \A i \in 1 .. seq[t] : Append(kept, OpenFile)[i] = kept[i]
        /\ Append(kept, OpenFile)[seq[t] + 1] = OpenFile
    BY <1>1, <2>1, <2>2
  <2>6. Opened(t) = Append(kept, OpenFile) BY <2>3, <2>4
  <2> QED BY <2>1, <2>2, <2>5, <2>6 DEF Tip
<1> QED BY <1>2, <1>3

LEMMA FilledIs ==
  ASSUME DiskOrdered, NEW t \in Tables, NEW batch \in Seq(Nat)
  PROVE  Tip(t, Filled(t, batch), FALSE)
<1> DEFINE opened == Opened(t)
           k == seq[t] + 1
<1>1. /\ opened \in Seq(Segments) /\ Len(opened) = k
      /\ \A i \in 1 .. seq[t] : opened[i] = files[t][i]
  BY OpenedIs DEF Tip
<1>2. seq[t] \in Nat BY DEF DiskOrdered
<1>3. opened[k].footer = FALSE BY OpenedIs DEF Tip
<1> HIDE DEF opened
<1>4. k \in 1 .. Len(opened) /\ k \in Nat BY <1>1, <1>2
<1>5. opened[k] \in Segments BY <1>1, <1>4
<1>6. Filled(t, batch) = [opened EXCEPT ![k] = [opened[k] EXCEPT !.rows = opened[k].rows \o batch]]
  BY DEF Filled, opened
<1> DEFINE filled == [opened[k] EXCEPT !.rows = opened[k].rows \o batch]
<1>7. filled \in Segments /\ filled.footer = FALSE
  <2>1. opened[k].rows \in Seq(Nat) BY <1>5 DEF Segments
  <2>2. opened[k].rows \o batch \in Seq(Nat) BY <2>1
  <2> QED BY <1>3, <1>5, <2>2 DEF Segments
<1> HIDE DEF filled
<1>8. /\ [opened EXCEPT ![k] = filled] \in Seq(Segments)
      /\ Len([opened EXCEPT ![k] = filled]) = k
      /\ [opened EXCEPT ![k] = filled][k] = filled
      /\ \A i \in 1 .. seq[t] : [opened EXCEPT ![k] = filled][i] = opened[i]
  BY <1>1, <1>2, <1>4, <1>7
<1> QED BY <1>1, <1>6, <1>7, <1>8 DEF Tip, filled

LEMMA ClosedIs ==
  ASSUME DiskOrdered, NEW t \in Tables, NEW new, Tip(t, new, FALSE)
  PROVE  Tip(t, Closed(new, t), TRUE)
<1> DEFINE k == seq[t] + 1
           closed == [new[k] EXCEPT !.footer = TRUE]
<1>1. seq[t] \in Nat BY DEF DiskOrdered
<1>2. new \in Seq(Segments) /\ Len(new) = k /\ \A i \in 1 .. seq[t] : new[i] = files[t][i]
  BY DEF Tip
<1>3. k \in 1 .. Len(new) /\ new[k] \in Segments BY <1>1, <1>2
<1>4. closed \in Segments /\ closed.footer = TRUE BY <1>3 DEF Segments
<1>5. Closed(new, t) = [new EXCEPT ![k] = closed] BY DEF Closed
<1> HIDE DEF closed
<1>6. /\ [new EXCEPT ![k] = closed] \in Seq(Segments)
      /\ Len([new EXCEPT ![k] = closed]) = k
      /\ [new EXCEPT ![k] = closed][k] = closed
      /\ \A i \in 1 .. seq[t] : [new EXCEPT ![k] = closed][i] = new[i]
  BY <1>1, <1>2, <1>3, <1>4
<1> QED BY <1>2, <1>4, <1>5, <1>6 DEF Tip

----------------------------------------------------------------------------
(* The operations *)

LEMMA CloseFailsIs ==
  ASSUME DiskOrdered, NEW t \in Tables, NEW new, Tip(t, new, FALSE), CloseFails(t, new)
  PROVE  DiskStep(t)
BY DEF CloseFails, DiskStep

LEMMA CloseOkIs ==
  ASSUME DiskOrdered, NEW t \in Tables, NEW new, Tip(t, new, FALSE), CloseOk(t, new)
  PROVE  DiskStep(t)
<1>1. Tip(t, Closed(new, t), TRUE) BY ClosedIs
<1> QED BY <1>1 DEF CloseOk, DiskStep

LEMMA WriteIs ==
  ASSUME DiskOrdered, NEW t \in Tables, NEW batch \in Seq(Nat),
         WriteOk(t, batch) \/ WriteFails(t, batch)
  PROVE  DiskStep(t)
<1>1. Tip(t, Opened(t), FALSE) /\ Tip(t, Filled(t, batch), FALSE) BY OpenedIs, FilledIs
<1>2. current = [current EXCEPT ![t] = current[t]] /\ current[t] \in BOOLEAN BY DEF DiskOrdered
<1>3. CASE WriteOk(t, batch)
  <2>1. CASE CloseOk(t, Filled(t, batch)) BY <1>1, <2>1, CloseOkIs
  <2>2. CASE /\ files' = [files EXCEPT ![t] = Filled(t, batch)]
             /\ current' = [current EXCEPT ![t] = TRUE]
             /\ UNCHANGED seq
    BY <1>1, <2>2 DEF DiskStep
  <2> QED BY <1>3, <2>1, <2>2 DEF WriteOk
<1>4. CASE WriteFails(t, batch)
  <2>1. CASE UNCHANGED disk BY <2>1 DEF DiskStep
  <2>2. CASE files' = [files EXCEPT ![t] = Opened(t)] /\ UNCHANGED <<current, seq>>
    BY <1>1, <1>2, <2>2 DEF DiskStep
  <2>3. CASE /\ \E segments \in {Opened(t), Filled(t, batch)} :
                  files' = [files EXCEPT ![t] = segments]
             /\ current' = [current EXCEPT ![t] = TRUE]
             /\ UNCHANGED seq
    <3>1. PICK segments \in {Opened(t), Filled(t, batch)} : files' = [files EXCEPT ![t] = segments]
      BY <2>3
    <3>2. Tip(t, segments, FALSE) BY <1>1
    <3> QED BY <2>3, <3>1, <3>2 DEF DiskStep
  <2>4. CASE CloseFails(t, Filled(t, batch)) BY <1>1, <2>4, CloseFailsIs
  <2> QED BY <1>4, <2>1, <2>2, <2>3, <2>4 DEF WriteFails, disk
<1> QED BY <1>3, <1>4

LEMMA RollIs ==
  ASSUME DiskOrdered, NEW t \in Tables, RollOk(t) \/ RollFails(t) PROVE DiskStep(t)
<1>1. CASE current[t]
  <2>1. Tip(t, files[t], FALSE)
    <3>1. Opened(t) = files[t] BY <1>1 DEF Opened
    <3> QED BY <3>1, OpenedIs
  <2>2. CloseOk(t, files[t]) \/ CloseFails(t, files[t]) BY <1>1 DEF RollOk, RollFails
  <2> QED BY <2>1, <2>2, CloseOkIs, CloseFailsIs
<1>2. CASE ~current[t] BY <1>2 DEF RollOk, RollFails, DiskStep
<1> QED BY <1>1, <1>2

LEMMA FlushIs ==
  ASSUME DiskOrdered, NEW t \in Tables, NEW batch \in Seq(Nat), Flush(t, batch)
  PROVE  DiskStep(t) /\ rows' = [rows EXCEPT ![t] = <<>>]
<1>1. CASE batch = <<>> /\ UNCHANGED <<disk, faults, failure>> BY <1>1 DEF Flush, DiskStep
<1>2. CASE WriteOk(t, batch) \/ WriteFails(t, batch) BY <1>2, WriteIs DEF Flush
<1> QED BY <1>1, <1>2 DEF Flush

LEMMA WriteAllIs ==
  ASSUME DiskOrdered, NEW t \in Tables, NEW batch \in Seq(Nat), WriteAll(t, batch)
  PROVE  DiskStep(t)
<1>1. Tip(t, Filled(t, batch), FALSE) BY FilledIs
<1>2. CASE UNCHANGED disk BY <1>2 DEF DiskStep
<1>3. CASE CloseOk(t, Filled(t, batch)) BY <1>1, <1>3, CloseOkIs
<1>4. CASE CloseFails(t, Filled(t, batch)) BY <1>1, <1>4, CloseFailsIs
<1> QED BY <1>2, <1>3, <1>4 DEF WriteAll, disk

LEMMA ConsumeIsSafe ==
  ASSUME SegmentInvariant, Consume PROVE SegmentInvariant' /\ ClosedStay
<1> DEFINE t == Head(queue).table
           batch == Append(rows[t], Head(queue).n)
<1>1. queue \in Seq(Published) /\ queue # <<>> /\ rows \in [Tables -> Seq(Nat)] /\ DiskOrdered
  BY DEF SegmentInvariant, RowsTyped, Consume
<1>2. Head(queue) \in Published /\ Tail(queue) \in Seq(Published) BY <1>1
<1>3. t \in Tables /\ Head(queue).n \in Nat BY <1>2 DEF Published
<1>4. batch \in Seq(Nat) BY <1>1, <1>3
<1>5. queue' = Tail(queue) /\ sent' = sent BY DEF Consume
<1>6. \/ Flush(t, batch)
      \/ rows' = [rows EXCEPT ![t] = batch] /\ UNCHANGED disk
  BY DEF Consume
<1> HIDE DEF t, batch
<1>7. CASE Flush(t, batch)
  <2>1. DiskStep(t) /\ rows' = [rows EXCEPT ![t] = <<>>] BY <1>1, <1>3, <1>4, <1>7, FlushIs
  <2>2. <<>> \in Seq(Nat) OBVIOUS
  <2>3. rows' \in [Tables -> Seq(Nat)] BY <1>1, <2>1, <2>2
  <2>4. RowsTyped' BY <1>2, <1>5, <2>3 DEF SegmentInvariant, RowsTyped
  <2> QED BY <1>1, <1>3, <2>1, <2>4, StepIsSafe DEF SegmentInvariant
<1>8. CASE rows' = [rows EXCEPT ![t] = batch] /\ UNCHANGED disk
  <2>1. DiskStep(t) BY <1>8 DEF DiskStep
  <2>2. rows' \in [Tables -> Seq(Nat)] BY <1>1, <1>4, <1>8
  <2>3. RowsTyped' BY <1>2, <1>5, <2>2 DEF SegmentInvariant, RowsTyped
  <2> QED BY <1>1, <1>3, <2>1, <2>3, StepIsSafe DEF SegmentInvariant
<1> QED BY <1>6, <1>7, <1>8

LEMMA FinishIsSafe ==
  ASSUME SegmentInvariant, FinishStep, step \in Nat \ {0}
  PROVE  SegmentInvariant' /\ ClosedStay
<1> DEFINE t == FinishSteps[step].table
<1>1. rows \in [Tables -> Seq(Nat)] /\ DiskOrdered BY DEF SegmentInvariant, RowsTyped
<1>2. t \in Tables
  <2>1. Len(FinishSteps) = 5 BY DEF FinishSteps
  <2>2. step \in 1 .. 5 BY <2>1 DEF FinishStep
  <2>3. step = 1 \/ step = 2 \/ step = 3 \/ step = 4 \/ step = 5 BY <2>2
  <2> QED BY <2>3 DEF FinishSteps, Tables
<1>3. UNCHANGED <<queue, sent>> BY DEF FinishStep, memory
<1>4. \/ Flush(t, rows[t])
      \/ WriteAll(t, rows[t]) /\ rows' = [rows EXCEPT ![t] = <<>>]
      \/ (RollOk(t) \/ RollFails(t)) /\ rows' = rows
  BY DEF FinishStep
<1> HIDE DEF t
<1>5. rows[t] \in Seq(Nat) /\ <<>> \in Seq(Nat) BY <1>1, <1>2
<1>6. DiskStep(t) /\ (rows' = rows \/ rows' = [rows EXCEPT ![t] = <<>>])
  BY <1>1, <1>2, <1>4, <1>5, FlushIs, WriteAllIs, RollIs
<1>7. rows' \in [Tables -> Seq(Nat)] BY <1>1, <1>5, <1>6
<1>8. RowsTyped' BY <1>3, <1>7 DEF SegmentInvariant, RowsTyped
<1> QED BY <1>1, <1>2, <1>6, <1>8, StepIsSafe DEF SegmentInvariant

\* Only the last file of a table can lack its footer, so its removal moves no other.
\* Only a file of number seq has no footer, and it is the last.
LEMMA QuarantineRemoves ==
  ASSUME SegmentInvariant, NEW t \in Tables, Quarantine(t)
  PROVE  /\ files' \in [Tables -> Seq(Segments)] /\ Len(files'[t]) = seq[t]
         /\ Len(files[t]) = seq[t] + 1
         /\ \A j \in 1 .. seq[t] : files'[t][j] = files[t][j]
         /\ \A u \in Tables : u # t => files'[u] = files[u]
<1>1. PICK i \in Unreadable(t) : files' = [files EXCEPT ![t] = RemoveAt(files[t], i)]
  BY DEF Quarantine
<1>2. /\ files \in [Tables -> Seq(Segments)] /\ seq \in [Tables -> Nat] /\ seq[t] \in Nat
      /\ files[t] \in Seq(Segments) /\ Len(files[t]) \in Nat
      /\ seq[t] <= Len(files[t]) /\ Len(files[t]) <= seq[t] + 1
      /\ \A j \in 1 .. Len(files[t]) : files[t][j].footer <=> j <= seq[t]
  BY DEF SegmentInvariant, DiskOrdered
<1>3. i \in 1 .. Len(files[t]) /\ ~files[t][i].footer BY <1>2 DEF Unreadable, IsHealthy
<1>4. i = seq[t] + 1 /\ Len(files[t]) = seq[t] + 1 BY <1>2, <1>3
<1> DEFINE kept == SubSeq(files[t], 1, seq[t])
<1>5. /\ kept \in Seq(Segments) /\ Len(kept) = seq[t]
      /\ \A j \in 1 .. seq[t] : kept[j] = files[t][j]
  BY <1>2
<1>6. RemoveAt(files[t], i) = kept
  <2>1. RemoveAt(files[t], i) = SubSeq(files[t], 1, i - 1) \o SubSeq(files[t], i + 1, Len(files[t]))
    BY DEF RemoveAt
  <2>2. i - 1 = seq[t] BY <1>2, <1>4
  <2>3. SubSeq(files[t], i + 1, Len(files[t])) = <<>> BY <1>2, <1>4
  <2>4. RemoveAt(files[t], i) = kept \o <<>> BY <2>1, <2>2, <2>3
  <2> HIDE DEF kept
  <2> QED BY <1>5, <2>4
<1> HIDE DEF kept
<1>7. /\ files' \in [Tables -> Seq(Segments)] /\ files'[t] = kept
      /\ \A u \in Tables : u # t => files'[u] = files[u]
  BY <1>1, <1>2, <1>5, <1>6
<1> QED BY <1>4, <1>5, <1>7

LEMMA QuarantineIsSafe ==
  ASSUME SegmentInvariant, NEW t \in Tables, Quarantine(t), ~current[t]
  PROVE  SegmentInvariant' /\ ClosedStay
<1>1. /\ files \in [Tables -> Seq(Segments)] /\ seq \in [Tables -> Nat] /\ seq[t] \in Nat
      /\ files[t] \in Seq(Segments) /\ Len(files[t]) \in Nat
      /\ seq[t] <= Len(files[t]) /\ Len(files[t]) <= seq[t] + 1
      /\ \A j \in 1 .. Len(files[t]) : files[t][j].footer <=> j <= seq[t]
  BY DEF SegmentInvariant, DiskOrdered
<1>2. /\ files' \in [Tables -> Seq(Segments)] /\ Len(files'[t]) = seq[t]
      /\ Len(files[t]) = seq[t] + 1
      /\ \A j \in 1 .. seq[t] : files'[t][j] = files[t][j]
      /\ \A u \in Tables : u # t => files'[u] = files[u]
  BY QuarantineRemoves
<1>3. UNCHANGED <<queue, sent, rows, current, seq>> BY DEF Quarantine, memory
<1>4. RowsTyped' BY <1>3 DEF SegmentInvariant, RowsTyped
<1>5. DiskOrdered'
  <2> SUFFICES ASSUME NEW u \in Tables
               PROVE  /\ seq[u] <= Len(files'[u]) /\ Len(files'[u]) <= seq[u] + 1
                      /\ current[u] => Len(files'[u]) = seq[u] + 1
                      /\ \A j \in 1 .. Len(files'[u]) : files'[u][j].footer <=> j <= seq[u]
    BY <1>2, <1>3 DEF SegmentInvariant, DiskOrdered
  <2>1. CASE u = t
    <3>1. \A j \in 1 .. seq[t] : j \in 1 .. Len(files[t]) /\ j <= seq[t] BY <1>1
    <3>2. \A j \in 1 .. seq[t] : files'[t][j].footer BY <1>1, <1>2, <3>1
    <3> QED BY <1>1, <1>2, <2>1, <3>1, <3>2
  <2>2. CASE u # t BY <1>2, <2>2 DEF SegmentInvariant, DiskOrdered
  <2> QED BY <2>1, <2>2
<1>6. ClosedStay
  <2> SUFFICES ASSUME NEW u \in Tables, NEW j \in DOMAIN files[u], files[u][j].footer
               PROVE  j \in DOMAIN files'[u] /\ files'[u][j] = files[u][j]
    BY DEF ClosedStay
  <2>1. CASE u = t
    <3>1. j \in 1 .. seq[t] BY <1>1, <2>1
    <3>2. DOMAIN files'[t] = 1 .. seq[t] BY <1>2
    <3> QED BY <1>2, <2>1, <3>1, <3>2
  <2>2. CASE u # t BY <1>2, <2>2
  <2> QED BY <2>1, <2>2
<1> QED BY <1>4, <1>5, <1>6 DEF SegmentInvariant

----------------------------------------------------------------------------
(* The composition *)

StoreInvariant ==
  /\ SegmentInvariant
  /\ step \in Nat \ {0}
  /\ dpc = "killed" => \A t \in Tables : ~current[t]

\* The tables that are written while recording.
Streamed == {"samples", "allocations"}

\* The writing side by itself, whoever publishes.
StoreNext ==
  \/ \E t \in Streamed : Send(t)
  \/ TrySend("modules")
  \/ DropSenders
  \/ WriterThread
  \/ Kill
  \/ Recovery

LEMMA StoreSteps == [Next]_vars => [StoreNext]_store
<1> SUFFICES ASSUME [Next]_vars PROVE [StoreNext]_store OBVIOUS
<1>1. CASE UNCHANGED vars BY <1>1 DEF vars
<1>2. CASE Sampling(KernelStep) \/ Sampling(OwnerStep) BY <1>2 DEF Sampling
<1>3. CASE WorkerStep BY <1>3 DEF WorkerStep, Sampling, StoreNext, Streamed
<1>4. CASE OtherSources \/ Release BY <1>4 DEF OtherSources, Release, StoreNext, Streamed
<1>5. CASE \/ WriterThread /\ UNCHANGED sampling
           \/ Kill /\ UNCHANGED sampling
           \/ Recovery /\ UNCHANGED sampling
  BY <1>5 DEF StoreNext
<1> QED BY <1>1, <1>2, <1>3, <1>4, <1>5 DEF Next

LEMMA StoreInitially == Init => StoreInvariant
<1> SUFFICES ASSUME StoreInit PROVE StoreInvariant BY DEF Init
<1>1. /\ <<>> \in Seq(Published) /\ <<>> \in Seq(Nat) /\ <<>> \in Seq(Segments) /\ Len(<<>>) = 0
  OBVIOUS
<1>2. RowsTyped BY <1>1 DEF StoreInit, RowsTyped
<1>3. DiskOrdered BY <1>1 DEF StoreInit, DiskOrdered
<1> QED BY <1>2, <1>3 DEF StoreInit, StoreInvariant, SegmentInvariant

\* Steps that leave the disk alone.
LEMMA DiskApart ==
  ASSUME StoreInvariant, RowsTyped', UNCHANGED <<disk, step>>, dpc' = "killed" => dpc = "killed"
  PROVE  StoreInvariant' /\ ClosedStay
<1>1. DiskOrdered' /\ ClosedStay BY DEF StoreInvariant, SegmentInvariant, DiskOrdered, ClosedStay, disk
<1> QED BY <1>1 DEF StoreInvariant, SegmentInvariant, disk

LEMMA StoreInductive == StoreInvariant /\ [StoreNext]_store => StoreInvariant' /\ ClosedStay
<1> SUFFICES ASSUME StoreInvariant, [StoreNext]_store PROVE StoreInvariant' /\ ClosedStay OBVIOUS
<1>1. /\ queue \in Seq(Published) /\ sent \in [Tables -> Nat] /\ rows \in [Tables -> Seq(Nat)]
      /\ step \in Nat \ {0}
  BY DEF StoreInvariant, SegmentInvariant, RowsTyped
<1>2. CASE UNCHANGED store
  BY <1>2, DiskApart DEF store, disk, StoreInvariant, SegmentInvariant, RowsTyped
<1>3. ASSUME NEW t \in Tables, Send(t) \/ TrySend(t) PROVE StoreInvariant' /\ ClosedStay
  <2>1. /\ sent' = [sent EXCEPT ![t] = @ + 1]
        /\ queue' = queue \/ queue' = Append(queue, Row(t, sent[t] + 1))
        /\ UNCHANGED <<rows, disk, dpc, step>>
    BY <1>3 DEF Send, TrySend
  <2>2. sent' \in [Tables -> Nat] /\ sent[t] + 1 \in Nat BY <1>1, <2>1
  <2>3. Row(t, sent[t] + 1) \in Published BY <2>2 DEF Row, Published
  <2>4. Append(queue, Row(t, sent[t] + 1)) \in Seq(Published) BY <1>1, <2>3
  <2>5. RowsTyped' BY <1>1, <2>1, <2>2, <2>4 DEF RowsTyped
  <2> QED BY <2>1, <2>5, DiskApart
<1>4. CASE DropSenders \/ Disconnected \/ FinishDone \/ Recovered
  <2>1. UNCHANGED <<queue, sent, rows, disk, step>> /\ (dpc' = "killed" => dpc = "killed")
    BY <1>4 DEF DropSenders, Disconnected, FinishDone, Recovered, memory
  <2>2. RowsTyped' BY <1>1, <2>1 DEF RowsTyped
  <2> QED BY <2>1, <2>2, DiskApart
<1>5. CASE Consume
  <2>1. dpc = "recv" /\ UNCHANGED <<dpc, step>> BY <1>5 DEF Consume
  <2> QED BY <1>1, <1>5, <2>1, ConsumeIsSafe DEF StoreInvariant
<1>6. CASE FinishStep
  <2>1. dpc = "finish" /\ dpc' = dpc /\ step' = step + 1 BY <1>6 DEF FinishStep
  <2>2. step' \in Nat \ {0} BY <1>1, <2>1
  <2> QED BY <1>1, <1>6, <2>1, <2>2, FinishIsSafe DEF StoreInvariant
<1>7. CASE Kill
  <2>1. /\ queue' = <<>> /\ rows' = [t \in Tables |-> <<>>] /\ current' = [t \in Tables |-> FALSE]
        /\ UNCHANGED <<sent, seq, files, step>>
    BY <1>7 DEF Kill
  <2>2. <<>> \in Seq(Published) /\ <<>> \in Seq(Nat) OBVIOUS
  <2>3. RowsTyped' BY <1>1, <2>1, <2>2 DEF RowsTyped
  <2>4. DiskOrdered' /\ ClosedStay
    BY <2>1 DEF StoreInvariant, SegmentInvariant, DiskOrdered, ClosedStay
  <2> QED BY <1>1, <2>1, <2>3, <2>4 DEF StoreInvariant, SegmentInvariant
<1>8. ASSUME NEW t \in Tables, Quarantine(t) PROVE StoreInvariant' /\ ClosedStay
  <2>1. dpc = "killed" /\ UNCHANGED <<dpc, step, current>> BY <1>8 DEF Quarantine
  <2>2. ~current[t] BY <2>1 DEF StoreInvariant
  <2> QED BY <1>1, <1>8, <2>1, <2>2, QuarantineIsSafe DEF StoreInvariant
<1>9. Streamed \subseteq Tables /\ "modules" \in Tables BY DEF Streamed, Tables
<1> QED BY <1>2, <1>3, <1>4, <1>5, <1>6, <1>7, <1>8, <1>9 DEF StoreNext, WriterThread, Recovery

\* Whatever write, close or setup fails, wherever the recording is killed and whatever
\* recovery does, roll's numbering keeps File::create and the rename away from every
\* segment that has its footer.
THEOREM ClosedSegmentsSafe == Spec => ClosedSegmentsStay
<1>1. StoreInvariant /\ [Next]_vars => StoreInvariant' BY StoreSteps, StoreInductive
<1>2. StoreInvariant /\ [Next]_vars =>
        [\A t \in Tables : \A i \in DOMAIN files[t] :
           files[t][i].footer => i \in DOMAIN files'[t] /\ files'[t][i] = files[t][i]]_vars
  BY StoreSteps, StoreInductive DEF ClosedStay
<1> QED BY <1>1, <1>2, StoreInitially, PTL DEF Spec, ClosedSegmentsStay

----------------------------------------------------------------------------
(* The rows of a table *)

QueueAt(t) == {i \in DOMAIN queue : queue[i].table = t}

\* The queue holds the rows above m, in the order in which they were published.
Queued(t, m) ==
  /\ \A i \in QueueAt(t) : queue[i].n \in m + 1 .. sent[t]
  /\ \A v \in m + 1 .. sent[t] : \E i \in QueueAt(t) : queue[i].n = v
  /\ \A i, j \in QueueAt(t) : i < j => queue[i].n < queue[j].n

\* The rows that come next after row w, in order.
RunAfter(w, list) == \A i \in 1 .. Len(list) : list[i] = w + i

\* The buffer holds the last rows up to m.
Buffered(t, m) == Len(rows[t]) <= m /\ RunAfter(m - Len(rows[t]), rows[t])

\* The rows on disk ascend up to w, whether their segment was closed or not.
Ascending(t, w) ==
  /\ \A k \in 1 .. Len(files[t]) : \A i \in 1 .. Len(files[t][k].rows) :
       files[t][k].rows[i] <= w
  /\ \A k, l \in 1 .. Len(files[t]) :
     \A i \in 1 .. Len(files[t][k].rows), j \in 1 .. Len(files[t][l].rows) :
       k < l \/ (k = l /\ i < j) => files[t][k].rows[i] < files[t][l].rows[j]

\* The rows of the open segment.
Base(t) == IF current[t] THEN files[t][seq[t] + 1].rows ELSE <<>>

\* No row up to w is missing: the closed segments hold the first c and the open
\* one the rest.
WholeAt(t, w, c) ==
  /\ TableRows(t) = 1 .. c
  /\ c + Len(Base(t)) = w
  /\ RunAfter(c, Base(t))
  /\ Len(Base(t)) < SegmentRows
  /\ ~current[t] => Len(files[t]) = seq[t]

Whole(t, w) == \E c \in 0 .. w : WholeAt(t, w, c)

\* No file operation failed that table t has to do with.
Sound(t) == faults = 0 \/ (t = "allocations" /\ ~failure /\ result = "ok")

RowsAt(t, m) ==
  /\ Queued(t, m) /\ Buffered(t, m) /\ Ascending(t, m - Len(rows[t]))
  /\ Alive /\ Sound(t) => Whole(t, m - Len(rows[t]))

\* What was closed before a kill is the beginning of the table.
Beginning(t) == ~Alive /\ faults = 0 => \E c \in 0 .. sent[t] : TableRows(t) = 1 .. c

StreamedInvariant == \A t \in Streamed : Beginning(t) /\ \E m \in 0 .. sent[t] : RowsAt(t, m)

\* Module maps are kept in memory until finish; some were refused.
InQueue(v)  == \E i \in QueueAt("modules") : queue[i].n = v
InBuffer(v) == \E i \in 1 .. Len(rows["modules"]) : rows["modules"][i] = v

ModulesWhole ==
  /\ \A v \in Nat : v \in (1 .. sent["modules"]) \ refused <=>
       InQueue(v) \/ InBuffer(v) \/ v \in TableRows("modules")
  /\ Len(files["modules"]) = seq["modules"]

ModulesInvariant ==
  /\ refused \subseteq 1 .. sent["modules"]
  /\ ~current["modules"]
  /\ Alive /\ faults = 0 => ModulesWhole

\* How far the writer thread is with finish.
FinishInvariant ==
  /\ dpc \in {"recv", "finish", "done", "killed", "recovered"}
  /\ faults \in Nat /\ failure \in BOOLEAN
  /\ dpc # "recv" => queue = <<>> /\ ~senders
  /\ dpc = "recv" => step = 1 /\ \A t \in Streamed : Len(rows[t]) < BatchRows
  /\ dpc = "done" => step > 5
  /\ step > 1 => rows["allocations"] = <<>>
  /\ step > 2 => ~current["allocations"]
  /\ step > 3 => rows["samples"] = <<>>
  /\ step > 4 => rows["modules"] = <<>>
  /\ step > 5 => ~current["samples"]
  /\ step > 2 /\ result = "ok" => ~failure
  /\ dpc = "recovered" => \A t \in Tables : Unreadable(t) = {}

RowsInvariant == StoreInvariant /\ StreamedInvariant /\ ModulesInvariant /\ FinishInvariant

----------------------------------------------------------------------------
(* Reading a table *)

\* The segments of a table, and which of them are closed.
LEMMA DiskFacts ==
  ASSUME DiskOrdered, NEW t \in Tables
  PROVE  /\ files[t] \in Seq(Segments) /\ Len(files[t]) \in Nat /\ seq[t] \in Nat
         /\ DOMAIN files[t] = 1 .. Len(files[t]) /\ current[t] \in BOOLEAN
         /\ seq[t] <= Len(files[t]) /\ (current[t] => Len(files[t]) = seq[t] + 1)
         /\ \A k \in 1 .. Len(files[t]) :
              /\ files[t][k].rows \in Seq(Nat) /\ Len(files[t][k].rows) \in Nat
              /\ DOMAIN files[t][k].rows = 1 .. Len(files[t][k].rows)
              /\ files[t][k].footer <=> k <= seq[t]
<1>1. /\ files[t] \in Seq(Segments) /\ Len(files[t]) \in Nat /\ seq[t] \in Nat
      /\ DOMAIN files[t] = 1 .. Len(files[t]) /\ current[t] \in BOOLEAN
      /\ seq[t] <= Len(files[t]) /\ (current[t] => Len(files[t]) = seq[t] + 1)
      /\ \A k \in 1 .. Len(files[t]) : files[t][k].footer <=> k <= seq[t]
  BY DEF DiskOrdered
<1>2. \A k \in 1 .. Len(files[t]) : files[t][k] \in Segments
  BY <1>1
<1>3. \A k \in 1 .. Len(files[t]) : files[t][k].rows \in Seq(Nat)
  BY <1>2 DEF Segments
<1> QED BY <1>1, <1>3

LEMMA BaseType == ASSUME DiskOrdered, NEW t \in Tables PROVE Base(t) \in Seq(Nat)
<1>1. CASE current[t]
  <2>1. seq[t] + 1 \in 1 .. Len(files[t]) BY <1>1, DiskFacts
  <2> QED BY <1>1, <2>1, DiskFacts DEF Base
<1>2. CASE ~current[t] BY <1>2 DEF Base
<1> QED BY <1>1, <1>2

\* What each operation leaves in the segment of number seq.
LEMMA OpenedRows ==
  ASSUME DiskOrdered, NEW t \in Tables PROVE Opened(t)[seq[t] + 1].rows = Base(t)
<1>1. CASE current[t] BY <1>1 DEF Opened, Base
<1>2. CASE ~current[t]
  <2> DEFINE kept == SubSeq(files[t], 1, seq[t])
  <2>1. kept \in Seq(Segments) /\ Len(kept) = seq[t] /\ seq[t] \in Nat BY DiskFacts
  <2>2. OpenFile \in Segments
    <3>1. <<>> \in Seq(Nat) OBVIOUS
    <3> QED BY <3>1 DEF OpenFile, Segments
  <2>3. Opened(t) = kept \o <<OpenFile>> BY <1>2 DEF Opened, Create
  <2> HIDE DEF kept
  <2>4. (kept \o <<OpenFile>>)[seq[t] + 1] = OpenFile BY <2>1, <2>2
  <2>5. OpenFile.rows = <<>> BY DEF OpenFile
  <2> QED BY <1>2, <2>3, <2>4, <2>5 DEF Base
<1> QED BY <1>1, <1>2

LEMMA FilledRows ==
  ASSUME DiskOrdered, NEW t \in Tables, NEW batch
  PROVE  Filled(t, batch)[seq[t] + 1].rows = Base(t) \o batch
<1> DEFINE opened == Opened(t)
           k == seq[t] + 1
<1>1. opened \in Seq(Segments) /\ Len(opened) = k BY OpenedIs DEF Tip
<1>2. opened[k].rows = Base(t) BY OpenedRows
<1>3. Filled(t, batch) = [opened EXCEPT ![k] = [opened[k] EXCEPT !.rows = opened[k].rows \o batch]]
  BY DEF Filled
<1> HIDE DEF opened
<1>4. k \in DOMAIN opened /\ opened[k] \in Segments BY <1>1, DiskFacts
<1> DEFINE filled == [opened[k] EXCEPT !.rows = opened[k].rows \o batch]
<1>5. filled.rows = Base(t) \o batch BY <1>2, <1>4 DEF Segments
<1> HIDE DEF filled, k
<1>6. [opened EXCEPT ![k] = filled][k] = filled BY <1>4
<1> QED BY <1>3, <1>5, <1>6 DEF filled, k

LEMMA ClosedRows ==
  ASSUME DiskOrdered, NEW t \in Tables, NEW new, Tip(t, new, FALSE)
  PROVE  Closed(new, t)[seq[t] + 1].rows = new[seq[t] + 1].rows
<1> DEFINE k == seq[t] + 1
           closed == [new[k] EXCEPT !.footer = TRUE]
<1>1. new \in Seq(Segments) /\ Len(new) = k BY DEF Tip
<1>2. k \in DOMAIN new /\ new[k] \in Segments BY <1>1, DiskFacts
<1>3. closed.rows = new[k].rows BY <1>2 DEF Segments
<1>4. Closed(new, t) = [new EXCEPT ![k] = closed] BY DEF Closed
<1> HIDE DEF closed, k
<1>5. [new EXCEPT ![k] = closed][k] = closed BY <1>2
<1> QED BY <1>3, <1>4, <1>5 DEF k

\* A reader finds the rows of the segments below seq.
Found(t, v) ==
  \E k \in 1 .. seq[t] : \E i \in 1 .. Len(files[t][k].rows) : files[t][k].rows[i] = v

LEMMA ReadRows == DiskOrdered => \A t \in Tables : \A v : v \in TableRows(t) <=> Found(t, v)
<1> SUFFICES ASSUME DiskOrdered, NEW t \in Tables, NEW v
             PROVE  v \in TableRows(t) <=> Found(t, v)
  OBVIOUS
<1>1. Readable(t) = 1 .. seq[t]
  <2>1. \A k \in DOMAIN files[t] : files[t][k].footer <=> k <= seq[t] BY DiskFacts
  <2>2. \A k \in 1 .. seq[t] : k \in DOMAIN files[t] /\ k <= seq[t] BY DiskFacts
  <2>3. \A k \in DOMAIN files[t] : k <= seq[t] => k \in 1 .. seq[t] BY DiskFacts
  <2> QED BY <2>1, <2>2, <2>3 DEF Readable, IsHealthy
<1>2. \A k \in 1 .. seq[t] : k \in 1 .. Len(files[t])
  BY DiskFacts
<1>3. \A k \in 1 .. seq[t] : DOMAIN files[t][k].rows = 1 .. Len(files[t][k].rows)
  BY <1>2, DiskFacts
<1>4. v \in TableRows(t) <=> \E k \in 1 .. seq[t] : v \in ToSet(files[t][k].rows)
  BY <1>1 DEF TableRows
<1> QED BY <1>3, <1>4 DEF Found, ToSet

LEMMA ReadRowsNext ==
  (DiskOrdered => \A t \in Tables : \A v : v \in TableRows(t) <=> Found(t, v))'
BY ReadRows, PTL

LEMMA RowsKept ==
  ASSUME DiskOrdered, DiskOrdered', NEW t \in Tables, Tip(t, files'[t], FALSE),
         seq'[t] = seq[t]
  PROVE  TableRows(t)' = TableRows(t)
<1>1. \A k \in 1 .. seq[t] : files'[t][k] = files[t][k] BY DEF Tip
<1>2. \A v : Found(t, v)' <=> Found(t, v) BY <1>1 DEF Found
<1>3. \A v : v \in TableRows(t)' <=> v \in TableRows(t) BY <1>2, ReadRows, ReadRowsNext
<1> QED BY <1>3

LEMMA RowsGrown ==
  ASSUME DiskOrdered, DiskOrdered', NEW t \in Tables, Tip(t, files'[t], TRUE),
         seq'[t] = seq[t] + 1
  PROVE  \A v : v \in TableRows(t)' <=>
           \/ v \in TableRows(t)
           \/ \E i \in 1 .. Len(files'[t][seq[t] + 1].rows) : files'[t][seq[t] + 1].rows[i] = v
<1>1. \A k \in 1 .. seq[t] : files'[t][k] = files[t][k] BY DEF Tip
<1>2. seq[t] \in Nat BY DiskFacts
<1>3. \A k : k \in 1 .. seq[t] + 1 <=> k \in 1 .. seq[t] \/ k = seq[t] + 1 BY <1>2
<1>4. \A v : Found(t, v)' <=>
        \/ Found(t, v)
        \/ \E i \in 1 .. Len(files'[t][seq[t] + 1].rows) : files'[t][seq[t] + 1].rows[i] = v
  BY <1>1, <1>3 DEF Found
<1> QED BY <1>4, ReadRows, ReadRowsNext

\* The segment of number seq was written, with the batch or without it.
Wrote(t, batch) ==
  /\ Tip(t, files'[t], FALSE) \/ Tip(t, files'[t], TRUE)
  /\ \/ files'[t][seq[t] + 1].rows = Base(t)
     \/ files'[t][seq[t] + 1].rows = Base(t) \o batch

\* Rows above w, put after what the open segment holds, keep the table ascending.
LEMMA AscendingTip ==
  ASSUME DiskOrdered, NEW t \in Tables, NEW w \in Nat, Ascending(t, w),
         NEW batch \in Seq(Nat), RunAfter(w, batch),
         Wrote(t, batch)
  PROVE  Ascending(t, w + Len(batch))'
<1> DEFINE new == files'[t]
           k0 == seq[t] + 1
           r == new[k0].rows
           held == Base(t)
           B == Len(held)
<1>1. /\ seq[t] \in Nat /\ Len(files[t]) \in Nat /\ seq[t] <= Len(files[t])
      /\ current[t] \in BOOLEAN /\ (current[t] => Len(files[t]) = k0)
  BY DiskFacts
<1>2. Len(new) = k0 /\ \A k \in 1 .. seq[t] : new[k] = files[t][k] BY DEF Wrote, Tip
<1>3. held \in Seq(Nat) /\ B \in Nat BY BaseType
<1>4. \A k \in 1 .. seq[t] : k \in 1 .. Len(files[t]) BY <1>1
<1>5. \A k \in 1 .. Len(files[t]) : files[t][k].rows \in Seq(Nat) BY DiskFacts
<1>6. /\ \A i \in 1 .. B : held[i] <= w
      /\ \A i, j \in 1 .. B : i < j => held[i] < held[j]
      /\ \A k \in 1 .. seq[t] : \A i \in 1 .. Len(files[t][k].rows) : \A j \in 1 .. B :
           files[t][k].rows[i] < held[j]
  <2>1. CASE current[t]
    <3>1. k0 \in 1 .. Len(files[t]) BY <1>1, <2>1
    <3>3. held = files[t][k0].rows BY <2>1 DEF Base
    <3>2. \A k \in 1 .. seq[t] : k < k0 BY <1>1
    <3> HIDE DEF k0, held
    <3> QED BY <1>4, <3>1, <3>2, <3>3 DEF Ascending
  <2>2. CASE ~current[t]
    <3>1. B = 0 BY <2>2 DEF Base
    <3> QED BY <3>1
  <2> QED BY <1>1, <2>1, <2>2
<1> HIDE DEF held
<1>7. Len(r) \in Nat /\ \A i \in 1 .. Len(r) :
         \/ i \in 1 .. B /\ r[i] = held[i]
         \/ i > B /\ i - B \in 1 .. Len(batch) /\ r[i] = w + (i - B)
  <2>1. CASE r = held BY <1>3, <2>1
  <2>2. CASE r = held \o batch
    <3>1. /\ Len(held \o batch) = B + Len(batch) /\ Len(batch) \in Nat
          /\ \A i \in 1 .. B + Len(batch) :
               (held \o batch)[i] = IF i <= B THEN held[i] ELSE batch[i - B]
      BY <1>3
    <3> HIDE DEF r, B
    <3>2. ASSUME NEW i \in 1 .. B + Len(batch), ~(i <= B) PROVE i - B \in 1 .. Len(batch) /\ i > B
      BY <1>3, <3>1, <3>2
    <3>3. Len(r) = B + Len(batch) /\ Len(r) \in Nat BY <1>3, <2>2, <3>1
    <3>4. ASSUME NEW i \in 1 .. Len(r)
          PROVE  \/ i \in 1 .. B /\ r[i] = held[i]
                 \/ i > B /\ i - B \in 1 .. Len(batch) /\ r[i] = w + (i - B)
      <4>1. r[i] = IF i <= B THEN held[i] ELSE batch[i - B] BY <2>2, <3>1, <3>3
      <4>2. CASE i <= B BY <1>3, <4>1, <4>2
      <4>3. CASE ~(i <= B) BY <3>2, <3>3, <4>1, <4>3 DEF RunAfter
      <4> QED BY <4>2, <4>3
    <3> QED BY <3>3, <3>4
  <2> QED BY <2>1, <2>2 DEF Wrote, held, r
<1> HIDE DEF r, B
<1>8. Len(batch) \in Nat BY <1>3
<1>9. \A i \in 1 .. B : held[i] \in Nat BY <1>3 DEF B
<1>10. ASSUME NEW i \in 1 .. Len(r) PROVE r[i] <= w + Len(batch)
  <2>1. CASE i \in 1 .. B /\ r[i] = held[i] BY <1>6, <1>8, <1>9, <2>1
  <2>2. CASE i - B \in 1 .. Len(batch) /\ r[i] = w + (i - B) BY <1>8, <2>2
  <2> QED BY <1>7, <2>1, <2>2
<1>11. ASSUME NEW i \in 1 .. Len(r), NEW j \in 1 .. Len(r), i < j PROVE r[i] < r[j]
  <2>1. CASE j \in 1 .. B /\ r[j] = held[j]
    <3>1. i \in 1 .. B /\ r[i] = held[i] BY <1>3, <1>7, <1>11, <2>1
    <3> QED BY <1>6, <1>11, <2>1, <3>1
  <2>2. CASE j > B /\ j - B \in 1 .. Len(batch) /\ r[j] = w + (j - B)
    <3>1. CASE i \in 1 .. B /\ r[i] = held[i] BY <1>3, <1>6, <1>9, <2>2, <3>1
    <3>2. CASE i > B /\ i - B \in 1 .. Len(batch) /\ r[i] = w + (i - B)
      <4>1. i \in Int /\ j \in Int /\ i - B < j - B BY <1>3, <1>7, <1>11
      <4> QED BY <1>3, <2>2, <3>2, <4>1
    <3> QED BY <1>7, <3>1, <3>2
  <2> QED BY <1>7, <2>1, <2>2
<1>12. ASSUME NEW k \in 1 .. seq[t], NEW i \in 1 .. Len(files[t][k].rows)
       PROVE  /\ files[t][k].rows[i] \in Nat /\ files[t][k].rows[i] <= w
              /\ \A j \in 1 .. Len(r) : files[t][k].rows[i] < r[j]
  <2>1. files[t][k].rows[i] \in Nat /\ files[t][k].rows[i] <= w
    <3>1. files[t][k].rows \in Seq(Nat) BY <1>4, <1>5
    <3> QED BY <1>4, <3>1 DEF Ascending
  <2>2. ASSUME NEW j \in 1 .. Len(r) PROVE files[t][k].rows[i] < r[j]
    <3>1. CASE j \in 1 .. B /\ r[j] = held[j] BY <1>6, <3>1
    <3>2. CASE j > B /\ j - B \in 1 .. Len(batch) /\ r[j] = w + (j - B)
      <4> DEFINE d == j - B
                 x == files[t][k].rows[i]
      <4>1. d \in 1 .. Len(batch) /\ r[j] = w + d /\ x \in Nat /\ x <= w BY <2>1, <3>2
      <4> HIDE DEF d, x
      <4>2. x < w + d BY <1>8, <4>1
      <4> QED BY <4>1, <4>2 DEF x
    <3> QED BY <1>7, <3>1, <3>2
  <2> QED BY <2>1, <2>2
<1> HIDE DEF k0
<1>13. \A k \in 1 .. k0 : (k \in 1 .. seq[t] /\ new[k].rows = files[t][k].rows) \/ k = k0
  BY <1>1, <1>2 DEF k0
<1>14. new[k0].rows = r BY DEF r
<1>15. ASSUME NEW k \in 1 .. k0, NEW i \in 1 .. Len(new[k].rows)
       PROVE  new[k].rows[i] <= w + Len(batch)
  <2>1. CASE k = k0 BY <1>10, <1>14, <2>1
  <2>2. CASE k \in 1 .. seq[t] /\ new[k].rows = files[t][k].rows
    <3>1. new[k].rows[i] \in Nat /\ new[k].rows[i] <= w BY <1>12, <2>2
    <3> QED BY <1>8, <3>1
  <2> QED BY <1>13, <2>1, <2>2
<1>16. ASSUME NEW k \in 1 .. k0, NEW l \in 1 .. k0,
              NEW i \in 1 .. Len(new[k].rows), NEW j \in 1 .. Len(new[l].rows),
              k < l \/ (k = l /\ i < j)
       PROVE  new[k].rows[i] < new[l].rows[j]
  <2>1. CASE l = k0
    <3>1. CASE k = k0 BY <1>11, <1>14, <1>16, <2>1, <3>1
    <3>2. CASE k \in 1 .. seq[t] /\ new[k].rows = files[t][k].rows
      BY <1>12, <1>14, <2>1, <3>2
    <3> QED BY <1>13, <3>1, <3>2
  <2>2. CASE l # k0
    <3>1. l \in 1 .. seq[t] /\ k \in 1 .. seq[t]
      <4>1. k \in 1 .. seq[t] + 1 /\ l \in 1 .. seq[t] + 1 /\ l # seq[t] + 1 /\ k <= l
        BY <1>1, <1>16, <2>2 DEF k0
      <4> QED BY <1>1, <4>1
    <3>2. new[k].rows = files[t][k].rows /\ new[l].rows = files[t][l].rows BY <1>2, <3>1
    <3> QED BY <1>4, <1>16, <3>1, <3>2 DEF Ascending
  <2> QED BY <2>1, <2>2
<1> QED BY <1>2, <1>15, <1>16 DEF Ascending, k0

\* A table whose segments stay keeps what is said of its rows.
LEMMA TableApart ==
  ASSUME NEW t \in Tables, files'[t] = files[t], seq'[t] = seq[t], current'[t] = current[t]
  PROVE  /\ TableRows(t)' = TableRows(t)
         /\ \A w : Ascending(t, w) => Ascending(t, w)'
         /\ \A w : Whole(t, w) => Whole(t, w)'
<1>1. TableRows(t)' = TableRows(t) BY DEF TableRows, Readable
<1>2. Base(t)' = Base(t) BY DEF Base
<1> QED BY <1>1, <1>2 DEF Ascending, Whole, WholeAt

\* The rows of a segment follow those of the closed ones: closing it leaves no gap.
LEMMA WholeClosed ==
  ASSUME DiskOrdered, DiskOrdered', NEW t \in Tables, NEW c \in Nat, TableRows(t) = 1 .. c,
         NEW new, Tip(t, new, FALSE), CloseOk(t, new),
         NEW r \in Seq(Nat), new[seq[t] + 1].rows = r, RunAfter(c, r)
  PROVE  WholeAt(t, c + Len(r), c + Len(r))' /\ ~current'[t]
<1> DEFINE n == Closed(new, t)
<1>1. Tip(t, n, TRUE) /\ n[seq[t] + 1].rows = r BY ClosedIs, ClosedRows
<1>2. seq \in [Tables -> Nat] /\ current \in [Tables -> BOOLEAN] /\ files \in [Tables -> Seq(Segments)]
  BY DEF DiskOrdered
<1>3. files'[t] = n /\ seq'[t] = seq[t] + 1 /\ ~current'[t] BY <1>2 DEF CloseOk
<1> HIDE DEF n
<1>4. Len(r) \in Nat OBVIOUS
<1>5. ASSUME NEW v PROVE v \in TableRows(t)' <=> v \in 1 .. c + Len(r)
  <2>1. v \in TableRows(t)' <=> v \in 1 .. c \/ \E i \in 1 .. Len(r) : r[i] = v
    <3>1. Tip(t, files'[t], TRUE) /\ files'[t][seq[t] + 1].rows = r BY <1>1, <1>3
    <3> QED BY <1>3, <3>1, RowsGrown
  <2>2. ASSUME v \in 1 .. c + Len(r), v \notin 1 .. c PROVE \E i \in 1 .. Len(r) : r[i] = v
    <3>1. v - c \in 1 .. Len(r) /\ c + (v - c) = v BY <1>4, <2>2
    <3> QED BY <3>1 DEF RunAfter
  <2>3. ASSUME NEW i \in 1 .. Len(r), r[i] = v PROVE v \in 1 .. c + Len(r)
    BY <1>4, <2>3 DEF RunAfter
  <2>4. v \in 1 .. c => v \in 1 .. c + Len(r) BY <1>4
  <2> QED BY <2>1, <2>2, <2>3, <2>4
<1>6. TableRows(t)' = 1 .. c + Len(r) BY <1>5
<1>7. Base(t)' = <<>> BY <1>3 DEF Base
<1>8. Len(files'[t]) = seq'[t] BY <1>1, <1>3 DEF Tip
<1>9. c + Len(r) + 0 = c + Len(r) /\ 0 < SegmentRows /\ Len(<<>>) = 0 BY <1>4, StoreAssumption
<1>10. RunAfter(c + Len(r), <<>>) BY DEF RunAfter
<1> QED BY <1>3, <1>6, <1>7, <1>8, <1>9, <1>10 DEF WholeAt

\* A batch of the rows that come next is written.
LEMMA WholeWrite ==
  ASSUME DiskOrdered, DiskOrdered', NEW t \in Tables, NEW w \in Nat, Whole(t, w),
         NEW batch \in Seq(Nat), RunAfter(w, batch),
         WriteOk(t, batch)
  PROVE  Whole(t, w + Len(batch))'
<1> DEFINE held == Base(t)
           r == held \o batch
           new == Filled(t, batch)
<1>1. PICK c \in 0 .. w : WholeAt(t, w, c) BY DEF Whole
<1>2. held \in Seq(Nat) /\ Len(held) \in Nat /\ Len(batch) \in Nat BY BaseType
<1>3. /\ TableRows(t) = 1 .. c /\ c + Len(held) = w /\ RunAfter(c, held)
  BY <1>1 DEF WholeAt
<1>4. Tip(t, new, FALSE) /\ new[seq[t] + 1].rows = r BY FilledIs, FilledRows
<1> HIDE DEF held, new
<1>5. /\ r \in Seq(Nat) /\ Len(r) = Len(held) + Len(batch)
      /\ \A i \in 1 .. Len(held) + Len(batch) :
           r[i] = IF i <= Len(held) THEN held[i] ELSE batch[i - Len(held)]
  BY <1>2
<1> HIDE DEF r
<1>6. ASSUME NEW i \in 1 .. Len(r) PROVE r[i] = c + i
  <2>1. CASE i <= Len(held)
    <3>1. i \in 1 .. Len(held) BY <1>2, <1>5, <2>1
    <3>2. r[i] = held[i] BY <1>5, <2>1
    <3>3. held[i] = c + i
      <4>1. RunAfter(c, held) BY <1>3
      <4> QED BY <3>1, <4>1 DEF RunAfter
    <3> QED BY <3>2, <3>3
  <2>2. CASE ~(i <= Len(held))
    <3>1. i - Len(held) \in 1 .. Len(batch) BY <1>2, <1>5, <2>2
    <3>2. r[i] = w + (i - Len(held)) BY <1>5, <2>2, <3>1 DEF RunAfter
    <3> DEFINE b == Len(held)
    <3>3. b \in Nat /\ c + b = w /\ r[i] = w + (i - b) BY <1>2, <1>3, <3>2
    <3> HIDE DEF b, r
    <3> QED BY <3>3
  <2> QED BY <2>1, <2>2
<1>11. RunAfter(c, r) BY <1>6 DEF RunAfter
<1>7. c \in Nat /\ c + Len(r) = w + Len(batch)
  <2>1. PICK y, z : y = Len(held) /\ z = Len(batch) OBVIOUS
  <2>2. y \in Nat /\ z \in Nat /\ c \in Nat /\ c + y = w BY <1>2, <1>3, <2>1
  <2>3. c + (y + z) = w + z BY <2>2
  <2> QED BY <1>5, <2>1, <2>2, <2>3
<1>8. seq \in [Tables -> Nat] /\ current \in [Tables -> BOOLEAN] /\ files \in [Tables -> Seq(Segments)]
  BY DEF DiskOrdered
<1>9. CASE CloseOk(t, new)
  <2>1. WholeAt(t, w + Len(batch), w + Len(batch))'
    BY <1>3, <1>4, <1>5, <1>7, <1>9, <1>11, WholeClosed
  <2>2. w + Len(batch) \in 0 .. w + Len(batch) BY <1>2
  <2> QED BY <2>1, <2>2 DEF Whole
<1>10. CASE /\ ~(Len(r) >= SegmentRows)
            /\ files' = [files EXCEPT ![t] = new] /\ current' = [current EXCEPT ![t] = TRUE]
            /\ UNCHANGED seq
  <2>1. files'[t] = new /\ current'[t] = TRUE /\ seq'[t] = seq[t] BY <1>8, <1>10
  <2>2. TableRows(t)' = 1 .. c
    <3>1. Tip(t, files'[t], FALSE) BY <1>4, <2>1
    <3> QED BY <1>3, <2>1, <3>1, RowsKept
  <2>3. Base(t)' = r BY <1>4, <2>1 DEF Base
  <2>4. Len(r) < SegmentRows /\ c \in 0 .. w + Len(batch) BY <1>2, <1>5, <1>10, StoreAssumption
  <2>5. WholeAt(t, w + Len(batch), c)' BY <1>7, <1>11, <2>1, <2>2, <2>3, <2>4 DEF WholeAt
  <2> QED BY <2>4, <2>5 DEF Whole
<1> QED BY <1>4, <1>9, <1>10 DEF WriteOk, new

\* finish closes the open segment.
LEMMA WholeRoll ==
  ASSUME DiskOrdered, DiskOrdered', NEW t \in Tables, NEW w \in Nat, Whole(t, w), RollOk(t)
  PROVE  Whole(t, w)' /\ ~current'[t]
<1>1. CASE current[t]
  <2>1. Opened(t) = files[t] BY <1>1 DEF Opened
  <2>2. Tip(t, files[t], FALSE) /\ files[t][seq[t] + 1].rows = Base(t)
    BY <2>1, OpenedIs, OpenedRows
  <2>3. PICK c \in 0 .. w : WholeAt(t, w, c) BY DEF Whole
  <2>4. /\ TableRows(t) = 1 .. c /\ c + Len(Base(t)) = w
        /\ RunAfter(c, Base(t))
    BY <2>3 DEF WholeAt
  <2>5. Base(t) \in Seq(Nat) /\ c \in Nat /\ CloseOk(t, files[t]) BY <1>1, BaseType DEF RollOk
  <2>6. WholeAt(t, w, w)' /\ ~current'[t] BY <2>2, <2>4, <2>5, WholeClosed
  <2>7. w \in 0 .. w OBVIOUS
  <2> QED BY <2>6, <2>7 DEF Whole
<1>2. CASE ~current[t] BY <1>2, TableApart DEF RollOk, disk
<1> QED BY <1>1, <1>2

\* Whatever fails, and also when nothing does, the rows on disk ascend.
LEMMA AscendingWrite ==
  ASSUME DiskOrdered, NEW t \in Tables, NEW w \in Nat, Ascending(t, w),
         NEW batch \in Seq(Nat), RunAfter(w, batch),
         WriteOk(t, batch) \/ WriteFails(t, batch)
  PROVE  Ascending(t, w + Len(batch))'
<1>1. Tip(t, Opened(t), FALSE) /\ Tip(t, Filled(t, batch), FALSE) BY OpenedIs, FilledIs
<1>2. /\ Opened(t)[seq[t] + 1].rows = Base(t)
      /\ Filled(t, batch)[seq[t] + 1].rows = Base(t) \o batch
  BY OpenedRows, FilledRows
<1>3. /\ Tip(t, Closed(Filled(t, batch), t), TRUE)
      /\ Closed(Filled(t, batch), t)[seq[t] + 1].rows = Base(t) \o batch
  BY <1>1, <1>2, ClosedIs, ClosedRows
<1>4. files \in [Tables -> Seq(Segments)] BY DEF DiskOrdered
<1>5. CASE files' = files
  <2>1. Len(batch) \in Nat OBVIOUS
  <2>2. ASSUME NEW k \in 1 .. Len(files[t]), NEW i \in 1 .. Len(files[t][k].rows)
        PROVE  files[t][k].rows[i] <= w + Len(batch)
    <3>1. files[t][k].rows \in Seq(Nat) BY DiskFacts
    <3>2. files[t][k].rows[i] \in Nat BY <3>1
    <3>3. files[t][k].rows[i] <= w BY DEF Ascending
    <3> QED BY <2>1, <3>2, <3>3
  <2> QED BY <1>5, <2>2 DEF Ascending
<1>6. ASSUME NEW new \in {Opened(t), Filled(t, batch), Closed(Filled(t, batch), t)},
             files' = [files EXCEPT ![t] = new]
      PROVE  Ascending(t, w + Len(batch))'
  <2>1. files'[t] = new BY <1>4, <1>6
  <2>2. /\ Tip(t, new, FALSE) \/ Tip(t, new, TRUE)
        /\ new[seq[t] + 1].rows = Base(t) \/ new[seq[t] + 1].rows = Base(t) \o batch
    BY <1>1, <1>2, <1>3
  <2>3. Wrote(t, batch) BY <2>1, <2>2 DEF Wrote
  <2> QED BY <2>3, AscendingTip
<1> QED BY <1>5, <1>6 DEF WriteOk, WriteFails, CloseOk, CloseFails

LEMMA AscendingRoll ==
  ASSUME DiskOrdered, NEW t \in Tables, NEW w \in Nat, Ascending(t, w), RollOk(t) \/ RollFails(t)
  PROVE  Ascending(t, w)'
<1>1. CASE current[t]
  <2>1. Opened(t) = files[t] BY <1>1 DEF Opened
  <2>2. Tip(t, files[t], FALSE) /\ files[t][seq[t] + 1].rows = Base(t)
    BY <2>1, OpenedIs, OpenedRows
  <2>3. /\ Tip(t, Closed(files[t], t), TRUE)
        /\ Closed(files[t], t)[seq[t] + 1].rows = Base(t)
    BY <2>2, ClosedIs, ClosedRows
  <2>4. files \in [Tables -> Seq(Segments)] BY DEF DiskOrdered
  <2>5. files'[t] = files[t] \/ files'[t] = Closed(files[t], t)
    BY <1>1, <2>4 DEF RollOk, RollFails, CloseOk, CloseFails
  <2>6. <<>> \in Seq(Nat) /\ Len(<<>>) = 0 /\ w + 0 = w /\ RunAfter(w, <<>>) BY DEF RunAfter
  <2>7. Wrote(t, <<>>) BY <2>2, <2>3, <2>5 DEF Wrote
  <2>8. Ascending(t, w + Len(<<>>))' BY <2>6, <2>7, AscendingTip
  <2> QED BY <2>6, <2>8
<1>2. CASE ~current[t] BY <1>2, TableApart DEF RollOk, RollFails, disk
<1> QED BY <1>1, <1>2

----------------------------------------------------------------------------
(* The queue *)

\* What is published goes behind everything in the queue.
Publishes(t) ==
  queue' = Append(queue, Row(t, sent[t] + 1)) /\ sent' = [sent EXCEPT ![t] = @ + 1]

LEMMA QueuedSend ==
  ASSUME RowsTyped, NEW t \in Tables, NEW u \in Tables, NEW m \in 0 .. sent[u], Queued(u, m),
         Publishes(t)
  PROVE  Queued(u, m)'
<1> DEFINE L == Len(queue)
<1>1. queue \in Seq(Published) /\ sent \in [Tables -> Nat] /\ L \in Nat /\ sent[u] \in Nat
  BY DEF RowsTyped
<1>2. Row(t, sent[t] + 1) \in Published
      /\ Row(t, sent[t] + 1).table = t /\ Row(t, sent[t] + 1).n = sent[t] + 1
  BY <1>1 DEF Row, Published
<1>3. /\ DOMAIN queue = 1 .. L /\ DOMAIN queue' = 1 .. L + 1
      /\ \A i \in 1 .. L : queue'[i] = queue[i]
      /\ queue'[L + 1] = Row(t, sent[t] + 1)
      /\ sent'[u] = IF u = t THEN sent[u] + 1 ELSE sent[u]
  BY <1>1, <1>2 DEF Publishes
<1> HIDE DEF L
<1>4. \A i \in QueueAt(u) : i \in QueueAt(u)' /\ queue'[i] = queue[i] /\ i \in 1 .. L
  BY <1>1, <1>3 DEF QueueAt
<1>5. \A i \in QueueAt(u)' : i \in QueueAt(u) \/ (i = L + 1 /\ u = t)
  BY <1>1, <1>2, <1>3 DEF QueueAt
<1>6. CASE u # t
  <2>1. sent'[u] = sent[u] BY <1>3, <1>6
  <2>2. \A i \in QueueAt(u)' : i \in QueueAt(u) BY <1>5, <1>6
  <2> QED BY <1>4, <2>1, <2>2 DEF Queued
<1>7. CASE u = t
  <2>1. sent'[u] = sent[u] + 1 BY <1>3, <1>7
  <2>2. L + 1 \in QueueAt(u)' /\ queue'[L + 1].n = sent[u] + 1
    BY <1>1, <1>2, <1>3, <1>7 DEF QueueAt
  <2>3. \A i \in QueueAt(u) : queue[i].n \in m + 1 .. sent[u] BY DEF Queued
  <2>4. ASSUME NEW i \in QueueAt(u)' PROVE queue'[i].n \in m + 1 .. sent[u] + 1
    <3>1. CASE i \in QueueAt(u)
      <4>1. queue'[i].n \in m + 1 .. sent[u] BY <1>4, <2>3, <3>1
      <4> QED BY <1>1, <4>1
    <3>2. CASE i = L + 1 BY <1>1, <2>2, <3>2
    <3> QED BY <1>5, <3>1, <3>2
  <2>5. ASSUME NEW v \in m + 1 .. sent[u] + 1 PROVE \E i \in QueueAt(u)' : queue'[i].n = v
    <3>1. CASE v = sent[u] + 1 BY <2>2, <3>1
    <3>2. CASE v # sent[u] + 1
      <4>1. v \in m + 1 .. sent[u] BY <1>1, <3>2
      <4>2. PICK i \in QueueAt(u) : queue[i].n = v BY <4>1 DEF Queued
      <4> QED BY <1>4, <4>2
    <3> QED BY <3>1, <3>2
  <2>6. ASSUME NEW i \in QueueAt(u)', NEW j \in QueueAt(u)', i < j
        PROVE  queue'[i].n < queue'[j].n
    <3>1. CASE j \in QueueAt(u)
      <4>1. i \in QueueAt(u) BY <1>1, <1>4, <1>5, <2>6, <3>1
      <4>2. queue[i].n < queue[j].n BY <2>6, <3>1, <4>1 DEF Queued
      <4> QED BY <1>4, <3>1, <4>1, <4>2
    <3>2. CASE j = L + 1
      <4>1. i # L + 1 BY <1>1, <2>6, <3>2
      <4>2. i \in QueueAt(u) BY <1>5, <4>1
      <4>3. queue'[i].n \in m + 1 .. sent[u] BY <1>4, <2>3, <4>2
      <4> QED BY <1>1, <2>2, <3>2, <4>3
    <3> QED BY <1>5, <3>1, <3>2
  <2> QED BY <2>1, <2>4, <2>5, <2>6 DEF Queued
<1> QED BY <1>6, <1>7

\* Taking the first message moves the others one place.
LEMMA TailPlaces ==
  ASSUME RowsTyped, NEW u \in Tables, queue # <<>>, queue' = Tail(queue)
  PROVE  /\ \A i \in QueueAt(u)' : i \in Int /\ i + 1 \in QueueAt(u) /\ i + 1 # 1 /\ queue'[i] = queue[i + 1]
         /\ \A i \in QueueAt(u) : i # 1 => i \in Int /\ i - 1 \in QueueAt(u)' /\ queue'[i - 1] = queue[i]
         /\ u # Head(queue).table => 1 \notin QueueAt(u)
         /\ Head(queue) = queue[1] /\ 1 \in QueueAt(Head(queue).table)
<1> DEFINE L == Len(queue)
<1>1. queue \in Seq(Published) /\ L \in Nat /\ L >= 1 BY DEF RowsTyped
<1>2. /\ DOMAIN queue = 1 .. L /\ DOMAIN queue' = 1 .. L - 1 /\ Head(queue) = queue[1]
      /\ \A i \in 1 .. L - 1 : queue'[i] = queue[i + 1]
  BY <1>1
<1> HIDE DEF L
<1>3. \A i \in 1 .. L - 1 : i \in Int /\ i + 1 \in 1 .. L /\ i + 1 # 1 BY <1>1
<1>4. \A i \in 1 .. L : i # 1 => i \in Int /\ i - 1 \in 1 .. L - 1 /\ (i - 1) + 1 = i BY <1>1
<1>5. 1 \in 1 .. L BY <1>1
<1> QED BY <1>2, <1>3, <1>4, <1>5 DEF QueueAt

\* The first message of a table holds the row after those taken.
LEMMA QueuedTake ==
  ASSUME RowsTyped, NEW t \in Tables, NEW m \in 0 .. sent[t], Queued(t, m),
         queue # <<>>, queue' = Tail(queue), sent' = sent, t = Head(queue).table
  PROVE  Head(queue).n = m + 1 /\ m + 1 \in 0 .. sent[t] /\ Queued(t, m + 1)'
<1>1. 1 \in QueueAt(t) /\ Head(queue) = queue[1] BY TailPlaces
<1>2. sent[t] \in Nat /\ m \in Nat BY DEF RowsTyped
<1>3. queue[1].n \in m + 1 .. sent[t] BY <1>1 DEF Queued
<1>4. m + 1 \in m + 1 .. sent[t] /\ m + 1 \in 0 .. sent[t] BY <1>2, <1>3
<1>5. PICK i \in QueueAt(t) : queue[i].n = m + 1 BY <1>4 DEF Queued
<1>6. i = 1
  <2>1. i \in Int /\ i >= 1 BY DEF QueueAt, RowsTyped
  <2>2. 1 < i => queue[1].n < queue[i].n BY <1>1 DEF Queued
  <2> QED BY <1>2, <1>3, <1>5, <2>1, <2>2
<1>7. queue[1].n = m + 1 BY <1>5, <1>6
<1>8. ASSUME NEW j \in QueueAt(t)' PROVE queue'[j].n \in (m + 1) + 1 .. sent[t]
  <2>1. j \in Int /\ j + 1 \in QueueAt(t) /\ j + 1 # 1 /\ queue'[j] = queue[j + 1] BY TailPlaces
  <2>2. j + 1 > 1 BY <2>1 DEF QueueAt, RowsTyped
  <2> DEFINE x == queue'[j].n
  <2>3. m + 1 < x /\ x \in m + 1 .. sent[t]
    <3>1. queue[1].n < queue[j + 1].n /\ queue[j + 1].n \in m + 1 .. sent[t]
      BY <1>1, <2>1, <2>2 DEF Queued
    <3> QED BY <1>7, <2>1, <3>1
  <2> HIDE DEF x
  <2>4. x \in (m + 1) + 1 .. sent[t] BY <1>2, <2>3
  <2> QED BY <2>4 DEF x
<1>9. ASSUME NEW v \in (m + 1) + 1 .. sent[t] PROVE \E j \in QueueAt(t)' : queue'[j].n = v
  <2>1. v \in m + 1 .. sent[t] /\ v # m + 1 BY <1>2
  <2>2. PICK j \in QueueAt(t) : queue[j].n = v BY <2>1 DEF Queued
  <2>3. j # 1 BY <1>7, <2>1, <2>2
  <2> QED BY <2>2, <2>3, TailPlaces
<1>10. ASSUME NEW j \in QueueAt(t)', NEW k \in QueueAt(t)', j < k
       PROVE  queue'[j].n < queue'[k].n
  <2>1. /\ j \in Int /\ k \in Int /\ j + 1 \in QueueAt(t) /\ k + 1 \in QueueAt(t)
        /\ queue'[j] = queue[j + 1] /\ queue'[k] = queue[k + 1]
    BY TailPlaces
  <2>2. j + 1 < k + 1 BY <1>10, <2>1
  <2> QED BY <2>1, <2>2 DEF Queued
<1> QED BY <1>1, <1>4, <1>7, <1>8, <1>9, <1>10 DEF Queued

LEMMA QueuedOther ==
  ASSUME RowsTyped, NEW u \in Tables, NEW m \in 0 .. sent[u], Queued(u, m),
         queue # <<>>, queue' = Tail(queue), sent' = sent, u # Head(queue).table
  PROVE  Queued(u, m)'
<1>1. ASSUME NEW j \in QueueAt(u)' PROVE queue'[j].n \in m + 1 .. sent[u]
  <2>1. j + 1 \in QueueAt(u) /\ queue'[j] = queue[j + 1] BY TailPlaces
  <2> QED BY <2>1 DEF Queued
<1>2. ASSUME NEW v \in m + 1 .. sent[u] PROVE \E j \in QueueAt(u)' : queue'[j].n = v
  <2>1. PICK j \in QueueAt(u) : queue[j].n = v BY DEF Queued
  <2>2. j # 1 BY TailPlaces
  <2> QED BY <2>1, <2>2, TailPlaces
<1>3. ASSUME NEW j \in QueueAt(u)', NEW k \in QueueAt(u)', j < k
       PROVE  queue'[j].n < queue'[k].n
  <2>1. /\ j \in Int /\ k \in Int /\ j + 1 \in QueueAt(u) /\ k + 1 \in QueueAt(u)
        /\ queue'[j] = queue[j + 1] /\ queue'[k] = queue[k + 1]
    BY TailPlaces
  <2>2. j + 1 < k + 1 BY <1>3, <2>1
  <2> QED BY <2>1, <2>2 DEF Queued
<1> QED BY <1>1, <1>2, <1>3 DEF Queued

\* Nothing queued: every published row was taken.
LEMMA QueuedNone ==
  ASSUME NEW t \in Tables, sent[t] \in Nat, queue = <<>>
  PROVE  Queued(t, sent[t]) /\ \A m \in 0 .. sent[t] : Queued(t, m) => m = sent[t]
<1>1. QueueAt(t) = {} BY DEF QueueAt
<1>2. sent[t] + 1 .. sent[t] = {} OBVIOUS
<1>3. Queued(t, sent[t]) BY <1>1, <1>2 DEF Queued
<1>4. ASSUME NEW m \in 0 .. sent[t], Queued(t, m), m # sent[t] PROVE FALSE
  <2>1. sent[t] \in m + 1 .. sent[t] BY <1>4
  <2> QED BY <1>1, <1>4, <2>1 DEF Queued
<1> QED BY <1>3, <1>4

----------------------------------------------------------------------------
(* The tables a step leaves alone, and the one it writes *)

LEMMA OthersStay ==
  ASSUME DiskOrdered, NEW t \in Tables, DiskStep(t), NEW u \in Tables, u # t
  PROVE  files'[u] = files[u] /\ seq'[u] = seq[u] /\ current'[u] = current[u]
<1>1. files \in [Tables -> Seq(Segments)] /\ seq \in [Tables -> Nat] /\ current \in [Tables -> BOOLEAN]
  BY DEF DiskOrdered
<1> QED BY <1>1 DEF DiskStep, disk

LEMMA RowsApart ==
  ASSUME NEW u \in Tables, NEW m \in Nat, RowsAt(u, m), Queued(u, m)', rows'[u] = rows[u],
         files'[u] = files[u], seq'[u] = seq[u], current'[u] = current[u],
         Sound(u)' => Sound(u), Alive' => Alive
  PROVE  RowsAt(u, m)'
<1>1. Buffered(u, m)' BY DEF RowsAt, Buffered
<1>2. Ascending(u, m - Len(rows[u]))' BY TableApart DEF RowsAt
<1>3. Alive' /\ Sound(u)' => Whole(u, m - Len(rows[u]))' BY TableApart DEF RowsAt
<1> QED BY <1>1, <1>2, <1>3 DEF RowsAt

\* The buffered rows, and perhaps one more, are written.
LEMMA FlushRows ==
  ASSUME DiskOrdered, DiskOrdered', NEW t \in Streamed, NEW w \in Nat, faults \in Nat,
         NEW batch \in Seq(Nat), RunAfter(w, batch), Flush(t, batch), UNCHANGED <<dpc, result>>,
         Ascending(t, w), Alive /\ Sound(t) => Whole(t, w), Queued(t, w + Len(batch))',
         rows \in [Tables -> Seq(Nat)]
  PROVE  RowsAt(t, w + Len(batch))' /\ DiskStep(t) /\ rows' = [rows EXCEPT ![t] = <<>>]
<1>1. t \in Tables BY DEF Streamed, Tables
<1>2. DiskStep(t) /\ rows' = [rows EXCEPT ![t] = <<>>] BY <1>1, FlushIs
<1>3. rows'[t] = <<>> /\ Len(rows'[t]) = 0 BY <1>1, <1>2
<1>4. Len(batch) \in Nat OBVIOUS
<1>5. Buffered(t, w + Len(batch))'
  <2>1. RunAfter(w + Len(batch) - 0, <<>>) /\ 0 <= w + Len(batch) BY <1>4 DEF RunAfter
  <2> QED BY <1>3, <2>1 DEF Buffered
<1>6. Alive' = Alive BY DEF Alive
<1>7. Ascending(t, w + Len(batch))' /\ (Alive' /\ Sound(t)' => Whole(t, w + Len(batch))')
  <2>1. CASE batch = <<>> /\ UNCHANGED <<disk, faults, failure>>
    <3>1. w + Len(batch) = w BY <2>1
    <3>2. Sound(t)' => Sound(t) BY <2>1 DEF Sound
    <3> QED BY <1>1, <1>6, <2>1, <3>1, <3>2, TableApart DEF disk
  <2>2. CASE WriteOk(t, batch) /\ UNCHANGED failure
    <3>1. UNCHANGED faults BY <2>2 DEF WriteOk
    <3>2. Sound(t)' => Sound(t) BY <2>2, <3>1 DEF Sound
    <3>3. Ascending(t, w + Len(batch))' BY <1>1, <2>2, AscendingWrite
    <3>4. ASSUME Alive', Sound(t)' PROVE Whole(t, w + Len(batch))'
      BY <1>1, <1>6, <2>2, <3>2, <3>4, WholeWrite
    <3> QED BY <3>3, <3>4
  <2>3. CASE WriteFails(t, batch) /\ Remembered(t)
    <3>1. faults' # 0 BY <2>3 DEF WriteFails, Fault
    <3>2. t = "allocations" => failure' BY <2>3 DEF Remembered
    <3>3. ~Sound(t)' BY <3>1, <3>2 DEF Sound
    <3>4. Ascending(t, w + Len(batch))' BY <1>1, <2>3, AscendingWrite
    <3> QED BY <3>3, <3>4
  <2> QED BY <2>1, <2>2, <2>3 DEF Flush
<1>8. (w + Len(batch)) - 0 = w + Len(batch) BY <1>4
<1> QED BY <1>2, <1>3, <1>5, <1>7, <1>8 DEF RowsAt

----------------------------------------------------------------------------
(* One step at a time: publishing *)

Failures ==
  /\ faults' \in Nat /\ (faults' = 0 => faults = 0)
  /\ failure' \in BOOLEAN /\ (~failure' => ~failure)
  /\ result' = "ok" => result = "ok"

LEMMA SoundBefore == ASSUME Failures, NEW t, Sound(t)' PROVE Sound(t)
BY DEF Failures, Sound

\* Failures are remembered.
LEMMA FailuresAdd ==
  ASSUME FinishInvariant, Consume \/ FinishStep PROVE Failures
<1>1. faults \in Nat /\ failure \in BOOLEAN BY DEF FinishInvariant
<1>2. faults' = faults \/ faults' = faults + 1
  BY DEF Consume, FinishStep, Flush, WriteOk, WriteFails, Fault, WriteAll, RollOk, RollFails
<1>3. failure' = failure \/ \E t : Remembered(t)
  BY DEF Consume, FinishStep, Flush
<1>4. result' = "ok" => result = "ok"
  BY DEF Consume, FinishStep, Verdict
<1>5. failure' \in BOOLEAN /\ (~failure' => ~failure) BY <1>1, <1>3, Zenon DEF Remembered
<1>6. faults' \in Nat /\ (faults' = 0 => faults = 0) BY <1>1, <1>2
<1> QED BY <1>4, <1>5, <1>6 DEF Failures

LEMMA PublishKeeps ==
  ASSUME RowsInvariant, StoreInvariant', (\E t \in Streamed : Send(t)) \/ TrySend("modules")
  PROVE  RowsInvariant'
<1> USE DEF RowsInvariant
<1>1. RowsTyped /\ queue \in Seq(Published) /\ sent \in [Tables -> Nat]
  BY DEF StoreInvariant, SegmentInvariant, RowsTyped
<1>2. Streamed \subseteq Tables /\ "modules" \in Tables /\ "modules" \notin Streamed
  BY DEF Streamed, Tables
<1>3. /\ UNCHANGED <<rows, current, seq, files, failure, dpc, step, result, faults, senders>>
      /\ senders
  BY DEF Send, TrySend, disk
<1>4. dpc = "recv" /\ Alive /\ Alive' BY <1>3 DEF FinishInvariant, Alive
<1>5. FinishInvariant' BY <1>3, <1>4 DEF FinishInvariant, Unreadable
<1>6. \A u \in Tables : TableRows(u)' = TableRows(u) BY <1>3, TableApart
<1>7. ASSUME NEW u \in Streamed, NEW m \in 0 .. sent[u], RowsAt(u, m), Queued(u, m)',
             sent'[u] \in Nat, sent'[u] >= sent[u]
      PROVE  Beginning(u)' /\ \E k \in 0 .. sent'[u] : RowsAt(u, k)'
  <2>1. m \in Nat /\ m \in 0 .. sent'[u] BY <1>1, <1>2, <1>7
  <2>2. Sound(u)' => Sound(u) BY <1>3 DEF Sound
  <2>3. RowsAt(u, m)' BY <1>2, <1>3, <1>4, <1>7, <2>1, <2>2, RowsApart
  <2> QED BY <1>4, <2>1, <2>3 DEF Beginning
<1>8. ASSUME NEW t \in Tables, Publishes(t) PROVE StreamedInvariant'
  <2> SUFFICES ASSUME NEW u \in Streamed
               PROVE  Beginning(u)' /\ \E k \in 0 .. sent'[u] : RowsAt(u, k)'
    BY DEF StreamedInvariant
  <2>1. PICK m \in 0 .. sent[u] : RowsAt(u, m) BY DEF StreamedInvariant
  <2>2. Queued(u, m)' BY <1>1, <1>2, <1>8, <2>1, QueuedSend DEF RowsAt
  <2>3. sent'[u] \in Nat /\ sent'[u] >= sent[u] BY <1>1, <1>2, <1>8 DEF Publishes
  <2> QED BY <1>7, <2>1, <2>2, <2>3
<1>9. CASE \E t \in Streamed : Send(t)
  <2>1. PICK t \in Streamed : Send(t) BY <1>9
  <2>2. Publishes(t) /\ t \in Tables /\ t # "modules" /\ UNCHANGED refused
    BY <1>2, <2>1 DEF Send, Publishes
  <2>3. StreamedInvariant' BY <1>8, <2>2
  <2>4. ASSUME NEW v PROVE InQueue(v)' <=> InQueue(v)
    <3>1. Row(t, sent[t] + 1) \in Published /\ Row(t, sent[t] + 1).table = t
      BY <1>1, <2>2 DEF Row, Published
    <3>2. \A i \in DOMAIN queue' : (i \in DOMAIN queue /\ queue'[i] = queue[i]) \/ queue'[i].table = t
      BY <1>1, <2>2, <3>1 DEF Publishes
    <3>3. \A i \in DOMAIN queue : i \in DOMAIN queue' /\ queue'[i] = queue[i]
      BY <1>1, <2>2, <3>1 DEF Publishes
    <3> QED BY <2>2, <3>2, <3>3 DEF InQueue, QueueAt
  <2>5. sent'["modules"] = sent["modules"] BY <1>1, <1>2, <2>2 DEF Publishes
  <2>6. ModulesInvariant'
    BY <1>2, <1>3, <1>4, <1>6, <2>2, <2>4, <2>5 DEF ModulesInvariant, ModulesWhole, InBuffer
  <2> QED BY <1>5, <2>3, <2>6
<1>10. CASE TrySend("modules")
  <2> DEFINE n == sent["modules"] + 1
  <2>1. /\ sent' = [sent EXCEPT !["modules"] = n]
        /\ \/ queue' = Append(queue, Row("modules", n)) /\ refused' = refused
           \/ queue' = queue /\ refused' = refused \cup {n}
    BY <1>10 DEF TrySend
  <2>2. n \in Nat /\ sent'["modules"] = n /\ sent["modules"] \in Nat
        /\ \A u \in Streamed : sent'[u] = sent[u] /\ sent[u] \in Nat
    BY <1>1, <1>2, <2>1
  <2>3. refused \subseteq 1 .. n - 1 /\ ~current["modules"] BY <2>2 DEF ModulesInvariant
  <2>4. \A v \in Nat : v \in 1 .. n - 1 <=> v \in 1 .. n /\ v # n BY <2>2
  <2>5. n \notin refused /\ n \in 1 .. n BY <2>2, <2>3
  <2>6. refused' \subseteq 1 .. n
    <3>1. 1 .. n - 1 \subseteq 1 .. n BY <2>2
    <3> HIDE DEF n
    <3> QED BY <2>1, <2>3, <2>5, <3>1
  <2> HIDE DEF n
  <2>7. StreamedInvariant'
    <3>1. CASE queue' = Append(queue, Row("modules", n))
      BY <1>2, <1>8, <2>1, <3>1 DEF Publishes, n
    <3>2. CASE queue' = queue
      <4> SUFFICES ASSUME NEW u \in Streamed
                   PROVE  Beginning(u)' /\ \E k \in 0 .. sent'[u] : RowsAt(u, k)'
        BY DEF StreamedInvariant
      <4>1. PICK m \in 0 .. sent[u] : RowsAt(u, m) BY DEF StreamedInvariant
      <4>2. Queued(u, m)' BY <2>2, <3>2, <4>1 DEF RowsAt, Queued, QueueAt
      <4>3. sent'[u] \in Nat /\ sent'[u] >= sent[u] BY <2>2
      <4> QED BY <1>7, <4>1, <4>2, <4>3
    <3> QED BY <2>1, <3>1, <3>2
  <2>8. ASSUME faults = 0 PROVE ModulesWhole'
    <3>1. /\ \A v \in Nat : v \in (1 .. n - 1) \ refused <=>
               InQueue(v) \/ InBuffer(v) \/ v \in TableRows("modules")
          /\ Len(files["modules"]) = seq["modules"]
      BY <1>4, <2>2, <2>8 DEF ModulesInvariant, ModulesWhole, n
    <3>2. \A v : InBuffer(v)' <=> InBuffer(v) BY <1>3 DEF InBuffer
    <3>3. \A v \in Nat : v \in (1 .. n) \ refused' <=>
            InQueue(v)' \/ InBuffer(v) \/ v \in TableRows("modules")
      <4>1. CASE queue' = Append(queue, Row("modules", n)) /\ refused' = refused
        <5>1. Row("modules", n) \in Published /\ Row("modules", n).table = "modules"
              /\ Row("modules", n).n = n
          BY <1>2, <2>2 DEF Row, Published
        <5>2. \A i \in DOMAIN queue' : (i \in DOMAIN queue /\ queue'[i] = queue[i])
                                         \/ queue'[i] = Row("modules", n)
          BY <1>1, <4>1, <5>1
        <5>3. /\ \A i \in DOMAIN queue : i \in DOMAIN queue' /\ queue'[i] = queue[i]
              /\ \E i \in DOMAIN queue' : queue'[i] = Row("modules", n)
          BY <1>1, <4>1, <5>1
        <5>4. \A v : InQueue(v)' <=> InQueue(v) \/ v = n
          BY <5>1, <5>2, <5>3 DEF InQueue, QueueAt
        <5> QED BY <2>4, <2>5, <3>1, <4>1, <5>4
      <4>2. CASE queue' = queue /\ refused' = refused \cup {n}
        <5>1. \A v : InQueue(v)' <=> InQueue(v) BY <4>2 DEF InQueue, QueueAt
        <5> QED BY <2>4, <2>5, <3>1, <4>2, <5>1
      <4> QED BY <2>1, <4>1, <4>2
    <3> QED BY <1>2, <1>3, <1>6, <2>2, <3>1, <3>2, <3>3 DEF ModulesWhole
  <2>9. ModulesInvariant' BY <1>3, <1>4, <2>2, <2>3, <2>6, <2>8 DEF ModulesInvariant
  <2> QED BY <1>5, <2>7, <2>9
<1> QED BY <1>9, <1>10

----------------------------------------------------------------------------
(* The writer thread takes a row *)

LEMMA TablesAre ==
  Streamed \subseteq Tables /\ "modules" \in Tables /\ "modules" \notin Streamed
BY DEF Streamed, Tables

LEMMA NextBatch ==
  ASSUME NEW list \in Seq(Nat), NEW w \in Nat, RunAfter(w, list), NEW x, x = w + Len(list) + 1
  PROVE  /\ Append(list, x) \in Seq(Nat) /\ Len(Append(list, x)) = Len(list) + 1
         /\ RunAfter(w, Append(list, x))
<1> DEFINE n == Len(list)
           batch == Append(list, x)
<1>1. n \in Nat /\ x \in Nat OBVIOUS
<1>2. /\ batch \in Seq(Nat) /\ Len(batch) = n + 1 /\ batch[n + 1] = x
      /\ \A i \in 1 .. n : batch[i] = list[i]
  BY <1>1
<1>3. \A i \in 1 .. n : list[i] = w + i BY DEF RunAfter
<1>4. x = w + (n + 1) BY <1>1
<1> HIDE DEF n, batch
<1>5. \A i \in 1 .. n + 1 : i \in 1 .. n \/ i = n + 1 BY <1>1
<1>6. \A i \in 1 .. n + 1 : batch[i] = w + i BY <1>2, <1>3, <1>4, <1>5
<1>7. RunAfter(w, batch) BY <1>2, <1>6 DEF RunAfter
<1> QED BY <1>2, <1>7 DEF n, batch

\* How the writer thread takes a row of table t.
TakesRow(t) ==
  LET batch == Append(rows[t], Head(queue).n) IN
  \/ Flush(t, batch)
  \/ /\ ~MustFlush(t, batch) /\ rows' = [rows EXCEPT ![t] = batch]
     /\ UNCHANGED <<disk, faults, failure>>

LEMMA TakeStreamed ==
  ASSUME RowsTyped, NEW t \in Streamed, NEW m \in 0 .. sent[t], RowsAt(t, m), sent \in [Tables -> Nat],
         rows \in [Tables -> Seq(Nat)], DiskOrdered, DiskOrdered', faults \in Nat, Failures,
         queue # <<>>, queue' = Tail(queue), sent' = sent, UNCHANGED <<dpc, result>>,
         t = Head(queue).table, TakesRow(t)
  PROVE  (\E k \in 0 .. sent'[t] : RowsAt(t, k)') /\ Len(rows'[t]) < BatchRows
<1>1. t \in Tables /\ rows[t] \in Seq(Nat) /\ Len(rows[t]) \in Nat /\ m \in Nat /\ sent[t] \in Nat
  BY TablesAre
<1>2. Queued(t, m) BY DEF RowsAt
<1>3. Head(queue).n = m + 1 /\ m + 1 \in 0 .. sent[t] /\ Queued(t, m + 1)'
  BY <1>1, <1>2, QueuedTake
<1>4. PICK n : n = Len(rows[t]) OBVIOUS
<1>5. PICK batch : batch = Append(rows[t], m + 1) OBVIOUS
<1>6. PICK w : w = m - n OBVIOUS
<1>7. \/ Flush(t, batch)
      \/ /\ ~MustFlush(t, batch) /\ rows' = [rows EXCEPT ![t] = batch]
         /\ UNCHANGED <<disk, faults, failure>>
  BY <1>3, <1>5 DEF TakesRow
<1>8. n \in Nat /\ w \in Nat /\ m + 1 = w + n + 1
  <2>1. n <= m BY <1>4 DEF RowsAt, Buffered
  <2> QED BY <1>1, <1>4, <1>6, <2>1
<1>13. RunAfter(w, rows[t]) /\ Ascending(t, w) /\ (Alive /\ Sound(t) => Whole(t, w))
  BY <1>4, <1>6 DEF RowsAt, Buffered
<1>9. batch \in Seq(Nat) /\ Len(batch) = n + 1 /\ RunAfter(w, batch)
  BY <1>1, <1>4, <1>5, <1>8, <1>13, NextBatch
<1>10. w + Len(batch) = m + 1 /\ (m + 1) - Len(batch) = w /\ Len(batch) <= m + 1
       /\ Len(batch) \in Nat
  BY <1>1, <1>8, <1>9
<1>11. CASE Flush(t, batch)
  <2>1. Queued(t, w + Len(batch))' BY <1>3, <1>10
  <2>2. RowsAt(t, w + Len(batch))' /\ rows' = [rows EXCEPT ![t] = <<>>]
    BY <1>8, <1>9, <1>11, <1>13, <2>1, FlushRows
  <2>3. rows'[t] = <<>> /\ Len(rows'[t]) = 0 BY <1>1, <2>2
  <2>4. Len(rows'[t]) < BatchRows BY <2>3, StoreAssumption
  <2> QED BY <1>3, <1>10, <2>2, <2>4
<1>12. CASE /\ ~MustFlush(t, batch) /\ rows' = [rows EXCEPT ![t] = batch]
            /\ UNCHANGED <<disk, faults, failure>>
  <2>1. rows'[t] = batch BY <1>1, <1>12
  <2>2. Buffered(t, m + 1)' BY <1>9, <1>10, <2>1 DEF Buffered
  <2>3. files'[t] = files[t] /\ seq'[t] = seq[t] /\ current'[t] = current[t]
    BY <1>12 DEF disk
  <2>4. Ascending(t, w)' /\ (Alive /\ Sound(t) => Whole(t, w)')
    BY <1>1, <1>13, <2>3, TableApart
  <2>5. Alive' = Alive BY DEF Alive
  <2>6. Ascending(t, (m + 1) - Len(rows[t]))' /\ (Alive' /\ Sound(t)' => Whole(t, (m + 1) - Len(rows[t]))')
    BY <1>10, <2>1, <2>4, <2>5, SoundBefore
  <2>7. RowsAt(t, m + 1)' BY <1>3, <2>2, <2>6 DEF RowsAt
  <2>8. Len(batch) < BatchRows
    <3>1. t # "modules" BY TablesAre
    <3>2. ~(Len(batch) >= BatchRows) BY <1>12, <3>1 DEF MustFlush
    <3> QED BY <1>10, <3>2, StoreAssumption
  <2> QED BY <1>3, <2>1, <2>7, <2>8
<1> QED BY <1>7, <1>11, <1>12

\* The writer thread buffers the next row of a table, or writes its batch.
LEMMA ConsumeStreamed ==
  ASSUME RowsInvariant, StoreInvariant', Consume, NEW u \in Streamed,
         NEW m \in 0 .. sent[u], RowsAt(u, m)
  PROVE  (\E k \in 0 .. sent'[u] : RowsAt(u, k)') /\ Len(rows'[u]) < BatchRows
<1> DEFINE t == Head(queue).table
           x == Head(queue).n
           batch == Append(rows[t], x)
<1> USE DEF RowsInvariant
<1>1. /\ RowsTyped /\ queue \in Seq(Published) /\ queue # <<>> /\ sent \in [Tables -> Nat]
      /\ rows \in [Tables -> Seq(Nat)] /\ DiskOrdered /\ DiskOrdered' /\ faults \in Nat
  BY DEF StoreInvariant, SegmentInvariant, RowsTyped, Consume, FinishInvariant
<1>2. queue' = Tail(queue) /\ UNCHANGED <<dpc, result, sent>> /\ dpc = "recv" BY DEF Consume
<1>3. Head(queue) \in Published BY <1>1
<1>4. t \in Tables /\ x \in Nat BY <1>3 DEF Published
<1>5. batch \in Seq(Nat) /\ Len(batch) = Len(rows[t]) + 1 /\ Len(rows[t]) \in Nat
      /\ batch[Len(rows[t]) + 1] = x /\ \A i \in 1 .. Len(rows[t]) : batch[i] = rows[t][i]
  BY <1>1, <1>4
<1>6. \/ (MustFlush(t, batch) \/ MayFlush(t)) /\ Flush(t, batch)
      \/ /\ ~MustFlush(t, batch) /\ rows' = [rows EXCEPT ![t] = batch]
         /\ UNCHANGED <<disk, faults, failure>>
  BY DEF Consume
<1>12. Head(queue).table = t /\ Head(queue).n = x OBVIOUS
<1>13. batch = Append(rows[t], x) OBVIOUS
<1> HIDE DEF t, x, batch
<1>7. Failures /\ Alive' = Alive BY <1>2, FailuresAdd DEF Alive
<1>8. u \in Tables /\ sent[u] \in Nat /\ m \in Nat /\ Len(rows[u]) \in Nat BY <1>1, TablesAre
<1>9. Len(rows[u]) < BatchRows BY <1>2 DEF FinishInvariant
<1>10. CASE u # t
  <2>1. rows'[u] = rows[u]
    BY <1>1, <1>4, <1>6, <1>8, <1>10 DEF Flush
  <2>2. files'[u] = files[u] /\ seq'[u] = seq[u] /\ current'[u] = current[u]
    <3>1. CASE Flush(t, batch)
      <4>1. DiskStep(t) BY <1>1, <1>4, <1>5, <3>1, FlushIs
      <4> QED BY <1>1, <1>4, <1>8, <1>10, <4>1, OthersStay
    <3>2. CASE UNCHANGED disk BY <3>2 DEF disk
    <3> QED BY <1>6, <3>1, <3>2
  <2>3. Queued(u, m)' BY <1>1, <1>2, <1>8, <1>10, <1>12, QueuedOther DEF RowsAt
  <2>4. RowsAt(u, m)' BY <1>7, <1>8, <2>1, <2>2, <2>3, RowsApart, SoundBefore
  <2> QED BY <1>2, <1>9, <2>1, <2>4
<1>11. CASE u = t
  <2>1. batch = Append(rows[u], x) /\ Head(queue).table = u /\ Head(queue).n = x
    BY <1>11, <1>12, <1>13
  <2>2. TakesRow(u) BY <1>6, <1>11, <2>1 DEF TakesRow
  <2> QED BY <1>1, <1>2, <1>7, <2>1, <2>2, TakeStreamed
<1> QED BY <1>10, <1>11

\* Consuming a module map moves it to the buffer.
LEMMA ConsumeModules ==
  ASSUME RowsInvariant, StoreInvariant', Consume PROVE ModulesInvariant'
<1> DEFINE t == Head(queue).table
           x == Head(queue).n
           batch == Append(rows[t], x)
<1> USE DEF RowsInvariant
<1>1. /\ RowsTyped /\ queue \in Seq(Published) /\ queue # <<>> /\ sent \in [Tables -> Nat]
      /\ rows \in [Tables -> Seq(Nat)] /\ DiskOrdered /\ DiskOrdered' /\ faults \in Nat
  BY DEF StoreInvariant, SegmentInvariant, RowsTyped, Consume, FinishInvariant
<1>2. queue' = Tail(queue) /\ UNCHANGED <<dpc, sent, refused>> BY DEF Consume
<1>3. Head(queue) \in Published BY <1>1
<1>4. t \in Tables /\ x \in Nat BY <1>3 DEF Published
<1>5. batch \in Seq(Nat) /\ Len(batch) = Len(rows[t]) + 1 /\ Len(rows[t]) \in Nat
      /\ batch[Len(rows[t]) + 1] = x /\ \A i \in 1 .. Len(rows[t]) : batch[i] = rows[t][i]
  BY <1>1, <1>4
<1>6. \/ (MustFlush(t, batch) \/ MayFlush(t)) /\ Flush(t, batch)
      \/ /\ ~MustFlush(t, batch) /\ rows' = [rows EXCEPT ![t] = batch]
         /\ UNCHANGED <<disk, faults, failure>>
  BY DEF Consume
<1> HIDE DEF batch
<1>7. Failures /\ Alive' = Alive BY <1>2, FailuresAdd DEF Alive
<1> DEFINE M == "modules"
<1>8. M \in Tables BY TablesAre
<1>9. TableRows(M)' = TableRows(M) /\ files'[M] = files[M] /\ seq'[M] = seq[M] /\ current'[M] = current[M]
  <2>1. files'[M] = files[M] /\ seq'[M] = seq[M] /\ current'[M] = current[M]
    <3>1. CASE Flush(t, batch) /\ t # M
      <4>1. DiskStep(t) BY <1>1, <1>4, <1>5, <3>1, FlushIs
      <4> QED BY <1>1, <1>4, <1>8, <3>1, <4>1, OthersStay
    <3>2. CASE UNCHANGED disk BY <3>2 DEF disk
    <3>3. t = M => ~MustFlush(t, batch) /\ ~MayFlush(t) BY DEF MustFlush, MayFlush
    <3> QED BY <1>6, <3>1, <3>2, <3>3
  <2> QED BY <1>8, <2>1, TableApart
<1>10. \A v : InQueue(v)' \/ InBuffer(v)' <=> InQueue(v) \/ InBuffer(v)
  <2>1. /\ \A i \in QueueAt(M)' : i + 1 \in QueueAt(M) /\ queue'[i] = queue[i + 1]
        /\ \A i \in QueueAt(M) : i # 1 => i - 1 \in QueueAt(M)' /\ queue'[i - 1] = queue[i]
        /\ M # t => 1 \notin QueueAt(M)
        /\ Head(queue) = queue[1] /\ 1 \in QueueAt(t)
    BY <1>1, <1>2, <1>8, TailPlaces
  <2>2. CASE t # M
    <3>1. \A v : InQueue(v)' <=> InQueue(v)
      <4>1. ASSUME NEW v, InQueue(v)' PROVE InQueue(v) BY <2>1, <4>1 DEF InQueue
      <4>2. ASSUME NEW v, InQueue(v) PROVE InQueue(v)' BY <2>1, <2>2, <4>2 DEF InQueue
      <4> QED BY <4>1, <4>2
    <3>2. rows'[M] = rows[M] BY <1>1, <1>4, <1>6, <1>8, <2>2 DEF Flush
    <3> QED BY <3>1, <3>2 DEF InBuffer
  <2>3. CASE t = M
    <3>1. \A v : InQueue(v)' \/ v = x <=> InQueue(v)
      <4>1. InQueue(x) BY <2>1, <2>3 DEF InQueue
      <4>2. ASSUME NEW v, InQueue(v)' PROVE InQueue(v) BY <2>1, <4>2 DEF InQueue
      <4>3. ASSUME NEW v, InQueue(v), v # x PROVE InQueue(v)' BY <2>1, <4>3 DEF InQueue
      <4> QED BY <4>1, <4>2, <4>3
    <3>2. rows'[M] = batch
      <4>1. ~MustFlush(t, batch) /\ ~MayFlush(t) BY <2>3 DEF MustFlush, MayFlush
      <4> QED BY <1>1, <1>4, <1>6, <2>3, <4>1
    <3>3. \A v : InBuffer(v)' <=> InBuffer(v) \/ v = x
      <4>1. \A i \in 1 .. Len(batch) : i \in 1 .. Len(rows[M]) \/ i = Len(rows[M]) + 1
        BY <1>5, <2>3
      <4>2. Len(rows[M]) + 1 \in 1 .. Len(batch) /\ \A i \in 1 .. Len(rows[M]) : i \in 1 .. Len(batch)
        BY <1>5, <2>3
      <4> QED BY <1>5, <2>3, <3>2, <4>1, <4>2 DEF InBuffer
    <3> QED BY <3>1, <3>3
  <2> QED BY <2>2, <2>3
<1>11. faults' = 0 => faults = 0 BY <1>7 DEF Failures
<1> QED BY <1>2, <1>7, <1>9, <1>10, <1>11 DEF ModulesInvariant, ModulesWhole

LEMMA ConsumeKeeps ==
  ASSUME RowsInvariant, StoreInvariant', Consume PROVE RowsInvariant'
<1> USE DEF RowsInvariant
<1>1. UNCHANGED <<dpc, step, sent, senders>> /\ dpc = "recv" BY DEF Consume
<1>2. Alive' BY <1>1 DEF Alive
<1>3. StreamedInvariant' /\ \A t \in Streamed : Len(rows'[t]) < BatchRows
  BY <1>1, <1>2, ConsumeStreamed DEF StreamedInvariant, Beginning
<1>4. step = 1 BY <1>1 DEF FinishInvariant
<1>5. faults' \in Nat /\ failure' \in BOOLEAN BY FailuresAdd DEF Failures
<1>6. FinishInvariant' BY <1>1, <1>3, <1>4, <1>5 DEF FinishInvariant
<1>7. ModulesInvariant' BY ConsumeModules
<1> QED BY <1>3, <1>6, <1>7

----------------------------------------------------------------------------
(* Finish *)

\* What a step of finish has in common: it touches one table, and publishes and
\* takes nothing.
OneTable(t) ==
  /\ DiskOrdered' /\ DiskStep(t) /\ Failures /\ UNCHANGED <<memory, dpc>>
  /\ \A u \in Tables : u # t => rows'[u] = rows[u]

LEMMA FinishedApart ==
  ASSUME RowsInvariant, NEW t \in Tables, OneTable(t), NEW u \in Tables, u # t
  PROVE  /\ files'[u] = files[u] /\ seq'[u] = seq[u] /\ current'[u] = current[u]
         /\ rows'[u] = rows[u] /\ TableRows(u)' = TableRows(u)
<1>1. DiskOrdered /\ DiskStep(t) /\ rows'[u] = rows[u]
  BY DEF RowsInvariant, StoreInvariant, SegmentInvariant, OneTable
<1>2. files'[u] = files[u] /\ seq'[u] = seq[u] /\ current'[u] = current[u] BY <1>1, OthersStay
<1> QED BY <1>1, <1>2, TableApart

LEMMA QueuedStays ==
  ASSUME UNCHANGED <<queue, sent>>, NEW u, NEW m, Queued(u, m) PROVE Queued(u, m)'
BY DEF Queued, QueueAt

LEMMA StreamedApart ==
  ASSUME RowsInvariant, NEW t \in Tables, OneTable(t), NEW u \in Streamed, u # t,
         NEW m \in 0 .. sent[u], RowsAt(u, m)
  PROVE  RowsAt(u, m)'
<1>1. u \in Tables BY TablesAre
<1>2. /\ files'[u] = files[u] /\ seq'[u] = seq[u] /\ current'[u] = current[u]
      /\ rows'[u] = rows[u]
  BY <1>1, FinishedApart
<1>3. UNCHANGED <<queue, sent>> /\ Failures /\ Alive' = Alive BY DEF OneTable, memory, Alive
<1>4. Queued(u, m)' BY <1>3, QueuedStays DEF RowsAt
<1>5. m \in Nat BY <1>1 DEF RowsInvariant, StoreInvariant, SegmentInvariant, RowsTyped
<1> QED BY <1>1, <1>2, <1>3, <1>4, <1>5, RowsApart, SoundBefore

LEMMA ModulesApart ==
  ASSUME RowsInvariant, NEW t \in Streamed, OneTable(t) PROVE ModulesInvariant'
<1> DEFINE M == "modules"
<1>1. t \in Tables /\ M \in Tables /\ M # t BY TablesAre
<1>2. /\ files'[M] = files[M] /\ seq'[M] = seq[M] /\ current'[M] = current[M]
      /\ rows'[M] = rows[M] /\ TableRows(M)' = TableRows(M)
  BY <1>1, FinishedApart
<1>3. /\ UNCHANGED <<queue, sent, refused>> /\ Alive' = Alive
      /\ faults' = 0 => faults = 0
  BY DEF OneTable, memory, Alive, Failures
<1>4. \A v : (InQueue(v)' <=> InQueue(v)) /\ (InBuffer(v)' <=> InBuffer(v))
  BY <1>2, <1>3 DEF InQueue, QueueAt, InBuffer
<1>5. ModulesInvariant BY DEF RowsInvariant
<1> QED BY <1>2, <1>3, <1>4, <1>5 DEF ModulesInvariant, ModulesWhole

\* One table's rows as they should be, the others apart: all are.
LEMMA StreamedOne ==
  ASSUME RowsInvariant, NEW t \in Tables, OneTable(t), Alive,
         \A m \in 0 .. sent[t] : t \in Streamed /\ RowsAt(t, m) => RowsAt(t, m)'
  PROVE  StreamedInvariant'
<1>1. sent' = sent /\ Alive' BY DEF OneTable, memory, Alive
<1> SUFFICES ASSUME NEW u \in Streamed
             PROVE  Beginning(u)' /\ \E k \in 0 .. sent[u] : RowsAt(u, k)'
  BY <1>1 DEF StreamedInvariant
<1>2. PICK m \in 0 .. sent[u] : RowsAt(u, m) BY DEF RowsInvariant, StreamedInvariant
<1>3. RowsAt(u, m)'
  <2>1. CASE u = t BY <1>2, <2>1
  <2>2. CASE u # t BY <1>2, <2>2, StreamedApart
  <2> QED BY <2>1, <2>2
<1> QED BY <1>1, <1>3 DEF Beginning

LEMMA FlushKeeps ==
  ASSUME RowsInvariant, DiskOrdered', Failures, Alive, NEW t \in Streamed, Flush(t, rows[t]),
         UNCHANGED <<memory, dpc, result>>
  PROVE  /\ OneTable(t) /\ StreamedInvariant' /\ ModulesInvariant'
         /\ rows'[t] = <<>>
<1>1. /\ t \in Tables /\ DiskOrdered /\ rows \in [Tables -> Seq(Nat)] /\ faults \in Nat
      /\ sent \in [Tables -> Nat] /\ UNCHANGED <<queue, sent>>
  BY TablesAre
     DEF RowsInvariant, StoreInvariant, SegmentInvariant, RowsTyped, FinishInvariant, memory
<1>2. PICK batch : batch = rows[t] OBVIOUS
<1>3. batch \in Seq(Nat) /\ Len(batch) \in Nat /\ Flush(t, batch) BY <1>1, <1>2
<1>4. DiskStep(t) /\ rows' = [rows EXCEPT ![t] = <<>>] BY <1>1, <1>3, FlushIs
<1>5. OneTable(t) /\ rows'[t] = <<>> BY <1>1, <1>4 DEF OneTable
<1>6. ASSUME NEW m \in 0 .. sent[t], RowsAt(t, m) PROVE RowsAt(t, m)'
  <2>1. PICK w : w = m - Len(batch) OBVIOUS
  <2>2. Len(batch) <= m /\ RunAfter(w, batch) /\ Ascending(t, w) /\ (Alive /\ Sound(t) => Whole(t, w))
    BY <1>2, <1>6, <2>1 DEF RowsAt, Buffered
  <2>3. w \in Nat /\ w + Len(batch) = m
    <3>1. m \in Nat /\ Len(batch) <= m BY <1>1, <2>2
    <3> QED BY <1>3, <2>1, <3>1
  <2>4. Queued(t, w + Len(batch))'
    <3>1. Queued(t, m) BY <1>6 DEF RowsAt
    <3> QED BY <1>1, <2>3, <3>1, QueuedStays
  <2>5. RowsAt(t, w + Len(batch))'
    BY <1>1, <1>3, <2>2, <2>3, <2>4, FlushRows
  <2> QED BY <2>3, <2>5
<1>7. StreamedInvariant' BY <1>1, <1>5, <1>6, StreamedOne
<1> QED BY <1>5, <1>7, ModulesApart

LEMMA RollKeeps ==
  ASSUME RowsInvariant, DiskOrdered', Failures, Alive, NEW t \in Streamed,
         \/ RollOk(t) /\ result' = Verdict(t, TRUE)
         \/ RollFails(t) /\ result' = Verdict(t, FALSE),
         UNCHANGED <<memory, dpc, rows, failure>>
  PROVE  /\ OneTable(t) /\ StreamedInvariant' /\ ModulesInvariant'
         /\ ~current'[t]
<1>1. /\ t \in Tables /\ DiskOrdered /\ rows \in [Tables -> Seq(Nat)] /\ faults \in Nat
      /\ sent \in [Tables -> Nat] /\ UNCHANGED <<queue, sent>>
  BY TablesAre
     DEF RowsInvariant, StoreInvariant, SegmentInvariant, RowsTyped, FinishInvariant, memory
<1>2. DiskStep(t) BY <1>1, RollIs
<1>3. OneTable(t) BY <1>2 DEF OneTable
<1>4. ~current'[t]
  <2>1. current \in [Tables -> BOOLEAN] BY <1>1 DEF DiskOrdered
  <2> QED BY <1>1, <2>1 DEF RollOk, RollFails, CloseOk, CloseFails, disk
<1>5. ASSUME NEW m \in 0 .. sent[t], RowsAt(t, m) PROVE RowsAt(t, m)'
  <2>1. PICK w : w = m - Len(rows[t]) OBVIOUS
  <2>2. Len(rows[t]) <= m /\ Ascending(t, w) /\ (Alive /\ Sound(t) => Whole(t, w))
    BY <1>5, <2>1 DEF RowsAt, Buffered
  <2>3. w \in Nat
    <3>1. m \in Nat /\ Len(rows[t]) \in Nat BY <1>1
    <3> QED BY <2>1, <2>2, <3>1
  <2>4. Queued(t, m)'
    <3>1. Queued(t, m) BY <1>5 DEF RowsAt
    <3> QED BY <1>1, <3>1, QueuedStays
  <2>5. Buffered(t, m)' BY <1>5 DEF RowsAt, Buffered
  <2>6. Ascending(t, w)' BY <1>1, <2>2, <2>3, AscendingRoll
  <2>7. ASSUME Sound(t)' PROVE Whole(t, w)'
    <3>1. Whole(t, w) BY <2>2, <2>7, SoundBefore
    <3>2. CASE RollOk(t) BY <1>1, <2>3, <3>1, <3>2, WholeRoll
    <3>3. CASE RollFails(t) /\ result' = Verdict(t, FALSE)
      <4>1. faults' # 0 BY <1>1, <3>3 DEF RollFails, Fault
      <4>2. t = "allocations" => result' = "err" BY <3>3 DEF Verdict
      <4> QED BY <2>7, <4>1, <4>2 DEF Sound
    <3> QED BY <3>2, <3>3
  <2> QED BY <2>1, <2>4, <2>5, <2>6, <2>7 DEF RowsAt
<1>6. StreamedInvariant' BY <1>1, <1>3, <1>5, StreamedOne
<1> QED BY <1>3, <1>4, <1>6, ModulesApart

LEMMA WriteModulesKeeps ==
  ASSUME RowsInvariant, DiskOrdered', Failures, Alive, WriteAll("modules", rows["modules"]),
         rows' = [rows EXCEPT !["modules"] = <<>>], UNCHANGED <<memory, dpc, failure, result>>
  PROVE  OneTable("modules") /\ StreamedInvariant' /\ ModulesInvariant' /\ rows'["modules"] = <<>>
<1> DEFINE M == "modules"
<1>1. /\ M \in Tables /\ M \notin Streamed /\ DiskOrdered /\ rows \in [Tables -> Seq(Nat)] /\ faults \in Nat
      /\ sent \in [Tables -> Nat] /\ UNCHANGED <<queue, sent, refused>> /\ Alive'
      /\ ModulesInvariant /\ ~current[M]
  BY TablesAre DEF RowsInvariant, StoreInvariant, SegmentInvariant, RowsTyped, FinishInvariant,
                   memory, Alive, ModulesInvariant
<1>2. PICK batch : batch = rows[M] OBVIOUS
<1>3. batch \in Seq(Nat) /\ WriteAll(M, batch) BY <1>1, <1>2
<1>4. DiskStep(M) BY <1>1, <1>3, WriteAllIs
<1>5. OneTable(M) /\ rows'[M] = <<>> BY <1>1, <1>4 DEF OneTable
<1>6. StreamedInvariant' BY <1>1, <1>5, StreamedOne
<1>7. current \in [Tables -> BOOLEAN] /\ seq \in [Tables -> Nat] /\ files \in [Tables -> Seq(Segments)]
  BY <1>1 DEF DiskOrdered
<1>8. ~current'[M] BY <1>1, <1>3, <1>7 DEF WriteAll, CloseOk, CloseFails, disk
<1>9. ASSUME faults' = 0 PROVE ModulesWhole'
  <2>1. faults = 0 BY <1>9 DEF Failures
  <2>2. /\ \A v \in Nat : v \in (1 .. sent[M]) \ refused <=>
             InQueue(v) \/ InBuffer(v) \/ v \in TableRows(M)
        /\ Len(files[M]) = seq[M]
    BY <1>1, <2>1 DEF ModulesInvariant, ModulesWhole
  <2>3. \A v : (InQueue(v)' <=> InQueue(v)) /\ ~InBuffer(v)'
    BY <1>1, <1>5 DEF InQueue, QueueAt, InBuffer
  <2>4. \A v : InBuffer(v) <=> \E i \in 1 .. Len(batch) : batch[i] = v BY <1>2 DEF InBuffer
  <2>5. (\A v : v \in TableRows(M)' <=> v \in TableRows(M) \/ InBuffer(v))
        /\ Len(files'[M]) = seq'[M]
    <3>1. CASE batch = <<>> /\ UNCHANGED disk
      <4>1. \A v : ~InBuffer(v) BY <2>4, <3>1
      <4>2. files'[M] = files[M] /\ seq'[M] = seq[M] /\ current'[M] = current[M] BY <3>1 DEF disk
      <4> QED BY <1>1, <2>2, <4>1, <4>2, TableApart
    <3>2. CASE CloseOk(M, Filled(M, batch))
      <4>1. PICK new : new = Filled(M, batch) OBVIOUS
      <4>2. Tip(M, new, FALSE) BY <1>1, <1>3, <4>1, FilledIs
      <4>3. new[seq[M] + 1].rows = batch
        <5>1. Base(M) = <<>> BY <1>1 DEF Base
        <5>2. <<>> \o batch = batch BY <1>3
        <5> QED BY <1>1, <4>1, <5>1, <5>2, FilledRows
      <4>4. Tip(M, Closed(new, M), TRUE) /\ Closed(new, M)[seq[M] + 1].rows = batch
        BY <1>1, <4>2, <4>3, ClosedIs, ClosedRows
      <4>5. files'[M] = Closed(new, M) /\ seq'[M] = seq[M] + 1
        BY <1>1, <1>7, <3>2, <4>1 DEF CloseOk
      <4>6. Tip(M, files'[M], TRUE) /\ files'[M][seq[M] + 1].rows = batch BY <4>4, <4>5
      <4>7. Len(files'[M]) = seq[M] + 1 BY <4>6 DEF Tip
      <4> QED BY <1>1, <2>4, <4>5, <4>6, <4>7, RowsGrown
    <3>3. CASE Fault
      BY <1>1, <1>9, <3>3 DEF Fault
    <3> QED BY <1>3, <3>1, <3>2, <3>3 DEF WriteAll
  <2> QED BY <1>1, <2>2, <2>3, <2>5 DEF ModulesWhole
<1>10. ModulesInvariant' BY <1>1, <1>8, <1>9 DEF ModulesInvariant
<1> QED BY <1>5, <1>6, <1>10

\* What finish does at each step.
LEMMA FinishCases ==
  ASSUME FinishStep, step \in Nat \ {0}
  PROVE  /\ step \in 1 .. 5 /\ step' = step + 1 /\ UNCHANGED <<memory, dpc>> /\ dpc = "finish"
         /\ step = 1 => Flush("allocations", rows["allocations"]) /\ UNCHANGED result
         /\ step = 3 => Flush("samples", rows["samples"]) /\ UNCHANGED result
         /\ step = 4 => /\ WriteAll("modules", rows["modules"])
                        /\ rows' = [rows EXCEPT !["modules"] = <<>>]
                        /\ UNCHANGED <<failure, result>>
         /\ step = 2 => /\ \/ RollOk("allocations") /\ result' = Verdict("allocations", TRUE)
                           \/ RollFails("allocations") /\ result' = Verdict("allocations", FALSE)
                        /\ UNCHANGED <<rows, failure>>
         /\ step = 5 => /\ \/ RollOk("samples") /\ result' = Verdict("samples", TRUE)
                           \/ RollFails("samples") /\ result' = Verdict("samples", FALSE)
                        /\ UNCHANGED <<rows, failure>>
<1>1. Len(FinishSteps) = 5 BY DEF FinishSteps
<1>2. step \in 1 .. 5 /\ step' = step + 1 /\ UNCHANGED <<memory, dpc>> /\ dpc = "finish"
  <2>1. step <= Len(FinishSteps) /\ step' = step + 1 /\ UNCHANGED <<memory, dpc>> /\ dpc = "finish"
    BY DEF FinishStep
  <2>2. step <= 5 BY <1>1, <2>1
  <2>3. step \in 1 .. 5 BY <2>2
  <2> QED BY <2>1, <2>3
<1>3. /\ FinishSteps[1] = [do |-> "flush", table |-> "allocations"]
      /\ FinishSteps[2] = [do |-> "roll", table |-> "allocations"]
      /\ FinishSteps[3] = [do |-> "flush", table |-> "samples"]
      /\ FinishSteps[4] = [do |-> "all", table |-> "modules"]
      /\ FinishSteps[5] = [do |-> "roll", table |-> "samples"]
  BY DEF FinishSteps
<1>4. ASSUME step = 1
      PROVE  Flush("allocations", rows["allocations"]) /\ UNCHANGED result
  <2>1. FinishSteps[step].table = "allocations" /\ FinishSteps[step].do = "flush" BY <1>3, <1>4
  <2> QED BY <2>1 DEF FinishStep
<1>5. ASSUME step = 3
      PROVE  Flush("samples", rows["samples"]) /\ UNCHANGED result
  <2>1. FinishSteps[step].table = "samples" /\ FinishSteps[step].do = "flush" BY <1>3, <1>5
  <2> QED BY <2>1 DEF FinishStep
<1>6. ASSUME step = 4
      PROVE  /\ WriteAll("modules", rows["modules"])
             /\ rows' = [rows EXCEPT !["modules"] = <<>>]
             /\ UNCHANGED <<failure, result>>
  <2>1. FinishSteps[step].table = "modules" /\ FinishSteps[step].do = "all" BY <1>3, <1>6
  <2> QED BY <2>1 DEF FinishStep
<1>7. ASSUME step = 2
      PROVE  /\ \/ RollOk("allocations") /\ result' = Verdict("allocations", TRUE)
                \/ RollFails("allocations") /\ result' = Verdict("allocations", FALSE)
             /\ UNCHANGED <<rows, failure>>
  <2>1. FinishSteps[step].table = "allocations" /\ FinishSteps[step].do = "roll" BY <1>3, <1>7
  <2> QED BY <2>1 DEF FinishStep
<1>8. ASSUME step = 5
      PROVE  /\ \/ RollOk("samples") /\ result' = Verdict("samples", TRUE)
                \/ RollFails("samples") /\ result' = Verdict("samples", FALSE)
             /\ UNCHANGED <<rows, failure>>
  <2>1. FinishSteps[step].table = "samples" /\ FinishSteps[step].do = "roll" BY <1>3, <1>8
  <2> QED BY <2>1 DEF FinishStep
<1> QED BY <1>2, <1>4, <1>5, <1>6, <1>7, <1>8

LEMMA FinishKeeps ==
  ASSUME RowsInvariant, StoreInvariant', FinishStep PROVE RowsInvariant'
<1>1. /\ step \in Nat \ {0} /\ DiskOrdered' /\ Failures /\ "samples" \in Streamed
      /\ "allocations" \in Streamed /\ FinishInvariant
  BY FailuresAdd DEF RowsInvariant, StoreInvariant, SegmentInvariant, Streamed
<1>2. /\ step \in 1 .. 5 /\ step' = step + 1 /\ UNCHANGED <<memory, dpc>> /\ dpc = "finish"
  BY <1>1, FinishCases
<1>3. Alive /\ queue' = queue /\ senders' = senders BY <1>2 DEF Alive, memory
<1>4. "samples" \in Tables /\ "allocations" \in Tables /\ "modules" \in Tables BY DEF Tables
<1>5. /\ dpc' = "finish" /\ faults' \in Nat /\ failure' \in BOOLEAN /\ queue' = <<>> /\ ~senders'
      /\ step > 1 => rows["allocations"] = <<>>
      /\ step > 2 => ~current["allocations"]
      /\ step > 3 => rows["samples"] = <<>>
      /\ step > 4 => rows["modules"] = <<>>
  BY <1>1, <1>2, <1>3 DEF FinishInvariant, Failures
<1>11. step' > 2 /\ result' = "ok" => ~failure'
  <2>1. /\ failure \in BOOLEAN /\ (step > 2 /\ result = "ok" => ~failure)
        /\ step' = step + 1 /\ (result' = "ok" => result = "ok")
    BY <1>1, <1>2 DEF FinishInvariant, Failures
  <2>2. CASE step = 1 BY <2>1, <2>2
  <2>3. CASE step = 2
    <3>1. failure' = failure /\ (result' = "ok" => ~failure)
      BY <1>1, <2>3, FinishCases DEF Verdict
    <3> QED BY <3>1
  <2>4. CASE step = 3
    <3>1. failure' = failure \/ Remembered("samples") BY <1>1, <2>4, FinishCases DEF Flush
    <3>2. failure' = failure BY <2>1, <3>1, Zenon DEF Remembered
    <3> QED BY <2>1, <2>4, <3>2
  <2>5. CASE step = 4 \/ step = 5
    <3>1. failure' = failure BY <1>1, <2>5, FinishCases
    <3> QED BY <2>1, <2>5, <3>1
  <2> QED BY <1>2, <2>2, <2>3, <2>4, <2>5
<1>6. CASE step = 1
  <2>1. /\ OneTable("allocations") /\ StreamedInvariant' /\ ModulesInvariant'
        /\ rows'["allocations"] = <<>>
    BY <1>1, <1>2, <1>3, <1>6, FinishCases, FlushKeeps
  <2>2. step' = 2 BY <1>2, <1>6
  <2>3. FinishInvariant' BY <1>5, <1>11, <2>1, <2>2 DEF FinishInvariant
  <2> QED BY <2>1, <2>3 DEF RowsInvariant
<1>7. CASE step = 2
  <2>1. /\ OneTable("allocations") /\ StreamedInvariant' /\ ModulesInvariant'
        /\ ~current'["allocations"] /\ rows' = rows
    BY <1>1, <1>2, <1>3, <1>7, FinishCases, RollKeeps
  <2>2. step' = 3 BY <1>2, <1>7
  <2>3. FinishInvariant' BY <1>5, <1>11, <1>7, <2>1, <2>2 DEF FinishInvariant
  <2> QED BY <2>1, <2>3 DEF RowsInvariant
<1>8. CASE step = 3
  <2>1. /\ OneTable("samples") /\ StreamedInvariant' /\ ModulesInvariant'
        /\ rows'["samples"] = <<>>
    BY <1>1, <1>2, <1>3, <1>8, FinishCases, FlushKeeps
  <2>2. step' = 4 BY <1>2, <1>8
  <2>3. rows'["allocations"] = rows["allocations"] /\ current'["allocations"] = current["allocations"]
    BY <1>4, <2>1, FinishedApart
  <2>4. FinishInvariant' BY <1>5, <1>11, <1>8, <2>1, <2>2, <2>3 DEF FinishInvariant
  <2> QED BY <2>1, <2>4 DEF RowsInvariant
<1>9. CASE step = 4
  <2>1. /\ OneTable("modules") /\ StreamedInvariant' /\ ModulesInvariant'
        /\ rows'["modules"] = <<>>
    BY <1>1, <1>2, <1>3, <1>9, FinishCases, WriteModulesKeeps
  <2>2. step' = 5 BY <1>2, <1>9
  <2>3. /\ rows'["allocations"] = rows["allocations"] /\ current'["allocations"] = current["allocations"]
        /\ rows'["samples"] = rows["samples"]
    BY <1>4, <2>1, FinishedApart
  <2>4. FinishInvariant' BY <1>5, <1>11, <1>9, <2>1, <2>2, <2>3 DEF FinishInvariant
  <2> QED BY <2>1, <2>4 DEF RowsInvariant
<1>10. CASE step = 5
  <2>1. /\ OneTable("samples") /\ StreamedInvariant' /\ ModulesInvariant'
        /\ ~current'["samples"] /\ rows' = rows
    BY <1>1, <1>2, <1>3, <1>10, FinishCases, RollKeeps
  <2>2. step' = 6 BY <1>2, <1>10
  <2>3. current'["allocations"] = current["allocations"]
    BY <1>4, <2>1, FinishedApart
  <2>4. FinishInvariant' BY <1>5, <1>11, <1>10, <2>1, <2>2, <2>3 DEF FinishInvariant
  <2> QED BY <2>1, <2>4 DEF RowsInvariant
<1> QED BY <1>2, <1>6, <1>7, <1>8, <1>9, <1>10

----------------------------------------------------------------------------
(* The end of a recording, a kill, and recovery *)

\* Steps that leave rows, queue and disk alone.
LEMMA NothingMoves ==
  ASSUME RowsInvariant, UNCHANGED <<queue, sent, refused, rows, disk, failure, result, faults>>,
         Alive' = Alive
  PROVE  StreamedInvariant' /\ ModulesInvariant'
<1>1. files' = files /\ seq' = seq /\ current' = current /\ sent' = sent BY DEF disk
<1>2. \A u \in Tables : TableRows(u)' = TableRows(u) BY <1>1, TableApart
<1>3. ASSUME NEW u \in Streamed PROVE Beginning(u)' /\ \E k \in 0 .. sent[u] : RowsAt(u, k)'
  <2>1. PICK m \in 0 .. sent[u] : RowsAt(u, m) BY DEF RowsInvariant, StreamedInvariant
  <2>2. u \in Tables /\ sent[u] \in Nat /\ m \in Nat
    BY TablesAre DEF RowsInvariant, StoreInvariant, SegmentInvariant, RowsTyped
  <2>3. Queued(u, m)' BY <2>1, QueuedStays DEF RowsAt
  <2>4. Sound(u)' => Sound(u) BY DEF Sound
  <2>5. RowsAt(u, m)' BY <1>1, <2>1, <2>2, <2>3, <2>4, RowsApart
  <2>6. Beginning(u)' BY <1>1, <1>2, <2>2 DEF RowsInvariant, StreamedInvariant, Beginning
  <2> QED BY <2>5, <2>6
<1>4. StreamedInvariant' BY <1>1, <1>3 DEF StreamedInvariant
<1>5. \A v : (InQueue(v)' <=> InQueue(v)) /\ (InBuffer(v)' <=> InBuffer(v))
  BY DEF InQueue, QueueAt, InBuffer
<1>6. ModulesInvariant BY DEF RowsInvariant
<1>7. ModulesInvariant'
  BY <1>1, <1>2, <1>5, <1>6, TablesAre DEF ModulesInvariant, ModulesWhole
<1> QED BY <1>4, <1>7

LEMMA QuietKeeps ==
  ASSUME RowsInvariant, StoreInvariant',
         DropSenders \/ Disconnected \/ FinishDone \/ Recovered \/ UNCHANGED store
  PROVE  RowsInvariant'
<1>1. UNCHANGED <<queue, sent, refused, rows, disk, failure, step, result, faults>>
  BY DEF DropSenders, Disconnected, FinishDone, Recovered, memory, store, disk
<1>2. Alive' = Alive
  BY DEF DropSenders, Disconnected, FinishDone, Recovered, memory, store, disk, Alive
<1>3. StreamedInvariant' /\ ModulesInvariant' BY <1>1, <1>2, NothingMoves
<1>4. FinishInvariant'
  <2>1. FinishInvariant /\ current' = current /\ files' = files BY <1>1 DEF RowsInvariant, disk
  <2>2. \A t : Unreadable(t)' = Unreadable(t) BY <2>1 DEF Unreadable
  <2>3. CASE DropSenders
    <3>1. dpc' = dpc /\ ~senders' BY <2>3 DEF DropSenders
    <3> QED BY <1>1, <2>1, <2>2, <3>1 DEF FinishInvariant
  <2>4. CASE Disconnected
    <3>1. dpc = "recv" /\ dpc' = "finish" /\ queue = <<>> /\ ~senders /\ senders' = senders
      BY <2>4 DEF Disconnected, memory
    <3> QED BY <1>1, <2>1, <2>2, <3>1 DEF FinishInvariant
  <2>5. CASE FinishDone
    <3>1. dpc = "finish" /\ dpc' = "done" /\ senders' = senders BY <2>5 DEF FinishDone, memory
    <3>2. Len(FinishSteps) = 5 BY DEF FinishSteps
    <3>3. step > 5 BY <2>5, <3>2 DEF FinishDone
    <3> QED BY <1>1, <2>1, <2>2, <3>1, <3>3 DEF FinishInvariant
  <2>6. CASE Recovered
    <3>1. /\ dpc = "killed" /\ dpc' = "recovered" /\ senders' = senders
          /\ \A t \in Tables : Unreadable(t) = {}
      BY <2>6 DEF Recovered, memory
    <3> QED BY <1>1, <2>1, <2>2, <3>1 DEF FinishInvariant
  <2>7. CASE UNCHANGED store
    <3>1. dpc' = dpc /\ senders' = senders BY <2>7 DEF store
    <3> QED BY <1>1, <2>1, <2>2, <3>1 DEF FinishInvariant
  <2> QED BY <2>3, <2>4, <2>5, <2>6, <2>7
<1> QED BY <1>3, <1>4 DEF RowsInvariant

LEMMA AscendingUp ==
  ASSUME DiskOrdered, NEW t \in Tables, NEW w \in Nat, NEW x \in Nat, w <= x, Ascending(t, w)
  PROVE  Ascending(t, x)
<1>1. ASSUME NEW k \in 1 .. Len(files[t]), NEW i \in 1 .. Len(files[t][k].rows)
      PROVE  files[t][k].rows[i] <= x
  <2>1. files[t][k].rows[i] \in Nat
    <3>1. files[t][k].rows \in Seq(Nat) BY DiskFacts
    <3> QED BY <3>1
  <2>2. files[t][k].rows[i] <= w BY DEF Ascending
  <2> QED BY <2>1, <2>2
<1> QED BY <1>1 DEF Ascending

\* A kill takes the queue, the buffers and the open segments.
LEMMA KillKeeps ==
  ASSUME RowsInvariant, StoreInvariant', Kill PROVE RowsInvariant'
<1>1. /\ dpc' = "killed" /\ queue' = <<>> /\ ~senders' /\ rows' = [t \in Tables |-> <<>>]
      /\ current' = [t \in Tables |-> FALSE]
      /\ UNCHANGED <<sent, refused, seq, files, failure, step, result, faults>>
      /\ dpc \in {"recv", "finish"}
  BY DEF Kill
<1>2. Alive /\ ~Alive' BY <1>1 DEF Alive
<1>3. FinishInvariant' BY <1>1 DEF RowsInvariant, FinishInvariant, Tables
<1>4. ModulesInvariant' BY <1>1, <1>2, TablesAre DEF RowsInvariant, ModulesInvariant
<1>5. ASSUME NEW u \in Streamed PROVE Beginning(u)' /\ \E k \in 0 .. sent[u] : RowsAt(u, k)'
  <2>1. PICK m \in 0 .. sent[u] : RowsAt(u, m) BY DEF RowsInvariant, StreamedInvariant
  <2>2. /\ u \in Tables /\ DiskOrdered /\ sent[u] \in Nat /\ m \in Nat /\ m <= sent[u]
        /\ Len(rows[u]) \in Nat
    BY TablesAre DEF RowsInvariant, StoreInvariant, SegmentInvariant, RowsTyped
  <2>3. PICK w : w = m - Len(rows[u]) OBVIOUS
  <2>4. Len(rows[u]) <= m /\ Ascending(u, w) /\ (Sound(u) => Whole(u, w))
    BY <1>2, <2>1, <2>3 DEF RowsAt, Buffered
  <2>5. w \in Nat /\ w <= sent[u] BY <2>2, <2>3, <2>4
  <2>6. TableRows(u)' = TableRows(u) BY <1>1 DEF TableRows, Readable
  <2>7. Beginning(u)'
    <3> SUFFICES ASSUME faults = 0 PROVE \E c \in 0 .. sent[u] : TableRows(u) = 1 .. c
      BY <1>1, <2>6 DEF Beginning
    <3>1. PICK c \in 0 .. w : WholeAt(u, w, c) BY <2>4 DEF Sound, Whole
    <3>2. c \in 0 .. sent[u] BY <2>2, <2>5
    <3> QED BY <3>1, <3>2 DEF WholeAt
  <2>8. Ascending(u, sent[u])'
    <3>1. Ascending(u, sent[u]) BY <2>2, <2>4, <2>5, AscendingUp
    <3> QED BY <1>1, <3>1 DEF Ascending
  <2>9. Queued(u, sent[u])'
    <3>1. QueueAt(u)' = {} BY <1>1 DEF QueueAt
    <3>2. sent[u] + 1 .. sent[u] = {} BY <2>2
    <3> QED BY <1>1, <3>1, <3>2 DEF Queued
  <2>10. rows'[u] = <<>> /\ Len(rows'[u]) = 0 /\ sent[u] - 0 = sent[u] BY <1>1, <2>2
  <2>11. RowsAt(u, sent[u])'
    <3>1. RunAfter(sent[u], <<>>) /\ 0 <= sent[u] BY <2>2 DEF RunAfter
    <3>2. Buffered(u, sent[u])' BY <1>1, <2>10, <3>1 DEF Buffered
    <3>3. Ascending(u, sent[u] - Len(rows[u]))' BY <1>1, <2>8, <2>10
    <3> QED BY <1>2, <2>9, <3>2, <3>3 DEF RowsAt
  <2>12. sent[u] \in 0 .. sent[u] BY <2>2
  <2>13. sent'[u] = sent[u] BY <1>1
  <2>14. \E k \in 0 .. sent[u] : RowsAt(u, k)' BY <2>11, <2>12, <2>13
  <2> QED BY <2>7, <2>14
<1>6. StreamedInvariant' BY <1>1, <1>5 DEF StreamedInvariant
<1> QED BY <1>3, <1>4, <1>6 DEF RowsInvariant

\* Recovery takes away a file that no reader could open, the last of its table.
LEMMA QuarantineKeeps ==
  ASSUME RowsInvariant, StoreInvariant', NEW t \in Tables, Quarantine(t) PROVE RowsInvariant'
<1>1. /\ SegmentInvariant /\ DiskOrdered /\ DiskOrdered' /\ sent \in [Tables -> Nat]
      /\ rows \in [Tables -> Seq(Nat)]
  BY DEF RowsInvariant, StoreInvariant, SegmentInvariant, RowsTyped
<1>2. /\ dpc = "killed"
      /\ UNCHANGED <<memory, queue, sent, refused, senders, rows, current, seq, failure, dpc, step, result, faults>>
  BY DEF Quarantine, memory
<1>3. /\ Len(files'[t]) = seq[t] /\ Len(files[t]) = seq[t] + 1 /\ seq[t] \in Nat
      /\ \A j \in 1 .. seq[t] : files'[t][j] = files[t][j]
      /\ \A u \in Tables : u # t => files'[u] = files[u]
  BY <1>1, QuarantineRemoves DEF DiskOrdered
<1>4. ~Alive /\ ~Alive' BY <1>2 DEF Alive
<1>5. \A u \in Tables : TableRows(u)' = TableRows(u)
  <2>1. \A u \in Tables : \A k \in 1 .. seq[u] : files'[u][k] = files[u][k] BY <1>3
  <2>2. \A u \in Tables : \A v : Found(u, v)' <=> Found(u, v) BY <1>2, <2>1 DEF Found
  <2> QED BY <1>1, <2>2, ReadRows, ReadRowsNext
<1>6. \A u \in Tables : \A w : Ascending(u, w) => Ascending(u, w)'
  <2> SUFFICES ASSUME NEW u \in Tables, NEW w, Ascending(u, w) PROVE Ascending(u, w)' OBVIOUS
  <2>1. CASE u # t BY <1>3, <2>1 DEF Ascending
  <2>2. CASE u = t
    <3>1. \A k \in 1 .. Len(files'[t]) : k \in 1 .. Len(files[t]) /\ files'[t][k] = files[t][k]
      BY <1>3
    <3>2. Ascending(t, w) BY <2>2
    <3>3. ASSUME NEW k \in 1 .. Len(files'[t]), NEW i \in 1 .. Len(files'[t][k].rows)
          PROVE  files'[t][k].rows[i] <= w
      BY <3>1, <3>2 DEF Ascending
    <3>4. ASSUME NEW k \in 1 .. Len(files'[t]), NEW l \in 1 .. Len(files'[t]),
                 NEW i \in 1 .. Len(files'[t][k].rows), NEW j \in 1 .. Len(files'[t][l].rows),
                 k < l \/ (k = l /\ i < j)
          PROVE  files'[t][k].rows[i] < files'[t][l].rows[j]
      BY <3>1, <3>2, <3>4 DEF Ascending
    <3>5. Ascending(t, w)' BY <3>3, <3>4 DEF Ascending
    <3> QED BY <2>2, <3>5
  <2> QED BY <2>1, <2>2
<1>7. ASSUME NEW u \in Streamed PROVE Beginning(u)' /\ \E k \in 0 .. sent'[u] : RowsAt(u, k)'
  <2>1. u \in Tables BY TablesAre
  <2>2. PICK m \in 0 .. sent[u] : RowsAt(u, m) BY DEF RowsInvariant, StreamedInvariant
  <2>3. Beginning(u)'
    BY <1>2, <1>4, <1>5, <2>1 DEF RowsInvariant, StreamedInvariant, Beginning
  <2>4. Queued(u, m) /\ Buffered(u, m) /\ Ascending(u, m - Len(rows[u])) BY <2>2 DEF RowsAt
  <2>5. Queued(u, m)' BY <1>2, <2>4, QueuedStays
  <2>6. Buffered(u, m)' BY <1>2, <2>4 DEF Buffered
  <2>7. Ascending(u, m - Len(rows[u]))' BY <1>2, <1>6, <2>1, <2>4
  <2>8. RowsAt(u, m)' BY <1>4, <2>5, <2>6, <2>7 DEF RowsAt
  <2> QED BY <1>2, <2>3, <2>8
<1>8. StreamedInvariant' BY <1>7 DEF StreamedInvariant
<1>9. ModulesInvariant' BY <1>2, <1>4 DEF RowsInvariant, ModulesInvariant
<1>10. FinishInvariant' BY <1>2 DEF RowsInvariant, FinishInvariant
<1> QED BY <1>8, <1>9, <1>10 DEF RowsInvariant

LEMMA RowsInitially == Init => RowsInvariant
<1> SUFFICES ASSUME Init PROVE RowsInvariant OBVIOUS
<1>1. StoreInvariant /\ DiskOrdered BY StoreInitially DEF StoreInvariant, SegmentInvariant
<1>2. /\ queue = <<>> /\ senders /\ sent = [t \in Tables |-> 0] /\ refused = {}
      /\ rows = [t \in Tables |-> <<>>] /\ current = [t \in Tables |-> FALSE]
      /\ seq = [t \in Tables |-> 0] /\ files = [t \in Tables |-> <<>>]
      /\ failure = FALSE /\ dpc = "recv" /\ step = 1 /\ faults = 0
  BY DEF Init, StoreInit
<1>3. Alive BY <1>2 DEF Alive
<1>4. ASSUME NEW t \in Tables
      PROVE  /\ sent[t] = 0 /\ rows[t] = <<>> /\ files[t] = <<>> /\ seq[t] = 0 /\ ~current[t]
             /\ TableRows(t) = {} /\ Base(t) = <<>> /\ QueueAt(t) = {}
             /\ Len(rows[t]) = 0 /\ Len(files[t]) = 0
  <2>1. /\ sent[t] = 0 /\ rows[t] = <<>> /\ files[t] = <<>> /\ seq[t] = 0 /\ ~current[t]
        /\ Len(<<>>) = 0
    BY <1>2
  <2>2. \A v : ~Found(t, v) BY <2>1 DEF Found
  <2>3. TableRows(t) = {} BY <1>1, <2>2, ReadRows
  <2>4. QueueAt(t) = {} BY <1>2 DEF QueueAt
  <2> QED BY <2>1, <2>3, <2>4 DEF Base
<1>5. FinishInvariant
  <2>1. \A t \in Streamed : Len(rows[t]) = 0 BY <1>4, TablesAre
  <2>2. \A t \in Streamed : Len(rows[t]) < BatchRows BY <2>1, StoreAssumption
  <2>3. ~(step > 1) /\ ~(step > 2) /\ ~(step > 3) /\ ~(step > 4) /\ ~(step > 5) BY <1>2
  <2> QED BY <1>2, <2>2, <2>3 DEF FinishInvariant
<1>6. ModulesInvariant
  <2>1. /\ sent["modules"] = 0 /\ TableRows("modules") = {} /\ ~current["modules"]
        /\ Len(files["modules"]) = seq["modules"] /\ rows["modules"] = <<>> /\ QueueAt("modules") = {}
        /\ Len(rows["modules"]) = 0
    BY <1>4, TablesAre
  <2>2. \A v : ~InQueue(v) /\ ~InBuffer(v) BY <2>1 DEF InQueue, InBuffer
  <2>3. 1 .. sent["modules"] = {} BY <2>1
  <2> QED BY <1>2, <2>1, <2>2, <2>3 DEF ModulesInvariant, ModulesWhole
<1>7. ASSUME NEW t \in Streamed PROVE Beginning(t) /\ RowsAt(t, 0) /\ 0 \in 0 .. sent[t]
  <2>1. /\ t \in Tables /\ sent[t] = 0 /\ rows[t] = <<>> /\ files[t] = <<>> /\ seq[t] = 0 /\ ~current[t]
        /\ TableRows(t) = {} /\ Base(t) = <<>> /\ QueueAt(t) = {} /\ Len(rows[t]) = 0 /\ Len(files[t]) = 0
    BY <1>4, TablesAre
  <2>2. Beginning(t) BY <1>3 DEF Beginning
  <2>3. 0 + 1 .. 0 = {} /\ 0 - 0 = 0 /\ 1 .. 0 = {} /\ Len(<<>>) = 0 /\ 0 < SegmentRows /\ 0 \in 0 .. 0
        /\ 0 + 0 = 0
    BY StoreAssumption
  <2>4. Queued(t, 0) BY <2>1, <2>3 DEF Queued
  <2>5. Buffered(t, 0) BY <2>1, <2>3 DEF Buffered, RunAfter
  <2>6. Ascending(t, 0) BY <2>1, <2>3 DEF Ascending
  <2>7. WholeAt(t, 0, 0) BY <2>1, <2>3 DEF WholeAt, RunAfter
  <2>8. Whole(t, 0) BY <2>3, <2>7 DEF Whole
  <2> QED BY <2>1, <2>2, <2>3, <2>4, <2>5, <2>6, <2>8 DEF RowsAt
<1>8. StreamedInvariant BY <1>7 DEF StreamedInvariant
<1> QED BY <1>1, <1>5, <1>6, <1>8 DEF RowsInvariant

LEMMA RowsInductive == RowsInvariant /\ [StoreNext]_store => RowsInvariant'
<1> SUFFICES ASSUME RowsInvariant, [StoreNext]_store PROVE RowsInvariant' OBVIOUS
<1>1. StoreInvariant' BY StoreInductive DEF RowsInvariant
<1>2. CASE (\E t \in Streamed : Send(t)) \/ TrySend("modules") BY <1>1, <1>2, PublishKeeps
<1>3. CASE Consume BY <1>1, <1>3, ConsumeKeeps
<1>4. CASE FinishStep BY <1>1, <1>4, FinishKeeps
<1>5. CASE DropSenders \/ Disconnected \/ FinishDone \/ Recovered \/ UNCHANGED store
  BY <1>1, <1>5, QuietKeeps
<1>6. CASE Kill BY <1>1, <1>6, KillKeeps
<1>7. ASSUME NEW t \in Tables, Quarantine(t) PROVE RowsInvariant' BY <1>1, <1>7, QuarantineKeeps
<1> QED BY <1>2, <1>3, <1>4, <1>5, <1>6, <1>7 DEF StoreNext, WriterThread, Recovery

\* RowsInvariant says where every published row of a table is: in the queue, in the
\* buffer of the writer thread, in the open segment or in the closed ones, in this order;
\* every action of EventDispatcher, SegmentWriter, the writer thread and recovery keeps it.
THEOREM StoreRows == Spec => []RowsInvariant
<1>1. RowsInvariant /\ [Next]_vars => RowsInvariant' BY StoreSteps, RowsInductive
<1> QED BY <1>1, RowsInitially, PTL DEF Spec

----------------------------------------------------------------------------
(* What a reader finds *)

LEMMA InOrderIs ==
  ASSUME DiskOrdered, NEW t \in Tables, NEW w, Ascending(t, w) PROVE InOrder(t)
<1>1. DOMAIN files[t] = 1 .. Len(files[t]) BY DiskFacts
<1>2. \A k \in DOMAIN files[t] : DOMAIN files[t][k].rows = 1 .. Len(files[t][k].rows)
  BY <1>1, DiskFacts
<1>3. Readable(t) \subseteq 1 .. Len(files[t]) BY <1>1 DEF Readable
<1> QED BY <1>1, <1>2, <1>3 DEF InOrder, Ascending

LEMMA OrderHolds == RowsInvariant => RowsInOrder
<1> SUFFICES ASSUME RowsInvariant, NEW t \in Streamed PROVE InOrder(t) BY DEF RowsInOrder, Streamed
<1>1. DiskOrdered /\ t \in Tables BY TablesAre DEF RowsInvariant, StoreInvariant, SegmentInvariant
<1>2. PICK m \in 0 .. sent[t] : RowsAt(t, m) BY DEF RowsInvariant, StreamedInvariant
<1> QED BY <1>1, <1>2, InOrderIs DEF RowsAt

\* Once finish is over, a table that nothing failed for holds everything.
LEMMA FinishedRows ==
  ASSUME RowsInvariant, dpc = "done", NEW t \in Streamed, Sound(t)
  PROVE  TableRows(t) = 1 .. sent[t] /\ Len(files[t]) = seq[t]
<1>1. /\ DiskOrdered /\ t \in Tables /\ sent[t] \in Nat /\ queue = <<>>
      /\ rows[t] = <<>> /\ ~current[t] /\ Alive
  <2>1. FinishInvariant /\ t \in Tables /\ DiskOrdered /\ sent[t] \in Nat
    BY TablesAre DEF RowsInvariant, StoreInvariant, SegmentInvariant, RowsTyped
  <2>2. step > 5 /\ queue = <<>> /\ Alive BY <2>1 DEF FinishInvariant, Alive
  <2>3. step \in Nat BY DEF RowsInvariant, StoreInvariant
  <2>4. step > 1 /\ step > 2 /\ step > 3 BY <2>2, <2>3
  <2> QED BY <2>1, <2>2, <2>4 DEF FinishInvariant, Streamed
<1>2. PICK m \in 0 .. sent[t] : RowsAt(t, m) BY DEF RowsInvariant, StreamedInvariant
<1>3. m = sent[t] BY <1>1, <1>2, QueuedNone DEF RowsAt
<1>4. Len(rows[t]) = 0 /\ sent[t] - 0 = sent[t] BY <1>1
<1>5. Whole(t, sent[t]) BY <1>1, <1>2, <1>3, <1>4 DEF RowsAt
<1>6. PICK c \in 0 .. sent[t] : WholeAt(t, sent[t], c) BY <1>5 DEF Whole
<1>7. Len(Base(t)) = 0 BY <1>1 DEF Base
<1>8. c = sent[t] BY <1>1, <1>6, <1>7 DEF WholeAt
<1> QED BY <1>1, <1>6, <1>8 DEF WholeAt

LEMMA FinishedModules ==
  ASSUME RowsInvariant, dpc = "done", faults = 0
  PROVE  /\ TableRows("modules") = (1 .. sent["modules"]) \ refused
         /\ Len(files["modules"]) = seq["modules"]
<1> DEFINE M == "modules"
<1>1. /\ DiskOrdered /\ M \in Tables /\ sent[M] \in Nat /\ ModulesWhole /\ Alive
  BY TablesAre DEF RowsInvariant, StoreInvariant, SegmentInvariant, RowsTyped, ModulesInvariant, Alive
<1>2. queue = <<>> /\ rows[M] = <<>>
  <2>1. FinishInvariant BY DEF RowsInvariant
  <2>2. step > 5 /\ queue = <<>> BY <2>1 DEF FinishInvariant
  <2>3. step \in Nat BY DEF RowsInvariant, StoreInvariant
  <2>4. step > 4 BY <2>2, <2>3
  <2> QED BY <2>1, <2>2, <2>4 DEF FinishInvariant
<1>3. \A v : ~InQueue(v) /\ ~InBuffer(v) BY <1>2 DEF InQueue, QueueAt, InBuffer
<1>4. \A v \in Nat : v \in (1 .. sent[M]) \ refused <=> v \in TableRows(M)
  BY <1>1, <1>3 DEF ModulesWhole
<1>5. TableRows(M) \subseteq Nat
  <2> SUFFICES ASSUME NEW v, Found(M, v) PROVE v \in Nat BY <1>1, ReadRows
  <2>1. PICK k \in 1 .. seq[M] : \E i \in 1 .. Len(files[M][k].rows) : files[M][k].rows[i] = v
    BY DEF Found
  <2>2. k \in 1 .. Len(files[M])
    <3>1. seq[M] \in Nat /\ Len(files[M]) \in Nat /\ seq[M] <= Len(files[M]) BY <1>1, DiskFacts
    <3> QED BY <3>1
  <2>3. files[M][k].rows \in Seq(Nat) BY <1>1, <2>2, DiskFacts
  <2>4. PICK x : x = files[M][k].rows OBVIOUS
  <2>5. x \in Seq(Nat) /\ \E i \in 1 .. Len(x) : x[i] = v BY <2>1, <2>3, <2>4
  <2> QED BY <2>5
<1>6. 1 .. sent[M] \subseteq Nat BY <1>1
<1>7. TableRows(M) = (1 .. sent[M]) \ refused
  <2>1. PICK A, B, C : A = TableRows(M) /\ B = 1 .. sent[M] /\ C = refused OBVIOUS
  <2>2. A \subseteq Nat /\ B \subseteq Nat /\ \A v \in Nat : v \in B \ C <=> v \in A
    BY <1>4, <1>5, <1>6, <2>1
  <2>3. A = B \ C BY <2>2
  <2> QED BY <2>1, <2>3
<1> QED BY <1>1, <1>7 DEF ModulesWhole

LEMMA AllClosed ==
  ASSUME DiskOrdered, NEW t \in Tables, Len(files[t]) = seq[t]
  PROVE  \A i \in DOMAIN files[t] : files[t][i].footer
<1>1. /\ DOMAIN files[t] = 1 .. Len(files[t]) /\ seq[t] \in Nat
      /\ \A k \in 1 .. Len(files[t]) : files[t][k].footer <=> k <= seq[t]
  BY DiskFacts
<1> QED BY <1>1

LEMMA FinishHolds == RowsInvariant => FinishWritesAll /\ AllocationsHonest
<1> SUFFICES ASSUME RowsInvariant, dpc = "done"
             PROVE  FinishWritesAll /\ AllocationsHonest
  BY DEF FinishWritesAll, AllocationsHonest
<1>1. DiskOrdered BY DEF RowsInvariant, StoreInvariant, SegmentInvariant
<1>2. ASSUME faults = 0, NEW t \in Tables
      PROVE  /\ \A i \in DOMAIN files[t] : files[t][i].footer
             /\ TableRows(t) = (1 .. sent[t]) \ (IF t = "modules" THEN refused ELSE {})
  <2>1. CASE t = "modules" BY <1>1, <1>2, <2>1, FinishedModules, AllClosed
  <2>2. CASE t # "modules"
    <3>1. t \in Streamed /\ Sound(t) BY <1>2, <2>2 DEF Tables, Streamed, Sound
    <3>2. TableRows(t) = 1 .. sent[t] /\ Len(files[t]) = seq[t] BY <3>1, FinishedRows
    <3> QED BY <1>1, <2>2, <3>2, AllClosed
  <2> QED BY <2>1, <2>2
<1>3. ASSUME result = "ok"
      PROVE  InOrder("allocations") /\ TableRows("allocations") = 1 .. sent["allocations"]
  <2>1. ~failure
    <3>1. step > 5 /\ step \in Nat BY DEF RowsInvariant, FinishInvariant, StoreInvariant
    <3>2. step > 2 BY <3>1
    <3> QED BY <1>3, <3>2 DEF RowsInvariant, FinishInvariant
  <2>2. "allocations" \in Streamed /\ Sound("allocations") BY <1>3, <2>1 DEF Streamed, Sound
  <2> QED BY <2>2, FinishedRows, OrderHolds DEF RowsInOrder
<1> QED BY <1>2, <1>3 DEF FinishWritesAll, AllocationsHonest

\* The rows taken from the queue are the published ones that are not in it.
LEMMA TakenIs ==
  ASSUME RowsTyped, NEW t \in Tables, NEW m \in 0 .. sent[t], Queued(t, m)
  PROVE  Taken(t) = m
<1>1. queue \in Seq(Published) /\ sent[t] \in Nat /\ m \in Nat BY DEF RowsTyped
<1> DEFINE f == [i \in QueueAt(t) |-> queue[i].n]
           S == m + 1 .. sent[t]
<1>2. QueueAt(t) \subseteq Int BY <1>1 DEF QueueAt
<1>3. f \in [QueueAt(t) -> S] BY DEF Queued
<1>4. S \subseteq Int BY <1>1
<1>5. \A i, j \in QueueAt(t) : i # j => f[i] # f[j]
  <2> SUFFICES ASSUME NEW i \in QueueAt(t), NEW j \in QueueAt(t), i # j PROVE f[i] # f[j] OBVIOUS
  <2>1. f[i] \in Int /\ f[j] \in Int BY <1>3, <1>4
  <2>2. i < j => f[i] < f[j] BY DEF Queued
  <2>3. j < i => f[j] < f[i] BY DEF Queued
  <2>4. i < j \/ j < i BY <1>2
  <2> HIDE DEF f
  <2> QED BY <2>1, <2>2, <2>3, <2>4
<1>6. \A v \in S : \E i \in QueueAt(t) : f[i] = v BY DEF Queued
<1> HIDE DEF f
<1>7. f \in Bijection(QueueAt(t), S)
  BY <1>3, <1>5, <1>6 DEF Bijection, Injection, Surjection, IsInjective
<1>8. ExistsBijection(S, QueueAt(t))
  <2>1. ExistsBijection(QueueAt(t), S) BY <1>7 DEF ExistsBijection
  <2> QED BY <2>1, Fun_ExistsBijSymmetric
<1>9. IsFiniteSet(S) /\ Cardinality(S) = sent[t] - m
  <2>1. m + 1 \in Int /\ sent[t] \in Int BY <1>1
  <2>2. /\ IsFiniteSet(S)
        /\ Cardinality(S) = IF m + 1 > sent[t] THEN 0 ELSE sent[t] - (m + 1) + 1
    BY <2>1, FS_Interval
  <2>3. (IF m + 1 > sent[t] THEN 0 ELSE sent[t] - (m + 1) + 1) = sent[t] - m BY <1>1
  <2> HIDE DEF S
  <2> QED BY <2>2, <2>3
<1>10. Cardinality(QueueAt(t)) = sent[t] - m
  <2> HIDE DEF S
  <2> QED BY <1>8, <1>9, FS_Bijection
<1>11. Taken(t) = sent[t] - Cardinality(QueueAt(t)) BY DEF Taken, QueueAt
<1> QED BY <1>1, <1>10, <1>11

LEMMA TailHolds == RowsInvariant => CrashLosesTail
<1> SUFFICES ASSUME RowsInvariant, faults = 0, NEW t \in Streamed
             PROVE  /\ dpc = "recv" =>
                         Taken(t) - Cardinality(TableRows(t)) <= (SegmentRows - 1) + (BatchRows - 1)
                    /\ dpc = "recovered" =>
                         /\ \A i \in DOMAIN files[t] : files[t][i].footer
                         /\ InOrder(t) /\ \E n \in 0 .. sent[t] : TableRows(t) = 1 .. n
  BY DEF CrashLosesTail, Streamed
<1>1. DiskOrdered /\ RowsTyped /\ t \in Tables /\ sent[t] \in Nat
  BY TablesAre DEF RowsInvariant, StoreInvariant, SegmentInvariant, RowsTyped
<1>2. PICK m \in 0 .. sent[t] : RowsAt(t, m) BY DEF RowsInvariant, StreamedInvariant
<1>3. ASSUME dpc = "recv"
      PROVE  Taken(t) - Cardinality(TableRows(t)) <= (SegmentRows - 1) + (BatchRows - 1)
  <2>1. PICK n : n = Len(rows[t]) OBVIOUS
  <2>2. PICK w : w = m - n OBVIOUS
  <2>3. n \in Nat /\ n <= m /\ n < BatchRows /\ m \in Nat
    <3>1. n \in Nat /\ m \in Nat BY <1>1, <2>1 DEF RowsTyped
    <3>2. n <= m BY <1>2, <2>1 DEF RowsAt, Buffered
    <3>3. n < BatchRows BY <1>3, <2>1 DEF RowsInvariant, FinishInvariant
    <3> QED BY <3>1, <3>2, <3>3
  <2>4. w \in Nat BY <2>2, <2>3
  <2>5. Whole(t, w) BY <1>2, <1>3, <2>1, <2>2 DEF RowsAt, Alive, Sound
  <2>6. PICK c \in 0 .. w : WholeAt(t, w, c) BY <2>5 DEF Whole
  <2>7. PICK b : b = Len(Base(t)) OBVIOUS
  <2>8. b \in Nat BY <1>1, <2>7, BaseType
  <2>9. c \in Nat /\ c + b = w /\ b < SegmentRows /\ TableRows(t) = 1 .. c
    BY <2>4, <2>6, <2>7 DEF WholeAt
  <2>10. Cardinality(TableRows(t)) = c
    <3>1. 1 \in Int /\ c \in Int BY <2>9
    <3>2. Cardinality(1 .. c) = IF 1 > c THEN 0 ELSE c - 1 + 1 BY <3>1, FS_Interval
    <3>3. (IF 1 > c THEN 0 ELSE c - 1 + 1) = c BY <2>9
    <3> QED BY <2>9, <3>2, <3>3
  <2>11. Taken(t) = m BY <1>1, <1>2, TakenIs DEF RowsAt
  <2>12. m - c <= (SegmentRows - 1) + (BatchRows - 1)
    BY <2>2, <2>3, <2>8, <2>9, StoreAssumption
  <2> QED BY <2>10, <2>11, <2>12
<1>4. ASSUME dpc = "recovered"
      PROVE  /\ \A i \in DOMAIN files[t] : files[t][i].footer
             /\ InOrder(t) /\ \E n \in 0 .. sent[t] : TableRows(t) = 1 .. n
  <2>1. Unreadable(t) = {} BY <1>1, <1>4 DEF RowsInvariant, FinishInvariant
  <2>2. \A i \in DOMAIN files[t] : files[t][i].footer BY <2>1 DEF Unreadable, IsHealthy
  <2>3. \E n \in 0 .. sent[t] : TableRows(t) = 1 .. n
    BY <1>4 DEF RowsInvariant, StreamedInvariant, Beginning, Alive
  <2>4. InOrder(t) BY OrderHolds DEF RowsInOrder, Streamed
  <2> QED BY <2>2, <2>3, <2>4
<1> QED BY <1>3, <1>4

\* SegmentWriter truncates what a failed close left before it writes under the same number,
\* and a batch is emptied before its write is tried: no retry repeats a row or moves it.
THEOREM StoreReadsInOrder == Spec => []RowsInOrder
BY StoreRows, OrderHolds, PTL

\* The order of Worker::finish's steps leaves no buffer and no open segment of any table.
THEOREM StoreComplete == Spec => []FinishWritesAll
BY StoreRows, FinishHolds, PTL

\* allocations::Writer remembers a failed flush until its finish, and finish runs after the
\* last flush: a writer thread that returns Ok has written every allocation record.
THEOREM AllocationsReported == Spec => []AllocationsHonest
BY StoreRows, FinishHolds, PTL

\* A full batch is flushed and a full segment closed at once, so what a kill can take is
\* bounded, and what is left is the beginning of the table.
THEOREM CrashTail == Spec => []CrashLosesTail
BY StoreRows, TailHolds, PTL

----------------------------------------------------------------------------
(* The counter values of a thread *)

\* Ring r got k records: the last is this one, the first of two the report of those dropped.
Adds(r, record, k) ==
  /\ written'[r] \in Seq(Records) /\ pending'[r] = 0
  /\ Len(written'[r]) = Len(written[r]) + k
  /\ \A i \in 1 .. Len(written[r]) : written'[r][i] = written[r][i]
  /\ written'[r][Len(written[r]) + k] = record
  /\ k = 1 => pending[r] = 0
  /\ k = 2 => pending[r] > 0 /\ written'[r][Len(written[r]) + 1] = Lost(pending[r])

\* What a record adds to its ring: itself behind the report of those dropped, if any.
LEMMA ProducedIs ==
  ASSUME StreamInvariant, NEW r \in RingIds, NEW record \in Records, Produce(r, record)
  PROVE  /\ \A q \in RingIds : q # r => written'[q] = written[q] /\ pending'[q] = pending[q]
         /\ \/ written' = written /\ pending'[r] = pending[r] + 1
            \/ \E k \in {1, 2} : Adds(r, record, k)
<1>1. /\ written \in [RingIds -> Seq(Records)] /\ pending \in [RingIds -> Nat]
      /\ written[r] \in Seq(Records) /\ pending[r] \in Nat
  BY DEF StreamInvariant, SamplingType
<1> DEFINE report  == IF pending[r] > 0 THEN <<Lost(pending[r])>> ELSE <<>>
           records == Append(report, record)
<1>2. CASE ~(head[r] - tail[r] + Len(records) <= RingCap)
  <2>1. written' = written /\ pending' = [pending EXCEPT ![r] = @ + 1] BY <1>2 DEF Produce
  <2> QED BY <1>1, <2>1
<1>3. CASE head[r] - tail[r] + Len(records) <= RingCap
  <2>1. /\ written' = [written EXCEPT ![r] = written[r] \o records]
        /\ pending' = [pending EXCEPT ![r] = 0]
    BY <1>3 DEF Produce
  <2>2. written'[r] = written[r] \o records /\ pending'[r] = 0 BY <1>1, <2>1
  <2>3. \A q \in RingIds : q # r => written'[q] = written[q] /\ pending'[q] = pending[q]
    BY <1>1, <2>1
  <2>4. PICK k \in {1, 2} :
          /\ records \in Seq(Records) /\ Len(records) = k /\ records[k] = record
          /\ k = 1 => pending[r] = 0
          /\ k = 2 => pending[r] > 0 /\ records[1] = Lost(pending[r])
    <3>1. CASE pending[r] > 0
      <4>1. Lost(pending[r]) \in Records BY <1>1 DEF Lost, Records
      <4>2. report \in Seq(Records) /\ Len(report) = 1 /\ report[1] = Lost(pending[r])
        BY <3>1, <4>1
      <4> HIDE DEF report
      <4>3. records \in Seq(Records) /\ Len(records) = 2 /\ records[2] = record
        <5>1. records \in Seq(Records) BY <4>2, AppendProperties
        <5>2. Len(records) = Len(report) + 1 BY <4>2, AppendProperties
        <5>3. records[2] = record BY <4>2, AppendProperties
        <5> HIDE DEF records
        <5> QED BY <4>2, <5>1, <5>2, <5>3
      <4>4. records[1] = Lost(pending[r]) BY <4>2
      <4> HIDE DEF records
      <4> QED BY <3>1, <4>3, <4>4
    <3>2. CASE ~(pending[r] > 0)
      <4>1. report \in Seq(Records) /\ Len(report) = 0 BY <3>2
      <4> HIDE DEF report
      <4>2. records \in Seq(Records) /\ Len(records) = 1 /\ records[1] = record
        BY <4>1
      <4> HIDE DEF records
      <4> QED BY <1>1, <3>2, <4>2
    <3> QED BY <3>1, <3>2
  <2> HIDE DEF records
  <2>5. /\ written'[r] \in Seq(Records) /\ Len(written'[r]) = Len(written[r]) + k
        /\ \A i \in 1 .. Len(written[r]) : written'[r][i] = written[r][i]
        /\ \A i \in 1 .. k : written'[r][Len(written[r]) + i] = records[i]
    BY <1>1, <2>2, <2>4
  <2>6. Adds(r, record, k) BY <2>2, <2>4, <2>5 DEF Adds
  <2> QED BY <2>3, <2>6
<1> QED BY <1>2, <1>3

\* The samples of thread t in ring r that the worker has not handled.
Coming(r, t) ==
  {i \in 1 .. Len(written[r]) :
     i > Len(handled[r]) /\ written[r][i].kind = "sample" /\ written[r][i].tid = t}

\* How far counter values lag behind the totals: d for the last value handled, g[i] for
\* the sample at position i.  The lag never shrinks, and neither does the total.
Lags(r, t, g, d) ==
  /\ d \in Nat
  /\ credited[r][t] <= base[r][t] + d
  /\ base[r][t] + d <= total[r][t] /\ counter[r][t] + d <= total[r][t]
  /\ \A i \in Coming(r, t) :
       /\ g[i] \in Nat /\ d <= g[i] /\ base[r][t] + d <= written[r][i].value + g[i]
       /\ counter[r][t] + g[i] <= total[r][t] /\ written[r][i].value + g[i] <= total[r][t]
  /\ \A i, j \in Coming(r, t) : i < j =>
       g[i] <= g[j] /\ written[r][i].value + g[i] <= written[r][j].value + g[j]

\* Without reuse there is no lag, so values never go down.
NoLag(r, t) ==
  /\ credited[r][t] = base[r][t] /\ counter[r][t] = total[r][t] /\ base[r][t] <= counter[r][t]
  /\ \A i \in Coming(r, t) : base[r][t] <= written[r][i].value /\ written[r][i].value <= counter[r][t]
  /\ \A i, j \in Coming(r, t) : i < j => written[r][i].value <= written[r][j].value

DeltaInvariant ==
  /\ base \in [RingIds -> [Tids -> Nat]] /\ credited \in [RingIds -> [Tids -> Nat]]
  /\ total \in [RingIds -> [Tids -> Nat]] /\ reused \in Nat
  /\ \A r \in RingIds, t \in Tids :
       /\ \E g, d : Lags(r, t, g, d)
       /\ reused = 0 => NoLag(r, t)

LEMMA NumbersTyped ==
  ASSUME StreamInvariant, DeltaInvariant, NEW r \in RingIds, NEW t \in Tids
  PROVE  /\ counter[r][t] \in Nat /\ total[r][t] \in Nat /\ base[r][t] \in Nat
         /\ credited[r][t] \in Nat /\ Len(written[r]) \in Nat /\ Len(handled[r]) \in Nat
<1>1. counter[r][t] \in Nat /\ Len(written[r]) \in Nat /\ Len(handled[r]) \in Nat
  BY DEF StreamInvariant, SamplingType
<1>2. total[r][t] \in Nat /\ base[r][t] \in Nat /\ credited[r][t] \in Nat BY DEF DeltaInvariant
<1> QED BY <1>1, <1>2

LEMMA ComingTyped ==
  ASSUME StreamInvariant, NEW r \in RingIds, NEW t, NEW i \in Coming(r, t)
  PROVE  i \in 1 .. Len(written[r]) /\ i \in Nat /\ written[r][i].value \in Nat
<1>1. written[r] \in Seq(Records) BY DEF StreamInvariant, SamplingType
<1>2. i \in 1 .. Len(written[r]) BY DEF Coming
<1>3. written[r][i] \in Records BY <1>1, <1>2
<1> QED BY <1>1, <1>2, <1>3 DEF Records

LEMMA DeltaInitially == SamplingInit => DeltaInvariant
<1> SUFFICES ASSUME SamplingInit PROVE DeltaInvariant OBVIOUS
<1>1. /\ base \in [RingIds -> [Tids -> Nat]] /\ credited \in [RingIds -> [Tids -> Nat]]
      /\ total \in [RingIds -> [Tids -> Nat]] /\ reused \in Nat
  BY DEF SamplingInit
<1>2. ASSUME NEW r \in RingIds, NEW t \in Tids
      PROVE  Lags(r, t, [i \in Nat |-> 0], 0) /\ NoLag(r, t)
  <2>1. /\ credited[r][t] = 0 /\ base[r][t] = 0 /\ total[r][t] = 0 /\ counter[r][t] = 0
        /\ written[r] = <<>>
    BY DEF SamplingInit
  <2>2. Coming(r, t) = {} BY <2>1 DEF Coming
  <2> QED BY <2>1, <2>2 DEF Lags, NoLag
<1> QED BY <1>1, <1>2 DEF DeltaInvariant

\* Steps that leave alone the samples to come of thread t, and its numbers.
LEMMA LagsUntouched ==
  ASSUME NEW r \in RingIds, NEW t \in Tids,
         \E g, d : Lags(r, t, g, d), reused = 0 => NoLag(r, t),
         reused' = 0 => reused = 0,
         Coming(r, t)' = Coming(r, t),
         \A i \in Coming(r, t) : written'[r][i] = written[r][i],
         base'[r][t] = base[r][t], credited'[r][t] = credited[r][t],
         total'[r][t] = total[r][t], counter'[r][t] = counter[r][t]
  PROVE  /\ \E g, d : Lags(r, t, g, d)'
         /\ reused' = 0 => NoLag(r, t)'
<1>1. PICK g, d : Lags(r, t, g, d) OBVIOUS
<1>2. Lags(r, t, g, d)' BY <1>1 DEF Lags
<1>3. ASSUME reused' = 0 PROVE NoLag(r, t)' BY <1>3 DEF NoLag
<1> QED BY <1>2, <1>3

\* A record of any kind but a sample of thread t.
LEMMA LagsProduced ==
  ASSUME StreamInvariant, NEW r \in RingIds, NEW t \in Tids, NEW q \in RingIds,
         NEW record \in Records, Produce(q, record),
         q # r \/ record.kind # "sample" \/ record.tid # t,
         UNCHANGED handled
  PROVE  /\ Coming(r, t)' = Coming(r, t)
         /\ \A i \in Coming(r, t) : written'[r][i] = written[r][i]
<1>1. CASE written'[r] = written[r] BY <1>1 DEF Coming
<1>2. CASE q = r /\ written' # written
  <2>0. PICK k \in {1, 2} : Adds(r, record, k) BY <1>2, ProducedIs
  <2>1. /\ Len(written'[r]) = Len(written[r]) + k
        /\ \A i \in 1 .. Len(written[r]) : written'[r][i] = written[r][i]
        /\ written'[r][Len(written[r]) + k] = record
        /\ k = 2 => written'[r][Len(written[r]) + 1].kind = "lost"
    BY <2>0 DEF Adds, Lost
  <2>2. Len(written[r]) \in Nat BY DEF StreamInvariant, SamplingType
  <2>3. record.kind # "sample" \/ record.tid # t BY <1>2
  <2>4. \A i \in 1 .. Len(written'[r]) :
          i \in 1 .. Len(written[r]) \/ i = Len(written[r]) + k \/ (k = 2 /\ i = Len(written[r]) + 1)
    BY <2>1, <2>2
  <2>5. 1 .. Len(written[r]) \subseteq 1 .. Len(written'[r]) BY <2>1, <2>2
  <2>6. \A i : i \in Coming(r, t)' <=> i \in Coming(r, t)
    BY <2>1, <2>3, <2>4, <2>5 DEF Coming
  <2> QED BY <2>1, <2>6 DEF Coming
<1> QED BY <1>1, <1>2, ProducedIs

\* A sample of thread t: it lags as far behind as the counter does now.
LEMMA LagsInterrupt ==
  ASSUME StreamInvariant, DeltaInvariant, NEW r \in RingIds, NEW t \in Tids, Interrupt(r, t)
  PROVE  /\ \E g, d : Lags(r, t, g, d)'
         /\ reused' = 0 => NoLag(r, t)'
<1>1. /\ counter' = [counter EXCEPT ![r][t] = @ + 1] /\ total' = [total EXCEPT ![r][t] = @ + 1]
      /\ Produce(r, Sample(t, counter[r][t] + 1))
      /\ UNCHANGED <<base, credited, handled, reused>>
  BY DEF Interrupt
<1>2. /\ counter[r][t] \in Nat /\ total[r][t] \in Nat /\ base[r][t] \in Nat
      /\ credited[r][t] \in Nat /\ Len(written[r]) \in Nat
  BY NumbersTyped
<1>30. \A i \in Coming(r, t) : written[r][i].value \in Nat BY ComingTyped
<1>3. counter'[r][t] = counter[r][t] + 1 /\ total'[r][t] = total[r][t] + 1
  BY <1>1 DEF StreamInvariant, SamplingType, DeltaInvariant
<1>4. PICK g, d : Lags(r, t, g, d) BY DEF DeltaInvariant
<1>5. d \in Nat /\ base[r][t] + d <= total[r][t] /\ counter[r][t] + d <= total[r][t] BY <1>4 DEF Lags
<1>31. PICK c \in Nat, m \in Nat, b \in Nat :
         c = counter[r][t] /\ m = total[r][t] /\ b = base[r][t]
  BY <1>2
<1>32. /\ credited'[r][t] <= base'[r][t] + d
       /\ base'[r][t] + d <= total'[r][t] /\ counter'[r][t] + d <= total'[r][t]
  <2>1. credited[r][t] <= b + d /\ b + d <= m /\ c + d <= m BY <1>4, <1>31 DEF Lags
  <2>2. b + d <= m + 1 /\ (c + 1) + d <= m + 1 BY <1>5, <2>1
  <2>3. credited'[r][t] = credited[r][t] /\ base'[r][t] = b BY <1>1, <1>31
  <2> QED BY <1>3, <1>31, <2>1, <2>2, <2>3
<1>6. Sample(t, counter[r][t] + 1) \in Records BY <1>2 DEF Sample, Records
<1>7. CASE written' = written
  <2>1. Coming(r, t)' = Coming(r, t) BY <1>1, <1>7 DEF Coming
  <2>2. Lags(r, t, g, d)'
    <3>1. /\ credited'[r][t] <= base'[r][t] + d
          /\ base'[r][t] + d <= total'[r][t] /\ counter'[r][t] + d <= total'[r][t]
      BY <1>32
    <3>2. ASSUME NEW i \in Coming(r, t)
          PROVE  /\ g[i] \in Nat /\ d <= g[i] /\ base'[r][t] + d <= written'[r][i].value + g[i]
                 /\ counter'[r][t] + g[i] <= total'[r][t]
                 /\ written'[r][i].value + g[i] <= total'[r][t]
      <4>1. /\ g[i] \in Nat /\ d <= g[i] /\ base[r][t] + d <= written[r][i].value + g[i]
            /\ counter[r][t] + g[i] <= total[r][t] /\ written[r][i].value + g[i] <= total[r][t]
        BY <1>4 DEF Lags
      <4>2. written[r][i].value \in Nat /\ written'[r][i] = written[r][i] BY <1>30, <1>7
      <4>3. PICK v \in Nat, x \in Nat : v = written[r][i].value /\ x = g[i] BY <4>1, <4>2
      <4>4. d <= x /\ b + d <= v + x /\ c + x <= m /\ v + x <= m BY <1>31, <4>1, <4>3
      <4>5. (c + 1) + x <= m + 1 /\ v + x <= m + 1 BY <4>4
      <4>6. base'[r][t] = b BY <1>1, <1>31
      <4> QED BY <1>3, <1>31, <4>2, <4>3, <4>4, <4>5, <4>6
    <3> QED BY <1>4, <1>5, <1>7, <2>1, <3>1, <3>2 DEF Lags
  <2>3. ASSUME reused' = 0 PROVE NoLag(r, t)'
    <3>1. NoLag(r, t) BY <1>1, <2>3 DEF DeltaInvariant
    <3>2. /\ credited'[r][t] = base'[r][t] /\ counter'[r][t] = total'[r][t]
          /\ base'[r][t] <= counter'[r][t]
      BY <1>1, <1>2, <1>3, <3>1 DEF NoLag
    <3>3. \A i \in Coming(r, t) :
            base'[r][t] <= written'[r][i].value /\ written'[r][i].value <= counter'[r][t]
      BY <1>1, <1>2, <1>30, <1>3, <1>7, <3>1 DEF NoLag
    <3> QED BY <1>7, <2>1, <3>1, <3>2, <3>3 DEF NoLag
  <2> QED BY <2>2, <2>3
<1>8. CASE written' # written
  <2>0. PICK k \in {1, 2} : Adds(r, Sample(t, counter[r][t] + 1), k)
    BY <1>1, <1>6, <1>8, ProducedIs
  <2>1. /\ Len(written'[r]) = Len(written[r]) + k
        /\ \A i \in 1 .. Len(written[r]) : written'[r][i] = written[r][i]
        /\ written'[r][Len(written[r]) + k] = Sample(t, counter[r][t] + 1)
        /\ k = 2 => written'[r][Len(written[r]) + 1].kind = "lost"
    BY <2>0 DEF Adds, Lost
  <2>2. PICK n \in Nat : n = Len(written[r]) + k BY <1>2
  <2>3. /\ written'[r][n].value = counter[r][t] + 1
        /\ written'[r][n].kind = "sample" /\ written'[r][n].tid = t
    BY <2>1, <2>2 DEF Sample
  <2>4. \A i \in Coming(r, t) : i \in 1 .. Len(written[r]) /\ i < n /\ written'[r][i] = written[r][i]
    BY <1>2, <2>1, <2>2 DEF Coming
  <2>5. \A i \in 1 .. Len(written'[r]) :
          i \in 1 .. Len(written[r]) \/ i = n \/ (k = 2 /\ i = Len(written[r]) + 1)
    BY <1>2, <2>1, <2>2
  <2>6. \A i \in Coming(r, t)' : i \in Coming(r, t) \/ i = n
    BY <1>1, <2>1, <2>5 DEF Coming
  <2>7. PICK lag \in Nat : lag = total[r][t] - counter[r][t] BY <1>2, <1>5
  <2> DEFINE h == [i \in Nat |-> IF i = n THEN lag ELSE g[i]]
  <2>8. h[n] = lag /\ \A i \in Coming(r, t) : h[i] = g[i] /\ g[i] \in Nat
    BY <1>4, <2>4, <2>7 DEF Lags
  <2> HIDE DEF h
  <2>9. /\ \A i \in Coming(r, t) :
             /\ d <= g[i] /\ base[r][t] + d <= written[r][i].value + g[i]
             /\ counter[r][t] + g[i] <= total[r][t] /\ written[r][i].value + g[i] <= total[r][t]
        /\ \A i, j \in Coming(r, t) : i < j =>
             g[i] <= g[j] /\ written[r][i].value + g[i] <= written[r][j].value + g[j]
        /\ credited[r][t] <= base[r][t] + d
    BY <1>4 DEF Lags
  <2>10. Lags(r, t, h, d)'
    <3>1. /\ credited'[r][t] <= base'[r][t] + d
          /\ base'[r][t] + d <= total'[r][t] /\ counter'[r][t] + d <= total'[r][t]
      BY <1>32
    <3>2. ASSUME NEW i \in Coming(r, t)'
          PROVE  /\ h[i] \in Nat /\ d <= h[i] /\ base'[r][t] + d <= written'[r][i].value + h[i]
                 /\ counter'[r][t] + h[i] <= total'[r][t]
                 /\ written'[r][i].value + h[i] <= total'[r][t]
      <4>1. CASE i = n
        <5>1. lag = m - c /\ b + d <= m /\ c + d <= m BY <1>5, <1>31, <2>7
        <5>2. d <= lag /\ b + d <= (c + 1) + lag /\ (c + 1) + lag <= m + 1
          BY <1>5, <2>7, <5>1
        <5>3. h[i] = lag /\ written'[r][i].value = c + 1 /\ base'[r][t] = b
          BY <1>1, <1>31, <2>3, <2>8, <4>1
        <5> QED BY <1>3, <1>31, <2>7, <5>2, <5>3
      <4>2. CASE i \in Coming(r, t)
        <5>1. /\ written'[r][i] = written[r][i] /\ written[r][i].value \in Nat
              /\ h[i] = g[i] /\ g[i] \in Nat
          BY <1>30, <2>4, <2>8, <4>2
        <5>2. /\ d <= g[i] /\ base[r][t] + d <= written[r][i].value + g[i]
              /\ counter[r][t] + g[i] <= total[r][t] /\ written[r][i].value + g[i] <= total[r][t]
          BY <2>9, <4>2
        <5>3. PICK v \in Nat, x \in Nat : v = written[r][i].value /\ x = g[i] BY <5>1
        <5>4. base' = base BY <1>1
        <5>5. /\ d <= x /\ base[r][t] + d <= v + x
              /\ counter'[r][t] + x <= total'[r][t] /\ v + x <= total'[r][t]
          <6>1. /\ d <= x /\ base[r][t] + d <= v + x
                /\ counter[r][t] + x <= total[r][t] /\ v + x <= total[r][t]
            BY <5>2, <5>3
          <6>2. (c + 1) + x <= m + 1 /\ v + x <= m + 1 BY <1>31, <6>1
          <6> QED BY <1>3, <1>31, <6>1, <6>2
        <5> QED BY <5>1, <5>3, <5>4, <5>5
      <4> QED BY <2>6, <4>1, <4>2
    <3>3. ASSUME NEW i \in Coming(r, t)', NEW j \in Coming(r, t)', i < j
          PROVE  h[i] <= h[j] /\ written'[r][i].value + h[i] <= written'[r][j].value + h[j]
      <4>1. CASE i \in Coming(r, t) /\ j \in Coming(r, t) BY <2>4, <2>8, <2>9, <3>3, <4>1
      <4>2. CASE i \in Coming(r, t) /\ j = n
        <5>1. /\ written'[r][i] = written[r][i] /\ written[r][i].value \in Nat
              /\ h[i] = g[i] /\ g[i] \in Nat
          BY <1>30, <2>4, <2>8, <4>2
        <5>2. counter[r][t] + g[i] <= total[r][t] /\ written[r][i].value + g[i] <= total[r][t]
          BY <2>9, <4>2
        <5>3. h[j] = lag /\ written'[r][j].value = counter[r][t] + 1 BY <2>3, <2>8, <4>2
        <5>4. PICK v \in Nat, x \in Nat : v = written[r][i].value /\ x = g[i] BY <5>1
        <5>5. x <= lag /\ v + x <= counter[r][t] + 1 + lag 
          <6>1. c + x <= m /\ v + x <= m /\ lag = m - c BY <1>31, <2>7, <5>2, <5>4
          <6>2. x <= lag /\ v + x <= c + 1 + lag BY <2>7, <5>4, <6>1
          <6> QED BY <1>31, <6>2
        <5> QED BY <5>1, <5>3, <5>4, <5>5
      <4>3. CASE i = n
        <5>1. j \in Nat /\ j <= n BY <2>1, <2>2, <1>2 DEF Coming
        <5> QED BY <3>3, <4>3, <5>1
      <4> QED BY <2>6, <4>1, <4>2, <4>3
    <3> QED BY <1>5, <3>1, <3>2, <3>3 DEF Lags
  <2>11. ASSUME reused' = 0 PROVE NoLag(r, t)'
    <3>1. NoLag(r, t) BY <1>1, <2>11 DEF DeltaInvariant
    <3>2. /\ credited'[r][t] = base'[r][t] /\ counter'[r][t] = total'[r][t]
          /\ base'[r][t] <= counter'[r][t]
      BY <1>1, <1>2, <1>3, <3>1 DEF NoLag
    <3>3. \A i \in Coming(r, t)' :
            base'[r][t] <= written'[r][i].value /\ written'[r][i].value <= counter'[r][t]
      <4> SUFFICES ASSUME NEW i \in Coming(r, t)'
                   PROVE  base'[r][t] <= written'[r][i].value /\ written'[r][i].value <= counter'[r][t]
        OBVIOUS
      <4>1. CASE i = n BY <1>1, <1>2, <1>3, <2>3, <3>1, <4>1 DEF NoLag
      <4>2. CASE i \in Coming(r, t)
        <5>1. written'[r][i] = written[r][i] /\ written[r][i].value \in Nat BY <1>30, <2>4, <4>2
        <5>2. base[r][t] <= written[r][i].value /\ written[r][i].value <= counter[r][t]
          BY <3>1, <4>2 DEF NoLag
        <5> QED BY <1>1, <1>2, <1>3, <5>1, <5>2
      <4> QED BY <2>6, <4>1, <4>2
    <3>4. ASSUME NEW i \in Coming(r, t)', NEW j \in Coming(r, t)', i < j
          PROVE  written'[r][i].value <= written'[r][j].value
      <4>1. CASE i \in Coming(r, t) /\ j \in Coming(r, t) BY <2>4, <3>1, <3>4, <4>1 DEF NoLag
      <4>2. CASE i \in Coming(r, t) /\ j = n
        <5>1. written'[r][i] = written[r][i] /\ written[r][i].value \in Nat BY <1>30, <2>4, <4>2
        <5>2. written[r][i].value <= counter[r][t] BY <3>1, <4>2 DEF NoLag
        <5> QED BY <1>2, <2>3, <4>2, <5>1, <5>2
      <4>3. CASE i = n
        <5>1. j \in Nat /\ j <= n BY <2>1, <2>2, <1>2 DEF Coming
        <5> QED BY <3>4, <4>3, <5>1
      <4> QED BY <2>6, <4>1, <4>2, <4>3
    <3> QED BY <3>2, <3>3, <3>4 DEF NoLag
  <2> QED BY <2>8, <2>10, <2>11
<1> QED BY <1>7, <1>8

\* A thread that takes over an identifier starts from zero: the counter lags further.
LEMMA LagsReuse ==
  ASSUME StreamInvariant, DeltaInvariant, NEW r \in RingIds, NEW t \in Tids,
         \E g, d : Lags(r, t, g, d),
         counter'[r][t] = 0, UNCHANGED <<total, base, credited, handled, written>>, reused' # 0
  PROVE  /\ \E g, d : Lags(r, t, g, d)'
         /\ reused' = 0 => NoLag(r, t)'
<1>1. PICK g, d : Lags(r, t, g, d) OBVIOUS
<1>2. /\ counter[r][t] \in Nat /\ total[r][t] \in Nat /\ base[r][t] \in Nat
      /\ \A i \in Coming(r, t) : written[r][i].value \in Nat
  BY NumbersTyped, ComingTyped
<1>3. Coming(r, t)' = Coming(r, t) BY DEF Coming
<1>4. Lags(r, t, g, d)' BY <1>1, <1>2, <1>3 DEF Lags
<1> QED BY <1>4

\* The worker hands over the progress since the thread's last sample.
LEMMA LagsEmit ==
  ASSUME StreamInvariant, DeltaInvariant, EmitSample, NEW t \in Tids, rec.tid = t,
         wring \in RingIds
  PROVE  /\ \E g, d : Lags(wring, t, g, d)'
         /\ reused' = 0 => NoLag(wring, t)'
<1> PICK r \in RingIds : r = wring OBVIOUS
<1>1. /\ base' = [base EXCEPT ![r][t] = rec.value]
      /\ credited' = [credited EXCEPT ![r][t] = @ + Monus(rec.value, base[r][t])]
      /\ handled' = [handled EXCEPT ![r] = Append(@, rec)]
      /\ rec.kind = "sample" /\ wpc = "parsed"
      /\ UNCHANGED <<total, counter, written, reused, wring>>
  BY DEF EmitSample, Handle, Delta, kernel, produced
<1>2. /\ counter[r][t] \in Nat /\ total[r][t] \in Nat /\ base[r][t] \in Nat
      /\ credited[r][t] \in Nat /\ rec.value \in Nat
      /\ Len(written[r]) \in Nat /\ Len(handled[r]) \in Nat
      /\ \A i \in Coming(r, t) : written[r][i].value \in Nat /\ i \in Nat
  <2>1. rec \in Records BY DEF StreamInvariant, SamplingType
  <2> QED BY <2>1, NumbersTyped, ComingTyped DEF Records
<1>3. PICK n \in Nat : n = Len(handled[r]) + 1 BY <1>2
<1>4. n \in Coming(r, t) /\ written[r][n] = rec
  BY <1>1, <1>2, <1>3 DEF StreamInvariant, WorkerFollows, Coming
<1>5. /\ base'[r][t] = rec.value
      /\ credited'[r][t] = credited[r][t] + Monus(rec.value, base[r][t])
      /\ Len(handled'[r]) = n
  BY <1>1, <1>3 DEF DeltaInvariant, StreamInvariant, SamplingType
<1>6. Coming(r, t)' \subseteq Coming(r, t) /\ \A i \in Coming(r, t)' : n < i
  BY <1>1, <1>2, <1>3, <1>5 DEF Coming
<1>7. PICK g, d : Lags(r, t, g, d) BY DEF DeltaInvariant
<1>8. /\ d \in Nat /\ \A i \in Coming(r, t) : g[i] \in Nat
      /\ \A i \in Coming(r, t) :
           /\ d <= g[i] /\ base[r][t] + d <= written[r][i].value + g[i]
           /\ counter[r][t] + g[i] <= total[r][t] /\ written[r][i].value + g[i] <= total[r][t]
      /\ \A i, j \in Coming(r, t) : i < j =>
           g[i] <= g[j] /\ written[r][i].value + g[i] <= written[r][j].value + g[j]
      /\ credited[r][t] <= base[r][t] + d
  BY <1>2, <1>7 DEF Lags
<1>9. Lags(r, t, g, g[n])'
  <2>1. credited'[r][t] <= base'[r][t] + g[n]
    <3>1. rec.value = written[r][n].value BY <1>4
    <3>2. d <= g[n] /\ base[r][t] + d <= rec.value + g[n] /\ g[n] \in Nat BY <1>4, <1>8, <3>1
    <3>3. CASE rec.value > base[r][t]
      <4>1. credited'[r][t] = credited[r][t] + (rec.value - base[r][t]) BY <1>5, <3>3 DEF Monus
      <4> QED BY <1>2, <1>5, <1>8, <3>2, <4>1
    <3>4. CASE ~(rec.value > base[r][t])
      <4>1. credited'[r][t] = credited[r][t] BY <1>2, <1>5, <3>4 DEF Monus
      <4> QED BY <1>2, <1>5, <1>8, <3>2, <4>1
    <3> QED BY <3>3, <3>4
  <2>2. base'[r][t] + g[n] <= total'[r][t] /\ counter'[r][t] + g[n] <= total'[r][t]
    BY <1>1, <1>4, <1>5, <1>8
  <2>3. ASSUME NEW i \in Coming(r, t)'
        PROVE  /\ g[i] \in Nat /\ g[n] <= g[i] /\ base'[r][t] + g[n] <= written'[r][i].value + g[i]
               /\ counter'[r][t] + g[i] <= total'[r][t]
               /\ written'[r][i].value + g[i] <= total'[r][t]
    BY <1>1, <1>4, <1>5, <1>6, <1>8
  <2>4. \A i, j \in Coming(r, t)' : i < j =>
          g[i] <= g[j] /\ written'[r][i].value + g[i] <= written'[r][j].value + g[j]
    BY <1>1, <1>6, <1>8
  <2>5. g[n] \in Nat BY <1>4, <1>8
  <2> QED BY <2>1, <2>2, <2>3, <2>4, <2>5 DEF Lags
<1>10. ASSUME reused' = 0 PROVE NoLag(r, t)'
  <2>1. NoLag(r, t) BY <1>1, <1>10 DEF DeltaInvariant
  <2>2. credited'[r][t] = base'[r][t] BY <1>2, <1>4, <1>5, <2>1 DEF NoLag, Monus
  <2>3. counter'[r][t] = total'[r][t] /\ base'[r][t] <= counter'[r][t]
    BY <1>1, <1>4, <1>5, <2>1 DEF NoLag
  <2>4. \A i \in Coming(r, t)' :
          base'[r][t] <= written'[r][i].value /\ written'[r][i].value <= counter'[r][t]
    BY <1>1, <1>4, <1>5, <1>6, <2>1 DEF NoLag
  <2>5. \A i, j \in Coming(r, t)' : i < j => written'[r][i].value <= written'[r][j].value
    BY <1>1, <1>6, <2>1 DEF NoLag
  <2> QED BY <2>2, <2>3, <2>4, <2>5 DEF NoLag
<1>11. g[n] \in Nat BY <1>4, <1>8
<1>12. (wring = r)' BY <1>1
<1> QED BY <1>9, <1>10, <1>11, <1>12

LEMMA DeltaUntouched ==
  ASSUME DeltaInvariant,
         UNCHANGED <<base, credited, total, counter, written, handled, reused>>
  PROVE  DeltaInvariant'
<1>1. ASSUME NEW r \in RingIds, NEW t \in Tids
      PROVE  (\E g, d : Lags(r, t, g, d)') /\ (reused' = 0 => NoLag(r, t)')
  <2>1. Coming(r, t)' = Coming(r, t) BY DEF Coming
  <2> QED BY <2>1, LagsUntouched DEF DeltaInvariant
<1> QED BY <1>1 DEF DeltaInvariant

LEMMA DeltaKernel == StreamInvariant /\ DeltaInvariant /\ KernelStep => DeltaInvariant'
<1> SUFFICES ASSUME StreamInvariant, DeltaInvariant, KernelStep PROVE DeltaInvariant' OBVIOUS
<1>1. ASSUME NEW q \in RingIds, NEW s \in Tids, Interrupt(q, s) PROVE DeltaInvariant'
  <2>1. /\ counter' = [counter EXCEPT ![q][s] = @ + 1] /\ total' = [total EXCEPT ![q][s] = @ + 1]
        /\ Produce(q, Sample(s, counter[q][s] + 1))
        /\ UNCHANGED <<base, credited, handled, reused>>
    BY <1>1 DEF Interrupt
  <2>2. counter[q][s] \in Nat /\ total[q][s] \in Nat BY NumbersTyped
  <2>3. Sample(s, counter[q][s] + 1) \in Records BY <2>2 DEF Sample, Records
  <2>4. total' \in [RingIds -> [Tids -> Nat]] BY <2>1, <2>2 DEF DeltaInvariant
  <2>5. ASSUME NEW r \in RingIds, NEW t \in Tids
        PROVE  (\E g, d : Lags(r, t, g, d)') /\ (reused' = 0 => NoLag(r, t)')
    <3>1. CASE r = q /\ t = s BY <1>1, <3>1, LagsInterrupt
    <3>2. CASE r # q \/ t # s
      <4>1. counter'[r][t] = counter[r][t]
        BY <2>1, <3>2 DEF StreamInvariant, SamplingType
      <4>2. total'[r][t] = total[r][t] BY <2>1, <3>2 DEF DeltaInvariant
      <4>3. q # r \/ Sample(s, counter[q][s] + 1).tid # t BY <3>2 DEF Sample
      <4>4. /\ Coming(r, t)' = Coming(r, t)
            /\ \A i \in Coming(r, t) : written'[r][i] = written[r][i]
        BY <2>1, <2>3, <4>3, LagsProduced
      <4>5. (\E g, d : Lags(r, t, g, d)) /\ (reused = 0 => NoLag(r, t)) BY DEF DeltaInvariant
      <4> QED BY <2>1, <4>1, <4>2, <4>4, <4>5, LagsUntouched
    <3> QED BY <3>1, <3>2
  <2> QED BY <2>1, <2>4, <2>5 DEF DeltaInvariant
<1>2. ASSUME NEW q \in RingIds, MapModule(q) PROVE DeltaInvariant'
  <2>1. Produce(q, Address) /\ UNCHANGED <<base, credited, total, counter, handled, reused>>
    BY <1>2 DEF MapModule
  <2>2. Address \in Records /\ Address.kind # "sample" BY DEF Address, Records
  <2>3. ASSUME NEW r \in RingIds, NEW t \in Tids
        PROVE  (\E g, d : Lags(r, t, g, d)') /\ (reused' = 0 => NoLag(r, t)')
    <3>1. /\ Coming(r, t)' = Coming(r, t)
          /\ \A i \in Coming(r, t) : written'[r][i] = written[r][i]
      BY <2>1, <2>2, LagsProduced
    <3>2. (\E g, d : Lags(r, t, g, d)) /\ (reused = 0 => NoLag(r, t)) BY DEF DeltaInvariant
    <3> QED BY <2>1, <3>1, <3>2, LagsUntouched
  <2> QED BY <2>1, <2>3 DEF DeltaInvariant
<1>3. ASSUME NEW s \in Tids, ReuseTid(s) PROVE DeltaInvariant'
  <2>1. /\ counter' = [r \in RingIds |-> [counter[r] EXCEPT ![s] = 0]] /\ reused' = reused + 1
        /\ UNCHANGED <<base, credited, total, handled, written>>
    BY <1>3 DEF ReuseTid, produced
  <2>2. reused' \in Nat /\ reused' # 0 BY <2>1 DEF DeltaInvariant
  <2>3. ASSUME NEW r \in RingIds, NEW t \in Tids
        PROVE  (\E g, d : Lags(r, t, g, d)') /\ (reused' = 0 => NoLag(r, t)')
    <3>1. (\E g, d : Lags(r, t, g, d)) /\ (reused = 0 => NoLag(r, t)) BY DEF DeltaInvariant
    <3>2. CASE t = s
      <4>1. counter'[r][t] = 0 BY <2>1, <3>2 DEF StreamInvariant, SamplingType
      <4> QED BY <2>1, <2>2, <3>1, <4>1, LagsReuse
    <3>3. CASE t # s
      <4>1. counter'[r][t] = counter[r][t] BY <2>1, <3>3 DEF StreamInvariant, SamplingType
      <4>2. Coming(r, t)' = Coming(r, t) BY <2>1 DEF Coming
      <4> QED BY <2>1, <2>2, <3>1, <4>1, <4>2, LagsUntouched
    <3> QED BY <3>2, <3>3
  <2> QED BY <2>1, <2>2, <2>3 DEF DeltaInvariant
<1>4. ASSUME NEW r \in RingIds, Reach(r) \/ Exec(r) PROVE DeltaInvariant'
  BY <1>4, DeltaUntouched DEF Reach, Exec, produced
<1>5. CASE Exit BY <1>5, DeltaUntouched DEF Exit, produced
<1> QED BY <1>1, <1>2, <1>3, <1>4, <1>5 DEF KernelStep

LEMMA DeltaSampler == StreamInvariant /\ DeltaInvariant /\ Sampler => DeltaInvariant'
<1> SUFFICES ASSUME StreamInvariant, DeltaInvariant, Sampler PROVE DeltaInvariant' OBVIOUS
<1>1. CASE RingEmpty \/ CopyRecord \/ UpdateTail \/ CheckRunning
  BY <1>1, DeltaUntouched DEF RingEmpty, CopyRecord, UpdateTail, CheckRunning, kernel, produced
<1>2. CASE EmitSample \/ EmitAddress \/ CountLost
  <2>1. /\ wpc = "parsed" /\ wring \in RingIds
        /\ handled' = [handled EXCEPT ![wring] = Append(@, rec)]
        /\ UNCHANGED <<total, counter, written, reused, wring>>
    BY <1>2 DEF EmitSample, EmitAddress, CountLost, Handle, StreamInvariant, SamplingType,
                kernel, produced
  <2>2. PICK n : n = Len(handled[wring]) + 1 OBVIOUS
  <2>3. handled[wring] \in Seq(Records) /\ rec \in Records /\ Len(handled[wring]) \in Nat
    BY <2>1 DEF StreamInvariant, SamplingType
  <2>4. Len(handled'[wring]) = n BY <2>1, <2>2, <2>3 DEF StreamInvariant, SamplingType
  <2>5. written[wring][n] = rec BY <2>1, <2>2 DEF StreamInvariant, WorkerFollows
  <2>6. ASSUME NEW r \in RingIds, NEW t \in Tids, ~(r = wring /\ rec.kind = "sample" /\ rec.tid = t)
        PROVE  Coming(r, t)' = Coming(r, t)
    <3>1. CASE r # wring
      <4>1. handled'[r] = handled[r] BY <2>1, <3>1 DEF StreamInvariant, SamplingType
      <4> QED BY <2>1, <4>1 DEF Coming
    <3>2. CASE r = wring
      <4>1. Len(written[r]) \in Nat BY DEF StreamInvariant, SamplingType
      <4>2. ASSUME NEW i \in 1 .. Len(written[r]),
                   written[r][i].kind = "sample", written[r][i].tid = t
            PROVE  i > Len(handled'[r]) <=> i > Len(handled[r])
        <5>1. i # n BY <2>5, <2>6, <3>2, <4>2
        <5> QED BY <2>2, <2>3, <2>4, <3>2, <4>1, <5>1
      <4> QED BY <2>1, <4>2 DEF Coming
    <3> QED BY <3>1, <3>2
  <2>7. /\ base' \in [RingIds -> [Tids -> Nat]] /\ credited' \in [RingIds -> [Tids -> Nat]]
        /\ \A r \in RingIds, t \in Tids : ~(r = wring /\ rec.kind = "sample" /\ rec.tid = t) =>
              base'[r][t] = base[r][t] /\ credited'[r][t] = credited[r][t]
    <3>1. CASE EmitAddress \/ CountLost
      BY <3>1 DEF EmitAddress, CountLost, DeltaInvariant
    <3>2. CASE EmitSample
      <4>1. /\ base' = [base EXCEPT ![wring][rec.tid] = rec.value]
            /\ credited' = [credited EXCEPT ![wring][rec.tid] = @ + Delta]
            /\ rec.kind = "sample"
        BY <3>2 DEF EmitSample
      <4>2. /\ rec.value \in Nat
            /\ base \in [RingIds -> [Tids -> Nat]] /\ credited \in [RingIds -> [Tids -> Nat]]
        BY <2>3 DEF Records, DeltaInvariant
      <4>3. ASSUME rec.tid \in Tids PROVE credited[wring][rec.tid] + Delta \in Nat
        <5>1. base[wring][rec.tid] \in Nat /\ credited[wring][rec.tid] \in Nat
          BY <2>1, <4>2, <4>3
        <5> QED BY <4>2, <5>1 DEF Delta, Monus
      <4>4. base' \in [RingIds -> [Tids -> Nat]] BY <2>1, <4>1, <4>2
      <4>5. credited' \in [RingIds -> [Tids -> Nat]] BY <2>1, <4>1, <4>2, <4>3
      <4>6. \A r \in RingIds, t \in Tids : ~(r = wring /\ rec.tid = t) =>
              base'[r][t] = base[r][t] /\ credited'[r][t] = credited[r][t]
        BY <2>1, <4>1, <4>2
      <4> QED BY <4>1, <4>4, <4>5, <4>6
    <3> QED BY <1>2, <3>1, <3>2
  <2>8. ASSUME NEW r \in RingIds, NEW t \in Tids
        PROVE  (\E g, d : Lags(r, t, g, d)') /\ (reused' = 0 => NoLag(r, t)')
    <3>1. CASE r = wring /\ rec.kind = "sample" /\ rec.tid = t
      <4>1. EmitSample BY <1>2, <3>1 DEF EmitAddress, CountLost
      <4>2. wring' = wring BY <2>1
      <4>3. (\E g, d : Lags(wring, t, g, d)') /\ (reused' = 0 => NoLag(wring, t)')
        BY <2>1, <3>1, <4>1, LagsEmit
      <4> QED BY <3>1, <4>2, <4>3
    <3>2. CASE ~(r = wring /\ rec.kind = "sample" /\ rec.tid = t)
      <4>1. (\E g, d : Lags(r, t, g, d)) /\ (reused = 0 => NoLag(r, t)) BY DEF DeltaInvariant
      <4>2. Coming(r, t)' = Coming(r, t) BY <2>6, <3>2
      <4>3. base'[r][t] = base[r][t] /\ credited'[r][t] = credited[r][t] BY <2>7, <3>2
      <4> QED BY <2>1, <4>1, <4>2, <4>3, LagsUntouched
    <3> QED BY <3>1, <3>2
  <2> QED BY <2>1, <2>7, <2>8 DEF DeltaInvariant
<1> QED BY <1>1, <1>2 DEF Sampler

LEMMA DeltaOwner == DeltaInvariant /\ OwnerStep => DeltaInvariant'
BY DeltaUntouched DEF OwnerStep, StartEnable, StartWorker, StopDisable, StopFlag, StopJoin,
                      DropFlag, DropUnmap, kernel, produced

LEMMA DeltaAlways == Spec => [](StreamInvariant /\ DeltaInvariant /\ DeltasTelescope)
<1>1. Init => StreamInvariant /\ DeltaInvariant
  BY StreamInitially, DeltaInitially DEF Init
<1>2. StreamInvariant /\ DeltaInvariant /\ [Next]_vars => (StreamInvariant /\ DeltaInvariant)'
  <2> SUFFICES ASSUME StreamInvariant, DeltaInvariant, [Next]_vars
               PROVE  (StreamInvariant /\ DeltaInvariant)'
    OBVIOUS
  <2>1. StreamInvariant' BY StreamInductive
  <2>2. ASSUME UNCHANGED sampling PROVE DeltaInvariant'
    BY <2>2, DeltaUntouched DEF sampling, kernel, produced
  <2>3. DeltaInvariant'
    BY <2>2, SamplingSteps, DeltaKernel, DeltaSampler, DeltaOwner DEF SamplingNext
  <2> QED BY <2>1, <2>3
<1>3. StreamInvariant /\ DeltaInvariant => DeltasTelescope
  <2> SUFFICES ASSUME StreamInvariant, DeltaInvariant, NEW r \in RingIds, NEW t \in Tids
               PROVE  /\ reused = 0 => credited[r][t] = base[r][t]
                      /\ credited[r][t] <= total[r][t]
    BY DEF DeltasTelescope
  <2>1. PICK g, d : Lags(r, t, g, d) BY DEF DeltaInvariant
  <2>2. d \in Nat /\ credited[r][t] <= base[r][t] + d /\ base[r][t] + d <= total[r][t]
    BY <2>1 DEF Lags
  <2>3. credited[r][t] <= total[r][t] BY <2>2, NumbersTyped
  <2> QED BY <2>3 DEF DeltaInvariant, NoLag
<1> QED BY <1>1, <1>2, <1>3, PTL DEF Spec

\* EmitSample hands over differences of a cumulative counter: they add up to the last value
\* seen, and to no more than was counted when the kernel reuses a thread identifier.
THEOREM DeltasAddUp == Spec => []DeltasTelescope
BY DeltaAlways, PTL

----------------------------------------------------------------------------
(* What an Ok of stop means *)

\* Executing under a driver that launched its target, or samples its own process, takes
\* an enabled group that the target reaches: the owner enables its own groups before the
\* worker starts, and a child is suspended until enable_on_exec is in force.  What was
\* counted was counted by a group that ran, and a verdict is given once the worker ended.
Delivered == \E r \in RingIds, t \in Tids : credited[r][t] # 0

SampledInvariant ==
  /\ leader \in Nat \ {0} /\ timed \in [RingIds -> BOOLEAN]
  /\ vpc = "built" /\ mode = "self" /\ leader > Rings => \E r \in RingIds : timed[r]
  /\ mode \in {"child", "process", "self"}
  /\ vpc = "built" /\ mode = "child" => target = "suspended"
  /\ mode # "process" /\ executed => \E r \in RingIds : timed[r]
  /\ \A r \in RingIds : (\E t \in Tids : total[r][t] # 0) => Ran(r)
  /\ status \in {"ok", "unscheduled"} =>
       vpc \in {"stopped", "dropping", "dropped"} /\ wpc \in {"none", "ended"}
  /\ mode # "process" => SampledWhenOk
  /\ status = "unscheduled" => ~Delivered

\* Groups stay reached, and what was judged keeps what it was judged on.
LEMMA SampledUntouched ==
  ASSUME SampledInvariant,
         UNCHANGED <<mode, fits, total, credited, leader, status, judged, vpc>>,
         timed' \in [RingIds -> BOOLEAN], \A r \in RingIds : timed[r] => timed'[r],
         wpc' = wpc \/ (wpc \in Reading /\ wpc' \in Reading \cup {"ended"}),
         target' = target \/ vpc # "built",
         executed' = executed \/ mode = "process" \/ (vpc = "sampling" /\ \E r \in RingIds : timed'[r])
  PROVE  SampledInvariant'
<1>1. \A r \in RingIds : Ran(r) => Ran(r)' BY DEF Ran
<1>2. (\E r \in RingIds : timed[r]) => \E r \in RingIds : timed'[r] OBVIOUS
<1>3. (\E r \in RingIds : Ran(r)) => \E r \in RingIds : Ran(r)' BY <1>1
<1>4. \A r \in RingIds : (\E t \in Tids : total'[r][t] # 0) => Ran(r)'
  BY <1>1 DEF SampledInvariant
<1>5. mode' # "process" => SampledWhenOk'
  <2> SUFFICES ASSUME mode # "process", status = "ok", executed', judged # "unread"
               PROVE  \E r \in RingIds : Ran(r)'
    BY DEF SampledWhenOk
  <2>1. executed BY DEF SampledInvariant
  <2>2. \E r \in RingIds : Ran(r) BY <2>1 DEF SampledInvariant, SampledWhenOk
  <2> QED BY <1>3, <2>2
<1>6. mode' # "process" /\ executed' => \E r \in RingIds : timed'[r]
  BY <1>2 DEF SampledInvariant
<1>7. (status' = "unscheduled" => ~Delivered') BY DEF SampledInvariant, Delivered
<1>8. status' \in {"ok", "unscheduled"} =>
        vpc' \in {"stopped", "dropping", "dropped"} /\ wpc' \in {"none", "ended"}
  BY DEF SampledInvariant, Reading
<1>9. vpc' = "built" /\ mode' = "self" /\ leader' > Rings => \E r \in RingIds : timed'[r]
  BY <1>2 DEF SampledInvariant
<1>10. vpc' = "built" /\ mode' = "child" => target' = "suspended" BY DEF SampledInvariant
<1> QED BY <1>4, <1>5, <1>6, <1>7, <1>8, <1>9, <1>10 DEF SampledInvariant

LEMMA SampledKernel == SampledInvariant /\ DeltaInvariant /\ KernelStep => SampledInvariant'
<1> SUFFICES ASSUME SampledInvariant, DeltaInvariant, KernelStep PROVE SampledInvariant' OBVIOUS
<1>1. ASSUME NEW q \in RingIds, NEW s \in Tids, Interrupt(q, s) PROVE SampledInvariant'
  <2>1. /\ UNCHANGED <<mode, target, fits, timed, credited, leader, status, judged, vpc, wpc, executed>>
        /\ total' = [total EXCEPT ![q][s] = @ + 1] /\ Ran(q)
    BY <1>1 DEF Interrupt, owner
  <2>2. ASSUME NEW r \in RingIds, NEW t \in Tids, total'[r][t] # 0 PROVE Ran(r)'
    <3>1. CASE r = q BY <2>1, <3>1 DEF Ran
    <3>2. CASE r # q
      <4>1. total'[r] = total[r] BY <2>1, <3>2 DEF DeltaInvariant
      <4> QED BY <2>1, <2>2, <4>1 DEF SampledInvariant, Ran
    <3> QED BY <3>1, <3>2
  <2> QED BY <2>1, <2>2 DEF SampledInvariant, SampledWhenOk, Ran, Delivered
<1>2. ASSUME NEW r \in RingIds, MapModule(r) PROVE SampledInvariant'
  BY <1>2, SampledUntouched DEF MapModule, owner, SampledInvariant
<1>3. ASSUME NEW t \in Tids, ReuseTid(t) PROVE SampledInvariant'
  BY <1>3, SampledUntouched DEF ReuseTid, owner, produced, SampledInvariant
<1>4. ASSUME NEW r \in RingIds, Reach(r) \/ Exec(r) PROVE SampledInvariant'
  <2>1. /\ UNCHANGED <<mode, fits, total, credited, leader, status, judged, vpc, wpc>>
        /\ timed' = [timed EXCEPT ![r] = TRUE]
    BY <1>4 DEF Reach, Exec, owner, produced
  <2>2. timed \in [RingIds -> BOOLEAN] BY DEF SampledInvariant
  <2>3. timed' \in [RingIds -> BOOLEAN] BY <2>1, <2>2, Zenon
  <2>4. timed'[r] /\ \A q \in RingIds : timed[q] => timed'[q] BY <2>1, <2>2
  <2>5. target' = target \/ vpc # "built" BY <1>4 DEF Reach, Exec
  <2>6. executed' = executed \/ mode = "process" \/ (vpc = "sampling" /\ \E q \in RingIds : timed'[q])
    BY <1>4, <2>4 DEF Reach, Exec, produced
  <2> QED BY <2>1, <2>3, <2>4, <2>5, <2>6, SampledUntouched
<1>5. CASE Exit
  <2>1. target' = target \/ vpc # "built" \/ mode # "child" BY <1>5 DEF Exit, SampledInvariant
  <2>2. UNCHANGED <<mode, fits, timed, total, credited, leader, status, judged, vpc, wpc, executed>>
    BY <1>5 DEF Exit, owner, produced
  <2> QED BY <2>1, <2>2 DEF SampledInvariant, SampledWhenOk, Ran, Delivered
<1> QED BY <1>1, <1>2, <1>3, <1>4, <1>5 DEF KernelStep

LEMMA SampledSampler == SampledInvariant /\ Sampler => SampledInvariant'
<1> SUFFICES ASSUME SampledInvariant, Sampler PROVE SampledInvariant' OBVIOUS
<1>1. /\ UNCHANGED <<mode, target, fits, timed, total, leader, status, judged, vpc, executed>>
      /\ wpc \in Reading /\ wpc' \in Reading \cup {"ended"}
  BY DEF Sampler, RingEmpty, CopyRecord, UpdateTail, CheckRunning, EmitSample, EmitAddress,
         CountLost, Handle, kernel, owner, produced, Reading
<1>2. status \notin {"ok", "unscheduled"} BY <1>1 DEF SampledInvariant, Reading
<1> QED BY <1>1, <1>2 DEF SampledInvariant, SampledWhenOk, Ran

LEMMA SampledOwner ==
  SampledInvariant /\ StreamInvariant /\ DeltaInvariant /\ DeltasTelescope /\ OwnerStep
    => SampledInvariant'
<1> SUFFICES ASSUME SampledInvariant, StreamInvariant, DeltaInvariant, DeltasTelescope, OwnerStep
             PROVE  SampledInvariant'
  OBVIOUS
<1>1. CASE StartEnable
  <2>1. /\ UNCHANGED <<mode, target, fits, total, credited, wpc, executed>>
        /\ vpc = "built" /\ mode = "self" /\ leader <= Rings
        /\ \/ /\ leader' = leader + 1 /\ UNCHANGED <<vpc, status>>
              /\ \/ timed' = [timed EXCEPT ![leader] = TRUE]
                 \/ timed' = timed /\ (leader < Rings \/ \E r \in RingIds : timed[r])
           \/ UNCHANGED <<timed, leader>> /\ vpc' = "failed" /\ status' = "enable"
    BY <1>1 DEF StartEnable, EnableOnStart, produced
  <2>2. leader \in RingIds /\ Rings \in Nat
    BY <2>1, SamplingAssumption DEF SampledInvariant, RingIds
  <2>3. timed \in [RingIds -> BOOLEAN] /\ leader \in Nat \ {0} BY DEF SampledInvariant
  <2>4. timed' \in [RingIds -> BOOLEAN]
    <3>1. timed' = timed \/ timed' = [timed EXCEPT ![leader] = TRUE] BY <2>1
    <3> QED BY <2>3, <3>1, Zenon
  <2>5. \A r \in RingIds : timed[r] => timed'[r] BY <2>1, <2>3
  <2>6. vpc' = "built" /\ leader' > Rings => \E r \in RingIds : timed'[r]
    <3> SUFFICES ASSUME vpc' = "built", leader' > Rings PROVE \E r \in RingIds : timed'[r] OBVIOUS
    <3>1. leader' = leader + 1 /\ ~(leader < Rings) BY <2>1, <2>2, <2>3
    <3>2. CASE timed' = [timed EXCEPT ![leader] = TRUE] BY <2>2, <2>3, <3>2
    <3>3. CASE timed' # [timed EXCEPT ![leader] = TRUE] BY <2>1, <3>1, <3>3
    <3> QED BY <3>2, <3>3
  <2>7. status \notin {"ok", "unscheduled"} /\ status' \notin {"ok", "unscheduled"}
    BY <2>1 DEF SampledInvariant
  <2>8. \A r \in RingIds : Ran(r) => Ran(r)' BY <2>1, <2>5 DEF Ran
  <2>9. leader' \in Nat \ {0} BY <2>1, <2>3
  <2>10. \A r \in RingIds : (\E t \in Tids : total'[r][t] # 0) => Ran(r)'
    BY <2>1, <2>8 DEF SampledInvariant
  <2>11. mode' # "process" /\ executed' => \E r \in RingIds : timed'[r]
    BY <2>1, <2>5 DEF SampledInvariant
  <2> QED BY <2>1, <2>4, <2>6, <2>7, <2>9, <2>10, <2>11 DEF SampledInvariant, SampledWhenOk
<1>2. CASE StartWorker
  <2>1. /\ UNCHANGED <<mode, target, fits, timed, total, credited, status, judged>> /\ vpc = "built"
        /\ vpc' = "sampling" /\ leader' = 1 /\ executed' = (target = "executing")
        /\ mode = "self" => leader > Rings
    BY <1>2 DEF StartWorker, EnableOnStart, kernel
  <2>2. status \notin {"ok", "unscheduled"} BY <2>1 DEF SampledInvariant
  <2>3. mode # "process" /\ executed' => \E r \in RingIds : timed[r] BY <2>1 DEF SampledInvariant
  <2> QED BY <2>1, <2>2, <2>3 DEF SampledInvariant, SampledWhenOk, Ran
<1>3. CASE StopDisable \/ StopFlag
  <2>1. /\ UNCHANGED <<mode, target, fits, timed, total, credited, status, judged, executed>>
        /\ vpc \in {"sampling", "stopping"} /\ vpc' \in {"stopping", "joining"}
        /\ leader' \in Nat \ {0}
    BY <1>3 DEF StopDisable, StopFlag, SampledInvariant, kernel, produced
  <2>2. status \notin {"ok", "unscheduled"} BY <2>1 DEF SampledInvariant
  <2> QED BY <2>1, <2>2 DEF SampledInvariant, SampledWhenOk, Ran
<1>4. CASE StopJoin
  <2>1. /\ UNCHANGED <<mode, target, fits, timed, total, credited, executed, leader, wpc, failed, lost>>
        /\ wpc = "ended" /\ vpc' = "stopped"
        /\ judged' \in GroupsScheduled /\ status' = Outcome(judged')
    BY <1>4 DEF StopJoin, kernel, shared, produced
  <2>2. judged' = Scheduling \/ judged' = "unread" BY <2>1 DEF GroupsScheduled
  <2>3. ASSUME status' = "ok", executed, judged' # "unread", mode # "process"
        PROVE  \E r \in RingIds : Ran(r)
    <3>1. Scheduling # "never" BY <2>1, <2>2, <2>3 DEF Outcome
    <3>2. \E r \in RingIds : timed[r] BY <2>3 DEF SampledInvariant
    <3> QED BY <3>1, <3>2 DEF Scheduling
  <2>4. ASSUME status' = "unscheduled", NEW r \in RingIds, NEW t \in Tids PROVE credited[r][t] = 0
    <3>1. Scheduling = "never" BY <2>1, <2>2, <2>4 DEF Outcome
    <3>2. ~Ran(r) BY <3>1 DEF Scheduling
    <3>3. total[r][t] = 0 BY <3>2 DEF SampledInvariant
    <3>4. credited[r][t] <= total[r][t] BY DEF DeltasTelescope
    <3> QED BY <3>3, <3>4, NumbersTyped
  <2>5. mode' # "process" => SampledWhenOk' BY <2>1, <2>3 DEF SampledWhenOk, Ran
  <2>6. status' = "unscheduled" => ~Delivered' BY <2>1, <2>4 DEF Delivered
  <2> QED BY <2>1, <2>5, <2>6 DEF SampledInvariant, Ran
<1>5. CASE DropFlag \/ DropUnmap
  <2>1. /\ UNCHANGED <<mode, target, fits, timed, total, credited, executed, leader, status, judged, wpc>>
        /\ vpc' \in {"dropping", "dropped"}
    BY <1>5 DEF DropFlag, DropUnmap, kernel, produced
  <2> QED BY <2>1 DEF SampledInvariant, SampledWhenOk, Ran, Delivered
<1> QED BY <1>1, <1>2, <1>3, <1>4, <1>5 DEF OwnerStep

\* stop of a driver that launched its target, or samples its own process, returns Ok for a
\* target that executed meanwhile only if some group the target reached could run (or the
\* kernel did not say), whatever the other groups did; it reports that no group ran only
\* when nothing was delivered, attached processes included.
THEOREM OkIsSampled == Spec => []OkMeansSampled
<1>1. Init => SampledInvariant
  <2> SUFFICES ASSUME Init PROVE SampledInvariant OBVIOUS
  <2>1. timed \in [RingIds -> BOOLEAN] BY Zenon DEF Init, SamplingInit
  <2>2. /\ vpc = "built" /\ leader = 1 /\ executed = FALSE /\ status = "none"
        /\ mode = "child" => target = "suspended"
        /\ mode \in {"child", "process", "self"}
        /\ \A r \in RingIds, t \in Tids : total[r][t] = 0
    BY SamplingAssumption DEF Init, SamplingInit
  <2>3. ~(1 > Rings) BY SamplingAssumption
  <2> QED BY <2>1, <2>2, <2>3 DEF SampledInvariant, SampledWhenOk
<1>2. SampledInvariant /\ (StreamInvariant /\ DeltaInvariant /\ DeltasTelescope) /\ [Next]_vars
        => SampledInvariant'
  <2> SUFFICES ASSUME SampledInvariant, StreamInvariant, DeltaInvariant, DeltasTelescope,
                      [SamplingNext]_sampling
               PROVE  SampledInvariant'
    BY SamplingSteps
  <2>1. CASE UNCHANGED sampling
    BY <2>1 DEF sampling, kernel, shared, owner, produced, SampledInvariant, SampledWhenOk, Ran, Delivered
  <2> QED BY <2>1, SampledKernel, SampledSampler, SampledOwner DEF SamplingNext
<1>3. SampledInvariant => OkMeansSampled BY DEF SampledInvariant, OkMeansSampled, Delivered
<1> QED BY <1>1, <1>2, <1>3, DeltaAlways, PTL DEF Spec

----------------------------------------------------------------------------
(* Where every record is *)

\* What the worker has in its hand stands for this many records.
Held == IF wpc \in {"copied", "parsed"} THEN Weight(rec) ELSE 0

Left(r) == Unread(r) + pending[r]

Balance ==
  Over(generated) = sent["samples"] + sent["modules"] + lost + Held + Over([r \in RingIds |-> Left(r)])

AccountInvariant ==
  /\ generated \in [RingIds -> Nat] /\ lost \in Nat
  /\ Balance

\* The terms that Unread adds up.
Terms(r) == [i \in 1 .. Len(written[r]) |-> IF i > Copied(r) THEN Weight(written[r][i]) ELSE 0]

LEMMA WeightType == ASSUME NEW e \in Records PROVE Weight(e) \in Nat
BY DEF Weight, Records

LEMMA CopiedType ==
  ASSUME StreamInvariant, NEW r \in RingIds
  PROVE  Copied(r) \in Nat /\ Copied(r) <= Len(written[r]) /\ Len(written[r]) \in Nat
<1>1. /\ tail[r] \in Nat /\ Len(written[r]) \in Nat /\ Len(handled[r]) \in Nat
  BY DEF StreamInvariant, SamplingType
<1>2. tail[r] <= Len(written[r]) BY DEF StreamInvariant, RingHolds
<1>3. wpc = "copied" /\ wring = r => tail[r] = Len(handled[r]) /\ Len(handled[r]) < Len(written[r])
  BY DEF StreamInvariant, WorkerFollows
<1> QED BY <1>1, <1>2, <1>3 DEF Copied

LEMMA TermsType ==
  ASSUME StreamInvariant, NEW r \in RingIds, NEW i \in 1 .. Len(written[r])
  PROVE  Terms(r)[i] \in Nat
<1>1. written[r] \in Seq(Records) BY DEF StreamInvariant, SamplingType
<1>2. written[r][i] \in Records BY <1>1
<1>3. Weight(written[r][i]) \in Nat BY <1>2, WeightType
<1>4. Terms(r)[i] = IF i > Copied(r) THEN Weight(written[r][i]) ELSE 0 BY DEF Terms
<1> QED BY <1>3, <1>4

LEMMA UnreadIs == ASSUME NEW r PROVE Unread(r) = SumTo(Terms(r), Len(written[r]))
BY DEF Unread, Terms

LEMMA LeftType ==
  ASSUME StreamInvariant, NEW r \in RingIds
  PROVE  Unread(r) \in Nat /\ pending[r] \in Nat /\ Left(r) \in Nat
<1>1. Len(written[r]) \in Nat /\ pending[r] \in Nat BY DEF StreamInvariant, SamplingType
<1>2. Unread(r) \in Nat BY <1>1, TermsType, SumType, UnreadIs
<1> QED BY <1>1, <1>2 DEF Left

LEMMA UnreadSame ==
  ASSUME NEW r, written'[r] = written[r], Copied(r)' = Copied(r)
  PROVE  Unread(r)' = Unread(r)
BY DEF Unread

\* A record that is written is one more to read; the report in front of it stands for
\* those that were pending.
LEMMA UnreadGrows ==
  ASSUME StreamInvariant, StreamInvariant', NEW r \in RingIds, NEW record \in Records, NEW k \in {1, 2},
         Adds(r, record, k), record.kind # "lost", Copied(r)' = Copied(r)
  PROVE  Left(r)' = Left(r) + 1
<1>1. PICK n \in Nat : n = Len(written[r]) BY CopiedType
<1>2. /\ Copied(r) \in Nat /\ Copied(r) <= n BY <1>1, CopiedType
<1>3. /\ Len(written'[r]) = n + k /\ pending'[r] = 0
      /\ \A i \in 1 .. n : written'[r][i] = written[r][i]
      /\ written'[r][n + k] = record
      /\ k = 1 => pending[r] = 0
      /\ k = 2 => pending[r] > 0 /\ written'[r][n + 1] = Lost(pending[r])
  BY <1>1 DEF Adds
<1> DEFINE new == Terms(r)'
<1>4. \A i \in 1 .. n + k : new[i] = IF i > Copied(r) THEN Weight(written'[r][i]) ELSE 0
  BY <1>3 DEF Terms
<1>5. \A i \in 1 .. n : Terms(r)[i] = IF i > Copied(r) THEN Weight(written[r][i]) ELSE 0
  BY <1>1 DEF Terms
<1>9. Unread(r)' = SumTo(new, n + k)
  BY <1>3 DEF Unread, Terms
<1> HIDE DEF new
<1>6. \A i \in 1 .. n : new[i] = Terms(r)[i]
  <2> SUFFICES ASSUME NEW i \in 1 .. n PROVE new[i] = Terms(r)[i] OBVIOUS
  <2>1. i \in 1 .. n + k OBVIOUS
  <2>2. written'[r][i] = written[r][i] BY <1>3
  <2> QED BY <1>4, <1>5, <2>1, <2>2
<1>7. new[n + k] = 1 /\ (k = 2 => new[n + 1] = pending[r])
  <2>1. n + k \in 1 .. n + k /\ n + k > Copied(r) /\ n + 1 \in 1 .. n + k /\ n + 1 > Copied(r)
    BY <1>2
  <2>2. Weight(record) = 1 /\ Weight(Lost(pending[r])) = pending[r] BY DEF Weight, Lost
  <2> QED BY <1>3, <1>4, <2>1, <2>2
<1>8. Unread(r) = SumTo(Terms(r), n) BY <1>1, UnreadIs
<1>10. SumTo(new, n) = SumTo(Terms(r), n) BY <1>6, SumSame
<1>11. SumTo(new, n + 1) = SumTo(new, n) + new[n + 1] BY SumNext
<1>12. Unread(r) \in Nat /\ pending[r] \in Nat BY LeftType
<1>13. CASE k = 1
  BY <1>3, <1>7, <1>8, <1>9, <1>10, <1>11, <1>12, <1>13 DEF Left
<1>14. CASE k = 2
  <2>1. SumTo(new, (n + 1) + 1) = SumTo(new, n + 1) + new[(n + 1) + 1] BY SumNext
  <2>2. (n + 1) + 1 = n + 2 OBVIOUS
  <2> QED BY <1>3, <1>7, <1>8, <1>9, <1>10, <1>11, <1>12, <1>14, <2>1, <2>2 DEF Left
<1> QED BY <1>13, <1>14

\* A record that is copied is one less to read.
LEMMA UnreadTaken ==
  ASSUME StreamInvariant, NEW r \in RingIds, UNCHANGED written, Copied(r)' = Copied(r) + 1,
         Copied(r) < Len(written[r]), NEW e \in Records, e = written[r][Copied(r) + 1]
  PROVE  Unread(r)' + Weight(e) = Unread(r) /\ Unread(r)' \in Nat
<1>1. PICK n \in Nat : n = Len(written[r]) BY CopiedType
<1>2. PICK c \in Nat : c = Copied(r) BY CopiedType
<1> DEFINE new == Terms(r)'
<1>3. \A i \in 1 .. n : new[i] = IF i > c + 1 THEN Weight(written[r][i]) ELSE 0
  BY <1>1, <1>2 DEF Terms
<1>4. \A i \in 1 .. n : Terms(r)[i] = IF i > c THEN Weight(written[r][i]) ELSE 0
  BY <1>1, <1>2 DEF Terms
<1>5. c + 1 \in 1 .. n BY <1>1, <1>2
<1>6. Unread(r)' = SumTo(new, n) BY <1>1 DEF Unread, Terms
<1>7. Unread(r) = SumTo(Terms(r), n) BY <1>1, UnreadIs
<1> HIDE DEF new
<1>8. \A i \in 1 .. n : i # c + 1 => Terms(r)[i] = new[i] BY <1>3, <1>4
<1>9. \A i \in 1 .. n : Terms(r)[i] \in Nat BY <1>1, TermsType
<1>10. new[c + 1] = 0 BY <1>3, <1>5
<1>11. \A i \in 1 .. n : Terms(r)[i] \in Nat /\ new[i] \in Nat BY <1>8, <1>9, <1>10
<1>12. Terms(r)[c + 1] = Weight(e) BY <1>2, <1>4, <1>5
<1>13. SumTo(new, n) + Terms(r)[c + 1] = SumTo(Terms(r), n) + new[c + 1]
  <2>1. OnlyAt(Terms(r), new, n, c + 1) BY <1>5, <1>8, <1>11 DEF OnlyAt
  <2> QED BY <2>1, SumChange
<1>14. Unread(r) \in Nat BY LeftType
<1>15. SumTo(new, n) \in Nat BY <1>11, SumType
<1> QED BY <1>6, <1>7, <1>10, <1>12, <1>13, <1>14, <1>15

\* One ring's share of a total changes.
LEMMA OverChange ==
  ASSUME NEW f \in [RingIds -> Nat], NEW g \in [RingIds -> Nat], NEW r \in RingIds,
         \A q \in RingIds : q # r => f[q] = g[q]
  PROVE  Over(f) \in Nat /\ Over(g) \in Nat /\ Over(g) + f[r] = Over(f) + g[r]
<1>1. Rings \in Nat /\ RingIds = 1 .. Rings BY SamplingAssumption DEF RingIds
<1>2. OnlyAt(f, g, Rings, r) BY <1>1 DEF OnlyAt
<1>3. (\A i \in 1 .. Rings : f[i] \in Nat) /\ (\A i \in 1 .. Rings : g[i] \in Nat) BY <1>1
<1>4. SumTo(f, Rings) \in Nat /\ SumTo(g, Rings) \in Nat BY <1>1, <1>3, SumType
<1>5. SumTo(g, Rings) + f[r] = SumTo(f, Rings) + g[r]
  <2>1. Rings \in Nat /\ r \in 1 .. Rings BY <1>1
  <2> QED BY <1>2, <2>1, SumChange
<1> QED BY <1>4, <1>5 DEF Over

LEMMA OverType == ASSUME NEW f \in [RingIds -> Nat] PROVE Over(f) \in Nat
<1>1. Rings \in Nat /\ RingIds = 1 .. Rings BY SamplingAssumption DEF RingIds
<1>2. \A i \in 1 .. Rings : f[i] \in Nat BY <1>1
<1> QED BY <1>1, <1>2, SumType DEF Over

Lefts == [r \in RingIds |-> Left(r)]

LEMMA BalanceTyped ==
  ASSUME StreamInvariant, RowsTyped, AccountInvariant
  PROVE  /\ Lefts \in [RingIds -> Nat] /\ Over(Lefts) \in Nat /\ Over(generated) \in Nat
         /\ sent["samples"] \in Nat /\ sent["modules"] \in Nat /\ lost \in Nat /\ Held \in Nat
<1>1. Lefts \in [RingIds -> Nat] BY LeftType DEF Lefts
<1>2. sent["samples"] \in Nat /\ sent["modules"] \in Nat BY DEF RowsTyped, Tables
<1>3. Held \in Nat BY WeightType DEF Held, StreamInvariant, SamplingType
<1> QED BY <1>1, <1>2, <1>3, OverType DEF AccountInvariant

LEMMA HeldIs == StreamInvariant => Held = InHand + LostInHand
<1> SUFFICES ASSUME StreamInvariant PROVE Held = InHand + LostInHand OBVIOUS
<1>1. rec.value \in Nat BY DEF StreamInvariant, SamplingType, Records
<1> QED BY <1>1 DEF Held, InHand, LostInHand, Weight

\* Steps of nobody concerned.
LEMMA BalanceUntouched ==
  ASSUME StreamInvariant, AccountInvariant, UNCHANGED <<generated, lost, written, pending>>, Held' = Held,
         sent'["samples"] = sent["samples"], sent'["modules"] = sent["modules"],
         \A r \in RingIds : Copied(r)' = Copied(r)
  PROVE  AccountInvariant'
<1>1. \A r \in RingIds : Left(r)' = Left(r) BY UnreadSame DEF Left
<1>2. Lefts' = Lefts BY <1>1 DEF Lefts
<1>3. Over(Lefts)' = Over(Lefts) BY <1>2 DEF Over
<1>4. Balance' BY <1>2, <1>3 DEF AccountInvariant, Balance, Lefts, Over
<1> QED BY <1>4 DEF AccountInvariant

\* The kernel produces a record.
LEMMA BalanceProduced ==
  ASSUME StreamInvariant, StreamInvariant', RowsTyped, AccountInvariant, NEW r \in RingIds,
         NEW record \in Records, Produce(r, record), record.kind # "lost",
         UNCHANGED <<lost, sent, tail, wpc, wring, rec>>
  PROVE  AccountInvariant'
<1>1. generated' = [generated EXCEPT ![r] = @ + 1] BY DEF Produce
<1>2. generated' \in [RingIds -> Nat] /\ generated'[r] = generated[r] + 1 /\ generated[r] \in Nat
      /\ \A q \in RingIds : q # r => generated[q] = generated'[q]
  BY <1>1 DEF AccountInvariant
<1>3. Over(generated') = Over(generated) + 1 /\ Over(generated') \in Nat
  <2>1. Over(generated') + generated[r] = Over(generated) + generated'[r] /\ Over(generated') \in Nat
    BY <1>2, OverChange DEF AccountInvariant
  <2> QED BY <1>2, <2>1, BalanceTyped
<1>4. \A q \in RingIds : Copied(q)' = Copied(q) BY DEF Copied
<1>5. Left(r)' = Left(r) + 1
  <2>1. CASE written' = written /\ pending'[r] = pending[r] + 1
    <3>1. Unread(r)' = Unread(r) BY <1>4, <2>1, UnreadSame
    <3> QED BY <2>1, <3>1, LeftType DEF Left
  <2>2. CASE \E k \in {1, 2} : Adds(r, record, k) BY <1>4, <2>2, UnreadGrows
  <2> QED BY <2>1, <2>2, ProducedIs
<1>6. \A q \in RingIds : q # r => Left(q)' = Left(q)
  BY <1>4, ProducedIs, UnreadSame DEF Left
<1> PICK new : new = Lefts' OBVIOUS
<1>7. Lefts \in [RingIds -> Nat] /\ new \in [RingIds -> Nat]
  <2>1. \A q \in RingIds : Left(q) \in Nat /\ Left(q)' \in Nat
    BY <1>5, <1>6, LeftType
  <2> QED BY <2>1 DEF Lefts
<1>8. new[r] = Lefts[r] + 1 /\ Lefts[r] \in Nat /\ \A q \in RingIds : q # r => Lefts[q] = new[q]
  BY <1>5, <1>6, LeftType DEF Lefts
<1>9. Over(new) + Lefts[r] = Over(Lefts) + new[r] /\ Over(new) \in Nat BY <1>7, <1>8, OverChange
<1>10. Over(new) = Over(Lefts) + 1 BY <1>8, <1>9, BalanceTyped
<1>11. Held' = Held BY DEF Held, Weight
<1>12. Balance'
  <2>1. Over(generated) = sent["samples"] + sent["modules"] + lost + Held + Over(Lefts)
    BY DEF AccountInvariant, Balance, Lefts
  <2>2. Over(generated') = sent'["samples"] + sent'["modules"] + lost' + Held' + Over(new)
    BY <1>3, <1>10, <1>11, <2>1, BalanceTyped
  <2>3. Over(generated)' = Over(generated') /\ Over([q \in RingIds |-> Left(q)])' = Over(new)
    BY DEF Over, Lefts
  <2> QED BY <2>2, <2>3 DEF Balance
<1> QED BY <1>2, <1>12 DEF AccountInvariant

\* The worker copies a record out of its ring.
LEMMA BalanceCopied ==
  ASSUME StreamInvariant, StreamInvariant', RowsTyped, AccountInvariant, CopyRecord, UNCHANGED sent
  PROVE  AccountInvariant'
<1>1. /\ wpc = "pass" /\ wpc' = "copied"
      /\ UNCHANGED <<generated, lost, written, pending, tail, wring, handled>>
  BY DEF CopyRecord, kernel, shared, produced
<1>2. PICK r \in RingIds : r = wring BY <1>1 DEF StreamInvariant, SamplingType
<1>3. /\ Copied(r) = tail[r] /\ Copied(r)' = tail[r] + 1 /\ tail[r] \in Nat
      /\ \A q \in RingIds : q # r => Copied(q)' = Copied(q)
  <2>1. tail[r] \in Nat BY DEF StreamInvariant, SamplingType
  <2> QED BY <1>1, <1>2, <2>1 DEF Copied
<1>4. /\ rec' = written[r][Copied(r) + 1] /\ Copied(r) < Len(written[r]) /\ rec' \in Records
  <2>1. /\ Len(handled'[wring']) < Len(written'[wring']) /\ rec' = written'[wring'][Len(handled'[wring']) + 1]
        /\ rec' \in Records
    BY <1>1 DEF StreamInvariant, WorkerFollows, SamplingType
  <2>2. tail[r] = Len(handled[r]) BY <1>1, <1>2 DEF StreamInvariant, WorkerFollows
  <2> QED BY <1>1, <1>2, <1>3, <2>1, <2>2
<1>5. Unread(r)' + Weight(rec') = Unread(r) /\ Unread(r)' \in Nat
  BY <1>1, <1>3, <1>4, UnreadTaken
<1>6. Left(r)' + Weight(rec') = Left(r) /\ Left(r)' \in Nat /\ Weight(rec') \in Nat
  <2>1. Weight(rec') \in Nat /\ Unread(r) \in Nat /\ pending[r] \in Nat BY <1>4, WeightType, LeftType
  <2> QED BY <1>1, <1>5, <2>1 DEF Left
<1>7. \A q \in RingIds : q # r => Left(q)' = Left(q) BY <1>1, <1>3, UnreadSame DEF Left
<1> PICK new : new = Lefts' OBVIOUS
<1>8. Lefts \in [RingIds -> Nat] /\ new \in [RingIds -> Nat]
  <2>1. \A q \in RingIds : Left(q) \in Nat /\ Left(q)' \in Nat
    BY <1>6, <1>7, LeftType
  <2> QED BY <2>1 DEF Lefts
<1>9. /\ new[r] + Weight(rec') = Lefts[r] /\ new[r] \in Nat /\ Lefts[r] \in Nat
      /\ \A q \in RingIds : q # r => Lefts[q] = new[q]
  BY <1>6, <1>7, LeftType DEF Lefts
<1>10. Over(new) + Lefts[r] = Over(Lefts) + new[r] /\ Over(new) \in Nat BY <1>8, <1>9, OverChange
<1>11. Over(new) + Weight(rec') = Over(Lefts) BY <1>6, <1>9, <1>10, BalanceTyped
<1>12. Held = 0 /\ Held' = Weight(rec') BY <1>1 DEF Held, Weight
<1>13. Balance'
  <2>1. Over(generated) = sent["samples"] + sent["modules"] + lost + Held + Over(Lefts)
    BY DEF AccountInvariant, Balance, Lefts
  <2>2. Over(generated) = sent["samples"] + sent["modules"] + lost + Held' + Over(new)
    BY <1>6, <1>10, <1>11, <1>12, <2>1, BalanceTyped
  <2>3. Over(generated)' = Over(generated) /\ Over([q \in RingIds |-> Left(q)])' = Over(new)
    BY <1>1 DEF Over, Lefts
  <2> QED BY <1>1, <2>2, <2>3 DEF Balance
<1> QED BY <1>1, <1>13 DEF AccountInvariant

\* The worker hands a record to the sink, or adds a report of lost ones to its count.
LEMMA BalanceHandled ==
  ASSUME StreamInvariant, RowsTyped, AccountInvariant,
         \/ EmitSample /\ Send("samples")
         \/ EmitAddress /\ TrySend("modules")
         \/ CountLost /\ UNCHANGED store
  PROVE  AccountInvariant'
<1>1. /\ wpc = "parsed" /\ wpc' = "pass" /\ UNCHANGED <<generated, written, pending, tail, wring>>
  BY DEF EmitSample, EmitAddress, CountLost, Handle, kernel, produced
<1>2. \A r \in RingIds : Copied(r)' = Copied(r) BY <1>1 DEF Copied
<1>3. \A r \in RingIds : Left(r)' = Left(r) BY <1>1, <1>2, UnreadSame DEF Left
<1>4. Lefts' = Lefts BY <1>3 DEF Lefts
<1>5. Over([q \in RingIds |-> Left(q)])' = Over(Lefts) /\ Over(generated)' = Over(generated)
  BY <1>1, <1>4 DEF Over, Lefts
<1>6. Held = Weight(rec) /\ Held' = 0 BY <1>1 DEF Held
<1>7. Over(generated) = sent["samples"] + sent["modules"] + lost + Held + Over(Lefts)
  BY DEF AccountInvariant, Balance, Lefts
<1>8. sent \in [Tables -> Nat] /\ "samples" \in Tables /\ "modules" \in Tables BY DEF RowsTyped, Tables
<1>9. CASE EmitSample /\ Send("samples")
  <2>1. Held = 1 /\ lost' = lost BY <1>6, <1>9 DEF EmitSample, Weight, shared
  <2>2. sent' = [sent EXCEPT !["samples"] = @ + 1] BY <1>9 DEF Send
  <2>3. sent'["samples"] = sent["samples"] + 1 /\ sent'["modules"] = sent["modules"] BY <1>8, <2>2
  <2>4. Balance' BY <1>5, <1>6, <1>7, <2>1, <2>3, BalanceTyped DEF Balance
  <2> QED BY <1>1, <2>1, <2>4 DEF AccountInvariant
<1>10. CASE EmitAddress /\ TrySend("modules")
  <2>1. Held = 1 /\ lost' = lost BY <1>6, <1>10 DEF EmitAddress, Weight, shared
  <2>2. sent' = [sent EXCEPT !["modules"] = @ + 1] BY <1>10 DEF TrySend
  <2>3. sent'["modules"] = sent["modules"] + 1 /\ sent'["samples"] = sent["samples"] BY <1>8, <2>2
  <2>4. Balance' BY <1>5, <1>6, <1>7, <2>1, <2>3, BalanceTyped DEF Balance
  <2> QED BY <1>1, <2>1, <2>4 DEF AccountInvariant
<1>11. CASE CountLost /\ UNCHANGED store
  <2>1. Held = rec.value /\ lost' = lost + rec.value BY <1>6, <1>11 DEF CountLost, Weight
  <2>2. sent' = sent BY <1>11 DEF store
  <2>3. lost' \in Nat BY <2>1, BalanceTyped
  <2>4. Balance' BY <1>5, <1>6, <1>7, <2>1, <2>2, BalanceTyped DEF Balance
  <2> QED BY <1>1, <2>3, <2>4 DEF AccountInvariant
<1> QED BY <1>9, <1>10, <1>11

LEMMA BalanceInitially == Init => AccountInvariant
<1> SUFFICES ASSUME Init PROVE AccountInvariant OBVIOUS
<1>1. /\ generated = [r \in RingIds |-> 0] /\ lost = 0 /\ wpc = "none"
      /\ written = [r \in RingIds |-> <<>>] /\ pending = [r \in RingIds |-> 0]
      /\ sent["samples"] = 0 /\ sent["modules"] = 0
  BY DEF Init, SamplingInit, StoreInit, Tables
<1>2. \A r \in RingIds : Left(r) = 0
  <2> SUFFICES ASSUME NEW r \in RingIds PROVE Left(r) = 0 OBVIOUS
  <2>1. Len(written[r]) = 0 /\ pending[r] = 0 BY <1>1
  <2>2. Unread(r) = 0 BY <2>1, SumZero DEF Unread
  <2> QED BY <2>1, <2>2 DEF Left
<1>3. [r \in RingIds |-> Left(r)] = generated BY <1>1, <1>2
<1>4. Held = 0 BY <1>1 DEF Held
<1>5. Over(generated) \in Nat BY <1>1, OverType
<1>6. Balance BY <1>1, <1>3, <1>4, <1>5 DEF Balance
<1> QED BY <1>1, <1>6 DEF AccountInvariant

\* The writing side never takes back a row that was published.
LEMMA SentStays == WriterThread \/ Kill \/ Recovery => UNCHANGED sent
<1>1. Consume \/ Disconnected \/ FinishStep \/ FinishDone => UNCHANGED sent
  BY DEF Consume, Disconnected, FinishStep, FinishDone, memory
<1>2. Kill \/ Recovery => UNCHANGED sent BY DEF Kill, Recovery, Quarantine, Recovered, memory
<1> QED BY <1>1, <1>2 DEF WriterThread

LEMMA BalanceInductive ==
  ASSUME StreamInvariant, StreamInvariant', RowsTyped, AccountInvariant, [Next]_vars
  PROVE  AccountInvariant'
<1>1. ASSUME UNCHANGED sampling, sent'["samples"] = sent["samples"], sent'["modules"] = sent["modules"]
      PROVE  AccountInvariant'
  <2>1. /\ UNCHANGED <<generated, lost, written, pending, tail, wpc, wring, rec>>
    BY <1>1 DEF sampling, kernel, shared, produced
  <2>2. Held' = Held /\ \A r \in RingIds : Copied(r)' = Copied(r) BY <2>1 DEF Held, Weight, Copied
  <2> QED BY <1>1, <2>1, <2>2, BalanceUntouched
<1>2. CASE UNCHANGED vars BY <1>1, <1>2 DEF vars, store
<1>3. CASE Sampling(KernelStep)
  <2>1. UNCHANGED sent BY <1>3 DEF Sampling, store
  <2>2. ASSUME NEW r \in RingIds, NEW t \in Tids, Interrupt(r, t) PROVE AccountInvariant'
    <3>1. /\ Produce(r, Sample(t, counter[r][t] + 1)) /\ UNCHANGED <<lost, tail, wpc, wring, rec>>
      BY <2>2 DEF Interrupt, shared
    <3>2. counter[r][t] \in Nat BY DEF StreamInvariant, SamplingType
    <3>3. /\ Sample(t, counter[r][t] + 1) \in Records
          /\ Sample(t, counter[r][t] + 1).kind # "lost"
      BY <3>2 DEF Sample, Records
    <3> QED BY <2>1, <3>1, <3>3, BalanceProduced
  <2>3. ASSUME NEW r \in RingIds, MapModule(r) PROVE AccountInvariant'
    <3>1. /\ Produce(r, Address) /\ UNCHANGED <<lost, tail, wpc, wring, rec>>
      BY <2>3 DEF MapModule, shared
    <3>2. Address \in Records /\ Address.kind # "lost" BY DEF Address, Records
    <3> QED BY <2>1, <3>1, <3>2, BalanceProduced
  <2>4. ASSUME (\E r \in RingIds : Reach(r) \/ Exec(r)) \/ (\E t \in Tids : ReuseTid(t)) \/ Exit
        PROVE  AccountInvariant'
    <3>1. UNCHANGED <<generated, lost, written, pending, tail, wpc, wring, rec>>
      BY <2>4 DEF Reach, ReuseTid, Exec, Exit, shared, produced
    <3>2. Held' = Held /\ \A r \in RingIds : Copied(r)' = Copied(r) BY <3>1 DEF Held, Weight, Copied
    <3> QED BY <2>1, <3>1, <3>2, BalanceUntouched
  <2> QED BY <1>3, <2>2, <2>3, <2>4 DEF Sampling, KernelStep
<1>4. CASE WorkerStep
  <2>1. ASSUME RingEmpty \/ CheckRunning, UNCHANGED store PROVE AccountInvariant'
    <3>1. /\ UNCHANGED <<generated, lost, written, pending, tail, rec>> /\ wpc = "pass"
          /\ wpc' \in {"pass", "ended"}
      BY <2>1 DEF RingEmpty, CheckRunning, kernel, shared, produced
    <3>2. Held' = Held /\ \A r \in RingIds : Copied(r)' = Copied(r) BY <3>1 DEF Held, Copied
    <3>3. UNCHANGED sent BY <2>1 DEF store
    <3> QED BY <3>1, <3>2, <3>3, BalanceUntouched
  <2>2. ASSUME CopyRecord, UNCHANGED store PROVE AccountInvariant'
    <3>1. UNCHANGED sent BY <2>2 DEF store
    <3> QED BY <2>2, <3>1, BalanceCopied
  <2>3. ASSUME UpdateTail, UNCHANGED store PROVE AccountInvariant'
    <3>1. /\ UNCHANGED <<generated, lost, written, pending, rec, wring>>
          /\ wpc = "copied" /\ wpc' = "parsed" /\ tail' = [tail EXCEPT ![wring] = @ + 1]
          /\ tail \in [RingIds -> Nat]
      BY <2>3 DEF UpdateTail, kernel, shared, produced, StreamInvariant, SamplingType
    <3>2. Held' = Held BY <3>1 DEF Held, Weight
    <3>3. \A r \in RingIds : Copied(r)' = Copied(r) BY <3>1 DEF Copied
    <3>4. UNCHANGED sent BY <2>3 DEF store
    <3> QED BY <3>1, <3>2, <3>3, <3>4, BalanceUntouched
  <2> QED BY <1>4, <2>1, <2>2, <2>3, BalanceHandled DEF WorkerStep, Sampling
<1>5. CASE Sampling(OwnerStep)
  <2>1. UNCHANGED sent BY <1>5 DEF Sampling, store
  <2>2. ASSUME StartWorker PROVE AccountInvariant'
    <3>1. /\ UNCHANGED <<generated, lost, written, pending, tail, rec>>
          /\ wpc' = "pass" /\ vpc = "built"
      BY <2>2 DEF StartWorker, kernel
    <3>2. wpc = "none" BY <3>1 DEF StreamInvariant, SamplingType
    <3>3. Held' = Held /\ \A r \in RingIds : Copied(r)' = Copied(r) BY <3>1, <3>2 DEF Held, Copied
    <3> QED BY <2>1, <3>1, <3>3, BalanceUntouched
  <2>3. ASSUME StartEnable \/ StopDisable \/ StopFlag \/ StopJoin \/ DropFlag \/ DropUnmap
        PROVE  AccountInvariant'
    <3>1. UNCHANGED <<generated, lost, written, pending, tail, wpc, wring, rec>>
      BY <2>3 DEF StartEnable, StopDisable, StopFlag, StopJoin, DropFlag, DropUnmap, kernel, shared,
                  produced
    <3>2. Held' = Held /\ \A r \in RingIds : Copied(r)' = Copied(r) BY <3>1 DEF Held, Weight, Copied
    <3> QED BY <2>1, <3>1, <3>2, BalanceUntouched
  <2> QED BY <1>5, <2>2, <2>3 DEF Sampling, OwnerStep
<1>6. CASE OtherSources
  <2>1. sent' = [sent EXCEPT !["allocations"] = @ + 1] /\ UNCHANGED sampling
    BY <1>6 DEF OtherSources, Send
  <2>2. sent \in [Tables -> Nat] /\ "samples" \in Tables /\ "modules" \in Tables
    BY DEF RowsTyped, Tables
  <2> QED BY <1>1, <2>1, <2>2
<1>7. CASE Release BY <1>1, <1>7 DEF Release, DropSenders
<1>8. CASE (WriterThread \/ Kill \/ Recovery) /\ UNCHANGED sampling BY <1>1, <1>8, SentStays
<1> QED BY <1>2, <1>3, <1>4, <1>5, <1>6, <1>7, <1>8 DEF Next

\* Produce, copy_from_ring, update_tail and the two sends: every record the kernel produced
\* is published, counted as lost, in the worker's hand, in a ring or pending, once.
THEOREM EveryRecordCounted == Spec => []RecordsAccounted
<1>1. Init => StreamInvariant /\ StoreInvariant /\ AccountInvariant
  BY StreamInitially, StoreInitially, BalanceInitially DEF Init
<1>2. /\ StreamInvariant /\ StoreInvariant /\ AccountInvariant /\ [Next]_vars
      => (StreamInvariant /\ StoreInvariant /\ AccountInvariant)'
  BY StreamInductive, StoreSteps, StoreInductive, BalanceInductive
     DEF StoreInvariant, SegmentInvariant
<1>3. StreamInvariant /\ StoreInvariant /\ AccountInvariant => RecordsAccounted
  <2> SUFFICES ASSUME StreamInvariant, StoreInvariant, AccountInvariant PROVE RecordsAccounted OBVIOUS
  <2>1. RowsTyped BY DEF StoreInvariant, SegmentInvariant
  <2>2. Over(generated) = sent["samples"] + sent["modules"] + lost + Held + Over(Lefts)
    BY DEF AccountInvariant, Balance, Lefts
  <2>3. Lefts = [r \in RingIds |-> Unread(r) + pending[r]] BY DEF Lefts, Left
  <2>4. InHand \in Nat /\ LostInHand \in Nat
    BY DEF InHand, LostInHand, StreamInvariant, SamplingType, Records
  <2>5. Held = InHand + LostInHand BY HeldIs
  <2>6. Over(generated) = sent["samples"] + sent["modules"] + lost + InHand + LostInHand + Over(Lefts)
    BY <2>1, <2>2, <2>4, <2>5, BalanceTyped
  <2> QED BY <2>3, <2>6 DEF RecordsAccounted
<1> QED BY <1>1, <1>2, <1>3, PTL DEF Spec
============================================================================
