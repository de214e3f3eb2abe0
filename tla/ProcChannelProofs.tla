------------------------- MODULE ProcChannelProofs -------------------------
(***************************************************************************)
(* For a ring of any size, counters that wrap at any multiple of it, and   *)
(* messages of any length: the receiver is handed the words the sender     *)
(* published, meets the end of the stream only where it ends, and the ring *)
(* implements the bounded lossy queue.                                     *)
(***************************************************************************)
EXTENDS MCProcChannel, FiniteSetTheorems, SequenceTheorems, TLAPS

----------------------------------------------------------------------------
(* Positions modulo the ring and modulo the counters *)

\* Quotient and remainder determine each other.
LEMMA RemainderIs ==
  ASSUME NEW n \in Nat \ {0}, NEW a \in Int, NEW q \in Int, NEW r \in Int,
         0 <= r, r < n, a = n * q + r
  PROVE  a % n = r
<1> DEFINE p == a \div n
           s == a % n
<1>1. p \in Int /\ s \in Int /\ a = n * p + s /\ 0 <= s /\ s < n OBVIOUS
<1> HIDE DEF p, s
<1>2. p - q \in Int /\ n * (p - q) = r - s BY <1>1
<1>3. p - q = 0
  <2>1. CASE p - q >= 1
    <3>1. p - q - 1 \in Nat BY <1>2, <2>1
    <3>2. n * (p - q) = n * (p - q - 1) + n BY <1>1
    <3>3. n * (p - q - 1) >= 0 BY <3>1
    <3> QED BY <1>1, <1>2, <3>2, <3>3
  <2>2. CASE p - q <= -1
    <3>1. q - p - 1 \in Nat BY <1>1, <2>2
    <3>2. n * (p - q) = -(n * (q - p - 1)) - n BY <1>1
    <3>3. n * (q - p - 1) >= 0 BY <3>1
    <3> QED BY <1>1, <1>2, <3>2, <3>3
  <2> QED BY <1>2, <2>1, <2>2
<1>4. n * (p - q) = 0 BY <1>3
<1>5. s = r BY <1>1, <1>2, <1>4
<1> QED BY <1>5 DEF s

\* A shift by a multiple of n changes nothing modulo n.
LEMMA ShiftedRemainder ==
  ASSUME NEW n \in Nat \ {0}, NEW a \in Int, NEW k \in Int
  PROVE  (a + n * k) % n = a % n
<1> DEFINE q == a \div n
           r == a % n
<1>1. q \in Int /\ r \in Int /\ 0 <= r /\ r < n /\ a = n * q + r OBVIOUS
<1> HIDE DEF q, r
<1>2. a + n * k = n * (q + k) + r /\ q + k \in Int /\ a + n * k \in Int BY <1>1
<1>3. (a + n * k) % n = r BY <1>1, <1>2, RemainderIs
<1> QED BY <1>3 DEF r

LEMMA AddedRemainder ==
  ASSUME NEW n \in Nat \ {0}, NEW a \in Int, NEW b \in Int
  PROVE  ((a % n) + b) % n = (a + b) % n
<1> DEFINE q == a \div n
           r == a % n
<1>1. q \in Int /\ r \in Int /\ a = n * q + r OBVIOUS
<1> HIDE DEF q, r
<1>2. a + b = (r + b) + n * q /\ r + b \in Int BY <1>1
<1>3. ((r + b) + n * q) % n = (r + b) % n BY <1>1, <1>2, ShiftedRemainder
<1>4. (a + b) % n = (r + b) % n BY <1>2, <1>3
<1> QED BY <1>4 DEF r

LEMMA SlotsApart ==
  ASSUME NEW n \in Nat \ {0}, NEW a \in Nat, NEW b \in Nat, a <= b, b < a + n,
         a % n = b % n
  PROVE  a = b
<1>1. b - a \in Int /\ 0 <= b - a /\ b - a < n OBVIOUS
<1> DEFINE q == a \div n  p == b \div n  r == a % n
<1>2. q \in Int /\ p \in Int /\ r \in Int /\ a = n * q + r /\ b = n * p + r OBVIOUS
<1> HIDE DEF q, p, r
<1>3. b - a = n * (p - q) + 0 /\ p - q \in Int BY <1>2
<1>4. (b - a) % n = 0 BY <1>1, <1>3, RemainderIs
<1>5. b - a = n * 0 + (b - a) BY <1>1
<1>6. (b - a) % n = b - a BY <1>1, <1>5, RemainderIs
<1> QED BY <1>1, <1>4, <1>6

\* The counters lap the ring a whole number of times before they wrap.
LEMMA Laps == PosMod \in Nat \ {0} /\ PosMod > Size /\ PosMod = Size * Wraps
<1>1. Size \in Nat /\ Size > 0 /\ Wraps \in Nat /\ Wraps >= 2
  BY SizeAssumption, WrapsAssumption
<1>2. Wraps - 2 \in Nat BY <1>1
<1>3. Size * (Wraps - 2) >= 0 BY <1>1, <1>2
<1>4. Wraps * Size = Size * (Wraps - 2) + Size + Size BY <1>1
<1>5. Wraps * Size = Size * Wraps BY <1>1
<1>6. Wraps * Size \in Nat BY <1>1
<1>7. Wraps * Size > Size BY <1>1, <1>3, <1>4, <1>6
<1> QED BY <1>1, <1>5, <1>6, <1>7 DEF PosMod

\* A counter names the word at the position it stands for.
LEMMA CounterOffset ==
  ASSUME NEW p \in Nat
  PROVE  (p % PosMod) % Size = p % Size
<1> DEFINE q == p \div PosMod
           r == p % PosMod
<1>1. q \in Int /\ r \in Int /\ p = PosMod * q + r BY Laps
<1> HIDE DEF q, r
<1>2. Size \in Nat \ {0} /\ Wraps \in Int BY SizeAssumption, WrapsAssumption
<1>3. Wraps * q \in Int /\ PosMod * q = Size * (Wraps * q) BY <1>1, <1>2, Laps
<1> DEFINE k == Wraps * q
<1> HIDE DEF k
<1>4. k \in Int /\ p = r + Size * k
  <2>1. k \in Int /\ PosMod * q = Size * k BY <1>3 DEF k
  <2>2. p = Size * k + r BY <1>1, <2>1
  <2>3. Size * k \in Int BY <1>2, <2>1
  <2> QED BY <1>1, <2>1, <2>2, <2>3
<1>5. p % Size = r % Size BY <1>1, <1>2, <1>4, ShiftedRemainder
<1> QED BY <1>5 DEF r

LEMMA RecordOffsetIs ==
  ASSUME NEW p \in Nat, NEW i \in Nat
  PROVE  RecordOffset(p % PosMod, i) = (p + i) % Size
<1>1. Size \in Nat \ {0} BY SizeAssumption
<1>2. ASSUME NEW m \in Nat, NEW j \in Nat PROVE Offset(m % PosMod, j) = (m + j) % Size
  <2>1. (m % PosMod) % Size = m % Size BY CounterOffset
  <2>2. m \in Int /\ j \in Int OBVIOUS
  <2>3. ((m % Size) + j) % Size = (m + j) % Size BY <1>1, <2>2, AddedRemainder
  <2> QED BY <2>1, <2>3 DEF Offset
<1>3. CASE i = 0
  <2>1. RecordOffset(p % PosMod, i) = Offset(p % PosMod, 0) BY <1>3 DEF RecordOffset
  <2> QED BY <1>2, <1>3, <2>1
<1>4. CASE i # 0
  <2>1. RecordOffset(p % PosMod, i) = Offset(WrappingAdd(p % PosMod, 1), i - 1)
    BY <1>4 DEF RecordOffset
  <2>2. WrappingAdd(p % PosMod, 1) = (p + 1) % PosMod
    BY Laps, AddedRemainder DEF WrappingAdd
  <2>3. p + 1 \in Nat /\ i - 1 \in Nat /\ (p + 1) + (i - 1) = p + i BY <1>4
  <2>4. Offset((p + 1) % PosMod, i - 1) = ((p + 1) + (i - 1)) % Size BY <1>2, <2>3
  <2> QED BY <2>1, <2>2, <2>3, <2>4
<1> QED BY <1>3, <1>4

LEMMA WrappingAddIs ==
  ASSUME NEW p \in Nat, NEW i \in Nat
  PROVE  WrappingAdd(p % PosMod, i) = (p + i) % PosMod
BY Laps, AddedRemainder DEF WrappingAdd

\* The difference of two counters is that of the positions.
LEMMA WrappingSubIs ==
  ASSUME NEW p \in Nat, NEW q \in Nat, q <= p, p <= q + Size
  PROVE  WrappingSub(p % PosMod, q % PosMod) = p - q
<1> DEFINE n == PosMod
           a == p \div n
           b == q \div n
           u == p % n
           v == q % n
<1>1. n \in Nat \ {0} /\ n > Size /\ Size \in Nat BY Laps, SizeAssumption
<1>2. a \in Int /\ u \in Int /\ p = n * a + u BY <1>1
<1>3. b \in Int /\ v \in Int /\ q = n * b + v BY <1>1
<1>4. p - q \in Int /\ 0 <= p - q /\ p - q < n BY <1>1
<1>5. WrappingSub(p % PosMod, q % PosMod) = (u - v) % n BY DEF WrappingSub
<1> HIDE DEF n, a, b, u, v
<1>6. u - v = n * (b - a) + (p - q) /\ b - a \in Int /\ u - v \in Int BY <1>1, <1>2, <1>3
<1>7. (u - v) % n = p - q BY <1>1, <1>4, <1>6, RemainderIs
<1> QED BY <1>5, <1>7

----------------------------------------------------------------------------
(* The inductive invariant, over positions that do not wrap *)

Words == [id : Nat, part : Nat, len : Nat]

Published == Len(written)

Received == Len(taken)

ChannelType ==
  /\ ring \in [0 .. Size - 1 -> Words]
  /\ written \in Seq(Words) /\ taken \in Seq(Words) /\ got \in Seq(Words)
  /\ begins \in Seq(Nat) /\ Starts \subseteq Nat
  /\ msg \in [id : Nat, len : Nat] /\ put \in Nat

\* What the counters stand for; a ring is never overfull.
Positions ==
  /\ Received <= Published /\ Published <= Received + Size
  /\ head = Received % PosMod /\ tail = Published % PosMod

\* Every word published and not received is in its place.
RingHolds ==
  \A p \in Nat : Received <= p /\ p < Published => ring[p % Size] = written[p + 1]

\* The records published lie one behind the other, and the receiver stands before one
\* of them.
Boundaries ==
  /\ \A s \in Starts :
       /\ s < Published
       /\ s + RecordLen(written[s + 1].len) \in Starts \cup {Published}
       /\ s + RecordLen(written[s + 1].len) <= Published
       /\ \A u \in Starts : s < u => s + RecordLen(written[s + 1].len) <= u
  /\ Received \in Starts \cup {Published}

Handed == \A i \in 1 .. Received : taken[i] = written[i]

\* send_sync has room for the whole record and has copied its first words.
SenderCopies ==
  spc = "copy" =>
    /\ put <= RecordLen(msg.len)
    /\ Published + RecordLen(msg.len) <= Received + Size
    /\ \A i \in Nat : i < put => ring[(Published + i) % Size] = Word(msg.id, i, msg.len)

\* read_one has loaded a tail at the end of some record, and has copied the first words
\* of the record before it.
ReceiverCopies ==
  /\ rpc = "header" => \E v \in Starts \cup {Published} : Received < v /\ seen = v % PosMod
  /\ rpc = "copy" =>
       /\ Received < Published
       /\ got # <<>> /\ Len(got) <= RecordLen(got[1].len)
       /\ \A i \in 1 .. Len(got) : got[i] = written[Received + i]

ChannelInvariant ==
  /\ ChannelType /\ Positions /\ RingHolds /\ Boundaries /\ Handed
  /\ SenderCopies /\ ReceiverCopies
  /\ last # "invalid"

LEMMA Lengthwise ==
  ASSUME ChannelType
  PROVE  /\ Published \in Nat /\ Received \in Nat /\ Len(got) \in Nat
         /\ \A p \in Nat : p < Published => written[p + 1] \in Words
         /\ RecordLen(msg.len) \in Nat \ {0}
         /\ \A word \in Words : RecordLen(word.len) \in Nat \ {0} /\ word.len \in Nat
<1>1. Published \in Nat /\ Received \in Nat /\ Len(got) \in Nat
  BY DEF ChannelType, Published, Received
<1>2. ASSUME NEW p \in Nat, p < Published PROVE written[p + 1] \in Words
  <2>1. p + 1 \in 1 .. Len(written) BY <1>1, <1>2 DEF Published
  <2> QED BY <2>1 DEF ChannelType
<1>3. RecordLen(msg.len) \in Nat \ {0} BY DEF ChannelType, RecordLen
<1>4. \A word \in Words : RecordLen(word.len) \in Nat \ {0} /\ word.len \in Nat
  BY DEF Words, RecordLen
<1> QED BY <1>1, <1>2, <1>3, <1>4

LEMMA ChannelInitially == Init => ChannelInvariant
<1> SUFFICES ASSUME Init PROVE ChannelInvariant OBVIOUS
<1>1. Size \in Nat \ {0} BY SizeAssumption
<1>2. Published = 0 /\ Received = 0 BY DEF Init, Published, Received
<1>3. Word(0, 0, 0) \in Words BY DEF Word, Words
<1>4. ChannelType BY <1>1, <1>3 DEF Init, ChannelType, Starts
<1>5. 0 % PosMod = 0
  <2>1. PosMod \in Nat \ {0} BY Laps
  <2>2. 0 = PosMod * 0 + 0 BY <2>1
  <2> QED BY <2>1, <2>2, RemainderIs
<1>6. Positions BY <1>1, <1>2, <1>5 DEF Init, Positions
<1>7. RingHolds /\ Handed BY <1>2 DEF RingHolds, Handed
<1>8. Boundaries BY <1>2 DEF Init, Boundaries, Starts
<1> QED BY <1>4, <1>6, <1>7, <1>8 DEF Init, ChannelInvariant, SenderCopies, ReceiverCopies

\* The parts that a sender outside a copy, or a receiver outside of one, has no hand in.
Stream == <<ring, head, tail, written, begins, taken>>

LEMMA SenderElsewhere ==
  ASSUME ChannelInvariant, UNCHANGED <<Stream, receiver>>,
         msg' \in [id : Nat, len : Nat], put' \in Nat,
         SenderCopies'
  PROVE  ChannelInvariant'
<1>1. UNCHANGED <<ring, head, tail, written, begins, Starts, taken, got, rpc, seen, last>>
  BY DEF Stream, receiver, Starts
<1>2. UNCHANGED <<Published, Received>> BY <1>1 DEF Published, Received
<1>3. ChannelType' BY <1>1 DEF ChannelInvariant, ChannelType
<1>4. Positions' /\ RingHolds' /\ Boundaries' /\ Handed' /\ ReceiverCopies' /\ last' # "invalid"
  BY <1>1, <1>2
  DEF ChannelInvariant, Positions, RingHolds, Boundaries, Handed, ReceiverCopies
<1> QED BY <1>3, <1>4 DEF ChannelInvariant

LEMMA ReceiverElsewhere ==
  ASSUME ChannelInvariant, UNCHANGED <<Stream, sender>>,
         got' \in Seq(Words), ReceiverCopies', last' # "invalid"
  PROVE  ChannelInvariant'
<1>1. UNCHANGED <<ring, head, tail, written, begins, Starts, taken, spc, msg, put>>
  BY DEF Stream, sender, Starts
<1>2. UNCHANGED <<Published, Received>> BY <1>1 DEF Published, Received
<1>3. ChannelType' BY <1>1 DEF ChannelInvariant, ChannelType
<1>4. Positions' /\ RingHolds' /\ Boundaries' /\ Handed' /\ SenderCopies'
  BY <1>1, <1>2
  DEF ChannelInvariant, Positions, RingHolds, Boundaries, Handed, SenderCopies
<1> QED BY <1>3, <1>4 DEF ChannelInvariant

----------------------------------------------------------------------------
(* Sender *)

LEMMA SendRoomPreserves ==
  ASSUME ChannelInvariant, NEW len \in Lengths, SendRoom(len) PROVE ChannelInvariant'
<1>1. len \in Nat /\ RecordLen(len) \in Nat BY LengthsAssumption DEF RecordLen
<1>2. UNCHANGED <<Stream, receiver>> /\ msg' = [id |-> msg.id + 1, len |-> len] /\ put' = 0
  BY DEF SendRoom, Stream, shared, history
<1>3. msg' \in [id : Nat, len : Nat] /\ msg'.len = len /\ put' \in Nat
  BY <1>1, <1>2 DEF ChannelInvariant, ChannelType
<1>4. UNCHANGED <<Published, Received>> BY <1>2 DEF Published, Received, Stream
<1>5. Published \in Nat /\ Received \in Nat /\ Size \in Nat
  BY Lengthwise, SizeAssumption DEF ChannelInvariant
<1>6. WrappingSub(tail, head) = Published - Received
  BY <1>5, WrappingSubIs DEF ChannelInvariant, Positions
<1>7. ASSUME spc' = "copy" PROVE Published + RecordLen(len) <= Received + Size
  <2>1. ~NoRoom(len) BY <1>7 DEF SendRoom
  <2>2. ~(Published - Received > Size - RecordLen(len)) BY <1>6, <2>1 DEF NoRoom
  <2> QED BY <1>1, <1>5, <2>2
<1>8. SenderCopies'
  <2> SUFFICES ASSUME spc' = "copy"
               PROVE  /\ put' <= RecordLen(msg'.len)
                      /\ Published' + RecordLen(msg'.len) <= Received' + Size
                      /\ \A i \in Nat : i < put' =>
                           ring'[(Published' + i) % Size] = Word(msg'.id, i, msg'.len)
    BY DEF SenderCopies
  <2> QED BY <1>1, <1>2, <1>3, <1>4, <1>7
<1> QED BY <1>2, <1>3, <1>8, SenderElsewhere

LEMMA SendWordPreserves == ASSUME ChannelInvariant, SendWord PROVE ChannelInvariant'
<1>1. /\ put < RecordLen(msg.len) /\ spc = "copy" /\ spc' = "copy" /\ put' = put + 1
      /\ ring' = [ring EXCEPT ![RecordOffset(tail, put)] = Word(msg.id, put, msg.len)]
      /\ UNCHANGED <<head, tail, msg, got, rpc, seen, last, written, begins, Starts, taken>>
  BY DEF SendWord, At, receiver, history, Starts
<1>2. UNCHANGED <<Published, Received>> BY <1>1 DEF Published, Received
<1>3. /\ Published \in Nat /\ Received \in Nat /\ Size \in Nat \ {0} /\ put \in Nat
      /\ RecordLen(msg.len) \in Nat
  BY Lengthwise, SizeAssumption DEF ChannelInvariant, ChannelType
<1>4. Received <= Published /\ Published + RecordLen(msg.len) <= Received + Size
  BY <1>1 DEF ChannelInvariant, Positions, SenderCopies
<1> DEFINE target == Published + put
<1>5. RecordOffset(tail, put) = target % Size
  BY <1>3, RecordOffsetIs DEF ChannelInvariant, Positions
<1>6. target \in Nat /\ target % Size \in 0 .. Size - 1 BY <1>3
<1>7. ASSUME NEW p \in Nat, Received <= p, p < target PROVE ring'[p % Size] = ring[p % Size]
  <2>1. p % Size \in 0 .. Size - 1 BY <1>3
  <2>2. p <= target /\ target < p + Size BY <1>1, <1>3, <1>4, <1>7
  <2>3. p % Size # target % Size
    <3> SUFFICES ASSUME p % Size = target % Size PROVE FALSE OBVIOUS
    <3> HIDE DEF target
    <3>1. p = target BY <1>3, <1>6, <2>2, SlotsApart
    <3> QED BY <1>6, <1>7, <3>1
  <2> QED BY <1>1, <1>5, <1>6, <2>1, <2>3 DEF ChannelInvariant, ChannelType
<1>8. ring'[target % Size] = Word(msg.id, put, msg.len)
  BY <1>1, <1>5, <1>6 DEF ChannelInvariant, ChannelType
<1>9. Word(msg.id, put, msg.len) \in Words
  BY <1>3 DEF ChannelInvariant, ChannelType, Word, Words
<1>10. ChannelType'
  BY <1>1, <1>3, <1>5, <1>6, <1>9 DEF ChannelInvariant, ChannelType
<1>11. RingHolds'
  <2> SUFFICES ASSUME NEW p \in Nat, Received <= p, p < Published
               PROVE  ring'[p % Size] = written[p + 1]
    BY <1>1, <1>2 DEF RingHolds
  <2>1. p < target BY <1>3
  <2> QED BY <1>7, <2>1 DEF ChannelInvariant, RingHolds
<1>12. SenderCopies'
  <2>1. put + 1 <= RecordLen(msg.len) BY <1>1, <1>3
  <2>2. ASSUME NEW i \in Nat, i < put + 1
        PROVE  ring'[(Published + i) % Size] = Word(msg.id, i, msg.len)
    <3>1. CASE i = put BY <1>8, <3>1
    <3>2. CASE i < put
      <4>1. Published + i \in Nat /\ Received <= Published + i /\ Published + i < target
        BY <1>3, <1>4, <3>2
      <4>2. ring'[(Published + i) % Size] = ring[(Published + i) % Size] BY <1>7, <4>1
      <4> QED BY <1>1, <3>2, <4>2 DEF ChannelInvariant, SenderCopies
    <3> QED BY <1>3, <2>2, <3>1, <3>2
  <2> QED BY <1>1, <1>2, <1>4, <2>1, <2>2 DEF SenderCopies
<1>13. Positions' /\ Boundaries' /\ Handed' /\ ReceiverCopies' /\ last' # "invalid"
  BY <1>1, <1>2 DEF ChannelInvariant, Positions, Boundaries, Handed, ReceiverCopies
<1> QED BY <1>10, <1>11, <1>12, <1>13 DEF ChannelInvariant

\* The record send_sync publishes.
LEMMA RecordIs ==
  ASSUME NEW id \in Nat, NEW len \in Nat
  PROVE  /\ Record(id, len) \in Seq(Words) /\ Len(Record(id, len)) = RecordLen(len)
         /\ \A i \in 1 .. RecordLen(len) : Record(id, len)[i] = Word(id, i - 1, len)
<1>1. len + 1 \in Nat OBVIOUS
<1>2. \A i \in 1 .. len + 1 : Word(id, i - 1, len) \in Words BY DEF Word, Words
<1>3. Record(id, len) \in [1 .. len + 1 -> Words] BY <1>2 DEF Record
<1>4. Record(id, len) \in Seq(Words) /\ Len(Record(id, len)) = len + 1 BY <1>1, <1>3
<1>5. \A i \in 1 .. len + 1 : Record(id, len)[i] = Word(id, i - 1, len) BY DEF Record
<1> QED BY <1>4, <1>5 DEF RecordLen

LEMMA StartsGrow ==
  ASSUME begins \in Seq(Nat), begins' = Append(begins, Len(written))
  PROVE  Starts' = Starts \cup {Len(written)}
<1> DEFINE L == Len(begins)
<1>1. /\ L \in Nat /\ DOMAIN begins = 1 .. L /\ DOMAIN begins' = 1 .. L + 1
      /\ begins'[L + 1] = Len(written) /\ \A k \in 1 .. L : begins'[k] = begins[k]
  OBVIOUS
<1> HIDE DEF L
<1>2. 1 .. L + 1 = (1 .. L) \cup {L + 1} BY <1>1
<1> QED BY <1>1, <1>2 DEF Starts

LEMMA SendPublishPreserves == ASSUME ChannelInvariant, SendPublish PROVE ChannelInvariant'
<1> DEFINE n == RecordLen(msg.len)
           record == Record(msg.id, msg.len)
<1>1. /\ put = n /\ spc = "copy" /\ spc' = "post"
      /\ tail' = WrappingAdd(tail, n)
      /\ written' = written \o record /\ Starts' = Starts \cup {Published}
      /\ UNCHANGED <<ring, head, msg, put, got, rpc, seen, last, taken>>
  BY StartsGrow DEF SendPublish, At, receiver, Published, ChannelInvariant, ChannelType
<1>2. /\ Published \in Nat /\ Received \in Nat /\ Size \in Nat \ {0} /\ n \in Nat \ {0}
      /\ \A word \in Words : RecordLen(word.len) \in Nat \ {0}
  BY Lengthwise, SizeAssumption DEF ChannelInvariant
<1>3. /\ record \in Seq(Words) /\ Len(record) = n
      /\ \A i \in 1 .. n : record[i] = Word(msg.id, i - 1, msg.len)
  BY RecordIs DEF ChannelInvariant, ChannelType
<1>4. written \in Seq(Words) /\ Starts \subseteq Nat BY DEF ChannelInvariant, ChannelType
<1>5. Received <= Published /\ Published + n <= Received + Size
  BY <1>1 DEF ChannelInvariant, Positions, SenderCopies
<1>6. \A i \in Nat : i < n => ring[(Published + i) % Size] = Word(msg.id, i, msg.len)
  BY <1>1 DEF ChannelInvariant, SenderCopies
<1>7. \A word \in Words : RecordLen(word.len) = word.len + 1 BY DEF RecordLen
<1>8. n = msg.len + 1 BY DEF RecordLen
<1> HIDE DEF n, record
<1>9. /\ written' \in Seq(Words) /\ Published' = Published + n /\ Received' = Received
      /\ \A i \in 1 .. Published : written'[i] = written[i]
      /\ \A i \in 1 .. n : written'[Published + i] = record[i]
  <2>1. /\ written \o record \in Seq(Words) /\ Len(written \o record) = Len(written) + Len(record)
        /\ \A i \in 1 .. Len(written) : (written \o record)[i] = written[i]
        /\ \A i \in 1 .. Len(record) : (written \o record)[Len(written) + i] = record[i]
    <3>1. written \in Seq(Words) /\ record \in Seq(Words) BY <1>3, <1>4
    <3> QED BY <3>1
  <2> QED BY <1>1, <1>3, <2>1 DEF Published, Received
<1>10. ChannelType'
  <2>1. begins' = Append(begins, Published) BY DEF SendPublish, Published
  <2>2. begins' \in Seq(Nat) BY <1>2, <2>1 DEF ChannelInvariant, ChannelType
  <2> QED BY <1>1, <1>2, <1>9, <2>2 DEF ChannelInvariant, ChannelType
<1>11. Positions'
  <2>1. tail' = (Published + n) % PosMod
    BY <1>1, <1>2, WrappingAddIs DEF ChannelInvariant, Positions
  <2> QED BY <1>1, <1>2, <1>5, <1>9, <2>1 DEF ChannelInvariant, Positions
<1>12. \A p \in Nat : p < Published => written'[p + 1] = written[p + 1]
  BY <1>2, <1>9
<1>13. \A i \in Nat : i < n => written'[Published + i + 1] = Word(msg.id, i, msg.len)
  <2> SUFFICES ASSUME NEW i \in Nat, i < n
               PROVE  written'[Published + i + 1] = Word(msg.id, i, msg.len)
    OBVIOUS
  <2>1. i + 1 \in 1 .. n /\ Published + (i + 1) = Published + i + 1 /\ (i + 1) - 1 = i
    BY <1>2
  <2>2. written'[Published + (i + 1)] = record[i + 1] BY <1>9, <2>1
  <2>3. record[i + 1] = Word(msg.id, (i + 1) - 1, msg.len) BY <1>3, <2>1
  <2> QED BY <2>1, <2>2, <2>3
<1>14. RingHolds'
  <2> SUFFICES ASSUME NEW p \in Nat, Received <= p, p < Published + n
               PROVE  ring[p % Size] = written'[p + 1]
    BY <1>1, <1>9 DEF RingHolds
  <2>1. CASE p < Published BY <1>12, <2>1 DEF ChannelInvariant, RingHolds
  <2>2. CASE ~(p < Published)
    <3>1. PICK i \in Nat : p = Published + i
      <4>1. p - Published \in Nat /\ p = Published + (p - Published) BY <1>2, <2>2
      <4> QED BY <4>1
    <3>2. i < n BY <1>2, <3>1
    <3>3. ring[p % Size] = Word(msg.id, i, msg.len) BY <1>6, <3>1, <3>2
    <3>4. written'[p + 1] = Word(msg.id, i, msg.len) BY <1>13, <3>1, <3>2
    <3> QED BY <3>3, <3>4
  <2> QED BY <2>1, <2>2
<1>15. Boundaries'
  <2>1. \A s \in Starts : s \in Nat /\ s < Published /\ written'[s + 1] = written[s + 1]
    BY <1>4, <1>12 DEF ChannelInvariant, Boundaries
  <2>2. RecordLen(written'[Published + 1].len) = n
    <3>1. written'[Published + 0 + 1] = Word(msg.id, 0, msg.len) BY <1>2, <1>13
    <3>2. written'[Published + 1].len = msg.len BY <1>2, <3>1 DEF Word
    <3> QED BY <3>2 DEF n
  <2>3. ASSUME NEW s \in Starts
        PROVE  /\ s < Published + n
               /\ s + RecordLen(written'[s + 1].len) \in Starts \cup {Published}
               /\ s + RecordLen(written'[s + 1].len) <= Published
               /\ \A u \in Starts : s < u => s + RecordLen(written'[s + 1].len) <= u
    BY <1>2, <2>1 DEF ChannelInvariant, Boundaries
  <2>4. Received \in Starts \cup {Published} BY DEF ChannelInvariant, Boundaries
  <2>5. ASSUME NEW s \in Starts'
        PROVE  /\ s < Published'
               /\ s + RecordLen(written'[s + 1].len) \in Starts' \cup {Published'}
               /\ s + RecordLen(written'[s + 1].len) <= Published'
               /\ \A u \in Starts' : s < u => s + RecordLen(written'[s + 1].len) <= u
    <3>1. CASE s \in Starts
      <4>1. /\ s < Published + n
            /\ s + RecordLen(written'[s + 1].len) \in Starts \cup {Published}
            /\ s + RecordLen(written'[s + 1].len) <= Published
            /\ \A u \in Starts : s < u => s + RecordLen(written'[s + 1].len) <= u
        BY <2>3, <3>1
      <4>2. s + RecordLen(written'[s + 1].len) \in Nat BY <1>2, <1>4, <4>1
      <4>3. s + RecordLen(written'[s + 1].len) <= Published + n BY <1>2, <4>1, <4>2
      <4> QED BY <1>1, <1>9, <4>1, <4>3
    <3>2. CASE s = Published
      <4>1. s + RecordLen(written'[s + 1].len) = Published + n BY <2>2, <3>2
      <4>2. \A u \in Starts' : ~(s < u) BY <1>1, <1>2, <2>1, <3>2
      <4>3. s < Published + n BY <1>2, <3>2
      <4> QED BY <1>2, <1>9, <4>1, <4>2, <4>3
    <3> QED BY <1>1, <3>1, <3>2
  <2>6. Received' \in Starts' \cup {Published'} BY <1>1, <1>9, <2>4
  <2> QED BY <2>5, <2>6 DEF Boundaries
<1>16. Handed'
  <2>1. \A i \in 1 .. Received : i \in 1 .. Published /\ taken[i] = written[i]
    BY <1>2, <1>5 DEF ChannelInvariant, Handed
  <2> QED BY <1>1, <1>9, <2>1 DEF Handed
<1>17. ReceiverCopies'
  <2>1. ASSUME rpc = "header"
        PROVE  \E v \in Starts' \cup {Published'} : Received' < v /\ seen' = v % PosMod
    <3>1. PICK v \in Starts \cup {Published} : Received < v /\ seen = v % PosMod
      BY <2>1 DEF ChannelInvariant, ReceiverCopies
    <3> QED BY <1>1, <1>9, <3>1
  <2>2. ASSUME rpc = "copy"
        PROVE  /\ Received' < Published'
               /\ got' # <<>> /\ Len(got') <= RecordLen(got'[1].len)
               /\ \A i \in 1 .. Len(got') : got'[i] = written'[Received' + i]
    <3>1. /\ Received < Published /\ got # <<>> /\ Len(got) <= RecordLen(got[1].len)
          /\ \A i \in 1 .. Len(got) : got[i] = written[Received + i]
      BY <2>2 DEF ChannelInvariant, ReceiverCopies
    <3>2. Received + Len(got) <= Published
      <4>1. Received \in Starts BY <1>2, <3>1 DEF ChannelInvariant, Boundaries
      <4>2. Received + RecordLen(written[Received + 1].len) <= Published
        BY <4>1 DEF ChannelInvariant, Boundaries
      <4>3. Len(got) \in Nat \ {0} BY <3>1 DEF ChannelInvariant, ChannelType
      <4>4. got[1] = written[Received + 1] BY <3>1, <4>3
      <4>5. written[Received + 1] \in Words
        BY <1>2, <3>1, Lengthwise DEF ChannelInvariant
      <4>6. RecordLen(written[Received + 1].len) \in Nat BY <1>2, <4>5
      <4> QED BY <1>2, <3>1, <4>2, <4>3, <4>4, <4>6
    <3>3. Len(got) \in Nat BY DEF ChannelInvariant, ChannelType
    <3>4. \A i \in 1 .. Len(got) : Received + i \in 1 .. Published BY <1>2, <3>2, <3>3
    <3>5. \A i \in 1 .. Len(got) : got[i] = written'[Received + i] BY <1>9, <3>1, <3>4
    <3>6. Received < Published + n BY <1>2, <3>1
    <3>7. got' = got BY <1>1
    <3> QED BY <1>9, <3>1, <3>5, <3>6, <3>7
  <2> QED BY <1>1, <2>1, <2>2 DEF ReceiverCopies
<1>18. SenderCopies' /\ last' # "invalid" BY <1>1 DEF ChannelInvariant, SenderCopies
<1> QED BY <1>10, <1>11, <1>14, <1>15, <1>16, <1>17, <1>18 DEF ChannelInvariant

----------------------------------------------------------------------------
(* Receiver *)

\* Before the tail lie whole records: the one the receiver stands before ends at or
\* before any boundary behind it.
LEMMA NextRecord ==
  ASSUME ChannelInvariant, NEW v \in Starts \cup {Published}, Received < v
  PROVE  /\ Received \in Starts /\ Received \in Nat /\ v \in Nat /\ v <= Published
         /\ ring[Received % Size] = written[Received + 1] /\ written[Received + 1] \in Words
         /\ Received + RecordLen(written[Received + 1].len) <= v
<1>1. Published \in Nat /\ Received \in Nat BY Lengthwise DEF ChannelInvariant
<1>2. Starts \subseteq Nat BY DEF ChannelInvariant, ChannelType
<1>3. v \in Nat /\ v <= Published BY <1>1, <1>2 DEF ChannelInvariant, Boundaries
<1>4. Received < Published BY <1>1, <1>3
<1>5. Received \in Starts BY <1>1, <1>4 DEF ChannelInvariant, Boundaries
<1>6. Received + RecordLen(written[Received + 1].len) <= v
  BY <1>5 DEF ChannelInvariant, Boundaries
<1>7. ring[Received % Size] = written[Received + 1]
  BY <1>1, <1>4 DEF ChannelInvariant, RingHolds
<1>8. written[Received + 1] \in Words BY <1>1, <1>4, Lengthwise DEF ChannelInvariant
<1> QED BY <1>1, <1>3, <1>5, <1>6, <1>7, <1>8

LEMMA ReadTailPreserves == ASSUME ChannelInvariant, ReadTail PROVE ChannelInvariant'
<1>1. UNCHANGED <<Stream, sender>> /\ got' = got /\ seen' = tail
  BY DEF ReadTail, shared, history, Stream
<1>2. last' # "invalid" BY DEF ReadTail, ChannelInvariant
<1>3. UNCHANGED <<Published, Received, Starts>> BY <1>1 DEF Stream, Starts, Published, Received
<1>4. ReceiverCopies'
  <2>1. CASE rpc' = "idle" BY <2>1 DEF ReceiverCopies
  <2>2. CASE rpc' = "header" /\ head # tail
    <3>1. Received # Published /\ tail = Published % PosMod
      BY <2>2 DEF ChannelInvariant, Positions
    <3>2. Received < Published
      BY <3>1, Lengthwise DEF ChannelInvariant, Positions
    <3> QED BY <1>1, <1>3, <2>2, <3>1, <3>2 DEF ReceiverCopies
  <2> QED BY <2>1, <2>2 DEF ReadTail
<1>5. got' \in Seq(Words) BY <1>1 DEF ChannelInvariant, ChannelType
<1> QED BY <1>1, <1>2, <1>4, <1>5, ReceiverElsewhere

LEMMA ReadHeaderPreserves == ASSUME ChannelInvariant, ReadHeader PROVE ChannelInvariant'
<1>1. UNCHANGED <<Stream, sender>> /\ rpc = "header"
  BY DEF ReadHeader, shared, history, Stream
<1>2. PICK v \in Starts \cup {Published} : Received < v /\ seen = v % PosMod
  BY <1>1 DEF ChannelInvariant, ReceiverCopies
<1> DEFINE word == ring[RecordOffset(head, 0)]
<1>3. /\ Received \in Nat /\ v \in Nat /\ v <= Published
      /\ ring[Received % Size] = written[Received + 1] /\ written[Received + 1] \in Words
      /\ Received + RecordLen(written[Received + 1].len) <= v
  BY <1>2, NextRecord
<1>4. Size \in Nat /\ Published \in Nat /\ Published <= Received + Size
  BY SizeAssumption, Lengthwise DEF ChannelInvariant, Positions
<1>5. RecordOffset(head, 0) = Received % Size
  <2>1. RecordOffset(Received % PosMod, 0) = (Received + 0) % Size BY <1>3, RecordOffsetIs
  <2> QED BY <1>3, <2>1 DEF ChannelInvariant, Positions
<1>6. word = written[Received + 1] /\ RecordLen(word.len) \in Nat \ {0}
  BY <1>3, <1>5, Lengthwise DEF ChannelInvariant
<1>7. WrappingSub(seen, head) = v - Received
  <2>1. Received <= v /\ v <= Received + Size BY <1>2, <1>3, <1>4
  <2>2. WrappingSub(v % PosMod, Received % PosMod) = v - Received
    BY <1>3, <2>1, WrappingSubIs
  <2> QED BY <1>2, <2>2 DEF ChannelInvariant, Positions
<1>8. ~Overruns(word.len)
  <2>1. RecordLen(word.len) <= v - Received BY <1>3, <1>6
  <2>2. RecordLen(word.len) <= Size BY <1>3, <1>4, <1>6
  <2>3. ~(RecordLen(word.len) > v - Received) /\ ~(RecordLen(word.len) > Size)
    BY <1>3, <1>4, <1>6, <2>1, <2>2
  <2> QED BY <1>7, <2>3 DEF Overruns
<1>9. rpc' = "copy" /\ got' = <<word>> /\ UNCHANGED <<mode, seen, last>>
  BY <1>8 DEF ReadHeader
<1> HIDE DEF word
<1>10. got' \in Seq(Words) /\ Len(got') = 1 /\ got'[1] = word /\ got' # <<>>
  BY <1>3, <1>6, <1>9
<1>11. UNCHANGED <<Published, Received, written>> BY <1>1 DEF Stream, Published, Received
<1>12. ReceiverCopies'
  <2>1. Received < Published BY <1>2, <1>3, <1>4
  <2>2. Len(got') <= RecordLen(got'[1].len) BY <1>6, <1>10
  <2>3. \A i \in 1 .. Len(got') : i = 1 BY <1>10
  <2>4. \A i \in 1 .. Len(got') : got'[i] = written'[Received' + i]
    BY <1>6, <1>10, <1>11, <2>3
  <2> QED BY <1>9, <1>10, <1>11, <2>1, <2>2, <2>4 DEF ReceiverCopies
<1>13. last' # "invalid" BY <1>9 DEF ChannelInvariant
<1> QED BY <1>1, <1>10, <1>12, <1>13, ReceiverElsewhere

\* What read_one has copied is part of one published record.
LEMMA Copying ==
  ASSUME ChannelInvariant, rpc = "copy"
  PROVE  /\ Received \in Starts /\ Received \in Nat /\ Len(got) \in Nat \ {0}
         /\ got[1] = written[Received + 1]
         /\ RecordLen(got[1].len) \in Nat \ {0}
         /\ Received + RecordLen(got[1].len) <= Published
         /\ Len(got) <= RecordLen(got[1].len)
<1>1. /\ Received < Published /\ got # <<>> /\ Len(got) <= RecordLen(got[1].len)
      /\ \A i \in 1 .. Len(got) : got[i] = written[Received + i]
  BY DEF ChannelInvariant, ReceiverCopies
<1>2. Len(got) \in Nat \ {0} BY <1>1 DEF ChannelInvariant, ChannelType
<1>3. got[1] = written[Received + 1] BY <1>1, <1>2
<1>4. /\ Received \in Starts /\ Received \in Nat /\ written[Received + 1] \in Words
      /\ Received + RecordLen(written[Received + 1].len) <= Published
  BY <1>1, NextRecord
<1>5. RecordLen(written[Received + 1].len) \in Nat \ {0}
  BY <1>4, Lengthwise DEF ChannelInvariant
<1> QED BY <1>1, <1>2, <1>3, <1>4, <1>5

LEMMA ReadWordPreserves == ASSUME ChannelInvariant, ReadWord PROVE ChannelInvariant'
<1>1. /\ rpc = "copy" /\ rpc' = "copy" /\ Len(got) < RecordLen(got[1].len)
      /\ got' = Append(got, ring[RecordOffset(head, Len(got))])
      /\ UNCHANGED <<Stream, sender, seen, last>>
  BY DEF ReadWord, shared, history, Stream
<1>2. /\ Received \in Nat /\ Len(got) \in Nat \ {0} /\ RecordLen(got[1].len) \in Nat \ {0}
      /\ Received + RecordLen(got[1].len) <= Published
  BY <1>1, Copying
<1>3. Published \in Nat /\ Size \in Nat \ {0} BY SizeAssumption, Lengthwise DEF ChannelInvariant
<1> DEFINE n == Len(got)
           word == ring[RecordOffset(head, n)]
<1>4. Received + n \in Nat /\ Received <= Received + n /\ Received + n < Published
  BY <1>1, <1>2, <1>3
<1>5. word = written[Received + n + 1] /\ word \in Words
  <2>1. RecordOffset(head, n) = (Received + n) % Size
    BY <1>2, RecordOffsetIs DEF ChannelInvariant, Positions
  <2>2. ring[(Received + n) % Size] = written[Received + n + 1]
    BY <1>4 DEF ChannelInvariant, RingHolds
  <2>3. written[Received + n + 1] \in Words BY <1>4, Lengthwise DEF ChannelInvariant
  <2> QED BY <2>1, <2>2, <2>3
<1> HIDE DEF word
<1>6. /\ got' \in Seq(Words) /\ Len(got') = n + 1 /\ got'[n + 1] = word
      /\ \A i \in 1 .. n : got'[i] = got[i]
  <2>1. got \in Seq(Words) /\ got' = Append(got, word)
    BY <1>1 DEF ChannelInvariant, ChannelType, word
  <2> QED BY <1>5, <2>1
<1>7. UNCHANGED <<Published, Received, written>> BY <1>1 DEF Stream, Published, Received
<1>8. ReceiverCopies'
  <2>1. got'[1] = got[1] /\ got' # <<>> BY <1>2, <1>6
  <2>2. Received < Published BY <1>2, <1>3, <1>4
  <2>3. Len(got') <= RecordLen(got'[1].len) BY <1>1, <1>2, <1>6, <2>1
  <2>4. ASSUME NEW i \in 1 .. n + 1 PROVE got'[i] = written[Received + i]
    <3>1. CASE i = n + 1
      <4>1. Received + i = Received + n + 1 BY <1>2, <3>1
      <4> QED BY <1>5, <1>6, <3>1, <4>1
    <3>2. CASE i \in 1 .. n
      BY <1>1, <1>6, <3>2 DEF ChannelInvariant, ReceiverCopies
    <3> QED BY <1>2, <3>1, <3>2
  <2> QED BY <1>1, <1>6, <1>7, <2>1, <2>2, <2>3, <2>4 DEF ReceiverCopies
<1> QED BY <1>1, <1>6, <1>8, ReceiverElsewhere DEF ChannelInvariant

LEMMA ReadCommitPreserves == ASSUME ChannelInvariant, ReadCommit PROVE ChannelInvariant'
<1> DEFINE n == Len(got)
<1>1. /\ rpc = "copy" /\ rpc' = "idle" /\ n = RecordLen(got[1].len)
      /\ head' = WrappingAdd(head, n) /\ taken' = taken \o got /\ got' = <<>> /\ last' = "some"
      /\ UNCHANGED <<ring, tail, spc, msg, put, written, begins, Starts>>
  BY DEF ReadCommit, Return, sender, Starts
<1>2. /\ Received \in Starts /\ Received \in Nat /\ n \in Nat \ {0}
      /\ got[1] = written[Received + 1] /\ Received + n <= Published
  BY <1>1, Copying
<1>3. Published \in Nat /\ Size \in Nat \ {0} BY SizeAssumption, Lengthwise DEF ChannelInvariant
<1>4. taken \in Seq(Words) /\ got \in Seq(Words) BY DEF ChannelInvariant, ChannelType
<1>5. /\ taken' \in Seq(Words) /\ Received' = Received + n /\ Published' = Published
      /\ \A i \in 1 .. Received : taken'[i] = taken[i]
      /\ \A i \in 1 .. n : taken'[Received + i] = got[i]
  <2>1. /\ taken \o got \in Seq(Words) /\ Len(taken \o got) = Len(taken) + Len(got)
        /\ \A i \in 1 .. Len(taken) : (taken \o got)[i] = taken[i]
        /\ \A i \in 1 .. Len(got) : (taken \o got)[Len(taken) + i] = got[i]
    BY <1>4
  <2> QED BY <1>1, <2>1 DEF Received, Published
<1>6. ChannelType' BY <1>1, <1>5 DEF ChannelInvariant, ChannelType
<1>7. Positions'
  <2>1. head' = (Received + n) % PosMod
    BY <1>1, <1>2, WrappingAddIs DEF ChannelInvariant, Positions
  <2>2. Published <= Received + n + Size
    BY <1>2, <1>3 DEF ChannelInvariant, Positions
  <2> QED BY <1>1, <1>2, <1>5, <2>1, <2>2 DEF ChannelInvariant, Positions
<1>8. RingHolds'
  <2> SUFFICES ASSUME NEW p \in Nat, Received + n <= p, p < Published
               PROVE  ring[p % Size] = written[p + 1]
    BY <1>1, <1>5 DEF RingHolds
  <2>1. Received <= p BY <1>2
  <2> QED BY <2>1 DEF ChannelInvariant, RingHolds
<1>9. Boundaries'
  <2>1. Received + n \in Starts \cup {Published}
    BY <1>1, <1>2 DEF ChannelInvariant, Boundaries
  <2> QED BY <1>1, <1>5, <2>1 DEF ChannelInvariant, Boundaries
<1>10. Handed'
  <2> SUFFICES ASSUME NEW i \in 1 .. Received + n PROVE taken'[i] = written[i]
    BY <1>1, <1>5 DEF Handed
  <2>1. CASE i \in 1 .. Received BY <1>5, <2>1 DEF ChannelInvariant, Handed
  <2>2. CASE i \notin 1 .. Received
    <3>1. PICK j \in 1 .. n : i = Received + j
      <4>1. i - Received \in 1 .. n /\ i = Received + (i - Received) BY <1>2, <2>2
      <4> QED BY <4>1
    <3>2. got[j] = written[Received + j] BY <1>1 DEF ChannelInvariant, ReceiverCopies
    <3> QED BY <1>5, <3>1, <3>2
  <2> QED BY <2>1, <2>2
<1>11. SenderCopies'
  <2> SUFFICES ASSUME spc = "copy"
               PROVE  Published + RecordLen(msg.len) <= (Received + n) + Size
    BY <1>1, <1>5 DEF ChannelInvariant, SenderCopies
  <2>1. Published + RecordLen(msg.len) <= Received + Size
    BY DEF ChannelInvariant, SenderCopies
  <2>2. RecordLen(msg.len) \in Nat BY Lengthwise DEF ChannelInvariant
  <2> QED BY <1>2, <1>3, <2>1, <2>2
<1>12. ReceiverCopies' /\ last' # "invalid" BY <1>1 DEF ReceiverCopies
<1> QED BY <1>6, <1>7, <1>8, <1>9, <1>10, <1>11, <1>12 DEF ChannelInvariant

----------------------------------------------------------------------------
\* The steps that touch neither the ring, nor the positions, nor a record being copied.
LEMMA SenderApart ==
  ASSUME ChannelInvariant, SendDrop \/ SendPost \/ CloseFinish \/ CloseWake \/ Crash
  PROVE  ChannelInvariant'
<1>1. UNCHANGED <<Stream, receiver, msg, put>> /\ (spc' # "copy" \/ spc' = spc)
  BY DEF SendDrop, SendPost, CloseFinish, CloseWake, Crash, Stream, shared, history
<1>2. msg' \in [id : Nat, len : Nat] /\ put' \in Nat
  BY <1>1 DEF ChannelInvariant, ChannelType
<1>3. SenderCopies'
  BY <1>1 DEF ChannelInvariant, SenderCopies, Stream, Published, Received
<1> QED BY <1>1, <1>2, <1>3, SenderElsewhere

LEMMA ReceiverApart ==
  ASSUME ChannelInvariant,
         CallEmpty \/ WaitInterrupted \/ Call \/ TryWait \/ Wait \/ AsyncTake \/ AsyncAgain
           \/ AsyncFinish
  PROVE  ChannelInvariant'
<1>1. /\ UNCHANGED <<Stream, sender>>
      /\ rpc' \in {"idle", "try", "async", "wait", "read", "again"}
      /\ got' = got \/ got' = <<>>
      /\ last' = last \/ last' = "empty" \/ last' = "error"
  BY DEF CallEmpty, WaitInterrupted, Call, TryWait, Wait, AsyncTake, AsyncAgain, AsyncFinish,
         Goto, Return, Stream, shared, history
<1>2. got' \in Seq(Words)
  <2>1. CASE got' = got BY <2>1 DEF ChannelInvariant, ChannelType
  <2>2. CASE got' = <<>> BY <2>2
  <2> QED BY <1>1, <2>1, <2>2
<1>3. ReceiverCopies' /\ last' # "invalid" BY <1>1 DEF ChannelInvariant, ReceiverCopies
<1> QED BY <1>1, <1>2, <1>3, ReceiverElsewhere

LEMMA ChannelInductive == ChannelInvariant /\ [Next]_vars => ChannelInvariant'
<1> SUFFICES ASSUME ChannelInvariant, [Next]_vars PROVE ChannelInvariant' OBVIOUS
<1>1. CASE UNCHANGED vars
  <2>1. UNCHANGED <<Stream, sender, receiver>>
    BY <1>1 DEF vars, Stream, shared, history
  <2>2. SenderCopies'
    BY <2>1 DEF ChannelInvariant, SenderCopies, Stream, Published, Received, sender
  <2>3. msg' \in [id : Nat, len : Nat] /\ put' \in Nat
    BY <2>1 DEF ChannelInvariant, ChannelType, sender
  <2> QED BY <2>1, <2>2, <2>3, SenderElsewhere
<1> QED BY <1>1, SendRoomPreserves, SendWordPreserves, SendPublishPreserves, SenderApart,
           ReceiverApart, ReadTailPreserves, ReadHeaderPreserves, ReadWordPreserves,
           ReadCommitPreserves DEF Next, SenderStep, ReceiverStep

\* send_sync against read_one, wherever the sender is killed and however often the
\* counters wrap: no word is torn, stale or repeated, the receiver always stands between
\* two records, and read_one never meets a length it rejects.
THEOREM StreamIsIntact == Spec => []StreamIntact
<1>1. ChannelInvariant => StreamIntact
  BY DEF ChannelInvariant, Positions, Boundaries, Handed, StreamIntact, Published, Received
<1> QED BY <1>1, ChannelInitially, ChannelInductive, PTL DEF Spec

----------------------------------------------------------------------------
(* The end of the stream *)

\* Records published and not received.
Unread == {s \in Starts : s >= Received}

Blocking == mode \in {"recv_sync", "recv"}

\* A blocking receiver that goes on to read_one holds a token it took.
Holding == IF rpc \in {"read", "header", "copy"} THEN 1 ELSE 0

Posting == IF spc = "post" THEN 1 ELSE 0

EndType ==
  /\ IsFiniteSet(Starts) /\ sem \in Nat /\ fin \in Nat
  /\ mode \in {"try_recv", "poll", "recv_sync", "recv"}

\* The sender has closed, and sends nothing any more.
Closed == fin > 0 <=> spc \in {"closing", "closed", "dropping", "gone"}

\* An operation called because the ring was not empty still finds it so.
NotEmptied == ~Blocking /\ rpc # "idle" => Received < Published

\* Every token, posted, held or about to be posted, is for a record not yet received.
TokensMatch == Blocking /\ fin = 0 => sem + Holding + Posting <= Cardinality(Unread)

EndInvariant ==
  /\ EndType /\ Closed /\ NotEmptied /\ TokensMatch
  /\ rpc = "try" => ~Blocking
  /\ EndOfStream

LEMMA EndInitially == Init => EndInvariant
<1> SUFFICES ASSUME Init PROVE EndInvariant OBVIOUS
<1>1. Unread = {} /\ Cardinality({}) = 0 BY FS_EmptySet DEF Init, Unread, Starts
<1>2. EndType
  <2>1. Starts = {} BY DEF Init, Starts
  <2> QED BY <2>1, ModesAssumption, FS_EmptySet DEF Init, EndType
<1>3. Closed /\ NotEmptied /\ EndOfStream BY DEF Init, Closed, NotEmptied, EndOfStream
<1>4. TokensMatch BY <1>1 DEF Init, TokensMatch, Holding, Posting
<1> QED BY <1>2, <1>3, <1>4 DEF Init, EndInvariant

LEMMA UnreadFinite ==
  ASSUME EndType PROVE IsFiniteSet(Unread) /\ Cardinality(Unread) \in Nat
<1>1. Unread \subseteq Starts /\ IsFiniteSet(Starts) BY DEF Unread, EndType
<1>2. IsFiniteSet(Unread) BY <1>1, FS_Subset
<1> QED BY <1>2, FS_CardinalityType

\* The receiver sees equal counters exactly when it has received everything.
LEMMA EmptyIs == ASSUME ChannelInvariant PROVE head = tail <=> Received = Published
<1>1. /\ Received \in Nat /\ Published \in Nat /\ Size \in Nat /\ PosMod \in Nat \ {0}
      /\ Size < PosMod
  BY Lengthwise, SizeAssumption, Laps DEF ChannelInvariant
<1>2. /\ Received <= Published /\ Published <= Received + Size
      /\ head = Received % PosMod /\ tail = Published % PosMod
  BY DEF ChannelInvariant, Positions
<1>3. Published < Received + PosMod BY <1>1, <1>2
<1>4. ASSUME head = tail PROVE Received = Published
  BY <1>1, <1>2, <1>3, <1>4, SlotsApart
<1> QED BY <1>2, <1>4

LEMMA SenderKeepsEnd ==
  ASSUME ChannelInvariant, EndInvariant,
         \/ \E len \in Lengths : SendRoom(len)
         \/ SendDrop \/ SendWord \/ SendPost \/ Crash \/ CloseFinish \/ CloseWake
  PROVE  EndInvariant'
<1>1. UNCHANGED <<written, Starts, taken, mode, rpc, last>>
  BY DEF SendRoom, SendDrop, SendWord, SendPost, Crash, CloseFinish, CloseWake, history, receiver, Starts
<1>2. UNCHANGED <<Published, Received, Unread, Blocking, Holding>>
  BY <1>1 DEF Published, Received, Unread, Blocking, Holding
<1>3. Cardinality(Unread) \in Nat BY UnreadFinite DEF EndInvariant
<1>4. sem \in Nat /\ fin \in Nat /\ Holding \in {0, 1} BY DEF EndInvariant, EndType, Holding
<1>5. CASE \/ \E len \in Lengths : SendRoom(len)
           \/ SendDrop \/ SendWord \/ Crash
  <2>1. /\ UNCHANGED <<sem, fin>>
        /\ \/ spc' = spc
           \/ spc \in {"idle", "drop"} /\ spc' \in {"idle", "drop", "copy"}
    <3>1. CASE \E len \in Lengths : SendRoom(len) BY <3>1 DEF SendRoom, At, shared
    <3>2. CASE SendDrop \/ SendWord \/ Crash BY <3>2 DEF SendDrop, SendWord, Crash, At, shared
    <3> QED BY <1>5, <3>1, <3>2
  <2>2. Posting' = Posting BY <2>1 DEF Posting
  <2>3. TokensMatch' BY <1>2, <2>1, <2>2 DEF EndInvariant, TokensMatch
  <2>4. Closed' BY <2>1 DEF EndInvariant, Closed
  <2> QED BY <1>1, <1>2, <2>1, <2>3, <2>4
      DEF EndInvariant, EndType, NotEmptied, EndOfStream, Published, Received
<1>6. CASE SendPost
  <2>1. sem' = sem + 1 /\ fin' = fin /\ spc = "post" /\ spc' = "idle" BY <1>6 DEF SendPost, At
  <2>2. Posting = 1 /\ Posting' = 0 BY <2>1 DEF Posting
  <2>3. TokensMatch'
    <3> SUFFICES ASSUME Blocking, fin = 0 PROVE (sem + 1) + Holding + 0 <= Cardinality(Unread)
      BY <1>2, <2>1, <2>2 DEF TokensMatch
    <3>1. sem + Holding + 1 <= Cardinality(Unread) BY <2>2 DEF EndInvariant, TokensMatch
    <3> QED BY <1>3, <1>4, <3>1
  <2>4. Closed' BY <2>1 DEF EndInvariant, Closed
  <2>5. EndType' BY <1>1, <1>4, <2>1 DEF EndInvariant, EndType
  <2> QED BY <1>1, <1>2, <2>1, <2>3, <2>4, <2>5
      DEF EndInvariant, NotEmptied, EndOfStream, Published, Received
<1>7. CASE CloseFinish \/ CloseWake
  <2>1. /\ fin' \in Nat /\ fin' > 0 /\ sem' \in Nat
        /\ spc' \in {"closing", "closed", "dropping", "gone"}
    <3>1. CASE CloseFinish BY <1>4, <3>1 DEF CloseFinish
    <3>2. CASE CloseWake
      <4>1. spc \in {"closing", "dropping"} /\ fin' = fin /\ sem' = sem + 1
            /\ spc' \in {"closed", "gone"}
        BY <3>2 DEF CloseWake, At
      <4>2. fin > 0 BY <4>1 DEF EndInvariant, Closed
      <4> QED BY <1>4, <4>1, <4>2
    <3> QED BY <1>7, <3>1, <3>2
  <2>2. Closed' BY <2>1 DEF Closed
  <2>3. TokensMatch' BY <2>1 DEF TokensMatch
  <2>4. EndType' BY <1>1, <2>1 DEF EndInvariant, EndType
  <2> QED BY <1>1, <1>2, <2>1, <2>2, <2>3, <2>4
      DEF EndInvariant, NotEmptied, EndOfStream, Published, Received
<1> QED BY <1>5, <1>6, <1>7

LEMMA PublishKeepsEnd ==
  ASSUME ChannelInvariant, EndInvariant, ChannelInvariant', SendPublish PROVE EndInvariant'
<1>1. /\ spc = "copy" /\ spc' = "post" /\ Starts' = Starts \cup {Published}
      /\ written' = written \o Record(msg.id, msg.len)
      /\ UNCHANGED <<sem, fin, taken, mode, rpc, last>>
  BY StartsGrow DEF SendPublish, At, receiver, Published, ChannelInvariant, ChannelType
<1>2. UNCHANGED <<Received, Blocking, Holding>> BY <1>1 DEF Received, Blocking, Holding
<1>3. Published \in Nat /\ Received \in Nat /\ Received <= Published
  BY Lengthwise DEF ChannelInvariant, Positions
<1>4. Published' \in Nat /\ Published < Published'
  <2>1. Published' \in Nat BY DEF ChannelInvariant, ChannelType, Published
  <2>2. Published \in Starts' BY <1>1
  <2> QED BY <2>1, <2>2 DEF ChannelInvariant, Boundaries
<1>5. IsFiniteSet(Unread) /\ Cardinality(Unread) \in Nat BY UnreadFinite DEF EndInvariant
<1>6. Unread' = Unread \cup {Published} BY <1>1, <1>2, <1>3 DEF Unread
<1>7. Published \notin Unread
  <2>1. \A s \in Starts : s < Published BY DEF ChannelInvariant, Boundaries
  <2> QED BY <1>3, <2>1 DEF Unread
<1>8. Cardinality(Unread') = Cardinality(Unread) + 1 BY <1>5, <1>6, <1>7, FS_AddElement
<1>9. fin = 0 /\ fin' = fin /\ sem \in Nat /\ Holding \in {0, 1}
  BY <1>1 DEF EndInvariant, EndType, Closed, Holding
<1>10. Posting = 0 /\ Posting' = 1 BY <1>1 DEF Posting
<1>11. TokensMatch'
  <2> SUFFICES ASSUME Blocking PROVE sem + Holding + 1 <= Cardinality(Unread')
    BY <1>1, <1>2, <1>10 DEF TokensMatch
  <2>1. sem + Holding + 0 <= Cardinality(Unread)
    BY <1>9, <1>10 DEF EndInvariant, TokensMatch
  <2> QED BY <1>5, <1>8, <1>9, <2>1
<1>12. EndType'
  <2>1. IsFiniteSet(Starts \cup {Published}) BY FS_AddElement DEF EndInvariant, EndType
  <2> QED BY <1>1, <2>1 DEF EndInvariant, EndType
<1>13. Closed' BY <1>1, <1>9 DEF Closed
<1>14. last # "none" /\ last' # "none"
  BY <1>1, <1>9 DEF EndInvariant, EndOfStream
<1>15. NotEmptied' BY <1>1, <1>2, <1>3, <1>4 DEF EndInvariant, NotEmptied
<1> QED BY <1>1, <1>2, <1>11, <1>12, <1>13, <1>14, <1>15 DEF EndInvariant, EndOfStream

\* Steps of the receiver that neither take a token nor receive a record.
LEMMA ReceiverKeepsEnd ==
  ASSUME EndInvariant,
         UNCHANGED <<written, Starts, taken, spc, sem, fin, mode>>,
         Holding' <= Holding \/ fin > 0 \/ ~Blocking,
         ~Blocking /\ rpc' # "idle" => Received < Published,
         rpc' = "try" => ~Blocking,
         last' = "none" => last = "none"
  PROVE  EndInvariant'
<1>1. UNCHANGED <<Published, Received, Unread, Blocking, Posting>>
  BY DEF Published, Received, Unread, Blocking, Posting
<1>2. EndType' /\ Closed' /\ NotEmptied' BY <1>1 DEF EndInvariant, EndType, Closed, NotEmptied
<1>3. TokensMatch'
  <2> SUFFICES ASSUME Blocking, fin = 0
               PROVE  sem + Holding' + Posting <= Cardinality(Unread)
    BY <1>1 DEF TokensMatch
  <2>1. sem \in Nat /\ Posting \in {0, 1} /\ Holding \in {0, 1} /\ Holding' \in {0, 1}
    BY DEF EndInvariant, EndType, Posting, Holding
  <2>2. Cardinality(Unread) \in Nat BY UnreadFinite DEF EndInvariant
  <2>3. sem + Holding + Posting <= Cardinality(Unread) BY DEF EndInvariant, TokensMatch
  <2>4. Holding' <= Holding BY <2>1
  <2> QED BY <2>1, <2>2, <2>3, <2>4
<1>4. EndOfStream' BY <1>1 DEF EndInvariant, EndOfStream, Published, Received
<1> QED BY <1>1, <1>2, <1>3, <1>4 DEF EndInvariant

LEMMA CallKeepsEnd ==
  ASSUME ChannelInvariant, EndInvariant,
         CallEmpty \/ WaitInterrupted \/ Call \/ AsyncAgain \/ AsyncFinish
  PROVE  EndInvariant'
<1>1. UNCHANGED <<written, Starts, taken, spc, sem, fin, mode>>
  BY DEF CallEmpty, WaitInterrupted, Call, AsyncAgain, AsyncFinish, Goto, Return, shared,
         sender, history, Starts
<1>2. CASE CallEmpty \/ WaitInterrupted
  <2>1. rpc' = "idle" /\ (last' = "empty" \/ last' = "error")
    BY <1>2 DEF CallEmpty, WaitInterrupted, Return
  <2>2. Holding' <= Holding BY <2>1 DEF Holding
  <2> QED BY <1>1, <2>1, <2>2, ReceiverKeepsEnd
<1>3. CASE Call
  <2>1. /\ rpc = "idle" /\ last' = last /\ rpc' \in {"try", "async", "wait"}
        /\ rpc' = "try" => mode = "try_recv"
        /\ mode \in {"try_recv", "poll"} => head # tail
    BY <1>3 DEF Call, Goto, Empty
  <2>2. Holding' <= Holding BY <2>1 DEF Holding
  <2>3. ~Blocking => Received < Published
    <3>1. ~Blocking => Received # Published
      BY <2>1, EmptyIs DEF Blocking, EndInvariant, EndType
    <3> QED BY <3>1, Lengthwise DEF ChannelInvariant, Positions
  <2>4. rpc' = "try" => ~Blocking BY <2>1 DEF Blocking
  <2> QED BY <1>1, <2>1, <2>2, <2>3, <2>4, ReceiverKeepsEnd
<1>4. CASE AsyncAgain \/ AsyncFinish
  <2>1. /\ rpc \in {"async", "again"} /\ last' = last
        /\ rpc' \in {"again", "async"} \/ (rpc' = "read" /\ fin > 0)
    BY <1>4 DEF AsyncAgain, AsyncFinish, Goto
  <2>2. Holding' <= Holding \/ fin > 0 BY <2>1 DEF Holding
  <2>3. ~Blocking => Received < Published BY <2>1 DEF EndInvariant, NotEmptied
  <2> QED BY <1>1, <2>1, <2>2, <2>3, ReceiverKeepsEnd
<1> QED BY <1>2, <1>3, <1>4

\* A token changes hands.
LEMMA TakeKeepsEnd ==
  ASSUME EndInvariant, TryWait \/ Wait \/ AsyncTake PROVE EndInvariant'
<1>1. /\ UNCHANGED <<written, Starts, taken, spc, fin, mode, last>>
      /\ rpc \in {"try", "wait", "async"} /\ rpc' = "read"
      /\ (sem' = sem - 1 /\ sem > 0) \/ (rpc = "try" /\ sem' = sem)
  BY DEF TryWait, Wait, AsyncTake, Goto, sender, history, Starts
<1>2. UNCHANGED <<Published, Received, Unread, Blocking, Posting>>
  BY <1>1 DEF Published, Received, Unread, Blocking, Posting
<1>3. sem \in Nat /\ sem' \in Nat /\ Posting \in {0, 1}
  BY <1>1 DEF EndInvariant, EndType, Posting
<1>4. Holding = 0 /\ Holding' = 1 BY <1>1 DEF Holding
<1>5. TokensMatch'
  <2> SUFFICES ASSUME Blocking, fin = 0 PROVE sem' + 1 + Posting <= Cardinality(Unread)
    BY <1>1, <1>2, <1>4 DEF TokensMatch
  <2>1. sem + 0 + Posting <= Cardinality(Unread)
    BY <1>4 DEF EndInvariant, TokensMatch
  <2>2. sem' = sem - 1 BY <1>1 DEF EndInvariant
  <2> QED BY <1>3, <2>1, <2>2
<1>6. EndType' /\ Closed' BY <1>1, <1>3 DEF EndInvariant, EndType, Closed
<1>7. NotEmptied' /\ EndOfStream'
  BY <1>1, <1>2 DEF EndInvariant, NotEmptied, EndOfStream, Published, Received
<1> QED BY <1>1, <1>5, <1>6, <1>7 DEF EndInvariant

LEMMA ReadTailKeepsEnd == ASSUME ChannelInvariant, EndInvariant, ReadTail PROVE EndInvariant'
<1>1. UNCHANGED <<written, Starts, taken, spc, sem, fin, mode>> /\ rpc = "read"
  BY DEF ReadTail, shared, sender, history, Starts
<1>2. ~Blocking => Received < Published BY <1>1 DEF EndInvariant, NotEmptied
<1>3. Received \in Nat /\ Published \in Nat BY Lengthwise DEF ChannelInvariant
<1>4. Holding = 1 BY <1>1 DEF Holding
<1>5. CASE head # tail
  <2>1. rpc' = "header" /\ last' = last BY <1>5 DEF ReadTail
  <2>2. Holding' <= Holding BY <1>4, <2>1 DEF Holding
  <2> QED BY <1>1, <1>2, <2>1, <2>2, ReceiverKeepsEnd
<1>6. CASE head = tail
  <2>1. rpc' = "idle" /\ last' = "none" BY <1>6 DEF ReadTail
  <2>2. Received = Published BY <1>6, EmptyIs
  <2>3. Blocking BY <1>2, <1>3, <2>2
  <2>4. fin > 0
    <3> SUFFICES ASSUME fin = 0 PROVE FALSE BY DEF EndInvariant, EndType
    <3>1. Unread = {}
      <4>1. \A s \in Starts : s \in Nat /\ s < Published
        BY DEF ChannelInvariant, ChannelType, Boundaries
      <4> QED BY <1>3, <2>2, <4>1 DEF Unread
    <3>2. Cardinality(Unread) = 0 BY <3>1, FS_EmptySet
    <3>3. sem + 1 + Posting <= 0 BY <1>4, <2>3, <3>2 DEF EndInvariant, TokensMatch
    <3>4. sem \in Nat /\ Posting \in {0, 1} BY DEF EndInvariant, EndType, Posting
    <3> QED BY <3>3, <3>4
  <2>5. UNCHANGED <<Published, Received, Blocking>> BY <1>1 DEF Published, Received, Blocking
  <2>6. EndType' /\ Closed' BY <1>1 DEF EndInvariant, EndType, Closed
  <2>7. NotEmptied' BY <2>1 DEF NotEmptied
  <2>8. TokensMatch' BY <1>1, <2>4 DEF TokensMatch, EndInvariant, EndType
  <2>9. EndOfStream'
    BY <1>1, <2>2, <2>3, <2>4, <2>5 DEF EndOfStream, Published, Received, Blocking
  <2> QED BY <2>1, <2>6, <2>7, <2>8, <2>9 DEF EndInvariant
<1> QED BY <1>5, <1>6

LEMMA ReadKeepsEnd ==
  ASSUME ChannelInvariant, EndInvariant, ReadHeader \/ ReadWord PROVE EndInvariant'
<1>1. /\ UNCHANGED <<written, Starts, taken, spc, sem, fin, mode>>
      /\ rpc \in {"header", "copy"} /\ rpc' \in {"idle", "copy"}
      /\ last' = last \/ last' = "invalid"
  BY DEF ReadHeader, ReadWord, Return, shared, sender, history, Starts
<1>2. Holding' <= Holding BY <1>1 DEF Holding
<1>3. ~Blocking => Received < Published BY <1>1 DEF EndInvariant, NotEmptied
<1> QED BY <1>1, <1>2, <1>3, ReceiverKeepsEnd

LEMMA CommitKeepsEnd ==
  ASSUME ChannelInvariant, EndInvariant, ChannelInvariant', ReadCommit PROVE EndInvariant'
<1>1. /\ rpc = "copy" /\ rpc' = "idle" /\ last' = "some"
      /\ Len(got) = RecordLen(got[1].len) /\ taken' = taken \o got
      /\ UNCHANGED <<written, Starts, spc, sem, fin, mode>>
  BY DEF ReadCommit, Return, sender, Starts
<1>2. /\ Received \in Starts /\ Received \in Nat /\ Len(got) \in Nat \ {0}
      /\ got[1] = written[Received + 1]
  BY <1>1, Copying
<1>3. Received' = Received + Len(got)
  <2>1. taken \in Seq(Words) /\ got \in Seq(Words) BY DEF ChannelInvariant, ChannelType
  <2>2. Len(taken \o got) = Len(taken) + Len(got) BY <2>1
  <2> QED BY <1>1, <2>2 DEF Received
<1>4. \A s \in Starts : s \in Nat /\ (Received < s => Received + Len(got) <= s)
  BY <1>1, <1>2 DEF ChannelInvariant, ChannelType, Boundaries
<1>5. Unread' = Unread \ {Received} /\ Received \in Unread
  <2>1. \A s \in Starts : s >= Received' <=> s >= Received /\ s # Received
    BY <1>2, <1>3, <1>4
  <2>2. Received \in Unread BY <1>2 DEF Unread
  <2>3. Unread' = {s \in Starts : s >= Received'} BY <1>1 DEF Unread
  <2>4. \A s : s \in Unread' <=> s \in Unread /\ s # Received BY <2>1, <2>3 DEF Unread
  <2> QED BY <2>2, <2>4
<1>6. Cardinality(Unread') = Cardinality(Unread) - 1 /\ Cardinality(Unread) \in Nat
  BY <1>5, UnreadFinite, FS_RemoveElement DEF EndInvariant
<1>7. Holding = 1 /\ Holding' = 0 /\ Posting' = Posting /\ Blocking' = Blocking
  BY <1>1 DEF Holding, Posting, Blocking
<1>8. TokensMatch'
  <2> SUFFICES ASSUME Blocking, fin = 0 PROVE sem + 0 + Posting <= Cardinality(Unread')
    BY <1>1, <1>7 DEF TokensMatch
  <2>1. sem + 1 + Posting <= Cardinality(Unread) BY <1>7 DEF EndInvariant, TokensMatch
  <2>2. sem \in Nat /\ Posting \in {0, 1} BY DEF EndInvariant, EndType, Posting
  <2> QED BY <1>6, <2>1, <2>2
<1>9. EndType' /\ Closed' BY <1>1 DEF EndInvariant, EndType, Closed
<1>10. NotEmptied' /\ EndOfStream' BY <1>1 DEF NotEmptied, EndOfStream
<1> QED BY <1>1, <1>8, <1>9, <1>10 DEF EndInvariant

LEMMA EndInductive ==
  ChannelInvariant /\ ChannelInvariant' /\ EndInvariant /\ [Next]_vars => EndInvariant'
<1> SUFFICES ASSUME ChannelInvariant, ChannelInvariant', EndInvariant, [Next]_vars
             PROVE  EndInvariant'
  OBVIOUS
<1>1. CASE UNCHANGED vars
  <2>1. UNCHANGED <<written, Starts, taken, spc, sem, fin, mode, rpc, last>>
    BY <1>1 DEF vars, shared, sender, receiver, history, Starts
  <2>2. Holding' = Holding /\ Holding \in {0, 1} BY <2>1 DEF Holding
  <2>3. ~Blocking /\ rpc' # "idle" => Received < Published
    BY <2>1 DEF EndInvariant, NotEmptied
  <2>4. rpc' = "try" => ~Blocking BY <2>1 DEF EndInvariant
  <2> QED BY <2>1, <2>2, <2>3, <2>4, ReceiverKeepsEnd
<1> QED BY <1>1, SenderKeepsEnd, PublishKeepsEnd, CallKeepsEnd, TakeKeepsEnd, ReadTailKeepsEnd,
           ReadKeepsEnd, CommitKeepsEnd DEF Next, SenderStep, ReceiverStep

\* recv_sync, recv, try_recv and poll_command find the ring empty in read_one only when
\* the sender has closed and nothing is left: the tokens of the semaphore never run
\* ahead of the records.
THEOREM EndIsTheEnd == Spec => []EndOfStream
<1>1. ChannelInvariant /\ EndInvariant => EndOfStream BY DEF EndInvariant
<1> QED BY <1>1, ChannelInitially, ChannelInductive, EndInitially, EndInductive, PTL DEF Spec

----------------------------------------------------------------------------
(* The ring implements the bounded lossy queue *)

\* Where the record after the k-th begins.
After(k) == IF k = Len(begins) THEN Published ELSE begins[k + 1]

\* Record k lies between begins[k] and After(k), and as many were received as lie before
\* the receiver.
RecordsNumbered ==
  /\ received \in Seq(Words) /\ Len(received) <= Len(begins)
  /\ \A k \in 1 .. Len(begins) :
       begins[k] < Published /\ begins[k] + RecordLen(written[begins[k] + 1].len) = After(k)
  /\ Received = After(Len(received))

FifoInvariant ==
  /\ RecordsNumbered
  /\ dropped \in Nat
  /\ last = "none" => rpc = "idle"

LEMMA FifoInitially == Init => FifoInvariant
<1> SUFFICES ASSUME Init PROVE FifoInvariant OBVIOUS
<1>1. Len(begins) = 0 /\ Len(received) = 0 /\ received \in Seq(Words) /\ Published = 0 /\ Received = 0
  BY DEF Init, Published, Received
<1>2. RecordsNumbered BY <1>1 DEF RecordsNumbered, After
<1> QED BY <1>2 DEF Init, FifoInvariant

LEMMA Numbers ==
  ASSUME ChannelInvariant, RecordsNumbered
  PROVE  /\ begins \in Seq(Nat) /\ Len(begins) \in Nat /\ Len(received) \in Nat
         /\ Published \in Nat /\ Received \in Nat /\ Received <= Published
         /\ \A k \in 1 .. Len(begins) : begins[k] \in Nat
<1>1. begins \in Seq(Nat) /\ received \in Seq(Words) BY DEF ChannelInvariant, ChannelType, RecordsNumbered
<1>2. Published \in Nat /\ Received \in Nat BY Lengthwise DEF ChannelInvariant
<1>3. Received <= Published BY DEF ChannelInvariant, Positions
<1> QED BY <1>1, <1>2, <1>3

\* A published record gets the next number.
LEMMA PublishNumbers ==
  ASSUME ChannelInvariant, RecordsNumbered, SendPublish
  PROVE  /\ RecordsNumbered' /\ Len(begins') = Len(begins) + 1
         /\ \A k \in 1 .. Len(begins) :
              begins'[k] = begins[k] /\ written'[begins[k] + 1] = written[begins[k] + 1]
         /\ written'[begins'[Len(begins) + 1] + 1] = Word(msg.id, 0, msg.len)
         /\ Published' = Published + RecordLen(msg.len) /\ Received' = Received
<1>0. PICK N : N = Len(begins) OBVIOUS
<1> DEFINE n == RecordLen(msg.len)
           record == Record(msg.id, msg.len)
<1>1. /\ begins' = Append(begins, Published) /\ written' = written \o record
      /\ taken' = taken /\ received' = received
  BY DEF SendPublish, Published
<1>2. /\ begins \in Seq(Nat) /\ N \in Nat /\ Len(received) \in Nat /\ Published \in Nat /\ Received \in Nat
      /\ \A k \in 1 .. N : begins[k] \in Nat
  BY <1>0, Numbers
<1>3. /\ Len(begins') = N + 1 /\ begins'[N + 1] = Published
      /\ \A k \in 1 .. N : begins'[k] = begins[k]
  BY <1>0, <1>1, <1>2
<1>4. /\ record \in Seq(Words) /\ Len(record) = n /\ n \in Nat \ {0}
      /\ record[1] = Word(msg.id, 0, msg.len)
  <2>1. msg.id \in Nat /\ msg.len \in Nat BY DEF ChannelInvariant, ChannelType
  <2>2. n \in Nat \ {0} BY <2>1 DEF RecordLen
  <2>3. 1 \in 1 .. n /\ 1 - 1 = 0 BY <2>2
  <2>4. record[1] = Word(msg.id, 1 - 1, msg.len) BY <2>1, <2>3, RecordIs
  <2>5. record \in Seq(Words) /\ Len(record) = n BY <2>1, RecordIs
  <2> QED BY <2>2, <2>3, <2>4, <2>5
<1>5. /\ Published' = Published + n /\ Received' = Received
      /\ \A i \in 1 .. Published : written'[i] = written[i]
      /\ written'[Published + 1] = Word(msg.id, 0, msg.len)
  <2>1. written \in Seq(Words) BY DEF ChannelInvariant, ChannelType
  <2> HIDE DEF record, n
  <2>2. /\ Len(written \o record) = Len(written) + Len(record)
        /\ \A i \in 1 .. Len(written) : (written \o record)[i] = written[i]
        /\ (written \o record)[Len(written) + 1] = record[1]
    BY <1>4, <2>1
  <2> QED BY <1>1, <1>4, <2>2 DEF Published, Received
<1>6. \A k \in 1 .. N :
        begins[k] < Published /\ begins[k] + RecordLen(written[begins[k] + 1].len) = After(k)
  BY <1>0 DEF RecordsNumbered
<1>7. \A k \in 1 .. N : written'[begins[k] + 1] = written[begins[k] + 1]
  <2> SUFFICES ASSUME NEW k \in 1 .. N PROVE begins[k] + 1 \in 1 .. Published BY <1>5
  <2> QED BY <1>2, <1>6
<1>8. \A k \in 0 .. N : After(k)' = After(k)
  <2> SUFFICES ASSUME NEW k \in 0 .. N PROVE After(k)' = After(k) OBVIOUS
  <2>1. k # N + 1 BY <1>2
  <2>2. After(k)' = begins'[k + 1] BY <1>3, <2>1 DEF After
  <2>3. CASE k = N BY <1>0, <1>3, <2>2, <2>3 DEF After
  <2>4. CASE k # N
    <3>1. k + 1 \in 1 .. N BY <1>2, <2>4
    <3> QED BY <1>0, <1>3, <2>2, <2>4, <3>1 DEF After
  <2> QED BY <2>3, <2>4
<1>9. After(N + 1)' = Published + n BY <1>3, <1>5 DEF After
<1>10. Word(msg.id, 0, msg.len).len = msg.len BY DEF Word
<1> HIDE DEF n, record
<1>11. ASSUME NEW k \in 1 .. N + 1
       PROVE  begins'[k] < Published' /\ begins'[k] + RecordLen(written'[begins'[k] + 1].len) = After(k)'
  <2>1. CASE k \in 1 .. N
    <3>1. k \in 0 .. N BY <1>2, <2>1
    <3>2. begins'[k] = begins[k] /\ begins[k] \in Nat /\ begins[k] < Published BY <1>2, <1>3, <1>6, <2>1
    <3>3. begins'[k] < Published' BY <1>2, <1>4, <1>5, <3>2
    <3> QED BY <1>6, <1>7, <1>8, <2>1, <3>1, <3>2, <3>3
  <2>2. CASE k = N + 1
    <3>1. begins'[k] = Published /\ written'[begins'[k] + 1].len = msg.len BY <1>3, <1>5, <1>10, <2>2
    <3>2. Published < Published + n BY <1>2, <1>4
    <3> QED BY <1>5, <1>9, <2>2, <3>1, <3>2 DEF n
  <2> QED BY <1>2, <2>1, <2>2
<1>12. RecordsNumbered'
  <2>1. received \in Seq(Words) /\ Len(received) <= N /\ Received = After(Len(received))
    BY <1>0 DEF RecordsNumbered
  <2>2. Len(received) \in 0 .. N /\ Len(received) <= N + 1 BY <1>2, <2>1
  <2>3. After(Len(received))' = Received' BY <1>1, <1>5, <1>8, <2>1, <2>2
  <2> QED BY <1>1, <1>3, <1>11, <2>1, <2>2, <2>3 DEF RecordsNumbered
<1> QED BY <1>0, <1>3, <1>5, <1>7, <1>12 DEF n

\* The record that is handed over is the first that was not.
LEMMA CommitNumbers ==
  ASSUME ChannelInvariant, RecordsNumbered, ReadCommit
  PROVE  /\ RecordsNumbered' /\ Len(received) < Len(begins)
         /\ Len(received') = Len(received) + 1
         /\ got[1] = written[begins[Len(received) + 1] + 1]
         /\ Received' = Received + RecordLen(got[1].len)
<1>0. PICK N, R : N = Len(begins) /\ R = Len(received) OBVIOUS
<1>1. /\ rpc = "copy" /\ Len(got) = RecordLen(got[1].len) /\ taken' = taken \o got
      /\ received' = Append(received, got[1]) /\ UNCHANGED <<written, begins>>
  BY DEF ReadCommit
<1>2. /\ begins \in Seq(Nat) /\ N \in Nat /\ R \in Nat /\ Published \in Nat /\ Received \in Nat
      /\ \A k \in 1 .. N : begins[k] \in Nat
  BY <1>0, Numbers
<1>3. /\ got[1] = written[Received + 1] /\ Received < Published /\ Len(got) \in Nat \ {0}
  BY <1>1, Copying DEF ChannelInvariant, ReceiverCopies
<1>4. got \in Seq(Words) /\ taken \in Seq(Words) /\ received \in Seq(Words)
  BY DEF ChannelInvariant, ChannelType, RecordsNumbered
<1>5. R <= N /\ Received = After(R) BY <1>0 DEF RecordsNumbered
<1>6. R < N
  <2>1. R # N BY <1>0, <1>2, <1>3, <1>5 DEF After
  <2> QED BY <1>2, <1>5, <2>1
<1>7. Received = begins[R + 1] /\ R + 1 \in 1 .. N
  <2>1. R # N BY <1>2, <1>6
  <2> QED BY <1>0, <1>2, <1>5, <1>6, <2>1 DEF After
<1>8. Received' = Received + Len(got) /\ Published' = Published
  <2>1. Len(taken \o got) = Len(taken) + Len(got) BY <1>4
  <2> QED BY <1>1, <2>1 DEF Received, Published
<1>9. received' \in Seq(Words) /\ Len(received') = R + 1
  <2>1. got[1] \in Words BY <1>3, <1>4
  <2> QED BY <1>0, <1>1, <1>4, <2>1
<1>10. \A k : After(k)' = After(k) BY <1>1, <1>8 DEF After
<1>11. Received' = After(R + 1)
  <2>1. begins[R + 1] + RecordLen(written[begins[R + 1] + 1].len) = After(R + 1)
    BY <1>0, <1>7 DEF RecordsNumbered
  <2> QED BY <1>1, <1>3, <1>7, <1>8, <2>1
<1>12. RecordsNumbered'
  <2>1. \A k \in 1 .. N :
          begins[k] < Published /\ begins[k] + RecordLen(written[begins[k] + 1].len) = After(k)
    BY <1>0 DEF RecordsNumbered
  <2>2. R + 1 <= N BY <1>2, <1>6
  <2>3. \A k \in 1 .. Len(begins') :
          begins'[k] < Published' /\ begins'[k] + RecordLen(written'[begins'[k] + 1].len) = After(k)'
    BY <1>0, <1>1, <1>8, <1>10, <2>1
  <2>4. Received' = After(Len(received))' BY <1>9, <1>10, <1>11
  <2>5. Len(received') <= Len(begins') BY <1>0, <1>1, <1>9, <2>2
  <2> QED BY <1>9, <2>3, <2>4, <2>5 DEF RecordsNumbered
<1> QED BY <1>0, <1>1, <1>3, <1>6, <1>7, <1>8, <1>9, <1>12

LEMMA NumbersStay ==
  ASSUME RecordsNumbered, UNCHANGED <<written, begins, taken, received>> PROVE RecordsNumbered'
<1>1. Published' = Published /\ Received' = Received BY DEF Published, Received
<1>2. \A k : After(k)' = After(k) BY <1>1 DEF After
<1> QED BY <1>1, <1>2 DEF RecordsNumbered

LEMMA FifoInductive ==
  ChannelInvariant /\ EndInvariant /\ FifoInvariant /\ [Next]_vars => FifoInvariant'
<1> SUFFICES ASSUME ChannelInvariant, EndInvariant, FifoInvariant, [Next]_vars PROVE FifoInvariant'
  OBVIOUS
<1>1. RecordsNumbered /\ dropped \in Nat /\ (last = "none" => rpc = "idle" /\ Blocking)
  BY DEF FifoInvariant, EndInvariant, EndOfStream, Blocking
<1>2. CASE SendPublish
  <2>1. RecordsNumbered' BY <1>1, <1>2, PublishNumbers
  <2>2. UNCHANGED <<dropped, last, rpc>> BY <1>2 DEF SendPublish, receiver
  <2> QED BY <1>1, <2>1, <2>2 DEF FifoInvariant
<1>3. CASE ReadCommit
  <2>1. RecordsNumbered' BY <1>1, <1>3, CommitNumbers
  <2>2. UNCHANGED dropped /\ last' = "some" BY <1>3 DEF ReadCommit, Return
  <2> QED BY <1>1, <2>1, <2>2 DEF FifoInvariant
<1>4. CASE \/ \E len \in Lengths : SendRoom(len)
           \/ SendDrop \/ SendWord \/ SendPost \/ CloseFinish \/ CloseWake \/ Crash
           \/ UNCHANGED vars
  <2>1. UNCHANGED <<written, begins, taken, received, last, rpc>> /\ dropped' \in {dropped, dropped + 1}
    BY <1>4 DEF SendRoom, SendDrop, SendWord, SendPost, CloseFinish, CloseWake, Crash, vars,
                shared, receiver, history
  <2>2. RecordsNumbered' BY <1>1, <2>1, NumbersStay
  <2> QED BY <1>1, <2>1, <2>2 DEF FifoInvariant
<1>5. CASE \/ CallEmpty \/ WaitInterrupted \/ Call \/ TryWait \/ Wait \/ AsyncTake \/ AsyncAgain
           \/ AsyncFinish \/ ReadTail \/ ReadHeader \/ ReadWord
  <2>1. UNCHANGED <<written, begins, taken, received, dropped>>
    BY <1>5 DEF CallEmpty, WaitInterrupted, Call, TryWait, Wait, AsyncTake, AsyncAgain, AsyncFinish,
                ReadTail, ReadHeader, ReadWord, shared, history
  <2>2. RecordsNumbered' BY <1>1, <2>1, NumbersStay
  <2>3. last' = "none" => rpc' = "idle"
    <3>1. CASE Call
      <4>1. last' = last /\ ~Finished BY <3>1 DEF Call, Goto
      <4> QED BY <1>1, <4>1 DEF Finished, Blocking
    <3>2. CASE CallEmpty \/ WaitInterrupted BY <3>2 DEF CallEmpty, WaitInterrupted, Return
    <3>3. CASE TryWait \/ Wait \/ AsyncTake \/ AsyncAgain \/ AsyncFinish
      <4>1. last' = last /\ rpc # "idle"
        BY <3>3 DEF TryWait, Wait, AsyncTake, AsyncAgain, AsyncFinish, Goto
      <4> QED BY <1>1, <4>1
    <3>4. CASE ReadTail
      <4>1. rpc = "read" /\ ((rpc' = "idle" /\ last' = "none") \/ last' = last) BY <3>4 DEF ReadTail
      <4> QED BY <1>1, <4>1
    <3>5. CASE ReadHeader \/ ReadWord
      <4>1. rpc \in {"header", "copy"} /\ (last' = last \/ last' = "invalid")
        BY <3>5 DEF ReadHeader, ReadWord, Return
      <4> QED BY <1>1, <4>1
    <3> QED BY <1>5, <3>1, <3>2, <3>3, <3>4, <3>5
  <2> QED BY <1>1, <2>1, <2>2, <2>3 DEF FifoInvariant
<1> QED BY <1>2, <1>3, <1>4, <1>5 DEF Next, SenderStep, ReceiverStep

\* A step that leaves what the queue's variables are made of leaves the queue.
LEMMA ShownStays ==
  ASSUME UNCHANGED <<written, begins, taken, received, msg>>, (spc' = "copy") = (spc = "copy"),
         dropped' + (IF spc' = "drop" THEN 1 ELSE 0) = dropped + (IF spc = "drop" THEN 1 ELSE 0),
         (fin' > 0) = (fin > 0), (last' = "none") = (last = "none")
  PROVE  UNCHANGED Fifo!vars
<1>1. InFlight' = InFlight BY DEF InFlight
<1> QED BY <1>1 DEF Fifo!vars

LEMMA InitImplements == Init => Fifo!Init
<1> SUFFICES ASSUME Init PROVE Fifo!Init OBVIOUS
<1>1. InFlight = <<>>
  <2>1. Len(begins) = 0 /\ Len(received) = 0 BY DEF Init
  <2> QED BY <2>1 DEF InFlight
<1>2. Len(written) - Len(taken) = 0 BY DEF Init
<1> QED BY <1>1, <1>2 DEF Init, Fifo!Init

\* send_sync refuses a message exactly when the room it needs is taken.
LEMMA RoomIs ==
  ASSUME ChannelInvariant, NEW len \in Nat
  PROVE  NoRoom(len) <=> ~(Published - Received + RecordLen(len) <= Size)
<1>1. Published \in Nat /\ Received \in Nat /\ Size \in Nat /\ RecordLen(len) \in Nat
  BY Lengthwise, SizeAssumption DEF ChannelInvariant, RecordLen
<1>2. /\ Received <= Published /\ Published <= Received + Size
      /\ head = Received % PosMod /\ tail = Published % PosMod
  BY DEF ChannelInvariant, Positions
<1>3. WrappingSub(tail, head) = Published - Received BY <1>1, <1>2, WrappingSubIs
<1>4. NoRoom(len) <=> RecordLen(len) > Size \/ Published - Received > Size - RecordLen(len)
  BY <1>3 DEF NoRoom
<1> QED BY <1>1, <1>2, <1>4

\* send_sync decides on a message: it is accepted or refused.
LEMMA OfferImplements ==
  ASSUME ChannelInvariant, EndInvariant, FifoInvariant, NEW len \in Lengths, SendRoom(len)
  PROVE  \E m \in Headers : Fifo!Offer(m)
<1>1. /\ spc = "idle" /\ msg.id < MaxSend /\ msg' = [id |-> msg.id + 1, len |-> len]
      /\ spc' = IF NoRoom(len) THEN "drop" ELSE "copy"
      /\ UNCHANGED <<written, begins, taken, received, dropped, fin, last>>
  BY DEF SendRoom, At, shared, receiver, history
<1>2. len \in Nat BY LengthsAssumption
<1> DEFINE m == Word(msg.id + 1, 0, len)
<1>3. m \in Headers
  <2>1. msg.id \in Nat BY DEF ChannelInvariant, ChannelType
  <2>2. msg.id + 1 \in 1 .. MaxSend BY <1>1, <2>1, SendAssumption
  <2> QED BY <2>2 DEF Headers
<1>4. Word(msg'.id, 0, msg'.len) = m BY <1>1
<1>5. HeaderCost(m) = RecordLen(len) BY DEF HeaderCost, Word
<1>6. InFlight' = InFlight BY <1>1 DEF InFlight
<1>7. ~(fin > 0) BY <1>1 DEF EndInvariant, Closed
<1>8. dropped \in Nat BY DEF FifoInvariant
<1>9. NoRoom(len) <=> ~(Len(written) - Len(taken) + HeaderCost(m) <= Size)
  BY <1>2, <1>5, RoomIs DEF Published, Received
<1> HIDE DEF m
<1>10. Fifo!Room(m) \in BOOLEAN /\ (Fifo!Room(m) <=> ~NoRoom(len)) BY <1>9 DEF Fifo!Room
<1>11. Fifo!Offer(m)
  <2>1. CASE NoRoom(len)
    <3>1. spc' = "drop" /\ Fifo!Room(m) = FALSE BY <1>1, <1>10, <2>1
    <3>2. (spc' = "copy") = FALSE /\ (spc = "copy") = FALSE BY <1>1, <3>1
    <3>3. /\ dropped' + (IF spc' = "drop" THEN 1 ELSE 0) = dropped + 1
          /\ dropped + (IF spc = "drop" THEN 1 ELSE 0) = dropped
      BY <1>1, <1>8, <3>1
    <3>4. /\ Len(written') - Len(taken') = Len(written) - Len(taken)
          /\ (fin' > 0) = (fin > 0) /\ (last' = "none") = (last = "none")
      BY <1>1
    <3> QED BY <1>1, <1>4, <1>6, <1>7, <3>1, <3>2, <3>3, <3>4, Zenon DEF Fifo!Offer
  <2>2. CASE ~NoRoom(len)
    <3>1. spc' = "copy" /\ Fifo!Room(m) = TRUE BY <1>1, <1>10, <2>2
    <3> QED BY <1>1, <1>4, <1>6, <1>7, <1>8, <3>1 DEF Fifo!Offer
  <2> QED BY <2>1, <2>2
<1> QED BY <1>3, <1>11

\* The queue as a sequence of headers.
LEMMA InFlightIs ==
  ChannelInvariant /\ RecordsNumbered =>
    /\ InFlight \in Seq(Words) /\ Len(InFlight) = Len(begins) - Len(received)
    /\ \A k \in 1 .. Len(InFlight) : InFlight[k] = written[begins[Len(received) + k] + 1]
<1> SUFFICES ASSUME ChannelInvariant, RecordsNumbered
             PROVE  /\ InFlight \in Seq(Words) /\ Len(InFlight) = Len(begins) - Len(received)
                    /\ \A k \in 1 .. Len(InFlight) :
                         InFlight[k] = written[begins[Len(received) + k] + 1]
  OBVIOUS
<1>0. PICK N, R : N = Len(begins) /\ R = Len(received) OBVIOUS
<1>1. N \in Nat /\ R \in Nat /\ R <= N /\ Published \in Nat /\ \A k \in 1 .. N : begins[k] \in Nat
  BY <1>0, Numbers DEF RecordsNumbered
<1>2. InFlight = [k \in 1 .. N - R |-> written[begins[R + k] + 1]] BY <1>0 DEF InFlight
<1>3. N - R \in Nat BY <1>1
<1>4. ASSUME NEW k \in 1 .. N - R PROVE written[begins[R + k] + 1] \in Words
  <2>1. R + k \in 1 .. N BY <1>1
  <2>2. begins[R + k] \in Nat /\ begins[R + k] < Published BY <1>0, <1>1, <2>1 DEF RecordsNumbered
  <2> QED BY <2>2, Lengthwise DEF ChannelInvariant
<1>5. InFlight \in Seq(Words) /\ Len(InFlight) = N - R BY <1>2, <1>3, <1>4
<1> QED BY <1>0, <1>2, <1>5

LEMMA InFlightNext ==
  (ChannelInvariant /\ RecordsNumbered =>
    /\ InFlight \in Seq(Words) /\ Len(InFlight) = Len(begins) - Len(received)
    /\ \A k \in 1 .. Len(InFlight) : InFlight[k] = written[begins[Len(received) + k] + 1])'
BY InFlightIs, PTL

\* The store of tail in send_sync: one record more in flight.
LEMMA SendImplements ==
  ASSUME ChannelInvariant, ChannelInvariant', FifoInvariant, FifoInvariant', SendPublish PROVE Fifo!Send
<1>0. PICK N, R : N = Len(begins) /\ R = Len(received) OBVIOUS
<1>1. /\ spc = "copy" /\ spc' = "post"
      /\ UNCHANGED <<msg, taken, received, dropped, fin, last>>
  BY DEF SendPublish, At, receiver
<1>2. /\ Len(begins') = N + 1 /\ \A k \in 1 .. N :
           begins'[k] = begins[k] /\ written'[begins[k] + 1] = written[begins[k] + 1]
      /\ written'[begins'[N + 1] + 1] = Word(msg.id, 0, msg.len)
      /\ Published' = Published + RecordLen(msg.len) /\ Received' = Received
  BY <1>0, PublishNumbers DEF FifoInvariant
<1>3. N \in Nat /\ R \in Nat /\ R <= N /\ Published \in Nat /\ Received \in Nat
  BY <1>0, Numbers DEF FifoInvariant, RecordsNumbered
<1>4. PICK offer : offer = Word(msg.id, 0, msg.len) OBVIOUS
<1>5. InFlight' = Append(InFlight, offer)
  <2>1. /\ InFlight \in Seq(Words) /\ Len(InFlight) = N - R
        /\ \A k \in 1 .. N - R : InFlight[k] = written[begins[R + k] + 1]
    BY <1>0, InFlightIs DEF FifoInvariant
  <2>2. /\ InFlight' \in Seq(Words) /\ Len(InFlight') = (N + 1) - R
        /\ \A k \in 1 .. (N + 1) - R : InFlight'[k] = written'[begins'[R + k] + 1]
    BY <1>0, <1>1, <1>2, InFlightNext DEF FifoInvariant
  <2>3. N - R \in Nat /\ (N + 1) - R = (N - R) + 1 /\ R + ((N - R) + 1) = N + 1 BY <1>3
  <2>4. \A k \in 1 .. N - R : R + k \in 1 .. N BY <1>3
  <2>5. offer \in Words
    BY <1>4 DEF Word, Words, ChannelInvariant, ChannelType
  <2>6. /\ Append(InFlight, offer) \in Seq(Words) /\ Len(Append(InFlight, offer)) = (N - R) + 1
        /\ \A k \in 1 .. N - R : Append(InFlight, offer)[k] = InFlight[k]
        /\ Append(InFlight, offer)[(N - R) + 1] = offer
    BY <2>1, <2>5, AppendProperties
  <2>7. ASSUME NEW k \in 1 .. (N - R) + 1 PROVE InFlight'[k] = Append(InFlight, offer)[k]
    <3>1. InFlight'[k] = written'[begins'[R + k] + 1] BY <2>2, <2>3
    <3>2. CASE k = (N - R) + 1 BY <1>2, <1>4, <2>3, <2>6, <3>1, <3>2
    <3>3. CASE k # (N - R) + 1
      <4>1. k \in 1 .. N - R BY <2>3, <3>3
      <4>2. R + k \in 1 .. N BY <2>4, <4>1
      <4> QED BY <1>2, <2>1, <2>6, <3>1, <4>1, <4>2
    <3> QED BY <3>2, <3>3
  <2> QED BY <2>2, <2>3, <2>6, <2>7, SeqEqual
<1>6. HeaderCost(offer) = RecordLen(msg.len) BY <1>4 DEF HeaderCost, Word
<1>7. Len(written') - Len(taken') = Len(written) - Len(taken) + HeaderCost(offer)
  <2>1. RecordLen(msg.len) \in Nat BY Lengthwise DEF ChannelInvariant
  <2>2. Published' - Received' = Published - Received + RecordLen(msg.len) BY <1>2, <1>3, <2>1
  <2> QED BY <1>6, <2>2 DEF Published, Received
<1> QED BY <1>1, <1>4, <1>5, <1>7 DEF Fifo!Send

\* The store of head in read_one: the oldest record in flight is handed over.
LEMMA ReceiveImplements ==
  ASSUME ChannelInvariant, ChannelInvariant', FifoInvariant, FifoInvariant', ReadCommit PROVE Fifo!Receive
<1>0. PICK N, R : N = Len(begins) /\ R = Len(received) OBVIOUS
<1>1. /\ UNCHANGED <<written, begins, msg, spc, dropped, fin>> /\ last' = "some" /\ last # "none"
      /\ received' = Append(received, got[1])
  BY DEF ReadCommit, Return, sender, FifoInvariant
<1>2. /\ R < N /\ Len(received') = R + 1 /\ got[1] = written[begins[R + 1] + 1]
      /\ Received' = Received + RecordLen(got[1].len)
  BY <1>0, CommitNumbers DEF FifoInvariant
<1>3. N \in Nat /\ R \in Nat /\ Published \in Nat /\ Received \in Nat
  BY <1>0, Numbers DEF FifoInvariant
<1>4. /\ InFlight \in Seq(Words) /\ Len(InFlight) = N - R
      /\ \A k \in 1 .. N - R : InFlight[k] = written[begins[R + k] + 1]
  BY <1>0, InFlightIs DEF FifoInvariant
<1>5. /\ InFlight' \in Seq(Words) /\ Len(InFlight') = N - (R + 1)
      /\ \A k \in 1 .. N - (R + 1) : InFlight'[k] = written[begins[(R + 1) + k] + 1]
  BY <1>0, <1>1, <1>2, InFlightNext DEF FifoInvariant
<1>6. N - R \in Nat \ {0} /\ N - (R + 1) = (N - R) - 1 /\ 1 \in 1 .. N - R BY <1>2, <1>3
<1>8. Head(InFlight) = got[1] /\ InFlight # <<>>
  <2>1. InFlight[1] = got[1] BY <1>2, <1>4, <1>6
  <2>2. InFlight # <<>> BY <1>4, <1>6
  <2> QED BY <1>4, <2>1, <2>2
<1>9. InFlight' = Tail(InFlight)
  <2>1. /\ Tail(InFlight) \in Seq(Words) /\ Len(Tail(InFlight)) = (N - R) - 1
        /\ \A k \in 1 .. (N - R) - 1 : Tail(InFlight)[k] = InFlight[k + 1]
    BY <1>4, <1>8, HeadTailProperties
  <2>2. ASSUME NEW k \in 1 .. (N - R) - 1 PROVE InFlight'[k] = Tail(InFlight)[k]
    <3>1. k + 1 \in 1 .. N - R /\ R + (k + 1) = (R + 1) + k BY <1>3, <1>6
    <3> QED BY <1>4, <1>5, <1>6, <2>1, <3>1
  <2> QED BY <1>5, <1>6, <2>1, <2>2, SeqEqual
<1>10. Len(written') - Len(taken') = Len(written) - Len(taken) - HeaderCost(got[1])
  <2>1. RecordLen(got[1].len) \in Nat
    BY Copying DEF ReadCommit
  <2>2. Published' = Published BY <1>1 DEF Published
  <2>3. Published' - Received' = (Published - Received) - RecordLen(got[1].len)
    BY <1>2, <1>3, <2>1, <2>2
  <2> QED BY <2>3 DEF Published, Received, HeaderCost
<1> QED BY <1>1, <1>8, <1>9, <1>10 DEF Fifo!Receive

\* close.
LEMMA CloseImplements ==
  ASSUME EndInvariant, FifoInvariant, CloseFinish PROVE Fifo!Close
<1>1. /\ spc \in {"idle", "closed"} /\ spc' \in {"closing", "dropping"} /\ fin' = fin + 1
      /\ UNCHANGED <<written, begins, taken, received, msg, dropped, last>>
  BY DEF CloseFinish, At, receiver, history
<1>2. fin \in Nat BY DEF EndInvariant, EndType
<1>3. (fin' > 0) = TRUE BY <1>1, <1>2
<1>4. InFlight' = InFlight BY <1>1 DEF InFlight
<1>5. (spc' = "copy") = FALSE /\ (spc = "copy") = FALSE BY <1>1
<1>6. dropped' + (IF spc' = "drop" THEN 1 ELSE 0) = dropped + (IF spc = "drop" THEN 1 ELSE 0)
  BY <1>1
<1>7. /\ Len(written') - Len(taken') = Len(written) - Len(taken)
      /\ (last' = "none") = (last = "none") /\ Word(msg'.id, 0, msg'.len) = Word(msg.id, 0, msg.len)
  BY <1>1
<1> QED BY <1>1, <1>3, <1>4, <1>5, <1>6, <1>7, Zenon DEF Fifo!Close

\* When every word was received, so was every record.
LEMMA NoneInFlight ==
  ASSUME ChannelInvariant, RecordsNumbered, Received = Published PROVE InFlight = <<>>
<1>0. PICK N, R : N = Len(begins) /\ R = Len(received) OBVIOUS
<1>1. N \in Nat /\ R \in Nat /\ R <= N /\ Published \in Nat /\ Received = After(R)
  BY <1>0, Numbers DEF RecordsNumbered
<1>2. R = N
  <2> SUFFICES ASSUME R # N PROVE FALSE OBVIOUS
  <2>1. R + 1 \in 1 .. N /\ After(R) = begins[R + 1] BY <1>0, <1>1 DEF After
  <2>2. begins[R + 1] < Published BY <1>0, <2>1 DEF RecordsNumbered
  <2> QED BY <1>1, <2>1, <2>2
<1>3. N - R = 0 BY <1>1, <1>2
<1> QED BY <1>0, <1>3 DEF InFlight

\* read_one looks at the tail: the end of the stream, or a record.
LEMMA ReadTailImplements ==
  ASSUME ChannelInvariant, EndInvariant', FifoInvariant, ReadTail
  PROVE  Fifo!End \/ UNCHANGED Fifo!vars
<1>1. /\ rpc = "read" /\ UNCHANGED <<written, begins, taken, received, msg, spc, dropped, fin>>
  BY DEF ReadTail, shared, sender, history
<1>2. InFlight' = InFlight BY <1>1 DEF InFlight
<1>3. CASE head = tail
  <2>1. last' = "none" BY <1>3 DEF ReadTail
  <2>2. (fin > 0) = TRUE BY <1>1, <2>1 DEF EndInvariant, EndOfStream
  <2>3. InFlight = <<>> BY <1>3, EmptyIs, NoneInFlight DEF FifoInvariant
  <2> QED BY <1>1, <1>2, <2>1, <2>2, <2>3 DEF Fifo!End
<1>4. CASE head # tail
  <2>1. last' = last BY <1>4 DEF ReadTail
  <2> QED BY <1>1, <2>1, ShownStays
<1> QED BY <1>3, <1>4

\* Every other step changes nothing the queue shows.
LEMMA SenderHidden ==
  ASSUME FifoInvariant, SendDrop \/ SendWord \/ SendPost \/ CloseWake \/ Crash
  PROVE  UNCHANGED Fifo!vars
<1>1. UNCHANGED <<written, begins, taken, received, msg, fin, last>>
  BY DEF SendDrop, SendWord, SendPost, CloseWake, Crash, shared, receiver, history
<1>2. (spc' = "copy") = (spc = "copy")
  BY DEF SendDrop, SendWord, SendPost, CloseWake, Crash, At
<1>3. dropped' + (IF spc' = "drop" THEN 1 ELSE 0) = dropped + (IF spc = "drop" THEN 1 ELSE 0)
  <2>1. CASE SendDrop
    <3>1. spc = "drop" /\ spc' = "idle" /\ dropped' = dropped + 1 /\ dropped \in Nat
      BY <2>1 DEF SendDrop, At, FifoInvariant
    <3> QED BY <3>1
  <2>2. CASE SendWord \/ SendPost \/ CloseWake \/ Crash
    <3>1. dropped' = dropped /\ (spc' = "drop") = (spc = "drop")
      BY <2>2 DEF SendWord, SendPost, CloseWake, Crash, At, shared
    <3> QED BY <3>1
  <2> QED BY <2>1, <2>2
<1> QED BY <1>1, <1>2, <1>3, ShownStays

LEMMA ReceiverHidden ==
  ASSUME EndInvariant, FifoInvariant,
         \/ CallEmpty \/ Call \/ TryWait \/ Wait \/ WaitInterrupted \/ AsyncTake \/ AsyncAgain
         \/ AsyncFinish \/ ReadHeader \/ ReadWord
  PROVE  UNCHANGED Fifo!vars
<1>1. UNCHANGED <<written, begins, taken, received, msg, spc, dropped, fin>>
  BY DEF CallEmpty, Call, TryWait, Wait, WaitInterrupted, AsyncTake, AsyncAgain, AsyncFinish,
         ReadHeader, ReadWord, shared, sender, history
<1>2. last = "none" => rpc = "idle" /\ mode \in {"recv_sync", "recv"}
  BY DEF FifoInvariant, EndInvariant, EndOfStream
<1>3. (last' = "none") = (last = "none")
  <2>1. CASE CallEmpty BY <1>2, <2>1 DEF CallEmpty, Return
  <2>2. CASE WaitInterrupted BY <1>2, <2>2 DEF WaitInterrupted, Return
  <2>3. CASE ReadHeader
    <3>1. rpc = "header" /\ (last' = last \/ last' = "invalid") BY <2>3 DEF ReadHeader, Return
    <3> QED BY <1>2, <3>1
  <2>4. CASE Call \/ TryWait \/ Wait \/ AsyncTake \/ AsyncAgain \/ AsyncFinish \/ ReadWord
    BY <2>4 DEF Call, TryWait, Wait, AsyncTake, AsyncAgain, AsyncFinish, ReadWord, Goto
  <2> QED BY <2>1, <2>2, <2>3, <2>4
<1> QED BY <1>1, <1>3, ShownStays

\* Every step of the channel is a step of the queue, or none it shows.
LEMMA StepImplements ==
  /\ ChannelInvariant /\ EndInvariant /\ FifoInvariant
  /\ ChannelInvariant' /\ EndInvariant' /\ FifoInvariant' /\ [Next]_vars
  => [Fifo!Next]_(Fifo!vars)
<1> SUFFICES ASSUME ChannelInvariant, EndInvariant, FifoInvariant,
                    ChannelInvariant', EndInvariant', FifoInvariant', [Next]_vars
             PROVE  Fifo!Next \/ UNCHANGED Fifo!vars
  OBVIOUS
<1>1. CASE \E len \in Lengths : SendRoom(len)
  <2>1. PICK len \in Lengths : SendRoom(len) BY <1>1
  <2>2. \E m \in Headers : Fifo!Offer(m) BY <2>1, OfferImplements
  <2> QED BY <2>2 DEF Fifo!Next
<1>2. CASE SendPublish BY <1>2, SendImplements DEF Fifo!Next
<1>3. CASE ReadCommit BY <1>3, ReceiveImplements DEF Fifo!Next
<1>4. CASE CloseFinish BY <1>4, CloseImplements DEF Fifo!Next
<1>5. CASE ReadTail BY <1>5, ReadTailImplements DEF Fifo!Next
<1>6. CASE SendDrop \/ SendWord \/ SendPost \/ CloseWake \/ Crash BY <1>6, SenderHidden
<1>7. CASE \/ CallEmpty \/ Call \/ TryWait \/ Wait \/ WaitInterrupted \/ AsyncTake \/ AsyncAgain
           \/ AsyncFinish \/ ReadHeader \/ ReadWord
  BY <1>7, ReceiverHidden
<1>8. CASE UNCHANGED vars
  <2>1. UNCHANGED <<written, begins, taken, received, msg, spc, dropped, fin, last>>
    BY <1>8 DEF vars, shared, sender, receiver, history
  <2> QED BY <2>1, ShownStays
<1> QED BY <1>1, <1>2, <1>3, <1>4, <1>5, <1>6, <1>7, <1>8 DEF Next, SenderStep, ReceiverStep

\* The ring, word by word and step by step, is a bounded lossy queue: what send_sync
\* publishes read_one hands over once, whole and in order, a message is refused only for
\* want of room, and the end of the stream is reported only after close and the last
\* record, for every capacity, number of wraps and point where the sender is killed.
THEOREM ChannelImplementsFifo == Spec => ImplementsFifo
<1>1. Init => ChannelInvariant /\ EndInvariant /\ FifoInvariant
  BY ChannelInitially, EndInitially, FifoInitially
<1> QED
  BY <1>1, InitImplements, ChannelInductive, EndInductive, FifoInductive, StepImplements, PTL
     DEF Spec, ImplementsFifo, Fifo!Spec
============================================================================
