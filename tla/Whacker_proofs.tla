--------------------------- MODULE Whacker_proofs ---------------------------
(***************************************************************************)
(* Proofs about the whacker for every ring depth and packet limit that     *)
(* DepthAssumption admits: types, that the watermark alone keeps producer  *)
(* and consumer apart without ever blocking both, and that what comes out  *)
(* are whole packets, in order and once.                                   *)
(***************************************************************************)
EXTENDS Whacker, SequenceTheorems, TLAPS

\* Bytes handed to the consumer that it has not passed on yet.
Occupied == IF cstate = "d" THEN ct + 1 ELSE 0

\* How far produce_write is ahead of produce_header. In IDLE it is still 0, or
\* 8 once an item outside any packet was dropped.
Ahead == IF pstate = "IDLE" THEN (IF pw = ph THEN 0 ELSE 8) ELSE 8 + size

\* produce_header follows the packet being delivered without a gap, so that
\* one number, Occupied + Ahead, is the fill level of the ring; it never
\* reaches the depth, so a full ring is never read as an empty one.
RingInv ==
    /\ cstate = "d" => ph = Plus(pos, ct + 1)
    /\ cstate = "IDLE" => ph = pos \/ ph = Plus(pos, 1)
    /\ Occupied <= MaxPacket + 8
    /\ pw = Plus(ph, Ahead)
    /\ Occupied + Ahead < Depth - 1

\* The part of TypeOK that RingInv rests on.
RingType ==
    /\ pstate \in {"IDLE", "DATA", "waitdone", "SEND"} \cup HeaderStates
    /\ pw \in Addr
    /\ ph \in Addr
    /\ size \in 0 .. MaxPacket
    /\ cstate \in {"IDLE", "d"}
    /\ pos \in Addr
    /\ ct \in Addr

\* The address registers keep to the ring under any step of either side.
LEMMA RingTypeStep == RingType /\ Producer /\ (\E a \in BOOLEAN : Consumer(a)) => RingType'
<1> SUFFICES ASSUME RingType, Producer, NEW a \in BOOLEAN, Consumer(a)
             PROVE  RingType'
    OBVIOUS
<1> USE DepthAssumption DEF RingType, Addr, Plus, Minus
<1>1. cstate' \in {"IDLE", "d"} /\ pos' \in Addr /\ ct' \in Addr
    BY DEF Consumer, ConsumerTake, ConsumerIdle, ConsumerNext, ConsumerLast,
           ConsumerHold, consumerVars, OutAddrAck
<1>2. /\ pstate' \in {"IDLE", "DATA", "waitdone", "SEND"} \cup HeaderStates
      /\ pw' \in Addr /\ ph' \in Addr /\ size' \in 0 .. MaxPacket
    <2>1. CASE IdleStart BY <2>1 DEF IdleStart, SetUp
    <2>2. CASE IdleStuff BY <2>2 DEF IdleStuff, SetUp, HeaderStates, HeaderOffset
    <2>3. CASE IdleDrop  BY <2>3 DEF IdleDrop, SetUp
    <2>4. CASE DataTruncate
        BY <2>4 DEF DataTruncate, HeaderStates, HeaderOffset
    <2>5. CASE DataByte  BY <2>5 DEF DataByte, DataWrite
    <2>6. CASE DataRxcmd BY <2>6 DEF DataRxcmd
    <2>7. CASE WaitDone
        BY <2>7 DEF WaitDone, HeaderStates, HeaderOffset
    <2>8. CASE WriteHdr
        BY <2>8 DEF WriteHdr, HeaderStates, HeaderOffset, NextHeaderState
    <2>9. CASE Send BY <2>9 DEF Send
    <2>10. CASE IdleWait \/ DataWait \/ SendWait
        BY <2>10 DEF IdleWait, DataWait, SendWait, producerVars
    <2> QED
        BY <2>1, <2>2, <2>3, <2>4, <2>5, <2>6, <2>7, <2>8, <2>9, <2>10 DEF Producer
<1> QED
    BY <1>1, <1>2
-----------------------------------------------------------------------------
\* HasSpace, read through the invariant: the bytes free beyond produce_write
\* and the watermark are what is left of the ring.
LEMMA SpaceMeaning ==
    ASSUME RingType, RingInv
    PROVE  /\ cstate = "d" => (HasSpace <=> Occupied + Ahead + 9 < Depth)
           /\ cstate = "IDLE" /\ Ahead + 10 < Depth => HasSpace
    BY DepthAssumption
    DEF RingType, RingInv, HasSpace, Occupied, Ahead, Addr, Plus, Minus

\* The consumer alone never makes the ring fuller, and while it reads it keeps
\* the distance to produce_header.
LEMMA ConsumerKeeps ==
    ASSUME RingType, RingInv, ~OutAddrAck, NEW a \in BOOLEAN, Consumer(a), ph' = ph
    PROVE  /\ cstate' = "d" => ph' = Plus(pos', ct' + 1)
           /\ cstate' = "IDLE" => ph' = pos' \/ ph' = Plus(pos', 1)
           /\ Occupied' <= Occupied
           /\ Occupied' <= MaxPacket + 8
           /\ Occupied' # Occupied => cstate = "d"
           /\ cstate' = "d" => cstate = "d"
    BY DepthAssumption
    DEF RingType, RingInv, Occupied, Addr, Plus, Consumer, ConsumerTake, ConsumerIdle,
        ConsumerNext, ConsumerLast, ConsumerHold, consumerVars

\* RingInv is inductive: a step of the producer, of the consumer, or of both.
LEMMA RingInvStep ==
    ASSUME RingType, RingInv, Producer, NEW a \in BOOLEAN, Consumer(a)
    PROVE  RingInv'
<1>0. RingType'
    BY RingTypeStep
<1>1. CASE Send
    <2>1. pstate = "SEND" /\ cstate = "IDLE" /\ ph' = pw /\ pw' = pw /\ size' = size
          /\ pstate' = "IDLE"
        BY <1>1 DEF Send, OutAddrAck
    <2>2. ConsumerTake
        BY <2>1, <1>1 DEF Send, Consumer, ConsumerIdle, ConsumerNext, ConsumerLast, ConsumerHold
    <2> QED
        BY <2>1, <2>2, DepthAssumption
        DEF ConsumerTake, RingType, RingInv, Occupied, Ahead, Addr, Plus, Minus
<1>2. CASE ~Send
    <2>1. ~OutAddrAck
        BY <1>2 DEF Producer, Send, OutAddrAck, IdleStart, IdleStuff, IdleDrop, IdleWait, IdleTake,
             DataTruncate, DataByte, DataWrite, DataRxcmd, DataWait, WaitDone, WriteHdr,
             HeaderStates, HeaderOffset, SendWait
    <2>2. ph' = ph
        BY <1>2 DEF Producer, IdleStart, IdleStuff, IdleDrop, IdleWait, SetUp, DataTruncate,
             DataByte, DataRxcmd, DataWait, WaitDone, WriteHdr, SendWait, producerVars
    <2>3. /\ cstate' = "d" => ph' = Plus(pos', ct' + 1)
          /\ cstate' = "IDLE" => ph' = pos' \/ ph' = Plus(pos', 1)
          /\ Occupied' <= Occupied
          /\ Occupied' <= MaxPacket + 8
        BY <2>1, <2>2, ConsumerKeeps
    <2>4. pw' = Plus(ph', Ahead') /\ Occupied + Ahead' < Depth - 1
        <3> USE DepthAssumption DEF RingType, RingInv, Ahead, Occupied, Addr, Plus
        <3>1. CASE IdleStart \/ IdleStuff \/ IdleDrop
            <4>1. /\ HasSpace /\ pstate = "IDLE"
                  /\ pw' = Plus(ph, 8) /\ size' = 0 /\ ph' = ph
                BY <3>1 DEF IdleStart, IdleStuff, IdleDrop, IdleTake, SetUp
            <4>2. Ahead' = 8
                BY <4>1, <1>0 DEF RingType
            <4>3. Occupied + 8 < Depth - 1
                BY <4>1, SpaceMeaning
            <4> QED
                BY <4>1, <4>2, <4>3
        <3>2. CASE DataByte
            <4>1. /\ HasSpace /\ pstate = "DATA" /\ pstate' = "DATA" /\ size < MaxPacket
                  /\ pw' = Plus(pw, 1) /\ size' = size + 1 /\ ph' = ph
                BY <3>2 DEF DataByte, DataWrite
            <4>2. Occupied + Ahead + 1 < Depth - 1
                BY <4>1, SpaceMeaning
            <4> QED
                BY <4>1, <4>2
        <3>3. CASE /\ pw' = pw /\ size' = size /\ ph' = ph
                   /\ pstate # "IDLE" <=> pstate' # "IDLE"
            BY <3>3
        <3> QED
            BY <1>2, <3>1, <3>2, <3>3
            DEF Producer, IdleWait, DataTruncate, DataRxcmd, DataWait, WaitDone, WriteHdr,
                SendWait, producerVars, HeaderStates, HeaderOffset, NextHeaderState
    <2>5. /\ Occupied' \in Int /\ Occupied \in Int
          /\ Ahead' \in Int /\ Depth \in Int
        BY <1>0, DepthAssumption DEF RingType, Occupied, Ahead, Addr
    <2>6. Occupied' + Ahead' < Depth - 1
        <3> HIDE DEF Occupied, Ahead
        <3> DEFINE o1 == Occupied'
                   a1 == Ahead'
                   o0 == Occupied
        <3>1. o1 \in Int /\ a1 \in Int /\ o0 \in Int /\ Depth \in Int
            BY <2>5
        <3>2. o1 <= o0 /\ o0 + a1 < Depth - 1
            BY <2>3, <2>4
        <3> HIDE DEF o1, a1, o0
        <3>3. o1 + a1 < Depth - 1
            BY <3>1, <3>2
        <3> QED
            BY <3>3 DEF o1, a1
    <2>7. pw' = Plus(ph', Ahead')
        BY <2>4
    <2>8. cstate' = "IDLE" => ph' = pos' \/ ph' = Plus(pos', 1)
        BY <2>3
    <2> QED
        BY <2>3, <2>6, <2>7, <2>8 DEF RingInv
<1> QED
    BY <1>1, <1>2
-----------------------------------------------------------------------------
\* The other registers, and the bytes in the memory.

\* Flags and to_start keep their types.
LEMMA FlagsStep == ASSUME TypeOK, Producer PROVE flags' \in SUBSET Flags /\ toStart' \in BOOLEAN
<1> USE DEF TypeOK, Flags, MarkerFlags, EndFlags
<1>1. CASE IdleStart \/ IdleStuff \/ IdleDrop
    BY <1>1 DEF IdleStart, IdleStuff, IdleDrop, SetUp, FlagsIni
<1>2. CASE DataTruncate
    BY <1>2 DEF DataTruncate
<1>3. CASE DataRxcmd
    <2>1. CASE sink.tag \in {"start", "ovf"}
        BY <1>3, <2>1 DEF DataRxcmd, IsStart
    <2>2. CASE sink.tag = "err"
        BY <1>3, <2>2 DEF DataRxcmd, IsStart
    <2>3. CASE sink.tag \notin {"start", "ovf", "err"}
        BY <1>3, <2>3 DEF DataRxcmd, IsStart
    <2> QED
        BY <2>1, <2>2, <2>3
<1>4. CASE DataByte \/ WaitDone \/ WriteHdr \/ Send \/ IdleWait \/ DataWait \/ SendWait
    BY <1>4 DEF DataByte, WaitDone, WriteHdr, Send, IdleWait, DataWait, SendWait, producerVars
<1> QED
    BY <1>1, <1>2, <1>3, <1>4 DEF Producer

\* So do the markers, the time stamp, and what upstream offers.
LEMMA MarkersStep ==
    ASSUME TypeOK, Markers, Upstream, CaptureEnable
    PROVE  /\ pktTs' \in Timestamps \cup {None}
           /\ first' \in BOOLEAN /\ last' \in BOOLEAN
           /\ ena' \in BOOLEAN /\ enLast' \in BOOLEAN
           /\ sink' \in Item \cup {NoItem}
<1>1. sink' \in Item \cup {NoItem}
    BY DEF TypeOK, Upstream
<1>2. pktTs' \in Timestamps \cup {None}
    BY DEF TypeOK, Markers, Item, NoItem, IsStart
<1>3. first' \in BOOLEAN /\ last' \in BOOLEAN /\ enLast' \in BOOLEAN
    BY DEF TypeOK, Markers
<1>4. ena' \in BOOLEAN
    BY DEF TypeOK, CaptureEnable
<1> QED
    BY <1>1, <1>2, <1>3, <1>4

\* Every header state writes a byte, and the byte its field calls for.
LEMMA WrCellIsCell == ASSUME TypeOK, WrEnable PROVE IsCell(WrCell)
<1>1. CASE DataWrite
    <2>1. sink.val \in Data
        BY <1>1 DEF TypeOK, DataWrite, Item, NoItem
    <2> QED
        BY <1>1, <2>1 DEF WrCell, IsCell
<1>2. CASE ~DataWrite
    <2>1. pstate \in HeaderStates
        BY <1>2 DEF WrEnable
    <2>2. WrCell = HeaderCell(pstate, flags, size, pktTs)
        BY <1>2 DEF WrCell
    <2>3. size \in Nat /\ flags \in SUBSET Flags /\ pktTs \in Timestamps \cup {None}
        BY DepthAssumption DEF TypeOK
    <2>4. size % 256 \in 0 .. 255 /\ (size \div 256) % 256 \in 0 .. 255
        BY <2>3
    <2>5. pstate \in {"WH0", "WRF0", "WRF1", "WRSL", "WRSH", "WRTL", "WRTM", "WRTH"}
        BY <2>1 DEF HeaderStates, HeaderOffset
    <2>6. CASE pstate = "WH0"
        BY <2>1, <2>2, <2>6 DEF HeaderCell, IsCell
    <2>7. CASE pstate = "WRF0"
        BY <2>1, <2>2, <2>3, <2>7 DEF HeaderCell, IsCell
    <2>8. CASE pstate = "WRF1"
        BY <2>1, <2>2, <2>8 DEF HeaderCell, IsCell
    <2>9. CASE pstate = "WRSL"
        BY <2>1, <2>2, <2>4, <2>9 DEF HeaderCell, IsCell
    <2>10. CASE pstate = "WRSH"
        BY <2>1, <2>2, <2>4, <2>10 DEF HeaderCell, IsCell
    <2>11. CASE pstate \in {"WRTL", "WRTM", "WRTH"}
        BY <2>1, <2>2, <2>3, <2>11 DEF HeaderCell, IsCell
    <2> QED
        BY <2>5, <2>6, <2>7, <2>8, <2>9, <2>10, <2>11
<1> QED
    BY <1>1, <1>2

\* Memory cells stay packet bytes or Junk.
LEMMA MemoryStep ==
    ASSUME TypeOK, NEW a \in BOOLEAN, Memory(a)
    PROVE  DOMAIN mem' = Addr /\ \A b \in Addr : IsCell(mem'[b])
<1> DEFINE read == IF cstate = "d" /\ a THEN [mem EXCEPT ![pos] = Junk] ELSE mem
<1>1. DOMAIN read = Addr /\ \A b \in Addr : read[b] = mem[b] \/ read[b] = Junk
    BY DEF TypeOK
<1>2. mem' = IF WrEnable THEN [read EXCEPT ![WrAddr] = WrCell] ELSE read
    BY DEF Memory
<1> HIDE DEF read
<1>3. DOMAIN mem' = Addr
    BY <1>1, <1>2
<1>4. ASSUME NEW b \in Addr PROVE IsCell(mem'[b])
    <2>1. mem'[b] = mem[b] \/ mem'[b] = Junk \/ (WrEnable /\ mem'[b] = WrCell)
        BY <1>1, <1>2
    <2>2. IsCell(mem[b])
        BY DEF TypeOK
    <2>3. IsCell(Junk)
        BY DEF IsCell
    <2>4. CASE mem'[b] = mem[b]
        BY <2>2, <2>4 DEF IsCell
    <2>5. CASE mem'[b] = Junk
        BY <2>3, <2>5 DEF IsCell
    <2>6. CASE WrEnable /\ mem'[b] = WrCell
        <3>1. IsCell(WrCell)
            BY <2>6, WrCellIsCell
        <3> QED
            BY <3>1, <2>6 DEF IsCell
    <2> QED
        BY <2>1, <2>4, <2>5, <2>6
<1> QED
    BY <1>3, <1>4
-----------------------------------------------------------------------------
(* The theorems. *)

IInv == TypeOK /\ RingInv

\* The inductive invariant holds at the start, is kept by every step, and so
\* holds always.
LEMMA InitIInv == Init => IInv
<1> SUFFICES ASSUME Init PROVE IInv
    OBVIOUS
<1>1. RingInv
    BY DepthAssumption DEF Init, RingInv, Occupied, Ahead, Addr, Plus
<1>2. DOMAIN mem = Addr /\ \A a \in Addr : IsCell(mem[a])
    BY DEF Init, IsCell
<1>3. 0 \in Addr /\ 0 \in 0 .. MaxPacket
    BY DepthAssumption DEF Addr
<1> QED
    BY <1>1, <1>2, <1>3 DEF Init, IInv, TypeOK

LEMMA NextIInv == IInv /\ [Next]_vars => IInv'
<1>1. ASSUME IInv, UNCHANGED vars PROVE IInv'
    <2>1. RingInv'
        BY <1>1 DEF IInv, RingInv, Occupied, Ahead, Plus, vars, producerVars, consumerVars
    <2>2. TypeOK'
        BY <1>1 DEF IInv, TypeOK, vars, producerVars, markerVars, consumerVars
    <2> QED
        BY <2>1, <2>2 DEF IInv
<1>2. ASSUME IInv, NEW a \in BOOLEAN, Clock(a) PROVE IInv'
    <2>1. TypeOK /\ RingType /\ RingInv
        BY <1>2 DEF IInv, TypeOK, RingType
    <2>2. Producer /\ Consumer(a) /\ Markers /\ Memory(a) /\ Upstream /\ CaptureEnable
        BY <1>2 DEF Clock
    <2>3. RingType'
        BY <2>1, <2>2, RingTypeStep
    <2>4. RingInv'
        BY <2>1, <2>2, RingInvStep
    <2>5. flags' \in SUBSET Flags /\ toStart' \in BOOLEAN
        BY <2>1, <2>2, FlagsStep
    <2>6. /\ pktTs' \in Timestamps \cup {None}
          /\ first' \in BOOLEAN /\ last' \in BOOLEAN
          /\ ena' \in BOOLEAN /\ enLast' \in BOOLEAN
          /\ sink' \in Item \cup {NoItem}
        BY <2>1, <2>2, MarkersStep
    <2>7. DOMAIN mem' = Addr /\ \A b \in Addr : IsCell(mem'[b])
        BY <2>1, <2>2, MemoryStep
    <2>8. TypeOK'
        BY <2>3, <2>5, <2>6, <2>7 DEF TypeOK, RingType, Addr
    <2> QED
        BY <2>4, <2>8 DEF IInv
<1> QED
    BY <1>1, <1>2 DEF Next

LEMMA IInvHolds == Spec => []IInv
    BY InitIInv, NextIInv, PTL DEF Spec

\* Every register keeps to its width: no address leaves the ring, the size
\* never passes the limit at which a packet is cut, and the memory holds
\* nothing but packet bytes.
THEOREM TypeCorrect == Spec => []TypeOK
    BY IInvHolds, PTL DEF IInv

\* A packet not yet handed over is intact: its header and payload, and what the
\* consumer has still to read, never fill the ring, so a full ring is never
\* mistaken for an empty one.
NoLap == pstate # "IDLE" => Occupied + 8 + size < Depth

\* The fill level of the ring never reaches its depth.
THEOREM NeverLaps == Spec => []NoLap
<1>1. IInv => NoLap
    BY DepthAssumption DEF IInv, TypeOK, RingInv, NoLap, Occupied, Ahead, Addr
<1> QED
    BY <1>1, IInvHolds, PTL

\* Addresses counted from another one.
LEMMA PlusIs ==
    ASSUME NEW a \in Addr, NEW n \in 0 .. Depth - 1
    PROVE  /\ Plus(a, n) \in Addr
           /\ Plus(a, 0) = a
           /\ \A m \in 0 .. Depth - 1 : Plus(a, n) = Plus(a, m) => n = m
           /\ n >= 1 => Plus(Plus(a, 1), n - 1) = Plus(a, n)
    BY DepthAssumption DEF Addr, Plus

\* The header states and the places they write.
LEMMA Offsets ==
    /\ HeaderStates = {"WH0", "WRF0", "WRF1", "WRSL", "WRSH", "WRTL", "WRTM", "WRTH"}
    /\ \A s \in HeaderStates : HeaderOffset[s] \in 0 .. 7
    /\ \A s, t \in HeaderStates : HeaderOffset[s] = HeaderOffset[t] => s = t
    BY DEF HeaderStates, HeaderOffset

\* The packet assembled and the one delivered have no byte in common.
LEMMA RegionsApart ==
    ASSUME IInv, pstate # "IDLE", cstate = "d", NEW n \in 0 .. 8 + size, NEW k \in 0 .. ct
    PROVE  Plus(ph, n) # Plus(pos, k)
<1>1. ph = Plus(pos, ct + 1) /\ ct + 1 + 8 + size < Depth - 1
    BY DepthAssumption DEF IInv, TypeOK, RingInv, Occupied, Ahead, Addr
<1> QED
    BY <1>1, DepthAssumption DEF IInv, TypeOK, Addr, Plus

\* Where the byte written belongs in the packet assembled.
LEMMA WrittenAt ==
    ASSUME IInv
    PROVE  /\ DataWrite => WrAddr = Plus(ph, 8 + size) /\ pstate = "DATA" /\ size < MaxPacket
           /\ WrEnable /\ ~DataWrite =>
                  pstate \in HeaderStates /\ WrAddr = Plus(ph, HeaderOffset[pstate])
           /\ WrEnable => pstate # "IDLE" /\ WrAddr \in Addr
           /\ pstate # "IDLE" => 8 + size < Depth - 1
<1>1. DataWrite => WrAddr = Plus(ph, 8 + size) /\ pstate = "DATA" /\ size < MaxPacket
    BY DEF IInv, RingInv, Ahead, DataWrite, WrAddr
<1>2. WrEnable /\ ~DataWrite => pstate \in HeaderStates /\ WrAddr = Plus(ph, HeaderOffset[pstate])
    BY DEF WrEnable, WrAddr
<1>3. WrEnable => pstate # "IDLE"
    BY <1>1, <1>2, Offsets
<1>4. pstate # "IDLE" => 8 + size < Depth - 1
    BY DepthAssumption DEF IInv, TypeOK, RingInv, Occupied, Ahead, Addr
<1>5. WrEnable => WrAddr \in Addr
    <2>1. ph \in Addr /\ Depth \in Nat /\ Depth >= 18 /\ size \in Nat
        BY DepthAssumption DEF IInv, TypeOK
    <2>2. CASE DataWrite
        <3>1. 8 + size \in 0 .. Depth - 1
            BY <1>1, <1>4, <2>1, <2>2
        <3> QED
            BY <1>1, <2>1, <2>2, <3>1, PlusIs
    <2>3. CASE WrEnable /\ ~DataWrite
        <3>1. HeaderOffset[pstate] \in 0 .. Depth - 1
            BY <1>2, <2>1, <2>3, Offsets
        <3> QED
            BY <1>2, <2>1, <2>3, <3>1, PlusIs
    <2> QED
        BY <2>2, <2>3
<1> QED
    BY <1>1, <1>2, <1>3, <1>4, <1>5

\* A byte written is of the packet assembled, so it is none still to be read.
LEMMA Apart == IInv => NoOverrun
<1> SUFFICES ASSUME IInv, WrEnable, cstate = "d", NEW k \in 0 .. ct
             PROVE  WrAddr # Plus(pos, k)
    BY DEF NoOverrun, Unread
<1>1. \E n \in 0 .. 8 + size : WrAddr = Plus(ph, n)
    <2>1. CASE DataWrite
        BY <2>1, WrittenAt DEF IInv, TypeOK
    <2>2. CASE ~DataWrite
        BY <2>2, WrittenAt, Offsets DEF IInv, TypeOK
    <2> QED
        BY <2>1, <2>2
<1> QED
    BY <1>1, WrittenAt, RegionsApart

\* Whatever the traffic and however the reader stalls, a byte still to be read
\* is never overwritten, for every ring and packet size.
THEOREM NeverOverruns == Spec => []NoOverrun
    BY Apart, IInvHolds, PTL

\* Producer and consumer can never both be waiting for each other: a drained
\* ring always has the room the producer asks for.
THEOREM DrainedMeansRoom == Spec => []RoomWhenDrained
<1>1. IInv => RoomWhenDrained
    <2> SUFFICES ASSUME IInv, cstate = "IDLE",
                        pstate = "IDLE" \/ (pstate = "DATA" /\ size < MaxPacket)
                 PROVE  HasSpace
        BY DEF RoomWhenDrained
    <2>1. RingType /\ RingInv
        BY DEF IInv, TypeOK, RingType
    <2>2. Ahead + 10 < Depth
        BY <2>1, DepthAssumption DEF RingType, Ahead
    <2> QED
        BY <2>1, <2>2, SpaceMeaning
<1> QED
    BY <1>1, IInvHolds, PTL
-----------------------------------------------------------------------------
(* The whacker implements PacketStream. What is in the memory: the header  *)
(* bytes written so far, and, cell by cell, what a clock changes.          *)

\* How many bytes of the header are written.
HeaderDone ==
    IF pstate \in HeaderStates THEN HeaderOffset[pstate]
    ELSE IF pstate = "SEND" THEN 8 ELSE 0

\* They are those of the packet assembled: nothing they say changes while they
\* are written, the time stamp neither, since nothing is taken from upstream.
HeaderInv ==
    \A s \in HeaderStates : HeaderOffset[s] < HeaderDone =>
        mem[Plus(ph, HeaderOffset[s])] = HeaderCell(s, flags, size, pktTs)

\* What a clock does to a cell.
LEMMA CellNext ==
    ASSUME IInv, NEW a \in BOOLEAN, Memory(a), NEW b \in Addr
    PROVE  mem'[b] = IF WrEnable /\ b = WrAddr THEN WrCell
                     ELSE IF cstate = "d" /\ a /\ b = pos THEN Junk ELSE mem[b]
<1> DEFINE read == IF cstate = "d" /\ a THEN [mem EXCEPT ![pos] = Junk] ELSE mem
<1>1. DOMAIN read = Addr /\ read[b] = IF cstate = "d" /\ a /\ b = pos THEN Junk ELSE mem[b]
    BY DEF IInv, TypeOK
<1>2. mem' = IF WrEnable THEN [read EXCEPT ![WrAddr] = WrCell] ELSE read
    BY DEF Memory
<1> HIDE DEF read
<1> QED
    BY <1>1, <1>2

\* The bytes of the packet assembled stay, but for the one written.
LEMMA PacketKept ==
    ASSUME IInv, NEW a \in BOOLEAN, Memory(a), pstate # "IDLE", NEW n \in 0 .. 7 + size,
           WrEnable /\ ~DataWrite => n # HeaderOffset[pstate]
    PROVE  mem'[Plus(ph, n)] = mem[Plus(ph, n)]
<1>1. 8 + size < Depth - 1 /\ ph \in Addr /\ pos \in Addr /\ size \in Nat /\ ct \in Nat /\ Depth \in Nat
    BY WrittenAt, DepthAssumption DEF IInv, TypeOK, Addr
<1>2. Plus(ph, n) \in Addr
    BY <1>1, PlusIs
<1>3. WrEnable => Plus(ph, n) # WrAddr
    <2>1. CASE DataWrite
        <3>1. WrAddr = Plus(ph, 8 + size) /\ n # 8 + size /\ 8 + size \in 0 .. Depth - 1
              /\ n \in 0 .. Depth - 1
            BY <1>1, <2>1, WrittenAt
        <3> QED
            BY <1>1, <3>1, PlusIs
    <2>2. CASE WrEnable /\ ~DataWrite
        <3>1. /\ WrAddr = Plus(ph, HeaderOffset[pstate]) /\ n # HeaderOffset[pstate]
              /\ HeaderOffset[pstate] \in 0 .. Depth - 1 /\ n \in 0 .. Depth - 1
            BY <1>1, <2>2, WrittenAt, Offsets
        <3> QED
            BY <1>1, <3>1, PlusIs
    <2> QED
        BY <2>1, <2>2
<1>4. cstate = "d" => Plus(ph, n) # pos
    <2>1. pos = Plus(pos, 0) /\ 0 \in 0 .. ct
        BY <1>1, PlusIs
    <2> QED
        BY <2>1, <1>1, RegionsApart
<1> QED
    BY <1>2, <1>3, <1>4, CellNext

\* So do the bytes of the packet delivered, but for the one taken.
LEMMA UnreadKept ==
    ASSUME IInv, NEW a \in BOOLEAN, Memory(a), cstate = "d", NEW k \in 0 .. ct, k >= 1 \/ ~a
    PROVE  mem'[Plus(pos, k)] = mem[Plus(pos, k)]
<1>1. /\ k \in 0 .. Depth - 1 /\ 0 \in 0 .. Depth - 1 /\ pos \in Addr
      /\ Plus(pos, k) \in Addr
    <2>1. k \in 0 .. Depth - 1 /\ 0 \in 0 .. Depth - 1 /\ pos \in Addr
        BY DepthAssumption DEF IInv, TypeOK, Addr
    <2> QED
        BY <2>1, PlusIs
<1>2. WrEnable => Plus(pos, k) # WrAddr
    BY Apart DEF NoOverrun, Unread
<1>3. a => Plus(pos, k) # pos
    <2>1. Plus(pos, 0) = pos /\ (Plus(pos, k) = Plus(pos, 0) => k = 0)
        BY <1>1, PlusIs
    <2> QED
        BY <2>1
<1> QED
    BY <1>1, <1>2, <1>3, CellNext

LEMMA HeaderKept ==
    ASSUME IInv, HeaderInv, NEW a \in BOOLEAN, Clock(a)
    PROVE  HeaderInv'
<1>1. Producer /\ Markers /\ Memory(a)
    BY DEF Clock
<1>2. CASE pstate \in HeaderStates
    <2>1. /\ pstate' = NextHeaderState[pstate] /\ ph' = ph /\ size' = size /\ flags' = flags
          /\ pktTs' = pktTs
        BY <1>1, <1>2 DEF Producer, IdleStart, IdleStuff, IdleDrop, IdleWait, IdleTake, DataTruncate,
               DataByte, DataWrite, DataRxcmd, DataWait, WaitDone, WriteHdr, Send, SendWait,
               OutAddrAck, HeaderStates, HeaderOffset, Markers, SinkAck
    <2>2. HeaderDone = HeaderOffset[pstate] /\ HeaderDone' = HeaderOffset[pstate] + 1
        BY <1>2, <2>1 DEF HeaderDone, HeaderStates, HeaderOffset, NextHeaderState
    <2>3. WrEnable /\ ~DataWrite /\ pstate # "IDLE"
        BY <1>2 DEF WrEnable, DataWrite, HeaderStates, HeaderOffset
    <2>4. ASSUME NEW s \in HeaderStates, HeaderOffset[s] < HeaderOffset[pstate] + 1
          PROVE  mem'[Plus(ph, HeaderOffset[s])] = HeaderCell(s, flags, size, pktTs)
        <3>1. HeaderOffset[s] \in 0 .. 7 /\ HeaderOffset[pstate] \in 0 .. 7
            BY <1>2, Offsets
        <3>2. CASE s = pstate
            <4>1. WrAddr = Plus(ph, HeaderOffset[s]) /\ WrAddr \in Addr
                BY <2>3, <3>2, WrittenAt
            <4>2. WrCell = HeaderCell(s, flags, size, pktTs)
                BY <2>3, <3>2 DEF WrCell
            <4> QED
                BY <1>1, <2>3, <4>1, <4>2, CellNext
        <3>3. CASE s # pstate
            <4>1. HeaderOffset[s] # HeaderOffset[pstate] /\ HeaderOffset[s] \in 0 .. 7 + size
                BY <1>2, <3>1, <3>3, Offsets DEF IInv, TypeOK
            <4>2. mem'[Plus(ph, HeaderOffset[s])] = mem[Plus(ph, HeaderOffset[s])]
                BY <1>1, <2>3, <4>1, PacketKept
            <4>3. HeaderOffset[s] < HeaderDone
                BY <2>2, <2>4, <3>1, <4>1
            <4> QED
                BY <4>2, <4>3 DEF HeaderInv
        <3> QED
            BY <3>2, <3>3
    <2> QED
        BY <2>1, <2>2, <2>4 DEF HeaderInv, Plus
<1>3. CASE pstate = "SEND" /\ ~OutAddrAck
    <2>1. pstate' = "SEND" /\ ph' = ph /\ size' = size /\ flags' = flags /\ pktTs' = pktTs
        BY <1>1, <1>3 DEF Producer, IdleStart, IdleStuff, IdleDrop, IdleWait, IdleTake, DataTruncate,
               DataByte, DataWrite, DataRxcmd, DataWait, WaitDone, WriteHdr, Send, SendWait,
               HeaderStates, HeaderOffset, Markers, SinkAck, producerVars
    <2>2. HeaderDone = 8 /\ ~WrEnable /\ pstate # "IDLE"
        BY <1>3 DEF HeaderDone, WrEnable, DataWrite, HeaderStates, HeaderOffset
    <2>3. ASSUME NEW s \in HeaderStates
          PROVE  mem'[Plus(ph, HeaderOffset[s])] = HeaderCell(s, flags, size, pktTs)
        <3>1. HeaderOffset[s] \in 0 .. 7 /\ HeaderOffset[s] \in 0 .. 7 + size
            BY Offsets DEF IInv, TypeOK
        <3>2. mem'[Plus(ph, HeaderOffset[s])] = mem[Plus(ph, HeaderOffset[s])]
            BY <1>1, <2>2, <3>1, PacketKept
        <3> QED
            BY <2>2, <3>1, <3>2 DEF HeaderInv
    <2> QED
        BY <2>1, <2>3 DEF HeaderInv, Plus
<1>4. CASE pstate \notin HeaderStates /\ ~(pstate = "SEND" /\ ~OutAddrAck)
    <2>1. pstate' \in {"IDLE", "DATA", "waitdone", "WH0"}
        BY <1>1, <1>4 DEF Producer, IdleStart, IdleStuff, IdleDrop, IdleWait, IdleTake, DataTruncate,
               DataByte, DataWrite, DataRxcmd, DataWait, WaitDone, WriteHdr, Send, SendWait,
               producerVars
    <2>2. HeaderDone' = 0
        BY <2>1 DEF HeaderDone, HeaderStates, HeaderOffset
    <2> QED
        BY <2>2, Offsets DEF HeaderInv
<1> QED
    BY <1>2, <1>3, <1>4

LEMMA HeaderInvHolds == Spec => []HeaderInv
<1>1. Init => HeaderInv
    <2> SUFFICES ASSUME Init PROVE HeaderInv
        OBVIOUS
    <2>1. HeaderDone = 0
        BY DEF Init, HeaderDone, HeaderStates, HeaderOffset
    <2> QED
        BY <2>1, Offsets DEF HeaderInv
<1>2. IInv /\ HeaderInv /\ [Next]_vars => HeaderInv'
    <2>1. ASSUME HeaderInv, UNCHANGED vars PROVE HeaderInv'
        BY <2>1 DEF HeaderInv, HeaderDone, Plus, vars, producerVars, markerVars
    <2> QED
        BY <2>1, HeaderKept DEF Next
<1> QED
    BY <1>1, <1>2, IInvHolds, PTL DEF Spec
-----------------------------------------------------------------------------
(* The mapping, and the steps.                                             *)

BodyNow == [k \in 1 .. size |-> mem[Plus(ph, 7 + k)]]
OutNow  == [k \in 1 .. ct + 1 |-> mem[Plus(pos, k - 1)]]

StreamStep == [Stream!Next]_<< StreamPhase, StreamBody, StreamFlags, StreamOut >>

\* What a memory holds.
Contents(m) == {m[b] : b \in Addr}

\* Bytes read from consecutive addresses, from the first one or behind a header.
LEMMA ReadFrom ==
    ASSUME NEW m, NEW p \in Addr, NEW n \in 0 .. Depth - 1, NEW f,
           f = [k \in 1 .. n |-> m[Plus(p, k - 1)]]
    PROVE  /\ f \in Seq(Contents(m)) /\ Len(f) = n
           /\ \A k \in 1 .. n : f[k] = m[Plus(p, k - 1)]
<1>1. ASSUME NEW k \in 1 .. n PROVE m[Plus(p, k - 1)] \in Contents(m)
    BY PlusIs, DepthAssumption DEF Contents
<1>2. n \in Nat
    BY DepthAssumption
<1>3. [k \in 1 .. n |-> m[Plus(p, k - 1)]] \in Seq(Contents(m))
    BY <1>1, <1>2
<1> QED
    BY <1>2, <1>3

LEMMA ReadBehind ==
    ASSUME NEW m, NEW p \in Addr, NEW n \in 0 .. Depth - 9, NEW f,
           f = [k \in 1 .. n |-> m[Plus(p, 7 + k)]]
    PROVE  /\ f \in Seq(Contents(m)) /\ Len(f) = n
           /\ \A k \in 1 .. n : f[k] = m[Plus(p, 7 + k)]
<1>1. ASSUME NEW k \in 1 .. n PROVE m[Plus(p, 7 + k)] \in Contents(m)
    BY PlusIs, DepthAssumption DEF Contents
<1>2. n \in Nat
    BY DepthAssumption
<1>3. [k \in 1 .. n |-> m[Plus(p, 7 + k)]] \in Seq(Contents(m))
    BY <1>1, <1>2
<1> QED
    BY <1>2, <1>3

\* The lengths and addresses those are used with.
Lengths == /\ pos \in Addr /\ ph \in Addr /\ size \in 0 .. MaxPacket
           /\ cstate = "d" => ct + 1 \in 1 .. Depth - 1
           /\ pstate # "IDLE" => size \in 0 .. Depth - 10

LEMMA LengthsAre == IInv => Lengths
<1> SUFFICES ASSUME IInv PROVE Lengths
    OBVIOUS
<1>1. /\ pos \in Addr /\ ph \in Addr /\ size \in 0 .. MaxPacket /\ ct \in 0 .. Depth - 1
    BY DEF IInv, TypeOK, Addr
<1>2. cstate = "d" => ct + 1 <= MaxPacket + 8
    BY DEF IInv, RingInv, Occupied
<1> QED
    BY <1>1, <1>2, WrittenAt, DepthAssumption DEF Lengths

LEMMA BodyIs ==
    ASSUME IInv, pstate # "IDLE"
    PROVE  /\ BodyNow \in Seq(Contents(mem)) /\ Len(BodyNow) = size
           /\ \A k \in 1 .. size : BodyNow[k] = mem[Plus(ph, 7 + k)]
    BY LengthsAre, ReadBehind, DepthAssumption DEF Lengths, BodyNow

LEMMA OutIs ==
    ASSUME IInv, cstate = "d"
    PROVE  /\ OutNow \in Seq(Contents(mem)) /\ Len(OutNow) = ct + 1
           /\ \A k \in 1 .. ct + 1 : OutNow[k] = mem[Plus(pos, k - 1)]
<1>1. pos \in Addr /\ ct + 1 \in 0 .. Depth - 1
    BY LengthsAre, DepthAssumption DEF Lengths
<1>2. OutNow = [k \in 1 .. ct + 1 |-> mem[Plus(pos, k - 1)]]
    BY DEF OutNow
<1> QED
    BY <1>1, <1>2, ReadFrom

LEMMA LengthsNext == IInv' => Lengths'
    BY LengthsAre, PTL

LEMMA BodyNext ==
    ASSUME IInv', pstate' # "IDLE"
    PROVE  /\ BodyNow' \in Seq(Contents(mem')) /\ Len(BodyNow') = size'
           /\ \A k \in 1 .. size' : BodyNow'[k] = mem'[Plus(ph', 7 + k)]
<1>1. BodyNow' = [k \in 1 .. size' |-> mem'[Plus(ph', 7 + k)]]
    BY DEF BodyNow, Plus
<1>2. ph' \in Addr /\ size' \in 0 .. Depth - 9
    BY LengthsNext, DepthAssumption DEF Lengths, Addr
<1> DEFINE n == size'
           p == ph'
           m == mem'
           f == BodyNow'
<1>3. p \in Addr /\ n \in 0 .. Depth - 9 /\ f = [k \in 1 .. n |-> m[Plus(p, 7 + k)]]
    BY <1>1, <1>2
<1> HIDE DEF n, p, m, f
<1>4. f \in Seq(Contents(m)) /\ Len(f) = n /\ \A k \in 1 .. n : f[k] = m[Plus(p, 7 + k)]
    BY <1>3, ReadBehind
<1> QED
    BY <1>4 DEF n, p, m, f

LEMMA OutNext ==
    ASSUME IInv', cstate' = "d"
    PROVE  /\ OutNow' \in Seq(Contents(mem')) /\ Len(OutNow') = ct' + 1
           /\ \A k \in 1 .. ct' + 1 : OutNow'[k] = mem'[Plus(pos', k - 1)]
<1>1. OutNow' = [k \in 1 .. ct' + 1 |-> mem'[Plus(pos', k - 1)]]
    BY DEF OutNow, Plus
<1>2. pos' \in Addr /\ ct' + 1 \in 0 .. Depth - 1
    BY LengthsNext, DepthAssumption DEF Lengths, Addr
<1> QED
    BY <1>1, <1>2, ReadFrom

\* A packet not being written to keeps its payload; a byte taken is the last.
LEMMA BodyKept ==
    ASSUME IInv, IInv', NEW a \in BOOLEAN, Memory(a), pstate # "IDLE", pstate' # "IDLE",
           ph' = ph, size' = size
    PROVE  BodyNow' = BodyNow
<1> DEFINE S == Contents(mem) \cup Contents(mem')
<1>1. /\ BodyNow \in Seq(S) /\ Len(BodyNow) = size
      /\ \A k \in 1 .. size : BodyNow[k] = mem[Plus(ph, 7 + k)]
    BY BodyIs, SeqMonotonic
<1>2. /\ BodyNow' \in Seq(S) /\ Len(BodyNow') = size
      /\ \A k \in 1 .. size : BodyNow'[k] = mem'[Plus(ph, 7 + k)]
    BY BodyNext, SeqMonotonic
<1>3. ASSUME NEW k \in 1 .. size PROVE mem'[Plus(ph, 7 + k)] = mem[Plus(ph, 7 + k)]
    <2>1. size \in Nat
        BY DEF IInv, TypeOK
    <2>2. 7 + k \in 0 .. 7 + size
        BY <2>1
    <2>3. WrEnable /\ ~DataWrite => 7 + k # HeaderOffset[pstate]
        BY <2>1, WrittenAt, Offsets
    <2> QED
        BY <2>2, <2>3, PacketKept
<1> HIDE DEF S
<1> QED
    BY <1>1, <1>2, <1>3, SeqEqual

LEMMA BodyGrows ==
    ASSUME IInv, IInv', NEW a \in BOOLEAN, Memory(a), DataByte
    PROVE  BodyNow' = Append(BodyNow, DataCell(sink.val))
<1> DEFINE c == DataCell(sink.val)
           S == Contents(mem) \cup Contents(mem') \cup {c}
<1>1. /\ DataWrite /\ WrEnable /\ pstate = "DATA" /\ pstate' = "DATA"
      /\ ph' = ph /\ size' = size + 1 /\ size \in Nat
    BY DEF DataByte, DataWrite, WrEnable, IInv, TypeOK
<1>2. /\ BodyNow \in Seq(S) /\ Len(BodyNow) = size
      /\ \A k \in 1 .. size : BodyNow[k] = mem[Plus(ph, 7 + k)]
    BY <1>1, BodyIs, SeqMonotonic
<1>3. /\ BodyNow' \in Seq(S) /\ Len(BodyNow') = size + 1
      /\ \A k \in 1 .. size + 1 : BodyNow'[k] = mem'[Plus(ph, 7 + k)]
    BY <1>1, BodyNext, SeqMonotonic
<1>4. ASSUME NEW k \in 1 .. size PROVE mem'[Plus(ph, 7 + k)] = mem[Plus(ph, 7 + k)]
    <2>1. 7 + k \in 0 .. 7 + size
        BY <1>1
    <2> QED
        BY <1>1, <2>1, PacketKept
<1>5. mem'[Plus(ph, 7 + (size + 1))] = c
    <2>1. WrAddr = Plus(ph, 8 + size) /\ WrAddr \in Addr /\ WrCell = c
        BY <1>1, WrittenAt DEF WrCell
    <2>2. 7 + (size + 1) = 8 + size
        BY <1>1
    <2> QED
        BY <1>1, <2>1, <2>2, CellNext
<1>6. c \in S
    OBVIOUS
<1> HIDE DEF S, c
<1> DEFINE t == Append(BodyNow, c)
<1>7. /\ t \in Seq(S) /\ Len(t) = size + 1 /\ t[size + 1] = c
      /\ \A k \in 1 .. size : t[k] = BodyNow[k]
    BY <1>1, <1>2, <1>6, AppendProperties
<1>8. ASSUME NEW k \in 1 .. size + 1 PROVE BodyNow'[k] = t[k]
    <2>1. CASE k = size + 1
        BY <1>1, <1>3, <1>5, <1>7, <2>1
    <2>2. CASE k \in 1 .. size
        BY <1>1, <1>2, <1>3, <1>4, <1>7, <2>2
    <2>3. k = size + 1 \/ k \in 1 .. size
        BY <1>1
    <2> QED
        BY <2>1, <2>2, <2>3
<1> HIDE DEF t
<1>9. BodyNow' = t
    BY <1>1, <1>3, <1>7, <1>8, SeqEqual
<1> QED
    BY <1>9 DEF t, c

\* The consumer passes on the first byte left, or none.
LEMMA OutStep ==
    ASSUME IInv, IInv', NEW a \in BOOLEAN, Clock(a), ~OutAddrAck
    PROVE  \/ StreamOut # << >> /\ StreamOut' = Tail(StreamOut)
           \/ StreamOut' = StreamOut
<1>1. Memory(a) /\ Consumer(a)
    BY DEF Clock
<1>2. pos \in Addr /\ ct \in Nat /\ ct < Depth /\ Depth \in Nat
    BY DepthAssumption DEF IInv, TypeOK, Addr
<1> DEFINE S == Contents(mem) \cup Contents(mem')
<1>3. cstate = "d" =>
         /\ OutNow \in Seq(S) /\ Len(OutNow) = ct + 1 /\ OutNow # << >>
         /\ \A k \in 1 .. ct + 1 : OutNow[k] = mem[Plus(pos, k - 1)]
    <2>1. cstate = "d" => OutNow \in Seq(S)
        BY OutIs, SeqMonotonic
    <2> QED
        BY <1>2, <2>1, OutIs, EmptySeq
<1>4. cstate' = "d" =>
         /\ OutNow' \in Seq(S) /\ Len(OutNow') = ct' + 1
         /\ \A k \in 1 .. ct' + 1 : OutNow'[k] = mem'[Plus(pos', k - 1)]
    <2>1. cstate' = "d" => OutNow' \in Seq(S)
        BY OutNext, SeqMonotonic
    <2> QED
        BY <2>1, OutNext
<1>5. << >> \in Seq(S) /\ Len(<< >>) = 0
    BY EmptySeq
<1> HIDE DEF S
<1>6. CASE ConsumerIdle
    BY <1>6 DEF ConsumerIdle, consumerVars, StreamOut
<1>7. CASE a /\ ConsumerNext
    <2>1. cstate = "d" /\ cstate' = "d" /\ pos' = Plus(pos, 1) /\ ct' = ct - 1 /\ ct # 0
        BY <1>7 DEF ConsumerNext
    <2> DEFINE t == Tail(OutNow)
    <2>2. /\ t \in Seq(S) /\ Len(t) = ct
          /\ \A k \in 1 .. ct : t[k] = OutNow[k + 1]
        <3>1. OutNow \in Seq(S) /\ OutNow # << >> /\ Len(OutNow) = ct + 1
            BY <1>3, <2>1
        <3>2. t \in Seq(S) /\ Len(t) = Len(OutNow) - 1 /\ \A k \in 1 .. Len(t) : t[k] = OutNow[k + 1]
            BY <3>1, HeadTailProperties
        <3> QED
            BY <1>2, <3>1, <3>2
    <2>3. ct' + 1 = ct
        BY <1>2, <2>1
    <2>4. ASSUME NEW k \in 1 .. ct PROVE OutNow'[k] = t[k]
        <3>1. OutNow'[k] = mem'[Plus(pos', k - 1)]
            BY <1>4, <2>1, <2>3
        <3>2. Plus(pos', k - 1) = Plus(pos, k)
            BY <1>2, <2>1, PlusIs
        <3>3. mem'[Plus(pos, k)] = mem[Plus(pos, k)]
            BY <1>1, <1>2, <2>1, UnreadKept
        <3>4. OutNow[k + 1] = mem[Plus(pos, k)]
            <4>1. k + 1 \in 1 .. ct + 1 /\ (k + 1) - 1 = k
                BY <1>2
            <4> QED
                BY <1>3, <2>1, <4>1
        <3> QED
            BY <2>2, <3>1, <3>2, <3>3, <3>4
    <2> HIDE DEF t
    <2>5. OutNow' = t
        BY <1>4, <2>1, <2>2, <2>3, <2>4, SeqEqual
    <2> QED
        BY <1>3, <2>1, <2>5 DEF StreamOut, OutNow, t
<1>8. CASE a /\ ConsumerLast
    <2>1. cstate = "d" /\ cstate' = "IDLE" /\ ct = 0
        BY <1>8 DEF ConsumerLast
    <2>2. OutNow \in Seq(S) /\ OutNow # << >> /\ Len(OutNow) = 1
        BY <1>3, <2>1
    <2>3. Tail(OutNow) \in Seq(S) /\ Len(Tail(OutNow)) = 0
        BY <2>2, HeadTailProperties
    <2>4. Tail(OutNow) = << >>
        BY <2>3, EmptySeq
    <2> QED
        BY <2>1, <2>2, <2>4 DEF StreamOut, OutNow
<1>9. CASE ~a /\ ConsumerHold
    <2>1. cstate = "d" /\ cstate' = "d" /\ pos' = pos /\ ct' = ct
        BY <1>9 DEF ConsumerHold, consumerVars
    <2>2. ASSUME NEW k \in 1 .. ct + 1 PROVE OutNow'[k] = OutNow[k]
        <3>1. k - 1 \in 0 .. ct
            BY <1>2
        <3>2. mem'[Plus(pos, k - 1)] = mem[Plus(pos, k - 1)]
            BY <1>1, <1>9, <2>1, <3>1, UnreadKept
        <3> QED
            BY <1>3, <1>4, <2>1, <3>2
    <2>3. OutNow' = OutNow
        BY <1>3, <1>4, <2>1, <2>2, SeqEqual
    <2> QED
        BY <2>1, <2>3 DEF StreamOut, OutNow
<1> QED
    BY <1>1, <1>6, <1>7, <1>8, <1>9 DEF Consumer, ConsumerTake

\* Each step of the producer is one of the assembly or none.
LEMMA AssemblyStep ==
    ASSUME IInv, IInv', NEW a \in BOOLEAN, Clock(a), ~OutAddrAck
    PROVE  Stream!Assemble \/ UNCHANGED << StreamPhase, StreamBody, StreamFlags >>
<1>1. Producer /\ Memory(a) /\ size \in Nat
    BY DEF Clock, IInv, TypeOK
<1>2. pstate # "IDLE" => Len(BodyNow) = size /\ size <= MaxPacket
    BY BodyIs DEF IInv, TypeOK
<1>3. CASE IdleStart
    <2>1. /\ pstate = "IDLE" /\ pstate' = "DATA" /\ size' = 0 /\ flags' = FlagsIni
        BY <1>3 DEF IdleStart, IdleTake, SetUp
    <2>2. BodyNow' = << >>
        <3>1. Len(BodyNow') = 0 /\ BodyNow' \in Seq(Contents(mem'))
            BY <2>1, BodyNext
        <3> QED
            BY <3>1, EmptySeq
    <2>3. FlagsIni \in SUBSET MarkerFlags
        BY DEF FlagsIni, MarkerFlags
    <2>4. StreamPhase = "idle" /\ StreamPhase' = "open" /\ StreamBody' = << >> /\ StreamFlags' = FlagsIni
        BY <2>1, <2>2 DEF StreamPhase, StreamBody, StreamFlags, BodyNow
    <2>5. Stream!Open
        BY <2>3, <2>4 DEF Stream!Open, Stream!MarkerFlags, MarkerFlags
    <2> QED
        BY <2>5 DEF Stream!Assemble
<1>4. CASE IdleStuff
    <2>1. /\ pstate = "IDLE" /\ pstate' = "WH0" /\ size' = 0 /\ flags' = FlagsIni /\ StuffPacket
        BY <1>4 DEF IdleStuff, IdleTake, SetUp
    <2>2. BodyNow' = << >>
        <3>1. Len(BodyNow') = 0 /\ BodyNow' \in Seq(Contents(mem'))
            BY <2>1, BodyNext
        <3> QED
            BY <3>1, EmptySeq
    <2>3. FlagsIni \in (SUBSET MarkerFlags) \ {{}}
        <3>1. FlagsIni \in SUBSET MarkerFlags
            BY DEF FlagsIni, MarkerFlags
        <3>2. "FIRST" \in FlagsIni \/ "LAST" \in FlagsIni
            BY <2>1 DEF FlagsIni, StuffPacket
        <3>3. FlagsIni # {}
            BY <3>2
        <3> QED
            BY <3>1, <3>3
    <2>4. StreamPhase = "idle" /\ StreamPhase' = "closed" /\ StreamBody' = << >> /\ StreamFlags' = FlagsIni
        BY <2>1, <2>2 DEF StreamPhase, StreamBody, StreamFlags, BodyNow
    <2>5. Stream!Stuff
        BY <2>3, <2>4 DEF Stream!Stuff, Stream!MarkerFlags, MarkerFlags
    <2> QED
        BY <2>5 DEF Stream!Assemble
<1>5. CASE IdleDrop \/ IdleWait
    <2>1. pstate = "IDLE" /\ pstate' = "IDLE"
        BY <1>5 DEF IdleDrop, IdleWait, IdleTake, producerVars
    <2> QED
        BY <2>1 DEF StreamPhase, StreamBody, StreamFlags, BodyNow
<1>6. CASE DataByte
    <2>1. /\ pstate = "DATA" /\ pstate' = "DATA" /\ flags' = flags /\ size < MaxPacket
          /\ sink.tag = "data"
        BY <1>6 DEF DataByte, DataWrite
    <2>2. sink.val \in Data
        BY <2>1 DEF IInv, TypeOK, Item, NoItem
    <2>3. BodyNow' = Append(BodyNow, DataCell(sink.val))
        BY <1>1, <1>6, BodyGrows
    <2>4. /\ StreamPhase = "open" /\ StreamPhase' = "open" /\ StreamFlags' = StreamFlags
          /\ StreamBody = BodyNow /\ StreamBody' = BodyNow'
        BY <2>1 DEF StreamPhase, StreamBody, StreamFlags, BodyNow
    <2>5. Stream!Append1
        BY <1>2, <2>1, <2>2, <2>3, <2>4
        DEF Stream!Append1, Stream!DataCell, DataCell
    <2> QED
        BY <2>5 DEF Stream!Assemble
<1>7. CASE DataTruncate \/ DataRxcmd
    <2>1. /\ pstate = "DATA" /\ pstate' \in {"WH0", "waitdone"} /\ ph' = ph /\ size' = size
        BY <1>7 DEF DataTruncate, DataRxcmd
    <2>2. BodyNow' = BodyNow
        BY <1>1, <2>1, BodyKept
    <2>3. \/ Len(BodyNow) = MaxPacket /\ flags' = flags \cup {"TRUNC"}
          \/ Len(BodyNow) < MaxPacket /\ \E e \in {{}, {"ERR"}, {"OVF"}} : flags' = flags \cup e
        <3>1. CASE DataTruncate
            BY <1>1, <1>2, <2>1, <3>1, DepthAssumption DEF DataTruncate
        <3>2. CASE DataRxcmd
            <4>1. size < MaxPacket /\ Len(BodyNow) = size
                BY <1>2, <2>1, <3>2 DEF DataRxcmd
            <4>2. CASE sink.tag \in {"start", "ovf"}
                BY <3>2, <4>1, <4>2 DEF DataRxcmd
            <4>3. CASE sink.tag = "err"
                BY <3>2, <4>1, <4>3 DEF DataRxcmd
            <4>4. CASE sink.tag \notin {"start", "ovf", "err"}
                BY <3>2, <4>1, <4>4 DEF DataRxcmd
            <4> QED
                BY <4>2, <4>3, <4>4
        <3> QED
            BY <1>7, <3>1, <3>2
    <2>4. /\ StreamPhase = "open" /\ StreamPhase' = "closed" /\ StreamBody = BodyNow /\ StreamBody' = BodyNow
          /\ StreamFlags = flags /\ StreamFlags' = flags'
        BY <2>1, <2>2 DEF StreamPhase, StreamBody, StreamFlags, BodyNow
    <2>5. Stream!Close
        BY <2>3, <2>4 DEF Stream!Close
    <2> QED
        BY <2>5 DEF Stream!Assemble
<1>8. CASE DataWait \/ WaitDone \/ WriteHdr \/ SendWait
    <2>1. /\ pstate # "IDLE" /\ pstate' # "IDLE" /\ (pstate = "DATA" <=> pstate' = "DATA")
          /\ ph' = ph /\ size' = size /\ flags' = flags
        BY <1>8 DEF DataWait, WaitDone, WriteHdr, SendWait, producerVars, HeaderStates, HeaderOffset,
               NextHeaderState
    <2>2. BodyNow' = BodyNow
        BY <1>1, <2>1, BodyKept
    <2> QED
        BY <2>1, <2>2 DEF StreamPhase, StreamBody, StreamFlags, BodyNow
<1> QED
    BY <1>1, <1>3, <1>4, <1>5, <1>6, <1>7, <1>8 DEF Producer, Send

\* The packet handed over is header and payload, as the memory has them.
LEMMA HandOverStep ==
    ASSUME IInv, IInv', HeaderInv, NEW a \in BOOLEAN, Clock(a), OutAddrAck
    PROVE  Stream!HandOver
<1>1. Producer /\ Consumer(a) /\ Memory(a) /\ pstate = "SEND" /\ cstate = "IDLE"
    BY DEF Clock, OutAddrAck
<1>2. pstate' = "IDLE" /\ pos' = ph /\ ct' = Minus(Plus(size, 8), 1) /\ cstate' = "d"
    BY <1>1 DEF Producer, IdleStart, IdleStuff, IdleDrop, IdleWait, IdleTake, DataTruncate, DataByte,
           DataWrite, DataRxcmd, DataWait, WaitDone, WriteHdr, Send, SendWait, HeaderStates,
           HeaderOffset, OutAddrAck, Consumer, ConsumerTake, ConsumerIdle, ConsumerNext,
           ConsumerLast, ConsumerHold
<1>3. /\ size \in Nat /\ 8 + size < Depth - 1 /\ Depth \in Nat /\ ph \in Addr
      /\ pktTs \in Timestamps \cup {None}
    BY <1>1, WrittenAt, DepthAssumption DEF IInv, TypeOK
<1>4. ct' + 1 = size + 8
    BY <1>2, <1>3 DEF Plus, Minus
<1>5. ASSUME NEW b \in Addr PROVE mem'[b] = mem[b]
    <2>1. ~WrEnable
        BY <1>1 DEF WrEnable, DataWrite, HeaderStates, HeaderOffset
    <2> QED
        BY <1>1, <2>1, CellNext
<1> DEFINE h == Header(flags, size, pktTs)
           H == {h[i] : i \in 1 .. 8}
           S == Contents(mem) \cup Contents(mem') \cup H
           t == h \o BodyNow
<1>6. h \in Seq(S) /\ Len(h) = 8
    <2>1. h = [i \in 1 .. 8 |-> h[i]]
        BY DEF Header
    <2>2. \A i \in 1 .. 8 : h[i] \in S
        OBVIOUS
    <2> HIDE DEF h, S
    <2>3. [i \in 1 .. 8 |-> h[i]] \in Seq(S)
        BY <2>2
    <2>4. Len([i \in 1 .. 8 |-> h[i]]) = 8
        OBVIOUS
    <2> QED
        BY <2>1, <2>3, <2>4
<1>7. BodyNow \in Seq(S) /\ Len(BodyNow) = size /\ \A k \in 1 .. size : BodyNow[k] = mem[Plus(ph, 7 + k)]
    BY <1>1, BodyIs, SeqMonotonic
<1>8. /\ OutNow' \in Seq(S) /\ Len(OutNow') = size + 8
      /\ \A k \in 1 .. size + 8 : OutNow'[k] = mem'[Plus(ph, k - 1)]
    BY <1>2, <1>4, OutNext, SeqMonotonic
<1>9. ASSUME NEW i \in 1 .. 8 PROVE mem[Plus(ph, i - 1)] = h[i]
    <2>1. HeaderDone = 8
        BY <1>1 DEF HeaderDone, HeaderStates, HeaderOffset
    <2>2. \A s \in HeaderStates : mem[Plus(ph, HeaderOffset[s])] = HeaderCell(s, flags, size, pktTs)
        BY <2>1, Offsets DEF HeaderInv
    <2>3. /\ mem[Plus(ph, 0)] = HeaderCell("WH0", flags, size, pktTs)
          /\ mem[Plus(ph, 1)] = HeaderCell("WRF0", flags, size, pktTs)
          /\ mem[Plus(ph, 2)] = HeaderCell("WRF1", flags, size, pktTs)
          /\ mem[Plus(ph, 3)] = HeaderCell("WRSL", flags, size, pktTs)
          /\ mem[Plus(ph, 4)] = HeaderCell("WRSH", flags, size, pktTs)
          /\ mem[Plus(ph, 5)] = HeaderCell("WRTL", flags, size, pktTs)
          /\ mem[Plus(ph, 6)] = HeaderCell("WRTM", flags, size, pktTs)
          /\ mem[Plus(ph, 7)] = HeaderCell("WRTH", flags, size, pktTs)
        BY <2>2 DEF HeaderStates, HeaderOffset
    <2> QED
        BY <2>3 DEF Header
<1> HIDE DEF h, H, S
<1>10. /\ t \in Seq(S) /\ Len(t) = size + 8
       /\ \A k \in 1 .. size + 8 : t[k] = IF k <= 8 THEN h[k] ELSE BodyNow[k - 8]
    <2>1. /\ t \in Seq(S) /\ Len(t) = Len(h) + Len(BodyNow)
          /\ \A k \in 1 .. Len(h) + Len(BodyNow) :
                 t[k] = IF k <= Len(h) THEN h[k] ELSE BodyNow[k - Len(h)]
        BY <1>6, <1>7, ConcatProperties
    <2>2. Len(h) = 8 /\ Len(BodyNow) = size /\ 8 + size = size + 8
        BY <1>3, <1>6, <1>7
    <2> HIDE DEF t
    <2> QED
        BY <2>1, <2>2
<1>11. ASSUME NEW k \in 1 .. size + 8 PROVE OutNow'[k] = t[k]
    <2>1. Plus(ph, k - 1) \in Addr
        <3>1. k - 1 \in 0 .. Depth - 1
            BY <1>3
        <3> QED
            BY <1>3, <3>1, PlusIs
    <2>2. OutNow'[k] = mem[Plus(ph, k - 1)]
        BY <1>5, <1>8, <2>1
    <2>3. CASE k <= 8
        <3>1. k \in 1 .. 8
            BY <1>3, <2>3
        <3> QED
            BY <1>9, <1>10, <2>2, <2>3, <3>1
    <2>4. CASE ~(k <= 8)
        <3>1. k - 8 \in 1 .. size /\ 7 + (k - 8) = k - 1
            BY <1>3, <2>4
        <3>2. BodyNow[k - 8] = mem[Plus(ph, k - 1)]
            BY <1>7, <3>1
        <3> QED
            BY <1>10, <2>2, <2>4, <3>2
    <2> QED
        BY <2>3, <2>4
<1> HIDE DEF t
<1>12. OutNow' = t
    BY <1>8, <1>10, <1>11, SeqEqual
<1>13. /\ StreamPhase = "closed" /\ StreamBody = BodyNow /\ StreamFlags = flags /\ StreamOut = << >>
       /\ StreamPhase' = "idle" /\ StreamBody' = << >> /\ StreamFlags' = {} /\ StreamOut' = OutNow'
    BY <1>1, <1>2 DEF StreamPhase, StreamBody, StreamFlags, StreamOut, BodyNow, OutNow
<1>14. OutNow' = Stream!Header(flags, size, pktTs) \o BodyNow
    BY <1>12 DEF t, h, Header, HeaderCell, Stream!Header, Stream!HeaderCell
<1>15. \E ts \in Timestamps \cup {None} :
           StreamOut' = Stream!Header(StreamFlags, Len(StreamBody), ts) \o StreamBody
    BY <1>3, <1>7, <1>13, <1>14
<1> QED
    BY <1>13, <1>15 DEF Stream!HandOver

\* A clock is a step of the assembly, of the delivery, of both, or none; or the
\* packet is handed over.
LEMMA StreamNext ==
    ASSUME IInv, IInv', HeaderInv, [Next]_vars
    PROVE  StreamStep
<1>1. CASE UNCHANGED vars
    <2>1. UNCHANGED << StreamPhase, StreamBody, StreamFlags, StreamOut >>
        BY <1>1 DEF vars, producerVars, consumerVars, StreamPhase, StreamBody, StreamFlags, StreamOut, Plus
    <2> QED
        BY <2>1 DEF StreamStep
<1>2. ASSUME NEW a \in BOOLEAN, Clock(a) PROVE StreamStep
    <2>1. CASE OutAddrAck
        BY <1>2, <2>1, HandOverStep DEF StreamStep, Stream!Next
    <2>2. CASE ~OutAddrAck
        <3>1. Stream!Assemble \/ UNCHANGED << StreamPhase, StreamBody, StreamFlags >>
            BY <1>2, <2>2, AssemblyStep
        <3>2. \/ StreamOut # << >> /\ StreamOut' = Tail(StreamOut)
              \/ StreamOut' = StreamOut
            BY <1>2, <2>2, OutStep
        <3>3. Stream!Emit \/ UNCHANGED StreamOut
            BY <3>2 DEF Stream!Emit
        <3> QED
            BY <3>1, <3>3 DEF StreamStep, Stream!Next, Stream!assembly
    <2> QED
        BY <2>1, <2>2
<1> QED
    BY <1>1, <1>2 DEF Next

LEMMA StreamStart == Init => Stream!Init
    BY DEF Init, Stream!Init, StreamPhase, StreamBody, StreamFlags, StreamOut

\* The whacker, with its ring, its header writer and its consumer, implements
\* PacketStream: what leaves it are whole packets, each once, in the order in
\* which they were received, under the header that their fields call for.
THEOREM ImplementsStream == Spec => StreamSpec
    BY StreamStart, StreamNext, IInvHolds, HeaderInvHolds, PTL
    DEF Spec, StreamSpec, Stream!Spec, Stream!vars, StreamStep
=============================================================================
