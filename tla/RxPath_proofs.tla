---------------------------- MODULE RxPath_proofs ----------------------------
(***************************************************************************)
(* Proofs about the receive path, for a FIFO of any depth and packets of   *)
(* any length.                                                             *)
(***************************************************************************)
EXTENDS RxPath, SequenceTheorems, TLAPS

(* What may come right after an item that lies inside a packet: the next   *)
(* byte, an RXCMD or an end at the same place, or a marker of a loss. Of   *)
(* what comes after any other item nothing is needed: it closes the packet *)
(* or finds none open.                                                     *)

Inside == {"sop", "active", "data"}

Goes(x, y) ==
    x.k \in Inside =>
        \/ y = [k |-> "data", p |-> x.p, n |-> x.n + 1]
        \/ y.k \in {"active", "eop", "nactive"} /\ y.p = x.p /\ y.n = x.n
        \/ y \in {Mark("error"), Ovf}

\* The item that will follow the FIFO, and the one that will follow the item
\* read last.
AfterFifo == IF valid THEN data ELSE item
AfterRead == IF fifo # << >> THEN fifo[1] ELSE AfterFifo

\* The place up to which the open packet has been read.
ReadTo == [k |-> "active", p |-> start.p, n |-> start.n + Len(body)]

ItemTypes ==
    /\ phy \in {"idle", "rx", "packet"}
    /\ busPkt \in 0 .. 1 /\ busLen \in 0 .. MaxBytes
    /\ stb \in BOOLEAN /\ valid \in BOOLEAN
    /\ item \in Item /\ data \in Item
    /\ fifo \in Seq(Item) /\ Len(fifo) <= Cap
    /\ filt \in {"NO_PACKET", "PACKET"}
    /\ start \in Item /\ body \in Seq(Byte)

\* No item is skipped on the way without a marker in its place.
ChainInv ==
    /\ item.k \in Inside => phy = "packet" /\ item.p = busPkt /\ item.n = busLen
    /\ valid => Goes(data, item)
    /\ fifo # << >> => Goes(fifo[Len(fifo)], AfterFifo)
    /\ \A i \in 1 .. Len(fifo) - 1 : Goes(fifo[i], fifo[i + 1])
    /\ filt = "PACKET" => Goes(ReadTo, AfterRead)
    /\ ~stb => item = Nop /\ ~valid /\ fifo = << >> /\ filt = "NO_PACKET"

\* Bytes that follow a start without a gap.
RunFrom(s, b) == \A i \in 1 .. Len(b) : b[i] = [k |-> "data", p |-> s.p, n |-> s.n + i]

BodyInv ==
    /\ filt = "NO_PACKET" => body = << >>
    /\ filt = "PACKET" => /\ start \in Start
                          /\ start.n + Len(body) <= MaxBytes
    /\ RunFrom(start, body)

ClosedInv ==
    /\ closed.start \in Item /\ closed.by \in Item /\ closed.body \in Seq(Byte)
    /\ RunFrom(closed.start, closed.body)
    /\ Clean => closed.start \in Start /\ closed.by.p = closed.start.p
                /\ closed.by.n = closed.start.n + Len(closed.body)

IInv == ItemTypes /\ ChainInv /\ BodyInv /\ ClosedInv
-----------------------------------------------------------------------------
(* Items and queues.                                                       *)

LEMMA ItemsAre ==
    /\ Nop \in Item /\ Ovf \in Item /\ Mark("error") \in Item
    /\ Nop.k = "nop" /\ Ovf.k = "ovf" /\ Mark("error").k = "error"
    /\ \A p \in 0 .. 1, n \in 0 .. MaxBytes :
          /\ \A kind \in {"sop", "active", "eop", "nactive"} : [k |-> kind, p |-> p, n |-> n] \in Item
          /\ n # 0 => [k |-> "data", p |-> p, n |-> n] \in Byte
    BY RxPathAssumption DEF Item, Start, End, Byte, Mark, Nop, Ovf

LEMMA ItemKinds ==
    ASSUME NEW x \in Item
    PROVE  /\ x.k = "data" => x \in Byte
           /\ x.k \in {"sop", "active"} => x \in Start
           /\ x.k \in {"nop", "sop", "active", "data", "eop", "nactive", "error", "ovf"}
           /\ x.p \in 0 .. 1 /\ x.n \in 0 .. MaxBytes
    BY RxPathAssumption DEF Item, Start, End, Byte, Mark

LEMMA Grown ==
    ASSUME NEW S, NEW s \in Seq(S), NEW x \in S
    PROVE  /\ Append(s, x) \in Seq(S) /\ Append(s, x) # << >>
           /\ Len(Append(s, x)) = Len(s) + 1 /\ Len(s) \in Nat
           /\ \A i \in 1 .. Len(s) : Append(s, x)[i] = s[i]
           /\ Append(s, x)[Len(s) + 1] = x
           /\ s = << >> <=> Len(s) = 0
    BY AppendProperties, LenProperties, EmptySeq

LEMMA Shrunk ==
    ASSUME NEW S, NEW s \in Seq(S), s # << >>
    PROVE  /\ Head(s) = s[1] /\ Head(s) \in S
           /\ Tail(s) \in Seq(S) /\ Len(Tail(s)) = Len(s) - 1 /\ Len(s) \in Nat \ {0}
           /\ \A i \in 1 .. Len(s) - 1 : Tail(s)[i] = s[i + 1]
           /\ Tail(s) = << >> <=> Len(s) = 1
<1>1. /\ Head(s) = s[1] /\ Head(s) \in S
      /\ Tail(s) \in Seq(S) /\ Len(Tail(s)) = Len(s) - 1
      /\ \A i \in 1 .. Len(Tail(s)) : Tail(s)[i] = s[i + 1]
    BY HeadTailProperties
<1>2. Len(s) \in Nat \ {0}
    BY EmptySeq
<1>3. Tail(s) = << >> <=> Len(Tail(s)) = 0
    BY <1>1, EmptySeq
<1> QED
    BY <1>1, <1>2, <1>3

\* A marker of a loss may follow everything.
LEMMA GoesOvf == \A x : Goes(x, Ovf) /\ Goes(Ovf, x)
    BY ItemsAre DEF Goes, Inside
-----------------------------------------------------------------------------
(* The steps.                                                              *)

LEMMA BusSteps ==
    ASSUME IInv, Bus
    PROVE  /\ phy' \in {"idle", "rx", "packet"} /\ busPkt' \in 0 .. 1 /\ busLen' \in 0 .. MaxBytes
           /\ item' \in Item /\ stb' = TRUE
           /\ item'.k \in Inside => phy' = "packet" /\ item'.p = busPkt' /\ item'.n = busLen'
           /\ Goes(item, item')
<1> USE DEF IInv, ItemTypes, ChainInv, Inside, Goes
<1>1. CASE BusIdle
    BY <1>1, ItemsAre DEF BusIdle, Bus
<1>2. CASE BusStart
    <2>1. busPkt' \in 0 .. 1 /\ 0 \in 0 .. MaxBytes /\ item' = [k |-> "sop", p |-> busPkt', n |-> 0]
        BY <1>2, RxPathAssumption DEF BusStart
    <2>2. item' \in Item
        BY <2>1, ItemsAre
    <2> QED
        BY <1>2, <2>1, <2>2 DEF BusStart, Bus
<1>3. CASE BusStatus
    BY <1>3, ItemsAre DEF BusStatus, Bus
<1>4. CASE BusActive
    <2>1. busPkt' \in 0 .. 1 /\ 0 \in 0 .. MaxBytes /\ item' = [k |-> "active", p |-> busPkt', n |-> 0]
        BY <1>4, RxPathAssumption DEF BusActive
    <2>2. item' \in Item
        BY <2>1, ItemsAre
    <2> QED
        BY <1>4, <2>1, <2>2 DEF BusActive, Bus
<1>5. CASE BusByte
    <2>1. busLen + 1 \in 0 .. MaxBytes /\ busLen + 1 # 0
          /\ item' = [k |-> "data", p |-> busPkt, n |-> busLen + 1]
        BY <1>5, RxPathAssumption DEF BusByte
    <2>2. item' \in Item
        BY <2>1, ItemsAre DEF Item
    <2> QED
        BY <1>5, <2>1, <2>2 DEF BusByte, Bus
<1>6. CASE BusMidActive
    BY <1>6, ItemsAre DEF BusMidActive, Bus
<1>7. CASE BusError
    BY <1>7, ItemsAre DEF BusError, Bus
<1>8. CASE BusInactive
    BY <1>8, ItemsAre DEF BusInactive, Bus
<1>9. CASE BusRelease
    BY <1>9, ItemsAre DEF BusRelease, Bus
<1> QED
    BY <1>1, <1>2, <1>3, <1>4, <1>5, <1>6, <1>7, <1>8, <1>9 DEF Bus

\* A clock of the PHY moves the end of the chain. An item that is replaced by
\* the overflow marker takes the next one with it.
LEMMA UlpiStep ==
    ASSUME IInv, NEW writable \in BOOLEAN, UlpiClock(writable)
    PROVE  IInv'
<1> USE DEF IInv, ItemTypes, ChainInv
<1>1. /\ phy' \in {"idle", "rx", "packet"} /\ busPkt' \in 0 .. 1 /\ busLen' \in 0 .. MaxBytes
      /\ item' \in Item /\ stb' = TRUE
      /\ item'.k \in Inside => phy' = "packet" /\ item'.p = busPkt' /\ item'.n = busLen'
      /\ Goes(item, item')
    BY BusSteps DEF UlpiClock
<1>2. /\ UNCHANGED << filt, start, body >> /\ closed' = NoPacket
      /\ fifo' = IF valid /\ writable THEN Append(fifo, data) ELSE fifo
      /\ writable => Len(fifo) < Cap
    BY DEF UlpiClock, Room
<1>3. IF stb THEN valid' = TRUE /\ data' = IF valid /\ ~writable THEN Ovf ELSE item
             ELSE valid' = FALSE /\ data' = data
    BY DEF UlpiClock, Hold, HoldNothing
<1>4. ItemTypes'
    <2>1. data' \in Item /\ valid' \in BOOLEAN
        BY <1>3, ItemsAre
    <2>2. fifo' \in Seq(Item) /\ Len(fifo') <= Cap
        BY <1>2, RxPathAssumption, Grown
    <2> QED
        BY <1>1, <1>2, <2>1, <2>2
<1>5. valid' => Goes(data', item')
    BY <1>1, <1>3, GoesOvf
<1>6. AfterFifo' = IF stb THEN data' ELSE item'
    BY <1>3 DEF AfterFifo
<1>7. ClosedInv'
    <2>1. closed' = NoPacket
        BY <1>2
    <2> QED
        BY <2>1, ItemsAre, EmptySeq DEF ClosedInv, NoPacket, Clean, RunFrom
<1>8. CASE valid /\ writable
    <2>1. /\ fifo' = Append(fifo, data) /\ data' = item /\ AfterFifo' = item /\ stb
        BY <1>2, <1>3, <1>6, <1>8
    <2>2. Goes(fifo'[Len(fifo')], AfterFifo')
        BY <1>8, <2>1, Grown
    <2>3. \A i \in 1 .. Len(fifo') - 1 : Goes(fifo'[i], fifo'[i + 1])
        <3>1. /\ Len(fifo') = Len(fifo) + 1 /\ Len(fifo) \in Nat
              /\ \A i \in 1 .. Len(fifo) : fifo'[i] = fifo[i]
              /\ fifo'[Len(fifo) + 1] = data
              /\ fifo = << >> <=> Len(fifo) = 0
            BY <2>1, Grown
        <3>2. fifo # << >> => Goes(fifo[Len(fifo)], data)
            BY <1>8 DEF AfterFifo
        <3>3. TAKE i \in 1 .. Len(fifo') - 1
        <3>4. CASE i = Len(fifo)
            BY <3>1, <3>2, <3>4
        <3>5. CASE i # Len(fifo)
            <4>1. i \in 1 .. Len(fifo) - 1 /\ i + 1 \in 1 .. Len(fifo)
                BY <3>1, <3>5
            <4> QED
                BY <3>1, <4>1
        <3> QED
            BY <3>4, <3>5
    <2>4. AfterRead' = AfterRead
        BY <1>8, <2>1, Grown DEF AfterRead, AfterFifo
    <2>5. ChainInv'
        BY <1>1, <1>2, <1>5, <2>2, <2>3, <2>4 DEF ReadTo
    <2> QED
        BY <1>2, <1>4, <1>7, <2>5 DEF BodyInv
<1>9. CASE ~(valid /\ writable)
    <2>1. fifo' = fifo
        BY <1>2, <1>9
    <2>2. stb => AfterFifo' = AfterFifo \/ AfterFifo' = Ovf
        BY <1>3, <1>6, <1>9 DEF AfterFifo
    <2>3. fifo # << >> => Goes(fifo[Len(fifo)], AfterFifo')
        BY <2>2, GoesOvf
    <2>4. filt = "PACKET" => Goes(ReadTo, AfterRead')
        BY <2>1, <2>2, GoesOvf DEF AfterRead
    <2>5. ChainInv'
        BY <1>1, <1>2, <1>5, <2>1, <2>3, <2>4 DEF ReadTo
    <2> QED
        BY <1>2, <1>4, <1>7, <2>5 DEF BodyInv
<1> QED
    BY <1>8, <1>9

\* The filter reads the front of the chain.
LEMMA SysStep ==
    ASSUME IInv, SysClock
    PROVE  IInv'
<1> USE DEF IInv, ItemTypes
<1>1. /\ fifo # << >> /\ fifo' = Tail(fifo) /\ head = fifo[1] /\ AfterRead = head /\ stb
      /\ UNCHANGED << phy, busPkt, busLen, stb, item, valid, data >>
    BY Shrunk DEF SysClock, FilterSkip, FilterData, FilterStart, FilterEnd, Take, busVars,
       insertVars, head, AfterRead, ChainInv
<1>2. head \in Item /\ fifo' \in Seq(Item) /\ Len(fifo') <= Cap
    BY <1>1, Shrunk, RxPathAssumption
<1>3. Goes(head, AfterRead')
    BY <1>1, Shrunk DEF AfterRead, AfterFifo, ChainInv
<1>4. \A i \in 1 .. Len(fifo') - 1 : Goes(fifo'[i], fifo'[i + 1])
    BY <1>1, Shrunk DEF ChainInv
<1>5. fifo' # << >> => Goes(fifo'[Len(fifo')], AfterFifo')
    BY <1>1, Shrunk DEF ChainInv, AfterFifo
<1>6. ASSUME filt' = "PACKET" => Goes(ReadTo', AfterRead') PROVE ChainInv'
    BY <1>1, <1>4, <1>5, <1>6 DEF ChainInv
<1>7. closed' = NoPacket => ClosedInv'
    BY ItemsAre, EmptySeq DEF ClosedInv, NoPacket, Clean, RunFrom
<1>8. filt = "PACKET" => Goes(ReadTo, head)
    BY <1>1 DEF ChainInv
<1>9. CASE FilterSkip
    <2>1. UNCHANGED << filt, start, body >> /\ closed' = NoPacket
        BY <1>9 DEF FilterSkip
    <2>2. filt = "PACKET" => head.k = "active" /\ head.p = start.p /\ head.n = start.n + Len(body)
        BY <1>8, <1>9, ItemsAre DEF FilterSkip, Goes, ReadTo, Inside, EndsPacket
    <2>3. filt' = "PACKET" => Goes(ReadTo', AfterRead')
        BY <1>3, <2>1, <2>2 DEF Goes, ReadTo, Inside
    <2> QED
        BY <1>1, <1>2, <1>6, <1>7, <2>1, <2>3 DEF BodyInv
<1>10. CASE FilterData
    <2>1. /\ UNCHANGED << filt, start >> /\ closed' = NoPacket /\ head.k = "data" /\ head \in Byte
          /\ body' = IF filt = "PACKET" THEN Append(body, head) ELSE body
        BY <1>2, <1>10, ItemKinds DEF FilterData
    <2>2. CASE filt = "PACKET"
        <3>1. head = [k |-> "data", p |-> start.p, n |-> start.n + Len(body) + 1]
            BY <1>8, <2>1, <2>2, ItemsAre DEF Goes, ReadTo, Inside
        <3>2. /\ body' = Append(body, head) /\ body' \in Seq(Byte) /\ Len(body') = Len(body) + 1
              /\ Len(body) \in Nat
              /\ \A i \in 1 .. Len(body) : body'[i] = body[i]
              /\ body'[Len(body) + 1] = head
            BY <2>1, <2>2, Grown
        <3>3. start \in Start /\ start.n \in Nat
            BY <2>2 DEF BodyInv, Start
        <3>4. BodyInv'
            BY <2>1, <2>2, <3>1, <3>2, <3>3 DEF BodyInv, RunFrom, Byte
        <3>5. Goes(ReadTo', AfterRead')
            BY <1>3, <2>1, <3>1, <3>2, <3>3 DEF Goes, ReadTo, Inside
        <3> QED
            BY <1>1, <1>2, <1>6, <1>7, <2>1, <3>2, <3>4, <3>5
    <2>3. CASE filt # "PACKET"
        BY <1>1, <1>2, <1>6, <1>7, <2>1, <2>3 DEF BodyInv
    <2> QED
        BY <2>2, <2>3
<1>11. CASE FilterStart
    <2>1. /\ filt' = "PACKET" /\ start' = head /\ body' = << >> /\ closed' = NoPacket
          /\ head \in Start /\ head.n \in 0 .. MaxBytes /\ head.k \in {"sop", "active"}
        BY <1>2, <1>11, ItemKinds DEF FilterStart
    <2>2. Goes(ReadTo', AfterRead')
        BY <1>3, <2>1, EmptySeq DEF Goes, ReadTo, Inside
    <2>3. BodyInv'
        BY <2>1, EmptySeq DEF BodyInv, RunFrom
    <2> QED
        BY <1>1, <1>2, <1>6, <1>7, <2>1, <2>2, <2>3, EmptySeq
<1>12. CASE FilterEnd
    <2>1. /\ filt = "PACKET" /\ filt' = "NO_PACKET" /\ start' = Nop /\ body' = << >>
          /\ closed' = [start |-> start, body |-> body, by |-> head]
        BY <1>12 DEF FilterEnd
    <2>2. ClosedInv'
        <3>1. head.k \in {"eop", "nactive"} => head.p = start.p /\ head.n = start.n + Len(body)
            BY <1>8, <2>1, ItemsAre DEF Goes, ReadTo, Inside
        <3> QED
            BY <1>2, <2>1, <3>1 DEF ClosedInv, Clean, BodyInv
    <2>3. BodyInv'
        BY <2>1, EmptySeq DEF BodyInv, RunFrom
    <2> QED
        BY <1>1, <1>2, <1>6, <2>1, <2>2, <2>3, EmptySeq, ItemsAre
<1> QED
    BY <1>9, <1>10, <1>11, <1>12 DEF SysClock

LEMMA IInvHolds == Spec => []IInv
<1>1. Init => IInv
    <2> SUFFICES ASSUME Init PROVE IInv
        OBVIOUS
    <2>1. ItemTypes
        <3>1. << >> \in Seq(Item) /\ << >> \in Seq(Byte) /\ Len(<< >>) = 0
            BY EmptySeq
        <3>2. Nop \in Item /\ 0 \in 0 .. MaxBytes /\ 0 <= Cap
            BY ItemsAre, RxPathAssumption
        <3>3. fifo \in Seq(Item) /\ body \in Seq(Byte) /\ Len(fifo) <= Cap
            BY <3>1, <3>2 DEF Init
        <3>4. busPkt \in 0 .. 1 /\ busLen \in 0 .. MaxBytes /\ item \in Item /\ data \in Item
            BY <3>2 DEF Init
        <3>5. stb \in BOOLEAN /\ valid \in BOOLEAN /\ start \in Item
            BY <3>2 DEF Init
        <3> QED
            BY <3>3, <3>4, <3>5 DEF Init, ItemTypes
    <2>2. ChainInv
        BY ItemsAre DEF Init, ChainInv, Inside
    <2>3. BodyInv
        BY EmptySeq DEF Init, BodyInv, RunFrom
    <2>4. ClosedInv
        BY ItemsAre, EmptySeq DEF Init, ClosedInv, NoPacket, Clean, RunFrom
    <2> QED
        BY <2>1, <2>2, <2>3, <2>4 DEF IInv
<1>2. IInv /\ [Next]_vars => IInv'
    <2> SUFFICES ASSUME IInv, [Next]_vars PROVE IInv'
        OBVIOUS
    <2>1. CASE Next
        BY <2>1, UlpiStep, SysStep DEF Next
    <2>2. CASE UNCHANGED vars
        BY <2>2 DEF vars, busVars, insertVars, sysVars, IInv, ItemTypes, ChainInv, BodyInv, ClosedInv,
           Clean, AfterFifo, AfterRead, ReadTo
    <2> QED
        BY <2>1, <2>2
<1> QED
    BY <1>1, <1>2, PTL DEF Spec
-----------------------------------------------------------------------------
(* The theorems.                                                           *)

\* Every register and queue of the receive path holds what it can hold: the
\* FIFO never runs over, and a packet never has more payload than on the bus.
THEOREM TypeCorrect == Spec => []TypeOK
<1>1. IInv => TypeOK
    <2> SUFFICES ASSUME IInv PROVE TypeOK
        OBVIOUS
    <2>1. Len(body) <= MaxBytes
        BY EmptySeq, LenProperties, RxPathAssumption DEF IInv, BodyInv, ItemTypes, Start
    <2> QED
        BY <2>1 DEF IInv, ItemTypes, ClosedInv, TypeOK
<1> QED
    BY <1>1, IInvHolds, PTL

\* ULPI_ctrl, OverflowInserter, FIFO and RXCmdFilter together never splice
\* payload: what is lost anywhere leaves a marker where it was, and the marker
\* ends the packet.
THEOREM NoSplice == Spec => []NeverSpliced
<1>1. ASSUME NEW s \in Item, NEW b \in Seq(Byte), RunFrom(s, b) PROVE IsRun(b)
    <2>1. Len(b) \in Nat /\ s.n \in Nat
        BY LenProperties, ItemKinds
    <2>2. ASSUME NEW i \in 1 .. Len(b) PROVE b[i].p = b[1].p /\ b[i].n = b[1].n + i - 1
        <3>1. 1 \in 1 .. Len(b)
            BY <2>1
        <3>2. /\ b[1] = [k |-> "data", p |-> s.p, n |-> s.n + 1]
              /\ b[i] = [k |-> "data", p |-> s.p, n |-> s.n + i]
            BY <1>1, <3>1 DEF RunFrom
        <3> QED
            BY <2>1, <3>2
    <2> QED
        BY <2>2 DEF IsRun
<1>2. IInv => NeverSpliced
    BY <1>1 DEF IInv, ItemTypes, BodyInv, ClosedInv, NeverSpliced
<1> QED
    BY <1>2, IInvHolds, PTL

\* A packet that reaches the whacker without a flag is all there was on the bus
\* between its start and its end.
THEOREM NothingClipped == Spec => []CleanIsComplete
<1>1. IInv => CleanIsComplete
    <2> SUFFICES ASSUME IInv, Clean PROVE CleanIsComplete
        BY DEF CleanIsComplete
    <2>1. /\ closed.start.n \in Nat /\ closed.by.p = closed.start.p
          /\ closed.by.n = closed.start.n + Len(closed.body) /\ Len(closed.body) \in Nat
          /\ RunFrom(closed.start, closed.body)
        BY LenProperties, RxPathAssumption DEF IInv, ClosedInv, Start
    <2> QED
        BY <2>1 DEF CleanIsComplete, RunFrom
<1> QED
    BY <1>1, IInvHolds, PTL
=============================================================================
