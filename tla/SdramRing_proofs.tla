-------------------------- MODULE SdramRing_proofs --------------------------
(***************************************************************************)
(* Proofs about the capture ring, for FIFOs of every depth and a ring of   *)
(* every size: the sink, the reader and the multiplexer keep to one        *)
(* command at a time, and sink FIFO, ring and read FIFO are one queue.     *)
(*                                                                         *)
(* The ring begins at address 0, as do_sniff puts it (ovctl.py): before a  *)
(* side is switched on its pointer is 0. Nothing is assumed of how fast    *)
(* the capture runs. When it fills the ring while the reader rests at the  *)
(* base, the ring loses its content (the run SdramRing_full): the theorems *)
(* show that this is the only clock in which a word can be lost, and that  *)
(* the buffer is a queue if the capture never gets that far.               *)
(***************************************************************************)
EXTENDS SdramRing, SequenceTheorems, TLAPS

Size == End - Base

AtZero == Base = 0

\* What nothing in the gateware ensures: the capture never fills the ring while
\* the reader rests at its base.
KeepsRoom == Load <= 2 * Size - 1

RegTypes ==
    /\ sinkGo \in BOOLEAN /\ sinkGor \in BOOLEAN /\ readGo \in BOOLEAN /\ readGor \in BOOLEAN
    /\ busy \in BOOLEAN /\ grant \in Ports
    /\ wptr \in Base .. End /\ rptr \in Base .. End
    /\ wstate \in {"IDLE", "WRITE", "WAIT"} /\ wburst \in 0 .. SinkDepth - 1
    /\ rstate \in {"BLOCKED", "IDLE", "DATA", "WAIT"}
    /\ hstate \in {"IDLE", "SEND_HEADER", "SEND_DATA"} /\ hburst \in 0 .. HostBurst - 1
    /\ cmd \in [dir : {"none", "write", "read"}, addr : 0 .. End]

WordTypes ==
    /\ sfifo \in Seq(Word) /\ Len(sfifo) <= SinkDepth
    /\ hfifo \in Seq(Word) /\ Len(hfifo) <= HostBurst
    /\ mem \in [0 .. End -> Word \cup {Empty}]
    /\ nextWord \in Word

\* A command is of the port granted, and its address is that port's pointer. A
\* pointer is at the end of the ring for one clock, while its burst goes on.
PortInv ==
    /\ wptr = End => wstate = "WRITE"
    /\ rptr = End => rstate = "DATA"
    /\ cmd = NoCmd => wstate = "IDLE" /\ rstate \in {"BLOCKED", "IDLE"}
    /\ cmd # NoCmd => busy
    /\ cmd # NoCmd /\ grant = "sink" =>
           /\ cmd.dir = "write" /\ wstate \in {"WRITE", "WAIT"} /\ rstate \in {"BLOCKED", "IDLE"}
           /\ wstate = "WRITE" => cmd.addr = wptr
    /\ cmd # NoCmd /\ grant = "read" =>
           /\ cmd.dir = "read" /\ rstate \in {"DATA", "WAIT"} /\ wstate = "IDLE"
           /\ rstate = "DATA" => cmd.addr = rptr

\* A pointer stays at the base until its side is switched on, the sink first.
GoInv ==
    /\ ~readGo => ~readGor
    /\ ~readGor => rptr = Base /\ rstate = "BLOCKED"
    /\ ~sinkGo /\ ~readGo => ~sinkGor
    /\ ~sinkGor /\ ~readGo => wptr = Base /\ wstate = "IDLE"
    /\ sinkGo /\ ~sinkGor => ~readGo

\* The cell at a distance from the read position.
Cell(i) == Base + ((Offset(rptr) + i - 1) % Size)

\* The writer does not meet the reader at the end of the ring, and every cell
\* between the two holds a word.
RingInv ==
    /\ ~(wptr = End /\ rptr = End)
    /\ \A i \in 1 .. Fill : mem[Cell(i)] \in Word

\* The writer is at the end of the ring while the reader rests at the base: the
\* ring is full, and in the next clock it looks empty.
Lapped == wptr = End /\ rptr = Base

RoomInv == Lead <= 2 * Size - 1

IInv == RegTypes /\ WordTypes /\ PortInv /\ GoInv /\ RingInv
-----------------------------------------------------------------------------
(* The ring: offsets and cells, without a modulus.                         *)

LEMMA Constants ==
    /\ Base \in Nat /\ End \in Nat /\ Size \in Nat \ {0} /\ End = Base + Size
    /\ SinkDepth \in Nat \ {0} /\ HostBurst \in Nat \ {0} /\ Modulus \in Nat \ {0} /\ Load \in Nat
    BY RingAssumption DEF Size

LEMMA Around ==
    ASSUME NEW n \in Nat \ {0}, NEW a \in 0 .. 2 * n - 1
    PROVE  a % n = IF a < n THEN a ELSE a - n
    OBVIOUS

LEMMA Offsets ==
    ASSUME NEW p \in Base .. End
    PROVE  /\ Offset(p) \in 0 .. Size - 1
           /\ p = End => Offset(p) = 0
           /\ p # End => Offset(p) = p - Base
    BY Constants DEF Offset

\* How far it is from one offset to another, and the cell at a distance.
Gap(v, q) == IF v >= q THEN v - q ELSE v - q + Size
At(q, i)  == IF q + i - 1 < Size THEN Base + q + i - 1 ELSE Base + q + i - 1 - Size

LEMMA GapIs ==
    ASSUME NEW v \in 0 .. Size - 1, NEW q \in 0 .. Size - 1
    PROVE  (v - q + Size) % Size = Gap(v, q) /\ Gap(v, q) \in 0 .. Size - 1
<1> DEFINE n == Size
           a == v - q + n
<1>1. n \in Nat \ {0} /\ v \in 0 .. n - 1 /\ q \in 0 .. n - 1
    BY Constants
<1>2. a \in 0 .. 2 * n - 1
    BY <1>1
<1>3. (v - q + Size) % Size = a % n
    OBVIOUS
<1> HIDE DEF n, a
<1>4. a % n = IF a < n THEN a ELSE a - n
    BY <1>1, <1>2, Around
<1> QED
    BY <1>1, <1>3, <1>4 DEF n, a, Gap

LEMMA AtIs ==
    ASSUME NEW q \in 0 .. Size - 1, NEW i \in 1 .. Size
    PROVE  Base + ((q + i - 1) % Size) = At(q, i)
<1> DEFINE n == Size
           a == q + i - 1
<1>1. n \in Nat \ {0} /\ a \in 0 .. 2 * n - 1 /\ Base \in Nat
    BY Constants
<1>2. Base + ((q + i - 1) % Size) = Base + (a % n)
    OBVIOUS
<1> HIDE DEF n, a
<1>3. a % n = IF a < n THEN a ELSE a - n
    BY <1>1, Around
<1> QED
    BY <1>1, <1>2, <1>3, Constants DEF n, a, At

-----------------------------------------------------------------------------
(* What a clock transfers, and where the pointers go.                      *)

LEMMA Transfers ==
    ASSUME IInv, NEW stb \in BOOLEAN
    PROVE  /\ SinkWrites(stb) =>
                 /\ wstate = "WRITE" /\ rstate # "DATA" /\ cmd # NoCmd /\ cmd.addr = wptr
                 /\ wptr # End /\ rptr # wptr + 1 /\ sfifo # << >> /\ wburst # 0 /\ ~ReadTakes(stb)
           /\ ReadTakes(stb) =>
                 /\ rstate = "DATA" /\ wstate = "IDLE" /\ cmd # NoCmd /\ cmd.addr = rptr
                 /\ rptr # End /\ rptr # wptr /\ Len(hfifo) # HostBurst
    BY DEF IInv, PortInv, SinkWrites, ReadTakes, DStb, SinkTerm, ReadTerm, Wrap, ReadWrap, SinkBlocked,
       WptrNext, ReadBlocked, HostFifoFull

LEMMA Pointers ==
    ASSUME IInv, NEW ack \in BOOLEAN, NEW stb \in BOOLEAN, NEW hostAck \in BOOLEAN,
           Sink(ack, stb), Read(ack, stb, hostAck)
    PROVE  /\ wptr' = IF SinkWrites(stb) THEN wptr + 1 ELSE IF wptr = End THEN Base ELSE wptr
           /\ rptr' = IF ReadTakes(stb) THEN rptr + 1 ELSE IF rptr = End THEN Base ELSE rptr
           /\ wptr' \in Base .. End /\ rptr' \in Base .. End
<1> USE DEF IInv, GoInv
<1>1. wptr' = IF SinkWrites(stb) THEN wptr + 1 ELSE IF wptr = End THEN Base ELSE wptr
    <2>1. CASE sinkGo /\ ~sinkGor
        BY <2>1, Transfers DEF Sink, WptrClock
    <2>2. CASE ~(sinkGo /\ ~sinkGor)
        BY <2>2, Transfers DEF Sink, WptrClock, WptrNext, Wrap
    <2> QED
        BY <2>1, <2>2
<1>2. rptr' = IF ReadTakes(stb) THEN rptr + 1 ELSE IF rptr = End THEN Base ELSE rptr
    <2>1. CASE readGo /\ ~readGor
        BY <2>1, Transfers DEF Read, RptrClock
    <2>2. CASE ~(readGo /\ ~readGor)
        BY <2>2, Transfers DEF Read, RptrClock, RptrNext, ReadWrap
    <2> QED
        BY <2>1, <2>2
<1> QED
    BY <1>1, <1>2, Transfers, Constants DEF RegTypes

\* What the memory becomes.
LEMMA Memory ==
    ASSUME IInv, NEW ack \in BOOLEAN, NEW stb \in BOOLEAN, Controller(ack, stb)
    PROVE  /\ SinkWrites(stb) => /\ mem' = [mem EXCEPT ![wptr] = Head(sfifo)]
                                 /\ cmd' = [cmd EXCEPT !.addr = @ + 1]
           /\ ReadTakes(stb) => /\ mem' = [mem EXCEPT ![rptr] = Empty]
                                /\ cmd' = [cmd EXCEPT !.addr = @ + 1]
           /\ ~SinkWrites(stb) /\ ~ReadTakes(stb) =>
                 /\ mem' = mem
                 /\ cmd' = IF IAck(ack) THEN IF grant = "sink" THEN [dir |-> "write", addr |-> wptr]
                                                               ELSE [dir |-> "read", addr |-> rptr]
                           ELSE IF DStb(stb) THEN NoCmd ELSE cmd
<1>1. /\ SinkWrites(stb) => DStb(stb) /\ ~DTerm /\ ~IAck(ack) /\ ~ReadTakes(stb) /\ cmd.addr = wptr
      /\ ReadTakes(stb) => DStb(stb) /\ ~DTerm /\ ~IAck(ack) /\ cmd.addr = rptr
      /\ DStb(stb) /\ ~DTerm => SinkWrites(stb) \/ ReadTakes(stb)
      /\ IAck(ack) => ~DStb(stb)
    BY Transfers DEF IInv, RegTypes, Ports, SinkWrites, ReadTakes, DTerm, DStb, IAck
<1> QED
    BY <1>1 DEF Controller, ControllerAccept, ControllerWrite, ControllerRead, ControllerTerminate,
       ControllerIdle

\* A word written is put at the end of the ring, a word read is its first.
LEMMA RingMoves ==
    ASSUME IInv, NEW ack \in BOOLEAN, NEW stb \in BOOLEAN, NEW hostAck \in BOOLEAN,
           Sink(ack, stb), Read(ack, stb, hostAck), Controller(ack, stb), RegTypes', ~Lapped'
    PROVE  /\ SinkWrites(stb) =>
                 /\ Fill' = Fill + 1 /\ Cell(Fill + 1) = wptr
                 /\ \A i \in 1 .. Fill + 1 : Cell(i)' = Cell(i)
                 /\ \A i \in 1 .. Fill : Cell(i) # wptr
           /\ ReadTakes(stb) =>
                 /\ Fill # 0 /\ Fill' = Fill - 1 /\ Cell(1) = rptr
                 /\ \A i \in 1 .. Fill - 1 : Cell(i)' = Cell(i + 1) /\ Cell(i + 1) # rptr
           /\ ~SinkWrites(stb) /\ ~ReadTakes(stb) =>
                 Fill' = Fill /\ \A i \in 1 .. Fill : Cell(i)' = Cell(i)
<1> DEFINE w == Offset(wptr)
           r == Offset(rptr)
<1>1. /\ wptr \in Base .. End /\ rptr \in Base .. End /\ w \in 0 .. Size - 1 /\ r \in 0 .. Size - 1
      /\ wptr = End => w = 0
      /\ wptr # End => w = wptr - Base
      /\ rptr = End => r = 0
      /\ rptr # End => r = rptr - Base
    BY Offsets DEF IInv, RegTypes
<1>2. /\ wptr' \in Base .. End /\ rptr' \in Base .. End /\ w' \in 0 .. Size - 1 /\ r' \in 0 .. Size - 1
      /\ wptr' = End => w' = 0
      /\ wptr' # End => w' = wptr' - Base
      /\ rptr' = End => r' = 0
      /\ rptr' # End => r' = rptr' - Base
    BY Offsets DEF RegTypes
<1>3. /\ Fill = Gap(w, r) /\ Fill \in 0 .. Size - 1 /\ \A i \in 1 .. Size : Cell(i) = At(r, i)
      /\ Fill' = Gap(w', r') /\ \A i \in 1 .. Size : Cell(i)' = At(r', i)
    BY <1>1, <1>2, GapIs, AtIs DEF Fill, Cell, Size
<1> HIDE DEF w, r
<1>4. /\ wptr' = IF SinkWrites(stb) THEN wptr + 1 ELSE IF wptr = End THEN Base ELSE wptr
      /\ rptr' = IF ReadTakes(stb) THEN rptr + 1 ELSE IF rptr = End THEN Base ELSE rptr
    BY Pointers
<1>5. CASE SinkWrites(stb)
    <2>1. wptr # End /\ rptr # wptr + 1 /\ Len(sfifo) \in Nat \ {0} /\ ~ReadTakes(stb)
        BY <1>5, Transfers, EmptySeq DEF IInv, WordTypes
    <2>2. r' = r /\ w' = IF w = Size - 1 THEN 0 ELSE w + 1
        BY <1>1, <1>2, <1>4, <1>5, <2>1, Constants
    <2>3. Fill # Size - 1
        <3>2. CASE rptr = Base
            <4>1. rptr' = Base /\ wptr' = wptr + 1
                BY <1>4, <1>5, <2>1, <3>2, Constants
            <4>2. wptr' # End
                BY <4>1 DEF Lapped
            <4> QED
                BY <1>1, <1>3, <2>1, <3>2, <4>1, <4>2, Constants DEF Gap
        <3>3. CASE rptr = End
            BY <1>1, <1>3, <2>1, <3>3, Constants DEF Gap
        <3>4. CASE rptr \notin {Base, End}
            <4>1. r = rptr - Base /\ w = wptr - Base /\ r # w + 1 /\ r # 0
                BY <1>1, <2>1, <3>4, Constants
            <4> QED
                BY <1>1, <1>3, <4>1, Constants DEF Gap
        <3> QED
            BY <3>2, <3>3, <3>4
    <2> QED
        BY <1>1, <1>3, <1>5, <2>1, <2>2, <2>3, Constants DEF Gap, At
<1>6. CASE ReadTakes(stb)
    <2>1. rptr # End /\ wptr # End /\ rptr # wptr /\ ~SinkWrites(stb)
        BY <1>6, Transfers DEF IInv, PortInv
    <2>2. w' = w /\ r' = IF r = Size - 1 THEN 0 ELSE r + 1
        BY <1>1, <1>2, <1>4, <1>6, <2>1, Constants
    <2>3. w # r
        BY <1>1, <2>1, Constants
    <2> QED
        BY <1>1, <1>3, <1>6, <2>1, <2>2, <2>3, Constants DEF Gap, At
<1>7. CASE ~SinkWrites(stb) /\ ~ReadTakes(stb)
    <2>1. w' = w /\ r' = r
        BY <1>1, <1>2, <1>4, <1>7, Constants
    <2> QED
        BY <1>1, <1>3, <1>7, <2>1, Constants
<1> QED
    BY <1>5, <1>6, <1>7
-----------------------------------------------------------------------------
(* The steps.                                                              *)

LEMMA StepRegs ==
    ASSUME IInv, NEW ack \in BOOLEAN, NEW stb \in BOOLEAN, NEW hostAck \in BOOLEAN, NEW push \in BOOLEAN,
           Clock(ack, stb, hostAck, push)
    PROVE  RegTypes'
<1> USE Constants DEF IInv, RegTypes
<1>1. wptr' \in Base .. End /\ rptr' \in Base .. End
    BY Pointers DEF Clock
<1>2. wstate' \in {"IDLE", "WRITE", "WAIT"} /\ wburst' \in 0 .. SinkDepth - 1
    <2>1. CASE SinkIdle(ack)
        BY <2>1 DEF SinkIdle
    <2>2. CASE SinkWrite(stb)
        BY <2>2, Transfers, SMTT(30) DEF SinkWrite
    <2>3. CASE SinkWait(stb)
        BY <2>3 DEF SinkWait
    <2> QED
        BY <2>1, <2>2, <2>3 DEF Clock, Sink
<1>3. rstate' \in {"BLOCKED", "IDLE", "DATA", "WAIT"}
    BY DEF Clock, Read, ReadStateBlocked, ReadStateIdle, ReadStateData, ReadStateWait
<1>4. hstate' \in {"IDLE", "SEND_HEADER", "SEND_DATA"} /\ hburst' \in 0 .. HostBurst - 1
    <2>1. CASE HostIdle(hostAck)
        BY <2>1 DEF HostIdle
    <2>2. CASE HostHeader(hostAck)
        BY <2>2 DEF HostHeader
    <2>3. CASE HostData(hostAck)
        BY <2>3 DEF HostData
    <2> QED
        BY <2>1, <2>2, <2>3 DEF Clock, Read
<1>5. cmd' \in [dir : {"none", "write", "read"}, addr : 0 .. End]
    <2>1. NoCmd \in [dir : {"none", "write", "read"}, addr : 0 .. End]
        BY DEF NoCmd
    <2>2. CASE SinkWrites(stb) \/ ReadTakes(stb)
        BY <2>2, Memory, Transfers, SMTT(30) DEF Clock
    <2>3. CASE ~SinkWrites(stb) /\ ~ReadTakes(stb)
        BY <2>1, <2>3, Memory DEF Clock
    <2> QED
        BY <2>2, <2>3
<1>6. sinkGo' \in BOOLEAN /\ sinkGor' \in BOOLEAN /\ readGo' \in BOOLEAN /\ readGor' \in BOOLEAN
    BY DEF Clock, HostControl
<1>7. busy' \in BOOLEAN
    BY DEF Clock, Mux
<1>8. grant' \in Ports
    BY DEF Clock, Mux, Ports
<1> QED
    BY <1>1, <1>2, <1>3, <1>4, <1>5, <1>6, <1>7, <1>8

LEMMA StepPort ==
    ASSUME IInv, NEW ack \in BOOLEAN, NEW stb \in BOOLEAN, NEW hostAck \in BOOLEAN, NEW push \in BOOLEAN,
           Clock(ack, stb, hostAck, push)
    PROVE  PortInv'
<1> USE DEF IInv, RegTypes, PortInv, Ports, NoCmd
<1>1. /\ wptr' = IF SinkWrites(stb) THEN wptr + 1 ELSE IF wptr = End THEN Base ELSE wptr
      /\ rptr' = IF ReadTakes(stb) THEN rptr + 1 ELSE IF rptr = End THEN Base ELSE rptr
    BY Pointers DEF Clock
<1>2. busy' = (IStb \/ (busy /\ ~BusyStop(stb)))
    BY DEF Clock, Mux
<1>3. BusyStop(stb) \/ ~(busy \/ IStb) \/ grant' = grant
    BY DEF Clock, Mux, Rearbitrate
<1>4. /\ \/ wstate = "IDLE" /\ wstate' = IF grant = "sink" /\ IAck(ack) THEN "WRITE" ELSE "IDLE"
         \/ wstate = "WRITE" /\ wstate' = IF SinkTerm THEN IF DStb(stb) THEN "IDLE" ELSE "WAIT" ELSE "WRITE"
         \/ wstate = "WAIT" /\ wstate' = IF DStb(stb) THEN "IDLE" ELSE "WAIT"
      /\ \/ rstate = "BLOCKED" /\ rstate' \in {"BLOCKED", "IDLE"}
         \/ rstate = "IDLE" /\ rstate' = IF grant = "read" /\ IAck(ack) THEN "DATA" ELSE "IDLE"
         \/ rstate = "DATA" /\ rstate' = IF ReadTerm THEN IF DStb(stb) THEN "BLOCKED" ELSE "WAIT" ELSE "DATA"
         \/ rstate = "WAIT" /\ rstate' = IF DStb(stb) THEN "BLOCKED" ELSE "WAIT"
    BY DEF Clock, Sink, Read, SinkIdle, SinkWrite, SinkWait, ReadStateBlocked, ReadStateIdle,
       ReadStateData, ReadStateWait
<1>5. CASE IAck(ack)
    <2>1. ~SinkWrites(stb) /\ ~ReadTakes(stb) /\ cmd = NoCmd /\ IStb /\ ~BusyStop(stb)
        BY <1>5 DEF IAck, SinkWrites, ReadTakes, DStb, BusyStop
    <2>2. cmd' = IF grant = "sink" THEN [dir |-> "write", addr |-> wptr]
                                   ELSE [dir |-> "read", addr |-> rptr]
        BY <1>5, <2>1, Memory DEF Clock
    <2>3. busy' /\ grant' = grant
        BY <1>2, <1>3, <2>1
    <2>4. CASE grant = "sink"
        <3>1. wstate = "IDLE" /\ wstate' = "WRITE" /\ rstate \in {"BLOCKED", "IDLE"} /\ rstate' \in {"BLOCKED", "IDLE"}
            BY <1>4, <1>5, <2>1, <2>4
        <3>2. cmd' = [dir |-> "write", addr |-> wptr] /\ wptr' = wptr /\ rptr' = rptr
            BY <1>1, <2>1, <2>2, <2>4, <3>1
        <3> QED
            BY <2>3, <2>4, <3>1, <3>2
    <2>5. CASE grant = "read"
        <3>1. wstate = "IDLE" /\ wstate' = "IDLE" /\ rstate = "IDLE" /\ rstate' = "DATA"
            BY <1>4, <1>5, <2>1, <2>5 DEF IStb, ReadIStb
        <3>2. cmd' = [dir |-> "read", addr |-> rptr] /\ wptr' = wptr /\ rptr' = rptr
            BY <1>1, <2>1, <2>2, <2>5, <3>1
        <3> QED
            BY <2>3, <2>5, <3>1, <3>2
    <2> QED
        BY <2>4, <2>5
<1>6. CASE cmd = NoCmd /\ ~IAck(ack)
    <2>1. ~SinkWrites(stb) /\ ~ReadTakes(stb) /\ ~DStb(stb)
        BY <1>6 DEF SinkWrites, ReadTakes, DStb
    <2>2. cmd' = NoCmd
        BY <1>6, <2>1, Memory DEF Clock
    <2>3. wstate' = "IDLE" /\ rstate' \in {"BLOCKED", "IDLE"} /\ wptr' # End /\ rptr' # End
        BY <1>1, <1>4, <1>6, <2>1, Constants
    <2> QED
        BY <2>2, <2>3
<1>7. CASE BusyStop(stb)
    <2>1. cmd # NoCmd /\ DTerm /\ DStb(stb) /\ ~IAck(ack)
        BY <1>7 DEF BusyStop, DStb, IAck
    <2>2. ~SinkWrites(stb) /\ ~ReadTakes(stb)
        BY <2>1 DEF SinkWrites, ReadTakes, DTerm
    <2>3. cmd' = NoCmd
        BY <2>1, <2>2, Memory DEF Clock
    <2>4. wptr' # End /\ rptr' # End
        BY <1>1, <2>2, Constants
    <2>5. wstate' = "IDLE" /\ rstate' \in {"BLOCKED", "IDLE"}
        <3>1. CASE grant = "sink"
            BY <1>4, <2>1, <3>1 DEF DTerm
        <3>2. CASE grant = "read"
            BY <1>4, <2>1, <3>2 DEF DTerm
        <3> QED
            BY <3>1, <3>2
    <2> QED
        BY <2>3, <2>4, <2>5
<1>8. CASE cmd # NoCmd /\ ~BusyStop(stb)
    <2>1. busy' /\ grant' = grant /\ ~IAck(ack) /\ (DStb(stb) => ~DTerm)
        BY <1>2, <1>3, <1>8 DEF IAck, BusyStop
    <2>2. CASE SinkWrites(stb)
        <3>1. /\ wstate = "WRITE" /\ cmd.addr = wptr /\ ~ReadTakes(stb) /\ DStb(stb) /\ ~SinkTerm
              /\ grant = "sink"
            BY <2>2, Transfers DEF SinkWrites
        <3>2. cmd' = [cmd EXCEPT !.addr = wptr + 1] /\ wptr' = wptr + 1 /\ rptr' # End
            BY <1>1, <2>2, <3>1, Memory, Constants DEF Clock
        <3>3. wstate' = "WRITE" /\ rstate' \in {"BLOCKED", "IDLE"}
            BY <1>4, <1>8, <2>1, <3>1
        <3>4. cmd'.dir = "write" /\ cmd'.addr = wptr'
            BY <1>8, <3>1, <3>2
        <3> QED
            BY <2>1, <3>1, <3>2, <3>3, <3>4
    <2>3. CASE ReadTakes(stb)
        <3>1. /\ rstate = "DATA" /\ wstate = "IDLE" /\ cmd.addr = rptr /\ ~SinkWrites(stb)
              /\ DStb(stb) /\ ~ReadTerm /\ grant = "read"
            BY <2>3, Transfers DEF ReadTakes
        <3>2. cmd' = [cmd EXCEPT !.addr = rptr + 1] /\ rptr' = rptr + 1 /\ wptr' # End
            BY <1>1, <2>3, <3>1, Memory, Constants DEF Clock
        <3>3. rstate' = "DATA" /\ wstate' = "IDLE"
            BY <1>4, <1>8, <2>1, <3>1
        <3>4. cmd'.dir = "read" /\ cmd'.addr = rptr'
            BY <1>8, <3>1, <3>2
        <3> QED
            BY <2>1, <3>1, <3>2, <3>3, <3>4
    <2>4. CASE ~SinkWrites(stb) /\ ~ReadTakes(stb)
        <3>1. ~DStb(stb)
            BY <2>1, <2>4 DEF SinkWrites, ReadTakes, DTerm
        <3>2. cmd' = cmd /\ wptr' # End /\ rptr' # End
            BY <1>1, <2>1, <2>4, <3>1, Memory, Constants DEF Clock
        <3>3. wptr # End => wptr' = wptr
            BY <1>1, <2>4
        <3>4. rptr # End => rptr' = rptr
            BY <1>1, <2>4
        <3>5. wptr = End => SinkTerm
            BY DEF SinkTerm, Wrap
        <3>6. rptr = End => ReadTerm
            BY DEF ReadTerm, ReadWrap
        <3>7. CASE grant = "sink"
            <4>1. /\ wstate' \in {"WRITE", "WAIT"} /\ rstate' \in {"BLOCKED", "IDLE"}
                  /\ wstate' = "WRITE" => wstate = "WRITE" /\ wptr # End
                BY <1>4, <1>8, <2>1, <3>1, <3>5, <3>7
            <4> QED
                BY <1>8, <2>1, <3>2, <3>3, <3>7, <4>1
        <3>8. CASE grant = "read"
            <4>1. /\ rstate' \in {"DATA", "WAIT"} /\ wstate' = "IDLE"
                  /\ rstate' = "DATA" => rstate = "DATA" /\ rptr # End
                BY <1>4, <1>8, <2>1, <3>1, <3>6, <3>8
            <4> QED
                BY <1>8, <2>1, <3>2, <3>4, <3>8, <4>1
        <3> QED
            BY <3>7, <3>8
    <2> QED
        BY <2>2, <2>3, <2>4
<1> QED
    BY <1>5, <1>6, <1>7, <1>8 DEF IAck, BusyStop, DStb

LEMMA StepGo ==
    ASSUME IInv, NEW ack \in BOOLEAN, NEW stb \in BOOLEAN, NEW hostAck \in BOOLEAN, NEW push \in BOOLEAN,
           Clock(ack, stb, hostAck, push)
    PROVE  GoInv'
<1> USE DEF IInv, RegTypes, GoInv
<1>1. /\ sinkGor' = sinkGo /\ readGor' = readGo
      /\ \/ sinkGo' = sinkGo /\ readGo' = readGo
         \/ ~sinkGo /\ ~readGo /\ sinkGo' /\ readGo' = readGo
         \/ sinkGo /\ sinkGor /\ ~readGo /\ readGo' /\ sinkGo' = sinkGo
         \/ readGo /\ readGor /\ ~sinkGo' /\ readGo' = readGo
    BY DEF Clock, HostControl
<1>2. ~readGo => rptr' = Base /\ rstate' = "BLOCKED"
    <2>1. ~ReadTakes(stb) \/ rstate = "DATA"
        BY Transfers
    <2> QED
        BY <2>1, Pointers, Constants DEF Clock, Read, ReadStateBlocked, ReadStateIdle, ReadStateData,
           ReadStateWait
<1>3. ~sinkGo /\ ~readGo /\ ~sinkGor => wptr' = Base /\ wstate' = "IDLE"
    <2>1. ~SinkWrites(stb) \/ wstate = "WRITE"
        BY Transfers
    <2>2. ~sinkGo /\ grant = "sink" => ~IAck(ack)
        BY DEF IAck, IStb, SinkIStb
    <2> QED
        BY <2>1, <2>2, Pointers, Constants DEF Clock, Sink, SinkIdle, SinkWrite, SinkWait
<1> QED
    BY <1>1, <1>2, <1>3
-----------------------------------------------------------------------------
(* The words.                                                              *)

LEMMA Front ==
    ASSUME NEW S, NEW s \in Seq(S), s # << >>
    PROVE  /\ Head(s) \in S /\ Head(s) = s[1]
           /\ Tail(s) \in Seq(S) /\ Len(Tail(s)) = Len(s) - 1 /\ Len(s) \in Nat \ {0}
    BY HeadTailProperties, EmptySeq

LEMMA Grown ==
    ASSUME NEW S, NEW s \in Seq(S), NEW x \in S
    PROVE  Append(s, x) \in Seq(S) /\ Len(Append(s, x)) = Len(s) + 1 /\ Append(s, x) # << >>
    BY AppendProperties

\* A word that moves from one part of a queue to the next changes nothing.
LEMMA Move ==
    ASSUME NEW S, NEW s \in Seq(S), NEW t \in Seq(S), s # << >>
    PROVE  Append(t, Head(s)) \o Tail(s) = t \o s
    BY HeadTailProperties, EmptySeq, LenProperties

\* A word put at the end of the last part is put at the end of the queue.
LEMMA PushEnd ==
    ASSUME NEW S, NEW s \in Seq(S), NEW t \in Seq(S), NEW x \in S
    PROVE  t \o Append(s, x) = Append(t \o s, x)
    BY LenProperties

\* A word taken from the first part is the first of the queue.
LEMMA PopFront ==
    ASSUME NEW S, NEW s \in Seq(S), NEW t \in Seq(S), t # << >>
    PROVE  t \o s # << >> /\ Tail(t) \o s = Tail(t \o s)
    BY LenProperties, EmptySeq

\* The three parts of the buffer, before a word goes out or comes in.
Written(stb) == IF SinkWrites(stb) THEN Tail(sfifo) ELSE sfifo
Fetched(stb) == IF ReadTakes(stb) THEN Append(hfifo, mem[rptr]) ELSE hfifo

\* The word read is a word of the ring.
LEMMA WordRead ==
    ASSUME IInv, NEW ack \in BOOLEAN, NEW stb \in BOOLEAN, NEW hostAck \in BOOLEAN,
           NEW push \in BOOLEAN, Clock(ack, stb, hostAck, push)
    PROVE  ReadTakes(stb) => mem[rptr] \in Word
<1>1. RegTypes'
    BY StepRegs
<1>2. ReadTakes(stb) => Fill # 0 /\ Cell(1) = rptr
    <2>1. ReadTakes(stb) => ~Lapped'
        BY Transfers, Pointers, Constants DEF Clock, Lapped, IInv, PortInv, RegTypes
    <2> QED
        BY <1>1, <2>1, RingMoves DEF Clock
<1>3. Fill \in 0 .. Size - 1
    BY Offsets, GapIs DEF IInv, RegTypes, Fill, Size
<1> QED
    BY <1>2, <1>3, Constants DEF IInv, RingInv

LEMMA Fifos ==
    ASSUME IInv, NEW ack \in BOOLEAN, NEW stb \in BOOLEAN, NEW hostAck \in BOOLEAN,
           NEW push \in BOOLEAN, Clock(ack, stb, hostAck, push)
    PROVE  /\ Written(stb) \in Seq(Word) /\ Len(Written(stb)) \in Nat /\ Len(Written(stb)) <= SinkDepth
           /\ sfifo' = IF push THEN Append(Written(stb), nextWord) ELSE Written(stb)
           /\ push => Len(sfifo) < SinkDepth
           /\ Len(Written(stb)) = IF SinkWrites(stb) THEN Len(sfifo) - 1 ELSE Len(sfifo)
           /\ Len(sfifo) \in Nat
           /\ Fetched(stb) \in Seq(Word) /\ Len(Fetched(stb)) <= HostBurst
           /\ HostPop(hostAck) => hfifo # << >> /\ Fetched(stb) # << >>
           /\ hfifo' = IF HostPop(hostAck) THEN Tail(Fetched(stb)) ELSE Fetched(stb)
<1>1. /\ sfifo \in Seq(Word) /\ Len(sfifo) \in Nat /\ Len(sfifo) <= SinkDepth
      /\ hfifo \in Seq(Word) /\ Len(hfifo) \in Nat /\ Len(hfifo) <= HostBurst
    BY LenProperties DEF IInv, WordTypes
<1>2. /\ SinkWrites(stb) => sfifo # << >>
      /\ ReadTakes(stb) => Len(hfifo) # HostBurst /\ cmd.addr = rptr /\ mem[rptr] \in Word
    BY Transfers, WordRead
<1>3. /\ Written(stb) \in Seq(Word) /\ Len(Written(stb)) \in Nat
      /\ Len(Written(stb)) = IF SinkWrites(stb) THEN Len(sfifo) - 1 ELSE Len(sfifo)
    BY <1>1, <1>2, Front DEF Written
<1>4. Fetched(stb) \in Seq(Word) /\ Len(Fetched(stb)) <= HostBurst
    BY <1>1, <1>2, Grown, Constants DEF Fetched
<1>5. HostPop(hostAck) => hfifo # << >> /\ Fetched(stb) # << >>
    BY <1>1, <1>2, Grown DEF HostPop, Fetched
<1>6. hfifo' = IF HostPop(hostAck) THEN Tail(Fetched(stb)) ELSE Fetched(stb)
    <2>1. hfifo' = IF ReadTakes(stb) THEN Append(IF HostPop(hostAck) THEN Tail(hfifo) ELSE hfifo, mem[rptr])
                                     ELSE IF HostPop(hostAck) THEN Tail(hfifo) ELSE hfifo
        BY <1>2 DEF Clock, Read, HostFifo
    <2>2. CASE HostPop(hostAck) /\ ReadTakes(stb)
        <3>1. Tail(Append(hfifo, mem[rptr])) = Append(Tail(hfifo), mem[rptr])
            BY <1>1, <1>5, <2>2, HeadTailAppend
        <3> QED
            BY <2>1, <2>2, <3>1 DEF Fetched
    <2>3. CASE ~(HostPop(hostAck) /\ ReadTakes(stb))
        BY <2>1, <2>3 DEF Fetched
    <2> QED
        BY <2>2, <2>3
<1>7. /\ sfifo' = IF push THEN Append(Written(stb), nextWord) ELSE Written(stb)
      /\ push => Len(sfifo) < SinkDepth
    BY DEF Clock, SinkFifo, CanPush, Written
<1>8. Len(Written(stb)) <= SinkDepth
    <2> DEFINE n == Len(Written(stb))
               m == Len(sfifo)
    <2>1. n \in Nat /\ m \in Nat /\ m <= SinkDepth /\ (n = m - 1 \/ n = m)
        BY <1>1, <1>3
    <2>2. SinkDepth \in Nat
        BY Constants
    <2> HIDE DEF n, m
    <2> QED
        BY <2>1, <2>2 DEF n, m
<1> QED
    BY <1>1, <1>3, <1>4, <1>5, <1>6, <1>7, <1>8

LEMMA StepWords ==
    ASSUME IInv, NEW ack \in BOOLEAN, NEW stb \in BOOLEAN, NEW hostAck \in BOOLEAN,
           NEW push \in BOOLEAN, Clock(ack, stb, hostAck, push)
    PROVE  WordTypes'
<1>1. nextWord' \in Word
    BY Constants DEF IInv, WordTypes, Clock, SinkFifo, Word
<1>2. sfifo' \in Seq(Word) /\ Len(sfifo') <= SinkDepth
    <2>1. /\ nextWord \in Word /\ Written(stb) \in Seq(Word)
          /\ sfifo' = IF push THEN Append(Written(stb), nextWord) ELSE Written(stb)
        BY Fifos DEF IInv, WordTypes
    <2>2. Len(Written(stb)) <= SinkDepth /\ (push => Len(Written(stb)) + 1 <= SinkDepth)
        <3> DEFINE n == Len(Written(stb))
                   m == Len(sfifo)
        <3>1. /\ n \in Nat /\ m \in Nat /\ n <= SinkDepth /\ (push => m < SinkDepth)
              /\ n = m - 1 \/ n = m
            BY Fifos
        <3>2. SinkDepth \in Nat
            BY Constants
        <3> HIDE DEF n, m
        <3> QED
            BY <3>1, <3>2 DEF n, m
    <2>3. CASE push
        BY <2>1, <2>2, <2>3, Grown
    <2>4. CASE ~push
        BY <2>1, <2>2, <2>4
    <2> QED
        BY <2>3, <2>4
<1>3. hfifo' \in Seq(Word) /\ Len(hfifo') <= HostBurst
    <2>1. /\ Fetched(stb) \in Seq(Word) /\ Len(Fetched(stb)) <= HostBurst
          /\ HostPop(hostAck) => Fetched(stb) # << >>
          /\ hfifo' = IF HostPop(hostAck) THEN Tail(Fetched(stb)) ELSE Fetched(stb)
        BY Fifos
    <2> QED
        BY <2>1, Front, Constants
<1>4. mem' \in [0 .. End -> Word \cup {Empty}]
    <2>1. SinkWrites(stb) => Head(sfifo) \in Word
        BY Transfers, Front DEF IInv, WordTypes
    <2> QED
        BY <2>1, Memory DEF IInv, WordTypes, Clock
<1> QED
    BY <1>1, <1>2, <1>3, <1>4 DEF WordTypes

\* A step reaches the state in which the ring is lost only by writing its last
\* word, all others being written and not read.
LEMMA LappedFrom ==
    ASSUME IInv, NEW ack \in BOOLEAN, NEW stb \in BOOLEAN, NEW hostAck \in BOOLEAN,
           NEW push \in BOOLEAN, Clock(ack, stb, hostAck, push), Lapped'
    PROVE  /\ SinkWrites(stb) /\ Fill = Size - 1 /\ Fill' = 0
           /\ rptr = Base /\ sfifo # << >>
<1>1. /\ wptr' = IF SinkWrites(stb) THEN wptr + 1 ELSE IF wptr = End THEN Base ELSE wptr
      /\ rptr' = IF ReadTakes(stb) THEN rptr + 1 ELSE IF rptr = End THEN Base ELSE rptr
      /\ wptr \in Base .. End /\ rptr \in Base .. End
    BY Pointers DEF Clock, IInv, RegTypes
<1>0. wptr' = End /\ rptr' = Base
    BY DEF Lapped
<1>2. /\ SinkWrites(stb) /\ wptr = End - 1 /\ rptr # End - 1 + 1 /\ ~ReadTakes(stb) /\ sfifo # << >>
    <2>1. wptr' = wptr \/ wptr' = Base \/ SinkWrites(stb)
        BY <1>1
    <2>2. SinkWrites(stb)
        <3>1. CASE wptr = End
            <4>1. Base # End
                BY Constants
            <4> QED
                BY <1>0, <1>1, <3>1, <4>1, Zenon
        <3>2. CASE wptr # End
            BY <1>0, <1>1, <3>2, Zenon
        <3> QED
            BY <3>1, <3>2
    <2>3. wptr + 1 = End
        BY <1>0, <1>1, <2>2
    <2> QED
        BY <1>1, <2>2, <2>3, Transfers, Constants
<1>3. rptr = Base
    BY <1>0, <1>1, <1>2, Constants
<1>4. /\ Offset(wptr) = Size - 1 /\ Offset(rptr) = 0
      /\ Offset(wptr') = 0 /\ Offset(rptr') = 0
    BY <1>0, <1>2, <1>3, Constants DEF Offset, Size
<1>5. Fill = Gap(Size - 1, 0) /\ Fill' = Gap(0, 0)
    BY <1>4, GapIs, Constants DEF Fill, Size
<1> QED
    BY <1>2, <1>3, <1>5, Constants DEF Gap

LEMMA StepRing ==
    ASSUME IInv, NEW ack \in BOOLEAN, NEW stb \in BOOLEAN, NEW hostAck \in BOOLEAN,
           NEW push \in BOOLEAN, Clock(ack, stb, hostAck, push)
    PROVE  RingInv'
<1>1. RegTypes'
    BY StepRegs
<1>2. /\ wptr' = IF SinkWrites(stb) THEN wptr + 1 ELSE IF wptr = End THEN Base ELSE wptr
      /\ rptr' = IF ReadTakes(stb) THEN rptr + 1 ELSE IF rptr = End THEN Base ELSE rptr
      /\ wptr \in Base .. End /\ rptr \in Base .. End
    BY Pointers DEF Clock, IInv, RegTypes
<1>3. ~(wptr' = End /\ rptr' = End)
    <2>1. SUFFICES ASSUME wptr' = End PROVE rptr' # End
        OBVIOUS
    <2>2. SinkWrites(stb) /\ wptr = End - 1 /\ rptr # End - 1 + 1 /\ ~ReadTakes(stb)
        BY <1>2, <2>1, Transfers, Constants
    <2> QED
        BY <1>2, <2>2, Constants
<1>4. Fill \in Nat
    BY Offsets, GapIs DEF IInv, RegTypes, Fill, Size
<1>5. CASE Lapped'
    BY <1>3, <1>5, LappedFrom DEF RingInv
<1>6. CASE ~Lapped'
    <2>1. /\ mem \in [0 .. End -> Word \cup {Empty}] /\ \A i \in 1 .. Fill : mem[Cell(i)] \in Word
          /\ SinkWrites(stb) => Head(sfifo) \in Word
        BY Transfers, Front DEF IInv, WordTypes, RingInv
    <2>2. ASSUME SinkWrites(stb) PROVE \A i \in 1 .. Fill' : mem'[Cell(i)'] \in Word
        <3>1. /\ Fill' = Fill + 1 /\ mem' = [mem EXCEPT ![wptr] = Head(sfifo)]
              /\ \A i \in 1 .. Fill : Cell(i)' = Cell(i) /\ Cell(i) # wptr
              /\ \A i \in 1 .. Fill + 1 : i > Fill => Cell(i)' = wptr
            BY <1>1, <1>4, <1>6, <2>2, RingMoves, Memory DEF Clock
        <3>2. ASSUME NEW i \in 1 .. Fill PROVE mem'[Cell(i)'] \in Word
            BY <2>1, <3>1, <3>2
        <3>3. mem'[wptr] \in Word
            BY <1>2, <2>1, <2>2, <3>1, Constants
        <3>4. TAKE i \in 1 .. Fill'
        <3> QED
            BY <1>4, <3>1, <3>2, <3>3
    <2>3. ASSUME ReadTakes(stb) PROVE \A i \in 1 .. Fill' : mem'[Cell(i)'] \in Word
        <3>1. /\ Fill' = Fill - 1 /\ mem' = [mem EXCEPT ![rptr] = Empty]
              /\ \A i \in 1 .. Fill - 1 : Cell(i)' = Cell(i + 1) /\ Cell(i + 1) # rptr
            BY <1>1, <1>6, <2>3, RingMoves, Memory DEF Clock
        <3>2. ASSUME NEW i \in 1 .. Fill - 1 PROVE mem'[Cell(i)'] \in Word
            <4>1. mem[Cell(i + 1)] \in Word
                BY <1>4, <2>1, <3>2
            <4> QED
                BY <2>1, <3>1, <3>2, <4>1
        <3> QED
            BY <1>4, <3>1, <3>2
    <2>4. ASSUME ~SinkWrites(stb) /\ ~ReadTakes(stb) PROVE \A i \in 1 .. Fill' : mem'[Cell(i)'] \in Word
        <3>1. Fill' = Fill /\ mem' = mem /\ \A i \in 1 .. Fill : Cell(i)' = Cell(i)
            BY <1>1, <1>6, <2>4, RingMoves, Memory DEF Clock
        <3> QED
            BY <2>1, <3>1
    <2>5. \A i \in 1 .. Fill' : mem'[Cell(i)'] \in Word
        BY <2>2, <2>3, <2>4
    <2> QED
        BY <1>3, <2>5 DEF RingInv
<1> QED
    BY <1>5, <1>6
\* As long as there is room, the ring is not lost, and there is room after it.
LEMMA StepRoom ==
    ASSUME IInv, KeepsRoom, RoomInv, NEW ack \in BOOLEAN, NEW stb \in BOOLEAN, NEW hostAck \in BOOLEAN,
           NEW push \in BOOLEAN, Clock(ack, stb, hostAck, push)
    PROVE  RoomInv' /\ ~Lapped'
<1>1. RegTypes'
    BY StepRegs
<1>2. /\ wptr' = IF SinkWrites(stb) THEN wptr + 1 ELSE IF wptr = End THEN Base ELSE wptr
      /\ rptr' = IF ReadTakes(stb) THEN rptr + 1 ELSE IF rptr = End THEN Base ELSE rptr
      /\ wptr \in Base .. End /\ rptr \in Base .. End
    BY Pointers DEF Clock, IInv, RegTypes
<1>6. ~Lapped'
    <2> SUFFICES ASSUME Lapped' PROVE FALSE
        OBVIOUS
    <2>1. Fill = Size - 1 /\ rptr = Base /\ sfifo # << >>
        BY LappedFrom
    <2>2. Len(sfifo) \in Nat \ {0}
        BY <2>1, Front DEF IInv, WordTypes
    <2> QED
        BY <2>1, <2>2, Constants DEF RoomInv, Lead
<1>3. /\ Fill \in 0 .. Size - 1 /\ Fill' \in 0 .. Size - 1
      /\ Fill' = IF SinkWrites(stb) THEN Fill + 1 ELSE IF ReadTakes(stb) THEN Fill - 1 ELSE Fill
    <2>1. Fill \in 0 .. Size - 1
        BY Offsets, GapIs DEF IInv, RegTypes, Fill, Size
    <2>2. Fill' \in 0 .. Size - 1
        <3>1. Offset(wptr') \in 0 .. Size - 1 /\ Offset(rptr') \in 0 .. Size - 1
            BY <1>1, Offsets DEF RegTypes
        <3> QED
            BY <3>1, GapIs DEF Fill, Size
    <2> QED
        BY <1>1, <1>6, <2>1, <2>2, RingMoves, Transfers DEF Clock
<1>4. /\ Len(sfifo) \in Nat /\ Len(sfifo') \in Nat
      /\ SinkWrites(stb) => Len(sfifo') <= IF push THEN Len(sfifo) ELSE Len(sfifo) - 1
      /\ ~SinkWrites(stb) => Len(sfifo') <= IF push THEN Len(sfifo) + 1 ELSE Len(sfifo)
    <2>1. /\ nextWord \in Word /\ Written(stb) \in Seq(Word) /\ Len(sfifo) \in Nat
          /\ Len(Written(stb)) = IF SinkWrites(stb) THEN Len(sfifo) - 1 ELSE Len(sfifo)
          /\ Len(Written(stb)) \in Nat
          /\ sfifo' = IF push THEN Append(Written(stb), nextWord) ELSE Written(stb)
        BY Fifos DEF IInv, WordTypes
    <2>2. Len(sfifo') = IF push THEN Len(Written(stb)) + 1 ELSE Len(Written(stb))
        BY <2>1, Grown
    <2> QED
        BY <2>1, <2>2
<1>5. Lead' <= 2 * Size - 1
    <2> DEFINE lap(p) == IF p = Base THEN Size ELSE p - Base
    <2>1. /\ Lead = lap(rptr) + Fill + Len(sfifo) /\ Lead' = lap(rptr') + Fill' + Len(sfifo')
          /\ lap(rptr) \in Nat /\ lap(rptr') \in Nat
        BY <1>1, <1>2, Constants DEF Lead, RegTypes
    <2>2. lap(rptr') <= IF ReadTakes(stb) THEN lap(rptr) + 1 ELSE lap(rptr)
        BY <1>2, Transfers, Constants
    <2>3. SinkWrites(stb) => ~ReadTakes(stb)
        BY Transfers
    <2> HIDE DEF lap
    <2>4. Lead \in Nat /\ Lead' \in Nat
        BY <1>3, <1>4, <2>1, SMTT(30)
    <2>5. CASE push
        <3>1. Lead < Load
            BY <2>5 DEF Clock
        <3>2. Lead' <= Lead + 1
            BY <1>3, <1>4, <2>1, <2>2, <2>3, <2>5, SMTT(30)
        <3> QED
            BY <2>4, <3>1, <3>2, Constants DEF KeepsRoom
    <2>6. CASE ~push
        <3>1. Lead' <= Lead
            BY <1>3, <1>4, <2>1, <2>2, <2>3, <2>6, SMTT(30)
        <3> QED
            BY <2>4, <3>1, Constants DEF RoomInv
    <2> QED
        BY <2>5, <2>6
<1> QED
    BY <1>5, <1>6 DEF RoomInv
-----------------------------------------------------------------------------
(* The three parts are one queue.                                          *)

LEMMA RingWordsAre ==
    ASSUME RegTypes, RingInv
    PROVE  RingWords \in Seq(Word) /\ Len(RingWords) = Fill /\ Fill \in Nat
           /\ \A i \in 1 .. Fill : RingWords[i] = mem[Cell(i)]
<1>1. Fill \in 0 .. Size - 1
    BY Offsets, GapIs DEF RegTypes, Fill, Size
<1>2. RingWords = [i \in 1 .. Fill |-> mem[Cell(i)]]
    BY DEF RingWords, Cell, Size
<1>3. [i \in 1 .. Fill |-> mem[Cell(i)]] \in Seq(Word)
    BY <1>1 DEF RingInv
<1> QED
    BY <1>1, <1>2, <1>3

\* A transfer moves a word from one part to the next, unless the ring is lost.
LEMMA Transfer ==
    ASSUME IInv, NEW ack \in BOOLEAN, NEW stb \in BOOLEAN, NEW hostAck \in BOOLEAN,
           NEW push \in BOOLEAN, Clock(ack, stb, hostAck, push), ~Lapped'
    PROVE  /\ Fetched(stb) \o RingWords' \o Written(stb) = hfifo \o RingWords \o sfifo
           /\ RingWords' \in Seq(Word)
<1>1. RegTypes' /\ RingInv'
    BY StepRegs, StepRing
<1>2. /\ RingWords \in Seq(Word) /\ Len(RingWords) = Fill /\ Fill \in Nat
      /\ \A i \in 1 .. Fill : RingWords[i] = mem[Cell(i)]
      /\ \A i \in 1 .. Fill : mem[Cell(i)] \in Word
    BY RingWordsAre DEF IInv, RingInv
<1>3. /\ RingWords' \in Seq(Word) /\ Len(RingWords') = Fill' /\ Fill' \in Nat
      /\ \A i \in 1 .. Fill' : RingWords'[i] = mem'[Cell(i)']
    <2>1. Fill' \in 0 .. Size - 1
        <3>1. Offset(wptr') \in 0 .. Size - 1 /\ Offset(rptr') \in 0 .. Size - 1
            BY <1>1, Offsets DEF RegTypes
        <3> QED
            BY <3>1, GapIs DEF Fill, Size
    <2>2. RingWords' = [i \in 1 .. Fill' |-> mem'[Cell(i)']]
        BY DEF RingWords, Cell, Size
    <2>3. [i \in 1 .. Fill' |-> mem'[Cell(i)']] \in Seq(Word)
        BY <1>1, <2>1 DEF RingInv
    <2> QED
        BY <2>1, <2>2, <2>3
<1>4. mem \in [0 .. End -> Word \cup {Empty}] /\ hfifo \in Seq(Word) /\ sfifo \in Seq(Word)
      /\ wptr \in 0 .. End /\ rptr \in 0 .. End
    BY Constants DEF IInv, WordTypes, RegTypes
<1>5. CASE SinkWrites(stb)
    <2>1. /\ Fill' = Fill + 1 /\ mem' = [mem EXCEPT ![wptr] = Head(sfifo)]
          /\ \A i \in 1 .. Fill : Cell(i)' = Cell(i) /\ Cell(i) # wptr
          /\ \A i \in 1 .. Fill + 1 : i > Fill => Cell(i)' = wptr
          /\ sfifo # << >> /\ ~ReadTakes(stb)
        BY <1>1, <1>2, <1>5, RingMoves, Memory, Transfers DEF Clock
    <2>2. Head(sfifo) \in Word
        BY <1>4, <2>1, Front
    <2>3. RingWords' = Append(RingWords, Head(sfifo))
        <3> DEFINE t == Append(RingWords, Head(sfifo))
        <3>1. /\ t \in Seq(Word) /\ Len(t) = Fill + 1 /\ t[Fill + 1] = Head(sfifo)
              /\ \A i \in 1 .. Fill : t[i] = mem[Cell(i)]
            BY <1>2, <2>2, AppendProperties
        <3>2. \A i \in 1 .. Fill + 1 : RingWords'[i] = t[i]
            BY <1>2, <1>3, <1>4, <2>1, <3>1
        <3> HIDE DEF t
        <3>3. RingWords' = t
            BY <1>2, <1>3, <2>1, <3>1, <3>2, SeqEqual
        <3> QED
            BY <3>3 DEF t
    <2>4. hfifo \o RingWords' = Append(hfifo \o RingWords, Head(sfifo)) /\ hfifo \o RingWords \in Seq(Word)
        BY <1>2, <1>4, <2>2, <2>3, PushEnd, ConcatProperties
    <2> QED
        BY <1>3, <1>4, <1>5, <2>1, <2>4, Move DEF Fetched, Written
<1>6. CASE ReadTakes(stb)
    <2>1. /\ Fill # 0 /\ Fill' = Fill - 1 /\ mem' = [mem EXCEPT ![rptr] = Empty]
          /\ Cell(1) = rptr
          /\ \A i \in 1 .. Fill - 1 : Cell(i)' = Cell(i + 1) /\ Cell(i + 1) # rptr
          /\ ~SinkWrites(stb)
        BY <1>1, <1>6, RingMoves, Memory, Transfers DEF Clock
    <2>2. RingWords # << >>
        BY <1>2, <2>1, EmptySeq
    <2>3. Head(RingWords) = mem[rptr]
        BY <1>2, <2>1, <2>2, Front
    <2>4. RingWords' = Tail(RingWords)
        <3> DEFINE t == Tail(RingWords)
        <3>1. /\ t \in Seq(Word) /\ Len(t) = Fill - 1
              /\ \A i \in 1 .. Fill - 1 : t[i] = RingWords[i + 1]
            BY <1>2, <2>2, HeadTailProperties
        <3>2. ASSUME NEW i \in 1 .. Fill - 1 PROVE RingWords'[i] = t[i]
            <4>1. RingWords[i + 1] = mem[Cell(i + 1)] /\ mem[Cell(i + 1)] \in Word
                BY <1>2
            <4>2. RingWords'[i] = mem'[Cell(i + 1)]
                BY <1>2, <1>3, <2>1
            <4> QED
                BY <1>4, <2>1, <3>1, <4>1, <4>2
        <3> HIDE DEF t
        <3>3. RingWords' = t
            BY <1>2, <1>3, <2>1, <3>1, <3>2, SeqEqual
        <3> QED
            BY <3>3 DEF t
    <2> QED
        BY <1>2, <1>3, <1>4, <1>6, <2>1, <2>2, <2>3, <2>4, Move DEF Fetched, Written
<1>7. CASE ~SinkWrites(stb) /\ ~ReadTakes(stb)
    <2>1. Fill' = Fill /\ mem' = mem /\ \A i \in 1 .. Fill : Cell(i)' = Cell(i)
        BY <1>1, <1>7, RingMoves, Memory DEF Clock
    <2>2. RingWords' = RingWords
        BY <1>2, <1>3, <2>1, SeqEqual
    <2> QED
        BY <1>3, <1>7, <2>2 DEF Fetched, Written
<1> QED
    BY <1>3, <1>5, <1>6, <1>7

LEMMA QueueStep ==
    ASSUME IInv, Next, ~Lapped'
    PROVE  Queue!Next \/ UNCHANGED (hfifo \o RingWords \o sfifo)
<1>1. PICK ack \in BOOLEAN, stb \in BOOLEAN, hostAck \in BOOLEAN, push \in BOOLEAN :
          Clock(ack, stb, hostAck, push)
    BY DEF Next
<1> DEFINE q == hfifo \o RingWords \o sfifo
           out == IF HostPop(hostAck) THEN Tail(q) ELSE q
<1>2. /\ Fetched(stb) \o RingWords' \o Written(stb) = q /\ RingWords' \in Seq(Word)
      /\ Fetched(stb) \in Seq(Word) /\ Written(stb) \in Seq(Word) /\ nextWord \in Word
      /\ HostPop(hostAck) => Fetched(stb) # << >>
      /\ hfifo' = IF HostPop(hostAck) THEN Tail(Fetched(stb)) ELSE Fetched(stb)
      /\ sfifo' = IF push THEN Append(Written(stb), nextWord) ELSE Written(stb)
    BY <1>1, Transfer, Fifos DEF IInv, WordTypes
<1>3. hfifo' \in Seq(Word) /\ hfifo' \o RingWords' \in Seq(Word)
    BY <1>2, HeadTailProperties, ConcatProperties
<1>4. hfifo' \o RingWords' \o Written(stb) = out /\ (HostPop(hostAck) => q # << >>)
    <2>1. CASE HostPop(hostAck)
        <3>1. Fetched(stb) \o RingWords' # << >> /\ Fetched(stb) \o RingWords' \in Seq(Word)
              /\ Tail(Fetched(stb)) \o RingWords' = Tail(Fetched(stb) \o RingWords')
            BY <1>2, <2>1, PopFront, ConcatProperties
        <3> QED
            BY <1>2, <2>1, <3>1, PopFront, ZenonT(60)
    <2>2. CASE ~HostPop(hostAck)
        BY <1>2, <2>2
    <2> QED
        BY <2>1, <2>2
<1>5. q' = IF push THEN Append(out, nextWord) ELSE out
    <2>1. push => hfifo' \o RingWords' \o Append(Written(stb), nextWord) = Append(out, nextWord)
        <3>1. hfifo' \o RingWords' \o Append(Written(stb), nextWord)
                  = Append(hfifo' \o RingWords' \o Written(stb), nextWord)
            BY <1>2, <1>3, PushEnd, ZenonT(60)
        <3> QED
            BY <1>4, <3>1, Zenon
    <2> QED
        BY <1>2, <1>4, <2>1
<1> QED
    BY <1>2, <1>4, <1>5 DEF Queue!Next, Queue!Push, Queue!Pop, Queue!PushPop
-----------------------------------------------------------------------------
(* The theorems.                                                           *)

LEMMA StepAll == ASSUME IInv, [Next]_vars PROVE IInv'
<1>1. CASE Next
    <2>1. PICK ack \in BOOLEAN, stb \in BOOLEAN, hostAck \in BOOLEAN, push \in BOOLEAN :
              Clock(ack, stb, hostAck, push)
        BY <1>1 DEF Next
    <2> QED
        BY <2>1, StepRegs, StepWords, StepPort, StepGo, StepRing DEF IInv
<1>2. CASE UNCHANGED vars
    BY <1>2 DEF vars, goVars, sinkVars, readVars, muxVars, IInv, RegTypes, WordTypes, PortInv, GoInv,
       RingInv, Fill, Cell
<1> QED
    BY <1>1, <1>2

LEMMA InitFill == ASSUME AtZero, Init PROVE Fill = 0
<1>1. Offset(0) = 0
    BY Constants DEF Offset, AtZero
<1>2. Fill = Gap(0, 0)
    BY <1>1, GapIs, Constants DEF Fill, Size, Init
<1> QED
    BY <1>2 DEF Gap

LEMMA InitAll == ASSUME AtZero, Init PROVE IInv
<1> USE Constants DEF AtZero, Init
<1>1. wptr \in Base .. End /\ rptr \in Base .. End /\ cmd \in [dir : {"none", "write", "read"}, addr : 0 .. End]
    BY DEF NoCmd
<1>2. RegTypes
    BY <1>1, SMTT(30) DEF RegTypes, Ports
<1>3. WordTypes
    BY EmptySeq DEF WordTypes, Word
<1>4. PortInv /\ GoInv
    BY DEF PortInv, GoInv
<1>5. Fill = 0
    BY InitFill
<1>6. RingInv
    BY <1>5, EmptySeq DEF RingInv, AtZero
<1> QED
    BY <1>2, <1>3, <1>4, <1>6 DEF IInv

LEMMA IInvHolds == ASSUME AtZero PROVE Spec => []IInv
<1>1. Init => IInv
    BY InitAll
<1>2. IInv /\ [Next]_vars => IInv'
    BY StepAll
<1> QED
    BY <1>1, <1>2, PTL DEF Spec

\* Every register and FIFO of the capture buffer keeps to its range.
THEOREM TypeCorrect == ASSUME AtZero PROVE Spec => []TypeOK
<1>1. IInv => TypeOK
    <2> SUFFICES ASSUME IInv PROVE TypeOK
        OBVIOUS
    <2>1. /\ \A i \in 1 .. Len(sfifo) : sfifo[i] \in Word
          /\ \A i \in 1 .. Len(hfifo) : hfifo[i] \in Word
        BY DEF IInv, WordTypes
    <2> QED
        BY <2>1 DEF IInv, RegTypes, WordTypes, TypeOK
<1> QED
    BY <1>1, IInvHolds, PTL

\* In every burst the address in the controller, which counts by itself, is
\* the pointer of SDRAM_Sink or SDRAM_Host_Read that SDRAMMux has granted.
THEOREM PointersInStep == ASSUME AtZero PROVE Spec => []InStep
<1>1. IInv => InStep
    BY DEF IInv, RegTypes, Ports, PortInv, InStep
<1> QED
    BY <1>1, IInvHolds, PTL

\* The buffer is a queue of words, except for the one clock in which it is not:
\* a write that takes wptr to the end of the ring while rptr is at its base.
QueueUnlessLapped ==
    /\ Queue!Init
    /\ [][Queue!Next \/ Lapped']_(hfifo \o RingWords \o sfifo)

\* Whatever the pace of the capture, no clock loses, repeats or reorders a word
\* except one that writes the last word of the ring while SDRAM_Host_Read rests
\* at its base: the defect SdramRing_full shows is the only one of its kind.
THEOREM OnlyLappingLoses == ASSUME AtZero PROVE Spec => QueueUnlessLapped
<1>1. Init => Queue!Init
    <2> SUFFICES ASSUME Init PROVE hfifo \o RingWords \o sfifo = << >>
        BY DEF Queue!Init
    <2>1. RingWords = << >>
        <3>1. RingWords \in Seq(Word) /\ Len(RingWords) = Fill /\ Fill = 0
            BY InitAll, InitFill, RingWordsAre DEF IInv
        <3> QED
            BY <3>1, EmptySeq
    <2> QED
        BY <2>1 DEF Init
<1>2. IInv /\ [Next]_vars => [Queue!Next \/ Lapped']_(hfifo \o RingWords \o sfifo)
    <2>1. CASE Next
        BY <2>1, QueueStep
    <2>2. CASE UNCHANGED vars
        BY <2>2 DEF vars, readVars, RingWords, Fill
    <2> QED
        BY <2>1, <2>2
<1> QED
    BY <1>1, <1>2, IInvHolds, PTL DEF Spec, QueueUnlessLapped

\* If the capture never fills the ring while SDRAM_Host_Read rests at its base
\* (the code does not ensure it: it is a bound on the pace of the bus), sink
\* FIFO, ring and read FIFO of any size implement one queue of words.
THEOREM RingIsQueue == ASSUME AtZero, KeepsRoom PROVE Spec => QueueSpec
<1>1. Init => RoomInv
    <2> SUFFICES ASSUME Init PROVE Lead <= 2 * Size - 1
        BY DEF RoomInv
    <2>1. Fill = 0 /\ Len(sfifo) = 0 /\ rptr = Base
        BY InitFill, EmptySeq DEF Init, AtZero
    <2>2. Lead = Size
        BY <2>1, Constants DEF Lead
    <2> QED
        BY <2>2, Constants
<1>2. IInv /\ RoomInv /\ [Next]_vars => RoomInv' /\ (~Lapped' \/ UNCHANGED vars)
    <2> SUFFICES ASSUME IInv, RoomInv, [Next]_vars PROVE RoomInv' /\ (~Lapped' \/ UNCHANGED vars)
        OBVIOUS
    <2>1. CASE Next
        <3>1. PICK ack \in BOOLEAN, stb \in BOOLEAN, hostAck \in BOOLEAN, push \in BOOLEAN :
                  Clock(ack, stb, hostAck, push)
            BY <2>1 DEF Next
        <3> QED
            BY <3>1, StepRoom
    <2>2. CASE UNCHANGED vars
        BY <2>2 DEF vars, RoomInv, Lead, Fill
    <2> QED
        BY <2>1, <2>2
<1>3. UNCHANGED vars => UNCHANGED (hfifo \o RingWords \o sfifo)
    BY DEF vars, readVars, RingWords, Fill
<1>4. IInv /\ RoomInv /\ [Next]_vars => [Queue!Next]_(hfifo \o RingWords \o sfifo)
    <2> SUFFICES ASSUME IInv, RoomInv, [Next]_vars
                 PROVE  Queue!Next \/ UNCHANGED (hfifo \o RingWords \o sfifo)
        OBVIOUS
    <2> QED
        BY <1>2, <1>3, QueueStep
<1>5. Spec => [](IInv /\ RoomInv)
    BY <1>1, <1>2, IInvHolds, PTL DEF Spec
<1>6. Spec => Queue!Init
    BY OnlyLappingLoses DEF QueueUnlessLapped
<1> QED
    BY <1>4, <1>5, <1>6, PTL DEF Spec, QueueSpec, Queue!Spec
=============================================================================
