------------------------------- MODULE Whacker -------------------------------
(***************************************************************************)
(* The "whacker" (ovhw/whacker): a producer that frames the tagged ULPI    *)
(* byte stream into packets in a ring memory, and a consumer that streams  *)
(* each finished packet out of it. Both run on the same clock and share    *)
(* only the memory, the out_addr handshake and the consumer's read         *)
(* position, which the producer uses as its watermark: there is no other   *)
(* full/empty bookkeeping. One step of the specification is one clock edge *)
(* of the whole block.                                                     *)
(***************************************************************************)
EXTENDS PacketFormat

CONSTANTS Depth,      \* bytes in the ring memory (1024)
          MaxPacket   \* payload bytes at which a packet is cut (800)

\* The payload and the space kept free must fit beside each other in the
\* ring, or the producer waits for space that can never appear. Size and
\* offset registers are wide enough for the memory.
ASSUME DepthAssumption ==
    /\ Depth \in Nat
    /\ MaxPacket \in Nat \ {0}
    /\ Depth >= MaxPacket + 18

ASSUME NoneAssumption == None \notin Data \cup Timestamps

VARIABLES pstate,       \* producer FSM
          pw, ph,       \* produce_write, produce_header
          size, flags,  \* of the packet being assembled
          toStart,      \* to_start: a start of packet was seen inside a packet
          pktTs,        \* pkt_timestamp
          first, last,  \* packet_first, packet_last: markers still to be sent
          ena, enLast,  \* capture enable (CSTREAM_CFG) and its value a clock ago
          mem,          \* the ring memory
          cstate,       \* consumer FSM
          pos, ct,      \* address of the byte offered, bytes to go after it
          sink          \* the item offered at ulpi_sink, or NoItem

producerVars == << pstate, pw, ph, size, flags, toStart >>
markerVars == << pktTs, first, last, ena, enLast >>
consumerVars == << cstate, pos, ct >>
vars == << producerVars, markerVars, mem, consumerVars, sink >>

\* What the block's own clock drives.
registers == << producerVars, pktTs, first, last, enLast, mem, consumerVars >>

Addr == 0 .. Depth - 1
\* Addresses are log2(Depth) bits wide and wrap around.
Plus(a, n)  == IF a + n >= Depth THEN a + n - Depth ELSE a + n
Minus(a, n) == IF a >= n THEN a - n ELSE a - n + Depth

-----------------------------------------------------------------------------
(* The items of the tagged stream (ULPI_DATA_TAG). *)

Item == [tag : {"data"}, val : Data] \cup [tag : {"start"}, val : Timestamps]
        \cup [tag : {"end", "err", "ovf"}, val : {None}]
NoItem == [tag |-> "none", val |-> None]

Stb     == sink # NoItem
IsStart == sink.tag = "start"

-----------------------------------------------------------------------------
(* Combinational signals of the producer. *)

\* Variants of HasSpace that the properties must tell from it: measured
\* against the producer's own header, and a reserve counted twice.
HasSpaceOwnHeader == Minus(Minus(ph, pw), 1) > 8
HasSpaceTwoHeaders == Minus(Minus(pos, pw), 1) > 16

HasSpace == Minus(Minus(pos, pw), 1) > 8

StuffPacket == first \/ last

\* The condition under which IDLE acts on the item offered or on a marker.
\* Variant: a marker waits for an item to be offered.
IdleTakeNeedsItem ==
    /\ pstate = "IDLE"
    /\ Stb \/ toStart
    /\ ena \/ StuffPacket
    /\ HasSpace

IdleTake ==
    /\ pstate = "IDLE"
    /\ ((Stb \/ toStart) /\ ena) \/ StuffPacket
    /\ HasSpace

ClearAccFlags ==
    \/ IdleTake /\ ~(IsStart \/ toStart) /\ StuffPacket
    \/ pstate = "waitdone"

\* Variant: nothing is dumped while the capture is disabled.
SinkAckNoDump ==
    \/ IdleTake /\ (~toStart \/ (Stb /\ StuffPacket))
    \/ pstate = "DATA" /\ size < MaxPacket /\ HasSpace /\ Stb

SinkAck ==
    \/ IdleTake /\ (~toStart \/ (Stb /\ StuffPacket))
    \/ pstate = "IDLE" /\ ~IdleTake /\ ~ena
    \/ pstate = "DATA" /\ size < MaxPacket /\ HasSpace /\ Stb

FlagsIni == (IF last THEN {"LAST"} ELSE {}) \cup (IF first THEN {"FIRST"} ELSE {})

\* The write port of the ring memory.
\* Variant: one byte past the limit is still written.
DataWriteOnePast == pstate = "DATA" /\ size <= MaxPacket /\ HasSpace /\ sink.tag = "data"

DataWrite == pstate = "DATA" /\ size < MaxPacket /\ HasSpace /\ sink.tag = "data"

WrEnable  == DataWrite \/ pstate \in HeaderStates
WrAddr    == IF DataWrite THEN pw ELSE Plus(ph, HeaderOffset[pstate])
WrCell    == IF DataWrite THEN DataCell(sink.val)
                          ELSE HeaderCell(pstate, flags, size, pktTs)

-----------------------------------------------------------------------------
(* The states of the producer FSM. *)

\* What IDLE sets up for any item it takes, a start of packet or not.
\* Variant: the size of the packet before is kept.
SetUpStaleSize ==
    /\ pw' = Plus(ph, 8)
    /\ flags' = FlagsIni
    /\ toStart' = FALSE
    /\ UNCHANGED << ph, size >>

SetUp ==
    /\ pw' = Plus(ph, 8)
    /\ size' = 0
    /\ flags' = FlagsIni
    /\ toStart' = FALSE
    /\ UNCHANGED ph

IdleStart ==
    /\ IdleTake
    /\ IsStart \/ toStart
    /\ SetUp
    /\ pstate' = "DATA"

IdleStuff ==
    /\ IdleTake
    /\ ~(IsStart \/ toStart)
    /\ StuffPacket
    /\ SetUp
    /\ pstate' = "WH0"

\* An item outside any packet is acknowledged and forgotten.
IdleDrop ==
    /\ IdleTake
    /\ ~(IsStart \/ toStart)
    /\ ~StuffPacket
    /\ SetUp
    /\ UNCHANGED pstate

\* Waiting, or dumping what is received while the capture is disabled.
IdleWait ==
    /\ pstate = "IDLE"
    /\ ~IdleTake
    /\ UNCHANGED producerVars

DataTruncate ==
    /\ pstate = "DATA"
    /\ size >= MaxPacket
    /\ flags' = flags \cup {"TRUNC"}
    /\ pstate' = "WH0"
    /\ UNCHANGED << pw, ph, size, toStart >>

DataByte ==
    /\ DataWrite
    /\ size' = size + 1
    /\ pw' = Plus(pw, 1)
    /\ UNCHANGED << pstate, ph, flags, toStart >>

DataRxcmd ==
    /\ pstate = "DATA"
    /\ size < MaxPacket
    /\ HasSpace
    /\ Stb
    /\ sink.tag # "data"
    /\ flags' = flags \cup CASE sink.tag \in {"start", "ovf"} -> {"OVF"}
                             [] sink.tag = "err" -> {"ERR"}
                             [] OTHER -> {}
    /\ toStart' = (toStart \/ IsStart)
    /\ pstate' = "waitdone"
    /\ UNCHANGED << pw, ph, size >>

DataWait ==
    /\ pstate = "DATA"
    /\ size < MaxPacket
    /\ ~(HasSpace /\ Stb)
    /\ UNCHANGED producerVars

\* No look-aside filters are attached: filter_done = 1, filter_reject = 0.
WaitDone ==
    /\ pstate = "waitdone"
    /\ pstate' = "WH0"
    /\ UNCHANGED << pw, ph, size, flags, toStart >>

NextHeaderState ==
    [ WH0  |-> "WRF0", WRF0 |-> "WRF1", WRF1 |-> "WRSL", WRSL |-> "WRSH",
      WRSH |-> "WRTL", WRTL |-> "WRTM", WRTM |-> "WRTH", WRTH |-> "SEND" ]

WriteHdr ==
    /\ pstate \in HeaderStates
    /\ pstate' = NextHeaderState[pstate]
    /\ UNCHANGED << pw, ph, size, flags, toStart >>

\* out_addr is acknowledged in the clock in which the consumer is idle.
OutAddrAck == pstate = "SEND" /\ cstate = "IDLE"

Send ==
    /\ OutAddrAck
    /\ ph' = pw
    /\ pstate' = "IDLE"
    /\ UNCHANGED << pw, size, flags, toStart >>

SendWait ==
    /\ pstate = "SEND"
    /\ ~OutAddrAck
    /\ UNCHANGED producerVars

Producer ==
    \/ IdleStart \/ IdleStuff \/ IdleDrop \/ IdleWait
    \/ DataTruncate \/ DataByte \/ DataRxcmd \/ DataWait
    \/ WaitDone \/ WriteHdr \/ Send \/ SendWait

-----------------------------------------------------------------------------
(* Registers clocked beside the producer FSM. *)

\* Raising a marker has priority over clearing it in the same clock.
Markers ==
    /\ first' = ((ena /\ ~enLast) \/ (first /\ ~ClearAccFlags))
    /\ last'  = ((~ena /\ enLast) \/ (last /\ ~ClearAccFlags))
    /\ pktTs' = IF IsStart /\ SinkAck THEN sink.val ELSE pktTs
    /\ enLast' = ena

-----------------------------------------------------------------------------
(* The consumer. *)

\* Variant: one byte more than the packet has.
ConsumerTakeOneMore ==
    /\ OutAddrAck
    /\ pos' = ph
    /\ ct' = Plus(size, 8)
    /\ cstate' = "d"

ConsumerTake ==
    /\ OutAddrAck
    /\ pos' = ph
    /\ ct' = Minus(Plus(size, 8), 1)    \* out_addr.count has the address width
    /\ cstate' = "d"

ConsumerIdle ==
    /\ cstate = "IDLE"
    /\ ~OutAddrAck
    /\ UNCHANGED consumerVars

ConsumerNext ==
    /\ cstate = "d"
    /\ ct # 0
    /\ pos' = Plus(pos, 1)
    /\ ct' = ct - 1
    /\ UNCHANGED cstate

ConsumerLast ==
    /\ cstate = "d"
    /\ ct = 0
    /\ cstate' = "IDLE"
    /\ UNCHANGED << pos, ct >>

ConsumerHold ==
    /\ cstate = "d"
    /\ UNCHANGED consumerVars

\* sourceAck: the stage behind takes the byte offered in this clock.
Consumer(sourceAck) ==
    \/ ConsumerTake
    \/ ConsumerIdle
    \/ sourceAck /\ ConsumerNext
    \/ sourceAck /\ ConsumerLast
    \/ ~sourceAck /\ ConsumerHold

\* The ring memory. A byte taken by the stage behind is never needed again:
\* the model forgets it, so that reading it a second time shows.
Memory(sourceAck) ==
    LET read == IF cstate = "d" /\ sourceAck THEN [mem EXCEPT ![pos] = Junk] ELSE mem
    IN  mem' = IF WrEnable THEN [read EXCEPT ![WrAddr] = WrCell] ELSE read

-----------------------------------------------------------------------------
(* The surroundings: the receive path holds an item until it is taken, and *)
(* the host writes the capture enable, never in two consecutive clocks (a  *)
(* register write takes the command processor several).                    *)

Upstream ==
    sink' \in IF SinkAck \/ ~Stb THEN Item \cup {NoItem} ELSE {sink}

CaptureEnable ==
    ena' \in IF ena = enLast THEN BOOLEAN ELSE {ena}

-----------------------------------------------------------------------------
Init ==
    /\ pstate = "IDLE" /\ pw = 0 /\ ph = 0 /\ size = 0 /\ flags = {}
    /\ toStart = FALSE /\ pktTs = None
    /\ first = FALSE /\ last = FALSE /\ ena = FALSE /\ enLast = FALSE
    /\ mem = [a \in Addr |-> Junk]
    /\ cstate = "IDLE" /\ pos = 0 /\ ct = 0
    /\ sink = NoItem

Clock(sourceAck) ==
    /\ Producer
    /\ Markers
    /\ Consumer(sourceAck)
    /\ Memory(sourceAck)
    /\ Upstream
    /\ CaptureEnable

Next == \E sourceAck \in BOOLEAN : Clock(sourceAck)

Spec == Init /\ [][Next]_vars

-----------------------------------------------------------------------------
(* Properties. *)

\* Every register keeps to its width and every memory cell holds a byte of a
\* packet (Producer and Consumer registers, the ring memory).
TypeOK ==
    /\ pstate \in {"IDLE", "DATA", "waitdone", "SEND"} \cup HeaderStates
    /\ pw \in Addr
    /\ ph \in Addr
    /\ size \in 0 .. MaxPacket
    /\ flags \in SUBSET Flags
    /\ toStart \in BOOLEAN
    /\ pktTs \in Timestamps \cup {None}
    /\ first \in BOOLEAN
    /\ last \in BOOLEAN
    /\ ena \in BOOLEAN
    /\ enLast \in BOOLEAN
    /\ DOMAIN mem = Addr
    /\ \A a \in Addr : IsCell(mem[a])
    /\ cstate \in {"IDLE", "d"}
    /\ pos \in Addr
    /\ ct \in Addr
    /\ sink \in Item \cup {NoItem}

\* The addresses of the packet being delivered that are still to be read.
Unread == IF cstate = "d" THEN {Plus(pos, k) : k \in 0 .. ct} ELSE {}

\* The producer never writes a byte of the packet the consumer is still
\* reading: the watermark test of HasSpace is enough on its own to keep the
\* two apart, at every fill level and every position of the ring.
NoOverrun == WrEnable => WrAddr \notin Unread

\* Once the consumer has read everything handed to it, the producer has the
\* room it needs for its next byte or its next packet: the two never wait for
\* each other. This is what DepthAssumption buys.
RoomWhenDrained ==
    cstate = "IDLE" /\ (pstate = "IDLE" \/ (pstate = "DATA" /\ size < MaxPacket)) => HasSpace

\* The packet being assembled and the one being delivered, as PacketStream has
\* them: in the ring, behind the header and from the reader's position on.
StreamPhase == CASE pstate = "IDLE" -> "idle"
                 [] pstate = "DATA" -> "open"
                 [] OTHER -> "closed"
StreamBody  == IF pstate = "IDLE" THEN << >>
               ELSE [k \in 1 .. size |-> mem[Plus(ph, 7 + k)]]
StreamFlags == IF pstate = "IDLE" THEN {} ELSE flags
StreamOut   == IF cstate = "IDLE" THEN << >>
               ELSE [k \in 1 .. ct + 1 |-> mem[Plus(pos, k - 1)]]

\* The whacker implements PacketStream: packets come out of the ring whole,
\* in order and once, with the header their fields call for.
Stream == INSTANCE PacketStream WITH
    phase <- StreamPhase, body <- StreamBody, flags <- StreamFlags, outgoing <- StreamOut
StreamSpec == Stream!Spec

\* Producer and consumer never wait for each other for ever: an item offered
\* by the receive path is always taken in the end, whatever the packets
\* before it left in the ring.
ItemTaken == []<>(SinkAck \/ ~Stb)

\* A capture marker leads to a packet being handed over, even if the bus is
\* silent from then on.
MarkerSent == StuffPacket ~> OutAddrAck

\* A start-of-capture or end-of-capture marker is withdrawn only in favour of
\* a packet that carries it ("At start-of-capture or end-of-capture, we stuff
\* a packet to indicate the exact time of capture", producer.py:70).
MarkerKept ==
    [][ /\ first /\ ~first' => "FIRST" \in flags'
        /\ last /\ ~last' => "LAST" \in flags' ]_vars
=============================================================================
