------------------------------- MODULE RxPath -------------------------------
(***************************************************************************)
(* The receive path from the PHY to the whacker: ULPI_ctrl turns what the  *)
(* PHY does into one item per 60 MHz clock and cannot be held up; the      *)
(* OverflowInserter replaces what the FIFO has no room for by a marker;    *)
(* the FIFO crosses to the system clock; the RXCmdFilter picks the starts  *)
(* and ends of packets out of the RXCMDs. The whacker at the end is        *)
(* reduced to collecting payload between a start and an end, and refuses   *)
(* items at will (its ring may be full).                                   *)
(*                                                                         *)
(* The two clocks are unrelated: each step is one edge of one of them.     *)
(***************************************************************************)
EXTENDS Integers, Sequences

CONSTANTS Cap,        \* items the FIFO holds
          MaxBytes    \* payload bytes of a bus packet (bound of the instance)

ASSUME RxPathAssumption ==
    /\ Cap \in Nat \ {0}
    /\ MaxBytes \in Nat

VARIABLES phy,        \* the PHY: "idle", "rx" (bus turned, no packet), "packet"
          busPkt,     \* the bus packet now or last on the bus, modulo 2
          busLen,     \* payload bytes of it so far
          stb, item,  \* data_out_source of ULPI_ctrl
          valid, data,\* OverflowInserter: the item held for the FIFO
          fifo,       \* udata_fifo
          filt,       \* RXCmdFilter FSM
          start, body,\* the last start, and the payload the whacker collected since
          closed      \* the packet closed in this step: its start, payload and end

busVars    == << phy, busPkt, busLen, stb, item >>
insertVars == << valid, data >>
sysVars    == << filt, start, body, closed >>
vars == << busVars, insertVars, fifo, sysVars >>

-----------------------------------------------------------------------------
(* Items. A payload byte is identified by its bus packet and its place in  *)
(* it, a start or an end by the number of bytes the packet had by then.    *)

Byte == [k : {"data"}, p : 0 .. 1, n : 1 .. MaxBytes]
Start == [k : {"sop", "active"}, p : 0 .. 1, n : 0 .. MaxBytes]
End  == [k : {"eop", "nactive"}, p : 0 .. 1, n : 0 .. MaxBytes]
Mark(kind) == [k |-> kind, p |-> 0, n |-> 0]
Item == Byte \cup Start \cup End \cup {Mark(k) : k \in {"nop", "error", "ovf"}}

Nop == Mark("nop")
Ovf == Mark("ovf")
NoPacket == [start |-> Nop, body |-> << >>, by |-> Nop]

-----------------------------------------------------------------------------
(* ULPI_ctrl receiving: what the PHY does in a clock and the item it makes *)
(* of it. Register accesses of the PHY are left out.                       *)

\* The bus is idle, or the PHY takes it for RXCMDs (a turnaround: no item).
BusIdle ==
    /\ phy = "idle"
    /\ phy' \in {"idle", "rx"}
    /\ item' = Nop
    /\ UNCHANGED << busPkt, busLen >>

\* The PHY takes the bus with DIR and NXT at once: a packet begins.
BusStart ==
    /\ phy = "idle"
    /\ phy' = "packet" /\ busPkt' = 1 - busPkt /\ busLen' = 0
    /\ item' = [k |-> "sop", p |-> busPkt', n |-> 0]

\* An RXCMD outside a packet, RxActive clear.
BusStatus ==
    /\ phy = "rx"
    /\ item' = [k |-> "nactive", p |-> busPkt, n |-> busLen]
    /\ UNCHANGED << phy, busPkt, busLen >>

\* An RXCMD with RxActive set: a packet begins.
BusActive ==
    /\ phy = "rx"
    /\ phy' = "packet" /\ busPkt' = 1 - busPkt /\ busLen' = 0
    /\ item' = [k |-> "active", p |-> busPkt', n |-> 0]

BusByte ==
    /\ phy = "packet" /\ busLen < MaxBytes
    /\ busLen' = busLen + 1
    /\ item' = [k |-> "data", p |-> busPkt, n |-> busLen + 1]
    /\ UNCHANGED << phy, busPkt >>

\* An RXCMD between two payload bytes.
BusMidActive ==
    /\ phy = "packet"
    /\ item' = [k |-> "active", p |-> busPkt, n |-> busLen]
    /\ UNCHANGED << phy, busPkt, busLen >>

BusError ==
    /\ phy = "packet"
    /\ item' = Mark("error")
    /\ UNCHANGED << phy, busPkt, busLen >>

\* A packet ends with an RXCMD that has RxActive clear.
BusInactive ==
    /\ phy = "packet" /\ phy' = "rx"
    /\ item' = [k |-> "nactive", p |-> busPkt, n |-> busLen]
    /\ UNCHANGED << busPkt, busLen >>

\* The PHY gives the bus back: an end of packet is stuffed, packet or not.
BusRelease ==
    /\ phy # "idle" /\ phy' = "idle"
    /\ item' = [k |-> "eop", p |-> busPkt, n |-> busLen]
    /\ UNCHANGED << busPkt, busLen >>

\* An item is offered in every clock once the registers left reset.
Bus ==
    /\ stb' = TRUE
    /\ \/ BusIdle \/ BusStart \/ BusStatus \/ BusActive
       \/ BusByte \/ BusMidActive \/ BusError \/ BusInactive \/ BusRelease

-----------------------------------------------------------------------------
(* OverflowInserter and the write side of the FIFO.                        *)

\* Variant: the item the FIFO refused is kept, the new one lost unmarked.
HoldSilently(writable) ==
    /\ stb
    /\ valid' = TRUE
    /\ data' = IF valid /\ ~writable THEN data ELSE item

\* The sink is always acknowledged: an item that comes while the one before
\* is still held takes both away and leaves the overflow marker.
Hold(writable) ==
    /\ stb
    /\ valid' = TRUE
    /\ data' = IF valid /\ ~writable THEN Ovf ELSE item

HoldNothing(writable) ==
    /\ ~stb
    /\ valid' = (valid /\ ~writable)
    /\ UNCHANGED data

Room == Len(fifo) < Cap

\* Variant: the FIFO is written whether or not it has room.
UlpiClockUnchecked(writable) ==
    /\ Bus
    /\ Hold(writable) \/ HoldNothing(writable)
    /\ fifo' = IF valid THEN Append(fifo, data) ELSE fifo
    /\ closed' = NoPacket
    /\ UNCHANGED << filt, start, body >>

\* The pointers cross the clock domains late: the FIFO may look full when it
\* no longer is.
UlpiClock(writable) ==
    /\ writable => Room
    /\ Bus
    /\ Hold(writable) \/ HoldNothing(writable)
    /\ fifo' = IF valid /\ writable THEN Append(fifo, data) ELSE fifo
    /\ closed' = NoPacket
    /\ UNCHANGED << filt, start, body >>

-----------------------------------------------------------------------------
(* RXCmdFilter on the oldest item of the FIFO, and what the whacker does   *)
(* with the tagged item.                                                   *)

head == Head(fifo)

Take == fifo' = Tail(fifo)

\* Payload is passed in either state; outside a packet the whacker drops it.
FilterData ==
    /\ head.k = "data"
    /\ Take
    /\ body' = IF filt = "PACKET" THEN Append(body, head) ELSE body
    /\ closed' = NoPacket
    /\ UNCHANGED << filt, start >>

\* Variant: an overflow marker inside a packet is skipped.
EndsPacketNotOvf == head.k \in {"eop", "nactive", "error"}

EndsPacket == head.k \in {"eop", "nactive", "error", "ovf"}

FilterSkip ==
    /\ \/ head.k = "nop"
       \/ filt = "NO_PACKET" /\ head.k \notin {"data", "sop", "active"}
       \/ filt = "PACKET" /\ head.k # "data" /\ ~EndsPacket
    /\ Take
    /\ closed' = NoPacket
    /\ UNCHANGED << filt, start, body >>

FilterStart ==
    /\ filt = "NO_PACKET"
    /\ head.k \in {"sop", "active"}
    /\ Take
    /\ filt' = "PACKET"
    /\ start' = head
    /\ body' = << >>
    /\ closed' = NoPacket

FilterEnd ==
    /\ filt = "PACKET"
    /\ EndsPacket
    /\ Take
    /\ filt' = "NO_PACKET"
    /\ body' = << >>
    /\ closed' = [start |-> start, body |-> body, by |-> head]
    /\ start' = Nop

\* The read side of the FIFO may look empty when it no longer is, and the
\* whacker may refuse what is passed on: then no step is taken.
SysClock ==
    /\ fifo # << >>
    /\ FilterSkip \/ FilterData \/ FilterStart \/ FilterEnd
    /\ UNCHANGED << busVars, insertVars >>

-----------------------------------------------------------------------------
Init ==
    /\ phy = "idle" /\ busPkt = 0 /\ busLen = 0
    /\ stb = FALSE /\ item = Nop
    /\ valid = FALSE /\ data = Nop
    /\ fifo = << >>
    /\ filt = "NO_PACKET" /\ start = Nop /\ body = << >>
    /\ closed = NoPacket

Next ==
    \/ \E writable \in BOOLEAN : UlpiClock(writable)
    \/ SysClock

Spec == Init /\ [][Next]_vars

-----------------------------------------------------------------------------
(* Fairness: both clocks run; a FIFO that is not full is seen not full     *)
(* sooner or later; the whacker does not refuse for ever; the PHY gives    *)
(* the bus back.                                                           *)

Fairness ==
    /\ WF_vars(\E writable \in BOOLEAN : UlpiClock(writable))
    /\ SF_vars(UlpiClock(TRUE))
    /\ SF_vars(\E writable \in BOOLEAN :
                    UlpiClock(writable) /\ phy = "packet" /\ phy' = "idle")
    /\ WF_vars(SysClock)

FairSpec == Spec /\ Fairness

-----------------------------------------------------------------------------
(* Properties. *)

\* Every register and queue holds what it can hold.
TypeOK ==
    /\ phy \in {"idle", "rx", "packet"}
    /\ busPkt \in 0 .. 1
    /\ busLen \in 0 .. MaxBytes
    /\ stb \in BOOLEAN
    /\ item \in Item
    /\ valid \in BOOLEAN
    /\ data \in Item
    /\ fifo \in Seq(Item) /\ Len(fifo) <= Cap
    /\ filt \in {"NO_PACKET", "PACKET"}
    /\ body \in Seq(Byte) /\ Len(body) <= MaxBytes
    /\ start \in Item
    /\ closed.by \in Item /\ closed.start \in Item
    /\ closed.body \in Seq(Byte)

\* A run of payload: consecutive bytes of one bus packet.
IsRun(b) ==
    \A i \in 1 .. Len(b) : b[i].p = b[1].p /\ b[i].n = b[1].n + i - 1

\* Whatever is lost on the way, the payload the whacker collects is never
\* spliced: no byte is missing inside it, none is repeated, and no two bus
\* packets are joined (every loss leaves its marker where it happened, and the
\* marker ends the packet).
NeverSpliced == IsRun(body) /\ IsRun(closed.body)

\* A packet closed without an error or overflow flag.
Clean == closed.by.k \in {"eop", "nactive"}

\* A packet without flags is all that was on the bus between its start and its
\* end: nothing is clipped behind the start, before the end or in between, and
\* the end belongs to the bus packet of the start.
CleanIsComplete ==
    Clean =>
        /\ closed.start.p = closed.by.p
        /\ Len(closed.body) = closed.by.n - closed.start.n
        /\ \A i \in 1 .. Len(closed.body) :
              closed.body[i] = [k |-> "data", p |-> closed.by.p, n |-> closed.start.n + i]

\* A packet once opened is closed, even if its end was lost to an overflow.
Closes == filt = "PACKET" ~> filt = "NO_PACKET"
=============================================================================
