------------------------------ MODULE SdramRing ------------------------------
(***************************************************************************)
(* The capture buffer in SDRAM: SDRAM_Sink writes the words of its FIFO to *)
(* a ring in memory, SDRAM_Host_Read reads them back into a second FIFO    *)
(* that is sent to the host in whole bursts, and SDRAMMux gives one of the *)
(* two at a time the memory controller. Flow control is only the pair of   *)
(* pointers each side shows the other. All of it runs on one clock: a step *)
(* is a clock edge, and the signals below are read before that edge.       *)
(*                                                                         *)
(* The controller is reduced to its streaming interface (ov_types.py): it  *)
(* acknowledges a command some time after it is issued, strobes data when  *)
(* it likes (refresh, row changes), and a strobe with d_term ends the      *)
(* command without transferring.                                           *)
(***************************************************************************)
EXTENDS Integers, Sequences

CONSTANTS Base, End,    \* the ring is the words Base .. End - 1
          SinkDepth,    \* depth of the sink FIFO; a write burst is one word shorter
          HostBurst,    \* depth of the read FIFO, and words per host burst
          Modulus,      \* words are told apart modulo this
          Load,         \* how far the capture may run ahead of the reader
          Stops         \* does the host also switch the sink off?

ASSUME RingAssumption ==
    /\ Base \in Nat /\ End \in Nat /\ Base < End
    /\ SinkDepth \in Nat \ {0} /\ HostBurst \in Nat \ {0}
    /\ Modulus \in Nat \ {0}
    /\ Load \in Nat
    /\ Stops \in BOOLEAN

VARIABLES sinkGo, sinkGor,  \* SDRAM_SINK_GO and its value a clock ago
          readGo, readGor,  \* SDRAM_HOST_READ_GO and its value a clock ago
          wptr, rptr,
          sfifo,            \* words waiting to be written
          wstate, wburst,   \* fifo_write_fsm, burst_rem
          hfifo,            \* words read, waiting for the host
          rstate,           \* sdram_read_fsm
          hstate, hburst,   \* host_write_fsm, burst_rem
          grant, busy,      \* SDRAMMux: port granted, command outstanding
          cmd,              \* the controller: command in progress, or NoCmd
          mem,              \* the words of the ring
          nextWord          \* the next word captured

goVars   == << sinkGo, sinkGor, readGo, readGor >>
sinkVars == << wstate, wburst >>
readVars == << hfifo, rstate, hstate, hburst >>
muxVars  == << grant, busy >>
vars == << goVars, wptr, rptr, sfifo, sinkVars, readVars, muxVars, cmd, mem, nextWord >>

Word  == 0 .. Modulus - 1
Empty == -1     \* content of a cell since it was last read
NoCmd == [dir |-> "none", addr |-> 0]
Ports == {"sink", "read"}

-----------------------------------------------------------------------------
(* Signals of SDRAM_Sink.                                                  *)

Wrap == wptr = End

WptrNext == IF Wrap THEN Base ELSE wptr + 1

SinkBlocked == rptr = WptrNext

SinkIStb == wstate = "IDLE" /\ sfifo # << >> /\ sinkGo /\ ~SinkBlocked

\* Variant: a write burst runs over the end of the ring.
SinkTermNoWrap ==
    \/ wstate = "WRITE" /\ (wburst = 0 \/ sfifo = << >> \/ SinkBlocked)
    \/ wstate = "WAIT"

SinkTerm ==
    \/ wstate = "WRITE" /\ (wburst = 0 \/ sfifo = << >> \/ Wrap \/ SinkBlocked)
    \/ wstate = "WAIT"

(* Signals of SDRAM_Host_Read.                                             *)

ReadWrap == rptr = End

RptrNext == IF ReadWrap THEN Base ELSE rptr + 1

ReadBlocked == rptr = wptr

HostFifoFull == Len(hfifo) = HostBurst

ReadIStb == rstate = "IDLE" /\ ~HostFifoFull

\* Variant: a read burst runs past the write pointer.
ReadTermNoBlocked ==
    \/ rstate = "DATA" /\ (HostFifoFull \/ ~readGo \/ ReadWrap)
    \/ rstate = "WAIT"

\* Variant: a read burst does not look at the space in the FIFO.
ReadTermNoFull ==
    \/ rstate = "DATA" /\ (~readGo \/ ReadBlocked \/ ReadWrap)
    \/ rstate = "WAIT"

ReadTerm ==
    \/ rstate = "DATA" /\ (HostFifoFull \/ ~readGo \/ ReadBlocked \/ ReadWrap)
    \/ rstate = "WAIT"

(* The granted port drives the controller; the other sees nothing.         *)

IStb  == IF grant = "sink" THEN SinkIStb ELSE ReadIStb
DTerm == IF grant = "sink" THEN SinkTerm ELSE ReadTerm

\* ack, stb: what the controller would do in this clock.
IAck(ack) == IStb /\ ack /\ cmd = NoCmd
DStb(stb) == cmd # NoCmd /\ stb

SinkWrites(stb) == grant = "sink" /\ DStb(stb) /\ ~SinkTerm
ReadTakes(stb)  == grant = "read" /\ DStb(stb) /\ ~ReadTerm

-----------------------------------------------------------------------------
(* The controller.                                                         *)

ControllerAccept(ack) ==
    /\ IAck(ack)
    /\ cmd' = IF grant = "sink" THEN [dir |-> "write", addr |-> wptr]
                                ELSE [dir |-> "read", addr |-> rptr]
    /\ UNCHANGED mem

ControllerWrite(stb) ==
    /\ SinkWrites(stb)
    /\ mem' = [mem EXCEPT ![cmd.addr] = Head(sfifo)]
    /\ cmd' = [cmd EXCEPT !.addr = @ + 1]

\* The model forgets a word that was read, so that reading it again shows.
ControllerRead(stb) ==
    /\ ReadTakes(stb)
    /\ mem' = [mem EXCEPT ![cmd.addr] = Empty]
    /\ cmd' = [cmd EXCEPT !.addr = @ + 1]

ControllerTerminate(stb) ==
    /\ DStb(stb) /\ DTerm
    /\ cmd' = NoCmd
    /\ UNCHANGED mem

ControllerIdle(ack, stb) ==
    /\ ~IAck(ack) /\ ~DStb(stb)
    /\ UNCHANGED << cmd, mem >>

Controller(ack, stb) ==
    \/ ControllerAccept(ack)
    \/ ControllerWrite(stb)
    \/ ControllerRead(stb)
    \/ ControllerTerminate(stb)
    \/ ControllerIdle(ack, stb)

-----------------------------------------------------------------------------
(* SDRAMMux: with two requesters the other one is granted when it asks.    *)

BusyStop(stb) == DStb(stb) /\ DTerm

\* Variant: the grant moves only when a command ends.
RearbitrateOnStop(stb) == BusyStop(stb)

Rearbitrate(stb) == BusyStop(stb) \/ ~(busy \/ IStb)

Mux(stb) ==
    /\ busy' = (IStb \/ (busy /\ ~BusyStop(stb)))
    /\ grant' = CASE ~Rearbitrate(stb) -> grant
                  [] Rearbitrate(stb) /\ grant = "sink" -> IF ReadIStb THEN "read" ELSE "sink"
                  [] OTHER -> IF SinkIStb THEN "sink" ELSE "read"

-----------------------------------------------------------------------------
(* SDRAM_Sink: FIFO to memory.                                             *)

SinkIdle(ack) ==
    /\ wstate = "IDLE"
    /\ wburst' = IF SinkIStb THEN SinkDepth - 1 ELSE wburst
    /\ wstate' = IF grant = "sink" /\ IAck(ack) THEN "WRITE" ELSE "IDLE"

SinkWrite(stb) ==
    /\ wstate = "WRITE"
    /\ wburst' = IF SinkWrites(stb) THEN wburst - 1 ELSE wburst
    /\ wstate' = CASE SinkTerm /\ DStb(stb) -> "IDLE"
                   [] SinkTerm /\ ~DStb(stb) -> "WAIT"
                   [] OTHER -> "WRITE"

SinkWait(stb) ==
    /\ wstate = "WAIT"
    /\ wstate' = IF DStb(stb) THEN "IDLE" ELSE "WAIT"
    /\ UNCHANGED wburst

\* wptr moves with every word written, and on its own from the end of the
\* ring to its base.
WptrClock(stb) ==
    wptr' = CASE sinkGo /\ ~sinkGor -> Base
              [] ~(sinkGo /\ ~sinkGor) /\ (SinkWrites(stb) \/ Wrap) -> WptrNext
              [] OTHER -> wptr

\* The capture pushes a word (its bytes were paired before) if there is room.
CanPush == Len(sfifo) < SinkDepth

SinkFifo(stb, push) ==
    /\ push => CanPush
    /\ LET rest == IF SinkWrites(stb) THEN Tail(sfifo) ELSE sfifo
       IN  sfifo' = IF push THEN Append(rest, nextWord) ELSE rest
    /\ nextWord' = IF push THEN (nextWord + 1) % Modulus ELSE nextWord

Sink(ack, stb) ==
    /\ SinkIdle(ack) \/ SinkWrite(stb) \/ SinkWait(stb)
    /\ WptrClock(stb)

-----------------------------------------------------------------------------
(* SDRAM_Host_Read: memory to FIFO, FIFO to host.                          *)

ReadStateBlocked ==
    /\ rstate = "BLOCKED"
    /\ rstate' = IF readGo /\ ~ReadBlocked THEN "IDLE" ELSE "BLOCKED"

ReadStateIdle(ack) ==
    /\ rstate = "IDLE"
    /\ rstate' = IF grant = "read" /\ IAck(ack) THEN "DATA" ELSE "IDLE"

ReadStateData(stb) ==
    /\ rstate = "DATA"
    /\ rstate' = CASE ReadTerm /\ DStb(stb) -> "BLOCKED"
                   [] ReadTerm /\ ~DStb(stb) -> "WAIT"
                   [] OTHER -> "DATA"

ReadStateWait(stb) ==
    /\ rstate = "WAIT"
    /\ rstate' = IF DStb(stb) THEN "BLOCKED" ELSE "WAIT"

RptrClock(stb) ==
    rptr' = CASE readGo /\ ~readGor -> Base
              [] ~(readGo /\ ~readGor) /\ (ReadTakes(stb) \/ ReadWrap) -> RptrNext
              [] OTHER -> rptr

\* hostAck: the bus behind takes what host_write_fsm offers in this clock.
HostPop(hostAck) == hstate = "SEND_DATA" /\ hfifo # << >> /\ hostAck

\* A burst starts when the FIFO is full and carries HostBurst words; the low
\* and the high byte of a word (SEND_DATA_ODD, SEND_DATA_EVEN) go together.
HostIdle(hostAck) ==
    /\ hstate = "IDLE"
    /\ hstate' = IF HostFifoFull /\ hostAck THEN "SEND_HEADER" ELSE "IDLE"
    /\ UNCHANGED hburst

HostHeader(hostAck) ==
    /\ hstate = "SEND_HEADER"
    /\ hstate' = IF hostAck THEN "SEND_DATA" ELSE "SEND_HEADER"
    /\ hburst' = IF hostAck THEN HostBurst - 1 ELSE hburst

HostData(hostAck) ==
    /\ hstate = "SEND_DATA"
    /\ hstate' = IF HostPop(hostAck) /\ hburst = 0 THEN "IDLE" ELSE "SEND_DATA"
    /\ hburst' = IF HostPop(hostAck) /\ hburst # 0 THEN hburst - 1 ELSE hburst

HostFifo(stb, hostAck) ==
    LET rest == IF HostPop(hostAck) THEN Tail(hfifo) ELSE hfifo
    IN  hfifo' = IF ReadTakes(stb) THEN Append(rest, mem[cmd.addr]) ELSE rest

Read(ack, stb, hostAck) ==
    /\ ReadStateBlocked \/ ReadStateIdle(ack) \/ ReadStateData(stb) \/ ReadStateWait(stb)
    /\ HostIdle(hostAck) \/ HostHeader(hostAck) \/ HostData(hostAck)
    /\ RptrClock(stb)
    /\ HostFifo(stb, hostAck)

-----------------------------------------------------------------------------
(* The host switches the two sides on as do_sniff does, the sink first,    *)
(* with several clocks between two register writes, and when the capture   *)
(* ends it switches the sink off. Starting again is not modelled here.     *)

HostControl ==
    /\ sinkGor' = sinkGo
    /\ readGor' = readGo
    /\ \/ UNCHANGED << sinkGo, readGo >>
       \/ ~sinkGo /\ ~readGo /\ sinkGo' = TRUE /\ UNCHANGED readGo
       \/ sinkGo /\ sinkGor /\ ~readGo /\ readGo' = TRUE /\ UNCHANGED sinkGo
       \/ Stops /\ sinkGo /\ readGo /\ readGor /\ sinkGo' = FALSE /\ UNCHANGED readGo

-----------------------------------------------------------------------------
\* The words in the ring, from the read to the write position. Both pointers
\* rest at End for one clock before they wrap.
Offset(p) == IF p = End THEN 0 ELSE p - Base

Fill == (Offset(wptr) - Offset(rptr) + (End - Base)) % (End - Base)

\* How far the words waiting reach, counted from Base of the reader's lap; a
\* reader resting at Base counts as at the end of the lap before. With Load at
\* most 2 * (End - Base) - 1 the writer never meets the end of the ring while
\* the reader rests at its base.
Lead == (IF rptr = Base THEN End ELSE rptr) - Base + Fill + Len(sfifo)

RingWords == [i \in 1 .. Fill |-> mem[Base + ((Offset(rptr) + i - 1) % (End - Base))]]

Clock(ack, stb, hostAck, push) ==
    /\ push => Lead < Load
    /\ Controller(ack, stb)
    /\ Mux(stb)
    /\ Sink(ack, stb)
    /\ SinkFifo(stb, push)
    /\ Read(ack, stb, hostAck)
    /\ HostControl

Init ==
    /\ sinkGo = FALSE /\ sinkGor = FALSE /\ readGo = FALSE /\ readGor = FALSE
    /\ wptr = 0 /\ rptr = 0
    /\ sfifo = << >> /\ wstate = "IDLE" /\ wburst = 0
    /\ hfifo = << >> /\ rstate = "BLOCKED" /\ hstate = "IDLE" /\ hburst = 0
    /\ grant = "read" /\ busy = FALSE
    /\ cmd = NoCmd
    /\ mem = [a \in 0 .. End |-> Empty]
    /\ nextWord = 0

Next == \E ack, stb, hostAck, push \in BOOLEAN : Clock(ack, stb, hostAck, push)

Spec == Init /\ [][Next]_vars

-----------------------------------------------------------------------------
(* Fairness: the clock runs, the controller acknowledges and strobes now   *)
(* and then, the host takes bytes now and then. Nothing forces a capture.  *)

registers == << wptr, rptr, sinkVars, readVars, muxVars, cmd, mem >>

Fairness ==
    /\ WF_registers(\E stb, hostAck, push \in BOOLEAN : Clock(TRUE, stb, hostAck, push))
    /\ WF_registers(\E ack, hostAck, push \in BOOLEAN : Clock(ack, TRUE, hostAck, push))
    /\ WF_registers(\E ack, stb, push \in BOOLEAN : Clock(ack, stb, TRUE, push))

FairSpec == Spec /\ Fairness

-----------------------------------------------------------------------------
(* Properties.                                                             *)

\* Every register keeps to its range.
TypeOK ==
    /\ {sinkGo, sinkGor, readGo, readGor, busy} \subseteq BOOLEAN
    /\ wptr \in Base .. End /\ rptr \in Base .. End
    /\ Len(sfifo) <= SinkDepth /\ Len(hfifo) <= HostBurst
    /\ \A i \in 1 .. Len(sfifo) : sfifo[i] \in Word
    /\ \A i \in 1 .. Len(hfifo) : hfifo[i] \in Word
    /\ wstate \in {"IDLE", "WRITE", "WAIT"} /\ wburst \in 0 .. SinkDepth - 1
    /\ rstate \in {"BLOCKED", "IDLE", "DATA", "WAIT"}
    /\ hstate \in {"IDLE", "SEND_HEADER", "SEND_DATA"} /\ hburst \in 0 .. HostBurst - 1
    /\ grant \in Ports
    /\ cmd.dir \in {"none", "write", "read"} /\ cmd.addr \in 0 .. End
    /\ mem \in [0 .. End -> Word \cup {Empty}]
    /\ nextWord \in Word

\* Sink FIFO, ring and read FIFO are one queue: no word is lost, repeated or
\* reordered between the capture and the host.
Queue == INSTANCE WordFifo WITH queue <- hfifo \o RingWords \o sfifo
QueueSpec == Queue!Spec

\* The address the controller has reached is the pointer the other side sees,
\* on both sides: a word announced by wptr is in memory, and one released by
\* rptr was read.
InStep ==
    /\ wstate = "WRITE" => cmd.dir = "write" /\ cmd.addr = wptr
    /\ rstate = "DATA" => cmd.dir = "read" /\ cmd.addr = rptr

\* As long as the capture runs: whenever a burst of words is waiting anywhere
\* and reading is on, the host is sent a burst, and a burst begun is finished.
\* Sink and reader share the controller without starving each other.
BurstsDelivered ==
    /\ (readGo /\ Fill + Len(sfifo) + Len(hfifo) >= HostBurst)
          ~> (hstate = "SEND_DATA" \/ ~sinkGo)
    /\ (hstate = "SEND_DATA") ~> (hstate = "IDLE")

\* Catching up means full, not empty: when wptr steps (by a write or over the
\* wrap) the ring does not become empty. The pointers are connected "for
\* ringbuffer flow control" (top.py:63) and a write starts only if "not blocked"
\* (sdram_sink.py:93).
NoSelfCatch ==
    [][ (wptr' # wptr /\ sinkGor) => wptr' # rptr ]_vars
=============================================================================
