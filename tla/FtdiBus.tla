------------------------------- MODULE FtdiBus -------------------------------
(***************************************************************************)
(* FTDI_sync245 (ovhw/ftdi_bus.py): the FPGA and the FT2232H share one     *)
(* data bus. A state machine on the clock of the FT2232H decides who       *)
(* drives it, reads a byte when there is one, and otherwise writes as long *)
(* as it can; two FIFOs connect it to the system clock.                    *)
(*                                                                         *)
(* BusClock is an edge of the FT2232H clock. Read strobe and output enable *)
(* are registers, one clock behind the state machine; the write strobe is  *)
(* not. The FT2232H is modelled from its use: RXF# is low only with a byte *)
(* to read and stays low until it is read, TXE# is low only with space.    *)
(*                                                                         *)
(* At the far ends, the host throttles itself: it has at most MaxOwed      *)
(* requests without an answer ("Host must throttle reads",                 *)
(* ftdi_bus.py:70). The logic answers a request some time after it took it *)
(* and sends capture data whenever there is room.                          *)
(***************************************************************************)
EXTENDS Integers, Sequences

CONSTANTS FifoDepth,  \* bytes in each of the two FIFOs
          ChipDepth,  \* bytes the FT2232H keeps in each direction
          MaxOwed     \* requests the host has out

ASSUME BusAssumption == {FifoDepth, ChipDepth, MaxOwed} \subseteq Nat \ {0}

VARIABLES state,             \* bsf
          rd, oe,            \* rd_n, oe_n are low
          drive,             \* dbus.oe
          rxf, txe,          \* rxf_n, txe_n are low
          readable, writable,  \* output_fifo.readable, incoming_fifo.writable as seen here
          chipIn, incoming,  \* from the host: in the FT2232H, in the FIFO
          output, chipOut,   \* to the host: in the FIFO, in the FT2232H
          owed, todo         \* requests without answer: of the host, in the logic

busVars  == << state, rd, oe, drive >>
pinVars  == << rxf, txe, readable, writable >>
vars == << busVars, pinVars, chipIn, incoming, output, chipOut, owed, todo >>

Request == {"a", "b"}
Garbage == "z"        \* what is on the bus when nobody or both drive it
Sent    == {"answer", "capture"}

-----------------------------------------------------------------------------
\* Variant: the space in the FIFO is not looked at.
CanReadUnchecked == rxf
CanRead == rxf /\ writable
CanWrite == txe /\ readable

\* The byte on the bus, if only one side drives it.
OnBus == CASE oe /\ ~drive /\ chipIn # << >> -> Head(chipIn)
           [] drive /\ ~oe /\ output # << >> -> Head(output)
           [] OTHER -> Garbage

WriteStrobe == state = "WRITE" /\ CanWrite
ReadStrobe  == rd /\ oe /\ rxf

\* The state machine: the next state, and next_RD, next_OE and next_dOE.
Go(s, nextRD, nextOE, nextDOE) ==
    /\ state' = s
    /\ rd' = (nextRD /\ rxf)
    /\ oe' = nextOE
    /\ drive' = nextDOE

\* Variant: writes take priority.
IdleWritesFirst ==
    /\ state = "IDLE"
    /\ IF CanWrite THEN Go("I2W", FALSE, FALSE, FALSE)
       ELSE IF CanRead THEN Go("READ", FALSE, TRUE, FALSE)
                       ELSE Go("IDLE", FALSE, FALSE, FALSE)

Idle ==
    /\ state = "IDLE"
    /\ IF CanRead THEN Go("READ", FALSE, TRUE, FALSE)
       ELSE IF CanWrite THEN Go("I2W", FALSE, FALSE, FALSE)
                        ELSE Go("IDLE", FALSE, FALSE, FALSE)

\* Variant: the turnaround drives the bus whether it goes on or not.
IdleToWriteDrives ==
    /\ state = "I2W"
    /\ IF CanWrite THEN Go("WRITE", FALSE, FALSE, TRUE) ELSE Go("IDLE", FALSE, TRUE, TRUE)

IdleToWrite ==
    /\ state = "I2W"
    /\ IF CanWrite THEN Go("WRITE", FALSE, FALSE, TRUE) ELSE Go("IDLE", FALSE, FALSE, FALSE)

Write ==
    /\ state = "WRITE"
    /\ IF CanWrite THEN Go("WRITE", FALSE, FALSE, TRUE) ELSE Go("W2I", FALSE, FALSE, FALSE)

WriteToIdle == state = "W2I" /\ Go("IDLE", FALSE, TRUE, FALSE)

Read ==
    /\ state = "READ"
    /\ IF CanRead THEN Go("READ2", TRUE, TRUE, FALSE) ELSE Go("IDLE", FALSE, FALSE, FALSE)

\* Variant: the read strobe is held a clock longer.
Read2Long == state = "READ2" /\ Go("IDLE", TRUE, TRUE, FALSE)
Read2 == state = "READ2" /\ Go("IDLE", FALSE, FALSE, FALSE)

Fsm == Idle \/ IdleToWrite \/ Write \/ WriteToIdle \/ Read \/ Read2

-----------------------------------------------------------------------------
(* The FIFOs at this side, and the FT2232H.                                *)

TakesIn == state = "READ2"

\* Variant: a byte is taken out of the FIFO although TXE# is high.
TakesOutUnchecked == state = "WRITE" /\ readable
TakesOut == WriteStrobe

FifoEnds ==
    /\ incoming' = IF TakesIn THEN Append(incoming, OnBus) ELSE incoming
    /\ output' = IF TakesOut THEN Tail(output) ELSE output

ChipBytes ==
    /\ chipIn' = IF ReadStrobe THEN Tail(chipIn) ELSE chipIn
    /\ chipOut' = IF WriteStrobe THEN Append(chipOut, OnBus) ELSE chipOut

\* What is seen of the other side comes late, and only a transfer makes it go
\* away again: RXF#, and the counters of a FIFO, cross a clock boundary. TXE#
\* may rise at any time, for example at the end of a USB packet.
Pins ==
    /\ rxf' \in BOOLEAN /\ (rxf' => chipIn' # << >>) /\ (rxf /\ ~ReadStrobe => rxf')
    /\ txe' \in BOOLEAN /\ (txe' => Len(chipOut') < ChipDepth)
    /\ readable' \in BOOLEAN /\ (readable' => output' # << >>)
    /\ readable /\ ~TakesOut => readable'
    /\ writable' \in BOOLEAN /\ (writable' => Len(incoming') < FifoDepth)
    /\ writable /\ ~TakesIn => writable'

BusClock == Fsm /\ FifoEnds /\ ChipBytes /\ Pins /\ UNCHANGED << owed, todo >>

-----------------------------------------------------------------------------
(* The host and the logic, each in its own time.                           *)

HostSend ==
    /\ owed < MaxOwed /\ Len(chipIn) < ChipDepth
    /\ \E r \in Request : chipIn' = Append(chipIn, r)
    /\ owed' = owed + 1
    /\ UNCHANGED << busVars, pinVars, incoming, output, chipOut, todo >>

HostTake ==
    /\ chipOut # << >> /\ chipOut' = Tail(chipOut)
    /\ owed' = IF Head(chipOut) = "answer" THEN owed - 1 ELSE owed
    /\ UNCHANGED << busVars, pinVars, chipIn, incoming, output, todo >>

LogicTake ==
    /\ incoming # << >> /\ incoming' = Tail(incoming)
    /\ todo' = todo + 1
    /\ UNCHANGED << busVars, pinVars, chipIn, output, chipOut, owed >>

LogicSend(b) ==
    /\ Len(output) < FifoDepth /\ output' = Append(output, b)
    /\ b = "answer" => todo > 0
    /\ todo' = IF b = "answer" THEN todo - 1 ELSE todo
    /\ UNCHANGED << busVars, pinVars, chipIn, incoming, chipOut, owed >>

Init ==
    /\ state = "IDLE" /\ rd = FALSE /\ oe = FALSE /\ drive = FALSE
    /\ rxf = FALSE /\ txe = FALSE /\ readable = FALSE /\ writable = FALSE
    /\ chipIn = << >> /\ incoming = << >> /\ output = << >> /\ chipOut = << >>
    /\ owed = 0 /\ todo = 0

Next == BusClock \/ HostSend \/ HostTake \/ LogicTake \/ \E b \in Sent : LogicSend(b)

Spec == Init /\ [][Next]_vars

\* The clock runs and brings the flags over; the FT2232H becomes full now and
\* then, as USB is slower than the bus, and has space again, for long enough
\* to turn the bus around; the host takes what comes; an answer gets its turn
\* among the capture data (CmdProc).
Fairness ==
    /\ WF_vars(BusClock /\ (chipIn' # << >> => rxf'))
    /\ WF_vars(BusClock /\ (output' # << >> => readable'))
    /\ WF_vars(BusClock /\ (Len(incoming') < FifoDepth => writable'))
    /\ SF_vars(BusClock /\ ~txe')
    /\ SF_vars(BusClock /\ txe')
    /\ \A s \in {"IDLE", "I2W"} : SF_vars(BusClock /\ state = s /\ CanWrite /\ txe')
    /\ WF_vars(HostTake) /\ WF_vars(LogicTake) /\ SF_vars(LogicSend("answer"))

FairSpec == Spec /\ Fairness

-----------------------------------------------------------------------------
(* Properties.                                                             *)

\* No byte is put into a FIFO, or given to the FT2232H, that has no space left.
NoOverflow ==
    /\ Len(incoming) <= FifoDepth /\ Len(output) <= FifoDepth
    /\ Len(chipIn) <= ChipDepth /\ Len(chipOut) <= ChipDepth

TypeOK ==
    /\ state \in {"IDLE", "I2W", "WRITE", "W2I", "READ", "READ2"}
    /\ {rd, oe, drive, rxf, txe, readable, writable} \subseteq BOOLEAN
    /\ NoOverflow
    /\ owed \in 0 .. MaxOwed /\ todo \in 0 .. MaxOwed

\* The FPGA and the FT2232H never drive the bus in the same clock.
NoContention == ~(drive /\ oe)

\* Each direction is a queue, from the host to the logic and back: no byte is
\* lost, doubled, garbled or overtaken on the bus or in a FIFO.
Down == INSTANCE WordFifo WITH queue <- incoming \o chipIn, Word <- Request
Up   == INSTANCE WordFifo WITH queue <- chipOut \o output, Word <- Sent
DuplexSpec == Down!Spec /\ Up!Spec

\* However much capture data is sent: a request in the FT2232H is read, and a
\* host that waits for answers gets one.
AnswerComes ==
    /\ (chipIn # << >>) ~> (state = "READ2")
    /\ (owed = MaxOwed) ~> (owed < MaxOwed)
=============================================================================
