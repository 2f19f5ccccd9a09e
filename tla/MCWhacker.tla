------------------------------ MODULE MCWhacker ------------------------------
(* Instances of the whacker for model checking: what the receive path and *)
(* the capture enable do is restricted so that each instance stays small. *)
EXTENDS Whacker

\* Anything the interface allows, in any order, with the capture enabled for
\* good at some point: packets without a gap, starts inside packets, ends
\* outside, errors, overflows, with the reader stalling at will.
AnyNext == Next /\ (ena => ena')
AnySpec == Init /\ [][AnyNext]_vars

\* A ring so small that the producer has to wait for space: with a packet in
\* it that the reader has not begun, it holds hardly a second one. Packets of
\* any length up to the one that is cut, without a gap and in order; the reader
\* stalls at the first byte of a packet for any time, the capture is switched
\* at any time but while a header is written. Fairness: the clock runs, the
\* stage behind does not refuse a byte for ever, and a packet on the bus ends
\* (ULPI_ctrl stuffs an end of packet whenever the PHY releases the bus). Only
\* the block's own registers are driven by its clock: nothing forces the host
\* to switch the capture, or the bus to start a packet.
WholePackets ==
    SinkAck \/ ~Stb =>
        /\ sink'.tag \in {"none", "start", "data", "end"}
        /\ sink'.tag \in {"data", "end"} <=> pstate' = "DATA"
Switches == ena' # ena => pstate \notin HeaderStates
Stalls   == cstate = "d" => mem[pos][1] = "WH0"

TightClock(sourceAck) == Clock(sourceAck) /\ WholePackets /\ Switches
TightNext == TightClock(TRUE) \/ (Stalls /\ TightClock(FALSE))
TightSpec ==
    /\ Init /\ [][TightNext]_vars
    /\ WF_registers(TightClock(TRUE))
    /\ SF_vars(TightNext /\ sink'.tag = "end")
=============================================================================
