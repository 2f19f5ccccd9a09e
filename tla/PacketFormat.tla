---------------------------- MODULE PacketFormat ----------------------------
(***************************************************************************)
(* The capture packet the whacker builds in its ring memory and every      *)
(* later stage (SDRAM, USB, host) carries unchanged:                       *)
(*                                                                         *)
(*    A0 F0 F1 SL SH TL TM TH  d0 ... dN-1                                 *)
(*                                                                         *)
(* A byte of memory is a "cell" <<field, value>>: the field it belongs to, *)
(* named after the producer state that writes it, and the part of the      *)
(* header value that byte holds.                                           *)
(***************************************************************************)
EXTENDS Integers, Sequences

CONSTANTS Data,         \* the values of a payload byte
          Timestamps,   \* the values of the timestamp latched at a start of packet
          None          \* no value

\* The header flags of constants.py that this gateware sets; all of them are
\* in the low flag byte F0.
MarkerFlags == {"FIRST", "LAST"}
EndFlags    == {"ERR", "OVF", "TRUNC"}
Flags       == MarkerFlags \cup EndFlags

HeaderSize == 8

\* The states of the producer that write the header, in order, and the header
\* offset each of them writes.
HeaderOffset ==
    [ WH0  |-> 0, WRF0 |-> 1, WRF1 |-> 2, WRSL |-> 3,
      WRSH |-> 4, WRTL |-> 5, WRTM |-> 6, WRTH |-> 7 ]
HeaderStates == DOMAIN HeaderOffset

\* The cell each header state writes for a packet of n payload bytes. The
\* size is split in two bytes; the three bytes of a timestamp are each
\* identified by the timestamp they are cut from.
HeaderCell(s, f, n, t) ==
    << s, CASE s = "WH0"  -> 160
            [] s = "WRF0" -> f
            [] s = "WRF1" -> {}
            [] s = "WRSL" -> n % 256
            [] s = "WRSH" -> (n \div 256) % 256
            [] s \in {"WRTL", "WRTM", "WRTH"} -> t >>

DataCell(d) == << "d", d >>

\* A cell whose content nobody wrote since it was last read.
Junk == << "junk", None >>

IsCell(c) ==
    \/ c = Junk
    \/ \E d \in Data : c = DataCell(d)
    \/ /\ c[1] \in HeaderStates
       /\ CASE c[1] = "WRF0" -> c[2] \in SUBSET Flags
            [] c[1] = "WRF1" -> c[2] = {}
            [] c[1] \in {"WH0", "WRSL", "WRSH"} -> c[2] \in 0 .. 255
            [] OTHER -> c[2] \in Timestamps \cup {None}

\* The eight header cells as a sequence.
Header(f, n, t) ==
    << HeaderCell("WH0", f, n, t),  HeaderCell("WRF0", f, n, t),
       HeaderCell("WRF1", f, n, t), HeaderCell("WRSL", f, n, t),
       HeaderCell("WRSH", f, n, t), HeaderCell("WRTL", f, n, t),
       HeaderCell("WRTM", f, n, t), HeaderCell("WRTH", f, n, t) >>
=============================================================================
