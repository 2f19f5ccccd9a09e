---------------------------- MODULE PacketStream ----------------------------
(***************************************************************************)
(* What the whacker promises to the stage behind it, without a ring, a     *)
(* header writer or a consumer: packets are assembled one at a time from   *)
(* the payload bytes between a start and an end, and are delivered byte by *)
(* byte, header first, complete, in order and each exactly once. At most   *)
(* one packet is being delivered while the next one is assembled.          *)
(***************************************************************************)
EXTENDS PacketFormat

CONSTANT MaxPacket    \* payload bytes at which a packet is cut

VARIABLES phase,      \* of the packet being assembled: "idle", "open", "closed"
          body,       \* its payload so far
          flags,      \* its flags so far
          outgoing    \* the bytes of the packet being delivered, still to go

assembly == << phase, body, flags >>
vars == << phase, body, flags, outgoing >>

Init == phase = "idle" /\ body = << >> /\ flags = {} /\ outgoing = << >>

\* A packet is opened by a start of packet, or stuffed, empty and already
\* closed, to carry a capture marker. Either carries the markers raised.
Open ==
    /\ phase = "idle"
    /\ \E m \in SUBSET MarkerFlags : flags' = m
    /\ body' = << >>
    /\ phase' = "open"

Stuff ==
    /\ phase = "idle"
    /\ \E m \in (SUBSET MarkerFlags) \ {{}} : flags' = m
    /\ body' = << >>
    /\ phase' = "closed"

Append1 ==
    /\ phase = "open"
    /\ Len(body) < MaxPacket
    /\ \E d \in Data : body' = Append(body, DataCell(d))
    /\ UNCHANGED << phase, flags >>

\* A packet ends for one reason, and is cut exactly when it is full.
Close ==
    /\ phase = "open"
    /\ phase' = "closed"
    /\ \/ Len(body) = MaxPacket /\ flags' = flags \cup {"TRUNC"}
       \/ Len(body) < MaxPacket /\ \E e \in {{}, {"ERR"}, {"OVF"}} : flags' = flags \cup e
    /\ UNCHANGED body

Assemble == Open \/ Stuff \/ Append1 \/ Close

Emit ==
    /\ outgoing # << >>
    /\ outgoing' = Tail(outgoing)

\* The packet closed is handed over whole once the one before it is gone.
HandOver ==
    /\ phase = "closed"
    /\ outgoing = << >>
    /\ \E t \in Timestamps \cup {None} :
          outgoing' = Header(flags, Len(body), t) \o body
    /\ phase' = "idle" /\ body' = << >> /\ flags' = {}

Next ==
    \/ Assemble /\ UNCHANGED outgoing
    \/ Emit /\ UNCHANGED assembly
    \/ Assemble /\ Emit
    \/ HandOver

Spec == Init /\ [][Next]_vars
=============================================================================
