--------------------------- MODULE FtdiBus_proofs ---------------------------
(***************************************************************************)
(* Proofs about the FTDI interface for FIFOs of every depth: the bus has   *)
(* one driver at a time, no FIFO overflows, and each direction is a queue. *)
(***************************************************************************)
EXTENDS FtdiBus, FiniteSetTheorems, SequenceTheorems, TLAPS

\* Bytes to the logic are requests, bytes to the host answers or capture data:
\* what is on a bus that nobody drives is never taken for one.
Bytes ==
    /\ chipIn \in Seq(Request) /\ incoming \in Seq(Request)
    /\ chipOut \in Seq(Sent) /\ output \in Seq(Sent)

\* Who drives the bus follows from the state. In READ2 the strobe is out, the
\* byte is still there, and the FIFO still has the space seen in IDLE.
BusInv ==
    /\ state \in {"IDLE", "I2W", "WRITE", "W2I", "READ", "READ2"}
    /\ rd \in BOOLEAN /\ oe \in BOOLEAN /\ drive \in BOOLEAN
    /\ rxf \in BOOLEAN /\ txe \in BOOLEAN /\ readable \in BOOLEAN /\ writable \in BOOLEAN
    /\ drive <=> state = "WRITE"
    /\ oe => state \in {"IDLE", "READ", "READ2"}
    /\ state \in {"READ", "READ2"} => oe
    /\ rd <=> state = "READ2"
    /\ state = "READ2" => rxf /\ writable

\* What the flags promise.
FlagsInv ==
    /\ rxf => chipIn # << >>
    /\ readable => output # << >>
    /\ txe => Len(chipOut) < ChipDepth
    /\ writable => Len(incoming) < FifoDepth

IInv == Bytes /\ BusInv /\ FlagsInv /\ NoOverflow

-----------------------------------------------------------------------------
(* Sequences.                                                              *)

\* A byte taken from the front leaves the rest.
LEMMA Front ==
    ASSUME NEW S, NEW s \in Seq(S), s # << >>
    PROVE  /\ Head(s) \in S /\ Tail(s) \in Seq(S) /\ Len(Tail(s)) = Len(s) - 1
           /\ Len(s) \in Nat \ {0}
    BY HeadTailProperties, EmptySeq

\* A byte put at the end comes after the others.
LEMMA End ==
    ASSUME NEW S, NEW s \in Seq(S), NEW x \in S
    PROVE  /\ Append(s, x) \in Seq(S) /\ Len(Append(s, x)) = Len(s) + 1
           /\ Append(s, x) # << >>
    BY AppendProperties

\* A byte that moves from one part of a queue to the next changes nothing.
LEMMA Move ==
    ASSUME NEW S, NEW s \in Seq(S), NEW t \in Seq(S), s # << >>
    PROVE  Append(t, Head(s)) \o Tail(s) = t \o s
    BY HeadTailProperties, EmptySeq, LenProperties

\* A byte put at the end of the last part is put at the end of the queue.
LEMMA PushEnd ==
    ASSUME NEW S, NEW s \in Seq(S), NEW t \in Seq(S), NEW x \in S
    PROVE  t \o Append(s, x) = Append(t \o s, x)
    BY LenProperties

\* A byte taken from the first part is the first of the queue.
LEMMA PopFront ==
    ASSUME NEW S, NEW s \in Seq(S), NEW t \in Seq(S), t # << >>
    PROVE  t \o s # << >> /\ Tail(t) \o s = Tail(t \o s)
    BY LenProperties, EmptySeq

-----------------------------------------------------------------------------
(* The bus.                                                                *)

\* A write strobe passes on the first byte of the FIFO; a byte is taken in
\* exactly when the read strobe is out, and it is the one of the FT2232H.
LEMMA Strobes ==
    ASSUME IInv
    PROVE  /\ WriteStrobe => output # << >> /\ OnBus = Head(output) /\ Len(chipOut) < ChipDepth
           /\ TakesIn => chipIn # << >> /\ OnBus = Head(chipIn) /\ Len(incoming) < FifoDepth
           /\ ReadStrobe <=> TakesIn
    BY DEF IInv, Bytes, BusInv, FlagsInv, WriteStrobe, CanWrite, ReadStrobe, TakesIn, OnBus

\* A clock of the bus leaves bytes where they are or moves one on.
LEMMA ClockMoves ==
    ASSUME IInv, BusClock
    PROVE  /\ IF TakesIn THEN chipIn # << >> /\ Len(incoming) < FifoDepth
                             /\ incoming' = Append(incoming, Head(chipIn)) /\ chipIn' = Tail(chipIn)
                        ELSE UNCHANGED << incoming, chipIn >>
           /\ IF WriteStrobe THEN output # << >> /\ Len(chipOut) < ChipDepth
                                 /\ chipOut' = Append(chipOut, Head(output)) /\ output' = Tail(output)
                            ELSE UNCHANGED << chipOut, output >>
    BY Strobes DEF BusClock, FifoEnds, ChipBytes, TakesOut

LEMMA ClockBytes == IInv /\ BusClock => Bytes' /\ NoOverflow'
<1> SUFFICES ASSUME IInv, BusClock PROVE Bytes' /\ NoOverflow'
    OBVIOUS
<1>1. incoming' \in Seq(Request) /\ chipIn' \in Seq(Request)
      /\ Len(incoming') <= FifoDepth /\ Len(chipIn') <= ChipDepth
    <2>1. CASE TakesIn
        <3>1. /\ Head(chipIn) \in Request /\ Tail(chipIn) \in Seq(Request)
              /\ Len(Tail(chipIn)) = Len(chipIn) - 1
            BY <2>1, ClockMoves, Front DEF IInv, Bytes
        <3>2. /\ incoming' \in Seq(Request) /\ chipIn' \in Seq(Request)
              /\ Len(incoming') = Len(incoming) + 1 /\ Len(chipIn') = Len(chipIn) - 1
            BY <2>1, <3>1, ClockMoves, End DEF IInv, Bytes
        <3> QED
            BY <2>1, <3>2, ClockMoves, BusAssumption, LenProperties DEF IInv, Bytes, NoOverflow
    <2>2. CASE ~TakesIn
        BY <2>2, ClockMoves DEF IInv, Bytes, NoOverflow
    <2> QED
        BY <2>1, <2>2
<1>2. output' \in Seq(Sent) /\ chipOut' \in Seq(Sent)
      /\ Len(output') <= FifoDepth /\ Len(chipOut') <= ChipDepth
    <2>1. CASE WriteStrobe
        <3>1. /\ Head(output) \in Sent /\ Tail(output) \in Seq(Sent)
              /\ Len(Tail(output)) = Len(output) - 1
            BY <2>1, ClockMoves, Front DEF IInv, Bytes
        <3>2. /\ output' \in Seq(Sent) /\ chipOut' \in Seq(Sent)
              /\ Len(chipOut') = Len(chipOut) + 1 /\ Len(output') = Len(output) - 1
            BY <2>1, <3>1, ClockMoves, End, ZenonT(60) DEF IInv, Bytes
        <3> QED
            BY <2>1, <3>2, ClockMoves, BusAssumption, LenProperties DEF IInv, Bytes, NoOverflow
    <2>2. CASE ~WriteStrobe
        BY <2>2, ClockMoves DEF IInv, Bytes, NoOverflow
    <2> QED
        BY <2>1, <2>2
<1> QED
    BY <1>1, <1>2 DEF Bytes, NoOverflow

\* What a step of the state machine may do to the strobe and the drivers.
LEMMA FsmSteps ==
    ASSUME IInv, Fsm
    PROVE  \/ state' \in {"IDLE", "I2W"} /\ ~rd' /\ ~oe' /\ ~drive'
           \/ state' = "IDLE" /\ ~rd' /\ oe' /\ ~drive'
           \/ state' = "READ" /\ ~rd' /\ oe' /\ ~drive' /\ state = "IDLE" /\ CanRead
           \/ state' = "READ2" /\ rd' /\ oe' /\ ~drive' /\ state = "READ" /\ CanRead
           \/ state' = "WRITE" /\ ~rd' /\ ~oe' /\ drive'
           \/ state' = "W2I" /\ ~rd' /\ ~oe' /\ ~drive'
<1>1. CASE Idle
    BY <1>1 DEF Idle, Go
<1>2. CASE IdleToWrite
    BY <1>2 DEF IdleToWrite, Go
<1>3. CASE Write
    BY <1>3 DEF Write, Go
<1>4. CASE WriteToIdle
    BY <1>4 DEF WriteToIdle, Go
<1>5. CASE Read
    BY <1>5 DEF Read, Go, CanRead
<1>6. CASE Read2
    BY <1>6 DEF Read2, Go
<1> QED
    BY <1>1, <1>2, <1>3, <1>4, <1>5, <1>6 DEF Fsm

\* The drivers and the strobe are Boolean registers.
LEMMA FsmTypes ==
    ASSUME IInv, Fsm
    PROVE  rd' \in BOOLEAN /\ oe' \in BOOLEAN /\ drive' \in BOOLEAN
    BY DEF Fsm, Idle, IdleToWrite, Write, WriteToIdle, Read, Read2, Go

LEMMA ClockBus == IInv /\ BusClock => BusInv' /\ FlagsInv'
<1> SUFFICES ASSUME IInv, BusClock PROVE BusInv' /\ FlagsInv'
    OBVIOUS
<1>1. FlagsInv'
    BY DEF BusClock, Pins, FlagsInv
<1>2. /\ rxf' \in BOOLEAN /\ txe' \in BOOLEAN /\ readable' \in BOOLEAN /\ writable' \in BOOLEAN
      /\ rxf /\ ~ReadStrobe => rxf'
      /\ writable /\ ~TakesIn => writable'
    BY DEF BusClock, Pins
<1>3. state = "READ" => ~ReadStrobe /\ ~TakesIn
    BY DEF IInv, BusInv, ReadStrobe, TakesIn
<1>4. BusInv'
    BY <1>2, <1>3, FsmSteps, FsmTypes DEF BusClock, BusInv, CanRead
<1> QED
    BY <1>1, <1>4

-----------------------------------------------------------------------------
(* The far ends.                                                           *)

LEMMA HostSendInv == IInv /\ HostSend => IInv'
<1> SUFFICES ASSUME IInv, HostSend PROVE IInv'
    OBVIOUS
<1>1. PICK r \in Request : chipIn' = Append(chipIn, r)
    BY DEF HostSend
<1>2. chipIn' \in Seq(Request) /\ chipIn' # << >> /\ Len(chipIn') = Len(chipIn) + 1
    BY <1>1, End DEF IInv, Bytes
<1>3. Len(chipIn') <= ChipDepth
    BY <1>2, BusAssumption, EmptySeq, LenProperties DEF HostSend, IInv, Bytes
<1> QED
    BY <1>2, <1>3 DEF HostSend, IInv, Bytes, BusInv, FlagsInv, NoOverflow, busVars, pinVars

LEMMA HostTakeInv == IInv /\ HostTake => IInv'
<1> SUFFICES ASSUME IInv, HostTake PROVE IInv'
    OBVIOUS
<1>1. chipOut' \in Seq(Sent) /\ Len(chipOut') = Len(chipOut) - 1 /\ Len(chipOut) \in Nat
    BY Front DEF HostTake, IInv, Bytes
<1> QED
    BY <1>1, BusAssumption
    DEF HostTake, IInv, Bytes, BusInv, FlagsInv, NoOverflow, busVars, pinVars

LEMMA LogicTakeInv == IInv /\ LogicTake => IInv'
<1> SUFFICES ASSUME IInv, LogicTake PROVE IInv'
    OBVIOUS
<1>1. incoming' \in Seq(Request) /\ Len(incoming') = Len(incoming) - 1 /\ Len(incoming) \in Nat
    BY Front DEF LogicTake, IInv, Bytes
<1> QED
    BY <1>1, BusAssumption
    DEF LogicTake, IInv, Bytes, BusInv, FlagsInv, NoOverflow, busVars, pinVars

LEMMA LogicSendInv ==
    ASSUME IInv, NEW b \in Sent, LogicSend(b)
    PROVE  IInv'
<1>1. output' \in Seq(Sent) /\ output' # << >> /\ Len(output') = Len(output) + 1
    BY End DEF LogicSend, IInv, Bytes
<1>2. Len(output') <= FifoDepth
    BY <1>1, BusAssumption, LenProperties DEF LogicSend, IInv, Bytes
<1> QED
    BY <1>1, <1>2 DEF LogicSend, IInv, Bytes, BusInv, FlagsInv, NoOverflow, busVars, pinVars

-----------------------------------------------------------------------------
(* The invariant.                                                          *)

LEMMA InitIInv == Init => IInv
<1>1. Init => BusInv /\ FlagsInv
    BY DEF Init, BusInv, FlagsInv
<1>2. Init => Bytes /\ NoOverflow
    BY BusAssumption, EmptySeq DEF Init, Bytes, NoOverflow
<1> QED
    BY <1>1, <1>2 DEF IInv

LEMMA NextIInv == IInv /\ [Next]_vars => IInv'
<1> SUFFICES ASSUME IInv, [Next]_vars PROVE IInv'
    OBVIOUS
<1>1. CASE BusClock
    BY <1>1, ClockBytes, ClockBus DEF IInv
<1>2. CASE HostSend
    BY <1>2, HostSendInv
<1>3. CASE HostTake
    BY <1>3, HostTakeInv
<1>4. CASE LogicTake
    BY <1>4, LogicTakeInv
<1>5. CASE \E b \in Sent : LogicSend(b)
    BY <1>5, LogicSendInv
<1>6. CASE UNCHANGED vars
    BY <1>6 DEF vars, IInv, Bytes, BusInv, FlagsInv, NoOverflow, busVars, pinVars
<1> QED
    BY <1>1, <1>2, <1>3, <1>4, <1>5, <1>6 DEF Next

LEMMA IInvHolds == Spec => []IInv
    BY InitIInv, NextIInv, PTL DEF Spec

\* The FPGA and the FT2232H never drive the bus in the same clock, however the
\* flags of the FT2232H and of the FIFOs come and go.
THEOREM OneDriver == Spec => []NoContention
<1>1. IInv => NoContention
    BY DEF IInv, BusInv, NoContention
<1> QED
    BY <1>1, IInvHolds, PTL

\* No byte is strobed into a FIFO or the FT2232H without space for it, for
\* every depth of either.
THEOREM NeverOverflows == Spec => []NoOverflow
<1>1. IInv => NoOverflow
    BY DEF IInv
<1> QED
    BY <1>1, IInvHolds, PTL

-----------------------------------------------------------------------------
(* Each direction is a queue.                                              *)

LEMMA DownInit == Init => Down!Init
    BY EmptySeq, ConcatEmptySeq DEF Init, Down!Init

\* A step puts a request at the end, takes the first one, or moves one on.
LEMMA DownStep == IInv /\ [Next]_vars => [Down!Next]_(incoming \o chipIn)
<1> SUFFICES ASSUME IInv, [Next]_vars
             PROVE  Down!Next \/ UNCHANGED (incoming \o chipIn)
    OBVIOUS
<1> USE DEF IInv, Bytes
<1>1. CASE BusClock
    BY <1>1, ClockMoves, Move
<1>2. CASE HostSend
    <2>1. PICK r \in Request : chipIn' = Append(chipIn, r)
        BY <1>2 DEF HostSend
    <2>2. (incoming \o chipIn)' = Append(incoming \o chipIn, r)
        BY <1>2, <2>1, PushEnd DEF HostSend
    <2> QED
        BY <2>2 DEF Down!Next, Down!Push
<1>3. CASE LogicTake
    <2>1. incoming # << >> /\ (incoming \o chipIn)' = Tail(incoming) \o chipIn
        BY <1>3 DEF LogicTake
    <2> QED
        BY <2>1, PopFront DEF Down!Next, Down!Pop
<1>4. CASE HostTake \/ (\E b \in Sent : LogicSend(b)) \/ UNCHANGED vars
    BY <1>4 DEF HostTake, LogicSend, vars
<1> QED
    BY <1>1, <1>2, <1>3, <1>4 DEF Next

LEMMA UpInit == Init => Up!Init
    BY EmptySeq, ConcatEmptySeq DEF Init, Up!Init

LEMMA UpStep == IInv /\ [Next]_vars => [Up!Next]_(chipOut \o output)
<1> SUFFICES ASSUME IInv, [Next]_vars
             PROVE  Up!Next \/ UNCHANGED (chipOut \o output)
    OBVIOUS
<1> USE DEF IInv, Bytes
<1>1. CASE BusClock
    BY <1>1, ClockMoves, Move
<1>2. CASE \E b \in Sent : LogicSend(b)
    <2>1. PICK b \in Sent : LogicSend(b)
        BY <1>2
    <2>2. (chipOut \o output)' = Append(chipOut \o output, b)
        BY <2>1, PushEnd DEF LogicSend
    <2> QED
        BY <2>2 DEF Up!Next, Up!Push
<1>3. CASE HostTake
    <2>1. chipOut # << >> /\ (chipOut \o output)' = Tail(chipOut) \o output
        BY <1>3 DEF HostTake
    <2> QED
        BY <2>1, PopFront DEF Up!Next, Up!Pop
<1>4. CASE HostSend \/ LogicTake \/ UNCHANGED vars
    BY <1>4 DEF HostSend, LogicTake, vars
<1> QED
    BY <1>1, <1>2, <1>3, <1>4 DEF Next

\* Whatever the flags do and however deep the FIFOs are, the requests reach the
\* logic, and answers and capture data the host, in order, each once and none
\* lost.
THEOREM Duplex == Spec => DuplexSpec
<1>1. Spec => Down!Spec
    BY DownInit, DownStep, IInvHolds, PTL DEF Spec, Down!Spec
<1>2. Spec => Up!Spec
    BY UpInit, UpStep, IInvHolds, PTL DEF Spec, Up!Spec
<1> QED
    BY <1>1, <1>2 DEF DuplexSpec
-----------------------------------------------------------------------------
(* What the host has out: every request is on its way down, in the logic,  *)
(* or answered by an answer on its way up.                                 *)

Places(s)  == {i \in 1 .. Len(s) : s[i] = "answer"}
Answers(s) == Cardinality(Places(s))

OwedInv ==
    /\ owed \in Nat /\ todo \in Nat /\ owed <= MaxOwed
    /\ owed = Len(incoming) + Len(chipIn) + todo + Answers(output) + Answers(chipOut)

LEMMA PlacesFinite ==
    ASSUME NEW S, NEW s \in Seq(S)
    PROVE  IsFiniteSet(Places(s)) /\ Answers(s) \in Nat
<1>1. IsFiniteSet(1 .. Len(s)) /\ Places(s) \in SUBSET (1 .. Len(s))
    BY FS_Interval, LenProperties DEF Places
<1>2. IsFiniteSet(Places(s))
    BY <1>1, FS_Subset
<1> QED
    BY <1>2, FS_CardinalityType DEF Answers

LEMMA AnswersEnd ==
    ASSUME NEW S, NEW s \in Seq(S), NEW x \in S
    PROVE  Answers(Append(s, x)) = IF x = "answer" THEN Answers(s) + 1 ELSE Answers(s)
<1> DEFINE n == Len(s)
           t == Append(s, x)
<1>1. n \in Nat /\ Len(t) = n + 1 /\ t[n + 1] = x /\ \A i \in 1 .. n : t[i] = s[i]
    BY AppendProperties, LenProperties
<1> HIDE DEF n, t
<1>2. Places(s) = {i \in 1 .. n : s[i] = "answer"}
    BY DEF Places, n
<1>3. n + 1 \notin Places(s) /\ IsFiniteSet(Places(s))
    <2>1. n + 1 \notin 1 .. n
        BY <1>1
    <2>2. IsFiniteSet(Places(s))
        BY PlacesFinite
    <2> QED
        BY <1>2, <2>1, <2>2
<1>4. CASE x = "answer"
    <2>1. Places(t) = Places(s) \cup {n + 1}
        BY <1>1, <1>2, <1>4 DEF Places
    <2> QED
        BY <1>3, <1>4, <2>1, FS_AddElement DEF Answers, t
<1>5. CASE x # "answer"
    <2>1. Places(t) = Places(s)
        BY <1>1, <1>2, <1>5 DEF Places
    <2> QED
        BY <1>5, <2>1 DEF Answers, t
<1> QED
    BY <1>4, <1>5

LEMMA AnswersFront ==
    ASSUME NEW S, NEW s \in Seq(S), s # << >>
    PROVE  Answers(s) = IF Head(s) = "answer" THEN Answers(Tail(s)) + 1 ELSE Answers(Tail(s))
<1> DEFINE n == Len(s)
           t == Tail(s)
           Later == {i \in 2 .. n : s[i] = "answer"}
           f == [i \in Places(t) |-> i + 1]
<1>1. /\ n \in Nat \ {0} /\ Len(t) = n - 1 /\ t \in Seq(S) /\ Head(s) = s[1]
      /\ \A i \in 1 .. n - 1 : t[i] = s[i + 1]
    BY HeadTailProperties, EmptySeq, LenProperties
<1>2. Places(s) = {i \in 1 .. n : s[i] = "answer"}
    BY DEF Places
<1> HIDE DEF n, t
<1>3. Places(t) = {i \in 1 .. n - 1 : s[i + 1] = "answer"}
    BY <1>1 DEF Places
<1>4. f \in Bijection(Places(t), Later)
    <2>1. \A i \in Places(t) : i \in Int /\ f[i] = i + 1 /\ i + 1 \in Later
        BY <1>1, <1>3
    <2>2. f \in [Places(t) -> Later]
        BY <2>1
    <2>3. \A i, j \in Places(t) : f[i] = f[j] => i = j
        BY <2>1
    <2>4. \A k \in Later : k - 1 \in Places(t) /\ f[k - 1] = k
        BY <1>1, <1>3, <2>1
    <2>5. f \in Injection(Places(t), Later)
        BY <2>2, <2>3 DEF Injection, IsInjective
    <2>6. \A k \in Later : \E i \in Places(t) : f[i] = k
        BY <2>4
    <2>7. f \in Surjection(Places(t), Later)
        BY <2>2, <2>6 DEF Surjection
    <2> QED
        BY <2>5, <2>7 DEF Bijection
<1>5. IsFiniteSet(Later) /\ Cardinality(Later) = Answers(t)
    <2>1. IsFiniteSet(Places(t))
        BY <1>1, PlacesFinite
    <2> QED
        BY <1>4, <2>1, FS_Bijection DEF Answers, ExistsBijection
<1>6. CASE Head(s) = "answer"
    <2>1. Places(s) = Later \cup {1} /\ 1 \notin Later
        BY <1>1, <1>2, <1>6
    <2> HIDE DEF Later
    <2> QED
        BY <1>5, <1>6, <2>1, FS_AddElement DEF Answers, t
<1>7. CASE Head(s) # "answer"
    <2>1. Places(s) = Later
        BY <1>1, <1>2, <1>7
    <2> QED
        BY <1>5, <1>7, <2>1 DEF Answers, t
<1> QED
    BY <1>6, <1>7

LEMMA NoneAnswered == Answers(<< >>) = 0
    BY FS_EmptySet, EmptySeq DEF Answers, Places

\* The numbers a step adds up are natural numbers.
LEMMA Numbers ==
    ASSUME IInv
    PROVE  /\ Len(incoming) \in Nat /\ Len(chipIn) \in Nat
           /\ Answers(output) \in Nat /\ Answers(chipOut) \in Nat
    BY PlacesFinite, LenProperties DEF IInv, Bytes

LEMMA OwedStep == IInv /\ OwedInv /\ [Next]_vars => OwedInv'
<1> SUFFICES ASSUME IInv, OwedInv, [Next]_vars PROVE OwedInv'
    OBVIOUS
<1>1. /\ Len(incoming) \in Nat /\ Len(chipIn) \in Nat
      /\ Answers(output) \in Nat /\ Answers(chipOut) \in Nat
      /\ owed \in Nat /\ todo \in Nat /\ owed <= MaxOwed /\ MaxOwed \in Nat
      /\ owed = Len(incoming) + Len(chipIn) + todo + Answers(output) + Answers(chipOut)
    BY Numbers, BusAssumption DEF OwedInv
<1>2. CASE BusClock
    <2>1. owed' = owed /\ todo' = todo
        BY <1>2 DEF BusClock
    <2>2. Len(incoming') + Len(chipIn') = Len(incoming) + Len(chipIn)
        <3>1. CASE TakesIn
            <4>1. /\ chipIn # << >> /\ Head(chipIn) \in Request
                  /\ incoming' = Append(incoming, Head(chipIn)) /\ chipIn' = Tail(chipIn)
                BY <1>2, <3>1, ClockMoves, Front DEF IInv, Bytes
            <4>2. Len(incoming') = Len(incoming) + 1 /\ Len(chipIn') = Len(chipIn) - 1
                BY <4>1, Front, End DEF IInv, Bytes
            <4> QED
                BY <1>1, <4>2
        <3>2. CASE ~TakesIn
            BY <1>2, <3>2, ClockMoves
        <3> QED
            BY <3>1, <3>2
    <2>3. Answers(output') + Answers(chipOut') = Answers(output) + Answers(chipOut)
        <3>1. CASE WriteStrobe
            <4>1. /\ output # << >> /\ Head(output) \in Sent /\ Tail(output) \in Seq(Sent)
                  /\ chipOut' = Append(chipOut, Head(output)) /\ output' = Tail(output)
                BY <1>2, <3>1, ClockMoves, Front DEF IInv, Bytes
            <4>2. Answers(output') \in Nat
                BY <4>1, PlacesFinite
            <4>3. /\ Answers(chipOut') = IF Head(output) = "answer" THEN Answers(chipOut) + 1
                                                                   ELSE Answers(chipOut)
                  /\ Answers(output) = IF Head(output) = "answer" THEN Answers(output') + 1
                                                                  ELSE Answers(output')
                BY <4>1, AnswersEnd, AnswersFront DEF IInv, Bytes
            <4> QED
                BY <1>1, <4>2, <4>3
        <3>2. CASE ~WriteStrobe
            BY <1>2, <3>2, ClockMoves
        <3> QED
            BY <3>1, <3>2
    <2>4. /\ Len(incoming') \in Nat /\ Len(chipIn') \in Nat
          /\ Answers(output') \in Nat /\ Answers(chipOut') \in Nat
        BY <1>2, ClockBytes, PlacesFinite, LenProperties DEF Bytes
    <2> QED
        BY <1>1, <2>1, <2>2, <2>3, <2>4, SMTT(30) DEF OwedInv
<1>3. CASE HostSend
    <2>1. PICK r \in Request : chipIn' = Append(chipIn, r)
        BY <1>3 DEF HostSend
    <2>2. Len(chipIn') = Len(chipIn) + 1
        BY <2>1, End DEF IInv, Bytes
    <2>3. /\ owed < MaxOwed /\ owed' = owed + 1 /\ todo' = todo
          /\ incoming' = incoming /\ output' = output /\ chipOut' = chipOut
        BY <1>3 DEF HostSend
    <2> QED
        BY <1>1, <2>2, <2>3 DEF OwedInv
<1>4. CASE HostTake
    <2>1. /\ chipOut # << >> /\ chipOut' = Tail(chipOut) /\ todo' = todo
          /\ owed' = IF Head(chipOut) = "answer" THEN owed - 1 ELSE owed
          /\ incoming' = incoming /\ output' = output /\ chipIn' = chipIn
        BY <1>4 DEF HostTake
    <2>2. /\ Answers(chipOut') \in Nat
          /\ Answers(chipOut) = IF Head(chipOut) = "answer" THEN Answers(chipOut') + 1
                                                           ELSE Answers(chipOut')
        BY <2>1, AnswersFront, Front, PlacesFinite DEF IInv, Bytes
    <2>3. CASE Head(chipOut) = "answer"
        <3>1. owed' = owed - 1 /\ Answers(chipOut) = Answers(chipOut') + 1
            BY <2>1, <2>2, <2>3
        <3>2. owed' \in Nat /\ owed' <= MaxOwed
            BY <1>1, <2>2, <3>1, SMTT(30)
        <3>3. owed' = Len(incoming) + Len(chipIn) + todo + Answers(output) + Answers(chipOut')
            BY <1>1, <2>2, <3>1
        <3> QED
            BY <1>1, <2>1, <3>2, <3>3 DEF OwedInv
    <2>4. CASE Head(chipOut) # "answer"
        <3>1. owed' = owed /\ Answers(chipOut) = Answers(chipOut')
            BY <2>1, <2>2, <2>4
        <3> QED
            BY <1>1, <2>1, <3>1 DEF OwedInv
    <2> QED
        BY <2>3, <2>4
<1>5. CASE LogicTake
    <2>1. /\ incoming # << >> /\ incoming' = Tail(incoming) /\ todo' = todo + 1
          /\ owed' = owed /\ chipIn' = chipIn /\ output' = output /\ chipOut' = chipOut
        BY <1>5 DEF LogicTake
    <2>2. Len(incoming') = Len(incoming) - 1 /\ Len(incoming) \in Nat \ {0}
        BY <2>1, Front DEF IInv, Bytes
    <2> QED
        BY <1>1, <2>1, <2>2 DEF OwedInv
<1>6. CASE \E b \in Sent : LogicSend(b)
    <2>1. PICK b \in Sent : LogicSend(b)
        BY <1>6
    <2>2. /\ output' = Append(output, b) /\ (b = "answer" => todo > 0)
          /\ todo' = IF b = "answer" THEN todo - 1 ELSE todo
          /\ owed' = owed /\ incoming' = incoming /\ chipIn' = chipIn /\ chipOut' = chipOut
        BY <2>1 DEF LogicSend
    <2>3. Answers(output') = IF b = "answer" THEN Answers(output) + 1 ELSE Answers(output)
        BY <2>2, AnswersEnd DEF IInv, Bytes
    <2> QED
        <3>1. CASE b = "answer"
            <4>1. todo' = todo - 1 /\ todo > 0 /\ Answers(output') = Answers(output) + 1
                BY <2>2, <2>3, <3>1
            <4>2. todo' \in Nat
                BY <1>1, <4>1
            <4>3. owed = Len(incoming) + Len(chipIn) + todo' + Answers(output') + Answers(chipOut)
                BY <1>1, <4>1
            <4> QED
                BY <1>1, <2>2, <4>2, <4>3 DEF OwedInv
        <3>2. CASE b # "answer"
            <4>1. todo' = todo /\ Answers(output') = Answers(output)
                BY <2>2, <2>3, <3>2
            <4> QED
                BY <1>1, <2>2, <4>1 DEF OwedInv
        <3> QED
            BY <3>1, <3>2
<1>7. CASE UNCHANGED vars
    BY <1>7 DEF vars, OwedInv
<1> QED
    BY <1>2, <1>3, <1>4, <1>5, <1>6, <1>7 DEF Next

LEMMA OwedInvHolds == Spec => []OwedInv
<1>1. Init => OwedInv
    BY NoneAnswered, EmptySeq, BusAssumption DEF Init, OwedInv
<1> QED
    BY <1>1, OwedStep, IInvHolds, PTL DEF Spec

\* The state machine and the flags keep to their values, no FIFO overflows, and a
\* host that throttles itself bounds the requests the logic has to keep.
THEOREM TypeCorrect == Spec => []TypeOK
<1>1. IInv /\ OwedInv => TypeOK
    <2> SUFFICES ASSUME IInv, OwedInv PROVE TypeOK
        OBVIOUS
    <2>1. owed \in 0 .. MaxOwed /\ todo \in 0 .. MaxOwed
        BY Numbers, BusAssumption DEF OwedInv
    <2>2. {rd, oe, drive, rxf, txe, readable, writable} \subseteq BOOLEAN
        BY Zenon DEF IInv, BusInv
    <2> QED
        BY <2>1, <2>2 DEF IInv, BusInv, TypeOK
<1> QED
    BY <1>1, IInvHolds, OwedInvHolds, PTL
=============================================================================
