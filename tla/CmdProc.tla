------------------------------- MODULE CmdProc --------------------------------
(***************************************************************************)
(* Register accesses of the host over USB (IO of LibOV.py), and the way    *)
(* their answers share the stream to the host with two other sources: the  *)
(* generator FTDI_randtest, which the test lb-test starts and stops by     *)
(* register accesses of its own, and the capture data (SDRAM_Host_Read).   *)
(*                                                                         *)
(*   request -> BusDecode -> CSR_Master -> BusEncode -> BusInterleave -> host *)
(*                                                                         *)
(* One step is a clock of the gateware or a call made by the host. The     *)
(* FIFOs of the FTDI interface only add delay: a request byte comes when   *)
(* it comes (readable), a byte is taken when there is room (writable), and *)
(* the host frames it at once.                                             *)
(***************************************************************************)
EXTENDS Integers, Sequences

CONSTANTS MaxSize,  \* largest size of a test packet (bound of the instance)
          None

ASSUME CmdAssumption == MaxSize \in 1 .. 255

VARIABLES pc, req, wait, left,    \* host: lb-test, the request, bytes yet to go
          buf, ret, fault,        \* host: bytes received, the last answer
          dstate, dtoken,         \* BusDecode
          mstate, comp,           \* CSR_Master
          regs, datR,             \* the registers, what the CSR bus reads
          estate, etoken, ssum,   \* BusEncode
          grant, released,        \* BusInterleave
          tstate, bytecount,      \* FTDI_randtest
          spos                    \* capture data: bytes sent of a burst, or -1

hostVars   == << pc, req, wait, left, buf, ret, fault >>
masterVars == << mstate, comp, regs, datR >>
encVars    == << estate, etoken, ssum >>
vars == << hostVars, dstate, dtoken, masterVars, encVars, grant, released,
           tstate, bytecount, spos >>

-----------------------------------------------------------------------------
(* Registers and accesses. RANDTEST_CFG, RANDTEST_SIZE and one more.       *)

Values == 0 .. MaxSize
Sizes  == 1 .. MaxSize
Addrs  == {"cfg", "size", "led"}
Write(a, d) == [wr |-> TRUE, a |-> a, d |-> d]
ReadOf(a)   == [wr |-> FALSE, a |-> a, d |-> 0]
Token == [wr : BOOLEAN, a : Addrs, d : Values]
Ops == { Write(a, d) : a \in Addrs, d \in Values } \cup { ReadOf(a) : a \in Addrs }

\* The accesses lb-test makes, over and over.
Program(p) ==
    CASE p \in {"stop1", "stop2"} -> {Write("cfg", 0)}
      [] p = "size"  -> { Write("size", d) : d \in Sizes }
      [] p = "start" -> {Write("cfg", 1)}

\* Variant: the generator is stopped once.
AfterOneStop(p) ==
    CASE p \in {"stop1", "stop2"} -> "size" [] p = "size" -> "start" [] p = "start" -> "stop1"

After(p) ==
    CASE p = "stop1" -> "stop2" [] p = "stop2" -> "size"
      [] p = "size" -> "start" [] p = "start" -> "stop1"

\* Between them any register may be read, and LEDs set.
Extra == { ReadOf(a) : a \in Addrs } \cup {Write("led", 0), Write("led", 1)}

\* A call of __txn; it returns with the answer (Receive).
Invoke ==
    /\ ~wait /\ wait' = TRUE
    /\ left' = 5
    /\ \/ req' \in Program(pc) /\ pc' = After(pc)
       \/ req' \in Extra /\ pc' = pc
    /\ UNCHANGED << buf, ret, fault, dstate, dtoken, masterVars, encVars, grant, released,
                    tstate, bytecount, spos >>
-----------------------------------------------------------------------------
(* BusDecode: five bytes make a request. Any byte is taken but in ISSUE.   *)

ByteIn(readable) == readable /\ left > 0 /\ dstate # "ISSUE"

\* CSR_Master takes the request in the clock in which it makes the access.
Access == mstate = "IDLE" /\ dstate = "ISSUE"

DecodeNext ==
    CASE dstate = "IDLE" -> IF left = 5 THEN "ADRH" ELSE "IDLE"
      [] dstate = "ADRH" -> "ADRL" [] dstate = "ADRL" -> "DATA"
      [] dstate = "DATA" -> "CKSUM" [] dstate = "CKSUM" -> "ISSUE"

Decode(readable) ==
    /\ dstate' = IF ByteIn(readable) THEN DecodeNext ELSE IF Access THEN "IDLE" ELSE dstate
    /\ dtoken' = CASE ByteIn(readable) /\ dstate = "ADRH" -> [dtoken EXCEPT !.wr = req.wr]
                   [] ByteIn(readable) /\ dstate = "ADRL" -> [dtoken EXCEPT !.a = req.a]
                   [] ByteIn(readable) /\ dstate = "DATA" -> [dtoken EXCEPT !.d = req.d]
                   [] OTHER -> dtoken
    /\ left' = IF ByteIn(readable) THEN left - 1 ELSE left

-----------------------------------------------------------------------------
(* CSR_Master and the registers. The bus reads the register addressed in    *)
(* the clock before; without an access its data is of no register asked for. *)

\* BusEncode takes the completion in IDLE.
Completed == mstate = "WAIT" /\ estate = -1

\* Variant: read data is sampled a clock late.
SampleLate ==
    comp' = CASE Access -> [wr |-> dtoken.wr, a |-> dtoken.a,
                            d |-> IF dtoken.wr THEN dtoken.d ELSE comp.d]
              [] mstate = "WAIT" /\ ~comp.wr /\ datR # None -> [comp EXCEPT !.d = datR]
              [] OTHER -> comp

Sample ==
    comp' = CASE Access -> [wr |-> dtoken.wr, a |-> dtoken.a,
                            d |-> IF dtoken.wr THEN dtoken.d ELSE comp.d]
              [] mstate = "READ" /\ ~comp.wr -> [comp EXCEPT !.d = datR]
              [] OTHER -> comp

Master ==
    /\ mstate' = CASE Access -> "READ" [] mstate = "READ" -> "WAIT"
                   [] Completed -> "IDLE" [] OTHER -> mstate
    /\ Sample
    /\ datR' = IF Access THEN regs[dtoken.a] ELSE None
    /\ regs' = IF Access /\ dtoken.wr THEN [regs EXCEPT ![dtoken.a] = dtoken.d] ELSE regs

-----------------------------------------------------------------------------
(* The sources of the stream: answers (0), FTDI_randtest (1), capture data  *)
(* (2). A byte is its source, its place in the frame and what it says.      *)

Sources == 0 .. 2

\* A burst of the capture: header, length, one word.
BurstBytes == 4

\* Variant: the last data byte is not told from the others until it is sent.
TestLastLate == bytecount = regs["size"]

TestLast == bytecount + 1 = regs["size"]

Stb(i) ==
    CASE i = 0 -> estate # -1
      [] i = 1 -> tstate # "IDLE"
      [] i = 2 -> spos # -1

IsLast(i) ==
    CASE i = 0 -> estate = 4
      [] i = 1 -> tstate = "SEND_DATA" /\ TestLast
      [] i = 2 -> spos = BurstBytes - 1

AnswerByte ==
    [s |-> 0, n |-> estate,
     v |-> CASE estate = 0 -> None [] estate = 1 -> etoken.wr [] estate = 2 -> etoken.a
             [] estate = 3 -> etoken.d [] estate = 4 -> ssum]

TestByte ==
    CASE tstate = "SEND_HEAD" -> [s |-> 1, n |-> 0, v |-> None]
      [] tstate = "SEND_SIZE" -> [s |-> 1, n |-> 1, v |-> regs["size"]]
      [] tstate = "SEND_DATA" -> [s |-> 1, n |-> 2, v |-> None]

Byte(i) ==
    CASE i = 0 -> AnswerByte
      [] i = 1 -> TestByte
      [] i = 2 -> [s |-> 2, n |-> spos, v |-> None]

-----------------------------------------------------------------------------
(* BusInterleave: a source that was granted the stream keeps it until the   *)
(* last byte of its frame is taken; then the next in turn that asks has it. *)

GrantMoves == released /\ \E i \in Sources : Stb(i)

\* Variant: of those that ask the answers come last.
NextGrantAnswersLast == IF Stb(2) THEN 2 ELSE IF Stb(1) THEN 1 ELSE 0

NextGrant ==
    LET turn(k) == (grant + k) % 3
    IN IF Stb(turn(1)) THEN turn(1) ELSE IF Stb(turn(2)) THEN turn(2) ELSE grant

Taken(i, writable) == writable /\ ~GrantMoves /\ grant = i /\ Stb(i)

\* Variant: the grant may move at every byte.
InterleaveBytes(writable) ==
    /\ grant' = IF GrantMoves THEN NextGrant ELSE grant
    /\ released' = CASE GrantMoves -> FALSE
                     [] Taken(grant, writable) -> TRUE
                     [] OTHER -> released

Interleave(writable) ==
    /\ grant' = IF GrantMoves THEN NextGrant ELSE grant
    /\ released' = CASE GrantMoves -> FALSE
                     [] Taken(grant, writable) /\ IsLast(grant) -> TRUE
                     [] OTHER -> released

Encode(writable) ==
    /\ estate' = CASE Completed -> 0
                   [] Taken(0, writable) -> IF estate = 4 THEN -1 ELSE estate + 1
                   [] OTHER -> estate
    /\ etoken' = IF Completed THEN comp ELSE etoken
    /\ ssum' = etoken

RandTest(writable) ==
    /\ tstate' = CASE tstate = "IDLE" -> IF regs["cfg"] % 2 = 1 THEN "SEND_HEAD" ELSE "IDLE"
                   [] Taken(1, writable) /\ tstate = "SEND_HEAD" -> "SEND_SIZE"
                   [] Taken(1, writable) /\ tstate = "SEND_SIZE" -> "SEND_DATA"
                   [] Taken(1, writable) /\ tstate = "SEND_DATA" /\ TestLast -> "IDLE"
                   [] OTHER -> tstate
    /\ bytecount' = CASE Taken(1, writable) /\ tstate = "SEND_SIZE" -> 0
                      [] Taken(1, writable) /\ tstate = "SEND_DATA" -> (bytecount + 1) % 256
                      [] OTHER -> bytecount

Capture(start, writable) ==
    spos' = CASE spos = -1 -> IF start THEN 0 ELSE -1
              [] Taken(2, writable) -> IF spos = BurstBytes - 1 THEN -1 ELSE spos + 1
              [] OTHER -> spos

-----------------------------------------------------------------------------
(* The host frames what it receives by the first byte and, of test packets, *)
(* by the length in the second. It raises an exception, or discards a byte, *)
(* when they do not match what comes (fault).                               *)

Misframed(b) == b[1].n # 0 \/ \E i \in 1 .. Len(b) : b[i].s # b[1].s

FrameSize(b) ==
    CASE b[1].s = 0 -> 5
      [] b[1].s = 1 -> IF Len(b) < 2 THEN 2 ELSE b[2].v + 2
      [] b[1].s = 2 -> BurstBytes

Complete(b) == Len(b) >= 2 /\ Len(b) = FrameSize(b)

\* The checksum is of the bytes before it, the address that of the request.
Answers(b) ==
    /\ b[5].v = [wr |-> b[2].v, a |-> b[3].v, d |-> b[4].v]
    /\ wait /\ b[2].v = req.wr /\ b[3].v = req.a

Receive(writable) ==
    LET b == Append(buf, Byte(grant))
        got == Taken(grant, writable)
        answered == got /\ ~Misframed(b) /\ Complete(b) /\ b[1].s = 0
    IN /\ buf' = IF ~got THEN buf ELSE IF Misframed(b) \/ Complete(b) THEN << >> ELSE b
       /\ fault' = (fault \/ (got /\ Misframed(b)) \/ (answered /\ ~Answers(b)))
       /\ wait' = (wait /\ ~answered)
       /\ ret' = IF answered THEN b[4].v ELSE ret

Clock(readable, writable, start) ==
    /\ Decode(readable) /\ Master /\ Encode(writable) /\ Interleave(writable)
    /\ RandTest(writable) /\ Capture(start, writable) /\ Receive(writable)
    /\ UNCHANGED << pc, req >>

-----------------------------------------------------------------------------
Init ==
    /\ pc = "stop1" /\ req = None /\ wait = FALSE /\ left = 0
    /\ buf = << >> /\ ret = None /\ fault = FALSE
    /\ dstate = "IDLE" /\ dtoken = ReadOf("led")
    /\ mstate = "IDLE" /\ comp = ReadOf("led") /\ datR = None
    /\ regs = [a \in Addrs |-> IF a = "size" THEN MaxSize ELSE 0]
    /\ estate = -1 /\ etoken = ReadOf("led") /\ ssum = ReadOf("led")
    /\ grant = 0 /\ released = TRUE
    /\ tstate = "IDLE" /\ bytecount = 0
    /\ spos = -1

Next == Invoke \/ \E readable, writable, start \in BOOLEAN : Clock(readable, writable, start)

Spec == Init /\ [][Next]_vars

-----------------------------------------------------------------------------
(* Fairness: the clock runs; bytes of a request sent arrive, bytes offered  *)
(* to the host are taken. Nothing forces a call or capture data.            *)

Fairness ==
    /\ WF_vars(\E readable, writable, start \in BOOLEAN : Clock(readable, writable, start))
    /\ WF_vars(left > 0 /\ \E writable, start \in BOOLEAN : Clock(TRUE, writable, start))
    /\ WF_vars(Stb(grant) /\ \E readable, start \in BOOLEAN : Clock(readable, TRUE, start))

FairSpec == Spec /\ Fairness
-----------------------------------------------------------------------------
(* Properties.                                                             *)

\* The variables have their types.
TypeOK ==
    /\ {wait, released, fault} \subseteq BOOLEAN
    /\ pc \in {"stop1", "stop2", "size", "start"} /\ req \in Ops \cup {None}
    /\ left \in 0 .. 5
    /\ Len(buf) <= 5 \/ Len(buf) < MaxSize + 2
    /\ dstate \in {"IDLE", "ADRH", "ADRL", "DATA", "CKSUM", "ISSUE"} /\ dtoken \in Token
    /\ mstate \in {"IDLE", "READ", "WAIT"} /\ comp \in Token /\ etoken \in Token
    /\ regs \in [Addrs -> Values] /\ datR \in Values \cup {None}
    /\ estate \in -1 .. 4 /\ grant \in Sources
    /\ tstate \in {"IDLE", "SEND_HEAD", "SEND_SIZE", "SEND_DATA"}
    /\ bytecount \in 0 .. MaxSize /\ spos \in -1 .. BurstBytes - 1

\* A call of the host takes effect once, between call and return, and returns
\* what it found, whatever else is on its way to the host.
Performed == wait /\ left = 0 /\ dstate = "IDLE"
Found ==
    CASE mstate = "READ" -> IF comp.wr THEN comp.d ELSE datR
      [] mstate = "WAIT" -> comp.d
      [] OTHER -> etoken.d
Port == INSTANCE CsrPort WITH
    call   <- IF ~wait THEN "none" ELSE IF Performed THEN "done" ELSE "called",
    op     <- req,
    result <- IF Performed THEN Found ELSE None
PortSpec == Port!Spec

\* The host never meets a byte it cannot frame, an answer with a wrong checksum
\* or one to another request: the sources are switched only between frames,
\* and the length a test packet announces is the length it has.
NoFault == ~fault

\* When the host changes the size of test packets, none is under way: it has
\* stopped the generator twice "to make sure theres no hanging packet"
\* (ovctl.py:521), since the first answer may overtake a packet that waits for
\* its turn, but the second may not.
NoHangingPacket == ~wait /\ pc = "size" => tstate = "IDLE"

\* A call returns, however busy the stream is.
CallReturns == wait ~> ~wait
=============================================================================
