--------------------------- MODULE CmdProc_proofs ---------------------------
(***************************************************************************)
(* Proofs about register accesses, for test packets of every size: the     *)
(* host can frame everything it receives, and an access takes effect once, *)
(* between call and return.                                                *)
(***************************************************************************)
EXTENDS CmdProc, SequenceTheorems, TLAPS

\* What a byte of a frame may say, and the bytes.
Says == {None} \cup BOOLEAN \cup Addrs \cup Values \cup Token
Bytes == [s : Sources, n : -1 .. 4, v : Says]

Types ==
    /\ wait \in BOOLEAN /\ released \in BOOLEAN /\ fault \in BOOLEAN
    /\ pc \in {"stop1", "stop2", "size", "start"} /\ req \in Ops \cup {None}
    /\ left \in 0 .. 5
    /\ dstate \in {"IDLE", "ADRH", "ADRL", "DATA", "CKSUM", "ISSUE"} /\ dtoken \in Token
    /\ mstate \in {"IDLE", "READ", "WAIT"} /\ comp \in Token /\ etoken \in Token
    /\ regs \in [Addrs -> Values] /\ datR \in Values \cup {None}
    /\ estate \in -1 .. 4 /\ grant \in Sources
    /\ tstate \in {"IDLE", "SEND_HEAD", "SEND_SIZE", "SEND_DATA"}
    /\ bytecount \in 0 .. MaxSize /\ spos \in -1 .. BurstBytes - 1

BufType == buf \in Seq(Bytes)

\* Where the request is: on its way, in the master or answered.
Asked == left = 5 \/ dstate # "IDLE"

\* A request goes through decoder, master and encoder and is in one of them.
RequestInv ==
    /\ wait => req \in Ops
    /\ ~wait => ~Asked /\ mstate = "IDLE" /\ estate = -1
    /\ Asked => mstate = "IDLE" /\ estate = -1
    /\ mstate # "IDLE" => estate = -1
    /\ wait /\ ~Asked => mstate # "IDLE" \/ estate # -1
    /\ left = CASE dstate = "IDLE" -> IF left = 5 THEN 5 ELSE 0
                [] dstate = "ADRH" -> 4 [] dstate = "ADRL" -> 3
                [] dstate = "DATA" -> 2 [] dstate = "CKSUM" -> 1 [] dstate = "ISSUE" -> 0

\* Each stage has what it was given of the request.
TokenInv ==
    /\ dstate \in {"ADRL", "DATA", "CKSUM", "ISSUE"} => dtoken.wr = req.wr
    /\ dstate \in {"DATA", "CKSUM", "ISSUE"} => dtoken.a = req.a
    /\ dstate \in {"CKSUM", "ISSUE"} => dtoken.d = req.d
    /\ mstate # "IDLE" => comp.wr = req.wr /\ comp.a = req.a
    /\ mstate = "READ" => datR \in Values
    /\ estate # -1 => etoken.wr = req.wr /\ etoken.a = req.a
    /\ estate >= 1 => ssum = etoken

\* The host has received what the source granted has sent of its frame; the
\* other sources are at the beginning of theirs.
FrameInv ==
    /\ released => buf = << >>
    /\ released \/ grant # 0 => estate \in {-1, 0}
    /\ released \/ grant # 1 => tstate \in {"IDLE", "SEND_HEAD"}
    /\ released \/ grant # 2 => spos \in {-1, 0}
    /\ ~released /\ grant = 0 => estate # -1 /\ Len(buf) = estate
    /\ ~released /\ grant = 1 =>
           /\ tstate # "IDLE"
           /\ tstate = "SEND_HEAD" => Len(buf) = 0
           /\ tstate = "SEND_SIZE" => Len(buf) = 1
           /\ tstate = "SEND_DATA" => Len(buf) = bytecount + 2
    /\ ~released /\ grant = 2 => spos # -1 /\ Len(buf) = spos

ContentInv ==
    /\ \A k \in 1 .. Len(buf) : buf[k].s = grant
    /\ Len(buf) >= 1 => buf[1].n = 0
    /\ grant = 0 => /\ Len(buf) >= 2 => buf[2].v = etoken.wr
                    /\ Len(buf) >= 3 => buf[3].v = etoken.a
                    /\ Len(buf) >= 4 => buf[4].v = etoken.d
    /\ grant = 1 /\ Len(buf) >= 2 => buf[2].v = regs["size"]

\* A packet of the generator goes before the next answer.
GoesNext ==
    tstate # "IDLE" => \/ grant = 0 /\ released
                       \/ grant = 1 /\ ~released

Stopped == tstate = "IDLE" /\ regs["cfg"] = 0

\* What the program may have asked for, and the generator when it does.
ProgramInv ==
    /\ regs["cfg"] \in {0, 1} /\ regs["size"] \in Sizes
    /\ tstate = "SEND_DATA" => bytecount < regs["size"]
    /\ wait => \/ req \in Extra
               \/ req = Write("cfg", 0) /\ pc \in {"stop2", "size"}
               \/ req \in Program("size") /\ pc = "start"
               \/ req = Write("cfg", 1) /\ pc = "stop1"
    /\ wait /\ Asked /\ req = Write("cfg", 1) => Stopped
    /\ pc = "start" => Stopped
    /\ pc = "stop2" => \/ wait /\ req = Write("cfg", 0) /\ (Asked \/ regs["cfg"] = 0)
                       \/ GoesNext /\ regs["cfg"] = 0
    /\ pc = "size" => \/ Stopped
                      \/ wait /\ req = Write("cfg", 0) /\ GoesNext /\ regs["cfg"] = 0

IInv == Types /\ BufType /\ RequestInv /\ TokenInv /\ FrameInv /\ ContentInv /\ ProgramInv /\ NoFault
-----------------------------------------------------------------------------
(* Requests.                                                               *)

LEMMA Constants == MaxSize \in 1 .. 255 /\ 0 \in Values /\ 1 \in Values /\ Sizes \subseteq Values
    BY CmdAssumption DEF Values, Sizes

LEMMA OpsAre ==
    /\ Ops \subseteq Token /\ Extra \subseteq Ops /\ ReadOf("led") \in Token
    /\ Write("cfg", 0) \in Ops /\ Write("cfg", 1) \in Ops
    /\ \A d \in Sizes : Write("size", d) \in Ops
<1>1. \A a \in Addrs : ReadOf(a) \in Ops /\ ReadOf(a) \in Token
    <2>1. \A a \in Addrs : ReadOf(a) \in Token
        BY Constants DEF ReadOf, Token
    <2> QED
        BY <2>1 DEF Ops
<1>2. \A a \in Addrs, d \in Values : Write(a, d) \in Ops /\ Write(a, d) \in Token
    <2>1. \A a \in Addrs, d \in Values : Write(a, d) \in Token
        BY DEF Write, Token
    <2> QED
        BY <2>1 DEF Ops
<1>3. "cfg" \in Addrs /\ "size" \in Addrs /\ "led" \in Addrs
    BY DEF Addrs
<1>4. Ops \subseteq Token
    BY <1>1, <1>2 DEF Ops
<1> QED
    BY <1>1, <1>2, <1>3, <1>4, Constants DEF Extra

LEMMA Programs ==
    /\ Program("stop1") = {Write("cfg", 0)} /\ Program("stop2") = {Write("cfg", 0)}
    /\ Program("size") = { Write("size", d) : d \in Sizes } /\ Program("start") = {Write("cfg", 1)}
    /\ After("stop1") = "stop2" /\ After("stop2") = "size"
    /\ After("size") = "start" /\ After("start") = "stop1"
    BY Zenon DEF Program, After

\* The accesses are told apart by what they write.
LEMMA Distinct ==
    /\ \A op \in Extra : op.wr => op.a = "led"
    /\ \A d : Write("cfg", d).wr /\ Write("cfg", d).a = "cfg" /\ Write("cfg", d).d = d
    /\ \A op \in Program("size") : op.wr /\ op.a = "size" /\ op.d \in Sizes
    BY Programs DEF Extra, ReadOf, Write

-----------------------------------------------------------------------------
(* The stream to the host.                                                 *)

LEMMA StbIs ==
    /\ Stb(0) <=> estate # -1
    /\ Stb(1) <=> tstate # "IDLE"
    /\ Stb(2) <=> spos # -1
    /\ IsLast(0) <=> estate = 4
    /\ IsLast(1) <=> tstate = "SEND_DATA" /\ TestLast
    /\ IsLast(2) <=> spos = BurstBytes - 1
    BY DEF Stb, IsLast

LEMMA GrantIs ==
    ASSUME Types
    PROVE  /\ GrantMoves <=> released /\ (Stb(0) \/ Stb(1) \/ Stb(2))
           /\ GrantMoves => NextGrant \in Sources /\ Stb(NextGrant)
           /\ grant = 0 /\ Stb(1) => NextGrant = 1
    BY DEF Types, GrantMoves, NextGrant, Sources

LEMMA TakenIs ==
    ASSUME Types, FrameInv, NEW writable \in BOOLEAN, NEW i \in Sources
    PROVE  Taken(i, writable) <=> writable /\ ~released /\ grant = i
    BY GrantIs, StbIs DEF Types, FrameInv, Taken, Sources

\* The byte a source sends at each place of its frame.
LEMMA AnswerIs ==
    ASSUME Types, TokenInv, estate # -1
    PROVE  /\ Byte(0) \in Bytes /\ Byte(0).s = 0 /\ Byte(0).n = estate
           /\ estate = 1 => Byte(0).v = etoken.wr
           /\ estate = 2 => Byte(0).v = etoken.a
           /\ estate = 3 => Byte(0).v = etoken.d
           /\ estate = 4 => Byte(0).v = etoken
<1>1. Byte(0) = AnswerByte
    BY DEF Byte
<1>2. AnswerByte.s = 0 /\ AnswerByte.n = estate
    BY DEF AnswerByte
<1>3. /\ estate = 0 => AnswerByte.v = None
      /\ estate = 1 => AnswerByte.v = etoken.wr
      /\ estate = 2 => AnswerByte.v = etoken.a
      /\ estate = 3 => AnswerByte.v = etoken.d
      /\ estate = 4 => AnswerByte.v = ssum
    BY DEF AnswerByte
<1>4. AnswerByte.v \in Says
    <2>1. etoken.wr \in BOOLEAN /\ etoken.a \in Addrs /\ etoken.d \in Values
        BY DEF Types, Token
    <2>2. estate \in {0, 1, 2, 3, 4}
        BY DEF Types
    <2> QED
        BY <1>3, <2>1, <2>2 DEF Types, TokenInv, Says
<1>5. AnswerByte \in Bytes
    BY <1>4 DEF AnswerByte, Bytes, Types, Sources
<1> QED
    BY <1>1, <1>2, <1>3, <1>5 DEF TokenInv

LEMMA TestIs ==
    ASSUME Types, ProgramInv, tstate # "IDLE"
    PROVE  /\ Byte(1) \in Bytes /\ Byte(1).s = 1
           /\ tstate = "SEND_HEAD" => Byte(1).n = 0
           /\ tstate = "SEND_SIZE" => Byte(1).v = regs["size"]
<1>1. Byte(1) = TestByte
    BY DEF Byte
<1>2. regs["size"] \in Says /\ None \in Says
    BY Constants DEF ProgramInv, Says
<1>3. /\ tstate = "SEND_HEAD" => TestByte = [s |-> 1, n |-> 0, v |-> None]
      /\ tstate = "SEND_SIZE" => TestByte = [s |-> 1, n |-> 1, v |-> regs["size"]]
      /\ tstate = "SEND_DATA" => TestByte = [s |-> 1, n |-> 2, v |-> None]
    BY DEF TestByte
<1> QED
    BY <1>1, <1>2, <1>3 DEF Types, Bytes, Sources

LEMMA BurstIs ==
    ASSUME Types
    PROVE  Byte(2) \in Bytes /\ Byte(2).s = 2 /\ Byte(2).n = spos
<1>1. Byte(2) = [s |-> 2, n |-> spos, v |-> None]
    BY DEF Byte
<1> QED
    BY <1>1 DEF Types, Bytes, Sources, Says, BurstBytes
\* What the host makes of the stream: nothing is misframed, a frame is complete
\* with its last byte, and an answer is to the request.
Answered(writable) == Taken(0, writable) /\ estate = 4

LEMMA Received ==
    ASSUME IInv, NEW writable \in BOOLEAN, Receive(writable)
    PROVE  /\ buf' = IF ~Taken(grant, writable) THEN buf
                     ELSE IF IsLast(grant) THEN << >> ELSE Append(buf, Byte(grant))
           /\ ~fault' /\ fault' \in BOOLEAN
           /\ wait' \in BOOLEAN /\ (wait' <=> wait /\ ~Answered(writable))
           /\ ret' = IF Answered(writable) THEN etoken.d ELSE ret
           /\ Taken(grant, writable) => Byte(grant) \in Bytes /\ Byte(grant).s = grant
<1> DEFINE b == Append(buf, Byte(grant))
           got == Taken(grant, writable)
           n == Len(buf)
           answered == got /\ ~Misframed(b) /\ Complete(b) /\ b[1].s = 0
<1>1. /\ grant \in Sources /\ (got <=> writable /\ ~released)
      /\ Answered(writable) <=> got /\ grant = 0 /\ estate = 4
      /\ n \in Nat
    BY TakenIs, LenProperties DEF IInv, Types, Answered, Sources, BufType
<1>2. /\ ~got => buf' = buf
      /\ got /\ ~Misframed(b) /\ Complete(b) => buf' = << >>
      /\ got /\ ~Misframed(b) /\ ~Complete(b) => buf' = b
      /\ answered => ret' = b[4].v
      /\ ~answered => ret' = ret
    BY DEF Receive
<1>3. /\ fault' = (fault \/ (got /\ Misframed(b)) \/ (answered /\ ~Answers(b)))
      /\ wait' = (wait /\ ~answered)
    BY Zenon DEF Receive
<1>4. /\ fault' \in BOOLEAN /\ wait' \in BOOLEAN
      /\ fault' => (got /\ Misframed(b)) \/ (answered /\ ~Answers(b))
      /\ wait' <=> wait /\ ~answered
    <2>1. fault = FALSE
        BY DEF IInv, NoFault, Types
    <2> QED
        BY <1>3, <2>1, Zenon
<1>5. CASE ~got
    <2>1. ~answered /\ ~Answered(writable)
        BY <1>1, <1>5
    <2> HIDE DEF got, answered, b
    <2>2. ~fault' /\ (wait' <=> wait /\ ~Answered(writable)) /\ buf' = buf /\ ret' = ret
        BY <1>2, <1>4, <1>5, <2>1, Zenon DEF answered
    <2> QED
        BY <1>4, <1>5, <2>1, <2>2 DEF got
<1>6. CASE got
    <2>1. Byte(grant) \in Bytes /\ Byte(grant).s = grant /\ (n = 0 => Byte(grant).n = 0)
        <3>1. CASE grant = 0
            BY <1>1, <1>6, <3>1, AnswerIs DEF IInv, FrameInv
        <3>2. CASE grant = 1
            <4>1. tstate # "IDLE"
                BY <1>1, <1>6, <3>2 DEF IInv, FrameInv
            <4>2. n = 0 => tstate = "SEND_HEAD"
                <5>1. bytecount \in Nat
                    BY DEF IInv, Types
                <5>2. /\ tstate = "SEND_SIZE" => n = 1
                      /\ tstate = "SEND_DATA" => n = bytecount + 2
                    BY <1>1, <1>6, <3>2 DEF IInv, FrameInv
                <5>3. tstate \in {"IDLE", "SEND_HEAD", "SEND_SIZE", "SEND_DATA"}
                    BY DEF IInv, Types
                <5> HIDE DEF n
                <5> QED
                    BY <4>1, <5>1, <5>2, <5>3
            <4>3. /\ Byte(1) \in Bytes /\ Byte(1).s = 1
                  /\ tstate = "SEND_HEAD" => Byte(1).n = 0
                BY <4>1, TestIs DEF IInv
            <4> QED
                BY <3>2, <4>2, <4>3
        <3>3. CASE grant = 2
            BY <1>1, <1>6, <3>3, BurstIs DEF IInv, FrameInv
        <3> QED
            BY <1>1, <3>1, <3>2, <3>3 DEF Sources
    <2>2. /\ b \in Seq(Bytes) /\ Len(b) = n + 1 /\ b[n + 1] = Byte(grant)
          /\ \A k \in 1 .. n : b[k] = buf[k]
        BY <1>1, <2>1, AppendProperties DEF IInv, BufType
    <2> HIDE DEF b, n
    <2>3. (\A k \in 1 .. n + 1 : b[k].s = grant) /\ b[1].n = 0
        BY <1>1, <2>1, <2>2 DEF IInv, ContentInv, n
    <2>4. ~Misframed(b)
        BY <1>1, <2>2, <2>3 DEF Misframed
    <2>5. b[1].s = grant
        BY <1>1, <2>3
    <2>6. SUFFICES /\ Complete(b) <=> IsLast(grant)
                   /\ grant = 0 /\ estate = 4 => Answers(b) /\ b[4].v = etoken.d
        <3>1. IsLast(0) <=> estate = 4
            BY StbIs
        <3>2. Answered(writable) <=> answered
            BY <1>1, <1>6, <2>4, <2>5, <2>6, <3>1
        <3>3. Answered(writable) => Answers(b) /\ b[4].v = etoken.d
            BY <1>1, <2>6
        <3> HIDE DEF answered, got
        <3>4. ~fault'
            BY <1>4, <2>4, <3>2, <3>3, Zenon
        <3>5. wait' <=> wait /\ ~Answered(writable)
            BY <1>4, <3>2, Zenon
        <3>6. ret' = IF Answered(writable) THEN etoken.d ELSE ret
            BY <1>2, <3>2, <3>3
        <3>7. buf' = IF IsLast(grant) THEN << >> ELSE b
            BY <1>2, <1>6, <2>4, <2>6
        <3> QED
            BY <1>4, <1>6, <2>1, <3>4, <3>5, <3>6, <3>7 DEF b, got
    <2>7. FrameSize(b) = CASE grant = 0 -> 5
                          [] grant = 1 -> IF Len(b) < 2 THEN 2 ELSE b[2].v + 2
                          [] grant = 2 -> 4
        BY <1>1, <2>5 DEF FrameSize, BurstBytes, Sources
    <2>8. CASE grant = 0
        <3>1. n = estate /\ estate # -1 /\ FrameSize(b) = 5
            BY <1>1, <1>6, <2>7, <2>8 DEF IInv, FrameInv, n
        <3>2. Complete(b) <=> IsLast(grant)
            BY <2>2, <2>8, <3>1, StbIs DEF Complete, IInv, Types
        <3>3. ASSUME estate = 4
              PROVE  /\ b[2].v = etoken.wr /\ b[3].v = etoken.a /\ b[4].v = etoken.d
                     /\ b[5].v = etoken /\ etoken.wr = req.wr /\ etoken.a = req.a /\ wait
            BY <2>2, <2>8, <3>1, <3>3, AnswerIs DEF IInv, ContentInv, TokenInv, RequestInv, n
        <3>4. etoken = [wr |-> etoken.wr, a |-> etoken.a, d |-> etoken.d]
            BY DEF IInv, Types, Token
        <3> QED
            BY <3>2, <3>3, <3>4 DEF Answers
    <2>9. CASE grant = 1
        <3>1. regs["size"] \in Sizes /\ (n >= 1 => b[2].v = regs["size"])
            <4>1. n >= 2 => b[2].v = regs["size"]
                BY <1>1, <2>2, <2>9 DEF IInv, ContentInv, n
            <4>2. n = 1 => tstate = "SEND_SIZE"
                BY <1>1, <1>6, <2>9 DEF IInv, FrameInv, Types, n
            <4>3. n = 1 => b[2].v = regs["size"]
                BY <1>1, <2>2, <2>9, <4>2, TestIs DEF IInv
            <4> QED
                BY <1>1, <4>1, <4>3 DEF IInv, ProgramInv
        <3>2. FrameSize(b) = IF n = 0 THEN 2 ELSE regs["size"] + 2
            BY <1>1, <2>2, <2>7, <2>9, <3>1
        <3>3. Complete(b) <=> n = regs["size"] + 1
            BY <1>1, <2>2, <3>1, <3>2 DEF Complete, Sizes
        <3>4. IsLast(1) <=> n = regs["size"] + 1
            <4>1. bytecount \in Nat /\ regs["size"] \in Nat /\ regs["size"] >= 1
                BY <3>1, Constants DEF IInv, Types, Sizes
            <4>2. /\ tstate = "SEND_HEAD" => n = 0
                  /\ tstate = "SEND_SIZE" => n = 1
                  /\ tstate = "SEND_DATA" => n = bytecount + 2
                BY <1>1, <1>6, <2>9 DEF IInv, FrameInv, n
            <4>3. tstate \in {"SEND_HEAD", "SEND_SIZE", "SEND_DATA"}
                BY <1>1, <1>6, <2>9 DEF IInv, FrameInv, Types
            <4>4. IsLast(1) <=> tstate = "SEND_DATA" /\ bytecount + 1 = regs["size"]
                BY StbIs, Zenon DEF TestLast
            <4> QED
                BY <4>1, <4>2, <4>3, <4>4
        <3> QED
            BY <2>9, <3>3, <3>4
    <2>10. CASE grant = 2
        <3>1. n = spos /\ FrameSize(b) = 4
            BY <1>1, <1>6, <2>7, <2>10 DEF IInv, FrameInv, n
        <3> QED
            BY <2>2, <2>10, <3>1, StbIs DEF Complete, IInv, Types, BurstBytes
    <2> QED
        BY <1>1, <2>8, <2>9, <2>10 DEF Sources
<1> QED
    BY <1>5, <1>6
-----------------------------------------------------------------------------
(* What a clock does to the request: it is on its way, the access is made, *)
(* its completion waits for the encoder, the answer is sent.               *)

Waits ==
    /\ ~wait /\ ~wait'
    /\ UNCHANGED << left, dstate, dtoken, mstate, comp, regs, estate, etoken, ret >>

Arrives ==
    /\ wait /\ wait' /\ Asked /\ ~Access
    /\ UNCHANGED << mstate, comp, regs, estate, etoken, ret >>
    /\ \/ UNCHANGED << left, dstate, dtoken >>
       \/ /\ left > 0 /\ left' = left - 1
          /\ \/ dstate = "IDLE" /\ dstate' = "ADRH" /\ dtoken' = dtoken
             \/ dstate = "ADRH" /\ dstate' = "ADRL" /\ dtoken' = [dtoken EXCEPT !.wr = req.wr]
             \/ dstate = "ADRL" /\ dstate' = "DATA" /\ dtoken' = [dtoken EXCEPT !.a = req.a]
             \/ dstate = "DATA" /\ dstate' = "CKSUM" /\ dtoken' = [dtoken EXCEPT !.d = req.d]
             \/ dstate = "CKSUM" /\ dstate' = "ISSUE" /\ dtoken' = dtoken

Accessed ==
    /\ wait /\ wait' /\ Access
    /\ dstate' = "IDLE" /\ mstate' = "READ" /\ datR' = regs[dtoken.a]
    /\ comp' = [wr |-> dtoken.wr, a |-> dtoken.a, d |-> IF dtoken.wr THEN dtoken.d ELSE comp.d]
    /\ regs' = IF dtoken.wr THEN [regs EXCEPT ![dtoken.a] = dtoken.d] ELSE regs
    /\ UNCHANGED << left, dtoken, estate, etoken, ret >>

Sampled ==
    /\ wait /\ wait' /\ mstate = "READ" /\ mstate' = "WAIT"
    /\ comp' = IF comp.wr THEN comp ELSE [comp EXCEPT !.d = datR]
    /\ UNCHANGED << left, dstate, dtoken, regs, estate, etoken, ret >>

Handed ==
    /\ wait /\ wait' /\ mstate = "WAIT" /\ mstate' = "IDLE" /\ estate = -1 /\ estate' = 0
    /\ etoken' = comp
    /\ UNCHANGED << left, dstate, dtoken, comp, regs, ret >>

Sends(writable) ==
    /\ wait /\ estate # -1
    /\ UNCHANGED << left, dstate, dtoken, mstate, comp, regs, etoken >>
    /\ \/ ~Taken(0, writable) /\ wait' /\ estate' = estate /\ ret' = ret
       \/ Taken(0, writable) /\ estate # 4 /\ wait' /\ estate' = estate + 1 /\ ret' = ret
       \/ Taken(0, writable) /\ estate = 4 /\ ~wait' /\ estate' = -1 /\ ret' = etoken.d

Phase(writable) ==
    Waits \/ Arrives \/ Accessed \/ Sampled \/ Handed \/ Sends(writable)

LEMMA Phases ==
    ASSUME IInv, NEW readable \in BOOLEAN, NEW writable \in BOOLEAN, NEW start \in BOOLEAN,
           Clock(readable, writable, start)
    PROVE  /\ pc' = pc /\ req' = req /\ ssum' = etoken
           /\ Phase(writable)
           /\ ~Access => datR' = None
<1>1. /\ pc' = pc /\ req' = req /\ ssum' = etoken
      /\ ~Access => datR' = None
      /\ Receive(writable) /\ Decode(readable) /\ Master /\ Encode(writable)
    BY DEF Clock, Master, Encode
<1>2. /\ wait' \in BOOLEAN /\ (wait' <=> wait /\ ~(Taken(0, writable) /\ estate = 4))
      /\ ret' = IF Taken(0, writable) /\ estate = 4 THEN etoken.d ELSE ret
    BY <1>1, Received DEF Answered
<1>3. Taken(0, writable) => estate # -1
    BY TakenIs DEF IInv, FrameInv, Sources
\* The encoder.
<1>4. /\ mstate = "WAIT" /\ estate = -1 => estate' = 0 /\ etoken' = comp
      /\ ~(mstate = "WAIT" /\ estate = -1) => etoken' = etoken
      /\ ~(mstate = "WAIT" /\ estate = -1) /\ ~Taken(0, writable) => estate' = estate
      /\ Taken(0, writable) /\ estate = 4 => estate' = -1
      /\ Taken(0, writable) /\ estate # 4 => estate' = estate + 1
    BY <1>1, <1>3 DEF Encode, Completed
\* The decoder.
<1>5. /\ ~ByteIn(readable) => left' = left /\ dtoken' = dtoken
      /\ ~ByteIn(readable) /\ ~Access => dstate' = dstate
      /\ Access => dstate' = "IDLE" /\ left' = left /\ dtoken' = dtoken
    BY <1>1 DEF Decode, ByteIn, Access
<1>6. ASSUME ByteIn(readable)
      PROVE  /\ left > 0 /\ left' = left - 1
             /\ \/ dstate = "IDLE" /\ dstate' = "ADRH" /\ dtoken' = dtoken
                \/ dstate = "ADRH" /\ dstate' = "ADRL" /\ dtoken' = [dtoken EXCEPT !.wr = req.wr]
                \/ dstate = "ADRL" /\ dstate' = "DATA" /\ dtoken' = [dtoken EXCEPT !.a = req.a]
                \/ dstate = "DATA" /\ dstate' = "CKSUM" /\ dtoken' = [dtoken EXCEPT !.d = req.d]
                \/ dstate = "CKSUM" /\ dstate' = "ISSUE" /\ dtoken' = dtoken
    <2>1. left > 0 /\ left' = left - 1 /\ dstate # "ISSUE" /\ dstate' = DecodeNext
        BY <1>1, <1>6 DEF Decode, ByteIn
    <2>2. /\ dstate = "ADRH" => dtoken' = [dtoken EXCEPT !.wr = req.wr]
          /\ dstate = "ADRL" => dtoken' = [dtoken EXCEPT !.a = req.a]
          /\ dstate = "DATA" => dtoken' = [dtoken EXCEPT !.d = req.d]
          /\ dstate \in {"IDLE", "CKSUM"} => dtoken' = dtoken
        BY <1>1, <1>6 DEF Decode
    <2>3. /\ dstate = "IDLE" /\ left = 5 => DecodeNext = "ADRH"
          /\ dstate = "ADRH" => DecodeNext = "ADRL"
          /\ dstate = "ADRL" => DecodeNext = "DATA"
          /\ dstate = "DATA" => DecodeNext = "CKSUM"
          /\ dstate = "CKSUM" => DecodeNext = "ISSUE"
        BY DEF DecodeNext
    <2>4. dstate = "IDLE" => left = 5
        BY <2>1 DEF IInv, RequestInv
    <2> QED
        BY <2>1, <2>2, <2>3, <2>4 DEF IInv, Types
\* The master.
<1>7. /\ Access => /\ mstate' = "READ" /\ datR' = regs[dtoken.a]
                   /\ comp' = [wr |-> dtoken.wr, a |-> dtoken.a,
                               d |-> IF dtoken.wr THEN dtoken.d ELSE comp.d]
                   /\ regs' = IF dtoken.wr THEN [regs EXCEPT ![dtoken.a] = dtoken.d] ELSE regs
      /\ ~Access => regs' = regs
      /\ mstate = "READ" => /\ mstate' = "WAIT"
                            /\ comp' = IF comp.wr THEN comp ELSE [comp EXCEPT !.d = datR]
      /\ mstate = "WAIT" => comp' = comp
      /\ mstate = "WAIT" /\ estate = -1 => mstate' = "IDLE"
      /\ mstate = "IDLE" /\ ~Access => mstate' = "IDLE" /\ comp' = comp
    BY <1>1 DEF Master, Sample, Access, Completed
<1>8. /\ wait /\ Asked => mstate = "IDLE" /\ estate = -1
      /\ ~wait => ~Asked /\ mstate = "IDLE" /\ estate = -1
      /\ mstate # "IDLE" => estate = -1
      /\ wait /\ ~Asked => mstate # "IDLE" \/ estate # -1
      /\ ~Asked => left = 0 /\ dstate = "IDLE" /\ ~ByteIn(readable) /\ ~Access
      /\ mstate \in {"IDLE", "READ", "WAIT"}
    BY DEF IInv, RequestInv, Asked, Types, ByteIn, Access
<1>9. CASE ~wait
    BY <1>1, <1>2, <1>3, <1>4, <1>5, <1>7, <1>8, <1>9 DEF Phase, Waits
<1>10. CASE wait /\ Access
    <2>1. Asked
        BY <1>10 DEF Access, Asked
    <2> QED
        BY <1>1, <1>2, <1>3, <1>4, <1>5, <1>7, <1>8, <1>10, <2>1 DEF Phase, Accessed
<1>11. CASE wait /\ Asked /\ ~Access
    BY <1>1, <1>2, <1>3, <1>4, <1>5, <1>6, <1>7, <1>8, <1>11 DEF Phase, Arrives
<1>12. CASE wait /\ ~Asked /\ mstate = "READ"
    BY <1>1, <1>2, <1>3, <1>4, <1>5, <1>7, <1>8, <1>12 DEF Phase, Sampled
<1>13. CASE wait /\ ~Asked /\ mstate = "WAIT"
    BY <1>1, <1>2, <1>3, <1>4, <1>5, <1>7, <1>8, <1>13 DEF Phase, Handed
<1>14. CASE wait /\ ~Asked /\ mstate = "IDLE"
    BY <1>1, <1>2, <1>3, <1>4, <1>5, <1>7, <1>8, <1>14 DEF Phase, Sends
<1> QED
    BY <1>1, <1>8, <1>9, <1>10, <1>11, <1>12, <1>13, <1>14
\* Each of them leaves the request in one place, and a stage with what is asked.
LEMMA RequestNext ==
    ASSUME IInv, NEW writable \in BOOLEAN, Phase(writable),
           req' = req, ssum' = etoken, wait' \in BOOLEAN, ~Access => datR' = None
    PROVE  RequestInv' /\ TokenInv'
<1>1. /\ wait => req \in Ops /\ req.wr \in BOOLEAN /\ req.a \in Addrs /\ req.d \in Values
      /\ dtoken \in Token /\ comp \in Token /\ etoken \in Token /\ regs \in [Addrs -> Values]
      /\ left \in 0 .. 5 /\ estate \in -1 .. 4
    BY OpsAre DEF IInv, RequestInv, Types, Token
<1>2. /\ ~Asked => left = 0 /\ dstate = "IDLE" /\ ~Access
      /\ Asked => mstate = "IDLE" /\ estate = -1
      /\ ~wait => ~Asked /\ mstate = "IDLE" /\ estate = -1
    BY DEF IInv, RequestInv, Asked, Types, Access
<1>3. mstate # "IDLE" \/ estate # -1 => ~Asked
    BY <1>2
<1>4. CASE Waits
    <2>1. RequestInv'
        BY <1>2, <1>4 DEF Waits, IInv, RequestInv, Asked
    <2>2. TokenInv'
        BY <1>2, <1>4 DEF Waits, IInv, TokenInv, Asked
    <2> QED
        BY <2>1, <2>2
<1>5. CASE Arrives
    <2>1. /\ mstate' = "IDLE" /\ estate' = -1 /\ wait' /\ req' \in Ops
          BY <1>1, <1>2, <1>5 DEF Arrives
    <2>2. CASE UNCHANGED << left, dstate, dtoken >>
        <3>1. Asked'
            BY <1>5, <2>2 DEF Arrives, Asked
        <3> QED
            <4>1. left' = left /\ dstate' = dstate /\ dtoken' = dtoken
                BY <2>2
            <4>2. RequestInv'
                BY <2>1, <3>1, <4>1 DEF IInv, RequestInv
            <4>3. TokenInv'
                BY <2>1, <4>1 DEF IInv, TokenInv
            <4> QED
                BY <4>2, <4>3
    <2>3. CASE ~UNCHANGED << left, dstate, dtoken >>
        <3>1. Asked'
            BY <1>5, <2>3 DEF Arrives, Asked
        <3>2. /\ dstate = "IDLE" => left = IF left = 5 THEN 5 ELSE 0
              /\ dstate = "ADRH" => left = 4
              /\ dstate = "ADRL" => left = 3
              /\ dstate = "DATA" => left = 2
              /\ dstate = "CKSUM" => left = 1
            BY DEF IInv, RequestInv
        <3>3. /\ dstate' = "ADRH" => left' = 4
              /\ dstate' = "ADRL" => left' = 3
              /\ dstate' = "DATA" => left' = 2
              /\ dstate' = "CKSUM" => left' = 1
              /\ dstate' = "ISSUE" => left' = 0
              /\ dstate' \in {"ADRH", "ADRL", "DATA", "CKSUM", "ISSUE"}
            BY <1>1, <1>5, <2>3, <3>2 DEF Arrives
        <3>4. RequestInv'
            BY <2>1, <3>1, <3>3 DEF RequestInv
        <3>5. TokenInv'
            BY <1>1, <1>2, <1>5, <2>1, <2>3 DEF Arrives, IInv, TokenInv, Token
        <3> QED
            BY <3>4, <3>5
    <2> QED
        BY <2>2, <2>3
<1>6. CASE Accessed
    <2>1. dstate = "ISSUE" /\ mstate = "IDLE" /\ estate = -1 /\ left = 0
        BY <1>2, <1>6 DEF Accessed, Access, Asked, IInv, RequestInv
    <2>2. RequestInv'
        BY <1>1, <1>6, <2>1 DEF Accessed, IInv, RequestInv, Asked
    <2>3. dtoken.wr = req.wr /\ dtoken.a = req.a /\ dtoken.d = req.d
        BY <2>1 DEF IInv, TokenInv
    <2>4. /\ dstate' = "IDLE" /\ estate' = -1 /\ req' = req /\ comp'.wr = req.wr /\ comp'.a = req.a
          /\ datR' = regs[req.a]
        BY <1>6, <2>1, <2>3 DEF Accessed
    <2>5. regs[req.a] \in Values
        BY <1>1, <1>6 DEF Accessed
    <2> QED
        BY <2>2, <2>4, <2>5 DEF TokenInv
<1>7. CASE Sampled
    <2>1. ~Asked /\ left = 0 /\ dstate = "IDLE" /\ estate = -1
        BY <1>2, <1>3, <1>7 DEF Sampled, IInv, RequestInv
    <2>2. RequestInv'
        BY <1>1, <1>7, <2>1 DEF Sampled, IInv, RequestInv, Asked
    <2>3. comp'.wr = comp.wr /\ comp'.a = comp.a
        BY <1>1, <1>7 DEF Sampled, Token
    <2>4. TokenInv'
        BY <1>1, <1>7, <2>1, <2>3 DEF Sampled, IInv, TokenInv
    <2> QED
        BY <2>2, <2>4
<1>8. CASE Handed
    <2>1. ~Asked /\ left = 0 /\ dstate = "IDLE"
        BY <1>2, <1>3, <1>8 DEF Handed
    <2>2. RequestInv'
        BY <1>1, <1>8, <2>1 DEF Handed, IInv, RequestInv, Asked
    <2>3. TokenInv'
        BY <1>1, <1>8, <2>1 DEF Handed, IInv, TokenInv
    <2> QED
        BY <2>2, <2>3
<1>9. CASE Sends(writable)
    <2>1. ~Asked /\ left = 0 /\ dstate = "IDLE" /\ mstate = "IDLE"
        BY <1>2, <1>3, <1>9 DEF Sends, IInv, RequestInv
    <2>2. RequestInv'
        BY <1>1, <1>9, <2>1 DEF Sends, IInv, RequestInv, Asked
    <2>3. TokenInv'
        BY <1>1, <1>9, <2>1 DEF Sends, IInv, TokenInv
    <2> QED
        BY <2>2, <2>3
<1> QED
    BY <1>4, <1>5, <1>6, <1>7, <1>8, <1>9 DEF Phase

LEMMA RequestTypes ==
    ASSUME IInv, NEW writable \in BOOLEAN, Phase(writable), ~Access => datR' = None
    PROVE  /\ left' \in 0 .. 5 /\ estate' \in -1 .. 4
           /\ dstate' \in {"IDLE", "ADRH", "ADRL", "DATA", "CKSUM", "ISSUE"}
           /\ mstate' \in {"IDLE", "READ", "WAIT"}
           /\ dtoken' \in Token /\ comp' \in Token /\ etoken' \in Token
           /\ regs' \in [Addrs -> Values] /\ datR' \in Values \cup {None}
<1>1. /\ wait => req.wr \in BOOLEAN /\ req.a \in Addrs /\ req.d \in Values
      /\ dtoken \in Token /\ comp \in Token /\ etoken \in Token /\ regs \in [Addrs -> Values]
      /\ left \in 0 .. 5 /\ estate \in -1 .. 4
      /\ dstate \in {"IDLE", "ADRH", "ADRL", "DATA", "CKSUM", "ISSUE"}
      /\ mstate \in {"IDLE", "READ", "WAIT"}
    BY OpsAre DEF IInv, RequestInv, Types, Token
<1>2. left' \in 0 .. 5 /\ estate' \in -1 .. 4
    BY <1>1 DEF Phase, Waits, Arrives, Accessed, Sampled, Handed, Sends
<1>3. /\ dstate' \in {"IDLE", "ADRH", "ADRL", "DATA", "CKSUM", "ISSUE"}
      /\ mstate' \in {"IDLE", "READ", "WAIT"}
    BY <1>1 DEF Phase, Waits, Arrives, Accessed, Sampled, Handed, Sends
<1>4. dtoken' \in Token
    BY <1>1 DEF Phase, Waits, Arrives, Accessed, Sampled, Handed, Sends, Token
<1>5. etoken' \in Token
    BY <1>1 DEF Phase, Waits, Arrives, Accessed, Sampled, Handed, Sends
<1>6. comp' \in Token
    <2>1. CASE Accessed
        BY <1>1, <2>1 DEF Accessed, Token
    <2>2. CASE Sampled
        <3>1. ~comp.wr => datR \in Values
            BY <2>2 DEF Sampled, IInv, TokenInv
        <3> QED
            BY <1>1, <2>2, <3>1 DEF Sampled, Token
    <2> QED
        BY <1>1, <2>1, <2>2 DEF Phase, Waits, Arrives, Handed, Sends
<1>7. regs' \in [Addrs -> Values] /\ datR' \in Values \cup {None}
    <2>1. dtoken.a \in Addrs /\ dtoken.d \in Values
        BY <1>1 DEF Token
    <2>2. CASE Accessed
        BY <1>1, <2>1, <2>2 DEF Accessed
    <2>3. Access => Accessed
        <3>1. Access => Asked /\ wait /\ mstate = "IDLE" /\ estate = -1
            BY DEF Access, Asked, IInv, RequestInv
        <3> QED
            BY <3>1 DEF Phase, Waits, Arrives, Sampled, Handed, Sends
    <2> QED
        BY <1>1, <2>2, <2>3 DEF Phase, Waits, Arrives, Sampled, Handed, Sends
<1> QED
    BY <1>2, <1>3, <1>4, <1>5, <1>6, <1>7
-----------------------------------------------------------------------------
(* What a clock does to the stream: the grant moves, or stays where it is; *)
(* a byte of the source granted is taken, or none.                         *)

LEMMA Interleaved ==
    ASSUME IInv, NEW writable \in BOOLEAN, Interleave(writable)
    PROVE  /\ grant' \in Sources /\ released' \in BOOLEAN
           /\ ~released => grant' = grant /\ (released' <=> writable /\ IsLast(grant))
           /\ released /\ (Stb(0) \/ Stb(1) \/ Stb(2)) =>
                  ~released' /\ Stb(grant') /\ (grant = 0 /\ Stb(1) => grant' = 1)
           /\ released /\ ~(Stb(0) \/ Stb(1) \/ Stb(2)) => released' /\ grant' = grant
<1>1. grant \in Sources /\ released \in BOOLEAN
    BY DEF IInv, Types
<1>2. Taken(grant, writable) <=> writable /\ ~released
    BY <1>1, TakenIs DEF IInv
<1>3. /\ GrantMoves => grant' = NextGrant /\ released' = FALSE
      /\ ~GrantMoves => grant' = grant
      /\ ~GrantMoves /\ Taken(grant, writable) /\ IsLast(grant) => released' = TRUE
      /\ ~GrantMoves /\ ~(Taken(grant, writable) /\ IsLast(grant)) => released' = released
    <2>1. /\ GrantMoves => grant' = NextGrant
          /\ ~GrantMoves => grant' = grant
        BY DEF Interleave
    <2>2. GrantMoves => released' = FALSE
        <3> DEFINE last == Taken(grant, writable) /\ IsLast(grant)
        <3>1. released' = CASE GrantMoves -> FALSE [] last -> TRUE [] OTHER -> released
            BY DEF Interleave
        <3>2. GrantMoves => ~last
            BY DEF Taken
        <3> HIDE DEF last
        <3> QED
            BY <3>1, <3>2, Zenon
    <2>3. ~GrantMoves /\ Taken(grant, writable) /\ IsLast(grant) => released' = TRUE
        BY Zenon DEF Interleave
    <2>4. ~GrantMoves /\ ~(Taken(grant, writable) /\ IsLast(grant)) => released' = released
        BY Zenon DEF Interleave
    <2> QED
        BY <2>1, <2>2, <2>3, <2>4
<1>4. /\ GrantMoves <=> released /\ (Stb(0) \/ Stb(1) \/ Stb(2))
      /\ GrantMoves => NextGrant \in Sources /\ Stb(NextGrant)
      /\ grant = 0 /\ Stb(1) => NextGrant = 1
    BY GrantIs DEF IInv
<1>5. GrantMoves => Stb(grant')
    BY <1>3, <1>4
<1>6. CASE GrantMoves
    BY <1>3, <1>4, <1>5, <1>6
<1>7. CASE ~GrantMoves
    <2>1. grant' = grant
        BY <1>3, <1>7
    <2>2. CASE released
        <3>1. released' = released /\ ~(Stb(0) \/ Stb(1) \/ Stb(2))
            BY <1>2, <1>3, <1>4, <1>7, <2>2
        <3> QED
            BY <1>1, <2>1, <2>2, <3>1
    <2>3. CASE ~released
        <3>1. Taken(grant, writable) <=> writable
            BY <1>2, <2>3
        <3>2. writable /\ IsLast(grant) => released' = TRUE
            BY <1>3, <1>7, <3>1
        <3>3. ~(writable /\ IsLast(grant)) => released' = FALSE
            BY <1>1, <1>3, <1>7, <2>3, <3>1
        <3> QED
            BY <1>1, <2>1, <2>3, <3>2, <3>3
    <2> QED
        BY <2>2, <2>3
<1> QED
    BY <1>6, <1>7

\* The generator of test packets and the capture.
LEMMA TestStep ==
    ASSUME IInv, NEW writable \in BOOLEAN, RandTest(writable)
    PROVE  /\ tstate = "IDLE" =>
                  tstate' = (IF regs["cfg"] = 1 THEN "SEND_HEAD" ELSE "IDLE") /\ bytecount' = bytecount
           /\ tstate # "IDLE" /\ ~Taken(1, writable) => tstate' = tstate /\ bytecount' = bytecount
           /\ tstate = "SEND_HEAD" /\ Taken(1, writable) =>
                  tstate' = "SEND_SIZE" /\ bytecount' = bytecount
           /\ tstate = "SEND_SIZE" /\ Taken(1, writable) => tstate' = "SEND_DATA" /\ bytecount' = 0
           /\ tstate = "SEND_DATA" /\ Taken(1, writable) =>
                  /\ tstate' = IF bytecount + 1 = regs["size"] THEN "IDLE" ELSE "SEND_DATA"
                  /\ bytecount' = bytecount + 1 /\ bytecount < regs["size"]
           /\ tstate' \in {"IDLE", "SEND_HEAD", "SEND_SIZE", "SEND_DATA"}
           /\ bytecount' \in 0 .. MaxSize
<1>1. tstate = "IDLE" => ~Taken(1, writable)
    BY TakenIs DEF IInv, FrameInv, Sources
<1>2. regs["cfg"] % 2 = 1 <=> regs["cfg"] = 1
    BY DEF IInv, ProgramInv
<1>3. /\ tstate = "SEND_DATA" => bytecount < regs["size"]
      /\ bytecount \in 0 .. MaxSize /\ regs["size"] \in Sizes
      /\ tstate \in {"IDLE", "SEND_HEAD", "SEND_SIZE", "SEND_DATA"}
    BY DEF IInv, ProgramInv, Types
<1>4. tstate = "SEND_DATA" => (bytecount + 1) % 256 = bytecount + 1 /\ bytecount + 1 \in 0 .. MaxSize
    BY <1>3, Constants DEF Sizes
<1>5. /\ tstate = "IDLE" => tstate' = IF regs["cfg"] % 2 = 1 THEN "SEND_HEAD" ELSE "IDLE"
      /\ tstate # "IDLE" /\ ~Taken(1, writable) => tstate' = tstate
      /\ tstate = "SEND_HEAD" /\ Taken(1, writable) => tstate' = "SEND_SIZE"
      /\ tstate = "SEND_SIZE" /\ Taken(1, writable) => tstate' = "SEND_DATA"
      /\ tstate = "SEND_DATA" /\ Taken(1, writable) =>
             tstate' = IF bytecount + 1 = regs["size"] THEN "IDLE" ELSE tstate
    BY DEF RandTest, TestLast
<1>6. /\ ~Taken(1, writable) => bytecount' = bytecount
      /\ tstate = "SEND_HEAD" => bytecount' = bytecount
      /\ tstate = "SEND_SIZE" /\ Taken(1, writable) => bytecount' = 0
      /\ tstate = "SEND_DATA" /\ Taken(1, writable) => bytecount' = (bytecount + 1) % 256
    BY DEF RandTest
<1>7. CASE tstate = "IDLE"
    BY <1>1, <1>2, <1>3, <1>5, <1>6, <1>7
<1>8. CASE tstate # "IDLE" /\ ~Taken(1, writable)
    BY <1>3, <1>5, <1>6, <1>8
<1>9. CASE tstate \in {"SEND_HEAD", "SEND_SIZE"} /\ Taken(1, writable)
    BY <1>3, <1>5, <1>6, <1>9, Constants DEF Sizes
<1>10. CASE tstate = "SEND_DATA" /\ Taken(1, writable)
    BY <1>3, <1>4, <1>5, <1>6, <1>10
<1> QED
    BY <1>3, <1>7, <1>8, <1>9, <1>10

LEMMA BurstStep ==
    ASSUME IInv, NEW writable \in BOOLEAN, NEW start \in BOOLEAN, Capture(start, writable)
    PROVE  /\ spos = -1 => spos' \in {-1, 0}
           /\ spos # -1 /\ ~Taken(2, writable) => spos' = spos
           /\ spos # -1 /\ Taken(2, writable) => spos' = IF spos = 3 THEN -1 ELSE spos + 1
           /\ spos' \in -1 .. 3
<1>1. spos \in -1 .. 3
    BY DEF IInv, Types, BurstBytes
<1>2. /\ spos = -1 => spos' \in {-1, 0}
      /\ spos # -1 /\ ~Taken(2, writable) => spos' = spos
      /\ spos # -1 /\ Taken(2, writable) => spos' = IF spos = 3 THEN -1 ELSE spos + 1
    BY DEF Capture, BurstBytes
<1> QED
    BY <1>1, <1>2

LEMMA AnswerStep ==
    ASSUME IInv, NEW writable \in BOOLEAN, Phase(writable)
    PROVE  /\ estate = -1 => estate' \in {-1, 0}
           /\ estate # -1 /\ ~Taken(0, writable) => estate' = estate
           /\ estate # -1 /\ Taken(0, writable) => estate' = IF estate = 4 THEN -1 ELSE estate + 1
           /\ estate # -1 => etoken' = etoken
<1>1. /\ estate # -1 => wait /\ mstate = "IDLE" /\ ~Asked
      /\ wait \in BOOLEAN
    BY DEF IInv, RequestInv, Types
<1>2. CASE Sends(writable)
    BY <1>2 DEF Sends
<1>3. estate # -1 => Sends(writable)
    BY <1>1 DEF Phase, Waits, Arrives, Accessed, Sampled, Handed, Access, Asked
<1>4. estate = -1 => estate' \in {-1, 0}
    BY DEF Phase, Waits, Arrives, Accessed, Sampled, Handed, Sends
<1> QED
    BY <1>2, <1>3, <1>4

\* The registers that the stream depends on do not change under it.
LEMMA SizeKept ==
    ASSUME IInv, NEW writable \in BOOLEAN, Phase(writable), tstate # "IDLE"
    PROVE  regs'["size"] = regs["size"]
<1>1. CASE Accessed /\ dtoken.wr /\ dtoken.a = "size"
    <2>1. wait /\ Asked /\ req.wr /\ req.a = "size"
        BY <1>1 DEF Accessed, Access, Asked, IInv, TokenInv
    <2>2. req \notin Extra /\ req # Write("cfg", 0) /\ req # Write("cfg", 1)
        BY <2>1, Distinct
    <2>3. pc = "start"
        BY <2>1, <2>2 DEF IInv, ProgramInv
    <2> QED
        BY <2>3 DEF IInv, ProgramInv, Stopped
<1>2. CASE Accessed /\ ~(dtoken.wr /\ dtoken.a = "size")
    <2>1. regs \in [Addrs -> Values] /\ "size" \in Addrs
        BY DEF IInv, Types, Addrs
    <2> QED
        BY <1>2, <2>1 DEF Accessed
<1> QED
    BY <1>1, <1>2 DEF Phase, Waits, Arrives, Sampled, Handed, Sends

\* The host has what the source granted has sent, before and after.
LEMMA FrameNext ==
    ASSUME IInv, NEW readable \in BOOLEAN, NEW writable \in BOOLEAN, NEW start \in BOOLEAN,
           Clock(readable, writable, start)
    PROVE  BufType' /\ FrameInv' /\ ContentInv'
<1>1. /\ Receive(writable) /\ Interleave(writable) /\ RandTest(writable) /\ Capture(start, writable)
      /\ Phase(writable)
    BY Phases DEF Clock
<1> DEFINE t0 == Taken(0, writable)
           t1 == Taken(1, writable)
           t2 == Taken(2, writable)
           last == IsLast(grant)
<1>2. /\ t0 <=> writable /\ ~released /\ grant = 0
      /\ t1 <=> writable /\ ~released /\ grant = 1
      /\ t2 <=> writable /\ ~released /\ grant = 2
      /\ Taken(grant, writable) <=> writable /\ ~released
      /\ grant \in 0 .. 2 /\ released \in BOOLEAN
    BY TakenIs DEF IInv, Types, Sources
<1>3. /\ ~(writable /\ ~released) => buf' = buf
      /\ writable /\ ~released /\ last => buf' = << >>
      /\ writable /\ ~released /\ ~last => buf' = Append(buf, Byte(grant))
      /\ writable /\ ~released => Byte(grant) \in Bytes /\ Byte(grant).s = grant
    BY <1>1, <1>2, Received
<1>4. /\ grant' \in 0 .. 2 /\ released' \in BOOLEAN
      /\ ~released => grant' = grant /\ (released' <=> writable /\ last)
      /\ released /\ ~released' => Stb(grant')
    BY <1>1, Interleaved DEF Sources
\* The sources.
<1>5. /\ estate = -1 => estate' \in {-1, 0}
      /\ estate # -1 /\ ~t0 => estate' = estate
      /\ estate # -1 /\ t0 => estate' = IF estate = 4 THEN -1 ELSE estate + 1
      /\ estate # -1 => etoken' = etoken
      /\ estate \in -1 .. 4
    BY <1>1, AnswerStep DEF IInv, Types
<1>6. /\ tstate = "IDLE" => tstate' \in {"IDLE", "SEND_HEAD"}
      /\ tstate # "IDLE" /\ ~t1 => tstate' = tstate /\ bytecount' = bytecount
      /\ tstate = "SEND_HEAD" /\ t1 => tstate' = "SEND_SIZE"
      /\ tstate = "SEND_SIZE" /\ t1 => tstate' = "SEND_DATA" /\ bytecount' = 0
      /\ tstate = "SEND_DATA" /\ t1 =>
             /\ tstate' = IF bytecount + 1 = regs["size"] THEN "IDLE" ELSE "SEND_DATA"
             /\ bytecount' = bytecount + 1
      /\ tstate \in {"IDLE", "SEND_HEAD", "SEND_SIZE", "SEND_DATA"} /\ bytecount \in Nat
    BY <1>1, TestStep DEF IInv, Types
<1>7. /\ spos = -1 => spos' \in {-1, 0}
      /\ spos # -1 /\ ~t2 => spos' = spos
      /\ spos # -1 /\ t2 => spos' = IF spos = 3 THEN -1 ELSE spos + 1
      /\ spos \in -1 .. 3
    BY <1>1, BurstStep DEF IInv, Types, BurstBytes
<1>8. /\ grant = 0 => (last <=> estate = 4)
      /\ grant = 1 => (last <=> tstate = "SEND_DATA" /\ bytecount + 1 = regs["size"])
      /\ grant = 2 => (last <=> spos = 3)
    BY StbIs DEF TestLast, BurstBytes
<1>9. /\ grant' = 0 => (Stb(grant') <=> estate # -1)
      /\ grant' = 1 => (Stb(grant') <=> tstate # "IDLE")
      /\ grant' = 2 => (Stb(grant') <=> spos # -1)
    BY StbIs
<1>10. Len(buf) \in Nat /\ buf \in Seq(Bytes)
    BY LenProperties DEF IInv, BufType
<1> HIDE DEF t0, t1, t2, last
<1>11. CASE released
    <2>1. /\ buf = << >> /\ estate \in {-1, 0} /\ tstate \in {"IDLE", "SEND_HEAD"} /\ spos \in {-1, 0}
        BY <1>11 DEF IInv, FrameInv
    <2>2. /\ buf' = << >> /\ estate' \in {-1, 0} /\ tstate' \in {"IDLE", "SEND_HEAD"}
          /\ spos' \in {-1, 0}
          /\ estate = 0 => estate' = 0
          /\ tstate = "SEND_HEAD" => tstate' = "SEND_HEAD"
          /\ spos = 0 => spos' = 0
        BY <1>2, <1>3, <1>5, <1>6, <1>7, <1>11, <2>1
    <2>3. Len(buf') = 0 /\ buf' \in Seq(Bytes)
        BY <2>2, EmptySeq
    <2>4. ~released' => /\ grant' = 0 => estate' = 0
                        /\ grant' = 1 => tstate' = "SEND_HEAD"
                        /\ grant' = 2 => spos' = 0
        BY <1>4, <1>9, <1>11, <2>1, <2>2
    <2>5. FrameInv'
        BY <2>2, <2>3, <2>4 DEF FrameInv
    <2>6. ContentInv'
        BY <2>3 DEF ContentInv
    <2> QED
        BY <2>3, <2>5, <2>6 DEF BufType
<1>12. CASE ~released /\ ~writable
    <2>1. buf' = buf /\ grant' = grant /\ released' = released
        BY <1>2, <1>3, <1>4, <1>12
    <2>2. /\ grant = 0 => estate # -1 /\ estate' = estate /\ etoken' = etoken
          /\ grant = 1 => tstate # "IDLE" /\ tstate' = tstate /\ bytecount' = bytecount
          /\ grant = 2 => spos # -1 /\ spos' = spos
          /\ grant # 0 => estate' \in {-1, 0}
          /\ grant # 1 => tstate' \in {"IDLE", "SEND_HEAD"}
          /\ grant # 2 => spos' \in {-1, 0}
        BY <1>2, <1>5, <1>6, <1>7, <1>12 DEF IInv, FrameInv
    <2>3. grant = 1 => regs'["size"] = regs["size"]
        BY <1>1, <2>2, SizeKept
    <2>4. FrameInv'
        BY <1>12, <2>1, <2>2 DEF IInv, FrameInv
    <2>5. ContentInv'
        BY <2>1, <2>2, <2>3 DEF IInv, ContentInv
    <2> QED
        BY <1>10, <2>1, <2>4, <2>5 DEF BufType
<1>13. CASE ~released /\ writable /\ last
    <2>1. buf' = << >> /\ released' /\ grant' = grant
        BY <1>2, <1>3, <1>4, <1>13
    <2>2. estate' \in {-1, 0} /\ tstate' \in {"IDLE", "SEND_HEAD"} /\ spos' \in {-1, 0}
        BY <1>2, <1>5, <1>6, <1>7, <1>8, <1>13 DEF IInv, FrameInv
    <2>3. Len(buf') = 0 /\ buf' \in Seq(Bytes)
        BY <2>1, EmptySeq
    <2>4. FrameInv'
        BY <2>1, <2>2 DEF FrameInv
    <2>5. ContentInv'
        BY <2>3 DEF ContentInv
    <2> QED
        BY <2>3, <2>4, <2>5 DEF BufType
<1>14. CASE ~released /\ writable /\ ~last
    <2> DEFINE n == Len(buf)
    <2>1. grant' = grant /\ ~released' /\ buf' = Append(buf, Byte(grant))
        BY <1>2, <1>3, <1>4, <1>14
    <2>2. /\ buf' \in Seq(Bytes) /\ Len(buf') = n + 1 /\ buf'[n + 1] = Byte(grant)
          /\ \A k \in 1 .. n : buf'[k] = buf[k]
        BY <1>3, <1>10, <1>14, <2>1, AppendProperties
    <2>3. /\ grant = 0 => /\ estate # -1 /\ estate # 4 /\ n = estate /\ estate' = n + 1
                          /\ etoken' = etoken
          /\ grant = 1 => /\ tstate # "IDLE"
                          /\ tstate = "SEND_HEAD" => n = 0 /\ tstate' = "SEND_SIZE"
                          /\ tstate = "SEND_SIZE" => n = 1 /\ tstate' = "SEND_DATA" /\ bytecount' = 0
                          /\ tstate = "SEND_DATA" => /\ n = bytecount + 2 /\ tstate' = "SEND_DATA"
                                                     /\ bytecount' = bytecount + 1
          /\ grant = 2 => spos # -1 /\ spos # 3 /\ n = spos /\ spos' = n + 1
        BY <1>2, <1>5, <1>6, <1>7, <1>8, <1>14 DEF IInv, FrameInv
    <2>4. /\ grant # 0 => estate' \in {-1, 0}
          /\ grant # 1 => tstate' \in {"IDLE", "SEND_HEAD"}
          /\ grant # 2 => spos' \in {-1, 0}
        BY <1>2, <1>5, <1>6, <1>7, <1>14 DEF IInv, FrameInv
    <2> HIDE DEF n
    <2>5. FrameInv'
        BY <1>2, <1>5, <1>6, <1>7, <2>1, <2>2, <2>3, <2>4 DEF FrameInv
    <2>6. n \in Nat /\ buf'[n + 1].s = grant /\ (n = 0 => buf'[1].n = 0)
        <3>1. n \in Nat /\ buf'[n + 1].s = grant
            BY <1>3, <1>10, <1>14, <2>2 DEF n
        <3>2. n = 0 => Byte(grant).n = 0
            <4>1. CASE grant = 0
                BY <2>3, <4>1, AnswerIs DEF IInv
            <4>2. CASE grant = 1
                <5>1. n = 0 => tstate = "SEND_HEAD"
                    BY <1>6, <2>3, <4>2
                <5> QED
                    BY <2>3, <4>2, <5>1, TestIs DEF IInv
            <4>3. CASE grant = 2
                BY <2>3, <4>3, BurstIs DEF IInv
            <4> QED
                BY <1>2, <4>1, <4>2, <4>3
        <3> QED
            BY <2>2, <3>1, <3>2
    <2>7. (\A k \in 1 .. n + 1 : buf'[k].s = grant) /\ buf'[1].n = 0
        BY <2>2, <2>6 DEF IInv, ContentInv, n
    <2>8. ASSUME grant = 0
          PROVE  /\ n + 1 >= 2 => buf'[2].v = etoken.wr
                 /\ n + 1 >= 3 => buf'[3].v = etoken.a
                 /\ n + 1 >= 4 => buf'[4].v = etoken.d
        <3>1. /\ n = 1 => buf'[2].v = etoken.wr
              /\ n = 2 => buf'[3].v = etoken.a
              /\ n = 3 => buf'[4].v = etoken.d
            BY <2>2, <2>3, <2>8, AnswerIs DEF IInv
        <3> QED
            <4>1. /\ n >= 2 => buf[2].v = etoken.wr
                  /\ n >= 3 => buf[3].v = etoken.a
                  /\ n >= 4 => buf[4].v = etoken.d
                BY <2>8 DEF IInv, ContentInv, n
            <4>2. /\ n >= 2 => buf'[2] = buf[2]
                  /\ n >= 3 => buf'[3] = buf[3]
                  /\ n >= 4 => buf'[4] = buf[4]
                BY <2>2, <2>6
            <4> QED
                BY <2>6, <3>1, <4>1, <4>2
    <2>9. ASSUME grant = 1
          PROVE  /\ n + 1 >= 2 => buf'[2].v = regs["size"]
                 /\ regs'["size"] = regs["size"]
        <3>1. n = 1 => tstate = "SEND_SIZE"
            BY <1>6, <2>3, <2>9
        <3>2. n = 1 => buf'[2].v = regs["size"]
            BY <2>2, <2>3, <2>9, <3>1, TestIs DEF IInv
        <3>3. regs'["size"] = regs["size"]
            BY <1>1, <2>3, <2>9, SizeKept
        <3> QED
            <4>1. n >= 2 => buf[2].v = regs["size"]
                BY <2>9 DEF IInv, ContentInv, n
            <4>2. n >= 2 => buf'[2] = buf[2]
                BY <2>2, <2>6
            <4> QED
                BY <2>6, <3>2, <3>3, <4>1, <4>2
    <2>10. ContentInv'
        BY <2>1, <2>2, <2>3, <2>6, <2>7, <2>8, <2>9 DEF ContentInv
    <2> QED
        BY <2>2, <2>5, <2>10 DEF BufType
<1> QED
    BY <1>2, <1>11, <1>12, <1>13, <1>14
-----------------------------------------------------------------------------
(* What the program relies on: with the generator stopped, a packet under  *)
(* way goes before the next answer, so none is left when that has come.    *)

\* A register changes by an access of its own.
LEMMA RegsStep ==
    ASSUME IInv, NEW writable \in BOOLEAN, Phase(writable)
    PROVE  /\ Accessed => wait /\ Asked
           /\ Accessed /\ req = Write("cfg", 0) => regs'["cfg"] = 0
           /\ regs'["cfg"] # regs["cfg"] =>
                  Accessed /\ \E d \in {0, 1} : req = Write("cfg", d) /\ regs'["cfg"] = d
           /\ regs'["cfg"] \in {0, 1} /\ regs'["size"] \in Sizes
<1>1. /\ regs["cfg"] \in {0, 1} /\ regs["size"] \in Sizes
      /\ regs \in [Addrs -> Values] /\ "size" \in Addrs /\ "cfg" \in Addrs
    BY DEF IInv, Types, ProgramInv, Addrs
<1>2. ASSUME Accessed
      PROVE  /\ wait /\ Asked
             /\ req.wr => regs' = [regs EXCEPT ![req.a] = req.d]
             /\ ~req.wr => regs' = regs
    BY <1>2 DEF Accessed, Access, Asked, IInv, TokenInv
<1>3. wait => \/ req.wr => req.a = "led"
              \/ req.wr /\ req.a = "size" /\ req.d \in Sizes
              \/ \E d \in {0, 1} : req = Write("cfg", d) /\ req.wr /\ req.a = "cfg" /\ req.d = d
    BY Distinct DEF IInv, ProgramInv
<1>4. CASE Accessed
    <2>1. CASE req.wr => req.a = "led"
        BY <1>1, <1>2, <1>4, <2>1, Distinct
    <2>2. CASE req.wr /\ req.a = "size" /\ req.d \in Sizes
        BY <1>1, <1>2, <1>4, <2>2, Distinct
    <2>3. CASE \E d \in {0, 1} : req = Write("cfg", d) /\ req.wr /\ req.a = "cfg" /\ req.d = d
        <3>1. PICK d \in {0, 1} :
                  req = Write("cfg", d) /\ req.wr /\ req.a = "cfg" /\ req.d = d
            BY <2>3
        <3>2. regs' = [regs EXCEPT !["cfg"] = d]
            BY <1>2, <1>4, <3>1
        <3>3. regs'["cfg"] = d /\ regs'["size"] = regs["size"]
            BY <1>1, <3>2
        <3>4. req = Write("cfg", 0) => d = 0
            BY <3>1, Distinct
        <3> QED
            BY <1>1, <1>2, <1>4, <3>1, <3>3, <3>4
    <2> QED
        BY <1>2, <1>3, <1>4, <2>1, <2>2, <2>3
<1>5. CASE ~Accessed
    <2>1. regs' = regs
        BY <1>5 DEF Phase, Waits, Arrives, Sampled, Handed, Sends
    <2> QED
        BY <1>1, <1>5, <2>1
<1> QED
    BY <1>4, <1>5

\* Stopped, the generator stays stopped; and a packet keeps its turn.
LEMMA TurnKept ==
    ASSUME IInv, NEW writable \in BOOLEAN, RandTest(writable), Interleave(writable),
           regs["cfg"] = 0
    PROVE  /\ tstate = "IDLE" => tstate' = "IDLE"
           /\ GoesNext => GoesNext'
<1>1. tstate = "IDLE" => tstate' = "IDLE"
    BY TestStep
<1>2. ASSUME tstate # "IDLE", grant = 0, released
      PROVE  grant' = 1 /\ ~released'
    BY <1>2, Interleaved, StbIs
<1>3. ASSUME tstate # "IDLE", grant = 1, ~released
      PROVE  grant' = 1 /\ (released' => tstate' = "IDLE")
    <2>1. grant' = 1 /\ (released' <=> writable /\ IsLast(1))
        BY <1>3, Interleaved
    <2>2. IsLast(1) => tstate = "SEND_DATA" /\ bytecount + 1 = regs["size"]
        BY StbIs DEF TestLast
    <2>3. Taken(1, writable) <=> writable
        BY <1>3, TakenIs DEF IInv, Sources
    <2> QED
        BY <2>1, <2>2, <2>3, TestStep
<1> QED
    BY <1>1, <1>2, <1>3 DEF GoesNext

LEMMA ProgramClock ==
    ASSUME IInv, NEW readable \in BOOLEAN, NEW writable \in BOOLEAN, NEW start \in BOOLEAN,
           Clock(readable, writable, start)
    PROVE  ProgramInv'
<1>1. /\ pc' = pc /\ req' = req /\ Phase(writable)
      /\ RandTest(writable) /\ Interleave(writable)
    BY Phases DEF Clock
<1>2. regs'["cfg"] \in {0, 1} /\ regs'["size"] \in Sizes
    BY <1>1, RegsStep
<1>3. wait' => wait
    BY <1>1 DEF Phase, Waits, Arrives, Accessed, Sampled, Handed, Sends
<1>4. wait /\ Asked' => Arrives
    <2>1. ~Asked => dstate = "IDLE" /\ left = 0
        BY DEF IInv, RequestInv, Asked, Types
    <2>2. mstate # "IDLE" \/ estate # -1 => ~Asked
        BY DEF IInv, RequestInv
    <2>3. Access => left = 0
        BY DEF Access, IInv, RequestInv
    <2> QED
        BY <1>1, <2>1, <2>2, <2>3 DEF Phase, Waits, Accessed, Sampled, Handed, Sends, Asked
<1>5. Arrives => Asked /\ regs' = regs /\ wait'
    BY DEF Arrives
<1>6. tstate' = "SEND_DATA" => bytecount' < regs'["size"]
    <2>1. CASE tstate = "IDLE"
        BY <1>1, <2>1, TestStep
    <2>2. CASE tstate # "IDLE"
        <3>1. /\ regs'["size"] = regs["size"] /\ regs["size"] \in Nat /\ regs["size"] >= 1
              /\ bytecount \in Nat
              /\ tstate \in {"SEND_HEAD", "SEND_SIZE", "SEND_DATA"}
              /\ tstate = "SEND_DATA" => bytecount < regs["size"]
            BY <1>1, <2>2, SizeKept, Constants DEF IInv, Types, ProgramInv, Sizes
        <3> QED
            BY <1>1, <2>2, <3>1, TestStep
    <2> QED
        BY <2>1, <2>2
<1>7. Stopped /\ (regs'["cfg"] = regs["cfg"] \/ regs'["cfg"] = 0) => Stopped'
    BY <1>1, TurnKept DEF Stopped
<1>8. Write("cfg", 0) # Write("cfg", 1)
    BY Distinct
<1>9. wait /\ req # Write("cfg", 1) => regs'["cfg"] = regs["cfg"] \/ regs'["cfg"] = 0
    BY <1>1, RegsStep
<1>10. ~wait => regs'["cfg"] = regs["cfg"]
    BY <1>1, RegsStep
<1>11. wait' /\ Asked' /\ req' = Write("cfg", 1) => Stopped'
    BY <1>1, <1>3, <1>4, <1>5, <1>7 DEF IInv, ProgramInv
<1>12. pc \in {"start", "stop2", "size"} /\ wait => req # Write("cfg", 1)
    BY <1>8, Distinct DEF IInv, ProgramInv
<1>13. pc \in {"start", "stop2", "size"} => regs'["cfg"] = regs["cfg"] \/ regs'["cfg"] = 0
    BY <1>9, <1>10, <1>12
<1>14. pc = "start" => Stopped'
    BY <1>7, <1>13 DEF IInv, ProgramInv
\* An answer that ends leaves the stream to the generator.
<1>15. wait /\ ~wait' => /\ grant = 0 /\ ~released /\ grant' = 0 /\ released'
                        /\ regs' = regs
    <2>1. wait /\ ~wait' => Taken(0, writable) /\ estate = 4 /\ regs' = regs
        BY <1>1 DEF Phase, Waits, Arrives, Accessed, Sampled, Handed, Sends
    <2>2. Taken(0, writable) => writable /\ ~released /\ grant = 0
        BY TakenIs DEF IInv, Sources
    <2> QED
        BY <1>1, <2>1, <2>2, StbIs, Interleaved
<1>16. pc = "stop2" => \/ wait' /\ req = Write("cfg", 0) /\ (Asked' \/ regs'["cfg"] = 0)
                       \/ GoesNext' /\ regs'["cfg"] = 0
    <2>1. CASE pc = "stop2" /\ wait /\ req = Write("cfg", 0) /\ (Asked \/ regs["cfg"] = 0)
        <3>1. CASE Asked /\ ~Accessed
            <4>1. Asked' /\ wait'
                <5>1. mstate = "IDLE" /\ estate = -1
                    BY <3>1 DEF IInv, RequestInv
                <5>2. Arrives
                    BY <1>1, <2>1, <3>1, <5>1 DEF Phase, Waits, Sampled, Handed, Sends
                <5> QED
                    BY <3>1, <5>2 DEF Arrives, Asked
            <4> QED
                BY <2>1, <4>1
        <3>2. CASE Accessed
            BY <1>1, <2>1, <3>2, RegsStep DEF Accessed
        <3>3. CASE ~Asked
            <4>1. regs'["cfg"] = 0
                BY <1>13, <2>1, <3>3
            <4>2. CASE wait'
                BY <2>1, <4>1, <4>2
            <4>3. CASE ~wait'
                BY <1>15, <2>1, <4>1, <4>3 DEF GoesNext
            <4> QED
                BY <4>2, <4>3
        <3> QED
            BY <3>1, <3>2, <3>3
    <2>2. CASE pc = "stop2" /\ GoesNext /\ regs["cfg"] = 0
        BY <1>1, <1>13, <2>2, TurnKept
    <2> QED
        BY <2>1, <2>2 DEF IInv, ProgramInv
<1>17. pc = "size" => \/ Stopped'
                      \/ wait' /\ req = Write("cfg", 0) /\ GoesNext' /\ regs'["cfg"] = 0
    <2>1. CASE pc = "size" /\ Stopped
        BY <1>7, <1>13, <2>1
    <2>2. CASE pc = "size" /\ wait /\ req = Write("cfg", 0) /\ GoesNext /\ regs["cfg"] = 0
        <3>1. regs'["cfg"] = 0 /\ GoesNext'
            BY <1>1, <1>13, <2>2, TurnKept
        <3>2. CASE wait'
            BY <2>2, <3>1, <3>2
        <3>3. CASE ~wait'
            <4>1. tstate = "IDLE"
                BY <1>15, <2>2, <3>3 DEF GoesNext
            <4> QED
                BY <1>1, <2>2, <3>1, <4>1, TurnKept DEF Stopped
        <3> QED
            BY <3>2, <3>3
    <2> QED
        BY <2>1, <2>2 DEF IInv, ProgramInv
<1>18. wait' => \/ req' \in Extra
                \/ req' = Write("cfg", 0) /\ pc' \in {"stop2", "size"}
                \/ req' \in Program("size") /\ pc' = "start"
                \/ req' = Write("cfg", 1) /\ pc' = "stop1"
    BY <1>1, <1>3 DEF IInv, ProgramInv
<1> QED
    BY <1>1, <1>2, <1>6, <1>11, <1>14, <1>16, <1>17, <1>18 DEF ProgramInv

LEMMA ProgramInvoke ==
    ASSUME IInv, Invoke
    PROVE  ProgramInv' /\ req' \in Ops /\ pc' \in {"stop1", "stop2", "size", "start"}
<1>1. /\ ~wait /\ wait' /\ left' = 5 /\ tstate' = tstate /\ regs' = regs
      /\ grant' = grant /\ released' = released /\ bytecount' = bytecount
      /\ \/ req' \in Program(pc) /\ pc' = After(pc)
         \/ req' \in Extra /\ pc' = pc
    BY DEF Invoke, masterVars, encVars
<1>2. Asked' /\ (Stopped' <=> Stopped) /\ (GoesNext' <=> GoesNext)
    BY <1>1 DEF Asked, Stopped, GoesNext
<1>3. /\ pc \in {"start", "size"} => Stopped
      /\ pc = "stop2" => GoesNext /\ regs["cfg"] = 0
      /\ pc \in {"stop1", "stop2", "size", "start"}
    BY <1>1 DEF IInv, ProgramInv, Types
<1>4. /\ Write("cfg", 0) # Write("cfg", 1) /\ Write("cfg", 1) \notin Extra
      /\ Write("cfg", 1) \notin Program("size")
    BY Distinct
<1>5. /\ regs'["cfg"] \in {0, 1} /\ regs'["size"] \in Sizes
      /\ tstate' = "SEND_DATA" => bytecount' < regs'["size"]
    BY <1>1 DEF IInv, ProgramInv
<1>6. CASE req' \in Extra /\ pc' = pc
    <2>1. req' \in Ops /\ req' # Write("cfg", 1)
        BY <1>4, <1>6, OpsAre
    <2> QED
        BY <1>1, <1>2, <1>3, <1>5, <1>6, <2>1 DEF ProgramInv
<1>7. CASE pc \in {"stop1", "stop2"} /\ req' \in Program(pc) /\ pc' = After(pc)
    <2>1. req' = Write("cfg", 0) /\ req' # Write("cfg", 1) /\ req' \in Ops
        BY <1>4, <1>7, Programs, OpsAre
    <2>2. /\ pc = "stop1" => pc' = "stop2"
          /\ pc = "stop2" => pc' = "size"
        BY <1>7, Programs
    <2> QED
        BY <1>1, <1>2, <1>3, <1>5, <1>7, <2>1, <2>2 DEF ProgramInv
<1>8. CASE pc = "size" /\ req' \in Program(pc) /\ pc' = After(pc)
    <2>1. req' \in Program("size") /\ pc' = "start" /\ req' # Write("cfg", 1) /\ req' \in Ops
        BY <1>4, <1>8, Programs, OpsAre
    <2> QED
        BY <1>1, <1>2, <1>3, <1>5, <1>8, <2>1 DEF ProgramInv
<1>9. CASE pc = "start" /\ req' \in Program(pc) /\ pc' = After(pc)
    <2>1. req' = Write("cfg", 1) /\ pc' = "stop1" /\ req' \in Ops
        BY <1>9, Programs, OpsAre
    <2> QED
        BY <1>1, <1>2, <1>3, <1>5, <1>9, <2>1 DEF ProgramInv
<1> QED
    BY <1>1, <1>3, <1>6, <1>7, <1>8, <1>9
-----------------------------------------------------------------------------
(* The invariant, and the theorems.                                        *)

LEMMA Start == Init => IInv
<1> SUFFICES ASSUME Init
             PROVE  IInv
    OBVIOUS
<1>1. /\ pc = "stop1" /\ req = None /\ wait = FALSE /\ left = 0
      /\ buf = << >> /\ fault = FALSE /\ dstate = "IDLE" /\ dtoken = ReadOf("led")
      /\ mstate = "IDLE" /\ comp = ReadOf("led") /\ datR = None
      /\ estate = -1 /\ etoken = ReadOf("led") /\ grant = 0 /\ released = TRUE
      /\ tstate = "IDLE" /\ bytecount = 0 /\ spos = -1
    BY DEF Init
<1>2. regs = [a \in Addrs |-> IF a = "size" THEN MaxSize ELSE 0]
    BY DEF Init
<1>3. Len(buf) = 0 /\ buf \in Seq(Bytes)
    BY <1>1, EmptySeq
<1>4. regs["cfg"] = 0 /\ regs["size"] = MaxSize /\ MaxSize \in Sizes /\ regs \in [Addrs -> Values]
    BY <1>2, Constants DEF Addrs, Sizes, Values
<1>5. Types
    <2>1. wait \in BOOLEAN /\ released \in BOOLEAN /\ fault \in BOOLEAN
        BY <1>1, Zenon
    <2>2. bytecount \in 0 .. MaxSize /\ spos \in -1 .. BurstBytes - 1
        BY <1>1, Constants DEF BurstBytes
    <2> QED
        BY <1>1, <1>4, <2>1, <2>2, OpsAre DEF Types, Sources
<1>6. RequestInv /\ TokenInv
    BY <1>1 DEF RequestInv, TokenInv, Asked
<1>7. FrameInv /\ ContentInv
    BY <1>1, <1>3 DEF FrameInv, ContentInv
<1>8. ProgramInv
    BY <1>1, <1>4 DEF ProgramInv, Stopped
<1>9. NoFault
    BY <1>1 DEF NoFault
<1> QED
    BY <1>3, <1>5, <1>6, <1>7, <1>8, <1>9 DEF IInv, BufType

LEMMA InvokeKeeps == IInv /\ Invoke => IInv'
<1> SUFFICES ASSUME IInv, Invoke
             PROVE  IInv'
    OBVIOUS
<1>1. /\ ~wait /\ wait' = TRUE /\ left' = 5
      /\ buf' = buf /\ fault' = fault /\ dstate' = dstate /\ dtoken' = dtoken
      /\ mstate' = mstate /\ comp' = comp /\ datR' = datR /\ regs' = regs
      /\ estate' = estate /\ etoken' = etoken /\ ssum' = ssum
      /\ grant' = grant /\ released' = released
      /\ tstate' = tstate /\ bytecount' = bytecount /\ spos' = spos
    BY DEF Invoke, masterVars, encVars
<1>2. ProgramInv' /\ req' \in Ops /\ pc' \in {"stop1", "stop2", "size", "start"}
    BY ProgramInvoke
<1>3. dstate = "IDLE" /\ mstate = "IDLE" /\ estate = -1
    BY <1>1 DEF IInv, RequestInv, Asked
<1>4. Types'
    BY <1>1, <1>2 DEF IInv, Types
<1>5. RequestInv' /\ TokenInv'
    BY <1>1, <1>2, <1>3 DEF RequestInv, TokenInv, Asked
<1>6. BufType' /\ FrameInv' /\ ContentInv' /\ NoFault'
    BY <1>1 DEF IInv, BufType, FrameInv, ContentInv, NoFault
<1> QED
    BY <1>2, <1>4, <1>5, <1>6 DEF IInv

LEMMA ClockKeeps ==
    ASSUME IInv, NEW readable \in BOOLEAN, NEW writable \in BOOLEAN, NEW start \in BOOLEAN,
           Clock(readable, writable, start)
    PROVE  IInv'
<1>1. /\ pc' = pc /\ req' = req /\ ssum' = etoken /\ Phase(writable) /\ (~Access => datR' = None)
    BY Phases
<1>2. ~fault' /\ fault' \in BOOLEAN /\ wait' \in BOOLEAN
    BY Received DEF Clock
<1>3. RequestInv' /\ TokenInv'
    BY <1>1, <1>2, RequestNext
<1>4. BufType' /\ FrameInv' /\ ContentInv'
    BY FrameNext
<1>5. ProgramInv'
    BY ProgramClock
<1>6. grant' \in Sources /\ released' \in BOOLEAN
    BY Interleaved DEF Clock
<1>7. /\ tstate' \in {"IDLE", "SEND_HEAD", "SEND_SIZE", "SEND_DATA"} /\ bytecount' \in 0 .. MaxSize
      /\ spos' \in -1 .. BurstBytes - 1
    BY TestStep, BurstStep DEF Clock, BurstBytes
<1>8. Types'
    BY <1>1, <1>2, <1>6, <1>7, RequestTypes DEF Types, IInv
<1> QED
    BY <1>2, <1>3, <1>4, <1>5, <1>8 DEF IInv, NoFault

LEMMA StepKeeps == IInv /\ [Next]_vars => IInv'
<1> SUFFICES ASSUME IInv, [Next]_vars
             PROVE  IInv'
    OBVIOUS
<1>1. CASE Invoke
    BY <1>1, InvokeKeeps
<1>2. CASE \E readable, writable, start \in BOOLEAN : Clock(readable, writable, start)
    BY <1>2, ClockKeeps
<1>3. CASE UNCHANGED vars
    <2>1. UNCHANGED << pc, req, wait, left, buf, fault, dstate, dtoken, mstate, comp, datR, regs,
                       estate, etoken, ssum, grant, released, tstate, bytecount, spos >>
        BY <1>3 DEF vars, hostVars, masterVars, encVars
    <2> QED
        BY <2>1 DEF IInv, Types, BufType, RequestInv, TokenInv, FrameInv, ContentInv, ProgramInv,
                    NoFault, Asked, GoesNext, Stopped
<1> QED
    BY <1>1, <1>2, <1>3 DEF Next

LEMMA IInvHolds == Spec => []IInv
    BY Start, StepKeeps, PTL DEF Spec

\* The variables have their types; what the host has of a frame is less than the
\* longest frame.
THEOREM TypeCorrect == Spec => []TypeOK
<1>1. IInv => TypeOK
    <2> SUFFICES ASSUME IInv
                 PROVE  TypeOK
        OBVIOUS
    <2>1. Len(buf) <= 5 \/ Len(buf) < MaxSize + 2
        <3>1. CASE released
            BY <3>1 DEF IInv, FrameInv
        <3>2. CASE ~released /\ grant = 0
            BY <3>2 DEF IInv, FrameInv, Types
        <3>3. CASE ~released /\ grant = 1
            <4>1. /\ tstate \in {"SEND_HEAD", "SEND_SIZE", "SEND_DATA"}
                  /\ tstate = "SEND_HEAD" => Len(buf) = 0
                  /\ tstate = "SEND_SIZE" => Len(buf) = 1
                  /\ tstate = "SEND_DATA" => Len(buf) = bytecount + 2
                BY <3>3 DEF IInv, FrameInv, Types
            <4>2. /\ tstate = "SEND_DATA" => bytecount < regs["size"]
                  /\ regs["size"] \in 1 .. MaxSize /\ bytecount \in Nat
                BY DEF IInv, ProgramInv, Types, Sizes
            <4>3. CASE tstate = "SEND_DATA"
                BY <4>1, <4>2, <4>3, CmdAssumption
            <4>4. CASE tstate # "SEND_DATA"
                BY <4>1, <4>4
            <4> QED
                BY <4>3, <4>4
        <3>4. CASE ~released /\ grant = 2
            BY <3>4 DEF IInv, FrameInv, Types, BurstBytes
        <3> QED
            BY <3>1, <3>2, <3>3, <3>4 DEF IInv, Types, Sources
    <2>2. {wait, released, fault} \subseteq BOOLEAN
        BY Zenon DEF IInv, Types
    <2> QED
        BY <2>1, <2>2 DEF TypeOK, IInv, Types
<1> QED
    BY <1>1, IInvHolds, PTL

\* The host can frame every byte it receives, and an answer it receives is to the
\* request that is out: the interleaver (busencode.py, BusInterleave) switches
\* only between frames, and the program changes the size of test packets only
\* with none under way.
THEOREM NeverMisframed == Spec => []NoFault
<1>1. IInv => NoFault
    BY DEF IInv
<1> QED
    BY <1>1, IInvHolds, PTL

\* Two stops are enough for lb-test (ovctl.py:521): no packet hangs when it
\* changes the size.
THEOREM NoneHanging == Spec => []NoHangingPacket
<1>1. IInv => NoHangingPacket
    BY DEF IInv, ProgramInv, Stopped, NoHangingPacket
<1> QED
    BY <1>1, IInvHolds, PTL
-----------------------------------------------------------------------------
(* An access takes effect once, between call and return: of the steps, the *)
(* call is one to Port, the access of the master takes effect and the last *)
(* byte of the answer returns it; every other stutters.                    *)

CallNow == IF ~wait THEN "none" ELSE IF Performed THEN "done" ELSE "called"
ResultNow == IF Performed THEN Found ELSE None

PortStep ==
    [Port!Invoke \/ Port!Perform \/ Port!Return]_<< regs, CallNow, req, ResultNow, ret >>

LEMMA CallIs ==
    ASSUME IInv
    PROVE  /\ Performed <=> wait /\ ~Asked
           /\ ~wait => CallNow = "none" /\ ResultNow = None
           /\ wait /\ Asked => CallNow = "called" /\ ResultNow = None
           /\ wait /\ ~Asked => CallNow = "done" /\ ResultNow = Found
<1>1. Performed <=> wait /\ ~Asked
    BY DEF IInv, RequestInv, Performed, Asked, Types
<1> QED
    BY <1>1 DEF CallNow, ResultNow

LEMMA CallNext ==
    ASSUME IInv'
    PROVE  /\ ~wait' => CallNow' = "none" /\ ResultNow' = None
           /\ wait' /\ Asked' => CallNow' = "called" /\ ResultNow' = None
           /\ wait' /\ ~Asked' => CallNow' = "done" /\ ResultNow' = Found'
<1>1. Performed' <=> wait' /\ ~Asked'
    BY DEF IInv, RequestInv, Performed, Asked, Types
<1> QED
    BY <1>1 DEF CallNow, ResultNow

LEMMA FoundIs ==
    /\ mstate = "READ" => Found = IF comp.wr THEN comp.d ELSE datR
    /\ mstate = "WAIT" => Found = comp.d
    /\ mstate = "IDLE" => Found = etoken.d
    BY DEF Found

LEMMA FoundNext ==
    /\ mstate' = "READ" => Found' = IF comp'.wr THEN comp'.d ELSE datR'
    /\ mstate' = "WAIT" => Found' = comp'.d
    /\ mstate' = "IDLE" => Found' = etoken'.d
    BY DEF Found

LEMMA PortClock ==
    ASSUME IInv, IInv', NEW readable \in BOOLEAN, NEW writable \in BOOLEAN, NEW start \in BOOLEAN,
           Clock(readable, writable, start)
    PROVE  PortStep
<1>1. req' = req /\ Phase(writable)
    BY Phases
<1>2. /\ ~wait => ~Asked
      /\ Asked => mstate = "IDLE" /\ estate = -1
      /\ mstate # "IDLE" => estate = -1
      /\ ~wait' => ~Asked'
      /\ mstate' # "IDLE" => ~Asked'
      /\ estate' # -1 => ~Asked'
      /\ wait' /\ ~Asked' => mstate' # "IDLE" \/ estate' # -1
    BY DEF IInv, RequestInv
<1>3. /\ ~wait => CallNow = "none" /\ ResultNow = None
      /\ wait /\ Asked => CallNow = "called" /\ ResultNow = None
      /\ wait /\ ~Asked => CallNow = "done" /\ ResultNow = Found
    BY CallIs
<1>4. /\ ~wait' => CallNow' = "none" /\ ResultNow' = None
      /\ wait' /\ Asked' => CallNow' = "called" /\ ResultNow' = None
      /\ wait' /\ ~Asked' => CallNow' = "done" /\ ResultNow' = Found'
    BY CallNext
<1>5. /\ comp \in Token /\ etoken \in Token /\ dtoken \in Token
    BY DEF IInv, Types
<1>6. CASE Waits
    <2>1. CallNow' = CallNow /\ ResultNow' = ResultNow /\ regs' = regs /\ ret' = ret
        BY <1>3, <1>4, <1>6 DEF Waits
    <2> QED
        BY <1>1, <2>1 DEF PortStep
<1>7. CASE Arrives
    <2>1. mstate' = "IDLE" /\ estate' = -1 /\ wait' /\ wait /\ Asked /\ regs' = regs /\ ret' = ret
        BY <1>2, <1>7 DEF Arrives
    <2>2. CallNow' = CallNow /\ ResultNow' = ResultNow
        BY <1>2, <1>3, <1>4, <2>1
    <2> QED
        BY <1>1, <2>1, <2>2 DEF PortStep
<1>8. CASE Accessed
    <2>1. wait /\ Asked /\ wait' /\ ~Asked' /\ mstate' = "READ" /\ ret' = ret
        BY <1>2, <1>8 DEF Accessed, Access, Asked
    <2>2. CallNow = "called" /\ CallNow' = "done" /\ ResultNow' = Found'
        BY <1>3, <1>4, <2>1
    <2>3. dtoken.wr = req.wr /\ dtoken.a = req.a /\ dtoken.d = req.d
        BY <1>8 DEF Accessed, Access, IInv, TokenInv
    <2>4. regs' = IF req.wr THEN [regs EXCEPT ![req.a] = req.d] ELSE regs
        BY <1>8, <2>3 DEF Accessed
    <2>5. Found' = IF req.wr THEN req.d ELSE regs[req.a]
        <3>1. /\ comp'.wr = req.wr /\ datR' = regs[req.a]
              /\ req.wr => comp'.d = req.d
            BY <1>8, <2>3 DEF Accessed
        <3> QED
            BY <2>1, <3>1, FoundNext
    <2> QED
        BY <1>1, <2>1, <2>2, <2>4, <2>5 DEF PortStep, Port!Perform, CallNow, ResultNow
<1>9. CASE Sampled
    <2>1. wait /\ ~Asked /\ wait' /\ ~Asked' /\ regs' = regs /\ ret' = ret
        BY <1>2, <1>9 DEF Sampled
    <2>2. Found' = Found
        <3>1. comp.wr => comp' = comp
            BY <1>9 DEF Sampled
        <3>2. ~comp.wr => comp'.d = datR
            BY <1>5, <1>9 DEF Sampled, Token
        <3> QED
            BY <1>9, <3>1, <3>2, FoundIs, FoundNext DEF Sampled
    <2> QED
        BY <1>1, <1>3, <1>4, <2>1, <2>2 DEF PortStep
<1>10. CASE Handed
    <2>1. wait /\ ~Asked /\ wait' /\ ~Asked' /\ regs' = regs /\ ret' = ret
        BY <1>2, <1>10 DEF Handed
    <2>2. Found' = Found
        BY <1>10, FoundIs, FoundNext DEF Handed
    <2> QED
        BY <1>1, <1>3, <1>4, <2>1, <2>2 DEF PortStep
<1>11. CASE Sends(writable)
    <2>1. /\ wait /\ ~Asked /\ mstate = "IDLE" /\ mstate' = "IDLE" /\ regs' = regs
          /\ etoken' = etoken /\ Found = etoken.d /\ Found' = etoken.d
        BY <1>2, <1>11, FoundIs, FoundNext DEF Sends
    <2>2. CASE wait'
        <3>1. ret' = ret /\ estate' # -1
            BY <1>11, <2>2 DEF Sends, IInv, Types
        <3> QED
            BY <1>1, <1>2, <1>3, <1>4, <2>1, <2>2, <3>1 DEF PortStep
    <2>3. CASE ~wait'
        <3>1. ret' = etoken.d
            BY <1>11, <2>3 DEF Sends
        <3> QED
            BY <1>1, <1>3, <1>4, <2>1, <2>3, <3>1 DEF PortStep, Port!Return, CallNow, ResultNow
    <2> QED
        BY <2>2, <2>3
<1> QED
    BY <1>1, <1>6, <1>7, <1>8, <1>9, <1>10, <1>11 DEF Phase

LEMMA PortStart == Init => Port!Init
<1> SUFFICES ASSUME Init
             PROVE  Port!Init
    OBVIOUS
<1>1. wait = FALSE /\ req = None /\ ret = None /\ ~Performed
    BY DEF Init, Performed
<1> QED
    BY <1>1 DEF Port!Init

LEMMA PortNext == IInv /\ IInv' /\ [Next]_vars => PortStep
<1> SUFFICES ASSUME IInv, IInv', [Next]_vars
             PROVE  PortStep
    OBVIOUS
<1>1. CASE Invoke
    <2>1. ~wait /\ wait' /\ left' = 5 /\ regs' = regs /\ ret' = ret
        BY <1>1 DEF Invoke, masterVars
    <2>2. req' \in Ops
        BY <1>1, ProgramInvoke
    <2>3. CallNow = "none" /\ CallNow' = "called" /\ ResultNow = None /\ ResultNow' = None
        BY <2>1, CallIs, CallNext DEF Asked
    <2> QED
        BY <2>1, <2>2, <2>3 DEF PortStep, Port!Invoke, CallNow, ResultNow
<1>2. CASE \E readable, writable, start \in BOOLEAN : Clock(readable, writable, start)
    BY <1>2, PortClock
<1>3. CASE UNCHANGED vars
    BY <1>3 DEF vars, hostVars, masterVars, encVars, PortStep, CallNow, ResultNow, Performed, Found
<1> QED
    BY <1>1, <1>2, <1>3 DEF Next

\* A call of the host takes effect once, between call and return, and returns what
\* it found: the path of an access through the gateware implements the port.
THEOREM PortImplemented == Spec => PortSpec
    BY PortStart, PortNext, IInvHolds, PTL DEF Spec, PortSpec, Port!Spec, PortStep, CallNow, ResultNow
=============================================================================
