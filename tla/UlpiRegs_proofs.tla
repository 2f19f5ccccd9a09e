--------------------------- MODULE UlpiRegs_proofs ---------------------------
(***************************************************************************)
(* Proofs about register accesses of the PHY, for any registers and        *)
(* values: the state machine and the PHY never lose step, so that there is *)
(* no way into ERROR; a write is made only while it is asked for; and an   *)
(* access is reported done only when it was made.                          *)
(***************************************************************************)
EXTENDS UlpiRegs, TLAPS

\* What the registers hold.
DataTypes ==
    /\ wdata \in Values /\ rdata \in Values /\ rstat \in Values /\ pval \in Values
    /\ waddr \in Addrs /\ raddr \in Addrs /\ paddr \in Addrs
    /\ preg \in [Addrs -> Values]

\* Request and acknowledge go up and down in turn, each a clock behind.
Handshake(trig, req, ack) ==
    /\ ~trig /\ req => ack
    /\ trig /\ ack => req

\* The host has one access under way, and what is left of the handshake of the
\* one before is never of the other kind.
HostInv ==
    /\ wtrig => wpc = "poll"
    /\ rtrig => rpc = "poll"
    /\ wpc = "ready" \/ rpc = "ready"
    /\ Handshake(wtrig, wreqR, wack)
    /\ Handshake(rtrig, rreqR, rack)
    /\ ~((wtrig \/ wreqR \/ wack) /\ (rtrig \/ rreqR \/ rack))

\* What the PHY may be doing while ULPI_ctrl is in a state.
InStep ==
    /\ fsm = "IDLE" => phy \in {"idle", "ta", "start"}
    /\ fsm \in {"RW0", "RR0"} => phy \in {"idle", "accept", "ta", "start"}
    /\ fsm = "RR1" => phy \in {"idle", "accept", "turn", "ta", "start"}
    /\ fsm = "RWD" => phy \in {"data", "ta", "start"}
    /\ fsm = "RWS" => phy \in {"stp", "ta", "start"}
    /\ fsm = "RR2" => phy \in {"turn", "start"}
    /\ fsm = "RRD" => phy \in {"reg", "rx"}
    /\ fsm = "RX"  => phy \in {"idle", "rx", "reg"}

\* The two state machines are in step, NXT follows from them, and the states
\* of an access are entered and kept only for a request not acknowledged.
BusInv ==
    /\ InStep
    /\ phy # "rx" => (nxt <=> phy \in {"accept", "data", "start"})
    /\ fsm = "RRD" /\ phy = "rx" => nxt
    /\ fsm \in {"RW0", "RWD", "RWS"} => RegWriteReq
    /\ fsm \in {"RR0", "RR1", "RR2", "RRD"} => RegReadReq

\* The PHY works on the register asked for and has the value to write; with
\* the acknowledge the access has been made.
DataInv ==
    /\ fsm \in {"RW0", "RWD", "RWS"} /\ phy \in {"accept", "data", "stp"} => paddr = waddr
    /\ phy = "stp" => pval = wdata
    /\ fsm \in {"RR0", "RR1", "RR2", "RRD"} /\ phy \in {"accept", "turn", "reg"} => paddr = raddr
    /\ wtrig /\ wack => preg[waddr] = wdata
    /\ rtrig /\ rack => rdata = preg[raddr]

IInv == TypeOK /\ DataTypes /\ HostInv /\ BusInv /\ DataInv
-----------------------------------------------------------------------------
(* A clock of the bus.                                                     *)

\* What ULPI_ctrl does next, in the states of the PHY that go with it.
LEMMA CtrlSteps ==
    ASSUME TypeOK, BusInv, Ctrl
    PROVE  \/ dir /\ fsm \in {"IDLE", "RW0", "RWD", "RWS", "RR0", "RR1"} /\ fsm' = "RX"
           \/ dir /\ nxt /\ fsm \in {"RR2", "RRD"} /\ fsm' = "RX"
           \/ fsm = "RX" /\ fsm' = IF dir THEN "RX" ELSE "IDLE"
           \/ fsm = "IDLE" /\ ~dir /\ fsm' = IF RegWriteReq THEN "RW0" ELSE IF RegReadReq THEN "RR0" ELSE "IDLE"
           \/ fsm = "RW0" /\ ~dir /\ fsm' = IF nxt THEN "RWD" ELSE "RW0"
           \/ fsm = "RWD" /\ ~dir /\ fsm' = "RWS"
           \/ fsm = "RWS" /\ ~dir /\ fsm' = "IDLE"
           \/ fsm = "RR0" /\ ~dir /\ fsm' = "RR1"
           \/ fsm = "RR1" /\ ~dir /\ fsm' = IF nxt THEN "RR2" ELSE "RR1"
           \/ fsm = "RR2" /\ phy = "turn" /\ fsm' = "RRD"
           \/ fsm = "RRD" /\ phy = "reg" /\ fsm' = "IDLE"
<1> USE DEF BusInv, InStep, dir
<1>1. CASE Interrupted
    BY <1>1 DEF Interrupted
<1>2. CASE Receive \/ Idle
    BY <1>2 DEF Receive, Idle
<1>3. CASE WriteCommand \/ WriteData \/ WriteStop
    BY <1>3 DEF WriteCommand, WriteData, WriteStop
<1>4. CASE ReadCommand \/ ReadAccept \/ ReadTurn \/ ReadData
    BY <1>4 DEF ReadCommand, ReadAccept, ReadTurn, ReadData
<1> QED
    BY <1>1, <1>2, <1>3, <1>4 DEF Ctrl

LEMMA ClockTypes == IInv /\ UlpiClock => TypeOK' /\ DataTypes'
<1> SUFFICES ASSUME IInv, UlpiClock PROVE TypeOK' /\ DataTypes'
    OBVIOUS
<1>1. fsm' \in {"IDLE", "RX", "RW0", "RWD", "RWS", "RR0", "RR1", "RR2", "RRD"}
    BY CtrlSteps DEF IInv, UlpiClock
<1>2. /\ phy' \in {"idle", "accept", "data", "stp", "turn", "reg", "ta", "start", "rx"}
      /\ nxt' \in BOOLEAN /\ paddr' \in Addrs /\ pval' \in Values
    BY DEF IInv, TypeOK, DataTypes, UlpiClock, Phy, PhyIdle, PhyAccept, PhyTakeData, PhyAwaitStop,
           PhyTurn, PhyDrive, PhyTakeBus, PhyStartPacket, PhyReceive
<1>3. seen' \in BOOLEAN /\ preg' \in [Addrs -> Values]
    BY DEF IInv, TypeOK, DataTypes, UlpiClock, Phy
<1>4. /\ wreqR' \in BOOLEAN /\ rreqR' \in BOOLEAN /\ wack' \in BOOLEAN /\ rack' \in BOOLEAN
      /\ rdata' \in Values
    BY DEF IInv, TypeOK, DataTypes, UlpiClock, Ctrl, Acks, RegWriteAckSet, RegReadAckSet
<1> QED
    BY <1>1, <1>2, <1>3, <1>4 DEF IInv, TypeOK, DataTypes, UlpiClock, hostVars, sysVars

LEMMA ClockHost == IInv /\ UlpiClock => HostInv'
    BY DEF IInv, TypeOK, HostInv, Handshake, UlpiClock, Ctrl, Acks, hostVars, sysVars

\* The requests a state rests on do not go away before they are acknowledged.
LEMMA ClockRequests ==
    ASSUME IInv, UlpiClock
    PROVE  /\ fsm' \in {"RW0", "RWD", "RWS"} => RegWriteReq'
           /\ fsm' \in {"RR0", "RR1", "RR2", "RRD"} => RegReadReq'
<1>1. /\ wack' = (wreqR /\ (wack \/ RegWriteAckSet)) /\ wreqR' = wtrig
      /\ rack' = (rreqR /\ (rack \/ RegReadAckSet)) /\ rreqR' = rtrig
    BY DEF UlpiClock, Ctrl, Acks
<1>2. fsm' \in {"RW0", "RWD", "RWS"} => RegWriteReq /\ ~RegWriteAckSet
    BY CtrlSteps DEF IInv, UlpiClock, BusInv, RegWriteAckSet, RegWriteReq, RegReadReq
<1>3. fsm' \in {"RR0", "RR1", "RR2", "RRD"} => RegReadReq /\ ~RegReadAckSet
    BY CtrlSteps DEF IInv, UlpiClock, BusInv, RegReadAckSet, RegWriteReq, RegReadReq
<1> QED
    BY <1>1, <1>2, <1>3 DEF IInv, TypeOK, HostInv, Handshake, RegWriteReq, RegReadReq

\* The command on the bus, in the states of the PHY that look at it.
LEMMA Commands ==
    ASSUME IInv, phy \in {"idle", "accept"}
    PROVE  /\ Command = "regw" <=> fsm = "RW0" \/ (fsm = "IDLE" /\ RegWriteReq)
           /\ Command = "regr" <=> \/ fsm = "RR0" \/ (fsm = "RR1" /\ ~nxt)
                                   \/ (fsm = "IDLE" /\ ~RegWriteReq /\ RegReadReq)
           /\ Command \in {"regw", "regr", "none"}
    BY DEF IInv, TypeOK, Command, dir

LEMMA ClockBus == IInv /\ UlpiClock => BusInv'
<1> SUFFICES ASSUME IInv, UlpiClock PROVE BusInv'
    OBVIOUS
<1> USE CtrlSteps DEF IInv, TypeOK, UlpiClock, Phy, BusInv, InStep, dir
<1>1. /\ InStep'
      /\ phy' # "rx" => (nxt' <=> phy' \in {"accept", "data", "start"})
      /\ fsm' = "RRD" /\ phy' = "rx" => nxt'
    <2>1. CASE PhyIdle
        BY <2>1 DEF PhyIdle
    <2>2. CASE PhyAccept
        BY <2>2, Commands DEF PhyAccept, RegWriteReq, RegReadReq
    <2>3. CASE PhyTakeData
        BY <2>3, Commands DEF PhyTakeData
    <2>4. CASE PhyAwaitStop \/ PhyDrive
        BY <2>4 DEF PhyAwaitStop, PhyDrive
    <2>5. CASE PhyTurn
        BY <2>5, Commands DEF PhyTurn
    <2>6. CASE PhyTakeBus
        BY <2>6, Commands DEF PhyTakeBus
    <2>7. CASE PhyStartPacket
        BY <2>7 DEF PhyStartPacket
    <2>8. CASE PhyReceive
        BY <2>8 DEF PhyReceive
    <2> QED
        BY <2>1, <2>2, <2>3, <2>4, <2>5, <2>6, <2>7, <2>8
<1> QED
    BY <1>1, ClockRequests

\* The PHY's register changes only with the value being written, and only in the
\* clock that acknowledges it.
LEMMA ClockWrites ==
    ASSUME IInv, UlpiClock
    PROVE  /\ preg' = IF PhyWrites THEN [preg EXCEPT ![waddr] = wdata] ELSE preg
           /\ PhyWrites => RegWriteReq
           /\ fsm = "RWS" /\ ~dir => PhyWrites
<1> USE DEF IInv, BusInv, InStep, DataInv, PhyWrites, Stp, dir
<1>1. PhyWrites => paddr = waddr /\ pval = wdata /\ RegWriteReq
    OBVIOUS
<1>2. fsm = "RWS" /\ ~dir => PhyWrites
    OBVIOUS
<1> QED
    BY <1>1, <1>2 DEF UlpiClock, Phy

LEMMA ClockData == IInv /\ UlpiClock => DataInv'
<1> SUFFICES ASSUME IInv, UlpiClock PROVE DataInv'
    OBVIOUS
<1> USE DEF IInv, TypeOK
<1>1. wdata' = wdata /\ waddr' = waddr /\ raddr' = raddr /\ wtrig' = wtrig /\ rtrig' = rtrig
    BY DEF UlpiClock, sysVars
<1>2. /\ fsm' \in {"RW0", "RWD", "RWS"} /\ phy' \in {"accept", "data", "stp"} => paddr' = waddr'
      /\ phy' = "stp" => pval' = wdata'
      /\ fsm' \in {"RR0", "RR1", "RR2", "RRD"} /\ phy' \in {"accept", "turn", "reg"} => paddr' = raddr'
    <2> USE <1>1, CtrlSteps DEF UlpiClock, Phy, BusInv, InStep, DataInv, dir
    <2>1. CASE PhyIdle
        BY <2>1 DEF PhyIdle
    <2>2. CASE PhyAccept
        BY <2>2, Commands DEF PhyAccept, RegWriteReq, RegReadReq
    <2>3. CASE PhyTakeData
        BY <2>3, Commands DEF PhyTakeData
    <2>4. CASE PhyAwaitStop
        BY <2>4 DEF PhyAwaitStop
    <2>5. CASE PhyTurn
        BY <2>5, Commands DEF PhyTurn
    <2>6. CASE PhyDrive
        BY <2>6 DEF PhyDrive
    <2>7. CASE PhyTakeBus \/ PhyStartPacket \/ PhyReceive
        BY <2>7 DEF PhyTakeBus, PhyStartPacket, PhyReceive
    <2> QED
        BY <2>1, <2>2, <2>3, <2>4, <2>5, <2>6, <2>7
\* A write is acknowledged as it is made, or was made before.
<1>3. wtrig' /\ wack' => preg'[waddr'] = wdata'
    <2>1. SUFFICES ASSUME wtrig, wack' PROVE preg'[waddr] = wdata
        BY <1>1
    <2>2. wreqR /\ (wack \/ RegWriteAckSet)
        BY <2>1 DEF UlpiClock, Ctrl, Acks
    <2>3. ~PhyWrites => wack
        BY <2>2, ClockWrites DEF RegWriteAckSet, BusInv, RegReadReq, RegWriteReq, HostInv
    <2> QED
        BY <2>1, <2>3, ClockWrites DEF DataInv, DataTypes
\* The data read is that of the register asked for; no write is under way.
<1>4. rtrig' /\ rack' => rdata' = preg'[raddr']
    <2>1. SUFFICES ASSUME rtrig, rack' PROVE rdata' = preg'[raddr]
        BY <1>1
    <2>2. rreqR /\ (rack \/ RegReadAckSet)
        BY <2>1 DEF UlpiClock, Ctrl, Acks
    <2>3. preg' = preg
        BY <2>1, ClockWrites DEF HostInv, RegWriteReq
    <2>4. rdata' = IF RegReadAckSet THEN preg[paddr] ELSE rdata
        BY DEF UlpiClock, Ctrl, RegReadAckSet
    <2>5. RegReadAckSet => paddr = raddr
        BY DEF RegReadAckSet, BusInv, InStep, DataInv
    <2>6. ~RegReadAckSet => rdata = preg[raddr]
        BY <2>1, <2>2 DEF DataInv
    <2> QED
        BY <2>3, <2>4, <2>5, <2>6
<1> QED
    BY <1>2, <1>3, <1>4 DEF DataInv
-----------------------------------------------------------------------------
(* A clock of the host's side.                                             *)

\* What the host does leaves the command under way alone: it gives a new one
\* only where the handshakes are over.
LEMMA HostSteps ==
    ASSUME IInv, SysClock
    PROVE  /\ \/ wtrig' = wtrig /\ waddr' = waddr
              \/ wtrig /\ wack /\ ~wtrig' /\ waddr' = waddr
              \/ ~wtrig /\ wtrig' /\ ~wreqR /\ ~rreqR /\ ~wack /\ ~rack /\ ~rtrig /\ ~rtrig' /\ wpc = "wcmd" /\ wpc' = "poll"
           /\ \/ rtrig' = rtrig /\ raddr' = raddr
              \/ rtrig /\ rack /\ ~rtrig' /\ raddr' = raddr
              \/ ~rtrig /\ rtrig' /\ ~wreqR /\ ~rreqR /\ ~wack /\ ~rack /\ ~wtrig /\ ~wtrig' /\ rpc = "ready" /\ rpc' = "poll"
           /\ wdata' # wdata => wpc = "ready"
<1> USE DEF IInv, TypeOK, HostInv, Handshake, SysClock, WTrig, RTrig, Settled, Free
<1>1. CASE WriteWCmd
    BY <1>1 DEF WriteWCmd
<1>2. CASE WriteRCmd
    BY <1>2 DEF WriteRCmd
<1>3. CASE WriteWData \/ PollWCmd \/ PollRCmd \/ NoAccess
    BY <1>3 DEF WriteWData, PollWCmd, PollRCmd, NoAccess, NoCommand, hostVars
<1> QED
    BY <1>1, <1>2, <1>3

LEMMA SysTypes == IInv /\ SysClock => TypeOK' /\ DataTypes'
    BY DEF IInv, TypeOK, DataTypes, SysClock, WTrig, RTrig, RStat, NoCommand, WriteWData, WriteWCmd,
           PollWCmd, WriteRCmd, PollRCmd, NoAccess, hostVars, ctrlVars, phyVars

LEMMA SysHost == IInv /\ SysClock => HostInv'
<1> SUFFICES ASSUME IInv, SysClock PROVE HostInv'
    OBVIOUS
<1>1. wreqR' = wreqR /\ rreqR' = rreqR /\ wack' = wack /\ rack' = rack
    BY DEF SysClock, ctrlVars
<1>2. /\ wtrig' => wpc' = "poll"
      /\ rtrig' => rpc' = "poll"
      /\ wpc' = "ready" \/ rpc' = "ready"
    BY HostSteps DEF IInv, TypeOK, HostInv, SysClock, WTrig, RTrig, NoCommand, WriteWData, WriteWCmd,
       PollWCmd, WriteRCmd, PollRCmd, NoAccess, hostVars, Free
<1> QED
    BY <1>1, <1>2, HostSteps DEF IInv, TypeOK, HostInv, Handshake

LEMMA SysBus == IInv /\ SysClock => BusInv'
    BY DEF IInv, SysClock, BusInv, InStep, RegWriteReq, RegReadReq, ctrlVars, phyVars

LEMMA SysData == IInv /\ SysClock => DataInv'
<1> SUFFICES ASSUME IInv, SysClock PROVE DataInv'
    OBVIOUS
<1>1. /\ fsm' = fsm /\ phy' = phy /\ paddr' = paddr /\ pval' = pval /\ preg' = preg
      /\ rdata' = rdata /\ wack' = wack /\ rack' = rack
    BY DEF SysClock, ctrlVars, phyVars
<1>2. fsm \in {"RW0", "RWD", "RWS"} \/ phy = "stp" => waddr' = waddr /\ wdata' = wdata
    BY HostSteps DEF IInv, TypeOK, HostInv, Handshake, BusInv, InStep, RegWriteReq
<1> QED
    BY <1>1, <1>2, HostSteps DEF IInv, TypeOK, HostInv, Handshake, BusInv, InStep, DataInv, RegReadReq
-----------------------------------------------------------------------------
(* The theorems.                                                           *)

LEMMA InitIInv == Init => IInv
    BY DEF Init, IInv, TypeOK, DataTypes, HostInv, Handshake, BusInv, InStep, DataInv

LEMMA NextIInv == IInv /\ [Next]_vars => IInv'
<1> SUFFICES ASSUME IInv, [Next]_vars PROVE IInv'
    OBVIOUS
<1>1. CASE UlpiClock
    BY <1>1, ClockTypes, ClockHost, ClockBus, ClockData DEF IInv
<1>2. CASE SysClock
    BY <1>2, SysTypes, SysHost, SysBus, SysData DEF IInv
<1>3. CASE UNCHANGED vars
    BY <1>3 DEF vars, hostVars, sysVars, ctrlVars, phyVars, IInv, TypeOK, DataTypes, HostInv,
       Handshake, BusInv, InStep, DataInv, RegWriteReq, RegReadReq
<1> QED
    BY <1>1, <1>2, <1>3 DEF Next

LEMMA Invariant == Spec => []IInv
    BY InitIInv, NextIInv, PTL DEF Spec

\* ULPI_ctrl and the PHY stay in step: whatever the PHY interrupts, and when,
\* the FSM (ulpi.py:124-287) is never in ERROR.
THEOREM TypeCorrect == Spec => []TypeOK
    BY Invariant, PTL DEF IInv

\* The PHY is written only while the host waits for the write and it has not
\* been acknowledged: no access is made twice (ulpi.py:93-116).
THEOREM WrittenOnce == Spec => []WriteOnce
<1>1. IInv => WriteOnce
    BY DEF IInv, TypeOK, WriteOnce, PhyWrites, Stp, BusInv, RegWriteReq, HostInv, Handshake
<1> QED
    BY <1>1, Invariant, PTL

\* GO falls only after the access was made: for a write the register holds the
\* value, for a read UCFG_RDATA gets what the register holds (ulpicfg.py).
THEOREM DoneMeansDone == Spec => AccessDone
<1>1. ASSUME IInv, [Next]_vars
      PROVE  [ /\ wtrig /\ ~wtrig' => preg[waddr] = wdata
               /\ rtrig /\ ~rtrig' => rstat' = preg[raddr] ]_vars
    <2>1. CASE SysClock
        BY <1>1, <2>1, HostSteps DEF IInv, DataInv, SysClock, RStat
    <2>2. CASE UlpiClock
        BY <2>2 DEF UlpiClock, sysVars
    <2> QED
        BY <1>1, <2>1, <2>2 DEF Next
<1> QED
    BY <1>1, Invariant, PTL DEF Spec, AccessDone
=============================================================================
