------------------------------- MODULE UlpiRegs -------------------------------
(***************************************************************************)
(* Register accesses of the ULPI PHY, from the host's command registers    *)
(* (ULPICfg, system clock) through ULPI_ctrl (60 MHz clock) to the PHY,    *)
(* which may interrupt an access at any clock to deliver what it receives. *)
(* A request is a level (trig) seen by the other domain, an acknowledge    *)
(* the level back; GO, the bit the host polls, is trig itself.             *)
(*                                                                         *)
(* One step is an edge of one of the two clocks. The PHY is modelled by    *)
(* what the FSM of ULPI_ctrl and the PHY of the test bench (FakeULPI) say  *)
(* of it; its outputs are those of the clock that ends with the step.      *)
(***************************************************************************)
EXTENDS Integers

CONSTANTS Addrs, Values   \* PHY registers and what they hold

ASSUME UlpiAssumption == Addrs # {} /\ Values # {}

VARIABLES wpc, rpc,             \* where ulpiwrite and ulpiread of the host are
          wdata, waddr, wtrig,  \* UCFG_WDATA, UCFG_WCMD
          raddr, rtrig, rstat,  \* UCFG_RCMD, UCFG_RDATA
          fsm,                  \* ULPI_ctrl FSM
          wreqR, rreqR,         \* RegWriteReqR, RegReadReqR
          wack, rack, rdata,    \* acknowledges and data read
          phy, nxt,             \* what the PHY does in this clock
          seen,                 \* it let this command stand for a clock
          paddr, pval,          \* command and value latched by the PHY
          preg                  \* its registers

hostVars == << wpc, rpc >>
sysVars  == << wdata, waddr, wtrig, raddr, rtrig, rstat >>
ctrlVars == << fsm, wreqR, rreqR, wack, rack, rdata >>
phyVars  == << phy, nxt, seen, paddr, pval, preg >>
vars == << hostVars, sysVars, ctrlVars, phyVars >>

-----------------------------------------------------------------------------
(* The bus. *)

\* The PHY drives the bus in all its states but these.
dir == phy \notin {"idle", "accept", "data", "stp"}

\* Variant: a request that was acknowledged is not masked.
RegWriteReqUnmasked == wreqR

RegWriteReq == wreqR /\ ~wack
RegReadReq  == rreqR /\ ~rack

\* The command the link drives in this clock. In the clock that accepts a read
\* the link has let go of the bus.
Command ==
    CASE fsm = "IDLE" /\ ~dir /\ RegWriteReq -> "regw"
      [] fsm = "IDLE" /\ ~dir /\ ~RegWriteReq /\ RegReadReq -> "regr"
      [] fsm = "RW0" /\ ~dir -> "regw"
      [] fsm \in {"RR0", "RR1"} /\ ~dir /\ ~(fsm = "RR1" /\ nxt) -> "regr"
      [] OTHER -> "none"

Stp == fsm = "RWS" /\ ~dir

\* The PHY carries out a write when the link stops the transfer.
PhyWrites == phy = "stp" /\ Stp

-----------------------------------------------------------------------------
(* ULPI_ctrl.                                                              *)

RegWriteAckSet ==
    \/ fsm = "RWS" /\ ~dir
    \/ fsm \in {"RR0", "RR1"} /\ dir
    \/ fsm = "RR2" /\ nxt /\ dir
    \/ fsm = "RRD" /\ dir /\ nxt

\* Variant: NXT is tested the wrong way round.
RegReadAckSetNxt == fsm = "RRD" /\ dir /\ nxt

RegReadAckSet == fsm = "RRD" /\ dir /\ ~nxt

\* Variant: a write is acknowledged before the PHY has the data.
AcksEarly ==
    /\ wack' = (wreqR /\ (wack \/ fsm = "RWD"))
    /\ rack' = (rreqR /\ (rack \/ RegReadAckSet))

Acks ==
    /\ wack' = (wreqR /\ (wack \/ RegWriteAckSet))
    /\ rack' = (rreqR /\ (rack \/ RegReadAckSet))

\* The bus is taken by the PHY: whatever was going on is given up.
Interrupted ==
    /\ dir
    /\ \/ fsm \in {"IDLE", "RW0", "RWD", "RWS", "RR0", "RR1"}
       \/ fsm \in {"RR2", "RRD"} /\ nxt
    /\ fsm' = "RX"

Receive ==
    /\ fsm = "RX"
    /\ fsm' = IF dir THEN "RX" ELSE "IDLE"

Idle ==
    /\ fsm = "IDLE" /\ ~dir
    /\ fsm' = CASE RegWriteReq -> "RW0"
                [] ~RegWriteReq /\ RegReadReq -> "RR0"
                [] OTHER -> IF nxt THEN "ERROR" ELSE "IDLE"

\* Variant: the PHY's acceptance is not awaited.
WriteCommandAtOnce ==
    /\ fsm = "RW0" /\ ~dir
    /\ fsm' = "RWD"

WriteCommand ==
    /\ fsm = "RW0" /\ ~dir
    /\ fsm' = IF nxt THEN "RWD" ELSE "RW0"

\* ERROR is left for IDLE in the code; TypeOK says that no PHY leads there.
WriteData ==
    /\ fsm = "RWD" /\ ~dir
    /\ fsm' = IF nxt THEN "RWS" ELSE "ERROR"

WriteStop ==
    /\ fsm = "RWS" /\ ~dir
    /\ fsm' = "IDLE"

ReadCommand ==
    /\ fsm = "RR0" /\ ~dir
    /\ fsm' = "RR1"

ReadAccept ==
    /\ fsm = "RR1" /\ ~dir
    /\ fsm' = IF nxt THEN "RR2" ELSE "RR1"

ReadTurn ==
    /\ fsm = "RR2" /\ ~(dir /\ nxt)
    /\ fsm' = IF nxt THEN "ERROR" ELSE "RRD"

ReadData ==
    /\ fsm = "RRD" /\ ~(dir /\ nxt)
    /\ fsm' = IF dir THEN "IDLE" ELSE "ERROR"

Ctrl ==
    /\ \/ Interrupted \/ Receive \/ Idle \/ WriteCommand \/ WriteData \/ WriteStop
       \/ ReadCommand \/ ReadAccept \/ ReadTurn \/ ReadData
    /\ Acks
    /\ wreqR' = wtrig
    /\ rreqR' = rtrig
    /\ rdata' = IF fsm = "RRD" /\ dir /\ ~nxt THEN preg[paddr] ELSE rdata

-----------------------------------------------------------------------------
(* The PHY. It accepts a command in the clock after it appeared or lets it  *)
(* stand for as long as it likes, and it takes the bus at will.             *)

PhyIdle ==
    /\ phy \in {"idle", "rx", "reg", "stp"}
    /\ phy' = "idle" /\ nxt' = FALSE
    /\ UNCHANGED << paddr, pval >>

PhyAccept ==
    /\ phy = "idle"
    /\ Command # "none"
    /\ phy' = "accept" /\ nxt' = TRUE
    /\ paddr' = IF Command = "regw" THEN waddr ELSE raddr
    /\ UNCHANGED pval

PhyTakeData ==
    /\ phy = "accept" /\ Command = "regw"
    /\ phy' = "data" /\ nxt' = TRUE
    /\ UNCHANGED << paddr, pval >>

PhyAwaitStop ==
    /\ phy = "data"
    /\ phy' = "stp" /\ nxt' = FALSE
    /\ pval' = wdata
    /\ UNCHANGED paddr

PhyTurn ==
    /\ phy = "accept" /\ Command # "regw"
    /\ phy' = "turn" /\ nxt' = FALSE
    /\ UNCHANGED << paddr, pval >>

PhyDrive ==
    /\ phy = "turn"
    /\ phy' = "reg" /\ nxt' = FALSE
    /\ UNCHANGED << paddr, pval >>

\* The bus is turned round for an RXCMD (of an accepted read this is PhyTurn).
PhyTakeBus ==
    /\ phy \in {"idle", "accept", "data"}
    /\ phy = "accept" => Command = "regw"
    /\ phy' = "ta" /\ nxt' = FALSE
    /\ UNCHANGED << paddr, pval >>

\* The bus is turned round with NXT: a packet begins.
PhyStartPacket ==
    /\ phy \in {"idle", "accept", "data"}
    /\ phy' = "start" /\ nxt' = TRUE
    /\ UNCHANGED << paddr, pval >>

\* An RXCMD (no NXT) or a byte of a packet; in place of register data too.
PhyReceive ==
    /\ phy \in {"ta", "start", "rx", "turn"}
    /\ phy' = "rx"
    /\ nxt' \in IF phy = "turn" THEN {TRUE} ELSE BOOLEAN
    /\ UNCHANGED << paddr, pval >>

Phy ==
    /\ \/ PhyIdle \/ PhyAccept \/ PhyTakeData \/ PhyAwaitStop \/ PhyTurn \/ PhyDrive
       \/ PhyTakeBus \/ PhyStartPacket \/ PhyReceive
    /\ seen' = \/ phy = "idle" /\ phy' = "idle" /\ Command # "none"
               \/ phy' \in {"accept", "turn"} /\ seen
    /\ preg' = IF PhyWrites THEN [preg EXCEPT ![paddr] = pval] ELSE preg

UlpiClock ==
    /\ Ctrl
    /\ Phy
    /\ UNCHANGED << hostVars, sysVars >>

-----------------------------------------------------------------------------
(* The command registers, and the host's ulpiwrite and ulpiread. In a      *)
(* system clock the host makes at most one register access. An acknowledge *)
(* is gone before the next command (Settled): nothing in ULPICfg waits for *)
(* that, it is assumed of the host, each of whose accesses takes a round   *)
(* trip over USB.                                                          *)

\* w, r: the command register written in this clock, or none.
WTrig(w) == wtrig' = IF w THEN TRUE ELSE IF wack THEN FALSE ELSE wtrig
RTrig(r) == rtrig' = IF r THEN TRUE ELSE IF rack THEN FALSE ELSE rtrig

\* Variant: the data is not latched with the acknowledge.
RStatLate == rstat' = IF rtrig THEN rstat ELSE rdata

RStat == rstat' = IF rack THEN rdata ELSE rstat

NoCommand == WTrig(FALSE) /\ RTrig(FALSE) /\ UNCHANGED << waddr, raddr >>

Settled == ~wack /\ ~rack

\* The host has one thread that accesses registers.
Free == wpc = "ready" /\ rpc = "ready"

WriteWData ==
    /\ Free
    /\ wpc' = "wcmd"
    /\ wdata' \in Values
    /\ NoCommand
    /\ UNCHANGED rpc

WriteWCmd ==
    /\ wpc = "wcmd" /\ Settled
    /\ wpc' = "poll"
    /\ waddr' \in Addrs
    /\ WTrig(TRUE) /\ RTrig(FALSE)
    /\ UNCHANGED << rpc, wdata, raddr >>

PollWCmd ==
    /\ wpc = "poll"
    /\ wpc' = IF wtrig THEN "poll" ELSE "ready"
    /\ NoCommand
    /\ UNCHANGED << rpc, wdata >>

WriteRCmd ==
    /\ Free /\ Settled
    /\ rpc' = "poll"
    /\ raddr' \in Addrs
    /\ WTrig(FALSE) /\ RTrig(TRUE)
    /\ UNCHANGED << wpc, wdata, waddr >>

\* ulpiread then fetches UCFG_RDATA, which only the next read changes.
PollRCmd ==
    /\ rpc = "poll"
    /\ rpc' = IF rtrig THEN "poll" ELSE "ready"
    /\ NoCommand
    /\ UNCHANGED << wpc, wdata >>

NoAccess ==
    /\ NoCommand
    /\ UNCHANGED << hostVars, wdata >>

SysClock ==
    /\ WriteWData \/ WriteWCmd \/ PollWCmd \/ WriteRCmd \/ PollRCmd \/ NoAccess
    /\ RStat
    /\ UNCHANGED << ctrlVars, phyVars >>

-----------------------------------------------------------------------------
Init ==
    /\ wpc = "ready" /\ rpc = "ready"
    /\ wdata \in Values /\ rstat \in Values /\ rdata \in Values /\ pval \in Values
    /\ waddr \in Addrs /\ raddr \in Addrs /\ paddr \in Addrs
    /\ wtrig = FALSE /\ rtrig = FALSE
    /\ fsm = "IDLE" /\ wreqR = FALSE /\ rreqR = FALSE /\ wack = FALSE /\ rack = FALSE
    /\ phy = "idle" /\ nxt = FALSE /\ seen = FALSE
    /\ preg \in [Addrs -> Values]

Next == UlpiClock \/ SysClock

Spec == Init /\ [][Next]_vars

-----------------------------------------------------------------------------
(* Fairness: both clocks run; the PHY gives the bus back and lets it idle   *)
(* now and then, and does not interrupt every access at the same place for  *)
(* ever. And it does not accept every read at once: RR0 does not look at    *)
(* NXT (ulpi.py:224), so that a read accepted in the first clock of its     *)
(* command comes to nothing and is made again. Nothing in ULPI_ctrl makes   *)
(* a PHY wait: FakeULPI does not, and with it a read is repeated for ever.  *)

\* The PHY accepts a write, or a read whose command stood for a clock; below, the
\* turn and the answer are those of such a read.
PhyAcceptsInTime == PhyAccept /\ (Command = "regr" => seen)

Fairness ==
    /\ WF_vars(SysClock)
    /\ WF_vars(UlpiClock)
    /\ SF_vars(UlpiClock /\ PhyIdle)
    /\ SF_vars(UlpiClock /\ PhyIdle /\ phy = "idle")
    /\ SF_vars(UlpiClock /\ PhyIdle /\ phy = "idle" /\ Command # "none")
    /\ SF_vars(UlpiClock /\ PhyAcceptsInTime)
    /\ SF_vars(UlpiClock /\ (PhyTakeData \/ (PhyTurn /\ seen)))
    /\ SF_vars(UlpiClock /\ (PhyAwaitStop \/ (PhyDrive /\ seen)))

FairSpec == Spec /\ Fairness

-----------------------------------------------------------------------------
(* Properties.                                                             *)

\* The variables have their types, and the FSM never falls into ERROR
\* (ulpi.py:274): its states and the PHY's stay in step.
TypeOK ==
    /\ wpc \in {"ready", "wcmd", "poll"} /\ rpc \in {"ready", "poll"}
    /\ {wtrig, rtrig, wreqR, rreqR, wack, rack, nxt, seen} \subseteq BOOLEAN
    /\ fsm \in {"IDLE", "RX", "RW0", "RWD", "RWS", "RR0", "RR1", "RR2", "RRD"}
    /\ phy \in {"idle", "accept", "data", "stp", "turn", "reg", "ta", "start", "rx"}

\* When GO of a write falls, the PHY register holds the value, and when GO of a
\* read falls, UCFG_RDATA holds the register asked for: an access the PHY
\* interrupted is not reported done ("set ack=1 when access done", ulpi.py:93).
\* Given Settled: an acknowledge left over would end the next access at once.
AccessDone ==
    [][ /\ wtrig /\ ~wtrig' => preg[waddr] = wdata
        /\ rtrig /\ ~rtrig' => rstat' = preg[raddr] ]_vars

\* The PHY is written only while the host waits for it: no access is repeated
\* after it was made, or left over for later.
WriteOnce == PhyWrites => wtrig /\ ~wack

\* A register access ends, however often the PHY interrupts it, if it lets a
\* read command stand for a clock now and then (PhyAcceptsInTime): RegReadAckSet
\* and RegWriteAckSet come in the end, and the acknowledge crosses back.
AccessEnds == (wtrig ~> ~wtrig) /\ (rtrig ~> ~rtrig)
=============================================================================
