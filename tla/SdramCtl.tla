------------------------------ MODULE SdramCtl ------------------------------
(***************************************************************************)
(* SDRAMCTL (ovhw/sdramctl.py): the memory controller behind the capture   *)
(* ring. A master asks for a stream of words from an address on; the       *)
(* controller opens the row, runs a full-page burst, goes on in the next   *)
(* row by itself, refreshes the chip in between, and strobes every word.   *)
(* The words of a read come out of the chip some clocks late, so a read    *)
(* that is terminated leaves words under way which must not be strobed.    *)
(*                                                                         *)
(* A step is a clock edge. Of the words only the address is kept: the      *)
(* chip says which word it reads or writes, the master which one it means. *)
(***************************************************************************)
EXTENDS Integers, Sequences

CONSTANTS Cols, Rows,  \* words in a row, and rows of all banks together
          Starts,      \* addresses a command starts from
          tRESET, tCL, tRP, tRFC, tRCD, tREFI, tWR,  \* SDRAMParams, in clocks
          CtrSize      \* range of refresh_ctr

tMRD == 3
Addr == 0 .. Rows * Cols - 1
None == -1

refreshInterval == tREFI - 2

\* The longest time between two looks at refresh_ctr in IDLE.
LongestCommand == tRCD + Cols + tWR + tRP + 1

\* A read must have left the pipeline before the next row is asked for, and a
\* write that is cut short leaves two clocks before the row is closed. The chip
\* is set up before refresh_ctr has gone far beyond its first interval.
ASSUME ControllerAssumption ==
    /\ {Cols, Rows, tRP, tRFC, tRCD, tRESET, tCL} \subseteq Nat \ {0}
    /\ Starts \subseteq Addr
    /\ tRP >= tCL + 1
    /\ tWR \in {1, 2}
    /\ tREFI \in Nat /\ refreshInterval > tRFC + 1
    /\ tRESET + tRP + 6 <= refreshInterval + LongestCommand
    /\ CtrSize \in Nat /\ CtrSize > refreshInterval + LongestCommand

VARIABLES fsm, wait, target,  \* state; in "DELAY", clocks left and state to enter
          resetCtr, refreshCtr,
          iptr, iwr, colCnt,  \* command latched, i_col_cnt
          needsReissue,       \* cmd_needs_reissue
          killRead,           \* kill_read
          pipe,               \* words read in the last tCL + 2 clocks, oldest last
          row, burst,         \* chip: open row, word of the burst running (or None)
          ready, rowTimer, colTimer, writeTimer,  \* chip: clocks it has to be left alone
          mstate, mwr, maddr  \* master: its state, and the word it is at

fsmVars    == << fsm, wait, target >>
cmdVars    == << iptr, iwr, colCnt, needsReissue >>
chipVars   == << row, burst, ready, rowTimer, colTimer, writeTimer >>
masterVars == << mstate, mwr, maddr >>
vars == << fsmVars, resetCtr, refreshCtr, cmdVars, killRead, pipe, chipVars, masterVars >>

-----------------------------------------------------------------------------
(* Signals. term: d_term in this clock.                                    *)

ReadCycle  == fsm \in {"READ", "READING"}
WriteCycle == fsm \in {"WRITE", "WRITING"}
Returning  == pipe[tCL + 2] # None
LastCol    == colCnt = Cols - 1

\* Variant: words under way are strobed although the read was terminated.
DStbUnkilled == WriteCycle \/ Returning
DStb == WriteCycle \/ (Returning /\ ~killRead)

Dqm(term) == WriteCycle /\ term

CanContinueRead(term)  == ~term /\ ~LastCol /\ ~killRead
CanContinueWrite(term) == ~term /\ ~LastCol

IStb == mstate = "REQ"

RefreshDue == refreshCtr >= refreshInterval

\* Variant: a read terminated at the end of its row goes on in the next one.
ReissueAlways(term) == needsReissue
Reissue(term) == needsReissue /\ ~killRead /\ ~(Returning /\ term)

\* What IDLE does. Variant: the next row before a refresh.
ChoiceReissueFirst(term) ==
    CASE Reissue(term) -> "reissue"
      [] ~Reissue(term) /\ RefreshDue -> "refresh"
      [] ~Reissue(term) /\ ~RefreshDue /\ IStb -> "accept"
      [] OTHER -> "stay"

Choice(term) ==
    CASE RefreshDue -> "refresh"
      [] ~RefreshDue /\ Reissue(term) -> "reissue"
      [] ~RefreshDue /\ ~Reissue(term) /\ IStb -> "accept"
      [] OTHER -> "stay"

Accepts(term)  == fsm = "IDLE" /\ Choice(term) = "accept"
Reissues(term) == fsm = "IDLE" /\ Choice(term) = "reissue"

Cmd == CASE fsm \in {"INIT_PRECHARGE", "PRECHARGE"} -> "PRECHARGE"
         [] fsm \in {"INIT_REFRESH1", "INIT_REFRESH2", "REFRESH"} -> "AUTO_REFRESH"
         [] fsm = "INIT_MODE" -> "LOAD_MODE"
         [] fsm \in {"WRITE_ACTIVE", "READ_ACTIVE"} -> "ACTIVE"
         [] fsm = "WRITE" -> "WRITE"
         [] fsm = "READ" -> "READ"
         [] fsm = "PRECHARGE_TWR" -> "BURST_TERM"
         [] OTHER -> "NOP"

-----------------------------------------------------------------------------
(* The state machine.                                                      *)

Goto(s) == fsm' = s /\ UNCHANGED << wait, target >>

\* delayed_enter: s is entered d clocks after the present state.
Enter(s, d) ==
    IF d = 1 THEN Goto(s)
             ELSE fsm' = "DELAY" /\ wait' = d - 1 /\ target' = s

Delay ==
    /\ fsm = "DELAY"
    /\ wait' = wait - 1
    /\ fsm' = IF wait = 1 THEN target ELSE "DELAY"
    /\ UNCHANGED target

Start ==
    \/ fsm = "RESET" /\ IF resetCtr = tRESET THEN Goto("INIT_IDLE") ELSE UNCHANGED fsmVars
    \/ fsm = "INIT_IDLE" /\ Enter("INIT_PRECHARGE", 5)
    \/ fsm = "INIT_PRECHARGE" /\ Enter("INIT_REFRESH1", tRP)
    \/ fsm = "INIT_REFRESH1" /\ Enter("INIT_REFRESH2", tRFC)
    \/ fsm = "INIT_REFRESH2" /\ Enter("INIT_MODE", tRFC)
    \/ fsm = "INIT_MODE" /\ Enter("IDLE", tMRD)

Idle(term) ==
    /\ fsm = "IDLE"
    /\ CASE Choice(term) = "refresh" -> Goto("REFRESH")
         [] Choice(term) = "reissue" -> Goto(IF iwr THEN "WRITE_ACTIVE" ELSE "READ_ACTIVE")
         [] Choice(term) = "accept" -> Goto(IF mwr THEN "WRITE_ACTIVE" ELSE "READ_ACTIVE")
         [] OTHER -> UNCHANGED fsmVars

\* Where a write goes that is at an end. Variant: it does not wait for tWR.
WriteEndAtOnce(term) == "PRECHARGE"
WriteEnd(term) == IF Dqm(term) \/ tWR = 1 THEN "PRECHARGE" ELSE "PRECHARGE_TWR"

Write(term) ==
    \/ fsm = "WRITE_ACTIVE" /\ Enter("WRITE", tRCD)
    \/ WriteCycle /\ Goto(IF CanContinueWrite(term) THEN "WRITING" ELSE WriteEnd(term))
    \/ fsm = "PRECHARGE_TWR" /\ Enter("PRECHARGE", tWR - 1)

Read(term) ==
    \/ fsm = "READ_ACTIVE" /\ Enter("READ", tRCD)
    \/ ReadCycle /\ Goto(IF CanContinueRead(term) THEN "READING" ELSE "PRECHARGE")

Close ==
    \/ fsm = "PRECHARGE" /\ Enter("IDLE", tRP)
    \/ fsm = "REFRESH" /\ Enter("IDLE", tRFC)

Fsm(term) == Delay \/ Start \/ Idle(term) \/ Write(term) \/ Read(term) \/ Close

-----------------------------------------------------------------------------
(* Registers. reset_ctr is looked at in RESET only.                        *)

Counters ==
    /\ resetCtr' = (resetCtr + 1) % (tRESET + 1)
    /\ refreshCtr' =
         CASE Cmd = "AUTO_REFRESH" /\ refreshCtr > refreshInterval -> refreshCtr - refreshInterval
           [] Cmd = "AUTO_REFRESH" /\ refreshCtr <= refreshInterval -> 0
           [] OTHER -> (refreshCtr + 1) % CtrSize

KillRead(term) ==
    killRead' = CASE Returning /\ term -> TRUE
                  [] ~Returning -> FALSE
                  [] OTHER -> killRead

\* The row is at its end and the command is not. Variant: a read ends there.
EndOfRowWrite(term) == WriteCycle /\ LastCol /\ ~term
EndOfRow(term) ==
    \/ WriteCycle /\ LastCol /\ ~term
    \/ ReadCycle /\ LastCol /\ ~killRead /\ ~(Returning /\ term)

NeedsReissue(term) ==
    needsReissue' = CASE EndOfRow(term) -> TRUE
                      [] ~EndOfRow(term) /\ (Reissues(term) \/ killRead) -> FALSE
                      [] OTHER -> needsReissue

\* Variants: the same row again; an address that does not wrap.
NextRowSame(a) == (a \div Cols) * Cols
NextRowWide(a) == (a \div Cols) * Cols + Cols
NextRow(a) == ((a \div Cols) * Cols + Cols) % (Rows * Cols)

Command(term) ==
    /\ iptr' = CASE Accepts(term) -> maddr [] Reissues(term) -> NextRow(iptr) [] OTHER -> iptr
    /\ iwr' = IF Accepts(term) THEN mwr ELSE iwr
    /\ colCnt' = CASE Accepts(term) -> maddr % Cols
                   [] Reissues(term) -> 0
                   [] WriteCycle \/ ReadCycle -> (colCnt + 1) % Cols
                   [] OTHER -> colCnt
    /\ NeedsReissue(term)

-----------------------------------------------------------------------------
(* The chip. A burst starts with READ or WRITE, goes around in the open    *)
(* row with every clock, and ends with BURST_TERM or PRECHARGE.            *)

\* The word the chip reads or writes in this clock.
ChipWord == IF Cmd \in {"READ", "WRITE"} THEN row * Cols + (iptr % Cols) ELSE burst

NextInRow(a) == (a \div Cols) * Cols + ((a + 1) % Cols)

Less(timer) == IF timer = 0 THEN 0 ELSE timer - 1

Chip(term) ==
    /\ row' = CASE Cmd = "ACTIVE" -> iptr \div Cols [] Cmd = "PRECHARGE" -> None [] OTHER -> row
    /\ burst' = CASE Cmd \in {"BURST_TERM", "PRECHARGE"} -> None
                  [] Cmd \in {"READ", "WRITE"} -> NextInRow(ChipWord)
                  [] OTHER -> IF burst = None THEN None ELSE NextInRow(burst)
    /\ ready' = (ready \/ Cmd = "LOAD_MODE")
    /\ rowTimer' = CASE Cmd = "PRECHARGE" -> tRP - 1
                     [] Cmd = "AUTO_REFRESH" -> tRFC - 1
                     [] Cmd = "LOAD_MODE" -> tMRD - 1
                     [] OTHER -> Less(rowTimer)
    /\ colTimer' = IF Cmd = "ACTIVE" THEN tRCD - 1 ELSE Less(colTimer)
    /\ writeTimer' = IF WriteCycle /\ ~term THEN tWR - 1 ELSE Less(writeTimer)

\* returning_read and the data belong together: both are late by tCL + 2.
Pipeline ==
    pipe' = << IF ReadCycle THEN ChipWord ELSE None >> \o SubSeq(pipe, 1, tCL + 1)

-----------------------------------------------------------------------------
(* The master, as SDRAM_Sink and SDRAM_Host_Read behave: it asks, may take *)
(* its request back, transfers a word per strobe, and to end the transfer  *)
(* holds d_term until a strobe.                                            *)

Terms(term) ==
    CASE mstate = "DATA" -> term \in BOOLEAN
      [] mstate = "WAIT" -> term
      [] OTHER -> ~term

Asks ==
    \/ mstate' = "IDLE" /\ mwr' = FALSE /\ maddr' = 0
    \/ mstate' = "REQ" /\ mwr' \in BOOLEAN /\ maddr' \in Starts

Transfers(term) == mstate = "DATA" /\ DStb /\ ~term

Master(term) ==
    CASE mstate = "IDLE" -> Asks
      [] mstate = "REQ" ->
           \/ mstate' = (IF Accepts(term) THEN "DATA" ELSE "REQ") /\ UNCHANGED << mwr, maddr >>
           \/ ~Accepts(term) /\ mstate' = "IDLE" /\ mwr' = FALSE /\ maddr' = 0
      [] mstate \in {"DATA", "WAIT"} /\ DStb /\ term -> Asks
      [] OTHER ->
           /\ mstate' = IF term THEN "WAIT" ELSE mstate
           /\ maddr' = IF Transfers(term) THEN (maddr + 1) % (Rows * Cols) ELSE maddr
           /\ UNCHANGED mwr

-----------------------------------------------------------------------------
Control(term) ==
    /\ Fsm(term)
    /\ Counters /\ KillRead(term) /\ Command(term)
    /\ Chip(term) /\ Pipeline

Clock(term) == Terms(term) /\ Control(term) /\ Master(term)

Init ==
    /\ fsm = "RESET" /\ wait = 0 /\ target = "IDLE"
    /\ resetCtr = 0 /\ refreshCtr = 0
    /\ iptr = 0 /\ iwr = FALSE /\ colCnt = 0
    /\ needsReissue = FALSE /\ killRead = FALSE
    /\ pipe = [i \in 1 .. tCL + 2 |-> None]
    /\ row = None /\ burst = None /\ ready = FALSE
    /\ rowTimer = 0 /\ colTimer = 0 /\ writeTimer = 0
    /\ mstate = "IDLE" /\ mwr = FALSE /\ maddr = 0

Next == \E term \in BOOLEAN : Clock(term)

Spec == Init /\ [][Next]_vars

\* The clock runs; nothing is asked of the master beyond holding d_term.
FairSpec == Spec /\ WF_vars(Next)

-----------------------------------------------------------------------------
(* Properties.                                                             *)

States == {"RESET", "INIT_IDLE", "INIT_PRECHARGE", "INIT_REFRESH1", "INIT_REFRESH2", "INIT_MODE",
           "DELAY", "IDLE", "REFRESH", "WRITE_ACTIVE", "WRITE", "WRITING", "PRECHARGE_TWR",
           "PRECHARGE", "READ_ACTIVE", "READ", "READING"}

TypeOK ==
    /\ fsm \in States /\ target \in States /\ wait \in Nat
    /\ resetCtr \in 0 .. tRESET
    /\ iptr \in Addr /\ colCnt \in 0 .. Cols - 1
    /\ {iwr, needsReissue, killRead, ready, mwr} \subseteq BOOLEAN
    /\ pipe \in [1 .. tCL + 2 -> Addr \cup {None}]
    /\ row \in (0 .. Rows - 1) \cup {None} /\ burst \in Addr \cup {None}
    /\ mstate \in {"IDLE", "REQ", "DATA", "WAIT"} /\ maddr \in Addr

\* The word strobed is the word the master is at: over the end of a row, with a
\* refresh in between, for a read as for a write, and of the transfer that is
\* running and not of one before.
RightWord ==
    (DStb /\ mstate = "DATA") =>
        maddr = IF WriteCycle THEN ChipWord ELSE pipe[tCL + 2]

\* "d_stb will not reassert" (ov_types.py:32) after a strobe with d_term: words
\* under way and rows asked for already are not strobed to whoever comes next.
NoStrayStrobe == DStb => mstate \in {"DATA", "WAIT"}

\* The chip takes every command: rows are closed before a row is opened or a
\* refresh is made, and tRP, tRFC, tRCD and tWR have passed. (tRAS and tRC, which
\* SDRAMCTL has no parameters for, are not checked.)
LegalCommand ==
    CASE Cmd = "ACTIVE" -> ready /\ row = None /\ rowTimer = 0
      [] Cmd \in {"AUTO_REFRESH", "LOAD_MODE"} -> row = None /\ rowTimer = 0
      [] Cmd \in {"READ", "WRITE"} -> row # None /\ colTimer = 0
      [] Cmd = "PRECHARGE" -> writeTimer = 0
      [] OTHER -> TRUE

\* A stream over many rows does not put off a refresh: refresh_ctr is ahead of
\* its interval by no more than a command in one row takes, so it never wraps.
RefreshBounded == refreshCtr <= refreshInterval + LongestCommand

\* Requests are taken, words flow and a transfer that is to end ends, with
\* refreshes and changes of row at any time.
Progress ==
    /\ (mstate = "REQ") ~> (mstate # "REQ")
    /\ (mstate = "WAIT") ~> (mstate # "WAIT")
    /\ (mstate = "DATA" /\ ~DStb) ~> (DStb \/ mstate # "DATA")
=============================================================================
