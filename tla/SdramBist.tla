----------------------------- MODULE SdramBist ------------------------------
(***************************************************************************)
(* SDRAMBIST (ovhw/sdram_bist.py) on the controller: the self test writes  *)
(* a pattern to every word in one command, reads every word back in        *)
(* another, and compares. It shares the controller with the masters of     *)
(* SdramCtl, and the host starts it while they rest (do_sdramtests).       *)
(*                                                                         *)
(* Its address counter is maddr, its request and transfer are those of     *)
(* mstate. A word holds the pattern once the test wrote it, unless it is   *)
(* one of the bad words of the chip.                                       *)
(***************************************************************************)
EXTENDS SdramCtl

CONSTANT Faulty      \* the sets of bad words considered

ASSUME BistAssumption == Faulty \subseteq SUBSET Addr

VARIABLES bist,      \* fsm of SDRAMBIST
          ok,
          holds,     \* words that hold the pattern of the test
          bad        \* words of the chip that do not keep it

bistVars == << bist, ok, holds, bad >>
allVars  == << vars, bistVars >>

LastAddr == maddr = Rows * Cols - 1

\* d_term of the self test.
BistTerm == bist \in {"WRITE-TERM", "READ-TERM"}

\* The word strobed is not the one expected.
Mismatch == pipe[tCL + 2] # maddr \/ maddr \notin holds

-----------------------------------------------------------------------------
\* The host writes GO.
BistStart ==
    /\ bist = "IDLE" /\ mstate = "IDLE"
    /\ bist' = "WAIT_ISSUE_WR" /\ ok' = TRUE
    /\ mstate' = "REQ" /\ mwr' = TRUE /\ maddr' = 0
    /\ holds' = {} /\ bad' \in Faulty

\* A command from address 0 is asked for until it is acknowledged. A word
\* strobed meanwhile would be compared.
BistIssue ==
    /\ bist \in {"WAIT_ISSUE_WR", "WAIT_ISSUE_READ"}
    /\ IF Accepts(FALSE)
       THEN mstate' = "DATA" /\ bist' = IF mwr THEN "WRITE" ELSE "READ"
       ELSE UNCHANGED << mstate, bist >>
    /\ ok' = (ok /\ ~(bist = "WAIT_ISSUE_READ" /\ DStb /\ Mismatch))
    /\ UNCHANGED << mwr, maddr, holds, bad >>

\* Variant: the command is ended a word early.
BistLastEarly == maddr = Rows * Cols - 2
BistLast == LastAddr

BistTransfer ==
    /\ bist \in {"WRITE", "READ"}
    /\ maddr' = IF DStb THEN (maddr + 1) % (Rows * Cols) ELSE maddr
    /\ IF DStb /\ BistLast
       THEN mstate' = "WAIT" /\ bist' = IF mwr THEN "WRITE-TERM" ELSE "READ-TERM"
       ELSE UNCHANGED << mstate, bist >>
    /\ ok' = (ok /\ ~(bist = "READ" /\ DStb /\ Mismatch))
    /\ holds' = IF bist = "WRITE" /\ DStb THEN holds \cup ({ChipWord} \ bad) ELSE holds
    /\ UNCHANGED << mwr, bad >>

BistTurn ==
    /\ bist = "WRITE-TERM"
    /\ IF DStb
       THEN bist' = "WAIT_ISSUE_READ" /\ mstate' = "REQ" /\ mwr' = FALSE /\ maddr' = 0
       ELSE UNCHANGED << bist, masterVars >>
    /\ UNCHANGED << ok, holds, bad >>

BistFinish ==
    /\ bist = "READ-TERM"
    /\ IF DStb
       THEN bist' = "IDLE" /\ mstate' = "IDLE" /\ maddr' = 0 /\ bad' = {} /\ holds' = {}
       ELSE UNCHANGED << bist, mstate, maddr, bad, holds >>
    /\ UNCHANGED << ok, mwr >>

BistClock ==
    /\ Control(BistTerm)
    /\ BistStart \/ BistIssue \/ BistTransfer \/ BistTurn \/ BistFinish

-----------------------------------------------------------------------------
BistInit == Init /\ bist = "IDLE" /\ ok = FALSE /\ holds = {} /\ bad = {}

StreamClock == bist = "IDLE" /\ (\E term \in BOOLEAN : Clock(term)) /\ UNCHANGED bistVars

BistNext == BistClock \/ StreamClock

\* The clock runs; nothing is asked of the masters beyond holding d_term.
BistSpec == BistInit /\ [][BistNext]_allVars /\ WF_allVars(BistNext)

-----------------------------------------------------------------------------
(* Properties.                                                             *)

BistTypeOK ==
    /\ TypeOK
    /\ bist \in {"IDLE", "WAIT_ISSUE_WR", "WRITE", "WRITE-TERM",
                 "WAIT_ISSUE_READ", "READ", "READ-TERM"}
    /\ ok \in BOOLEAN /\ holds \subseteq Addr /\ bad \subseteq Addr
    /\ mstate = CASE bist \in {"WAIT_ISSUE_WR", "WAIT_ISSUE_READ"} -> "REQ"
                  [] bist \in {"WRITE", "READ"} -> "DATA"
                  [] bist \in {"WRITE-TERM", "READ-TERM"} -> "WAIT"
                  [] OTHER -> mstate
    /\ bist \in {"WAIT_ISSUE_READ", "READ"} => holds = Addr \ bad

\* The test passes exactly if the chip keeps every word: none is left out, and
\* the controller mixes up none, over all rows and with refreshes in between.
Verdict ==
    [][ (bist = "READ-TERM" /\ bist' = "IDLE") => (ok' <=> bad = {}) ]_allVars

\* Streams go on and end, and so does a test that is begun: the host sees the
\* busy bit fall.
TestEnds ==
    /\ Progress
    /\ (bist # "IDLE") ~> (bist = "IDLE")
=============================================================================
