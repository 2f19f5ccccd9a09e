--------------------------- MODULE SdramCtl_proofs ---------------------------
(***************************************************************************)
(* Proofs about the memory controller, for every size of the chip and all  *)
(* timings the assumption allows, and for every master that keeps to the   *)
(* handshake: the masters of SdramCtl and the self test are two of them.   *)
(***************************************************************************)
EXTENDS SdramBist, SequenceTheorems, TLAPS

(* Addresses: a word is a row and a column.                                *)

LEMMA Sizes == Rows \in Nat \ {0} /\ Cols \in Nat \ {0}
    BY ControllerAssumption

LEMMA DivMod ==
    ASSUME NEW n \in Nat \ {0}, NEW m \in Nat \ {0}, NEW a \in 0 .. n * m - 1
    PROVE  /\ a \div m \in 0 .. n - 1 /\ a % m \in 0 .. m - 1
           /\ a = (a \div m) * m + (a % m)
<1>1. a \div m \in Nat /\ a \div m < n
    OBVIOUS
<1>2. a % m \in 0 .. m - 1 /\ a = (a \div m) * m + (a % m)
    OBVIOUS
<1> QED
    BY <1>1, <1>2

LEMMA MulDiv ==
    ASSUME NEW n \in Nat \ {0}, NEW m \in Nat \ {0}, NEW r \in 0 .. n - 1, NEW c \in 0 .. m - 1
    PROVE  r * m + c \in 0 .. n * m - 1 /\ (r * m + c) \div m = r /\ (r * m + c) % m = c
<1>1. r * m + c \in Nat /\ n * m \in Nat /\ r * m <= (n - 1) * m
    OBVIOUS
<1>2. (n - 1) * m = n * m - m
    OBVIOUS
<1>3. (r * m + c) \div m = r /\ (r * m + c) % m = c
    OBVIOUS
<1> QED
    BY <1>1, <1>2, <1>3

\* The row and the column of a word, and the word at a row and a column.
LEMMA WordIs ==
    ASSUME NEW a \in Addr
    PROVE  /\ a \div Cols \in 0 .. Rows - 1 /\ a % Cols \in 0 .. Cols - 1
           /\ a = (a \div Cols) * Cols + (a % Cols)
    BY Sizes, DivMod DEF Addr

LEMMA WordAt ==
    ASSUME NEW r \in 0 .. Rows - 1, NEW c \in 0 .. Cols - 1
    PROVE  r * Cols + c \in Addr /\ (r * Cols + c) \div Cols = r /\ (r * Cols + c) % Cols = c
    BY Sizes, MulDiv DEF Addr

\* The address counters go from the last word to the first.
LEMMA Follow ==
    ASSUME NEW a \in Addr
    PROVE  (a + 1) % (Rows * Cols) = IF a = Rows * Cols - 1 THEN 0 ELSE a + 1
<1> DEFINE n == Rows * Cols
<1>1. n \in Nat \ {0} /\ a \in 0 .. n - 1
    BY Sizes DEF Addr
<1> HIDE DEF n
<1>2. (a + 1) % n = IF a = n - 1 THEN 0 ELSE a + 1
    BY <1>1
<1> QED
    BY <1>2 DEF n

LEMMA FollowIn ==
    ASSUME NEW a \in Addr
    PROVE  (a + 1) % (Rows * Cols) \in Addr
    BY Follow, Sizes DEF Addr

\* Inside a row the burst of the chip is at the word that follows.
LEMMA InRow ==
    ASSUME NEW a \in Addr, a % Cols # Cols - 1
    PROVE  /\ a + 1 \in Addr /\ NextInRow(a) = a + 1 /\ (a + 1) % (Rows * Cols) = a + 1
           /\ (a + 1) \div Cols = a \div Cols /\ (a + 1) % Cols = (a % Cols) + 1
<1> DEFINE r == a \div Cols
           c == (a % Cols) + 1
<1>1. r \in 0 .. Rows - 1 /\ c \in 1 .. Cols - 1 /\ a = r * Cols + (c - 1)
    BY WordIs, Sizes
<1> HIDE DEF r, c
<1>2. c \in 0 .. Cols - 1 /\ a + 1 = r * Cols + c
    BY <1>1, Sizes
<1>3. a + 1 \in Addr /\ (a + 1) \div Cols = r /\ (a + 1) % Cols = c
    BY <1>1, <1>2, WordAt
<1>4. (a + 1) % (Rows * Cols) = a + 1
    BY <1>3, Follow DEF Addr
<1>5. NextInRow(a) = a + 1
    BY <1>2, <1>3 DEF r, NextInRow
<1> QED
    BY <1>1, <1>3, <1>4, <1>5 DEF r, c

LEMMA NextInRowIn ==
    ASSUME NEW a \in Addr
    PROVE  NextInRow(a) \in Addr
<1>1. a + 1 \in Nat
    BY Sizes DEF Addr
<1>2. a \div Cols \in 0 .. Rows - 1 /\ (a + 1) % Cols \in 0 .. Cols - 1
    BY <1>1, WordIs, Sizes
<1> QED
    BY <1>2, WordAt DEF NextInRow

\* The row that follows starts with the word after the last of this one.
LEMMA NextRowIs ==
    ASSUME NEW a \in Addr
    PROVE  NextRow(a) \in Addr /\ NextRow(a) % Cols = 0
<1> DEFINE r == a \div Cols
           c == Cols - 1
           e == r * Cols + c
<1>1. r \in 0 .. Rows - 1 /\ c \in 0 .. Cols - 1
    BY WordIs, Sizes
<1>2. r * Cols + Cols = e + 1 /\ e + 1 = (r + 1) * Cols + 0
    BY <1>1, Sizes
<1> HIDE DEF r, c
<1>3. e \in Addr
    BY <1>1, WordAt
<1> HIDE DEF e
<1>4. NextRow(a) = IF e = Rows * Cols - 1 THEN 0 ELSE e + 1
    <2>1. NextRow(a) = (r * Cols + Cols) % (Rows * Cols)
        BY DEF NextRow, r
    <2>2. NextRow(a) = (e + 1) % (Rows * Cols)
        BY <1>2, <2>1, Zenon
    <2> QED
        BY <1>3, <2>2, Follow
<1>5. e # Rows * Cols - 1 => r # Rows - 1
    BY <1>1, <1>2, <1>3, Sizes DEF Addr
<1>6. CASE e = Rows * Cols - 1
    BY <1>4, <1>6, Sizes DEF Addr
<1>7. CASE e # Rows * Cols - 1
    <2>1. r + 1 \in 0 .. Rows - 1 /\ 0 \in 0 .. Cols - 1
        BY <1>1, <1>5, <1>7, Sizes
    <2>2. (r + 1) * Cols + 0 \in Addr /\ ((r + 1) * Cols + 0) % Cols = 0
        BY <2>1, WordAt
    <2> QED
        BY <1>2, <1>4, <1>7, <2>2
<1> QED
    BY <1>6, <1>7

LEMMA AfterRow ==
    ASSUME NEW a \in Addr, NEW b \in Addr, a \div Cols = b \div Cols, a % Cols = Cols - 1
    PROVE  (a + 1) % (Rows * Cols) = NextRow(b)
<1> DEFINE r == b \div Cols
<1>1. r \in 0 .. Rows - 1 /\ a = r * Cols + (Cols - 1)
    BY WordIs
<1>2. NextRow(b) = (r * Cols + Cols) % (Rows * Cols)
    BY DEF NextRow
<1> HIDE DEF r
<1>3. a + 1 = r * Cols + Cols
    BY <1>1, Sizes
<1> QED
    BY <1>2, <1>3, Zenon
-----------------------------------------------------------------------------
(* Commands and timing.                                                    *)

\* The state that counts: in DELAY the one to be entered, and the clocks left.
Ahead == IF fsm = "DELAY" THEN target ELSE fsm
Left  == IF fsm = "DELAY" THEN wait ELSE 0

Setup == {"RESET", "INIT_IDLE", "INIT_PRECHARGE", "INIT_REFRESH1", "INIT_REFRESH2", "INIT_MODE"}
Activating == {"READ_ACTIVE", "WRITE_ACTIVE"}
Bursting   == {"READ", "READING", "WRITE", "WRITING"}

ChipTypes == rowTimer \in Nat /\ colTimer \in Nat /\ writeTimer \in Nat

DelayInv ==
    fsm = "DELAY" =>
        /\ wait # 0
        /\ target \in {"INIT_PRECHARGE", "INIT_REFRESH1", "INIT_REFRESH2", "INIT_MODE",
                      "IDLE", "READ", "WRITE"}

\* What the chip needs before the command of the state ahead has passed when
\* the delay has.
ChipInv ==
    /\ Ahead \in Setup \cup Activating \cup {"IDLE", "REFRESH"} => row = None /\ rowTimer <= Left
    /\ Ahead \in Bursting => row = iptr \div Cols /\ colTimer <= Left
    /\ writeTimer <= IF fsm \in {"WRITING", "PRECHARGE_TWR"} THEN tWR - 1 ELSE 0
    /\ Ahead \notin Setup => ready
    /\ fsm = "PRECHARGE_TWR" => tWR = 2

\* How far refresh_ctr may be, state by state: in IDLE it is looked at, and a
\* command is begun only before the interval is over.
RefreshInv ==
    LET most == refreshInterval + LongestCommand IN
    /\ fsm = "RESET" => refreshCtr = resetCtr
    /\ Ahead = "INIT_IDLE" => refreshCtr <= tRESET + 1
    /\ Ahead = "INIT_PRECHARGE" => refreshCtr + Left <= tRESET + 6
    /\ Ahead = "INIT_REFRESH1" => refreshCtr + Left <= tRESET + tRP + 6
    /\ Ahead = "INIT_REFRESH2" => refreshCtr + Left <= LongestCommand + tRFC - 1
    /\ Ahead = "INIT_MODE" => refreshCtr + Left <= LongestCommand + tRFC - 4
    /\ Ahead = "IDLE" => refreshCtr + Left <= most - 2
    /\ fsm = "REFRESH" => refreshCtr <= most - 1
    /\ fsm \in Activating => refreshCtr <= refreshInterval
    /\ Ahead \in {"READ", "WRITE"} => refreshCtr + Left <= refreshInterval + tRCD
    /\ fsm \in {"READING", "WRITING"} => refreshCtr <= refreshInterval + tRCD + colCnt
    /\ fsm = "PRECHARGE_TWR" => refreshCtr <= refreshInterval + tRCD + Cols
    /\ fsm = "PRECHARGE" => refreshCtr <= refreshInterval + tRCD + Cols + tWR - 1

\* The column counter and the burst of the chip go together.
CursorInv ==
    /\ Ahead \in Activating \cup {"READ", "WRITE"} => colCnt = iptr % Cols
    /\ fsm \in {"READING", "WRITING"} => burst = row * Cols + colCnt

TimingInv == TypeOK /\ ChipTypes /\ DelayInv /\ ChipInv /\ CursorInv /\ RefreshInv /\ refreshCtr \in Nat

\* What the proofs use of the constants.
LEMMA Constants ==
    /\ Cols \in Nat \ {0} /\ tRP \in Nat \ {0} /\ tRFC \in Nat \ {0} /\ tRCD \in Nat \ {0}
    /\ tRESET \in Nat \ {0} /\ tCL \in Nat \ {0} /\ tWR \in {1, 2} /\ tRP >= tCL + 1
    /\ CtrSize \in Nat \ {0} /\ refreshInterval \in Nat /\ refreshInterval > tRFC + 1
    /\ LongestCommand \in Nat
    /\ tRESET + tRP + 6 <= refreshInterval + LongestCommand
    /\ CtrSize > refreshInterval + LongestCommand
    /\ LongestCommand = tRCD + Cols + tWR + tRP + 1
    BY ControllerAssumption DEF refreshInterval, LongestCommand

\* The command on the bus.
LEMMA Commands ==
    ASSUME fsm \in States
    PROVE  /\ Cmd = "PRECHARGE" <=> fsm \in {"INIT_PRECHARGE", "PRECHARGE"}
           /\ Cmd = "AUTO_REFRESH" <=> fsm \in {"INIT_REFRESH1", "INIT_REFRESH2", "REFRESH"}
           /\ Cmd = "LOAD_MODE" <=> fsm = "INIT_MODE"
           /\ Cmd = "ACTIVE" <=> fsm \in Activating
           /\ Cmd = "WRITE" <=> fsm = "WRITE"
           /\ Cmd = "READ" <=> fsm = "READ"
           /\ Cmd = "BURST_TERM" <=> fsm = "PRECHARGE_TWR"
    BY DEF Cmd, States, Activating

\* What IDLE does.
LEMMA IdleChoice ==
    ASSUME NEW term \in BOOLEAN, Idle(term)
    PROVE  /\ fsm = "IDLE" /\ wait' = wait /\ target' = target
           /\ \/ /\ RefreshDue /\ ~Accepts(term) /\ ~Reissues(term)
                 /\ fsm' = "REFRESH"
              \/ /\ ~RefreshDue /\ ~Accepts(term) /\ Reissues(term) /\ Reissue(term)
                 /\ fsm' = IF iwr THEN "WRITE_ACTIVE" ELSE "READ_ACTIVE"
              \/ /\ ~RefreshDue /\ Accepts(term) /\ ~Reissues(term) /\ ~Reissue(term) /\ IStb
                 /\ fsm' = IF mwr THEN "WRITE_ACTIVE" ELSE "READ_ACTIVE"
              \/ /\ ~RefreshDue /\ ~Accepts(term) /\ ~Reissues(term)
                 /\ fsm' = "IDLE"
<1>1. CASE RefreshDue
    <2>1. Choice(term) = "refresh"
        BY <1>1 DEF Choice
    <2> QED
        BY <1>1, <2>1 DEF Idle, Goto, Accepts, Reissues
<1>2. CASE ~RefreshDue /\ Reissue(term)
    <2>1. Choice(term) = "reissue"
        BY <1>2 DEF Choice
    <2> QED
        BY <1>2, <2>1 DEF Idle, Goto, Accepts, Reissues
<1>3. CASE ~RefreshDue /\ ~Reissue(term) /\ IStb
    <2>1. Choice(term) = "accept"
        BY <1>3 DEF Choice
    <2> QED
        BY <1>3, <2>1 DEF Idle, Goto, Accepts, Reissues
<1>4. CASE ~RefreshDue /\ ~Reissue(term) /\ ~IStb
    <2>1. Choice(term) = "stay"
        BY <1>4 DEF Choice
    <2> QED
        BY <1>4, <2>1 DEF Idle, fsmVars, Accepts, Reissues
<1> QED
    BY <1>1, <1>2, <1>3, <1>4

LEMMA OnlyIdle ==
    ASSUME NEW term \in BOOLEAN, fsm # "IDLE"
    PROVE  ~Accepts(term) /\ ~Reissues(term)
    BY DEF Accepts, Reissues

\* The chip in a clock.
ChipMoves(term) ==
    /\ row' = IF fsm \in Activating THEN iptr \div Cols
              ELSE IF fsm \in {"INIT_PRECHARGE", "PRECHARGE"} THEN None ELSE row
    /\ burst' = IF fsm \in {"PRECHARGE_TWR", "INIT_PRECHARGE", "PRECHARGE"} THEN None
                ELSE IF fsm \in {"READ", "WRITE"} THEN NextInRow(ChipWord)
                ELSE IF burst = None THEN None ELSE NextInRow(burst)
    /\ ready' = (ready \/ fsm = "INIT_MODE")
    /\ rowTimer' = IF fsm \in {"INIT_PRECHARGE", "PRECHARGE"} THEN tRP - 1
                   ELSE IF fsm \in {"INIT_REFRESH1", "INIT_REFRESH2", "REFRESH"} THEN tRFC - 1
                   ELSE IF fsm = "INIT_MODE" THEN tMRD - 1 ELSE Less(rowTimer)
    /\ colTimer' = IF fsm \in Activating THEN tRCD - 1 ELSE Less(colTimer)
    /\ writeTimer' = IF WriteCycle /\ ~term THEN tWR - 1 ELSE Less(writeTimer)

LEMMA ChipSteps ==
    ASSUME fsm \in States, NEW term \in BOOLEAN, Chip(term)
    PROVE  ChipMoves(term)
<1> USE DEF ChipMoves
<1>1. fsm \in Activating => Cmd = "ACTIVE"
    BY Commands
<1>2. fsm \in {"INIT_PRECHARGE", "PRECHARGE"} => Cmd = "PRECHARGE"
    BY Commands
<1>3. fsm \in {"INIT_REFRESH1", "INIT_REFRESH2", "REFRESH"} => Cmd = "AUTO_REFRESH"
    BY Commands
<1>4. /\ fsm = "INIT_MODE" <=> Cmd = "LOAD_MODE"
      /\ fsm = "PRECHARGE_TWR" <=> Cmd = "BURST_TERM"
      /\ fsm \in {"READ", "WRITE"} <=> Cmd \in {"READ", "WRITE"}
    BY Commands
<1>5. /\ row' = IF Cmd = "ACTIVE" THEN iptr \div Cols ELSE IF Cmd = "PRECHARGE" THEN None ELSE row
      /\ burst' = IF Cmd \in {"BURST_TERM", "PRECHARGE"} THEN None
                  ELSE IF Cmd \in {"READ", "WRITE"} THEN NextInRow(ChipWord)
                  ELSE IF burst = None THEN None ELSE NextInRow(burst)
      /\ rowTimer' = IF Cmd = "PRECHARGE" THEN tRP - 1 ELSE IF Cmd = "AUTO_REFRESH" THEN tRFC - 1
                     ELSE IF Cmd = "LOAD_MODE" THEN tMRD - 1 ELSE Less(rowTimer)
    BY DEF Chip
<1> QED
    BY <1>5, Commands DEF Chip

LEMMA Bounded ==
    ASSUME TimingInv
    PROVE  /\ refreshCtr <= refreshInterval + LongestCommand
           /\ fsm \notin {"INIT_REFRESH1", "REFRESH"} => refreshCtr < refreshInterval + LongestCommand
    BY Constants DEF TimingInv, TypeOK, States, DelayInv, RefreshInv, Ahead, Left, Activating

\* The counters, which do not wrap where they are looked at.
CounterMoves ==
    /\ resetCtr' \in 0 .. tRESET
    /\ fsm = "RESET" /\ resetCtr # tRESET => resetCtr' = resetCtr + 1
    /\ refreshCtr' = IF fsm \in {"INIT_REFRESH1", "INIT_REFRESH2", "REFRESH"}
                     THEN IF refreshCtr > refreshInterval THEN refreshCtr - refreshInterval
                                                          ELSE 0
                     ELSE refreshCtr + 1
    /\ refreshCtr' \in Nat

LEMMA CounterSteps ==
    ASSUME TimingInv, Counters
    PROVE  CounterMoves
<1> USE DEF CounterMoves
<1>1. resetCtr' \in 0 .. tRESET /\ (resetCtr # tRESET => resetCtr' = resetCtr + 1)
    <2>1. resetCtr \in 0 .. tRESET /\ resetCtr' = (resetCtr + 1) % (tRESET + 1)
        BY DEF Counters, TimingInv, TypeOK
    <2> QED
        BY <2>1, Constants
<1>2. /\ refreshCtr \in Nat /\ fsm \in States
      /\ fsm \notin {"INIT_REFRESH1", "REFRESH"} => refreshCtr + 1 < CtrSize
    BY Bounded, Constants DEF TimingInv, TypeOK
<1>3. fsm \notin {"INIT_REFRESH1", "REFRESH"} => (refreshCtr + 1) % CtrSize = refreshCtr + 1
    BY <1>2, Constants
<1>4. Cmd = "AUTO_REFRESH" <=> fsm \in {"INIT_REFRESH1", "INIT_REFRESH2", "REFRESH"}
    BY <1>2, Commands
<1>5. CASE Cmd = "AUTO_REFRESH" /\ refreshCtr > refreshInterval
    BY <1>1, <1>2, <1>4, <1>5, Constants DEF Counters
<1>6. CASE Cmd = "AUTO_REFRESH" /\ ~(refreshCtr > refreshInterval)
    <2>1. refreshCtr <= refreshInterval
        BY <1>2, <1>6, Constants
    <2> QED
        BY <1>1, <1>2, <1>4, <1>6, <2>1, Constants DEF Counters
<1>7. CASE Cmd # "AUTO_REFRESH"
    <2>1. refreshCtr' = (refreshCtr + 1) % CtrSize
        BY <1>7 DEF Counters
    <2> QED
        BY <1>1, <1>2, <1>3, <1>4, <1>7, <2>1
<1> QED
    BY <1>5, <1>6, <1>7

\* The words under way move on by a clock.
LEMMA PipeShift ==
    ASSUME pipe \in [1 .. tCL + 2 -> Addr \cup {None}], Pipeline,
           ReadCycle => ChipWord \in Addr
    PROVE  /\ pipe' \in [1 .. tCL + 2 -> Addr \cup {None}]
           /\ pipe'[1] = IF ReadCycle THEN ChipWord ELSE None
           /\ \A i \in 1 .. tCL + 1 : pipe'[i + 1] = pipe[i]
<1> DEFINE w == IF ReadCycle THEN ChipWord ELSE None
           T == Addr \cup {None}
<1>1. w \in T
    OBVIOUS
<1>2. pipe \in Seq(T) /\ Len(pipe) = tCL + 2 /\ tCL \in Nat
    BY Constants
<1>3. pipe' = << w >> \o SubSeq(pipe, 1, tCL + 1)
    BY DEF Pipeline
<1> HIDE DEF w, T
<1>4. /\ SubSeq(pipe, 1, tCL + 1) \in Seq(T) /\ Len(SubSeq(pipe, 1, tCL + 1)) = tCL + 1
      /\ \A i \in 1 .. tCL + 1 : SubSeq(pipe, 1, tCL + 1)[i] = pipe[i]
    BY <1>2, SubSeqProperties
<1>5. /\ pipe' \in Seq(T) /\ Len(pipe') = tCL + 2 /\ pipe'[1] = w
      /\ \A i \in 1 .. tCL + 1 : pipe'[i + 1] = pipe[i]
    BY <1>1, <1>2, <1>3, <1>4
<1>6. pipe' \in [1 .. tCL + 2 -> T]
    BY <1>5
<1> QED
    BY <1>5, <1>6 DEF w, T

\* The word the chip transfers, by its row and its column.
LEMMA WordNow ==
    ASSUME TimingInv, ReadCycle \/ WriteCycle
    PROVE  /\ ChipWord \in Addr /\ ChipWord \div Cols = iptr \div Cols /\ ChipWord % Cols = colCnt
           /\ fsm \in {"READ", "WRITE"} => ChipWord = iptr
           /\ fsm \in {"READING", "WRITING"} => ChipWord = burst
<1> USE DEF TimingInv, TypeOK, CursorInv, ChipInv, Ahead, Bursting, ReadCycle, WriteCycle
<1>1. iptr \in Addr /\ colCnt \in 0 .. Cols - 1 /\ row = iptr \div Cols /\ fsm \in States
    OBVIOUS
<1>2. CASE fsm \in {"READ", "WRITE"}
    <2>1. ChipWord = row * Cols + (iptr % Cols)
        BY <1>1, <1>2, Commands DEF ChipWord
    <2>2. ChipWord = iptr /\ colCnt = iptr % Cols
        BY <1>1, <1>2, <2>1, WordIs
    <2> QED
        BY <1>1, <1>2, <2>2
<1>3. CASE fsm \in {"READING", "WRITING"}
    <2>1. ChipWord = row * Cols + colCnt /\ ChipWord = burst
        BY <1>1, <1>3, Commands DEF ChipWord
    <2> QED
        BY <1>1, <1>3, <2>1, WordAt, WordIs
<1> QED
    BY <1>2, <1>3
-----------------------------------------------------------------------------
(* The master: what the proofs rest on of the handshake (hostif).          *)

AnyMaster(term) ==
    /\ mstate' \in {"IDLE", "REQ", "DATA", "WAIT"} /\ mwr' \in BOOLEAN /\ maddr' \in Addr
    /\ term => mstate \in {"DATA", "WAIT"} /\ mstate' # "DATA"
    /\ mstate = "WAIT" => term
    /\ mstate = "IDLE" => mstate' \in {"IDLE", "REQ"}
    /\ mstate = "REQ" => IF Accepts(term) THEN mstate' = "DATA" /\ maddr' = maddr
                                          ELSE mstate' \in {"IDLE", "REQ"}
    /\ mstate \in {"DATA", "WAIT"} => IF DStb /\ term THEN mstate' \in {"IDLE", "REQ"}
                                                      ELSE mstate' \in {"DATA", "WAIT"}
    /\ mstate = "DATA" /\ mstate' = "DATA" =>
            maddr' = IF DStb THEN (maddr + 1) % (Rows * Cols) ELSE maddr
-----------------------------------------------------------------------------
(* A clock, part by part.                                                  *)

\* The state machine is in s in d clocks.
To(s, d) ==
    /\ Ahead' = s /\ Left' = d - 1
    /\ IF d = 1 THEN fsm' = s ELSE fsm' = "DELAY" /\ wait' = d - 1 /\ target' = s

LEMMA ToIs ==
    ASSUME NEW s \in States \ {"DELAY"}
    PROVE  /\ Goto(s) => To(s, 1)
           /\ \A d \in Nat \ {0} : Enter(s, d) => To(s, d)
    BY DEF To, Enter, Goto, Ahead, Left

FsmMoves(term) ==
    \/ /\ fsm = "DELAY" /\ Ahead' = Ahead /\ Left' = Left - 1
       /\ IF wait = 1 THEN fsm' = target
                      ELSE fsm' = "DELAY" /\ wait' = wait - 1 /\ target' = target
    \/ fsm = "RESET" /\ IF resetCtr = tRESET THEN To("INIT_IDLE", 1) ELSE To("RESET", 1)
    \/ fsm = "INIT_IDLE" /\ To("INIT_PRECHARGE", 5)
    \/ fsm = "INIT_PRECHARGE" /\ To("INIT_REFRESH1", tRP)
    \/ fsm = "INIT_REFRESH1" /\ To("INIT_REFRESH2", tRFC)
    \/ fsm = "INIT_REFRESH2" /\ To("INIT_MODE", tRFC)
    \/ fsm = "INIT_MODE" /\ To("IDLE", 3)
    \/ fsm = "IDLE" /\ RefreshDue /\ To("REFRESH", 1) /\ ~Accepts(term) /\ ~Reissues(term)
    \/ /\ fsm = "IDLE" /\ ~RefreshDue /\ Reissue(term) /\ ~Accepts(term) /\ Reissues(term)
       /\ To(IF iwr THEN "WRITE_ACTIVE" ELSE "READ_ACTIVE", 1)
    \/ /\ fsm = "IDLE" /\ ~RefreshDue /\ Accepts(term) /\ ~Reissues(term)
       /\ ~Reissue(term) /\ IStb /\ To(IF mwr THEN "WRITE_ACTIVE" ELSE "READ_ACTIVE", 1)
    \/ fsm = "IDLE" /\ ~RefreshDue /\ ~Accepts(term) /\ ~Reissues(term) /\ To("IDLE", 1)
    \/ fsm = "WRITE_ACTIVE" /\ To("WRITE", tRCD)
    \/ fsm = "READ_ACTIVE" /\ To("READ", tRCD)
    \/ WriteCycle /\ ~term /\ ~LastCol /\ To("WRITING", 1)
    \/ WriteCycle /\ (term \/ (LastCol /\ tWR = 1)) /\ To("PRECHARGE", 1)
    \/ WriteCycle /\ ~term /\ LastCol /\ tWR = 2 /\ To("PRECHARGE_TWR", 1)
    \/ ReadCycle /\ CanContinueRead(term) /\ To("READING", 1)
    \/ ReadCycle /\ ~CanContinueRead(term) /\ To("PRECHARGE", 1)
    \/ fsm = "PRECHARGE_TWR" /\ To("PRECHARGE", 1)
    \/ fsm = "PRECHARGE" /\ To("IDLE", tRP)
    \/ fsm = "REFRESH" /\ To("IDLE", tRFC)

LEMMA FsmSteps ==
    ASSUME TimingInv, NEW term \in BOOLEAN, Fsm(term)
    PROVE  FsmMoves(term)
<1> USE Constants DEF FsmMoves
<1>1. CASE Delay
    <2>1. wait \in Nat \ {0} /\ target # "DELAY"
        BY <1>1 DEF Delay, TimingInv, TypeOK, DelayInv
    <2> QED
        BY <1>1, <2>1 DEF Delay, Ahead, Left
<1>2. CASE Start
    <2>1. fsm = "RESET" /\ UNCHANGED fsmVars => To("RESET", 1)
        BY DEF To, fsmVars, Ahead, Left
    <2> QED
        BY <1>2, <2>1, ToIs DEF Start, States, tMRD
<1>3. CASE Idle(term)
    <2>1. fsm' # "DELAY" => To(fsm', 1)
        BY DEF To, Ahead, Left
    <2> QED
        BY <1>3, <2>1, IdleChoice
<1>4. CASE Write(term)
    <2>1. CASE fsm = "WRITE_ACTIVE" /\ Enter("WRITE", tRCD)
        BY <2>1, ToIs DEF States
    <2>2. CASE WriteCycle /\ Goto(IF CanContinueWrite(term) THEN "WRITING" ELSE WriteEnd(term))
        BY <2>2, ToIs DEF States, CanContinueWrite, WriteEnd, Dqm
    <2>3. CASE fsm = "PRECHARGE_TWR" /\ Enter("PRECHARGE", tWR - 1)
        <3>1. tWR - 1 = 1
            BY <2>3 DEF TimingInv, ChipInv
        <3> QED
            BY <2>3, <3>1, ToIs DEF States
    <2> QED
        BY <1>4, <2>1, <2>2, <2>3 DEF Write
<1>5. CASE Read(term)
    BY <1>5, ToIs DEF Read, States
<1>6. CASE Close
    BY <1>6, ToIs DEF Close, States
<1> QED
    BY <1>1, <1>2, <1>3, <1>4, <1>5, <1>6 DEF Fsm

CommandMoves(term) ==
    /\ fsm # "IDLE" => ~Accepts(term) /\ ~Reissues(term)
    /\ iptr' = IF Accepts(term) THEN maddr ELSE IF Reissues(term) THEN NextRow(iptr) ELSE iptr
    /\ iwr' = IF Accepts(term) THEN mwr ELSE iwr
    /\ colCnt' = IF Accepts(term) THEN maddr % Cols ELSE IF Reissues(term) THEN 0
                 ELSE IF WriteCycle \/ ReadCycle THEN (colCnt + 1) % Cols ELSE colCnt
    /\ needsReissue' = IF EndOfRow(term) THEN TRUE
                       ELSE IF Reissues(term) \/ killRead THEN FALSE ELSE needsReissue

LEMMA CommandSteps ==
    ASSUME TypeOK, NEW term \in BOOLEAN, Command(term)
    PROVE  CommandMoves(term)
<1> USE DEF CommandMoves
<1>1. Accepts(term) => ~Reissues(term)
    BY DEF Accepts, Reissues
<1>2. iptr' = IF Accepts(term) THEN maddr ELSE IF Reissues(term) THEN NextRow(iptr) ELSE iptr
    BY <1>1 DEF Command
<1>3. colCnt' = IF Accepts(term) THEN maddr % Cols ELSE IF Reissues(term) THEN 0
                ELSE IF WriteCycle \/ ReadCycle THEN (colCnt + 1) % Cols ELSE colCnt
    <2>1. WriteCycle \/ ReadCycle => ~Accepts(term) /\ ~Reissues(term)
        BY OnlyIdle DEF WriteCycle, ReadCycle
    <2> QED
        BY <1>1, <2>1 DEF Command
<1>4. needsReissue' = IF EndOfRow(term) THEN TRUE
                      ELSE IF Reissues(term) \/ killRead THEN FALSE ELSE needsReissue
    BY DEF Command, NeedsReissue
<1> QED
    BY <1>2, <1>3, <1>4, OnlyIdle DEF Command

KillMoves(term) ==
    killRead' = IF Returning /\ term THEN TRUE ELSE IF ~Returning THEN FALSE ELSE killRead

LEMMA KillSteps ==
    ASSUME NEW term \in BOOLEAN, KillRead(term)
    PROVE  KillMoves(term)
    BY DEF KillMoves, KillRead
\* The words under way move on by a clock.
PipeMoves ==
    /\ pipe' \in [1 .. tCL + 2 -> Addr \cup {None}]
    /\ pipe'[1] = IF ReadCycle THEN ChipWord ELSE None
    /\ \A i \in 1 .. tCL + 1 : pipe'[i + 1] = pipe[i]

LEMMA Moves ==
    ASSUME TimingInv, NEW term \in BOOLEAN, Control(term)
    PROVE  /\ fsm \in States /\ Left \in Nat
           /\ FsmMoves(term) /\ ChipMoves(term) /\ CounterMoves
           /\ CommandMoves(term) /\ KillMoves(term) /\ PipeMoves
<1>1. TypeOK /\ fsm \in States /\ Left \in Nat
    BY DEF TimingInv, TypeOK, Left
<1>2. PipeMoves
    BY <1>1, PipeShift, WordNow DEF Control, TypeOK, PipeMoves
<1> QED
    BY <1>1, <1>2, FsmSteps, ChipSteps, CounterSteps, CommandSteps, KillSteps DEF Control
-----------------------------------------------------------------------------
(* Timing: the states, the chip and the refresh counter in a clock.        *)

LEMMA StepTypes ==
    ASSUME TimingInv, NEW term \in BOOLEAN, Control(term), AnyMaster(term)
    PROVE  TypeOK' /\ ChipTypes' /\ refreshCtr' \in Nat
<1> USE Constants, Moves
<1>0. /\ TypeOK /\ ChipTypes /\ DelayInv /\ ChipInv
      /\ iptr \in Addr /\ maddr \in Addr /\ colCnt \in 0 .. Cols - 1
    BY DEF TimingInv, TypeOK
<1>1. fsm' \in States /\ target' \in States /\ wait' \in Nat
    <2>1. target \in States /\ wait \in Nat /\ (fsm = "DELAY" => wait # 0)
        BY <1>0 DEF TypeOK, DelayInv
    <2>2. CASE Delay
        BY <2>1, <2>2 DEF Delay, States
    <2>3. CASE Start
        BY <2>1, <2>3 DEF Start, Enter, Goto, fsmVars, States, tMRD
    <2>4. CASE Idle(term)
        BY <2>1, <2>4, IdleChoice DEF States
    <2>5. CASE Write(term)
        BY <1>0, <2>1, <2>5 DEF Write, Enter, Goto, WriteEnd, States, ChipInv
    <2>6. CASE Read(term) \/ Close
        BY <2>1, <2>6 DEF Read, Close, Enter, Goto, States
    <2> QED
        BY <2>2, <2>3, <2>4, <2>5, <2>6 DEF Control, Fsm
<1>2. resetCtr' \in 0 .. tRESET /\ refreshCtr' \in Nat
    BY DEF CounterMoves
<1>3. iptr' \in Addr /\ colCnt' \in 0 .. Cols - 1
    <2>1. maddr % Cols \in 0 .. Cols - 1 /\ NextRow(iptr) \in Addr
        BY <1>0, WordIs, NextRowIs
    <2>2. (colCnt + 1) % Cols \in 0 .. Cols - 1 /\ 0 \in 0 .. Cols - 1
        BY <1>0
    <2> QED
        BY <1>0, <2>1, <2>2 DEF CommandMoves
<1>4. {iwr', needsReissue', killRead', ready'} \subseteq BOOLEAN
    BY <1>0 DEF CommandMoves, KillMoves, ChipMoves, TypeOK
<1>5. row' \in (0 .. Rows - 1) \cup {None} /\ burst' \in Addr \cup {None}
    <2>1. /\ iptr \div Cols \in 0 .. Rows - 1
          /\ fsm \in {"READ", "WRITE"} => ChipWord \in Addr
          /\ row \in (0 .. Rows - 1) \cup {None} /\ burst \in Addr \cup {None}
        BY <1>0, WordIs, WordNow DEF TypeOK, ReadCycle, WriteCycle
    <2> QED
        BY <2>1, NextInRowIn DEF ChipMoves
<1>6. rowTimer' \in Nat /\ colTimer' \in Nat /\ writeTimer' \in Nat
    BY <1>0 DEF ChipMoves, ChipTypes, Less, tMRD
<1> QED
    BY <1>1, <1>2, <1>3, <1>4, <1>5, <1>6 DEF TypeOK, ChipTypes, AnyMaster, PipeMoves

LEMMA StepDelay ==
    ASSUME TimingInv, NEW term \in BOOLEAN, Control(term)
    PROVE  DelayInv'
<1>1. wait \in Nat /\ DelayInv /\ FsmMoves(term)
    BY Moves DEF TimingInv, TypeOK
<1> QED
    BY <1>1, Constants DEF To, DelayInv, FsmMoves

\* The cases of a clock: in a delay, while the chip is set up, in IDLE, in a
\* burst, and around one.
LEMMA StepChip ==
    ASSUME TimingInv, NEW term \in BOOLEAN, Control(term)
    PROVE  ChipInv'
<1>1. /\ fsm \in States /\ Left \in Nat /\ FsmMoves(term) /\ ChipMoves(term)
      /\ fsm # "IDLE" => iptr' = iptr
      /\ ChipTypes /\ DelayInv /\ ChipInv
    BY Moves DEF TimingInv, CommandMoves
<1> DEFINE r == iptr \div Cols
<1>2. /\ row' = IF fsm \in Activating THEN r
                ELSE IF fsm \in {"INIT_PRECHARGE", "PRECHARGE"} THEN None ELSE row
      /\ Ahead \in Bursting => row = r
      /\ fsm # "IDLE" => iptr' \div Cols = r
    BY <1>1 DEF ChipMoves, ChipInv, Ahead, Bursting
<1> HIDE DEF r
\* In a delay the timers run with it.
<1>3. CASE fsm = "DELAY"
    <2>1. Ahead' = Ahead /\ Left' = Left - 1 /\ Left \in Nat \ {0}
        BY <1>3, <1>1, Moves DEF FsmMoves, DelayInv, Left, ReadCycle, WriteCycle
    <2>2. /\ row' = row /\ rowTimer' = Less(rowTimer) /\ colTimer' = Less(colTimer)
          /\ writeTimer' = Less(writeTimer) /\ (ready => ready') /\ iptr' = iptr
        BY <1>3, <1>1 DEF ChipMoves, Activating, WriteCycle
    <2>3. fsm' # "PRECHARGE_TWR" /\ writeTimer = 0
        BY <1>3, <1>1 DEF FsmMoves, DelayInv, ChipInv, ChipTypes, ReadCycle, WriteCycle
    <2> QED
        BY <1>1, <2>1, <2>2, <2>3, Constants DEF ChipInv, ChipTypes, Less
<1> SUFFICES ASSUME fsm # "DELAY" PROVE ChipInv'
    BY <1>3
<1> USE Constants, <1>1 DEF FsmMoves, To, Ahead, Left
<1>4. Ahead' \in Bursting => row' = r /\ fsm # "IDLE"
    BY <1>2 DEF Activating, Bursting, ReadCycle, WriteCycle, DelayInv
<1>5. Ahead' \in Setup \cup Activating \cup {"IDLE", "REFRESH"} => row' = None
    BY <1>2 DEF ChipInv, Setup, Activating, DelayInv, ReadCycle, WriteCycle
<1>6. Ahead' \in Setup \cup Activating \cup {"IDLE", "REFRESH"} => rowTimer' <= Left'
    <2>2. CASE fsm \in Setup \cup {"PRECHARGE", "REFRESH", "IDLE"}
        BY <2>2 DEF ChipMoves, ChipTypes, ChipInv, Less, Setup, tMRD, ReadCycle, WriteCycle
    <2>3. CASE fsm \in Activating \cup Bursting \cup {"PRECHARGE_TWR"}
        BY <2>3 DEF Setup, Activating, Bursting, ReadCycle, WriteCycle
    <2> QED
        BY <2>2, <2>3 DEF States, Setup, Activating, Bursting
<1>7. Ahead' \in Bursting => colTimer' <= Left'
    <2>2. CASE fsm \in Activating
        BY <2>2 DEF ChipMoves, Activating, ReadCycle, WriteCycle
    <2>3. CASE fsm \in Bursting
        BY <2>3 DEF ChipMoves, ChipTypes, ChipInv, Less, Bursting, Activating, ReadCycle, WriteCycle
    <2>4. CASE fsm \notin Activating \cup Bursting
        BY <2>4 DEF Activating, Bursting, ReadCycle, WriteCycle
    <2> QED
        BY <2>2, <2>3, <2>4
<1>8. writeTimer' <= IF fsm' \in {"WRITING", "PRECHARGE_TWR"} THEN tWR - 1 ELSE 0
    BY DEF ChipMoves, ChipTypes, ChipInv, DelayInv, Less, ReadCycle, WriteCycle
<1>9. Ahead' \notin Setup => ready'
    BY DEF ChipMoves, ChipInv, Setup, ReadCycle, WriteCycle
<1>10. fsm' = "PRECHARGE_TWR" => tWR = 2
    BY DEF DelayInv
<1> QED
    BY <1>2, <1>4, <1>5, <1>6, <1>8, <1>9, <1>10, <1>7 DEF ChipInv

LEMMA StepRefresh ==
    ASSUME TimingInv, NEW term \in BOOLEAN, Control(term)
    PROVE  RefreshInv'
<1>1. /\ fsm \in States /\ Left \in Nat /\ FsmMoves(term) /\ CounterMoves
      /\ DelayInv /\ RefreshInv /\ resetCtr \in 0 .. tRESET /\ refreshCtr \in Nat
      /\ colCnt \in 0 .. Cols - 1 /\ (fsm = "PRECHARGE_TWR" => tWR = 2)
    BY Moves DEF TimingInv, TypeOK, ChipInv
<1> USE Constants, <1>1 DEF FsmMoves, CounterMoves, To, RefreshInv, Ahead, Left,
                            Setup, Activating, Bursting, ReadCycle, WriteCycle
<1>2. CASE fsm = "DELAY"
    BY <1>2 DEF DelayInv
<1>3. CASE fsm \in Setup
    BY <1>3
<1>4. CASE fsm = "IDLE"
    BY <1>4 DEF RefreshDue
<1>5. CASE fsm \in Activating
    BY <1>5
<1>6. CASE fsm \in Bursting
    <2>1. colCnt' = (colCnt + 1) % Cols
        BY <1>6, Moves DEF CommandMoves
    <2>2. colCnt # Cols - 1 => colCnt' = colCnt + 1
        BY <2>1
    <2> QED
        BY <1>6, <2>2 DEF LastCol, CanContinueRead
<1>7. CASE fsm \in {"PRECHARGE_TWR", "PRECHARGE", "REFRESH"}
    BY <1>7
<1> QED
    BY <1>2, <1>3, <1>4, <1>5, <1>6, <1>7 DEF States

LEMMA StepCursor ==
    ASSUME TimingInv, NEW term \in BOOLEAN, Control(term)
    PROVE  CursorInv'
<1>1. /\ fsm \in States /\ FsmMoves(term) /\ CommandMoves(term) /\ ChipMoves(term)
      /\ iptr \in Addr /\ maddr \in Addr /\ colCnt \in 0 .. Cols - 1
      /\ DelayInv /\ ChipInv /\ CursorInv
    BY Moves DEF TimingInv, TypeOK
<1> USE Constants, <1>1 DEF FsmMoves, CommandMoves, To, CursorInv, Ahead, Left,
                            Activating, Bursting, ReadCycle, WriteCycle
<1>2. CASE fsm \in Bursting
    <2>1. row' = row /\ row = iptr \div Cols /\ colCnt' = (colCnt + 1) % Cols
        BY <1>2 DEF ChipMoves, ChipInv
    <2>2. fsm' \in {"READING", "WRITING"} => colCnt # Cols - 1 /\ burst' = NextInRow(ChipWord)
        <3>1. ChipWord # None /\ (fsm \in {"READING", "WRITING"} => ChipWord = burst)
            BY <1>2, WordNow DEF None, Addr
        <3> QED
            BY <1>2, <3>1 DEF ChipMoves, LastCol, CanContinueRead
    <2>3. colCnt # Cols - 1 => NextInRow(ChipWord) = row * Cols + (colCnt + 1) /\ colCnt' = colCnt + 1
        <3> DEFINE w == ChipWord
        <3>1. w \in Addr /\ w \div Cols = row /\ w % Cols = colCnt
            BY <1>2, <2>1, WordNow
        <3> HIDE DEF w
        <3>2. w = row * Cols + colCnt /\ row \in Int
            BY <3>1, WordIs
        <3>3. colCnt # Cols - 1 => NextInRow(w) = w + 1
            BY <3>1, InRow
        <3>4. colCnt # Cols - 1 => (colCnt + 1) % Cols = colCnt + 1
            OBVIOUS
        <3> QED
            BY <2>1, <3>2, <3>3, <3>4 DEF w
    <2> QED
        BY <1>2, <2>1, <2>2, <2>3
<1>3. CASE fsm = "IDLE"
    BY <1>3, NextRowIs
<1>4. CASE fsm \notin Bursting \cup {"IDLE"}
    BY <1>4 DEF DelayInv
<1> QED
    BY <1>2, <1>3, <1>4
-----------------------------------------------------------------------------
(* Words under way.                                                        *)

Slots == 1 .. tCL + 2

Drained == \A i \in Slots : pipe[i] = None

\* The words under way are consecutive, with no gap; a read that ended is out
\* of the way when the next command can begin.
PipeInv ==
    /\ \A i, j, k \in Slots :
            i <= j /\ j <= k /\ pipe[i] # None /\ pipe[k] # None => pipe[j] # None
    /\ \A i \in 1 .. tCL + 1 :
            pipe[i] # None /\ pipe[i + 1] # None => pipe[i] = pipe[i + 1] + 1
    /\ fsm = "READING" => pipe[1] # None /\ burst = pipe[1] + 1
    /\ Ahead \notin {"IDLE", "PRECHARGE", "READING"} => Drained
    /\ fsm = "IDLE" => \A i \in 1 .. tCL + 1 : pipe[i] = None
    /\ fsm = "DELAY" /\ target = "IDLE" => \A i \in Slots : pipe[i] # None => i + wait > tRP

\* kill_read goes with the last word of the read it kills.
KillInv ==
    /\ killRead => Ahead \notin Bursting
    /\ killRead /\ ~Returning => Drained

\* Whatever may be strobed, now or in the next row, has a master that waits for it.
OwnerInv ==
    /\ ~Drained /\ ~killRead => ~iwr /\ mstate \in {"DATA", "WAIT"}
    /\ Ahead \in Activating \cup Bursting => mstate \in {"DATA", "WAIT"} /\ ~needsReissue
    /\ Ahead \in {"WRITE_ACTIVE", "WRITE", "WRITING"} => iwr
    /\ Ahead \in {"READ_ACTIVE", "READ", "READING"} => ~iwr
    /\ needsReissue /\ ~killRead => mstate \in {"DATA", "WAIT"}
    /\ needsReissue /\ iwr => Drained /\ ~killRead

\* The word under way that comes out first, and the one that comes out last.
Oldest(i) == pipe[i] # None /\ \A k \in i + 1 .. tCL + 2 : pipe[k] = None
Newest(i) == pipe[i] # None /\ \A k \in 1 .. i - 1 : pipe[k] = None

\* The master's word is the one that comes next, wherever it is now.
AddrInv ==
    /\ Ahead \in Activating \cup {"READ", "WRITE"} => maddr = iptr
    /\ fsm = "WRITING" => maddr = burst
    /\ ~killRead => \A i \in Slots : Oldest(i) => pipe[i] = maddr
    /\ needsReissue /\ ~killRead =>
            /\ Drained => maddr = NextRow(iptr)
            /\ \A i \in Slots : Newest(i) => (pipe[i] + 1) % (Rows * Cols) = NextRow(iptr)

StreamInv == PipeInv /\ KillInv /\ OwnerInv /\ (mstate = "DATA" => AddrInv)

\* What the pipeline is made of after a clock.
LEMMA PipeNext ==
    ASSUME TimingInv, NEW term \in BOOLEAN, Control(term)
    PROVE  /\ ReadCycle => pipe'[1] = ChipWord /\ pipe'[1] # None
           /\ ~ReadCycle => pipe'[1] = None
           /\ \A j \in 2 .. tCL + 2 : pipe'[j] = pipe[j - 1]
           /\ ~ReadCycle /\ (\A i \in 1 .. tCL + 1 : pipe[i] = None) => Drained'
           /\ ~ReadCycle /\ Drained => Drained'
<1>1. PipeMoves /\ (ReadCycle => ChipWord # None)
    BY Moves, WordNow DEF Addr, None
<1>2. \A j \in 2 .. tCL + 2 : pipe'[j] = pipe[j - 1]
    <2>1. SUFFICES ASSUME NEW j \in 2 .. tCL + 2 PROVE pipe'[j] = pipe[j - 1]
        OBVIOUS
    <2>2. j - 1 \in 1 .. tCL + 1 /\ (j - 1) + 1 = j
        BY Constants
    <2> QED
        BY <1>1, <2>2 DEF PipeMoves
<1>3. ASSUME ~ReadCycle, \A i \in 1 .. tCL + 1 : pipe[i] = None
      PROVE  Drained'
    <2>1. SUFFICES ASSUME NEW j \in 1 .. tCL + 2 PROVE pipe'[j] = None
        BY DEF Drained, Slots
    <2>2. j = 1 \/ (j \in 2 .. tCL + 2 /\ j - 1 \in 1 .. tCL + 1)
        BY Constants
    <2> QED
        BY <1>1, <1>2, <1>3, <2>2 DEF PipeMoves
<1>4. Drained => \A i \in 1 .. tCL + 1 : pipe[i] = None
    BY Constants DEF Drained, Slots
<1> QED
    BY <1>1, <1>2, <1>3, <1>4 DEF PipeMoves

\* A read that goes on is that of a burst, one word after the last.
LEMMA ReadOn ==
    ASSUME TimingInv, PipeInv, ReadCycle, ~Drained
    PROVE  fsm = "READING" /\ pipe[1] # None /\ ChipWord = pipe[1] + 1
    BY WordNow DEF PipeInv, ReadCycle, Ahead

LEMMA StepPipe ==
    ASSUME TimingInv, PipeInv, NEW term \in BOOLEAN, Control(term)
    PROVE  PipeInv'
<1> USE Constants
<1>0. DelayInv
    BY DEF TimingInv
<1>1. ASSUME NEW i \in Slots, NEW j \in Slots, NEW k \in Slots,
             i <= j, j <= k, pipe'[i] # None, pipe'[k] # None
      PROVE  pipe'[j] # None
    <2>1. CASE i = j \/ j = k
        BY <1>1, <2>1
    <2>2. CASE i < j /\ j < k
        <3>1. /\ j \in 2 .. tCL + 2 /\ k \in 2 .. tCL + 2
              /\ j - 1 \in Slots /\ k - 1 \in Slots /\ 1 \in Slots
              /\ 1 <= j - 1 /\ i - 1 <= j - 1 /\ j - 1 <= k - 1
            BY <2>2 DEF Slots
        <3>2. pipe[k - 1] # None /\ ~Drained
            BY <1>1, <3>1, PipeNext DEF Drained
        <3>3. CASE i = 1
            <4>1. pipe[1] # None
                BY <1>1, <3>2, <3>3, PipeNext, ReadOn
            <4> QED
                BY <3>1, <3>2, <4>1, PipeNext DEF PipeInv
        <3>4. CASE i # 1
            <4>1. i \in 2 .. tCL + 2 /\ i - 1 \in Slots
                BY <3>4 DEF Slots
            <4>2. pipe[i - 1] # None
                BY <1>1, <4>1, PipeNext
            <4> QED
                BY <3>1, <3>2, <4>1, <4>2, PipeNext DEF PipeInv
        <3> QED
            BY <3>3, <3>4
    <2> QED
        BY <1>1, <2>1, <2>2 DEF Slots
<1>2. ASSUME NEW i \in 1 .. tCL + 1, pipe'[i] # None, pipe'[i + 1] # None
      PROVE  pipe'[i] = pipe'[i + 1] + 1
    <2>1. i + 1 \in 2 .. tCL + 2 /\ (i + 1) - 1 = i /\ i \in Slots
        BY DEF Slots
    <2>2. pipe'[i + 1] = pipe[i]
        BY <2>1, PipeNext
    <2>3. CASE i = 1
        BY <1>2, <2>1, <2>2, <2>3, PipeNext, ReadOn DEF Drained
    <2>4. CASE i # 1
        <3>1. i \in 2 .. tCL + 2 /\ i - 1 \in 1 .. tCL + 1 /\ (i - 1) + 1 = i
            BY <2>4
        <3>2. pipe'[i] = pipe[i - 1]
            BY <3>1, PipeNext
        <3> QED
            BY <1>2, <2>2, <3>1, <3>2 DEF PipeInv
    <2> QED
        BY <2>3, <2>4
<1>3. ASSUME fsm' = "READING"
      PROVE  pipe'[1] # None /\ burst' = pipe'[1] + 1
    <2>1. ReadCycle /\ ~LastCol
        BY <1>3, Moves DEF TimingInv, DelayInv, FsmMoves, To, CanContinueRead
    <2>2. ChipWord \in Addr /\ ChipWord % Cols # Cols - 1
        BY <2>1, WordNow DEF LastCol
    <2>3. NextInRow(ChipWord) = ChipWord + 1
        BY <2>2, InRow
    <2>4. burst' = NextInRow(ChipWord)
        <3>1. ChipWord # None /\ (fsm = "READING" => ChipWord = burst)
            BY <2>1, <2>2, WordNow DEF None, Addr
        <3> QED
            BY <2>1, <3>1, Moves DEF ChipMoves, ReadCycle
    <2> QED
        BY <2>1, <2>3, <2>4, PipeNext
<1>4. ASSUME Ahead' \notin {"IDLE", "PRECHARGE", "READING"}
      PROVE  Drained'
    <2>1. CASE fsm = "IDLE"
        BY <2>1, PipeNext DEF PipeInv, ReadCycle
    <2>2. CASE fsm # "IDLE"
        <3>1. Ahead \notin {"IDLE", "PRECHARGE", "READING"} /\ ~ReadCycle
            BY <1>4, <2>2, Moves DEF FsmMoves, To, Ahead, ReadCycle, WriteCycle
        <3> QED
            BY <3>1, PipeNext DEF PipeInv
    <2> QED
        BY <2>1, <2>2
<1>5. ASSUME fsm' = "IDLE", NEW i \in 1 .. tCL + 1
      PROVE  pipe'[i] = None
    <2>1. CASE fsm = "REFRESH"
        <3>1. Drained'
            BY <2>1, PipeNext DEF PipeInv, Ahead, ReadCycle
        <3> QED
            BY <3>1 DEF Drained, Slots
    <2>2. CASE fsm # "REFRESH"
        <3>1. fsm = "IDLE" \/ (fsm = "DELAY" /\ target = "IDLE" /\ wait = 1)
            BY <1>5, <2>2, Moves DEF FsmMoves, To, ReadCycle, WriteCycle
        <3>2. CASE i = 1
            BY <3>1, <3>2, PipeNext DEF ReadCycle
        <3>3. CASE i # 1
            <4>1. i \in 2 .. tCL + 2 /\ i - 1 \in 1 .. tCL + 1 /\ i - 1 \in Slots /\ i <= tRP
                BY <3>3 DEF Slots
            <4>2. pipe[i - 1] = None
                BY <3>1, <4>1 DEF PipeInv
            <4> QED
                BY <4>1, <4>2, PipeNext
        <3> QED
            BY <3>2, <3>3
    <2> QED
        BY <2>1, <2>2
<1>6. ASSUME fsm' = "DELAY", target' = "IDLE", NEW i \in Slots, pipe'[i] # None
      PROVE  i + wait' > tRP
    <2>1. CASE fsm \in {"INIT_MODE", "REFRESH"}
        <3>1. Drained'
            BY <2>1, PipeNext DEF PipeInv, Ahead, ReadCycle
        <3> QED
            BY <1>6, <3>1 DEF Drained
    <2>2. CASE fsm \notin {"INIT_MODE", "REFRESH"}
        <3>1. \/ fsm = "PRECHARGE" /\ wait' = tRP - 1
              \/ fsm = "DELAY" /\ target = "IDLE" /\ wait' = wait - 1
            BY <1>0, <1>6, <2>2, Moves DEF FsmMoves, To, DelayInv, ReadCycle, WriteCycle
        <3>2. i \in 2 .. tCL + 2 /\ i - 1 \in Slots
            BY <1>6, <3>1, PipeNext DEF Slots, ReadCycle
        <3>3. pipe[i - 1] # None
            BY <1>6, <3>2, PipeNext
        <3> QED
            BY <3>1, <3>2, <3>3 DEF PipeInv, TimingInv, TypeOK
    <2> QED
        BY <2>1, <2>2
<1> QED
    BY <1>1, <1>2, <1>3, <1>4, <1>5, <1>6 DEF PipeInv, Slots

LEMMA StepKill ==
    ASSUME TimingInv, PipeInv, KillInv, NEW term \in BOOLEAN, Control(term)
    PROVE  KillInv'
<1> USE Constants
<1>0. DelayInv
    BY DEF TimingInv
<1>1. killRead' => Returning /\ (term \/ killRead)
    BY Moves DEF KillMoves
<1>2. Returning => ~Drained /\ tCL + 2 \in Slots
    BY DEF Returning, Drained, Slots
<1>3. killRead' => Ahead' \notin Bursting
    <2>1. SUFFICES ASSUME killRead' PROVE Ahead' \notin Bursting
        OBVIOUS
    <2>2. Ahead \in {"IDLE", "PRECHARGE", "READING"}
        BY <1>1, <1>2, <2>1 DEF PipeInv
    <2>3. ReadCycle => ~CanContinueRead(term)
        BY <1>1, <2>1 DEF CanContinueRead
    <2> QED
        BY <1>0, <2>2, <2>3, Moves DEF FsmMoves, To, DelayInv, Ahead, Bursting, ReadCycle, WriteCycle
<1>4. killRead' /\ ~Returning' => Drained'
    <2>1. SUFFICES ASSUME killRead', ~Returning' PROVE Drained'
        OBVIOUS
    <2>2. pipe[tCL + 1] = None /\ pipe[tCL + 2] # None /\ tCL + 1 \in Slots /\ tCL + 2 \in Slots
        <3>1. tCL + 2 \in 2 .. tCL + 2 /\ (tCL + 2) - 1 = tCL + 1
            OBVIOUS
        <3> QED
            BY <1>1, <2>1, <3>1, PipeNext DEF Returning, Slots
    <2>3. \A i \in 1 .. tCL + 1 : pipe[i] = None
        BY <2>2 DEF PipeInv, Slots
    <2>4. ~ReadCycle
        <3>1. pipe[1] = None
            BY <2>3
        <3> QED
            BY <1>1, <1>2, <2>1, <3>1, ReadOn
    <2> QED
        BY <2>3, <2>4, PipeNext
<1> QED
    BY <1>3, <1>4 DEF KillInv

\* After a kill nothing is left when kill_read falls.
LEMMA KillEnds ==
    ASSUME TimingInv, PipeInv, KillInv, NEW term \in BOOLEAN, Control(term), killRead, ~killRead'
    PROVE  Drained'
<1>1. Drained /\ ~ReadCycle
    BY Moves DEF KillMoves, KillInv, ReadCycle, Ahead, Bursting
<1> QED
    BY <1>1, PipeNext

\* A transfer ends only with a strobe of a write, or of a read that is then killed.
LEMMA OwnerStays ==
    ASSUME TimingInv, NEW term \in BOOLEAN, Control(term), AnyMaster(term), ~killRead',
           mstate \in {"DATA", "WAIT"}, ~(WriteCycle /\ term)
    PROVE  mstate' \in {"DATA", "WAIT"} /\ ~Accepts(term) /\ iwr' = iwr
<1>1. ~(DStb /\ term)
    BY Moves DEF DStb, KillMoves
<1>2. ~Accepts(term)
    BY Moves DEF FsmMoves, IStb, ReadCycle, WriteCycle, CommandMoves
<1> QED
    BY <1>1, <1>2, Moves DEF AnyMaster, CommandMoves

LEMMA StepOwner ==
    ASSUME TimingInv, PipeInv, KillInv, OwnerInv, NEW term \in BOOLEAN, Control(term), AnyMaster(term)
    PROVE  OwnerInv'
<1> USE Constants
<1>1. ~Drained' /\ ~killRead' => ~iwr' /\ mstate' \in {"DATA", "WAIT"}
    <2>1. SUFFICES ASSUME ~Drained', ~killRead' PROVE ~iwr' /\ mstate' \in {"DATA", "WAIT"}
        OBVIOUS
    <2>2. ~killRead
        BY <2>1, KillEnds
    <2>3. ~Drained \/ ReadCycle
        BY <2>1, PipeNext
    <2>4. ~iwr /\ mstate \in {"DATA", "WAIT"}
        BY <2>2, <2>3 DEF OwnerInv, ReadCycle, Ahead, Bursting
    <2>5. ~WriteCycle
        BY <2>4 DEF OwnerInv, WriteCycle, Ahead
    <2> QED
        BY <2>1, <2>4, <2>5, OwnerStays
<1>2. Ahead' \in Activating \cup Bursting => mstate' \in {"DATA", "WAIT"} /\ ~needsReissue'
    <2>1. SUFFICES ASSUME Ahead' \in Activating \cup Bursting
                   PROVE  mstate' \in {"DATA", "WAIT"} /\ ~needsReissue'
        OBVIOUS
    <2>2. CASE fsm # "IDLE"
        <3>1. Ahead \in Activating \cup Bursting /\ ~EndOfRow(term) /\ ~(WriteCycle /\ term)
            BY <2>1, <2>2, Moves DEF FsmMoves, To, Ahead, Activating, Bursting, ReadCycle, WriteCycle,
               EndOfRow, CanContinueRead
        <3>2. ~killRead'
            <4>1. killRead' => Ahead' \in Activating /\ Returning
                BY <2>1, StepKill, Moves DEF KillInv, KillMoves
            <4>2. Ahead' \notin Activating
                BY <2>2, <2>1, Moves DEF FsmMoves, To, Ahead, Activating, Bursting, ReadCycle, WriteCycle,
                   TimingInv, DelayInv
            <4> QED
                BY <4>1, <4>2
        <3> QED
            BY <3>1, <3>2, OwnerStays, Moves DEF OwnerInv, CommandMoves
    <2>3. CASE fsm = "IDLE"
        <3>1. ~EndOfRow(term)
            BY <2>3 DEF EndOfRow, ReadCycle, WriteCycle
        <3>2. CASE Reissues(term)
            <4>1. needsReissue /\ ~killRead /\ ~(Returning /\ term)
                BY <2>1, <2>3, <3>2, Moves DEF FsmMoves, To, Reissue, ReadCycle, WriteCycle
            <4>2. mstate \in {"DATA", "WAIT"} /\ ~killRead'
                BY <4>1, Moves DEF OwnerInv, KillMoves
            <4> QED
                BY <2>3, <3>1, <3>2, <4>2, OwnerStays, Moves DEF CommandMoves, WriteCycle
        <3>3. CASE ~Reissues(term)
            <4>1. Accepts(term) /\ ~Reissue(term) /\ mstate = "REQ" /\ ~term
                BY <2>1, <2>3, <3>3, Moves
                   DEF FsmMoves, To, Activating, Bursting, ReadCycle, WriteCycle, IStb, AnyMaster
            <4> QED
                BY <3>1, <4>1, Moves DEF CommandMoves, AnyMaster, Reissue
        <3> QED
            BY <3>2, <3>3
    <2> QED
        BY <2>2, <2>3
<1>3. /\ Ahead' \in {"WRITE_ACTIVE", "WRITE", "WRITING"} => iwr'
      /\ Ahead' \in {"READ_ACTIVE", "READ", "READING"} => ~iwr'
    <2>1. CASE fsm = "IDLE"
        <3>1. CASE Accepts(term)
            <4>1. iwr' = mwr /\ Ahead' = IF mwr THEN "WRITE_ACTIVE" ELSE "READ_ACTIVE"
                BY <2>1, <3>1, Moves DEF FsmMoves, CommandMoves, To, ReadCycle, WriteCycle
            <4> QED
                BY <4>1
        <3>2. CASE Reissues(term)
            <4>1. iwr' = iwr /\ Ahead' = IF iwr THEN "WRITE_ACTIVE" ELSE "READ_ACTIVE"
                BY <2>1, <3>2, Moves DEF FsmMoves, CommandMoves, To, ReadCycle, WriteCycle
            <4> QED
                BY <4>1
        <3>3. CASE ~Accepts(term) /\ ~Reissues(term)
            BY <2>1, <3>3, Moves DEF FsmMoves, To, ReadCycle, WriteCycle
        <3> QED
            BY <3>1, <3>2, <3>3
    <2>2. CASE fsm # "IDLE"
        <3>1. iwr' = iwr
            BY <2>2, Moves DEF CommandMoves
        <3> QED
            BY <2>2, <3>1, Moves DEF OwnerInv, FsmMoves, To, Ahead, ReadCycle, WriteCycle
    <2> QED
        BY <2>1, <2>2
<1>4. needsReissue' => /\ ~killRead' => mstate' \in {"DATA", "WAIT"}
                       /\ iwr' => Drained' /\ ~killRead'
    <2>1. SUFFICES ASSUME needsReissue'
                   PROVE  /\ ~killRead' => mstate' \in {"DATA", "WAIT"}
                          /\ iwr' => Drained' /\ ~killRead'
        OBVIOUS
    <2>2. CASE WriteCycle /\ LastCol /\ ~term
        <3>1. Drained /\ ~ReadCycle /\ mstate \in {"DATA", "WAIT"}
            BY <2>2 DEF PipeInv, OwnerInv, WriteCycle, ReadCycle, Ahead, Bursting
        <3>2. ~killRead'
            <4>1. ~Returning
                BY <3>1 DEF Returning, Drained, Slots
            <4> QED
                BY <4>1, Moves DEF KillMoves
        <3> QED
            BY <2>2, <3>1, <3>2, OwnerStays, PipeNext
    <2>3. CASE ReadCycle /\ LastCol /\ ~killRead /\ ~(Returning /\ term)
        <3>1. ~iwr /\ mstate \in {"DATA", "WAIT"} /\ ~WriteCycle
            BY <2>3 DEF OwnerInv, WriteCycle, ReadCycle, Ahead, Bursting
        <3>2. ~killRead'
            BY <2>3, Moves DEF KillMoves
        <3> QED
            BY <3>1, <3>2, OwnerStays
    <2>4. CASE ~EndOfRow(term)
        <3>1. needsReissue /\ ~killRead /\ mstate \in {"DATA", "WAIT"}
            BY <2>1, <2>4, Moves DEF CommandMoves, OwnerInv
        <3>2. ~WriteCycle /\ ~ReadCycle
            BY <3>1 DEF OwnerInv, WriteCycle, ReadCycle, Ahead, Bursting
        <3>3. iwr' = iwr
            BY <3>1, Moves DEF CommandMoves, FsmMoves, IStb, ReadCycle, WriteCycle
        <3>4. iwr => Drained /\ ~Returning
            BY <3>1 DEF OwnerInv, Returning, Drained, Slots
        <3> QED
            BY <3>1, <3>2, <3>3, <3>4, OwnerStays, PipeNext, Moves DEF KillMoves
    <2> QED
        BY <2>2, <2>3, <2>4 DEF EndOfRow
<1> QED
    BY <1>1, <1>2, <1>3, <1>4 DEF OwnerInv

\* A word strobed from the chip is the oldest under way, and no other is left of
\* it than the one after it.
LEMMA Strobed ==
    ASSUME TimingInv, PipeInv, Returning
    PROVE  /\ Oldest(tCL + 2) /\ pipe[tCL + 2] \in Addr
           /\ (\A i \in 1 .. tCL + 1 : pipe[i] = None) => Newest(tCL + 2)
           /\ pipe[tCL + 1] # None =>
                  pipe[tCL + 1] = (pipe[tCL + 2] + 1) % (Rows * Cols)
<1> USE Constants
<1>1. /\ tCL + 2 \in Slots /\ tCL + 1 \in 1 .. tCL + 1 /\ tCL + 1 \in Slots
      /\ (tCL + 2) + 1 > tCL + 2 /\ (tCL + 2) - 1 = tCL + 1 /\ (tCL + 1) + 1 = tCL + 2
    BY DEF Slots
<1>2. pipe[tCL + 2] # None /\ pipe[tCL + 2] \in Addr /\ (pipe[tCL + 1] # None => pipe[tCL + 1] \in Addr)
    BY <1>1 DEF Returning, TimingInv, TypeOK, Slots
<1>3. Oldest(tCL + 2) /\ ((\A i \in 1 .. tCL + 1 : pipe[i] = None) => Newest(tCL + 2))
    BY <1>1, <1>2 DEF Oldest, Newest
<1>4. ASSUME pipe[tCL + 1] # None
      PROVE  pipe[tCL + 1] = (pipe[tCL + 2] + 1) % (Rows * Cols)
    <2>1. pipe[tCL + 1] = pipe[tCL + 2] + 1
        BY <1>1, <1>2, <1>4 DEF PipeInv
    <2>2. pipe[tCL + 2] # Rows * Cols - 1
        BY <1>2, <1>4, <2>1, Sizes DEF Addr
    <2> QED
        BY <1>2, <2>1, <2>2, Follow
<1> QED
    BY <1>2, <1>3, <1>4

\* With the last word of its row a command goes on in the next.
LEMMA RowEnds ==
    ASSUME TimingInv, ReadCycle \/ WriteCycle, LastCol
    PROVE  (ChipWord + 1) % (Rows * Cols) = NextRow(iptr)
<1>1. ChipWord \in Addr /\ iptr \in Addr /\ ChipWord \div Cols = iptr \div Cols /\ ChipWord % Cols = Cols - 1
    BY WordNow DEF LastCol, TimingInv, TypeOK
<1> QED
    BY <1>1, AfterRow

LEMMA StepAddr ==
    ASSUME TimingInv, StreamInv, NEW term \in BOOLEAN, Control(term), AnyMaster(term), mstate' = "DATA"
    PROVE  AddrInv'
<1> USE Constants
<1>0. PipeInv /\ KillInv /\ OwnerInv /\ PipeInv' /\ OwnerInv'
    BY StepPipe, StepOwner DEF StreamInv
\* A new command.
<1>1. CASE mstate # "DATA"
    <2>1. mstate = "REQ" /\ Accepts(term) /\ maddr' = maddr
        BY <1>1 DEF AnyMaster, TimingInv, TypeOK
    <2>2. iptr' = maddr /\ fsm' \in Activating /\ Ahead' = fsm'
        <3>1. fsm = "IDLE" /\ To(IF mwr THEN "WRITE_ACTIVE" ELSE "READ_ACTIVE", 1)
            BY <2>1, Moves DEF FsmMoves, CommandMoves, ReadCycle, WriteCycle
        <3> QED
            BY <2>1, <3>1, Moves DEF CommandMoves, To, Activating
    <2>3. Drained' /\ ~needsReissue'
        BY <1>0, <2>2 DEF PipeInv, OwnerInv, Activating
    <2> QED
        BY <2>1, <2>2, <2>3 DEF AddrInv, Drained, Oldest, Activating
<1>2. SUFFICES ASSUME mstate = "DATA" PROVE AddrInv'
    BY <1>1
<1>3. /\ ~term /\ ~Accepts(term) /\ AddrInv
      /\ maddr' = IF DStb THEN (maddr + 1) % (Rows * Cols) ELSE maddr
    BY <1>2, Moves DEF AnyMaster, StreamInv, FsmMoves, CommandMoves, IStb, ReadCycle, WriteCycle
<1>4. WriteCycle => Drained /\ ~Returning /\ maddr = ChipWord /\ DStb
    <2>1. WriteCycle => Drained /\ maddr = ChipWord
        BY <1>0, <1>3, WordNow DEF PipeInv, AddrInv, WriteCycle, Ahead
    <2> QED
        BY <2>1 DEF Drained, Slots, Returning, DStb
<1>5. Returning /\ ~killRead => maddr = pipe[tCL + 2] /\ DStb
    BY <1>0, <1>3, Strobed DEF AddrInv, Slots, DStb
<1>6. ~WriteCycle /\ (~Returning \/ killRead) => ~DStb
    BY DEF DStb
<1>7. Ahead' \in Activating \cup {"READ", "WRITE"} => maddr' = iptr'
    <2>1. SUFFICES ASSUME Ahead' \in Activating \cup {"READ", "WRITE"} PROVE maddr' = iptr'
        OBVIOUS
    <2>2. CASE fsm = "IDLE"
        <3>1. Reissues(term) /\ needsReissue /\ ~killRead /\ iptr' = NextRow(iptr) /\ ~WriteCycle
            BY <1>3, <2>1, <2>2, Moves
               DEF FsmMoves, CommandMoves, To, Reissue, Activating, ReadCycle, WriteCycle
        <3>2. CASE Returning
            BY <1>0, <1>3, <1>5, <2>2, <3>1, <3>2, Strobed DEF AddrInv, PipeInv, Slots
        <3>3. CASE ~Returning
            <4>1. Drained
                <5>1. \A i \in Slots : i \in 1 .. tCL + 1 \/ i = tCL + 2
                    BY DEF Slots
                <5> QED
                    BY <1>0, <2>2, <3>3, <5>1 DEF PipeInv, Drained, Returning
            <4> QED
                BY <1>3, <1>6, <3>1, <3>3, <4>1 DEF AddrInv
        <3> QED
            BY <3>2, <3>3
    <2>3. CASE fsm # "IDLE"
        <3>1. Ahead \in Activating \cup {"READ", "WRITE"} /\ ~WriteCycle /\ fsm # "READ" /\ iptr' = iptr
            BY <2>1, <2>3, Moves
               DEF FsmMoves, CommandMoves, To, Ahead, Activating, ReadCycle, WriteCycle
        <3>2. ~Returning
            BY <1>0, <3>1 DEF PipeInv, Drained, Slots, Returning, Activating
        <3> QED
            BY <1>3, <1>6, <3>1, <3>2 DEF AddrInv
    <2> QED
        BY <2>2, <2>3
<1>8. fsm' = "WRITING" => maddr' = burst'
    <2>1. SUFFICES ASSUME fsm' = "WRITING" PROVE maddr' = burst'
        OBVIOUS
    <2>2. WriteCycle /\ ~LastCol
        BY <2>1, Moves DEF FsmMoves, To, TimingInv, DelayInv
    <2>3. /\ ChipWord \in Addr /\ ChipWord % Cols # Cols - 1
          /\ ChipWord # None /\ (fsm = "WRITING" => ChipWord = burst)
        BY <2>2, WordNow DEF LastCol, None, Addr
    <2>4. burst' = NextInRow(ChipWord)
        BY <2>2, <2>3, Moves DEF ChipMoves, WriteCycle
    <2> QED
        BY <1>3, <1>4, <2>2, <2>3, <2>4, InRow
<1>9. ASSUME ~killRead', NEW i \in Slots, Oldest(i)'
      PROVE  pipe'[i] = maddr'
    <2>1. ~Drained' /\ ~killRead
        BY <1>0, <1>9, KillEnds DEF Oldest, Drained
    <2>2. ~WriteCycle
        BY <1>4, <2>1, PipeNext DEF ReadCycle, WriteCycle
    <2>3. \A j \in 2 .. tCL + 2 : j > i => pipe[j - 1] = None
        BY <1>9, PipeNext DEF Oldest, Slots
    <2>4. CASE i = 1
        <3>1. ReadCycle /\ pipe'[1] = ChipWord
            BY <1>9, <2>4, PipeNext DEF Oldest
        <3>2. pipe[1] = None
            <4>1. 2 \in 2 .. tCL + 2 /\ 2 > i /\ 2 - 1 = 1
                BY <2>4
            <4> QED
                BY <2>3, <4>1
        <3>3. Drained /\ fsm = "READ"
            BY <1>0, <3>1, <3>2, ReadOn DEF PipeInv, ReadCycle
        <3>4. ~Returning /\ ChipWord = iptr /\ maddr = iptr
            BY <1>3, <3>1, <3>3, WordNow DEF Returning, Drained, Slots, AddrInv, Ahead
        <3> QED
            BY <1>3, <1>6, <2>2, <2>4, <3>1, <3>4
    <2>5. CASE i # 1
        <3>1. i \in 2 .. tCL + 2 /\ i - 1 \in Slots /\ i - 1 \in 1 .. tCL + 1 /\ i - 1 <= tCL + 1
            BY <2>5 DEF Slots
        <3>2. pipe'[i] = pipe[i - 1] /\ pipe[i - 1] # None
            BY <1>9, <3>1, PipeNext DEF Oldest
        <3>3. CASE Returning
            <4>1. pipe[tCL + 1] # None /\ tCL + 1 \in Slots /\ tCL + 2 \in Slots
                BY <1>0, <3>1, <3>2, <3>3 DEF PipeInv, Returning, Slots
            <4>2. i = tCL + 2
                <5>1. tCL + 2 \in 2 .. tCL + 2 /\ (tCL + 2) - 1 = tCL + 1
                    OBVIOUS
                <5> QED
                    BY <2>3, <3>1, <4>1, <5>1
            <4> QED
                BY <1>0, <1>3, <1>5, <2>1, <3>2, <3>3, <4>1, <4>2, Strobed
        <3>4. CASE ~Returning
            <4>1. ASSUME NEW k \in (i - 1) + 1 .. tCL + 2 PROVE pipe[k] = None
                <5>1. k = tCL + 2 \/ (k + 1 \in 2 .. tCL + 2 /\ k + 1 > i /\ (k + 1) - 1 = k)
                    BY <3>1, <4>1
                <5> QED
                    BY <2>3, <3>4, <5>1 DEF Returning
            <4>2. Oldest(i - 1)
                BY <3>2, <4>1 DEF Oldest
            <4> QED
                BY <1>3, <1>6, <2>1, <2>2, <3>1, <3>2, <3>4, <4>2 DEF AddrInv
        <3> QED
            BY <3>3, <3>4
    <2> QED
        BY <2>4, <2>5
<1>10. ASSUME needsReissue', ~killRead'
       PROVE  /\ Drained' => maddr' = NextRow(iptr')
              /\ \A i \in Slots : Newest(i)' => (pipe'[i] + 1) % (Rows * Cols) = NextRow(iptr')
    <2>1. CASE WriteCycle /\ LastCol
        <3>1. Drained' /\ iptr' = iptr
            BY <1>4, <2>1, PipeNext, Moves DEF CommandMoves, ReadCycle, WriteCycle
        <3> QED
            BY <1>3, <1>4, <2>1, <3>1, RowEnds DEF Newest, Drained
    <2>2. CASE ReadCycle /\ LastCol
        <3>1. pipe'[1] = ChipWord /\ pipe'[1] # None /\ iptr' = iptr /\ 1 \in Slots
            <4>1. fsm # "IDLE" /\ 1 \in Slots
                BY <2>2 DEF ReadCycle, Slots
            <4> QED
                BY <2>2, <4>1, PipeNext, Moves DEF CommandMoves
        <3>2. \A i \in Slots : Newest(i)' => i = 1
            <4>1. \A i \in Slots : i = 1 \/ 1 \in 1 .. i - 1
                BY DEF Slots
            <4> QED
                BY <3>1, <4>1 DEF Newest
        <3> QED
            BY <2>2, <3>1, <3>2, RowEnds DEF Drained
    <2>3. CASE ~EndOfRow(term)
        <3>1. needsReissue /\ ~killRead /\ ~Reissues(term) /\ iptr' = iptr
            BY <1>3, <1>10, <2>3, Moves DEF CommandMoves
        <3>2. ~ReadCycle /\ ~WriteCycle
            BY <1>0, <3>1 DEF OwnerInv, ReadCycle, WriteCycle, Ahead, Bursting
        <3>3. ASSUME Drained' PROVE maddr' = NextRow(iptr')
            <4>1. \A i \in 1 .. tCL + 1 : pipe[i] = None
                <5>1. SUFFICES ASSUME NEW i \in 1 .. tCL + 1 PROVE pipe[i] = None
                    OBVIOUS
                <5>2. i + 1 \in 2 .. tCL + 2 /\ i + 1 \in Slots /\ (i + 1) - 1 = i
                    BY DEF Slots
                <5> QED
                    BY <3>3, <5>2, PipeNext DEF Drained
            <4>2. CASE Returning
                BY <1>0, <1>3, <1>5, <3>1, <4>1, <4>2, Strobed DEF AddrInv, Slots
            <4>3. CASE ~Returning
                <5>1. Drained
                    <6>1. \A i \in Slots : i \in 1 .. tCL + 1 \/ i = tCL + 2
                        BY DEF Slots
                    <6> QED
                        BY <4>1, <4>3, <6>1 DEF Drained, Returning
                <5> QED
                    BY <1>3, <1>6, <3>1, <3>2, <4>3, <5>1 DEF AddrInv
            <4> QED
                BY <4>2, <4>3
        <3>4. ASSUME NEW i \in Slots, Newest(i)'
              PROVE  (pipe'[i] + 1) % (Rows * Cols) = NextRow(iptr')
            <4>1. i \in 2 .. tCL + 2 /\ i - 1 \in Slots
                BY <3>2, <3>4, PipeNext DEF Newest, Slots
            <4>2. pipe'[i] = pipe[i - 1] /\ pipe[i - 1] # None
                BY <3>4, <4>1, PipeNext DEF Newest
            <4>3. ASSUME NEW k \in 1 .. (i - 1) - 1 PROVE pipe[k] = None
                <5>1. k + 1 \in 2 .. tCL + 2 /\ k + 1 \in 1 .. i - 1 /\ (k + 1) - 1 = k
                    BY <4>1
                <5> QED
                    BY <3>4, <5>1, PipeNext DEF Newest
            <4> QED
                BY <1>3, <3>1, <4>1, <4>2, <4>3 DEF Newest, AddrInv
        <3> QED
            BY <3>3, <3>4
    <2> QED
        BY <2>1, <2>2, <2>3 DEF EndOfRow
<1> QED
    BY <1>7, <1>8, <1>9, <1>10 DEF AddrInv
-----------------------------------------------------------------------------
(* The invariant of the controller, with any master.                       *)

CtlInv == TimingInv /\ StreamInv

LEMMA StepCtl ==
    ASSUME CtlInv, NEW term \in BOOLEAN, Control(term), AnyMaster(term)
    PROVE  CtlInv'
<1>1. TimingInv'
    BY StepTypes, StepDelay, StepChip, StepCursor, StepRefresh DEF CtlInv, TimingInv
<1>2. StreamInv'
    BY StepPipe, StepKill, StepOwner, StepAddr DEF CtlInv, StreamInv
<1> QED
    BY <1>1, <1>2 DEF CtlInv

LEMMA InitCtl == Init => CtlInv
<1> SUFFICES ASSUME Init PROVE CtlInv
    OBVIOUS
<1> USE Constants DEF Init, Ahead, Left
<1>1. TypeOK
    <2>1. 0 \in Addr /\ 0 \in 0 .. Cols - 1
        BY Sizes DEF Addr
    <2>2. pipe \in [1 .. tCL + 2 -> Addr \cup {None}]
        OBVIOUS
    <2>3. 0 \in 0 .. tRESET /\ 0 \in Nat
        OBVIOUS
    <2>4. {iwr, needsReissue, killRead, ready, mwr} \subseteq BOOLEAN
        OBVIOUS
    <2> QED
        BY <2>1, <2>2, <2>3, <2>4 DEF TypeOK, States
<1>2. ChipTypes /\ DelayInv /\ CursorInv /\ RefreshInv /\ refreshCtr \in Nat
    BY DEF ChipTypes, DelayInv, CursorInv, RefreshInv, Activating
<1>3. ChipInv
    BY DEF ChipInv, Setup, Activating, Bursting
<1>4. Drained
    BY DEF Drained, Slots
<1>5. StreamInv
    BY <1>4 DEF StreamInv, PipeInv, KillInv, OwnerInv, Drained, Slots, Activating, Bursting
<1> QED
    BY <1>1, <1>2, <1>3, <1>5 DEF CtlInv, TimingInv

LEMMA CtlUnchanged == CtlInv /\ UNCHANGED vars => CtlInv'
    BY DEF CtlInv, TimingInv, StreamInv, TypeOK, ChipTypes, DelayInv, ChipInv, CursorInv, RefreshInv,
       PipeInv, KillInv, OwnerInv, AddrInv, Drained, Oldest, Newest, Returning, NextRow, Ahead, Left,
       vars, fsmVars, cmdVars, chipVars, masterVars

\* What the invariant says of a state.
LEMMA CtlSafe ==
    ASSUME CtlInv
    PROVE  TypeOK /\ LegalCommand /\ RefreshBounded /\ NoStrayStrobe /\ RightWord
<1> USE DEF CtlInv
<1>1. TypeOK /\ fsm \in States
    BY DEF TimingInv, TypeOK
<1>2. RefreshBounded
    BY Bounded DEF RefreshBounded
<1>3. LegalCommand
    <2>1. /\ fsm \in Activating => ready /\ row = None /\ rowTimer = 0
          /\ fsm \in {"INIT_REFRESH1", "INIT_REFRESH2", "REFRESH", "INIT_MODE"} => row = None /\ rowTimer = 0
          /\ fsm \in {"READ", "WRITE"} => row # None /\ colTimer = 0
          /\ fsm \in {"INIT_PRECHARGE", "PRECHARGE"} => writeTimer = 0
        <3>1. iptr \div Cols # None
            BY <1>1, WordIs DEF TypeOK, None
        <3> QED
            BY <3>1 DEF TimingInv, ChipInv, ChipTypes, Ahead, Left, Setup, Activating, Bursting
    <2>2. CASE Cmd = "ACTIVE"
        BY <1>1, <2>1, <2>2, Commands DEF LegalCommand
    <2>3. CASE Cmd \in {"AUTO_REFRESH", "LOAD_MODE"}
        BY <1>1, <2>1, <2>3, Commands DEF LegalCommand
    <2>4. CASE Cmd \in {"READ", "WRITE"}
        BY <1>1, <2>1, <2>4, Commands DEF LegalCommand
    <2>5. CASE Cmd = "PRECHARGE"
        BY <1>1, <2>1, <2>5, Commands DEF LegalCommand
    <2>6. CASE Cmd \notin {"ACTIVE", "AUTO_REFRESH", "LOAD_MODE", "READ", "WRITE", "PRECHARGE"}
        BY <2>6 DEF LegalCommand
    <2> QED
        BY <2>2, <2>3, <2>4, <2>5, <2>6
<1>4. Returning => ~Drained
    BY Constants DEF Returning, Drained, Slots
<1>5. NoStrayStrobe
    BY <1>4 DEF NoStrayStrobe, DStb, StreamInv, OwnerInv, WriteCycle, Ahead, Bursting
<1>6. RightWord
    <2>1. CASE WriteCycle
        BY <2>1, WordNow DEF RightWord, StreamInv, AddrInv, WriteCycle, Ahead
    <2>2. CASE ~WriteCycle
        <3>1. Returning => Oldest(tCL + 2) /\ tCL + 2 \in Slots
            BY Strobed, Constants DEF StreamInv, Slots
        <3> QED
            BY <2>2, <3>1 DEF RightWord, DStb, StreamInv, AddrInv
    <2> QED
        BY <2>1, <2>2
<1> QED
    BY <1>1, <1>2, <1>3, <1>5, <1>6
-----------------------------------------------------------------------------
(* The two masters keep to the handshake.                                  *)

LEMMA StreamMaster ==
    ASSUME CtlInv, NEW term \in BOOLEAN, Clock(term)
    PROVE  AnyMaster(term) /\ (mstate = "DATA" /\ mstate' = "DATA" => mwr' = mwr)
                           /\ (Accepts(term) => mwr' = mwr)
<1>1. /\ mstate \in {"IDLE", "REQ", "DATA", "WAIT"} /\ maddr \in Addr /\ mwr \in BOOLEAN
      /\ 0 \in Addr /\ Starts \subseteq Addr /\ (maddr + 1) % (Rows * Cols) \in Addr
    BY ControllerAssumption, FollowIn, Sizes DEF CtlInv, TimingInv, TypeOK, Addr
<1>2. /\ term => mstate \in {"DATA", "WAIT"}
      /\ mstate = "WAIT" => term
    BY <1>1 DEF Clock, Terms
<1>3. Asks => mstate' \in {"IDLE", "REQ"} /\ mwr' \in BOOLEAN /\ maddr' \in Addr
    BY <1>1 DEF Asks
<1>4. Accepts(term) => mstate = "REQ"
    BY Moves DEF Clock, CtlInv, FsmMoves, IStb, ReadCycle, WriteCycle, CommandMoves
<1>5. CASE mstate = "IDLE"
    BY <1>1, <1>2, <1>3, <1>4, <1>5 DEF Clock, Master, AnyMaster
<1>6. CASE mstate = "REQ"
    <2>1. \/ mstate' = (IF Accepts(term) THEN "DATA" ELSE "REQ") /\ UNCHANGED << mwr, maddr >>
          \/ ~Accepts(term) /\ mstate' = "IDLE" /\ mwr' = FALSE /\ maddr' = 0
        BY <1>6 DEF Clock, Master
    <2> QED
        BY <1>1, <1>2, <1>6, <2>1 DEF AnyMaster
<1>7. CASE mstate \in {"DATA", "WAIT"} /\ DStb /\ term
    <2>1. Asks
        BY <1>7 DEF Clock, Master
    <2> QED
        BY <1>1, <1>2, <1>3, <1>4, <1>7, <2>1 DEF AnyMaster
<1>8. CASE mstate \in {"DATA", "WAIT"} /\ ~(DStb /\ term)
    <2>1. /\ mstate' = IF term THEN "WAIT" ELSE mstate
          /\ maddr' = IF Transfers(term) THEN (maddr + 1) % (Rows * Cols) ELSE maddr
          /\ mwr' = mwr
        BY <1>8 DEF Clock, Master
    <2> QED
        BY <1>1, <1>2, <1>4, <1>8, <2>1 DEF AnyMaster, Transfers
<1> QED
    BY <1>1, <1>5, <1>6, <1>7, <1>8

\* What the self test has found so far, step by step.
BistInv ==
    /\ bist \in {"IDLE", "WAIT_ISSUE_WR", "WRITE", "WRITE-TERM",
                 "WAIT_ISSUE_READ", "READ", "READ-TERM"}
    /\ ok \in BOOLEAN /\ bad \subseteq Addr /\ holds \subseteq Addr
    /\ bist \in {"WAIT_ISSUE_WR", "WAIT_ISSUE_READ"} => mstate = "REQ" /\ maddr = 0
    /\ bist \in {"WRITE", "READ"} => mstate = "DATA"
    /\ bist \in {"WRITE-TERM", "READ-TERM"} => mstate = "WAIT"
    /\ bist \in {"WAIT_ISSUE_WR", "WRITE"} => mwr
    /\ bist \in {"WAIT_ISSUE_READ", "READ"} => ~mwr
    /\ mstate = "DATA" => (iwr <=> mwr)
    /\ bist \in {"WAIT_ISSUE_WR", "WRITE", "WRITE-TERM", "WAIT_ISSUE_READ"} => ok
    /\ bist \in {"WAIT_ISSUE_WR", "WRITE"} => \A a \in Addr : a \in holds <=> a < maddr /\ a \notin bad
    /\ bist \in {"WRITE-TERM", "WAIT_ISSUE_READ", "READ"} => \A a \in Addr : a \in holds <=> a \notin bad
    /\ bist = "READ" => (ok <=> \A a \in bad : ~(a < maddr))
    /\ bist = "READ-TERM" => (ok <=> bad = {})

LEMMA BistMaster ==
    ASSUME CtlInv, BistInv, BistClock
    PROVE  AnyMaster(BistTerm)
<1>1. /\ mstate \in {"IDLE", "REQ", "DATA", "WAIT"} /\ maddr \in Addr /\ mwr \in BOOLEAN
      /\ 0 \in Addr /\ (maddr + 1) % (Rows * Cols) \in Addr
    BY FollowIn, Sizes DEF CtlInv, TimingInv, TypeOK, Addr
<1>2. CASE BistStart
    BY <1>1, <1>2 DEF BistStart, BistTerm, AnyMaster
<1>3. CASE BistIssue
    <2>1. BistTerm = FALSE /\ mstate = "REQ"
        BY <1>3 DEF BistIssue, BistTerm, BistInv
    <2> QED
        BY <1>1, <1>3, <2>1 DEF BistIssue, AnyMaster
<1>4. CASE BistTransfer
    BY <1>1, <1>4 DEF BistTransfer, BistTerm, BistInv, AnyMaster
<1>5. CASE BistTurn \/ BistFinish
    BY <1>1, <1>5 DEF BistTurn, BistFinish, BistTerm, BistInv, AnyMaster, masterVars
<1> QED
    BY <1>2, <1>3, <1>4, <1>5 DEF BistClock

\* A strobe in the test is of the word the test is at, written or read.
LEMMA BistStrobe ==
    ASSUME CtlInv, BistInv, DStb
    PROVE  /\ bist \notin {"WAIT_ISSUE_WR", "WAIT_ISSUE_READ"}
           /\ bist = "WRITE" => ChipWord = maddr
           /\ bist = "READ" => pipe[tCL + 2] = maddr
<1>1. NoStrayStrobe /\ RightWord
    BY CtlSafe
<1>2. mstate = "DATA" => (WriteCycle <=> mwr)
    <2>1. WriteCycle => iwr
        BY DEF CtlInv, StreamInv, OwnerInv, WriteCycle, Ahead
    <2>2. ~WriteCycle => ~iwr
        <3>1. Returning => ~Drained
            BY Constants DEF Returning, Drained, Slots
        <3> QED
            BY <3>1 DEF DStb, CtlInv, StreamInv, OwnerInv
    <2> QED
        BY <2>1, <2>2 DEF BistInv
<1> QED
    BY <1>1, <1>2 DEF NoStrayStrobe, RightWord, BistInv

LEMMA StepBist ==
    ASSUME CtlInv, BistInv, BistNext
    PROVE  BistInv'
<1> USE DEF BistInv
<1>1. /\ maddr \in Addr
      /\ (maddr + 1) % (Rows * Cols) = IF LastAddr THEN 0 ELSE maddr + 1
    BY Follow DEF CtlInv, TimingInv, TypeOK, LastAddr
<1>2. \A a \in Addr : ~(a < 0) /\ (LastAddr => (a <= maddr)) /\ (a < maddr + 1 <=> a < maddr \/ a = maddr)
    BY <1>1, Sizes DEF Addr, LastAddr
<1>3. ASSUME StreamClock PROVE BistInv'
    <2>1. PICK term \in BOOLEAN : Clock(term)
        BY <1>3 DEF StreamClock
    <2>2. mstate' = "DATA" => (iwr' <=> mwr')
        <3>1. AnyMaster(term) /\ (mstate = "DATA" /\ mstate' = "DATA" => mwr' = mwr)
              /\ (Accepts(term) => mwr' = mwr)
            BY <2>1, StreamMaster
        <3>2. /\ iwr' = IF Accepts(term) THEN mwr ELSE iwr
              /\ Accepts(term) => mstate = "REQ"
            BY <2>1, Moves DEF Clock, CtlInv, FsmMoves, CommandMoves, IStb, ReadCycle, WriteCycle
        <3>3. CASE Accepts(term)
            BY <3>1, <3>2, <3>3
        <3>4. CASE ~Accepts(term)
            <4>1. mstate' = "DATA" => mstate = "DATA"
                BY <3>1, <3>4 DEF AnyMaster, CtlInv, TimingInv, TypeOK
            <4> QED
                BY <3>1, <3>2, <3>4, <4>1
        <3> QED
            BY <3>3, <3>4
    <2> QED
        BY <1>3, <2>2 DEF StreamClock, bistVars
<1>4. ASSUME BistClock PROVE BistInv'
    <2>1. /\ iwr' = IF Accepts(BistTerm) THEN mwr ELSE iwr
          /\ Accepts(BistTerm) => mstate = "REQ"
        <3>1. BistTerm \in BOOLEAN
            BY DEF BistTerm
        <3>2. FsmMoves(BistTerm) /\ CommandMoves(BistTerm)
            BY <1>4, <3>1, Moves DEF BistClock, CtlInv
        <3> QED
            BY <3>2 DEF FsmMoves, CommandMoves, IStb, ReadCycle, WriteCycle
    <2>2. CASE BistStart
        BY <1>2, <2>2, BistAssumption DEF BistStart
    <2>3. CASE BistIssue
        <3>1. ok' = ok /\ mwr' = mwr /\ maddr' = maddr /\ holds' = holds /\ bad' = bad /\ mstate = "REQ"
            BY <2>3, BistStrobe DEF BistIssue
        <3>2. Accepts(FALSE) => (iwr' <=> mwr')
            <4>1. BistTerm = FALSE
                BY <2>3 DEF BistIssue, BistTerm
            <4>2. Accepts(FALSE) => Accepts(BistTerm)
                BY <4>1, Zenon
            <4> QED
                BY <2>1, <3>1, <4>2
        <3>3. CASE Accepts(FALSE) /\ bist = "WAIT_ISSUE_WR"
            <4>1. bist' = "WRITE" /\ mstate' = "DATA"
                BY <2>3, <3>3 DEF BistIssue
            <4> QED
                BY <3>1, <3>2, <3>3, <4>1
        <3>4. CASE Accepts(FALSE) /\ bist = "WAIT_ISSUE_READ"
            <4>1. bist' = "READ" /\ mstate' = "DATA" /\ maddr = 0
                BY <2>3, <3>4 DEF BistIssue
            <4>2. \A a \in Addr : ~(a < maddr')
                BY <1>2, <3>1, <4>1
            <4>3. ok' /\ \A a \in bad : ~(a < maddr')
                BY <3>1, <3>4, <4>2
            <4> QED
                BY <3>1, <3>2, <3>4, <4>1, <4>3
        <3>5. CASE ~Accepts(FALSE)
            BY <2>3, <3>1, <3>5 DEF BistIssue
        <3> QED
            BY <2>3, <3>3, <3>4, <3>5 DEF BistIssue
    <2>4. CASE BistTransfer /\ bist = "WRITE"
        <3>1. ok' = ok /\ mwr' = mwr /\ bad' = bad /\ iwr' = iwr
            BY <2>1, <2>4 DEF BistTransfer
        <3>2. CASE DStb
            <4>1. holds' = holds \cup ({maddr} \ bad) /\ maddr' = IF LastAddr THEN 0 ELSE maddr + 1
                BY <1>1, <2>4, <3>2, BistStrobe DEF BistTransfer
            <4>2. CASE LastAddr
                <5>1. \A a \in Addr : a \in holds' <=> a \notin bad
                    BY <1>1, <1>2, <2>4, <4>1, <4>2 DEF Addr
                <5>2. bist' = "WRITE-TERM" /\ mstate' = "WAIT"
                    BY <2>4, <3>2, <4>2 DEF BistTransfer, BistLast
                <5> QED
                    BY <1>1, <2>4, <3>1, <4>1, <5>1, <5>2
            <4>3. CASE ~LastAddr
                <5>1. \A a \in Addr : a \in holds' <=> a < maddr' /\ a \notin bad
                    BY <1>1, <1>2, <2>4, <4>1, <4>3
                <5>2. bist' = "WRITE" /\ mstate' = "DATA"
                    BY <2>4, <3>2, <4>3 DEF BistTransfer, BistLast
                <5> QED
                    BY <1>1, <2>4, <3>1, <4>1, <5>1, <5>2
            <4> QED
                BY <4>2, <4>3
        <3>3. CASE ~DStb
            <4>1. /\ bist' = "WRITE" /\ mstate' = "DATA" /\ mstate = "DATA"
                  /\ maddr' = maddr /\ holds' = holds
                BY <2>4, <3>3 DEF BistTransfer
            <4> QED
                BY <2>4, <3>1, <4>1
        <3> QED
            BY <3>2, <3>3
    <2>5. CASE BistTransfer /\ bist = "READ"
        <3>1. holds' = holds /\ mwr' = mwr /\ bad' = bad /\ iwr' = iwr
            BY <2>1, <2>5 DEF BistTransfer
        <3>2. CASE DStb
            <4>1. /\ ok' = (ok /\ maddr \notin bad)
                  /\ maddr' = IF LastAddr THEN 0 ELSE maddr + 1
                BY <1>1, <2>5, <3>2, BistStrobe DEF BistTransfer, Mismatch
            <4>2. ok' <=> \A a \in bad : ~(a < maddr + 1)
                BY <1>1, <1>2, <2>5, <4>1
            <4>3. CASE LastAddr
                <5>1. \A a \in bad : a < maddr + 1
                    BY <1>1, <1>2, <4>3, Sizes DEF Addr
                <5>2. ok' <=> bad = {}
                    BY <4>2, <5>1
                <5> QED
                    BY <2>5, <3>1, <3>2, <4>1, <4>3, <5>2 DEF BistTransfer, BistLast
            <4>4. CASE ~LastAddr
                BY <2>5, <3>1, <3>2, <4>1, <4>2, <4>4 DEF BistTransfer, BistLast
            <4> QED
                BY <4>3, <4>4
        <3>3. CASE ~DStb
            BY <2>5, <3>1, <3>3 DEF BistTransfer
        <3> QED
            BY <3>2, <3>3
    <2>6. CASE BistTurn
        BY <1>2, <2>1, <2>6 DEF BistTurn, masterVars
    <2>7. CASE BistFinish
        BY <2>1, <2>7 DEF BistFinish
    <2> QED
        BY <1>4, <2>2, <2>3, <2>4, <2>5, <2>6, <2>7 DEF BistClock, BistTransfer
<1> QED
    BY <1>3, <1>4 DEF BistNext
-----------------------------------------------------------------------------
(* The theorems.                                                           *)

LEMMA StreamCtl == Spec => []CtlInv
<1>1. CtlInv /\ [Next]_vars => CtlInv'
    <2> SUFFICES ASSUME CtlInv, [Next]_vars PROVE CtlInv'
        OBVIOUS
    <2>1. CASE Next
        <3>1. PICK term \in BOOLEAN : Clock(term)
            BY <2>1 DEF Next
        <3> QED
            BY <3>1, StreamMaster, StepCtl DEF Clock
    <2>2. CASE UNCHANGED vars
        BY <2>2, CtlUnchanged
    <2> QED
        BY <2>1, <2>2
<1> QED
    BY <1>1, InitCtl, PTL DEF Spec

LEMMA BistCtl == BistSpec => [](CtlInv /\ BistInv)
<1>1. BistInit => CtlInv /\ BistInv
    BY InitCtl DEF BistInit, Init, BistInv
<1>2. CtlInv /\ BistInv /\ [BistNext]_allVars => (CtlInv /\ BistInv)'
    <2> SUFFICES ASSUME CtlInv, BistInv, [BistNext]_allVars PROVE (CtlInv /\ BistInv)'
        OBVIOUS
    <2>1. CASE StreamClock
        <3>1. PICK term \in BOOLEAN : Clock(term)
            BY <2>1 DEF StreamClock
        <3> QED
            BY <2>1, <3>1, StreamMaster, StepCtl, StepBist DEF Clock, BistNext
    <2>2. CASE BistClock
        <3>1. BistTerm \in BOOLEAN
            BY DEF BistTerm
        <3>2. CtlInv'
            BY <2>2, <3>1, BistMaster, StepCtl DEF BistClock
        <3> QED
            BY <2>2, <3>2, StepBist DEF BistNext
    <2>3. CASE UNCHANGED allVars
        <3>1. UNCHANGED vars /\ UNCHANGED bistVars
            BY <2>3 DEF allVars
        <3> QED
            BY <3>1, CtlUnchanged DEF bistVars, BistInv, vars, masterVars, cmdVars
    <2> QED
        BY <2>1, <2>2, <2>3 DEF BistNext
<1> QED
    BY <1>1, <1>2, PTL DEF BistSpec

\* Every state is well-formed, streams or self test on the controller.
THEOREM TypeCorrect == (Spec => []TypeOK) /\ (BistSpec => []BistTypeOK)
<1>1. CtlInv => TypeOK
    BY CtlSafe
<1>2. CtlInv /\ BistInv => BistTypeOK
    <2> SUFFICES ASSUME CtlInv, BistInv PROVE BistTypeOK
        OBVIOUS
    <2>1. TypeOK
        BY CtlSafe
    <2>2. mstate = CASE bist \in {"WAIT_ISSUE_WR", "WAIT_ISSUE_READ"} -> "REQ"
                     [] bist \in {"WRITE", "READ"} -> "DATA"
                     [] bist \in {"WRITE-TERM", "READ-TERM"} -> "WAIT"
                     [] OTHER -> mstate
        BY DEF BistInv
    <2>3. bist \in {"WAIT_ISSUE_READ", "READ"} => holds = Addr \ bad
        BY DEF BistInv
    <2> QED
        BY <2>1, <2>2, <2>3 DEF BistTypeOK, BistInv
<1> QED
    BY <1>1, <1>2, StreamCtl, BistCtl, PTL

\* fsm of SDRAMCTL never gives the chip a command it is not ready for: not
\* while a row is open that must be closed, and not before tRP, tRFC, tRCD or
\* tWR have passed, however transfers are cut short, reissued and refreshed (tRAS
\* and tRC are not modelled).
THEOREM CommandsLegal == (Spec => []LegalCommand) /\ (BistSpec => []LegalCommand)
    BY CtlSafe, StreamCtl, BistCtl, PTL

\* refresh_ctr goes beyond its interval by at most a command in one row: a
\* refresh is never put off by longer, and the counter never wraps.
THEOREM RefreshInTime == (Spec => []RefreshBounded) /\ (BistSpec => []RefreshBounded)
    BY CtlSafe, StreamCtl, BistCtl, PTL

\* d_stb is never raised to a master that is not in a transfer: reads under way
\* when a transfer ends are killed, and so is the row asked for next.
THEOREM NoStray == (Spec => []NoStrayStrobe) /\ (BistSpec => []NoStrayStrobe)
    BY CtlSafe, StreamCtl, BistCtl, PTL

\* A strobe is of the word its master is at: iptr, i_col_cnt and the burst
\* counter of the chip keep in step with the master's own address, over every
\* end of a row and every refresh.
THEOREM RightWords == (Spec => []RightWord) /\ (BistSpec => []RightWord)
    BY CtlSafe, StreamCtl, BistCtl, PTL

\* SDRAMBIST reports success exactly if the chip keeps every word, whichever
\* words are bad: it writes, reads and compares each of them.
THEOREM VerdictRight == BistSpec => Verdict
<1>1. CtlInv /\ BistInv /\ [BistNext]_allVars
        => ((bist = "READ-TERM" /\ bist' = "IDLE") => (ok' <=> bad = {}))
    <2> SUFFICES ASSUME BistInv, [BistNext]_allVars, bist = "READ-TERM", bist' = "IDLE"
                 PROVE  ok' <=> bad = {}
        OBVIOUS
    <2>1. BistFinish
        BY DEF BistNext, StreamClock, BistClock, BistStart, BistIssue, BistTransfer, BistTurn,
           allVars, bistVars
    <2> QED
        BY <2>1 DEF BistFinish, BistInv
<1> QED
    BY <1>1, BistCtl, PTL DEF BistSpec, Verdict
=============================================================================
