-------------------------------- MODULE Sniff --------------------------------
(***************************************************************************)
(* A capture made with ovctl (main and do_sniff of host/ovctl.py) on top   *)
(* of OvDevice: open, set the buffer up, start the capture, poll the       *)
(* counters, stop, close the output and the device. The user may interrupt *)
(* it (KeyboardInterrupt) at any point of that; Python sees the interrupt  *)
(* once a write to the device has returned, or in a callback that runs     *)
(* during the write. Nothing is modelled of a program that has ended.      *)
(*                                                                         *)
(* The device answers the accesses in order, after any delay, between      *)
(* capture packets (CmdProc shows that it does).                           *)
(***************************************************************************)
EXTENDS OvDevice

CONSTANTS MaxWire,        \* frames under way to the host (bound of the instance)
          MaxInterrupts   \* how often the user interrupts

ASSUME SniffAssumption == MaxWire \in Nat \ {0} /\ MaxInterrupts \in Nat

VARIABLES pc,        \* where the main thread is
          raising,   \* an exception other than the interrupt passes the finally part
          left,      \* interrupts left
          requests   \* accesses written, not yet made by the device

mainVars   == << pc, raising, left >>
hostVars   == << streamVars, commVars, mainSide, wire, faulted >>
vars       == << hostVars, mainVars, requests >>

-----------------------------------------------------------------------------
(* The accesses of do_sniff: those that the way through its parts hangs on. *)
(* An answer carries the address, not the value written.                   *)

Write(reg)  == [a |-> reg, wr |-> TRUE]
ReadOf(reg) == [a |-> reg, wr |-> FALSE]

Access(p) ==
    CASE p = "clk"     -> ReadOf("ucfg_stat")
      [] p = "start"   -> Write("cfg")
      [] p = "poll"    -> ReadOf("ptr")
      [] p = "sinkOff" -> Write("sink")
      [] p = "stop"    -> Write("cfg")

SetUpSteps == {"clk"}
TrySteps   == {"start", "poll"}
StopSteps  == {"sinkOff", "stop"}
AccessSteps == SetUpSteps \cup TrySteps \cup StopSteps

\* No access is the one that stands for none.
ASSUME NoneAssumption == None \notin { Access(p) : p \in AccessSteps }

\* Where the program goes on after an access. Without a PHY clock do_sniff
\* returns at once; polling ends when the time is up; an exception that passed
\* the finally part goes on to the close() of main. Cut short, the program takes
\* the shortest way after an overlap.
Unhurried(p) == IF CutShort /\ clash THEN {} ELSE {p}

After(p) ==
    CASE p = "clk"     -> {"close"} \cup Unhurried("start")
      [] p = "start"   -> {"poll"}
      [] p = "poll"    -> {"sinkOff"} \cup Unhurried("poll")
      [] p = "sinkOff" -> {"stop"}
      [] p = "stop"    -> {IF raising THEN "close" ELSE "closeOut"}

OpenSteps == {"open", "opening", "unloaded", "rejoin", "reopen", "reopening", "flush"}

\* Where an exception takes it: out of the try statement to its finally part,
\* from the rest of do_sniff to the close() of main, and from anywhere else out
\* of the program.
Unwound(p) ==
    CASE p \in TrySteps -> "sinkOff"
      [] p \in SetUpSteps \cup StopSteps \cup {"closeOut"} -> "close"
      [] OTHER -> "ended"

-----------------------------------------------------------------------------
(* The main thread. *)

\* open(); a device without bitstream is closed and opened again.
MainOpen ==
    /\ pc \in {"open", "reopen"} /\ OpenStart
    /\ pc' = IF pc = "open" THEN "opening" ELSE "reopening"
    /\ UNCHANGED << raising, left, requests >>

MainOpened ==
    /\ pc \in {"opening", "reopening"} /\ OpenEnd
    /\ pc' \in IF pc = "opening" THEN {"flush", "unloaded"} ELSE {"flush"}
    /\ UNCHANGED << raising, left, requests >>

\* The EEPROM is read and zeros are written, which the device skips.
MainFlush ==
    /\ pc = "flush" /\ ~writing /\ writing' = TRUE
    /\ UNCHANGED << streamVars, commVars, pending, closed, wire, faulted, mainVars, requests >>

\* __txn: write the request (the outcome of the write is not looked at), ...
MainWrite ==
    /\ pc \in AccessSteps /\ ~writing /\ pending = None
    /\ writing' = TRUE
    /\ pending' = Access(pc)
    /\ \/ requests' = Append(requests, Access(pc)) /\ UNCHANGED faulted
       \/ "write" \in Faults /\ faulted' = TRUE /\ UNCHANGED requests
    /\ UNCHANGED << streamVars, commVars, closed, wire, mainVars >>

\* ... handling events of the stream until it is written, ...
MainWritten ==
    /\ Written
    /\ pc' \in IF pc = "flush" THEN {"clk", "ended"} ELSE {pc}
    /\ UNCHANGED << raising, left, requests >>

\* ... and take the answer, which is asserted to be the one of the request.
MainReturn ==
    /\ pc \in AccessSteps /\ Receive
    /\ pc' \in IF AnswerFits THEN After(pc) ELSE {Unwound(pc)}
    /\ raising' = (raising \/ (~AnswerFits /\ pc \in TrySteps))
    /\ UNCHANGED << left, requests >>

\* Cut short, the user does not interrupt after an overlap.
Interruptible == left > 0 /\ ~(CutShort /\ clash)

\* KeyboardInterrupt in the main thread; do_sniff catches it while polling.
Interrupt ==
    /\ Interruptible /\ left' = left - 1
    /\ pc \notin {"done", "ended"} /\ ~writing
    /\ pc' = Unwound(pc)
    /\ pending' = None
    /\ UNCHANGED << streamVars, commVars, writing, closed, wire, faulted, raising, requests >>

\* KeyboardInterrupt in a callback during a write: no "except Exception" takes
\* it, ctypes reports it, and something is returned to ReadStreamCallback.
InterruptCallback ==
    /\ Interruptible /\ left' = left - 1
    /\ carried' = << >>
    /\ \E answer \in {"ok", "error"} : Stream!OtherReturns(answer)
    /\ faulted' = TRUE
    /\ UNCHANGED << thread, commTerm, commExc, buf, clash, answers, mainSide, wire,
                    pc, raising, requests >>

MainCloseOut ==
    /\ pc = "closeOut" /\ pc' = "close"
    /\ closed' = TRUE
    /\ UNCHANGED << streamVars, commVars, writing, pending, wire, faulted, raising, left, requests >>

MainClose ==
    /\ pc \in {"unloaded", "close"} /\ CloseStart
    /\ pc' = IF pc = "unloaded" THEN "rejoin" ELSE "join"
    /\ UNCHANGED << raising, left, requests >>

MainJoin ==
    /\ pc \in {"rejoin", "join"} /\ Joined
    /\ pc' = IF pc = "rejoin" THEN "reopen" ELSE "done"
    /\ UNCHANGED << hostVars, raising, left, requests >>

MainDone == pc \in {"done", "ended"} /\ UNCHANGED vars

Main ==
    \/ MainOpen \/ MainOpened \/ MainFlush \/ MainWrite \/ MainWritten \/ MainReturn
    \/ MainCloseOut \/ MainClose \/ MainJoin

-----------------------------------------------------------------------------
(* The device. *)

DeviceAnswer ==
    /\ requests # << >> /\ Len(wire) < MaxWire
    /\ wire' = Append(wire, Head(requests))
    /\ requests' = Tail(requests)
    /\ UNCHANGED << streamVars, commVars, mainSide, faulted, mainVars >>

\* Capture packets come at any time: before the capture is on they are what an
\* earlier program left in the ring (cut short, none comes after an overlap, when
\* callbacks may take any frames anyhow).
DevicePacket ==
    /\ Len(wire) < MaxWire /\ ~(CutShort /\ clash)
    /\ wire' = Append(wire, Packet)
    /\ UNCHANGED << streamVars, commVars, mainSide, faulted, mainVars, requests >>

-----------------------------------------------------------------------------
Init ==
    /\ DeviceInit /\ closed = FALSE
    /\ pc = "open" /\ raising = FALSE /\ left = MaxInterrupts
    /\ requests = << >>

\* A step of the host while the program runs. Cut short, the progress is not
\* reported beside a callback in the main thread after an interrupt.
Quietly(A) ==
    /\ pc # "ended" /\ A
    /\ CutShort /\ left < MaxInterrupts => phase' # "report" \/ aside' = Stream!Nobody
    /\ UNCHANGED << mainVars, requests >>

Next ==
    /\ Stream!Intact
    /\ \/ Main \/ Interrupt \/ InterruptCallback \/ MainDone
       \/ Quietly(Thread) \/ Quietly(MainCompletion) \/ Quietly(MainCallback)
       \/ pc # "ended" /\ (DeviceAnswer \/ DevicePacket)

Spec == Init /\ [][Next]_vars

(* Fairness: both threads run, the device answers, and libusb hands over   *)
(* what has arrived or was cancelled, in either of them. A write ends even *)
(* if completions keep coming meanwhile.                                   *)

SomeCompletion(outcome, data) ==
    \E t \in Stream!Xfers : Transfer(t, outcome, data) \/ MainTransfer(t, outcome, data)

Fairness ==
    /\ WF_vars(Stream!Intact /\ Main) /\ SF_vars(Stream!Intact /\ MainWritten)
    /\ SF_vars(Stream!Intact /\ pc # "ended" /\ DeviceAnswer)
    /\ WF_vars(Stream!Intact /\ Quietly(ThreadLoop \/ ThreadQuiet \/ ThreadReport))
    /\ SF_vars(Stream!Intact /\ Quietly(ThreadTurn(TRUE, FALSE)))
    /\ WF_vars(Stream!Intact /\ Quietly(MainCallback))
    /\ SF_vars(Stream!Intact /\ Quietly(SomeCompletion("CANCELLED", << >>)))
    /\ SF_vars(Stream!Intact /\ Quietly(wire # << >> /\ SomeCompletion("COMPLETED", << Head(wire) >>)))

FairSpec == Spec /\ Fairness

-----------------------------------------------------------------------------
(* Properties. *)

TypeOK ==
    /\ Stream!StreamTypeOK
    /\ thread \in {"none", "running", "ended"}
    /\ {commTerm, commExc, clash, writing, closed, faulted, raising} \subseteq BOOLEAN
    /\ carried # << >> => writing
    /\ pending = None \/ pending \in { Access(p) : p \in AccessSteps }
    /\ Len(wire) <= MaxWire
    /\ pc \in AccessSteps \cup OpenSteps \cup {"closeOut", "close", "join", "done", "ended"}
    /\ left \in 0 .. MaxInterrupts

\* The clean-up does not free a transfer while libusb has it. It may free one,
\* or end altogether, beside a callback in the main thread that goes on to use
\* what was freed, but only after a failure or an exception: the end that the
\* program asks for comes while the main thread handles no events.
NoUseAfterFree ==
    /\ submitted \subseteq held
    /\ Stream!Intact \/ faulted \/ commExc

\* The assertion of __txn (LibOV.py:363): the answer taken is the one of the
\* access that is waiting.
AnswersMatch == (pending # None /\ answers # << >>) => AnswerFits

\* Without an interrupt it holds, whatever the delays, failures and reopenings,
\* as long as no two callbacks overlap.
AnswersMatchUndisturbed == (left = MaxInterrupts /\ ~clash) => AnswersMatch

\* As long as no transfer fails, no callback raises and no two of them overlap,
\* an access returns: no answer is left behind in a transfer, in the buffer or
\* in the queue, in whichever thread it arrives.
CallReturns == (pending # None) ~> (pending = None \/ faulted \/ commExc \/ clash)

\* close() returns, whatever failed before, unless a transfer could not be
\* submitted: then the clean-up sweeps for ever.
CloseReturns ==
    (pc \in {"rejoin", "join"}) ~> (pc \in {"reopen", "done", "ended"} \/ Stream!Stranded)

\* An exception in a callback ends the thread, also one that is noted between
\* the start of the thread and the end of open(), which clears the flag; unless
\* memory runs out again and again, so that the callback is never called, or
\* the program has ended or used freed memory before.
ExceptionEndsThread ==
    <>[][~Stream!OutOfMemory]_vars =>
        (commExc ~> (thread = "ended" \/ Stream!Stranded \/ pc = "ended" \/ ~Stream!Intact))
=============================================================================
