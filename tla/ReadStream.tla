----------------------------- MODULE ReadStream ------------------------------
(***************************************************************************)
(* FTDIDevice_ReadStream (host/fastftdi.c): a set of USB transfers kept in *)
(* flight, each handed back to libusb by the callback that takes its data, *)
(* until the callback asks to stop or a transfer fails; then every         *)
(* transfer in flight is cancelled and freed.                              *)
(*                                                                         *)
(* libusb calls ReadStreamCallback in whatever thread handles its events:  *)
(* the one in FTDIDevice_ReadStream, but also any other that waits for a   *)
(* transfer of its own (libusb_bulk_transfer in FTDIDevice_Write). Events  *)
(* are handled by one thread at a time. So a callback in the thread of the *)
(* stream is one step, while one in another thread goes statement by       *)
(* statement beside the set-up, the report of the progress and the         *)
(* clean-up, which do not take the lock of the events.                     *)
(*                                                                         *)
(* libusb itself is modelled from its use: it owns a transfer from its     *)
(* submission to its completion, and may complete one with data that is    *)
(* about to be cancelled. Data comes in the order of the completions, so   *)
(* it does not matter here which of the transfers completes next.          *)
(***************************************************************************)
EXTENDS Integers

CONSTANTS NumTransfers,  \* how many transfers are kept in flight
          Faults         \* what may fail: subset of {"transfer", "alloc", "submit"}

VARIABLES phase,      \* where FTDIDevice_ReadStream is
          held,       \* transfers allocated and not freed (transfers[i] not NULL)
          status,     \* transfer->status; "active" is the -1 of the code
          submitted,  \* transfers libusb owns
          cancelled,  \* those it was asked to cancel
          result,     \* state.result: "ok" is 0, "stop" and "error" are not
          aside,      \* the callback another thread is in
          sweep,      \* the sweep of the clean-up: next transfer, done_cleanup
          stop        \* the callback asks to stop: it returns nonzero from now on

streamVars == << phase, held, status, submitted, cancelled, result, aside, sweep >>

Xfers    == 1 .. NumTransfers
Outcomes == {"COMPLETED", "CANCELLED", "ERROR"}
Answer(stopping) == IF stopping THEN "stop" ELSE "ok"

Nobody     == [t |-> 0, at |-> "none", answer |-> "ok"]
\* The status of transfers that are not allocated means nothing.
NoStatus   == [t \in Xfers |-> "COMPLETED"]
FirstSweep == [next |-> 1, clean |-> TRUE]

StreamInit ==
    /\ phase = "idle"
    /\ held = {} /\ status = NoStatus
    /\ submitted = {} /\ cancelled = {}
    /\ result = "ok" /\ aside = Nobody /\ sweep = FirstSweep

-----------------------------------------------------------------------------
(* What a callback may no longer touch. Behaviour is not modelled past a   *)
(* use of freed memory: nothing is known of it.                            *)

\* The callback of the other thread goes on to use its transfer.
Touches ==
    \/ aside.at = "done" /\ result = "ok"
    \/ aside.at = "again" /\ "ok" \in {result, aside.answer}
    \/ aside.at = "marked"

\* The transfer is still there when it is used, and so is the FTDIStreamState,
\* which lives on the stack of FTDIDevice_ReadStream.
Intact ==
    \/ aside = Nobody
    \/ phase # "idle" /\ (Touches => aside.t \in held)

-----------------------------------------------------------------------------
\* The call: a new FTDIStreamState, all entries of transfers NULL.
Call ==
    /\ phase = "idle" /\ phase' = "setup"
    /\ UNCHANGED << held, status, submitted, cancelled, result, aside, sweep >>

-----------------------------------------------------------------------------
(* Set-up: one transfer after the other is allocated and submitted. The    *)
(* first failure goes to the clean-up; a transfer whose submission failed  *)
(* is left with the status of one in progress.                             *)

IsNext(t) == t \in Xfers \ held /\ \A u \in Xfers \ held : t <= u

SubmitNext ==
    /\ phase = "setup"
    /\ \E t \in Xfers :
        /\ IsNext(t)
        /\ held' = held \cup {t}
        /\ status' = [status EXCEPT ![t] = "active"]
        /\ \/ submitted' = submitted \cup {t} /\ phase' = phase
           \/ "submit" \in Faults /\ submitted' = submitted /\ phase' = "cleanup"
    /\ UNCHANGED << cancelled, result, aside, sweep >>

OutOfMemory ==
    /\ phase = "setup" /\ held # Xfers /\ "alloc" \in Faults
    /\ phase' = "cleanup"
    /\ UNCHANGED << held, status, submitted, cancelled, result, aside, sweep >>

Started ==
    /\ phase = "setup" /\ held = Xfers
    /\ phase' = "first"
    /\ UNCHANGED << held, status, submitted, cancelled, result, aside, sweep >>

-----------------------------------------------------------------------------
(* ReadStreamCallback. libusb sets the status of a transfer and calls it;  *)
(* data is passed on while there is no result, and the transfer is         *)
(* submitted again if there is still none.                                 *)

\* What may become of a transfer that libusb owns.
Completes(t, outcome) ==
    /\ aside = Nobody
    /\ t \in submitted
    /\ outcome = "ERROR" => "transfer" \in Faults
    /\ outcome = "CANCELLED" => t \in cancelled

\* The data of the transfer is given to the callback of the caller.
Gives(outcome) == result = "ok" /\ outcome = "COMPLETED"

ResultAfter(outcome, answer) ==
    CASE result # "ok" -> result
      [] Gives(outcome) -> answer
      [] OTHER -> "error"

\* Variant: the transfer goes back with the status libusb left in it.
NewStatusKept(outcome, again) == outcome
NewStatus(outcome, again) == IF again THEN "active" ELSE outcome
GoesOn(outcome, answer) == ResultAfter(outcome, answer) = "ok"

\* In the thread of the stream, inside libusb_handle_events_timeout.
ReadStreamCallback(t, outcome, answer) ==
    /\ phase \in {"first", "run", "pump"}
    /\ Completes(t, outcome)
    /\ cancelled' = cancelled \ {t}
    /\ status' = [status EXCEPT ![t] = NewStatus(outcome, GoesOn(outcome, answer))]
    /\ IF GoesOn(outcome, answer)
       THEN \/ submitted' = submitted /\ result' = "ok"
            \/ "submit" \in Faults /\ submitted' = submitted \ {t} /\ result' = "error"
       ELSE submitted' = submitted \ {t} /\ result' = ResultAfter(outcome, answer)
    /\ UNCHANGED << phase, held, aside, sweep >>

(* In another thread: libusb takes the transfer back, ...                  *)
OtherCompletes(t, outcome) ==
    /\ Completes(t, outcome)
    /\ submitted' = submitted \ {t} /\ cancelled' = cancelled \ {t}
    /\ status' = [status EXCEPT ![t] = outcome]
    /\ aside' = [t |-> t, at |-> "done", answer |-> "ok"]
    /\ UNCHANGED << phase, held, result, sweep >>

\* ... a result in place ends the callback, ...
OtherDrops ==
    /\ aside.at = "done" /\ result # "ok"
    /\ aside' = Nobody
    /\ UNCHANGED << phase, held, status, submitted, cancelled, result, sweep >>

\* ... data is given to the callback of the caller, ...
OtherGives ==
    /\ aside.at = "done" /\ Gives(status[aside.t])
    /\ aside' = [aside EXCEPT !.at = "giving"]
    /\ UNCHANGED << phase, held, status, submitted, cancelled, result, sweep >>

\* ... which answers some time later ...
OtherReturns(answer) ==
    /\ aside.at = "giving"
    /\ aside' = [aside EXCEPT !.at = "answered", !.answer = answer]
    /\ UNCHANGED << phase, held, status, submitted, cancelled, result, sweep >>

\* ... (anything but data is an error), ...
OtherFails ==
    /\ aside.at = "done" /\ result = "ok" /\ status[aside.t] # "COMPLETED"
    /\ aside' = [aside EXCEPT !.at = "answered", !.answer = "error"]
    /\ UNCHANGED << phase, held, status, submitted, cancelled, result, sweep >>

\* ... the answer becomes the result, unless the loop, which has just seen that
\* there is none and stores the 0 of its libusb call, stores it after that, ...
OtherStores ==
    /\ aside.at = "answered"
    /\ result' \in {aside.answer} \cup (IF phase \in {"first", "run"} THEN {result} \cap {"ok"} ELSE {})
    /\ aside' = [aside EXCEPT !.at = "again"]
    /\ UNCHANGED << phase, held, status, submitted, cancelled, sweep >>

\* ... and without a result, the one stored or the one read again, ...
OtherMarks ==
    /\ aside.at = "again" /\ "ok" \in {result, aside.answer}
    /\ status' = [status EXCEPT ![aside.t] = NewStatus(@, TRUE)]
    /\ aside' = [aside EXCEPT !.at = "marked"]
    /\ UNCHANGED << phase, held, submitted, cancelled, result, sweep >>

\* ... the transfer is submitted, which gives the result.
OtherSubmits ==
    /\ aside.at = "marked"
    /\ \/ submitted' = submitted \cup {aside.t} /\ result' = "ok"
       \/ "submit" \in Faults /\ submitted' = submitted /\ result' = "error"
    /\ aside' = Nobody
    /\ UNCHANGED << phase, held, status, cancelled, sweep >>

OtherLeaves ==
    /\ aside.at = "again" /\ {result, aside.answer} # {"ok"}
    /\ aside' = Nobody
    /\ UNCHANGED << phase, held, status, submitted, cancelled, result, sweep >>

-----------------------------------------------------------------------------
(* One turn of the loop: the events of 10 ms, which may fail; when 0.1 s   *)
(* have passed the callback is told of the progress, and what it returns   *)
(* becomes the result. The time of the last report starts at 0, so the     *)
(* first turn always reports.                                              *)

EventsReturn(elapsed, failed) ==
    /\ phase \in {"first", "run"}
    /\ phase = "first" => elapsed
    /\ failed => "transfer" \in Faults
    /\ result' = IF result = "ok" /\ failed THEN "error" ELSE result
    /\ phase' = IF elapsed THEN "report" ELSE "test"
    /\ UNCHANGED << held, status, submitted, cancelled, aside, sweep >>

Reports(answer) ==
    /\ phase = "report" /\ phase' = "test"
    /\ result' = answer
    /\ UNCHANGED << held, status, submitted, cancelled, aside, sweep >>

TestResult ==
    /\ phase = "test"
    /\ phase' = IF result = "ok" THEN "run" ELSE "cleanup"
    /\ UNCHANGED << held, status, submitted, cancelled, result, aside, sweep >>

-----------------------------------------------------------------------------
(* Clean-up: sweeps over the transfers until one finds none in progress,   *)
(* with the events of 10 ms after each. Transfers in progress are          *)
(* cancelled, completed and cancelled ones are freed, any other is left.   *)

\* Entries of the array that were set.
Active == {t \in held : status[t] = "active"}

SweepNext ==
    /\ phase = "cleanup"
    /\ LET t == sweep.next
       IN  /\ cancelled' = cancelled \cup ({t} \cap Active \cap submitted)
           /\ held' = IF status[t] \in {"COMPLETED", "CANCELLED"} THEN held \ {t} ELSE held
           /\ sweep' = [next |-> IF t = NumTransfers THEN 1 ELSE t + 1,
                        clean |-> sweep.clean /\ t \notin Active]
           /\ phase' = IF t = NumTransfers THEN "pump" ELSE phase
    /\ UNCHANGED << status, submitted, result, aside >>

\* Variant: the first sweep is the last.
CleanSweepAtOnce == TRUE
CleanSweep == sweep.clean

\* The events were handled, after the last sweep too; the array and the state
\* are given back.
PumpEnd ==
    /\ phase = "pump"
    /\ IF CleanSweep
       THEN phase' = "idle" /\ held' = {} /\ status' = NoStatus /\ result' = "ok"
       ELSE phase' = "cleanup" /\ UNCHANGED << held, status, result >>
    /\ sweep' = FirstSweep
    /\ UNCHANGED << submitted, cancelled, aside >>

\* A transfer whose submission failed counts as one in progress for ever.
Stranded == aside = Nobody /\ \E t \in Active : t \notin submitted

-----------------------------------------------------------------------------
(* The function called again and again in a program of one thread, whose   *)
(* callback may ask to stop at any time and sticks to it (as __comm_term   *)
(* does). OvDevice has the other thread.                                   *)

vars == << streamVars, stop >>

Init == StreamInit /\ stop = FALSE

Steps(answer) ==
    \/ Call \/ SubmitNext \/ OutOfMemory \/ Started \/ TestResult \/ SweepNext \/ PumpEnd
    \/ \E t \in Xfers, outcome \in Outcomes : ReadStreamCallback(t, outcome, answer)
    \/ \E elapsed, failed \in BOOLEAN : EventsReturn(elapsed, failed)
    \/ Reports(answer)

Next ==
    \/ Steps(Answer(stop)) /\ UNCHANGED stop
    \/ phase # "idle" /\ ~stop /\ stop' = TRUE /\ UNCHANGED streamVars
    \/ phase = "idle" /\ stop /\ stop' = FALSE /\ UNCHANGED streamVars

Spec == Init /\ [][Next]_vars
-----------------------------------------------------------------------------
(* Properties. *)

\* In particular no transfer outlives the call that submitted it.
StreamTypeOK ==
    /\ phase \in {"idle", "setup", "first", "run", "report", "test", "cleanup", "pump"}
    /\ held \subseteq Xfers
    /\ status \in [Xfers -> Outcomes \cup {"active"}]
    /\ submitted \subseteq Xfers /\ cancelled \subseteq submitted
    /\ phase = "idle" => submitted = {}
    /\ result \in {"ok", "stop", "error"}
    /\ aside.t \in Xfers \cup {0} /\ aside.answer \in {"ok", "stop", "error"}
    /\ sweep.next \in Xfers /\ sweep.clean \in BOOLEAN

\* "This function continuously transfers data until either an error occurs or
\* the callback returns a nonzero value" (fastftdi.c:346): after a transfer
\* has failed no more data is given to the callback.
ErrorStops ==
    [][\A t \in Xfers :
         (ReadStreamCallback(t, "COMPLETED", Answer(stop)) /\ Gives("COMPLETED"))
            => \A u \in held : status[u] # "ERROR"]_vars
=============================================================================
