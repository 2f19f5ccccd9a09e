------------------------------ MODULE OvDevice -------------------------------
(***************************************************************************)
(* OVDevice and IO of host/LibOV.py: the thread that keeps ReadStream      *)
(* running and takes frames out of its data, and the register accesses of  *)
(* the main thread, which wait for the answers that are put in a queue.    *)
(* The two share __comm_term, __comm_exc, __buf, the queue and the list of *)
(* packet handlers.                                                        *)
(*                                                                         *)
(* The callback that takes the frames runs in either thread: the main one  *)
(* handles the events of libusb while it waits for a write of its own. A   *)
(* callback with data has the lock of the events, the report of the        *)
(* progress, which brings none, has not: the two may overlap, and then     *)
(* their statements mix on __buf, which is read, summed or cut, and stored *)
(* in several steps.                                                       *)
(*                                                                         *)
(* A transfer brings one frame or nothing. A frame is the answer to an     *)
(* access, a capture packet, or bytes that look like an answer with a      *)
(* wrong checksum: where an earlier program left off in the middle of one, *)
(* or where two callbacks cut the buffer at the same time.                 *)
(***************************************************************************)
EXTENDS Integers, Sequences, FiniteSets

CONSTANTS NumTransfers, Faults,  \* see ReadStream
          None,
          CutShort               \* TRUE: what follows an overlap of callbacks, or an
                                 \* interrupt, is cut short (bound of the instance)

ASSUME StreamAssumption ==
    /\ CutShort \in BOOLEAN
    /\ NumTransfers \in Nat \ {0}
    /\ Faults \subseteq {"transfer", "alloc", "submit", "write"}

VARIABLES phase, held, status, submitted, cancelled, result, aside, sweep,  \* ReadStream
          thread,    \* __comms: "none", "running" or "ended"
          commTerm,  \* __comm_term
          commExc,   \* __comm_exc: an exception ended a callback
          buf,       \* __buf: frames received and not consumed
          clash,     \* two callbacks have overlapped: __buf is not to be relied on
          carried,   \* the data of the callback in the main thread
          answers,   \* the queue of IO.__IOService
          writing,   \* the main thread waits for a write of its own to end
          pending,   \* the access the main thread waits for, or None
          closed,    \* the output of the packet handler is closed: it raises
          wire,      \* frames the device has sent, not yet in a transfer
          faulted    \* a transfer or a write failed, or data was dropped, since open()

Stream == INSTANCE ReadStream WITH stop <- commTerm

streamVars == << phase, held, status, submitted, cancelled, result, aside, sweep >>
bufVars    == << buf, clash, carried >>
commVars   == << thread, commTerm, commExc, bufVars, answers >>
mainSide   == << writing, pending, closed >>

Packet  == [a |-> "packet", wr |-> FALSE]
Garbled == [a |-> "garbled", wr |-> FALSE]

DeviceInit ==
    /\ Stream!StreamInit
    /\ thread = "none" /\ commTerm = FALSE /\ commExc = FALSE
    /\ buf = << >> /\ clash = FALSE /\ carried = << >>
    /\ answers = << >> /\ writing = FALSE /\ pending = None
    /\ wire \in {<< >>, << Garbled >>} /\ faulted = FALSE

-----------------------------------------------------------------------------
(* The callback of __comms, with nobody beside it: as many frames as there *)
(* are, up to one whose consumption raises an exception, which stays in    *)
(* the buffer.                                                             *)

Raises(frame) == frame = Garbled \/ (frame = Packet /\ closed)

\* How many frames of the buffer are consumed.
Consumed(frames) ==
    CHOOSE n \in 0 .. Len(frames) :
        /\ \A i \in 1 .. n : ~Raises(frames[i])
        /\ n < Len(frames) => Raises(frames[n + 1])

\* Variant: the exception is noted, the thread is not told to end.
TermAfterNoted(raised) == commTerm
TermAfter(raised) == commTerm \/ raised

\* The bytes left in the buffer. Variant: the last frame consumed stays.
RestKeepsLast(frames, n) == IF n = 0 THEN frames ELSE SubSeq(frames, n, Len(frames))
Rest(frames, n) == SubSeq(frames, n + 1, Len(frames))

\* The answers among the first n frames, which go into the queue in their order.
AnswersAmong(frames, n) ==
    LET at == {i \in 1 .. n : frames[i] \notin {Packet, Garbled}}
    IN  [k \in 1 .. Cardinality(at) |->
            frames[CHOOSE i \in at : Cardinality({j \in at : j <= i}) = k]]

\* What the callback returns to the stream.
Returns(data) ==
    Stream!Answer(commTerm \/ Consumed(buf \o data) < Len(buf \o data))

CommCallback(data) ==
    LET frames == buf \o data
        n      == Consumed(frames)
        raised == n < Len(frames)
    IN  /\ buf' = Rest(frames, n)
        /\ answers' = answers \o AnswersAmong(frames, n)
        /\ commTerm' = TermAfter(raised)
        /\ commExc' = (commExc \/ raised)

\* After two callbacks have overlapped: a frame was consumed twice, or lost, or
\* what is left in the buffer begins in the middle of one. The buffer says
\* nothing any more: any callback may take frames, or none, and may raise (cut
\* short, a queue with answers in it does not grow). Only a frame that raises
\* stays where it is: every callback begins with it and takes nothing.
Muddled(data, raised) ==
    /\ LET frames == data \o data
       IN  \E n \in 0 .. (IF CutShort /\ answers # << >> THEN 0 ELSE Len(frames)) :
              answers' = answers \o AnswersAmong(frames, n)
    /\ buf' = << >>
    /\ commTerm' = TermAfter(raised)
    /\ commExc' = (commExc \/ raised)

\* The callback from its call to its return, and what it returns to the stream.
Callback(data, answer) ==
    \/ /\ ~clash \/ buf # << >>
       /\ CommCallback(data) /\ answer = Returns(data)
    \/ /\ clash /\ buf = << >>
       /\ \E raised \in BOOLEAN : Muddled(data, raised) /\ answer = Stream!Answer(commTerm \/ raised)

\* The report of the progress is under way, or data is taken in the main thread.
Overlap == phase' = "report" /\ aside'.at = "giving"

-----------------------------------------------------------------------------
(* The thread. read_async is called again whenever it returns, until the   *)
(* flag is set. Variant: it is called once.                                *)

ReadAgainNever == FALSE
ReadAgain == ~commTerm

ThreadLoop ==
    /\ thread = "running" /\ phase = "idle"
    /\ IF ReadAgain
       THEN Stream!Call /\ UNCHANGED thread
       ELSE thread' = "ended" /\ UNCHANGED streamVars
    /\ UNCHANGED << commTerm, commExc, bufVars, answers, mainSide, wire, faulted >>

\* Steps of ReadStream that call no callback of ours.
ThreadQuiet ==
    /\ \/ Stream!SubmitNext \/ Stream!OutOfMemory \/ Stream!Started
       \/ Stream!TestResult \/ Stream!SweepNext \/ Stream!PumpEnd
    /\ faulted' = (faulted \/ (phase = "setup" /\ phase' = "cleanup"))
    /\ UNCHANGED << commVars, mainSide, wire >>

\* A turn of the stream's loop, which may begin a report of the progress; ...
ThreadTurn(elapsed, failed) ==
    /\ Stream!EventsReturn(elapsed, failed)
    /\ clash' = (clash \/ Overlap)
    /\ faulted' = (faulted \/ failed)
    /\ UNCHANGED << thread, commTerm, commExc, buf, carried, answers, mainSide, wire >>

\* ... the report ends. It brings no data.
ThreadReport ==
    /\ \E answer \in {"ok", "stop"} : Stream!Reports(answer) /\ Callback(<< >>, answer)
    /\ UNCHANGED << thread, clash, carried, mainSide, wire, faulted >>

\* What a transfer may bring: nothing, or the next frame.
Loads == {<< >>} \cup (IF wire = << >> THEN {} ELSE {<< Head(wire) >>})
Brings(outcome, data) == data \in Loads /\ (data # << >> => outcome = "COMPLETED")

\* A transfer completes in the thread of the stream.
Transfer(t, outcome, data) ==
    /\ Brings(outcome, data)
    /\ \E answer \in {"ok", "stop"} :
          /\ Stream!ReadStreamCallback(t, outcome, answer)
          /\ IF Stream!Gives(outcome) THEN Callback(data, answer)
                                     ELSE answer = "ok" /\ UNCHANGED << commTerm, commExc, buf, answers >>
    /\ wire' = IF data = << >> THEN wire ELSE Tail(wire)
    /\ faulted' = \/ faulted
                  \/ IF Stream!Gives(outcome) THEN result' = "error"
                                             ELSE outcome = "ERROR" \/ data # << >>
    /\ UNCHANGED << thread, clash, carried, mainSide >>

\* One completes in the main thread, while that waits for a write of its own (cut
\* short, not after an overlap, and only while the buffer, which no sound callback
\* leaves filled unless it raises, is short).
MainTransfer(t, outcome, data) ==
    /\ writing
    /\ CutShort => ~clash /\ Len(buf) <= 1
    /\ Brings(outcome, data)
    /\ Stream!OtherCompletes(t, outcome)
    /\ wire' = IF data = << >> THEN wire ELSE Tail(wire)
    /\ carried' = data
    /\ faulted' = (faulted \/ outcome = "ERROR")
    /\ UNCHANGED << thread, commTerm, commExc, buf, clash, answers, mainSide >>

\* Data that comes when there is a result already is dropped, ...
MainDrops ==
    /\ Stream!OtherDrops
    /\ carried' = << >>
    /\ faulted' = (faulted \/ carried # << >>)
    /\ UNCHANGED << thread, commTerm, commExc, buf, clash, answers, mainSide, wire >>

\* ... or the callback of ours is called, ...
MainGives ==
    /\ Stream!OtherGives
    /\ clash' = (clash \/ Overlap)
    /\ UNCHANGED << thread, commTerm, commExc, buf, carried, answers, mainSide, wire, faulted >>

\* ... takes the data and returns.
MainReturns ==
    /\ \E answer \in {"ok", "stop"} : Stream!OtherReturns(answer) /\ Callback(carried, answer)
    /\ carried' = << >>
    /\ UNCHANGED << thread, clash, mainSide, wire, faulted >>

\* The rest of ReadStreamCallback.
MainQuiet ==
    /\ Stream!OtherFails \/ Stream!OtherStores \/ Stream!OtherMarks \/ Stream!OtherSubmits \/ Stream!OtherLeaves
    /\ faulted' = (faulted \/ (aside.at = "marked" /\ result' = "error"))
    /\ UNCHANGED << commVars, mainSide, wire >>

ThreadTransfer ==
    \E t \in Stream!Xfers, outcome \in Stream!Outcomes, data \in Loads : Transfer(t, outcome, data)

Thread ==
    \/ ThreadLoop \/ ThreadQuiet \/ ThreadTransfer \/ ThreadReport
    \/ \E elapsed, failed \in BOOLEAN : ThreadTurn(elapsed, failed)

MainCompletion ==
    \E t \in Stream!Xfers, outcome \in Stream!Outcomes, data \in Loads : MainTransfer(t, outcome, data)

MainCallback == MainDrops \/ MainGives \/ MainReturns \/ MainQuiet

-----------------------------------------------------------------------------
(* open() starts the thread and then clears the flag once more (OpenEnd);  *)
(* close() sets the flag and waits for the thread (Join).                  *)

OpenStart ==
    /\ thread' = "running"
    /\ commTerm' = FALSE /\ commExc' = FALSE /\ buf' = << >>
    /\ faulted' = FALSE
    /\ UNCHANGED << streamVars, clash, carried, answers, mainSide, wire >>

OpenEnd ==
    /\ commTerm' = FALSE
    /\ UNCHANGED << streamVars, thread, commExc, bufVars, answers, mainSide, wire, faulted >>

\* Variant: the flag is not set.
SetTermNot == commTerm' = commTerm
SetTerm == commTerm' = TRUE

CloseStart ==
    /\ SetTerm
    /\ UNCHANGED << streamVars, thread, commExc, bufVars, answers, mainSide, wire, faulted >>

Joined == thread = "ended"

-----------------------------------------------------------------------------
(* __txn: the request is written, then the answer is waited for, without a *)
(* time limit. Receive takes whatever answer is first in the queue.        *)

\* libusb_bulk_transfer returns when the callback it is in has.
Written ==
    /\ writing /\ aside = Stream!Nobody
    /\ writing' = FALSE
    /\ UNCHANGED << streamVars, commVars, pending, closed, wire, faulted >>

Receive ==
    /\ ~writing /\ pending # None /\ answers # << >>
    /\ answers' = Tail(answers)
    /\ pending' = None
    /\ UNCHANGED << streamVars, thread, commTerm, commExc, bufVars, writing, closed, wire, faulted >>

\* assert r_addr == io_ext
AnswerFits == Head(answers) = pending
=============================================================================
