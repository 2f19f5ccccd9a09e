---------------------------- MODULE Sniff_proofs -----------------------------
(***************************************************************************)
(* Proofs about the capture program, whatever fails, whenever the user     *)
(* interrupts it, in whichever thread the callbacks run and however many   *)
(* transfers are kept in flight: no transfer is freed while libusb has it; *)
(* a callback in the main thread goes on to use what was freed only after  *)
(* a failure or an exception; and as long as there was no interrupt and no *)
(* two callbacks overlapped, an access is given its own answer.            *)
(***************************************************************************)
EXTENDS Sniff, FiniteSetTheorems, SequenceTheorems, TLAPS

Statuses   == Stream!Outcomes \cup {"active"}
Results    == {"ok", "stop", "error"}
CleaningUp == {"cleanup", "pump"}
Places     == {"done", "giving", "answered", "again", "marked"}

StreamTypes ==
    /\ phase \in {"idle", "setup", "first", "run", "report", "test"} \cup CleaningUp
    /\ held \subseteq Stream!Xfers
    /\ status \in [Stream!Xfers -> Statuses]
    /\ result \in Results
    /\ \/ aside = Stream!Nobody
       \/ aside \in [t : Stream!Xfers, at : Places, answer : Results]
    /\ sweep \in [next : Stream!Xfers, clean : BOOLEAN]

\* libusb has a transfer only while its status says that it is in progress,
\* and none when the stream is not running. The sweep frees a transfer by its
\* status alone, so this is what keeps it from freeing too early.
Owned ==
    /\ submitted \subseteq held
    /\ \A t \in submitted : status[t] = "active" /\ t # aside.t
    /\ cancelled \subseteq submitted
    /\ cancelled # {} => phase \in CleaningUp
    /\ phase = "idle" => submitted = {} /\ result = "ok"

\* What the statement that the other thread has come to says of its transfer.
Beside ==
    /\ aside # Stream!Nobody /\ phase \notin CleaningUp \cup {"idle"} => aside.t \in held
    /\ aside.at = "giving" => status[aside.t] = "COMPLETED"
    /\ aside.at = "marked" /\ aside.t \in held => status[aside.t] = "active"
    /\ aside.at \in {"answered", "again"} /\ status[aside.t] # "COMPLETED" => aside.answer = "error"
    /\ aside.at = "again" /\ aside.answer # "ok" /\ phase \in {"setup"} \cup CleaningUp => result # "ok"

\* A sweep that has found nothing in progress has left no transfer behind it
\* that comes back: what it did not free had failed, and nobody submits it
\* again. So it is the last sweep only if libusb has no transfer any more.
Swept(u) == phase = "pump" \/ u < sweep.next
Cleaned ==
    /\ phase \notin CleaningUp => sweep = Stream!FirstSweep
    /\ phase \in CleaningUp /\ sweep.clean => \A u \in held : Swept(u) => status[u] = "ERROR"

StreamInv == StreamTypes /\ Owned /\ Beside /\ Cleaned

USE DEF Statuses, Results, CleaningUp, Places
-----------------------------------------------------------------------------
(* The steps of the stream's own thread.                                   *)

\* Nothing but the phase changes, and the clean-up is not touched.
LEMMA PhaseStep ==
    ASSUME StreamInv, Stream!Intact, UNCHANGED << held, status, submitted, cancelled, aside, sweep >>,
           \/ Stream!Call \/ Stream!OutOfMemory \/ Stream!Started \/ Stream!TestResult
           \/ \E elapsed, failed \in BOOLEAN : Stream!EventsReturn(elapsed, failed)
           \/ \E answer \in Results : Stream!Reports(answer)
    PROVE  StreamInv'
<1>1. /\ phase \notin CleaningUp
      /\ phase' \in {"setup", "first", "run", "report", "test", "cleanup"}
      /\ result' \in Results
    BY DEF Stream!Call, Stream!OutOfMemory, Stream!Started, Stream!TestResult,
           Stream!EventsReturn, Stream!Reports, StreamInv, StreamTypes
<1>2. phase = "idle" => aside = Stream!Nobody
    BY DEF Stream!Intact
<1>3. phase' \in {"setup", "cleanup"} => result' # "ok" \/ (phase \in {"idle", "setup"} /\ result' = result)
    BY DEF Stream!Call, Stream!OutOfMemory, Stream!Started, Stream!TestResult,
           Stream!EventsReturn, Stream!Reports
<1>4. aside = Stream!Nobody => aside.at = "none" /\ aside.at \notin Places
    BY DEF Stream!Nobody
<1>5. StreamTypes'
    BY <1>1 DEF StreamInv, StreamTypes
<1>6. Owned'
    BY <1>1 DEF StreamInv, Owned
<1>7. Beside'
    BY <1>1, <1>2, <1>3, <1>4 DEF StreamInv, Beside
<1>8. Cleaned'
    <2>1. sweep' = Stream!FirstSweep
        BY <1>1 DEF StreamInv, Cleaned
    <2>2. \A u \in held : ~(u < 1)
        BY DEF StreamInv, StreamTypes, Stream!Xfers
    <2>3. phase' # "pump"
        BY <1>1
    <2> QED
        BY <2>1, <2>2, <2>3 DEF Cleaned, Swept, Stream!FirstSweep
<1> QED
    BY <1>5, <1>6, <1>7, <1>8 DEF StreamInv

LEMMA SubmitStep == StreamInv /\ Stream!SubmitNext => StreamInv'
<1> SUFFICES ASSUME StreamInv, Stream!SubmitNext PROVE StreamInv'
    OBVIOUS
<1>1. PICK t \in Stream!Xfers :
        /\ t \notin held
        /\ held' = held \cup {t}
        /\ status' = [status EXCEPT ![t] = "active"]
        /\ submitted' \in {submitted, submitted \cup {t}}
        /\ phase' \in {"setup", "cleanup"}
    BY DEF Stream!SubmitNext, Stream!IsNext
<1>2. phase = "setup" /\ UNCHANGED << cancelled, result, aside, sweep >>
    BY DEF Stream!SubmitNext
<1>3. aside = Stream!Nobody \/ (aside.t \in held /\ aside.t # t)
    BY <1>1, <1>2 DEF StreamInv, Beside
<1>4. t # 0
    BY DEF Stream!Xfers
<1>5. /\ aside = Stream!Nobody => aside.at = "none" /\ aside.t = 0
      /\ aside.t # t
    BY <1>3, <1>4 DEF Stream!Nobody
<1>6. status' \in [Stream!Xfers -> Statuses] /\ status'[t] = "active"
      /\ \A u \in Stream!Xfers : u # t => status'[u] = status[u]
    BY <1>1 DEF StreamInv, StreamTypes
<1>7. StreamTypes'
    BY <1>1, <1>2, <1>6 DEF StreamInv, StreamTypes
<1>8. Owned'
    BY <1>1, <1>2, <1>5, <1>6 DEF StreamInv, Owned, StreamTypes
<1>9. Beside'
    <2>1. CASE aside = Stream!Nobody
        BY <1>2, <1>5, <2>1 DEF Beside
    <2>2. CASE aside # Stream!Nobody
        <3>1. aside.t \in Stream!Xfers /\ status'[aside.t] = status[aside.t]
            BY <1>5, <1>6, <2>2 DEF StreamInv, StreamTypes
        <3> QED
            BY <1>1, <1>2, <1>3, <2>2, <3>1 DEF StreamInv, Beside
    <2> QED
        BY <2>1, <2>2
<1>10. Cleaned'
    <2>1. sweep' = Stream!FirstSweep
        BY <1>2 DEF StreamInv, Cleaned
    <2>2. \A u \in held' : ~(u < 1)
        BY <1>7 DEF StreamTypes, Stream!Xfers
    <2>3. phase' # "pump"
        BY <1>1
    <2> QED
        BY <2>1, <2>2, <2>3 DEF Cleaned, Swept, Stream!FirstSweep
<1> QED
    BY <1>7, <1>8, <1>9, <1>10 DEF StreamInv

\* A callback in the thread of the stream: the other thread is in none.
LEMMA CallbackStep ==
    ASSUME StreamInv, NEW t \in Stream!Xfers, NEW outcome \in Stream!Outcomes,
           NEW answer \in Results, Stream!ReadStreamCallback(t, outcome, answer)
    PROVE  StreamInv'
<1> DEFINE again == Stream!GoesOn(outcome, answer)
<1>1. /\ t \in submitted /\ aside = Stream!Nobody /\ UNCHANGED << phase, held, aside, sweep >>
      /\ status' = [status EXCEPT ![t] = Stream!NewStatus(outcome, again)]
      /\ cancelled' = cancelled \ {t}
      /\ phase # "idle"
    BY DEF Stream!ReadStreamCallback, Stream!Completes
<1>2. Stream!NewStatus(outcome, again) \in Statuses /\ (again => Stream!NewStatus(outcome, again) = "active")
    BY DEF Stream!NewStatus
<1>3. /\ status' \in [Stream!Xfers -> Statuses]
      /\ again => status'[t] = "active"
      /\ \A u \in Stream!Xfers : u # t => status'[u] = status[u]
    BY <1>1, <1>2 DEF StreamInv, StreamTypes
<1>4. /\ submitted' \subseteq submitted
      /\ ~again => submitted' = submitted \ {t}
    BY DEF Stream!ReadStreamCallback
<1>5. result' \in Results
    <2>1. CASE again
        BY <2>1 DEF Stream!ReadStreamCallback
    <2>2. CASE ~again
        <3>1. result' = Stream!ResultAfter(outcome, answer)
            BY <2>2 DEF Stream!ReadStreamCallback
        <3>2. Stream!ResultAfter(outcome, answer) \in {result, answer, "error"}
            BY Zenon DEF Stream!ResultAfter
        <3> QED
            BY <3>1, <3>2 DEF StreamInv, StreamTypes
    <2> QED
        BY <2>1, <2>2
<1>6. aside.at = "none" /\ aside.t = 0
    BY <1>1 DEF Stream!Nobody
<1> HIDE DEF again
<1>7. StreamTypes'
    BY <1>1, <1>3, <1>5 DEF StreamInv, StreamTypes
<1>8. Owned'
    <2>1. \A u \in submitted' : status'[u] = "active" /\ u # aside'.t
        BY <1>1, <1>3, <1>4 DEF StreamInv, StreamTypes, Owned
    <2>2. cancelled' \subseteq submitted'
        <3>1. submitted \ {t} \subseteq submitted'
            BY DEF Stream!ReadStreamCallback
        <3> QED
            BY <1>1, <3>1 DEF StreamInv, Owned
    <2> QED
        BY <1>1, <1>4, <2>1, <2>2 DEF StreamInv, Owned
<1>9. Beside'
    BY <1>1, <1>6 DEF Beside
<1>10. Cleaned'
    <2>1. CASE phase \notin CleaningUp
        BY <1>1, <2>1 DEF StreamInv, Cleaned
    <2>2. CASE phase \in CleaningUp
        <3>1. phase = "pump"
            BY <2>2 DEF Stream!ReadStreamCallback
        <3>2. t \in held /\ status[t] # "ERROR"
            BY <1>1 DEF StreamInv, Owned
        <3>3. ~sweep.clean
            BY <3>1, <3>2 DEF StreamInv, Cleaned, Swept
        <3> QED
            BY <1>1, <2>2, <3>3 DEF Cleaned
    <2> QED
        BY <2>1, <2>2
<1> QED
    BY <1>7, <1>8, <1>9, <1>10 DEF StreamInv

\* One transfer of the sweep.
LEMMA SweepStep == StreamInv /\ Stream!SweepNext => StreamInv'
<1> SUFFICES ASSUME StreamInv, Stream!SweepNext PROVE StreamInv'
    OBVIOUS
<1> DEFINE t == sweep.next
<1>1. /\ phase = "cleanup" /\ UNCHANGED << status, submitted, result, aside >>
      /\ phase' = IF t = NumTransfers THEN "pump" ELSE "cleanup"
      /\ cancelled' = cancelled \cup ({t} \cap Stream!Active \cap submitted)
      /\ held' = IF status[t] \in {"COMPLETED", "CANCELLED"} THEN held \ {t} ELSE held
      /\ sweep' = [next |-> IF t = NumTransfers THEN 1 ELSE t + 1,
                   clean |-> sweep.clean /\ t \notin Stream!Active]
    BY DEF Stream!SweepNext
<1>2. /\ t \in Stream!Xfers /\ sweep.clean \in BOOLEAN
      /\ (IF t = NumTransfers THEN 1 ELSE t + 1) \in Stream!Xfers
    BY StreamAssumption DEF StreamInv, StreamTypes, Stream!Xfers
<1>3. sweep'.next = (IF t = NumTransfers THEN 1 ELSE t + 1) /\ (sweep'.clean => sweep.clean /\ t \notin Stream!Active)
    BY <1>1
<1> DEFINE swept == sweep.clean /\ t \notin Stream!Active
<1>4. StreamTypes'
    <2>1. swept \in BOOLEAN
        BY <1>2
    <2> HIDE DEF swept
    <2>2. sweep' \in [next : Stream!Xfers, clean : BOOLEAN]
        BY <1>1, <1>2, <2>1 DEF swept
    <2> QED
        BY <1>1, <2>2 DEF StreamInv, StreamTypes
<1>5. Owned'
    <2>1. submitted \subseteq held'
        BY <1>1 DEF StreamInv, Owned
    <2> QED
        BY <1>1, <2>1 DEF StreamInv, Owned
<1>6. Beside'
    BY <1>1 DEF StreamInv, Beside
<1>7. Cleaned'
    <2> SUFFICES ASSUME sweep'.clean, NEW u \in held', Swept(u)' PROVE status'[u] = "ERROR"
        BY <1>1 DEF Cleaned
    <2>1. u \in held /\ u \in Stream!Xfers
        BY <1>1 DEF StreamInv, StreamTypes
    <2>2. CASE u = t
        <3>1. status[u] # "active" /\ status[u] \in Statuses
            BY <1>3, <2>1, <2>2 DEF Stream!Active, StreamInv, StreamTypes
        <3>2. status[u] \notin {"COMPLETED", "CANCELLED"}
            BY <1>1, <2>2
        <3> QED
            BY <1>1, <3>1, <3>2 DEF Stream!Outcomes
    <2>3. CASE u # t
        <3>1. u < t
            <4>1. t = NumTransfers \/ u < t + 1
                BY <1>1, <1>3 DEF Swept
            <4> QED
                BY <1>2, <2>1, <2>3, <4>1, StreamAssumption DEF Stream!Xfers
        <3> QED
            BY <1>1, <1>3, <2>1, <3>1 DEF StreamInv, Cleaned, Swept
    <2> QED
        BY <2>2, <2>3
<1> QED
    BY <1>4, <1>5, <1>6, <1>7 DEF StreamInv

LEMMA PumpEndStep == StreamInv /\ Stream!PumpEnd => StreamInv'
<1> SUFFICES ASSUME StreamInv, Stream!PumpEnd PROVE StreamInv'
    OBVIOUS
<1>1. /\ phase = "pump" /\ UNCHANGED << submitted, cancelled, aside >>
      /\ sweep' = Stream!FirstSweep
    BY DEF Stream!PumpEnd
<1>2. Stream!FirstSweep \in [next : Stream!Xfers, clean : BOOLEAN]
    BY StreamAssumption DEF Stream!FirstSweep, Stream!Xfers
<1>3. Cleaned'
    <2>1. \A u \in Stream!Xfers : ~(u < 1)
        BY DEF Stream!Xfers
    <2>2. phase' \in {"idle", "cleanup"} /\ held' \subseteq Stream!Xfers
        BY DEF Stream!PumpEnd, StreamInv, StreamTypes
    <2> QED
        BY <1>1, <2>1, <2>2 DEF Cleaned, Swept, Stream!FirstSweep
<1>4. CASE sweep.clean
    <2>1. phase' = "idle" /\ held' = {} /\ status' = Stream!NoStatus /\ result' = "ok"
        BY <1>4 DEF Stream!PumpEnd, Stream!CleanSweep
    <2>2. submitted = {}
        BY <1>1, <1>4 DEF StreamInv, Owned, Cleaned, Swept
    <2>3. status' \in [Stream!Xfers -> Statuses] /\ \A u \in Stream!Xfers : status'[u] = "COMPLETED"
        BY <2>1 DEF Stream!NoStatus, Stream!Outcomes
    <2>4. aside = Stream!Nobody => aside.at = "none"
        BY DEF Stream!Nobody
    <2>5. StreamTypes'
        BY <1>1, <1>2, <2>1, <2>3 DEF StreamInv, StreamTypes
    <2>6. Owned'
        BY <1>1, <2>1, <2>2 DEF StreamInv, Owned
    <2>7. aside = Stream!Nobody \/ aside.t \in Stream!Xfers
        BY DEF StreamInv, StreamTypes
    <2>8. Beside'
        BY <1>1, <2>1, <2>3, <2>4, <2>7 DEF Beside
    <2> QED
        BY <1>3, <2>5, <2>6, <2>8 DEF StreamInv
<1>5. CASE ~sweep.clean
    <2>1. phase' = "cleanup" /\ UNCHANGED << held, status, result >>
        BY <1>5 DEF Stream!PumpEnd, Stream!CleanSweep
    <2>2. StreamTypes'
        BY <1>1, <1>2, <2>1 DEF StreamInv, StreamTypes
    <2>3. Owned' /\ Beside'
        BY <1>1, <2>1 DEF StreamInv, Owned, Beside
    <2> QED
        BY <1>3, <2>2, <2>3 DEF StreamInv
<1> QED
    BY <1>4, <1>5
-----------------------------------------------------------------------------
(* The steps of a callback in the other thread.                            *)

LEMMA OtherCompletesStep ==
    ASSUME StreamInv, NEW t \in Stream!Xfers, NEW outcome \in Stream!Outcomes,
           Stream!OtherCompletes(t, outcome)
    PROVE  StreamInv'
<1>1. /\ aside = Stream!Nobody /\ t \in submitted /\ UNCHANGED << phase, held, result, sweep >>
      /\ submitted' = submitted \ {t} /\ cancelled' = cancelled \ {t}
      /\ status' = [status EXCEPT ![t] = outcome]
      /\ aside' = [t |-> t, at |-> "done", answer |-> "ok"]
    BY DEF Stream!OtherCompletes, Stream!Completes
<1>2. /\ status' \in [Stream!Xfers -> Statuses]
      /\ \A u \in Stream!Xfers : u # t => status'[u] = status[u]
      /\ aside' \in [t : Stream!Xfers, at : Places, answer : Results]
      /\ aside'.t = t /\ aside'.at = "done"
    BY <1>1 DEF StreamInv, StreamTypes
<1>3. t \in held /\ status[t] = "active"
    BY <1>1 DEF StreamInv, Owned
<1>4. StreamTypes'
    BY <1>1, <1>2 DEF StreamInv, StreamTypes
<1>5. Owned'
    BY <1>1, <1>2 DEF StreamInv, Owned, StreamTypes
<1>6. Beside'
    BY <1>1, <1>2, <1>3 DEF Beside
<1>7. Cleaned'
    <2> SUFFICES ASSUME phase \in CleaningUp, sweep.clean, NEW u \in held, Swept(u) PROVE status'[u] = "ERROR"
        BY <1>1 DEF StreamInv, Cleaned, Swept
    <2>1. status[u] = "ERROR"
        BY DEF StreamInv, Cleaned
    <2> QED
        BY <1>2, <1>3, <2>1 DEF StreamInv, StreamTypes
<1> QED
    BY <1>4, <1>5, <1>6, <1>7 DEF StreamInv

\* The callback is over, and nothing else changed.
LEMMA OtherEndsStep ==
    StreamInv /\ (Stream!OtherDrops \/ Stream!OtherLeaves) => StreamInv'
<1> SUFFICES ASSUME StreamInv, Stream!OtherDrops \/ Stream!OtherLeaves PROVE StreamInv'
    OBVIOUS
<1>1. aside' = Stream!Nobody /\ UNCHANGED << phase, held, status, submitted, cancelled, result, sweep >>
    BY DEF Stream!OtherDrops, Stream!OtherLeaves
<1>2. aside'.t = 0 /\ aside'.at = "none" /\ 0 \notin Stream!Xfers
    BY <1>1 DEF Stream!Nobody, Stream!Xfers
<1>3. StreamTypes'
    BY <1>1 DEF StreamInv, StreamTypes
<1>4. Owned'
    BY <1>1, <1>2 DEF StreamInv, StreamTypes, Owned
<1>5. Beside'
    BY <1>1, <1>2 DEF Beside
<1>6. Cleaned'
    BY <1>1 DEF StreamInv, Cleaned, Swept
<1> QED
    BY <1>3, <1>4, <1>5, <1>6 DEF StreamInv

\* The callback goes on, from one statement to a later one.
LEMMA OtherGoesStep ==
    ASSUME StreamInv, NEW place \in {"giving", "answered"}, NEW answer \in Results,
           aside # Stream!Nobody, aside.at \in {"done", "giving"},
           place = "giving" => status[aside.t] = "COMPLETED",
           place = "answered" /\ status[aside.t] # "COMPLETED" => answer = "error",
           aside' = [aside EXCEPT !.at = place, !.answer = answer],
           UNCHANGED << phase, held, status, submitted, cancelled, result, sweep >>
    PROVE  StreamInv'
<1>1. /\ aside' \in [t : Stream!Xfers, at : Places, answer : Results]
      /\ aside'.t = aside.t /\ aside'.at = place /\ aside'.answer = answer
    BY DEF StreamInv, StreamTypes
<1>2. StreamTypes'
    BY <1>1 DEF StreamInv, StreamTypes
<1>3. Owned'
    BY <1>1 DEF StreamInv, Owned
<1>4. Beside'
    BY <1>1 DEF StreamInv, Beside
<1>5. Cleaned'
    BY DEF StreamInv, Cleaned, Swept
<1> QED
    BY <1>2, <1>3, <1>4, <1>5 DEF StreamInv

\* A callback that is somewhere is not nobody's.
LEMMA Someone ==
    ASSUME StreamInv, aside.at \in Places
    PROVE  aside \in [t : Stream!Xfers, at : Places, answer : Results] /\ aside # Stream!Nobody
    BY DEF StreamInv, StreamTypes, Stream!Nobody

LEMMA OtherAnswersStep ==
    ASSUME StreamInv,
           \/ Stream!OtherGives \/ Stream!OtherFails
           \/ \E answer \in Results : Stream!OtherReturns(answer)
    PROVE  StreamInv'
<1>1. aside.at \in {"done", "giving"} /\ UNCHANGED << phase, held, status, submitted, cancelled, result, sweep >>
    BY DEF Stream!OtherGives, Stream!OtherFails, Stream!OtherReturns
<1>2. aside \in [t : Stream!Xfers, at : Places, answer : Results] /\ aside # Stream!Nobody
    BY <1>1, Someone
<1>3. CASE Stream!OtherGives
    <2>1. aside' = [aside EXCEPT !.at = "giving", !.answer = aside.answer] /\ aside.answer \in Results
        BY <1>2, <1>3 DEF Stream!OtherGives
    <2>2. status[aside.t] = "COMPLETED"
        BY <1>3 DEF Stream!OtherGives, Stream!Gives
    <2> QED
        BY <1>1, <1>2, <2>1, <2>2, OtherGoesStep
<1>4. CASE Stream!OtherFails
    <2>1. aside' = [aside EXCEPT !.at = "answered", !.answer = "error"]
        BY <1>4 DEF Stream!OtherFails
    <2> QED
        BY <1>1, <1>2, <2>1, OtherGoesStep
<1>5. ASSUME NEW answer \in Results, Stream!OtherReturns(answer) PROVE StreamInv'
    <2>1. aside' = [aside EXCEPT !.at = "answered", !.answer = answer] /\ aside.at = "giving"
        BY <1>5 DEF Stream!OtherReturns
    <2>2. status[aside.t] = "COMPLETED"
        BY <2>1 DEF StreamInv, Beside
    <2> QED
        BY <1>1, <1>2, <2>1, <2>2, OtherGoesStep
<1> QED
    BY <1>3, <1>4, <1>5

LEMMA OtherStoresStep == StreamInv /\ Stream!Intact /\ Stream!OtherStores => StreamInv'
<1> SUFFICES ASSUME StreamInv, Stream!Intact, Stream!OtherStores PROVE StreamInv'
    OBVIOUS
<1>1. /\ aside.at = "answered" /\ UNCHANGED << phase, held, status, submitted, cancelled, sweep >>
      /\ aside' = [aside EXCEPT !.at = "again"]
      /\ result' \in {aside.answer, result}
      /\ phase \notin {"first", "run"} => result' = aside.answer
    BY DEF Stream!OtherStores
<1>2. aside \in [t : Stream!Xfers, at : Places, answer : Results] /\ aside # Stream!Nobody
    BY <1>1, Someone
<1>3. /\ aside' \in [t : Stream!Xfers, at : Places, answer : Results]
      /\ aside'.t = aside.t /\ aside'.at = "again" /\ aside'.answer = aside.answer
    BY <1>1, <1>2
<1>4. phase # "idle"
    BY <1>2 DEF Stream!Intact
<1>5. StreamTypes'
    BY <1>1, <1>2, <1>3 DEF StreamInv, StreamTypes
<1>6. Owned'
    BY <1>1, <1>3, <1>4 DEF StreamInv, Owned
<1>7. Beside'
    BY <1>1, <1>2, <1>3 DEF StreamInv, Beside
<1>8. Cleaned'
    BY <1>1 DEF StreamInv, Cleaned, Swept
<1> QED
    BY <1>5, <1>6, <1>7, <1>8 DEF StreamInv

\* The transfer that goes back was not found at rest by a sweep that is clean
\* so far: it would have been freed, or it failed, which ends the callback.
LEMMA OtherMarksStep == StreamInv /\ Stream!Intact /\ Stream!OtherMarks => StreamInv'
<1> SUFFICES ASSUME StreamInv, Stream!Intact, Stream!OtherMarks PROVE StreamInv'
    OBVIOUS
<1> DEFINE t == aside.t
<1>1. /\ aside.at = "again" /\ UNCHANGED << phase, held, submitted, cancelled, result, sweep >>
      /\ status' = [status EXCEPT ![t] = "active"]
      /\ aside' = [aside EXCEPT !.at = "marked"]
      /\ "ok" \in {result, aside.answer}
    BY DEF Stream!OtherMarks, Stream!NewStatus
<1>2. aside \in [t : Stream!Xfers, at : Places, answer : Results] /\ aside # Stream!Nobody
    BY <1>1, Someone
<1>3. /\ aside' \in [t : Stream!Xfers, at : Places, answer : Results]
      /\ aside'.t = t /\ aside'.at = "marked" /\ t \in Stream!Xfers
    BY <1>1, <1>2
<1>4. t \in held
    BY <1>1, <1>2 DEF Stream!Intact, Stream!Touches
<1>5. /\ status' \in [Stream!Xfers -> Statuses] /\ status'[t] = "active"
      /\ \A u \in Stream!Xfers : u # t => status'[u] = status[u]
    BY <1>1, <1>3 DEF StreamInv, StreamTypes
<1>6. StreamTypes'
    BY <1>1, <1>3, <1>5 DEF StreamInv, StreamTypes
<1>7. Owned'
    BY <1>1, <1>3, <1>5 DEF StreamInv, StreamTypes, Owned
<1>8. Beside'
    BY <1>1, <1>3, <1>4, <1>5 DEF Beside
<1>9. Cleaned'
    <2> SUFFICES ASSUME phase \in CleaningUp, sweep.clean, NEW u \in held, Swept(u) PROVE status'[u] = "ERROR"
        BY <1>1 DEF StreamInv, Cleaned, Swept
    <2>1. status[u] = "ERROR"
        BY DEF StreamInv, Cleaned
    <2>2. CASE u # t
        BY <1>5, <2>1, <2>2 DEF StreamInv, StreamTypes
    <2>3. CASE u = t
        <3>1. aside.answer = "error"
            BY <1>1, <2>1, <2>3 DEF StreamInv, Beside
        <3>2. result # "ok"
            BY <1>1, <3>1 DEF StreamInv, Beside
        <3> QED
            BY <1>1, <3>1, <3>2
    <2> QED
        BY <2>2, <2>3
<1> QED
    BY <1>6, <1>7, <1>8, <1>9 DEF StreamInv

LEMMA OtherSubmitsStep == StreamInv /\ Stream!Intact /\ Stream!OtherSubmits => StreamInv'
<1> SUFFICES ASSUME StreamInv, Stream!Intact, Stream!OtherSubmits PROVE StreamInv'
    OBVIOUS
<1> DEFINE t == aside.t
<1>1. /\ aside.at = "marked" /\ UNCHANGED << phase, held, status, cancelled, sweep >>
      /\ aside' = Stream!Nobody
      /\ submitted' \in {submitted, submitted \cup {t}}
      /\ result' \in {"ok", "error"}
    BY DEF Stream!OtherSubmits
<1>2. aside \in [t : Stream!Xfers, at : Places, answer : Results] /\ aside # Stream!Nobody
    BY <1>1, Someone
<1>3. t \in held /\ phase # "idle"
    BY <1>1, <1>2 DEF Stream!Intact, Stream!Touches
<1>4. status[t] = "active" /\ t \in Stream!Xfers
    BY <1>1, <1>2, <1>3 DEF StreamInv, Beside
<1>5. aside'.t = 0 /\ aside'.at = "none" /\ 0 \notin Stream!Xfers
    BY <1>1 DEF Stream!Nobody, Stream!Xfers
<1>6. StreamTypes'
    BY <1>1 DEF StreamInv, StreamTypes
<1>7. Owned'
    BY <1>1, <1>3, <1>4, <1>5 DEF StreamInv, StreamTypes, Owned
<1>8. Beside'
    BY <1>1, <1>5 DEF Beside
<1>9. Cleaned'
    BY <1>1 DEF StreamInv, Cleaned, Swept
<1> QED
    BY <1>6, <1>7, <1>8, <1>9 DEF StreamInv
-----------------------------------------------------------------------------
(* The program.                                                            *)

LEMMA ThreadStep == StreamInv /\ Stream!Intact /\ Thread => StreamInv'
<1> SUFFICES ASSUME StreamInv, Stream!Intact, Thread PROVE StreamInv'
    OBVIOUS
<1>1. CASE ThreadLoop
    <2>1. CASE Stream!Call
        BY <2>1, PhaseStep DEF Stream!Call
    <2>2. CASE UNCHANGED streamVars
        BY <2>2 DEF streamVars, StreamInv, StreamTypes, Owned, Beside, Cleaned, Swept
    <2> QED
        BY <1>1, <2>1, <2>2 DEF ThreadLoop
<1>2. CASE ThreadQuiet
    <2>1. CASE Stream!OutOfMemory \/ Stream!Started \/ Stream!TestResult
        BY <2>1, PhaseStep DEF Stream!OutOfMemory, Stream!Started, Stream!TestResult
    <2> QED
        BY <1>2, <2>1, SubmitStep, SweepStep, PumpEndStep DEF ThreadQuiet
<1>3. CASE ThreadTransfer
    <2>1. PICK t \in Stream!Xfers, outcome \in Stream!Outcomes, data \in Loads : Transfer(t, outcome, data)
        BY <1>3 DEF ThreadTransfer
    <2>2. PICK answer \in {"ok", "stop"} : Stream!ReadStreamCallback(t, outcome, answer)
        BY <2>1 DEF Transfer
    <2> QED
        BY <2>2, CallbackStep
<1>4. CASE ThreadReport
    <2>1. PICK answer \in {"ok", "stop"} : Stream!Reports(answer)
        BY <1>4 DEF ThreadReport
    <2> QED
        BY <2>1, PhaseStep DEF Stream!Reports
<1>5. CASE \E elapsed, failed \in BOOLEAN : ThreadTurn(elapsed, failed)
    <2>1. PICK elapsed \in BOOLEAN, failed \in BOOLEAN : Stream!EventsReturn(elapsed, failed)
        BY <1>5 DEF ThreadTurn
    <2> QED
        BY <2>1, PhaseStep DEF Stream!EventsReturn
<1> QED
    BY <1>1, <1>2, <1>3, <1>4, <1>5 DEF Thread

LEMMA BesideStep ==
    StreamInv /\ Stream!Intact /\ (MainCompletion \/ MainCallback \/ InterruptCallback) => StreamInv'
<1> SUFFICES ASSUME StreamInv, Stream!Intact, MainCompletion \/ MainCallback \/ InterruptCallback
             PROVE  StreamInv'
    OBVIOUS
<1>1. CASE MainCompletion
    BY <1>1, OtherCompletesStep DEF MainCompletion, MainTransfer
<1>2. CASE MainDrops \/ MainGives \/ MainReturns \/ InterruptCallback
    <2>1. \/ Stream!OtherDrops \/ Stream!OtherGives
          \/ \E answer \in Results : Stream!OtherReturns(answer)
        BY <1>2 DEF MainDrops, MainGives, MainReturns, InterruptCallback
    <2> QED
        BY <2>1, OtherEndsStep, OtherAnswersStep
<1>3. CASE MainQuiet
    BY <1>3, OtherAnswersStep, OtherStoresStep, OtherMarksStep, OtherSubmitsStep, OtherEndsStep DEF MainQuiet
<1> QED
    BY <1>1, <1>2, <1>3 DEF MainCallback

\* The main thread's own statements and the device leave the stream alone.
LEMMA OthersLeaveIt ==
    ASSUME Main \/ Interrupt \/ MainDone \/ DeviceAnswer \/ DevicePacket
    PROVE  UNCHANGED streamVars
    BY DEF Main, MainOpen, MainOpened, MainFlush, MainWrite, MainWritten, MainReturn, MainCloseOut,
           MainClose, MainJoin, Interrupt, MainDone, DeviceAnswer, DevicePacket,
           OpenStart, OpenEnd, CloseStart, Written, Receive, hostVars, vars

LEMMA StreamInit == Init => StreamInv
<1> SUFFICES ASSUME Init PROVE StreamInv
    OBVIOUS
<1>1. /\ phase = "idle" /\ held = {} /\ status = Stream!NoStatus /\ submitted = {} /\ cancelled = {}
      /\ result = "ok" /\ aside = Stream!Nobody /\ sweep = Stream!FirstSweep
    BY DEF Init, DeviceInit, Stream!StreamInit
<1>2. Stream!FirstSweep \in [next : Stream!Xfers, clean : BOOLEAN]
    BY StreamAssumption DEF Stream!FirstSweep, Stream!Xfers
<1>3. status \in [Stream!Xfers -> Statuses]
    BY <1>1 DEF Stream!NoStatus, Stream!Outcomes
<1>4. aside.at = "none"
    BY <1>1 DEF Stream!Nobody
<1> QED
    BY <1>1, <1>2, <1>3, <1>4 DEF StreamInv, StreamTypes, Owned, Beside, Cleaned

\* The kinds of steps.
LEMMA StepsAre ==
    ASSUME [Next]_vars
    PROVE  \/ Stream!Intact /\ Thread /\ UNCHANGED << mainVars, requests >>
           \/ Stream!Intact /\ (MainCompletion \/ MainCallback) /\ UNCHANGED << mainVars, requests >>
           \/ Stream!Intact /\ InterruptCallback
           \/ Main \/ Interrupt \/ MainDone \/ DeviceAnswer \/ DevicePacket
           \/ UNCHANGED vars
    BY DEF Next, Quietly

LEMMA StreamInvHolds == Spec => []StreamInv
<1>1. StreamInv /\ [Next]_vars => StreamInv'
    <2> SUFFICES ASSUME StreamInv, [Next]_vars PROVE StreamInv'
        OBVIOUS
    <2>1. CASE UNCHANGED streamVars
        BY <2>1 DEF streamVars, StreamInv, StreamTypes, Owned, Beside, Cleaned, Swept
    <2>2. UNCHANGED vars => UNCHANGED streamVars
        BY DEF vars, hostVars
    <2> QED
        BY <2>1, <2>2, StepsAre, ThreadStep, BesideStep, OthersLeaveIt
<1> QED
    BY <1>1, StreamInit, PTL DEF Spec
-----------------------------------------------------------------------------
(* The stream ends, in the course of a program, only after a failure or an *)
(* exception, or when the main thread has no write under way.              *)

Trouble == faulted \/ commExc
Closing == pc \in {"join", "rejoin", "reopen", "done", "ended"}

Ending ==
    /\ commTerm => commExc \/ Closing
    /\ result # "ok" \/ phase \in CleaningUp => Trouble \/ Closing

Writing ==
    /\ writing => pc \in AccessSteps \cup {"flush"}
    /\ aside # Stream!Nobody => writing
    /\ thread # "running" => phase = "idle"
    /\ pc \in {"open", "reopen"} => thread # "running"

\* A callback in the main thread without trouble: the stream is running.
Untroubled ==
    /\ aside.answer # "ok" => Trouble
    /\ aside.at = "done" /\ status[aside.t] # "COMPLETED" => Trouble
    /\ aside # Stream!Nobody /\ phase \in CleaningUp \cup {"idle"} => Trouble

HostInv == Ending /\ Writing /\ Untroubled

\* A write of the main thread is under way only in the course of the program.
LEMMA NotClosing == (Writing /\ writing => ~Closing) /\ (pc \in AccessSteps => ~Closing)
    BY DEF Writing, Closing, AccessSteps, SetUpSteps, TrySteps, StopSteps

\* The flag and what the callback returns.
LEMMA CallbackTerm ==
    ASSUME NEW data, NEW answer, Callback(data, answer)
    PROVE  \E raised \in BOOLEAN : /\ commTerm' = (commTerm \/ raised)
                                   /\ commExc' = (commExc \/ raised)
                                   /\ answer = Stream!Answer(commTerm \/ raised)
<1>1. CASE CommCallback(data) /\ answer = Returns(data)
    <2> DEFINE raised == Consumed(buf \o data) < Len(buf \o data)
    <2>1. /\ commTerm' = TermAfter(raised) /\ commExc' = (commExc \/ raised)
          /\ answer = Stream!Answer(commTerm \/ raised)
        BY <1>1, Zenon DEF CommCallback, Returns
    <2>2. raised \in BOOLEAN
        OBVIOUS
    <2> HIDE DEF raised
    <2> QED
        BY <2>1, <2>2 DEF TermAfter
<1>2. CASE \E raised \in BOOLEAN : Muddled(data, raised) /\ answer = Stream!Answer(commTerm \/ raised)
    BY <1>2, Zenon DEF Muddled, TermAfter
<1> QED
    BY <1>1, <1>2 DEF Callback

LEMMA CallbackEnding ==
    ASSUME Ending, NEW data, NEW answer, Callback(data, answer)
    PROVE  /\ commTerm' => commExc' \/ Closing
           /\ answer # "ok" => commExc' \/ Closing
           /\ commExc => commExc'
<1>1. PICK raised \in BOOLEAN : /\ commTerm' = (commTerm \/ raised)
                                /\ commExc' = (commExc \/ raised)
                                /\ answer = Stream!Answer(commTerm \/ raised)
    BY CallbackTerm
<1> QED
    BY <1>1, Zenon DEF Ending, Stream!Answer

LEMMA TransferEnding ==
    ASSUME StreamInv, Ending, NEW t \in Stream!Xfers, NEW outcome \in Stream!Outcomes,
           NEW data, Transfer(t, outcome, data), pc' = pc
    PROVE  Ending' /\ (Trouble => Trouble')
<1>1. PICK answer \in {"ok", "stop"} :
         /\ Stream!ReadStreamCallback(t, outcome, answer)
         /\ IF Stream!Gives(outcome) THEN Callback(data, answer)
                                    ELSE answer = "ok" /\ UNCHANGED << commTerm, commExc, buf, answers >>
    BY DEF Transfer
<1>2. /\ phase' = phase /\ phase \in {"first", "run", "pump"}
      /\ outcome = "CANCELLED" => cancelled # {}
      /\ result' = "ok" \/ result' = "error" \/ result' = Stream!ResultAfter(outcome, answer)
    BY <1>1 DEF Stream!ReadStreamCallback, Stream!Completes
<1>3. faulted' = \/ faulted
                 \/ IF Stream!Gives(outcome) THEN result' = "error"
                                            ELSE outcome = "ERROR" \/ data # << >>
    BY DEF Transfer
<1>4. (Trouble => Trouble') /\ Closing' = Closing
    <2>1. commExc => commExc'
        BY <1>1, CallbackEnding
    <2> QED
        BY <1>3, <2>1 DEF Trouble, Closing
<1>5. CASE Stream!Gives(outcome)
    <2>1. Callback(data, answer) /\ result = "ok" /\ outcome = "COMPLETED"
        BY <1>1, <1>5 DEF Stream!Gives
    <2>2. /\ commTerm' => commExc' \/ Closing
          /\ answer # "ok" => commExc' \/ Closing
        BY <2>1, CallbackEnding
    <2>3. Stream!ResultAfter(outcome, answer) = answer
        BY <1>5, <2>1, Zenon DEF Stream!ResultAfter
    <2>4. result' # "ok" => Trouble' \/ Closing'
        BY <1>2, <1>3, <1>5, <2>2, <2>3 DEF Trouble, Closing
    <2> QED
        BY <1>2, <1>4, <2>2, <2>4 DEF Ending, Trouble
<1>6. CASE ~Stream!Gives(outcome)
    <2>1. UNCHANGED << commTerm, commExc >>
        BY <1>1, <1>6
    <2>2. outcome = "COMPLETED" => result # "ok"
        BY <1>6 DEF Stream!Gives
    <2>3. outcome = "CANCELLED" => phase \in CleaningUp
        BY <1>2 DEF StreamInv, Owned
    <2>4. outcome = "ERROR" => Trouble'
        BY <1>3, <1>6 DEF Trouble
    <2>5. result # "ok" \/ phase \in CleaningUp \/ Trouble'
        BY <2>2, <2>3, <2>4 DEF Stream!Outcomes
    <2>6. Trouble' \/ Closing'
        BY <1>4, <2>5 DEF Ending
    <2> QED
        BY <1>4, <2>1, <2>6 DEF Ending, Trouble
<1> QED
    BY <1>4, <1>5, <1>6

\* The thread leaves the other's callback alone, and the status of its transfer
\* until all statuses are void.
LEMMA StatusBeside ==
    ASSUME StreamInv, Stream!Intact, Thread, aside # Stream!Nobody
    PROVE  aside' = aside /\ status'[aside.t] \in {status[aside.t], "COMPLETED"}
<1>1. aside.t \in Stream!Xfers /\ phase # "idle"
    BY DEF StreamInv, StreamTypes, Stream!Intact
<1>2. CASE Stream!SubmitNext
    <2>1. PICK t \in Stream!Xfers : t \notin held /\ status' = [status EXCEPT ![t] = "active"]
        BY <1>2 DEF Stream!SubmitNext, Stream!IsNext
    <2>2. aside' = aside /\ aside.t \in held
        BY <1>2 DEF Stream!SubmitNext, StreamInv, Beside
    <2> QED
        BY <1>1, <2>1, <2>2 DEF StreamInv, StreamTypes
<1>3. CASE Stream!PumpEnd
    <2>1. aside' = aside /\ status' \in {status, Stream!NoStatus}
        BY <1>3 DEF Stream!PumpEnd
    <2> QED
        BY <1>1, <2>1 DEF Stream!NoStatus
<1>4. CASE ~Stream!SubmitNext /\ ~Stream!PumpEnd
    <2>1. UNCHANGED << aside, status >>
        BY <1>1, <1>4 DEF Thread, ThreadLoop, ThreadQuiet, ThreadTransfer, Transfer, ThreadTurn, ThreadReport,
            Stream!Call, Stream!OutOfMemory, Stream!Started, Stream!TestResult, Stream!SweepNext,
            Stream!ReadStreamCallback, Stream!Completes, Stream!EventsReturn, Stream!Reports
    <2> QED
        BY <2>1
<1> QED
    BY <1>2, <1>3, <1>4

LEMMA ThreadHost ==
    ASSUME StreamInv, HostInv, Stream!Intact, Thread, UNCHANGED << mainVars, requests >>
    PROVE  HostInv'
<1>0. pc' = pc /\ Closing' = Closing
    BY DEF mainVars, Closing
<1>1. CASE ThreadLoop
    <2>1. /\ aside = Stream!Nobody
          /\ phase' \in {"idle", "setup"} /\ UNCHANGED << status, result, aside, commTerm, commExc, faulted, writing >>
          /\ thread = "running" /\ (thread' = thread \/ (thread' = "ended" /\ phase' = "idle"))
        BY <1>1 DEF ThreadLoop, Stream!Call, streamVars, mainSide, Stream!Intact
    <2>2. aside.answer = "ok" /\ aside.at = "none"
        BY <2>1 DEF Stream!Nobody
    <2>3. result = "ok"
        BY <1>1 DEF ThreadLoop, StreamInv, Owned
    <2> QED
        BY <1>0, <2>1, <2>2, <2>3 DEF HostInv, Ending, Writing, Untroubled, Trouble
<1>2. CASE ~ThreadLoop
    <2>1. aside' = aside /\ writing' = writing /\ thread' = thread /\ phase # "idle"
        BY <1>2 DEF Thread, ThreadQuiet, ThreadTransfer, Transfer, ThreadTurn, ThreadReport, commVars, mainSide,
               Stream!SubmitNext, Stream!OutOfMemory, Stream!Started, Stream!TestResult, Stream!SweepNext,
               Stream!PumpEnd, Stream!ReadStreamCallback, Stream!Completes, Stream!EventsReturn, Stream!Reports
    <2>2. Writing'
        BY <1>0, <2>1 DEF HostInv, Writing
    <2>3. Ending' /\ (Trouble => Trouble')
        <3>1. CASE ThreadQuiet
            <4>1. /\ UNCHANGED << commTerm, commExc >>
                  /\ faulted' = (faulted \/ (phase = "setup" /\ phase' = "cleanup"))
                BY <3>1 DEF ThreadQuiet, commVars
            <4>2. /\ result' \in {result, "ok"}
                  /\ phase' \in CleaningUp =>
                        phase \in CleaningUp \/ result # "ok" \/ (phase = "setup" /\ phase' = "cleanup")
                BY <3>1 DEF ThreadQuiet, Stream!SubmitNext, Stream!OutOfMemory, Stream!Started,
                            Stream!TestResult, Stream!SweepNext, Stream!PumpEnd
            <4> QED
                BY <1>0, <4>1, <4>2 DEF HostInv, Ending, Trouble
        <3>2. CASE ThreadTransfer
            <4>1. PICK t \in Stream!Xfers, outcome \in Stream!Outcomes, data \in Loads : Transfer(t, outcome, data)
                BY <3>2 DEF ThreadTransfer
            <4> QED
                BY <1>0, <4>1, TransferEnding DEF HostInv
        <3>3. CASE ThreadReport
            <4>1. PICK answer \in {"ok", "stop"} : Stream!Reports(answer) /\ Callback(<< >>, answer)
                BY <3>3 DEF ThreadReport
            <4>2. phase' = "test" /\ result' = answer /\ faulted' = faulted
                BY <3>3, <4>1 DEF ThreadReport, Stream!Reports
            <4>3. /\ commTerm' => commExc' \/ Closing
                  /\ answer # "ok" => commExc' \/ Closing
                  /\ commExc => commExc'
                BY <4>1, CallbackEnding DEF HostInv
            <4> QED
                BY <1>0, <4>2, <4>3 DEF Ending, Trouble
        <3>4. ASSUME NEW elapsed \in BOOLEAN, NEW failed \in BOOLEAN, ThreadTurn(elapsed, failed)
              PROVE  Ending' /\ (Trouble => Trouble')
            <4>1. /\ UNCHANGED << commTerm, commExc >> /\ faulted' = (faulted \/ failed)
                  /\ phase' \in {"report", "test"} /\ (result' # "ok" => result # "ok" \/ failed)
                BY <3>4 DEF ThreadTurn, Stream!EventsReturn
            <4> QED
                BY <1>0, <4>1 DEF HostInv, Ending, Trouble
        <3> QED
            BY <1>2, <3>1, <3>2, <3>3, <3>4 DEF Thread
    <2>4. Untroubled'
        <3>1. CASE aside = Stream!Nobody
            <4>1. aside'.answer = "ok" /\ aside'.at = "none"
                BY <2>1, <3>1 DEF Stream!Nobody
            <4> QED
                BY <2>1, <3>1, <4>1 DEF Untroubled
        <3>2. CASE aside # Stream!Nobody
            <4>1. aside.answer # "ok" => Trouble'
                BY <2>3 DEF HostInv, Untroubled
            <4>2. aside.at = "done" /\ status'[aside.t] # "COMPLETED" => Trouble'
                BY <2>3, <3>2, StatusBeside DEF HostInv, Untroubled
            <4>3. phase' \in CleaningUp \cup {"idle"} => Trouble'
                <5>1. ~Closing
                    BY <3>2, NotClosing DEF HostInv, Writing
                <5>2. phase' = "idle" => phase = "pump"
                    BY <1>2, <2>1 DEF Thread, ThreadQuiet, ThreadTransfer, Transfer, ThreadTurn, ThreadReport,
                       Stream!SubmitNext, Stream!OutOfMemory, Stream!Started, Stream!TestResult, Stream!SweepNext,
                       Stream!PumpEnd, Stream!ReadStreamCallback, Stream!EventsReturn, Stream!Reports
                <5>3. phase = "pump" => Trouble'
                    BY <2>3, <3>2 DEF HostInv, Untroubled
                <5>4. phase' \in CleaningUp => Trouble'
                    BY <1>0, <2>3, <5>1 DEF Ending
                <5> QED
                    BY <5>2, <5>3, <5>4
            <4> QED
                BY <2>1, <4>1, <4>2, <4>3 DEF Untroubled
        <3> QED
            BY <3>1, <3>2
    <2> QED
        BY <2>2, <2>3, <2>4 DEF HostInv
<1> QED
    BY <1>1, <1>2

LEMMA BesideHost ==
    ASSUME StreamInv, HostInv, Stream!Intact,
           ((MainCompletion \/ MainCallback) /\ UNCHANGED << mainVars, requests >>) \/ InterruptCallback
    PROVE  HostInv'
<1>1. pc' = pc /\ Closing' = Closing /\ writing' = writing /\ thread' = thread /\ phase' = phase
    BY DEF mainVars, Closing, MainCompletion, MainTransfer, MainCallback, MainDrops, MainGives, MainReturns,
           MainQuiet, InterruptCallback, commVars, mainSide, Stream!OtherCompletes, Stream!OtherDrops,
           Stream!OtherGives, Stream!OtherReturns, Stream!OtherFails, Stream!OtherStores,
           Stream!OtherMarks, Stream!OtherSubmits, Stream!OtherLeaves
<1>2. ASSUME Ending', Trouble => Trouble', aside' = Stream!Nobody
      PROVE  HostInv'
    <2>1. aside'.answer = "ok" /\ aside'.at = "none"
        BY <1>2 DEF Stream!Nobody
    <2> QED
        BY <1>1, <1>2, <2>1 DEF HostInv, Writing, Untroubled
<1>3. ASSUME Ending', Trouble => Trouble', aside # Stream!Nobody,
             aside'.answer # "ok" => Trouble', aside'.at # "done"
      PROVE  HostInv'
    BY <1>1, <1>3 DEF HostInv, Writing, Untroubled
<1>4. aside.at # "none" => aside # Stream!Nobody
    BY DEF Stream!Nobody
<1>5. aside.at \in Places => aside \in [t : Stream!Xfers, at : Places, answer : Results]
    BY Someone
<1>6. writing => ~Closing
    BY NotClosing DEF HostInv
<1>7. CASE MainCompletion
    <2>1. PICK t \in Stream!Xfers, outcome \in Stream!Outcomes, data \in Loads : MainTransfer(t, outcome, data)
        BY <1>7 DEF MainCompletion
    <2>2. /\ writing /\ UNCHANGED << commTerm, commExc, result >>
          /\ faulted' = (faulted \/ outcome = "ERROR")
          /\ t \in submitted /\ (outcome = "CANCELLED" => t \in cancelled)
          /\ status' = [status EXCEPT ![t] = outcome]
          /\ aside' = [t |-> t, at |-> "done", answer |-> "ok"]
        BY <2>1 DEF MainTransfer, Stream!OtherCompletes, Stream!Completes
    <2>3. phase \in CleaningUp => Trouble
        BY <1>6, <2>2 DEF HostInv, Ending
    <2>4. status'[aside'.t] = outcome /\ aside'.answer = "ok"
        BY <2>2 DEF StreamInv, StreamTypes
    <2>5. outcome # "COMPLETED" => Trouble'
        BY <2>2, <2>3 DEF StreamInv, Owned, Stream!Outcomes, Trouble
    <2>6. phase # "idle"
        BY <2>2 DEF StreamInv, Owned
    <2> QED
        BY <1>1, <2>2, <2>3, <2>4, <2>5, <2>6 DEF HostInv, Ending, Writing, Untroubled, Trouble
<1>8. CASE MainDrops
    BY <1>1, <1>2, <1>8 DEF MainDrops, Stream!OtherDrops, HostInv, Ending, Trouble
<1>9. CASE MainGives
    <2>1. aside.at = "done" /\ aside' = [aside EXCEPT !.at = "giving"] /\ UNCHANGED << commTerm, commExc, faulted, result >>
        BY <1>9 DEF MainGives, Stream!OtherGives
    <2>2. aside'.at = "giving" /\ aside'.answer = aside.answer
        BY <1>5, <2>1
    <2> QED
        BY <1>1, <1>3, <1>4, <2>1, <2>2 DEF HostInv, Ending, Untroubled, Trouble
<1>10. CASE MainReturns
    <2>1. PICK answer \in {"ok", "stop"} : Stream!OtherReturns(answer) /\ Callback(carried, answer)
        BY <1>10 DEF MainReturns
    <2>2. aside.at = "giving" /\ aside' = [aside EXCEPT !.at = "answered", !.answer = answer]
          /\ UNCHANGED << result, faulted >>
        BY <1>10, <2>1 DEF MainReturns, Stream!OtherReturns
    <2>3. /\ commTerm' => commExc' \/ Closing
          /\ answer # "ok" => commExc' \/ Closing
          /\ commExc => commExc'
        BY <2>1, CallbackEnding DEF HostInv
    <2>4. aside'.at = "answered" /\ aside'.answer = answer
        BY <1>5, <2>2
    <2>5. writing
        BY <1>4, <2>2 DEF HostInv, Writing
    <2> QED
        BY <1>1, <1>3, <1>4, <1>6, <2>2, <2>3, <2>4, <2>5 DEF HostInv, Ending, Trouble
<1>11. CASE MainQuiet
    <2>1. /\ UNCHANGED << commTerm, commExc >>
          /\ faulted' = (faulted \/ (aside.at = "marked" /\ result' = "error"))
        BY <1>11 DEF MainQuiet, commVars
    <2>2. CASE Stream!OtherFails
        <3>1. /\ aside.at = "done" /\ aside' = [aside EXCEPT !.at = "answered", !.answer = "error"]
              /\ result' = result /\ status[aside.t] # "COMPLETED"
            BY <2>2 DEF Stream!OtherFails
        <3>2. aside'.at = "answered"
            BY <1>5, <3>1
        <3> QED
            BY <1>1, <1>3, <1>4, <2>1, <3>1, <3>2 DEF HostInv, Ending, Untroubled, Trouble
    <2>3. CASE Stream!OtherStores
        <3>1. /\ aside.at = "answered" /\ aside' = [aside EXCEPT !.at = "again"]
              /\ result' \in {aside.answer, result}
            BY <2>3 DEF Stream!OtherStores
        <3>2. aside'.at = "again" /\ aside'.answer = aside.answer
            BY <1>5, <3>1
        <3> QED
            BY <1>1, <1>3, <1>4, <2>1, <3>1, <3>2 DEF HostInv, Ending, Untroubled, Trouble
    <2>4. CASE Stream!OtherMarks
        <3>1. /\ aside.at = "again" /\ aside' = [aside EXCEPT !.at = "marked"] /\ result' = result
            BY <2>4 DEF Stream!OtherMarks
        <3>2. aside'.at = "marked" /\ aside'.answer = aside.answer
            BY <1>5, <3>1
        <3> QED
            BY <1>1, <1>3, <1>4, <2>1, <3>1, <3>2 DEF HostInv, Ending, Untroubled, Trouble
    <2>5. CASE Stream!OtherSubmits
        <3>1. aside.at = "marked" /\ aside' = Stream!Nobody /\ result' \in {"ok", "error"}
            BY <2>5 DEF Stream!OtherSubmits
        <3> QED
            BY <1>1, <1>2, <2>1, <3>1 DEF HostInv, Ending, Trouble
    <2>6. CASE Stream!OtherLeaves
        BY <1>1, <1>2, <2>1, <2>6 DEF Stream!OtherLeaves, HostInv, Ending, Trouble
    <2> QED
        BY <1>11, <2>2, <2>3, <2>4, <2>5, <2>6 DEF MainQuiet
<1>12. CASE InterruptCallback
    <2>1. PICK answer \in {"ok", "error"} : Stream!OtherReturns(answer)
        BY <1>12 DEF InterruptCallback
    <2>2. aside.at = "giving" /\ aside' = [aside EXCEPT !.at = "answered", !.answer = answer]
          /\ UNCHANGED << commTerm, commExc, result >> /\ faulted'
        BY <1>12, <2>1 DEF InterruptCallback, Stream!OtherReturns
    <2>3. aside'.at = "answered"
        BY <1>5, <2>2
    <2> QED
        BY <1>1, <1>3, <1>4, <2>2, <2>3 DEF HostInv, Ending, Trouble
<1> QED
    BY <1>7, <1>8, <1>9, <1>10, <1>11, <1>12 DEF MainCallback

\* Where the program goes on is one of its places.
LEMMA PlacesAre ==
    \A p \in AccessSteps : /\ After(p) \subseteq AccessSteps \cup {"close", "closeOut"}
                           /\ Unwound(p) \in AccessSteps \cup {"close"}
<1> SUFFICES ASSUME NEW p \in AccessSteps
             PROVE  /\ After(p) \subseteq AccessSteps \cup {"close", "closeOut"}
                    /\ Unwound(p) \in AccessSteps \cup {"close"}
    OBVIOUS
<1> USE DEF AccessSteps, SetUpSteps, TrySteps, StopSteps
<1>1. p \in {"clk", "start", "poll", "sinkOff", "stop"}
    OBVIOUS
<1>2. \A q : Unhurried(q) \subseteq {q}
    BY DEF Unhurried
<1>3. After(p) \in {{"close"} \cup Unhurried("start"), {"poll"}, {"sinkOff"} \cup Unhurried("poll"),
                    {"stop"}, {IF raising THEN "close" ELSE "closeOut"}}
    BY <1>1, Zenon DEF After
<1>4. After(p) \subseteq AccessSteps \cup {"close", "closeOut"}
    <2>1. (IF raising THEN "close" ELSE "closeOut") \in {"close", "closeOut"}
        OBVIOUS
    <2> QED
        BY <1>2, <1>3, <2>1
<1> QED
    BY <1>4 DEF Unwound

LEMMA UnwoundIs ==
    /\ Unwound(pc) \in {"sinkOff", "close", "ended"}
    /\ Closing => Unwound(pc) = "ended"
    BY DEF Unwound, Closing, AccessSteps, SetUpSteps, TrySteps, StopSteps

LEMMA OthersHost ==
    ASSUME StreamInv, HostInv, Main \/ Interrupt \/ MainDone \/ DeviceAnswer \/ DevicePacket
    PROVE  HostInv'
<1>1. UNCHANGED << phase, result, status, aside >>
    BY OthersLeaveIt DEF streamVars
<1>2. /\ "open" \notin AccessSteps /\ "reopen" \notin AccessSteps /\ "closeOut" \notin AccessSteps
      /\ "unloaded" \notin AccessSteps /\ "close" \notin AccessSteps /\ "flush" \notin AccessSteps
      /\ "opening" \notin AccessSteps /\ "reopening" \notin AccessSteps /\ "rejoin" \notin AccessSteps
      /\ "join" \notin AccessSteps
    BY DEF AccessSteps, SetUpSteps, TrySteps, StopSteps
<1>3. ~writing => aside.answer = "ok" /\ aside.at = "none"
    BY DEF HostInv, Writing, Stream!Nobody
<1>4. CASE MainOpen
    <2>1. /\ pc \in {"open", "reopen"} /\ pc' \in {"opening", "reopening"}
          /\ thread' = "running" /\ commTerm' = FALSE /\ UNCHANGED writing
        BY <1>4 DEF MainOpen, OpenStart, mainSide
    <2>2. ~writing /\ phase = "idle" /\ result = "ok"
        BY <1>2, <2>1 DEF StreamInv, Owned, HostInv, Writing
    <2> QED
        BY <1>1, <1>3, <2>1, <2>2 DEF HostInv, Ending, Writing, Untroubled
<1>5. CASE MainOpened
    BY <1>1, <1>2, <1>5 DEF MainOpened, OpenEnd, commVars, mainSide, HostInv, Ending, Writing, Untroubled,
       Trouble, Closing
<1>6. CASE MainFlush \/ MainWrite
    <2>1. /\ UNCHANGED << pc, thread, commTerm, commExc >> /\ (faulted => faulted')
          /\ pc \in AccessSteps \cup {"flush"}
        BY <1>6 DEF MainFlush, MainWrite, commVars, mainVars
    <2>2. ~writing
        BY <1>6 DEF MainFlush, MainWrite
    <2> QED
        BY <1>1, <1>2, <2>1, <2>2 DEF HostInv, Ending, Writing, Untroubled, Trouble, Closing
<1>7. CASE MainWritten
    <2>1. /\ writing /\ writing' = FALSE /\ aside = Stream!Nobody
          /\ UNCHANGED << thread, commTerm, commExc, faulted >>
          /\ pc' \in {pc, "clk", "ended"}
        BY <1>7 DEF MainWritten, Written, commVars
    <2>2. ~Closing /\ pc \notin {"open", "reopen"}
        BY <1>2, <2>1, NotClosing DEF HostInv, Writing
    <2> QED
        BY <1>1, <2>1, <2>2 DEF HostInv, Ending, Writing, Untroubled, Trouble
<1>8. CASE MainReturn
    <2>1. /\ pc \in AccessSteps /\ ~writing /\ UNCHANGED << writing, thread, commTerm, commExc, faulted >>
          /\ pc' \in AccessSteps \cup {"close", "closeOut"}
        BY <1>8, PlacesAre DEF MainReturn, Receive
    <2>2. pc' \notin {"open", "reopen"} /\ ~Closing
        BY <1>2, <2>1, NotClosing
    <2> QED
        BY <1>1, <2>1, <2>2 DEF HostInv, Ending, Writing, Untroubled, Trouble
<1>9. CASE Interrupt
    <2>1. /\ ~writing /\ pc' = Unwound(pc) /\ UNCHANGED << writing, thread, commTerm, commExc, faulted >>
        BY <1>9 DEF Interrupt, commVars
    <2>2. pc' \in {"sinkOff", "close", "ended"} /\ (Closing => Closing')
        BY <2>1, UnwoundIs DEF Closing
    <2> QED
        BY <1>1, <2>1, <2>2 DEF HostInv, Ending, Writing, Untroubled, Trouble
<1>10. CASE MainCloseOut
    <2>1. ~writing /\ ~Closing
        BY <1>2, <1>10 DEF MainCloseOut, HostInv, Writing, Closing
    <2> QED
        BY <1>1, <1>10, <2>1 DEF MainCloseOut, commVars, HostInv, Ending, Writing, Untroubled, Trouble
<1>11. CASE MainClose
    <2>1. ~writing /\ Closing'
        BY <1>2, <1>11 DEF MainClose, HostInv, Writing, Closing
    <2> QED
        BY <1>1, <1>11, <2>1 DEF MainClose, CloseStart, mainSide, HostInv, Ending, Writing, Untroubled, Trouble
<1>12. CASE MainJoin
    <2>1. thread = "ended" /\ Closing' /\ UNCHANGED << writing, thread, commTerm, commExc, faulted >>
        BY <1>12 DEF MainJoin, Joined, Closing, hostVars, commVars, mainSide
    <2>2. ~writing
        BY <1>2, <1>12 DEF MainJoin, HostInv, Writing
    <2> QED
        BY <1>1, <2>1, <2>2 DEF HostInv, Ending, Writing, Untroubled, Trouble
<1>13. CASE MainDone \/ DeviceAnswer \/ DevicePacket
    <2>1. UNCHANGED << pc, writing, thread, commTerm, commExc, faulted >>
        BY <1>13 DEF MainDone, DeviceAnswer, DevicePacket, vars, hostVars, commVars, mainSide, mainVars
    <2> QED
        BY <1>1, <2>1 DEF HostInv, Ending, Writing, Untroubled, Trouble, Closing
<1> QED
    BY <1>4, <1>5, <1>6, <1>7, <1>8, <1>9, <1>10, <1>11, <1>12, <1>13 DEF Main

LEMMA HostInvHolds == Spec => []HostInv
<1>1. Init => HostInv
    <2> SUFFICES ASSUME Init PROVE HostInv
        OBVIOUS
    <2>1. /\ phase = "idle" /\ result = "ok" /\ aside = Stream!Nobody /\ thread = "none"
          /\ commTerm = FALSE /\ writing = FALSE
        BY DEF Init, DeviceInit, Stream!StreamInit
    <2>2. aside.answer = "ok" /\ aside.at = "none"
        BY <2>1 DEF Stream!Nobody
    <2> QED
        BY <2>1, <2>2 DEF HostInv, Ending, Writing, Untroubled
<1>2. StreamInv /\ HostInv /\ [Next]_vars => HostInv'
    <2> SUFFICES ASSUME StreamInv, HostInv, [Next]_vars PROVE HostInv'
        OBVIOUS
    <2>1. CASE UNCHANGED vars
        BY <2>1 DEF vars, hostVars, streamVars, commVars, mainSide, mainVars,
                    HostInv, Ending, Writing, Untroubled, Trouble, Closing
    <2> QED
        BY <2>1, StepsAre, ThreadHost, BesideHost, OthersHost
<1> QED
    BY <1>1, <1>2, StreamInvHolds, PTL DEF Spec

\* A transfer is freed only after libusb has given it back, for any number of
\* transfers: with failures of transfers, memory and submissions at every point,
\* and data that completes into a clean-up. And unless something failed or
\* raised, a callback in the main thread keeps its transfer and the state of the
\* stream until its last statement, wherever the thread of the stream is.
THEOREM FreedWhenGivenBack == Spec => []NoUseAfterFree
<1>1. StreamInv /\ HostInv => NoUseAfterFree
    BY DEF StreamInv, Owned, Beside, HostInv, Untroubled, Trouble, NoUseAfterFree,
           Stream!Intact
<1> QED
    BY <1>1, StreamInvHolds, HostInvHolds, PTL
-----------------------------------------------------------------------------
(* Frames on their way.                                                    *)

Noise == {Packet, Garbled}
Ops   == { Access(p) : p \in AccessSteps }
Frame == Noise \cup Ops

\* No answer, or one and no other.
Quiet(s)  == \A i \in 1 .. Len(s) : s[i] \in Noise
One(s, x) == \E k \in 1 .. Len(s) : s[k] = x /\ \A i \in 1 .. Len(s) : i # k => s[i] \in Noise

Taken(s) == s = << >> \/ \E f \in Frame : s = << f >>

\* Frames stay in the buffer only behind one that raises, and that goes on to.
BufInv == buf # << >> => Raises(buf[1])

LEMMA OpsAre ==
    /\ \A op \in Ops : op \in Frame /\ op \notin Noise /\ op # None
    /\ \A p \in AccessSteps : Access(p) \in Ops
    /\ Packet \in Frame /\ Packet \in Noise /\ Garbled \in Frame /\ Garbled \in Noise
<1>1. ASSUME NEW p \in AccessSteps
      PROVE  Access(p).a \in {"sink", "ucfg_stat", "cfg", "ptr"}
    <2>1. p \in {"clk", "start", "poll", "sinkOff", "stop"}
        BY DEF AccessSteps, SetUpSteps, TrySteps, StopSteps
    <2>2. Access(p) \in {ReadOf("ucfg_stat"), Write("cfg"), ReadOf("ptr"), Write("sink")}
        BY <2>1, Zenon DEF Access
    <2> QED
        BY <2>2 DEF ReadOf, Write
<1>2. ASSUME NEW op \in Ops PROVE op \notin Noise
    <2>1. op.a \in {"sink", "ucfg_stat", "cfg", "ptr"}
        BY <1>1 DEF Ops
    <2>2. Packet.a = "packet" /\ Garbled.a = "garbled"
        BY DEF Packet, Garbled
    <2> QED
        BY <2>1, <2>2 DEF Noise
<1> QED
    BY <1>2, NoneAssumption DEF Ops, Frame, Noise

\* A frame put at the end, and one taken from the front.
LEMMA AtEnd ==
    ASSUME NEW s \in Seq(Frame), NEW f \in Frame, NEW x
    PROVE  /\ Append(s, f) \in Seq(Frame) /\ Len(Append(s, f)) = Len(s) + 1
           /\ s # << >> => Append(s, f)[1] = s[1]
           /\ f \in Noise /\ Quiet(s) => Quiet(Append(s, f))
           /\ f \in Noise /\ One(s, x) => One(Append(s, f), x)
           /\ f = x /\ Quiet(s) => One(Append(s, f), x)
<1> DEFINE t == Append(s, f)
           n == Len(s)
<1>1. /\ t \in Seq(Frame) /\ Len(t) = n + 1 /\ t[n + 1] = f /\ n \in Nat
      /\ \A i \in 1 .. n : t[i] = s[i]
    BY AppendProperties, LenProperties
<1>2. s # << >> => n >= 1
    BY EmptySeq
<1> HIDE DEF t, n
<1>3. \A i \in 1 .. n + 1 : i = n + 1 \/ i \in 1 .. n
    BY <1>1
<1>4. n + 1 \in 1 .. n + 1 /\ (\A i \in 1 .. n : i \in 1 .. n + 1 /\ i # n + 1)
    BY <1>1
<1>5. f \in Noise /\ (\A i \in 1 .. n : s[i] \in Noise) => \A i \in 1 .. n + 1 : t[i] \in Noise
    BY <1>1, <1>3
<1>6. ASSUME f \in Noise, NEW k \in 1 .. n, s[k] = x, \A i \in 1 .. n : i # k => s[i] \in Noise
      PROVE  k \in 1 .. n + 1 /\ t[k] = x /\ \A i \in 1 .. n + 1 : i # k => t[i] \in Noise
    BY <1>1, <1>3, <1>4, <1>6
<1>7. f = x /\ (\A i \in 1 .. n : s[i] \in Noise) =>
         t[n + 1] = x /\ \A i \in 1 .. n + 1 : i # n + 1 => t[i] \in Noise
    BY <1>1, <1>3
<1> QED
    BY <1>1, <1>2, <1>4, <1>5, <1>6, <1>7 DEF t, n, Quiet, One

LEMMA AtFront ==
    ASSUME NEW s \in Seq(Frame), s # << >>, NEW x
    PROVE  /\ Head(s) \in Frame /\ Tail(s) \in Seq(Frame) /\ Len(Tail(s)) = Len(s) - 1
           /\ Head(s) = s[1]
           /\ Quiet(s) => Head(s) \in Noise /\ Quiet(Tail(s))
           /\ One(s, x) => \/ Head(s) = x /\ Quiet(Tail(s))
                           \/ Head(s) \in Noise /\ One(Tail(s), x)
<1> DEFINE t == Tail(s)
           n == Len(s)
<1>1. /\ Head(s) \in Frame /\ t \in Seq(Frame) /\ Len(t) = n - 1 /\ n \in Nat /\ n >= 1
      /\ \A i \in 1 .. n - 1 : t[i] = s[i + 1]
    BY HeadTailProperties, EmptySeq
<1>2. Head(s) = s[1]
    OBVIOUS
<1> HIDE DEF t, n
<1>3. 1 \in 1 .. n /\ \A i \in 1 .. n - 1 : i + 1 \in 1 .. n /\ i + 1 # 1
    BY <1>1
<1>4. (\A i \in 1 .. n : s[i] \in Noise) => s[1] \in Noise /\ \A i \in 1 .. n - 1 : t[i] \in Noise
    BY <1>1, <1>3
<1>5. ASSUME NEW k \in 1 .. n, s[k] = x, \A i \in 1 .. n : i # k => s[i] \in Noise
      PROVE  \/ s[1] = x /\ \A i \in 1 .. n - 1 : t[i] \in Noise
             \/ s[1] \in Noise /\ \E j \in 1 .. n - 1 :
                    t[j] = x /\ \A i \in 1 .. n - 1 : i # j => t[i] \in Noise
    <2>1. CASE k = 1
        BY <1>1, <1>3, <1>5, <2>1
    <2>2. CASE k # 1
        <3>1. k - 1 \in 1 .. n - 1 /\ (k - 1) + 1 = k
            BY <1>1, <2>2
        <3>2. t[k - 1] = x
            BY <1>1, <1>5, <3>1
        <3>3. \A i \in 1 .. n - 1 : i # k - 1 => t[i] \in Noise
            <4>1. \A i \in 1 .. n - 1 : i # k - 1 => i + 1 # k
                BY <1>1
            <4> QED
                BY <1>1, <1>3, <1>5, <4>1
        <3> QED
            BY <1>3, <1>5, <2>2, <3>1, <3>2, <3>3
    <2> QED
        BY <2>1, <2>2
<1> QED
    BY <1>1, <1>2, <1>4, <1>5 DEF t, n, Quiet, One

LEMMA Empty == Quiet(<< >>) /\ << >> \in Seq(Frame) /\ << >> \in Seq(Ops)
    BY EmptySeq DEF Quiet

\* A sequence of one frame.
LEMMA OfOne ==
    ASSUME NEW f \in Frame, NEW x
    PROVE  /\ << f >> \in Seq(Frame) /\ Len(<< f >>) = 1 /\ << f >>[1] = f /\ << f >> # << >>
           /\ Quiet(<< f >>) <=> f \in Noise
           /\ f = x => One(<< f >>, x)
           /\ One(<< f >>, x) => f = x
<1>1. << f >> \in Seq(Frame) /\ Len(<< f >>) = 1 /\ << f >>[1] = f
    OBVIOUS
<1>2. << f >> # << >>
    BY <1>1, EmptySeq
<1> QED
    BY <1>1, <1>2 DEF Quiet, One
-----------------------------------------------------------------------------
(* The callback. A frame that raises keeps those behind it in the buffer;  *)
(* otherwise the buffer is empty and the frame of the transfer is consumed *)
(* at once.                                                                *)

LEMMA Among ==
    ASSUME NEW s
    PROVE  /\ AnswersAmong(s, 0) = << >>
           /\ s[1] \in Noise => AnswersAmong(s, 1) = << >>
           /\ s[1] \notin Noise => AnswersAmong(s, 1) = << s[1] >>
<1> DEFINE At(n) == {i \in 1 .. n : s[i] \notin {Packet, Garbled}}
           Place(n, k) == CHOOSE i \in At(n) : Cardinality({j \in At(n) : j <= i}) = k
<1>1. \A n : AnswersAmong(s, n) = [k \in 1 .. Cardinality(At(n)) |-> s[Place(n, k)]]
    BY DEF AnswersAmong
<1>2. ASSUME NEW n, At(n) = {}
      PROVE  AnswersAmong(s, n) = << >>
    <2>1. Cardinality(At(n)) = 0
        BY <1>2, FS_EmptySet
    <2>2. AnswersAmong(s, n) = [k \in 1 .. 0 |-> s[Place(n, k)]]
        BY <1>1, <2>1
    <2> HIDE DEF Place
    <2>3. [k \in 1 .. 0 |-> s[Place(n, k)]] \in Seq({}) /\ Len([k \in 1 .. 0 |-> s[Place(n, k)]]) = 0
        OBVIOUS
    <2> QED
        BY <2>2, <2>3, EmptySeq
<1>3. At(0) = {}
    OBVIOUS
<1>4. s[1] \in Noise => At(1) = {}
    BY DEF Noise
<1>5. ASSUME s[1] \notin Noise PROVE AnswersAmong(s, 1) = << s[1] >>
    <2>1. At(1) = {1}
        BY <1>5 DEF Noise
    <2>2. Cardinality(At(1)) = 1 /\ Cardinality({1}) = 1
        BY <2>1, FS_Singleton
    <2>3. {j \in At(1) : j <= 1} = {1}
        BY <2>1
    <2>4. \E i \in At(1) : Cardinality({j \in At(1) : j <= i}) = 1
        BY <2>1, <2>2, <2>3
    <2>5. Place(1, 1) \in At(1)
        BY <2>4
    <2> HIDE DEF At, Place
    <2>6. Place(1, 1) = 1
        BY <2>1, <2>5
    <2>7. AnswersAmong(s, 1) = [k \in 1 .. 1 |-> s[Place(1, k)]]
        BY <1>1, <2>2
    <2>8. [k \in 1 .. 1 |-> s[Place(1, k)]] = << s[1] >>
        BY <2>6
    <2> QED
        BY <2>7, <2>8
<1> QED
    BY <1>2, <1>3, <1>4, <1>5

LEMMA ConsumedIs ==
    ASSUME NEW s \in Seq(Frame)
    PROVE  /\ s # << >> /\ Raises(s[1]) => Consumed(s) = 0
           /\ s = << >> => Consumed(s) = 0
           /\ Len(s) = 1 /\ ~Raises(s[1]) => Consumed(s) = 1
<1> DEFINE Fits(n) == /\ \A i \in 1 .. n : ~Raises(s[i])
                      /\ n < Len(s) => Raises(s[n + 1])
<1>0. Len(s) \in Nat /\ (s # << >> => Len(s) >= 1) /\ (s = << >> => Len(s) = 0)
    BY EmptySeq
<1>1. Consumed(s) = CHOOSE n \in 0 .. Len(s) : Fits(n)
    BY DEF Consumed
<1>2. ASSUME NEW m \in 0 .. Len(s), Fits(m), \A n \in 0 .. Len(s) : Fits(n) => n = m
      PROVE  Consumed(s) = m
    <2> HIDE DEF Fits
    <2>1. (CHOOSE n \in 0 .. Len(s) : Fits(n)) \in 0 .. Len(s) /\ Fits(CHOOSE n \in 0 .. Len(s) : Fits(n))
        BY <1>2
    <2> QED
        BY <1>1, <1>2, <2>1
<1>3. ASSUME s # << >>, Raises(s[1]) PROVE Consumed(s) = 0
    <2>1. 0 \in 0 .. Len(s) /\ Fits(0)
        BY <1>0, <1>3
    <2>2. \A n \in 0 .. Len(s) : Fits(n) => n = 0
        BY <1>0, <1>3
    <2> QED
        BY <1>2, <2>1, <2>2
<1>4. ASSUME s = << >> PROVE Consumed(s) = 0
    <2>1. 0 \in 0 .. Len(s) /\ Fits(0) /\ \A n \in 0 .. Len(s) : n = 0
        BY <1>0, <1>4
    <2> QED
        BY <1>2, <2>1
<1>5. ASSUME Len(s) = 1, ~Raises(s[1]) PROVE Consumed(s) = 1
    <2>1. 1 \in 0 .. Len(s) /\ Fits(1) /\ ~Fits(0)
        BY <1>5
    <2>2. \A n \in 0 .. Len(s) : Fits(n) => n = 1
        BY <1>5, <2>1
    <2> QED
        BY <1>2, <2>1, <2>2
<1> QED
    BY <1>3, <1>4, <1>5

\* What the callback does to buffer and queue.
LEMMA CallbackDoes ==
    ASSUME buf \in Seq(Frame), answers \in Seq(Frame), BufInv, NEW data,
           Taken(data), CommCallback(data)
    PROVE  \/ /\ buf' = buf \o data /\ answers' = answers /\ buf' \in Seq(Frame)
              /\ buf' # << >> => Raises(buf'[1])
           \/ /\ buf = << >> /\ buf' = << >> /\ data # << >> /\ ~Raises(data[1])
              /\ answers' = IF data[1] = Packet THEN answers ELSE Append(answers, data[1])
<1> DEFINE s == buf \o data
<1>1. /\ data \in Seq(Frame) /\ Len(data) \in {0, 1} /\ (data = << >> <=> Len(data) = 0)
      /\ (data # << >> => data[1] \in Frame)
    <2>1. CASE data = << >>
        BY <2>1, EmptySeq
    <2>2. ASSUME NEW f \in Frame, data = << f >> PROVE <1>1
        BY <2>2, OfOne, EmptySeq
    <2> QED
        BY <2>1, <2>2 DEF Taken
<1>2. /\ s \in Seq(Frame) /\ Len(s) = Len(buf) + Len(data) /\ Len(buf) \in Nat
      /\ buf # << >> => s[1] = buf[1] /\ s # << >>
      /\ buf = << >> => s = data
    BY <1>1, ConcatProperties, ConcatEmptySeq, EmptySeq
<1>3. buf' = Rest(s, Consumed(s)) /\ answers' = answers \o AnswersAmong(s, Consumed(s))
    BY DEF CommCallback
<1> HIDE DEF s
<1>4. ASSUME Consumed(s) = 0 PROVE buf' = s /\ answers' = answers
    <2>1. buf' = SubSeq(s, 1, Len(s)) /\ answers' = answers \o << >>
        BY <1>3, <1>4, Among DEF Rest
    <2> QED
        BY <1>2, <2>1, SubSeqFull, ConcatEmptySeq
<1>5. CASE buf # << >>
    <2>1. Consumed(s) = 0 /\ Raises(s[1])
        BY <1>2, <1>5, ConsumedIs DEF BufInv
    <2> QED
        BY <1>2, <1>4, <2>1 DEF s
<1>6. CASE buf = << >> /\ data = << >>
    <2>1. Consumed(s) = 0 /\ s = << >>
        BY <1>2, <1>6, ConsumedIs
    <2> QED
        BY <1>2, <1>4, <2>1 DEF s
<1>7. CASE buf = << >> /\ data # << >> /\ Raises(data[1])
    <2>1. Consumed(s) = 0 /\ Raises(s[1])
        BY <1>2, <1>7, ConsumedIs
    <2> QED
        BY <1>2, <1>4, <2>1 DEF s
<1>8. CASE buf = << >> /\ data # << >> /\ ~Raises(data[1])
    <2>1. s = data /\ Len(s) = 1 /\ Consumed(s) = 1
        BY <1>1, <1>2, <1>8, ConsumedIs
    <2>2. buf' = << >>
        <3>1. buf' = SubSeq(s, 2, 1)
            BY <1>3, <2>1 DEF Rest
        <3> QED
            BY <3>1, SubSeqEmpty
    <2>3. answers' = IF data[1] = Packet THEN answers ELSE Append(answers, data[1])
        <3>1. CASE data[1] = Packet
            <4>1. answers' = answers \o << >>
                BY <1>3, <2>1, <3>1, Among DEF Noise
            <4> QED
                BY <3>1, <4>1, ConcatEmptySeq
        <3>2. CASE data[1] # Packet
            <4>1. answers' = answers \o << data[1] >>
                BY <1>3, <1>8, <2>1, <3>2, Among DEF Noise, Raises
            <4> QED
                BY <1>1, <1>8, <3>2, <4>1
        <3> QED
            BY <3>1, <3>2
    <2> QED
        BY <1>8, <2>2, <2>3
<1> QED
    BY <1>5, <1>6, <1>7, <1>8

\* With no overlap so far, the callback takes what it is given or nothing.
LEMMA CallbackSound ==
    ASSUME ~clash, NEW data, NEW answer, Callback(data, answer)
    PROVE  CommCallback(data)
    BY DEF Callback

\* The data of a callback: lost, left in the buffer, or consumed.
Absorbs(data) ==
    \/ buf' = buf /\ answers' = answers
    \/ /\ data # << >> /\ buf' = Append(buf, data[1]) /\ answers' = answers /\ Raises(buf'[1])
    \/ /\ buf = << >> /\ buf' = << >> /\ data # << >> /\ ~Raises(data[1])
       /\ answers' = IF data[1] = Packet THEN answers ELSE Append(answers, data[1])

LEMMA CallbackAbsorbs ==
    ASSUME buf \in Seq(Frame), answers \in Seq(Frame), BufInv, NEW data, Taken(data), CommCallback(data)
    PROVE  Absorbs(data)
<1>1. CASE data = << >>
    <2>1. buf \o data = buf
        BY <1>1, ConcatEmptySeq
    <2> QED
        BY <1>1, <2>1, CallbackDoes DEF Absorbs
<1>2. ASSUME NEW f \in Frame, data = << f >> PROVE Absorbs(data)
    <2>1. data[1] = f /\ data # << >>
        BY <1>2, OfOne
    <2>2. buf \o data = Append(buf, data[1])
        BY <1>2, <2>1
    <2>3. buf \o data # << >>
        BY <2>1, <2>2, AppendProperties
    <2> QED
        BY <2>1, <2>2, <2>3, CallbackDoes DEF Absorbs
<1> QED
    BY <1>1, <1>2 DEF Taken

\* What becomes of a frame, which may be the answer p, that a callback is given.
LEMMA FrameGoes ==
    ASSUME buf \in Seq(Frame), answers \in Seq(Frame), BufInv, closed' = closed, NEW f \in Frame,
           Absorbs(<< f >>), NEW p
    PROVE  /\ buf' \in Seq(Frame) /\ answers' \in Seq(Frame) /\ BufInv'
           /\ f \in Noise => /\ answers' = answers
                             /\ Quiet(buf) => Quiet(buf')
                             /\ One(buf, p) => One(buf', p)
           /\ f = p /\ p \notin Noise /\ Quiet(buf) /\ answers = << >> =>
                 \/ Quiet(buf') /\ answers' = << >>
                 \/ One(buf', p) /\ answers' = << >>
                 \/ Quiet(buf') /\ answers' = << p >>
<1>0. << f >>[1] = f /\ << f >> # << >>
    BY OfOne
<1>1. Append(buf, f) \in Seq(Frame)
    BY AtEnd
<1>2. Append(answers, f) \in Seq(Frame) /\ Append(<< >>, f) = << f >>
    BY AppendProperties
<1>3. f \in Noise /\ ~Raises(f) => f = Packet
    BY DEF Noise, Raises
<1>4. Packet \in Noise /\ ~One(<< >>, p) /\ Quiet(<< >>)
    BY OpsAre, Empty DEF One
<1>5. CASE buf' = buf /\ answers' = answers
    BY <1>5 DEF BufInv, Raises, Quiet, One
<1>6. CASE buf' = Append(buf, f) /\ answers' = answers /\ Raises(buf'[1])
    <2>1. /\ f \in Noise /\ Quiet(buf) => Quiet(buf')
          /\ f \in Noise /\ One(buf, p) => One(buf', p)
          /\ f = p /\ Quiet(buf) => One(buf', p)
        BY <1>6, AtEnd
    <2>2. BufInv'
        BY <1>6 DEF BufInv, Raises
    <2> QED
        BY <1>1, <1>6, <2>1, <2>2
<1>7. CASE /\ buf = << >> /\ buf' = << >> /\ ~Raises(f)
           /\ answers' = IF f = Packet THEN answers ELSE Append(answers, f)
    <2>1. BufInv' /\ buf' \in Seq(Frame) /\ Quiet(buf')
        BY <1>7, Empty DEF BufInv
    <2>2. ~One(buf, p)
        BY <1>4, <1>7
    <2>3. CASE f = Packet
        BY <1>4, <1>7, <2>1, <2>2, <2>3
    <2>4. CASE f # Packet
        <3>1. answers' = Append(answers, f) /\ f \notin Noise
            BY <1>3, <1>7, <2>4
        <3> QED
            BY <1>2, <2>1, <2>2, <3>1
    <2> QED
        BY <2>3, <2>4
<1> QED
    BY <1>0, <1>5, <1>6, <1>7 DEF Absorbs
-----------------------------------------------------------------------------
(* Without an interrupt or an overlap there is at most one answer on its   *)
(* way, and it is that of the access that waits: an access is made only    *)
(* when none waits, and then all that is left of the one before is gone.   *)

Nowhere  == requests = << >> /\ answers = << >> /\ Quiet(wire) /\ Quiet(carried) /\ Quiet(buf)
Asked    == requests = << pending >> /\ answers = << >> /\ Quiet(wire) /\ Quiet(carried) /\ Quiet(buf)
OnWire   == requests = << >> /\ answers = << >> /\ One(wire, pending) /\ Quiet(carried) /\ Quiet(buf)
InHand   == requests = << >> /\ answers = << >> /\ Quiet(wire) /\ One(carried, pending) /\ Quiet(buf)
Buffered == requests = << >> /\ answers = << >> /\ Quiet(wire) /\ Quiet(carried) /\ One(buf, pending)
Queued   == requests = << >> /\ answers = << pending >> /\ Quiet(wire) /\ Quiet(carried) /\ Quiet(buf)

\* A transfer that fails takes what is in it along: then nothing is on its way.
OneAtMost == Nowhere \/ (pending # None /\ (Asked \/ OnWire \/ InHand \/ Buffered \/ Queued))

LinkTypes ==
    /\ requests \in Seq(Ops) /\ wire \in Seq(Frame) /\ Taken(carried)
    /\ pending = None \/ pending \in Ops
    /\ left \in 0 .. MaxInterrupts

BufTypes == buf \in Seq(Frame) /\ answers \in Seq(Frame) /\ BufInv

\* A callback in the main thread has its data until it returns.
Carrying == carried # << >> => aside.at \in {"done", "giving"} /\ status[aside.t] = "COMPLETED"

Sound == ~clash => BufTypes /\ (left = MaxInterrupts => OneAtMost)

FlowInv == LinkTypes /\ Carrying /\ Sound

places == << requests, wire, carried, buf, answers, pending >>

LEMMA SameFlow ==
    ASSUME LinkTypes, Sound, UNCHANGED places, closed' = closed, left' = left, clash => clash'
    PROVE  LinkTypes' /\ Sound'
<1>1. /\ requests' = requests /\ wire' = wire /\ carried' = carried /\ buf' = buf
      /\ answers' = answers /\ pending' = pending
    BY DEF places
<1>2. LinkTypes'
    BY <1>1 DEF LinkTypes, Taken
<1>3. BufTypes => BufTypes'
    BY <1>1 DEF BufTypes, BufInv, Raises
<1>4. OneAtMost => OneAtMost'
    BY <1>1 DEF OneAtMost, Nowhere, Asked, OnWire, InHand, Buffered, Queued, Quiet, One
<1> QED
    BY <1>2, <1>3, <1>4 DEF Sound

\* The next frame of the wire.
LEMMA LoadIs ==
    ASSUME wire \in Seq(Frame), NEW data \in Loads
    PROVE  \/ data = << >>
           \/ /\ wire # << >> /\ data = << Head(wire) >> /\ data # << >> /\ Head(wire) \in Frame
              /\ Tail(wire) \in Seq(Frame)
<1>1. data = << >> \/ (wire # << >> /\ data = << Head(wire) >>)
    BY DEF Loads
<1>2. wire # << >> => Head(wire) \in Frame /\ Tail(wire) \in Seq(Frame)
    BY AtFront
<1> QED
    BY <1>1, <1>2, OfOne

\* A transfer completes in the thread of the stream.
LEMMA TransferFlow ==
    ASSUME LinkTypes, Sound, NEW t, NEW outcome, NEW data \in Loads,
           Transfer(t, outcome, data), UNCHANGED << mainVars, requests >>
    PROVE  LinkTypes' /\ Sound'
<1>1. /\ wire' = IF data = << >> THEN wire ELSE Tail(wire)
      /\ UNCHANGED << requests, carried, pending, closed, clash, left >>
    BY DEF Transfer, mainSide, mainVars
<1>2. (\E answer : Callback(data, answer)) \/ UNCHANGED << buf, answers >>
    BY DEF Transfer
<1>3. ~clash => CommCallback(data) \/ UNCHANGED << buf, answers >>
    BY <1>2, CallbackSound
<1>4. Taken(data)
    BY LoadIs DEF LinkTypes, Taken
<1>5. ~clash => Absorbs(data)
    BY <1>3, <1>4, CallbackAbsorbs DEF Sound, BufTypes, Absorbs
<1>6. CASE clash
    <2>1. wire' \in Seq(Frame)
        BY <1>1, LoadIs DEF LinkTypes
    <2> QED
        BY <1>1, <1>6, <2>1 DEF LinkTypes, Taken, Sound
<1>7. CASE ~clash /\ data = << >>
    <2>1. UNCHANGED places
        BY <1>1, <1>5, <1>7 DEF Absorbs, places
    <2> QED
        BY <1>1, <2>1, SameFlow
<1>8. CASE ~clash /\ data # << >>
    <2> DEFINE f == Head(wire)
    <2>1. wire # << >> /\ data = << f >> /\ f \in Frame /\ wire' = Tail(wire) /\ wire' \in Seq(Frame)
        BY <1>1, <1>8, LoadIs DEF LinkTypes
    <2>2. /\ Quiet(wire) => f \in Noise /\ Quiet(wire')
          /\ One(wire, pending) => \/ f = pending /\ Quiet(wire')
                                   \/ f \in Noise /\ One(wire', pending)
        BY <2>1, AtFront DEF LinkTypes
    <2> HIDE DEF f
    <2>3. /\ buf' \in Seq(Frame) /\ answers' \in Seq(Frame) /\ BufInv'
          /\ f \in Noise => /\ answers' = answers
                            /\ Quiet(buf) => Quiet(buf')
                            /\ One(buf, pending) => One(buf', pending)
          /\ f = pending /\ pending \notin Noise /\ Quiet(buf) /\ answers = << >> =>
                \/ Quiet(buf') /\ answers' = << >>
                \/ One(buf', pending) /\ answers' = << >>
                \/ Quiet(buf') /\ answers' = << pending >>
        BY <1>1, <1>5, <1>8, <2>1, FrameGoes DEF Sound, BufTypes
    <2>4. pending # None => pending \notin Noise
        BY OpsAre DEF LinkTypes
    <2>5. /\ requests' = requests /\ carried' = carried /\ pending' = pending
          /\ (Quiet(carried) => Quiet(carried')) /\ (One(carried, pending) => One(carried', pending'))
        BY <1>1 DEF Quiet, One
    <2>6. /\ One(wire', pending) = One(wire', pending') /\ One(buf', pending) = One(buf', pending')
        BY <2>5
    <2>7. OneAtMost => OneAtMost'
        <3>1. Nowhere => Nowhere'
            BY <2>2, <2>3, <2>5 DEF Nowhere, Quiet
        <3>2. Asked => Asked'
            BY <2>2, <2>3, <2>5 DEF Asked, Quiet
        <3>3. InHand => InHand'
            BY <2>2, <2>3, <2>5 DEF InHand, Quiet, One
        <3>4. Buffered => Buffered'
            BY <2>2, <2>3, <2>5 DEF Buffered, Quiet, One
        <3>5. Queued => Queued'
            BY <2>2, <2>3, <2>5 DEF Queued, Quiet
        <3>6. pending # None /\ OnWire => OnWire' \/ Nowhere' \/ Buffered' \/ Queued'
            <4> SUFFICES ASSUME pending # None, OnWire PROVE OnWire' \/ Nowhere' \/ Buffered' \/ Queued'
                OBVIOUS
            <4>1. CASE f \in Noise /\ One(wire', pending)
                <5>1. answers' = << >> /\ requests' = << >>
                    BY <2>3, <2>5, <4>1 DEF OnWire
                <5>2. Quiet(carried') /\ Quiet(buf')
                    BY <2>3, <2>5, <4>1 DEF OnWire
                <5> QED
                    BY <2>5, <4>1, <5>1, <5>2 DEF OnWire, Quiet, One
            <4>2. CASE f = pending /\ Quiet(wire')
                <5>1. \/ Quiet(buf') /\ answers' = << >>
                      \/ One(buf', pending) /\ answers' = << >>
                      \/ Quiet(buf') /\ answers' = << pending >>
                    BY <2>3, <2>4, <4>2 DEF OnWire
                <5>2. requests' = << >> /\ Quiet(carried')
                    BY <2>5 DEF OnWire
                <5> QED
                    BY <2>5, <4>2, <5>1, <5>2 DEF Nowhere, Buffered, Queued, Quiet, One
            <4> QED
                BY <2>2, <4>1, <4>2 DEF OnWire
        <3> QED
            BY <2>5, <3>1, <3>2, <3>3, <3>4, <3>5, <3>6 DEF OneAtMost
    <2>8. LinkTypes'
        BY <1>1, <2>1, <2>5 DEF LinkTypes, Taken
    <2> QED
        BY <1>1, <1>8, <2>3, <2>7, <2>8 DEF Sound, BufTypes
<1> QED
    BY <1>6, <1>7, <1>8

LEMMA ThreadFlow ==
    ASSUME LinkTypes, Sound, Thread, UNCHANGED << mainVars, requests >>
    PROVE  LinkTypes' /\ Sound'
<1>1. left' = left
    BY DEF mainVars
<1>2. CASE ThreadLoop \/ ThreadQuiet
    BY <1>1, <1>2, SameFlow DEF ThreadLoop, ThreadQuiet, commVars, bufVars, mainSide, places
<1>3. CASE ThreadTransfer
    BY <1>3, TransferFlow DEF ThreadTransfer
<1>4. CASE ThreadReport
    <2>1. PICK answer : Callback(<< >>, answer)
        BY <1>4 DEF ThreadReport
    <2>2. UNCHANGED << clash, carried, writing, pending, closed, wire >>
        BY <1>4 DEF ThreadReport, mainSide
    <2>3. CASE ~clash
        <3>1. CommCallback(<< >>)
            BY <2>1, <2>3, CallbackSound
        <3>2. Absorbs(<< >>)
            BY <2>3, <3>1, CallbackAbsorbs DEF Sound, BufTypes, Taken
        <3>3. buf' = buf /\ answers' = answers
            BY <3>2 DEF Absorbs
        <3> QED
            BY <1>1, <2>2, <3>3, SameFlow DEF places
    <2>4. CASE clash
        BY <1>1, <2>2, <2>4 DEF LinkTypes, Taken, Sound
    <2> QED
        BY <2>3, <2>4
<1>5. CASE \E elapsed, failed \in BOOLEAN : ThreadTurn(elapsed, failed)
    BY <1>1, <1>5, SameFlow DEF ThreadTurn, mainSide, places
<1> QED
    BY <1>2, <1>3, <1>4, <1>5 DEF Thread

\* A transfer completes in the main thread, which has no data in hand yet.
LEMMA CompletionFlow ==
    ASSUME LinkTypes, Carrying, Sound, MainCompletion, UNCHANGED << mainVars, requests >>
    PROVE  LinkTypes' /\ Sound'
<1>1. PICK t \in Stream!Xfers, outcome \in Stream!Outcomes, data \in Loads : MainTransfer(t, outcome, data)
    BY DEF MainCompletion
<1>2. /\ carried' = data /\ wire' = IF data = << >> THEN wire ELSE Tail(wire)
      /\ UNCHANGED << requests, buf, answers, pending, closed, clash, left >>
      /\ aside = Stream!Nobody
    BY <1>1 DEF MainTransfer, mainSide, mainVars, Stream!OtherCompletes, Stream!Completes
<1>3. carried = << >>
    BY <1>2 DEF Carrying, Stream!Nobody
<1>4. CASE data = << >>
    BY <1>2, <1>3, <1>4, SameFlow DEF places
<1>5. CASE data # << >>
    <2> DEFINE f == Head(wire)
    <2>1. wire # << >> /\ data = << f >> /\ f \in Frame /\ wire' = Tail(wire) /\ wire' \in Seq(Frame)
        BY <1>2, <1>5, LoadIs DEF LinkTypes
    <2>2. /\ Quiet(wire) => f \in Noise /\ Quiet(wire')
          /\ One(wire, pending) => \/ f = pending /\ Quiet(wire')
                                   \/ f \in Noise /\ One(wire', pending)
        BY <2>1, AtFront DEF LinkTypes
    <2> HIDE DEF f
    <2>3. carried' = << f >> /\ (f \in Noise => Quiet(carried')) /\ (f = pending => One(carried', pending))
        BY <1>2, <2>1, OfOne
    <2>4. requests' = requests /\ buf' = buf /\ answers' = answers /\ pending' = pending
        BY <1>2
    <2>5. LinkTypes'
        BY <1>2, <2>1 DEF LinkTypes, Taken
    <2>6. BufTypes => BufTypes'
        BY <1>2 DEF BufTypes, BufInv, Raises
    <2>7. ~One(carried, pending)
        BY <1>3 DEF One
    <2>8. OneAtMost => OneAtMost'
        <3>1. Nowhere => Nowhere'
            BY <2>2, <2>3, <2>4 DEF Nowhere, Quiet
        <3>2. Asked => Asked'
            BY <2>2, <2>3, <2>4 DEF Asked, Quiet
        <3>3. ~InHand
            BY <2>7 DEF InHand
        <3>4. Buffered => Buffered'
            BY <2>2, <2>3, <2>4 DEF Buffered, Quiet, One
        <3>5. Queued => Queued'
            BY <2>2, <2>3, <2>4 DEF Queued, Quiet
        <3>6. OnWire => OnWire' \/ InHand'
            <4> SUFFICES ASSUME OnWire PROVE OnWire' \/ InHand'
                OBVIOUS
            <4>1. answers' = << >> /\ requests' = << >> /\ Quiet(buf)'
                BY <2>4 DEF OnWire, Quiet
            <4>2. CASE f \in Noise /\ One(wire', pending)
                BY <2>3, <2>4, <4>1, <4>2 DEF OnWire, Quiet, One
            <4>3. CASE f = pending /\ Quiet(wire')
                BY <2>3, <2>4, <4>1, <4>3 DEF InHand, Quiet, One
            <4> QED
                BY <2>2, <4>2, <4>3 DEF OnWire
        <3> QED
            BY <2>4, <3>1, <3>2, <3>3, <3>4, <3>5, <3>6 DEF OneAtMost
    <2> QED
        BY <1>2, <2>5, <2>6, <2>8 DEF Sound
<1> QED
    BY <1>4, <1>5

\* The callback in the main thread takes the data in hand, or it is dropped.
LEMMA HandFlow ==
    ASSUME LinkTypes, Sound, carried' = << >>,
           UNCHANGED << requests, wire, pending, closed, clash, left >>,
           ~clash => Absorbs(carried)
    PROVE  LinkTypes' /\ Sound'
<1>1. LinkTypes'
    BY DEF LinkTypes, Taken
<1>2. CASE clash
    BY <1>1, <1>2 DEF Sound
<1>3. CASE ~clash /\ carried = << >>
    <2>1. UNCHANGED places
        BY <1>3 DEF Absorbs, places
    <2> QED
        BY <2>1, SameFlow
<1>4. ASSUME ~clash, NEW f \in Frame, carried = << f >> PROVE Sound'
    <2>1. /\ Quiet(carried) => f \in Noise
          /\ One(carried, pending) => f = pending
          /\ Quiet(carried')
        BY <1>4, OfOne, Empty
    <2>2. /\ buf' \in Seq(Frame) /\ answers' \in Seq(Frame) /\ BufInv'
          /\ f \in Noise => /\ answers' = answers
                            /\ Quiet(buf) => Quiet(buf')
                            /\ One(buf, pending) => One(buf', pending)
          /\ f = pending /\ pending \notin Noise /\ Quiet(buf) /\ answers = << >> =>
                \/ Quiet(buf') /\ answers' = << >>
                \/ One(buf', pending) /\ answers' = << >>
                \/ Quiet(buf') /\ answers' = << pending >>
        BY <1>4, FrameGoes DEF Sound, BufTypes
    <2>3. pending # None => pending \notin Noise
        BY OpsAre DEF LinkTypes
    <2>4. /\ requests' = requests /\ wire' = wire /\ pending' = pending
        OBVIOUS
    <2>5. OneAtMost => OneAtMost'
        <3>1. Nowhere => Nowhere'
            BY <2>1, <2>2, <2>4 DEF Nowhere, Quiet
        <3>2. Asked => Asked'
            BY <2>1, <2>2, <2>4 DEF Asked, Quiet
        <3>3. OnWire => OnWire'
            BY <2>1, <2>2, <2>4 DEF OnWire, Quiet, One
        <3>4. Buffered => Buffered'
            BY <2>1, <2>2, <2>4 DEF Buffered, Quiet, One
        <3>5. Queued => Queued'
            BY <2>1, <2>2, <2>4 DEF Queued, Quiet
        <3>6. pending # None /\ InHand => Nowhere' \/ Buffered' \/ Queued'
            <4> SUFFICES ASSUME pending # None, InHand PROVE Nowhere' \/ Buffered' \/ Queued'
                OBVIOUS
            <4>1. \/ Quiet(buf') /\ answers' = << >>
                  \/ One(buf', pending) /\ answers' = << >>
                  \/ Quiet(buf') /\ answers' = << pending >>
                BY <2>1, <2>2, <2>3 DEF InHand
            <4>2. requests' = << >> /\ Quiet(wire)'
                BY <2>4 DEF InHand, Quiet
            <4> QED
                BY <2>1, <2>4, <4>1, <4>2 DEF Nowhere, Buffered, Queued, Quiet, One
        <3> QED
            BY <2>4, <3>1, <3>2, <3>3, <3>4, <3>5, <3>6 DEF OneAtMost
    <2> QED
        BY <1>4, <2>2, <2>5 DEF Sound, BufTypes
<1> QED
    BY <1>1, <1>2, <1>3, <1>4 DEF LinkTypes, Taken

LEMMA MainCallbackFlow ==
    ASSUME LinkTypes, Sound, MainCallback, UNCHANGED << mainVars, requests >>
    PROVE  LinkTypes' /\ Sound'
<1>1. left' = left /\ requests' = requests
    BY DEF mainVars
<1>2. CASE MainDrops
    BY <1>1, <1>2, HandFlow DEF MainDrops, mainSide, Absorbs
<1>3. CASE MainGives \/ MainQuiet
    <2>1. UNCHANGED << wire, carried, buf, answers, pending, closed >>
        BY <1>3 DEF MainGives, MainQuiet, commVars, bufVars, mainSide
    <2>2. clash' = clash \/ clash' = (clash \/ Overlap)
        BY <1>3 DEF MainGives, MainQuiet, commVars, bufVars
    <2>3. clash => clash'
        BY <2>2, Zenon
    <2>4. UNCHANGED places
        BY <1>1, <2>1 DEF places
    <2> QED
        BY <1>1, <2>1, <2>3, <2>4, SameFlow
<1>4. CASE MainReturns
    <2>1. PICK answer : Callback(carried, answer)
        BY <1>4 DEF MainReturns
    <2>2. ~clash => CommCallback(carried)
        BY <2>1, CallbackSound
    <2>3. ~clash => Absorbs(carried)
        BY <2>2, CallbackAbsorbs DEF LinkTypes, Sound, BufTypes
    <2> QED
        BY <1>1, <1>4, <2>3, HandFlow DEF MainReturns, mainSide
<1> QED
    BY <1>2, <1>3, <1>4 DEF MainCallback

\* The data in hand stays with the callback until it returns.
LEMMA CarryingHeld ==
    ASSUME StreamInv, Stream!Intact, Carrying,
           Thread \/ MainCompletion \/ MainCallback \/ InterruptCallback
    PROVE  Carrying'
<1>1. CASE Thread
    <2>1. carried' = carried
        BY <1>1 DEF Thread, ThreadLoop, ThreadQuiet, ThreadTransfer, Transfer, ThreadReport, ThreadTurn,
                    commVars, bufVars
    <2>2. carried # << >> => aside # Stream!Nobody
        BY DEF Carrying, Stream!Nobody
    <2>3. carried # << >> => aside' = aside /\ status'[aside.t] = "COMPLETED"
        BY <1>1, <2>2, StatusBeside DEF Carrying
    <2> QED
        BY <2>1, <2>3 DEF Carrying
<1>2. CASE MainCompletion
    <2>1. PICK t \in Stream!Xfers, outcome \in Stream!Outcomes, data \in Loads : MainTransfer(t, outcome, data)
        BY <1>2 DEF MainCompletion
    <2>2. /\ carried' = data /\ (data # << >> => outcome = "COMPLETED")
          /\ aside'.at = "done" /\ aside'.t = t /\ status' = [status EXCEPT ![t] = outcome]
        BY <2>1 DEF MainTransfer, Brings, Stream!OtherCompletes
    <2>3. status'[t] = outcome
        BY <2>2 DEF StreamInv, StreamTypes
    <2> QED
        BY <2>2, <2>3 DEF Carrying
<1>3. CASE MainDrops \/ MainReturns \/ InterruptCallback
    <2>1. carried' = << >>
        BY <1>3 DEF MainDrops, MainReturns, InterruptCallback
    <2> QED
        BY <2>1 DEF Carrying
<1>4. CASE MainGives
    <2>1. /\ carried' = carried /\ status' = status /\ aside' = [aside EXCEPT !.at = "giving"]
          /\ aside.at = "done"
        BY <1>4 DEF MainGives, Stream!OtherGives
    <2>2. aside'.at = "giving" /\ aside'.t = aside.t
        BY <2>1 DEF StreamInv, StreamTypes, Stream!Nobody
    <2> QED
        BY <2>1, <2>2 DEF Carrying
<1>5. CASE MainQuiet
    <2>1. carried' = carried
        BY <1>5 DEF MainQuiet, commVars, bufVars
    <2>2. \/ aside.at = "done" /\ status[aside.t] # "COMPLETED"
          \/ aside.at \in {"answered", "again", "marked"}
        BY <1>5 DEF MainQuiet, Stream!OtherFails, Stream!OtherStores, Stream!OtherMarks,
                    Stream!OtherSubmits, Stream!OtherLeaves
    <2> QED
        BY <2>1, <2>2 DEF Carrying
<1> QED
    BY <1>1, <1>2, <1>3, <1>4, <1>5 DEF MainCallback

-----------------------------------------------------------------------------
(* The main thread and the device.                                         *)

\* Nothing is in hand while the main thread writes nothing.
LEMMA EmptyHand ==
    ASSUME Carrying, Writing, ~writing
    PROVE  carried = << >>
    BY DEF Carrying, Writing, Stream!Nobody

LEMMA MainFlow ==
    ASSUME LinkTypes, Sound, Main
    PROVE  LinkTypes' /\ Sound' /\ carried' = carried
<1>0. /\ left' = left /\ carried' = carried /\ clash' = clash
    BY DEF Main, MainOpen, MainOpened, MainFlush, MainWrite, MainWritten, MainReturn, MainCloseOut,
           MainClose, MainJoin, OpenStart, OpenEnd, CloseStart, Written, Receive,
           hostVars, commVars, bufVars, mainVars
<1>1. CASE MainOpen
    <2>1. UNCHANGED << requests, answers, wire, pending, closed >> /\ buf' = << >>
        BY <1>1 DEF MainOpen, OpenStart, mainSide
    <2>2. LinkTypes'
        BY <1>0, <2>1 DEF LinkTypes, Taken
    <2>3. BufTypes => BufTypes'
        BY <2>1, Empty DEF BufTypes, BufInv
    <2>4. OneAtMost => OneAtMost'
        BY <1>0, <2>1, Empty DEF OneAtMost, Nowhere, Asked, OnWire, InHand, Buffered, Queued, Quiet, One
    <2> QED
        BY <1>0, <2>2, <2>3, <2>4 DEF Sound
<1>2. CASE MainOpened \/ MainFlush \/ MainWritten \/ MainClose \/ MainJoin
    <2>1. UNCHANGED << requests, wire, buf, answers, pending, closed >>
        BY <1>2 DEF MainOpened, MainFlush, MainWritten, MainClose, MainJoin, OpenEnd, CloseStart, Written,
                    hostVars, commVars, bufVars, mainSide
    <2> QED
        BY <1>0, <2>1, SameFlow DEF places
<1>3. CASE MainWrite
    <2> DEFINE op == Access(pc)
    <2>1. /\ pending = None /\ pending' = op /\ op \in Ops
          /\ requests' = Append(requests, op) \/ requests' = requests
          /\ UNCHANGED << answers, wire, buf, closed >>
        BY <1>3 DEF MainWrite, commVars, bufVars, Ops
    <2> HIDE DEF op
    <2>2. Append(requests, op) \in Seq(Ops)
        BY <2>1, AppendProperties DEF LinkTypes
    <2>3. LinkTypes' /\ (BufTypes => BufTypes')
        BY <1>0, <2>1, <2>2 DEF LinkTypes, Taken, BufTypes, BufInv, Raises
    <2>4. Append(<< >>, op) = << op >> /\ pending' # None
        BY <2>1, OpsAre
    <2>5. Nowhere => Asked' \/ Nowhere'
        BY <1>0, <2>1, <2>4 DEF Nowhere, Asked, Quiet
    <2>6. OneAtMost => OneAtMost'
        BY <2>1, <2>4, <2>5 DEF OneAtMost
    <2> QED
        BY <1>0, <2>3, <2>6 DEF Sound
<1>4. CASE MainReturn
    <2>1. /\ pending # None /\ answers # << >> /\ answers' = Tail(answers) /\ pending' = None
          /\ UNCHANGED << requests, wire, buf, closed >>
        BY <1>4 DEF MainReturn, Receive, bufVars
    <2>2. LinkTypes'
        BY <1>0, <2>1 DEF LinkTypes, Taken
    <2>3. BufTypes => BufTypes'
        <3>1. BufTypes => answers' \in Seq(Frame)
            BY <2>1, AtFront DEF BufTypes
        <3> QED
            BY <2>1, <3>1 DEF BufTypes, BufInv, Raises
    <2>4. Tail(<< pending >>) = << >>
        OBVIOUS
    <2>5. Queued => Nowhere'
        BY <1>0, <2>1, <2>4 DEF Queued, Nowhere, Quiet
    <2>6. OneAtMost => OneAtMost'
        BY <2>1, <2>5 DEF OneAtMost, Nowhere, Asked, OnWire, InHand, Buffered
    <2> QED
        BY <1>0, <2>2, <2>3, <2>6 DEF Sound
<1>5. CASE MainCloseOut
    <2>1. UNCHANGED << requests, wire, buf, answers, pending >> /\ closed'
        BY <1>5 DEF MainCloseOut, commVars, bufVars
    <2>2. LinkTypes' /\ (BufTypes => BufTypes')
        BY <1>0, <2>1 DEF LinkTypes, Taken, BufTypes, BufInv, Raises
    <2>3. OneAtMost => OneAtMost'
        BY <1>0, <2>1 DEF OneAtMost, Nowhere, Asked, OnWire, InHand, Buffered, Queued, Quiet, One
    <2> QED
        BY <1>0, <2>2, <2>3 DEF Sound
<1> QED
    BY <1>0, <1>1, <1>2, <1>3, <1>4, <1>5 DEF Main

LEMMA DeviceFlow ==
    ASSUME LinkTypes, Sound, DeviceAnswer \/ DevicePacket
    PROVE  LinkTypes' /\ Sound' /\ carried' = carried
<1>0. UNCHANGED << carried, answers, buf, pending, closed, left, clash >>
    BY DEF DeviceAnswer, DevicePacket, commVars, bufVars, mainSide, mainVars
<1>1. CASE DeviceAnswer
    <2> DEFINE op == Head(requests)
    <2>1. /\ requests # << >> /\ requests' = Tail(requests) /\ wire' = Append(wire, op)
        BY <1>1 DEF DeviceAnswer
    <2>2. op \in Ops /\ op = requests[1] /\ Tail(requests) \in Seq(Ops)
          /\ Len(Tail(requests)) = Len(requests) - 1
        BY <2>1, HeadTailProperties DEF LinkTypes
    <2> HIDE DEF op
    <2>3. op \in Frame
        BY <2>2, OpsAre
    <2>4. /\ wire' \in Seq(Frame)
          /\ Quiet(wire) /\ op = pending => One(wire', pending)
        BY <2>1, <2>3, AtEnd DEF LinkTypes
    <2>5. LinkTypes' /\ (BufTypes => BufTypes')
        BY <1>0, <2>1, <2>2, <2>4 DEF LinkTypes, Taken, BufTypes, BufInv, Raises
    <2>6. ~Nowhere /\ ~OnWire /\ ~InHand /\ ~Buffered /\ ~Queued
        BY <2>1 DEF Nowhere, OnWire, InHand, Buffered, Queued
    <2>7. Asked => OnWire'
        <3>1. Len(requests) = 1 => Tail(requests) = << >>
            <4> DEFINE q == Tail(requests)
            <4>1. q \in Seq(Ops) /\ (Len(requests) = 1 => Len(q) = 0)
                BY <2>2
            <4> HIDE DEF q
            <4>2. Len(requests) = 1 => q = << >>
                BY <4>1, EmptySeq
            <4> QED
                BY <4>2 DEF q
        <3> QED
            BY <1>0, <2>1, <2>2, <2>4, <3>1 DEF Asked, OnWire, Quiet, One
    <2> QED
        BY <1>0, <2>5, <2>6, <2>7 DEF Sound, OneAtMost
<1>2. CASE DevicePacket
    <2>1. wire' = Append(wire, Packet) /\ requests' = requests
        BY <1>2 DEF DevicePacket
    <2>2. Packet \in Frame /\ Packet \in Noise
        BY DEF Frame, Noise
    <2>3. /\ wire' \in Seq(Frame)
          /\ Quiet(wire) => Quiet(wire')
          /\ One(wire, pending) => One(wire', pending)
        BY <2>1, <2>2, AtEnd DEF LinkTypes
    <2>4. /\ UNCHANGED requests /\ UNCHANGED answers /\ UNCHANGED buf /\ UNCHANGED pending
          /\ UNCHANGED carried /\ UNCHANGED closed
        BY <1>0, <2>1
    <2>5. LinkTypes' /\ (BufTypes => BufTypes')
        BY <1>0, <2>3, <2>4 DEF LinkTypes, Taken, BufTypes, BufInv, Raises
    <2>6. (Quiet(buf) => Quiet(buf')) /\ (Quiet(carried) => Quiet(carried'))
        BY <2>4
    <2>7. Nowhere => Nowhere'
        BY <2>3, <2>4, <2>6 DEF Nowhere, Quiet
    <2>8. Asked => Asked'
        BY <2>3, <2>4, <2>6 DEF Asked, Quiet
    <2>9. OnWire => OnWire'
        BY <2>3, <2>4, <2>6 DEF OnWire, Quiet, One
    <2>10. InHand => InHand'
        BY <2>3, <2>4, <2>6 DEF InHand, Quiet, One
    <2>11. Buffered => Buffered'
        BY <2>3, <2>4, <2>6 DEF Buffered, Quiet, One
    <2>12. Queued => Queued'
        BY <2>3, <2>4, <2>6 DEF Queued, Quiet
    <2>13. OneAtMost => OneAtMost'
        BY <2>4, <2>7, <2>8, <2>9, <2>10, <2>11, <2>12 DEF OneAtMost
    <2> QED
        BY <1>0, <2>5, <2>13 DEF Sound
<1> QED
    BY <1>0, <1>1, <1>2

\* After an interrupt nothing is claimed of the answers but their types.
LEMMA InterruptFlow ==
    ASSUME LinkTypes, Sound, Interrupt \/ InterruptCallback
    PROVE  LinkTypes' /\ Sound' /\ carried' \in {carried, << >>}
<1>1. /\ left' = left - 1 /\ left > 0 /\ pending' \in {None, pending} /\ carried' \in {carried, << >>}
      /\ UNCHANGED << requests, answers, wire, buf, closed, clash >>
    BY DEF Interrupt, InterruptCallback, Interruptible, commVars, bufVars, mainSide
<1>2. left' \in 0 .. MaxInterrupts /\ left' # MaxInterrupts
    BY <1>1, SniffAssumption DEF LinkTypes
<1>3. Taken(carried') /\ (pending' = None \/ pending' \in Ops)
    BY <1>1 DEF LinkTypes, Taken
<1>4. LinkTypes'
    BY <1>1, <1>2, <1>3 DEF LinkTypes, Taken
<1>5. BufTypes => BufTypes'
    BY <1>1 DEF BufTypes, BufInv, Raises
<1> QED
    BY <1>1, <1>2, <1>4, <1>5 DEF Sound

LEMMA FlowInit == Init => FlowInv
<1> SUFFICES ASSUME Init PROVE FlowInv
    OBVIOUS
<1>1. /\ requests = << >> /\ answers = << >> /\ buf = << >> /\ pending = None /\ carried = << >>
      /\ wire \in {<< >>, << Garbled >>} /\ left = MaxInterrupts
    BY DEF Init, DeviceInit
<1>2. << Garbled >> \in Seq(Frame) /\ Quiet(<< Garbled >>)
    <2>1. Garbled \in Frame /\ Garbled \in Noise
        BY DEF Frame, Noise
    <2> QED
        BY <2>1, OfOne
<1>3. left \in 0 .. MaxInterrupts
    BY <1>1, SniffAssumption
<1>4. wire \in Seq(Frame)
    BY <1>1, <1>2, Empty, Zenon
<1>5. LinkTypes /\ BufTypes /\ Carrying
    BY <1>1, <1>3, <1>4, Empty DEF LinkTypes, Taken, BufTypes, BufInv, Carrying
<1>6. OneAtMost
    BY <1>1, <1>2, Empty DEF OneAtMost, Nowhere
<1> QED
    BY <1>5, <1>6 DEF FlowInv, Sound

LEMMA FlowStep == StreamInv /\ FlowInv /\ [Next]_vars => FlowInv'
<1> SUFFICES ASSUME StreamInv, FlowInv, [Next]_vars PROVE FlowInv'
    OBVIOUS
<1>0. LinkTypes /\ Carrying /\ Sound
    BY DEF FlowInv
<1>1. CASE Stream!Intact /\ Thread /\ UNCHANGED << mainVars, requests >>
    BY <1>0, <1>1, ThreadFlow, CarryingHeld DEF FlowInv
<1>2. CASE Stream!Intact /\ (MainCompletion \/ MainCallback) /\ UNCHANGED << mainVars, requests >>
    BY <1>0, <1>2, CompletionFlow, MainCallbackFlow, CarryingHeld DEF FlowInv
<1>3. CASE Stream!Intact /\ InterruptCallback
    BY <1>0, <1>3, InterruptFlow, CarryingHeld DEF FlowInv
<1>4. CASE Main \/ Interrupt \/ MainDone \/ DeviceAnswer \/ DevicePacket \/ UNCHANGED vars
    <2>1. UNCHANGED << aside, status >>
        BY <1>4, OthersLeaveIt DEF streamVars, vars, hostVars
    <2>2. CASE MainDone \/ UNCHANGED vars
        <3>1. UNCHANGED << requests, wire, carried, buf, answers, pending, closed, left, clash >>
            BY <2>2 DEF MainDone, vars, hostVars, mainVars, commVars, bufVars, mainSide
        <3>2. LinkTypes' /\ Sound'
            BY <1>0, <3>1, SameFlow DEF places
        <3> QED
            BY <1>0, <2>1, <3>1, <3>2 DEF FlowInv, Carrying
    <2>3. CASE Main \/ Interrupt \/ DeviceAnswer \/ DevicePacket
        <3>1. LinkTypes' /\ Sound' /\ carried' \in {carried, << >>}
            BY <1>0, <2>3, MainFlow, DeviceFlow, InterruptFlow
        <3> QED
            BY <1>0, <2>1, <3>1 DEF FlowInv, Carrying
    <2> QED
        BY <1>4, <2>2, <2>3
<1> QED
    BY <1>1, <1>2, <1>3, <1>4, StepsAre

LEMMA FlowHolds == Spec => []FlowInv
    BY FlowInit, FlowStep, StreamInvHolds, PTL DEF Spec

\* As long as the user does not interrupt and no two callbacks have overlapped,
\* the assertion of __txn holds: the answer taken is that of the access that
\* waits, in whichever thread it arrives, whatever transfers fail, bring nothing
\* or are lost, however often the device is opened, with any number of transfers
\* and of frames under way, and whatever an earlier program left.
THEOREM AnswersFitUndisturbed == Spec => []AnswersMatchUndisturbed
<1>1. FlowInv => AnswersMatchUndisturbed
    <2> SUFFICES ASSUME FlowInv, left = MaxInterrupts, ~clash, pending # None, answers # << >>
                 PROVE  Head(answers) = pending
        BY DEF AnswersMatchUndisturbed, AnswersMatch, AnswerFits
    <2>1. answers = << pending >>
        BY DEF FlowInv, Sound, OneAtMost, Nowhere, Asked, OnWire, InHand, Buffered, Queued
    <2> QED
        BY <2>1
<1> QED
    BY <1>1, FlowHolds, PTL
-----------------------------------------------------------------------------
(* Types.                                                                  *)

HostTypes ==
    /\ thread \in {"none", "running", "ended"}
    /\ commTerm \in BOOLEAN /\ commExc \in BOOLEAN /\ clash \in BOOLEAN /\ writing \in BOOLEAN
    /\ closed \in BOOLEAN /\ faulted \in BOOLEAN /\ raising \in BOOLEAN
    /\ Len(wire) <= MaxWire
    /\ pc \in AccessSteps \cup OpenSteps \cup {"closeOut", "close", "join", "done", "ended"}

\* A frame taken off the wire leaves room there.
LEMMA WireFits ==
    ASSUME wire \in Seq(Frame), Len(wire) <= MaxWire, NEW data \in Loads,
           wire' = IF data = << >> THEN wire ELSE Tail(wire)
    PROVE  Len(wire') <= MaxWire
<1>1. wire' = wire \/ (wire # << >> /\ wire' = Tail(wire))
    BY LoadIs
<1>2. Len(wire) \in Nat /\ (wire # << >> => Len(Tail(wire)) = Len(wire) - 1)
    BY AtFront
<1> QED
    BY <1>1, <1>2, SniffAssumption

\* A step of the host that changes no place of the main thread.
LEMMA HostTypesStep ==
    ASSUME HostTypes, thread' \in {"none", "running", "ended"}, commTerm' \in BOOLEAN,
           commExc' \in BOOLEAN, clash' \in BOOLEAN, faulted' \in BOOLEAN, Len(wire') <= MaxWire,
           UNCHANGED << writing, closed, raising, pc >>
    PROVE  HostTypes'
    BY DEF HostTypes

LEMMA CallbackTypes ==
    ASSUME HostTypes, NEW data, NEW answer, Callback(data, answer)
    PROVE  commTerm' \in BOOLEAN /\ commExc' \in BOOLEAN
    BY CallbackTerm DEF HostTypes

LEMMA ThreadTypes ==
    ASSUME HostTypes, wire \in Seq(Frame), Thread, UNCHANGED << mainVars, requests >>
    PROVE  HostTypes'
<1>1. UNCHANGED << writing, closed, raising, pc >>
    BY DEF Thread, ThreadLoop, ThreadQuiet, ThreadTransfer, Transfer, ThreadReport, ThreadTurn,
           mainSide, mainVars
<1>2. CASE ThreadLoop
    <2>1. thread' \in {"running", "ended"} /\ UNCHANGED << commTerm, commExc, clash, faulted, wire >>
        BY <1>2 DEF ThreadLoop, bufVars
    <2> QED
        BY <1>1, <2>1 DEF HostTypes
<1>3. CASE ThreadQuiet
    <2>1. UNCHANGED << thread, commTerm, commExc, clash, wire >>
        BY <1>3 DEF ThreadQuiet, commVars, bufVars
    <2>2. faulted' \in BOOLEAN
        BY <1>3 DEF ThreadQuiet, HostTypes
    <2> QED
        BY <1>1, <2>1, <2>2 DEF HostTypes
<1>4. CASE ThreadTransfer
    <2>1. PICK t \in Stream!Xfers, outcome \in Stream!Outcomes, data \in Loads : Transfer(t, outcome, data)
        BY <1>4 DEF ThreadTransfer
    <2>2. /\ (\E answer : Callback(data, answer)) \/ UNCHANGED << commTerm, commExc >>
          /\ UNCHANGED << thread, clash >>
        BY <2>1 DEF Transfer
    <2>3. commTerm' \in BOOLEAN /\ commExc' \in BOOLEAN
        BY <2>2, CallbackTypes DEF HostTypes
    <2>4. faulted' \in BOOLEAN
        BY <2>1 DEF Transfer, HostTypes
    <2>5. Len(wire') <= MaxWire
        BY <2>1, WireFits DEF Transfer, HostTypes
    <2> QED
        BY <1>1, <2>2, <2>3, <2>4, <2>5, HostTypesStep DEF HostTypes
<1>5. CASE ThreadReport
    <2>1. /\ \E answer : Callback(<< >>, answer)
          /\ UNCHANGED << thread, clash, faulted, wire >>
        BY <1>5 DEF ThreadReport
    <2>2. commTerm' \in BOOLEAN /\ commExc' \in BOOLEAN
        BY <2>1, CallbackTypes
    <2> QED
        BY <1>1, <2>1, <2>2, HostTypesStep DEF HostTypes
<1>6. CASE \E elapsed, failed \in BOOLEAN : ThreadTurn(elapsed, failed)
    <2>1. PICK elapsed \in BOOLEAN, failed \in BOOLEAN : ThreadTurn(elapsed, failed)
        BY <1>6
    <2>2. /\ UNCHANGED << thread, commTerm, commExc, wire >>
          /\ clash' = (clash \/ Overlap) /\ faulted' = (faulted \/ failed)
        BY <2>1 DEF ThreadTurn
    <2>3. clash' \in BOOLEAN /\ faulted' \in BOOLEAN
        BY <2>2
    <2> QED
        BY <1>1, <2>2, <2>3, HostTypesStep DEF HostTypes
<1> QED
    BY <1>2, <1>3, <1>4, <1>5, <1>6 DEF Thread

LEMMA BesideTypes ==
    ASSUME HostTypes, wire \in Seq(Frame), UNCHANGED << raising, pc >>,
           MainCompletion \/ MainCallback \/ InterruptCallback
    PROVE  HostTypes'
<1>1. CASE MainCompletion
    <2>1. PICK t \in Stream!Xfers, outcome \in Stream!Outcomes, data \in Loads : MainTransfer(t, outcome, data)
        BY <1>1 DEF MainCompletion
    <2>2. UNCHANGED << thread, commTerm, commExc, clash, writing, closed >>
        BY <2>1 DEF MainTransfer, mainSide
    <2>3. faulted' \in BOOLEAN /\ Len(wire') <= MaxWire
        BY <2>1, WireFits DEF MainTransfer, HostTypes
    <2> QED
        BY <2>2, <2>3, HostTypesStep DEF HostTypes
<1>2. CASE MainDrops \/ MainQuiet \/ InterruptCallback
    <2>1. UNCHANGED << thread, commTerm, commExc, clash, wire, writing, closed >>
        BY <1>2 DEF MainDrops, MainQuiet, InterruptCallback, commVars, bufVars, mainSide
    <2>2. faulted' \in BOOLEAN
        BY <1>2 DEF MainDrops, MainQuiet, InterruptCallback, HostTypes
    <2> QED
        BY <2>1, <2>2, HostTypesStep DEF HostTypes
<1>3. CASE MainGives
    <2>1. /\ UNCHANGED << thread, commTerm, commExc, wire, writing, closed, faulted >>
          /\ clash' = (clash \/ Overlap)
        BY <1>3 DEF MainGives, mainSide
    <2>2. clash' \in BOOLEAN
        BY <2>1
    <2> QED
        BY <2>1, <2>2, HostTypesStep DEF HostTypes
<1>4. CASE MainReturns
    <2>1. /\ \E answer : Callback(carried, answer)
          /\ UNCHANGED << thread, clash, faulted, wire, writing, closed >>
        BY <1>4 DEF MainReturns, mainSide
    <2>2. commTerm' \in BOOLEAN /\ commExc' \in BOOLEAN
        BY <2>1, CallbackTypes
    <2> QED
        BY <2>1, <2>2, HostTypesStep DEF HostTypes
<1> QED
    BY <1>1, <1>2, <1>3, <1>4 DEF MainCallback

LEMMA OtherTypes ==
    ASSUME HostTypes, LinkTypes, Main \/ Interrupt \/ MainDone \/ DeviceAnswer \/ DevicePacket
    PROVE  HostTypes'
<1> USE DEF OpenSteps
<1>1. CASE MainOpen
    BY <1>1 DEF HostTypes, MainOpen, OpenStart, mainSide
<1>2. CASE MainOpened
    BY <1>2 DEF HostTypes, MainOpened, OpenEnd, bufVars, mainSide
<1>3. CASE MainFlush \/ MainWrite
    <2>1. faulted' \in BOOLEAN /\ writing' = TRUE
        BY <1>3 DEF MainFlush, MainWrite, HostTypes
    <2>2. UNCHANGED << thread, commTerm, commExc, clash, closed, raising, wire, pc >>
        BY <1>3 DEF MainFlush, MainWrite, commVars, bufVars, mainVars
    <2> QED
        BY <2>1, <2>2 DEF HostTypes
<1>4. CASE MainWritten
    <2>1. pc' \in {pc, "clk", "ended"} /\ "clk" \in AccessSteps
        BY <1>4 DEF MainWritten, AccessSteps, SetUpSteps
    <2> QED
        BY <1>4, <2>1 DEF HostTypes, MainWritten, Written, commVars, bufVars
<1>5. CASE MainReturn
    <2>1. pc' \in AccessSteps \cup {"close", "closeOut"}
        BY <1>5, PlacesAre DEF MainReturn
    <2>2. raising' \in BOOLEAN
        BY <1>5 DEF MainReturn, HostTypes
    <2>3. UNCHANGED << thread, commTerm, commExc, clash, closed, writing, faulted, wire >>
        BY <1>5 DEF MainReturn, Receive, bufVars
    <2> QED
        BY <2>1, <2>2, <2>3 DEF HostTypes
<1>6. CASE MainCloseOut
    BY <1>6 DEF HostTypes, MainCloseOut, commVars, bufVars
<1>7. CASE MainClose
    BY <1>7 DEF HostTypes, MainClose, CloseStart, SetTerm, bufVars, mainSide
<1>8. CASE MainJoin
    BY <1>8 DEF HostTypes, MainJoin, hostVars, commVars, bufVars, mainSide
<1>9. CASE Interrupt
    <2>1. pc' \in {"sinkOff", "close", "ended"} /\ "sinkOff" \in AccessSteps
        BY <1>9, UnwoundIs DEF Interrupt, AccessSteps, StopSteps
    <2> QED
        BY <1>9, <2>1 DEF HostTypes, Interrupt, commVars, bufVars
<1>10. CASE MainDone
    BY <1>10 DEF HostTypes, MainDone, vars, hostVars, commVars, bufVars, mainSide, mainVars
<1>11. CASE DeviceAnswer \/ DevicePacket
    <2>1. PICK f : wire' = Append(wire, f)
        BY <1>11 DEF DeviceAnswer, DevicePacket
    <2>2. Len(wire) < MaxWire
        BY <1>11 DEF DeviceAnswer, DevicePacket
    <2>3. Len(wire') = Len(wire) + 1 /\ Len(wire) \in Nat
        BY <2>1 DEF LinkTypes
    <2>4. Len(wire') <= MaxWire
        BY <2>2, <2>3, SniffAssumption
    <2>5. UNCHANGED << thread, commTerm, commExc, clash, writing, closed, faulted, raising, pc >>
        BY <1>11 DEF DeviceAnswer, DevicePacket, commVars, bufVars, mainSide, mainVars
    <2> QED
        BY <2>4, <2>5 DEF HostTypes
<1> QED
    BY <1>1, <1>2, <1>3, <1>4, <1>5, <1>6, <1>7, <1>8, <1>9, <1>10, <1>11 DEF Main

\* The types, with the bookkeeping of libusb: it has no transfer between two
\* calls of the stream, was asked to cancel only those it has, and a callback in
\* the main thread has data only during a write of that thread.
THEOREM TypeCorrect == Spec => []TypeOK
<1>1. Init => HostTypes
    <2> SUFFICES ASSUME Init PROVE HostTypes
        OBVIOUS
    <2>1. Len(wire) <= MaxWire
        <3>1. Len(<< >>) = 0 /\ Len(<< Garbled >>) = 1
            OBVIOUS
        <3>2. Len(wire) \in {0, 1}
            BY <3>1 DEF Init, DeviceInit
        <3> QED
            BY <3>2, SniffAssumption
    <2> QED
        BY <2>1 DEF Init, DeviceInit, HostTypes, OpenSteps
<1>2. FlowInv /\ HostTypes /\ [Next]_vars => HostTypes'
    <2> SUFFICES ASSUME FlowInv, HostTypes, [Next]_vars PROVE HostTypes'
        OBVIOUS
    <2>0. LinkTypes /\ wire \in Seq(Frame)
        BY DEF FlowInv, LinkTypes
    <2>1. CASE Thread /\ UNCHANGED << mainVars, requests >>
        BY <2>0, <2>1, ThreadTypes
    <2>2. CASE (MainCompletion \/ MainCallback) /\ UNCHANGED << mainVars, requests >>
        BY <2>0, <2>2, BesideTypes DEF mainVars
    <2>3. CASE InterruptCallback
        BY <2>0, <2>3, BesideTypes DEF InterruptCallback
    <2>4. CASE Main \/ Interrupt \/ MainDone \/ DeviceAnswer \/ DevicePacket
        BY <2>0, <2>4, OtherTypes
    <2>5. CASE UNCHANGED vars
        BY <2>5 DEF HostTypes, vars, hostVars, commVars, bufVars, mainSide, mainVars
    <2> QED
        BY <2>1, <2>2, <2>3, <2>4, <2>5, StepsAre
<1>3. StreamInv /\ HostInv /\ FlowInv /\ HostTypes => TypeOK
    <2> SUFFICES ASSUME StreamInv, HostInv, FlowInv, HostTypes PROVE TypeOK
        OBVIOUS
    <2>1. aside.t \in Stream!Xfers \cup {0} /\ aside.answer \in Results
        BY DEF StreamInv, StreamTypes, Stream!Nobody
    <2>2. Stream!StreamTypeOK
        BY <2>1 DEF StreamInv, StreamTypes, Owned, Stream!StreamTypeOK
    <2>3. pending = None \/ pending \in { Access(p) : p \in AccessSteps }
        BY DEF FlowInv, LinkTypes, Ops
    <2>4. carried # << >> => writing
        BY EmptyHand DEF HostInv, FlowInv
    <2>5. {commTerm, commExc, clash, writing, closed, faulted, raising} \subseteq BOOLEAN
        BY DEF HostTypes
    <2> QED
        BY <2>2, <2>3, <2>4, <2>5 DEF TypeOK, HostTypes, FlowInv, LinkTypes
<1> QED
    BY <1>1, <1>2, <1>3, StreamInvHolds, HostInvHolds, FlowHolds, PTL DEF Spec
=============================================================================
