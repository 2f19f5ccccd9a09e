------------------------------ MODULE WordFifo ------------------------------
(***************************************************************************)
(* What the SDRAM buffer promises to capture and host: words come out as   *)
(* they went in, in order, each once and none lost. In one clock a word    *)
(* may go in, a word may come out, or both.                                *)
(***************************************************************************)
EXTENDS Sequences

CONSTANT Word
VARIABLE queue

Init == queue = << >>

Push == \E w \in Word : queue' = Append(queue, w)

Pop == queue # << >> /\ queue' = Tail(queue)

PushPop == queue # << >> /\ \E w \in Word : queue' = Append(Tail(queue), w)

Next == Push \/ Pop \/ PushPop

Spec == Init /\ [][Next]_queue
=============================================================================
