------------------------------- MODULE CsrPort --------------------------------
(* What a register access promises to the program that makes it: between the *)
(* call and the return it takes effect once and at one instant, and returns  *)
(* what was read.                                                            *)
CONSTANTS Ops,     \* accesses: records with fields wr, a, d
          None
VARIABLES regs,    \* the registers
          call,    \* "none", "called" or "done"
          op,      \* the access called last
          result,  \* what it found, until it is returned
          ret      \* what the last access returned

Init == call = "none" /\ result = None /\ op = None /\ ret = None

Invoke ==
    /\ call = "none" /\ call' = "called"
    /\ op' \in Ops
    /\ UNCHANGED << regs, result, ret >>

Perform ==
    /\ call = "called" /\ call' = "done"
    /\ regs' = IF op.wr THEN [regs EXCEPT ![op.a] = op.d] ELSE regs
    /\ result' = IF op.wr THEN op.d ELSE regs[op.a]
    /\ UNCHANGED << op, ret >>

Return ==
    /\ call = "done" /\ call' = "none"
    /\ ret' = result
    /\ result' = None
    /\ UNCHANGED << regs, op >>

Spec == Init /\ [][Invoke \/ Perform \/ Return]_<< regs, call, op, result, ret >>
=============================================================================
