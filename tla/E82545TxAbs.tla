----------------------------- MODULE E82545TxAbs ------------------------------
(***************************************************************************)
(* What a transmitter promises to the driver: the frames handed over leave  *)
(* in order, each once; a reset may drop what has not left yet.             *)
(***************************************************************************)
EXTENDS Sequences

CONSTANTS Frames

VARIABLES
    queue,   \* frames handed over and not sent
    out      \* the frame sent last, until it is forgotten

vars == <<queue, out>>

Init == queue = <<>> /\ out = <<>>

HandOver(f) == queue' = Append(queue, f) /\ UNCHANGED out

Send == queue # <<>> /\ out' = <<Head(queue)>> /\ queue' = Tail(queue)

Forget == out' = <<>> /\ UNCHANGED queue

Drop == queue' = <<>> /\ out' = <<>>

Next == (\E f \in Frames : HandOver(f)) \/ Send \/ Forget \/ Drop

Spec == Init /\ [][Next]_vars
===============================================================================
