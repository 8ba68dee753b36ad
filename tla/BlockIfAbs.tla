------------------------------ MODULE BlockIfAbs ------------------------------
(***************************************************************************)
(* What the block interface promises to a device emulation: requests are   *)
(* served one at a time, in the order in which they were submitted; one     *)
(* that is still waiting can be cancelled.                                  *)
(***************************************************************************)
EXTENDS SequencesExt

CONSTANTS Requests   \* what can be submitted

VARIABLES
    queue,    \* submitted, not yet started
    serving   \* the request being served: a sequence of length at most 1

vars == <<queue, serving>>

Init == queue = <<>> /\ serving = <<>>

Submit(r) == queue' = Append(queue, r) /\ UNCHANGED serving

Cancel(i) ==
    /\ serving = <<>>
    /\ queue' = RemoveAt(queue, i)
    /\ UNCHANGED serving

Start ==
    /\ serving = <<>> /\ queue # <<>>
    /\ serving' = <<Head(queue)>>
    /\ queue' = Tail(queue)

Finish == serving # <<>> /\ serving' = <<>> /\ UNCHANGED queue

Next ==
    \/ \E r \in Requests : Submit(r)
    \/ \E i \in DOMAIN queue : Cancel(i)
    \/ Start
    \/ Finish

Spec == Init /\ [][Next]_vars
===============================================================================
