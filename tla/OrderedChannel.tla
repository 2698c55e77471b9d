---------------------------- MODULE OrderedChannel ----------------------------
(***************************************************************************)
(* What pkg/client promises about the frames the device sends: they reach  *)
(* the reader of Recv one by one, in the order in which they were sent,    *)
(* none twice, and none is missing but those in Droppable.  The channel    *)
(* may break, when the client is closed or can read no more: then what has *)
(* got through is a prefix of what was sent, without gaps.                 *)
(***************************************************************************)
EXTENDS Naturals, Sequences, SequencesExt

CONSTANTS
    Messages,   \* everything that may be sent
    Droppable   \* those of them that may vanish on the way

VARIABLES
    queue,  \* sent and not yet read
    whole   \* the channel has not broken

vars == <<queue, whole>>

Init == queue = <<>> /\ whole = TRUE

Send ==
    /\ whole
    /\ \E m \in Messages : queue' = Append(queue, m)
    /\ UNCHANGED whole

Receive == queue # <<>> /\ queue' = Tail(queue) /\ UNCHANGED whole

Vanish ==
    /\ \E i \in DOMAIN queue : queue[i] \in Droppable /\ queue' = RemoveAt(queue, i)
    /\ UNCHANGED whole

Break ==
    /\ whole /\ whole' = FALSE
    /\ \E n \in 0 .. Len(queue) : queue' = SubSeq(queue, 1, n)

Next == Send \/ Receive \/ Vanish \/ Break

Spec == Init /\ [][Next]_vars
===============================================================================
