----------------------------- MODULE DelayedTasks -----------------------------
(***************************************************************************)
(* What pkg/event_loop promises: a task posted with a due time is kept     *)
(* until it is run, it is run once, and never before its due time.         *)
(***************************************************************************)
EXTENDS Naturals

CONSTANT Tasks

VARIABLES
    time,
    due,        \* the due time of each task posted
    waiting,    \* posted and not run
    ran         \* run

vars == <<time, due, waiting, ran>>

Init == time = 0 /\ due \in [Tasks -> Nat] /\ waiting = {} /\ ran = {}

Post(t) ==
    /\ t \notin waiting \cup ran
    /\ due'[t] \in Nat
    /\ due' = [due EXCEPT ![t] = due'[t]]
    /\ waiting' = waiting \cup {t}
    /\ UNCHANGED <<time, ran>>

Run(t) ==
    /\ t \in waiting
    /\ due[t] < time
    /\ waiting' = waiting \ {t}
    /\ ran' = ran \cup {t}
    /\ UNCHANGED <<time, due>>

Advance == time' > time /\ UNCHANGED <<due, waiting, ran>>

Next == Advance \/ \E t \in Tasks : Post(t) \/ Run(t)

Spec == Init /\ [][Next]_vars
===============================================================================
