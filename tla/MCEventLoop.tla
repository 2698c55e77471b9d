------------------------------ MODULE MCEventLoop ------------------------------
(* Instances of EventLoop for TLC. *)
EXTENDS EventLoop, TLC

CONSTANTS e1, e2, e3

\* One event may be due at once.  The others are due at time 1: in the future
\* while the clock is at 0, due when it has moved on.
MCDueTimes == e1 :> {0, 1} @@ e2 :> {1} @@ e3 :> {1}
===============================================================================
