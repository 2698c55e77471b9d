------------------------------ MODULE MCRadioInit ------------------------------
(* Instances of RadioInit for TLC. *)
EXTENDS RadioInit, TLC

CONSTANT k1

\* No packet of our own: Open sends none.
MCNoJobs == [j \in {} |-> k1]
===============================================================================
