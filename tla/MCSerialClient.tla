---------------------------- MODULE MCSerialClient ----------------------------
(* Instances of SerialClient for TLC. *)
EXTENDS SerialClient

\* The shortest message, and one with both bytes that have a meaning of their
\* own on the line.
MCMessages == [type : {16}, payload : {<<>>, <<START, ESCAPE>>}]

MCNoisy == {START, ESCAPE, ESCAPE_ESCAPE, 0}
===============================================================================
