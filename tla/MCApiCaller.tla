------------------------------ MODULE MCApiCaller ------------------------------
(* Instances of ApiCaller for TLC. *)
EXTENDS ApiCaller, TLC

CONSTANTS j1, k1

MCKeyOf == j1 :> k1
===============================================================================
