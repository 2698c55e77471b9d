----------------------------- MODULE MCNtfyService -----------------------------
(* Instances of NtfyService for TLC. *)
EXTENDS NtfyService, TLC

CONSTANTS c1, c2, c3, t1, t2, m1, m2, r1, r2

MCTopicOf == c1 :> t1 @@ c2 :> t2

\* The second text comes on a channel that has no topic.
MCTextChannel == m1 :> c1 @@ m2 :> c3

\* Two replies on one topic.
MCTypedOn == r1 :> t1 @@ r2 :> t1
===============================================================================
