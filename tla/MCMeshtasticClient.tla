-------------------------- MODULE MCMeshtasticClient --------------------------
(* Instances of MeshtasticClient for TLC. *)
EXTENDS MeshtasticClient, TLC

CONSTANTS j1, j2, k1

\* One packet only.
MCSingle == j1 :> k1

\* One packet, handed over twice: the second time is its repeat.
MCRepeated == j1 :> k1 @@ j2 :> k1

\* Nothing tells the two apart.
MCSymmetry == Permutations({j1, j2})
===============================================================================
