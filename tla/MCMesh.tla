--------------------------------- MODULE MCMesh ---------------------------------
(* Instances of Mesh for TLC. *)
EXTENDS Mesh, TLC

CONSTANTS a, b, c, d, p1, p2

\* A ring of four: two ways from each node to the opposite one.
MCNear == a :> {b, d} @@ b :> {a, c} @@ c :> {b, d} @@ d :> {c, a}

\* Nodes b and d do not have the channel that is used; b has one of the same hash.
Public == [hash |-> 8, key |-> 1]
Private == [hash |-> 8, key |-> 2]
MCChannels == a :> <<Public>> @@ b :> <<Private>> @@ c :> <<Public>> @@ d :> <<>>

\* A broadcast, and a packet for one node from a node of another make.
MCFrom == p1 :> a @@ p2 :> a
MCTo == p1 :> Broadcast @@ p2 :> c
MCOver == p1 :> Public @@ p2 :> Public
===============================================================================
