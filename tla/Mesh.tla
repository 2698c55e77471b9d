---------------------------------- MODULE Mesh ----------------------------------
(***************************************************************************)
(* Several nodes that run this code and hear each other by radio:          *)
(* pkg/meshtastic/channel.go and the handling of received packets in       *)
(* node.go, with the records of seen packets of meshtastic.go.             *)
(*                                                                         *)
(* A node is the set of copies it has still to send, its own and those it  *)
(* forwards, and the packets it has on record.  What goes on inside it, in *)
(* which order and when, is the subject of Node and MeshtasticClient.      *)
(*                                                                         *)
(* A copy is what the radio carries of a packet: the header fields that    *)
(* say which packet it is (the packet itself, here) and a byte of flags,   *)
(* as EncodePacket writes it and DecodePacket and retransmitPacket read it *)
(*     bits 0-2 hop limit, 3 want ack, 4 via mqtt, 5-7 hop start           *)
(***************************************************************************)
EXTENDS Integers, Sequences, FiniteSets

CONSTANTS
    Nodes,      \* their ids
    Near,       \* the nodes that hear each node
    Forwarders, \* those with retransmit.forward
    Channels,   \* the channels of each node: their hash and key, in order
    Packets,    \* packets of all nodes, each published once
    From, To,   \* their header fields
    Broadcast,  \* the id that is nobody's
    Over,       \* the channel each is encrypted for
    WantAck,    \* packets with these flags set: other firmware sets them,
    ViaMqtt,    \* this code never does
    HopStart,   \* hops a packet may go (7 in the code)
    Repeats,    \* how often a node repeats its own packets
    Published   \* bound: packets published in a behaviour

ASSUME MeshAssumption ==
    /\ Near \in [Nodes -> SUBSET Nodes]
    /\ Forwarders \subseteq Nodes
    /\ From \in [Packets -> Nodes]
    /\ To \in [Packets -> Nodes \cup {Broadcast}]
    /\ Broadcast \notin Nodes
    /\ HopStart \in 0 .. 7
    /\ Repeats \in Nat

VARIABLES
    published,  \* packets sent by an application so far
    toSend,     \* copies each node has still to send
    seen,       \* packets each node has on record
    given,      \* what each node's applications have been given
    lost        \* ghost: some transmission did not reach everybody near

vars == <<published, toSend, seen, given, lost>>

-------------------------------------------------------------------------------
(* The byte of flags *)

HopLimitOf(flags) == flags % 8
WantAckOf(flags) == (flags \div 8) % 2 = 1
ViaMqttOf(flags) == (flags \div 16) % 2 = 1
HopStartOf(flags) == flags \div 32

\* Slip: the hop start is put one bit too low.
FlagsSlip(p) == HopStart + 16 * HopStart

\* EncodePacket
Flags(p) ==
    HopStart + (IF p \in WantAck THEN 8 ELSE 0) + (IF p \in ViaMqtt THEN 16 ELSE 0)
        + 32 * HopStart

\* retransmitPacket, for a hop limit that is not zero.
NextHop(flags) == (flags - HopLimitOf(flags)) + (HopLimitOf(flags) - 1)

\* What the applications tell of the distance, in 32 bits without a sign: a
\* negative number stands for what it is modulo 2^32.
HopsOf(flags) == HopStartOf(flags) - HopLimitOf(flags)

\* A copy of p, the n-th its publisher sent, after a number of relays (ghosts).
Copy(p, n) == [of |-> p, flags |-> Flags(p), nth |-> n, relays |-> 0]

\* Slip: a packet that has no hop left is forwarded as it is.
RelayedSlip(c) ==
    {IF HopLimitOf(c.flags) = 0 THEN c
     ELSE [c EXCEPT !.flags = NextHop(@), !.relays = @ + 1]}

\* What a node forwards of a copy it has heard.
Relayed(c) ==
    IF HopLimitOf(c.flags) = 0 THEN {}
    ELSE {[of |-> c.of, flags |-> NextHop(c.flags), nth |-> c.nth, relays |-> c.relays + 1]}

-------------------------------------------------------------------------------
(* Channels *)

Matching(m, p) == {i \in DOMAIN Channels[m] : Channels[m][i].hash = Over[p].hash}
Right(m, p) == {i \in Matching(m, p) : Channels[m][i].key = Over[p].key}

\* The channels that may be the first on which DecodePacket succeeds.  With a
\* wrong key the bytes are noise, which may happen to be a message; 0 is none.
Decodes(m, p) ==
    {i \in Matching(m, p) : \A r \in Right(m, p) : i <= r}
        \cup IF Right(m, p) = {} THEN {0} ELSE {}

-------------------------------------------------------------------------------
Init ==
    /\ published = {}
    /\ toSend = [n \in Nodes |-> {}]
    /\ seen = [n \in Nodes |-> {}]
    /\ given = [n \in Nodes |-> {}]
    /\ lost = FALSE

\* SendApplicationMessage: the packet and its repeats are on their way.
Publish(p) ==
    /\ p \notin published /\ Cardinality(published) < Published
    /\ published' = published \cup {p}
    /\ toSend' = [toSend EXCEPT ![From[p]] = @ \cup {Copy(p, n) : n \in 0 .. Repeats}]
    /\ UNCHANGED <<seen, given, lost>>

\* Slip: what the node cannot decode is not forwarded.
ForwardsSlip(m, p, i) == m \in Forwarders /\ i # 0 /\ To[p] # m

\* The packet is not for this node, or on no channel of its.
Forwards(m, p, i) == m \in Forwarders /\ (i = 0 \/ To[p] # m)

Give(c, i) == [of |-> c.of, channel |-> i, hops |-> HopsOf(c.flags), relays |-> c.relays]

\* Node n sends copy c, and the nodes of "heard" hear it.  Sender and hearers
\* have it on record now.  Those that had ignore it; each other one decodes it
\* if it can, gives it to its applications, and forwards it.
Send(n, c, heard) ==
    LET p == c.of
        new == {m \in heard : p \notin seen[m]}
    IN
    /\ c \in toSend[n] /\ heard \subseteq Near[n]
    /\ lost' = (lost \/ heard # Near[n])
    /\ seen' = [m \in Nodes |-> seen[m] \cup IF m \in heard \cup {n} THEN {p} ELSE {}]
    /\ \E chosen \in [new -> UNION {Decodes(m, p) : m \in new}] :
        /\ \A m \in new : chosen[m] \in Decodes(m, p)
        /\ given' = [m \in Nodes |-> given[m] \cup
               IF m \in new /\ chosen[m] # 0 THEN {Give(c, chosen[m])} ELSE {}]
        /\ toSend' = [m \in Nodes |->
               (IF m = n THEN toSend[m] \ {c} ELSE toSend[m]) \cup
               IF m \in new /\ Forwards(m, p, chosen[m]) THEN Relayed(c) ELSE {}]
    /\ UNCHANGED published

\* forgetOldSeenPackets: after thirty seconds, whatever is still to be sent.
Forget(m, p) ==
    /\ p \in seen[m]
    /\ seen' = [seen EXCEPT ![m] = @ \ {p}]
    /\ UNCHANGED <<published, toSend, given, lost>>

SendSome(n) == \E c \in toSend[n], heard \in SUBSET Near[n] : Send(n, c, heard)

Next ==
    \/ \E p \in Packets : Publish(p)
    \/ \E n \in Nodes : SendSome(n)
    \/ \E m \in Nodes, p \in Packets : Forget(m, p)

Spec == Init /\ [][Next]_vars

\* Nodes send what they have to send (PacketsGetOut of Node and PacketLeaves of
\* MeshtasticClient), in whatever order.
FairSpec == Spec /\ WF_vars(\E n \in Nodes : SendSome(n))

-------------------------------------------------------------------------------
(* Properties *)

\* However many nodes a copy has passed, its header says how far it has come
\* and may go, and nothing else in the byte has changed (node.go:317-331,
\* channel.go:98-110).
FlagsRight ==
    \A n \in Nodes : \A c \in toSend[n] :
        /\ HopStartOf(c.flags) = HopStart
        /\ HopLimitOf(c.flags) + c.relays = HopStart
        /\ WantAckOf(c.flags) = (c.of \in WantAck)
        /\ ViaMqttOf(c.flags) = (c.of \in ViaMqtt)

\* Applications are told the true number of relays between the publisher and
\* this node; the difference does not wrap (app_text_message.go:106).
HopsTold == \A n \in Nodes : \A g \in given[n] : g.hops = g.relays

\* Both: what a node reads in a header is true (channel.go:68-111).
HeadersTrue == FlagsRight /\ HopsTold

\* A packet is not passed on for ever, although the nodes forget it: at some
\* time there is nothing left to send (node.go:317-338).
DiesOut == <>[]\A n \in Nodes : toSend[n] = {}

\* The node is meant, and its first channel with that hash has the key.
Meant(m, p) ==
    /\ m # From[p] /\ To[p] \in {m, Broadcast}
    /\ Right(m, p) # {} /\ \A i \in Matching(m, p) : \E r \in Right(m, p) : r <= i

\* If no transmission is lost, every node the packet is meant for gets it, on
\* the right channel, over nodes that do not know the channel as well: the
\* records and the hop limit do not stop it on the way (node.go:124-157,
\* meshtastic.go:267-282).
Reaches ==
    \A p \in Packets : \A m \in Nodes : Meant(m, p) =>
        (p \in published ~> lost \/ \E g \in given[m] : g.of = p /\ g.channel \in Right(m, p))
===============================================================================
