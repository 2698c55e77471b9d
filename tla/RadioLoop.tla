------------------------------- MODULE RadioLoop -------------------------------
(***************************************************************************)
(* What the node sees of pkg/meshtastic/meshtastic.go: a loop that takes   *)
(* packets from OutgoingPackets and pushes what it has to tell onto        *)
(* channels of bounded capacity.  An exchange with the device is one state *)
(* here ("busy"), and a retry goroutine is a packet that will come back.   *)
(*                                                                         *)
(* MeshtasticClient implements this specification; Node is composed with   *)
(* it in place of the client.                                              *)
(***************************************************************************)
EXTENDS Naturals, Sequences

CONSTANTS
    Packets,        \* what may be handed over to be sent
    Received,       \* what may be received
    NoPacket,
    ContinuousRssi, \* whether the radio reports RSSI by itself
    ChanCap         \* capacity of every channel (10 in the code)

VARIABLES
    loop,       \* "select", "busy", the channel it is pushing onto, ...
    hand,       \* the packet it is working on
    outgoing,   \* OutgoingPackets
    incoming,   \* IncomingPackets
    reports,    \* how much each of the other channels holds
    retries,    \* packets a retry goroutine will push onto outgoing again
    cancelled   \* Close has been called

vars == <<loop, hand, outgoing, incoming, reports, retries, cancelled>>

Reports == {"rssi", "errors", "warnings"}
Channels == {"incoming"} \cup Reports

\* Types of the loop and of the channels the node shares with it
TypeOK ==
    /\ loop \in {"select", "busy", "ending", "done"} \cup Channels
    /\ hand \in Packets \cup Received \cup {NoPacket}
    /\ outgoing \in Seq(Packets) /\ Len(outgoing) <= ChanCap
    /\ incoming \in Seq(Received) /\ Len(incoming) <= ChanCap
    /\ reports \in [Reports -> 0 .. ChanCap]
    /\ retries \subseteq Packets
    /\ cancelled \in BOOLEAN

Init ==
    /\ loop = "select"
    /\ hand = NoPacket
    /\ outgoing = <<>>
    /\ incoming = <<>>
    /\ reports = [c \in Reports |-> 0]
    /\ retries = {}
    /\ cancelled = FALSE

-------------------------------------------------------------------------------
(* The loop *)

\* A packet to send: the exchange begins.
Take ==
    /\ loop = "select" /\ outgoing # <<>>
    /\ outgoing' = Tail(outgoing)
    /\ loop' = "busy"
    /\ hand' = Head(outgoing)
    /\ UNCHANGED <<incoming, reports, retries, cancelled>>

\* A message from the device: a new packet, or something else.
Hear ==
    /\ loop = "select"
    /\ \/ loop' = "incoming" /\ hand' \in Received
       \/ /\ loop' \in {"busy"} \cup (IF ContinuousRssi THEN {"rssi"} ELSE {})
          /\ hand' = NoPacket
    /\ UNCHANGED <<outgoing, incoming, reports, retries, cancelled>>

\* The exchange ends well, or badly, or with the packet to be sent again.
Answer ==
    /\ loop = "busy"
    /\ \/ loop' \in {"select", "errors"} /\ hand' = NoPacket
       \/ loop' = "warnings" /\ hand \in Packets /\ hand' = hand
    /\ UNCHANGED <<outgoing, incoming, reports, retries, cancelled>>

PushIncoming ==
    /\ loop = "incoming" /\ Len(incoming) < ChanCap
    /\ incoming' = Append(incoming, hand)
    /\ hand' = NoPacket
    /\ loop' = "busy"
    /\ UNCHANGED <<outgoing, reports, retries, cancelled>>

PushReport(c) ==
    /\ loop = c /\ reports[c] < ChanCap
    /\ reports' = [reports EXCEPT ![c] = @ + 1]
    /\ retries' = IF c = "warnings" THEN retries \cup {hand} ELSE retries
    /\ hand' = NoPacket
    /\ loop' = "select"
    /\ UNCHANGED <<outgoing, incoming, cancelled>>

Push == PushIncoming \/ \E c \in Reports : PushReport(c)

Retry(p) ==
    /\ p \in retries
    /\ retries' = retries \ {p}
    /\ \/ Len(outgoing) < ChanCap /\ outgoing' = Append(outgoing, p)
       \/ cancelled /\ outgoing' = outgoing
    /\ UNCHANGED <<loop, hand, incoming, reports, cancelled>>

Break ==
    /\ loop = "select" /\ cancelled
    /\ loop' = "ending"
    /\ UNCHANGED <<hand, outgoing, incoming, reports, retries, cancelled>>

End ==
    /\ loop = "ending"
    /\ loop' = "done"
    /\ UNCHANGED <<hand, outgoing, incoming, reports, retries, cancelled>>

LoopStep == Take \/ Hear \/ Answer \/ Push \/ Break \/ End

-------------------------------------------------------------------------------
(* The node *)

Send(p) ==
    /\ Len(outgoing) < ChanCap
    /\ outgoing' = Append(outgoing, p)
    /\ UNCHANGED <<loop, hand, incoming, reports, retries, cancelled>>

ReadIncoming ==
    /\ incoming # <<>>
    /\ incoming' = Tail(incoming)
    /\ UNCHANGED <<loop, hand, outgoing, reports, retries, cancelled>>

ReadReport(c) ==
    /\ reports[c] > 0
    /\ reports' = [reports EXCEPT ![c] = @ - 1]
    /\ UNCHANGED <<loop, hand, outgoing, incoming, retries, cancelled>>

Cancel ==
    /\ ~cancelled
    /\ cancelled' = TRUE
    /\ UNCHANGED <<loop, hand, outgoing, incoming, reports, retries>>

Next ==
    \/ LoopStep
    \/ \E p \in Packets : Retry(p) \/ Send(p)
    \/ ReadIncoming
    \/ \E c \in Reports : ReadReport(c)
    \/ Cancel

Spec == Init /\ [][Next]_vars
===============================================================================
