------------------------------ MODULE ReplyBridge ------------------------------
(***************************************************************************)
(* runReplyBridge and streamReplies of cmd/ws-ntfy/main.go: for each       *)
(* channel a goroutine that listens on a topic of the ntfy server and      *)
(* publishes what is typed there for the node to send on the channel.      *)
(*                                                                         *)
(* The server and NATS are external.  The server delivers what is posted   *)
(* on a topic to those connected at that moment, in order.  Events that    *)
(* are no messages, and lines that are no events, are left out: the        *)
(* goroutine skips them.                                                   *)
(***************************************************************************)
EXTENDS Naturals, Sequences

CONSTANTS
    Channels,
    Topics,
    TopicOf,        \* the topic of each channel (topicByChannel)
    Messages,       \* the texts that may be posted
    BackoffLimit    \* no more doubling from here on (30 s in the code)

ASSUME BridgeAssumption ==
    /\ TopicOf \in [Channels -> Topics]
    /\ BackoffLimit \in Nat \ {0}

VARIABLES
    stream,     \* where the goroutine of each channel is
    backoff,    \* its pause before it connects again
    conn,       \* what the server has sent it and it has not read
    toMesh      \* what has been published for the node to send

bridgeVars == <<stream, backoff, conn, toMesh>>

\* A message on a topic; what this program posts carries its tag.
Events == [text : Messages, tagged : BOOLEAN]
Outgoing == [channel : Channels, text : Messages]

\* Types of the goroutines and of what they read and publish; the pause has
\* been doubled at most once from below its limit
BridgeTypeOK ==
    /\ stream \in [Channels -> {"off", "connect", "open", "sleep"}]
    /\ backoff \in [Channels -> 1 .. 2 * BackoffLimit]
    /\ conn \in [Channels -> Seq(Events)]
    /\ toMesh \in Seq(Outgoing)

BridgeInit ==
    /\ stream = [c \in Channels |-> "off"]
    /\ backoff = [c \in Channels |-> 1]
    /\ conn = [c \in Channels |-> <<>>]
    /\ toMesh = <<>>

BridgeStart ==
    /\ stream' = [c \in Channels |-> "connect"]
    /\ backoff' = [c \in Channels |-> 1]
    /\ UNCHANGED <<conn, toMesh>>

BridgeEnd ==
    /\ stream' = [c \in Channels |-> "off"]
    /\ conn' = [c \in Channels |-> <<>>]
    /\ UNCHANGED <<backoff, toMesh>>

Connect(c) ==
    /\ stream[c] = "connect"
    /\ stream' = [stream EXCEPT ![c] = "open"]
    /\ UNCHANGED <<backoff, conn, toMesh>>

\* Slip: the goroutine returns when the stream ends.
BreakSlip(c) ==
    /\ stream[c] \in {"connect", "open"}
    /\ stream' = [stream EXCEPT ![c] = "off"]
    /\ conn' = [conn EXCEPT ![c] = <<>>]
    /\ UNCHANGED <<backoff, toMesh>>

\* The request fails, or the stream ends, cleanly or not; what was not read is
\* gone.
Break(c) ==
    /\ stream[c] \in {"connect", "open"}
    /\ stream' = [stream EXCEPT ![c] = "sleep"]
    /\ conn' = [conn EXCEPT ![c] = <<>>]
    /\ UNCHANGED <<backoff, toMesh>>

\* The pause gets longer, up to a limit, and never shorter again.
Wake(c) ==
    /\ stream[c] = "sleep"
    /\ stream' = [stream EXCEPT ![c] = "connect"]
    /\ backoff' = [backoff EXCEPT ![c] = IF @ < BackoffLimit THEN 2 * @ ELSE @]
    /\ UNCHANGED <<conn, toMesh>>

\* A message is published unless this program has posted it; publishing may
\* fail, and then the message is dropped.
Scan(c) ==
    /\ stream[c] = "open" /\ conn[c] # <<>>
    /\ conn' = [conn EXCEPT ![c] = Tail(@)]
    /\ \/ /\ ~Head(conn[c]).tagged
          /\ toMesh' = Append(toMesh, [channel |-> c, text |-> Head(conn[c]).text])
       \/ UNCHANGED toMesh
    /\ UNCHANGED <<stream, backoff>>

\* The server: what is posted on a topic goes to all who are connected to it.
Post(topic, event) ==
    /\ conn' = [c \in Channels |->
                    IF stream[c] = "open" /\ TopicOf[c] = topic
                    THEN Append(conn[c], event) ELSE conn[c]]
    /\ UNCHANGED <<stream, backoff, toMesh>>
===============================================================================
