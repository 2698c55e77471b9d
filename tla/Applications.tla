------------------------------ MODULE Applications ------------------------------
(***************************************************************************)
(* The sending side of pkg/meshtastic/app_*.go: the applications of a      *)
(* node, each on a goroutine of its own (its event loop, or the callback   *)
(* of its NATS subscription), in SendApplicationMessage of node.go all at  *)
(* once, and there in GetNext of pkg/types/packet_id.go, which has no      *)
(* lock.                                                                   *)
(*                                                                         *)
(* What becomes of a packet on OutgoingPackets and of its repeats is the   *)
(* subject of Node; the client empties that channel, here.                 *)
(***************************************************************************)
EXTENDS Naturals, Sequences, FiniteSets

CONSTANTS
    Publishers, \* the applications that send something
    Configured, \* which of them the configuration may have
    Assignments,\* which channels it may assign to them: <application>.channel,
                \* or what a text message says
    Unmarshallable, \* those whose message proto.Marshal may refuse
    Channels,   \* the channels the node has
    GoodKeys,   \* those whose key AES accepts
    Numbers,    \* identifiers (32 bits in the code)
    Size,       \* places of the ring (16 in the code)
    Repeated,   \* retransmit.period is not empty
    JitterMs,   \* values of retransmit.jitter in milliseconds
    Millisecond, Word   \* 10^6 and 2^32

ASSUME ApplicationsAssumption ==
    /\ Publishers = {"text", "node_info", "telemetry", "position"}
    /\ Configured \subseteq SUBSET Publishers
    /\ Unmarshallable \subseteq Publishers \ {"text"}
    /\ GoodKeys \subseteq Channels
    /\ Size \in Nat \ {0}
    /\ Size < Cardinality(Numbers) /\ 0 \in Numbers
    /\ Repeated \in BOOLEAN /\ JitterMs \subseteq Nat

\* Those that publish again and again, from an event loop.
Periodic == Publishers \ {"text"}

VARIABLES
    running,    \* the applications of the node
    jitter,     \* retransmitJitterMs
    channelOf,  \* their channels
    at,         \* where each application is
    using,      \* the channel of its message
    stable,     \* ghost: places nobody has written to while it looks at them
    value,      \* v in GetNext
    place,      \* p.index, as GetNext has read it
    alone,      \* ghost: no other call of GetNext overlaps with its own
    prev,       \* p.prev
    index,      \* p.index
    recent,     \* ghost: what was put into the ring last, the newest in front
    crashed     \* a panic has ended the process

config == <<running, jitter, channelOf>>
ring == <<prev, index, recent>>
locals == <<using, stable, value, place, alone>>
vars == <<config, at, locals, ring, crashed>>

Places == 0 .. Size - 1
InGetNext == {"scan", "load", "store", "reload", "advance"}
Inside(a) == at[a] \in InGetNext

Init ==
    /\ running \in Configured /\ jitter \in JitterMs /\ channelOf \in Assignments
    /\ at = [a \in Publishers |-> "wait"]
    /\ using = [a \in Publishers |-> CHOOSE c \in Channels : TRUE]
    /\ stable = [a \in Publishers |-> {}]
    /\ value = [a \in Publishers |-> 0]
    /\ place = [a \in Publishers |-> 0]
    /\ alone = [a \in Publishers |-> TRUE]
    /\ prev = [i \in Places |-> 0]
    /\ index = 0
    /\ recent = <<>>
    /\ crashed = FALSE

\* The call that put recent[i] into the ring has not returned.
Unfinished(i) ==
    /\ at[recent[i].by] \in {"reload", "advance"}
    /\ \A j \in 1 .. i - 1 : recent[j].by # recent[i].by

Goto(a, there) == at' = [at EXCEPT ![a] = there]

-------------------------------------------------------------------------------
(* SendApplicationMessage, and those who call it                           *)

\* It looks for the channel (GetChannel) and begins GetNext.  Without the
\* channel nothing is sent, and no application cares.
SendApplicationMessage(a, channel) ==
    /\ at[a] = "wait"
    /\ using' = [using EXCEPT ![a] = channel]
    /\ IF channel \in Channels
       THEN /\ Goto(a, "scan")
            /\ stable' = [stable EXCEPT ![a] = Places]
            /\ alone' = [b \in Publishers |->
                   IF b = a THEN \A o \in Publishers : ~Inside(o) ELSE alone[b] /\ ~Inside(b)]
            /\ recent' = [i \in DOMAIN recent |->
                   [recent[i] EXCEPT !.alone = @ /\ ~Unfinished(i)]]
       ELSE /\ Goto(a, "again")
            /\ UNCHANGED <<stable, alone, recent>>
    /\ UNCHANGED <<value, place, prev, index, config, crashed>>

\* The message cannot be marshalled: the application returns without posting the
\* next publication, and has published for the last time.
MarshalFails(a) ==
    /\ a \in Unmarshallable /\ at[a] = "wait"
    /\ Goto(a, "ended")
    /\ UNCHANGED <<locals, ring, config, crashed>>

\* The position asks for the channel of node_info.
ChannelUsed(a) == channelOf[IF a = "position" THEN "node_info" ELSE a]

\* A text has come from NATS.
SendText == SendApplicationMessage("text", ChannelUsed("text"))

\* A period is over, three times.
PublishNodeInfo ==
    \/ MarshalFails("node_info")
    \/ SendApplicationMessage("node_info", ChannelUsed("node_info"))

PublishDeviceMetrics ==
    \/ MarshalFails("telemetry")
    \/ SendApplicationMessage("telemetry", ChannelUsed("telemetry"))

PublishNodePosition ==
    \/ MarshalFails("position")
    \/ "node_info" \in running /\ SendApplicationMessage("position", ChannelUsed("position"))

\* The section node_info may be missing from the configuration: a null pointer.
PublishNodePositionPanics ==
    /\ at["position"] = "wait" /\ "node_info" \notin running
    /\ crashed' = TRUE
    /\ UNCHANGED <<at, locals, ring, config>>

Publish(a) ==
    \/ a = "text" /\ SendText
    \/ a = "node_info" /\ PublishNodeInfo
    \/ a = "telemetry" /\ PublishDeviceMetrics
    \/ a = "position" /\ (PublishNodePosition \/ PublishNodePositionPanics)

\* Slip: after an error the application does not post itself again.
AgainSlip(a) ==
    /\ at[a] = "again" /\ using[a] \in GoodKeys
    /\ Goto(a, "wait")
    /\ UNCHANGED <<locals, ring, config, crashed>>

\* The next time is posted to the event loop, or the callback returns.
Again(a) ==
    /\ at[a] = "again"
    /\ Goto(a, "wait")
    /\ UNCHANGED <<locals, ring, config, crashed>>

-------------------------------------------------------------------------------
(* GetNext *)

\* Slip: a number is compared with the one it will replace.
ScanSlip(a) ==
    /\ at[a] = "scan"
    /\ \E v \in Numbers \ {prev[i] : i \in stable[a] \cap {index}} : value' = [value EXCEPT ![a] = v]
    /\ stable' = [stable EXCEPT ![a] = {}]
    /\ Goto(a, "load")
    /\ UNCHANGED <<using, place, alone, ring, config, crashed>>

\* A number has been drawn that was found at no place.  A place that was
\* written to meanwhile may have been looked at before or after.
Scan(a) ==
    /\ at[a] = "scan"
    /\ \E v \in Numbers \ {prev[i] : i \in stable[a]} : value' = [value EXCEPT ![a] = v]
    /\ stable' = [stable EXCEPT ![a] = {}]
    /\ Goto(a, "load")
    /\ UNCHANGED <<using, place, alone, ring, config, crashed>>

Load(a) ==
    /\ at[a] = "load"
    /\ place' = [place EXCEPT ![a] = index]
    /\ Goto(a, "store")
    /\ UNCHANGED <<using, stable, value, alone, ring, config, crashed>>

\* It goes into the ring.
Store(a) ==
    /\ at[a] = "store"
    /\ prev' = [prev EXCEPT ![place[a]] = value[a]]
    /\ stable' = [b \in Publishers |-> stable[b] \ {place[a]}]
    /\ LET first == [id |-> value[a], by |-> a, alone |-> alone[a]] IN
       recent' = <<first>> \o SubSeq(recent, 1, IF Len(recent) > Size THEN Size ELSE Len(recent))
    /\ value' = [value EXCEPT ![a] = 0]
    /\ \E there \in {"reload", "advance"} : Goto(a, there)
    /\ UNCHANGED <<using, place, alone, index, config, crashed>>

\* The build may read the index again or use what it has read before.
Reload(a) ==
    /\ at[a] = "reload"
    /\ place' = [place EXCEPT ![a] = index]
    /\ Goto(a, "advance")
    /\ UNCHANGED <<using, stable, value, alone, ring, config, crashed>>

\* The index moves on, and EncodePacket fails if the key is no good.
Advance(a) ==
    /\ at[a] = "advance"
    /\ index' = (place[a] + 1) % Size
    /\ place' = [place EXCEPT ![a] = 0]
    /\ Goto(a, IF using[a] \in GoodKeys THEN "push" ELSE "again")
    /\ UNCHANGED <<using, stable, value, alone, prev, recent, config, crashed>>

-------------------------------------------------------------------------------
(* The rest of SendApplicationMessage *)

\* The jitter in nanoseconds, an unsigned word.
JitterSpan == [ms \in JitterMs |-> (ms * Millisecond) % Word]

\* rand.Uint32N panics when it is given 0.
JitterPanics == Repeated /\ JitterSpan[jitter] = 0

\* The packet goes out and its repeats are posted.
Push(a) ==
    /\ at[a] = "push" /\ ~JitterPanics
    /\ Goto(a, "again")
    /\ UNCHANGED <<locals, ring, config, crashed>>

PushPanics(a) ==
    /\ at[a] = "push" /\ JitterPanics
    /\ crashed' = TRUE
    /\ UNCHANGED <<at, locals, ring, config>>

Send(a) ==
    \/ Scan(a) \/ Load(a) \/ Store(a) \/ Reload(a) \/ Advance(a)
    \/ Push(a) \/ PushPanics(a) \/ Again(a)

Step(a) == ~crashed /\ a \in running /\ (Publish(a) \/ Send(a))

Next == \E a \in running : Step(a)

Spec == Init /\ [][Next]_vars

\* The event loops run and their timers expire.  A NATS callback need not go on: a
\* text that is being sent holds nobody up.
FairSpec == Spec /\ \A a \in Periodic : WF_vars(Step(a))

-------------------------------------------------------------------------------
(* Properties *)

\* What the ring has been given, with who did.
Handed == [id : Numbers, by : Publishers, alone : BOOLEAN]

\* Type invariant.  However the calls of GetNext overlap, the index and what a
\* call has read of it are places of the ring, so that none of them panics.
TypeOK ==
    /\ running \in Configured /\ jitter \in JitterMs /\ channelOf \in Assignments
    /\ at \in [Publishers -> InGetNext \cup {"wait", "push", "again", "ended"}]
    /\ stable \in [Publishers -> SUBSET Places]
    /\ value \in [Publishers -> Numbers]
    /\ place \in [Publishers -> Places]
    /\ alone \in [Publishers -> BOOLEAN]
    /\ prev \in [Places -> Numbers]
    /\ index \in Places
    /\ recent \in Seq(Handed) /\ Len(recent) <= Size + 1
    /\ crashed \in BOOLEAN

\* Receivers drop a packet that has the identifier of another one they have on
\* record.  Of the identifiers that went into the ring last, one more than it
\* has places, two are equal only if a call of GetNext for one of them
\* overlapped with another call: earlier overlaps, though they lose places
\* and set the index back, do no harm to later calls (packet_id.go:20-34).
RecentIdsDiffer ==
    \A i, j \in DOMAIN recent :
        i # j /\ recent[i].alone /\ recent[j].alone => recent[i].id # recent[j].id

\* The configurations that lead to a panic: repeats with a jitter that comes out as
\* zero, and a position without node_info.
Unsound == JitterPanics \/ ("position" \in running /\ "node_info" \notin running)

\* It publishes again and again, and gets as far as the radio if the node has its
\* channel and can encrypt for it.
Publishes(a) ==
    /\ []<>(at[a] = "wait") /\ []<>(at[a] = "again")
    /\ ChannelUsed(a) \in GoodKeys => []<>(at[a] = "push")

\* Every application publishes for ever: an error of SendApplicationMessage does
\* not end that, whether the node lacks the channel or AES refuses its key, nor do
\* the errors and the calls of others.  Two things do: a message that cannot be
\* marshalled, which ends the chain of that application, and a panic, which ends
\* the process, and that in the two unsound configurations only (node.go:231-284,
\* app_node_info.go:141-156, app_telemetry.go:159-180, app_position.go:136-157).
KeepsPublishing ==
    /\ [](crashed => Unsound)
    /\ \A a \in Periodic :
          a \in running => Publishes(a) \/ <>(at[a] = "ended") \/ <>crashed
===============================================================================
