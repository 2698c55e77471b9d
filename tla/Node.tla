--------------------------------- MODULE Node ---------------------------------
(***************************************************************************)
(* pkg/meshtastic/node.go and cmd/ws-node/main.go: the node around the     *)
(* radio, from Start to the end of the process.                            *)
(*                                                                         *)
(* The main goroutine starts and stops everything.  Three goroutines empty *)
(* the client's channels.  What is received for others is forwarded by     *)
(* callbacks of the node's event loop, which also repeats our own packets. *)
(* The applications publish from event loops of their own, and the text    *)
(* application from a callback of its NATS subscription.                   *)
(*                                                                         *)
(* The client is RadioLoop.  An event loop is taken for what it promises   *)
(* (DelayedTasks), and time is left out: a task may be due at any moment.  *)
(***************************************************************************)
EXTENDS Naturals, Sequences, FiniteSets

CONSTANTS
    Ids,        \* packets on the air, each received once
    Hops,       \* the hop limits they may arrive with
    Own,        \* packets published by this node, each once
    Texts,      \* those of them that the text application sends
    Repeats,    \* how often a published packet is repeated (retransmit.period)
    Forward,    \* retransmit.forward
    ContinuousRssi,
    ChanCap,
    None

MaxHop == 7

\* What is received; "ours" if it is addressed to this node on a channel that
\* the node can decode.
Heard == [id : Ids, hop : Hops, ours : BOOLEAN]

\* What goes onto OutgoingPackets.  The hop limit is three bits of a byte of
\* flags, and the node writes that byte.
Packets == [of : Own \cup Ids, hop : 0 .. 255, copy : 0 .. Repeats]

ASSUME NodeAssumption ==
    /\ Hops \subseteq 0 .. MaxHop
    /\ Texts \subseteq Own
    /\ Ids \cap Own = {}
    /\ Repeats \in Nat
    /\ Forward \in BOOLEAN
    /\ ChanCap \in Nat \ {0}
    /\ ContinuousRssi \in BOOLEAN
    /\ None \notin Heard \cup Packets

VARIABLES
    main,       \* the main goroutine: where it is in Start and Stop
    reader,     \* the goroutines that empty the client's channels
    tasks,      \* callbacks posted to the node's event loop
    el,         \* the event loop: waiting, pushing a packet, or gone
    app,        \* what publishes each packet of our own
    told,       \* applications whose Stop has been called
    heard,      \* ghost: what the client has received
    handed      \* ghost: packets pushed onto OutgoingPackets by the node

VARIABLES loop, hand, outgoing, incoming, reports, retries, cancelled

Radio == INSTANCE RadioLoop WITH Received <- Heard, NoPacket <- None

nodeVars == <<main, reader, tasks, el, app, told, heard, handed>>
radioVars == <<loop, hand, outgoing, incoming, reports, retries, cancelled>>
vars == <<nodeVars, radioVars>>

Apps == Own \ Texts
Readers == {"incoming", "rssi", "log"}
Tasks == [do : {"forward"}, of : Heard] \cup [do : {"send"}, packet : Packets]

Copies(p) == {[of |-> p, hop |-> MaxHop, copy |-> n] : n \in 0 .. Repeats}
SendTask(packet) == [do |-> "send", packet |-> packet]
ForwardTask(h) == [do |-> "forward", of |-> h]

\* Type invariant: the threads of the process, its tasks and what they have handed over
TypeOK ==
    /\ Radio!TypeOK
    /\ main \in {"new", "opened", "up", "apps", "readers", "client", "exited"}
    /\ reader \in [Readers -> {"none", "run", "exited"}]
    /\ tasks \subseteq Tasks
    /\ el \in [at : {"none", "wait", "exited"}, packet : {None}]
                  \cup [at : {"push"}, packet : Packets]
    /\ app \in [Own -> {"wait", "push", "post", "sent", "exited"}]
    /\ told \subseteq Apps
    /\ heard \subseteq Heard
    /\ handed \subseteq Packets

Init ==
    /\ Radio!Init
    /\ main = "new"
    /\ reader = [r \in Readers |-> "none"]
    /\ tasks = {}
    /\ el = [at |-> "none", packet |-> None]
    /\ app = [p \in Own |-> "wait"]
    /\ told = {}
    /\ heard = {}
    /\ handed = {}

-------------------------------------------------------------------------------
(* Start *)

\* The client is opened, or the program ends.
StartOpen ==
    /\ main = "new"
    /\ main' \in {"opened", "exited"}
    /\ UNCHANGED <<reader, tasks, el, app, told, heard, handed, radioVars>>

\* NATS is connected and the goroutines are started; or the program ends, with
\* the client left open.
StartConnect ==
    /\ main = "opened"
    /\ \/ /\ main' = "up"
          /\ reader' = [r \in Readers |-> "run"]
          /\ el' = [at |-> "wait", packet |-> None]
       \/ /\ main' = "exited"
          /\ UNCHANGED <<reader, el>>
    /\ UNCHANGED <<tasks, app, told, heard, handed, radioVars>>

-------------------------------------------------------------------------------
(* The radio; the process is there. *)

Alive == main \notin {"new", "exited"}

RadioHear ==
    /\ Alive
    /\ Radio!Hear
    /\ IF loop' = "incoming"
       THEN /\ \A h \in heard : h.id # hand'.id
            /\ heard' = heard \cup {hand'}
       ELSE heard' = heard
    /\ UNCHANGED <<main, reader, tasks, el, app, told, handed>>

RadioTake == Alive /\ Radio!Take /\ UNCHANGED nodeVars
RadioBreak == Alive /\ Radio!Break /\ UNCHANGED nodeVars
RadioOther == Alive /\ (Radio!Answer \/ Radio!Push \/ Radio!End) /\ UNCHANGED nodeVars

RadioLoopStep == RadioHear \/ RadioTake \/ RadioBreak \/ RadioOther

RadioRetry ==
    /\ Alive
    /\ \E p \in retries : Radio!Retry(p)
    /\ UNCHANGED nodeVars

-------------------------------------------------------------------------------
(* The readers of the client's channels *)

\* A packet that no channel decodes is unknown, and then it is taken for a
\* packet to others whatever its address.
Forwardable(h) == Forward /\ ~h.ours

ReadIncoming ==
    /\ reader["incoming"] = "run"
    /\ Radio!ReadIncoming
    /\ tasks' = IF Forwardable(Head(incoming))
                THEN tasks \cup {ForwardTask(Head(incoming))} ELSE tasks
    /\ UNCHANGED <<main, reader, el, app, told, heard, handed>>

ReaderOf(c) == IF c \in {"errors", "warnings"} THEN "log" ELSE c

ReadReport ==
    /\ \E c \in Radio!Reports : reader[ReaderOf(c)] = "run" /\ Radio!ReadReport(c)
    /\ UNCHANGED nodeVars

\* Slip: the context is cancelled before the applications are stopped.
ReaderExitSlip(r) ==
    /\ main \in {"apps", "readers", "client"} /\ reader[r] = "run"
    /\ reader' = [reader EXCEPT ![r] = "exited"]
    /\ UNCHANGED <<main, tasks, el, app, told, heard, handed, radioVars>>

\* Stop has cancelled the context the readers look at.
ReaderExit(r) ==
    /\ main \in {"readers", "client"} /\ reader[r] = "run"
    /\ reader' = [reader EXCEPT ![r] = "exited"]
    /\ UNCHANGED <<main, tasks, el, app, told, heard, handed, radioVars>>

-------------------------------------------------------------------------------
(* The callbacks *)

\* Slip: the hop limit is a byte and may be zero.
RetransmitPacketSlip(h) ==
    /\ el.at = "wait" /\ ForwardTask(h) \in tasks
    /\ tasks' = (tasks \ {ForwardTask(h)}) \cup
           {SendTask([of |-> h.id, hop |-> (h.hop + 255) % 256, copy |-> 0])}
    /\ UNCHANGED <<main, reader, el, app, told, heard, handed, radioVars>>

\* Slip: a packet with one hop left is dropped.
RetransmitPacketEarly(h) ==
    /\ el.at = "wait" /\ ForwardTask(h) \in tasks
    /\ tasks' = (tasks \ {ForwardTask(h)}) \cup
           IF h.hop <= 1 THEN {}
           ELSE {SendTask([of |-> h.id, hop |-> h.hop - 1, copy |-> 0])}
    /\ UNCHANGED <<main, reader, el, app, told, heard, handed, radioVars>>

\* retransmitPacket: the hop limit falls, and at zero the packet is dropped.
RetransmitPacket(h) ==
    /\ el.at = "wait" /\ ForwardTask(h) \in tasks
    /\ tasks' = (tasks \ {ForwardTask(h)}) \cup
           IF h.hop = 0 THEN {}
           ELSE {SendTask([of |-> h.id, hop |-> h.hop - 1, copy |-> 0])}
    /\ UNCHANGED <<main, reader, el, app, told, heard, handed, radioVars>>

\* The packets of callbacks that only send one.
Scheduled == {t.packet : t \in {u \in tasks : u.do = "send"}}

SendBegin(packet) ==
    /\ el.at = "wait" /\ SendTask(packet) \in tasks
    /\ tasks' = tasks \ {SendTask(packet)}
    /\ el' = [at |-> "push", packet |-> packet]
    /\ UNCHANGED <<main, reader, app, told, heard, handed, radioVars>>

SendEnd ==
    /\ el.at = "push"
    /\ Radio!Send(el.packet)
    /\ handed' = handed \cup {el.packet}
    /\ el' = [at |-> "wait", packet |-> None]
    /\ UNCHANGED <<main, reader, tasks, app, told, heard>>

\* The event loop has been told to quit.
LoopExit ==
    /\ main \in {"readers", "client"} /\ el.at = "wait"
    /\ el' = [at |-> "exited", packet |-> None]
    /\ UNCHANGED <<main, reader, tasks, app, told, heard, handed, radioVars>>

RunTask(t) ==
    \/ \E h \in Heard : t = ForwardTask(h) /\ RetransmitPacket(h)
    \/ \E packet \in Scheduled : t = SendTask(packet) /\ SendBegin(packet)

-------------------------------------------------------------------------------
(* SendApplicationMessage, called by what publishes p *)

Publish(p) ==
    /\ main \notin {"new", "opened", "exited"} /\ app[p] = "wait"
    /\ app' = [app EXCEPT ![p] = "push"]
    /\ UNCHANGED <<main, reader, tasks, el, told, heard, handed, radioVars>>

First(p) == [of |-> p, hop |-> MaxHop, copy |-> 0]

PublishPush(p) ==
    /\ Alive /\ app[p] = "push"
    /\ Radio!Send(First(p))
    /\ handed' = handed \cup {First(p)}
    /\ app' = [app EXCEPT ![p] = "post"]
    /\ UNCHANGED <<main, reader, tasks, el, told, heard>>

\* Slip: one repeat too many.
PublishRepeatsSlip(p) ==
    /\ Alive /\ app[p] = "post"
    /\ tasks' = tasks \cup {SendTask(packet) : packet \in Copies(p)}
    /\ app' = [app EXCEPT ![p] = "sent"]
    /\ UNCHANGED <<main, reader, el, told, heard, handed, radioVars>>

PublishRepeats(p) ==
    /\ Alive /\ app[p] = "post"
    /\ tasks' = tasks \cup {SendTask(packet) : packet \in Copies(p) \ {First(p)}}
    /\ app' = [app EXCEPT ![p] = "sent"]
    /\ UNCHANGED <<main, reader, el, told, heard, handed, radioVars>>

\* An application between two publications quits when it is told to.
AppExit(p) ==
    /\ p \in told /\ app[p] \in {"wait", "sent"}
    /\ app' = [app EXCEPT ![p] = "exited"]
    /\ UNCHANGED <<main, reader, tasks, el, told, heard, handed, radioVars>>

-------------------------------------------------------------------------------
(* Stop *)

Signal ==
    /\ main = "up"
    /\ main' = "apps"
    /\ UNCHANGED <<reader, tasks, el, app, told, heard, handed, radioVars>>

\* The applications are stopped one after the other: each is told to quit and
\* waited for.  The text application has nothing to stop.
StopApp(p) ==
    /\ main = "apps" /\ p \in Apps \ told
    /\ \A q \in told : app[q] = "exited"
    /\ told' = told \cup {p}
    /\ UNCHANGED <<main, reader, tasks, el, app, heard, handed, radioVars>>

StopReaders ==
    /\ main = "apps" /\ told = Apps
    /\ \A q \in told : app[q] = "exited"
    /\ main' = "readers"
    /\ UNCHANGED <<reader, tasks, el, app, told, heard, handed, radioVars>>

\* Everything that was waited for is gone: the client is closed.
StopClient ==
    /\ main = "readers"
    /\ el.at = "exited" /\ \A r \in Readers : reader[r] = "exited"
    /\ main' = "client"
    /\ Radio!Cancel
    /\ UNCHANGED <<reader, tasks, el, app, told, heard, handed>>

Exit ==
    /\ main = "client" /\ loop = "done"
    /\ main' = "exited"
    /\ UNCHANGED <<reader, tasks, el, app, told, heard, handed, radioVars>>

Start == StartOpen \/ StartConnect
Stop == (\E p \in Apps : StopApp(p)) \/ StopReaders \/ StopClient \/ Exit
Read == ReadIncoming \/ ReadReport
Publishing(p) == PublishPush(p) \/ PublishRepeats(p)
Quit == (\E r \in Readers : ReaderExit(r)) \/ LoopExit \/ \E p \in Own : AppExit(p)

Next ==
    \/ Start \/ Signal \/ Stop \/ Quit
    \/ RadioLoopStep \/ RadioRetry
    \/ Read
    \/ (\E t \in tasks : RunTask(t)) \/ SendEnd
    \/ \E p \in Own : Publish(p) \/ Publishing(p)

Spec == Init /\ [][Next]_vars

-------------------------------------------------------------------------------
(* Safety *)

\* Packets on their way out, and where.
InClient ==
    {outgoing[i] : i \in 1 .. Len(outgoing)} \cup ({hand} \ (Heard \cup {None})) \cup retries
OnTheWay == Scheduled \cup ({el.packet} \ {None}) \cup InClient

\* What goes out for somebody else was received, is not for us, and has one
\* hop less to go than when it arrived (node.go:141-154, 317-338): a packet
\* that the nodes pass on among themselves dies out.
ForwardsAreRight ==
    \A packet \in OnTheWay : packet.of \in Ids =>
        \E h \in heard : h.id = packet.of /\ Forwardable(h) /\ packet.hop + 1 = h.hop

\* Nothing is handed to the client twice, and nothing is scheduled that has
\* been handed over (node.go:148-155, 262-281, 335-337).
HandedOnce ==
    /\ Scheduled \cap handed = {}
    /\ InClient \subseteq handed
    /\ \A h \in heard : ForwardTask(h) \in tasks =>
           \A packet \in OnTheWay \cup handed : packet.of # h.id

-------------------------------------------------------------------------------
(* Liveness *)

\* Every goroutine runs, nats.Connect ends, a due callback is run, and a
\* channel with several senders takes one in turn.  The select of the client
\* passes over neither a packet to send nor its cancellation forever.
Fairness ==
    /\ WF_vars(Start \/ Stop) /\ WF_vars(Quit)
    /\ WF_vars(RadioOther)
    /\ SF_vars(RadioTake) /\ SF_vars(RadioBreak)
    /\ WF_vars(ReadIncoming) /\ WF_vars(ReadReport)
    /\ WF_vars(\E t \in tasks : RunTask(t))
    /\ SF_vars(SendEnd \/ \E p \in Own : Publishing(p))

FairSpec == Spec /\ Fairness

Down == main \notin {"opened", "up"}

ToForward(i) == \E h \in heard : h.id = i /\ Forwardable(h) /\ h.hop > 0

\* While the node is up, every packet to be forwarded is handed to the client
\* again, and so is every publication with all its repeats: readers, callbacks,
\* applications and radio never wait for each other in a circle
\* (node.go:125-185, 231-284, 317-338).
PacketsGetOut ==
    /\ \A i \in Ids : ToForward(i) ~> Down \/ \E packet \in handed : packet.of = i
    /\ \A p \in Own : app[p] = "push" ~> Down \/ Copies(p) \subseteq handed

\* The loop of the client is blocked on a channel that has no reader any more.
Stuck ==
    \/ loop = "incoming" /\ Len(incoming) = ChanCap /\ reader["incoming"] = "exited"
    \/ loop \in Radio!Reports /\ reports[loop] = ChanCap /\ reader[ReaderOf(loop)] = "exited"

\* Stop gets past the applications, since the client and its readers go on while it
\* waits for one that is publishing; and it returns, unless the client is stuck.
\* Nothing else keeps it (node.go:204-219).
StopReturns ==
    /\ main = "apps" ~> main # "apps"
    /\ main = "apps" ~> main = "exited" \/ Stuck

\* On a signal the radio is turned off (main.go:86-90).
RadioTurnedOff == main = "apps" ~> loop = "done"
===============================================================================
