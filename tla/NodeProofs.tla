------------------------------- MODULE NodeProofs -------------------------------
(***************************************************************************)
(* Theorems about Node, for every set of packets, capacity and number of   *)
(* repeats.                                                                *)
(***************************************************************************)
EXTENDS Node, TLAPS

-------------------------------------------------------------------------------
(* The radio *)

\* What the node knows of the packet in the client's hand.
HandOK ==
    /\ loop = "warnings" => hand \in Packets
    /\ loop = "incoming" => hand \in Heard

RadioInv == Radio!TypeOK /\ HandOK

InQueue == {outgoing[i] : i \in 1 .. Len(outgoing)}
Unread == {incoming[i] : i \in 1 .. Len(incoming)}

\* Packets of the node that the client has, and packets that have been received
\* and not yet read.
Client == InQueue \cup ({hand} \cap Packets) \cup retries
Waiting == Unread \cup (IF loop = "incoming" THEN {hand} ELSE {})

\* No received packet waits twice.
WaitOnce ==
    /\ \A i, j \in 1 .. Len(incoming) : incoming[i] = incoming[j] => i = j
    /\ loop = "incoming" => hand \notin Unread

\* What an Append and a Tail do to the elements of a queue
LEMMA QueueFacts ==
    ASSUME NEW S, NEW q \in Seq(S), NEW x \in S
    PROVE  /\ {Append(q, x)[i] : i \in 1 .. Len(Append(q, x))}
                  = {q[i] : i \in 1 .. Len(q)} \cup {x}
           /\ q # <<>> =>
                /\ Head(q) \in S /\ Tail(q) \in Seq(S) /\ Len(Tail(q)) = Len(q) - 1
                /\ Head(q) \in {q[i] : i \in 1 .. Len(q)}
                /\ {Tail(q)[i] : i \in 1 .. Len(Tail(q))} \subseteq {q[i] : i \in 1 .. Len(q)}
<1>1. {Append(q, x)[i] : i \in 1 .. Len(Append(q, x))} = {q[i] : i \in 1 .. Len(q)} \cup {x}
  <2>1. Len(Append(q, x)) = Len(q) + 1 /\ Append(q, x)[Len(q) + 1] = x
    OBVIOUS
  <2>2. \A i \in 1 .. Len(q) : Append(q, x)[i] = q[i]
    OBVIOUS
  <2>3. \A i : i \in 1 .. Len(q) + 1 <=> i \in 1 .. Len(q) \/ i = Len(q) + 1
    OBVIOUS
  <2>4. QED
    BY <2>1, <2>2, <2>3
<1>2. ASSUME q # <<>>
      PROVE  /\ Head(q) \in S /\ Tail(q) \in Seq(S) /\ Len(Tail(q)) = Len(q) - 1
             /\ Head(q) \in {q[i] : i \in 1 .. Len(q)}
             /\ {Tail(q)[i] : i \in 1 .. Len(Tail(q))} \subseteq {q[i] : i \in 1 .. Len(q)}
  <2>1. Len(q) \in Nat \ {0} /\ Head(q) = q[1] /\ Len(Tail(q)) = Len(q) - 1
    BY <1>2
  <2>2. \A i \in 1 .. Len(Tail(q)) : Tail(q)[i] = q[i + 1] /\ i + 1 \in 1 .. Len(q)
    BY <1>2, <2>1
  <2>3. Tail(q) \in Seq(S) /\ Head(q) \in S
    BY <1>2
  <2>4. 1 \in 1 .. Len(q)
    BY <2>1
  <2>5. QED
    BY <2>1, <2>2, <2>3, <2>4
<1>3. QED
  BY <1>1, <1>2

\* Everything the radio and its users do keeps the types of the radio.
LEMMA RadioTypes ==
    ASSUME RadioInv, [Radio!Next]_radioVars
    PROVE  RadioInv'
<1> USE NodeAssumption DEF RadioInv, HandOK, Radio!TypeOK, Radio!Channels, Radio!Reports
<1>1. CASE Radio!Take
  <2>1. outgoing' \in Seq(Packets) /\ Len(outgoing') <= ChanCap /\ Head(outgoing) \in Packets
    BY <1>1, QueueFacts DEF Radio!Take
  <2>2. QED
    BY <1>1, <2>1 DEF Radio!Take
<1>2. CASE Radio!Hear
  BY <1>2 DEF Radio!Hear
<1>3. CASE Radio!Answer
  BY <1>3 DEF Radio!Answer
<1>4. CASE Radio!Push
  <2>1. CASE Radio!PushIncoming
    <3>1. incoming' \in Seq(Heard) /\ Len(incoming') <= ChanCap
      BY <2>1 DEF Radio!PushIncoming
    <3>2. QED
      BY <2>1, <3>1 DEF Radio!PushIncoming
  <2>2. CASE \E c \in Radio!Reports : Radio!PushReport(c)
    BY <2>2 DEF Radio!PushReport
  <2>3. QED
    BY <1>4, <2>1, <2>2 DEF Radio!Push
<1>5. CASE Radio!Break \/ Radio!End
  BY <1>5 DEF Radio!Break, Radio!End
<1>6. ASSUME NEW p \in Packets, Radio!Retry(p) \/ Radio!Send(p) PROVE RadioInv'
  <2>1. outgoing' \in Seq(Packets) /\ Len(outgoing') <= ChanCap
    <3>1. outgoing' = outgoing \/ (Len(outgoing) < ChanCap /\ outgoing' = Append(outgoing, p))
      BY <1>6 DEF Radio!Retry, Radio!Send
    <3>2. outgoing \in Seq(Packets) /\ Len(outgoing) <= ChanCap /\ ChanCap \in Nat
      OBVIOUS
    <3>3. Append(outgoing, p) \in Seq(Packets) /\ Len(Append(outgoing, p)) = Len(outgoing) + 1
      BY <1>6, <3>2
    <3>4. Len(outgoing) \in Nat
      BY <3>2
    <3> HIDE DEF Radio!TypeOK, RadioInv, HandOK
    <3>5. QED
      BY <3>1, <3>2, <3>3, <3>4
  <2>2. retries' \subseteq Packets /\ UNCHANGED <<loop, hand, incoming, reports, cancelled>>
    BY <1>6 DEF Radio!Retry, Radio!Send
  <2>3. QED
    BY <2>1, <2>2
<1>7. CASE Radio!ReadIncoming
  <2>1. incoming' \in Seq(Heard) /\ Len(incoming') <= ChanCap
    <3>1. PICK x \in Heard : x = Head(incoming)
      BY <1>7 DEF Radio!ReadIncoming
    <3>2. QED
      BY <1>7, <3>1, QueueFacts DEF Radio!ReadIncoming
  <2>2. QED
    BY <1>7, <2>1 DEF Radio!ReadIncoming
<1>8. CASE \E c \in Radio!Reports : Radio!ReadReport(c)
  BY <1>8 DEF Radio!ReadReport
<1>9. CASE Radio!Cancel
  BY <1>9 DEF Radio!Cancel
<1>10. CASE UNCHANGED radioVars
  BY <1>10 DEF radioVars
<1>11. QED
  BY <1>1, <1>2, <1>3, <1>4, <1>5, <1>6, <1>7, <1>8, <1>9, <1>10
     DEF Radio!Next, Radio!LoopStep, Radio!vars

\* What is received and what is sent are told apart, also from nothing.
LEMMA PacketsDiffer == Heard \cap Packets = {} /\ None \notin Heard \cup Packets
<1>1. ASSUME NEW h \in Heard, h \in Packets PROVE FALSE
  <2>1. DOMAIN h = {"id", "hop", "ours"}
    BY <1>1 DEF Heard
  <2>2. DOMAIN h = {"of", "hop", "copy"}
    BY <1>1 DEF Packets
  <2>3. QED
    BY <2>1, <2>2
<1>2. QED
  BY <1>1, NodeAssumption

\* The loop and the retry goroutines pass the node's packets around, and no
\* received packet comes to wait but the one that is heard.
LEMMA RadioKeeps ==
    ASSUME RadioInv, WaitOnce,
           \/ Radio!Take \/ Radio!Answer \/ Radio!Push \/ Radio!Break \/ Radio!End
           \/ \E p \in retries : Radio!Retry(p)
           \/ \E c \in Radio!Reports : Radio!ReadReport(c)
           \/ Radio!Cancel
    PROVE  Client' \subseteq Client /\ Waiting' \subseteq Waiting /\ WaitOnce'
<1> USE DEF Client, Waiting, InQueue, Unread
<1> USE NodeAssumption
<1>1. CASE Radio!Take
  <2>1. Head(outgoing) \in InQueue /\ InQueue' \subseteq InQueue
    BY <1>1, QueueFacts DEF Radio!Take, RadioInv, Radio!TypeOK
  <2>2. hand' \in {Head(outgoing), None} /\ UNCHANGED <<incoming, retries>> /\ loop' # "incoming"
    BY <1>1 DEF Radio!Take
  <2>3. QED
    BY <1>1, <2>1, <2>2, PacketsDiffer DEF Radio!Take, WaitOnce
<1>2. CASE Radio!Answer
  BY <1>2, PacketsDiffer DEF Radio!Answer, WaitOnce
<1>3. CASE Radio!PushIncoming
  <2>1. hand \in Heard /\ incoming \in Seq(Heard)
    BY <1>3 DEF Radio!PushIncoming, RadioInv, HandOK, Radio!TypeOK
  <2>2. Unread' = Unread \cup {hand}
    BY <1>3, <2>1, QueueFacts DEF Radio!PushIncoming
  <2>3. \A i, j \in 1 .. Len(incoming') : incoming'[i] = incoming'[j] => i = j
    <3>1. Len(incoming') = Len(incoming) + 1 /\ incoming'[Len(incoming) + 1] = hand
      BY <1>3, <2>1 DEF Radio!PushIncoming
    <3>2. \A i \in 1 .. Len(incoming) : incoming'[i] = incoming[i] /\ incoming[i] # hand
      BY <1>3, <2>1 DEF Radio!PushIncoming, WaitOnce
    <3>3. \A i, j \in 1 .. Len(incoming) : incoming[i] = incoming[j] => i = j
      BY DEF WaitOnce
    <3>4. Len(incoming) \in Nat
      BY <2>1
    <3>5. QED
      BY <3>1, <3>2, <3>3, <3>4
  <2>4. hand' = None /\ loop = "incoming" /\ loop' = "busy" /\ UNCHANGED <<outgoing, retries>>
    BY <1>3 DEF Radio!PushIncoming
  <2>5. QED
    BY <2>2, <2>3, <2>4, PacketsDiffer DEF WaitOnce
<1>4. ASSUME NEW c \in Radio!Reports, Radio!PushReport(c)
      PROVE  Client' \subseteq Client /\ Waiting' \subseteq Waiting /\ WaitOnce'
  <2>1. retries' \subseteq Client
    BY <1>4 DEF Radio!PushReport, RadioInv, HandOK
  <2>2. QED
    BY <1>4, <2>1, PacketsDiffer DEF Radio!PushReport, WaitOnce
<1>5. CASE Radio!Break \/ Radio!End
  BY <1>5 DEF Radio!Break, Radio!End, WaitOnce
<1>6. ASSUME NEW p \in retries, Radio!Retry(p)
      PROVE  Client' \subseteq Client /\ Waiting' \subseteq Waiting /\ WaitOnce'
  <2>1. InQueue' \subseteq InQueue \cup {p}
    BY <1>6, QueueFacts DEF Radio!Retry, RadioInv, Radio!TypeOK
  <2>2. QED
    BY <1>6, <2>1 DEF Radio!Retry, WaitOnce
<1>7. CASE (\E c \in Radio!Reports : Radio!ReadReport(c)) \/ Radio!Cancel
  BY <1>7 DEF Radio!ReadReport, Radio!Cancel, WaitOnce
<1>8. QED
  BY <1>1, <1>2, <1>3, <1>4, <1>5, <1>6, <1>7 DEF Radio!Push

\* A packet is heard: it is the only new one that waits.
LEMMA RadioHears ==
    ASSUME RadioInv, WaitOnce, Radio!Hear, loop' = "incoming" => hand' \notin Waiting
    PROVE  /\ Client' \subseteq Client /\ WaitOnce'
           /\ Waiting' \subseteq Waiting \cup (IF loop' = "incoming" THEN {hand'} ELSE {})
BY PacketsDiffer DEF Radio!Hear, Client, Waiting, InQueue, Unread, WaitOnce

\* The node hands a packet over.
LEMMA RadioTakesOver ==
    ASSUME RadioInv, WaitOnce, NEW p \in Packets, Radio!Send(p)
    PROVE  Client' \subseteq Client \cup {p} /\ Waiting' = Waiting /\ WaitOnce'
<1>1. InQueue' = InQueue \cup {p}
  BY QueueFacts DEF Radio!Send, InQueue, RadioInv, Radio!TypeOK
<1>2. QED
  BY <1>1 DEF Radio!Send, Client, Waiting, Unread, WaitOnce

\* The node takes a received packet, which waits no more.
LEMMA RadioGives ==
    ASSUME RadioInv, WaitOnce, Radio!ReadIncoming
    PROVE  /\ Client' = Client /\ WaitOnce'
           /\ Head(incoming) \in Waiting /\ Waiting' \subseteq Waiting \ {Head(incoming)}
<1>1. incoming \in Seq(Heard) /\ incoming # <<>> /\ incoming' = Tail(incoming)
  BY DEF Radio!ReadIncoming, RadioInv, Radio!TypeOK
<1>2. UNCHANGED <<loop, hand, outgoing, retries>>
  BY DEF Radio!ReadIncoming
<1>3. /\ Len(incoming) \in Nat \ {0} /\ Head(incoming) = incoming[1]
      /\ Len(incoming') = Len(incoming) - 1
      /\ \A i \in 1 .. Len(incoming') :
             incoming'[i] = incoming[i + 1] /\ i + 1 \in 2 .. Len(incoming)
  BY <1>1
<1>4. 1 \in 1 .. Len(incoming)
  BY <1>3
<1>5. \A i \in 1 .. Len(incoming') : incoming'[i] \in Unread /\ incoming'[i] # Head(incoming)
  BY <1>3, <1>4 DEF WaitOnce, Unread
<1>6. Head(incoming) \in Unread
  BY <1>3, <1>4 DEF Unread
<1>7. Unread' \subseteq Unread \ {Head(incoming)}
  BY <1>5 DEF Unread
<1>8. \A i, j \in 1 .. Len(incoming') : incoming'[i] = incoming'[j] => i = j
  BY <1>3 DEF WaitOnce
<1>9. QED
  BY <1>2, <1>6, <1>7, <1>8 DEF Client, Waiting, InQueue, WaitOnce

-------------------------------------------------------------------------------
(* The packets of the node *)

\* What callbacks will hand over, and what has been handed over.
Due == Scheduled \cup (IF el.at = "push" THEN {el.packet} ELSE {})
Made == Due \cup handed

\* A packet goes out for somebody else if that is right.
Rightful(packet) ==
    packet.of \in Ids =>
        \E h \in heard : h.id = packet.of /\ Forwardable(h) /\ packet.hop + 1 = h.hop

\* Every forward is of a packet heard, from its reading on, ...
ForwardsInv ==
    /\ Waiting \subseteq heard
    /\ \A h \in Heard : ForwardTask(h) \in tasks => h \in heard /\ Forwardable(h)
    /\ \A packet \in Made : Rightful(packet)

\* ... which was heard once and of which there is nothing else yet.
OnceInv ==
    /\ WaitOnce
    /\ \A g, h \in heard : g.id = h.id => g = h
    /\ \A h \in Waiting : ForwardTask(h) \notin tasks /\ \A packet \in Made : packet.of # h.id
    /\ \A h \in heard : ForwardTask(h) \in tasks => \A packet \in Made : packet.of # h.id

\* Before its first copy is handed over there is nothing of a publication, and
\* before the repeats are posted nothing else.
PublishInv ==
    /\ \A p \in Own : app[p] \in {"wait", "push"} => \A packet \in Made : packet.of # p
    /\ \A p \in Own : app[p] = "post" =>
          \A packet \in Made : packet.of = p => packet = First(p) /\ packet \notin Due

\* What is due has not been handed over, and a callback that runs is not posted.
HandedInv ==
    /\ Due \cap handed = {}
    /\ el.at = "push" => SendTask(el.packet) \notin tasks
    /\ Client \subseteq handed

NodeInv == TypeOK /\ HandOK /\ ForwardsInv /\ OnceInv /\ PublishInv /\ HandedInv

\* Tasks of the two kinds are told apart, and the packets due are those of the
\* tasks that send.
LEMMA TaskFacts ==
    ASSUME NEW T \in SUBSET Tasks
    PROVE  /\ {t.packet : t \in {u \in T : u.do = "send"}} = {x \in Packets : SendTask(x) \in T}
           /\ \A x, h : SendTask(x) # ForwardTask(h)
           /\ \A x, y : SendTask(x) = SendTask(y) => x = y
           /\ \A g, h : ForwardTask(g) = ForwardTask(h) => g = h
           /\ \A x \in Packets : SendTask(x) \in Tasks
           /\ \A h \in Heard : ForwardTask(h) \in Tasks
<1>1. \A t \in T : t.do = "send" => t.packet \in Packets /\ t = SendTask(t.packet)
  BY DEF Tasks, SendTask
<1>2. \A x : SendTask(x).do = "send" /\ SendTask(x).packet = x
  BY DEF SendTask
<1>3. \A h : ForwardTask(h).do = "forward" /\ ForwardTask(h).of = h
  BY DEF ForwardTask
<1>4. QED
  BY <1>1, <1>2, <1>3 DEF Tasks, SendTask, ForwardTask

\* What the node does to the radio is a step of it.
LEMMA StepsOfRadio == ASSUME TypeOK, [Next]_vars PROVE [Radio!Next]_radioVars
<1> USE DEF Radio!Next, Radio!LoopStep
<1>1. CASE Start \/ Signal \/ Quit
  BY <1>1 DEF Start, StartOpen, StartConnect, Signal, Quit, ReaderExit, LoopExit, AppExit,
        radioVars
<1>2. CASE Stop
  BY <1>2 DEF Stop, StopApp, StopReaders, StopClient, Exit, radioVars
<1>3. CASE RadioLoopStep
  BY <1>3 DEF RadioLoopStep, RadioHear, RadioTake, RadioBreak, RadioOther
<1>4. CASE RadioRetry
  BY <1>4 DEF RadioRetry, TypeOK, Radio!TypeOK
<1>5. CASE Read
  BY <1>5 DEF Read, ReadIncoming, ReadReport
<1>6. CASE \E t \in tasks : RunTask(t)
  BY <1>6 DEF RunTask, RetransmitPacket, SendBegin, radioVars
<1>7. CASE SendEnd
  BY <1>7 DEF SendEnd, TypeOK
<1>8. ASSUME NEW p \in Own, Publish(p) \/ Publishing(p) PROVE [Radio!Next]_radioVars
  <2>1. First(p) \in Packets
    BY NodeAssumption DEF First, Packets, MaxHop
  <2>2. QED
    BY <1>8, <2>1 DEF Publish, Publishing, PublishPush, PublishRepeats, radioVars
<1>9. CASE UNCHANGED vars
  BY <1>9 DEF vars
<1>10. QED
  BY <1>1, <1>2, <1>3, <1>4, <1>5, <1>6, <1>7, <1>8, <1>9 DEF Next

\* Copies of a publication, and what is left of a packet that is forwarded
LEMMA MadeTypes ==
    /\ \A p \in Own : Copies(p) \subseteq Packets /\ First(p) \in Copies(p)
    /\ \A h \in Heard : h.hop # 0 => [of |-> h.id, hop |-> h.hop - 1, copy |-> 0] \in Packets
<1>1. ASSUME NEW p \in Own PROVE Copies(p) \subseteq Packets /\ First(p) \in Copies(p)
  BY NodeAssumption DEF Copies, First, Packets, MaxHop
<1>2. ASSUME NEW h \in Heard, h.hop # 0
      PROVE  [of |-> h.id, hop |-> h.hop - 1, copy |-> 0] \in Packets
  <2>1. h.id \in Ids /\ h.hop \in 0 .. 7
    BY NodeAssumption DEF Heard, MaxHop
  <2>2. h.hop - 1 \in 0 .. 255 /\ 0 \in 0 .. Repeats
    BY <1>2, <2>1, NodeAssumption
  <2>3. QED
    BY <2>1, <2>2 DEF Packets
<1>3. QED
  BY <1>1, <1>2

\* Every step keeps the types.
LEMMA StepKeepsTypes == ASSUME TypeOK, HandOK, [Next]_vars PROVE TypeOK' /\ HandOK'
<1>1. RadioInv'
  BY StepsOfRadio, RadioTypes DEF RadioInv, TypeOK
<1> DEFINE Types == /\ main \in {"new", "opened", "up", "apps", "readers", "client", "exited"}
                    /\ reader \in [Readers -> {"none", "run", "exited"}]
                    /\ tasks \subseteq Tasks
                    /\ el \in [at : {"none", "wait", "exited"}, packet : {None}]
                                  \cup [at : {"push"}, packet : Packets]
                    /\ app \in [Own -> {"wait", "push", "post", "sent", "exited"}]
                    /\ told \subseteq Apps
                    /\ heard \subseteq Heard
                    /\ handed \subseteq Packets
<1>2. SUFFICES Types'
  BY <1>1 DEF RadioInv, TypeOK
<1> USE DEF TypeOK
<1>3. CASE Start \/ Signal
  BY <1>3 DEF Start, StartOpen, StartConnect, Signal
<1>4. CASE Quit
  BY <1>4 DEF Quit, ReaderExit, LoopExit, AppExit
<1>5. CASE Stop
  BY <1>5 DEF Stop, StopApp, StopReaders, StopClient, Exit
<1>6. CASE RadioLoopStep \/ RadioRetry
  <2>1. RadioHear => heard' \subseteq Heard
    BY <1>1 DEF RadioHear, RadioInv, HandOK
  <2>2. QED
    BY <1>6, <2>1 DEF RadioLoopStep, RadioRetry, RadioHear, RadioTake, RadioBreak, RadioOther,
          nodeVars
<1>7. CASE Read
  <2>1. ReadIncoming => Head(incoming) \in Heard
    BY DEF ReadIncoming, Radio!ReadIncoming, Radio!TypeOK
  <2>2. ReadIncoming => tasks' \subseteq Tasks
    BY <2>1, TaskFacts DEF ReadIncoming
  <2>3. QED
    BY <1>7, <2>2 DEF Read, ReadIncoming, ReadReport, nodeVars
<1>8. ASSUME NEW t \in tasks, RunTask(t) PROVE Types'
  <2>1. ASSUME NEW h \in Heard, RetransmitPacket(h) PROVE Types'
    BY <2>1, TaskFacts, MadeTypes DEF RetransmitPacket
  <2>2. ASSUME NEW x \in Scheduled, SendBegin(x) PROVE Types'
    BY <2>2, TaskFacts DEF SendBegin, Scheduled
  <2>3. QED
    BY <1>8, <2>1, <2>2 DEF RunTask
<1>9. CASE SendEnd
  BY <1>9 DEF SendEnd
<1>10. ASSUME NEW p \in Own, Publish(p) \/ Publishing(p) PROVE Types'
  <2>1. CASE Publish(p)
    BY <2>1 DEF Publish
  <2>2. CASE PublishPush(p)
    BY <2>2, MadeTypes DEF PublishPush
  <2>3. CASE PublishRepeats(p)
    <3>1. \A x \in Copies(p) : SendTask(x) \in Tasks
      BY MadeTypes, TaskFacts
    <3>2. tasks' \subseteq Tasks
      BY <2>3, <3>1 DEF PublishRepeats
    <3>3. QED
      BY <2>3, <3>2 DEF PublishRepeats
  <2>4. QED
    BY <1>10, <2>1, <2>2, <2>3 DEF Publishing
<1>11. CASE UNCHANGED vars
  BY <1>11 DEF vars, nodeVars
<1>12. QED
  BY <1>3, <1>4, <1>5, <1>6, <1>7, <1>8, <1>9, <1>10, <1>11 DEF Next

\* Steps that make no packet and read none: what is due, waits or is with the
\* client can only become less.
LEMMA QuietSteps ==
    ASSUME NodeInv,
           UNCHANGED <<tasks, heard, handed>>,
           Due' \subseteq Due, el'.at = "push" => el' = el,
           \A p \in Own : app'[p] \in {"wait", "push"} => app[p] \in {"wait", "push"},
           \A p \in Own : app'[p] = "post" => app[p] = "post",
           Client' \subseteq Client, Waiting' \subseteq Waiting, WaitOnce'
    PROVE  ForwardsInv' /\ OnceInv' /\ PublishInv' /\ HandedInv'
<1>1. Made' \subseteq Made
  BY DEF Made
<1>2. ForwardsInv'
  <2>1. \A packet \in Made' : Rightful(packet)'
    BY <1>1 DEF NodeInv, ForwardsInv, Rightful
  <2>2. QED
    BY <2>1 DEF NodeInv, ForwardsInv
<1>3. OnceInv'
  BY <1>1 DEF NodeInv, OnceInv
<1>4. PublishInv'
  BY <1>1 DEF NodeInv, PublishInv
<1>5. HandedInv'
  BY DEF NodeInv, HandedInv
<1>6. QED
  BY <1>2, <1>3, <1>4, <1>5

\* A packet is heard: nothing is made of it yet, as what is made of received
\* packets is made of those that were heard before.
LEMMA HearKeeps ==
    ASSUME NodeInv, RadioHear
    PROVE  ForwardsInv' /\ OnceInv' /\ PublishInv' /\ HandedInv'
<1> USE DEF NodeInv
<1>1. UNCHANGED <<tasks, el, app, handed>> /\ Scheduled' = Scheduled /\ Due' = Due /\ Made' = Made
  BY DEF RadioHear, Scheduled, Due, Made
<1>2. loop' = "incoming" => hand' \in Heard /\ heard' = heard \cup {hand'}
                             /\ \A h \in heard : h.id # hand'.id
  BY DEF RadioHear, Radio!Hear
<1>3. loop' # "incoming" => heard' = heard
  BY DEF RadioHear
<1>4. loop' = "incoming" => hand' \notin Waiting
  BY <1>2 DEF ForwardsInv
<1>5. /\ Client' \subseteq Client /\ WaitOnce'
      /\ Waiting' \subseteq Waiting \cup (IF loop' = "incoming" THEN {hand'} ELSE {})
  BY <1>4, RadioHears DEF RadioHear, RadioInv, OnceInv, TypeOK
<1>6. loop' = "incoming" =>
        ForwardTask(hand') \notin tasks /\ \A packet \in Made : packet.of # hand'.id
  <2>1. ASSUME loop' = "incoming", NEW packet \in Made, packet.of = hand'.id PROVE FALSE
    <3>1. packet.of \in Ids
      BY <2>1, <1>2 DEF Heard
    <3>2. \E h \in heard : h.id = packet.of
      BY <3>1 DEF ForwardsInv, Rightful
    <3>3. QED
      BY <2>1, <3>2, <1>2
  <2>2. QED
    BY <2>1, <1>2 DEF ForwardsInv
<1>7. ForwardsInv'
  <2>1. heard \subseteq heard'
    BY <1>2, <1>3
  <2>2. \A packet \in Made' : Rightful(packet)'
    BY <1>1, <2>1 DEF ForwardsInv, Rightful
  <2>3. QED
    BY <1>1, <1>2, <1>5, <2>1, <2>2 DEF ForwardsInv
<1>8. OnceInv'
  BY <1>1, <1>2, <1>3, <1>5, <1>6 DEF OnceInv
<1>9. PublishInv' /\ HandedInv'
  BY <1>1, <1>5 DEF PublishInv, HandedInv
<1>10. QED
  BY <1>7, <1>8, <1>9

\* A packet is read: what waited is posted, if at all.
LEMMA ReadKeeps ==
    ASSUME NodeInv, ReadIncoming
    PROVE  ForwardsInv' /\ OnceInv' /\ PublishInv' /\ HandedInv'
<1> DEFINE g == Head(incoming)
<1> USE DEF NodeInv
<1>1. /\ Client' = Client /\ WaitOnce' /\ g \in Waiting /\ Waiting' \subseteq Waiting \ {g}
  BY RadioGives DEF ReadIncoming, RadioInv, OnceInv, TypeOK
<1>2. /\ tasks' = tasks \/ (tasks' = tasks \cup {ForwardTask(g)} /\ Forwardable(g))
      /\ UNCHANGED <<el, app, heard, handed>>
  BY DEF ReadIncoming
<1>3. g \in Heard /\ g \in heard
  BY <1>1 DEF ForwardsInv, TypeOK
<1> HIDE DEF g
<1>4. \A x : SendTask(x) \in tasks' <=> SendTask(x) \in tasks
  BY <1>2, TaskFacts DEF TypeOK
<1>5. Due' = Due /\ Made' = Made
  <2>1. tasks' \in SUBSET Tasks
    BY <1>2, <1>3, TaskFacts DEF TypeOK
  <2>2. Scheduled' = Scheduled
    BY <1>4, <2>1, TaskFacts DEF Scheduled, TypeOK
  <2>3. QED
    BY <1>2, <2>2 DEF Due, Made
<1>6. \A h : ForwardTask(h) \in tasks' => ForwardTask(h) \in tasks \/ (h = g /\ Forwardable(g))
  BY <1>2, TaskFacts DEF TypeOK
<1>7. ForwardsInv'
  <2>1. \A packet \in Made' : Rightful(packet)'
    BY <1>2, <1>5 DEF ForwardsInv, Rightful
  <2>2. QED
    BY <1>1, <1>2, <1>3, <1>6, <2>1 DEF ForwardsInv, Forwardable
<1>8. OnceInv'
  BY <1>1, <1>2, <1>3, <1>5, <1>6 DEF OnceInv
<1>9. PublishInv' /\ HandedInv'
  BY <1>1, <1>2, <1>4, <1>5 DEF PublishInv, HandedInv
<1>10. QED
  BY <1>7, <1>8, <1>9

\* The packet that is left of one to be forwarded
Left(h) == [of |-> h.id, hop |-> h.hop - 1, copy |-> 0]

\* A callback forwards a packet: the first and only one made of it.
LEMMA RetransmitKeeps ==
    ASSUME NodeInv, NEW h \in Heard, RetransmitPacket(h)
    PROVE  ForwardsInv' /\ OnceInv' /\ PublishInv' /\ HandedInv'
<1> USE DEF NodeInv
<1>1. /\ ForwardTask(h) \in tasks /\ el.at = "wait"
      /\ UNCHANGED <<el, app, heard, handed>>
      /\ \/ tasks' = tasks \ {ForwardTask(h)}
         \/ h.hop # 0 /\ tasks' = (tasks \ {ForwardTask(h)}) \cup {SendTask(Left(h))}
  BY DEF RetransmitPacket, Left
<1>2. h.hop # 0 => Left(h) \in Packets
  BY MadeTypes DEF Left
<1>3. Client' = Client /\ Waiting' = Waiting /\ WaitOnce'
  BY DEF RetransmitPacket, radioVars, Client, Waiting, InQueue, Unread, OnceInv, WaitOnce
<1>4. Due' = Due \/ (h.hop # 0 /\ Due' = Due \cup {Left(h)})
  <2>1. tasks' \in SUBSET Tasks
    BY <1>1, <1>2, TaskFacts DEF TypeOK
  <2>2. \A x : SendTask(x) \in tasks' <=>
               SendTask(x) \in tasks \/ (x = Left(h) /\ SendTask(Left(h)) \in tasks')
    BY <1>1, TaskFacts DEF TypeOK
  <2>3. Scheduled = {x \in Packets : SendTask(x) \in tasks}
    BY TaskFacts DEF Scheduled, TypeOK
  <2>4. Scheduled' = {x \in Packets : SendTask(x) \in tasks'}
    BY <2>1, TaskFacts DEF Scheduled
  <2>5. Scheduled' = Scheduled \/ (h.hop # 0 /\ Scheduled' = Scheduled \cup {Left(h)})
    BY <1>1, <1>2, <2>2, <2>3, <2>4
  <2>6. QED
    BY <1>1, <2>5 DEF Due
<1>5. /\ \A g : ForwardTask(g) \in tasks' => ForwardTask(g) \in tasks /\ g # h
      /\ h \in heard /\ Forwardable(h)
      /\ Left(h).of = h.id /\ h.id \in Ids
  <2>1. \A g : ForwardTask(g) \in tasks' => ForwardTask(g) \in tasks /\ g # h
    BY <1>1, TaskFacts DEF TypeOK
  <2>2. QED
    BY <1>1, <2>1 DEF Left, Heard, ForwardsInv
<1>6. \A packet \in Made' : packet \in Made \/ (h.hop # 0 /\ packet = Left(h))
  BY <1>1, <1>4 DEF Made
<1>7. \A packet \in Made : packet.of # h.id
  BY <1>1, <1>5 DEF OnceInv
<1>8. ForwardsInv'
  <2>1. h.hop # 0 => Rightful(Left(h))
    <3>1. h.hop \in 0 .. 7
      BY NodeAssumption DEF Heard, MaxHop
    <3>2. h.hop # 0 => Left(h).hop + 1 = h.hop
      BY <3>1 DEF Left
    <3>3. QED
      BY <1>5, <3>2 DEF Rightful
  <2>2. \A packet \in Made' : Rightful(packet)'
    BY <1>1, <1>6, <2>1 DEF ForwardsInv, Rightful
  <2>3. QED
    BY <1>1, <1>3, <1>5, <2>2 DEF ForwardsInv
<1>9. OnceInv'
  <2>1. \A g \in Waiting' : ForwardTask(g) \notin tasks' /\ \A packet \in Made' : packet.of # g.id
    <3>1. \A g \in Waiting : g # h /\ g \in heard
      BY <1>1 DEF OnceInv, ForwardsInv
    <3>2. \A g \in Waiting : g.id # h.id
      BY <3>1, <1>5 DEF OnceInv
    <3>3. QED
      BY <1>3, <1>5, <1>6, <3>2 DEF OnceInv
  <2>2. \A g \in heard : ForwardTask(g) \in tasks' => \A packet \in Made' : packet.of # g.id
    <3>1. \A g \in heard : g # h => g.id # h.id
      BY <1>5 DEF OnceInv
    <3>2. QED
      BY <1>5, <1>6, <3>1 DEF OnceInv
  <2>3. QED
    BY <1>1, <1>3, <2>1, <2>2 DEF OnceInv
<1>10. PublishInv'
  <2>1. \A p \in Own : Left(h).of # p
    BY <1>5, NodeAssumption
  <2>2. QED
    BY <1>1, <1>4, <1>6, <2>1 DEF PublishInv
<1>11. HandedInv'
  <2>1. Left(h) \notin handed
    BY <1>5, <1>7 DEF Made
  <2>2. QED
    BY <1>1, <1>3, <1>4, <2>1 DEF HandedInv
<1>12. QED
  BY <1>8, <1>9, <1>10, <1>11

\* The tasks of packets, after a step
LEMMA ScheduledIs ==
    ASSUME TypeOK
    PROVE  Scheduled = {x \in Packets : SendTask(x) \in tasks}
BY TaskFacts DEF Scheduled, TypeOK

\* A callback starts to hand a packet over: it is due still.
LEMMA SendBeginKeeps ==
    ASSUME NodeInv, TypeOK', NEW x \in Scheduled, SendBegin(x)
    PROVE  ForwardsInv' /\ OnceInv' /\ PublishInv' /\ HandedInv'
<1> USE DEF NodeInv
<1>1. /\ el.at = "wait" /\ SendTask(x) \in tasks /\ tasks' = tasks \ {SendTask(x)}
      /\ el'.at = "push" /\ el'.packet = x
      /\ UNCHANGED <<app, heard, handed>>
  BY DEF SendBegin
<1>2. Client' = Client /\ Waiting' = Waiting /\ WaitOnce'
  BY DEF SendBegin, radioVars, Client, Waiting, InQueue, Unread, OnceInv, WaitOnce
<1>3. Scheduled' = Scheduled \ {x}
  <2>1. Scheduled' = {y \in Packets : SendTask(y) \in tasks'}
    BY TaskFacts DEF Scheduled, TypeOK
  <2>2. \A y : SendTask(y) \in tasks' <=> SendTask(y) \in tasks /\ y # x
    BY <1>1, TaskFacts DEF TypeOK
  <2>3. QED
    BY <2>1, <2>2, ScheduledIs
<1>4. Due' = Due /\ Made' = Made
  BY <1>1, <1>3 DEF Due, Made
<1>5. \A h : ForwardTask(h) \in tasks' => ForwardTask(h) \in tasks
  BY <1>1
<1>6. \A h : ForwardTask(h) \in tasks => ForwardTask(h) \in tasks'
  BY <1>1, TaskFacts DEF TypeOK
<1>7. ForwardsInv'
  <2>1. \A packet \in Made' : Rightful(packet)'
    BY <1>1, <1>4 DEF ForwardsInv, Rightful
  <2>2. QED
    BY <1>1, <1>2, <1>5, <2>1 DEF ForwardsInv
<1>8. OnceInv'
  BY <1>1, <1>2, <1>4, <1>5 DEF OnceInv
<1>9. PublishInv' /\ HandedInv'
  BY <1>1, <1>2, <1>4 DEF PublishInv, HandedInv
<1>10. QED
  BY <1>7, <1>8, <1>9

\* A packet is handed over that was due, and is not any more.
LEMMA SendEndKeeps ==
    ASSUME NodeInv, SendEnd
    PROVE  ForwardsInv' /\ OnceInv' /\ PublishInv' /\ HandedInv'
<1> DEFINE x == el.packet
<1> USE DEF NodeInv
<1>1. /\ el.at = "push" /\ el'.at = "wait" /\ handed' = handed \cup {x} /\ Radio!Send(x)
      /\ UNCHANGED <<tasks, app, heard>>
  BY DEF SendEnd
<1>2. x \in Packets
  BY <1>1 DEF TypeOK
<1> HIDE DEF x
<1>3. Client' \subseteq Client \cup {x} /\ Waiting' = Waiting /\ WaitOnce'
  BY <1>1, <1>2, RadioTakesOver DEF RadioInv, TypeOK, OnceInv
<1>4. x \notin Scheduled /\ Scheduled' = Scheduled
  BY <1>1, ScheduledIs DEF HandedInv, x, Scheduled
<1>5. Due' = Due \ {x} /\ Made' = Made
  BY <1>1, <1>4 DEF Due, Made, x
<1>6. ForwardsInv'
  <2>1. \A packet \in Made' : Rightful(packet)'
    BY <1>1, <1>5 DEF ForwardsInv, Rightful
  <2>2. QED
    BY <1>1, <1>3, <2>1 DEF ForwardsInv
<1>7. OnceInv'
  BY <1>1, <1>3, <1>5 DEF OnceInv
<1>8. PublishInv'
  BY <1>1, <1>5 DEF PublishInv
<1>9. HandedInv'
  BY <1>1, <1>3, <1>5 DEF HandedInv
<1>10. QED
  BY <1>6, <1>7, <1>8, <1>9

\* The first copy of a publication is handed over.
LEMMA PublishPushKeeps ==
    ASSUME NodeInv, NEW p \in Own, PublishPush(p)
    PROVE  ForwardsInv' /\ OnceInv' /\ PublishInv' /\ HandedInv'
<1> USE DEF NodeInv
<1>1. /\ app[p] = "push" /\ handed' = handed \cup {First(p)} /\ Radio!Send(First(p))
      /\ UNCHANGED <<tasks, el, heard>>
      /\ app' = [app EXCEPT ![p] = "post"]
  BY DEF PublishPush
<1>2. First(p) \in Packets /\ First(p).of = p
  BY MadeTypes DEF First
<1>3. Client' \subseteq Client \cup {First(p)} /\ Waiting' = Waiting /\ WaitOnce'
  BY <1>1, <1>2, RadioTakesOver DEF RadioInv, TypeOK, OnceInv
<1>4. Due' = Due /\ Made' = Made \cup {First(p)}
  BY <1>1 DEF Due, Made, Scheduled
<1>5. \A packet \in Made : packet.of # p
  BY <1>1 DEF PublishInv
<1>6. p \notin Ids
  BY NodeAssumption
<1>7. ForwardsInv'
  <2>1. \A packet \in Made' : Rightful(packet)'
    BY <1>1, <1>2, <1>4, <1>6 DEF ForwardsInv, Rightful
  <2>2. QED
    BY <1>1, <1>3, <2>1 DEF ForwardsInv
<1>8. OnceInv'
  <2>1. \A h \in heard : h.id # p
    BY <1>6 DEF TypeOK, Heard
  <2>2. QED
    BY <1>1, <1>2, <1>3, <1>4, <2>1 DEF OnceInv, ForwardsInv
<1>9. PublishInv'
  <2>1. \A q \in Own : app'[q] = IF q = p THEN "post" ELSE app[q]
    BY <1>1 DEF TypeOK
  <2>2. First(p) \notin Due
    BY <1>2, <1>5 DEF Made
  <2>3. QED
    BY <1>2, <1>4, <1>5, <2>1, <2>2 DEF PublishInv
<1>10. HandedInv'
  <2>1. First(p) \notin Due
    BY <1>2, <1>5 DEF Made
  <2>2. QED
    BY <1>1, <1>3, <1>4, <2>1 DEF HandedInv
<1>11. QED
  BY <1>7, <1>8, <1>9, <1>10

\* The repeats are posted, all but the copy that has been handed over.
LEMMA PublishRepeatsKeeps ==
    ASSUME NodeInv, NEW p \in Own, PublishRepeats(p)
    PROVE  ForwardsInv' /\ OnceInv' /\ PublishInv' /\ HandedInv'
<1> DEFINE New == Copies(p) \ {First(p)}
<1> USE DEF NodeInv
<1>1. /\ app[p] = "post" /\ app' = [app EXCEPT ![p] = "sent"]
      /\ tasks' = tasks \cup {SendTask(packet) : packet \in New}
      /\ UNCHANGED <<el, heard, handed>>
  BY DEF PublishRepeats
<1>2. New \subseteq Packets /\ (\A x \in New : x.of = p /\ x # First(p)) /\ p \notin Ids
  BY MadeTypes, NodeAssumption DEF Copies
<1> HIDE DEF New
<1>3. Client' = Client /\ Waiting' = Waiting /\ WaitOnce'
  BY DEF PublishRepeats, radioVars, Client, Waiting, InQueue, Unread, OnceInv, WaitOnce
<1>4. \A x : SendTask(x) \in tasks' <=> SendTask(x) \in tasks \/ x \in New
  BY <1>1, TaskFacts DEF TypeOK
<1>5. \A h : ForwardTask(h) \in tasks' <=> ForwardTask(h) \in tasks
  BY <1>1, TaskFacts DEF TypeOK
<1>6. Due' = Due \cup New /\ Made' = Made \cup New
  <2>1. tasks' \in SUBSET Tasks
    BY <1>1, <1>2, TaskFacts DEF TypeOK
  <2>2. Scheduled' = {x \in Packets : SendTask(x) \in tasks'}
    BY <2>1, TaskFacts DEF Scheduled
  <2>3. Scheduled' = Scheduled \cup New
    BY <1>2, <1>4, <2>2, ScheduledIs
  <2>4. QED
    BY <1>1, <2>3 DEF Due, Made
<1>7. \A packet \in Made : packet.of = p => packet = First(p) /\ packet \notin Due
  BY <1>1 DEF PublishInv
<1>8. ForwardsInv'
  <2>1. \A packet \in Made' : Rightful(packet)'
    BY <1>1, <1>2, <1>6 DEF ForwardsInv, Rightful
  <2>2. QED
    BY <1>1, <1>3, <1>5, <2>1 DEF ForwardsInv
<1>9. OnceInv'
  <2>1. \A h \in heard : h.id # p
    BY <1>2 DEF TypeOK, Heard
  <2>2. QED
    BY <1>1, <1>2, <1>3, <1>5, <1>6, <2>1 DEF OnceInv, ForwardsInv
<1>10. PublishInv'
  <2>1. \A q \in Own : app'[q] = IF q = p THEN "sent" ELSE app[q]
    BY <1>1 DEF TypeOK
  <2>2. QED
    BY <1>1, <1>2, <1>6, <2>1 DEF PublishInv
<1>11. HandedInv'
  <2>1. New \cap handed = {}
    BY <1>2, <1>7 DEF Made
  <2>2. el.at = "push" => el.packet \notin New
    BY <1>2, <1>7 DEF Made, Due
  <2>3. QED
    BY <1>1, <1>3, <1>4, <1>6, <2>1, <2>2 DEF HandedInv
<1>12. QED
  BY <1>8, <1>9, <1>10, <1>11

-------------------------------------------------------------------------------
\* A step that leaves the radio alone leaves everything in it where it is.
LEMMA RadioRests ==
    ASSUME WaitOnce, UNCHANGED radioVars
    PROVE  Client' = Client /\ Waiting' = Waiting /\ WaitOnce'
BY DEF radioVars, Client, Waiting, InQueue, Unread, WaitOnce

\* Every step keeps the invariant.
LEMMA NodeStep == ASSUME NodeInv, [Next]_vars PROVE NodeInv'
<1> DEFINE Goal == ForwardsInv' /\ OnceInv' /\ PublishInv' /\ HandedInv'
<1>1. TypeOK' /\ HandOK' /\ RadioInv /\ WaitOnce
  BY StepKeepsTypes DEF NodeInv, RadioInv, TypeOK, OnceInv
<1>2. SUFFICES Goal
  BY <1>1 DEF NodeInv
<1>3. CASE Start \/ Signal
  <2>1. UNCHANGED <<tasks, app, heard, handed, radioVars>> /\ (el' = el \/ el'.at = "wait")
    BY <1>3 DEF Start, StartOpen, StartConnect, Signal
  <2>2. Due' \subseteq Due
    BY <2>1 DEF Due, Scheduled
  <2>3. QED
    BY <1>1, <2>1, <2>2, RadioRests, QuietSteps
<1>4. CASE Quit
  <2>1. UNCHANGED <<tasks, heard, handed, radioVars>> /\ (el' = el \/ el'.at = "exited")
    BY <1>4 DEF Quit, ReaderExit, LoopExit, AppExit
  <2>2. app' = app \/ \E p \in Own : app' = [app EXCEPT ![p] = "exited"]
    BY <1>4 DEF Quit, ReaderExit, LoopExit, AppExit
  <2>3. \A q \in Own : app'[q] \in {app[q], "exited"}
    BY <2>2 DEF NodeInv, TypeOK
  <2>4. Due' \subseteq Due
    BY <2>1 DEF Due, Scheduled
  <2>5. QED
    BY <1>1, <2>1, <2>3, <2>4, RadioRests, QuietSteps
<1>5. CASE Stop
  <2>1. UNCHANGED <<tasks, el, app, heard, handed>> /\ (Radio!Cancel \/ UNCHANGED radioVars)
    BY <1>5 DEF Stop, StopApp, StopReaders, StopClient, Exit
  <2>2. Client' \subseteq Client /\ Waiting' \subseteq Waiting /\ WaitOnce'
    BY <1>1, <2>1, RadioKeeps, RadioRests
  <2>3. Due' \subseteq Due
    BY <2>1 DEF Due, Scheduled
  <2>4. QED
    BY <2>1, <2>2, <2>3, QuietSteps
<1>6. CASE RadioTake \/ RadioBreak \/ RadioOther \/ RadioRetry \/ ReadReport
  <2>1. UNCHANGED <<tasks, el, app, heard, handed>>
    BY <1>6 DEF RadioTake, RadioBreak, RadioOther, RadioRetry, ReadReport, nodeVars
  <2>2. Client' \subseteq Client /\ Waiting' \subseteq Waiting /\ WaitOnce'
    BY <1>1, <1>6, RadioKeeps DEF RadioTake, RadioBreak, RadioOther, RadioRetry, ReadReport
  <2>3. Due' \subseteq Due
    BY <2>1 DEF Due, Scheduled
  <2>4. QED
    BY <2>1, <2>2, <2>3, QuietSteps
<1>7. CASE RadioHear
  BY <1>7, HearKeeps
<1>8. CASE ReadIncoming
  BY <1>8, ReadKeeps
<1>9. CASE \E t \in tasks : RunTask(t)
  BY <1>1, <1>9, RetransmitKeeps, SendBeginKeeps DEF RunTask
<1>10. CASE SendEnd
  BY <1>10, SendEndKeeps
<1>11. ASSUME NEW p \in Own, Publish(p) PROVE Goal
  <2>1. /\ UNCHANGED <<tasks, el, heard, handed, radioVars>>
        /\ app[p] = "wait" /\ app' = [app EXCEPT ![p] = "push"]
    BY <1>11 DEF Publish
  <2>2. \A q \in Own : app'[q] = IF q = p THEN "push" ELSE app[q]
    BY <2>1 DEF NodeInv, TypeOK
  <2>3. Due' \subseteq Due
    BY <2>1 DEF Due, Scheduled
  <2>4. QED
    BY <1>1, <2>1, <2>2, <2>3, RadioRests, QuietSteps
<1>12. ASSUME NEW p \in Own, Publishing(p) PROVE Goal
  BY <1>12, PublishPushKeeps, PublishRepeatsKeeps DEF Publishing
<1>13. CASE UNCHANGED vars
  <2>1. UNCHANGED <<tasks, el, app, heard, handed, radioVars>>
    BY <1>13 DEF vars, nodeVars
  <2>2. Due' \subseteq Due
    BY <2>1 DEF Due, Scheduled
  <2>3. QED
    BY <1>1, <2>1, <2>2, RadioRests, QuietSteps
<1>14. QED
  BY <1>3, <1>4, <1>5, <1>6, <1>7, <1>8, <1>9, <1>10, <1>11, <1>12, <1>13
     DEF Next, RadioLoopStep, Read

\* Nothing has been heard or made at the start.
LEMMA NodeStart == Init => NodeInv
<1> SUFFICES ASSUME Init PROVE NodeInv
  OBVIOUS
<1> USE DEF Init, Radio!Init
<1>1. TypeOK /\ HandOK
  <2>1. Radio!TypeOK
    <3>1. outgoing \in Seq(Packets) /\ incoming \in Seq(Heard) /\ Len(outgoing) = 0 /\ Len(incoming) = 0
      OBVIOUS
    <3>2. ChanCap \in Nat /\ reports \in [Radio!Reports -> 0 .. ChanCap]
      BY NodeAssumption
    <3>3. loop = "select" /\ hand = None /\ retries = {} /\ cancelled = FALSE
      OBVIOUS
    <3> HIDE DEF Init, Radio!Init
    <3>4. Len(outgoing) <= ChanCap /\ Len(incoming) <= ChanCap
      BY <3>1, <3>2
    <3>5. cancelled \in BOOLEAN
      BY <3>3
    <3>6. QED
      BY <3>1, <3>2, <3>3, <3>4, <3>5 DEF Radio!TypeOK
  <2>2. QED
    BY <2>1 DEF TypeOK, HandOK, Readers, Apps
<1>2. Made = {} /\ Due = {} /\ Waiting = {} /\ Client = {}
  <2>1. Scheduled = {} /\ InQueue = {} /\ Unread = {}
    BY DEF Scheduled, InQueue, Unread
  <2>2. QED
    BY <2>1, PacketsDiffer DEF Made, Due, Waiting, Client
<1>3. QED
  BY <1>1, <1>2 DEF NodeInv, ForwardsInv, OnceInv, WaitOnce, PublishInv, HandedInv, Unread

\* The invariant of the node holds in every reachable state.
LEMMA NodeInvHolds == Spec => []NodeInv
BY NodeStart, NodeStep, PTL DEF Spec

\* What the invariants of Node speak of is what is made, and with the client.
LEMMA OnTheWayFacts == ASSUME NodeInv PROVE OnTheWay \subseteq Made /\ InClient \subseteq handed
<1>1. InClient \subseteq Client
  BY DEF NodeInv, TypeOK, Radio!TypeOK, InClient, Client, InQueue
<1>2. ({el.packet} \ {None}) \subseteq Due
  BY DEF NodeInv, TypeOK, Due
<1>3. QED
  BY <1>1, <1>2 DEF OnTheWay, Made, Due, NodeInv, HandedInv

-------------------------------------------------------------------------------
\* The threads of the process, its event loop, its tasks and the client's
\* channels keep their types (node.go:31-338, meshtastic.go:66-139).
THEOREM TypeCorrect == Spec => []TypeOK
<1>1. NodeInv => TypeOK
  BY DEF NodeInv
<1>2. QED
  BY <1>1, NodeInvHolds, PTL

\* Whatever is on its way out for another node was heard, is to be forwarded,
\* and has one hop less to go (node.go:141-154, 317-338).
THEOREM ForwardsHaveOneHopLess == Spec => []ForwardsAreRight
<1>1. NodeInv => ForwardsAreRight
  BY OnTheWayFacts DEF NodeInv, ForwardsInv, Rightful, ForwardsAreRight
<1>2. QED
  BY <1>1, NodeInvHolds, PTL

\* No packet is handed to the client twice: not a forwarded one, not the first
\* copy of our own, not a repeat (node.go:148-155, 262-281, 335-337).
THEOREM PacketsAreHandedOnce == Spec => []HandedOnce
<1>1. NodeInv => HandedOnce
  <2> SUFFICES ASSUME NodeInv PROVE HandedOnce
    OBVIOUS
  <2>1. OnTheWay \cup handed \subseteq Made
    BY OnTheWayFacts DEF Made
  <2>2. QED
    BY <2>1, OnTheWayFacts DEF NodeInv, HandedInv, OnceInv, HandedOnce, Due
<1>2. QED
  BY <1>1, NodeInvHolds, PTL
===============================================================================
