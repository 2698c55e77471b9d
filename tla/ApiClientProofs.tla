---------------------------- MODULE ApiClientProofs ----------------------------
(***************************************************************************)
(* LoraDevice and ApiClient, for every caller: lemmas about one step of    *)
(* the device and of the client, cited by the proofs about its callers.    *)
(* They say that types are kept, and what becomes of the frames on their   *)
(* way to a reader of Recv.  The theorems are about ApiCaller; those about *)
(* MeshtasticClient have a module of their own.                            *)
(***************************************************************************)
EXTENDS ApiCaller, SequenceTheorems, TLAPS

\* Messages are built well, and what they are about follows from their kind.
LEMMA MessageFacts ==
    /\ \A j \in Jobs : TransmitRequest(j) \in Requests
    /\ \A k \in PlainRequestKinds : Plain(k) \in Requests /\ Plain(k).kind = k
    /\ \A j \in Jobs, b \in BOOLEAN : TransmitAnswer(j, b) \in Frames
    /\ \A k \in Keys : PacketReceived(k) \in Frames
    /\ \A k \in PlainRequestKinds \cup EndOfTxKinds \cup Chatter : Plain(k) \in Frames
  BY DEF TransmitRequest, Plain, TransmitAnswer, PacketReceived, Requests, Frames

\* The packet a message is about has the type its kind calls for.
LEMMA AboutFacts ==
    /\ \A r \in Requests : r.kind = "Transmit" => r.about \in Jobs
    /\ \A f \in Frames : f.kind = "Transmit" => f.about \in Jobs
    /\ \A f \in Frames : f.kind = "PacketReceived" => f.about \in Keys
  BY DeviceAssumption DEF Requests, Frames, PlainRequestKinds, EndOfTxKinds, ChatterKinds

-------------------------------------------------------------------------------

\* A step of the device keeps its types, whatever it is asked
LEMMA DeviceTypes == ASSUME DeviceTypeOK, DeviceNext PROVE DeviceTypeOK'
<1> USE DEF DeviceTypeOK, Modes, Emit
<1>1. ASSUME NEW j \in Jobs, DeviceAccept(j) PROVE DeviceTypeOK'
  <2>1. KeyOf[j] \in Keys
    BY DeviceAssumption
  <2>2. TransmitAnswer(j, FALSE) \in Frames
    BY MessageFacts
  <2>3. toHost' \in Seq(Frames)
    BY <1>1, <2>2 DEF DeviceAccept, TransmitAnswer
  <2>4. toDevice' \in Seq(Requests)
    BY <1>1 DEF DeviceAccept, Asked
  <2>5. QED
    BY <1>1, <2>1, <2>3, <2>4 DEF DeviceAccept
<1>2. ASSUME NEW j \in Jobs, DeviceRefuse(j) PROVE DeviceTypeOK'
  <2>1. TransmitAnswer(j, TRUE) \in Frames
    BY MessageFacts
  <2>2. toHost' \in Seq(Frames)
    BY <1>2, <2>1 DEF DeviceRefuse, TransmitAnswer
  <2>3. toDevice' \in Seq(Requests)
    BY <1>2 DEF DeviceRefuse, Asked
  <2>4. QED
    BY <1>2, <2>2, <2>3 DEF DeviceRefuse
<1>3. CASE DeviceSwitchToRx
  BY <1>3, MessageFacts DEF DeviceSwitchToRx, Asked, PlainRequestKinds
<1>4. CASE DeviceStandby
  BY <1>4, MessageFacts DEF DeviceStandby, Asked, PlainRequestKinds
<1>5. ASSUME NEW k \in Keys, DeviceReceive(k) PROVE DeviceTypeOK'
  BY <1>5, MessageFacts DEF DeviceReceive
<1>6. ASSUME NEW kind \in EndOfTxKinds, DeviceEndOfTx(kind) PROVE DeviceTypeOK'
  BY <1>6, MessageFacts DEF DeviceEndOfTx
<1>7. ASSUME NEW kind \in ChatterKinds, DeviceChatter(kind) PROVE DeviceTypeOK'
  BY <1>7, MessageFacts DEF DeviceChatter
<1>8. CASE LoseRequest
  BY <1>8 DEF LoseRequest
<1>9. CASE LoseFrame
  BY <1>9 DEF LoseFrame
<1>10. QED
  BY <1>1, <1>2, <1>3, <1>4, <1>5, <1>6, <1>7, <1>8, <1>9 DEF DeviceNext, DeviceAnswer

-------------------------------------------------------------------------------

\* What a caller may do to the client, and what the client does by itself.
ApiStep ==
    \/ Background
    \/ \E r \in Requests : SendRequest(r) \/ SendMessage(r)
    \/ \E f \in Frames : SendRequestReturn(f) \/ ReceiveMessage(f)
    \/ SendRequestDiscard
    \/ SendRequestTimeout
    \/ Close
    \/ UNCHANGED <<deviceVars, apiVars>>

\* A step of the goroutines, and of a call of the client above, keeps the types
\* of the request layer (ApiClient.Open, SendRequest, ReceiveMessage, Close)
LEMMA ApiTypes == ASSUME ApiTypeOK, ApiStep PROVE ApiTypeOK'
<1> USE DEF ApiTypeOK
<1> USE DEF RecvCap, SendCap, SendRoom
<1>1. CASE DeviceNext /\ UNCHANGED apiVars
  BY <1>1, DeviceTypes DEF apiVars
<1>2. CASE ReceiverPush
  BY <1>2 DEF ReceiverPush, DeviceTypeOK
<1>3. CASE ReceiverDrop
  BY <1>3 DEF ReceiverDrop, DeviceTypeOK, NextRead
<1>4. CASE ReceiverPushed
  <2>1. /\ recv \o held \in Seq(Frames)
        /\ Len(recv \o held) = Len(recv) + Len(held)
    BY ConcatProperties
  <2>2. Len(recv \o held) <= RecvCap
    BY <1>4, <2>1 DEF ReceiverPushed
  <2>3. QED
    BY <1>4, <2>1, <2>2 DEF ReceiverPushed, DeviceTypeOK, deviceVars, NextRead
<1>5. CASE ReceiverTimeout \/ SenderExit \/ CloseReturn \/ Close
  BY <1>5 DEF ReceiverTimeout, SenderExit, CloseReturn, Close, DeviceTypeOK, deviceVars
<1>6. CASE ReceiverFail
  BY <1>6 DEF ReceiverFail, DeviceTypeOK
<1>7. CASE SenderTake \/ SenderForward \/ SenderFail
  <2>1. CASE SenderTake
    BY <2>1 DEF SenderTake, DeviceTypeOK, deviceVars
  <2>2. CASE SenderForward
    BY <2>2 DEF SenderForward, DeviceTypeOK
  <2>3. CASE SenderFail
    BY <2>3 DEF SenderFail, DeviceTypeOK, deviceVars
  <2>4. QED
    BY <1>7, <2>1, <2>2, <2>3
<1>8. ASSUME NEW r \in Requests, SendRequest(r) \/ SendMessage(r) PROVE ApiTypeOK'
  <2>1. CASE SendRequest(r)
    BY <2>1 DEF SendRequest, DeviceTypeOK
  <2>2. CASE SendMessage(r)
    BY <2>2 DEF SendMessage, DeviceTypeOK, deviceVars
  <2>3. QED
    BY <1>8, <2>1, <2>2
<1>9. ASSUME NEW f \in Frames, SendRequestReturn(f) \/ ReceiveMessage(f)
      PROVE  ApiTypeOK'
  BY <1>9 DEF SendRequestReturn, ReceiveMessage, DeviceTypeOK, deviceVars
<1>10. CASE SendRequestDiscard \/ SendRequestTimeout
  BY <1>10 DEF SendRequestDiscard, SendRequestTimeout, DeviceTypeOK, deviceVars
<1>11. CASE UNCHANGED <<deviceVars, apiVars>>
  BY <1>11 DEF deviceVars, apiVars, DeviceTypeOK
<1>12. QED
  BY <1>1, <1>2, <1>3, <1>4, <1>5, <1>6, <1>7, <1>8, <1>9, <1>10, <1>11
     DEF ApiStep, Background, Receiver

-------------------------------------------------------------------------------
(* What is on its way to a reader of Recv *)

\* Where the frame at place i was, when the one at place r has been taken away.
Shift(i, r) == IF i < r THEN i ELSE i + 1

\* The step takes the frame at place r, and leaves the others in order.
Loses(r) ==
    /\ r \in 1 .. Len(Arriving)
    /\ Len(Arriving') = Len(Arriving) - 1
    /\ \A i \in 1 .. Len(Arriving') : Arriving'[i] = Arriving[Shift(i, r)]

\* The step puts a frame behind the others.
Gains(f) ==
    /\ Len(Arriving') = Len(Arriving) + 1
    /\ Arriving'[Len(Arriving) + 1] = f
    /\ \A i \in 1 .. Len(Arriving) : Arriving'[i] = Arriving[i]

\* The three queues hold elements of S.
QueuesOf(S) ==
    /\ recv \in Seq(S) /\ held \in Seq(S) /\ toHost \in Seq(S)
    /\ receiver # "push" => held = <<>>

\* So does what they hold together.
LEMMA ArrivingFacts == ASSUME NEW S, QueuesOf(S)
    PROVE  /\ Len(recv) \in Nat /\ Len(held) \in Nat /\ Len(toHost) \in Nat
           /\ Arriving \in Seq(S) /\ Len(Arriving) \in Nat
<1>1. recv \in Seq(S) /\ held \in Seq(S) /\ toHost \in Seq(S)
  BY DEF QueuesOf
<1>2. recv \o held \in Seq(S)
  BY <1>1
<1>3. QED
  BY <1>1, <1>2 DEF Arriving

\* Under any caller they are frames.
LEMMA ArrivingTypes == ASSUME ApiTypeOK
    PROVE  /\ recv \in Seq(Frames) /\ held \in Seq(Frames) /\ toHost \in Seq(Frames)
           /\ Len(recv) \in Nat /\ Len(held) \in Nat /\ Len(toHost) \in Nat
           /\ Arriving \in Seq(Frames) /\ Len(Arriving) \in Nat
           /\ QueuesOf(Frames)
<1>1. QueuesOf(Frames)
  BY DEF ApiTypeOK, DeviceTypeOK, QueuesOf
<1>2. QED
  BY <1>1, ArrivingFacts DEF QueuesOf

\* The reader takes the first frame (api_client.go:188-198).
LEMMA HeadTaken == ASSUME NEW S, QueuesOf(S), recv # <<>>, recv' = Tail(recv),
                          UNCHANGED <<held, toHost>>
                   PROVE  Loses(1) /\ Arriving[1] = Head(recv)
<1>1. recv \in Seq(S) /\ held \in Seq(S) /\ toHost \in Seq(S)
  BY ArrivingFacts DEF QueuesOf
<1> DEFINE q == held \o toHost
<1>2. q \in Seq(S) /\ Len(q) \in Nat
  BY <1>1
<1>3. /\ recv' \in Seq(S) /\ Len(recv') = Len(recv) - 1 /\ Len(recv) \in Nat \ {0}
      /\ \A i \in 1 .. Len(recv') : recv'[i] = recv[i + 1]
      /\ Head(recv) = recv[1]
  BY <1>1
<1>4. Arriving = recv \o q /\ Arriving' = recv' \o q
  <2>1. Arriving = recv \o q
    BY <1>1 DEF Arriving
  <2>2. Arriving' = recv' \o q
    BY <1>1, <1>3 DEF Arriving
  <2>3. QED
    BY <2>1, <2>2
<1> HIDE DEF q
<1>5. /\ Len(Arriving) = Len(recv) + Len(q)
      /\ \A i \in 1 .. Len(recv) + Len(q) :
            Arriving[i] = IF i <= Len(recv) THEN recv[i] ELSE q[i - Len(recv)]
  BY <1>1, <1>2, <1>4, ConcatProperties
<1>6. /\ Len(Arriving') = Len(recv') + Len(q)
      /\ \A i \in 1 .. Len(recv') + Len(q) :
            Arriving'[i] = IF i <= Len(recv') THEN recv'[i] ELSE q[i - Len(recv')]
  BY <1>2, <1>3, <1>4, ConcatProperties
<1>7. ASSUME NEW i \in 1 .. Len(Arriving') PROVE Arriving'[i] = Arriving[i + 1]
  <2>1. CASE i <= Len(recv')
    BY <1>2, <1>3, <1>5, <1>6, <2>1
  <2>2. CASE ~(i <= Len(recv'))
    <3>1. (i + 1) - Len(recv) = i - Len(recv')
      BY <1>2, <1>3, <1>6
    <3>2. QED
      BY <1>2, <1>3, <1>5, <1>6, <2>2, <3>1
  <2>3. QED
    BY <2>1, <2>2
<1>8. QED
  BY <1>2, <1>3, <1>5, <1>6, <1>7 DEF Loses, Shift

\* The receiving goroutine passes frames on (api_client.go:127-174).
LEMMA FramesMove == ASSUME NEW S, QueuesOf(S), ReceiverPush \/ ReceiverPushed
                    PROVE  Arriving' = Arriving
<1>1. recv \in Seq(S) /\ held \in Seq(S) /\ toHost \in Seq(S)
  BY ArrivingFacts DEF QueuesOf
<1>2. CASE ReceiverPush
  <2>1. held = <<>> /\ held' = <<Head(toHost)>> /\ toHost' = Tail(toHost) /\ toHost # <<>>
        /\ recv' = recv
    BY <1>1, <1>2 DEF ReceiverPush, QueuesOf
  <2>2. toHost = <<Head(toHost)>> \o Tail(toHost)
    BY <1>1, <2>1
  <2>3. QED
    BY <1>1, <2>1, <2>2 DEF Arriving
<1>3. CASE ReceiverPushed
  <2>1. recv' = recv \o held /\ held' = <<>> /\ toHost' = toHost
    BY <1>3 DEF ReceiverPushed, deviceVars
  <2>2. QED
    BY <1>1, <2>1 DEF Arriving
<1>4. QED
  BY <1>2, <1>3

\* The first of the frames not yet read is taken, wherever it is in line.
LEMMA NextTaken == ASSUME NEW S, QueuesOf(S), toHost # <<>>, toHost' = Tail(toHost),
                          UNCHANGED <<recv, held>>
                   PROVE  \E r \in 1 .. Len(Arriving) : Loses(r) /\ Arriving[r] = Head(toHost)
<1>1. recv \in Seq(S) /\ held \in Seq(S) /\ toHost \in Seq(S)
  BY ArrivingFacts DEF QueuesOf
<1> DEFINE p == recv \o held
           n == Len(p)
<1>2. p \in Seq(S) /\ n \in Nat
  BY <1>1
<1>3. /\ toHost' \in Seq(S) /\ Len(toHost') = Len(toHost) - 1 /\ Len(toHost) \in Nat \ {0}
      /\ \A i \in 1 .. Len(toHost') : toHost'[i] = toHost[i + 1]
      /\ Head(toHost) = toHost[1]
  BY <1>1
<1>4. Arriving = p \o toHost /\ Arriving' = p \o toHost'
  BY DEF Arriving
<1> HIDE DEF p
<1>5. /\ Len(Arriving) = n + Len(toHost)
      /\ \A i \in 1 .. n + Len(toHost) :
            Arriving[i] = IF i <= n THEN p[i] ELSE toHost[i - n]
  BY <1>1, <1>2, <1>4, ConcatProperties
<1>6. /\ Len(Arriving') = n + Len(toHost')
      /\ \A i \in 1 .. n + Len(toHost') :
            Arriving'[i] = IF i <= n THEN p[i] ELSE toHost'[i - n]
  BY <1>2, <1>3, <1>4, ConcatProperties
<1> DEFINE r == n + 1
<1>7. r \in 1 .. Len(Arriving) /\ Arriving[r] = Head(toHost)
  BY <1>2, <1>3, <1>5
<1>8. ASSUME NEW i \in 1 .. Len(Arriving') PROVE Arriving'[i] = Arriving[Shift(i, r)]
  <2>1. i \in Int /\ 1 <= i /\ i <= n + Len(toHost) - 1
    BY <1>2, <1>3, <1>6
  <2>2. CASE i <= n
    <3>1. i < r /\ i \in 1 .. n + Len(toHost) /\ i \in 1 .. n + Len(toHost')
      BY <1>2, <1>3, <2>1, <2>2
    <3>2. QED
      BY <1>5, <1>6, <2>2, <3>1 DEF Shift
  <2>3. CASE ~(i <= n)
    <3>1. /\ ~(i < r) /\ ~(i + 1 <= n)
          /\ i + 1 \in 1 .. n + Len(toHost) /\ i \in 1 .. n + Len(toHost')
          /\ i - n \in 1 .. Len(toHost')
          /\ (i - n) + 1 = (i + 1) - n
      BY <1>2, <1>3, <2>1, <2>3
    <3>2. toHost'[i - n] = toHost[(i - n) + 1]
      BY <1>3, <3>1
    <3>3. QED
      BY <1>5, <1>6, <2>3, <3>1, <3>2 DEF Shift
  <2>4. QED
    BY <2>2, <2>3
<1>9. QED
  BY <1>2, <1>3, <1>5, <1>6, <1>7, <1>8 DEF Loses

\* A frame the receiving goroutine does not know, or cannot read, is dropped.
LEMMA FrameDropped == ASSUME NEW S, QueuesOf(S), ReceiverDrop
    PROVE  \E r \in 1 .. Len(Arriving) : Loses(r) /\ (Arriving[r].kind = "Logging" \/ Faults)
<1>1. /\ UNCHANGED <<recv, held>> /\ toHost # <<>> /\ toHost' = Tail(toHost)
      /\ Head(toHost).kind = "Logging" \/ Faults
  BY DEF ReceiverDrop, Known
<1>2. QED
  BY <1>1, NextTaken

\* The device sends a frame.
LEMMA FrameSent == ASSUME NEW S, QueuesOf(S), NEW f \in S, Emit(f), UNCHANGED <<recv, held>>
                   PROVE  Gains(f)
<1>1. recv \in Seq(S) /\ held \in Seq(S) /\ toHost \in Seq(S)
  BY ArrivingFacts DEF QueuesOf
<1>2. recv \o held \in Seq(S)
  BY <1>1
<1>3. Arriving' = Append(Arriving, f)
  BY <1>1, <1>2 DEF Emit, Arriving
<1>4. Arriving \in Seq(S)
  BY ArrivingFacts DEF QueuesOf
<1>5. QED
  BY <1>3, <1>4, AppendProperties DEF Gains

-------------------------------------------------------------------------------
(* Answers and events among the frames on their way *)

\* The kinds of answer to a request.
AnswerKinds == {"Transmit"} \cup PlainRequestKinds

\* The places of the answers among the frames under way.
Answers == {i \in 1 .. Len(Arriving) : Arriving[i].kind \in AnswerKinds}

\* Where the frames are that a step leaves on the line.
LEMMA LosesFacts == ASSUME NEW S, QueuesOf(S), NEW r, Loses(r)
    PROVE  /\ \A i \in 1 .. Len(Arriving') :
                /\ Shift(i, r) \in 1 .. Len(Arriving) /\ Shift(i, r) # r
                /\ Arriving'[i] = Arriving[Shift(i, r)]
           /\ \A i, n \in 1 .. Len(Arriving') :
                i < n <=> Shift(i, r) < Shift(n, r)
           /\ \A i, n \in 1 .. Len(Arriving') : Shift(i, r) = Shift(n, r) => i = n
           /\ \A n \in 1 .. Len(Arriving) :
                n # r => \E i \in 1 .. Len(Arriving') : Shift(i, r) = n
<1>1. /\ Len(Arriving) \in Nat /\ r \in 1 .. Len(Arriving)
      /\ Len(Arriving') = Len(Arriving) - 1
      /\ \A i \in 1 .. Len(Arriving') : Arriving'[i] = Arriving[Shift(i, r)]
  BY ArrivingFacts DEF Loses
<1>2. ASSUME NEW n \in 1 .. Len(Arriving), n # r
      PROVE  \E i \in 1 .. Len(Arriving') : Shift(i, r) = n
  <2>1. CASE n < r
    <3>1. n \in 1 .. Len(Arriving') /\ Shift(n, r) = n
      BY <1>1, <2>1 DEF Shift
    <3>2. QED
      BY <3>1
  <2>2. CASE r < n
    <3>1. n - 1 \in 1 .. Len(Arriving') /\ Shift(n - 1, r) = n
      BY <1>1, <2>2 DEF Shift
    <3>2. QED
      BY <3>1
  <2>3. QED
    BY <1>1, <1>2, <2>1, <2>2
<1>3. QED
  BY <1>1, <1>2 DEF Shift

\* The answers left when a frame is taken away, and when one is sent.
LEMMA AnswersLeft == ASSUME ApiTypeOK, NEW r, Loses(r)
    PROVE  /\ \A i \in Answers' : Shift(i, r) \in Answers \ {r}
           /\ \A n \in Answers \ {r} : \E i \in Answers' : Shift(i, r) = n
<1>1. QueuesOf(Frames) /\ r \in 1 .. Len(Arriving)
  BY ArrivingTypes DEF Loses
<1>2. QED
  BY <1>1, LosesFacts DEF Answers

\* A frame that is sent is one more answer, or none.
LEMMA AnswersGained == ASSUME ApiTypeOK, NEW f, Gains(f)
    PROVE  Answers' = Answers \cup (IF f.kind \in AnswerKinds THEN {Len(Arriving) + 1} ELSE {})
<1>1. /\ Len(Arriving) \in Nat
      /\ Len(Arriving') = Len(Arriving) + 1
      /\ Arriving'[Len(Arriving) + 1] = f
      /\ \A i \in 1 .. Len(Arriving) : Arriving'[i] = Arriving[i]
  BY ArrivingTypes DEF Gains
<1>2. 1 .. Len(Arriving') = (1 .. Len(Arriving)) \cup {Len(Arriving) + 1}
  BY <1>1
<1>3. QED
  BY <1>1, <1>2 DEF Answers

\* What the device sends in answer to a request.
LEMMA DeviceAnswers == ASSUME ApiTypeOK, DeviceAnswer, UNCHANGED apiVars
    PROVE  /\ toDevice # <<>> /\ toDevice' = Tail(toDevice)
           /\ \E f \in Frames : /\ Gains(f) /\ f.kind \in AnswerKinds
                                /\ f.kind = Head(toDevice).kind
                                /\ f.about = Head(toDevice).about
<1>1. recv' = recv /\ held' = held
  BY DEF apiVars
<1>2. toDevice # <<>> /\ toDevice' = Tail(toDevice)
  BY DEF DeviceAnswer, DeviceAccept, DeviceRefuse, DeviceSwitchToRx, DeviceStandby, Asked
<1>3. Head(toDevice) \in Requests
  BY <1>2 DEF ApiTypeOK, DeviceTypeOK
<1> DEFINE Sent(f) == /\ Gains(f) /\ f.kind \in AnswerKinds
                      /\ f.kind = Head(toDevice).kind
                      /\ f.about = Head(toDevice).about
<1>4. ASSUME NEW j \in Jobs, DeviceAccept(j) \/ DeviceRefuse(j) PROVE \E f \in Frames : Sent(f)
  <2>1. PICK b \in BOOLEAN : Emit(TransmitAnswer(j, b))
    BY <1>4 DEF DeviceAccept, DeviceRefuse
  <2>2. TransmitAnswer(j, b) \in Frames /\ Gains(TransmitAnswer(j, b))
    BY <1>1, <2>1, MessageFacts, ArrivingTypes, FrameSent
  <2>3. TransmitAnswer(j, b).kind = "Transmit" /\ TransmitAnswer(j, b).about = j
    BY DEF TransmitAnswer
  <2>4. Sent(TransmitAnswer(j, b))
    BY <1>4, <2>2, <2>3 DEF DeviceAccept, DeviceRefuse, Asked, AnswerKinds
  <2>5. QED
    BY <2>2, <2>4
<1>5. ASSUME NEW k \in PlainRequestKinds, Asked(k), Emit(Plain(k))
      PROVE  \E f \in Frames : Sent(f)
  <2>1. Plain(k) \in Frames /\ Gains(Plain(k))
    BY <1>1, <1>5, MessageFacts, ArrivingTypes, FrameSent
  <2>2. Plain(k).kind = k /\ Plain(k).about = None
    BY DEF Plain
  <2>3. Head(toDevice).about = None
    BY <1>3, <1>5 DEF Requests, Asked, PlainRequestKinds
  <2>4. Sent(Plain(k))
    BY <1>5, <2>1, <2>2, <2>3 DEF Asked, AnswerKinds
  <2>5. QED
    BY <2>1, <2>4
<1>6. QED
  BY <1>2, <1>4, <1>5 DEF DeviceAnswer, DeviceSwitchToRx, DeviceStandby, PlainRequestKinds

\* What it sends unasked.
DeviceEvent ==
    \/ \E k \in Keys : DeviceReceive(k)
    \/ \E kind \in EndOfTxKinds : DeviceEndOfTx(kind)
    \/ \E kind \in ChatterKinds : DeviceChatter(kind)

\* What the loop answers with a request for RX.
Events == {"PacketReceived"} \cup EndOfTxKinds

\* It answers no request, is about a packet that was sent, and leaves the mode
\* unless it is an event.
LEMMA DeviceTells == ASSUME ApiTypeOK, DeviceEvent, UNCHANGED apiVars
    PROVE  /\ UNCHANGED <<toDevice, aired, accepted>>
           /\ \E f \in Frames : /\ Gains(f) /\ f.kind \notin AnswerKinds
                                /\ f.kind = "PacketReceived" => f.about \in aired
                                /\ f.kind \in Events \/ mode' = mode
<1>1. recv' = recv /\ held' = held
  BY DEF apiVars
<1> DEFINE Sent(f) == /\ Gains(f) /\ f.kind \notin AnswerKinds
                      /\ f.kind = "PacketReceived" => f.about \in aired
                      /\ f.kind \in Events \/ mode' = mode
<1>2. ASSUME NEW k \in Keys, DeviceReceive(k) PROVE \E f \in Frames : Sent(f)
  <2>1. PacketReceived(k) \in Frames /\ Gains(PacketReceived(k))
    BY <1>1, <1>2, MessageFacts, ArrivingTypes, FrameSent DEF DeviceReceive
  <2>2. Sent(PacketReceived(k))
    BY <1>2, <2>1 DEF DeviceReceive, PacketReceived, AnswerKinds, PlainRequestKinds, Events
  <2>3. QED
    BY <2>1, <2>2
<1>3. ASSUME NEW k \in EndOfTxKinds \cup Chatter, Emit(Plain(k)),
             k \in EndOfTxKinds \/ mode' = mode
      PROVE  \E f \in Frames : Sent(f)
  <2>1. Plain(k) \in Frames /\ Gains(Plain(k)) /\ Plain(k).kind = k
    BY <1>1, <1>3, MessageFacts, ArrivingTypes, FrameSent DEF Plain
  <2>2. k \notin AnswerKinds /\ k # "PacketReceived"
    BY DeviceAssumption DEF EndOfTxKinds, ChatterKinds, AnswerKinds, PlainRequestKinds
  <2>3. Sent(Plain(k))
    BY <1>3, <2>1, <2>2 DEF Events
  <2>4. QED
    BY <2>1, <2>3
<1>4. UNCHANGED <<toDevice, aired, accepted>>
  BY DEF DeviceEvent, DeviceReceive, DeviceEndOfTx, DeviceChatter
<1>5. QED
  BY <1>2, <1>3, <1>4 DEF DeviceEvent, DeviceEndOfTx, DeviceChatter

\* That is all the device does; the line may lose what is on it.
LEMMA DeviceSteps == ASSUME DeviceNext
                     PROVE  DeviceAnswer \/ DeviceEvent \/ LoseRequest \/ LoseFrame
  BY DEF DeviceNext, DeviceEvent

-------------------------------------------------------------------------------
(* The client under any caller of its interface *)

\* Whatever its caller does, the client's state has the declared types.
THEOREM ApiTypeCorrect == CallerSpec => []ApiTypeOK
<1>1. CallerInit => ApiTypeOK
  BY DeviceAssumption DEF CallerInit, DeviceInit, ApiInit, ApiTypeOK, DeviceTypeOK, Modes,
     DeviceAssumption, RecvCap, SendCap, SendRoom, NoCall
<1>2. ApiTypeOK /\ [CallerNext]_callerVars => ApiTypeOK'
  <2> SUFFICES ASSUME [CallerNext]_callerVars PROVE ApiStep
    BY ApiTypes
  <2>1. ASSUME Request PROVE ApiStep
    <3>1. SomeRequest \subseteq Requests
      BY MessageFacts DEF SomeRequest
    <3>2. QED
      BY <2>1, <3>1 DEF Request, ApiStep
  <2>2. CASE Return \/ Read \/ Close \/ Background
    BY <2>2 DEF Return, Read, ApiStep
  <2>3. CASE UNCHANGED callerVars
    BY <2>3 DEF callerVars, ApiStep
  <2>4. QED
    BY <2>1, <2>2, <2>3 DEF CallerNext
<1>3. QED
  BY <1>1, <1>2, PTL DEF CallerSpec

-------------------------------------------------------------------------------
(***************************************************************************)
(* The client implements OrderedChannel, for every caller: what it is given *)
(* reaches the reader in order, once, and without gaps.                     *)
(***************************************************************************)
\* The first of a queue is taken, or any of it.
LEMMA TakenFromQueue == ASSUME ApiTypeOK, ApiTypeOK', NEW r, Loses(r)
    PROVE  /\ r = 1 => Arriving # <<>> /\ Arriving' = Tail(Arriving)
           /\ Arriving' = Frame!RemoveAt(Arriving, r)
<1> DEFINE s == Arriving
           t == Arriving'
           n == Len(Arriving)
<1>1. s \in Seq(Frames) /\ t \in Seq(Frames) /\ n \in Nat
  <2>1. (Arriving \in Seq(Frames))'
    <3>1. recv' \in Seq(Frames) /\ held' \in Seq(Frames) /\ toHost' \in Seq(Frames)
      BY DEF ApiTypeOK, DeviceTypeOK
    <3>2. recv' \o held' \in Seq(Frames)
      BY <3>1
    <3>3. QED
      BY <3>1, <3>2 DEF Arriving
  <2>2. QED
    BY <2>1, ArrivingTypes
<1>2. /\ r \in 1 .. n /\ Len(t) = n - 1
      /\ \A i \in 1 .. n - 1 : t[i] = s[Shift(i, r)]
  BY DEF Loses
<1> HIDE DEF s, t, n
<1>3. Len(s) = n
  BY DEF s, n
<1>4. ASSUME r = 1 PROVE s # <<>> /\ t = Tail(s)
  <2>1. s # <<>>
    BY <1>1, <1>2, <1>3
  <2>2. /\ Tail(s) \in Seq(Frames) /\ Len(Tail(s)) = n - 1
        /\ \A i \in 1 .. n - 1 : Tail(s)[i] = s[i + 1]
    BY <1>1, <1>3, <2>1
  <2>3. \A i \in 1 .. n - 1 : Shift(i, 1) = i + 1
    BY <1>1 DEF Shift
  <2>4. QED
    BY <1>1, <1>2, <1>4, <2>1, <2>2, <2>3, SeqEqual
<1>5. t = Frame!RemoveAt(s, r)
  <2> DEFINE a == SubSeq(s, 1, r - 1)
             b == SubSeq(s, r + 1, n)
  <2>1. /\ a \in Seq(Frames) /\ Len(a) = r - 1
        /\ \A i \in 1 .. r - 1 : a[i] = s[i]
    BY <1>1, <1>2, <1>3
  <2>2. /\ b \in Seq(Frames) /\ Len(b) = n - r
        /\ \A i \in 1 .. n - r : b[i] = s[r + i]
    BY <1>1, <1>2, <1>3
  <2>3. Frame!RemoveAt(s, r) = a \o b
    BY <1>3 DEF Frame!RemoveAt
  <2> HIDE DEF a, b
  <2>4. /\ a \o b \in Seq(Frames) /\ Len(a \o b) = n - 1
        /\ \A i \in 1 .. n - 1 : (a \o b)[i] = IF i <= r - 1 THEN a[i] ELSE b[i - (r - 1)]
    <3>1. /\ a \o b \in Seq(Frames) /\ Len(a \o b) = Len(a) + Len(b)
          /\ \A i \in 1 .. Len(a) + Len(b) :
                (a \o b)[i] = IF i <= Len(a) THEN a[i] ELSE b[i - Len(a)]
      BY <2>1, <2>2, ConcatProperties
    <3>2. Len(a) + Len(b) = n - 1
      BY <1>1, <1>2, <2>1, <2>2
    <3>3. QED
      BY <2>1, <3>1, <3>2
  <2>5. ASSUME NEW i \in 1 .. n - 1 PROVE (a \o b)[i] = s[Shift(i, r)]
    <3>1. CASE i < r
      BY <1>1, <1>2, <2>1, <2>4, <3>1 DEF Shift
    <3>2. CASE ~(i < r)
      <4>1. i - (r - 1) \in 1 .. n - r /\ r + (i - (r - 1)) = i + 1 /\ ~(i <= r - 1)
        BY <1>1, <1>2, <3>2
      <4>2. QED
        BY <2>2, <2>4, <3>2, <4>1 DEF Shift
    <3>3. QED
      BY <3>1, <3>2
  <2>6. QED
    BY <1>1, <1>2, <2>3, <2>4, <2>5, SeqEqual
<1>6. QED
  BY <1>4, <1>5 DEF s, t

\* A frame taken from Recv is the first of the queue.
LEMMA QueueTaken == ASSUME ApiTypeOK, ApiTypeOK', recv # <<>>, recv' = Tail(recv),
                           UNCHANGED <<held, toHost, receiver>>
                    PROVE  Frame!Receive
<1>1. CASE receiver = "exited"
  BY <1>1 DEF Frame!Receive
<1>2. CASE receiver # "exited"
  <2>1. Arriving # <<>> /\ Arriving' = Tail(Arriving)
    BY ArrivingTypes, HeadTaken, TakenFromQueue
  <2>2. QED
    BY <1>2, <2>1 DEF Frame!Receive
<1>3. QED
  BY <1>1, <1>2

\* When the receiver ends, the reader still has what is in Recv.
LEMMA QueueBreaks == ASSUME ApiTypeOK, receiver # "exited", receiver' = "exited",
                            recv' = recv \/ recv' = recv \o held
                     PROVE  Frame!Break
<1>1. recv \in Seq(Frames) /\ held \in Seq(Frames) /\ toHost \in Seq(Frames)
  BY ArrivingTypes
<1>2. recv \o held \in Seq(Frames) /\ held \o toHost \in Seq(Frames)
  BY <1>1
<1>3. Arriving = recv \o (held \o toHost) /\ Arriving = (recv \o held) \o toHost
  BY <1>1 DEF Arriving
<1>4. \A p, s \in Seq(Frames) : Len(p) \in 0 .. Len(p \o s) /\ SubSeq(p \o s, 1, Len(p)) = p
  <2> SUFFICES ASSUME NEW p \in Seq(Frames), NEW s \in Seq(Frames)
               PROVE  Len(p) \in 0 .. Len(p \o s) /\ SubSeq(p \o s, 1, Len(p)) = p
    OBVIOUS
  <2>1. /\ p \o s \in Seq(Frames) /\ Len(p \o s) = Len(p) + Len(s)
        /\ \A i \in 1 .. Len(p) : (p \o s)[i] = p[i]
    BY ConcatProperties
  <2>2. Len(p) \in Nat /\ Len(s) \in Nat
    OBVIOUS
  <2>3. /\ SubSeq(p \o s, 1, Len(p)) \in Seq(Frames) /\ Len(SubSeq(p \o s, 1, Len(p))) = Len(p)
        /\ \A i \in 1 .. Len(p) : SubSeq(p \o s, 1, Len(p))[i] = (p \o s)[i]
    BY <2>1, <2>2
  <2>4. QED
    BY <2>1, <2>2, <2>3, SeqEqual
<1>5. \E n \in 0 .. Len(Arriving) : recv' = SubSeq(Arriving, 1, n)
  BY <1>1, <1>2, <1>3, <1>4
<1>6. QED
  BY <1>5 DEF Frame!Break

\* Every step of the client and of its caller is one of the channel, or none.
LEMMA ChannelSteps == ASSUME ApiTypeOK, ApiTypeOK', [CallerNext]_callerVars PROVE [Frame!Next]_(Frame!vars)
<1> USE DEF Frame!Next, Frame!vars, callerVars, deviceVars, apiVars
<1>1. ASSUME UNCHANGED <<recv, held, toHost, receiver>> PROVE UNCHANGED Frame!vars
  BY <1>1 DEF Arriving
<1>2. ASSUME recv # <<>>, recv' = Tail(recv), UNCHANGED <<held, toHost, receiver>>
      PROVE  Frame!Next
  BY <1>2, QueueTaken
<1>3. CASE Request
  BY <1>1, <1>3 DEF Request, SendRequest, SendMessage
<1>4. CASE Return \/ Read
  BY <1>1, <1>2, <1>4 DEF Return, Read, SendRequestDiscard, SendRequestTimeout,
     SendRequestReturn, ReceiveMessage
<1>5. CASE Close \/ SenderTake \/ SenderForward \/ SenderFail \/ SenderExit \/ CloseReturn
           \/ UNCHANGED callerVars
  BY <1>1, <1>5 DEF Close, SenderTake, SenderForward, SenderFail, SenderExit, CloseReturn
<1>6. CASE ReceiverPush
  BY <1>6, ArrivingTypes, FramesMove DEF ReceiverPush
<1>7. CASE ReceiverPushed
  <2>1. CASE receiver' = "exited"
    BY <1>7, <2>1, QueueBreaks DEF ReceiverPushed
  <2>2. CASE receiver' # "exited"
    BY <1>7, <2>2, ArrivingTypes, FramesMove DEF ReceiverPushed
  <2>3. QED
    BY <2>1, <2>2
<1>8. CASE ReceiverDrop
  <2>1. CASE receiver' = "exited"
    BY <1>8, <2>1, QueueBreaks DEF ReceiverDrop
  <2>2. CASE receiver' # "exited"
    <3>1. PICK r \in 1 .. Len(Arriving) :
            Loses(r) /\ (Arriving[r].kind = "Logging" \/ Faults)
      BY <1>8, ArrivingTypes, FrameDropped
    <3>2. Arriving' = Frame!RemoveAt(Arriving, r) /\ r \in DOMAIN Arriving
      BY <3>1, TakenFromQueue, ArrivingTypes
    <3>3. Arriving[r] \in Droppable
      BY <3>1, ArrivingTypes DEF Droppable
    <3>4. Frame!Vanish
      BY <1>8, <2>2, <3>2, <3>3 DEF Frame!Vanish, ReceiverDrop
    <3>5. QED
      BY <3>4
  <2>3. QED
    BY <2>1, <2>2
<1>9. CASE ReceiverTimeout \/ ReceiverFail
  BY <1>9, QueueBreaks DEF ReceiverTimeout, ReceiverFail
<1>10. CASE DeviceNext /\ UNCHANGED apiVars
  <2>1. ASSUME NEW f \in Frames, Emit(f) PROVE [Frame!Next]_(Frame!vars)
    <3>1. Arriving' = Append(Arriving, f)
      <4>1. recv \in Seq(Frames) /\ held \in Seq(Frames) /\ toHost \in Seq(Frames)
        BY ArrivingTypes
      <4>2. recv \o held \in Seq(Frames)
        BY <4>1
      <4>3. QED
        BY <1>10, <2>1, <4>1, <4>2 DEF Emit, Arriving
    <3>2. CASE receiver = "exited"
      BY <1>10, <3>2
    <3>3. CASE receiver # "exited"
      BY <1>10, <2>1, <3>1, <3>3 DEF Frame!Send
    <3>4. QED
      BY <3>2, <3>3
  <2>2. CASE DeviceAnswer
    <3>1. \A j \in Jobs : TransmitAnswer(j, TRUE) \in Frames /\ TransmitAnswer(j, FALSE) \in Frames
      BY MessageFacts
    <3>2. Plain("SwitchToRx") \in Frames /\ Plain("Standby") \in Frames
      BY MessageFacts DEF PlainRequestKinds
    <3>3. QED
      BY <2>1, <2>2, <3>1, <3>2 DEF DeviceAnswer, DeviceAccept, DeviceRefuse, DeviceSwitchToRx,
         DeviceStandby
  <2>3. CASE DeviceEvent
    <3>1. \A k \in Keys : PacketReceived(k) \in Frames
      BY MessageFacts
    <3>2. \A k \in EndOfTxKinds \cup Chatter : Plain(k) \in Frames
      BY MessageFacts
    <3>3. QED
      BY <2>1, <2>3, <3>1, <3>2 DEF DeviceEvent, DeviceReceive, DeviceEndOfTx, DeviceChatter
  <2>4. CASE LoseRequest
    BY <1>1, <1>10, <2>4 DEF LoseRequest
  <2>5. CASE LoseFrame
    <3>1. CASE receiver = "exited"
      BY <1>10, <3>1
    <3>2. CASE receiver # "exited"
      <4>1. PICK r \in 1 .. Len(Arriving) : Loses(r)
        BY <1>10, <2>5, ArrivingTypes, NextTaken DEF LoseFrame
      <4>2. Arriving' = Frame!RemoveAt(Arriving, r) /\ r \in DOMAIN Arriving
        BY <4>1, TakenFromQueue, ArrivingTypes
      <4>3. Arriving[r] \in Droppable
        BY <2>5, ArrivingTypes DEF Droppable, LoseFrame
      <4>4. Frame!Vanish
        BY <1>10, <3>2, <4>2, <4>3 DEF Frame!Vanish
      <4>5. QED
        BY <4>4
    <3>3. QED
      BY <3>1, <3>2
  <2>6. QED
    BY <1>10, <2>2, <2>3, <2>4, <2>5 DEF DeviceNext, DeviceEvent
<1>11. QED
  BY <1>3, <1>4, <1>5, <1>6, <1>7, <1>8, <1>9, <1>10 DEF CallerNext, Background, Receiver

\* The client is an OrderedChannel.
THEOREM FramesInOrder == CallerSpec => InOrder
<1>1. CallerInit => Frame!Init
  BY DEF CallerInit, DeviceInit, ApiInit, Frame!Init, Arriving
<1>2. ApiTypeOK /\ ApiTypeOK' /\ [CallerNext]_callerVars => [Frame!Next]_(Frame!vars)
  BY ChannelSteps
<1>3. QED
  BY <1>1, <1>2, ApiTypeCorrect, PTL DEF CallerSpec, InOrder, Frame!Spec
===============================================================================
