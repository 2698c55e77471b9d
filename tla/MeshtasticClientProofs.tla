------------------------ MODULE MeshtasticClientProofs ------------------------
(***************************************************************************)
(* Theorems about MeshtasticClient, for every set of packets, capacity,    *)
(* window and limit, on a good line and on a faulty one; that it           *)
(* implements RadioLoop; and, last, that Open (RadioInit) returns without  *)
(* an error only when the radio is ready.                                  *)
(***************************************************************************)
EXTENDS RadioInit, ApiClientProofs, FiniteSetTheorems

\* Every step of the client is a step its caller may make of the layer below.
LEMMA StepsBelow == ASSUME TypeOK, [Next]_vars PROVE ApiStep
<1> USE DEF ApiStep
<1>1. CASE HandleRadioMessage
  BY <1>1 DEF HandleRadioMessage, HandleNewPacket, HandleSeenPacket, HandleEndOfTx,
     HandleRSSI, HandleOther, Handling
<1>2. CASE TakePacket \/ WriteFailure
  BY <1>2 DEF TakePacket, WriteFailure, TransmitFailure, SwitchToRxFailure, DeinitFailure,
     SendRequestFails
<1>3. CASE Exchange
  <2>1. Plain("SwitchToRx") \in Requests /\ Plain("Standby") \in Requests
    BY MessageFacts DEF PlainRequestKinds
  <2>2. CASE SwitchToRx \/ DeinitRadio
    BY <2>1, <2>2 DEF SwitchToRx, DeinitRadio
  <2>3. CASE SwitchToRxTimeout \/ TransmitTimeout \/ Discard \/ LoopEnd
    BY <2>3 DEF SwitchToRxTimeout, TransmitTimeout, Discard, LoopEnd
  <2>4. CASE SwitchedToRx \/ Transmitted \/ TransmitBusy \/ TransmitRefused
    BY <2>4 DEF SwitchedToRx, Transmitted, TransmitBusy, TransmitRefused
  <2>5. CASE TransmitPacket
    <3>1. TransmitRequest(hand) \in Requests
      BY <2>5, MessageFacts DEF TransmitPacket, TypeOK, ClientTypeOK
    <3>2. QED
      BY <2>5, <3>1 DEF TransmitPacket
  <2>6. QED
    BY <1>3, <2>2, <2>3, <2>4, <2>5 DEF Exchange
<1>4. CASE Push
  BY <1>4 DEF Push, Deliver, PushRSSI, PushError, PushWarning
<1>5. CASE RetryReturn
  BY <1>5 DEF RetryReturn
<1>6. ASSUME NEW j \in Jobs, Retry(j) \/ Submit(j) PROVE ApiStep
  BY <1>6 DEF Retry, RetryTimer, RetryPush, RetryAbort, Submit
<1>7. CASE Cancel \/ LoopBreak \/ CloseApi
  BY <1>7 DEF Cancel, LoopBreak, CloseApi
<1>8. CASE NodeStep \/ StopNode \/ Tick
  BY <1>8 DEF NodeStep, TakeIncoming, TakeError, TakeWarning, TakeRSSI, StopNode, Tick
<1>9. CASE BackgroundStep
  BY <1>9 DEF BackgroundStep
<1>10. CASE UNCHANGED vars
  BY <1>10 DEF vars
<1>11. QED
  BY <1>1, <1>2, <1>3, <1>4, <1>5, <1>6, <1>7, <1>8, <1>9, <1>10 DEF Next

\* Every step keeps the types of the loop, the channels, the records and the
\* retries (MeshtasticClient.Open, Close)
LEMMA ClientTypes == ASSUME TypeOK, [Next]_vars PROVE ClientTypeOK'
<1> USE ClientAssumption DEF TypeOK, ClientTypeOK, Places
<1> USE DEF channelVars, seenVars, recordVars, retryVars, nodeVars
<1>1. CASE HandleRadioMessage
  <2>1. CASE HandleNewPacket
    <3>1. PICK msg \in Frames : HandleNewPacket!(msg)
      BY <2>1 DEF HandleNewPacket
    <3>2. msg.about \in Keys
      BY <3>1, AboutFacts
    <3>3. QED
      BY <3>1, <3>2 DEF Record, Remembered
  <2>2. CASE HandleSeenPacket
    BY <2>2 DEF HandleSeenPacket, Remembered
  <2>3. CASE HandleEndOfTx \/ HandleRSSI
    BY <2>3 DEF HandleEndOfTx, HandleRSSI
  <2>4. CASE HandleOther
    BY <2>4 DEF HandleOther
  <2>5. QED
    BY <1>1, <2>1, <2>2, <2>3, <2>4 DEF HandleRadioMessage
<1>2. CASE TakePacket
  <2>1. /\ outgoing' \in Seq(Jobs) /\ Len(outgoing') <= ChanCap
        /\ hand' \in Jobs
    BY <1>2 DEF TakePacket
  <2>2. seen' \subseteq Keys
    BY <1>2 DEF TakePacket, Remembered
  <2>3. QED
    BY <1>2, <2>1, <2>2 DEF TakePacket
<1>3. CASE Exchange \/ WriteFailure
  <2>1. CASE SwitchToRx \/ TransmitPacket
    BY <2>1 DEF SwitchToRx, TransmitPacket
  <2>2. CASE DeinitRadio
    BY <2>2 DEF DeinitRadio
  <2>3. CASE SwitchedToRx \/ SwitchToRxTimeout \/ TransmitTimeout \/ LoopEnd
    BY <2>3 DEF SwitchedToRx, SwitchToRxTimeout, TransmitTimeout, LoopEnd
  <2>4. CASE Discard
    BY <2>4 DEF Discard
  <2>5. CASE WriteFailure
    BY <2>5 DEF WriteFailure, TransmitFailure, SwitchToRxFailure, DeinitFailure
  <2>6. CASE Transmitted
    <3>1. KeyOf[hand] \in Keys
      BY <2>6, DeviceAssumption DEF Transmitted
    <3>2. seen' \subseteq Keys /\ age' \in [Keys -> 0 .. Window]
      BY <2>6, <3>1 DEF Transmitted, Record
    <3>3. QED
      BY <2>6, <3>2 DEF Transmitted
  <2>7. CASE TransmitBusy
    BY <2>7 DEF TransmitBusy
  <2>8. CASE TransmitRefused
    BY <2>8 DEF TransmitRefused
  <2>9. QED
    BY <1>3, <2>1, <2>2, <2>3, <2>4, <2>5, <2>6, <2>7, <2>8 DEF Exchange
<1>4. CASE Push
  <2>1. CASE Deliver
    BY <2>1 DEF Deliver
  <2>2. CASE PushRSSI
    BY <2>2 DEF PushRSSI
  <2>3. CASE PushError
    BY <2>3 DEF PushError
  <2>4. CASE PushWarning
    BY <2>4 DEF PushWarning
  <2>5. QED
    BY <1>4, <2>1, <2>2, <2>3, <2>4 DEF Push
<1>5. CASE RetryReturn
  BY <1>5 DEF RetryReturn
<1>6. ASSUME NEW j \in Jobs, Retry(j) \/ Submit(j) PROVE ClientTypeOK'
  <2>1. CASE RetryTimer(j)
    BY <2>1 DEF RetryTimer
  <2>2. CASE RetryPush(j)
    BY <2>2 DEF RetryPush
  <2>3. CASE RetryAbort(j)
    BY <2>3 DEF RetryAbort
  <2>4. CASE Submit(j)
    BY <2>4 DEF Submit
  <2>5. QED
    BY <1>6, <2>1, <2>2, <2>3, <2>4 DEF Retry
<1>7. CASE Cancel
  BY <1>7 DEF Cancel
<1>8. CASE LoopBreak \/ CloseApi
  BY <1>8 DEF LoopBreak, CloseApi
<1>9. CASE NodeStep
  <2>1. CASE TakeIncoming
    <3>1. incoming' \in Seq(Keys) /\ Len(incoming') <= ChanCap
      BY <2>1 DEF TakeIncoming
    <3>2. QED
      BY <2>1, <3>1 DEF TakeIncoming
  <2>2. CASE TakeError
    BY <2>2 DEF TakeError
  <2>3. CASE TakeWarning
    BY <2>3 DEF TakeWarning
  <2>4. CASE TakeRSSI
    BY <2>4 DEF TakeRSSI
  <2>5. QED
    BY <1>9, <2>1, <2>2, <2>3, <2>4 DEF NodeStep
<1>10. CASE StopNode
  BY <1>10 DEF StopNode
<1>11. CASE Tick
  <2>1. ASSUME NEW t \in 0 .. Window PROVE Older(t) \in 0 .. Window
    BY DEF Older
  <2>2. /\ age' \in [Keys -> 0 .. Window]
        /\ heard' \in [Keys -> 0 .. Window]
        /\ sent' \in [Keys -> 0 .. Window]
    BY <1>11, <2>1 DEF Tick
  <2>3. ticked' \in BOOLEAN
    BY <1>11 DEF Tick
  <2>4. QED
    BY <1>11, <2>2, <2>3 DEF Tick
<1>12. CASE BackgroundStep
  <2>1. sent' \in [Keys -> 0 .. Window]
    BY <1>12 DEF BackgroundStep
  <2>2. QED
    BY <1>12, <2>1 DEF BackgroundStep
<1>13. CASE UNCHANGED vars
  BY <1>13 DEF vars
<1>14. QED
  BY <1>1, <1>2, <1>3, <1>4, <1>5, <1>6, <1>7, <1>8, <1>9, <1>10, <1>11, <1>12, <1>13
     DEF Next

\* The state of the client has the declared types, and no channel ever holds
\* more than its capacity.
THEOREM TypeCorrect == Spec => []TypeOK
<1>1. Init => TypeOK
  <2> SUFFICES ASSUME Init PROVE TypeOK
    OBVIOUS
  <2>1. ApiTypeOK
    BY DeviceAssumption DEF Init, ClientInit, DeviceInit, ApiInit, ApiTypeOK, DeviceTypeOK,
          Modes, RecvCap, SendCap, SendRoom, NoCall
  <2>2. cancelled \in BOOLEAN /\ nodeUp \in BOOLEAN /\ ticked \in BOOLEAN
    BY DEF Init, ClientInit
  <2>3. ClientTypeOK
    BY <2>2, ClientAssumption DEF Init, ClientInit, ClientTypeOK, Places
  <2>4. QED
    BY <2>1, <2>3 DEF TypeOK
<1>2. TypeOK /\ [Next]_vars => TypeOK'
  BY StepsBelow, ApiTypes, ClientTypes DEF TypeOK
<1>3. QED
  BY <1>1, <1>2, PTL DEF Spec

-------------------------------------------------------------------------------
(* One place for every packet *)

\* What a queue holds after a push and after a pop.
LEMMA QueueFacts == ASSUME NEW S, NEW q \in Seq(S)
    PROVE  /\ \A x \in S : Elements(Append(q, x)) = Elements(q) \cup {x}
           /\ \A x \in S : Distinct(q) /\ x \notin Elements(q) => Distinct(Append(q, x))
           /\ q # <<>> => /\ Head(q) \in Elements(q)
                          /\ Elements(Tail(q)) \subseteq Elements(q)
                          /\ Elements(q) \subseteq Elements(Tail(q)) \cup {Head(q)}
                          /\ Distinct(q) => /\ Head(q) \notin Elements(Tail(q))
                                            /\ Distinct(Tail(q))
<1> USE DEF Elements, Distinct
<1>1. ASSUME NEW x \in S PROVE Elements(Append(q, x)) = Elements(q) \cup {x}
  <2> DEFINE p == Append(q, x)
  <2>1. Len(p) = Len(q) + 1 /\ p[Len(q) + 1] = x /\ \A i \in 1 .. Len(q) : p[i] = q[i]
    BY AppendProperties
  <2>2. Len(q) \in Nat
    OBVIOUS
  <2>3. 1 .. Len(p) = (1 .. Len(q)) \cup {Len(q) + 1}
    BY <2>1, <2>2
  <2> HIDE DEF p
  <2>4. QED
    BY <2>1, <2>3 DEF p
<1>2. ASSUME NEW x \in S, Distinct(q), x \notin Elements(q)
      PROVE  Distinct(Append(q, x))
  <2> DEFINE p == Append(q, x)
  <2>1. Len(p) = Len(q) + 1 /\ p[Len(q) + 1] = x /\ \A i \in 1 .. Len(q) : p[i] = q[i]
    BY AppendProperties
  <2>2. Len(q) \in Nat
    OBVIOUS
  <2>3. \A i \in 1 .. Len(p) : i \in 1 .. Len(q) \/ i = Len(q) + 1
    BY <2>1, <2>2
  <2> HIDE DEF p
  <2>4. QED
    BY <1>2, <2>1, <2>3 DEF p
<1>3. ASSUME q # <<>>
      PROVE  /\ Head(q) \in Elements(q)
             /\ Elements(Tail(q)) \subseteq Elements(q)
             /\ Elements(q) \subseteq Elements(Tail(q)) \cup {Head(q)}
             /\ Distinct(q) => /\ Head(q) \notin Elements(Tail(q))
                               /\ Distinct(Tail(q))
  <2> DEFINE t == Tail(q)
  <2>1. Len(q) \in Nat \ {0} /\ Head(q) = q[1]
    BY <1>3
  <2>2. Len(t) = Len(q) - 1 /\ \A i \in 1 .. Len(t) : t[i] = q[i + 1]
    BY <1>3
  <2>3. \A i \in 1 .. Len(t) : i + 1 \in 1 .. Len(q) /\ i + 1 # 1
    BY <2>1, <2>2
  <2>4. 1 \in 1 .. Len(q)
    BY <2>1
  <2> HIDE DEF t
  <2>5. \A i, n \in 1 .. Len(t) : i + 1 = n + 1 => i = n
    OBVIOUS
  <2>6. Elements(t) \subseteq Elements(q) /\ Head(q) \in Elements(q)
    BY <2>1, <2>2, <2>3, <2>4
  <2>7. ASSUME Distinct(q) PROVE Head(q) \notin Elements(t) /\ Distinct(t)
    BY <2>1, <2>2, <2>3, <2>4, <2>5, <2>7
  <2>8. ASSUME NEW i \in 1 .. Len(q), i # 1 PROVE q[i] \in Elements(t)
    <3>1. i - 1 \in 1 .. Len(t) /\ (i - 1) + 1 = i
      BY <2>1, <2>2, <2>8
    <3>2. t[i - 1] = q[i]
      BY <2>2, <3>1
    <3>3. QED
      BY <3>1, <3>2
  <2>9. Elements(q) \subseteq Elements(t) \cup {Head(q)}
    BY <2>1, <2>8
  <2>10. QED
    BY <2>6, <2>7, <2>9 DEF t
<1>4. QED
  BY <1>1, <1>2, <1>3

\* No step takes a packet to a second place: the retry goroutine, the channel and
\* the loop hand it over (meshtastic.go, lines 91-121)
LEMMA OnePlaceStep == ASSUME TypeOK, OnePlace, [Next]_vars PROVE OnePlace'
<1> USE DEF OnePlace, Queued, InHand
<1> USE DEF channelVars, retryVars, nodeVars
<1>1. outgoing \in Seq(Jobs) /\ None \notin Jobs /\ Jobs \cap Keys = {}
  BY DeviceAssumption DEF TypeOK, ClientTypeOK
\* The steps that leave the four places alone, or only empty the hand.
<1>2. ASSUME UNCHANGED <<outgoing, sleeping, pushing, submitted>>,
             hand' = hand \/ hand' \notin Jobs
      PROVE  OnePlace'
  BY <1>2
<1>3. CASE HandleRadioMessage
  <2>1. CASE HandleNewPacket
    <3>1. hand' \in Keys
      BY <2>1, AboutFacts DEF HandleNewPacket
    <3>2. QED
      BY <1>1, <1>2, <2>1, <3>1 DEF HandleNewPacket
  <2>2. CASE HandleSeenPacket \/ HandleEndOfTx \/ HandleRSSI \/ HandleOther
    BY <1>2, <2>2 DEF HandleSeenPacket, HandleEndOfTx, HandleRSSI, HandleOther
  <2>3. QED
    BY <1>3, <2>1, <2>2 DEF HandleRadioMessage
\* The head of the queue goes to the hand.
<1>4. CASE TakePacket
  <2>1. /\ outgoing # <<>> /\ hand' = Head(outgoing) /\ outgoing' = Tail(outgoing)
        /\ UNCHANGED <<sleeping, pushing, submitted>>
    BY <1>4 DEF TakePacket
  <2> DEFINE q == outgoing
             t == Tail(outgoing)
  <2>2. /\ Head(q) \in Elements(q) /\ Elements(t) \subseteq Elements(q)
        /\ Head(q) \notin Elements(t) /\ Distinct(t)
    BY <1>1, <2>1, QueueFacts
  <2>3. outgoing' = t
    BY <2>1
  <2> HIDE DEF t
  <2>4. QED
    BY <2>1, <2>2, <2>3
<1>5. CASE Exchange \/ WriteFailure
  <2>1. CASE Exchange
    BY <1>1, <1>2, <2>1 DEF Exchange, SwitchToRx, SwitchedToRx, SwitchToRxTimeout,
       TransmitPacket, Transmitted, TransmitBusy, TransmitRefused, TransmitTimeout, Discard,
       DeinitRadio, LoopEnd
  <2>2. CASE WriteFailure
    BY <1>2, <2>2 DEF WriteFailure, TransmitFailure, SwitchToRxFailure, DeinitFailure
  <2>3. QED
    BY <1>5, <2>1, <2>2
<1>6. CASE Push
  <2>1. CASE Deliver \/ PushRSSI \/ PushError
    BY <1>1, <1>2, <2>1 DEF Deliver, PushRSSI, PushError
  <2>2. CASE PushWarning
    <3>1. hand \in Jobs
      BY <2>2 DEF PushWarning, TypeOK, ClientTypeOK
    <3>2. QED
      BY <1>1, <2>2, <3>1 DEF PushWarning
  <2>3. QED
    BY <1>6, <2>1, <2>2 DEF Push
<1>7. CASE RetryReturn
  BY <1>2, <1>7 DEF RetryReturn
<1>8. ASSUME NEW j \in Jobs, Retry(j) \/ Submit(j) PROVE OnePlace'
  <2> DEFINE a == Append(outgoing, j)
  <2>1. /\ Elements(a) = Elements(outgoing) \cup {j}
        /\ j \notin Elements(outgoing) => Distinct(a)
    BY <1>1, QueueFacts
  <2> HIDE DEF a
  <2>2. CASE RetryTimer(j)
    BY <2>2 DEF RetryTimer
  <2>3. CASE RetryPush(j)
    <3>1. /\ outgoing' = a /\ j \in pushing /\ pushing' = pushing \ {j}
          /\ UNCHANGED <<hand, sleeping, submitted>>
      BY <2>3 DEF RetryPush, a
    <3>2. QED
      BY <2>1, <3>1
  <2>4. CASE RetryAbort(j)
    BY <2>4 DEF RetryAbort
  <2>5. CASE Submit(j)
    <3>1. /\ outgoing' = a /\ j \notin submitted /\ submitted' = submitted \cup {j}
          /\ UNCHANGED <<hand, sleeping, pushing>>
      BY <2>5 DEF Submit, a
    <3>2. QED
      BY <2>1, <3>1
  <2>6. QED
    BY <1>8, <2>2, <2>3, <2>4, <2>5 DEF Retry
<1>9. CASE Cancel \/ LoopBreak \/ CloseApi \/ StopNode \/ Tick \/ BackgroundStep
  BY <1>2, <1>9 DEF Cancel, LoopBreak, CloseApi, StopNode, Tick, BackgroundStep
<1>10. CASE NodeStep
  BY <1>2, <1>10 DEF NodeStep, TakeIncoming, TakeError, TakeWarning, TakeRSSI
<1>11. CASE UNCHANGED vars
  BY <1>2, <1>11 DEF vars
<1>12. QED
  BY <1>3, <1>4, <1>5, <1>6, <1>7, <1>8, <1>9, <1>10, <1>11 DEF Next

\* A packet the client has been given is never in two of its places at once,
\* so it is never sent, retried or reported by two goroutines.
THEOREM PacketsHaveOnePlace == Spec => []OnePlace
<1>1. Init => OnePlace
  BY DeviceAssumption DEF Init, ClientInit, OnePlace, Queued, InHand, Elements, Distinct
<1>2. TypeOK /\ OnePlace /\ [Next]_vars => OnePlace'
  BY OnePlaceStep
<1>3. QED
  BY <1>1, <1>2, TypeCorrect, PTL DEF Spec

-------------------------------------------------------------------------------
(* The counter of pending retries *)

\* RetryAccounting counts with Cardinality, so the sets have to be finite:
\* they are, since they grow by one packet at a time.
RetryInv ==
    /\ IsFiniteSet(sleeping)
    /\ IsFiniteSet(pushing)
    /\ RetryAccounting

\* Counter and goroutines change together (meshtastic.go, lines 92-113)
LEMMA RetryInvStep == ASSUME TypeOK, OnePlace, RetryInv, [Next]_vars PROVE RetryInv'
<1> USE DEF RetryInv, RetryAccounting, PendingRetries
<1> USE DEF channelVars, retryVars, nodeVars
<1> DEFINE s == Cardinality(sleeping)
           p == Cardinality(pushing)
<1>1. /\ s \in Nat /\ p \in Nat /\ returned \in Nat /\ retransmissions \in Int
      /\ RetryLimit \in Nat
  BY FS_CardinalityType, ClientAssumption DEF TypeOK, ClientTypeOK
\* The steps that neither touch a retry nor begin or end the warning.
<1>2. ASSUME UNCHANGED <<sleeping, pushing, returned, retransmissions>>,
             pc' = "warnings" <=> pc = "warnings",
             cancelled => cancelled'
      PROVE  RetryInv'
  BY <1>2
<1>3. CASE HandleRadioMessage
  BY <1>2, <1>3 DEF HandleRadioMessage, Handling, HandleNewPacket, HandleSeenPacket,
     HandleEndOfTx, HandleRSSI, HandleOther
<1>4. CASE TakePacket \/ WriteFailure
  BY <1>2, <1>4 DEF TakePacket, WriteFailure, TransmitFailure, SwitchToRxFailure, DeinitFailure
<1>5. CASE TransmitBusy
  BY <1>1, <1>5 DEF TransmitBusy
<1>6. CASE Exchange /\ ~TransmitBusy
  BY <1>2, <1>6 DEF Exchange, SwitchToRx, SwitchedToRx, SwitchToRxTimeout, TransmitPacket,
     Transmitted, TransmitRefused, TransmitTimeout, Discard, DeinitRadio, LoopEnd
<1>7. CASE PushWarning
  <2>1. hand \in Jobs /\ hand \notin sleeping
    BY <1>7 DEF PushWarning, TypeOK, ClientTypeOK, OnePlace, InHand
  <2>2. IsFiniteSet(sleeping') /\ Cardinality(sleeping') = s + 1
    BY <1>7, <2>1, FS_AddElement DEF PushWarning
  <2>3. QED
    BY <1>1, <1>7, <2>2 DEF PushWarning
<1>8. CASE Push /\ ~PushWarning
  BY <1>2, <1>8 DEF Push, Deliver, PushRSSI, PushError
<1>9. CASE RetryReturn
  BY <1>1, <1>9 DEF RetryReturn
<1>10. ASSUME NEW j \in Jobs, RetryTimer(j) PROVE RetryInv'
  <2>1. j \in sleeping /\ j \notin pushing
    BY <1>10 DEF RetryTimer, OnePlace
  <2>2. IsFiniteSet(sleeping') /\ Cardinality(sleeping') = s - 1
    BY <1>10, <2>1, FS_RemoveElement DEF RetryTimer
  <2>3. IsFiniteSet(pushing') /\ Cardinality(pushing') = p + 1
    BY <1>10, <2>1, FS_AddElement DEF RetryTimer
  <2>4. QED
    BY <1>1, <1>10, <2>2, <2>3 DEF RetryTimer
<1>11. ASSUME NEW j \in Jobs, RetryPush(j) PROVE RetryInv'
  <2>1. IsFiniteSet(pushing') /\ Cardinality(pushing') = p - 1
    BY <1>11, FS_RemoveElement DEF RetryPush
  <2>2. /\ returned' = returned + 1
        /\ UNCHANGED <<pc, sleeping, retransmissions, cancelled>>
    BY <1>11 DEF RetryPush
  <2>3. s' = s /\ PendingRetries' = PendingRetries
    BY <1>1, <2>1, <2>2
  <2>4. QED
    BY <1>1, <2>1, <2>2, <2>3
<1>12. ASSUME NEW j \in Jobs, RetryAbort(j) PROVE RetryInv'
  <2>1. IsFiniteSet(sleeping') /\ Cardinality(sleeping') = s - 1
    BY <1>12, FS_RemoveElement DEF RetryAbort
  <2>2. QED
    BY <1>1, <1>12, <2>1 DEF RetryAbort
<1>13. ASSUME NEW j \in Jobs, Submit(j) PROVE RetryInv'
  BY <1>2, <1>13 DEF Submit
<1>14. CASE Cancel
  BY <1>2, <1>14 DEF Cancel
<1>15. CASE LoopBreak \/ CloseApi \/ StopNode \/ Tick \/ BackgroundStep
  BY <1>2, <1>15 DEF LoopBreak, CloseApi, StopNode, Tick, BackgroundStep
<1>16. CASE NodeStep
  BY <1>2, <1>16 DEF NodeStep, TakeIncoming, TakeError, TakeWarning, TakeRSSI
<1>17. CASE UNCHANGED vars
  BY <1>2, <1>17 DEF vars
<1>18. QED
  BY <1>3, <1>4, <1>5, <1>6, <1>7, <1>8, <1>9, <1>10, <1>11, <1>12, <1>13, <1>14, <1>15,
     <1>16, <1>17 DEF Next, Retry

\* The counter that decides whether a busy packet is dropped never counts
\* fewer retries than are pending, counts exactly those until Close, and
\* never exceeds the limit by more than one.
THEOREM RetriesAreCounted == Spec => []RetryAccounting
<1>1. Init => RetryInv
  <2> SUFFICES ASSUME Init PROVE RetryInv
    OBVIOUS
  <2>1. sleeping = {} /\ pushing = {} /\ returned = 0 /\ retransmissions = 0 /\ pc = "select"
    BY DEF Init, ClientInit
  <2>2. IsFiniteSet({}) /\ Cardinality({}) = 0
    BY FS_EmptySet
  <2>3. QED
    BY <2>1, <2>2, ClientAssumption DEF RetryInv, RetryAccounting, PendingRetries
<1>2. TypeOK /\ OnePlace /\ RetryInv /\ [Next]_vars => RetryInv'
  BY RetryInvStep
<1>3. RetryInv => RetryAccounting
  BY DEF RetryInv
<1>4. QED
  BY <1>1, <1>2, <1>3, TypeCorrect, PacketsHaveOnePlace, PTL DEF Spec

-------------------------------------------------------------------------------
(* No duplicates *)

\* A packet given to the node within the window is still on record, and its
\* record is no older than that.
RecordInv == \A k \in Keys : heard[k] < Window => k \in seen /\ age[k] <= heard[k]

\* haveSeenPacket makes the record a delivery goes with, and forgetOldSeenPackets
\* removes no record younger than the window
LEMMA RecordInvStep == ASSUME TypeOK, RecordInv, [Next]_vars PROVE RecordInv'
<1> USE DEF RecordInv
<1> USE DEF channelVars, seenVars, recordVars, retryVars, nodeVars
<1>1. /\ seen \subseteq Keys
      /\ age \in [Keys -> 0 .. Window]
      /\ heard \in [Keys -> 0 .. Window]
      /\ Window \in Nat \ {0}
  BY ClientAssumption DEF TypeOK, ClientTypeOK
<1>2. ASSUME UNCHANGED <<seen, age, heard>> PROVE RecordInv'
  BY <1>2
\* forgetOldSeenPackets forgets no packet heard within the window.
<1>3. \A k \in Keys : heard[k] < Window => k \in Remembered
  BY <1>1 DEF Remembered
<1>4. ASSUME seen' = Remembered, UNCHANGED <<age, heard>> PROVE RecordInv'
  BY <1>3, <1>4
<1>5. ASSUME NEW k \in Keys, NEW known, Record(k, known),
             \A n \in Keys : heard[n] < Window => n \in known
      PROVE  /\ \A n \in Keys : heard[n] < Window => n \in seen' /\ age'[n] <= heard[n]
             /\ k \in seen'
             /\ k \notin known => age'[k] = 0
  BY <1>1, <1>5 DEF Record
<1>6. CASE HandleNewPacket
  <2>1. PICK k \in Keys : /\ k \notin Remembered /\ Record(k, Remembered)
                          /\ heard' = [heard EXCEPT ![k] = 0]
    BY <1>6, AboutFacts DEF HandleNewPacket
  <2>2. QED
    BY <1>1, <1>3, <1>5, <2>1
<1>7. CASE Transmitted
  <2>1. hand \in Jobs
    BY <1>7 DEF Transmitted, TypeOK, ClientTypeOK
  <2>2. KeyOf[hand] \in Keys /\ Record(KeyOf[hand], seen) /\ heard' = heard
    BY <1>7, <2>1, DeviceAssumption DEF Transmitted
  <2>3. QED
    BY <1>5, <2>2
<1>8. CASE HandleRadioMessage /\ ~HandleNewPacket
  BY <1>2, <1>4, <1>8 DEF HandleRadioMessage, HandleSeenPacket, HandleEndOfTx,
     HandleRSSI, HandleOther
<1>9. CASE TakePacket
  BY <1>4, <1>9 DEF TakePacket
<1>10. CASE (Exchange /\ ~Transmitted) \/ WriteFailure
  BY <1>2, <1>10 DEF Exchange, SwitchToRx, SwitchedToRx, SwitchToRxTimeout, TransmitPacket,
     TransmitBusy, TransmitRefused, TransmitTimeout, Discard, DeinitRadio, LoopEnd,
     WriteFailure, TransmitFailure, SwitchToRxFailure, DeinitFailure
<1>11. CASE Push \/ RetryReturn
  BY <1>2, <1>11 DEF Push, Deliver, PushRSSI, PushError, PushWarning, RetryReturn
<1>12. ASSUME NEW j \in Jobs, Retry(j) \/ Submit(j) PROVE RecordInv'
  BY <1>2, <1>12 DEF Retry, RetryTimer, RetryPush, RetryAbort, Submit
<1>13. CASE Cancel \/ LoopBreak \/ CloseApi \/ StopNode \/ BackgroundStep
  BY <1>2, <1>13 DEF Cancel, LoopBreak, CloseApi, StopNode, BackgroundStep
<1>14. CASE NodeStep
  BY <1>2, <1>14 DEF NodeStep, TakeIncoming, TakeError, TakeWarning, TakeRSSI
<1>15. CASE Tick
  <2>1. \A k \in Keys : /\ age'[k] = Older(age[k]) /\ heard'[k] = Older(heard[k])
                        /\ seen' = seen
    BY <1>15 DEF Tick
  <2>2. QED
    BY <1>1, <2>1 DEF Older
<1>16. CASE UNCHANGED vars
  BY <1>2, <1>16 DEF vars
<1>17. QED
  BY <1>6, <1>7, <1>8, <1>9, <1>10, <1>11, <1>12, <1>13, <1>14, <1>15, <1>16 DEF Next

\* However often the radio hears a packet, and whatever else goes on, the node
\* is given it once in a window.
THEOREM NodeSeesNoDuplicates == Spec => NoDuplicate
<1>1. Init => RecordInv
  BY ClientAssumption DEF Init, ClientInit, RecordInv
<1>2. TypeOK /\ RecordInv /\ [Next]_vars => RecordInv'
  BY RecordInvStep
<1>3. TypeOK /\ RecordInv /\ [Next]_vars => [HandleNewPacket => heard[hand'] = Window]_vars
  <2> SUFFICES ASSUME TypeOK, RecordInv, HandleNewPacket PROVE heard[hand'] = Window
    OBVIOUS
  <2>1. PICK k \in Keys : k \notin Remembered /\ hand' = k
    BY AboutFacts DEF HandleNewPacket
  <2>2. heard[k] \in 0 .. Window /\ Window \in Nat /\ age[k] \in 0 .. Window
    BY <2>1, ClientAssumption DEF TypeOK, ClientTypeOK
  <2>3. QED
    BY <2>1, <2>2 DEF RecordInv, Remembered
<1>4. QED
  BY <1>1, <1>2, <1>3, TypeCorrect, PTL DEF Spec, NoDuplicate

-------------------------------------------------------------------------------
(***************************************************************************)
(* MeshtasticClient implements RadioLoop, for every instance: what Node    *)
(* assumes of the radio is what the client does.                           *)
(***************************************************************************)
\* The client starts with empty channels and its loop in the select
LEMMA LoopInit == Init => Loop!Init
BY DEF Init, ClientInit, Loop!Init, LoopPlace, InLoop, ReportCounts, Retries, Loop!Reports

\* A message from the device: a packet for the node, a reading, or nothing yet.
LEMMA LoopReceives == ASSUME TypeOK, HandleRadioMessage PROVE [Loop!Next]_(Loop!vars)
<1> USE DEF LoopPlace, InLoop, ReportCounts, Retries, Loop!vars, Loop!Next,
            Loop!LoopStep, Loop!Hear, channelVars, retryVars, nodeVars
<1>1. CASE HandleNewPacket
  <2>1. pc = "select" /\ pc' = "incoming" /\ hand' \in Keys
    BY <1>1, AboutFacts DEF HandleNewPacket, Handling
  <2>2. UNCHANGED <<channelVars, retryVars, nodeVars>>
    BY <1>1 DEF HandleNewPacket
  <2>3. Loop!Hear
    BY <2>1, <2>2
  <2>4. QED
    BY <2>3
<1>2. CASE HandleSeenPacket \/ HandleEndOfTx
  BY <1>2 DEF HandleSeenPacket, HandleEndOfTx, Handling
<1>3. CASE HandleRSSI
  <2>1. "ContinuousRSSI" \in Chatter
    BY <1>3 DEF HandleRSSI, Frames, PlainRequestKinds, EndOfTxKinds
  <2>2. QED
    BY <1>3, <2>1 DEF HandleRSSI, Handling
<1>4. CASE HandleOther
  BY <1>4 DEF HandleOther
<1>5. QED
  BY <1>1, <1>2, <1>3, <1>4 DEF HandleRadioMessage

\* An exchange that begins, goes on or ends.
LEMMA LoopExchanges == ASSUME TypeOK, TakePacket \/ Exchange \/ WriteFailure
                       PROVE  [Loop!Next]_(Loop!vars)
<1> USE DEF LoopPlace, InLoop, ReportCounts, Retries, Loop!vars, Loop!Next,
            Loop!LoopStep, channelVars, retryVars, nodeVars
<1>1. CASE TakePacket
  BY <1>1 DEF TakePacket, Loop!Take
<1>2. CASE TransmitPacket \/ WriteFailure
  BY <1>2 DEF TransmitPacket, WriteFailure, TransmitFailure, SwitchToRxFailure, DeinitFailure,
     Loop!Answer, Loop!End
<1>3. CASE SwitchToRx \/ SwitchedToRx \/ SwitchToRxTimeout
  BY <1>3 DEF SwitchToRx, SwitchedToRx, SwitchToRxTimeout, Loop!Answer
<1>4. CASE Transmitted \/ TransmitRefused \/ TransmitTimeout
  BY <1>4 DEF Transmitted, TransmitRefused, TransmitTimeout, Loop!Answer
<1>5. CASE TransmitBusy
  BY <1>5 DEF TransmitBusy, Loop!Answer, TypeOK, ClientTypeOK
<1>6. CASE Discard
  BY <1>6 DEF Discard
<1>7. CASE DeinitRadio \/ LoopEnd
  BY <1>7 DEF DeinitRadio, LoopEnd, Loop!End
<1>8. QED
  BY <1>1, <1>2, <1>3, <1>4, <1>5, <1>6, <1>7 DEF Exchange

\* A push onto one of the channels.
LEMMA LoopPushes == ASSUME TypeOK, Push PROVE [Loop!Next]_(Loop!vars)
<1> USE DEF LoopPlace, InLoop, ReportCounts, Retries, Loop!vars, Loop!Next,
            Loop!LoopStep, Loop!Push, Loop!Reports, TypeOK, ClientTypeOK
<1>1. CASE Deliver
  BY <1>1 DEF Deliver, Loop!PushIncoming, retryVars, nodeVars
<1>2. CASE PushRSSI
  <2>1. ReportCounts' = [ReportCounts EXCEPT !["rssi"] = @ + 1]
    BY <1>2 DEF PushRSSI
  <2>2. Loop!PushReport("rssi")
    BY <1>2, <2>1 DEF PushRSSI, Loop!PushReport, retryVars, nodeVars
  <2>3. QED
    BY <2>2
<1>3. CASE PushError
  <2>1. ReportCounts' = [ReportCounts EXCEPT !["errors"] = @ + 1]
    <3>1. Len(errors') = Len(errors) + 1 /\ rssi' = rssi /\ warnings' = warnings
      BY <1>3 DEF PushError
    <3>2. QED
      BY <3>1
  <2>2. Loop!PushReport("errors")
    BY <1>3, <2>1 DEF PushError, Loop!PushReport, retryVars, nodeVars
  <2>3. QED
    BY <2>2
<1>4. CASE PushWarning
  <2>1. ReportCounts' = [ReportCounts EXCEPT !["warnings"] = @ + 1]
    <3>1. Len(warnings') = Len(warnings) + 1 /\ rssi' = rssi /\ errors' = errors
      BY <1>4 DEF PushWarning
    <3>2. QED
      BY <3>1
  <2>2. Loop!PushReport("warnings")
    BY <1>4, <2>1 DEF PushWarning, Loop!PushReport, nodeVars
  <2>3. QED
    BY <2>2
<1>5. QED
  BY <1>1, <1>2, <1>3, <1>4 DEF Push

\* A retry goroutine, or a packet from the node.  That a packet is in one
\* place is what makes a retry that ends disappear from Retries.
LEMMA LoopRetries == ASSUME TypeOK, OnePlace, NEW j \in Jobs, Retry(j) \/ Submit(j)
                     PROVE  [Loop!Next]_(Loop!vars)
<1> USE DEF LoopPlace, InLoop, ReportCounts, Retries, Loop!vars, Loop!Next, OnePlace
<1>1. CASE RetryTimer(j)
  BY <1>1 DEF RetryTimer, channelVars, nodeVars
<1>2. CASE RetryPush(j)
  BY <1>2 DEF RetryPush, Loop!Retry, nodeVars
<1>3. CASE RetryAbort(j)
  BY <1>3 DEF RetryAbort, Loop!Retry, channelVars, nodeVars
<1>4. CASE Submit(j)
  BY <1>4 DEF Submit, Loop!Send, retryVars
<1>5. QED
  BY <1>1, <1>2, <1>3, <1>4 DEF Retry

\* The node empties a channel.
LEMMA LoopReaders == ASSUME TypeOK, NodeStep PROVE [Loop!Next]_(Loop!vars)
<1> USE DEF LoopPlace, InLoop, ReportCounts, Retries, Loop!vars, Loop!Next,
            Loop!ReadReport, Loop!Reports, TypeOK, ClientTypeOK, retryVars, nodeVars
<1>1. CASE TakeIncoming
  BY <1>1 DEF TakeIncoming, Loop!ReadIncoming
<1>2. CASE TakeError
  <2>1. ReportCounts' = [ReportCounts EXCEPT !["errors"] = @ - 1]
    <3>1. Len(errors') = Len(errors) - 1 /\ rssi' = rssi /\ warnings' = warnings
      BY <1>2 DEF TakeError
    <3>2. QED
      BY <3>1
  <2>2. Loop!ReadReport("errors")
    BY <1>2, <2>1 DEF TakeError
  <2>3. QED
    BY <2>2
<1>3. CASE TakeWarning
  <2>1. ReportCounts' = [ReportCounts EXCEPT !["warnings"] = @ - 1]
    <3>1. Len(warnings') = Len(warnings) - 1 /\ rssi' = rssi /\ errors' = errors
      BY <1>3 DEF TakeWarning
    <3>2. QED
      BY <3>1
  <2>2. Loop!ReadReport("warnings")
    BY <1>3, <2>1 DEF TakeWarning
  <2>3. QED
    BY <2>2
<1>4. CASE TakeRSSI
  <2>1. ReportCounts' = [ReportCounts EXCEPT !["rssi"] = @ - 1]
    BY <1>4 DEF TakeRSSI
  <2>2. Loop!ReadReport("rssi")
    BY <1>4, <2>1 DEF TakeRSSI
  <2>3. QED
    BY <2>2
<1>5. QED
  BY <1>1, <1>2, <1>3, <1>4 DEF NodeStep

\* Every step of the client is one of RadioLoop, or changes nothing RadioLoop sees
LEMMA LoopSteps == ASSUME TypeOK, OnePlace, [Next]_vars PROVE [Loop!Next]_(Loop!vars)
<1> USE DEF LoopPlace, InLoop, ReportCounts, Retries, Loop!vars, Loop!Next,
            Loop!LoopStep, channelVars, retryVars, nodeVars
<1>1. CASE RetryReturn
  BY <1>1 DEF RetryReturn
<1>2. CASE Cancel
  BY <1>2 DEF Cancel, Loop!Cancel
<1>3. CASE LoopBreak
  BY <1>3 DEF LoopBreak, Loop!Break
<1>4. CASE CloseApi \/ StopNode \/ Tick \/ BackgroundStep
  BY <1>4 DEF CloseApi, StopNode, Tick, BackgroundStep
<1>5. CASE UNCHANGED vars
  BY <1>5 DEF vars
<1>6. QED
  BY <1>1, <1>2, <1>3, <1>4, <1>5, LoopReceives, LoopExchanges, LoopPushes, LoopRetries,
     LoopReaders DEF Next

\* The client is a RadioLoop (meshtastic.go:68-139): the node may be checked,
\* or proved, against that in its place.
THEOREM ClientIsRadioLoop == Spec => ImplementsRadioLoop
<1>1. Spec => [](TypeOK /\ OnePlace)
  BY TypeCorrect, PacketsHaveOnePlace, PTL
<1>2. QED
  BY <1>1, LoopInit, LoopSteps, PTL DEF Spec, ImplementsRadioLoop, Loop!Spec

-------------------------------------------------------------------------------
(* One exchange at a time *)

\* The packet in the loop's hand is one it is about to send, to have an answer
\* for, to retry or to report.
HandInv == hand \in Jobs => pc \in {"send", "transmit", "warnings", "errors"}

\* The request awaited is that of the place the loop is at; the channel Send is
\* not used.
CallInv ==
    /\ pc = "transmit" => call = TransmitRequest(hand)
    /\ pc = "rx" => call = Plain("SwitchToRx")
    /\ pc = "standby" => call = Plain("Standby")
    /\ pc \notin {"transmit", "rx", "standby"} => call = NoCall
    /\ send = <<>> /\ sender # "write"

\* Every step keeps both.
LEMMA HandStep == ASSUME TypeOK, HandInv, CallInv, [Next]_vars PROVE HandInv' /\ CallInv'
<1> USE DEF HandInv, CallInv
<1> USE DEF channelVars, seenVars, retryVars, nodeVars, deviceVars, apiVars
<1>0. None \notin Jobs /\ Jobs \cap Keys = {}
  BY DeviceAssumption
<1>1. CASE HandleRadioMessage
  <2>1. CASE HandleNewPacket
    <3>1. hand' \in Keys /\ pc = "select" /\ pc' = "incoming" /\ UNCHANGED <<call, send, sender>>
      BY <2>1, AboutFacts DEF HandleNewPacket, Handling, ReceiveMessage
    <3>2. QED
      BY <1>0, <3>1
  <2>2. CASE HandleSeenPacket \/ HandleEndOfTx \/ HandleRSSI \/ HandleOther
    <3>1. /\ pc = "select" /\ pc' \in {"select", "switch", "rssi"}
          /\ UNCHANGED <<call, send, sender, hand>>
      BY <2>2 DEF HandleSeenPacket, HandleEndOfTx, HandleRSSI, HandleOther, Handling,
         ReceiveMessage
    <3>2. QED
      BY <3>1
  <2>3. QED
    BY <1>1, <2>1, <2>2 DEF HandleRadioMessage
<1>2. CASE TakePacket
  BY <1>2 DEF TakePacket
<1>3. CASE SwitchToRx \/ DeinitRadio \/ TransmitPacket
  BY <1>3 DEF SwitchToRx, DeinitRadio, TransmitPacket, SendRequest
<1>4. CASE SwitchedToRx \/ SwitchToRxTimeout
  BY <1>4 DEF SwitchedToRx, SwitchToRxTimeout, SendRequestReturn, SendRequestTimeout
<1>5. CASE Transmitted
  BY <1>0, <1>5 DEF Transmitted, SendRequestReturn
<1>6. CASE TransmitBusy \/ TransmitRefused \/ TransmitTimeout
  BY <1>6 DEF TransmitBusy, TransmitRefused, TransmitTimeout, SendRequestReturn,
     SendRequestTimeout
<1>7. CASE WriteFailure
  BY <1>7 DEF WriteFailure, TransmitFailure, SwitchToRxFailure, DeinitFailure, SendRequestFails
<1>8. CASE Discard
  BY <1>8 DEF Discard, SendRequestDiscard
<1>9. CASE LoopEnd
  BY <1>9 DEF LoopEnd, SendRequestReturn, SendRequestTimeout
<1>10. CASE Push
  BY <1>0, <1>10 DEF Push, Deliver, PushRSSI, PushError, PushWarning
<1>11. CASE RetryReturn \/ NodeStep \/ StopNode \/ Tick \/ Cancel \/ CloseApi
  BY <1>11 DEF RetryReturn, NodeStep, TakeIncoming, TakeError, TakeWarning, TakeRSSI, StopNode,
     Tick, Cancel, CloseApi, Close
<1>12. ASSUME NEW j \in Jobs, Retry(j) \/ Submit(j) PROVE HandInv' /\ CallInv'
  BY <1>12 DEF Retry, RetryTimer, RetryPush, RetryAbort, Submit
<1>13. CASE LoopBreak
  BY <1>13 DEF LoopBreak
<1>14. CASE BackgroundStep
  <2>1. UNCHANGED <<call, send>> /\ sender' # "write"
    BY <1>14 DEF BackgroundStep, Background, Receiver, ReceiverPush, ReceiverDrop,
          ReceiverPushed, ReceiverTimeout, ReceiverFail, SenderTake, SenderForward, SenderFail,
          SenderExit, CloseReturn
  <2>2. QED
    BY <1>14, <2>1 DEF BackgroundStep
<1>15. CASE UNCHANGED vars
  BY <1>15 DEF vars
<1>16. QED
  BY <1>1, <1>2, <1>3, <1>4, <1>5, <1>6, <1>7, <1>8, <1>9, <1>10, <1>11, <1>12, <1>13, <1>14,
     <1>15 DEF Next, Exchange

\* If answers are never late the loop has one exchange at a time: its request is
\* under way, or one answer to it, and no other.  One of them is, on a line that
\* loses nothing.
ExchangeInv ==
    /\ toDevice # <<>> => call # NoCall /\ toDevice = <<call>>
    /\ \A i \in Answers :
        /\ call # NoCall /\ toDevice = <<>>
        /\ Arriving[i].kind = call.kind /\ Arriving[i].about = call.about
    /\ \A i, n \in Answers : i = n
    /\ ~Faults /\ call # NoCall /\ toDevice = <<>> => Answers # {}

\* A frame that is no answer comes or goes, or a frame is lost.
LEMMA OtherFrames == ASSUME ApiTypeOK, ExchangeInv, UNCHANGED <<call, toDevice>>,
                            \/ Arriving' = Arriving
                            \/ \E r \in 1 .. Len(Arriving) :
                                    Loses(r) /\ (r \notin Answers \/ Faults)
                            \/ \E f : Gains(f) /\ f.kind \notin AnswerKinds
                     PROVE  ExchangeInv'
<1>1. CASE Arriving' = Arriving
  BY <1>1 DEF ExchangeInv, Answers
<1>2. ASSUME NEW r \in 1 .. Len(Arriving), Loses(r), r \notin Answers \/ Faults
      PROVE  ExchangeInv'
  <2>1. \A i \in Answers' : /\ Shift(i, r) \in Answers
                            /\ Arriving'[i] = Arriving[Shift(i, r)]
    BY <1>2, AnswersLeft, ArrivingTypes, LosesFacts DEF Answers
  <2>2. ASSUME NEW i \in Answers', NEW n \in Answers' PROVE i = n
    <3>1. Shift(i, r) = Shift(n, r)
      BY <2>1 DEF ExchangeInv
    <3>2. i \in 1 .. Len(Arriving') /\ n \in 1 .. Len(Arriving')
      BY DEF Answers
    <3>3. QED
      BY <1>2, <3>1, <3>2, ArrivingTypes, LosesFacts
  <2>3. Answers # {} => Answers' # {} \/ Faults
    BY <1>2, AnswersLeft
  <2>4. QED
    BY <2>1, <2>2, <2>3 DEF ExchangeInv
<1>3. ASSUME NEW f, Gains(f), f.kind \notin AnswerKinds PROVE ExchangeInv'
  <2>1. Answers' = Answers
    BY <1>3, AnswersGained
  <2>2. \A i \in Answers : Arriving'[i] = Arriving[i]
    BY <1>3 DEF Gains, Answers
  <2>3. QED
    BY <2>1, <2>2 DEF ExchangeInv
<1>4. QED
  BY <1>1, <1>2, <1>3

\* The device answers.
LEMMA AnswerSent == ASSUME ApiTypeOK, ExchangeInv, call' = call, toDevice # <<>>,
                           toDevice' = Tail(toDevice),
                           NEW f \in Frames, Gains(f), f.kind \in AnswerKinds,
                           f.kind = Head(toDevice).kind, f.about = Head(toDevice).about
                    PROVE  ExchangeInv'
<1>1. call # NoCall /\ toDevice = <<call>>
  BY DEF ExchangeInv
<1>5. toDevice' = <<>> /\ Head(toDevice) = call
  BY <1>1
<1>2. Answers = {}
  BY <1>1 DEF ExchangeInv
<1>3. Answers' = {Len(Arriving) + 1} /\ Arriving'[Len(Arriving) + 1] = f
  BY <1>2, AnswersGained DEF Gains
<1>4. QED
  BY <1>1, <1>5, <1>3 DEF ExchangeInv

\* The loop takes the answer.
LEMMA AnswerTaken == ASSUME ApiTypeOK, ExchangeInv, NEW f \in Frames, SendRequestReturn(f)
                     PROVE  /\ ExchangeInv'
                            /\ 1 \in Answers /\ f = Arriving[1]
                            /\ toDevice = <<>> /\ Answers' = {}
<1>1. /\ Loses(1) /\ Arriving[1] = Head(recv) /\ f = Head(recv) /\ f.kind = call.kind
      /\ call # NoCall /\ call' = NoCall /\ toDevice' = toDevice
  BY ArrivingTypes, HeadTaken DEF SendRequestReturn, deviceVars
<1>2. call.kind \in AnswerKinds
  BY <1>1 DEF ApiTypeOK, Requests, AnswerKinds
<1>3. 1 \in Answers
  BY <1>1, <1>2 DEF Answers, Loses
<1>4. toDevice = <<>> /\ Answers \ {1} = {}
  BY <1>3 DEF ExchangeInv
<1>5. Answers' = {}
  BY <1>1, <1>4, AnswersLeft
<1>6. QED
  BY <1>1, <1>3, <1>4, <1>5 DEF ExchangeInv

\* The loop makes a request.
LEMMA RequestMade == ASSUME ApiTypeOK, ExchangeInv, NEW r \in Requests, SendRequest(r)
                     PROVE  ExchangeInv' /\ toDevice' = <<r>> /\ Answers' = {}
<1>1. /\ call = NoCall /\ call' = r /\ toDevice' = Append(toDevice, r)
      /\ UNCHANGED <<toHost, recv, held>>
  BY DEF SendRequest
<1>2. toDevice = <<>> /\ Answers = {}
  BY <1>1 DEF ExchangeInv
<1>3. toDevice' = <<r>>
  BY <1>1, <1>2
<1>4. Arriving' = Arriving /\ Answers' = Answers
  BY <1>1 DEF Answers, Arriving
<1>5. r # NoCall
  BY ApiAssumption DEF NoCall
<1>6. QED
  BY <1>1, <1>2, <1>3, <1>4, <1>5 DEF ExchangeInv

\* The request on the line is lost.
LEMMA RequestLost == ASSUME ApiTypeOK, ExchangeInv, LoseRequest, UNCHANGED apiVars
                     PROVE  ExchangeInv' /\ toDevice # <<>> /\ toDevice' = <<>>
<1>1. toDevice # <<>> /\ toDevice' = Tail(toDevice) /\ Faults
      /\ UNCHANGED <<call, recv, held, toHost>>
  BY DEF LoseRequest, apiVars
<1>2. toDevice = <<call>> /\ Answers = {}
  BY <1>1 DEF ExchangeInv
<1>3. toDevice' = <<>>
  BY <1>1, <1>2
<1>4. Answers' = Answers
  BY <1>1 DEF Answers, Arriving
<1>5. QED
  BY <1>1, <1>2, <1>3, <1>4 DEF ExchangeInv

\* When the loop gives up, request or answer has been lost.
LEMMA NothingDue == ASSUME ApiTypeOK, ExchangeInv, ~Late, SendRequestTimeout
                    PROVE  ExchangeInv' /\ Faults /\ toDevice = <<>> /\ Answers = {}
<1>1. /\ call # NoCall /\ ~AnswerDue /\ call' = NoCall
      /\ UNCHANGED <<toDevice, recv, held, toHost>>
  BY DEF SendRequestTimeout, deviceVars
<1>2. toDevice = <<>>
  <2>1. SUFFICES ASSUME toDevice # <<>> PROVE FALSE
    OBVIOUS
  <2>2. toDevice = <<call>>
    BY <2>1 DEF ExchangeInv
  <2>3. 1 \in 1 .. Len(toDevice) /\ toDevice[1].kind = call.kind
    BY <2>2
  <2>4. QED
    BY <1>1, <2>3 DEF AnswerDue
<1>3. Answers = {}
  BY <1>1 DEF AnswerDue, ExchangeInv, Answers
<1>4. Answers' = Answers
  BY <1>1 DEF Answers, Arriving
<1>5. QED
  BY <1>1, <1>2, <1>3, <1>4 DEF ExchangeInv

\* The loop's own step takes an answer only when it is the one awaited, and puts
\* a request on the line only when none is there (meshtastic.go, lines 81-124)
LEMMA ExchangeStep == ASSUME TypeOK, CallInv, ExchangeInv, ~Late, [Next]_vars PROVE ExchangeInv'
<1>0. ApiTypeOK
  BY DEF TypeOK
<1>1. ASSUME UNCHANGED <<call, toDevice, recv, held, toHost>> PROVE ExchangeInv'
  BY <1>0, <1>1, OtherFrames DEF Arriving
<1>2. CASE HandleRadioMessage
  <2>1. /\ pc = "select" /\ recv # <<>> /\ recv' = Tail(recv)
        /\ UNCHANGED <<call, toDevice, held, toHost>>
    BY <1>2 DEF HandleRadioMessage, HandleNewPacket, HandleSeenPacket, HandleEndOfTx,
       HandleRSSI, HandleOther, Handling, ReceiveMessage, deviceVars
  <2>2. Loses(1)
    BY <1>0, <2>1, ArrivingTypes, HeadTaken
  <2>3. call = NoCall
    BY <2>1 DEF CallInv
  <2>4. Answers = {}
    BY <2>3 DEF ExchangeInv
  <2>5. QED
    BY <1>0, <2>1, <2>2, <2>4, OtherFrames DEF Loses
<1>3. CASE Discard
  <2>1. /\ call # NoCall /\ recv # <<>> /\ recv' = Tail(recv) /\ Head(recv).kind # call.kind
        /\ UNCHANGED <<call, toDevice, held, toHost>>
    BY <1>3 DEF Discard, SendRequestDiscard, deviceVars
  <2>2. Loses(1) /\ Arriving[1] = Head(recv)
    BY <1>0, <2>1, ArrivingTypes, HeadTaken
  <2>3. 1 \notin Answers
    BY <2>1, <2>2 DEF ExchangeInv
  <2>4. QED
    BY <1>0, <2>1, <2>2, <2>3, OtherFrames DEF Loses
<1>4. ASSUME NEW r \in Requests, SendRequest(r) PROVE ExchangeInv'
  BY <1>0, <1>4, RequestMade
<1>5. ASSUME NEW f \in Frames, SendRequestReturn(f) PROVE ExchangeInv'
  BY <1>0, <1>5, AnswerTaken
<1>6. CASE TransmitPacket
  <2>1. TransmitRequest(hand) \in Requests
    BY <1>6, MessageFacts DEF TransmitPacket, TypeOK, ClientTypeOK
  <2>2. QED
    BY <1>4, <1>6, <2>1 DEF TransmitPacket
<1>7. CASE SwitchToRx \/ DeinitRadio
  <2>1. Plain("SwitchToRx") \in Requests /\ Plain("Standby") \in Requests
    BY MessageFacts DEF PlainRequestKinds
  <2>2. QED
    BY <1>4, <1>7, <2>1 DEF SwitchToRx, DeinitRadio
<1>8. CASE \/ SwitchedToRx \/ SwitchToRxTimeout \/ LoopEnd
           \/ Transmitted \/ TransmitBusy \/ TransmitRefused \/ TransmitTimeout
  <2>1. SendRequestTimeout => ExchangeInv'
    BY <1>0, NothingDue
  <2>2. QED
    BY <1>5, <1>8, <2>1 DEF SwitchedToRx, SwitchToRxTimeout, LoopEnd, Transmitted, TransmitBusy,
       TransmitRefused, TransmitTimeout
<1>9. CASE BackgroundStep
  <2>1. CASE DeviceAnswer /\ UNCHANGED apiVars
    <3>1. call' = call
      BY <2>1 DEF apiVars
    <3>2. QED
      BY <1>0, <2>1, <3>1, DeviceAnswers, AnswerSent
  <2>2. CASE DeviceEvent /\ UNCHANGED apiVars
    <3>1. call' = call
      BY <2>2 DEF apiVars
    <3>2. QED
      BY <1>0, <2>2, <3>1, DeviceTells, OtherFrames
  <2>3. CASE ReceiverPush \/ ReceiverPushed
    <3>1. UNCHANGED <<call, toDevice>>
      BY <2>3 DEF ReceiverPush, ReceiverPushed, deviceVars
    <3>2. QED
      BY <1>0, <2>3, <3>1, ArrivingTypes, FramesMove, OtherFrames
  <2>4. CASE ReceiverDrop
    <3>1. UNCHANGED <<call, toDevice>>
      BY <2>4 DEF ReceiverDrop
    <3>2. PICK r \in 1 .. Len(Arriving) :
            Loses(r) /\ (Arriving[r].kind = "Logging" \/ Faults)
      BY <1>0, <2>4, ArrivingTypes, FrameDropped
    <3>3. r \notin Answers \/ Faults
      BY <3>2 DEF Answers, AnswerKinds, PlainRequestKinds
    <3>4. QED
      BY <1>0, <3>1, <3>2, <3>3, OtherFrames
  <2>5. CASE ReceiverTimeout \/ SenderExit \/ CloseReturn
    BY <1>1, <2>5 DEF ReceiverTimeout, SenderExit, CloseReturn, deviceVars
  <2>6. CASE SenderTake \/ SenderForward \/ SenderFail
    BY <2>6 DEF SenderTake, SenderForward, SenderFail, CallInv
  <2>7. CASE LoseRequest /\ UNCHANGED apiVars
    BY <1>0, <2>7, RequestLost
  <2>8. CASE LoseFrame /\ UNCHANGED apiVars
    <3>1. /\ UNCHANGED <<call, toDevice, recv, held>> /\ Faults
          /\ toHost # <<>> /\ toHost' = Tail(toHost)
      BY <2>8 DEF LoseFrame, apiVars
    <3>2. QED
      BY <1>0, <3>1, ArrivingTypes, NextTaken, OtherFrames
  <2>9. QED
    BY <1>9, <2>1, <2>2, <2>3, <2>4, <2>5, <2>6, <2>7, <2>8, DeviceSteps, ApiAssumption
       DEF BackgroundStep, Background, Receiver, ReceiverFail
<1>10. CASE Push \/ RetryReturn \/ Cancel \/ LoopBreak
  BY <1>1, <1>10 DEF Push, Deliver, PushRSSI, PushError, PushWarning, RetryReturn, Cancel,
     LoopBreak, deviceVars, apiVars
<1>11. ASSUME NEW j \in Jobs, Retry(j) \/ Submit(j) PROVE ExchangeInv'
  BY <1>1, <1>11 DEF Retry, RetryTimer, RetryPush, RetryAbort, Submit, deviceVars, apiVars
<1>12. CASE NodeStep \/ StopNode \/ Tick \/ CloseApi
  BY <1>1, <1>12 DEF NodeStep, TakeIncoming, TakeError, TakeWarning, TakeRSSI, StopNode, Tick,
     CloseApi, Close, deviceVars, apiVars
<1>13. CASE TakePacket \/ WriteFailure \/ UNCHANGED vars
  BY <1>1, <1>13 DEF TakePacket, WriteFailure, TransmitFailure, SwitchToRxFailure, DeinitFailure,
     SendRequestFails, vars, deviceVars, apiVars
<1>14. QED
  BY <1>2, <1>3, <1>6, <1>7, <1>8, <1>9, <1>10, <1>11, <1>12, <1>13 DEF Next, Exchange

-------------------------------------------------------------------------------
(* A packet is sent once *)

\* If answers are never late the packets the device has taken are those the client
\* has let go of, and one whose answer is on its way, or lost; the answers under way
\* say whether the device took the packet.
SentInv ==
    /\ accepted \subseteq submitted
    /\ \A j \in accepted :
        /\ j \notin Queued \cup sleeping \cup pushing
        /\ j = hand => (pc = "transmit" /\ toDevice = <<>>) \/ pc = "errors"
    /\ \A i \in Answers :
        Arriving[i].kind = "Transmit"
            => (Arriving[i].busy = TRUE <=> Arriving[i].about \notin accepted)

\* What the answers say stays true of those left, and of those that come.
LEMMA AnswersKept == ASSUME ApiTypeOK, SentInv, accepted' = accepted,
                            \/ Arriving' = Arriving
                            \/ \E r \in 1 .. Len(Arriving) : Loses(r)
                            \/ \E f : Gains(f) /\ f.kind # "Transmit"
    PROVE  \A i \in Answers' :
              Arriving'[i].kind = "Transmit"
                  => (Arriving'[i].busy = TRUE <=> Arriving'[i].about \notin accepted')
<1>1. CASE Arriving' = Arriving
  BY <1>1 DEF SentInv, Answers
<1>2. ASSUME NEW r \in 1 .. Len(Arriving), Loses(r)
      PROVE  \A i \in Answers' : Shift(i, r) \in Answers /\ Arriving'[i] = Arriving[Shift(i, r)]
  BY <1>2, AnswersLeft, ArrivingTypes, LosesFacts DEF Answers
<1>3. ASSUME NEW f, Gains(f), f.kind # "Transmit"
      PROVE  \A i \in Answers' : /\ Arriving'[i].kind = "Transmit" => i \in Answers
                                 /\ i \in Answers => Arriving'[i] = Arriving[i]
  BY <1>3, AnswersGained DEF Gains, Answers
<1>4. QED
  BY <1>1, <1>2, <1>3 DEF SentInv

\* The request the device answers to is about the packet in hand.
LEMMA AskedInHand == ASSUME TypeOK, CallInv, ExchangeInv, NEW j, Asked("Transmit"),
                            Head(toDevice).about = j
                     PROVE  pc = "transmit" /\ hand = j /\ Answers = {} /\ toDevice = <<call>>
<1>1. call # NoCall /\ toDevice = <<call>> /\ Answers = {}
  BY DEF Asked, ExchangeInv
<1>2. Head(toDevice) = call
  BY <1>1
<1>3. call.kind = "Transmit" /\ call.about = j
  BY <1>2 DEF Asked
<1>4. pc \in {"transmit", "rx", "standby"}
  BY <1>1 DEF CallInv
<1>5. QED
  BY <1>1, <1>3, <1>4 DEF CallInv, TransmitRequest, Plain

\* The answer to a Transmit is about the packet in hand.
LEMMA ReturnInHand == ASSUME TypeOK, CallInv, ExchangeInv, SentInv, NEW res \in Frames,
                             SendRequestReturn(res), pc = "transmit"
                      PROVE  /\ hand \in Jobs
                             /\ res.busy = TRUE <=> hand \notin accepted
<1>1. 1 \in Answers /\ res = Arriving[1]
  BY AnswerTaken DEF TypeOK
<1>2. res.kind = "Transmit" /\ res.about = hand
  BY <1>1 DEF ExchangeInv, CallInv, TransmitRequest
<1>3. QED
  BY <1>1, <1>2 DEF SentInv, TypeOK, ClientTypeOK

\* A packet is let go of once the device has it, and not taken back
\* (meshtastic.go, lines 88-120)
LEMMA SentStep == ASSUME TypeOK, OnePlace, HandInv, CallInv, ExchangeInv, SentInv, ~Late,
                         [Next]_vars
                  PROVE  SentInv'
<1> USE DEF channelVars, retryVars, nodeVars
<1>0. /\ ApiTypeOK /\ accepted \subseteq Jobs /\ None \notin Jobs /\ Jobs \cap Keys = {}
      /\ outgoing \in Seq(Jobs)
  BY DeviceAssumption DEF TypeOK, ApiTypeOK, DeviceTypeOK, ClientTypeOK
\* The steps that leave the packets where they are, or empty the hand.
<1>1. ASSUME UNCHANGED <<accepted, submitted, sleeping, pushing, outgoing>>,
             \/ hand' \notin Jobs
             \/ hand' = hand /\ (hand \notin accepted \/ pc' = "errors")
             \/ hand' = hand /\ pc' = pc /\ (toDevice = <<>> => toDevice' = <<>>),
             \/ Arriving' = Arriving
             \/ \E r \in 1 .. Len(Arriving) : Loses(r)
             \/ \E f : Gains(f) /\ f.kind # "Transmit"
      PROVE  SentInv'
  BY <1>0, <1>1, AnswersKept DEF SentInv, Queued
\* Those that do not touch the line.
<1>2. ASSUME UNCHANGED <<recv, held, toHost>> PROVE Arriving' = Arriving
  BY <1>2 DEF Arriving
<1>3. CASE HandleRadioMessage
  <2>1. /\ pc = "select" /\ recv # <<>> /\ recv' = Tail(recv)
        /\ UNCHANGED <<held, toHost, accepted, submitted, sleeping, pushing, outgoing>>
    BY <1>3 DEF HandleRadioMessage, HandleNewPacket, HandleSeenPacket, HandleEndOfTx,
       HandleRSSI, HandleOther, Handling, ReceiveMessage, deviceVars
  <2>2. Loses(1) /\ 1 \in 1 .. Len(Arriving)
    BY <1>0, <2>1, ArrivingTypes, HeadTaken DEF Loses
  <2>3. hand' = hand \/ hand' \in Keys
    BY <1>3, AboutFacts DEF HandleRadioMessage, HandleNewPacket, HandleSeenPacket,
          HandleEndOfTx, HandleRSSI, HandleOther
  <2>4. hand \notin accepted
    BY <2>1 DEF SentInv
  <2>5. QED
    BY <1>0, <1>1, <2>1, <2>2, <2>3, <2>4
<1>4. CASE TakePacket
  <2>1. /\ outgoing # <<>> /\ hand' = Head(outgoing) /\ outgoing' = Tail(outgoing)
        /\ UNCHANGED <<sleeping, pushing, submitted, accepted, recv, held, toHost>>
    BY <1>4 DEF TakePacket, deviceVars, apiVars
  <2>2. /\ Head(outgoing) \in Queued /\ Elements(Tail(outgoing)) \subseteq Queued
    BY <1>0, <2>1, QueueFacts DEF Queued
  <2>3. Queued' \subseteq Queued
    BY <2>1, <2>2 DEF Queued
  <2>4. QED
    BY <1>0, <1>2, <2>1, <2>2, <2>3, AnswersKept DEF SentInv
<1>5. CASE Transmitted \/ TransmitBusy \/ TransmitRefused
  <2>1. PICK res \in Frames : SendRequestReturn(res)
    BY <1>5 DEF Transmitted, TransmitBusy, TransmitRefused
  <2>2. Loses(1) /\ 1 \in 1 .. Len(Arriving)
    BY <1>0, <2>1, ArrivingTypes, HeadTaken DEF SendRequestReturn, Loses, deviceVars
  <2>3. CASE Transmitted
    <3>1. hand' = None /\ UNCHANGED <<accepted, submitted, sleeping, pushing, outgoing>>
      BY <2>3 DEF Transmitted, SendRequestReturn, deviceVars
    <3>2. QED
      BY <1>0, <1>1, <2>2, <3>1
  <2>4. CASE TransmitBusy \/ TransmitRefused
    <3>1. hand \notin accepted
      BY <2>4, ReturnInHand DEF TransmitBusy, TransmitRefused
    <3>2. UNCHANGED <<hand, accepted, submitted, sleeping, pushing, outgoing>>
      BY <2>4 DEF TransmitBusy, TransmitRefused, SendRequestReturn, deviceVars
    <3>3. QED
      BY <1>1, <2>2, <3>1, <3>2
  <2>5. QED
    BY <1>5, <2>3, <2>4
<1>6. CASE SwitchToRx \/ DeinitRadio \/ TransmitPacket \/ WriteFailure
  <2>1. /\ UNCHANGED <<hand, recv, held, toHost, accepted, submitted, sleeping, pushing, outgoing>>
        /\ pc # "transmit" /\ pc # "errors"
    BY <1>6 DEF SwitchToRx, DeinitRadio, TransmitPacket, SendRequest, WriteFailure,
       TransmitFailure, SwitchToRxFailure, DeinitFailure, SendRequestFails, deviceVars, apiVars
  <2>2. hand \notin accepted
    BY <2>1 DEF SentInv
  <2>3. QED
    BY <1>1, <1>2, <2>1, <2>2
<1>7. CASE SwitchedToRx \/ SwitchToRxTimeout \/ LoopEnd \/ TransmitTimeout \/ Discard
  <2>1. /\ UNCHANGED <<hand, accepted, submitted, sleeping, pushing, outgoing>>
        /\ \/ pc # "transmit" /\ pc # "errors"
           \/ pc' = "errors"
           \/ pc' = pc /\ toDevice' = toDevice
    BY <1>7 DEF SwitchedToRx, SwitchToRxTimeout, LoopEnd, Discard, TransmitTimeout,
       SendRequestTimeout, SendRequestReturn, SendRequestDiscard, deviceVars
  <2>2. \/ recv # <<>> /\ recv' = Tail(recv) /\ UNCHANGED <<held, toHost>>
        \/ UNCHANGED <<recv, held, toHost>>
    BY <1>7 DEF SwitchedToRx, SwitchToRxTimeout, LoopEnd, Discard, TransmitTimeout,
       SendRequestTimeout, SendRequestReturn, SendRequestDiscard, deviceVars
  <2>3. Arriving' = Arriving \/ \E r \in 1 .. Len(Arriving) : Loses(r)
    BY <1>0, <1>2, <2>2, ArrivingTypes, HeadTaken DEF Loses
  <2>4. pc # "transmit" /\ pc # "errors" => hand \notin accepted
    BY DEF SentInv
  <2>5. QED
    BY <1>1, <2>1, <2>3, <2>4
<1>8. CASE PushWarning
  <2>1. /\ pc = "warnings" /\ hand' = None /\ sleeping' = sleeping \cup {hand}
        /\ UNCHANGED <<recv, held, toHost, accepted, submitted, pushing, outgoing>>
    BY <1>8 DEF PushWarning, deviceVars, apiVars
  <2>2. hand \notin accepted
    BY <2>1 DEF SentInv
  <2>3. QED
    BY <1>0, <1>2, <2>1, <2>2, AnswersKept DEF SentInv, Queued
<1>9. CASE Push /\ ~PushWarning
  <2>1. /\ hand' = None \/ (hand' = hand /\ pc = "rssi")
        /\ UNCHANGED <<recv, held, toHost, accepted, submitted, sleeping, pushing, outgoing>>
    BY <1>9 DEF Push, Deliver, PushRSSI, PushError, deviceVars, apiVars
  <2>2. pc = "rssi" => hand \notin accepted
    BY DEF SentInv
  <2>3. QED
    BY <1>0, <1>1, <1>2, <2>1, <2>2
<1>10. ASSUME NEW j \in Jobs, Retry(j) \/ Submit(j) PROVE SentInv'
  <2>1. UNCHANGED <<recv, held, toHost, accepted, hand, pc, toDevice>>
    BY <1>10 DEF Retry, RetryTimer, RetryPush, RetryAbort, Submit, deviceVars, apiVars
  <2>2. j \notin accepted
    BY <1>10 DEF Retry, RetryTimer, RetryPush, RetryAbort, Submit, SentInv
  <2>3. Queued' \cup sleeping' \cup pushing' \subseteq Queued \cup sleeping \cup pushing \cup {j}
    <3>1. Elements(Append(outgoing, j)) = Queued \cup {j}
      BY <1>0, QueueFacts DEF Queued
    <3>2. Queued' = Queued \/ Queued' = Queued \cup {j}
      BY <1>10, <3>1 DEF Retry, RetryTimer, RetryPush, RetryAbort, Submit, Queued
    <3>3. QED
      BY <1>10, <3>2 DEF Retry, RetryTimer, RetryPush, RetryAbort, Submit
  <2>4. submitted \subseteq submitted'
    BY <1>10 DEF Retry, RetryTimer, RetryPush, RetryAbort, Submit
  <2>5. QED
    BY <1>0, <1>2, <2>1, <2>2, <2>3, <2>4, AnswersKept DEF SentInv
<1>11. CASE \/ RetryReturn \/ Cancel \/ LoopBreak \/ CloseApi
            \/ NodeStep \/ StopNode \/ Tick \/ UNCHANGED vars
  <2>1. /\ UNCHANGED <<recv, held, toHost, toDevice, accepted, hand, submitted, sleeping, pushing,
                       outgoing>>
        /\ pc' = pc \/ pc = "select"
    BY <1>11 DEF RetryReturn, Cancel, LoopBreak, CloseApi, Close, NodeStep, TakeIncoming,
       TakeError, TakeWarning, TakeRSSI, StopNode, Tick, vars, deviceVars, apiVars
  <2>2. pc = "select" => hand \notin accepted
    BY DEF SentInv
  <2>3. QED
    BY <1>1, <1>2, <2>1, <2>2
<1>12. CASE BackgroundStep
  <2>0. UNCHANGED <<pc, hand, outgoing, sleeping, pushing, submitted>>
    BY <1>12 DEF BackgroundStep
  <2>1. ASSUME NEW j \in Jobs, DeviceAccept(j), UNCHANGED apiVars PROVE SentInv'
    <3>1. pc = "transmit" /\ hand = j /\ Answers = {} /\ toDevice = <<call>>
      BY <2>1, AskedInHand DEF DeviceAccept
    <3>2. toDevice' = <<>> /\ accepted' = accepted \cup {j}
      BY <2>1, <3>1 DEF DeviceAccept
    <3>3. TransmitAnswer(j, FALSE) \in Frames /\ Gains(TransmitAnswer(j, FALSE))
      BY <1>0, <2>1, MessageFacts, ArrivingTypes, FrameSent DEF DeviceAccept, apiVars
    <3>4. /\ \A i \in Answers' : Arriving'[i] = TransmitAnswer(j, FALSE)
          /\ TransmitAnswer(j, FALSE).busy = FALSE /\ TransmitAnswer(j, FALSE).about = j
      BY <1>0, <3>1, <3>3, AnswersGained DEF Gains, TransmitAnswer
    <3>5. j \in submitted /\ j \notin Queued \cup sleeping \cup pushing
      BY <3>1 DEF OnePlace, InHand
    <3>6. QED
      BY <2>0, <3>1, <3>2, <3>4, <3>5 DEF SentInv, Queued
  <2>2. ASSUME NEW j \in Jobs, DeviceRefuse(j), UNCHANGED apiVars PROVE SentInv'
    <3>1. pc = "transmit" /\ hand = j /\ Answers = {} /\ toDevice = <<call>>
      BY <2>2, AskedInHand DEF DeviceRefuse
    <3>2. toDevice' = <<>> /\ accepted' = accepted /\ j \notin accepted
      BY <2>2, <3>1 DEF DeviceRefuse, SentInv
    <3>3. TransmitAnswer(j, TRUE) \in Frames /\ Gains(TransmitAnswer(j, TRUE))
      BY <1>0, <2>2, MessageFacts, ArrivingTypes, FrameSent DEF DeviceRefuse, apiVars
    <3>4. /\ \A i \in Answers' : Arriving'[i] = TransmitAnswer(j, TRUE)
          /\ TransmitAnswer(j, TRUE).busy = TRUE /\ TransmitAnswer(j, TRUE).about = j
      BY <1>0, <3>1, <3>3, AnswersGained DEF Gains, TransmitAnswer
    <3>5. QED
      BY <2>0, <3>1, <3>2, <3>4 DEF SentInv, Queued
  <2>3. ASSUME NEW k \in PlainRequestKinds, Asked(k), Emit(Plain(k)),
               toDevice' = Tail(toDevice), UNCHANGED <<accepted, apiVars>>
        PROVE  SentInv'
    <3>1. Gains(Plain(k)) /\ Plain(k).kind # "Transmit"
      BY <1>0, <2>3, MessageFacts, ArrivingTypes, FrameSent DEF apiVars, PlainRequestKinds
    <3>2. QED
      BY <1>1, <2>0, <2>3, <3>1 DEF Asked
  <2>4. CASE DeviceEvent /\ UNCHANGED apiVars
    <3>1. UNCHANGED <<toDevice, accepted>> /\ \E f \in Frames : Gains(f) /\ f.kind # "Transmit"
      BY <1>0, <2>4, DeviceTells DEF AnswerKinds
    <3>2. QED
      BY <1>1, <2>0, <3>1
  <2>5. CASE ReceiverPush \/ ReceiverPushed
    <3>1. UNCHANGED <<accepted, toDevice>>
      BY <2>5 DEF ReceiverPush, ReceiverPushed, deviceVars
    <3>2. QED
      BY <1>0, <1>1, <2>0, <2>5, <3>1, ArrivingTypes, FramesMove
  <2>6. CASE ReceiverDrop
    <3>1. UNCHANGED <<accepted, toDevice>>
      BY <2>6 DEF ReceiverDrop
    <3>2. QED
      BY <1>0, <1>1, <2>0, <2>6, <3>1, ArrivingTypes, FrameDropped
  <2>7. CASE ReceiverTimeout \/ SenderExit \/ CloseReturn
    BY <1>1, <1>2, <2>0, <2>7 DEF ReceiverTimeout, SenderExit, CloseReturn, deviceVars
  <2>8. CASE SenderTake \/ SenderForward \/ SenderFail
    BY <2>8 DEF SenderTake, SenderForward, SenderFail, CallInv
  <2>9. CASE DeviceAnswer /\ UNCHANGED apiVars
    BY <2>1, <2>2, <2>3, <2>9 DEF DeviceAnswer, DeviceSwitchToRx, DeviceStandby,
          PlainRequestKinds
  <2>10. CASE LoseRequest /\ UNCHANGED apiVars
    <3>1. toDevice # <<>> /\ UNCHANGED <<recv, held, toHost, accepted>>
      BY <2>10 DEF LoseRequest, apiVars
    <3>2. QED
      BY <1>1, <1>2, <2>0, <3>1
  <2>11. CASE LoseFrame /\ UNCHANGED apiVars
    <3>1. /\ UNCHANGED <<toDevice, recv, held, accepted>>
          /\ toHost # <<>> /\ toHost' = Tail(toHost)
      BY <2>11 DEF LoseFrame, apiVars
    <3>2. \E r \in 1 .. Len(Arriving) : Loses(r)
      BY <1>0, <3>1, ArrivingTypes, NextTaken
    <3>3. QED
      BY <1>1, <2>0, <3>1, <3>2
  <2>12. QED
    BY <1>12, <2>4, <2>5, <2>6, <2>7, <2>8, <2>9, <2>10, <2>11, DeviceSteps, ApiAssumption
       DEF BackgroundStep, Background, Receiver, ReceiverFail
<1>13. QED
  BY <1>3, <1>4, <1>5, <1>6, <1>7, <1>8, <1>9, <1>10, <1>11, <1>12 DEF Next, Exchange

-------------------------------------------------------------------------------
\* What is true of the client if answers are never late.
GoodInv == TypeOK /\ OnePlace /\ HandInv /\ CallInv /\ ExchangeInv /\ SentInv

\* It holds of every reachable state, if an answer comes before the timeout or not
\* at all: requests, answers and events may be lost, and writes may fail.
LEMMA GoodLineInv == ASSUME ~Late PROVE Spec => []GoodInv
<1>1. Init => HandInv /\ CallInv /\ ExchangeInv /\ SentInv
  <2> SUFFICES ASSUME Init PROVE HandInv /\ CallInv /\ ExchangeInv /\ SentInv
    OBVIOUS
  <2>1. Arriving = <<>>
    BY DEF Init, DeviceInit, ApiInit, Arriving
  <2>2. Answers = {}
    BY <2>1 DEF Answers
  <2>3. QED
    BY <2>2, DeviceAssumption DEF Init, DeviceInit, ApiInit, ClientInit, HandInv, CallInv,
       ExchangeInv, SentInv
<1>2. TypeOK /\ OnePlace /\ HandInv /\ CallInv /\ ExchangeInv /\ SentInv /\ [Next]_vars
        => HandInv' /\ CallInv' /\ ExchangeInv' /\ SentInv'
  BY HandStep, ExchangeStep, SentStep
<1>3. QED
  BY <1>1, <1>2, TypeCorrect, PacketsHaveOnePlace, PTL DEF Spec, GoodInv

\* Any answer on its way is to the request the loop awaits an answer to: none is left
\* over from an earlier one, even when that was given up because its request or its
\* answer was lost (api_client.go:194-198).
THEOREM AnswersAreOurs == ASSUME ~Late PROVE Spec => []AnswerIsOurs
<1>1. GoodInv => AnswerIsOurs
  <2> SUFFICES ASSUME GoodInv, NEW i \in 1 .. Len(Arriving), Arriving[i].kind \in AnswerKinds
               PROVE  /\ Arriving[i].kind = "Transmit" => pc = "transmit" /\ hand = Arriving[i].about
                      /\ Arriving[i].kind = "SwitchToRx" => pc = "rx"
                      /\ Arriving[i].kind = "Standby" => pc \in {"standby", "done"}
    BY DEF AnswerIsOurs, AnswerKinds, PlainRequestKinds
  <2>1. call # NoCall /\ Arriving[i].kind = call.kind /\ Arriving[i].about = call.about
    BY DEF GoodInv, ExchangeInv, Answers
  <2>2. pc \in {"transmit", "rx", "standby"}
    BY <2>1 DEF GoodInv, CallInv
  <2>3. QED
    BY <2>1, <2>2 DEF GoodInv, CallInv, TransmitRequest, Plain
<1>2. QED
  BY <1>1, GoodLineInv, PTL

\* What the loop takes from an answer is so, whatever was lost before: it retries or
\* drops a packet as refused only if the device has not sent it, and is content only
\* if it has (meshtastic.go:351-355).
THEOREM OutcomesAreTrue == ASSUME ~Late PROVE Spec => OutcomeIsTrue
<1>1. ASSUME GoodInv, NEW res \in Frames, SendRequestReturn(res), pc = "transmit"
      PROVE  hand \in Jobs /\ (res.busy = TRUE <=> hand \notin accepted)
  BY <1>1, ReturnInHand DEF GoodInv
<1>2. ASSUME GoodInv, Transmitted PROVE hand \in accepted
  BY <1>1, <1>2 DEF Transmitted
<1>3. ASSUME GoodInv, TransmitBusy \/ TransmitRefused PROVE hand \notin accepted
  <2>1. PICK res \in Frames : pc = "transmit" /\ SendRequestReturn(res) /\ res.busy
    BY <1>3 DEF TransmitBusy, TransmitRefused
  <2>2. res.busy \in BOOLEAN
    BY DEF Frames
  <2>3. QED
    BY <1>1, <1>3, <2>1, <2>2
<1>4. GoodInv => [/\ Transmitted => hand \in accepted
                  /\ TransmitBusy \/ TransmitRefused => hand \notin accepted]_vars
  BY <1>2, <1>3
<1>5. QED
  BY <1>4, GoodLineInv, PTL DEF OutcomeIsTrue

\* However often a packet is retried, and whatever is lost, the device takes it once
\* (meshtastic.go:91-114).
THEOREM PacketsAreSentOnce == ASSUME ~Late PROVE Spec => SentOnce
<1>1. GoodInv /\ [Next]_vars => [\A j \in Jobs : j \in accepted => ~DeviceAccept(j)]_vars
  <2> SUFFICES ASSUME GoodInv, NEW j \in Jobs, j \in accepted, DeviceAccept(j) PROVE FALSE
    OBVIOUS
  <2>1. hand = j /\ pc = "transmit"
    BY AskedInHand DEF GoodInv, DeviceAccept
  <2>2. QED
    BY <2>1 DEF GoodInv, SentInv, DeviceAccept, Asked
<1>2. QED
  BY <1>1, GoodLineInv, PTL DEF Spec, SentOnce

\* The client lets go of a packet when the device has it, when it reports an error,
\* or when it closes (meshtastic.go:91-119).
THEOREM NothingDroppedSilently == ASSUME ~Late PROVE Spec => NoSilentDrop
<1> USE DEF channelVars, retryVars
<1>1. ASSUME GoodInv, [Next]_vars, NEW j \in Jobs, InClient(j), ~InClient(j)'
      PROVE  cancelled \/ j \in accepted' \/ errors' = Append(errors, j)
  <2> USE DEF InClient, InHand
  <2>0. /\ outgoing \in Seq(Jobs) /\ Jobs \cap Keys = {} /\ j \in Jobs
        /\ pc = "incoming" => hand \in Keys
    BY <1>1, DeviceAssumption DEF GoodInv, TypeOK, ClientTypeOK
  <2>1. CASE UNCHANGED <<sleeping, pushing>> /\ Queued \subseteq Queued' /\ hand' = hand
    BY <1>1, <2>1
  <2>2. CASE HandleNewPacket
    <3>1. pc = "select" /\ UNCHANGED <<sleeping, pushing, outgoing>>
      BY <2>2 DEF HandleNewPacket, Handling
    <3>2. hand \notin Jobs
      BY <1>1, <3>1 DEF GoodInv, HandInv
    <3>3. QED
      BY <1>1, <3>1, <3>2 DEF Queued
  <2>3. CASE TakePacket
    <3>1. /\ pc = "select" /\ outgoing # <<>> /\ outgoing' = Tail(outgoing)
          /\ hand' = Head(outgoing) /\ UNCHANGED <<sleeping, pushing>>
      BY <2>3 DEF TakePacket
    <3>2. hand \notin Jobs
      BY <1>1, <3>1 DEF GoodInv, HandInv
    <3>3. Queued \subseteq Queued' \cup {hand'}
      BY <2>0, <3>1, QueueFacts DEF Queued
    <3>4. QED
      BY <1>1, <3>1, <3>2, <3>3
  <2>4. CASE Transmitted
    <3>1. PICK res \in Frames : SendRequestReturn(res) /\ ~res.busy
      BY <2>4 DEF Transmitted
    <3>2. pc = "transmit" /\ UNCHANGED <<outgoing, sleeping, pushing, accepted>>
      BY <2>4 DEF Transmitted, SendRequestReturn, deviceVars
    <3>3. hand \in accepted
      BY <1>1, <3>1, <3>2, ReturnInHand DEF GoodInv
    <3>4. QED
      BY <1>1, <3>2, <3>3 DEF Queued
  <2>5. CASE PushError
    BY <1>1, <2>5 DEF PushError, Queued
  <2>6. CASE PushWarning
    BY <1>1, <2>6 DEF PushWarning, Queued
  <2>7. CASE Deliver
    BY <1>1, <2>0, <2>7 DEF Deliver, Queued
  <2>8. ASSUME NEW i \in Jobs, Retry(i) \/ Submit(i)
        PROVE  cancelled \/ j \in accepted' \/ errors' = Append(errors, j)
    <3>1. Elements(Append(outgoing, i)) = Queued \cup {i}
      BY <2>0, QueueFacts DEF Queued
    <3>2. Queued \subseteq Queued'
      BY <2>8, <3>1 DEF Retry, RetryTimer, RetryPush, RetryAbort, Submit, Queued
    <3>3. RetryPush(i) => i \in Queued'
      BY <3>1 DEF RetryPush, Queued
    <3>4. QED
      BY <1>1, <2>8, <3>2, <3>3 DEF Retry, RetryTimer, RetryPush, RetryAbort, Submit
  <2>9. CASE \/ HandleSeenPacket \/ HandleEndOfTx \/ HandleRSSI \/ HandleOther
             \/ SwitchToRx \/ SwitchedToRx \/ SwitchToRxTimeout \/ TransmitPacket
             \/ TransmitBusy \/ TransmitRefused \/ TransmitTimeout \/ Discard \/ DeinitRadio
             \/ LoopEnd \/ WriteFailure
    BY <2>1, <2>9 DEF HandleSeenPacket, HandleEndOfTx, HandleRSSI, HandleOther, SwitchToRx,
       SwitchedToRx, SwitchToRxTimeout, TransmitPacket, TransmitBusy, TransmitRefused,
       TransmitTimeout, Discard, DeinitRadio, LoopEnd, WriteFailure, TransmitFailure,
       SwitchToRxFailure, DeinitFailure, Queued
  <2>10. CASE \/ PushRSSI \/ RetryReturn \/ Cancel \/ LoopBreak \/ CloseApi \/ NodeStep
              \/ StopNode \/ Tick \/ BackgroundStep \/ UNCHANGED vars
    BY <2>1, <2>10 DEF PushRSSI, RetryReturn, Cancel, LoopBreak, CloseApi, NodeStep,
          TakeIncoming,
       TakeError, TakeWarning, TakeRSSI, StopNode, Tick, BackgroundStep, vars, Queued
  <2>11. QED
    BY <1>1, <2>2, <2>3, <2>4, <2>5, <2>6, <2>7, <2>8, <2>9, <2>10
       DEF Next, HandleRadioMessage, Exchange, Push
<1>2. GoodInv /\ [Next]_vars
        => [\A j \in Jobs : InClient(j) /\ ~InClient(j)'
                => cancelled \/ j \in accepted' \/ errors' = Append(errors, j)]_vars
  BY <1>1
<1>3. QED
  BY <1>2, GoodLineInv, PTL DEF Spec, NoSilentDrop

-------------------------------------------------------------------------------
(* The radio is not left deaf *)

\* An event is on its way, behind any answer.
EventLeft == \E i \in 1 .. Len(Arriving) :
    Arriving[i].kind \in Events /\ \A n \in Answers : n < i

\* A radio in standby owes the loop such an event, unless the loop is about to ask
\* for RX, or is closing.
DeafInv ==
    mode = "STANDBY" =>
        \/ pc \in {"incoming", "switch", "deinit", "standby", "done"}
        \/ toDevice # <<>>
        \/ EventLeft

\* An event stays behind the answers unless it is the frame that is taken.
LEMMA EventStays == ASSUME ApiTypeOK, EventLeft,
                           \/ Arriving' = Arriving
                           \/ \E r \in 1 .. Len(Arriving) : Loses(r) /\ Arriving[r].kind \notin Events
                           \/ \E f : Gains(f) /\ f.kind \notin AnswerKinds
                    PROVE  EventLeft'
<1>1. PICK i \in 1 .. Len(Arriving) : Arriving[i].kind \in Events /\ \A n \in Answers : n < i
  BY DEF EventLeft
<1>2. CASE Arriving' = Arriving
  BY <1>1, <1>2 DEF EventLeft, Answers
<1>3. ASSUME NEW r \in 1 .. Len(Arriving), Loses(r), Arriving[r].kind \notin Events
      PROVE  EventLeft'
  <2>1. i # r
    BY <1>1, <1>3
  <2>2. PICK m \in 1 .. Len(Arriving') : Shift(m, r) = i
    BY <1>1, <1>3, <2>1, ArrivingTypes, LosesFacts
  <2>3. Arriving'[m].kind \in Events
    BY <1>1, <1>3, <2>2, ArrivingTypes, LosesFacts
  <2>4. ASSUME NEW n \in Answers' PROVE n < m
    <3>1. Shift(n, r) < Shift(m, r)
      BY <1>1, <1>3, <2>2, AnswersLeft
    <3>2. n \in 1 .. Len(Arriving')
      BY DEF Answers
    <3>3. QED
      BY <1>3, <2>2, <3>1, <3>2, ArrivingTypes, LosesFacts
  <2>5. QED
    BY <2>2, <2>3, <2>4 DEF EventLeft
<1>4. ASSUME NEW f, Gains(f), f.kind \notin AnswerKinds PROVE EventLeft'
  <2>1. Answers' = Answers
    BY <1>4, AnswersGained
  <2>2. i \in 1 .. Len(Arriving') /\ Arriving'[i] = Arriving[i]
    BY <1>1, <1>4, ArrivingTypes DEF Gains
  <2>3. QED
    BY <1>1, <2>1, <2>2 DEF EventLeft
<1>5. QED
  BY <1>2, <1>3, <1>4

\* An event that is sent comes behind the answers.
LEMMA EventComes == ASSUME ApiTypeOK, NEW f, Gains(f), f.kind \in Events PROVE EventLeft'
<1>1. Len(Arriving) \in Nat /\ Len(Arriving') = Len(Arriving) + 1
  BY ArrivingTypes DEF Gains
<1>2. Answers' = Answers
  BY AnswersGained DEF Events, EndOfTxKinds, AnswerKinds, PlainRequestKinds
<1>3. Arriving'[Len(Arriving')].kind \in Events /\ Len(Arriving') \in 1 .. Len(Arriving')
  BY <1>1 DEF Gains
<1>4. \A n \in Answers' : n < Len(Arriving')
  BY <1>1, <1>2 DEF Answers
<1>5. QED
  BY <1>3, <1>4 DEF EventLeft

\* On a line that loses nothing no exchange fails.
LEMMA NothingFails == ASSUME ApiTypeOK, ExchangeInv, ~Late, ~Faults
    PROVE  /\ ~SendRequestTimeout /\ ~SendRequestFails
           /\ ~LoseRequest /\ ~LoseFrame
  BY NothingDue DEF SendRequestFails, LoseRequest, LoseFrame

\* Whatever is dropped inside an exchange, RX is asked for behind it
\* (meshtastic.go, lines 305-311; api_client.go, lines 188-198)
LEMMA DeafStep == ASSUME GoodInv, DeafInv, ~Late, ~Faults, [Next]_vars PROVE DeafInv'
<1> USE DEF GoodInv
<1> USE DEF channelVars, seenVars, retryVars, nodeVars, deviceVars, apiVars
<1>0. /\ ApiTypeOK /\ mode \in Modes
      /\ ~SendRequestTimeout /\ ~SendRequestFails /\ ~LoseRequest /\ ~LoseFrame
  BY NothingFails DEF TypeOK, ApiTypeOK, DeviceTypeOK
\* The steps that leave the line alone, and the loop where it may wait.
<1>1. ASSUME UNCHANGED <<recv, held, toHost, toDevice, mode>>,
             \/ pc' = pc
             \/ pc \notin {"incoming", "switch", "deinit", "standby", "done"}
             \/ pc' \in {"incoming", "switch", "deinit", "standby", "done"}
      PROVE  DeafInv'
  <2>1. Arriving' = Arriving
    BY <1>1 DEF Arriving
  <2>2. QED
    BY <1>0, <1>1, <2>1, EventStays DEF DeafInv
<1>2. ASSUME NEW r \in 1 .. Len(Arriving), Loses(r), Arriving[r].kind \notin Events, pc' = pc,
             UNCHANGED <<toDevice, mode>>
      PROVE  DeafInv'
  BY <1>0, <1>2, EventStays DEF DeafInv
<1>3. CASE HandleRadioMessage
  <2>1. /\ pc = "select" /\ recv # <<>> /\ recv' = Tail(recv)
        /\ UNCHANGED <<held, toHost, toDevice, mode>>
    BY <1>3 DEF HandleRadioMessage, HandleNewPacket, HandleSeenPacket, HandleEndOfTx,
       HandleRSSI, HandleOther, Handling, ReceiveMessage
  <2>2. Loses(1) /\ Arriving[1] = Head(recv) /\ 1 \in 1 .. Len(Arriving)
    BY <1>0, <2>1, ArrivingTypes, HeadTaken DEF Loses
  <2>3. CASE HandleNewPacket \/ HandleSeenPacket \/ HandleEndOfTx
    BY <2>3 DEF HandleNewPacket, HandleSeenPacket, HandleEndOfTx, DeafInv
  <2>4. CASE HandleRSSI \/ HandleOther
    <3>1. Arriving[1].kind \notin Events
      BY <2>2, <2>4 DEF HandleRSSI, HandleOther, Handling, ReceiveMessage, Events,
         EndOfTxKinds, PlainRequestKinds
    <3>2. EventLeft => EventLeft'
      BY <1>0, <2>2, <3>1, EventStays
    <3>3. QED
      BY <2>1, <3>2 DEF DeafInv
  <2>5. QED
    BY <1>3, <2>3, <2>4 DEF HandleRadioMessage
<1>4. CASE TransmitPacket \/ SwitchToRx \/ DeinitRadio
  <2>1. PICK r : SendRequest(r)
    BY <1>4 DEF TransmitPacket, SwitchToRx, DeinitRadio
  <2>2. toDevice' = Append(toDevice, r) /\ toDevice = <<>>
    BY <2>1 DEF SendRequest, ExchangeInv
  <2>3. QED
    BY <2>2 DEF DeafInv
<1>5. CASE \/ SwitchedToRx \/ SwitchToRxTimeout \/ LoopEnd
           \/ Transmitted \/ TransmitBusy \/ TransmitRefused \/ TransmitTimeout
  <2>1. PICK res \in Frames : SendRequestReturn(res)
    BY <1>0, <1>5 DEF SwitchedToRx, SwitchToRxTimeout, LoopEnd, Transmitted, TransmitBusy,
       TransmitRefused, TransmitTimeout
  <2>2. 1 \in Answers /\ toDevice = <<>> /\ Answers' = {} /\ mode' = mode
    BY <1>0, <2>1, AnswerTaken DEF SendRequestReturn
  <2>3. Loses(1)
    BY <1>0, <2>1, ArrivingTypes, HeadTaken DEF SendRequestReturn
  <2>4. EventLeft => EventLeft'
    <3>1. Arriving[1].kind \notin Events /\ 1 \in 1 .. Len(Arriving)
      BY <2>2 DEF Answers, AnswerKinds, PlainRequestKinds, Events, EndOfTxKinds
    <3>2. QED
      BY <1>0, <2>3, <3>1, EventStays
  <2>5. \/ pc' = "done" /\ pc = "standby"
        \/ pc \in {"transmit", "rx"}
    BY <1>5 DEF SwitchedToRx, SwitchToRxTimeout, LoopEnd, Transmitted, TransmitBusy,
       TransmitRefused, TransmitTimeout
  <2>6. QED
    BY <2>2, <2>4, <2>5 DEF DeafInv
<1>6. CASE Discard
  <2>1. /\ call # NoCall /\ recv # <<>> /\ recv' = Tail(recv) /\ Head(recv).kind # call.kind
        /\ pc' = pc
        /\ UNCHANGED <<held, toHost, toDevice, mode>>
    BY <1>6 DEF Discard, SendRequestDiscard
  <2>2. Loses(1) /\ Arriving[1] = Head(recv) /\ 1 \in 1 .. Len(Arriving)
    BY <1>0, <2>1, ArrivingTypes, HeadTaken DEF Loses
  <2>3. CASE Arriving[1].kind \notin Events
    BY <1>2, <2>1, <2>2, <2>3
  <2>4. CASE Arriving[1].kind \in Events
    <3>1. CASE toDevice # <<>>
      BY <2>1, <3>1 DEF DeafInv
    <3>2. CASE toDevice = <<>>
      <4>1. PICK n \in Answers : TRUE
        BY <2>1, <3>2 DEF ExchangeInv
      <4>2. n # 1
        BY <2>1, <2>2 DEF ExchangeInv
      <4>3. EventLeft => EventLeft'
        <5>1. ASSUME NEW i \in 1 .. Len(Arriving), Arriving[i].kind \in Events,
                     \A k \in Answers : k < i
              PROVE  EventLeft'
          <6>1. n < i /\ i # 1
            BY <5>1, <4>1, <4>2, ArrivingTypes, <1>0 DEF Answers
          <6>2. PICK m \in 1 .. Len(Arriving') : Shift(m, 1) = i
            BY <1>0, <2>2, <6>1, ArrivingTypes, LosesFacts
          <6>3. Arriving'[m].kind \in Events
            BY <1>0, <2>2, <5>1, <6>2, ArrivingTypes, LosesFacts
          <6>4. ASSUME NEW k \in Answers' PROVE k < m
            <7>1. Shift(k, 1) < Shift(m, 1)
              BY <1>0, <2>2, <5>1, <6>2, AnswersLeft
            <7>2. k \in 1 .. Len(Arriving')
              BY DEF Answers
            <7>3. QED
              BY <1>0, <2>2, <6>2, <7>1, <7>2, ArrivingTypes, LosesFacts
          <6>5. QED
            BY <6>3, <6>4 DEF EventLeft
        <5>2. QED
          BY <5>1 DEF EventLeft
      <4>4. QED
        BY <2>1, <4>3 DEF DeafInv
    <3>3. QED
      BY <3>1, <3>2
  <2>5. QED
    BY <2>3, <2>4
<1>7. CASE Push
  BY <1>1, <1>7 DEF Push, Deliver, PushRSSI, PushError, PushWarning
<1>8. ASSUME NEW j \in Jobs, Retry(j) \/ Submit(j) PROVE DeafInv'
  BY <1>1, <1>8 DEF Retry, RetryTimer, RetryPush, RetryAbort, Submit
<1>9. CASE \/ RetryReturn \/ Cancel \/ LoopBreak \/ CloseApi
           \/ NodeStep \/ StopNode \/ Tick \/ TakePacket \/ UNCHANGED vars
  BY <1>1, <1>9 DEF RetryReturn, Cancel, LoopBreak, CloseApi, Close, NodeStep, TakeIncoming,
     TakeError, TakeWarning, TakeRSSI, StopNode, Tick, TakePacket, vars
<1>10. CASE BackgroundStep
  <2>0. pc' = pc
    BY <1>10 DEF BackgroundStep
  <2>1. CASE DeviceAnswer /\ ~DeviceStandby
    BY <2>1 DEF DeviceAnswer, DeviceAccept, DeviceRefuse, DeviceSwitchToRx, DeafInv
  <2>2. CASE DeviceStandby
    <3>1. call # NoCall /\ toDevice = <<call>>
      BY <2>2 DEF DeviceStandby, Asked, ExchangeInv
    <3>2. Head(toDevice) = call
      BY <3>1
    <3>3. pc = "standby"
      BY <2>2, <3>1, <3>2 DEF DeviceStandby, Asked, CallInv, TransmitRequest, Plain
    <3>4. QED
      BY <2>0, <3>3 DEF DeafInv
  <2>3. CASE DeviceEvent /\ UNCHANGED apiVars
    <3>1. PICK f \in Frames : /\ Gains(f) /\ f.kind \notin AnswerKinds
                              /\ f.kind \in Events \/ mode' = mode
      BY <1>0, <2>3, DeviceTells
    <3>2. toDevice' = toDevice
      BY <1>0, <2>3, DeviceTells
    <3>3. CASE f.kind \in Events
      BY <1>0, <3>1, <3>3, EventComes DEF DeafInv
    <3>4. CASE mode' = mode
      BY <1>0, <2>0, <3>1, <3>2, <3>4, EventStays DEF DeafInv
    <3>5. QED
      BY <3>1, <3>3, <3>4
  <2>4. CASE ReceiverPush \/ ReceiverPushed
    <3>1. UNCHANGED <<mode, toDevice>>
      BY <2>4 DEF ReceiverPush, ReceiverPushed
    <3>2. QED
      BY <1>0, <2>0, <2>4, <3>1, ArrivingTypes, FramesMove, EventStays DEF DeafInv
  <2>5. CASE ReceiverDrop
    <3>1. UNCHANGED <<mode, toDevice>>
      BY <2>5 DEF ReceiverDrop
    <3>2. QED
      BY <1>0, <1>2, <2>0, <2>5, <3>1, ArrivingTypes, FrameDropped DEF Events, EndOfTxKinds
  <2>6. CASE ReceiverTimeout \/ SenderExit \/ CloseReturn
    BY <1>1, <2>0, <2>6 DEF ReceiverTimeout, SenderExit, CloseReturn
  <2>7. CASE SenderTake \/ SenderForward \/ SenderFail
    BY <2>7 DEF SenderTake, SenderForward, SenderFail, CallInv
  <2>8. QED
    BY <1>0, <1>10, <2>1, <2>2, <2>3, <2>4, <2>5, <2>6, <2>7, DeviceSteps, ApiAssumption
       DEF BackgroundStep, Background, Receiver, ReceiverFail
<1>11. ~WriteFailure
  BY <1>0 DEF WriteFailure, TransmitFailure, SwitchToRxFailure, DeinitFailure
<1>12. QED
  BY <1>3, <1>4, <1>5, <1>6, <1>7, <1>8, <1>9, <1>10, <1>11 DEF Next, Exchange

\* While the loop waits and nothing more is to come from the radio, the radio
\* listens: each event that ends reception is answered with a request for RX
\* (meshtastic.go:264-311).
THEOREM RadioIsNotDeaf == ASSUME ~Late, ~Faults PROVE Spec => []NotDeaf
<1>1. Init => DeafInv
  BY DEF Init, DeviceInit, DeafInv
<1>2. GoodInv /\ DeafInv /\ [Next]_vars => DeafInv'
  BY DeafStep
<1>3. GoodInv /\ DeafInv => NotDeaf
  <2> SUFFICES ASSUME GoodInv, DeafInv, pc = "select", Arriving = <<>> PROVE mode # "STANDBY"
    BY DEF NotDeaf
  <2>1. ~EventLeft
    BY DEF EventLeft
  <2>2. toDevice = <<>>
    BY DEF GoodInv, ExchangeInv, CallInv
  <2>3. QED
    BY <2>1, <2>2 DEF DeafInv
<1>4. QED
  BY <1>1, <1>2, <1>3, GoodLineInv, PTL DEF Spec

-------------------------------------------------------------------------------
(* The node does not get its own packets back *)

\* No two packets of ours have the same key, nor has a packet of another node.
OwnKeys ==
    /\ \A j, i \in Jobs : KeyOf[j] = KeyOf[i] => j = i
    /\ \A j \in Jobs : KeyOf[j] \notin Foreign

\* What is on the air is foreign, or was taken by the device; a key of ours that is
\* on record is of a packet that was taken and is done with; and a packet sent
\* within the window has a record no older than that, or its answer is awaited.
EchoInv ==
    /\ aired \subseteq Foreign \cup {KeyOf[j] : j \in accepted}
    /\ \A i \in 1 .. Len(Arriving) :
          Arriving[i].kind = "PacketReceived" => Arriving[i].about \in aired
    /\ \A j \in Jobs : KeyOf[j] \in seen => j \in accepted /\ hand # j
    /\ \A k \in Keys : sent[k] < Window =>
          \/ k \in seen /\ age[k] <= sent[k]
          \/ pc = "transmit" /\ hand \in accepted /\ KeyOf[hand] = k

\* The frames that stay or come are about packets on the air.
LEMMA FramesOfAired == ASSUME ApiTypeOK, EchoInv, aired \subseteq aired',
                              \/ Arriving' = Arriving
                              \/ \E r \in 1 .. Len(Arriving) : Loses(r)
                              \/ \E f : Gains(f) /\ (f.kind = "PacketReceived" => f.about \in aired)
    PROVE  \A i \in 1 .. Len(Arriving') :
              Arriving'[i].kind = "PacketReceived" => Arriving'[i].about \in aired'
<1>1. CASE Arriving' = Arriving
  BY <1>1 DEF EchoInv
<1>2. ASSUME NEW r \in 1 .. Len(Arriving), Loses(r)
      PROVE  \A i \in 1 .. Len(Arriving') : /\ Shift(i, r) \in 1 .. Len(Arriving)
                                            /\ Arriving'[i] = Arriving[Shift(i, r)]
  BY <1>2, ArrivingTypes, LosesFacts
<1>3. ASSUME NEW f, Gains(f), f.kind = "PacketReceived" => f.about \in aired
      PROVE  \A i \in 1 .. Len(Arriving') :
              Arriving'[i].kind = "PacketReceived" => Arriving'[i].about \in aired'
  <2>1. \A i \in 1 .. Len(Arriving') : i \in 1 .. Len(Arriving) \/ i = Len(Arriving) + 1
    BY <1>3, ArrivingTypes DEF Gains
  <2>2. QED
    BY <1>3, <2>1 DEF Gains, EchoInv
<1>4. QED
  BY <1>1, <1>2, <1>3 DEF EchoInv

\* The packet the device takes is the one in hand, for the first time.
LEMMA TakenInHand == ASSUME GoodInv, NEW j \in Jobs, DeviceAccept(j)
                     PROVE  hand = j /\ pc = "transmit" /\ j \notin accepted
<1>1. hand = j /\ pc = "transmit" /\ toDevice # <<>>
  BY AskedInHand DEF GoodInv, DeviceAccept, Asked
<1>2. QED
  BY <1>1 DEF GoodInv, SentInv

\* The record made when the packet was sent is there when it comes back
\* (meshtastic.go, lines 315-367)
LEMMA EchoStep == ASSUME GoodInv, EchoInv, OwnKeys, ~Late, ~Faults, [Next]_vars PROVE EchoInv'
<1> USE DEF GoodInv
<1> USE DEF channelVars, seenVars, recordVars, retryVars, nodeVars, deviceVars, apiVars
<1>0. /\ ApiTypeOK /\ accepted \subseteq Jobs /\ None \notin Jobs /\ Jobs \cap Keys = {}
      /\ outgoing \in Seq(Jobs)
      /\ seen \subseteq Keys
      /\ age \in [Keys -> 0 .. Window]
      /\ sent \in [Keys -> 0 .. Window]
      /\ Window \in Nat \ {0}
      /\ KeyOf \in [Jobs -> Keys]
      /\ ~SendRequestTimeout /\ ~SendRequestFails /\ ~LoseRequest /\ ~LoseFrame
  BY DeviceAssumption, ClientAssumption, NothingFails
     DEF TypeOK, ApiTypeOK, DeviceTypeOK, ClientTypeOK
\* A step is judged by what it does to the line, to the records and to the hand.
<1>1. ASSUME aired' = aired, accepted' = accepted,
             \/ Arriving' = Arriving
             \/ \E r \in 1 .. Len(Arriving) : Loses(r)
             \/ \E f : Gains(f) /\ (f.kind = "PacketReceived" => f.about \in aired),
             UNCHANGED <<age, sent>>, seen' = seen \/ seen' = Remembered,
             hand' = hand \/ hand' \notin Jobs,
             (pc' = pc /\ hand' = hand) \/ pc # "transmit" \/ hand \notin accepted
      PROVE  EchoInv'
  <2>1. \A k \in Keys : sent[k] < Window /\ k \in seen /\ age[k] <= sent[k] => k \in Remembered
    BY <1>0 DEF Remembered
  <2>2. Remembered \subseteq seen
    BY DEF Remembered
  <2>3. QED
    BY <1>0, <1>1, <2>1, <2>2, FramesOfAired DEF EchoInv
<1>2. ASSUME UNCHANGED <<recv, held, toHost>> PROVE Arriving' = Arriving
  BY <1>2 DEF Arriving
<1>3. CASE HandleNewPacket
  <2>1. PICK msg \in Frames : HandleNewPacket!(msg)
    BY <1>3 DEF HandleNewPacket
  <2> DEFINE k == msg.about
  <2>2. /\ pc = "select" /\ recv # <<>> /\ msg = Head(recv) /\ recv' = Tail(recv)
        /\ UNCHANGED <<held, toHost, aired, accepted>>
    BY <2>1 DEF Handling, ReceiveMessage
  <2>3. Loses(1) /\ Arriving[1] = msg /\ 1 \in 1 .. Len(Arriving)
    BY <1>0, <2>2, ArrivingTypes, HeadTaken DEF Loses
  <2>4. k \in Keys /\ k \in aired
    BY <2>1, <2>3, AboutFacts DEF EchoInv
  <2>5. ASSUME NEW j \in Jobs, KeyOf[j] = k PROVE j \in accepted
    <3>1. PICK i \in accepted : KeyOf[i] = k
      BY <2>4, <2>5 DEF EchoInv, OwnKeys
    <3>2. QED
      BY <1>0, <2>5, <3>1 DEF OwnKeys
  <2>6. /\ k \notin Remembered /\ seen' = Remembered \cup {k} /\ age' = [age EXCEPT ![k] = 0]
        /\ hand' = k /\ sent' = sent
    BY <2>1 DEF Record
  <2>7. \A n \in Keys : sent'[n] < Window => n \in seen' /\ age'[n] <= sent'[n]
    BY <1>0, <2>2, <2>4, <2>6 DEF EchoInv, Remembered
  <2>8. \A j \in Jobs : KeyOf[j] \in seen' => j \in accepted' /\ hand' # j
    BY <1>0, <2>2, <2>4, <2>5, <2>6 DEF EchoInv, Remembered
  <2>9. aired' \subseteq Foreign \cup {KeyOf[j] : j \in accepted'}
    BY <2>2 DEF EchoInv
  <2>10. QED
    BY <1>0, <2>2, <2>3, <2>7, <2>8, <2>9, FramesOfAired DEF EchoInv
<1>4. CASE HandleRadioMessage /\ ~HandleNewPacket
  <2>1. /\ recv # <<>> /\ recv' = Tail(recv) /\ pc = "select"
        /\ UNCHANGED <<held, toHost, aired, accepted, age, sent, hand>>
        /\ seen' = seen \/ seen' = Remembered
    BY <1>4 DEF HandleRadioMessage, HandleSeenPacket, HandleEndOfTx,
       HandleRSSI, HandleOther, Handling, ReceiveMessage
  <2>2. Loses(1) /\ 1 \in 1 .. Len(Arriving)
    BY <1>0, <2>1, ArrivingTypes, HeadTaken DEF Loses
  <2>3. QED
    BY <1>1, <2>1, <2>2
<1>5. CASE TakePacket
  <2>1. /\ outgoing # <<>> /\ hand' = Head(outgoing) /\ pc = "select"
        /\ UNCHANGED <<aired, accepted, recv, held, toHost, age, sent>> /\ seen' = Remembered
    BY <1>5 DEF TakePacket
  <2>2. Head(outgoing) \in Jobs /\ Head(outgoing) \notin accepted
    BY <1>0, <2>1, QueueFacts DEF SentInv, Queued
  <2>3. \A k \in Keys : sent[k] < Window => k \in Remembered /\ age[k] <= sent[k]
    BY <1>0, <2>1 DEF EchoInv, Remembered
  <2>4. Remembered \subseteq seen
    BY DEF Remembered
  <2>5. QED
    BY <1>0, <1>2, <2>1, <2>2, <2>3, <2>4, FramesOfAired DEF EchoInv
<1>6. CASE Transmitted
  <2>1. PICK res \in Frames : SendRequestReturn(res) /\ ~res.busy
    BY <1>6 DEF Transmitted
  <2>2. /\ pc = "transmit" /\ hand' = None /\ UNCHANGED <<aired, accepted>>
        /\ Record(KeyOf[hand], seen) /\ sent' = sent
    BY <1>6 DEF Transmitted, SendRequestReturn
  <2>3. hand \in Jobs /\ hand \in accepted
    BY <2>1, <2>2, ReturnInHand
  <2>4. KeyOf[hand] \in Keys /\ KeyOf[hand] \notin seen
    BY <1>0, <2>3 DEF EchoInv
  <2>5. seen' = seen \cup {KeyOf[hand]} /\ age' = [age EXCEPT ![KeyOf[hand]] = 0]
    BY <2>2, <2>4 DEF Record
  <2>6. \A k \in Keys : sent'[k] < Window => k \in seen' /\ age'[k] <= sent'[k]
    BY <1>0, <2>2, <2>4, <2>5 DEF EchoInv
  <2>7. \A j \in Jobs : KeyOf[j] \in seen' => j \in accepted' /\ hand' # j
    BY <1>0, <2>2, <2>3, <2>5 DEF EchoInv, OwnKeys
  <2>8. Loses(1) /\ 1 \in 1 .. Len(Arriving)
    BY <1>0, <2>1, ArrivingTypes, HeadTaken DEF SendRequestReturn, Loses
  <2>9. aired' \subseteq Foreign \cup {KeyOf[j] : j \in accepted'}
    BY <2>2 DEF EchoInv
  <2>10. QED
    BY <1>0, <2>2, <2>6, <2>7, <2>8, <2>9, FramesOfAired DEF EchoInv
<1>7. CASE SwitchedToRx \/ LoopEnd \/ TransmitBusy \/ TransmitRefused \/ Discard
  <2>1. /\ recv # <<>> /\ recv' = Tail(recv)
        /\ UNCHANGED <<held, toHost, aired, accepted, age, sent, hand, seen>>
    BY <1>0, <1>7 DEF SwitchedToRx, LoopEnd, Discard, TransmitBusy, TransmitRefused,
       SendRequestReturn, SendRequestDiscard
  <2>2. Loses(1) /\ 1 \in 1 .. Len(Arriving)
    BY <1>0, <2>1, ArrivingTypes, HeadTaken DEF Loses
  <2>3. TransmitBusy \/ TransmitRefused => hand \notin accepted
    <3>1. ASSUME NEW res \in Frames, SendRequestReturn(res), pc = "transmit", res.busy
          PROVE  hand \notin accepted
      <4>1. res.busy = TRUE
        BY <3>1 DEF Frames
      <4>2. QED
        BY <3>1, <4>1, ReturnInHand
    <3>2. QED
      BY <3>1 DEF TransmitBusy, TransmitRefused
  <2>4. pc' = pc \/ pc # "transmit" \/ TransmitBusy \/ TransmitRefused
    BY <1>7 DEF SwitchedToRx, LoopEnd, Discard
  <2>5. QED
    BY <1>1, <2>1, <2>2, <2>3, <2>4
<1>8. CASE SwitchToRx \/ DeinitRadio \/ TransmitPacket
  BY <1>1, <1>2, <1>8 DEF SwitchToRx, DeinitRadio, TransmitPacket, SendRequest
<1>9. CASE Push
  BY <1>0, <1>1, <1>2, <1>9 DEF Push, Deliver, PushRSSI, PushError, PushWarning
<1>10. ASSUME NEW j \in Jobs, Retry(j) \/ Submit(j) PROVE EchoInv'
  BY <1>1, <1>2, <1>10 DEF Retry, RetryTimer, RetryPush, RetryAbort, Submit
<1>11. CASE \/ RetryReturn \/ Cancel \/ LoopBreak \/ CloseApi
            \/ NodeStep \/ StopNode \/ UNCHANGED vars
  BY <1>1, <1>2, <1>11 DEF RetryReturn, Cancel, LoopBreak, CloseApi, Close, NodeStep,
     TakeIncoming, TakeError, TakeWarning, TakeRSSI, StopNode, vars
<1>12. CASE Tick
  <2>1. /\ UNCHANGED <<recv, held, toHost, aired, accepted, seen, hand, pc>>
        /\ \A k \in Keys : age'[k] = Older(age[k]) /\ sent'[k] = Older(sent[k])
    BY <1>12 DEF Tick
  <2>2. \A k \in Keys : sent'[k] < Window =>
            \/ k \in seen' /\ age'[k] <= sent'[k]
            \/ pc' = "transmit" /\ hand' \in accepted' /\ KeyOf[hand'] = k
    BY <1>0, <2>1 DEF EchoInv, Older
  <2>3. QED
    BY <1>0, <1>2, <2>1, <2>2, FramesOfAired DEF EchoInv
<1>13. CASE BackgroundStep
  <2>1. /\ UNCHANGED <<pc, hand, seen, age>>
        /\ (\A j \in Jobs : ~DeviceAccept(j)) => sent' = sent
        /\ \A k \in Keys : sent'[k] = sent[k] \/ \E j \in Jobs : KeyOf[j] = k /\ DeviceAccept(j)
    BY <1>0, <1>13 DEF BackgroundStep
  <2>2. accepted' = accepted => sent' = sent
    <3>1. \A j \in Jobs : DeviceAccept(j) => j \in accepted' /\ j \notin accepted
      BY TakenInHand DEF DeviceAccept
    <3>2. QED
      BY <2>1, <3>1
  <2>3. ASSUME NEW j \in Jobs, DeviceAccept(j), UNCHANGED apiVars PROVE EchoInv'
    <3>1. aired' = aired \cup {KeyOf[j]} /\ accepted' = accepted \cup {j}
      BY <2>3 DEF DeviceAccept
    <3>2. /\ Gains(TransmitAnswer(j, FALSE))
          /\ TransmitAnswer(j, FALSE).kind # "PacketReceived"
      BY <1>0, <2>3, MessageFacts, ArrivingTypes, FrameSent DEF DeviceAccept, TransmitAnswer
    <3>3. hand = j /\ pc = "transmit" /\ j \notin accepted
      BY <2>3, TakenInHand
    <3>4. \A k \in Keys : sent'[k] = sent[k] \/ k = KeyOf[j]
      <4>1. \A i \in Jobs : DeviceAccept(i) => i = j
        BY <3>3, TakenInHand
      <4>2. QED
        BY <2>1, <4>1
    <3>5. \A k \in Keys : sent'[k] < Window =>
              \/ k \in seen' /\ age'[k] <= sent'[k]
              \/ pc' = "transmit" /\ hand' \in accepted' /\ KeyOf[hand'] = k
      BY <2>1, <3>1, <3>3, <3>4 DEF EchoInv
    <3>6. \A i \in Jobs : KeyOf[i] \in seen' => i \in accepted' /\ hand' # i
      BY <2>1, <3>1 DEF EchoInv
    <3>7. aired' \subseteq Foreign \cup {KeyOf[i] : i \in accepted'}
      BY <3>1 DEF EchoInv
    <3>8. QED
      BY <1>0, <3>1, <3>2, <3>5, <3>6, <3>7, FramesOfAired DEF EchoInv
  <2>4. CASE DeviceAnswer /\ UNCHANGED apiVars /\ \A j \in Jobs : ~DeviceAccept(j)
    <3>1. UNCHANGED <<aired, accepted>>
      BY <2>4 DEF DeviceAnswer, DeviceRefuse, DeviceSwitchToRx, DeviceStandby
    <3>2. \E f \in Frames : Gains(f) /\ f.kind # "PacketReceived"
      BY <1>0, <2>4, DeviceAnswers DEF AnswerKinds, PlainRequestKinds
    <3>3. QED
      BY <1>1, <2>1, <2>2, <3>1, <3>2
  <2>5. CASE DeviceEvent /\ UNCHANGED apiVars
    BY <1>0, <1>1, <2>1, <2>5, <2>2, DeviceTells
  <2>6. CASE ReceiverPush \/ ReceiverPushed
    <3>1. UNCHANGED <<aired, accepted>>
      BY <2>6 DEF ReceiverPush, ReceiverPushed
    <3>2. QED
      BY <1>0, <1>1, <2>1, <2>6, <2>2, <3>1, ArrivingTypes, FramesMove
  <2>7. CASE ReceiverDrop
    <3>1. UNCHANGED <<aired, accepted>>
      BY <2>7 DEF ReceiverDrop
    <3>2. QED
      BY <1>0, <1>1, <2>1, <2>7, <2>2, <3>1, ArrivingTypes, FrameDropped
  <2>8. CASE ReceiverTimeout \/ SenderExit \/ CloseReturn
    BY <1>1, <1>2, <2>1, <2>8, <2>2 DEF ReceiverTimeout, SenderExit, CloseReturn
  <2>9. CASE SenderTake \/ SenderForward \/ SenderFail
    BY <2>9 DEF SenderTake, SenderForward, SenderFail, CallInv
  <2>10. QED
    BY <1>0, <1>13, <2>3, <2>4, <2>5, <2>6, <2>7, <2>8, <2>9, DeviceSteps, ApiAssumption
       DEF BackgroundStep, Background, Receiver, ReceiverFail, DeviceAnswer
<1>14. ~WriteFailure /\ ~SwitchToRxTimeout /\ ~TransmitTimeout
  BY <1>0 DEF WriteFailure, TransmitFailure, SwitchToRxFailure, DeinitFailure,
     SwitchToRxTimeout, TransmitTimeout
<1>15. QED
  BY <1>3, <1>4, <1>5, <1>6, <1>7, <1>8, <1>9, <1>10, <1>11, <1>12, <1>13, <1>14
     DEF Next, Exchange

\* On a line that loses nothing, and if no key is used twice, the node does not get a
\* packet of its own back within the window after the device sent it.
THEOREM NodeHearsNoEcho == ASSUME ~Late, ~Faults, OwnKeys PROVE Spec => NoEcho
<1>1. Init => EchoInv
  <2> SUFFICES ASSUME Init PROVE EchoInv
    OBVIOUS
  <2>1. Arriving = <<>>
    BY DEF Init, DeviceInit, ApiInit, Arriving
  <2>2. QED
    BY <2>1, ClientAssumption DEF Init, DeviceInit, ClientInit, EchoInv
<1>2. GoodInv /\ EchoInv /\ [Next]_vars => EchoInv'
  BY EchoStep
<1>3. GoodInv /\ EchoInv => [HandleNewPacket => sent[hand'] = Window]_vars
  <2> SUFFICES ASSUME GoodInv, EchoInv, HandleNewPacket PROVE sent[hand'] = Window
    OBVIOUS
  <2>1. PICK k \in Keys : k \notin Remembered /\ hand' = k /\ pc = "select"
    BY AboutFacts DEF HandleNewPacket, Handling
  <2>2. sent[k] \in 0 .. Window /\ Window \in Nat /\ age[k] \in 0 .. Window
    BY <2>1, ClientAssumption DEF GoodInv, TypeOK, ClientTypeOK
  <2>3. QED
    BY <2>1, <2>2 DEF EchoInv, Remembered
<1>4. QED
  BY <1>1, <1>2, <1>3, GoodLineInv, PTL DEF Spec, NoEcho

-------------------------------------------------------------------------------
(* Open *)

\* What may be on its way to a reader of Recv while the port is being opened, and the
\* requests written to it.
OpenFrames == Frames \cup [kind : Elements(Requested), about : {None}, busy : BOOLEAN]
OpenRequests == {Plain(Requested[i]) : i \in 1 .. 5}

\* The answers to requests of initRadio among the frames under way, by their place.
Replies == {i \in 1 .. Len(Arriving) : Arriving[i].kind \in Elements(Requested)}

\* The types while it is being opened
OpenTypeOK ==
    /\ step \in 1 .. 5
    /\ QueuesOf(OpenFrames) /\ toDevice \in Seq(OpenRequests)
    /\ send = <<>> /\ sender # "write"
    /\ call \in {NoCall, Plain(Requested[step])}
    /\ applied \subseteq Elements(Requested)

\* The request at place i of what is written is an attempt at the first, or is the last.
RequestInLine(i) ==
    \/ toDevice[i].kind = Requested[1]
    \/ step > 1 /\ call # NoCall /\ toDevice[i].kind = Requested[step] /\ i = Len(toDevice)

\* The answer at place i is one to the first, or is what an earlier process has left in
\* front of them, or is the last answer, nothing more being asked.
ReplyInLine(i) ==
    \/ Arriving[i].kind = Requested[1]
    \/ step = 1 /\ \A n \in Replies : i <= n
    \/ /\ step > 1 /\ call # NoCall /\ Arriving[i].kind = Requested[step]
       /\ toDevice = <<>> /\ \A n \in Replies : n <= i

\* What is answered has been carried out, unless the answer says otherwise.
Truthful(i) ==
    /\ Arriving[i].kind = Requested[1] => Requested[1] \in applied
    /\ step > 1 /\ Arriving[i].kind = Requested[step] =>
          Requested[step] \in applied \/ (step = 2 /\ Arriving[i].busy = TRUE)

LineInv ==
    /\ \A i \in 1 .. Len(toDevice) : RequestInLine(i)
    /\ \A i \in Replies : ReplyInLine(i) /\ Truthful(i)
    /\ \A i \in 1 .. step - 1 : Requested[i] \in applied

OpenInv == Opening => OpenTypeOK /\ LineInv

\* The five requests are of different kinds, and none is what a device tells unasked.
LEMMA RequestedFacts ==
    /\ Elements(Requested) = {Requested[i] : i \in 1 .. 5}
    /\ \A i, n \in 1 .. 5 : Requested[i] = Requested[n] => i = n
    /\ Requested[1] = "RxTxFallbackMode" /\ Requested[2] = "RadioFrequency"
    /\ Requested[5] = "SwitchToRx"
    /\ Settings = Elements(Requested) \ {"SwitchToRx"}
    /\ \A k \in {"Transmit", "Standby", "PacketReceived"} \cup EndOfTxKinds \cup Chatter :
          k \notin Elements(Requested)
<1>1. Len(Requested) = 5
  BY DEF Requested
<1>2. Elements(Requested) = {Requested[i] : i \in 1 .. 5}
  BY <1>1 DEF Elements
<1>3. /\ Requested[1] = "RxTxFallbackMode" /\ Requested[2] = "RadioFrequency"
      /\ Requested[3] = "TxParameters" /\ Requested[4] = "LoRaParameters"
      /\ Requested[5] = "SwitchToRx"
  BY DEF Requested
<1>4. 1 .. 5 = {1, 2, 3, 4, 5} /\ 1 .. 4 = {1, 2, 3, 4}
  OBVIOUS
<1>5. Elements(Requested) = {"RxTxFallbackMode", "RadioFrequency", "TxParameters",
                             "LoRaParameters", "SwitchToRx"}
  BY <1>2, <1>3, <1>4
<1>6. Settings = {"RxTxFallbackMode", "RadioFrequency", "TxParameters", "LoRaParameters"}
  BY <1>3, <1>4 DEF Settings
<1>7. \A k \in {"Transmit", "Standby", "PacketReceived"} \cup EndOfTxKinds \cup Chatter :
         k \notin Elements(Requested)
  BY <1>5, DeviceAssumption DEF EndOfTxKinds, ChatterKinds
<1>8. \A i, n \in 1 .. 5 : Requested[i] = Requested[n] => i = n
  BY <1>3, <1>4
<1>9. QED
  BY <1>2, <1>3, <1>5, <1>6, <1>7, <1>8

\* What is asked, and what it is answered with.
LEMMA OpenRequestFacts ==
    /\ \A i \in 1 .. 5 : /\ Plain(Requested[i]) \in OpenRequests
                         /\ Plain(Requested[i]).kind = Requested[i]
                         /\ Plain(Requested[i]) # NoCall
    /\ \A r \in OpenRequests : r.kind \in Elements(Requested)
    /\ \A k \in Elements(Requested), b \in BOOLEAN :
          LET f == [Plain(k) EXCEPT !.busy = b] IN
             f \in OpenFrames /\ f.kind = k /\ f.busy = b
    /\ \A k \in Elements(Requested) :
          Plain(k) \in OpenFrames /\ Plain(k).kind = k
<1>1. DOMAIN Requested = 1 .. 5
  BY DEF Requested
<1>2. QED
  BY <1>1, RequestedFacts, RadioInitAssumption DEF OpenRequests, OpenFrames, Plain

\* The state of Open at its beginning
LEMMA OpenInitInv == ASSUME OpenInit PROVE OpenInv
<1> USE DEF OpenInit, ApiInit
<1>1. /\ step = 1 /\ call = NoCall /\ toDevice = <<>> /\ send = <<>> /\ sender = "run"
      /\ recv = <<>> /\ held = <<>>
  OBVIOUS
<1>2. \A f \in Leftovers : f \in OpenFrames
  <2>1. \A k \in Keys : PacketReceived(k) \in OpenFrames
    BY MessageFacts DEF OpenFrames
  <2>2. DOMAIN Requested = 1 .. 5
    BY DEF Requested
  <2>3. QED
    BY <2>1, <2>2, OpenRequestFacts, RequestedFacts DEF Leftovers
<1>3. PICK q \in {<<>>} \cup {<<f>> : f \in Leftovers} : toHost = q
  OBVIOUS
<1>4. toHost \in Seq(OpenFrames) /\ Len(toHost) \in {0, 1}
  <2>1. CASE q = <<>>
    BY <1>3, <2>1
  <2>2. ASSUME NEW f \in Leftovers,
               q = <<f>>
        PROVE  toHost \in Seq(OpenFrames) /\ Len(toHost) = 1
    BY <1>2, <1>3, <2>2
  <2>3. QED
    BY <2>1, <2>2
<1>5. Arriving = toHost
  BY <1>1, <1>4 DEF Arriving
<1>6. OpenTypeOK
  BY <1>1, <1>4, RequestedFacts DEF OpenTypeOK, QueuesOf
<1>7. \A i \in Replies : i = 1
  BY <1>4, <1>5 DEF Replies
<1>8. ASSUME NEW i \in Replies PROVE ReplyInLine(i) /\ Truthful(i)
  <2>1. ReplyInLine(i)
    BY <1>1, <1>7 DEF ReplyInLine
  <2>2. i \in 1 .. Len(toHost) /\ i = 1 /\ Arriving[i] = toHost[1]
    BY <1>5, <1>7 DEF Replies
  <2>3. Arriving[i].kind = Requested[1] => Requested[1] \in applied
    BY <2>2 DEF Elements
  <2>4. QED
    BY <1>1, <2>1, <2>3 DEF Truthful
<1>9. QED
  BY <1>1, <1>6, <1>8 DEF OpenInv, LineInv

-------------------------------------------------------------------------------

\* What is written to the device is as before, or is shorter by the first request.
Shorter == toDevice' = toDevice \/ (toDevice # <<>> /\ toDevice' = Tail(toDevice))

\* The requests left are in line.
LEMMA RequestsLeft == ASSUME OpenTypeOK, LineInv, Shorter, step' = step, call' = call
    PROVE  /\ toDevice' \in Seq(OpenRequests)
           /\ \A i \in 1 .. Len(toDevice') : RequestInLine(i)'
<1>1. toDevice \in Seq(OpenRequests)
  BY DEF OpenTypeOK
<1>2. CASE toDevice' = toDevice
  <2>1. \A i \in 1 .. Len(toDevice) : RequestInLine(i)
    BY DEF LineInv
  <2>2. ASSUME NEW i \in 1 .. Len(toDevice) PROVE RequestInLine(i)'
    BY <1>2, <2>1 DEF RequestInLine
  <2>3. QED
    BY <1>1, <1>2, <2>2
<1>3. CASE toDevice # <<>> /\ toDevice' = Tail(toDevice)
  <2>1. /\ toDevice' \in Seq(OpenRequests) /\ Len(toDevice) \in Nat
        /\ Len(toDevice') = Len(toDevice) - 1
        /\ \A i \in 1 .. Len(toDevice') : toDevice'[i] = toDevice[i + 1]
    BY <1>1, <1>3
  <2>2. ASSUME NEW i \in 1 .. Len(toDevice') PROVE RequestInLine(i)'
    <3>1. i + 1 \in 1 .. Len(toDevice)
      BY <2>1
    <3>2. RequestInLine(i + 1)
      BY <3>1 DEF LineInv
    <3>3. QED
      BY <2>1, <3>2 DEF RequestInLine
  <2>3. QED
    BY <2>1, <2>2
<1>4. QED
  BY <1>2, <1>3 DEF Shorter

\* Nothing left to ask stays so.
LEMMA NothingAsked == ASSUME OpenTypeOK, Shorter, toDevice = <<>> PROVE toDevice' = <<>>
  BY DEF Shorter

\* A step that makes no difference to what is under way, or shortens the line to the
\* device.
LEMMA OpenKept == ASSUME OpenTypeOK, LineInv, Shorter, UNCHANGED <<step, call>>,
                         applied \subseteq applied',
                         Arriving' = Arriving
                  PROVE  LineInv'
<1>1. Replies' = Replies
  BY DEF Replies
<1>2. ASSUME NEW i \in Replies PROVE ReplyInLine(i)' /\ Truthful(i)'
  <2>1. ReplyInLine(i) /\ Truthful(i)
    BY DEF LineInv
  <2>2. ReplyInLine(i)'
    BY <1>1, <2>1, NothingAsked DEF ReplyInLine
  <2>3. QED
    BY <2>1, <2>2 DEF Truthful
<1>3. QED
  BY <1>1, <1>2, RequestsLeft DEF LineInv

\* A frame is lost, discarded or dropped.
LEMMA OpenLoses == ASSUME OpenTypeOK, LineInv, Shorter, UNCHANGED <<step, call>>,
                          applied \subseteq applied',
                          NEW r, Loses(r)
                   PROVE  LineInv'
<1>1. QueuesOf(OpenFrames)
  BY DEF OpenTypeOK
<1>2. \A i \in Replies' : Shift(i, r) \in Replies /\ Arriving'[i] = Arriving[Shift(i, r)]
  BY <1>1, LosesFacts DEF Replies
<1>3. \A i, n \in Replies' : i <= n <=> Shift(i, r) <= Shift(n, r)
  <2>1. Len(Arriving') \in Nat /\ Len(Arriving) \in Nat
    BY <1>1, ArrivingFacts DEF Loses
  <2>2. Replies' \subseteq 1 .. Len(Arriving')
    BY DEF Replies
  <2>3. r \in Int
    BY <2>1 DEF Loses
  <2>4. QED
    BY <2>1, <2>2, <2>3 DEF Shift
<1>4. ASSUME NEW i \in Replies' PROVE ReplyInLine(i)' /\ Truthful(i)'
  <2>1. ReplyInLine(Shift(i, r)) /\ Truthful(Shift(i, r))
    BY <1>2 DEF LineInv
  <2>2. ReplyInLine(i)'
    BY <1>2, <1>3, <2>1, NothingAsked DEF ReplyInLine
  <2>3. QED
    BY <1>2, <2>1, <2>2 DEF Truthful
<1>5. QED
  BY <1>4, RequestsLeft DEF LineInv

\* The device tells something unasked.
LEMMA OpenGains == ASSUME OpenTypeOK, LineInv, UNCHANGED <<step, call, toDevice>>,
                          applied \subseteq applied',
                          NEW f, Gains(f), f.kind \notin Elements(Requested)
                   PROVE  LineInv'
<1>1. QueuesOf(OpenFrames) /\ Len(Arriving) \in Nat
  BY ArrivingFacts DEF OpenTypeOK
<1>2. Replies' = Replies /\ \A i \in Replies : Arriving'[i] = Arriving[i]
  BY <1>1 DEF Gains, Replies
<1>3. ASSUME NEW i \in Replies PROVE ReplyInLine(i)' /\ Truthful(i)'
  <2>1. ReplyInLine(i) /\ Truthful(i)
    BY DEF LineInv
  <2>2. QED
    BY <1>2, <2>1 DEF ReplyInLine, Truthful
<1>4. QED
  BY <1>2, <1>3, RequestsLeft DEF LineInv, Shorter

\* The device answers a request of Open.
LEMMA OpenAnswered == ASSUME OpenTypeOK, LineInv, UNCHANGED <<step, call>>,
                             toDevice # <<>>, toDevice' = Tail(toDevice), applied \subseteq applied',
                             NEW f, Gains(f), f.kind = Head(toDevice).kind,
                             f.kind \in applied' \/ (f.kind = "RadioFrequency" /\ f.busy = TRUE)
                      PROVE  LineInv'
<1>1. /\ QueuesOf(OpenFrames) /\ Len(Arriving) \in Nat
      /\ toDevice \in Seq(OpenRequests) /\ step \in 1 .. 5
  BY ArrivingFacts DEF OpenTypeOK
<1>2. /\ 1 \in 1 .. Len(toDevice) /\ Head(toDevice) = toDevice[1]
      /\ Head(toDevice) \in OpenRequests
      /\ Len(toDevice) = 1 => toDevice' = <<>>
  BY <1>1
<1>3. f.kind \in Elements(Requested)
  BY <1>2, OpenRequestFacts
<1>4. /\ Len(Arriving') = Len(Arriving) + 1
      /\ Arriving'[Len(Arriving) + 1] = f
      /\ \A i \in 1 .. Len(Arriving) : Arriving'[i] = Arriving[i]
  BY DEF Gains
<1>5. Replies' = Replies \cup {Len(Arriving) + 1}
  BY <1>1, <1>3, <1>4 DEF Replies
<1>6. ASSUME NEW i \in Replies PROVE ReplyInLine(i)' /\ Truthful(i)'
  <2>1. /\ ReplyInLine(i) /\ Truthful(i)
        /\ i \in 1 .. Len(Arriving) /\ Arriving'[i] = Arriving[i]
    BY <1>4 DEF LineInv, Replies
  <2>2. ReplyInLine(i)'
    BY <1>1, <1>5, <2>1 DEF ReplyInLine
  <2>3. QED
    BY <2>1, <2>2 DEF Truthful
<1>7. ASSUME NEW i, i = Len(Arriving) + 1 PROVE ReplyInLine(i)' /\ Truthful(i)'
  <2>1. RequestInLine(1)
    BY <1>2 DEF LineInv
  <2>2. f.kind = Requested[1] \/ (step > 1 /\ call # NoCall /\ f.kind = Requested[step]
                                     /\ toDevice' = <<>>)
    BY <1>1, <1>2, <2>1 DEF RequestInLine
  <2>3. \A n \in Replies' : n <= i
    BY <1>1, <1>5, <1>7 DEF Replies
  <2>4. Arriving'[i] = f
    BY <1>4, <1>7
  <2>5. ReplyInLine(i)'
    BY <2>2, <2>3, <2>4 DEF ReplyInLine
  <2>6. Truthful(i)'
    <3>1. 1 \in 1 .. 5 /\ 2 \in 1 .. 5
      OBVIOUS
    <3>2. f.kind = Requested[1] => f.kind \in applied'
      BY <3>1, RequestedFacts
    <3>3. f.kind = Requested[step] => f.kind \in applied' \/ (step = 2 /\ f.busy = TRUE)
      BY <1>1, <3>1, RequestedFacts
    <3>4. QED
      BY <2>4, <3>2, <3>3 DEF Truthful
  <2>7. QED
    BY <2>5, <2>6
<1>8. \A i \in 1 .. step - 1 : Requested[i] \in applied'
  BY DEF LineInv
<1>9. \A i \in 1 .. Len(toDevice') : RequestInLine(i)'
  BY RequestsLeft DEF Shorter
<1>10. QED
  BY <1>5, <1>6, <1>7, <1>8, <1>9 DEF LineInv

\* Open makes a request.
LEMMA OpenAsks == ASSUME OpenTypeOK, LineInv, UNCHANGED <<step, applied>>,
                         SendRequest(Plain(Requested[step]))
                  PROVE  OpenTypeOK' /\ LineInv'
<1> DEFINE req == Plain(Requested[step])
<1>1. /\ call = NoCall /\ call' = req
      /\ toDevice' = Append(toDevice, req) /\ send' = send /\ sender' = sender
      /\ UNCHANGED <<recv, held, toHost, receiver>>
  BY DEF SendRequest
<1>2. toDevice \in Seq(OpenRequests) /\ step \in 1 .. 5 /\ Len(toDevice) \in Nat
  BY DEF OpenTypeOK
<1>3. req \in OpenRequests /\ req.kind = Requested[step] /\ req # NoCall
  BY <1>2, OpenRequestFacts
<1>4. Arriving' = Arriving
  BY <1>1 DEF Arriving
<1> HIDE DEF req
<1>5. /\ toDevice' \in Seq(OpenRequests) /\ Len(toDevice') = Len(toDevice) + 1
      /\ toDevice'[Len(toDevice) + 1] = req
      /\ \A i \in 1 .. Len(toDevice) : toDevice'[i] = toDevice[i]
  BY <1>1, <1>2, <1>3
<1>6. OpenTypeOK'
  BY <1>1, <1>5 DEF OpenTypeOK, QueuesOf, req
<1>7. ASSUME NEW i \in 1 .. Len(toDevice') PROVE RequestInLine(i)'
  <2>1. CASE i \in 1 .. Len(toDevice)
    <3>1. RequestInLine(i)
      BY <2>1 DEF LineInv
    <3>2. QED
      BY <1>1, <1>5, <2>1, <3>1 DEF RequestInLine
  <2>2. CASE i = Len(toDevice) + 1
    BY <1>1, <1>2, <1>3, <1>5, <2>2 DEF RequestInLine
  <2>3. QED
    BY <1>2, <1>5, <2>1, <2>2
<1>8. Replies' = Replies
  BY <1>4 DEF Replies
<1>9. ASSUME NEW i \in Replies PROVE ReplyInLine(i)' /\ Truthful(i)'
  <2>1. ReplyInLine(i) /\ Truthful(i)
    BY DEF LineInv
  <2>2. ReplyInLine(i)'
    BY <1>1, <1>4, <1>8, <2>1 DEF ReplyInLine
  <2>3. QED
    BY <1>4, <2>1, <2>2 DEF Truthful
<1>10. QED
  BY <1>6, <1>7, <1>8, <1>9 DEF LineInv

\* The answer Open takes is that to the request it waits for: the device has carried that
\* out, and nothing but attempts at the first request is left under way.
LEMMA OpenReturned == ASSUME OpenTypeOK, LineInv, UNCHANGED applied,
                             NEW res, SendRequestReturn(res), ~(step = 2 /\ res.busy)
                      PROVE  /\ call' = NoCall
                             /\ \A i \in 1 .. step : Requested[i] \in applied'
                             /\ \A i \in 1 .. Len(toDevice') : toDevice'[i].kind = Requested[1]
                             /\ \A i \in Replies' : Arriving'[i].kind = Requested[1]
                             /\ step > 1 => toDevice' = <<>> /\ Replies' = {}
<1>1. /\ QueuesOf(OpenFrames) /\ step \in 1 .. 5
      /\ call \in {NoCall, Plain(Requested[step])}
      /\ Len(toDevice) \in Nat
  BY DEF OpenTypeOK
<1>2. /\ call # NoCall /\ recv # <<>> /\ res = Head(recv) /\ recv' = Tail(recv)
      /\ res.kind = call.kind /\ call' = NoCall /\ UNCHANGED <<held, toHost, toDevice>>
  BY DEF SendRequestReturn, deviceVars
<1>3. Loses(1) /\ Arriving[1] = res
  BY <1>1, <1>2, HeadTaken
<1>4. res.kind = Requested[step] /\ Requested[step] \in Elements(Requested)
  BY <1>1, <1>2, OpenRequestFacts, RequestedFacts
<1>5. 1 \in Replies
  BY <1>3, <1>4 DEF Loses, Replies
<1>6. ReplyInLine(1) /\ Truthful(1)
  BY <1>5 DEF LineInv
<1>7. \A i \in Replies' : /\ i + 1 \in Replies /\ Arriving'[i] = Arriving[i + 1]
                          /\ i \in Nat \ {0}
  <2>1. Len(Arriving') \in Nat
    BY <1>1, <1>3, ArrivingFacts DEF Loses
  <2>2. ASSUME NEW i \in Replies'
        PROVE  i + 1 \in Replies /\ Arriving'[i] = Arriving[i + 1] /\ i \in Nat \ {0}
    <3>1. i \in 1 .. Len(Arriving') /\ Arriving'[i].kind \in Elements(Requested)
      BY DEF Replies
    <3>2. Shift(i, 1) = i + 1 /\ i \in Nat \ {0}
      BY <2>1, <3>1 DEF Shift
    <3>3. i + 1 \in 1 .. Len(Arriving) /\ Arriving'[i] = Arriving[i + 1]
      BY <1>1, <1>3, <3>1, <3>2, LosesFacts
    <3>4. QED
      BY <3>1, <3>2, <3>3 DEF Replies
  <2>3. QED
    BY <2>2
<1>8. res.busy \in BOOLEAN
  <2>1. recv \in Seq(OpenFrames)
    BY <1>1 DEF QueuesOf
  <2>2. res \in OpenFrames
    BY <1>2, <2>1
  <2>3. QED
    BY <2>2 DEF OpenFrames, Frames
<1>9. Requested[step] \in applied
  BY <1>1, <1>3, <1>4, <1>6, <1>8 DEF Truthful
<1>10. \A i \in 1 .. step : Requested[i] \in applied'
  BY <1>1, <1>9 DEF LineInv
<1>11. CASE step = 1
  <2>1. ASSUME NEW i \in 1 .. Len(toDevice') PROVE toDevice'[i].kind = Requested[1]
    BY <1>2, <1>11, <2>1 DEF LineInv, RequestInLine
  <2>2. ASSUME NEW i \in Replies' PROVE Arriving'[i].kind = Requested[1]
    <3>1. ReplyInLine(i + 1)
      BY <1>7 DEF LineInv
    <3>2. ~(i + 1 <= 1)
      BY <1>7
    <3>3. QED
      BY <1>5, <1>7, <1>11, <3>1, <3>2 DEF ReplyInLine
  <2>3. QED
    BY <1>2, <1>10, <1>11, <2>1, <2>2
<1>12. CASE step > 1
  <2>1. Arriving[1].kind # Requested[1]
    BY <1>1, <1>3, <1>4, <1>12, RequestedFacts
  <2>2. toDevice = <<>> /\ \A n \in Replies : n <= 1
    BY <1>6, <1>12, <2>1 DEF ReplyInLine
  <2>3. Replies' = {}
    BY <1>7, <2>2
  <2>4. QED
    BY <1>2, <1>10, <2>2, <2>3
<1>13. QED
  BY <1>1, <1>11, <1>12

-------------------------------------------------------------------------------

\* The device sends a frame while the port is being opened.
LEMMA OpenEmits == ASSUME OpenTypeOK, UNCHANGED <<step, apiVars>>, Shorter,
                          applied' \subseteq Elements(Requested),
                          NEW f \in OpenFrames, Emit(f)
                   PROVE  OpenTypeOK' /\ Gains(f)
<1>1. UNCHANGED <<call, send, sender, recv, held, receiver>>
  BY DEF apiVars
<1>2. Gains(f)
  BY <1>1, FrameSent DEF OpenTypeOK
<1>3. toDevice' \in Seq(OpenRequests)
  BY DEF OpenTypeOK, Shorter
<1>4. toHost' \in Seq(OpenFrames)
  BY DEF OpenTypeOK, QueuesOf, Emit
<1>5. OpenTypeOK'
  BY <1>1, <1>3, <1>4 DEF OpenTypeOK, QueuesOf
<1>6. QED
  BY <1>2, <1>5

\* A step of the device while the port is being opened (meshtastic.go:141-235)
LEMMA OpenDeviceStep == ASSUME OpenTypeOK, LineInv,
                               \/ DeviceConfigure
                               \/ DeviceHear
                               \/ DeviceNext /\ UNCHANGED apiVars /\ OpenBackground
                        PROVE  OpenTypeOK' /\ LineInv'
<1>1. /\ UNCHANGED <<step, apiVars>> /\ UNCHANGED <<call, send, sender, recv, held, receiver>>
      /\ QueuesOf(OpenFrames) /\ toDevice \in Seq(OpenRequests)
      /\ applied \subseteq Elements(Requested)
  BY DEF DeviceConfigure, DeviceHear, OpenBackground, openVars, apiVars, OpenTypeOK
<1>2. toDevice # <<>> => Head(toDevice).kind \in Elements(Requested)
  BY <1>1, OpenRequestFacts
<1>3. DeviceNext /\ OpenBackground => applied \subseteq applied' /\ applied' \subseteq Elements(Requested)
  BY <1>1, RequestedFacts DEF OpenBackground
<1>4. ASSUME NEW f \in Frames, Emit(f), UNCHANGED toDevice, f.kind \notin Elements(Requested),
             applied \subseteq applied', applied' \subseteq Elements(Requested)
      PROVE  OpenTypeOK' /\ LineInv'
  BY <1>1, <1>4, OpenEmits, OpenGains DEF OpenFrames, Shorter
<1>5. ASSUME NEW f \in OpenFrames, Emit(f), toDevice # <<>>, toDevice' = Tail(toDevice),
             f.kind = Head(toDevice).kind, applied \subseteq applied',
             applied' \subseteq Elements(Requested),
             f.kind \in applied' \/ (f.kind = "RadioFrequency" /\ f.busy = TRUE)
      PROVE  OpenTypeOK' /\ LineInv'
  BY <1>1, <1>5, OpenEmits, OpenAnswered DEF Shorter
<1>6. CASE DeviceConfigure
  <2> DEFINE kind == Head(toDevice).kind
  <2>1. toDevice # <<>> /\ toDevice' = Tail(toDevice) /\ kind \in Elements(Requested)
    BY <1>2, <1>6 DEF DeviceConfigure
  <2>2. PICK refused \in IF kind = "RadioFrequency" THEN BOOLEAN ELSE {FALSE} :
           /\ Emit([Plain(kind) EXCEPT !.busy = refused])
           /\ applied' = IF refused THEN applied ELSE applied \cup {kind}
    BY <1>6 DEF DeviceConfigure
  <2> DEFINE f == [Plain(kind) EXCEPT !.busy = refused]
  <2>3. f \in OpenFrames /\ f.kind = kind /\ f.busy = refused /\ refused \in BOOLEAN
    <3>1. refused \in BOOLEAN
      BY <2>2
    <3>2. QED
      BY <2>1, <3>1, OpenRequestFacts
  <2>4. f.kind \in applied' \/ (f.kind = "RadioFrequency" /\ f.busy = TRUE)
    <3>1. CASE refused
      BY <2>2, <2>3, <3>1
    <3>2. CASE ~refused
      BY <2>2, <2>3, <3>2
    <3>3. QED
      BY <3>1, <3>2
  <2>5. applied \subseteq applied' /\ applied' \subseteq Elements(Requested)
    BY <1>1, <2>1, <2>2
  <2>6. Emit(f) /\ f.kind = Head(toDevice).kind
    BY <2>2, <2>3
  <2> HIDE DEF f, kind
  <2>7. QED
    BY <1>5, <2>1, <2>3, <2>4, <2>5, <2>6
<1>7. CASE DeviceHear
  <2>1. PICK k \in Keys : Emit(PacketReceived(k))
    BY <1>7 DEF DeviceHear
  <2>2. PacketReceived(k) \in Frames /\ PacketReceived(k).kind = "PacketReceived"
    BY MessageFacts DEF PacketReceived
  <2>3. applied' = applied /\ toDevice' = toDevice
    BY <1>7 DEF DeviceHear, openVars
  <2>4. QED
    BY <1>1, <1>4, <2>1, <2>2, <2>3, RequestedFacts
<1>8. CASE DeviceNext /\ UNCHANGED apiVars /\ OpenBackground
  <2> USE <1>3, <1>8
  <2>1. ~Asked("Transmit") /\ ~Asked("Standby")
    BY <1>2, RequestedFacts DEF Asked
  <2>2. CASE DeviceSwitchToRx
    <3>1. /\ Emit(Plain("SwitchToRx")) /\ toDevice # <<>> /\ toDevice' = Tail(toDevice)
          /\ Head(toDevice).kind = "SwitchToRx" /\ applied' = applied \cup {"SwitchToRx"}
      BY <2>2 DEF DeviceSwitchToRx, Asked, OpenBackground
    <3>2. "SwitchToRx" \in Elements(Requested)
      BY RequestedFacts
    <3>3. Plain("SwitchToRx") \in OpenFrames /\ Plain("SwitchToRx").kind = "SwitchToRx"
      BY <3>2, OpenRequestFacts
    <3>4. QED
      BY <1>5, <3>1, <3>3
  <2>3. ASSUME NEW k \in Keys, DeviceReceive(k) PROVE OpenTypeOK' /\ LineInv'
    <3>1. Emit(PacketReceived(k)) /\ UNCHANGED toDevice
      BY <2>3 DEF DeviceReceive
    <3>2. PacketReceived(k) \in Frames /\ PacketReceived(k).kind = "PacketReceived"
      BY MessageFacts DEF PacketReceived
    <3>3. QED
      BY <1>4, <3>1, <3>2, RequestedFacts
  <2>4. ASSUME NEW kind \in EndOfTxKinds \cup Chatter, Emit(Plain(kind)), UNCHANGED toDevice
        PROVE  OpenTypeOK' /\ LineInv'
    <3>1. Plain(kind) \in Frames /\ Plain(kind).kind = kind
      BY MessageFacts DEF Plain
    <3>2. QED
      BY <1>4, <2>4, <3>1, RequestedFacts
  <2>5. CASE LoseRequest
    <3>1. UNCHANGED toHost /\ Shorter /\ Arriving' = Arriving
      BY <1>1, <2>5 DEF LoseRequest, Shorter, Arriving
    <3>2. OpenTypeOK'
      <4>1. toDevice' \in Seq(OpenRequests)
        BY <1>1, <3>1 DEF Shorter
      <4>2. QED
        BY <1>1, <3>1, <4>1 DEF OpenTypeOK, QueuesOf
    <3>3. QED
      BY <1>1, <3>1, <3>2, OpenKept
  <2>6. CASE LoseFrame
    <3>1. toHost # <<>> /\ toHost' = Tail(toHost) /\ UNCHANGED toDevice
      BY <2>6 DEF LoseFrame
    <3>2. PICK r \in 1 .. Len(Arriving) : Loses(r)
      BY <1>1, <3>1, NextTaken
    <3>3. OpenTypeOK'
      BY <1>1, <3>1 DEF OpenTypeOK, QueuesOf
    <3>4. QED
      BY <1>1, <3>1, <3>2, <3>3, OpenLoses DEF Shorter
  <2>7. QED
    BY <2>1, <2>2, <2>3, <2>4, <2>5, <2>6
       DEF DeviceNext, DeviceAnswer, DeviceAccept, DeviceRefuse, DeviceStandby, DeviceEndOfTx,
          DeviceChatter
<1>9. QED
  BY <1>6, <1>7, <1>8

\* A step of the two goroutines while the port is being opened (api_client.go:84-174)
LEMMA OpenGoroutines == ASSUME OpenTypeOK, LineInv, OpenBackground,
                               \/ Receiver \/ ReceiverFail \/ CloseReturn
                               \/ SenderTake \/ SenderForward \/ SenderFail \/ SenderExit
                        PROVE  OpenTypeOK' /\ LineInv'
<1>1. /\ QueuesOf(OpenFrames) /\ send = <<>> /\ sender # "write"
      /\ recv \in Seq(OpenFrames) /\ held \in Seq(OpenFrames) /\ toHost \in Seq(OpenFrames)
  BY DEF OpenTypeOK, QueuesOf
<1>2. step' = step /\ applied \subseteq applied' /\ applied' \subseteq Elements(Requested)
  BY RequestedFacts DEF OpenBackground, OpenTypeOK
<1>3. CASE ReceiverPush \/ ReceiverPushed
  <2>1. Arriving' = Arriving
    BY <1>1, <1>3, FramesMove
  <2>2. UNCHANGED <<toDevice, call, send, sender>>
    BY <1>3 DEF ReceiverPush, ReceiverPushed, deviceVars
  <2>3. QueuesOf(OpenFrames)'
    <3>1. CASE ReceiverPush
      BY <1>1, <3>1 DEF ReceiverPush, QueuesOf
    <3>2. CASE ReceiverPushed
      BY <1>1, <3>2 DEF ReceiverPushed, deviceVars, NextRead, QueuesOf
    <3>3. QED
      BY <1>3, <3>1, <3>2
  <2>4. QED
    BY <1>2, <2>1, <2>2, <2>3, OpenKept DEF OpenTypeOK, Shorter
<1>4. CASE ReceiverDrop \/ ReceiverFail
  <2>1. /\ toHost # <<>> /\ toHost' = Tail(toHost) /\ UNCHANGED <<recv, held>>
        /\ UNCHANGED <<toDevice, call, send, sender>> /\ receiver = "read" /\ receiver' # "push"
    BY <1>4 DEF ReceiverDrop, ReceiverFail, NextRead
  <2>2. PICK r \in 1 .. Len(Arriving) : Loses(r)
    BY <1>1, <2>1, NextTaken
  <2>3. QueuesOf(OpenFrames)'
    BY <1>1, <2>1 DEF QueuesOf
  <2>4. QED
    BY <1>2, <2>1, <2>2, <2>3, OpenLoses DEF OpenTypeOK, Shorter
<1>5. CASE ReceiverTimeout \/ SenderExit \/ CloseReturn
  <2>1. /\ UNCHANGED <<toDevice, toHost, recv, held, call, send>> /\ sender' \in {sender, "exited"}
        /\ receiver' = receiver \/ (receiver = "read" /\ receiver' = "exited")
    BY <1>5 DEF ReceiverTimeout, SenderExit, CloseReturn, deviceVars
  <2>2. Arriving' = Arriving
    BY <2>1 DEF Arriving
  <2>3. QueuesOf(OpenFrames)'
    BY <1>1, <2>1 DEF QueuesOf
  <2>4. QED
    BY <1>2, <2>1, <2>2, <2>3, OpenKept DEF OpenTypeOK, Shorter
<1>6. ~SenderTake /\ ~SenderForward /\ ~SenderFail
  BY <1>1 DEF SenderTake, SenderForward, SenderFail
<1>7. QED
  BY <1>3, <1>4, <1>5, <1>6 DEF Receiver

\* The port is opened, step by step, and the fifth answer ends that (meshtastic.go:141-235)
LEMMA OpenStep == ASSUME OpenInv, [OpenNext]_allVars
                  PROVE  /\ OpenInv'
                         /\ Ready' /\ ~Ready => /\ applied' = Elements(Requested)
                                                /\ toDevice' = <<>> /\ Replies' = {}
<1>1. Len(Requested) = 5
  BY DEF Requested
<1> USE <1>1 DEF Opening, Ready, Failed
<1>2. CASE UNCHANGED allVars
  <2>1. UNCHANGED <<toDevice, toHost, recv, held, receiver, call, send, sender, step, applied>>
    BY <1>2 DEF allVars, vars, openVars, deviceVars, apiVars
  <2>2. UNCHANGED <<Arriving, Replies>>
    BY <2>1 DEF Arriving, Replies
  <2>3. CASE Opening
    <3>1. OpenTypeOK' /\ LineInv'
      BY <2>1, <2>2, <2>3, OpenKept DEF OpenInv, OpenTypeOK, QueuesOf, Shorter
    <3>2. QED
      BY <2>1, <3>1 DEF OpenInv
  <2>4. QED
    BY <2>1, <2>3 DEF OpenInv
<1>3. CASE Ready /\ nodeUp /\ Next /\ UNCHANGED openVars
  BY <1>3 DEF OpenInv, openVars
<1>4. CASE Opening
  <2>1. OpenTypeOK /\ LineInv /\ step \in 1 .. 5 /\ QueuesOf(OpenFrames)
    BY <1>4 DEF OpenInv, OpenTypeOK
  <2> USE DEF OpenInv
  <2>2. CASE Configure
    BY <2>1, <2>2, OpenAsks DEF Configure, openVars
  <2>3. CASE UnsupportedPower \/ (ConfigureError /\ step' = 0)
    BY <2>3 DEF UnsupportedPower
  <2>4. CASE ConfigureError /\ step' # 0
    <3>1. step = 1 /\ step' = step /\ UNCHANGED applied
      BY <2>4 DEF ConfigureError
    <3>2. /\ call' \in {call, NoCall}
          /\ UNCHANGED <<toDevice, toHost, recv, held, receiver, send, sender>>
      BY <2>4 DEF ConfigureError, SendRequestTimeout, SendRequestFails, deviceVars, apiVars
    <3>3. OpenTypeOK'
      BY <2>1, <3>1, <3>2 DEF OpenTypeOK, QueuesOf
    <3>4. UNCHANGED <<Arriving, Replies>>
      BY <3>2 DEF Arriving, Replies
    <3>5. LineInv'
      BY <2>1, <3>1, <3>2, <3>4 DEF LineInv, RequestInLine, ReplyInLine, Truthful
    <3>6. QED
      BY <2>1, <3>1, <3>3, <3>5
  <2>5. CASE ConfigureDiscard
    <3>1. /\ UNCHANGED <<step, applied, toDevice, toHost, held, receiver, send, sender, call>>
          /\ recv # <<>> /\ recv' = Tail(recv)
      BY <2>5 DEF ConfigureDiscard, SendRequestDiscard, openVars, deviceVars
    <3>2. Loses(1)
      BY <2>1, <3>1, HeadTaken
    <3>3. OpenTypeOK'
      BY <2>1, <3>1 DEF OpenTypeOK, QueuesOf
    <3>4. LineInv'
      BY <2>1, <3>1, <3>2, OpenLoses DEF Shorter
    <3>5. QED
      BY <2>1, <3>1, <3>3, <3>4
  <2>6. CASE Configured
    <3>1. PICK res \in Elements(recv) :
             /\ SendRequestReturn(res)
             /\ step' = IF step = 2 /\ res.busy THEN 0 ELSE step + 1
      BY <2>6 DEF Configured
    <3>2. applied' = applied
      BY <2>6 DEF Configured
    <3>3. CASE step = 2 /\ res.busy
      BY <3>1, <3>3
    <3>4. CASE ~(step = 2 /\ res.busy)
      <4>1. step' = step + 1
        BY <3>1, <3>4
      <4>2. /\ call' = NoCall
            /\ \A i \in 1 .. step : Requested[i] \in applied'
            /\ \A i \in 1 .. Len(toDevice') : toDevice'[i].kind = Requested[1]
            /\ \A i \in Replies' : Arriving'[i].kind = Requested[1]
            /\ step > 1 => toDevice' = <<>> /\ Replies' = {}
        BY <2>1, <3>1, <3>2, <3>4, OpenReturned
      <4>3. CASE step = 5
        <5>1. applied' = Elements(Requested)
          BY <2>1, <3>2, <4>2, <4>3, RequestedFacts DEF OpenTypeOK
        <5>2. QED
          BY <4>1, <4>2, <4>3, <5>1
      <4>4. CASE step # 5
        <5>1. step' \in 1 .. 5 /\ step' > 1 /\ step' - 1 = step
          BY <2>1, <4>1, <4>4
        <5>2. /\ recv' = Tail(recv) /\ recv # <<>>
              /\ UNCHANGED <<toDevice, toHost, held, receiver, send, sender>>
          BY <3>1 DEF SendRequestReturn, deviceVars
        <5>3. OpenTypeOK'
          BY <2>1, <3>2, <4>2, <5>1, <5>2 DEF OpenTypeOK, QueuesOf
        <5>4. \A i \in Replies' : ReplyInLine(i)' /\ Truthful(i)'
          <6>1. 1 \in 1 .. 5 /\ Requested[step'] # Requested[1]
            BY <5>1, RequestedFacts
          <6>2. Requested[1] \in applied'
            BY <2>1, <4>2
          <6>3. QED
            BY <4>2, <6>1, <6>2 DEF ReplyInLine, Truthful
        <5>5. \A i \in 1 .. Len(toDevice') : RequestInLine(i)'
          BY <4>2 DEF RequestInLine
        <5>6. LineInv'
          BY <4>2, <5>1, <5>4, <5>5 DEF LineInv
        <5>7. QED
          BY <5>1, <5>3, <5>6
      <4>5. QED
        BY <4>3, <4>4
    <3>5. QED
      BY <3>3, <3>4
  <2>7. CASE DeviceConfigure \/ DeviceHear \/ OpenBackground
    <3>1. OpenTypeOK' /\ LineInv'
      <4>1. CASE OpenBackground
        BY <2>1, <4>1, OpenGoroutines, OpenDeviceStep DEF OpenBackground, Background
      <4>2. QED
        BY <2>1, <2>7, <4>1, OpenDeviceStep
    <3>2. step' = step
      BY <2>7 DEF DeviceConfigure, DeviceHear, OpenBackground, openVars
    <3>3. QED
      BY <2>1, <3>1, <3>2
  <2>8. QED
    BY <1>4, <2>2, <2>3, <2>4, <2>5, <2>6, <2>7, <1>2, <1>3 DEF OpenNext, InitRadio
<1>5. QED
  BY <1>2, <1>3, <1>4 DEF OpenNext, InitRadio, Configure, UnsupportedPower, Configured,
        ConfigureDiscard, ConfigureError

\* When Open returns without an error the device has carried out all five requests, and
\* none of them, nor an answer to one, is still under way: whatever the radio was doing
\* and had left on the line, with any number of attempts, on a faulty line with answers
\* that come late (meshtastic.go:141-235, api_client.go:180-203)
THEOREM OpenLeavesReady == OpenSpec => OpenMeansReady
<1>1. OpenInit => OpenInv
  BY OpenInitInv
<1>2. OpenInv /\ [OpenNext]_allVars => OpenInv'
  BY OpenStep
<1>3. OpenInv /\ [OpenNext]_allVars
        => [Ready' /\ ~Ready => /\ applied' = Elements(Requested)
                                /\ toDevice' = <<>>
                                /\ \A f \in Elements(Arriving') : f.kind \notin Elements(Requested)]_allVars
  <2>1. Replies' = {} => \A f \in Elements(Arriving') : f.kind \notin Elements(Requested)
    BY DEF Replies, Elements
  <2>2. QED
    BY <2>1, OpenStep
<1>4. QED
  BY <1>1, <1>2, <1>3, PTL DEF OpenSpec, OpenMeansReady
===============================================================================
