--------------------------- MODULE MeshtasticClient ---------------------------
(***************************************************************************)
(* pkg/meshtastic/meshtastic.go: the client that owns the radio, from the  *)
(* return of Open to the return of Close.                                  *)
(*                                                                         *)
(* One goroutine, the loop, selects between the cancellation, a message    *)
(* from the device and a packet to send.  It has a step for every point    *)
(* where it may block: an exchange with the device, or a push onto one of  *)
(* the channels the node reads.  A packet refused as busy is handed to a   *)
(* retry goroutine, which waits and pushes it onto OutgoingPackets again.  *)
(*                                                                         *)
(* The node is the environment: it submits packets and empties the         *)
(* channels until it stops, and only then calls Close (Node.Stop).         *)
(***************************************************************************)
EXTENDS ApiClient, Integers

CONSTANTS
    ChanCap,    \* capacity of each channel to the node (10 in the code)
    Window,     \* ticks a packet is remembered (30 s in the code)
    RetryLimit  \* retries already pending above which one is refused (2)

ASSUME ClientAssumption ==
    /\ ChanCap \in Nat \ {0}
    /\ Window \in Nat \ {0}
    /\ RetryLimit \in Nat

VARIABLES
    pc,               \* where the loop is
    hand,             \* the packet it is working on
    outgoing,         \* OutgoingPackets
    incoming,         \* IncomingPackets
    errors,           \* Errors: the job each one is about, or None
    warnings,         \* Warnings, likewise
    rssi,             \* Rssi: how many readings it holds
    seen,             \* seenPackets: the keys recorded
    age,              \* time since each record was made, up to Window
    sleeping,         \* jobs whose retry goroutine waits for its timer
    pushing,          \* jobs whose retry goroutine pushes onto OutgoingPackets
    returned,         \* how many retry goroutines have pushed and not counted down
    retransmissions,  \* the counter of pending retries
    cancelled,        \* Close has cancelled the context
    nodeUp,           \* the node has not stopped
    submitted,        \* ghost: the jobs handed to the client
    heard,            \* ghost: time since each key was last taken for delivery
                      \* to the node, up to Window
    sent,             \* ghost: time since the device last sent each key, up to Window
    ticked            \* a tick has passed since SendRequest was last called

channelVars == <<outgoing, incoming, errors, warnings, rssi>>
recordVars == <<seen, age, heard, sent>>
seenVars == <<recordVars, ticked>>
retryVars == <<sleeping, pushing, returned, retransmissions>>
nodeVars == <<cancelled, nodeUp, submitted>>
vars == <<deviceVars, apiVars, pc, hand, channelVars, seenVars, retryVars, nodeVars>>

Places == {"select", "send", "transmit", "incoming", "rssi", "switch", "rx", "errors",
           "warnings", "deinit", "standby", "done"}

\* Types of the loop, the channels within their capacity, the records and the
\* retries
ClientTypeOK ==
    /\ pc \in Places
    /\ hand \in Jobs \cup Keys \cup {None}
    /\ pc \in {"send", "transmit"} => hand \in Jobs
    /\ pc = "warnings" => hand \in Jobs
    /\ pc = "incoming" => hand \in Keys
    /\ outgoing \in Seq(Jobs) /\ Len(outgoing) <= ChanCap
    /\ incoming \in Seq(Keys) /\ Len(incoming) <= ChanCap
    /\ errors \in Seq(Jobs \cup Keys \cup {None}) /\ Len(errors) <= ChanCap
    /\ warnings \in Seq(Jobs) /\ Len(warnings) <= ChanCap
    /\ rssi \in 0 .. ChanCap
    /\ seen \subseteq Keys
    /\ age \in [Keys -> 0 .. Window]
    /\ heard \in [Keys -> 0 .. Window]
    /\ sent \in [Keys -> 0 .. Window]
    /\ ticked \in BOOLEAN
    /\ sleeping \subseteq Jobs
    /\ pushing \subseteq Jobs
    /\ returned \in Nat
    /\ retransmissions \in Int
    /\ cancelled \in BOOLEAN
    /\ nodeUp \in BOOLEAN
    /\ submitted \subseteq Jobs

\* Type invariant: the client, with the request layer and the device below it
TypeOK == ApiTypeOK /\ ClientTypeOK

ClientInit ==
    /\ pc = "select"
    /\ hand = None
    /\ outgoing = <<>>
    /\ incoming = <<>>
    /\ errors = <<>>
    /\ warnings = <<>>
    /\ rssi = 0
    /\ seen = {}
    /\ age = [k \in Keys |-> Window]
    /\ sleeping = {}
    /\ pushing = {}
    /\ returned = 0
    /\ retransmissions = 0
    /\ cancelled = FALSE
    /\ nodeUp = TRUE
    /\ submitted = {}
    /\ heard = [k \in Keys |-> Window]
    /\ sent = [k \in Keys |-> Window]
    /\ ticked = FALSE

Init == DeviceInit /\ ApiInit /\ ClientInit

-------------------------------------------------------------------------------
(* The records of seen packets *)

\* Slip: a record is forgotten a tick early.
RememberedSlip == {k \in seen : age[k] < Window - 1}

\* forgetOldSeenPackets: what is left of the records.
Remembered == {k \in seen : age[k] < Window}

\* Record k, when no record in "known" has it.  The age of a record that is
\* there already is left as it is.
Record(k, known) ==
    /\ seen' = known \cup {k}
    /\ age' = IF k \in known THEN age ELSE [age EXCEPT ![k] = 0]

-------------------------------------------------------------------------------
(* The loop: messages from the device *)

Handling(msg) == pc = "select" /\ ReceiveMessage(msg)

\* A packet that is not on record is recorded and will be delivered.
HandleNewPacket ==
    \E msg \in Frames :
        /\ msg.kind = "PacketReceived" /\ Handling(msg)
        /\ msg.about \notin Remembered
        /\ Record(msg.about, Remembered)
        /\ heard' = [heard EXCEPT ![msg.about] = 0]
        /\ hand' = msg.about
        /\ pc' = "incoming"
        /\ UNCHANGED <<sent, ticked, channelVars, retryVars, nodeVars>>

HandleSeenPacket ==
    \E msg \in Frames :
        /\ msg.kind = "PacketReceived" /\ Handling(msg)
        /\ msg.about \in Remembered
        /\ seen' = Remembered
        /\ pc' = "switch"
        /\ UNCHANGED <<age, heard, sent, ticked, hand, channelVars, retryVars, nodeVars>>

\* Slip: the radio is not asked for RX after a packet event.
HandleEndOfTxSlip ==
    \E msg \in Frames :
        /\ msg.kind \in EndOfTxKinds /\ Handling(msg)
        /\ UNCHANGED <<pc, hand, channelVars, seenVars, retryVars, nodeVars>>

HandleEndOfTx ==
    \E msg \in Frames :
        /\ msg.kind \in EndOfTxKinds /\ Handling(msg)
        /\ pc' = "switch"
        /\ UNCHANGED <<hand, channelVars, seenVars, retryVars, nodeVars>>

\* The device reports RSSI when the configuration asks for it, and then the
\* readings are passed on.
HandleRSSI ==
    \E msg \in Frames :
        /\ msg.kind = "ContinuousRSSI" /\ Handling(msg)
        /\ pc' = "rssi"
        /\ UNCHANGED <<hand, channelVars, seenVars, retryVars, nodeVars>>

\* handleRadioMessage has no case for anything else, answers that come
\* after their request was given up included.
HandleOther ==
    \E msg \in Frames :
        /\ msg.kind \in {"Transmit"} \cup PlainRequestKinds /\ Handling(msg)
        /\ UNCHANGED <<pc, hand, channelVars, seenVars, retryVars, nodeVars>>

\* Slip: a packet that finds the channel full is dropped.
DeliverSlip ==
    /\ pc = "incoming"
    /\ incoming' = IF Len(incoming) < ChanCap THEN Append(incoming, hand) ELSE incoming
    /\ pc' = "switch"
    /\ hand' = None
    /\ UNCHANGED <<deviceVars, apiVars, outgoing, errors, warnings, rssi,
                   seenVars, retryVars, nodeVars>>

\* c.IncomingPackets <- packet
Deliver ==
    /\ pc = "incoming" /\ Len(incoming) < ChanCap
    /\ incoming' = Append(incoming, hand)
    /\ pc' = "switch"
    /\ hand' = None
    /\ UNCHANGED <<deviceVars, apiVars, outgoing, errors, warnings, rssi,
                   seenVars, retryVars, nodeVars>>

\* c.Rssi <- rssi
PushRSSI ==
    /\ pc = "rssi" /\ rssi < ChanCap
    /\ rssi' = rssi + 1
    /\ pc' = "select"
    /\ UNCHANGED <<deviceVars, apiVars, hand, outgoing, incoming, errors, warnings,
                   seenVars, retryVars, nodeVars>>

\* switchToRx
SwitchToRx ==
    /\ pc = "switch" /\ SendRequest(Plain("SwitchToRx"))
    /\ pc' = "rx"
    /\ ticked' = FALSE
    /\ UNCHANGED <<hand, channelVars, recordVars, retryVars, nodeVars>>

SwitchedToRx ==
    /\ pc = "rx" /\ \E res \in Frames : SendRequestReturn(res)
    /\ pc' = "select"
    /\ UNCHANGED <<hand, channelVars, seenVars, retryVars, nodeVars>>

\* No answer came in time.
SwitchToRxTimeout ==
    /\ pc = "rx" /\ SendRequestTimeout
    /\ pc' = "errors"
    /\ UNCHANGED <<hand, channelVars, seenVars, retryVars, nodeVars>>

\* The port could not be written.
SwitchToRxFailure ==
    /\ pc = "switch" /\ SendRequestFails
    /\ pc' = "errors"
    /\ UNCHANGED <<hand, channelVars, seenVars, retryVars, nodeVars>>

-------------------------------------------------------------------------------
(* The loop: packets to send *)

\* The packet is out of the channel before the write, which may block.
TakePacket ==
    /\ pc = "select" /\ outgoing # <<>>
    /\ seen' = Remembered
    /\ hand' = Head(outgoing)
    /\ outgoing' = Tail(outgoing)
    /\ pc' = "send"
    /\ UNCHANGED <<deviceVars, apiVars, incoming, errors, warnings, rssi,
                   age, heard, sent, ticked, retryVars, nodeVars>>

\* transmitPacket, up to the wait for the answer.
TransmitPacket ==
    /\ pc = "send" /\ SendRequest(TransmitRequest(hand))
    /\ pc' = "transmit"
    /\ ticked' = FALSE
    /\ UNCHANGED <<hand, channelVars, recordVars, retryVars, nodeVars>>

\* Slip: what is sent is not recorded.
TransmittedSlip ==
    \E res \in Frames :
        /\ pc = "transmit" /\ SendRequestReturn(res) /\ ~res.busy
        /\ hand' = None
        /\ pc' = "select"
        /\ UNCHANGED <<seenVars, channelVars, retryVars, nodeVars>>

\* The packet is on its way: record it.  Old records are not purged again.
Transmitted ==
    \E res \in Frames :
        /\ pc = "transmit" /\ SendRequestReturn(res) /\ ~res.busy
        /\ Record(KeyOf[hand], seen)
        /\ hand' = None
        /\ pc' = "select"
        /\ UNCHANGED <<heard, sent, ticked, channelVars, retryVars, nodeVars>>

\* Busy, and few enough retries are pending.
TransmitBusy ==
    \E res \in Frames :
        /\ pc = "transmit" /\ SendRequestReturn(res) /\ res.busy
        /\ retransmissions <= RetryLimit
        /\ retransmissions' = retransmissions + 1
        /\ pc' = "warnings"
        /\ UNCHANGED <<hand, channelVars, seenVars, sleeping, pushing, returned, nodeVars>>

\* Slip: the packet is dropped and nobody is told.
TransmitRefusedSilently ==
    \E res \in Frames :
        /\ pc = "transmit" /\ SendRequestReturn(res) /\ res.busy
        /\ retransmissions > RetryLimit
        /\ pc' = "select"
        /\ hand' = None
        /\ UNCHANGED <<channelVars, seenVars, retryVars, nodeVars>>

\* Slip: the flag Busy is not looked at.
TransmitRefusedSlip ==
    \E res \in Frames :
        /\ pc = "transmit" /\ SendRequestReturn(res)
        /\ retransmissions > RetryLimit
        /\ pc' = "errors"
        /\ UNCHANGED <<hand, channelVars, seenVars, retryVars, nodeVars>>

\* Busy, and too many retries are pending: the packet is dropped.
TransmitRefused ==
    \E res \in Frames :
        /\ pc = "transmit" /\ SendRequestReturn(res) /\ res.busy
        /\ retransmissions > RetryLimit
        /\ pc' = "errors"
        /\ UNCHANGED <<hand, channelVars, seenVars, retryVars, nodeVars>>

TransmitTimeout ==
    /\ pc = "transmit" /\ SendRequestTimeout
    /\ pc' = "errors"
    /\ UNCHANGED <<hand, channelVars, seenVars, retryVars, nodeVars>>

\* The port could not be written.
TransmitFailure ==
    /\ pc = "send" /\ SendRequestFails
    /\ pc' = "errors"
    /\ UNCHANGED <<hand, channelVars, seenVars, retryVars, nodeVars>>

\* Within an exchange, messages of another type are dropped.
Discard ==
    /\ SendRequestDiscard
    /\ UNCHANGED <<pc, hand, channelVars, seenVars, retryVars, nodeVars>>

\* c.Errors <- err
PushError ==
    /\ pc = "errors" /\ Len(errors) < ChanCap
    /\ errors' = Append(errors, hand)
    /\ hand' = None
    /\ pc' = "select"
    /\ UNCHANGED <<deviceVars, apiVars, outgoing, incoming, warnings, rssi,
                   seenVars, retryVars, nodeVars>>

\* c.Warnings <- err, and then the retry goroutine is started.
PushWarning ==
    /\ pc = "warnings" /\ Len(warnings) < ChanCap
    /\ warnings' = Append(warnings, hand)
    /\ sleeping' = sleeping \cup {hand}
    /\ hand' = None
    /\ pc' = "select"
    /\ UNCHANGED <<deviceVars, apiVars, outgoing, incoming, errors, rssi, seenVars,
                   pushing, returned, retransmissions, nodeVars>>

-------------------------------------------------------------------------------
(* The retry goroutines *)

\* Slip: the timer fires again and again.
RetryTimerSlip(j) ==
    /\ j \in sleeping
    /\ pushing' = pushing \cup {j}
    /\ UNCHANGED <<deviceVars, apiVars, pc, hand, channelVars, seenVars,
                   sleeping, returned, retransmissions, nodeVars>>

\* Slip: a retry waits for the number of retries to fall, itself included.
RetryTimerWaits(j) ==
    /\ j \in sleeping /\ retransmissions <= RetryLimit
    /\ sleeping' = sleeping \ {j}
    /\ pushing' = pushing \cup {j}
    /\ UNCHANGED <<deviceVars, apiVars, pc, hand, channelVars, seenVars,
                   returned, retransmissions, nodeVars>>

RetryTimer(j) ==
    /\ j \in sleeping
    /\ sleeping' = sleeping \ {j}
    /\ pushing' = pushing \cup {j}
    /\ UNCHANGED <<deviceVars, apiVars, pc, hand, channelVars, seenVars,
                   returned, retransmissions, nodeVars>>

\* Slip: the packet may be pushed twice.
RetryPushSlip(j) ==
    /\ j \in pushing /\ Len(outgoing) < ChanCap
    /\ outgoing' = Append(outgoing, j)
    /\ returned' = returned + 1
    /\ UNCHANGED <<deviceVars, apiVars, pc, hand, incoming, errors, warnings, rssi,
                   seenVars, sleeping, pushing, retransmissions, nodeVars>>

\* The push does not look at the context.
RetryPush(j) ==
    /\ j \in pushing /\ Len(outgoing) < ChanCap
    /\ outgoing' = Append(outgoing, j)
    /\ pushing' = pushing \ {j}
    /\ returned' = returned + 1
    /\ UNCHANGED <<deviceVars, apiVars, pc, hand, incoming, errors, warnings, rssi,
                   seenVars, sleeping, retransmissions, nodeVars>>

\* Slip: the counter is not counted down.
RetryReturnSlip ==
    /\ returned > 0
    /\ returned' = returned - 1
    /\ UNCHANGED <<deviceVars, apiVars, pc, hand, channelVars, seenVars, sleeping,
                   pushing, retransmissions, nodeVars>>

RetryReturn ==
    /\ returned > 0
    /\ returned' = returned - 1
    /\ retransmissions' = retransmissions - 1
    /\ UNCHANGED <<deviceVars, apiVars, pc, hand, channelVars, seenVars, sleeping,
                   pushing, nodeVars>>

\* On cancellation a waiting goroutine returns; the counter is not touched.
RetryAbort(j) ==
    /\ cancelled /\ j \in sleeping
    /\ sleeping' = sleeping \ {j}
    /\ UNCHANGED <<deviceVars, apiVars, pc, hand, channelVars, seenVars, pushing,
                   returned, retransmissions, nodeVars>>

Retry(j) == RetryTimer(j) \/ RetryPush(j) \/ RetryAbort(j)

-------------------------------------------------------------------------------
(* Closing *)

\* Close, called by a node whose consumers are gone, cancels and waits.
Cancel ==
    /\ ~nodeUp /\ ~cancelled
    /\ cancelled' = TRUE
    /\ UNCHANGED <<deviceVars, apiVars, pc, hand, channelVars, seenVars, retryVars,
                   nodeUp, submitted>>

\* Slip: the loop ends without deinitRadio.
LoopBreakSlip ==
    /\ pc = "select" /\ cancelled
    /\ pc' = "done"
    /\ UNCHANGED <<deviceVars, apiVars, hand, channelVars, seenVars, retryVars, nodeVars>>

LoopBreak ==
    /\ pc = "select" /\ cancelled
    /\ pc' = "deinit"
    /\ UNCHANGED <<deviceVars, apiVars, hand, channelVars, seenVars, retryVars, nodeVars>>

\* deinitRadio; its result is ignored.
DeinitRadio ==
    /\ pc = "deinit" /\ SendRequest(Plain("Standby"))
    /\ pc' = "standby"
    /\ ticked' = FALSE
    /\ UNCHANGED <<hand, channelVars, recordVars, retryVars, nodeVars>>

LoopEnd ==
    /\ pc = "standby"
    /\ (\E res \in Frames : SendRequestReturn(res)) \/ SendRequestTimeout
    /\ pc' = "done"
    /\ UNCHANGED <<hand, channelVars, seenVars, retryVars, nodeVars>>

DeinitFailure ==
    /\ pc = "deinit" /\ SendRequestFails
    /\ pc' = "done"
    /\ UNCHANGED <<hand, channelVars, seenVars, retryVars, nodeVars>>

\* The loop has ended: Close closes the client below.
CloseApi ==
    /\ pc = "done" /\ Close
    /\ UNCHANGED <<pc, hand, channelVars, seenVars, retryVars, nodeVars>>

-------------------------------------------------------------------------------
(* The node *)

Submit(j) ==
    /\ nodeUp /\ j \notin submitted /\ Len(outgoing) < ChanCap
    /\ submitted' = submitted \cup {j}
    /\ outgoing' = Append(outgoing, j)
    /\ UNCHANGED <<deviceVars, apiVars, pc, hand, incoming, errors, warnings, rssi,
                   seenVars, retryVars, cancelled, nodeUp>>

TakeIncoming ==
    /\ nodeUp /\ incoming # <<>>
    /\ incoming' = Tail(incoming)
    /\ UNCHANGED <<deviceVars, apiVars, pc, hand, outgoing, errors, warnings, rssi,
                   seenVars, retryVars, nodeVars>>

TakeError ==
    /\ nodeUp /\ errors # <<>>
    /\ errors' = Tail(errors)
    /\ UNCHANGED <<deviceVars, apiVars, pc, hand, outgoing, incoming, warnings, rssi,
                   seenVars, retryVars, nodeVars>>

TakeWarning ==
    /\ nodeUp /\ warnings # <<>>
    /\ warnings' = Tail(warnings)
    /\ UNCHANGED <<deviceVars, apiVars, pc, hand, outgoing, incoming, errors, rssi,
                   seenVars, retryVars, nodeVars>>

TakeRSSI ==
    /\ nodeUp /\ rssi > 0
    /\ rssi' = rssi - 1
    /\ UNCHANGED <<deviceVars, apiVars, pc, hand, outgoing, incoming, errors, warnings,
                   seenVars, retryVars, nodeVars>>

StopNode ==
    /\ nodeUp
    /\ nodeUp' = FALSE
    /\ UNCHANGED <<deviceVars, apiVars, pc, hand, channelVars, seenVars, retryVars,
                   cancelled, submitted>>

-------------------------------------------------------------------------------
(* Time, and the whole *)

Older(t) == IF t < Window THEN t + 1 ELSE t

\* An exchange (5 s at most) is much shorter than the window (30 s): at most
\* one tick falls into it, as when a record expires while it goes on.
Tick ==
    /\ call = NoCall \/ ~ticked
    /\ ticked' = (call # NoCall)
    /\ age' = [k \in Keys |-> Older(age[k])]
    /\ heard' = [k \in Keys |-> Older(heard[k])]
    /\ sent' = [k \in Keys |-> Older(sent[k])]
    /\ UNCHANGED <<deviceVars, apiVars, pc, hand, channelVars, seen, retryVars, nodeVars>>

\* The steps of the loop, by what it is doing.
HandleRadioMessage ==
    \/ HandleNewPacket \/ HandleSeenPacket \/ HandleEndOfTx
    \/ HandleRSSI \/ HandleOther

Exchange ==
    \/ SwitchToRx \/ SwitchedToRx \/ SwitchToRxTimeout
    \/ TransmitPacket \/ Transmitted \/ TransmitBusy \/ TransmitRefused \/ TransmitTimeout
    \/ Discard \/ DeinitRadio \/ LoopEnd

WriteFailure == TransmitFailure \/ SwitchToRxFailure \/ DeinitFailure

Push == Deliver \/ PushRSSI \/ PushError \/ PushWarning

NodeStep == TakeIncoming \/ TakeError \/ TakeWarning \/ TakeRSSI

\* What the device accepts goes on the air, whether or not the loop hears of it.
BackgroundStep ==
    /\ Background
    /\ sent' = [k \in Keys |-> IF \E j \in Jobs : KeyOf[j] = k /\ DeviceAccept(j)
                               THEN 0 ELSE sent[k]]
    /\ UNCHANGED <<pc, hand, channelVars, seen, age, heard, ticked, retryVars, nodeVars>>

Next ==
    \/ HandleRadioMessage
    \/ TakePacket
    \/ Exchange
    \/ WriteFailure
    \/ Push
    \/ RetryReturn
    \/ \E j \in Jobs : Retry(j) \/ Submit(j)
    \/ Cancel \/ LoopBreak \/ CloseApi
    \/ NodeStep \/ StopNode
    \/ Tick
    \/ BackgroundStep

Spec == Init /\ [][Next]_vars

-------------------------------------------------------------------------------
(* Safety *)

Elements(q) == {q[i] : i \in 1 .. Len(q)}
Distinct(q) == \A i, n \in 1 .. Len(q) : q[i] = q[n] => i = n

Queued == Elements(outgoing)
InHand == {hand} \cap Jobs

\* The client is responsible for the packet.
InClient(j) == j \in Queued \cup InHand \cup sleeping \cup pushing

\* A packet is in one place of the client at a time: the queue, the loop's
\* hand, or one retry goroutine (meshtastic.go:91-113).
OnePlace ==
    /\ Distinct(outgoing)
    /\ sleeping \cap pushing = {}
    /\ Queued \cap (sleeping \cup pushing) = {}
    /\ InHand \cap (Queued \cup sleeping \cup pushing) = {}
    /\ (Queued \cup InHand \cup sleeping \cup pushing) \subseteq submitted

PendingRetries ==
    Cardinality(sleeping) + Cardinality(pushing) + returned
        + IF pc = "warnings" THEN 1 ELSE 0

\* The counter that decides whether a packet is dropped is the number of
\* retries pending, and there are never more than one above the limit
\* (meshtastic.go:97-111).  After Close it may only be too high.
RetryAccounting ==
    /\ PendingRetries <= retransmissions
    /\ ~cancelled => PendingRetries = retransmissions
    /\ retransmissions <= RetryLimit + 1

\* A packet leaves the client because the device took it, or because an error
\* about it was pushed to the node: neither a busy answer, nor a lost one, nor a
\* failing write loses it in silence (meshtastic.go:94-119).
NoSilentDrop ==
    [][\A j \in Jobs : InClient(j) /\ ~InClient(j)'
            => cancelled \/ j \in accepted' \/ errors' = Append(errors, j)]_vars

\* What the loop takes from an answer is so: it retries or drops a packet as refused
\* only if the device has not sent it, and is content only if it has, whatever was
\* lost in earlier exchanges (meshtastic.go:351-355, api_client.go:194-198).
OutcomeIsTrue ==
    [][/\ Transmitted => hand \in accepted
       /\ TransmitBusy \/ TransmitRefused => hand \notin accepted]_vars

\* A packet handed over once is sent once, however often it is retried, and not
\* again when its answer is lost (meshtastic.go:91-119).
SentOnce ==
    [][\A j \in Jobs : j \in accepted => ~DeviceAccept(j)]_vars

\* An answer on its way is the answer to the exchange the loop is in: a
\* Transmit answer is about the packet in hand (api_client.go:194-198
\* compares types only).
AnswerIsOurs ==
    \A i \in 1 .. Len(Arriving) : LET f == Arriving[i] IN
        /\ f.kind = "Transmit" => pc = "transmit" /\ hand = f.about
        /\ f.kind = "SwitchToRx" => pc = "rx"
        /\ f.kind = "Standby" => pc \in {"standby", "done"}

\* The radio is not left deaf: while the loop waits for something to do and
\* the device has nothing more to say, the radio is not in standby, whatever
\* was dropped inside an exchange (meshtastic.go:305-311).
NotDeaf == pc = "select" /\ Arriving = <<>> => mode # "STANDBY"

\* The node is not given a packet twice within the window, even if the radio
\* hears it again and again (meshtastic.go:267-281, 315-337).
NoDuplicate == [][HandleNewPacket => heard[hand'] = Window]_vars

\* The node is not given its own packet back within the window after the device
\* sent it (meshtastic.go:357-367).
NoEcho == [][HandleNewPacket => sent[hand'] = Window]_vars

\* What the node sees of all this is RadioLoop: an exchange is one state, and
\* nothing is delivered, reported, taken or sent again but as it says
\* (meshtastic.go:68-139).
LoopPlace ==
    IF pc \in {"send", "transmit", "switch", "rx"} THEN "busy"
    ELSE IF pc \in {"deinit", "standby"} THEN "ending" ELSE pc
InLoop == IF pc \in {"send", "transmit", "incoming", "warnings"} THEN hand ELSE None
ReportCounts ==
    [c \in {"rssi", "errors", "warnings"} |->
        IF c = "rssi" THEN rssi ELSE IF c = "errors" THEN Len(errors) ELSE Len(warnings)]
Retries == sleeping \cup pushing

Loop == INSTANCE RadioLoop
    WITH Packets <- Jobs, Received <- Keys, NoPacket <- None,
         ContinuousRssi <- "ContinuousRSSI" \in Chatter,
         loop <- LoopPlace, hand <- InLoop, reports <- ReportCounts, retries <- Retries

ImplementsRadioLoop == Loop!Spec

-------------------------------------------------------------------------------
(* Liveness *)

\* The loop runs, and the node empties its channels while it is up.
\* SendRequest looks at the time for every message it drops, so it does give
\* up (api_client.go:189-192).  A write has no timeout (serial_client.go:115): it
\* goes through when there is room on the line, and need not fail when there is none.
LoopFairness ==
    /\ WF_vars(Exchange) /\ WF_vars(Push)
    /\ WF_vars(TransmitTimeout \/ SwitchToRxTimeout \/ LoopEnd)
    /\ WF_vars(TakeIncoming) /\ WF_vars(TakeError)
    /\ WF_vars(TakeWarning) /\ WF_vars(TakeRSSI)

\* Beside the loop, the other goroutines run and the device answers.  A Go
\* select with several ready cases picks one at random and a channel with
\* several senders takes one in turn: no case is passed over forever, hence
\* strong fairness there.
Fairness ==
    /\ LoopFairness
    /\ SF_vars(DeviceAnswer /\ BackgroundStep)
    /\ WF_vars(Receiver /\ BackgroundStep)
    /\ WF_vars((SenderExit \/ CloseReturn) /\ BackgroundStep)
    /\ SF_vars(HandleRadioMessage) /\ SF_vars(TakePacket)
    /\ WF_vars(RetryReturn)
    /\ \A j \in Jobs : SF_vars(Retry(j))
    /\ SF_vars(LoopBreak) /\ WF_vars(CloseApi)

LoopSpec == Spec /\ LoopFairness
FairSpec == Spec /\ Fairness

\* A device that does not refuse a packet forever.
GoodRadio == \A j \in Jobs : SF_vars(DeviceAccept(j) /\ BackgroundStep)

\* The loop is in a write that does not go through.
LoopBlocked == pc \in {"send", "switch", "deinit"} /\ Len(toDevice) = LineCap

\* While the node is up the loop always comes back to its select, whatever the
\* device and the line do, unless it comes to a write that is never taken from it
\* (meshtastic.go:81-124, api_client.go:180-203, serial_client.go:115).
LoopReturns == []<>(pc \in {"select", "done"} \/ ~nodeUp) \/ <>[]LoopBlocked

\* While the node is up every packet handed over is sent or reported, by a
\* radio that does not refuse it forever (meshtastic.go:88-120).
PacketLeaves ==
    GoodRadio => \A j \in Jobs : j \in submitted ~> ~InClient(j) \/ ~nodeUp

\* The loop is blocked for good on a channel that nobody empties any more.
Stuck ==
    /\ ~nodeUp
    /\ \/ pc = "incoming" /\ Len(incoming) = ChanCap
       \/ pc = "rssi" /\ rssi = ChanCap
       \/ pc = "errors" /\ Len(errors) = ChanCap
       \/ pc = "warnings" /\ Len(warnings) = ChanCap

\* Close returns with the radio in standby, unless the loop is blocked on a
\* full channel (meshtastic.go:130-139, 237-243).
CloseReturns == cancelled ~> (api = "closed" /\ mode = "STANDBY") \/ Stuck
===============================================================================
