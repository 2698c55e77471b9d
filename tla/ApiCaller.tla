------------------------------- MODULE ApiCaller -------------------------------
(***************************************************************************)
(* The client of pkg/client under any caller of its interface: one         *)
(* goroutine that makes requests, others that send and receive messages    *)
(* and that close it, in any order the interface allows.                   *)
(***************************************************************************)
EXTENDS ApiClient

callerVars == <<deviceVars, apiVars>>

CallerInit == DeviceInit /\ ApiInit

SomeRequest == {TransmitRequest(j) : j \in Jobs} \cup {Plain(k) : k \in PlainRequestKinds}

Request == api = "open" /\ \E r \in SomeRequest : SendRequest(r) \/ SendMessage(r)

Return == SendRequestDiscard \/ SendRequestTimeout \/ \E f \in Frames : SendRequestReturn(f)

Read == call = NoCall /\ \E f \in Frames : ReceiveMessage(f)

CallerNext == Request \/ Return \/ Read \/ Close \/ Background

CallerSpec == CallerInit /\ [][CallerNext]_callerVars

\* The goroutines of the client run; the caller need not do anything.
CallerFairness ==
    /\ WF_callerVars(Receiver)
    /\ WF_callerVars(SenderForward)
    /\ WF_callerVars(SenderExit)
    /\ WF_callerVars(CloseReturn)

CallerFairSpec == CallerSpec /\ CallerFairness

\* A caller that takes messages from Recv until Close has returned.
ReadingSpec == CallerFairSpec /\ WF_callerVars(Return) /\ WF_callerVars(Read)

\* Frames are read from Recv in the order the device sent them, each once,
\* and on a line that loses nothing only those that handleMessage does not know
\* vanish on the way, until the receiver ends; what it then leaves behind are the
\* last of them (api_client.go:66-93, 127-174): the client implements OrderedChannel.
Droppable == IF Faults THEN Frames ELSE {f \in Frames : f.kind = "Logging"}

Frame == INSTANCE OrderedChannel
    WITH Messages <- Frames, whole <- receiver # "exited",
         queue <- IF receiver = "exited" THEN recv ELSE Arriving

InOrder == Frame!Spec

\* The sender is in a write that does not go through.
SenderBlocked == sender = "write" /\ Len(toDevice) = LineCap

\* Close waits for both goroutines and returns (api_client.go:98-114), unless the
\* device never takes what the sender is writing (serial_client.go:115).
CloseTerminates == (api = "closing" ~> api = "closed") \/ <>[]SenderBlocked
===============================================================================
