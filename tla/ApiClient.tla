------------------------------- MODULE ApiClient -------------------------------
(***************************************************************************)
(* pkg/client/api_client.go: requests and answers over the serial port.    *)
(*                                                                         *)
(* Open starts two goroutines.  The sender drains the channel Send onto    *)
(* the port; the receiver reads frames and pushes those it knows onto the  *)
(* channel Recv.  Both channels hold one message.  SendRequest writes to   *)
(* the port itself and then takes messages from Recv until one has the     *)
(* type it waits for: the others it drops.                                 *)
(*                                                                         *)
(* Reads have a timeout, writes have none: whoever writes while the line   *)
(* to the device is full waits until the device takes something.           *)
(*                                                                         *)
(* The port, and the device behind it, are those of LoraDevice.  A caller  *)
(* of this API is in ApiCaller and MeshtasticClient.                       *)
(***************************************************************************)
EXTENDS LoraDevice

CONSTANTS
    Garbled,    \* TRUE if a frame may reach the host garbled
    Late        \* TRUE if SendRequest may give up while the answer is under way

ASSUME ApiAssumption ==
    /\ Garbled \in BOOLEAN
    /\ Late \in BOOLEAN
    /\ Garbled => Late  \* a reader that has ended leaves the answer on the line
    /\ None \notin Requests

VARIABLES
    api,        \* "open", "closing" (cancelled, waiting) or "closed"
    send,       \* the channel Send, behind the message being written
    sender,     \* the sending goroutine: in its select, in a write, gone
    recv,       \* the channel Recv
    receiver,   \* the receiving goroutine: in a read, blocked in a push, gone
    held,       \* the message the receiver is pushing
    call        \* the request that SendRequest awaits an answer to

apiVars == <<api, send, sender, recv, receiver, held, call>>

NoCall == None
RecvCap == 1
SendCap == 1

\* What send may hold: a full channel, and the message taken from it.
SendRoom == IF sender = "write" THEN SendCap + 1 ELSE SendCap

\* Frames on their way to a reader of Recv.
Arriving == recv \o held \o toHost

\* The answer to the request awaited may still come: the device has to answer
\* it yet, or has done so.
AnswerDue ==
    \/ \E i \in 1 .. Len(toDevice) : toDevice[i].kind = call.kind
    \/ \E i \in 1 .. Len(Arriving) : Arriving[i].kind = call.kind

\* Types of the request layer, and the capacity of Recv and Send
ApiTypeOK ==
    /\ DeviceTypeOK
    /\ api \in {"open", "closing", "closed"}
    /\ sender \in {"run", "write", "exited"}
    /\ send \in Seq(Requests) /\ Len(send) <= SendRoom
    /\ sender = "write" => send # <<>>
    /\ recv \in Seq(Frames) /\ Len(recv) <= RecvCap
    /\ receiver \in {"read", "push", "exited"}
    /\ held \in Seq(Frames) /\ Len(held) = IF receiver = "push" THEN 1 ELSE 0
    /\ call \in Requests \cup {NoCall}

ApiInit ==
    /\ api = "open"
    /\ send = <<>>
    /\ sender = "run"
    /\ recv = <<>>
    /\ receiver = "read"
    /\ held = <<>>
    /\ call = NoCall

-------------------------------------------------------------------------------
(* The receiving goroutine *)

\* The top of its loop: it looks at the context between two messages only.
NextRead == IF api = "open" THEN "read" ELSE "exited"

\* handleMessage has no case for log messages.
Known(f) == f.kind # "Logging"

ReceiverPush ==
    /\ receiver = "read" /\ toHost # <<>> /\ Known(Head(toHost))
    /\ receiver' = "push"
    /\ held' = <<Head(toHost)>>
    /\ toHost' = Tail(toHost)
    /\ UNCHANGED <<toDevice, mode, aired, accepted, api, send, sender, recv, call>>

\* What handleMessage does not know is dropped, and so is a message whose payload
\* DeserializeResponse cannot read, which a fault of the line may do to any.
ReceiverDrop ==
    /\ receiver = "read" /\ toHost # <<>> /\ (Known(Head(toHost)) => Faults)
    /\ receiver' = NextRead
    /\ toHost' = Tail(toHost)
    /\ UNCHANGED <<toDevice, mode, aired, accepted, api, send, sender, recv, held, call>>

\* Slip: a message that finds Recv full is dropped.
ReceiverPushedSlip ==
    /\ receiver = "push"
    /\ recv' = IF Len(recv) < RecvCap THEN recv \o held ELSE recv
    /\ held' = <<>>
    /\ receiver' = NextRead
    /\ UNCHANGED <<deviceVars, api, send, sender, call>>

\* c.Recv <- msg goes through when there is room.  It does not look at the
\* context: while Recv is full, the goroutine cannot be stopped.
ReceiverPushed ==
    /\ receiver = "push" /\ Len(recv) < RecvCap
    /\ recv' = recv \o held
    /\ held' = <<>>
    /\ receiver' = NextRead
    /\ UNCHANGED <<deviceVars, api, send, sender, call>>

\* Slip: the read has no timeout.
ReceiverTimeoutSlip ==
    /\ receiver = "read" /\ api # "open" /\ toHost # <<>>
    /\ receiver' = "exited"
    /\ UNCHANGED <<deviceVars, api, send, sender, recv, held, call>>

\* The read times out after a second without a byte.  While the client is
\* open that only starts another read.
ReceiverTimeout ==
    /\ receiver = "read" /\ api # "open"
    /\ receiver' = "exited"
    /\ UNCHANGED <<deviceVars, api, send, sender, recv, held, call>>

\* A garbled frame (CRC mismatch, broken escape sequence) is not a timeout:
\* the goroutine ends for good and nobody is told.
ReceiverFail ==
    /\ Garbled /\ receiver = "read" /\ toHost # <<>>
    /\ toHost' = Tail(toHost)
    /\ receiver' = "exited"
    /\ UNCHANGED <<toDevice, mode, aired, accepted, api, send, sender, recv, held, call>>

Receiver == ReceiverPush \/ ReceiverDrop \/ ReceiverPushed \/ ReceiverTimeout

-------------------------------------------------------------------------------
(* The sending goroutine *)

SenderTake ==
    /\ sender = "run" /\ send # <<>>
    /\ sender' = "write"
    /\ UNCHANGED <<deviceVars, api, send, recv, receiver, held, call>>

\* The write goes through when there is room.  It does not look at the context.
SenderForward ==
    /\ sender = "write" /\ Len(toDevice) < LineCap
    /\ toDevice' = Append(toDevice, Head(send))
    /\ send' = Tail(send)
    /\ sender' = "run"
    /\ UNCHANGED <<toHost, mode, aired, accepted, api, recv, receiver, held, call>>

\* The port may refuse a write at any time, and nobody is told.
SenderFail ==
    /\ sender = "write"
    /\ send' = Tail(send)
    /\ sender' = "run"
    /\ UNCHANGED <<deviceVars, api, recv, receiver, held, call>>

\* The select may notice the cancellation before a waiting message.
SenderExit ==
    /\ sender = "run" /\ api # "open"
    /\ sender' = "exited"
    /\ UNCHANGED <<deviceVars, api, send, recv, receiver, held, call>>

-------------------------------------------------------------------------------
(* The operations; a caller conjoins its own variables. *)

SendMessage(r) ==
    /\ Len(send) < SendRoom
    /\ send' = Append(send, r)
    /\ UNCHANGED <<deviceVars, api, sender, recv, receiver, held, call>>

SendRequest(r) ==
    /\ call = NoCall /\ Len(toDevice) < LineCap
    /\ toDevice' = Append(toDevice, r)
    /\ call' = r
    /\ UNCHANGED <<toHost, mode, aired, accepted, api, send, sender, recv, receiver, held>>

\* The write to the port fails: SendRequest returns the error at once.
SendRequestFails ==
    /\ Faults /\ call = NoCall
    /\ UNCHANGED <<deviceVars, apiVars>>

\* Slip: the first message is the answer, whatever its type.
SendRequestReturnSlip(res) ==
    /\ call # NoCall /\ recv # <<>>
    /\ res = Head(recv)
    /\ recv' = Tail(recv)
    /\ call' = NoCall
    /\ UNCHANGED <<deviceVars, api, send, sender, receiver, held>>

\* The message has the type of the request: SendRequest returns it.
SendRequestReturn(res) ==
    /\ call # NoCall /\ recv # <<>>
    /\ res = Head(recv) /\ res.kind = call.kind
    /\ recv' = Tail(recv)
    /\ call' = NoCall
    /\ UNCHANGED <<deviceVars, api, send, sender, receiver, held>>

\* It has another type: it is dropped, whatever it is.
SendRequestDiscard ==
    /\ call # NoCall /\ recv # <<>>
    /\ Head(recv).kind # call.kind
    /\ recv' = Tail(recv)
    /\ UNCHANGED <<deviceVars, api, send, sender, receiver, held, call>>

\* Slip: the time is looked at only when a message has come.
SendRequestTimeoutSlip ==
    /\ Late /\ call # NoCall /\ recv # <<>>
    /\ call' = NoCall
    /\ UNCHANGED <<deviceVars, api, send, sender, recv, receiver, held>>

\* No answer came in time.  If answers are never late (~Late) none is under way:
\* the request or its answer was lost.
SendRequestTimeout ==
    /\ call # NoCall /\ (Late \/ ~AnswerDue)
    /\ call' = NoCall
    /\ UNCHANGED <<deviceVars, api, send, sender, recv, receiver, held>>

\* ReceiveMessage, or a receive from the channel Recv itself.
ReceiveMessage(msg) ==
    /\ recv # <<>> /\ msg = Head(recv)
    /\ recv' = Tail(recv)
    /\ UNCHANGED <<deviceVars, api, send, sender, receiver, held, call>>

Close ==
    /\ api = "open"
    /\ api' = "closing"
    /\ UNCHANGED <<deviceVars, send, sender, recv, receiver, held, call>>

\* wg.Wait returns and the port is closed.
CloseReturn ==
    /\ api = "closing" /\ sender = "exited" /\ receiver = "exited"
    /\ api' = "closed"
    /\ UNCHANGED <<deviceVars, send, sender, recv, receiver, held, call>>

\* The steps the two goroutines and the device take by themselves.
Background ==
    \/ DeviceNext /\ UNCHANGED apiVars
    \/ Receiver
    \/ ReceiverFail
    \/ SenderTake
    \/ SenderForward
    \/ SenderFail
    \/ SenderExit
    \/ CloseReturn
===============================================================================
