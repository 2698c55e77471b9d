------------------------------ MODULE LoraDevice ------------------------------
(***************************************************************************)
(* The USB LoRa dongle at the other end of the serial port, as the code    *)
(* under pkg/client and pkg/meshtastic uses it.  It is not part of the     *)
(* repository: every action here is an assumption about the firmware that  *)
(* the Go code relies on, and the README lists them.                       *)
(*                                                                         *)
(* The serial line is a pair of bounded FIFOs of whole frames.  With       *)
(* Faults = TRUE a frame may be lost on either line.  A request or a frame *)
(* is a record                                                             *)
(*    kind   the message type (MSG_... of pkg/client/messages.go)          *)
(*    about  the packet it concerns: the job a Transmit is for, or the key *)
(*           of a received packet                                          *)
(*    busy   the Busy flag of the answer to a Transmit                     *)
(* In the answer to a Transmit "about" is a ghost: on the wire the answer  *)
(* carries the Busy flag only, which is why the client matches it by type. *)
(***************************************************************************)
EXTENDS Naturals, Sequences, FiniteSets

CONSTANTS
    Jobs,       \* packets handed to the client, one element per hand-over
    Keys,       \* what identifies a packet on the air: <<dest, from, id>>
    KeyOf,      \* the key of each job; repeats of one packet share a key
    Foreign,    \* keys of packets that other nodes put on the air
    Chatter,    \* unsolicited frames other than packet events that are sent
    LineCap,    \* bound: frames in flight in each direction
    Faults,     \* TRUE if the line may lose a frame
    None        \* "no packet"

ChatterKinds == {"ContinuousRSSI", "Logging"}

ASSUME DeviceAssumption ==
    /\ KeyOf \in [Jobs -> Keys]
    /\ Foreign \subseteq Keys
    /\ Chatter \subseteq ChatterKinds
    /\ LineCap \in Nat \ {0}
    /\ Faults \in BOOLEAN
    /\ Jobs \cap Keys = {}
    /\ None \notin Jobs \cup Keys

VARIABLES
    toDevice,   \* requests written to the port, not yet processed
    toHost,     \* frames sent by the device, not yet read
    mode,       \* what the radio is doing
    aired,      \* keys of the packets that are or have been on the air
    accepted    \* jobs whose Transmit the device has answered "not busy"

deviceVars == <<toDevice, toHost, mode, aired, accepted>>

-------------------------------------------------------------------------------
(* Messages *)

TransmitRequest(j) == [kind |-> "Transmit", about |-> j, busy |-> FALSE]
Plain(kind) == [kind |-> kind, about |-> None, busy |-> FALSE]

TransmitAnswer(j, b) == [kind |-> "Transmit", about |-> j, busy |-> b]
PacketReceived(k) == [kind |-> "PacketReceived", about |-> k, busy |-> FALSE]

PlainRequestKinds == {"SwitchToRx", "Standby"}
EndOfTxKinds == {"PacketTransmitted", "RxTxTimeout"}

Requests ==
    [kind : {"Transmit"}, about : Jobs, busy : {FALSE}]
        \cup [kind : PlainRequestKinds, about : {None}, busy : {FALSE}]

Frames ==
    [kind : {"Transmit"}, about : Jobs, busy : BOOLEAN]
        \cup [kind : {"PacketReceived"}, about : Keys, busy : {FALSE}]
        \cup [kind : PlainRequestKinds \cup EndOfTxKinds \cup Chatter,
              about : {None}, busy : {FALSE}]

Modes == {"RX", "TX", "STANDBY"}

\* Types of the line to the device, of the line back and of the state it keeps
DeviceTypeOK ==
    /\ toDevice \in Seq(Requests)
    /\ toHost \in Seq(Frames)
    /\ mode \in Modes
    /\ aired \subseteq Keys
    /\ accepted \subseteq Jobs

\* The radio as Open leaves it: configured and receiving.
DeviceInit ==
    /\ toDevice = <<>>
    /\ toHost = <<>>
    /\ mode = "RX"
    /\ aired = Foreign
    /\ accepted = {}

-------------------------------------------------------------------------------
(* Behaviour *)

Emit(f) ==
    /\ Len(toHost) < LineCap
    /\ toHost' = Append(toHost, f)

\* The request at the head of the line is of this kind.
Asked(kind) == toDevice # <<>> /\ Head(toDevice).kind = kind

\* A Transmit is taken unless the radio is transmitting already.
DeviceAccept(j) ==
    /\ Asked("Transmit") /\ Head(toDevice).about = j
    /\ mode # "TX"
    /\ toDevice' = Tail(toDevice)
    /\ Emit(TransmitAnswer(j, FALSE))
    /\ mode' = "TX"
    /\ aired' = aired \cup {KeyOf[j]}
    /\ accepted' = accepted \cup {j}

\* A Transmit is refused while the radio transmits, and may be while a
\* packet is coming in.  A radio in standby has no reason to refuse.
DeviceRefuse(j) ==
    /\ Asked("Transmit") /\ Head(toDevice).about = j
    /\ mode # "STANDBY"
    /\ toDevice' = Tail(toDevice)
    /\ Emit(TransmitAnswer(j, TRUE))
    /\ UNCHANGED <<mode, aired, accepted>>

\* A transmission under way may be aborted by SwitchToRx, or go on.
DeviceSwitchToRx ==
    /\ Asked("SwitchToRx")
    /\ toDevice' = Tail(toDevice)
    /\ Emit(Plain("SwitchToRx"))
    /\ mode' \in {"RX", mode} \ {"STANDBY"}
    /\ UNCHANGED <<aired, accepted>>

DeviceStandby ==
    /\ Asked("Standby")
    /\ toDevice' = Tail(toDevice)
    /\ Emit(Plain("Standby"))
    /\ mode' = "STANDBY"
    /\ UNCHANGED <<aired, accepted>>

\* A packet on the air, ours or not, is received: neighbours repeat what
\* they hear.  The fallback mode after a packet is RX, but the client does
\* not rely on it: it asks for RX again after every packet event.
DeviceReceive(k) ==
    /\ mode = "RX" /\ k \in aired
    /\ Emit(PacketReceived(k))
    /\ mode' \in {"RX", "STANDBY"}
    /\ UNCHANGED <<toDevice, aired, accepted>>

DeviceEndOfTx(kind) ==
    /\ mode = "TX" /\ kind \in EndOfTxKinds
    /\ Emit(Plain(kind))
    /\ mode' \in {"RX", "STANDBY"}
    /\ UNCHANGED <<toDevice, aired, accepted>>

\* RSSI is reported while receiving; log messages come at any time.
DeviceChatter(kind) ==
    /\ kind \in Chatter
    /\ kind = "ContinuousRSSI" => mode = "RX"
    /\ Emit(Plain(kind))
    /\ UNCHANGED <<toDevice, mode, aired, accepted>>

LoseRequest ==
    /\ Faults /\ toDevice # <<>>
    /\ toDevice' = Tail(toDevice)
    /\ UNCHANGED <<toHost, mode, aired, accepted>>

LoseFrame ==
    /\ Faults /\ toHost # <<>>
    /\ toHost' = Tail(toHost)
    /\ UNCHANGED <<toDevice, mode, aired, accepted>>

DeviceAnswer ==
    \/ \E j \in Jobs : DeviceAccept(j) \/ DeviceRefuse(j)
    \/ DeviceSwitchToRx
    \/ DeviceStandby

DeviceNext ==
    \/ DeviceAnswer
    \/ \E k \in Keys : DeviceReceive(k)
    \/ \E kind \in EndOfTxKinds : DeviceEndOfTx(kind)
    \/ \E kind \in ChatterKinds : DeviceChatter(kind)
    \/ LoseRequest
    \/ LoseFrame
===============================================================================
