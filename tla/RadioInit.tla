------------------------------- MODULE RadioInit -------------------------------
(***************************************************************************)
(* pkg/meshtastic/meshtastic.go: Open and initRadio, in front of the       *)
(* client they leave behind.                                               *)
(*                                                                         *)
(* Five exchanges put the radio to work.  The first is tried again, since  *)
(* the device may be in its bootloader, where it takes requests without    *)
(* answering (a lost request); any other failure ends Open.  Then the loop *)
(* of MeshtasticClient starts; this module follows it until the node       *)
(* stops, and leaves Close to MeshtasticClient.                            *)
(*                                                                         *)
(* The radio may be doing anything when the port is opened, and a frame    *)
(* meant for an earlier process may still be on the line.  If it answers   *)
(* the first request, the device has carried that out for that process:    *)
(* the first request is the same for every configuration.                  *)
(***************************************************************************)
EXTENDS MeshtasticClient

CONSTANTS
    Attempts,   \* how often the first request is made (30 in the code)
    Powers      \* values of radio.power in the configuration

SupportedPowers == {14, 17, 20, 22}

\* The requests, in order.
Requested == <<"RxTxFallbackMode", "RadioFrequency", "TxParameters",
               "LoRaParameters", "SwitchToRx">>

ASSUME RadioInitAssumption ==
    /\ Attempts \in Nat \ {0}
    /\ Powers \subseteq Nat
    /\ \A i \in DOMAIN Requested : Plain(Requested[i]) # NoCall

\* Those that are answered with what the radio is set to now.
Settings == {Requested[i] : i \in 1 .. 4}

VARIABLES
    step,       \* the request being made; one past the last when Open has
                \* returned without an error, and 0 when it returned one
    tries,      \* attempts at the first request
    power,      \* radioConfig.Power
    applied     \* ghost: the kinds of request the device has carried out

openVars == <<step, tries, power, applied>>
clientVars == <<pc, hand, channelVars, seenVars, retryVars, nodeVars>>
allVars == <<vars, openVars>>

Ready == step = Len(Requested) + 1
Failed == step = 0
Opening == ~Ready /\ ~Failed

\* Frames an earlier process did not read.
Leftovers == {Plain(Requested[i]) : i \in DOMAIN Requested} \cup {PacketReceived(k) : k \in Keys}

OpenInit ==
    /\ ApiInit /\ ClientInit
    /\ toDevice = <<>>
    /\ toHost \in {<<>>} \cup {<<f>> : f \in Leftovers}
    /\ mode \in Modes
    /\ aired = Foreign
    /\ accepted = {}
    /\ step = 1
    /\ tries = 0
    /\ power \in Powers
    /\ applied = {f.kind : f \in Elements(toHost)} \cap {Requested[1]}

-------------------------------------------------------------------------------
(* The device *)

\* A frequency that the radio cannot tune to is not applied, and not the one in
\* the answer (busy stands for that).
DeviceConfigure ==
    /\ toDevice # <<>>
    /\ LET kind == Head(toDevice).kind IN
        /\ kind \in Settings
        /\ \E refused \in IF kind = "RadioFrequency" THEN BOOLEAN ELSE {FALSE} :
            /\ Emit([Plain(kind) EXCEPT !.busy = refused])
            /\ applied' = IF refused THEN applied ELSE applied \cup {kind}
    /\ toDevice' = Tail(toDevice)
    /\ UNCHANGED <<mode, aired, accepted, apiVars, step, tries, power>>

\* A radio left receiving hears packets that are not on the air for long.
DeviceHear ==
    /\ mode = "RX"
    /\ \E k \in Keys : Emit(PacketReceived(k))
    /\ mode' \in {"RX", "STANDBY"}
    /\ UNCHANGED <<toDevice, aired, accepted, apiVars, openVars>>

\* Everything else goes on as it does under the loop.
OpenBackground ==
    /\ Background
    /\ applied' = IF DeviceSwitchToRx THEN applied \cup {"SwitchToRx"} ELSE applied
    /\ UNCHANGED <<step, tries, power>>

-------------------------------------------------------------------------------
(* initRadio *)

\* The power is looked up between the second exchange and the third.
KnownPower == step # 3 \/ power \in SupportedPowers

Configure ==
    /\ Opening /\ KnownPower
    /\ SendRequest(Plain(Requested[step]))
    /\ UNCHANGED <<clientVars, openVars>>

UnsupportedPower ==
    /\ Opening /\ ~KnownPower
    /\ step' = 0
    /\ UNCHANGED <<vars, tries, power, applied>>

\* The answer has come.  Only that about the frequency is looked at.
Configured ==
    /\ Opening
    /\ \E res \in Elements(recv) :
        /\ SendRequestReturn(res)
        /\ step' = IF step = 2 /\ res.busy THEN 0 ELSE step + 1
    /\ UNCHANGED <<clientVars, tries, power, applied>>

ConfigureDiscard == Opening /\ SendRequestDiscard /\ UNCHANGED <<clientVars, openVars>>

\* Slip: the first request is made until it is answered.
ConfigureErrorSlip ==
    /\ Opening /\ KnownPower
    /\ SendRequestTimeout \/ SendRequestFails
    /\ step' = IF step = 1 THEN 1 ELSE 0
    /\ UNCHANGED <<clientVars, tries, power, applied>>

\* No answer came in time, or the port could not be written.  The first request
\* is made again, half a second later.
ConfigureError ==
    /\ Opening /\ KnownPower
    /\ SendRequestTimeout \/ SendRequestFails
    /\ IF step = 1 /\ tries + 1 < Attempts
       THEN tries' = tries + 1 /\ UNCHANGED step
       ELSE step' = 0 /\ UNCHANGED tries
    /\ UNCHANGED <<clientVars, power, applied>>

InitRadio == Configure \/ UnsupportedPower \/ Configured \/ ConfigureDiscard

OpenNext ==
    \/ InitRadio
    \/ ConfigureError
    \/ Opening /\ (DeviceConfigure \/ DeviceHear \/ OpenBackground) /\ UNCHANGED clientVars
    \/ Ready /\ nodeUp /\ Next /\ UNCHANGED openVars

OpenSpec == OpenInit /\ [][OpenNext]_allVars

-------------------------------------------------------------------------------
(* Properties *)

\* When Open returns without an error the device has carried out all five
\* requests, whatever was on the line before, whichever attempt at the first
\* was answered and however late: no request and no answer of initRadio is
\* still under way, so that none is taken for the answer to another
\* (meshtastic.go:141-235, api_client.go:188-198).
OpenMeansReady ==
    [][Ready' /\ ~Ready =>
        /\ applied' = Elements(Requested)
        /\ toDevice' = <<>>
        /\ \A f \in Elements(Arriving') : f.kind \notin Elements(Requested)]_allVars

\* The caller runs, and SendRequest looks at the time for every message.  A write
\* that finds no room on the line may wait for ever, and need not fail.
OpenFairness ==
    WF_allVars(InitRadio) /\ WF_allVars(SendRequestTimeout /\ ConfigureError)

OpenFairSpec == OpenSpec /\ OpenFairness

\* Open is in a write that does not go through.
OpenBlocked == Opening /\ KnownPower /\ call = NoCall /\ Len(toDevice) = LineCap

\* Open returns, whatever the device does: in its bootloader, answering late, or
\* chattering so that a message of another type always comes; unless the device
\* takes nothing more and the line is full (meshtastic.go:148-166,
\* api_client.go:189-192, serial_client.go:115).
OpenReturns == <>~Opening \/ <>[]OpenBlocked
===============================================================================
