----------------------------- MODULE SerialClient -----------------------------
(***************************************************************************)
(* pkg/client/serial_client.go: messages as escaped, checksummed frames on *)
(* a serial line.                                                          *)
(*                                                                         *)
(* SendMessage writes a frame at one end of a line, and ReceiveMessage     *)
(* reads byte by byte at the other end.  The device speaks the same        *)
(* format, so this is either direction of the link, with the code of this  *)
(* file at both ends.  Noise loses or changes up to MaxNoise bytes.        *)
(***************************************************************************)
EXTENDS Naturals, Sequences, SequencesExt

CONSTANTS
    Messages,   \* records [type, payload]
    Noisy,      \* the bytes that a byte may turn into
    MaxSent,    \* bound: messages sent
    MaxNoise    \* bound: bytes lost or changed

Byte == 0 .. 255
MaxUint16 == 65535
Uint16 == 0 .. MaxUint16

START == 170            \* 0xAA
ESCAPE == 125           \* 0x7D
ESCAPE_START == 138     \* 0x8A
ESCAPE_ESCAPE == 93     \* 0x5D

ASSUME SerialAssumption ==
    /\ Messages \subseteq [type : Byte, payload : Seq(Byte)]
    /\ Noisy \subseteq Byte
    /\ MaxSent \in Nat
    /\ MaxNoise \in Nat

VARIABLES
    line,       \* bytes written and not yet read
    at,         \* the reader: hunting for START, within a frame, or ended
    escaped,    \* it has read an ESCAPE and waits for the byte after it
    frame,      \* the bytes it has read since START
    calculatedCrc,  \* the checksum of those before the checksum
    sent,       \* ghost: messages sent
    received,   \* messages returned by ReceiveMessage
    noise,      \* how many bytes have been lost or changed
    disturbed,  \* ghost: since then the line has not been empty with the
                \* reader hunting
    expected    \* ghost: messages that nothing has disturbed on their way

ghostVars == <<sent, noise, disturbed, expected>>
readerVars == <<at, escaped, frame, calculatedCrc>>
vars == <<line, readerVars, received, ghostVars>>

\* Type invariant: bytes on the line, the state of the reader, a checksum of 16 bits
TypeOK ==
    /\ line \in Seq(Byte)
    /\ at \in {"start", "frame", "ended"}
    /\ escaped \in BOOLEAN
    /\ frame \in Seq(Byte)
    /\ calculatedCrc \in Uint16
    /\ sent \in Seq(Messages)
    /\ received \in Seq([type : Byte, payload : Seq(Byte)])
    /\ noise \in 0 .. MaxNoise
    /\ disturbed \in BOOLEAN
    /\ expected \in Seq(Messages)

Init ==
    /\ line = <<>>
    /\ at = "start"
    /\ escaped = FALSE
    /\ frame = <<>>
    /\ calculatedCrc = 0
    /\ sent = <<>>
    /\ received = <<>>
    /\ noise = 0
    /\ disturbed = FALSE
    /\ expected = <<>>

-------------------------------------------------------------------------------
(* Frames *)

\* Exclusive or of two half bytes, of two bytes, and of a << 2, a << 1 and a for
\* a byte a, in tables, so that the checksum is cheap.
Differ(x, y, bit) == (x \div bit + y \div bit) % 2

xorTable == [x \in 0 .. 15 |-> [y \in 0 .. 15 |->
    Differ(x, y, 1) + 2 * Differ(x, y, 2) + 4 * Differ(x, y, 4) + 8 * Differ(x, y, 8)]]

xor(x, y) == 16 * xorTable[x \div 16][y \div 16] + xorTable[x % 16][y % 16]

spread == [a \in Byte |->
    256 * xorTable[a \div 64][a \div 128] + xor((4 * a) % 256, xor((2 * a) % 256, a))]

\* Slip: the checksum is of the last byte only.
crcStepSlip(crc, b) == spread[b]

\* One byte more.  The exclusive or with crc << 8, in sixteen bits, concerns the
\* high byte only.
crcStep(crc, b) ==
    LET t == spread[xor(crc \div 256, b)]
    IN  256 * xor(t \div 256, crc % 256) + (t % 256)

crc16(data) ==
    LET crc[n \in 0 .. Len(data)] ==
            IF n = 0 THEN 0 ELSE crcStep(crc[n - 1], data[n])
    IN  crc[Len(data)]

\* Slip: ESCAPE itself is not escaped.
escapeByteSlip(b) == IF b = START THEN <<ESCAPE, ESCAPE_START>> ELSE <<b>>

escapeByte(b) ==
    CASE b = START -> <<ESCAPE, ESCAPE_START>>
      [] b = ESCAPE -> <<ESCAPE, ESCAPE_ESCAPE>>
      [] OTHER -> <<b>>

escape(data) ==
    LET bytes[n \in 0 .. Len(data)] ==
            IF n = 0 THEN <<>> ELSE bytes[n - 1] \o escapeByte(data[n])
    IN  bytes[Len(data)]

LowHigh(n) == <<n % 256, (n \div 256) % 256>>

Body(message) == <<message.type>> \o LowHigh(Len(message.payload)) \o message.payload

Encode(message) ==
    LET data == Body(message) IN <<START>> \o escape(data \o LowHigh(crc16(data)))

\* A frame as it is read: type, length, payload and checksum.
Number(low, high) == high * 256 + low
Length(f) == Number(f[2], f[3])
InBody(f) == Len(f) <= 3 \/ Len(f) <= 3 + Length(f)
Complete(f) == Len(f) > 3 /\ Len(f) = 3 + Length(f) + 2
Checksum(f) == Number(f[Len(f) - 1], f[Len(f)])

\* Slip: the payload is taken from the length's last byte on.
DecodeSlip(f) == [type |-> f[1], payload |-> SubSeq(f, 3, 2 + Length(f))]

Decode(f) == [type |-> f[1], payload |-> SubSeq(f, 4, 3 + Length(f))]

-------------------------------------------------------------------------------
(* The line *)

InSync == at = "start" /\ ~escaped /\ line = <<>>

SendMessage(message) ==
    /\ Len(sent) < MaxSent
    /\ line' = line \o Encode(message)
    /\ sent' = Append(sent, message)
    /\ expected' = IF disturbed THEN expected ELSE Append(expected, message)
    /\ UNCHANGED <<readerVars, received, noise, disturbed>>

Noise ==
    /\ noise < MaxNoise
    /\ \E i \in DOMAIN line :
          \/ line' = RemoveAt(line, i)
          \/ \E b \in Noisy \ {line[i]} : line' = ReplaceAt(line, i, b)
    /\ noise' = noise + 1
    /\ disturbed' = TRUE
    /\ expected' = <<>>
    /\ UNCHANGED <<readerVars, sent, received>>

-------------------------------------------------------------------------------
(* ReceiveMessage, called again and again by the receiving goroutine *)

\* recv_byte has read an escape byte: it reads on.
ReadEscape ==
    /\ at # "ended" /\ ~escaped /\ line # <<>>
    /\ Head(line) = ESCAPE
    /\ line' = Tail(line)
    /\ escaped' = TRUE
    /\ UNCHANGED <<at, frame, calculatedCrc, received, ghostVars>>

\* It returns b, and ReceiveMessage is at its next step.
Got(b) ==
    IF at = "start"
    THEN /\ at' = IF b = START THEN "frame" ELSE "start"
         /\ UNCHANGED <<frame, calculatedCrc, received, expected>>
    ELSE LET f == Append(frame, b) IN
         IF ~Complete(f)
         THEN /\ frame' = f
              /\ calculatedCrc' = IF InBody(f) THEN crcStep(calculatedCrc, b)
                                 ELSE calculatedCrc
              /\ UNCHANGED <<at, received, expected>>
         ELSE /\ frame' = <<>>
              /\ calculatedCrc' = 0
              /\ IF Checksum(f) = calculatedCrc
                 THEN /\ at' = "start"
                      /\ received' = Append(received, Decode(f))
                      /\ expected' = IF expected = <<>> THEN <<>> ELSE Tail(expected)
                 ELSE at' = "ended" /\ UNCHANGED <<received, expected>>

Unescape ==
    [b \in {ESCAPE_START, ESCAPE_ESCAPE} |-> IF b = ESCAPE_START THEN START ELSE ESCAPE]

ReadByte ==
    /\ at # "ended" /\ line # <<>>
    /\ line' = Tail(line)
    /\ escaped' = FALSE
    /\ IF escaped
       THEN Head(line) \in DOMAIN Unescape /\ Got(Unescape[Head(line)])
       ELSE Head(line) # ESCAPE /\ Got(Head(line))
    /\ UNCHANGED <<sent, noise>>
    /\ disturbed' = (disturbed /\ ~InSync')

\* An escape byte before anything else: an error, and the goroutine ends.
InvalidEscape ==
    /\ at # "ended" /\ escaped /\ line # <<>>
    /\ Head(line) \notin DOMAIN Unescape
    /\ line' = Tail(line)
    /\ at' = "ended"
    /\ UNCHANGED <<escaped, frame, calculatedCrc, received, ghostVars>>

\* Slip: the reader goes on waiting for the rest of the frame.
ReadTimeoutSlip ==
    /\ at # "ended" /\ line = <<>>
    /\ UNCHANGED vars

\* A second without a byte.  That is a timeout, and the goroutine reads on; but
\* after an escape byte it is an error, and the goroutine ends.
ReadTimeout ==
    /\ at # "ended" /\ line = <<>>
    /\ at' = IF escaped THEN "ended" ELSE "start"
    /\ escaped' = FALSE
    /\ frame' = <<>>
    /\ calculatedCrc' = 0
    /\ UNCHANGED <<line, received, sent, noise, expected>>
    /\ disturbed' = (disturbed /\ ~InSync')

Receive == ReadEscape \/ ReadByte \/ InvalidEscape \/ ReadTimeout

Next == (\E m \in Messages : SendMessage(m)) \/ Noise \/ Receive

Spec == Init /\ [][Next]_vars

FairSpec == Spec /\ WF_vars(Receive)

-------------------------------------------------------------------------------
(* Properties *)

\* What is received has been sent, in that order, each message once: whatever
\* a lost or changed byte makes of the frames, of START bytes in the payload
\* and of the reader that starts in the middle of one (lines 201-283).
NothingInvented ==
    \E nth \in [DOMAIN received -> DOMAIN sent] :
        \A i, j \in DOMAIN received :
            /\ received[i] = sent[nth[i]]
            /\ i < j => nth[i] < nth[j]

\* What is received while nothing disturbs the line is the message whose turn it
\* is, byte for byte: ReceiveMessage takes back every escape, the length and the
\* checksum as SendMessage put them there, whatever the payload (lines 171-283).
ReceivedAsSent ==
    [][received' # received /\ ~disturbed =>
           expected # <<>> /\ received' = Append(received, Head(expected))]_vars

\* A message is lost only if noise hit the line while it was on its way, or
\* before the reader was in step again; and only noise ends the reader.
NothingLost ==
    /\ InSync => expected = <<>>
    /\ at = "ended" => disturbed

\* When nothing more is sent the reader gets in step again, or it has ended:
\* it does not wait for the rest of a frame forever (lines 215-224, 253-261).
Settles == <>[](InSync \/ at = "ended")
===============================================================================
