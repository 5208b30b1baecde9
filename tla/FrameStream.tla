----------------------------- MODULE FrameStream ------------------------------
(*****************************************************************************)
(* One direction of a connection: frames are written to a stream of bytes    *)
(* and read from it, with the loops that sync_server.cpp and sync_client.cpp *)
(* both have.                                                                *)
(*                                                                           *)
(* TCP keeps the order of the bytes and delivers them cut anywhere; one call *)
(* of send puts its bytes on the stream together. A send may fail anywhere   *)
(* (SO_SNDTIMEO); the callers differ in what they do then: a session ends,   *)
(* while BroadcastApply is called again with the next operation and the      *)
(* result of SendError is not looked at. What the receiver reads then goes   *)
(* over from one frame into the next, and a length of 22 7D (hexadecimal)    *)
(* even ends a text and an object.                                           *)
(*                                                                           *)
(* MaxSends bounds the calls of SendProtocolMessage, MaxCuts those that      *)
(* fail.                                                                     *)
(*****************************************************************************)
EXTENDS ProtocolJson

CONSTANTS Message,         \* the messages sent
          ReceiveBytes,    \* the size of the buffer given to recv
          MaxSends, MaxCuts

ASSUME StreamAssumption ==
    /\ ReceiveBytes \in 1..MaxPayloadBytes
    /\ MaxSends \in Nat /\ MaxCuts \in Nat
    /\ Message \subseteq [type : STRING, session : Seq(STRING), client : Seq(STRING),
                          text : Seq(Seq(STRING)), pos : Seq(0..MaxNumber)]

VARIABLES sent,       \* the messages sent, in order, before a send first failed
          calls,      \* calls of SendProtocolMessage so far
          cuts,       \* those whose send failed
          wire,       \* bytes on their way
          buffer,     \* FrameDecoder::buffer_
          got,        \* the messages the receiver was given, in order
          receiver    \* "reading", or how its loop ended: "closed", "error"

streamVars == <<sent, calls, cuts, wire, buffer, got, receiver>>
sender == <<sent, calls, cuts>>

\* A byte of a length, and what it is if it is read as text; from 128 on, where it would
\* be a part of a character, it counts as a control character.
AsText(value) ==
    CASE value = 34 -> "q" [] value = 44 -> "comma" [] value = 58 -> "colon" [] value = 92 -> "b"
      [] value = 110 -> "n" [] value = 123 -> "open" [] value = 125 -> "close"
      [] value \in 48..57 -> Digit[value - 47]
      [] OTHER -> "control"
LengthByte(value) == <<AsText(value), 0, value>>

\* EncodeFrame: the length in four bytes, most significant first.
Weight == <<16777216, 65536, 256, 1>>
HeaderByte(n, k) == (n \div Weight[k]) % 256
EncodeFrame(payload) == [k \in 1..4 |-> LengthByte(HeaderByte(Len(payload), k))] \o payload

\* ReadBigEndianLength. A byte of a text is read as one of a length only behind a send that
\* failed; it counts as a blank.
ByteValue(byte) == IF byte[2] = 0 THEN byte[3] ELSE 32
ReadBigEndianLength(bytes) ==
    ByteValue(bytes[1]) * Weight[1] + ByteValue(bytes[2]) * Weight[2]
      + ByteValue(bytes[3]) * Weight[3] + ByteValue(bytes[4])

StreamInit ==
    /\ sent = <<>> /\ calls = 0 /\ cuts = 0
    /\ wire = <<>> /\ buffer = <<>> /\ got = <<>> /\ receiver = "reading"

\* SendProtocolMessage and SendAll. A message that has no payload is not sent at all.
Send(m) ==
    /\ calls < MaxSends /\ calls' = calls + 1
    /\ LET payload == SerializeMessage(m)
       IN  IF payload = <<>>
             THEN UNCHANGED <<sent, cuts, wire>>
             ELSE \/ /\ wire' = wire \o EncodeFrame(payload)
                     /\ sent' = IF cuts = 0 THEN Append(sent, m) ELSE sent
                     /\ UNCHANGED cuts
                  \/ /\ cuts < MaxCuts /\ cuts' = cuts + 1
                     /\ \E n \in 0..Len(payload) + 3 : wire' = wire \o SubSeq(EncodeFrame(payload), 1, n)
                     /\ UNCHANGED sent
    /\ UNCHANGED <<buffer, got, receiver>>

-----------------------------------------------------------------------------
(* ReceiveProtocolMessage                                                    *)

\* A slip: off by one.
NeedsOneMore == Len(buffer) >= 4 =>
                   /\ ReadBigEndianLength(buffer) <= MaxPayloadBytes
                   /\ Len(buffer) <= ReadBigEndianLength(buffer) + 4

\* FrameDecoder::TryReadFrame finds no frame and no error: more bytes are needed.
NeedsMore == Len(buffer) >= 4 =>
                /\ ReadBigEndianLength(buffer) <= MaxPayloadBytes
                /\ Len(buffer) < ReadBigEndianLength(buffer) + 4

\* FrameDecoder::TryReadFrame, and what becomes of the frame.
ReadFrame ==
    /\ receiver = "reading" /\ ~NeedsMore
    /\ LET length == ReadBigEndianLength(buffer)
           parsed == DeserializeMessage(SubSeq(buffer, 5, length + 4))
       IN  IF length > MaxPayloadBytes
             THEN receiver' = "error" /\ buffer' = <<>> /\ got' = got
             ELSE /\ buffer' = SubSeq(buffer, length + 5, Len(buffer))
                  /\ IF parsed.ok THEN got' = Append(got, parsed.message) /\ UNCHANGED receiver
                                  ELSE got' = got /\ receiver' = "error"
    /\ UNCHANGED <<sender, wire>>

\* recv gives some of the bytes, and FrameDecoder::Append takes them unless the buffer
\* would hold more than one largest frame.
Receive ==
    /\ receiver = "reading" /\ NeedsMore = TRUE
    /\ \E n \in 1..ReceiveBytes :
          /\ n <= Len(wire)
          /\ wire' = SubSeq(wire, n + 1, Len(wire))
          /\ IF Len(buffer) + n > MaxPayloadBytes + 4
               THEN buffer' = <<>> /\ receiver' = "error"
               ELSE buffer' = buffer \o SubSeq(wire, 1, n) /\ UNCHANGED receiver
    /\ UNCHANGED <<sender, got>>

\* The other side is done and closes; all of its bytes have been read.
Closed ==
    /\ receiver = "reading" /\ NeedsMore = TRUE
    /\ wire = <<>> /\ calls = MaxSends
    /\ receiver' = "closed"
    /\ UNCHANGED <<sender, wire, buffer, got>>

StreamNext == (\E m \in Message : Send(m)) \/ ReadFrame \/ Receive \/ Closed

StreamSpec == StreamInit /\ [][StreamNext]_streamVars

-----------------------------------------------------------------------------
(* Properties.                                                               *)

StreamTypeOK ==
    /\ sent \in Seq(Message) /\ calls \in 0..MaxSends /\ cuts \in 0..MaxCuts
    /\ Len(sent) + cuts <= calls
    /\ Len(buffer) <= MaxPayloadBytes + 4
    /\ receiver \in {"reading", "closed", "error"}

\* The receiver is given what was sent, each message as it was, in order and none twice,
\* wherever recv cuts the stream and whatever a text contains. A send that fails
\* spoils nothing of what was sent before it; what is made of its bytes and of those of
\* the following frames is left open.
DeliveredInOrder == OnSeq!IsPrefix(got, sent) \/ (cuts > 0 /\ OnSeq!IsPrefix(sent, got))

\* Unless a send failed, the receiver gives up only over a frame that is nearly
\* as long as allowed: then FrameDecoder::Append may refuse the bytes of the following
\* frame that came with its end, although every frame is legal.
GivesUpOnlyOverLongFrames ==
    receiver = "error" /\ cuts = 0 =>
        \E k \in 1..Len(sent) : Len(SerializeMessage(sent[k])) > MaxPayloadBytes + 1 - ReceiveBytes

\* When all bytes have been read and the receiver waits for more or was told that there
\* are none, it was given every message that was sent, unless a send failed or it
\* gave up: no frame stays behind in the buffer.
NothingLeftBehind == wire = <<>> /\ cuts = 0 /\ receiver # "error" /\ NeedsMore => got = sent
=============================================================================
