----------------------------- MODULE ProtocolJson -----------------------------
(*****************************************************************************)
(* A ProtocolMessage as the payload of a frame and back (protocol.cpp).      *)
(*                                                                           *)
(* A text is a sequence of characters; those the code tells apart are named  *)
(* below, a key or the name of a type counts as one character, "wide" takes  *)
(* three bytes of UTF-8 and "lone" (an unpaired surrogate) has no encoding.  *)
(* A byte is a pair, the character and which of its bytes it is; a byte of a *)
(* length is the character that it would be as text, 0 and its value.        *)
(* Blanks, which nothing here writes, are left out.                          *)
(*****************************************************************************)
EXTENDS Naturals, Sequences

OnSeq == INSTANCE SequencesExt

CONSTANTS MaxPayloadBytes, \* kMaxFramePayloadBytes
          MaxNumber        \* UINT64_MAX

ASSUME JsonAssumption ==
    /\ MaxPayloadBytes \in Nat \ {0} /\ MaxPayloadBytes <= 64 * 1024
    /\ MaxNumber \in Nat

Type == {"INSERT", "APPLY"}        \* two of the names of MessageTypeToString

\* "q", "b" and "nl" stand for the quotation mark, the backslash and the line feed, "open",
\* "close", "comma" and "colon" for the marks of JSON.
Digit == <<"0", "1", "2", "3", "4", "5", "6", "7", "8", "9">>

-----------------------------------------------------------------------------
(* SerializeMessage                                                          *)

\* A slip: the backslash itself is not escaped.
EscapeKeepsBackslash(value) ==
    OnSeq!FlattenSeq([k \in 1..Len(value) |-> CASE value[k] = "q" -> <<"b", "q">>
                                          [] value[k] = "nl" -> <<"b", "n">>
                                          [] OTHER -> <<value[k]>>])

EscapeJsonString(value) ==
    OnSeq!FlattenSeq([k \in 1..Len(value) |-> CASE value[k] \in {"q", "b"} -> <<"b", value[k]>>
                                          [] value[k] = "nl" -> <<"b", "n">>
                                          [] OTHER -> <<value[k]>>])

Quoted(value) == <<"q">> \o EscapeJsonString(value) \o <<"q">>
Decimal(n) ==
    LET digits[k \in 0..n] == IF k < 10 THEN <<Digit[k + 1]>>
                              ELSE Append(digits[k \div 10], Digit[(k % 10) + 1])
    IN  digits[n]

\* AppendJsonStringField and AppendJsonNumberField
StringField(key, value) == Quoted(<<key>>) \o <<"colon">> \o Quoted(value)
NumberField(key, value) == Quoted(<<key>>) \o <<"colon">> \o Decimal(value)

\* The three common fields, then the text of the message and its number if it has them.
Json(m) ==
    <<"open">> \o StringField("type", <<m.type>>) \o <<"comma">> \o StringField("session", m.session)
      \o <<"comma">> \o StringField("client", m.client)
      \o OnSeq!FlattenSeq([k \in 1..Len(m.text) |-> <<"comma">> \o StringField("text", m.text[k])])
      \o OnSeq!FlattenSeq([k \in 1..Len(m.pos) |-> <<"comma">> \o NumberField("pos", m.pos[k])])
      \o <<"close">>

Utf8Bytes(text) ==
    OnSeq!FlattenSeq([k \in 1..Len(text) |-> [b \in 1..IF text[k] = "wide" THEN 3 ELSE 1 |-> <<text[k], b>>]])

\* The payload, or <<>> if there is none: no type, no session or client, no encoding,
\* more bytes than a frame may carry.
SerializeMessage(m) ==
    LET json == Json(m)
        bytes == Utf8Bytes(json)
    IN  IF /\ m.type \in Type /\ m.session # <<>> /\ m.client # <<>>
           /\ \A k \in 1..Len(json) : json[k] # "lone"
           /\ Len(bytes) <= MaxPayloadBytes
          THEN bytes ELSE <<>>

-----------------------------------------------------------------------------
(* DeserializeMessage, as an automaton over the characters: "at" is where    *)
(* the loop stands, key and text what it collects.                           *)

Parser == [at |-> "object", key |-> <<>>, text |-> <<>>, n |-> 0,
           type |-> "UNKNOWN", session |-> <<>>, client |-> <<>>, strings |-> <<>>, numbers |-> <<>>]

Invalid(p) == [p EXCEPT !.at = "invalid"]
At(p, where) == [p EXCEPT !.at = where]

\* ProtocolMessage::SetString
SetString(p) ==
    CASE p.key = <<"type">> -> [p EXCEPT !.type = IF Len(p.text) = 1 /\ p.text[1] \in Type
                                                    THEN p.text[1] ELSE "UNKNOWN"]
      [] p.key = <<"session">> -> [p EXCEPT !.session = p.text]
      [] p.key = <<"client">> -> [p EXCEPT !.client = p.text]
      [] OTHER -> [p EXCEPT !.strings = Append(@, <<p.key, p.text>>)]
SetNumber(p) == [p EXCEPT !.numbers = Append(@, <<p.key, p.n>>)]

\* After a value: another field, or the end of the object.
AfterValue(p, ch) == CASE ch = "comma" -> At(p, "key") [] ch = "close" -> At(p, "end") [] OTHER -> Invalid(p)

\* ParseJsonString, from behind the opening quotation mark; done names what follows.
InString(p, ch, escaping, done) ==
    CASE ch = "q" -> done
      [] ch = "b" -> At(p, escaping)
      [] OTHER -> [p EXCEPT !.text = Append(@, ch)]

\* A slip: an escape stands for its second character.
EscapedKeepsLetter(p, ch, back) ==
    IF ch \in {"q", "b", "n"} THEN [At(p, back) EXCEPT !.text = Append(@, ch)] ELSE Invalid(p)

Escaped(p, ch, back) ==
    CASE ch \in {"q", "b"} -> [At(p, back) EXCEPT !.text = Append(@, ch)]
      [] ch = "n" -> [At(p, back) EXCEPT !.text = Append(@, "nl")]
      [] OTHER -> Invalid(p)

IsDigit(ch) == \E d \in 1..10 : Digit[d] = ch
DigitValue(ch) == (CHOOSE d \in 1..10 : Digit[d] = ch) - 1

\* ParseUnsigned, digit by digit.
InNumber(p, ch) ==
    IF p.n > (MaxNumber - DigitValue(ch)) \div 10
      THEN Invalid(p) ELSE [At(p, "number") EXCEPT !.n = p.n * 10 + DigitValue(ch)]

ParserStep(p, ch) ==
    CASE p.at = "object" -> IF ch = "open" THEN At(p, "key") ELSE Invalid(p)
      [] p.at = "key" -> IF ch = "q" THEN [At(p, "name") EXCEPT !.text = <<>>] ELSE Invalid(p)
      [] p.at = "name" -> InString(p, ch, "nameEscape", [At(p, "colon") EXCEPT !.key = p.text])
      [] p.at = "nameEscape" -> Escaped(p, ch, "name")
      [] p.at = "colon" -> IF ch = "colon" THEN At(p, "value") ELSE Invalid(p)
      [] p.at = "value" -> CASE ch = "q" -> [At(p, "string") EXCEPT !.text = <<>>]
                             [] IsDigit(ch) -> InNumber([p EXCEPT !.n = 0], ch)
                             [] OTHER -> Invalid(p)
      [] p.at = "string" -> InString(p, ch, "stringEscape", At(SetString(p), "after"))
      [] p.at = "stringEscape" -> Escaped(p, ch, "string")
      [] p.at = "number" -> IF IsDigit(ch) THEN InNumber(p, ch) ELSE AfterValue(SetNumber(p), ch)
      [] p.at = "after" -> AfterValue(p, ch)
      [] OTHER -> Invalid(p)

\* Utf8ToWide: each character has all of its bytes.
WellEncoded(bytes) ==
    \A k \in 1..Len(bytes) :
       /\ bytes[k][2] \in 1..2 /\ bytes[k][1] = "wide" => k < Len(bytes) /\ bytes[k + 1] = <<"wide", bytes[k][2] + 1>>
       /\ bytes[k][2] > 1 => k > 1 /\ bytes[k - 1] = <<"wide", bytes[k][2] - 1>>

\* A character is read where its first byte is.
ReadByte(p, byte) == IF byte[2] <= 1 THEN ParserStep(p, byte[1]) ELSE p
Parses(p, bytes) ==
    LET after[k \in 0..Len(bytes)] == IF k = 0 THEN p ELSE ReadByte(after[k - 1], bytes[k])
    IN  after[Len(bytes)]

\* The message in a payload, if there is one: a whole object, of a known type, with a
\* session and a client.
DeserializeMessage(bytes) ==
    LET p == Parses(Parser, bytes)
    IN  [ok |-> /\ WellEncoded(bytes) /\ p.at = "end"
                /\ p.type \in Type /\ p.session # <<>> /\ p.client # <<>>,
         message |-> [type |-> p.type, session |-> p.session, client |-> p.client,
                      text |-> [k \in 1..Len(p.strings) |-> p.strings[k][2]],
                      pos |-> [k \in 1..Len(p.numbers) |-> p.numbers[k][2]]]]
=============================================================================
