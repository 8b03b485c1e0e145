---------------------------- MODULE SmsExchange ----------------------------
(***************************************************************************)
(* A text message is composed key by key, goes through EncodePDU to the    *)
(* network and through DecodePDU to its reader.  Messages from elsewhere   *)
(* may begin with a header, which EncodePDU never writes: the network's    *)
(* packing behind a header is the definition in bits, PackBits.            *)
(***************************************************************************)
EXTENDS SmsCodec

CONSTANTS
  KeyPad,       \* the keys a number is made of, "+" among them
  Chars,        \* the characters of each kind of text, each a sequence of bytes or units
  MaxNumber,    \* bound on a number
  MaxText,      \* bound on a text of each kind
  MaxHeaded,    \* bound on a text that has a header
  MaxElement    \* bound on the opaque element of a header

DialDigits == {"0", "1", "2", "3", "4", "5", "6", "7", "8", "9"}

\* The bytes that have septets of their own: a line end, a form feed and what is
\* printable.  The other control characters are sent as septets that stand for
\* something else, and no text a user composes has them.
Alphabet == {10, 12, 13} \cup 32 .. 127

ASSUME KeyPadAssumption == KeyPad \subseteq DialDigits \cup {"+", "*", "#"}

KindsOfText == {"ascii", "ksc5601", "ucs2"}

\* A character of KS C 5601 is a byte or a pair of them.
SingleByte(c) == \E b \in Alphabet : c = <<b>>
PairOfBytes(c) == \E b1, b2 \in Octet : Pair(b1, b2) /\ c = <<b1, b2>>

\* A unit of UCS2, a zero would end the text.
LastUnit == 65535
Unit == 1 .. LastUnit
SingleUnit(c) == \E u \in Unit : c = <<u>>

ASSUME KindsAssumption == DOMAIN Chars = KindsOfText
ASSUME AsciiAssumption == \A c \in Chars["ascii"] : SingleByte(c)
ASSUME KscAssumption == \A c \in Chars["ksc5601"] : SingleByte(c) \/ PairOfBytes(c)
ASSUME Ucs2Assumption == \A c \in Chars["ucs2"] : SingleUnit(c)

\* MaxElement leaves room for the reply address in the 140 octets of a message.
ASSUME BoundsAssumption ==
  /\ MaxNumber \in Nat /\ MaxText \in [KindsOfText -> Nat] /\ MaxHeaded \in Nat
  /\ MaxElement \in 0 .. 128

VARIABLES
  number,       \* the other party
  kind,         \* the kind of the text
  chars,        \* its characters
  header        \* the elements of its header, a sequence of octet sequences

exchangeVars == <<number, kind, chars, header>>

Message(cs) ==
  [type |-> IF kind = "ucs2" THEN "ucs2" ELSE "ascii", units |-> FlattenSeq(cs)]

\* The arrays of EncodePDU take this much: septets, bytes of KS C 5601, or octets
\* of UCS2.
MAX_MESSAGE_LENGTH == 160
MAX_SMS_BYTES == 140
Fits(text) ==
  Head(UserData(text)) <= IF text.type = "ucs2" THEN MAX_SMS_BYTES ELSE MAX_MESSAGE_LENGTH

\* The arrays for a number hold this many characters, the zero that ends it and the
\* fill digit of an odd one included: eighteen digits, and a "+" in front of them.
MAX_NUMBER_LENGTH == 20
NumberFits(ds) ==
  Len(ds) < IF IsPrefix(<<"+">>, ds) THEN MAX_NUMBER_LENGTH ELSE MAX_NUMBER_LENGTH - 1

ExchangeInit == number = <<>> /\ kind \in KindsOfText /\ chars = <<>> /\ header = <<>>

\* A "+" only leads digits; behind it there are no other keys.
PressKey(key) ==
  /\ chars = <<>> /\ header = <<>> /\ Len(number) < MaxNumber
  /\ ~(key = "+" /\ number # <<>>)
  /\ ~(key \in {"*", "#"} /\ IsPrefix(<<"+">>, number))
  /\ NumberFits(Append(number, key))
  /\ number' = Append(number, key)
  /\ UNCHANGED <<kind, chars, header>>

\* Longer texts, and those with a header, are those without a number.
TypeChar(c) ==
  /\ Len(chars) < MaxText[kind]
  /\ header = <<>>
  /\ ~(chars # <<>> /\ number # <<>>)
  /\ number # <<"+">>
  /\ Fits(Message(Append(chars, c)))
  /\ chars' = Append(chars, c)
  /\ UNCHANGED <<number, kind, header>>

\* An element the decoder does not know, and an address to reply to (0x22).
Opaque(len) == <<0, len>> \o [k \in 1 .. len |-> 34]

AddElement(len) ==
  /\ number = <<>> /\ header = <<>> /\ Len(chars) \in 1 .. MaxHeaded
  /\ header' = <<Opaque(len)>>
  /\ UNCHANGED <<number, kind, chars>>

ReplyNumber == <<"0", "1", "5">>
Reply == <<34, Len(Address(ReplyNumber))>> \o Address(ReplyNumber)

AddReply ==
  /\ number = <<>> /\ Len(header) <= 1 /\ Len(chars) \in 1 .. MaxHeaded
  /\ \A k \in DOMAIN header : header[k][1] # 34
  /\ header' = Append(header, Reply)
  /\ UNCHANGED <<number, kind, chars>>

ExchangeNext ==
  \/ \E key \in KeyPad : PressKey(key)
  \/ \E c \in Chars[kind] : TypeChar(c)
  \/ \E len \in 1 .. MaxElement : AddElement(len)
  \/ AddReply

ExchangeSpec == ExchangeInit /\ [][ExchangeNext]_exchangeVars

-----------------------------------------------------------------------------
(* The network.                                                            *)

Units == FlattenSeq(chars)
Sent == Message(chars)

Center == <<2, 145, 33>>
Stamp == <<18, 80, 33, 16, 82, 65, 99>>

\* Bit j of the septets, and the octets these bits make behind fill bits.
Bit(septets, j) ==
  IF j \in 0 .. 7 * Len(septets) - 1
    THEN (septets[(j \div 7) + 1] \div (2 ^ (j % 7))) % 2 ELSE 0
PackBits(septets, fill) ==
  [k \in 1 .. (fill + 7 * Len(septets) + 7) \div 8 |->
     LET bit(b) == Bit(septets, 8 * (k - 1) + b - fill)
     IN  bit(0) + 2 * bit(1) + 4 * bit(2) + 8 * bit(3)
         + 16 * bit(4) + 32 * bit(5) + 64 * bit(6) + 128 * bit(7)]

\* A submitted message comes back: address, protocol and coding, time, text.
Delivered(submit) ==
  LET end == 5 + ((submit[4] + 1) \div 2)
  IN  Center \o <<4>> \o SubSeq(submit, 4, end + 2) \o Stamp
      \o SubSeq(submit, end + 3, Len(submit))

\* The message with its header.
WithHeader ==
  LET udh == FlattenSeq(header)
      octets == Len(udh) + 1
      septets == encode_alphabet(Units)
      fill == (7 - (octets % 7)) % 7
      data == UserData(Sent)
      gsm == Coding(Sent) = Gsm7bit
  IN  Center \o <<4 + TP_UDHI>> \o Address(number) \o <<0, Coding(Sent)>> \o Stamp
      \o <<IF gsm THEN ((8 * octets + fill) \div 7) + Len(septets) ELSE octets + Head(data),
           Len(udh)>>
      \o udh \o (IF gsm THEN PackBits(septets, fill) ELSE Tail(data))

\* What its reader should see: KS C 5601 is converted character by character.
AsRead ==
  IF Coding(Sent) = Gsm7bit THEN Ascii(Units)
  ELSE IF kind = "ucs2" THEN Wide(Units) ELSE Wide(chars)

-----------------------------------------------------------------------------

\* A number is of digits and the two keys, or of a "+" and digits.
IsNumber(ds) ==
  \/ ds \in Seq(DialDigits \cup {"*", "#"})
  \/ /\ ds \in Seq(DialDigits \cup {"+"}) /\ ds # <<>>
     /\ Head(ds) = "+" /\ Tail(ds) \in Seq(DialDigits)

\* What can be composed: a number and a text, both of which fit; a text with a header comes
\* without the number, and a reply address is the header's last element.
Composed ==
  /\ IsNumber(number) /\ NumberFits(number)
  /\ kind \in KindsOfText /\ chars \in Seq(Chars[kind]) /\ Fits(Sent)
  /\ \/ header = <<>>
     \/ /\ number = <<>> /\ chars # <<>>
        /\ \/ header = <<Reply>>
           \/ \E len \in 1 .. MaxElement :
                header = <<Opaque(len)>> \/ header = <<Opaque(len), Reply>>

\* What EncodePDU makes of a number and a text, DecodePDU takes apart again: the
\* swapped digits, the fill digit and the keys * and # of the number, the septets,
\* escapes and octets of the text.
SentIsRead ==
  number # <<"+">> =>
    DecodePDU(Delivered(EncodePDU(Sent, number))) = [number |-> number, text |-> AsRead]

\* A header is skipped, whatever its length leaves for the fill bits (0 to 6), and
\* a reply address in it takes the place of the sender's.
HeaderIsSkipped ==
  header # <<>> =>
    DecodePDU(WithHeader) =
      [number |-> IF Last(header)[1] = 34 THEN ReplyNumber ELSE number, text |-> AsRead]

\* The user data announced and the octets of it agree: septets are packed without
\* a gap, seven bits each, the first in the low bits, and the rest is zero.
PackedInBits ==
  LET data == UserData(Sent)
  IN  /\ \A k \in DOMAIN data : data[k] \in Octet
      /\ IF Coding(Sent) = Gsm7bit
           THEN LET septets == encode_alphabet(Units)
                IN  Head(data) = Len(septets) /\ Tail(data) = PackBits(septets, 0)
           ELSE Head(data) = Len(Tail(data))
=============================================================================
