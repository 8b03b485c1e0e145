------------------------------ MODULE SmsCodec ------------------------------
(***************************************************************************)
(* The text message PDU (rild/sms.c with its helpers in rild/utils.c and   *)
(* the KS C 5601 converter in rild/ksc2ucs.c): what EncodePDU sends and    *)
(* what DecodePDU reads.                                                   *)
(*                                                                         *)
(* A PDU is a sequence of octets; that it travels as two hexadecimal       *)
(* digits per octet is left out.  A text is a sequence of bytes, or of     *)
(* 16-bit units for UCS2; a telephone number is a sequence of one letter   *)
(* strings.  The arrays' bounds are left out: texts and numbers are those  *)
(* that fit.  Where the code joins disjoint bits with |, they are added.   *)
(***************************************************************************)
EXTENDS Integers, Sequences, SequencesExt, FiniteSets

Gsm7bit == 0              \* the values of dcs
Ucs2 == 8
Ksc5601 == 132

TP_MTI == 1
TP_UDHI == 64
International == 16       \* TON_International << 4

Octet == 0 .. 255

ShiftR(octet, n) == octet \div 2 ^ n
HasBit(octet, b) == (octet \div b) % 2 = 1

\* A loop of the code: what n rounds of its body, a function on the values of its
\* variables, make of their first values.  A body leaves alone what ends the loop.
Rounds(body, start, n) ==
  LET after[k \in 0 .. n] == IF k = 0 THEN start ELSE body[after[k - 1]]
  IN  after[n]

-----------------------------------------------------------------------------
(* The alphabet.                                                           *)

\* 255 stands for the Greek letters, which have no byte.
alphabet_table ==
  <<64, 163, 36, 165, 232, 233, 249, 236, 242, 199, 10, 216, 248, 13, 197, 229,
    255, 95, 255, 255, 255, 255, 255, 255, 255, 255, 255, 27, 198, 230, 223, 201>>

\* Pairs of the septet that follows an escape and the byte it stands for.
extension_table ==
  {<<10, 12>>, <<60, 91>>, <<47, 92>>, <<62, 93>>, <<20, 94>>,
   <<40, 123>>, <<64, 124>>, <<41, 125>>, <<61, 126>>}

Escape == 27

\* The septets of a byte.
Septets(ch) ==
  LET e == {x \in extension_table : x[2] = ch}
      k == {x \in DOMAIN alphabet_table : alphabet_table[x] = ch}
  IN  IF e # {} THEN <<Escape, (CHOOSE x \in e : TRUE)[1]>>
      ELSE IF k # {} THEN <<(CHOOSE x \in k : \A y \in k : x <= y) - 1>>
      ELSE <<ch>>

encode_alphabet(text) == FlattenSeq([k \in DOMAIN text |-> Septets(text[k])])

Unescaped(s) ==
  LET e == {x \in extension_table : x[1] = s}
  IN  IF e # {} THEN (CHOOSE x \in e : TRUE)[2] ELSE 32

Byte(s) == IF s >= 32 THEN s
           ELSE IF alphabet_table[s + 1] = 255 THEN 32 ELSE alphabet_table[s + 1]

\* An escape at the end takes the zero behind it with it.
decode_body(septets) ==
  [a \in [text : Seq(Nat), count : Nat] |->
     LET at(c) == IF c < Len(septets) THEN septets[c + 1] ELSE 0
     IN  IF a.count >= Len(septets) THEN a
         ELSE IF at(a.count) = Escape
           THEN [text |-> Append(a.text, Unescaped(at(a.count + 1))), count |-> a.count + 2]
           ELSE [text |-> Append(a.text, Byte(at(a.count))), count |-> a.count + 1]]

decode_alphabet(septets) ==
  Rounds(decode_body(septets), [text |-> <<>>, count |-> 0], Len(septets)).text

-----------------------------------------------------------------------------
(* Seven bits in eight.                                                    *)

\* The loop over the octets: i counts the septets used, shift the bits of the
\* current one that are out already.
PackBody(raw) ==
  [a \in [out : Seq(Nat), i : Nat, shift : 0 .. 6] |->
     LET low == ShiftR(raw[a.i + 1], a.shift)
     IN  IF a.i >= Len(raw) THEN a
         ELSE IF a.i + 1 = Len(raw)
           THEN [out |-> Append(a.out, low), i |-> a.i + 1, shift |-> a.shift]
           ELSE [out |-> Append(a.out, low + ((raw[a.i + 2] * 2 ^ (7 - a.shift)) % 256)),
                 i |-> IF a.shift = 6 THEN a.i + 2 ELSE a.i + 1,
                 shift |-> (a.shift + 1) % 7]]

\* FAULT: the octet that is completed by the last septet does not count it as used.
Pack_Twice(raw) ==
  LET loop[i \in 1 .. Len(raw) + 1] ==
        IF i > Len(raw) THEN <<>> ELSE <<ShiftR(raw[i], (i - 1) % 7)>> \o loop[i + 1]
  IN  loop[1]

Pack(raw) ==
  Rounds(PackBody(raw), [out |-> <<>>, i |-> 0, shift |-> 0], Len(raw)).out

\* The loop of DecodePDU; pos is the octet the septet ends in, behind the last
\* one there is a zero.
UnpackBody(ud, n) ==
  [a \in [raw : Seq(Nat), i : Nat, pos : Nat, shift : 0 .. 6] |->
     LET at(p) == IF p < Len(ud) THEN ud[p + 1] ELSE 0
         high == IF a.pos = 0 THEN 0 ELSE ShiftR(at(a.pos - 1), 8 - a.shift)
         septet == ((at(a.pos) * 2 ^ a.shift) % 128) + high
     IN  IF a.i >= n THEN a
         ELSE IF a.shift < 6
           THEN [raw |-> Append(a.raw, septet), i |-> a.i + 1, pos |-> a.pos + 1,
                 shift |-> a.shift + 1]
           ELSE [raw |-> a.raw \o <<septet, ShiftR(at(a.pos), 1)>>, i |-> a.i + 2,
                 pos |-> a.pos + 1, shift |-> 0]]

\* Where it begins behind fill bits, which close a header.
UnpackStart(ud, fill) ==
  IF fill = 0 THEN [raw |-> <<>>, i |-> 0, pos |-> 0, shift |-> 0]
  ELSE IF fill = 1 THEN [raw |-> <<ShiftR(ud[1], 1)>>, i |-> 1, pos |-> 1, shift |-> 0]
  ELSE [raw |-> <<>>, i |-> 0, pos |-> 1, shift |-> 8 - fill]

\* FAULT: the fill bits are left in.
Unpack_IgnoresFill(ud, n, fill) ==
  SubSeq(Rounds(UnpackBody(ud, n), UnpackStart(ud, 0), n).raw, 1, n)

\* n septets.  The loop may produce one more, which DecodePDU ignores.
Unpack(ud, n, fill) ==
  SubSeq(Rounds(UnpackBody(ud, n), UnpackStart(ud, fill), n).raw, 1, n)

-----------------------------------------------------------------------------
(* Numbers.                                                                *)

Digits == <<"0", "1", "2", "3", "4", "5", "6", "7", "8", "9",
            "A", "B", "C", "D", "E", "F">>
HexDigits == {Digits[k] : k \in DOMAIN Digits}
Hex(d) == (CHOOSE k \in DOMAIN Digits : Digits[k] = d) - 1

Hex2Bcd(ds) ==
  LET even == IF Len(ds) % 2 = 1 THEN Append(ds, "F") ELSE ds
  IN  [k \in 1 .. Len(even) \div 2 |-> 16 * Hex(even[2 * k]) + Hex(even[2 * k - 1])]

Bcd2Hex(os) ==
  LET ds == FlattenSeq([k \in DOMAIN os |->
                          <<Digits[(os[k] % 16) + 1], Digits[(os[k] \div 16) + 1]>>])
  IN  IF ds # <<>> /\ Last(ds) = "F" THEN Front(ds) ELSE ds

Swap(ds, from, to) ==
  [k \in DOMAIN ds |->
     IF \E x \in DOMAIN from : from[x] = ds[k]
       THEN to[CHOOSE x \in DOMAIN from : from[x] = ds[k]] ELSE ds[k]]

Keys == <<"*", "#">>

\* The destination address: length in digits, type, and the digits.
Address(number) ==
  IF number # <<>> /\ Head(number) = "+"
    THEN <<Len(number) - 1, 145>> \o Hex2Bcd(Tail(number))
    ELSE <<Len(number), IF \E k \in DOMAIN number : number[k] \in {"*", "#"}
                          THEN 129 ELSE 161>>
         \o Hex2Bcd(Swap(number, Keys, <<"A", "B">>))

\* An address that begins at octet p: the number, and where it ends.
AddressAt(pdu, p) ==
  LET octets == (pdu[p] + 1) \div 2
      digits == Bcd2Hex(SubSeq(pdu, p + 2, p + 1 + octets))
      sign == IF HasBit(pdu[p + 1], International) THEN <<"+">> ELSE <<>>
  IN  [number |-> IF octets = 0 THEN <<>> ELSE sign \o digits, end |-> p + 2 + octets]

Dialled(digits) ==
  Swap(digits, <<"A", "B", "C", "D", "E">>, <<"*", "#", "a", "b", "c">>)

-----------------------------------------------------------------------------
(* KS C 5601.  What a pair of bytes stands for is left open: the result is *)
(* the pair itself.                                                        *)

Lead(b) == b \in 129 .. 254

GetCharBody(bs) ==
  [a \in [chars : Nat, cnt : Nat] |->
     IF a.cnt >= Len(bs) THEN a
     ELSE [chars |-> a.chars + 1, cnt |-> a.cnt + (IF Lead(bs[a.cnt + 1]) THEN 2 ELSE 1)]]

GetCharLength(bs) == Rounds(GetCharBody(bs), [chars |-> 0, cnt |-> 0], Len(bs)).chars

\* The column of a second byte in the tables of the extension, whose ranges are
\* A to Z, a to z and 0x81 up.
Column(b2, top) ==
  IF b2 \in 65 .. 90 THEN b2 - 65
  ELSE IF b2 \in 97 .. 122 THEN b2 - 71
  ELSE IF b2 \in 129 .. top THEN b2 - 77
  ELSE -1

\* The entries of the first table of the standard that stand for nothing.
Holes ==
  {<<165, 187>>, <<386, 390>>, <<401, 407>>, <<432, 439>>, <<464, 469>>, <<538, 563>>,
   <<643, 657>>, <<662, 662>>, <<664, 664>>, <<673, 673>>, <<929, 939>>,
   <<1026, 1033>>, <<1067, 1081>>}

\* The entries of the standard that stand for a character.
Standard(index) ==
  \/ index \in 0 .. 1114 /\ \A h \in Holes : index \notin h[1] .. h[2]
  \/ index \in 1410 .. 3759
  \/ index \in 3854 .. 8741

\* The pairs that have an entry in one of the tables.
Pair(b1, b2) ==
  \/ /\ b1 \in 129 .. 160 /\ Column(b2, 254) >= 0
     /\ 178 * (b1 - 129) + Column(b2, 254) < 5696
  \/ /\ b1 \in 161 .. 198 /\ b2 < 161 /\ Column(b2, 160) >= 0
     /\ 84 * (b1 - 161) + Column(b2, 160) < 3126
  \/ /\ b1 \in 161 .. 253 /\ b1 \notin {173, 174, 175, 201} /\ b2 \in 161 .. 254
     /\ Standard(94 * (b1 - 161) + (b2 - 161))

Unknown == 65533

\* What is written for a byte that begins no pair: its own value, less 0x80 if it
\* was taken for the first half of a pair of the standard.
Single(b1, b2) ==
  IF b1 < 128 THEN b1
  ELSE IF b1 \in 161 .. 254 /\ b2 \in 161 .. 254 THEN b1 - 128 ELSE Unknown

\* FAULT: the second byte of a pair is read again.
KSC5601ToUCS2_OneByte(bs) ==
  [k \in DOMAIN bs |-> IF k < Len(bs) /\ Pair(bs[k], bs[k + 1])
                         THEN <<bs[k], bs[k + 1]>> ELSE <<Single(bs[k], 0)>>]

ConvertBody(bs) ==
  [a \in [out : Seq(Seq(Nat)), len : Nat] |->
     LET at(k) == IF k < Len(bs) THEN bs[k + 1] ELSE 0
         b1 == at(a.len)
         b2 == at(a.len + 1)
     IN  IF a.len >= Len(bs) THEN a
         ELSE IF Pair(b1, b2)
           THEN [out |-> Append(a.out, <<b1, b2>>), len |-> a.len + 2]
           ELSE [out |-> Append(a.out, <<Single(b1, b2)>>), len |-> a.len + 1]]

KSC5601ToUCS2(bs) == Rounds(ConvertBody(bs), [out |-> <<>>, len |-> 0], Len(bs)).out

-----------------------------------------------------------------------------
(* EncodePDU.  A text is a record of its type and its bytes or units.      *)

Coding(text) ==
  IF text.type = "ucs2" THEN Ucs2
  ELSE IF \E k \in DOMAIN text.units : text.units[k] >= 128 THEN Ksc5601 ELSE Gsm7bit

\* The length of the user data, in septets or octets, and the data.
UserData(text) ==
  LET septets == encode_alphabet(text.units)
  IN  CASE Coding(text) = Gsm7bit -> <<Len(septets)>> \o Pack(septets)
        [] Coding(text) = Ucs2 -> <<2 * Len(text.units)>>
             \o FlattenSeq([k \in DOMAIN text.units |->
                              <<text.units[k] \div 256, text.units[k] % 256>>])
        [] OTHER -> <<Len(text.units)>> \o text.units

EncodePDU(text, number) ==
  <<0, TP_MTI, 255>> \o Address(number) \o <<0, Coding(text)>> \o UserData(text)

\* The return value, the length that goes with AT+CMGS: without the address of
\* the service center.
EncodedLength(pdu) == Len(pdu) - 1

-----------------------------------------------------------------------------
(* DecodePDU.                                                              *)

\* An element of the header: 0x22 holds an address to reply to.
Element(pdu, a) ==
  LET len == pdu[a.p + 1]
      reply == AddressAt(pdu, a.p + 2)
  IN  [p |-> IF pdu[a.p] = 34 THEN reply.end ELSE a.p + 2 + len,
       walked |-> a.walked + 2 + len,
       number |-> IF pdu[a.p] = 34 /\ pdu[a.p + 2] > 0 THEN reply.number ELSE a.number]

ElementsBody(pdu, size) ==
  [a \in [p : Nat, walked : Nat, number : Seq(HexDigits \cup {"+"})] |->
     IF a.walked = size THEN a ELSE Element(pdu, a)]

\* The walk over the elements of a header of size octets from octet p: the first is
\* read in any case, and each has at least two octets.
Elements(pdu, p, size, number) ==
  Rounds(ElementsBody(pdu, size),
         Element(pdu, [p |-> p, walked |-> 0, number |-> number]), size)

Ascii(units) == [type |-> "ascii", units |-> units]
Wide(units) == [type |-> "ucs2", units |-> units]

\* The text in the user data: n is its length as received, header the octets of
\* its header.
Text(dcs, n, header, ud) ==
  LET bits == 7 * n - 8 * header
      fill == IF header = 0 THEN 0 ELSE bits % 7
  IN  IF dcs = Gsm7bit THEN Ascii(decode_alphabet(Unpack(ud, bits \div 7, fill)))
      ELSE IF dcs = Ucs2
        THEN Wide([k \in 1 .. Len(ud) \div 2 |-> 256 * ud[2 * k - 1] + ud[2 * k]])
      ELSE IF dcs = Ksc5601 \/ \E k \in DOMAIN ud : ud[k] > 128
        THEN LET converted == KSC5601ToUCS2(ud)
                 chars == GetCharLength(ud)
             IN  Wide(SubSeq(converted, 1,
                             IF chars < Len(converted) THEN chars ELSE Len(converted)))
        ELSE Ascii(ud)

NoText7 == [number |-> <<>>, text |-> Ascii(<<>>)]

\* A message whose protocol identifier is not zero is given up.
DecodePDU(pdu) ==
  LET first == 2 + pdu[1]
      origin == AddressAt(pdu, first + 1)
      q == origin.end
      size == pdu[q + 10]
      header == HasBit(pdu[first], TP_UDHI)
      walk == IF header THEN Elements(pdu, q + 11, size, origin.number)
                        ELSE [number |-> origin.number, p |-> q + 10]
  IN  IF pdu[q] # 0 THEN NoText7
      ELSE [number |-> Dialled(walk.number),
            text |-> Text(pdu[q + 1], pdu[q + 9], IF header THEN size + 1 ELSE 0,
                          SubSeq(pdu, walk.p, Len(pdu)))]
=============================================================================
