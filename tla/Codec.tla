------------------------------- MODULE Codec -------------------------------
(***************************************************************************)
(* The packets of the four terminal protocols as sequences of bytes:       *)
(* internal/protocols/{pocket,gat,sphinx,jsp}/protocol.go and the helpers  *)
(* of pkg/utils/utils.go they use.                                         *)
(*                                                                         *)
(* Lengths, markers and checksums are computed as the code computes them,  *)
(* because they decide where a packet ends.  What is inside a packet is    *)
(* cut down to what the handlers tell apart: a uid is one byte, a locker   *)
(* is its cabinet's low byte, a word of a SPHINX line and a field of a     *)
(* JSON text are one byte each.                                            *)
(***************************************************************************)
EXTENDS Naturals, Sequences, SequencesExt

Byte == 0 .. 255
Nothing == [kind |-> "nothing"]
Panic == [kind |-> "panic"]  \* an index out of range, which nothing recovers from

Bit(b, i) == (b \div 2 ^ i) % 2

XorOfNibbles ==
  LET digit(a, b, i) == 2 ^ i * ((Bit(a, i) + Bit(b, i)) % 2)
  IN [a \in 0 .. 15 |-> [b \in 0 .. 15 |->
        digit(a, b, 0) + digit(a, b, 1) + digit(a, b, 2) + digit(a, b, 3)]]

Xor(a, b) == 16 * XorOfNibbles[a \div 16][b \div 16] + XorOfNibbles[a % 16][b % 16]

-----------------------------------------------------------------------------
(* pkg/utils *)

\* The eight shifts of CRC8's inner loop, polynomial 0x31.
CrcOfByte ==
  [b \in Byte |->
     LET shifted[i \in 0 .. 8] ==
           IF i = 0 THEN b
           ELSE LET c == shifted[i - 1]
                IN IF c >= 128 THEN Xor((2 * c) % 256, 49) ELSE 2 * c
     IN shifted[8]]

CRC8(data) ==
  LET crc[i \in 0 .. Len(data)] ==
        IF i = 0 THEN 0 ELSE CrcOfByte[Xor(crc[i - 1], data[i])]
  IN crc[Len(data)]

\* Facts of this arithmetic, none of them about a parameter: TLC goes through
\* all bytes.  Xor undoes itself, and every byte is the eight shifts of one.
ASSUME ChecksumsCanBeMade ==
  /\ \A a, b \in Byte : /\ Xor(a, b) \in Byte /\ Xor(a, b) = Xor(b, a)
                       /\ Xor(Xor(a, b), b) = a
  /\ \A t \in Byte : \E b \in Byte : CrcOfByte[b] = t
  /\ \A b \in Byte : CrcOfByte[b] \in Byte

DecodeUint16(lo, hi) == lo + 256 * hi

-----------------------------------------------------------------------------
(* POCKET: marker, flags, command, length (2), checksum (2), payload *)

PocketMarker == 42
RelayControlEx == 21

PocketHeader(cmd, flags, payload) ==
  <<PocketMarker, flags, cmd, Len(payload) % 256, (Len(payload) \div 256) % 256>>

\* The checksum EncodePacket writes is over header and payload; its high byte
\* is the byte crc shifted right by eight.
PocketEncode(cmd, flags, payload) ==
  LET header == PocketHeader(cmd, flags, payload)
  IN header \o <<CRC8(header \o payload), 0>> \o payload

\* The checksum DecodePacket verifies is over the whole packet, the two
\* checksum bytes included.  A RelayControlEx of at least 5 bytes is read up to
\* its sixth, the length of a uid; nobody asks for its fields.
PocketDecode(data) ==
  IF \/ Len(data) < 8
     \/ data[1] # PocketMarker
     \/ Len(data) < 7 + DecodeUint16(data[4], data[5])
  THEN Nothing
  ELSE LET size == 7 + DecodeUint16(data[4], data[5])
       IN IF CRC8(SubSeq(data, 1, size)) # data[6] THEN Nothing
          ELSE IF data[3] = RelayControlEx /\ size - 7 = 5 THEN Panic
          ELSE [kind |-> "packet", cmd |-> data[3], payload |-> SubSeq(data, 8, size)]

\* What a ReadTag carries: type and flags of the reader, length of the uid, uid.
\* One byte more than that is demanded of the payload.
PocketTag(payload) ==
  IF Len(payload) < 4 \/ Len(payload) < 4 + payload[3] \/ payload[3] = 0 THEN Nothing
  ELSE [kind |-> "tag", uid |-> payload[4], auth |-> TRUE]

\* A ReadTagExtended: length of the uid, uid, result of the finger sensor (2),
\* four bytes per locker.  The tag is authenticated when the first locker's
\* byte of errors is zero.
PocketTagExtended(payload) ==
  IF Len(payload) < 5 \/ 1 + payload[1] > Len(payload) \/ payload[1] = 0 THEN Nothing
  ELSE LET uidEnd == 1 + payload[1]
           first == IF uidEnd + 2 <= Len(payload) THEN uidEnd + 3 ELSE uidEnd + 1
           count == (Len(payload) + 1 - first) \div 4
       IN [kind |-> "tag", uid |-> payload[2],
           auth |-> count > 0 /\ payload[first] = 0,
           lockers |-> [n \in 1 .. count |-> payload[first + 4 * (n - 1) + 2]]]

\* An InputChanged: the lowest bit of the inputs says whether someone passed.
PocketInput(payload) ==
  IF Len(payload) < 2 THEN Nothing
  ELSE [kind |-> "pass", passed |-> payload[1] % 2 = 1]

-----------------------------------------------------------------------------
(* GAT: length, address, command, status when bit 4 of the command is set,  *)
(* data, checksum                                                           *)

LRC(data) == FoldLeft(Xor, 0, data)

GatCardIdent == 128
GatReqMaster == 229

HasStatus(cmd) == Bit(cmd, 4) = 1

\* The length EncodePacket writes counts itself and not the checksum.
GatEncode(cmd, address, status, data) ==
  LET body == <<address, cmd>> \o (IF HasStatus(cmd) THEN <<status>> ELSE <<>>) \o data
      packet == <<Len(body) + 1>> \o body
  IN Append(packet, LRC(packet))

\* The length DecodePacket reads counts the checksum, and a byte is demanded
\* beyond it.
GatDecode(data) ==
  IF Len(data) < 4 \/ data[1] < 3 \/ Len(data) < data[1] + 1 THEN Nothing
  ELSE LET cmd == data[3]
           first == IF HasStatus(cmd) THEN 5 ELSE 4
           last == IF data[1] - 1 >= first THEN data[1] - 1 ELSE first - 1
       IN IF Len(data) <= last \/ LRC(SubSeq(data, 1, last)) # data[last + 1] THEN Nothing
          ELSE [kind |-> "packet", cmd |-> cmd, payload |-> SubSeq(data, first, last)]

\* A CARD_IDENT: types of terminal and reader, validity, uid padded with zeros.
GatTag(payload) ==
  IF Len(payload) < 12 THEN Nothing
  ELSE [kind |-> "tag", uid |-> payload[4], auth |-> TRUE]

-----------------------------------------------------------------------------
(* SPHINX: words and a line end *)

CR == 13
LF == 10
SphinxCommand == [ok |-> 79, start |-> 83, request |-> 82, ping |-> 80]

SphinxEncode(word, params) == <<word>> \o params \o <<CR, LF>>

\* A line whose first word, after any white space, is a command.  Nobody asks
\* for the other words.
SphinxDecode(line) ==
  LET words == {i \in DOMAIN line : line[i] \notin {CR, LF}}
      cmd == line[Min(words)]
  IN IF words = {} \/ cmd \notin {SphinxCommand[c] : c \in DOMAIN SphinxCommand}
     THEN Nothing
     ELSE [kind |-> "packet", cmd |-> cmd]

-----------------------------------------------------------------------------
(* JSP: start, length as four hexadecimal digits, JSON text, end *)

JspStart == 3
JspEnd == 2
JspCommand == [tag_read |-> 116, pass_report |-> 112, pong |-> 111, answer |-> 97]

HexDigit(n) == IF n < 10 THEN 48 + n ELSE 55 + n

HexValue ==
  [d \in (48 .. 57) \cup (65 .. 70) \cup (97 .. 102) |->
     IF d < 65 THEN d - 48 ELSE IF d < 97 THEN d - 55 ELSE d - 87]

JspEncode(text) ==
  LET n == Len(text)
  IN <<JspStart, HexDigit(n \div 4096), HexDigit((n \div 256) % 16),
       HexDigit((n \div 16) % 16), HexDigit(n % 16)>> \o text \o <<JspEnd>>

\* The blanks that DecodeHex trims no terminal sends in a length.
IsHex(digits) == \A i \in DOMAIN digits : digits[i] \in DOMAIN HexValue

DecodeHex(digits) ==
  4096 * HexValue[digits[1]] + 256 * HexValue[digits[2]] + 16 * HexValue[digits[3]]
    + HexValue[digits[4]]

\* A JSON text is the command and its one field; nothing else unmarshals.
JspDecode(text) ==
  IF Len(text) # 2 THEN Nothing
  ELSE [kind |-> "packet", cmd |-> text[1], payload |-> Tail(text)]
=============================================================================
