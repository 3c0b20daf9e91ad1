--------------------------------- MODULE Crc ---------------------------------
(***************************************************************************)
(* The CRC of a Modbus RTU frame: calcCRC() with its two tables,           *)
(* appendCRC() on the sending side and validateCRC() on the receiving one, *)
(* which runs over a vector of the size expected, zero wherever fewer      *)
(* bytes arrived.                                                          *)
(*                                                                         *)
(* A byte is the set of its bits that are 1, so that xor is the symmetric  *)
(* difference; Value and Bits convert.  Beside the table-driven register   *)
(* runs the shift register of the polynomial that defines the CRC.         *)
(***************************************************************************)
EXTENDS Integers, Sequences

CONSTANTS
  Payloads,    \* what is sent: sequences of bytes
  Masks,       \* bits the line may flip in a byte
  MaxPad       \* bound: how many more bytes than arrive are expected

Byte == SUBSET (0 .. 7)

ASSUME CrcConstants ==
  /\ Payloads \subseteq Seq(Byte) /\ Masks \subseteq Byte
  /\ MaxPad \in Nat

Xor(a, b) == (a \ b) \union (b \ a)
Weight == <<1, 2, 4, 8, 16, 32, 64, 128>>
Bits(n) == {k \in 0 .. 7 : (n \div Weight[k + 1]) % 2 = 1}
Bit(b, k) == IF k \in b THEN Weight[k + 1] ELSE 0
Value(b) == Bit(b, 0) + Bit(b, 1) + Bit(b, 2) + Bit(b, 3)
            + Bit(b, 4) + Bit(b, 5) + Bit(b, 6) + Bit(b, 7)

hCRC16_ ==
  << 0, 193, 129, 64, 1, 192, 128, 65, 1, 192, 128, 65, 0, 193, 129, 64, 1,
     192, 128, 65, 0, 193, 129, 64, 0, 193, 129, 64, 1, 192, 128, 65, 1, 192,
     128, 65, 0, 193, 129, 64, 0, 193, 129, 64, 1, 192, 128, 65, 0, 193, 129,
     64, 1, 192, 128, 65, 1, 192, 128, 65, 0, 193, 129, 64, 1, 192, 128, 65,
     0, 193, 129, 64, 0, 193, 129, 64, 1, 192, 128, 65, 0, 193, 129, 64, 1,
     192, 128, 65, 1, 192, 128, 65, 0, 193, 129, 64, 0, 193, 129, 64, 1, 192,
     128, 65, 1, 192, 128, 65, 0, 193, 129, 64, 1, 192, 128, 65, 0, 193, 129,
     64, 0, 193, 129, 64, 1, 192, 128, 65, 1, 192, 128, 65, 0, 193, 129, 64,
     0, 193, 129, 64, 1, 192, 128, 65, 0, 193, 129, 64, 1, 192, 128, 65, 1,
     192, 128, 65, 0, 193, 129, 64, 0, 193, 129, 64, 1, 192, 128, 65, 1, 192,
     128, 65, 0, 193, 129, 64, 1, 192, 128, 65, 0, 193, 129, 64, 0, 193, 129,
     64, 1, 192, 128, 65, 0, 193, 129, 64, 1, 192, 128, 65, 1, 192, 128, 65,
     0, 193, 129, 64, 1, 192, 128, 65, 0, 193, 129, 64, 0, 193, 129, 64, 1,
     192, 128, 65, 1, 192, 128, 65, 0, 193, 129, 64, 0, 193, 129, 64, 1, 192,
     128, 65, 0, 193, 129, 64, 1, 192, 128, 65, 1, 192, 128, 65, 0, 193, 129,
     64 >>

lCRC16_ ==
  << 0, 192, 193, 1, 195, 3, 2, 194, 198, 6, 7, 199, 5, 197, 196, 4, 204, 12,
     13, 205, 15, 207, 206, 14, 10, 202, 203, 11, 201, 9, 8, 200, 216, 24, 25,
     217, 27, 219, 218, 26, 30, 222, 223, 31, 221, 29, 28, 220, 20, 212, 213,
     21, 215, 23, 22, 214, 210, 18, 19, 211, 17, 209, 208, 16, 240, 48, 49,
     241, 51, 243, 242, 50, 54, 246, 247, 55, 245, 53, 52, 244, 60, 252, 253,
     61, 255, 63, 62, 254, 250, 58, 59, 251, 57, 249, 248, 56, 40, 232, 233,
     41, 235, 43, 42, 234, 238, 46, 47, 239, 45, 237, 236, 44, 228, 36, 37,
     229, 39, 231, 230, 38, 34, 226, 227, 35, 225, 33, 32, 224, 160, 96, 97,
     161, 99, 163, 162, 98, 102, 166, 167, 103, 165, 101, 100, 164, 108, 172,
     173, 109, 175, 111, 110, 174, 170, 106, 107, 171, 105, 169, 168, 104,
     120, 184, 185, 121, 187, 123, 122, 186, 190, 126, 127, 191, 125, 189,
     188, 124, 180, 116, 117, 181, 119, 183, 182, 118, 114, 178, 179, 115,
     177, 113, 112, 176, 80, 144, 145, 81, 147, 83, 82, 146, 150, 86, 87, 151,
     85, 149, 148, 84, 156, 92, 93, 157, 95, 159, 158, 94, 90, 154, 155, 91,
     153, 89, 88, 152, 136, 72, 73, 137, 75, 139, 138, 74, 78, 142, 143, 79,
     141, 77, 76, 140, 68, 132, 133, 69, 135, 71, 70, 134, 130, 66, 67, 131,
     65, 129, 128, 64 >>

HighTable == [b \in Byte |-> Bits(hCRC16_[Value(b) + 1])]
LowTable == [b \in Byte |-> Bits(lCRC16_[Value(b) + 1])]

Zero == {}
Register == [low : Byte, high : Byte]
Preset == [low |-> 0 .. 7, high |-> 0 .. 7]

\* Mutant: the tables are exchanged.
FeedExchanged(c, byte) ==
  LET i == Xor(c.low, byte)
  IN  [low |-> Xor(c.high, LowTable[i]), high |-> HighTable[i]]

\* One turn of calcCRC()'s loop.
Feed(c, byte) ==
  LET i == Xor(c.low, byte)
  IN  [low |-> Xor(c.high, HighTable[i]), high |-> LowTable[i]]

\* The reference: the byte enters the low half of a 16-bit register, which is
\* shifted right eight times, less the polynomial 0xA001 for each 1 shifted out.
Word16(c) == c.low \union {k + 8 : k \in c.high}
Halves(w) == [low |-> {k \in 0 .. 7 : k \in w}, high |-> {k \in 0 .. 7 : k + 8 \in w}]
Shift(w) == LET s == {k \in 0 .. 14 : k + 1 \in w}
            IN  IF 0 \in w THEN Xor(s, {0, 13, 15}) ELSE s
Polynomial(c, byte) ==
  Halves(Shift(Shift(Shift(Shift(Shift(Shift(Shift(Shift(Xor(Word16(c), byte))))))))))

VARIABLES
  stage,     \* append (calcCRC() by the sender), line, check (calcCRC() by
             \* the receiver), done
  data,      \* what the sender's loop runs over
  sent,      \* the frame: data and its CRC
  rep,       \* the receiver's vector
  at,        \* the bytes the loop in progress has consumed
  crc,       \* its register
  byPoly,    \* history: the same register, computed by the polynomial
  trace,     \* history: the registers of the sender's loop
  accepted   \* validateCRC()'s verdict

vars == <<stage, data, sent, rep, at, crc, byPoly, trace, accepted>>

TypeOK ==
  /\ stage \in {"append", "line", "check", "done"}
  /\ data \in Seq(Byte) /\ sent \in Seq(Byte) /\ rep \in Seq(Byte)
  /\ at \in Nat /\ crc \in Register /\ byPoly \in Register
  /\ trace \in Seq(Register) /\ accepted \in BOOLEAN
  /\ stage = "check" /\ at > 0 => at + 2 <= Len(rep)    \* no read beyond the vector

Init ==
  /\ stage = "append" /\ data \in Payloads
  /\ sent = <<>> /\ rep = <<>> /\ at = 0
  /\ crc = Preset /\ byPoly = Preset /\ trace = <<Preset>>
  /\ accepted = FALSE

\* while(begin != end) of calcCRC(), in appendCRC()
SendByte ==
  /\ stage = "append" /\ at < Len(data)
  /\ at' = at + 1 /\ crc' = Feed(crc, data[at + 1])
  /\ byPoly' = Polynomial(byPoly, data[at + 1])
  /\ trace' = Append(trace, crc')
  /\ UNCHANGED <<stage, data, sent, rep, accepted>>

\* Mutant: the high byte goes first.
AppendCRCHighFirst ==
  /\ stage = "append" /\ at = Len(data)
  /\ stage' = "line" /\ sent' = data \o <<crc.high, crc.low>>
  /\ UNCHANGED <<data, rep, at, crc, byPoly, trace, accepted>>

AppendCRC ==
  /\ stage = "append" /\ at = Len(data)
  /\ stage' = "line" /\ sent' = data \o <<crc.low, crc.high>>
  /\ UNCHANGED <<data, rep, at, crc, byPoly, trace, accepted>>

\* rep(repSize, 0), filled with what arrives of the frame: all of it, with bits
\* of one byte flipped or not, or its beginning.
Receive ==
  /\ stage = "line"
  /\ \E size \in 1 .. Len(sent) + MaxPad, keep \in 1 .. Len(sent),
        hit \in 1 .. Len(sent), mask \in Masks \union {Zero} :
       /\ keep <= size /\ hit <= keep
       /\ IF mask = Zero THEN hit = 1 ELSE keep = Len(sent)
       /\ rep' = [i \in 1 .. size |-> IF i > keep THEN Zero
                                      ELSE IF i = hit THEN Xor(sent[i], mask)
                                      ELSE sent[i]]
  /\ stage' = "check" /\ at' = 0 /\ crc' = Preset /\ byPoly' = Preset
  /\ UNCHANGED <<data, sent, trace, accepted>>

\* Mutant: the loop runs over the CRC too.
CheckByteAll ==
  /\ stage = "check" /\ at < Len(rep)
  /\ at' = at + 1 /\ crc' = Feed(crc, rep[at + 1])
  /\ byPoly' = Polynomial(byPoly, rep[at + 1])
  /\ UNCHANGED <<stage, data, sent, rep, trace, accepted>>

\* while(begin != end) of calcCRC(), in validateCRC(): all but two bytes of rep
CheckByte ==
  /\ stage = "check" /\ at < Len(rep) - 2
  /\ at' = at + 1 /\ crc' = Feed(crc, rep[at + 1])
  /\ byPoly' = Polynomial(byPoly, rep[at + 1])
  /\ UNCHANGED <<stage, data, sent, rep, trace, accepted>>

\* ENSURE(2u < seq.size(), CRCError)
TooShort ==
  /\ stage = "check" /\ Len(rep) <= 2
  /\ stage' = "done" /\ accepted' = FALSE
  /\ UNCHANGED <<data, sent, rep, at, crc, byPoly, trace>>

Verdict(ok) ==
  /\ stage = "check" /\ Len(rep) > 2 /\ at = Len(rep) - 2
  /\ stage' = "done" /\ accepted' = ok
  /\ UNCHANGED <<data, sent, rep, at, crc, byPoly, trace>>

\* Mutant: the high byte alone is compared.
ValidateHalf == Verdict(rep[Len(rep)] = crc.high)

\* recvValue.value == calcValue.value
ValidateCRC == Verdict(rep[Len(rep)] = crc.high /\ rep[Len(rep) - 1] = crc.low)

Next == SendByte \/ AppendCRC \/ Receive \/ CheckByte \/ TooShort \/ ValidateCRC

Spec == Init /\ [][Next]_vars

-----------------------------------------------------------------------------
(* Properties.                                                             *)

Expected(i) == IF i <= Len(sent) THEN sent[i] ELSE Zero
Wrong == {i \in 1 .. Len(rep) : rep[i] # Expected(i)}

\* A frame that arrives whole and unharmed is accepted, also when more bytes
\* were expected and zeros follow it.  (validateCRC() takes the last two bytes of
\* the vector for the CRC and does not know how many arrived.)
PaddedFrameAccepted ==
  stage = "done" /\ Len(data) > 0 /\ Len(rep) >= Len(sent) /\ Wrong = {} => accepted

\* A vector that differs from that in one byte, or in two neighbours, is not:
\* bits flipped on the line, or the frame's last bytes missing.
DamageDetected ==
  stage = "done" /\ Len(rep) >= Len(sent) /\ Wrong # {}
    /\ (\A i, j \in Wrong : i - j <= 1)
    => ~accepted

\* The tables are the polynomial's: both registers agree at every byte.
TablesAgree == crc = byPoly
=============================================================================
