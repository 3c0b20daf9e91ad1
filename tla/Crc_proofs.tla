----------------------------- MODULE Crc_proofs -----------------------------
(***************************************************************************)
(* A frame that arrives whole is accepted, whatever it carries and however *)
(* many bytes more were expected: the receiver's register runs through the *)
(* sender's, and the CRC and every zero behind it clear it.  A frame with  *)
(* a wrong byte, or two neighbours, is not: no two rows of lCRC16_ are the *)
(* same, so that a register which has left the sender's never returns.     *)
(* And the tables are those of the polynomial.                             *)
(***************************************************************************)
EXTENDS Crc, SequenceTheorems, TLAPS

-----------------------------------------------------------------------------
(* The register and the tables.                                            *)

LEMMA BitsType == ASSUME NEW n \in Int PROVE Bits(n) \in Byte
BY SMT DEF Bits, Byte

LEMMA XorType == ASSUME NEW a \in Byte, NEW b \in Byte PROVE Xor(a, b) \in Byte
BY DEF Xor, Byte

LEMMA XorMember ==
  ASSUME NEW a, NEW b
  PROVE  \A k : k \in Xor(a, b) <=> (k \in a) # (k \in b)
BY DEF Xor

LEMMA ZeroType == Zero \in Byte
BY DEF Zero, Byte

LEMMA TablesType ==
  ASSUME NEW b \in Byte
  PROVE  HighTable[b] \in Byte /\ LowTable[b] \in Byte
BY SMT DEF HighTable, LowTable, Byte, Bits

\* Both tables map zero to zero.
LEMMA TablesAtZero == HighTable[Zero] = Zero /\ LowTable[Zero] = Zero
<1>1. hCRC16_[1] = 0 /\ lCRC16_[1] = 0
  BY SMT DEF hCRC16_, lCRC16_
<1>2. Value(Zero) + 1 = 1
  BY SMT DEF Value, Bit, Zero
<1>3. Bits(0) = Zero
  BY SMT DEF Bits, Weight, Zero
<1> QED
  BY <1>1, <1>2, <1>3, ZeroType DEF HighTable, LowTable

LEMMA FeedType ==
  ASSUME NEW c \in Register, NEW b \in Byte
  PROVE  Feed(c, b) \in Register
<1>1. Xor(c.low, b) \in Byte /\ c.high \in Byte
  BY XorType DEF Register
<1>2. /\ LowTable[Xor(c.low, b)] \in Byte
      /\ Xor(c.high, HighTable[Xor(c.low, b)]) \in Byte
  BY <1>1, XorType, TablesType
<1> QED
  BY <1>2 DEF Feed, Register

LEMMA PolynomialType == \A c, b : Polynomial(c, b) \in Register
BY DEF Polynomial, Halves, Register, Byte

LEMMA PresetType == Preset \in Register
BY DEF Preset, Register, Byte

\* Fed with its own low byte, a register hands its high byte down.
LEMMA FeedOwnLow ==
  ASSUME NEW c \in Register
  PROVE  Feed(c, c.low) = [low |-> c.high, high |-> Zero]
<1>1. Xor(c.low, c.low) = Zero /\ Xor(c.high, Zero) = c.high
  BY DEF Xor, Zero
<1> QED
  BY <1>1, TablesAtZero DEF Feed

-----------------------------------------------------------------------------
(* What the tables hold.  Row b of hCRC16_ and lCRC16_ is the two halves   *)
(* of what eight shifts leave of a register whose low byte is b: a bit of  *)
(* them is a bit of b, the xor of two neighbours or the parity of b.       *)

Differ(b, j, k) == (j \in b) # (k \in b)
Odd(b) == (Differ(b, 0, 1) # Differ(b, 2, 3)) # (Differ(b, 4, 5) # Differ(b, 6, 7))

HighImage(b) == {k \in {0, 6, 7} : \/ k = 0 /\ Odd(b)
                                   \/ k = 6 /\ 0 \in b
                                   \/ k = 7 /\ Differ(b, 0, 1)}
LowImage(b) == {k \in 0 .. 7 : \/ k <= 5 /\ Differ(b, k + 1, k + 2)
                               \/ k = 6 /\ (7 \in b) # Odd(b)
                               \/ k = 7 /\ Odd(b)}

LEMMA HighImageBits ==
  ASSUME NEW b
  PROVE  /\ (0 \in HighImage(b)) = Odd(b)
         /\ \A k \in 1 .. 5 : k \notin HighImage(b)
         /\ (6 \in HighImage(b)) = (0 \in b)
         /\ (7 \in HighImage(b)) = Differ(b, 0, 1)
         /\ HighImage(b) \in Byte
BY SMT DEF HighImage, Differ, Odd, Byte

LEMMA LowImageBits ==
  ASSUME NEW b
  PROVE  /\ (0 \in LowImage(b)) = Differ(b, 1, 2) /\ (1 \in LowImage(b)) = Differ(b, 2, 3)
         /\ (2 \in LowImage(b)) = Differ(b, 3, 4) /\ (3 \in LowImage(b)) = Differ(b, 4, 5)
         /\ (4 \in LowImage(b)) = Differ(b, 5, 6) /\ (5 \in LowImage(b)) = Differ(b, 6, 7)
         /\ (6 \in LowImage(b)) = ((7 \in b) # Odd(b)) /\ (7 \in LowImage(b)) = Odd(b)
         /\ LowImage(b) \in Byte
BY SMT DEF LowImage, Differ, Odd, Byte

\* Two bytes are equal if they agree bit by bit.
LEMMA SameBits ==
  ASSUME NEW b \in Byte, NEW d \in Byte,
         (0 \in b) = (0 \in d), (1 \in b) = (1 \in d), (2 \in b) = (2 \in d),
         (3 \in b) = (3 \in d), (4 \in b) = (4 \in d), (5 \in b) = (5 \in d),
         (6 \in b) = (6 \in d), (7 \in b) = (7 \in d)
  PROVE  b = d
<1>1. \A k \in 0 .. 7 : k \in b <=> k \in d
  BY SMT
<1> QED
  BY <1>1 DEF Byte

\* Value() and Bits() convert there and back.
LEMMA BitOfValue ==
  ASSUME NEW b \in Byte
  PROVE  \A k \in 0 .. 7 : (Value(b) \div Weight[k + 1]) % 2 = 1 <=> k \in b
<1> DEFINE x(k) == IF k \in b THEN 1 ELSE 0
<1>1. Value(b) = x(0) + 2 * x(1) + 4 * x(2) + 8 * x(3) + 16 * x(4) + 32 * x(5) + 64 * x(6) + 128 * x(7)
  BY SMT DEF Value, Bit, Weight
<1>2. /\ Weight[1] = 1 /\ Weight[2] = 2 /\ Weight[3] = 4 /\ Weight[4] = 8 /\ Weight[5] = 16
      /\ Weight[6] = 32 /\ Weight[7] = 64 /\ Weight[8] = 128
  BY SMT DEF Weight
<1>3. \A k \in 0 .. 7 : x(k) \in 0 .. 1 /\ (x(k) = 1 <=> k \in b)
  OBVIOUS
<1> HIDE DEF x
<1>4. /\ (Value(b) \div 1) % 2 = x(0) /\ (Value(b) \div 2) % 2 = x(1)
      /\ (Value(b) \div 4) % 2 = x(2) /\ (Value(b) \div 8) % 2 = x(3)
      /\ (Value(b) \div 16) % 2 = x(4) /\ (Value(b) \div 32) % 2 = x(5)
      /\ (Value(b) \div 64) % 2 = x(6) /\ (Value(b) \div 128) % 2 = x(7)
  BY <1>1, <1>3, SMTT(30)
<1> QED
  BY <1>2, <1>3, <1>4, SMTT(30)

LEMMA BitsOfValue ==
  ASSUME NEW b \in Byte
  PROVE  Bits(Value(b)) = b
<1>1. Bits(Value(b)) = {k \in 0 .. 7 : k \in b}
  BY BitOfValue DEF Bits
<1> QED
  BY <1>1 DEF Byte

\* The 256 entries of each table, as numbers.
LEMMA HighEntries ==
  ASSUME NEW b \in Byte
  PROVE  hCRC16_[Value(b) + 1] = Value(HighImage(b))
BY SMTT(60) DEF hCRC16_, Value, Bit, Weight, HighImage, Odd, Differ

LEMMA LowEntries ==
  ASSUME NEW b \in Byte
  PROVE  lCRC16_[Value(b) + 1] = Value(LowImage(b))
BY SMTT(60) DEF lCRC16_, Value, Bit, Weight, LowImage, Odd, Differ

LEMMA TableImages ==
  ASSUME NEW b \in Byte
  PROVE  HighTable[b] = HighImage(b) /\ LowTable[b] = LowImage(b)
BY HighEntries, LowEntries, HighImageBits, LowImageBits, BitsOfValue DEF HighTable, LowTable

\* No two rows of lCRC16_ are the same.
LEMMA LowImageInjective ==
  ASSUME NEW b \in Byte, NEW d \in Byte, LowImage(b) = LowImage(d)
  PROVE  b = d
<1>2. /\ Odd(b) = Odd(d) /\ (7 \in b) = (7 \in d)
      /\ Differ(b, 1, 2) = Differ(d, 1, 2) /\ Differ(b, 2, 3) = Differ(d, 2, 3)
      /\ Differ(b, 3, 4) = Differ(d, 3, 4) /\ Differ(b, 4, 5) = Differ(d, 4, 5)
      /\ Differ(b, 5, 6) = Differ(d, 5, 6) /\ Differ(b, 6, 7) = Differ(d, 6, 7)
  BY LowImageBits, SMT DEF Odd, Differ
<1>3. /\ (0 \in b) = (0 \in d) /\ (1 \in b) = (1 \in d) /\ (2 \in b) = (2 \in d)
      /\ (3 \in b) = (3 \in d) /\ (4 \in b) = (4 \in d) /\ (5 \in b) = (5 \in d)
      /\ (6 \in b) = (6 \in d)
  BY <1>2, SMT DEF Odd, Differ
<1> QED
  BY <1>2, <1>3, SameBits

-----------------------------------------------------------------------------
(* A turn of calcCRC()'s loop is eight turns of the shift register.        *)

LEMMA ShiftMember ==
  ASSUME NEW w
  PROVE  \A k : k \in Shift(w) <=> (k \in 0 .. 14 /\ k + 1 \in w) # (k \in {0, 13, 15} /\ 0 \in w)
<1> DEFINE s == {k \in 0 .. 14 : k + 1 \in w}
           t == {0, 13, 15}
<1>1. \A k : k \in s <=> k \in 0 .. 14 /\ k + 1 \in w
  OBVIOUS
<1>2. CASE 0 \in w
  <2>1. Shift(w) = Xor(s, t)
    BY <1>2 DEF Shift
  <2> HIDE DEF s, t
  <2>2. \A k : k \in Shift(w) <=> (k \in s) # (k \in t)
    BY <2>1, XorMember
  <2> QED
    BY <1>1, <1>2, <2>2, SMT DEF t
<1>3. CASE 0 \notin w
  <2>1. Shift(w) = s
    BY <1>3 DEF Shift
  <2> HIDE DEF s
  <2> QED
    BY <1>1, <1>3, <2>1, Zenon
<1> QED
  BY <1>2, <1>3

LEMMA ShiftBits ==
  ASSUME NEW w \in SUBSET (0 .. 15)
  PROVE  /\ Shift(w) \in SUBSET (0 .. 15)
         /\ (0 \in Shift(w)) = Differ(w, 0, 1) /\ (1 \in Shift(w)) = (2 \in w)
         /\ (2 \in Shift(w)) = (3 \in w) /\ (3 \in Shift(w)) = (4 \in w)
         /\ (4 \in Shift(w)) = (5 \in w) /\ (5 \in Shift(w)) = (6 \in w)
         /\ (6 \in Shift(w)) = (7 \in w) /\ (7 \in Shift(w)) = (8 \in w)
         /\ (8 \in Shift(w)) = (9 \in w) /\ (9 \in Shift(w)) = (10 \in w)
         /\ (10 \in Shift(w)) = (11 \in w) /\ (11 \in Shift(w)) = (12 \in w)
         /\ (12 \in Shift(w)) = (13 \in w) /\ (13 \in Shift(w)) = Differ(w, 0, 14)
         /\ (14 \in Shift(w)) = (15 \in w) /\ (15 \in Shift(w)) = (0 \in w)
<1> DEFINE v == Shift(w)
<1>1. \A k \in 0 .. 15 :
        k \in v <=> (k \in 0 .. 14 /\ k + 1 \in w) # (k \in {0, 13, 15} /\ 0 \in w)
  BY ShiftMember, Zenon
<1>2. \A k : k \in v => k \in 0 .. 14 \/ k \in {0, 13, 15}
  BY ShiftMember, Zenon
<1> HIDE DEF v
<1>3. v \in SUBSET (0 .. 15)
  BY <1>2, SMT
<1> QED
  BY <1>1, <1>3, SMT DEF Differ, v

LEMMA TwoShiftsBits ==
  ASSUME NEW w \in SUBSET (0 .. 15)
  PROVE  LET v == Shift(Shift(w)) IN
         /\ v \in SUBSET (0 .. 15)
         /\ (0 \in v) = (Differ(w, 0, 1) # (2 \in w)) /\ (1 \in v) = (3 \in w)
         /\ (2 \in v) = (4 \in w) /\ (3 \in v) = (5 \in w)
         /\ (4 \in v) = (6 \in w) /\ (5 \in v) = (7 \in w)
         /\ (6 \in v) = (8 \in w) /\ (7 \in v) = (9 \in w)
         /\ (8 \in v) = (10 \in w) /\ (9 \in v) = (11 \in w)
         /\ (10 \in v) = (12 \in w) /\ (11 \in v) = (13 \in w)
         /\ (12 \in v) = Differ(w, 0, 14) /\ (13 \in v) = ((15 \in w) # Differ(w, 0, 1))
         /\ (14 \in v) = (0 \in w) /\ (15 \in v) = Differ(w, 0, 1)
<1> DEFINE u == Shift(w)
<1>1. u \in SUBSET (0 .. 15)
  BY ShiftBits
<1> QED
  BY <1>1, ShiftBits, SMTT(30) DEF Differ

LEMMA EightShiftsBits ==
  ASSUME NEW w \in SUBSET (0 .. 15)
  PROVE  LET v == Shift(Shift(Shift(Shift(Shift(Shift(Shift(Shift(w)))))))) IN
         /\ (0 \in v) = ((8 \in w) # Odd(w)) /\ (1 \in v) = (9 \in w)
         /\ (2 \in v) = (10 \in w) /\ (3 \in v) = (11 \in w)
         /\ (4 \in v) = (12 \in w) /\ (5 \in v) = (13 \in w)
         /\ (6 \in v) = ((14 \in w) # (0 \in w)) /\ (7 \in v) = ((15 \in w) # Differ(w, 0, 1))
         /\ (8 \in v) = Differ(w, 1, 2) /\ (9 \in v) = Differ(w, 2, 3)
         /\ (10 \in v) = Differ(w, 3, 4) /\ (11 \in v) = Differ(w, 4, 5)
         /\ (12 \in v) = Differ(w, 5, 6) /\ (13 \in v) = Differ(w, 6, 7)
         /\ (14 \in v) = ((7 \in w) # Odd(w)) /\ (15 \in v) = Odd(w)
<1> DEFINE w2 == Shift(Shift(w))
           w4 == Shift(Shift(w2))
           w6 == Shift(Shift(w4))
           w8 == Shift(Shift(w6))
<1>1. w2 \in SUBSET (0 .. 15) /\ w4 \in SUBSET (0 .. 15) /\ w6 \in SUBSET (0 .. 15)
  BY TwoShiftsBits
<1>2. /\ (0 \in w4) = ((Differ(w, 0, 1) # Differ(w, 2, 3)) # (4 \in w))
      /\ (1 \in w4) = (5 \in w)
      /\ (2 \in w4) = (6 \in w) /\ (3 \in w4) = (7 \in w)
      /\ (4 \in w4) = (8 \in w) /\ (5 \in w4) = (9 \in w)
      /\ (6 \in w4) = (10 \in w) /\ (7 \in w4) = (11 \in w)
      /\ (8 \in w4) = (12 \in w) /\ (9 \in w4) = (13 \in w)
      /\ (10 \in w4) = Differ(w, 0, 14) /\ (11 \in w4) = ((15 \in w) # Differ(w, 0, 1))
      /\ (12 \in w4) = Differ(w, 1, 2) /\ (13 \in w4) = Differ(w, 2, 3)
      /\ (14 \in w4) = (Differ(w, 0, 1) # (2 \in w))
      /\ (15 \in w4) = (Differ(w, 0, 1) # Differ(w, 2, 3))
  BY <1>1, TwoShiftsBits, SMTT(30) DEF Differ
<1> QED
  BY <1>1, <1>2, TwoShiftsBits, SMTT(30) DEF Differ, Odd

LEMMA FeedIsPolynomial ==
  ASSUME NEW c \in Register, NEW b \in Byte
  PROVE  Feed(c, b) = Polynomial(c, b)
<1> DEFINE i == Xor(c.low, b)
           w == Xor(Word16(c), b)
           v == Shift(Shift(Shift(Shift(Shift(Shift(Shift(Shift(w))))))))
           f == Feed(c, b)
           p == Polynomial(c, b)
<1>1. c.low \in Byte /\ c.high \in Byte /\ i \in Byte
  BY XorType DEF Register
<1>2. w \in SUBSET (0 .. 15)
  BY <1>1, SMT DEF Xor, Word16, Byte
<1>3. /\ \A k \in 0 .. 7 : (k \in w) = (k \in i)
      /\ \A k \in 0 .. 7 : (k + 8 \in w) = (k \in c.high)
  BY <1>1, SMT DEF Xor, Word16, Byte
<1>4. /\ (0 \in w) = (0 \in i) /\ (1 \in w) = (1 \in i) /\ (2 \in w) = (2 \in i)
      /\ (3 \in w) = (3 \in i) /\ (4 \in w) = (4 \in i) /\ (5 \in w) = (5 \in i)
      /\ (6 \in w) = (6 \in i) /\ (7 \in w) = (7 \in i)
      /\ (8 \in w) = (0 \in c.high) /\ (9 \in w) = (1 \in c.high)
      /\ (10 \in w) = (2 \in c.high) /\ (11 \in w) = (3 \in c.high)
      /\ (12 \in w) = (4 \in c.high) /\ (13 \in w) = (5 \in c.high)
      /\ (14 \in w) = (6 \in c.high) /\ (15 \in w) = (7 \in c.high)
  BY <1>3, SMT
<1>5. f = [low |-> Xor(c.high, HighImage(i)), high |-> LowImage(i)]
  BY <1>1, TableImages DEF Feed
<1>6. p = [low |-> {k \in 0 .. 7 : k \in v}, high |-> {k \in 0 .. 7 : k + 8 \in v}]
  BY DEF Polynomial, Halves
<1> DEFINE x == Xor(c.high, HighImage(i))
           l == {k \in 0 .. 7 : k \in v}
           h == {k \in 0 .. 7 : k + 8 \in v}
<1>7. x = l
  <2>1. x \in Byte /\ l \in Byte
    BY <1>1, HighImageBits, XorType DEF Byte
  <2>2. /\ (0 \in x) = ((0 \in c.high) # Odd(i)) /\ (1 \in x) = (1 \in c.high)
        /\ (2 \in x) = (2 \in c.high) /\ (3 \in x) = (3 \in c.high)
        /\ (4 \in x) = (4 \in c.high) /\ (5 \in x) = (5 \in c.high)
        /\ (6 \in x) = ((6 \in c.high) # (0 \in i)) /\ (7 \in x) = ((7 \in c.high) # Differ(i, 0, 1))
    BY HighImageBits, SMT DEF Xor
  <2>3. /\ (0 \in l) = (0 \in v) /\ (1 \in l) = (1 \in v) /\ (2 \in l) = (2 \in v)
        /\ (3 \in l) = (3 \in v) /\ (4 \in l) = (4 \in v) /\ (5 \in l) = (5 \in v)
        /\ (6 \in l) = (6 \in v) /\ (7 \in l) = (7 \in v)
    BY SMT
  <2> HIDE DEF x, l, v, w, i
  <2>4. /\ (0 \in v) = ((0 \in c.high) # Odd(i)) /\ (1 \in v) = (1 \in c.high)
        /\ (2 \in v) = (2 \in c.high) /\ (3 \in v) = (3 \in c.high)
        /\ (4 \in v) = (4 \in c.high) /\ (5 \in v) = (5 \in c.high)
        /\ (6 \in v) = ((6 \in c.high) # (0 \in i)) /\ (7 \in v) = ((7 \in c.high) # Differ(i, 0, 1))
    BY <1>2, <1>4, EightShiftsBits, SMT DEF Odd, Differ, v
  <2> QED
    BY <2>1, <2>2, <2>3, <2>4, SameBits
<1>8. LowImage(i) = h
  <2>1. LowImage(i) \in Byte /\ h \in Byte
    BY LowImageBits DEF Byte
  <2>2. /\ (0 \in h) = (8 \in v) /\ (1 \in h) = (9 \in v) /\ (2 \in h) = (10 \in v)
        /\ (3 \in h) = (11 \in v) /\ (4 \in h) = (12 \in v) /\ (5 \in h) = (13 \in v)
        /\ (6 \in h) = (14 \in v) /\ (7 \in h) = (15 \in v)
    BY SMT
  <2> HIDE DEF h, v, w, i
  <2>3. /\ (8 \in v) = Differ(i, 1, 2) /\ (9 \in v) = Differ(i, 2, 3)
        /\ (10 \in v) = Differ(i, 3, 4) /\ (11 \in v) = Differ(i, 4, 5)
        /\ (12 \in v) = Differ(i, 5, 6) /\ (13 \in v) = Differ(i, 6, 7)
        /\ (14 \in v) = ((7 \in i) # Odd(i)) /\ (15 \in v) = Odd(i)
    BY <1>2, <1>4, EightShiftsBits, SMT DEF Odd, Differ, v
  <2> QED
    BY <2>1, <2>2, <2>3, LowImageBits, SameBits
<1> QED
  BY <1>5, <1>6, <1>7, <1>8

-----------------------------------------------------------------------------
(* What damage does to the register.                                       *)

LEMMA XorCancels ==
  ASSUME NEW a \in Byte, NEW b \in Byte, NEW d \in Byte, Xor(a, d) = Xor(b, d)
  PROVE  a = b
<1>1. \A k : k \in a <=> k \in b
  BY XorMember
<1> QED
  BY <1>1

LEMMA XorCommutes == \A a, b : Xor(a, b) = Xor(b, a)
BY DEF Xor

LEMMA RowsDiffer ==
  ASSUME NEW a \in Byte, NEW b \in Byte, LowTable[a] = LowTable[b]
  PROVE  a = b
BY TableImages, LowImageInjective

\* A register that differs still differs after the same byte; a byte that differs
\* shows in the high half at once; and what shows there no next byte can hide.
LEMMA FeedSeparates ==
  ASSUME NEW c \in Register, NEW d \in Register, NEW a \in Byte, NEW b \in Byte
  PROVE  /\ c # d => Feed(c, a) # Feed(d, a)
         /\ a # b => Feed(c, a).high # Feed(c, b).high
         /\ c.high # d.high => Feed(c, a) # Feed(d, b)
<1> DEFINE i == Xor(c.low, a)
           j == Xor(d.low, b)
           j1 == Xor(d.low, a)
           i1 == Xor(c.low, b)
<1>1. /\ c.low \in Byte /\ c.high \in Byte /\ d.low \in Byte /\ d.high \in Byte
      /\ i \in Byte /\ j \in Byte /\ i1 \in Byte /\ j1 \in Byte
  BY XorType DEF Register
<1>2. c = [low |-> c.low, high |-> c.high] /\ d = [low |-> d.low, high |-> d.high]
  BY DEF Register
<1>3. /\ Feed(c, a).high = LowTable[i] /\ Feed(c, a).low = Xor(c.high, HighTable[i])
      /\ Feed(d, b).high = LowTable[j] /\ Feed(d, b).low = Xor(d.high, HighTable[j])
      /\ Feed(c, b).high = LowTable[i1]
      /\ Feed(d, a).high = LowTable[j1] /\ Feed(d, a).low = Xor(d.high, HighTable[j1])
  BY DEF Feed
<1>4. ASSUME Feed(c, a) = Feed(d, a) PROVE c = d
  <2>1. i = j1
    <3>1. LowTable[i] = LowTable[j1] /\ i \in Byte /\ j1 \in Byte
      BY <1>1, <1>3, <1>4
    <3> HIDE DEF i, j1
    <3> QED
      BY <3>1, RowsDiffer
  <2>2. c.low = d.low
    BY <2>1, <1>1, XorCancels
  <2>3. Xor(c.high, HighTable[i]) = Xor(d.high, HighTable[i])
    BY <2>1, <1>3, <1>4
  <2>4. c.high = d.high
    <3>1. HighTable[i] \in Byte
      BY <1>1, TablesType
    <3> HIDE DEF i
    <3> QED
      BY <2>3, <3>1, <1>1, XorCancels, Zenon
  <2> QED
    BY <2>2, <2>4, <1>2
<1>5. ASSUME Feed(c, a).high = Feed(c, b).high PROVE a = b
  <2>1. i = i1
    <3>1. LowTable[i] = LowTable[i1] /\ i \in Byte /\ i1 \in Byte
      BY <1>1, <1>3, <1>5
    <3> HIDE DEF i, i1
    <3> QED
      BY <3>1, RowsDiffer
  <2>2. Xor(a, c.low) = Xor(b, c.low) /\ c.low \in Byte
    BY <2>1, <1>1, XorCommutes
  <2> QED
    BY <2>2, XorCancels, Zenon
<1>6. ASSUME Feed(c, a) = Feed(d, b) PROVE c.high = d.high
  <2>1. i = j
    <3>1. LowTable[i] = LowTable[j] /\ i \in Byte /\ j \in Byte
      BY <1>1, <1>3, <1>6
    <3> HIDE DEF i, j
    <3> QED
      BY <3>1, RowsDiffer
  <2>2. Xor(c.high, HighTable[i]) = Xor(d.high, HighTable[i]) /\ HighTable[i] \in Byte
    BY <2>1, <1>1, <1>3, <1>6, TablesType
  <2> HIDE DEF i, j
  <2> QED
    BY <2>2, <1>1, XorCancels, Zenon
<1> QED
  BY <1>4, <1>5, <1>6

-----------------------------------------------------------------------------
(* The invariant.                                                          *)

\* The trace is the run of calcCRC() over data.
Traced ==
  /\ Len(trace) = IF stage = "append" THEN at + 1 ELSE Len(data) + 1
  /\ trace[1] = Preset
  /\ \A i \in 1 .. Len(trace) - 1 : trace[i + 1] = Feed(trace[i], data[i])
  /\ stage = "append" => at <= Len(data) /\ crc = trace[at + 1]

Last == trace[Len(data) + 1]

Framed ==
  stage # "append" =>
    /\ Len(sent) = Len(data) + 2
    /\ \A i \in 1 .. Len(data) : sent[i] = data[i]
    /\ sent[Len(data) + 1] = Last.low /\ sent[Len(data) + 2] = Last.high

\* What the receiver's register is after n bytes of the vector expected: the
\* sender's, then half of it behind the CRC's first byte, then nothing.
After(n) ==
  IF n <= Len(data) THEN trace[n + 1]
  ELSE IF n = Len(data) + 1 THEN [low |-> Last.high, high |-> Zero]
  ELSE [low |-> Zero, high |-> Zero]

\* At most two bytes are wrong, and those two are neighbours.
Narrow == \A i, j \in Wrong : i - j <= 1

\* Until the first wrong byte the register is the one expected, behind the last
\* one it never is again, and between two its high half is another already.
Followed ==
  stage = "check" /\ Len(rep) >= Len(sent) /\ Narrow =>
    /\ (\A i \in Wrong : i > at) => crc = After(at)
    /\ Wrong # {} /\ (\A i \in Wrong : i <= at) => crc # After(at)
    /\ at \in Wrong /\ at + 1 \in Wrong => crc.high # After(at).high

IInv ==
  /\ TypeOK /\ Traced /\ Framed /\ Followed
  /\ PaddedFrameAccepted /\ DamageDetected /\ TablesAgree

LEMMA InitIInv == Init => IInv
<1> SUFFICES ASSUME Init PROVE IInv
  OBVIOUS
<1>1. TypeOK
  <2>1. <<Preset>> \in Seq(Register) /\ data \in Seq(Byte)
    BY PresetType, CrcConstants, SMT DEF Init
  <2>2. <<>> \in Seq(Byte)
    BY EmptySeq
  <2> QED
    BY <2>1, <2>2, PresetType DEF Init, TypeOK
<1>2. Traced
  BY CrcConstants, LenProperties, SMT DEF Init, Traced
<1> QED
  BY <1>1, <1>2 DEF Init, IInv, Framed, Followed, PaddedFrameAccepted, DamageDetected,
                     TablesAgree

LEMMA SendByteIInv ==
  ASSUME IInv, SendByte
  PROVE  IInv'
<1> USE DEF IInv
<1>1. /\ at \in Nat /\ Len(data) \in Nat /\ at < Len(data) /\ stage = "append"
      /\ data[at + 1] \in Byte /\ crc \in Register
  BY LenProperties, SMT DEF SendByte, TypeOK
<1>2. crc' \in Register /\ byPoly' \in Register
  BY <1>1, FeedType, PolynomialType DEF SendByte
<1>3. /\ trace' \in Seq(Register) /\ Len(trace') = Len(trace) + 1
      /\ \A i \in 1 .. Len(trace) : trace'[i] = trace[i]
      /\ trace'[Len(trace) + 1] = crc'
  BY <1>2, SMT DEF SendByte, TypeOK
<1>4. TypeOK'
  BY <1>1, <1>2, <1>3, SMT DEF SendByte, TypeOK
<1>5. Len(trace) = at + 1 /\ crc = trace[at + 1]
  BY <1>1 DEF Traced
<1>6. Traced'
  <2>1. ASSUME NEW i \in 1 .. Len(trace') - 1
        PROVE  trace'[i + 1] = Feed(trace'[i], data[i])
    <3>1. CASE i < Len(trace)
      BY <3>1, <1>1, <1>3, <1>5, SMT DEF Traced
    <3>2. CASE i = Len(trace)
      <4>1. i = at + 1 /\ trace'[i + 1] = crc' /\ trace'[i] = crc
        BY <3>2, <1>1, <1>3, <1>5, SMT
      <4> QED
        BY <4>1 DEF SendByte
    <3> QED
      BY <3>1, <3>2, <1>1, <1>3, <1>5, SMT
  <2> QED
    BY <2>1, <1>1, <1>3, <1>5, SMT DEF SendByte, Traced
<1>7. TablesAgree'
  BY <1>1, FeedIsPolynomial DEF SendByte, TablesAgree
<1> QED
  BY <1>4, <1>6, <1>7 DEF SendByte, Framed, Followed, PaddedFrameAccepted, DamageDetected

LEMMA AppendCRCIInv ==
  ASSUME IInv, AppendCRC
  PROVE  IInv'
<1> USE DEF IInv
<1>1. stage = "append" /\ at = Len(data) /\ crc = Last /\ Len(trace) = Len(data) + 1
  BY SMT DEF AppendCRC, Traced, Last
<1>2. /\ data \in Seq(Byte) /\ Len(data) \in Nat
      /\ crc.low \in Byte /\ crc.high \in Byte
  BY LenProperties DEF TypeOK, Register
<1> DEFINE tail == <<crc.low, crc.high>>
<1>3. tail \in Seq(Byte) /\ Len(tail) = 2 /\ tail[1] = crc.low /\ tail[2] = crc.high
  BY <1>2, SMT
<1>4. sent' = data \o tail
  BY DEF AppendCRC
<1> HIDE DEF tail
<1>5. /\ sent' \in Seq(Byte) /\ Len(sent') = Len(data) + 2
      /\ \A i \in 1 .. Len(data) : sent'[i] = data[i]
      /\ sent'[Len(data) + 1] = tail[1] /\ sent'[Len(data) + 2] = tail[2]
  <2>1. /\ data \o tail \in Seq(Byte) /\ Len(data \o tail) = Len(data) + Len(tail)
        /\ \A i \in 1 .. Len(data) + Len(tail) :
             (data \o tail)[i] = IF i <= Len(data) THEN data[i] ELSE tail[i - Len(data)]
    <3>1. data \in Seq(Byte) /\ tail \in Seq(Byte)
      BY <1>2, <1>3
    <3> QED
      BY <3>1, ConcatProperties, Zenon
  <2>2. (Len(data) + 1) - Len(data) = 1 /\ (Len(data) + 2) - Len(data) = 2
    BY <1>2, SMT
  <2>3. /\ Len(data) + 1 \in 1 .. Len(data) + 2 /\ ~(Len(data) + 1 <= Len(data))
        /\ Len(data) + 2 \in 1 .. Len(data) + 2 /\ ~(Len(data) + 2 <= Len(data))
        /\ \A i \in 1 .. Len(data) : i <= Len(data) /\ i \in 1 .. Len(data) + 2
    BY <1>2, SMT
  <2> QED
    BY <2>1, <2>2, <2>3, <1>3, <1>4
<1>6. TypeOK'
  BY <1>5, SMT DEF AppendCRC, TypeOK
<1>7. Traced'
  BY <1>1, SMT DEF AppendCRC, Traced
<1>8. Framed'
  BY <1>1, <1>3, <1>5 DEF AppendCRC, Framed, Last
<1> QED
  BY <1>6, <1>7, <1>8 DEF AppendCRC, Followed, PaddedFrameAccepted, DamageDetected, TablesAgree

LEMMA ReceiveIInv ==
  ASSUME IInv, Receive
  PROVE  IInv'
<1> USE DEF IInv
<1>1. PICK size \in 1 .. Len(sent) + MaxPad, keep \in 1 .. Len(sent),
           hit \in 1 .. Len(sent), mask \in Masks \union {Zero} :
        rep' = [i \in 1 .. size |-> IF i > keep THEN Zero
                                    ELSE IF i = hit THEN Xor(sent[i], mask)
                                    ELSE sent[i]]
  BY DEF Receive
<1>2. /\ Len(sent) \in Nat /\ size \in Nat /\ keep \in Nat /\ keep <= Len(sent)
      /\ \A i \in 1 .. Len(sent) : sent[i] \in Byte
      /\ mask \in Byte
  BY CrcConstants, LenProperties, ZeroType, SMT DEF TypeOK
<1>3. \A i \in 1 .. size : (IF i > keep THEN Zero
                            ELSE IF i = hit THEN Xor(sent[i], mask)
                            ELSE sent[i]) \in Byte
  BY <1>2, ZeroType, XorType, SMT
<1>4. rep' \in Seq(Byte)
  <2>1. rep' \in [1 .. size -> Byte]
    BY <1>1, <1>3
  <2> QED
    BY <2>1, <1>2, SMT
<1>5. TypeOK'
  BY <1>4, PresetType, SMT DEF Receive, TypeOK
<1>6. Traced' /\ Framed'
  BY SMT DEF Receive, Traced, Framed, Last
<1>7. Followed'
  <2>1. at' = 0 /\ crc' = Preset /\ Len(data') >= 0 /\ Len(data') \in Nat
    BY LenProperties, SMT DEF Receive, TypeOK
  <2>2. crc' = After(at)'
    BY <2>1, <1>6, SMT DEF After, Traced
  <2>3. \A i \in Wrong' : i > at' /\ i # at'
    BY <2>1, <1>5, LenProperties, SMT DEF Wrong, TypeOK
  <2>4. at' \in Nat /\ \A i \in Wrong' : i \in Nat
    BY <2>1, <1>5, LenProperties, SMT DEF Wrong, TypeOK
  <2>5. Wrong' # {} => ~(\A i \in Wrong' : i <= at')
    BY <2>3, <2>4, SMT
  <2> QED
    BY <2>2, <2>3, <2>5 DEF Followed
<1> QED
  BY <1>5, <1>6, <1>7 DEF Receive, PaddedFrameAccepted, DamageDetected, TablesAgree

\* After n + 1 bytes: a byte of data, of the CRC, or a zero behind them.
LEMMA ExpectedStep ==
  ASSUME TypeOK, Traced, Framed, stage # "append", NEW n \in Nat
  PROVE  Feed(After(n), Expected(n + 1)) = After(n + 1)
<1>1. /\ Len(data) \in Nat /\ Len(sent) = Len(data) + 2
      /\ Len(trace) = Len(data) + 1
  BY LenProperties, SMT DEF TypeOK, Framed, Traced
<1>3. Last \in Register
  BY <1>1, LenProperties, SMT DEF Last, TypeOK
<1>4. CASE n < Len(data)
  <2>1. Expected(n + 1) = data[n + 1]
    BY <1>1, <1>4, SMT DEF Expected, Framed
  <2>2. trace[n + 2] = Feed(trace[n + 1], data[n + 1])
    <3>1. n + 1 \in 1 .. Len(trace) - 1 /\ (n + 1) + 1 = n + 2
      BY <1>1, <1>4, SMT
    <3> QED
      BY <3>1 DEF Traced
  <2>3. After(n) = trace[n + 1] /\ After(n + 1) = trace[n + 2]
    BY <1>1, <1>4, SMT DEF After
  <2> QED
    BY <2>1, <2>2, <2>3
<1>5. CASE n = Len(data)
  <2>1. Expected(n + 1) = Last.low /\ After(n) = Last
    BY <1>1, <1>5, SMT DEF Expected, Framed, After, Last
  <2>2. After(n + 1) = [low |-> Last.high, high |-> Zero]
    BY <1>1, <1>5, SMT DEF After
  <2> QED
    BY <2>1, <2>2, <1>3, FeedOwnLow
<1>6. CASE n = Len(data) + 1
  <2> DEFINE c == [low |-> Last.high, high |-> Zero]
  <2>1. Expected(n + 1) = c.low /\ After(n) = c
    BY <1>1, <1>6, SMT DEF Expected, Framed, After
  <2>2. After(n + 1) = [low |-> c.high, high |-> Zero]
    BY <1>1, <1>6, SMT DEF After
  <2>3. c \in Register
    BY <1>3, ZeroType DEF Register
  <2> QED
    BY <2>1, <2>2, <2>3, FeedOwnLow
<1>7. CASE n > Len(data) + 1
  <2> DEFINE c == [low |-> Zero, high |-> Zero]
  <2>1. Expected(n + 1) = c.low /\ After(n) = c
    BY <1>1, <1>7, SMT DEF Expected, After
  <2>2. After(n + 1) = [low |-> c.high, high |-> Zero]
    BY <1>1, <1>7, SMT DEF After
  <2>3. c \in Register
    BY ZeroType DEF Register
  <2> QED
    BY <2>1, <2>2, <2>3, FeedOwnLow
<1> QED
  BY <1>1, <1>4, <1>5, <1>6, <1>7, SMT

LEMMA AfterType ==
  ASSUME TypeOK, Traced, stage # "append", NEW n \in Nat
  PROVE  After(n) \in Register
<1>1. Len(data) \in Nat /\ Len(trace) = Len(data) + 1 /\ trace \in Seq(Register)
  BY LenProperties DEF TypeOK, Traced
<1>2. Last \in Register /\ (n <= Len(data) => trace[n + 1] \in Register)
  BY <1>1, SMT DEF Last
<1> QED
  BY <1>2, ZeroType DEF After, Register

LEMMA ExpectedType ==
  ASSUME TypeOK, NEW n \in Nat
  PROVE  Expected(n + 1) \in Byte
<1>1. sent \in Seq(Byte) /\ Len(sent) \in Nat
  BY LenProperties DEF TypeOK
<1>2. n + 1 <= Len(sent) => sent[n + 1] \in Byte
  BY <1>1, SMT
<1> QED
  BY <1>2, ZeroType DEF Expected

LEMMA CheckByteIInv ==
  ASSUME IInv, CheckByte
  PROVE  IInv'
<1> USE DEF IInv
<1>1. /\ at \in Nat /\ Len(rep) \in Nat /\ at < Len(rep) - 2 /\ stage = "check"
      /\ rep[at + 1] \in Byte /\ crc \in Register
  BY LenProperties, SMT DEF CheckByte, TypeOK
<1>2. TypeOK'
  BY <1>1, FeedType, PolynomialType, SMT DEF CheckByte, TypeOK
<1>3. Traced' /\ Framed'
  BY <1>1 DEF CheckByte, Traced, Framed, Last
<1>4. Followed'
  <2> DEFINE was == After(at)
             new == After(at + 1)
  <2>1. /\ new = Feed(was, Expected(at + 1)) /\ was \in Register /\ new \in Register
        /\ Expected(at + 1) \in Byte
    BY <1>1, ExpectedStep, ExpectedType, AfterType
  <2>2. crc' = Feed(crc, rep[at + 1])
    BY DEF CheckByte
  <2>3. /\ at' = at + 1 /\ Wrong' = Wrong /\ Narrow' = Narrow /\ After(at)' = new
        /\ (Len(rep) >= Len(sent))' = (Len(rep) >= Len(sent))
    BY DEF CheckByte, Wrong, Expected, Narrow, After, Last
  <2>4. /\ \A i \in Wrong : i \in Nat
        /\ at + 1 \in Wrong <=> rep[at + 1] # Expected(at + 1)
    BY <1>1, SMT DEF Wrong
  <2> HIDE DEF was, new
  <2> SUFFICES ASSUME Len(rep) >= Len(sent), Narrow
               PROVE  /\ (\A i \in Wrong : i > at + 1) => crc' = new
                      /\ Wrong # {} /\ (\A i \in Wrong : i <= at + 1) => crc' # new
                      /\ at + 1 \in Wrong /\ (at + 1) + 1 \in Wrong => crc'.high # new.high
    BY <2>3 DEF Followed
  <2>5. /\ (\A i \in Wrong : i > at) => crc = was
        /\ Wrong # {} /\ (\A i \in Wrong : i <= at) => crc # was
        /\ at \in Wrong /\ at + 1 \in Wrong => crc.high # was.high
    BY <1>1 DEF Followed, was
  <2>6. ASSUME \A i \in Wrong : i > at + 1
        PROVE  crc' = new
    <3>1. (\A i \in Wrong : i > at) /\ at + 1 \notin Wrong
      BY <2>4, <2>6, <1>1, SMT
    <3> QED
      BY <3>1, <2>1, <2>2, <2>4, <2>5
  <2>7. ASSUME Wrong # {}, \A i \in Wrong : i <= at + 1
        PROVE  crc' # new
    <3>1. CASE at + 1 \notin Wrong
      <4>1. \A i \in Wrong : i <= at
        BY <2>4, <2>7, <3>1, <1>1, SMT
      <4>2. crc # was /\ rep[at + 1] = Expected(at + 1)
        BY <4>1, <3>1, <2>4, <2>5, <2>7
      <4> QED
        BY <4>2, <1>1, <2>1, <2>2, FeedSeparates
    <3>2. CASE at + 1 \in Wrong /\ at \in Wrong
      <4>1. crc.high # was.high
        BY <3>2, <2>5
      <4> QED
        BY <4>1, <1>1, <2>1, <2>2, FeedSeparates
    <3>3. CASE at + 1 \in Wrong /\ at \notin Wrong
      <4>1. \A i \in Wrong : i > at
        BY <2>4, <3>3, <1>1, SMT DEF Narrow
      <4>2. crc = was /\ rep[at + 1] # Expected(at + 1)
        BY <4>1, <3>3, <2>4, <2>5
      <4> QED
        BY <4>2, <1>1, <2>1, <2>2, FeedSeparates
    <3> QED
      BY <3>1, <3>2, <3>3
  <2>8. ASSUME at + 1 \in Wrong, (at + 1) + 1 \in Wrong
        PROVE  crc'.high # new.high
    <3>1. \A i \in Wrong : i > at
      BY <2>4, <2>8, <1>1, SMT DEF Narrow
    <3>2. crc = was /\ rep[at + 1] # Expected(at + 1)
      BY <3>1, <2>8, <2>4, <2>5
    <3> QED
      BY <3>2, <1>1, <2>1, <2>2, FeedSeparates
  <2> QED
    BY <2>6, <2>7, <2>8
<1>5. TablesAgree'
  BY <1>1, FeedIsPolynomial DEF CheckByte, TablesAgree
<1> QED
  BY <1>1, <1>2, <1>3, <1>4, <1>5 DEF CheckByte, PaddedFrameAccepted, DamageDetected

LEMMA TooShortIInv ==
  ASSUME IInv, TooShort
  PROVE  IInv'
<1> USE DEF IInv
<1>1. TypeOK'
  BY DEF TooShort, TypeOK
<1>2. Traced' /\ Framed'
  BY DEF TooShort, Traced, Framed, Last
<1>3. Len(sent) = Len(data) + 2 /\ Len(data) \in Nat /\ Len(rep) \in Nat /\ Len(rep) <= 2
  BY LenProperties DEF TooShort, TypeOK, Framed
<1>4. ~(Len(data) > 0 /\ Len(rep) >= Len(sent))
  BY <1>3, SMT
<1> QED
  BY <1>1, <1>2, <1>4 DEF TooShort, Followed, PaddedFrameAccepted, DamageDetected, TablesAgree

LEMMA ValidateCRCIInv ==
  ASSUME IInv, ValidateCRC
  PROVE  IInv'
<1> USE DEF IInv
<1>1. TypeOK'
  BY SMT DEF ValidateCRC, Verdict, TypeOK
<1>2. Traced' /\ Framed'
  BY DEF ValidateCRC, Verdict, Traced, Framed, Last
<1>3. /\ Len(data) \in Nat /\ Len(sent) = Len(data) + 2 /\ Len(rep) \in Nat
      /\ stage = "check" /\ at = Len(rep) - 2 /\ Len(rep) > 2
  BY LenProperties DEF ValidateCRC, Verdict, TypeOK, Framed
<1>4. ASSUME Len(rep) >= Len(sent)
      PROVE  After(at) = [low |-> Expected(Len(rep) - 1), high |-> Expected(Len(rep))]
  <2>1. Last \in Register /\ Last = [low |-> Last.low, high |-> Last.high]
    <3>1. Last \in Register
      BY <1>3, LenProperties, SMT DEF Last, TypeOK, Traced
    <3> QED
      BY <3>1 DEF Register
  <2>2. CASE at = Len(data)
    BY <2>1, <2>2, <1>3, SMT DEF After, Expected, Framed, Last
  <2>3. CASE at = Len(data) + 1
    BY <2>3, <1>3, SMT DEF After, Expected, Framed
  <2>4. CASE at > Len(data) + 1
    BY <2>4, <1>3, SMT DEF After, Expected
  <2> QED
    BY <2>2, <2>3, <2>4, <1>3, <1>4, SMT
<1> DEFINE L == Len(rep)
           ok == rep[L] = crc.high /\ rep[L - 1] = crc.low
<1>5. /\ \A i \in Wrong : i \in Nat /\ i <= L
      /\ L \notin Wrong <=> rep[L] = Expected(L)
      /\ L - 1 \notin Wrong <=> rep[L - 1] = Expected(L - 1)
  BY <1>3, SMT DEF Wrong
<1>6. crc \in Register /\ crc = [low |-> crc.low, high |-> crc.high]
  BY DEF TypeOK, Register
<1>7. ASSUME L >= Len(sent), Wrong = {}
      PROVE  ok
  <2>1. crc = After(at)
    BY <1>3, <1>7 DEF Followed, Narrow
  <2> QED
    BY <2>1, <1>4, <1>5, <1>7
<1>8. ASSUME L >= Len(sent), Wrong # {}, Narrow
      PROVE  ~ok
  <2>1. /\ (\A i \in Wrong : i > at) => crc = After(at)
        /\ (\A i \in Wrong : i <= at) => crc # After(at)
        /\ at \in Wrong /\ at + 1 \in Wrong => crc.high # After(at).high
    BY <1>3, <1>8 DEF Followed
  <2>2. After(at).low = Expected(L - 1) /\ After(at).high = Expected(L)
    BY <1>4, <1>8
  <2>3. CASE \A i \in Wrong : i > at
    <3>1. crc = After(at)
      BY <2>1, <2>3
    <3>2. L \in Wrong \/ L - 1 \in Wrong
      BY <1>3, <1>5, <1>8, <2>3, SMT
    <3> QED
      BY <3>1, <3>2, <2>2, <1>5
  <2>4. CASE \A i \in Wrong : i <= at
    <3>1. L \notin Wrong /\ L - 1 \notin Wrong
      BY <1>3, <1>5, <2>4, SMT
    <3> QED
      BY <3>1, <2>1, <2>4, <1>4, <1>5, <1>6, <1>8
  <2>5. CASE (\E i \in Wrong : i <= at) /\ (\E i \in Wrong : i > at)
    <3>1. PICK i \in Wrong, j \in Wrong : i <= at /\ j > at
      BY <2>5
    <3>2. j - i <= 1
      BY <1>8 DEF Narrow
    <3>3. i = at /\ j = at + 1
      BY <3>1, <3>2, <1>3, <1>5, SMT
    <3>4. L \in Wrong => L - i <= 1
      BY <1>8 DEF Narrow
    <3>5. L \notin Wrong
      BY <3>3, <3>4, <1>3, SMT
    <3> QED
      BY <3>3, <3>5, <2>1, <2>2, <1>5
  <2>6. \A i \in Wrong : i > at <=> ~(i <= at)
    BY <1>3, <1>5, SMT
  <2> QED
    BY <2>3, <2>4, <2>5, <2>6
<1>9. /\ accepted' = ok /\ Wrong' = Wrong /\ Narrow' = Narrow
      /\ rep' = rep /\ sent' = sent
  BY DEF ValidateCRC, Verdict, Wrong, Expected, Narrow
<1>10. PaddedFrameAccepted'
  BY <1>7, <1>9 DEF PaddedFrameAccepted
<1>11. DamageDetected'
  BY <1>8, <1>9 DEF DamageDetected, Narrow
<1> QED
  BY <1>1, <1>2, <1>10, <1>11 DEF ValidateCRC, Verdict, Followed, TablesAgree

LEMMA Inductive == Spec => []IInv
<1>1. ASSUME IInv, [Next]_vars
      PROVE  IInv'
  <2>1. CASE UNCHANGED vars
    BY <1>1, <2>1 DEF vars, IInv, TypeOK, Traced, Framed, Followed, PaddedFrameAccepted,
                      DamageDetected, TablesAgree, After, Last, Expected, Wrong, Narrow
  <2> QED
    BY <1>1, <2>1, SendByteIInv, AppendCRCIInv, ReceiveIInv, CheckByteIInv, TooShortIInv,
       ValidateCRCIInv DEF Next
<1> QED
  BY <1>1, InitIInv, PTL DEF Spec

\* Every register holds two bytes, and validateCRC() never reads beyond its vector.
THEOREM TypeCorrect == Spec => []TypeOK
<1>1. IInv => TypeOK
  BY DEF IInv
<1> QED
  BY <1>1, Inductive, PTL

\* For every payload and any number of bytes more than arrived.
THEOREM FrameAccepted == Spec => []PaddedFrameAccepted
<1>1. IInv => PaddedFrameAccepted
  BY DEF IInv
<1> QED
  BY <1>1, Inductive, PTL

\* Whatever was sent: bits flipped in one byte, in two neighbours, or the frame's
\* last two bytes missing, validateCRC() throws.
THEOREM DamageRejected == Spec => []DamageDetected
<1>1. IInv => DamageDetected
  BY DEF IInv
<1> QED
  BY <1>1, Inductive, PTL

\* All 256 entries of both tables, for every register: calcCRC() computes the CRC
\* that the polynomial 0xA001 defines.
THEOREM TablesCorrect == Spec => []TablesAgree
<1>1. IInv => TablesAgree
  BY DEF IInv
<1> QED
  BY <1>1, Inductive, PTL
=============================================================================
