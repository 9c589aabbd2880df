----------------------------- MODULE WordLemmas -----------------------------
(***************************************************************************)
(* The operators on words, and the microinstruction decoder, give words    *)
(* and bits: the lemmas that type correctness of the processor rests on.   *)
(***************************************************************************)
EXTENDS MicroDecoder, TLAPS

-----------------------------------------------------------------------------
\* Words and their fields.

\* A bit of a word is 0 or 1.
LEMMA BitIsBit == ASSUME NEW w \in Word, NEW i \in 0 .. 11
                  PROVE  Bit(w, i) \in BitValue
<1>1. Weights[i + 1] \in Nat \ {0}
  BY DEF Weights
<1>2. w \div Weights[i + 1] \in Nat
  BY <1>1 DEF Word
<1> QED
  BY <1>2 DEF Bit, BitValue

\* Twelve bits make a word.
LEMMA FourBits ==
  ASSUME NEW p \in BitValue, NEW q \in BitValue, NEW r \in BitValue, NEW s \in BitValue
  PROVE  p + 2 * q + 4 * r + 8 * s \in 0 .. 15
  BY SMT DEF BitValue

LEMMA BitsMakeWord == ASSUME NEW b, \A i \in 0 .. 11 : b[i] \in BitValue
                      PROVE  FromBits(b) \in Word
<1>1. /\ b[0] \in BitValue /\ b[1] \in BitValue /\ b[2] \in BitValue
      /\ b[3] \in BitValue /\ b[4] \in BitValue /\ b[5] \in BitValue
      /\ b[6] \in BitValue /\ b[7] \in BitValue /\ b[8] \in BitValue
      /\ b[9] \in BitValue /\ b[10] \in BitValue /\ b[11] \in BitValue
  OBVIOUS
<1> DEFINE low == b[0] + 2 * b[1] + 4 * b[2] + 8 * b[3]
           mid == b[4] + 2 * b[5] + 4 * b[6] + 8 * b[7]
           high == b[8] + 2 * b[9] + 4 * b[10] + 8 * b[11]
<1>2. low \in 0 .. 15
  BY <1>1, FourBits
<1>3. mid \in 0 .. 15
  BY <1>1, FourBits
<1>4. high \in 0 .. 15
  BY <1>1, FourBits
<1>5. /\ 16 * mid = 16 * b[4] + 32 * b[5] + 64 * b[6] + 128 * b[7]
      /\ 256 * high = 256 * b[8] + 512 * b[9] + 1024 * b[10] + 2048 * b[11]
  <2>1. 16 * mid = 16 * b[4] + 32 * b[5] + 64 * b[6] + 128 * b[7]
    BY <1>1, SMT DEF BitValue
  <2>2. 256 * high = 256 * b[8] + 512 * b[9] + 1024 * b[10] + 2048 * b[11]
    BY <1>1, SMT DEF BitValue
  <2> QED
    BY <2>1, <2>2
<1>6. FromBits(b) = low + 16 * mid + 256 * high
  <2>1. FromBits(b) = low + (16 * b[4] + 32 * b[5] + 64 * b[6] + 128 * b[7])
                      + (256 * b[8] + 512 * b[9] + 1024 * b[10] + 2048 * b[11])
    BY <1>1 DEF FromBits, BitValue
  <2> HIDE DEF low, mid, high
  <2> QED
    BY <1>5, <2>1, SMTT(30)
<1>7. low + 16 * mid + 256 * high \in Word
  <2> HIDE DEF low, mid, high
  <2> QED
    BY <1>2, <1>3, <1>4 DEF Word
<1> QED
  BY <1>6, <1>7

\* Numbers that are words: those of eight bits, and sums cut to twelve.
LEMMA ByteIsWord == 0 \in Word /\ \A d \in 0 .. 255 : d \in Word
  BY SMT DEF Word

LEMMA SumIsWord == \A v, w \in Word : (v + w) % 4096 \in Word
  BY SMT DEF Word

\* AND and OR of words are words.
LEMMA AndIsWord == ASSUME NEW v \in Word, NEW w \in Word
                   PROVE  And(v, w) \in Word
<1> DEFINE b == [i \in 0 .. 11 |-> Bit(v, i) * Bit(w, i)]
<1>1. \A i \in 0 .. 11 : b[i] \in BitValue
  <2> TAKE i \in 0 .. 11
  <2>1. Bit(v, i) \in BitValue /\ Bit(w, i) \in BitValue
    BY BitIsBit
  <2>2. Bit(v, i) \in {0, 1} /\ Bit(w, i) \in {0, 1}
    BY <2>1 DEF BitValue
  <2>3. Bit(v, i) * Bit(w, i) \in {0, 1}
    BY <2>2
  <2> QED
    BY <2>3 DEF BitValue
<1>2. FromBits(b) \in Word
  BY <1>1, BitsMakeWord
<1> QED
  BY <1>2 DEF And

LEMMA OrIsWord == ASSUME NEW v \in Word, NEW w \in Word
                  PROVE  Or(v, w) \in Word
<1> DEFINE b == [i \in 0 .. 11 |-> IF On(v, i) THEN 1 ELSE Bit(w, i)]
<1>1. \A i \in 0 .. 11 : b[i] \in BitValue
  BY BitIsBit DEF BitValue
<1>2. FromBits(b) \in Word
  BY <1>1, BitsMakeWord
<1> QED
  BY <1>2 DEF Or

\* Increment, complement and the fields of an instruction stay words.
LEMMA FieldsAreWords == ASSUME NEW w \in Word, NEW v \in Word
                        PROVE  /\ Inc(w) \in Word
                               /\ Not(w) \in Word
                               /\ Offset(w) \in Word
                               /\ Page(v) + Offset(w) \in Word
                               /\ Opcode(w) \in 0 .. 7
<1>1. Inc(w) \in Word
  BY DEF Inc, Word
<1>2. Not(w) \in Word
  BY DEF Not, Word
<1>3. Offset(w) \in Word
  BY DEF Offset, Word
<1>4. Page(v) + Offset(w) \in Word
  <2>1. v - (v % 128) = 128 * (v \div 128)
    BY SMT DEF Word
  <2>2. v \div 128 \in 0 .. 31
    BY SMT DEF Word
  <2>3. w % 128 \in 0 .. 127
    BY SMT DEF Word
  <2> QED
    BY <2>1, <2>2, <2>3 DEF Page, Offset, Word
<1>5. Opcode(w) \in 0 .. 7
  BY DEF Opcode, Word
<1> QED
  BY <1>1, <1>2, <1>3, <1>4, <1>5

-----------------------------------------------------------------------------
\* The microinstruction decoder gives a word and a link.

PairOfWordAndBit == [ac : Word, lk : BitValue]

LEMMA ShiftedWords ==
  ASSUME NEW a \in Word, NEW l \in BitValue, NEW x \in BitValue
  PROVE  /\ (a % 64) * 64 + a \div 64 \in Word
         /\ (a % 2048) * 2 + l \in Word
         /\ (a % 1024) * 4 + l * 2 + x \in Word
         /\ l * 2048 + a \div 2 \in Word
         /\ x * 2048 + l * 1024 + a \div 4 \in Word
<1>1. (a % 64) * 64 + a \div 64 \in Word
  BY SMT DEF Word, BitValue
<1>2. (a % 2048) * 2 + l \in Word
  BY SMT DEF Word, BitValue
<1>3. (a % 1024) * 4 + l * 2 + x \in Word
  BY SMT DEF Word, BitValue
<1>4. l * 2048 + a \div 2 \in Word
  BY SMTT(30) DEF Word, BitValue
<1>5. x * 2048 + l * 1024 + a \div 4 \in Word
  BY SMT DEF Word, BitValue
<1> QED
  BY <1>1, <1>2, <1>3, <1>4, <1>5

LEMMA ShiftTypes == ASSUME NEW ir \in Word, NEW b \in PairOfWordAndBit, NEW held \in BitValue
                    PROVE  ShiftStage(ir, b, held) \in PairOfWordAndBit
<1>1. b.ac \in Word /\ b.lk \in BitValue
  BY DEF PairOfWordAndBit
<1>2. /\ Bit(b.ac, 0) \in BitValue /\ Bit(b.ac, 1) \in BitValue
      /\ Bit(b.ac, 10) \in BitValue /\ Bit(b.ac, 11) \in BitValue
  BY <1>1, BitIsBit
<1>3. /\ (b.ac % 64) * 64 + b.ac \div 64 \in Word
      /\ (b.ac % 2048) * 2 + b.lk \in Word
      /\ (b.ac % 1024) * 4 + b.lk * 2 + Bit(b.ac, 11) \in Word
      /\ b.lk * 2048 + b.ac \div 2 \in Word
      /\ Bit(b.ac, 0) * 2048 + b.lk * 1024 + b.ac \div 4 \in Word
  BY <1>1, <1>2, ShiftedWords
<1> QED
  BY <1>1, <1>2, <1>3 DEF ShiftStage, PairOfWordAndBit

LEMMA PipelineTypes ==
  ASSUME NEW ir \in Word, NEW ac \in Word, NEW lk \in BitValue, NEW held \in BitValue
  PROVE  Pipeline(ir, ac, lk, held) \in PairOfWordAndBit
<1> DEFINE c == ClearStage(ir, ac, lk)
           d == ComplementStage(ir, c)
           e == IncrementStage(ir, d)
<1>1. c \in PairOfWordAndBit
  BY DEF ClearStage, PairOfWordAndBit, Word, BitValue
<1>2. d \in PairOfWordAndBit
  <2>1. c.ac \in Word /\ c.lk \in BitValue
    BY <1>1 DEF PairOfWordAndBit
  <2>2. Not(c.ac) \in Word /\ 1 - c.lk \in BitValue
    <3>1. Not(c.ac) \in Word
      BY <2>1, FieldsAreWords
    <3>2. \A l \in BitValue : 1 - l \in BitValue
      BY DEF BitValue
    <3> QED
      BY <2>1, <3>1, <3>2
  <2> QED
    BY <2>1, <2>2 DEF ComplementStage, PairOfWordAndBit
<1>3. e \in PairOfWordAndBit
  BY <1>2, FieldsAreWords DEF IncrementStage, PairOfWordAndBit
<1> QED
  BY <1>3, ShiftTypes DEF Pipeline

LEMMA MicroTypes ==
  ASSUME NEW ir \in Word, NEW ac \in Word, NEW lk \in BitValue, NEW held \in BitValue
  PROVE  Micro(ir, ac, lk, held) \in PairOfWordAndBit
  BY PipelineTypes DEF Micro, PairOfWordAndBit

-----------------------------------------------------------------------------
\* A word is what its bits make, so OR with zero and with itself leaves it.

LEMMA GroupedBits ==
  ASSUME NEW b, \A k \in 0 .. 11 : b[k] \in BitValue
  PROVE  FromBits(b) = (b[0] + 2 * b[1] + 4 * b[2]) + (8 * b[3] + 16 * b[4] + 32 * b[5])
                       + (64 * b[6] + 128 * b[7] + 256 * b[8])
                       + (512 * b[9] + 1024 * b[10] + 2048 * b[11])
<1>1. /\ b[0] \in BitValue /\ b[1] \in BitValue /\ b[2] \in BitValue
      /\ b[3] \in BitValue /\ b[4] \in BitValue /\ b[5] \in BitValue
      /\ b[6] \in BitValue /\ b[7] \in BitValue /\ b[8] \in BitValue
      /\ b[9] \in BitValue /\ b[10] \in BitValue /\ b[11] \in BitValue
  OBVIOUS
<1> QED
  BY <1>1 DEF FromBits, BitValue

LEMMA ThreeBits ==
  ASSUME NEW v \in Nat
  PROVE  v = 8 * (v \div 8) + ((v % 2) + 2 * ((v \div 2) % 2) + 4 * ((v \div 4) % 2))
  BY SMT

LEMMA WeightsListed ==
  /\ Weights[0 + 1] = 1 /\ Weights[1 + 1] = 2 /\ Weights[2 + 1] = 4 /\ Weights[3 + 1] = 8
  /\ Weights[4 + 1] = 16 /\ Weights[5 + 1] = 32 /\ Weights[6 + 1] = 64 /\ Weights[7 + 1] = 128
  /\ Weights[8 + 1] = 256 /\ Weights[9 + 1] = 512 /\ Weights[10 + 1] = 1024
  /\ Weights[11 + 1] = 2048
  BY SMT DEF Weights

LEMMA BitsOfWord ==
  ASSUME NEW w \in Word
  PROVE  /\ Bit(w, 0) = w % 2 /\ Bit(w, 1) = (w \div 2) % 2 /\ Bit(w, 2) = (w \div 4) % 2
         /\ Bit(w, 3) = (w \div 8) % 2 /\ Bit(w, 4) = (w \div 16) % 2
         /\ Bit(w, 5) = (w \div 32) % 2 /\ Bit(w, 6) = (w \div 64) % 2
         /\ Bit(w, 7) = (w \div 128) % 2 /\ Bit(w, 8) = (w \div 256) % 2
         /\ Bit(w, 9) = (w \div 512) % 2 /\ Bit(w, 10) = (w \div 1024) % 2
         /\ Bit(w, 11) = (w \div 2048) % 2
<1>1. w \div 1 = w
  BY SMT DEF Word
<1>2. Bit(w, 0) = w % 2
  BY <1>1, WeightsListed DEF Bit
<1>3. Bit(w, 1) = (w \div 2) % 2
  BY WeightsListed DEF Bit
<1>4. Bit(w, 2) = (w \div 4) % 2
  BY WeightsListed DEF Bit
<1>5. Bit(w, 3) = (w \div 8) % 2
  BY WeightsListed DEF Bit
<1>6. Bit(w, 4) = (w \div 16) % 2
  BY WeightsListed DEF Bit
<1>7. Bit(w, 5) = (w \div 32) % 2
  BY WeightsListed DEF Bit
<1>8. Bit(w, 6) = (w \div 64) % 2
  BY WeightsListed DEF Bit
<1>9. Bit(w, 7) = (w \div 128) % 2
  BY WeightsListed DEF Bit
<1>10. Bit(w, 8) = (w \div 256) % 2
  BY WeightsListed DEF Bit
<1>11. Bit(w, 9) = (w \div 512) % 2
  BY WeightsListed DEF Bit
<1>12. Bit(w, 10) = (w \div 1024) % 2
  BY WeightsListed DEF Bit
<1>13. Bit(w, 11) = (w \div 2048) % 2
  BY WeightsListed DEF Bit
<1> QED
  BY <1>2, <1>3, <1>4, <1>5, <1>6, <1>7, <1>8, <1>9, <1>10, <1>11, <1>12, <1>13

LEMMA WordOfBits == ASSUME NEW w \in Word
                    PROVE  FromBits([k \in 0 .. 11 |-> Bit(w, k)]) = w
<1> DEFINE b == [k \in 0 .. 11 |-> Bit(w, k)]
           u == w \div 8
           v == w \div 64
           x == w \div 512
<1>1. w \in Nat /\ u \in Nat /\ v \in Nat /\ x \in Nat
  BY SMT DEF Word
<1>2. /\ b[0] = w % 2 /\ b[1] = (w \div 2) % 2 /\ b[2] = (w \div 4) % 2
      /\ b[3] = u % 2 /\ b[4] = (w \div 16) % 2 /\ b[5] = (w \div 32) % 2
      /\ b[6] = v % 2 /\ b[7] = (w \div 128) % 2 /\ b[8] = (w \div 256) % 2
      /\ b[9] = x % 2 /\ b[10] = (w \div 1024) % 2 /\ b[11] = (w \div 2048) % 2
  <2>1. /\ b[0] = Bit(w, 0) /\ b[1] = Bit(w, 1) /\ b[2] = Bit(w, 2) /\ b[3] = Bit(w, 3)
        /\ b[4] = Bit(w, 4) /\ b[5] = Bit(w, 5) /\ b[6] = Bit(w, 6) /\ b[7] = Bit(w, 7)
        /\ b[8] = Bit(w, 8) /\ b[9] = Bit(w, 9) /\ b[10] = Bit(w, 10) /\ b[11] = Bit(w, 11)
    OBVIOUS
  <2> QED
    BY <2>1, BitsOfWord
<1>3. w \div 16 = u \div 2 /\ w \div 32 = u \div 4 /\ v = u \div 8
  BY SMT DEF Word
<1>4. w \div 128 = v \div 2 /\ w \div 256 = v \div 4 /\ x = v \div 8
  BY SMT DEF Word
<1>5. w \div 1024 = x \div 2 /\ w \div 2048 = x \div 4 /\ x \div 8 = 0
  <2>1. w \div 1024 = x \div 2
    BY SMT DEF Word
  <2>2. w \div 2048 = x \div 4
    BY SMT DEF Word
  <2>3. x \div 8 = 0
    BY SMT DEF Word
  <2> QED
    BY <2>1, <2>2, <2>3
<1>6. \A k \in 0 .. 11 : b[k] \in BitValue
  BY BitIsBit
<1> HIDE DEF b, u, v, x
<1> DEFINE c0 == b[0] + 2 * b[1] + 4 * b[2]
           c1 == b[3] + 2 * b[4] + 4 * b[5]
           c2 == b[6] + 2 * b[7] + 4 * b[8]
           c3 == b[9] + 2 * b[10] + 4 * b[11]
<1>7. w = 8 * u + c0
  BY <1>1, <1>2, ThreeBits DEF u
<1>8. u = 8 * v + c1
  BY <1>1, <1>2, <1>3, ThreeBits
<1>9. v = 8 * x + c2
  BY <1>1, <1>2, <1>4, ThreeBits
<1>10. x = c3
  <2>1. x = 8 * (x \div 8) + ((x % 2) + 2 * ((x \div 2) % 2) + 4 * ((x \div 4) % 2))
    BY <1>1, ThreeBits
  <2> QED
    BY <1>1, <1>2, <1>5, <2>1
<1>11. /\ b[0] \in Nat /\ b[1] \in Nat /\ b[2] \in Nat /\ b[3] \in Nat
       /\ b[4] \in Nat /\ b[5] \in Nat /\ b[6] \in Nat /\ b[7] \in Nat
       /\ b[8] \in Nat /\ b[9] \in Nat /\ b[10] \in Nat /\ b[11] \in Nat
  BY <1>6 DEF BitValue
<1>12. /\ 8 * c1 = 8 * b[3] + 16 * b[4] + 32 * b[5]
       /\ 64 * c2 = 64 * b[6] + 128 * b[7] + 256 * b[8]
       /\ 512 * c3 = 512 * b[9] + 1024 * b[10] + 2048 * b[11]
  BY <1>11
<1>13. c0 \in Nat /\ c1 \in Nat /\ c2 \in Nat /\ c3 \in Nat
  BY <1>11
<1>14. FromBits(b) = c0 + 8 * c1 + 64 * c2 + 512 * c3
  <2> HIDE DEF c1, c2, c3
  <2> QED
    BY <1>6, <1>12, GroupedBits
<1> HIDE DEF c0, c1, c2, c3
<1>15. FromBits(b) = w
  BY <1>1, <1>7, <1>8, <1>9, <1>10, <1>13, <1>14
<1> QED
  BY <1>15 DEF b

LEMMA OrZero == ASSUME NEW w \in Word PROVE Or(0, w) = w
<1>1. \A k \in 0 .. 11 : ~On(0, k)
  BY SMT DEF On, Bit, Weights
<1>2. Or(0, w) = FromBits([k \in 0 .. 11 |-> Bit(w, k)])
  BY <1>1 DEF Or
<1> QED
  BY <1>2, WordOfBits

LEMMA OrItself == ASSUME NEW w \in Word PROVE Or(w, w) = w
<1>1. [k \in 0 .. 11 |-> IF On(w, k) THEN 1 ELSE Bit(w, k)] = [k \in 0 .. 11 |-> Bit(w, k)]
  BY DEF On
<1>2. Or(w, w) = FromBits([k \in 0 .. 11 |-> Bit(w, k)])
  BY <1>1 DEF Or
<1> QED
  BY <1>2, WordOfBits

\* The bit a rotation puts above the eleven others.
LEMMA OrTop == ASSUME NEW a \in Word, NEW l \in BitValue
               PROVE  Or(a \div 2, 2048 * l) = l * 2048 + a \div 2
<1> DEFINE h == a \div 2
           sum == l * 2048 + h
           r == [k \in 0 .. 11 |-> IF On(h, k) THEN 1 ELSE Bit(2048 * l, k)]
<1>1. h \in 0 .. 2047 /\ h \in Word /\ l \in {0, 1} /\ sum \in Word
  <2>1. h \in 0 .. 2047
    BY SMT DEF Word
  <2>2. l \in {0, 1}
    BY DEF BitValue
  <2> HIDE DEF h
  <2>3. h \in Word /\ 2048 + h \in Word
    BY SMT, <2>1 DEF Word
  <2>4. l * 2048 = 0 \/ l * 2048 = 2048
    BY SMT, <2>2
  <2>5. sum = h \/ sum = 2048 + h
    BY <2>1, <2>4, SMTT(30)
  <2> HIDE DEF sum
  <2> QED
    BY <2>1, <2>2, <2>3, <2>5
<1> HIDE DEF h
<1>2. CASE l = 0
  <2>1. \A k \in 0 .. 11 : Bit(2048 * l, k) = 0 /\ Bit(h, k) \in {0, 1}
    <3>1. \A k \in 0 .. 11 : Bit(2048 * l, k) = 0
      <4>1. 2048 * l = 0
        BY SMT, <1>2
      <4>2. \A k \in 0 .. 11 : Bit(0, k) = 0
        BY SMT DEF Bit, Weights
      <4> QED
        BY <4>1, <4>2
    <3>2. \A k \in 0 .. 11 : Bit(h, k) \in {0, 1}
      BY <1>1, BitIsBit DEF BitValue
    <3> QED
      BY <3>1, <3>2
  <2>2. r = [k \in 0 .. 11 |-> Bit(h, k)] /\ sum = h
    BY <1>1, <1>2, <2>1 DEF On
  <2> QED
    BY <1>1, <2>2, WordOfBits DEF Or, h
<1>3. CASE l = 1
  <2>1. /\ Bit(2048, 0) = 0 /\ Bit(2048, 1) = 0 /\ Bit(2048, 2) = 0 /\ Bit(2048, 3) = 0
        /\ Bit(2048, 4) = 0 /\ Bit(2048, 5) = 0 /\ Bit(2048, 6) = 0 /\ Bit(2048, 7) = 0
        /\ Bit(2048, 8) = 0 /\ Bit(2048, 9) = 0 /\ Bit(2048, 10) = 0 /\ Bit(2048, 11) = 1
    BY SMT DEF Bit, Weights
  <2>2. /\ Bit(2048 + h, 0) = Bit(h, 0) /\ Bit(2048 + h, 1) = Bit(h, 1)
        /\ Bit(2048 + h, 2) = Bit(h, 2) /\ Bit(2048 + h, 3) = Bit(h, 3)
        /\ Bit(2048 + h, 4) = Bit(h, 4) /\ Bit(2048 + h, 5) = Bit(h, 5)
    BY SMT, <1>1 DEF Bit, Weights
  <2>3. /\ Bit(2048 + h, 6) = Bit(h, 6) /\ Bit(2048 + h, 7) = Bit(h, 7)
        /\ Bit(2048 + h, 8) = Bit(h, 8) /\ Bit(2048 + h, 9) = Bit(h, 9)
        /\ Bit(2048 + h, 10) = Bit(h, 10) /\ Bit(2048 + h, 11) = 1 /\ Bit(h, 11) = 0
    BY SMTT(30), <1>1 DEF Bit, Weights
  <2>4. \A k \in 0 .. 11 : Bit(h, k) \in {0, 1}
    BY <1>1, BitIsBit DEF BitValue
  <2>5. \A k \in 0 .. 11 : r[k] = Bit(2048 + h, k)
    <3> SUFFICES ASSUME NEW k \in 0 .. 11
                 PROVE  (IF On(h, k) THEN 1 ELSE Bit(2048, k)) = Bit(2048 + h, k)
      BY <1>3
    <3>1. \/ k = 0 \/ k = 1 \/ k = 2 \/ k = 3 \/ k = 4 \/ k = 5 \/ k = 6 \/ k = 7
          \/ k = 8 \/ k = 9 \/ k = 10 \/ k = 11
      OBVIOUS
    <3> QED
      BY <2>1, <2>2, <2>3, <2>4, <3>1 DEF On
  <2>6. r = [k \in 0 .. 11 |-> Bit(sum, k)]
    BY <1>3, <2>5
  <2> HIDE DEF r, sum
  <2>7. FromBits(r) = sum
    BY <1>1, <2>6, WordOfBits
  <2> QED
    BY <2>7 DEF Or, h, r, sum
<1> QED
  BY <1>1, <1>2, <1>3

-----------------------------------------------------------------------------
\* Rotations of the word a and the link l by one place, as AC and link.

RightAC(a, l) == l * 2048 + a \div 2
RightLK(a, l) == a % 2
LeftAC(a, l) == (2 * a + l) % 4096
LeftLK(a, l) == ((2 * a + l) \div 4096) % 2

LEMMA RightTypes == ASSUME NEW a \in Word, NEW l \in BitValue
                    PROVE  RightAC(a, l) \in Word /\ RightLK(a, l) \in BitValue
<1>1. l * 2048 + a \div 2 \in Word
  BY ShiftedWords, 0 \in BitValue DEF BitValue
<1>2. a % 2 \in BitValue
  BY SMT DEF Word, BitValue
<1> QED
  BY <1>1, <1>2 DEF RightAC, RightLK

LEMMA LeftTypes == ASSUME NEW a \in Word, NEW l \in BitValue
                   PROVE  LeftAC(a, l) \in Word /\ LeftLK(a, l) \in BitValue
<1>1. 2 * a + l \in Nat
  BY DEF Word, BitValue
<1>2. \A n \in Nat : n % 4096 \in Word /\ (n \div 4096) % 2 \in BitValue
  BY SMT DEF Word, BitValue
<1> QED
  BY <1>1, <1>2 DEF LeftAC, LeftLK

\* Left undoes right.
LEMMA LeftOfRight ==
  ASSUME NEW a \in Word, NEW l \in BitValue
  PROVE  /\ LeftAC(RightAC(a, l), RightLK(a, l)) = a
         /\ LeftLK(RightAC(a, l), RightLK(a, l)) = l
<1> DEFINE h == a \div 2
           b == a % 2
<1>1. h \in 0 .. 2047 /\ b \in 0 .. 1 /\ a = 2 * h + b
  <2>1. h \in 0 .. 2047
    BY SMT DEF Word
  <2>2. b \in 0 .. 1
    BY SMT DEF Word
  <2>3. a = 2 * h + b
    BY SMT DEF Word
  <2> QED
    BY <2>1, <2>2, <2>3
<1>5. RightAC(a, l) = l * 2048 + h /\ RightLK(a, l) = b
  BY DEF RightAC, RightLK
<1> HIDE DEF h, b
<1>2. l * 2048 \in {0, 2048} /\ l \in {0, 1}
  BY SMT DEF BitValue
<1>3. 2 * (l * 2048 + h) + b = 4096 * l + a
  BY SMT, <1>1, <1>2
<1>4. (4096 * l + a) % 4096 = a /\ ((4096 * l + a) \div 4096) % 2 = l
  BY SMT, <1>2 DEF Word
<1> QED
  BY <1>3, <1>4, <1>5 DEF LeftAC, LeftLK

\* The wires of the shift stage, as rotations by one place.
LEMMA RightWires ==
  ASSUME NEW a \in Word, NEW l \in BitValue
  PROVE  /\ Bit(a, 0) = RightLK(a, l)
         /\ RightAC(RightAC(a, l), RightLK(a, l)) = Bit(a, 0) * 2048 + l * 1024 + a \div 4
         /\ RightLK(RightAC(a, l), RightLK(a, l)) = Bit(a, 1)
<1>1. Bit(a, 0) = a % 2 /\ Bit(a, 1) = (a \div 2) % 2
  BY BitsOfWord
<1>2. l = 0 \/ l = 1
  BY DEF BitValue
<1> DEFINE h == a \div 2
<1>3. h \in 0 .. 2047 /\ a \div 4 = h \div 2
  <2>1. h \in 0 .. 2047
    BY SMT DEF Word
  <2>2. a \div 4 = h \div 2
    BY SMT DEF Word
  <2> QED
    BY <2>1, <2>2
<1>4. /\ (l * 2048 + h) \div 2 = l * 1024 + h \div 2
      /\ (l * 2048 + h) % 2 = h % 2
  <2> HIDE DEF h
  <2>1. CASE l = 0
    BY SMT, <1>3, <2>1
  <2>2. CASE l = 1
    BY SMT, <1>3, <2>2
  <2> QED
    BY <1>2, <2>1, <2>2
<1>5. a % 2 \in 0 .. 1 /\ h \div 2 \in Nat /\ l * 1024 \in Nat
  <2>1. a % 2 \in 0 .. 1
    BY SMT DEF Word
  <2>2. h \div 2 \in Nat
    <3> HIDE DEF h
    <3> QED
      BY SMT, <1>3
  <2>3. l * 1024 \in Nat
    BY SMT, <1>2
  <2> QED
    BY <2>1, <2>2, <2>3
<1> QED
  BY <1>1, <1>3, <1>4, <1>5 DEF RightAC, RightLK

LEMMA LeftWires ==
  ASSUME NEW a \in Word, NEW l \in BitValue
  PROVE  /\ LeftAC(a, l) = (a % 2048) * 2 + l
         /\ LeftLK(a, l) = Bit(a, 11)
         /\ LeftAC(LeftAC(a, l), LeftLK(a, l)) = (a % 1024) * 4 + l * 2 + Bit(a, 11)
         /\ LeftLK(LeftAC(a, l), LeftLK(a, l)) = Bit(a, 10)
<1>1. Bit(a, 11) = (a \div 2048) % 2 /\ Bit(a, 10) = (a \div 1024) % 2
  BY BitsOfWord
<1>2. PICK t \in 0 .. 1, s \in 0 .. 1, c \in 0 .. 1023 : a = 2048 * t + 1024 * s + c
  <2>1. a \div 2048 \in 0 .. 1
    BY SMT DEF Word
  <2>2. (a \div 1024) % 2 \in 0 .. 1 /\ a % 1024 \in 0 .. 1023
    BY SMT DEF Word
  <2>3. a = 2048 * (a \div 2048) + 1024 * ((a \div 1024) % 2) + (a % 1024)
    BY SMT DEF Word
  <2> QED
    BY <2>1, <2>2, <2>3, SMTT(30)
<1>3. l \in 0 .. 1
  BY DEF BitValue
<1>4. Bit(a, 11) = t /\ Bit(a, 10) = s
  BY SMT, <1>1, <1>2
<1>5. a % 2048 = 1024 * s + c /\ a % 1024 = c
  BY SMT, <1>2
<1>6. LeftAC(a, l) = 2048 * s + 2 * c + l /\ LeftLK(a, l) = t
  BY SMT, <1>2, <1>3 DEF LeftAC, LeftLK
<1>7. /\ (2 * (2048 * s + 2 * c + l) + t) % 4096 = 4 * c + 2 * l + t
      /\ ((2 * (2048 * s + 2 * c + l) + t) \div 4096) % 2 = s
  BY SMT, <1>2, <1>3
<1>8. LeftAC(LeftAC(a, l), LeftLK(a, l)) = 4 * c + 2 * l + t
  BY <1>6, <1>7 DEF LeftAC
<1>9. LeftLK(LeftAC(a, l), LeftLK(a, l)) = s
  BY <1>6, <1>7 DEF LeftLK
<1>10. (1024 * s + c) * 2 + l = 2048 * s + 2 * c + l /\ c * 4 + l * 2 + t = 4 * c + 2 * l + t
  BY SMT, <1>2, <1>3
<1> QED
  BY <1>4, <1>5, <1>6, <1>8, <1>9, <1>10

=============================================================================
