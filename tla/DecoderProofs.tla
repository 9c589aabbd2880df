---------------------------- MODULE DecoderProofs ----------------------------
(***************************************************************************)
(* Every line the generator writes is what the decoder answers and what    *)
(* the C simulator computes: for every set of flags it may be compiled     *)
(* with, the exhaustive tests included, and whatever its structure holds   *)
(* before the first test.                                                  *)
(*                                                                         *)
(* An opcode test is right by itself, for every AC and link.  A directed   *)
(* test may leave the skip and the group to the test before it: what it    *)
(* needs of them is Ready, and the tests are Chained: no build leaves out  *)
(* the test that makes the structure ready for the next.                   *)
(***************************************************************************)
EXTENDS DecoderTest, WordLemmas

-----------------------------------------------------------------------------
\* The structure, and what is right of a line.

Structure(i, a, l, x, y, s, g1, g2, g3) ==
  [i_reg |-> i, ac_reg |-> a, l_reg |-> l, result_ac |-> x, result_link |-> y,
   skip |-> s, micro_g1 |-> g1, micro_g2 |-> g2, micro_g3 |-> g3]

Shaped(r) == r = Structure(r.i_reg, r.ac_reg, r.l_reg, r.result_ac, r.result_link,
                           r.skip, r.micro_g1, r.micro_g2, r.micro_g3)

DecoderRight(v) ==
  \A held \in BitValue : \A f \in DOMAIN Answer(v, held) : v[f] = Answer(v, held)[f]

SimulatorRight(v) ==
  LET before == [ac |-> v.ac_reg, lk |-> v.l_reg]
      after  == Simulator!Group1Sequence(v.i_reg, before)
  IN  /\ v.micro_g1 = 1 => after = [ac |-> v.result_ac, lk |-> v.result_link]
      /\ v.micro_g2 = 1 => v.skip = Value(Simulator!Skips(v.i_reg, before))

Right(v) == DecoderRight(v) /\ SimulatorRight(v)

LEMMA StructureReads ==
  ASSUME NEW i, NEW a, NEW l, NEW x, NEW y, NEW s, NEW g1, NEW g2, NEW g3
  PROVE  LET r == Structure(i, a, l, x, y, s, g1, g2, g3)
         IN  /\ r.i_reg = i /\ r.ac_reg = a /\ r.l_reg = l /\ r.result_ac = x
             /\ r.result_link = y /\ r.skip = s
             /\ r.micro_g1 = g1 /\ r.micro_g2 = g2 /\ r.micro_g3 = g3
             /\ Shaped(r)
BY DEF Structure, Shaped

\* Each field as it stands on the wires.
LEMMA WrittenStructure ==
  ASSUME NEW i, NEW a, NEW l, NEW x, NEW y, NEW s, NEW g1, NEW g2, NEW g3
  PROVE  Written(Structure(i, a, l, x, y, s, g1, g2, g3))
           = Structure(i % 512, a % 4096, l % 2, x % 4096, y % 2, s % 2, g1 % 2, g2 % 2, g3 % 2)
BY DEF Structure, Written

\* The decoder's answer, once and for all.
LEMMA SameDecoder ==
  /\ \A w, a, l, held : Decoder!Micro(w, a, l, held) = Micro(w, a, l, held)
  /\ \A w, a, l : Decoder!Skip(w, a, l) = Skip(w, a, l)
  /\ \A w : Decoder!Group1(w) = Group1(w) /\ Decoder!Group2(w) = Group2(w)
            /\ Decoder!Group3(w) = Group3(w)
<1>1. \A w, k : Decoder!On(w, k) = On(w, k) /\ Decoder!Bit(w, k) = Bit(w, k)
  BY DEF Decoder!On, On, Decoder!Bit, Bit, Decoder!Weights, Weights
<1>2. \A w : Decoder!Not(w) = Not(w) /\ Decoder!Inc(w) = Inc(w)
  BY DEF Decoder!Not, Not, Decoder!Inc, Inc
<1>3. \A w : Decoder!ShiftSelect(w) = ShiftSelect(w)
  BY <1>1 DEF Decoder!ShiftSelect, ShiftSelect
<1>4. \A w, b, held : Decoder!ShiftStage(w, b, held) = ShiftStage(w, b, held)
  BY <1>1, <1>3 DEF Decoder!ShiftStage, ShiftStage
<1>5. \A w, a, l, held : Decoder!Pipeline(w, a, l, held) = Pipeline(w, a, l, held)
  <2>1. \A w, a, l : Decoder!ClearStage(w, a, l) = ClearStage(w, a, l)
    BY <1>1 DEF Decoder!ClearStage, ClearStage
  <2>2. \A w, b : Decoder!ComplementStage(w, b) = ComplementStage(w, b)
    BY <1>1, <1>2 DEF Decoder!ComplementStage, ComplementStage
  <2>3. \A w, b : Decoder!IncrementStage(w, b) = IncrementStage(w, b)
    BY <1>1, <1>2 DEF Decoder!IncrementStage, IncrementStage
  <2> QED
    BY <1>4, <2>1, <2>2, <2>3 DEF Decoder!Pipeline, Pipeline
<1>6. \A w, a, l : Decoder!SkipAnd(w, a, l) = SkipAnd(w, a, l) /\ Decoder!SkipOr(w, a, l) = SkipOr(w, a, l)
  BY <1>1 DEF Decoder!SkipAnd, SkipAnd, Decoder!SkipOr, SkipOr
<1> QED
  BY <1>1, <1>5, <1>6
     DEF Decoder!Micro, Micro, Decoder!Skip, Skip, Decoder!Group1, Group1, Decoder!Group2, Group2,
         Decoder!Group3, Group3

-----------------------------------------------------------------------------
\* When a line is right, by the group of its instruction.

LEMMA OperateRight ==
  ASSUME NEW w, ~On(w, 8), NEW a, NEW l, NEW x, NEW y,
         \A held \in BitValue : Pipeline(w, a, l, held) = [ac |-> x, lk |-> y],
         Simulator!Group1Sequence(w, [ac |-> a, lk |-> l]) = [ac |-> x, lk |-> y]
  PROVE  Right(Structure(w, a, l, x, y, 0, 1, 0, 0))
<1> DEFINE v == Structure(w, a, l, x, y, 0, 1, 0, 0)
<1>1. /\ v.i_reg = w /\ v.ac_reg = a /\ v.l_reg = l /\ v.result_ac = x /\ v.result_link = y
      /\ v.skip = 0 /\ v.micro_g1 = 1 /\ v.micro_g2 = 0 /\ v.micro_g3 = 0
  BY StructureReads
<1> HIDE DEF v
<1>2. /\ \A held \in BitValue : Micro(w, a, l, held) = [ac |-> x, lk |-> y]
      /\ ~Skip(w, a, l) /\ Group1(w) /\ ~Group2(w) /\ ~Group3(w)
  BY DEF Micro, Skip, Group1, Group2, Group3
<1>3. DecoderRight(v)
  <2> SUFFICES ASSUME NEW held \in BitValue, NEW f \in DOMAIN Answer(v, held)
               PROVE  v[f] = Answer(v, held)[f]
    BY DEF DecoderRight
  <2>1. Answer(v, held) = [result_ac |-> x, result_link |-> y, skip |-> 0,
                           micro_g1 |-> 1, micro_g2 |-> 0, micro_g3 |-> 0]
    BY <1>1, <1>2, SameDecoder DEF Answer, Value
  <2> QED
    BY <1>1, <2>1
<1>4. SimulatorRight(v)
  BY <1>1 DEF SimulatorRight
<1> QED
  BY <1>3, <1>4 DEF Right, v

LEMMA SkipRight ==
  ASSUME NEW w, On(w, 8), ~On(w, 7), ~On(w, 0), NEW a, NEW l, NEW s,
         s = Value(Skip(w, a, l)), s = Value(Simulator!Skips(w, [ac |-> a, lk |-> l]))
  PROVE  Right(Structure(w, a, l, a, l, s, 0, 1, 0))
<1> DEFINE v == Structure(w, a, l, a, l, s, 0, 1, 0)
<1>1. /\ v.i_reg = w /\ v.ac_reg = a /\ v.l_reg = l /\ v.result_ac = a /\ v.result_link = l
      /\ v.skip = s /\ v.micro_g1 = 0 /\ v.micro_g2 = 1 /\ v.micro_g3 = 0
  BY StructureReads
<1> HIDE DEF v
<1>2. /\ \A held \in BitValue : Micro(w, a, l, held) = [ac |-> a, lk |-> l]
      /\ ~Group1(w) /\ Group2(w) /\ ~Group3(w)
  BY DEF Micro, Group1, Group2, Group3
<1>3. DecoderRight(v)
  <2> SUFFICES ASSUME NEW held \in BitValue, NEW f \in DOMAIN Answer(v, held)
               PROVE  v[f] = Answer(v, held)[f]
    BY DEF DecoderRight
  <2>1. Answer(v, held) = [result_ac |-> a, result_link |-> l, skip |-> s,
                           micro_g1 |-> 0, micro_g2 |-> 1, micro_g3 |-> 0]
    BY <1>1, <1>2, SameDecoder DEF Answer, Value
  <2> QED
    BY <1>1, <2>1
<1>4. SimulatorRight(v)
  BY <1>1 DEF SimulatorRight
<1> QED
  BY <1>3, <1>4 DEF Right, v

LEMMA Group3Right ==
  ASSUME NEW w, On(w, 8), ~On(w, 7), On(w, 0), NEW a, NEW l, NEW s, s = Value(Skip(w, a, l))
  PROVE  Right(Structure(w, a, l, a, l, s, 0, 0, 1))
<1> DEFINE v == Structure(w, a, l, a, l, s, 0, 0, 1)
<1>1. /\ v.i_reg = w /\ v.ac_reg = a /\ v.l_reg = l /\ v.result_ac = a /\ v.result_link = l
      /\ v.skip = s /\ v.micro_g1 = 0 /\ v.micro_g2 = 0 /\ v.micro_g3 = 1
  BY StructureReads
<1> HIDE DEF v
<1>2. /\ \A held \in BitValue : Micro(w, a, l, held) = [ac |-> a, lk |-> l]
      /\ ~Group1(w) /\ ~Group2(w) /\ Group3(w)
  BY DEF Micro, Group1, Group2, Group3
<1>3. DecoderRight(v)
  <2> SUFFICES ASSUME NEW held \in BitValue, NEW f \in DOMAIN Answer(v, held)
               PROVE  v[f] = Answer(v, held)[f]
    BY DEF DecoderRight
  <2>1. Answer(v, held) = [result_ac |-> a, result_link |-> l, skip |-> s,
                           micro_g1 |-> 0, micro_g2 |-> 0, micro_g3 |-> 1]
    BY <1>1, <1>2, SameDecoder DEF Answer, Value
  <2> QED
    BY <1>1, <2>1
<1>4. SimulatorRight(v)
  BY <1>1 DEF SimulatorRight
<1> QED
  BY <1>3, <1>4 DEF Right, v

-----------------------------------------------------------------------------
\* The instructions the tests use, as sets of bits.

HasBits(w, bits) == \A k \in 0 .. 8 : On(w, k) <=> k \in bits

LEMMA BitsComputed ==
  ASSUME NEW w \in 0 .. 511, NEW bits,
         w % 2 = 1 <=> 0 \in bits, (w \div 2) % 2 = 1 <=> 1 \in bits,
         (w \div 4) % 2 = 1 <=> 2 \in bits, (w \div 8) % 2 = 1 <=> 3 \in bits,
         (w \div 16) % 2 = 1 <=> 4 \in bits, (w \div 32) % 2 = 1 <=> 5 \in bits,
         (w \div 64) % 2 = 1 <=> 6 \in bits, (w \div 128) % 2 = 1 <=> 7 \in bits,
         (w \div 256) % 2 = 1 <=> 8 \in bits
  PROVE  HasBits(w, bits)
<1>1. w \in Word
  BY DEF Word
<1>2. \A k \in 0 .. 8 : k = 0 \/ k = 1 \/ k = 2 \/ k = 3 \/ k = 4 \/ k = 5 \/ k = 6 \/ k = 7 \/ k = 8
  OBVIOUS
<1> QED
  BY <1>1, <1>2, BitsOfWord DEF HasBits, On

LEMMA OperateWords ==
  /\ HasBits(\o200, {7}) /\ HasBits(\o100, {6}) /\ HasBits(\o040, {5}) /\ HasBits(\o020, {4})
  /\ HasBits(\o001, {0}) /\ HasBits(\o010, {3}) /\ HasBits(\o012, {3, 1})
  /\ HasBits(\o004, {2}) /\ HasBits(\o006, {2, 1})
  /\ HasBits(\o300, {7, 6}) /\ HasBits(\o240, {7, 5}) /\ HasBits(\o120, {6, 4})
  /\ HasBits(\o205, {7, 2, 0}) /\ HasBits(\o375, {7, 6, 5, 4, 3, 2, 0})
BY BitsComputed

LEMMA SkipWordBits ==
  /\ HasBits(\o500, {8, 6}) /\ HasBits(\o440, {8, 5}) /\ HasBits(\o420, {8, 4})
  /\ HasBits(\o510, {8, 6, 3}) /\ HasBits(\o450, {8, 5, 3}) /\ HasBits(\o430, {8, 4, 3})
  /\ HasBits(\o520, {8, 6, 4}) /\ HasBits(\o460, {8, 5, 4})
  /\ HasBits(\o550, {8, 6, 5, 3}) /\ HasBits(\o530, {8, 6, 4, 3}) /\ HasBits(\o470, {8, 5, 4, 3})
  /\ HasBits(\o570, {8, 6, 5, 4, 3}) /\ HasBits(\o401, {8, 0}) /\ HasBits(\o411, {8, 3, 0})
BY BitsComputed

-----------------------------------------------------------------------------
\* Group 1 on AC and link alone, in the C simulator and in the decoder.

Pair(a, l) == [ac |-> a, lk |-> l]

LEMMA PairReads == \A a, l : Pair(a, l).ac = a /\ Pair(a, l).lk = l
  BY DEF Pair

LEMMA SimulatorWords ==
  /\ \A w, k : Simulator!On(w, k) = On(w, k)
  /\ \A v, w : Simulator!Or(v, w) = Or(v, w)
  /\ \A w : Simulator!Not(w) = Not(w)
BY DEF Simulator!On, On, Simulator!Bit, Bit, Simulator!Weights, Weights,
       Simulator!Or, Or, Simulator!FromBits, FromBits, Simulator!Not, Not

\* Each of its functions.
LEMMA Operates ==
  ASSUME NEW a \in Word, NEW l \in BitValue
  PROVE  /\ Simulator!CLA(Pair(a, l)) = Pair(0, l)
         /\ Simulator!CLL(Pair(a, l)) = Pair(a, 0)
         /\ Simulator!CMA(Pair(a, l)) = Pair(Not(a), l)
         /\ Simulator!CML(Pair(a, l)) = Pair(a, 1 - l)
         /\ Simulator!IAC(Pair(a, l)) = Pair(Inc(a), l)
         /\ Simulator!RAR(Pair(a, l)) = Pair(RightAC(a, l), RightLK(a, l))
         /\ Simulator!RAL(Pair(a, l)) = Pair(LeftAC(a, l), LeftLK(a, l))
<1>1. /\ Simulator!CLA(Pair(a, l)) = Pair(0, l)
      /\ Simulator!CLL(Pair(a, l)) = Pair(a, 0)
  BY DEF Simulator!CLA, Simulator!CLL, Pair
<1>2. Simulator!CMA(Pair(a, l)) = Pair(Not(a), l)
  <2>1. a % 4096 = a
    BY SMT DEF Word
  <2> QED
    BY <2>1, SimulatorWords DEF Simulator!CMA, Simulator!Cut, Pair
<1>3. /\ Simulator!CML(Pair(a, l)) = Pair(a, 1 - l)
      /\ Simulator!IAC(Pair(a, l)) = Pair(Inc(a), l)
  BY DEF Simulator!CML, Simulator!IAC, Simulator!Cut, Inc, Pair
<1>4. Simulator!RAR(Pair(a, l)) = Pair(RightAC(a, l), RightLK(a, l))
  <2> DEFINE x == Simulator!Or(a \div 2, 2048 * l)
             y == a % 2
  <2>1. x = RightAC(a, l) /\ y = RightLK(a, l)
    BY SimulatorWords, OrTop DEF RightAC, RightLK
  <2>2. Simulator!RAR(Pair(a, l)) = [[Pair(a, l) EXCEPT !.lk = y] EXCEPT !.ac = x]
    <3> DEFINE s == Pair(a, l)
    <3>1. s.ac = a /\ s.lk = l
      BY PairReads
    <3> HIDE DEF s
    <3>2. Simulator!RAR(s) = [s EXCEPT !.lk = s.ac % 2, !.ac = Simulator!Or(s.ac \div 2, 2048 * s.lk)]
      BY DEF Simulator!RAR
    <3> QED
      BY <3>1, <3>2 DEF s
  <2> HIDE DEF x, y
  <2>3. Simulator!RAR(Pair(a, l)) = Pair(x, y)
    BY <2>2 DEF Pair
  <2> QED
    BY <2>1, <2>3
<1>5. Simulator!RAL(Pair(a, l)) = Pair(LeftAC(a, l), LeftLK(a, l))
  <2> DEFINE x == (2 * a + l) % 4096
             y == ((2 * a + l) \div 4096) % 2
  <2>1. x = LeftAC(a, l) /\ y = LeftLK(a, l)
    BY DEF LeftAC, LeftLK
  <2>2. Simulator!RAL(Pair(a, l)) = [[Pair(a, l) EXCEPT !.lk = y] EXCEPT !.ac = x]
    <3> DEFINE s == Pair(a, l)
    <3>1. s.ac = a /\ s.lk = l
      BY PairReads
    <3> HIDE DEF s
    <3>2. Simulator!RAL(s) = [s EXCEPT !.lk = ((2 * s.ac + s.lk) \div 4096) % 2,
                                       !.ac = (2 * s.ac + s.lk) % 4096]
      BY DEF Simulator!RAL, Simulator!Cut
    <3> QED
      BY <3>1, <3>2 DEF s
  <2> HIDE DEF x, y
  <2>3. Simulator!RAL(Pair(a, l)) = Pair(x, y)
    BY <2>2 DEF Pair
  <2> QED
    BY <2>1, <2>3
<1> QED
  BY <1>1, <1>2, <1>3, <1>4, <1>5

\* The shift stage of the decoder.
LEMMA Shifts ==
  ASSUME NEW w \in Word, NEW bits, HasBits(w, bits), NEW a \in Word, NEW l \in BitValue, NEW held
  PROVE  LET c == ShiftStage(w, Pair(a, l), held)
             a1 == RightAC(a, l)  l1 == RightLK(a, l)
             a2 == LeftAC(a, l)   l2 == LeftLK(a, l)
         IN  /\ 3 \notin bits /\ 2 \notin bits /\ 1 \notin bits => c = Pair(a, l)
             /\ 3 \in bits /\ 2 \in bits => c = Pair(a, l)
             /\ 3 \in bits /\ 2 \notin bits /\ 1 \notin bits => c = Pair(a1, l1)
             /\ 3 \in bits /\ 2 \notin bits /\ 1 \in bits => c = Pair(RightAC(a1, l1), RightLK(a1, l1))
             /\ 3 \notin bits /\ 2 \in bits /\ 1 \notin bits => c = Pair(a2, l2)
             /\ 3 \notin bits /\ 2 \in bits /\ 1 \in bits => c = Pair(LeftAC(a2, l2), LeftLK(a2, l2))
<1> DEFINE c == ShiftStage(w, Pair(a, l), held)
<1>1. \A k \in {1, 2, 3} : Bit(w, k) = IF k \in bits THEN 1 ELSE 0
  BY BitIsBit DEF HasBits, On, BitValue
<1>2. ShiftSelect(w) = IF 3 \in bits
                       THEN IF 2 \in bits THEN IF 1 \in bits THEN 7 ELSE 6
                            ELSE IF 1 \in bits THEN 5 ELSE 4
                       ELSE IF 2 \in bits THEN IF 1 \in bits THEN 3 ELSE 2
                            ELSE IF 1 \in bits THEN 1 ELSE 0
  BY <1>1 DEF ShiftSelect
<1>3. /\ (a % 2048) * 2 + l = LeftAC(a, l) /\ Bit(a, 11) = LeftLK(a, l)
      /\ (a % 1024) * 4 + l * 2 + Bit(a, 11) = LeftAC(LeftAC(a, l), LeftLK(a, l))
      /\ Bit(a, 10) = LeftLK(LeftAC(a, l), LeftLK(a, l))
      /\ l * 2048 + a \div 2 = RightAC(a, l) /\ Bit(a, 0) = RightLK(a, l)
      /\ Bit(a, 0) * 2048 + l * 1024 + a \div 4 = RightAC(RightAC(a, l), RightLK(a, l))
      /\ Bit(a, 1) = RightLK(RightAC(a, l), RightLK(a, l))
  BY RightWires, LeftWires DEF RightAC
<1>4. c = CASE ShiftSelect(w) = 1 -> [ac |-> (a % 64) * 64 + a \div 64, lk |-> held]
            [] ShiftSelect(w) = 2 -> [ac |-> (a % 2048) * 2 + l, lk |-> Bit(a, 11)]
            [] ShiftSelect(w) = 3 ->
                 [ac |-> (a % 1024) * 4 + l * 2 + Bit(a, 11), lk |-> Bit(a, 10)]
            [] ShiftSelect(w) = 4 -> [ac |-> l * 2048 + a \div 2, lk |-> Bit(a, 0)]
            [] ShiftSelect(w) = 5 ->
                 [ac |-> Bit(a, 0) * 2048 + l * 1024 + a \div 4, lk |-> Bit(a, 1)]
            [] OTHER -> Pair(a, l)
  BY PairReads DEF ShiftStage
<1> HIDE DEF c
<1> QED
  BY <1>2, <1>3, <1>4 DEF Pair, c

\* AC and link when the shift stage gets them, and after it.
StagedAC(bits, a) ==
  LET x == IF 7 \in bits THEN 0 ELSE a
      y == IF 5 \in bits THEN Not(x) ELSE x
  IN  IF 0 \in bits THEN Inc(y) ELSE y

StagedLK(bits, l) ==
  LET x == IF 6 \in bits THEN 0 ELSE l
  IN  IF 4 \in bits THEN 1 - x ELSE x

Shifted(bits, a, l) ==
  IF 3 \in bits
    THEN IF 2 \in bits THEN Pair(a, l)
         ELSE IF 1 \in bits
           THEN Pair(RightAC(RightAC(a, l), RightLK(a, l)), RightLK(RightAC(a, l), RightLK(a, l)))
           ELSE Pair(RightAC(a, l), RightLK(a, l))
    ELSE IF 2 \in bits
      THEN IF 1 \in bits
        THEN Pair(LeftAC(LeftAC(a, l), LeftLK(a, l)), LeftLK(LeftAC(a, l), LeftLK(a, l)))
        ELSE Pair(LeftAC(a, l), LeftLK(a, l))
      ELSE Pair(a, l)

LEMMA NotIsWord == 0 \in Word /\ \A v \in Word : Not(v) \in Word /\ Inc(v) \in Word
  BY FieldsAreWords, ByteIsWord

LEMMA StagedTypes ==
  ASSUME NEW bits, NEW a \in Word, NEW l \in BitValue
  PROVE  StagedAC(bits, a) \in Word /\ StagedLK(bits, l) \in BitValue
<1>1. 0 \in Word /\ \A v \in Word : Not(v) \in Word /\ Inc(v) \in Word
  BY NotIsWord
<1>2. 0 \in BitValue /\ \A k \in BitValue : 1 - k \in BitValue
  BY SMT DEF BitValue
<1> QED
  BY <1>1, <1>2 DEF StagedAC, StagedLK

LEMMA PipelineStages ==
  ASSUME NEW w, NEW bits, HasBits(w, bits), NEW a \in Word, NEW l \in BitValue, NEW held
  PROVE  Pipeline(w, a, l, held) = ShiftStage(w, Pair(StagedAC(bits, a), StagedLK(bits, l)), held)
<1> DEFINE x1 == IF 7 \in bits THEN 0 ELSE a
           y1 == IF 6 \in bits THEN 0 ELSE l
           x2 == IF 5 \in bits THEN Not(x1) ELSE x1
           y2 == IF 4 \in bits THEN 1 - y1 ELSE y1
           x3 == IF 0 \in bits THEN Inc(x2) ELSE x2
<1>1. \A k \in 0 .. 8 : On(w, k) <=> k \in bits
  BY DEF HasBits
<1>2. ClearStage(w, a, l) = Pair(x1, y1)
  BY <1>1 DEF ClearStage, Pair
<1>3. x3 = StagedAC(bits, a) /\ y2 = StagedLK(bits, l)
  BY DEF StagedAC, StagedLK
<1> HIDE DEF x1, y1
<1>4. ComplementStage(w, Pair(x1, y1)) = Pair(x2, y2)
  BY <1>1, PairReads DEF ComplementStage, Pair
<1> HIDE DEF x2, y2
<1>5. IncrementStage(w, Pair(x2, y2)) = Pair(x3, y2)
  BY <1>1, PairReads DEF IncrementStage, Pair
<1> QED
  BY <1>2, <1>3, <1>4, <1>5 DEF Pipeline

LEMMA SequenceStages ==
  ASSUME NEW w, NEW bits, HasBits(w, bits), NEW a \in Word, NEW l \in BitValue
  PROVE  LET s5 == Pair(StagedAC(bits, a), StagedLK(bits, l))
             s6 == IF 3 \in bits THEN IF 1 \in bits THEN Simulator!RTR(s5) ELSE Simulator!RAR(s5)
                                 ELSE s5
         IN  Simulator!Group1Sequence(w, Pair(a, l))
               = IF 2 \in bits THEN IF 1 \in bits THEN Simulator!RTL(s6) ELSE Simulator!RAL(s6)
                               ELSE s6
<1> DEFINE x1 == IF 7 \in bits THEN 0 ELSE a
           y1 == IF 6 \in bits THEN 0 ELSE l
           x2 == IF 5 \in bits THEN Not(x1) ELSE x1
           y2 == IF 4 \in bits THEN 1 - y1 ELSE y1
           x3 == IF 0 \in bits THEN Inc(x2) ELSE x2
<1>1. \A k \in 0 .. 8 : Simulator!On(w, k) <=> k \in bits
  BY SimulatorWords DEF HasBits
<1>2. x3 = StagedAC(bits, a) /\ y2 = StagedLK(bits, l)
  BY DEF StagedAC, StagedLK
<1>3. x1 \in Word /\ x2 \in Word /\ y1 \in BitValue /\ y2 \in BitValue
  <2>1. 0 \in Word /\ \A v \in Word : Not(v) \in Word
    BY NotIsWord
  <2>2. 0 \in BitValue /\ \A k \in BitValue : 1 - k \in BitValue
    BY SMT DEF BitValue
  <2> QED
    BY <2>1, <2>2
<1>4. /\ Pair(x1, l) = IF 7 \in bits THEN Simulator!CLA(Pair(a, l)) ELSE Pair(a, l)
      /\ Pair(x1, y1) = IF 6 \in bits THEN Simulator!CLL(Pair(x1, l)) ELSE Pair(x1, l)
  BY <1>3, Operates
<1> HIDE DEF x1, y1
<1>5. /\ Pair(x2, y1) = IF 5 \in bits THEN Simulator!CMA(Pair(x1, y1)) ELSE Pair(x1, y1)
      /\ Pair(x2, y2) = IF 4 \in bits THEN Simulator!CML(Pair(x2, y1)) ELSE Pair(x2, y1)
  BY <1>3, Operates
<1> HIDE DEF x2, y2
<1>6. Pair(x3, y2) = IF 0 \in bits THEN Simulator!IAC(Pair(x2, y2)) ELSE Pair(x2, y2)
  BY <1>3, Operates
<1> HIDE DEF x3
<1> QED
  BY <1>1, <1>2, <1>4, <1>5, <1>6 DEF Simulator!Group1Sequence, Simulator!When

\* Without the byte swap the two do the same.
LEMMA Group1Alike ==
  ASSUME NEW w \in Word, NEW bits, HasBits(w, bits), NEW a \in Word, NEW l \in BitValue,
         1 \in bits => 2 \in bits \/ 3 \in bits
  PROVE  LET c == Shifted(bits, StagedAC(bits, a), StagedLK(bits, l))
         IN  /\ \A held : Pipeline(w, a, l, held) = c
             /\ Simulator!Group1Sequence(w, Pair(a, l)) = c
<1> DEFINE x == StagedAC(bits, a)
           y == StagedLK(bits, l)
           x1 == RightAC(x, y)
           y1 == RightLK(x, y)
           x2 == RightAC(x1, y1)
           y2 == RightLK(x1, y1)
           x3 == LeftAC(x, y)
           y3 == LeftLK(x, y)
           s5 == Pair(x, y)
           s6 == IF 3 \in bits THEN IF 1 \in bits THEN Simulator!RTR(s5) ELSE Simulator!RAR(s5) ELSE s5
           s7 == IF 2 \in bits THEN IF 1 \in bits THEN Simulator!RTL(s6) ELSE Simulator!RAL(s6) ELSE s6
<1>1. x \in Word /\ y \in BitValue
  BY StagedTypes
<1>2. \A held : Pipeline(w, a, l, held) = Shifted(bits, x, y)
  <2> TAKE held
  <2>1. Pipeline(w, a, l, held) = ShiftStage(w, Pair(x, y), held)
    BY PipelineStages
  <2> HIDE DEF x, y
  <2> QED
    BY <1>1, <2>1, Shifts DEF Shifted
<1>3. Simulator!Group1Sequence(w, Pair(a, l)) = s7
  BY SequenceStages
<1>4. s7 = Shifted(bits, x, y)
  <2> HIDE DEF x, y
  <2>1. /\ x1 \in Word /\ y1 \in BitValue /\ x2 \in Word /\ y2 \in BitValue
        /\ x3 \in Word /\ y3 \in BitValue
    BY <1>1, RightTypes, LeftTypes
  <2>2. /\ LeftAC(x1, y1) = x /\ LeftLK(x1, y1) = y
        /\ LeftAC(x2, y2) = x1 /\ LeftLK(x2, y2) = y1
    BY <1>1, <2>1, LeftOfRight
  <2>3. /\ Simulator!RAR(s5) = Pair(x1, y1) /\ Simulator!RTR(s5) = Pair(x2, y2)
        /\ Simulator!RAL(s5) = Pair(x3, y3)
        /\ Simulator!RTL(s5) = Pair(LeftAC(x3, y3), LeftLK(x3, y3))
        /\ Simulator!RAL(Pair(x1, y1)) = s5 /\ Simulator!RTL(Pair(x2, y2)) = s5
    BY <1>1, <2>1, <2>2, Operates DEF Simulator!RTR, Simulator!RTL
  <2> QED
    BY <2>3 DEF Shifted
<1> QED
  BY <1>2, <1>3, <1>4

LEMMA OperateLine ==
  ASSUME NEW w \in Word, NEW bits, HasBits(w, bits), 8 \notin bits,
         1 \in bits => 2 \in bits \/ 3 \in bits,
         NEW a \in Word, NEW l \in BitValue, NEW x, NEW y,
         Pair(x, y) = Shifted(bits, StagedAC(bits, a), StagedLK(bits, l))
  PROVE  Right(Structure(w, a, l, x, y, 0, 1, 0, 0))
<1>1. ~On(w, 8)
  BY DEF HasBits
<1>2. /\ \A held \in BitValue : Pipeline(w, a, l, held) = Pair(x, y)
      /\ Simulator!Group1Sequence(w, Pair(a, l)) = Pair(x, y)
  BY Group1Alike
<1> QED
  BY <1>1, <1>2, OperateRight DEF Pair

-----------------------------------------------------------------------------
\* The opcode tests, for every AC and link.

LEMMA Narrow ==
  /\ \A w \in 0 .. 511 : w % 512 = w
  /\ \A a \in Word : a % 4096 = a
  /\ \A l \in BitValue : l % 2 = l
<1>1. \A w \in 0 .. 511 : w % 512 = w
  BY SMT
<1>2. \A a \in Word : a % 4096 = a
  BY SMT DEF Word
<1>3. \A l \in BitValue : l % 2 = l
  BY SMT DEF BitValue
<1> QED
  BY <1>1, <1>2, <1>3

LEMMA Group1Line ==
  ASSUME NEW w \in 0 .. 511, NEW bits, HasBits(w, bits), 8 \notin bits,
         1 \in bits => 2 \in bits \/ 3 \in bits,
         NEW a \in Word, NEW l \in BitValue, NEW newAc, NEW newLink,
         Pair((newAc % 65536) % 4096, newLink % 2)
           = Shifted(bits, StagedAC(bits, a), StagedLK(bits, l))
  PROVE  /\ Shaped(Group1Regs(w, a, l, newAc, newLink))
         /\ Right(Written(Group1Regs(w, a, l, newAc, newLink)))
<1> DEFINE n == newAc % 65536
           x == n % 4096
           y == newLink % 2
<1>1. w \in Word
  BY DEF Word
<1>2. Group1Regs(w, a, l, newAc, newLink) = Structure(w, a, l, n, newLink, 0, 1, 0, 0)
  BY DEF Group1Regs, Structure
<1> HIDE DEF n
<1>3. Shaped(Structure(w, a, l, n, newLink, 0, 1, 0, 0))
  BY StructureReads
<1>4. Written(Structure(w, a, l, n, newLink, 0, 1, 0, 0))
        = Structure(w % 512, a % 4096, l % 2, x, y, 0 % 2, 1 % 2, 0 % 2, 0 % 2)
  BY WrittenStructure
<1>5. w % 512 = w /\ a % 4096 = a /\ l % 2 = l /\ 0 % 2 = 0 /\ 1 % 2 = 1
  <2>1. 0 % 2 = 0 /\ 1 % 2 = 1
    BY SMT
  <2> QED
    BY <2>1, Narrow
<1>6. Pair(x, y) = Shifted(bits, StagedAC(bits, a), StagedLK(bits, l))
  BY DEF n
<1> HIDE DEF x, y
<1>7. Right(Structure(w, a, l, x, y, 0, 1, 0, 0))
  BY <1>1, <1>6, OperateLine
<1> QED
  BY <1>2, <1>3, <1>4, <1>5, <1>7

LEMMA Group1Opcodes ==
  ASSUME NEW op \in {"CLA", "CLL", "CMA", "CML", "IAC", "RAR", "RTR", "RAL", "RTL"},
         NEW a \in Word, NEW l \in BitValue
  PROVE  Shaped(Opcode1(op, a, l)) /\ Right(Written(Opcode1(op, a, l)))
<1>1. /\ (0 % 65536) % 4096 = 0 /\ 0 % 2 = 0
      /\ (a % 65536) % 4096 = a /\ l % 2 = l
      /\ ((65535 - a) % 65536) % 4096 = Not(a) /\ (255 - l) % 2 = 1 - l
      /\ ((a + 1) % 65536) % 4096 = Inc(a)
  <2>1. (0 % 65536) % 4096 = 0 /\ 0 % 2 = 0
    BY SMT
  <2>2. (a % 65536) % 4096 = a /\ ((a + 1) % 65536) % 4096 = Inc(a)
    BY SMT DEF Word, Inc
  <2>3. ((65535 - a) % 65536) % 4096 = Not(a)
    BY SMT DEF Word, Not
  <2>4. l % 2 = l /\ (255 - l) % 2 = 1 - l
    BY SMT DEF BitValue
  <2> QED
    BY <2>1, <2>2, <2>3, <2>4
<1>2. /\ ((a \div 2 + l * 2048) % 65536) % 4096 = RightAC(a, l)
      /\ (a % 2) % 2 = RightLK(a, l)
      /\ ((a \div 4 + l * 1024 + (a % 2) * 2048) % 65536) % 4096
           = RightAC(RightAC(a, l), RightLK(a, l))
      /\ Bit(a, 1) % 2 = RightLK(RightAC(a, l), RightLK(a, l))
  <2>1. ((a \div 2 + l * 2048) % 65536) % 4096 = l * 2048 + a \div 2
    BY SMT DEF Word, BitValue
  <2>2. (a % 2) % 2 = a % 2 /\ a % 2 \in 0 .. 1
    BY SMT DEF Word
  <2>3. ((a \div 4 + l * 1024 + (a % 2) * 2048) % 65536) % 4096
          = (a % 2) * 2048 + l * 1024 + a \div 4
    BY <2>2, SMT DEF Word, BitValue
  <2>4. Bit(a, 1) % 2 = Bit(a, 1) /\ Bit(a, 0) = a % 2
    BY BitIsBit, BitsOfWord, Narrow
  <2> QED
    BY <2>1, <2>2, <2>3, <2>4, RightWires DEF RightAC, RightLK
<1>3. /\ ((a * 2 + l) % 65536) % 4096 = LeftAC(a, l)
      /\ Bit(a, 11) % 2 = LeftLK(a, l)
      /\ ((a * 4 + l * 2 + Bit(a, 11)) % 65536) % 4096 = LeftAC(LeftAC(a, l), LeftLK(a, l))
      /\ Bit(a, 10) % 2 = LeftLK(LeftAC(a, l), LeftLK(a, l))
  <2>1. ((a * 2 + l) % 65536) % 4096 = (2 * a + l) % 4096
    BY SMT DEF Word, BitValue
  <2>2. \A b \in BitValue : ((a * 4 + l * 2 + b) % 65536) % 4096 = (a % 1024) * 4 + l * 2 + b
    BY SMT DEF Word, BitValue
  <2>3. /\ Bit(a, 11) \in BitValue /\ Bit(a, 11) % 2 = Bit(a, 11)
        /\ Bit(a, 10) % 2 = Bit(a, 10)
    BY BitIsBit, Narrow
  <2> QED
    BY <2>1, <2>2, <2>3, LeftWires DEF LeftAC
<1>4. CASE op = "CLA"
  <2>1. Opcode1(op, a, l) = Group1Regs(\o200, a, l, 0, l)
    BY <1>4 DEF Opcode1, CLA
  <2>2. Pair(0, l)
          = Shifted({7}, StagedAC({7}, a), StagedLK({7}, l))
    BY DEF Shifted, StagedAC, StagedLK
  <2> QED
    BY <1>1, <2>1, <2>2, OperateWords, Group1Line
<1>5. CASE op = "CLL"
  <2>1. Opcode1(op, a, l) = Group1Regs(\o100, a, l, a, 0)
    BY <1>5 DEF Opcode1, CLL
  <2>2. Pair(a, 0)
          = Shifted({6}, StagedAC({6}, a), StagedLK({6}, l))
    BY DEF Shifted, StagedAC, StagedLK
  <2> QED
    BY <1>1, <2>1, <2>2, OperateWords, Group1Line
<1>6. CASE op = "CMA"
  <2>1. Opcode1(op, a, l) = Group1Regs(\o040, a, l, 65535 - a, l)
    BY <1>6 DEF Opcode1, CMA
  <2>2. Pair(Not(a), l)
          = Shifted({5}, StagedAC({5}, a), StagedLK({5}, l))
    BY DEF Shifted, StagedAC, StagedLK
  <2> QED
    BY <1>1, <2>1, <2>2, OperateWords, Group1Line
<1>7. CASE op = "CML"
  <2>1. Opcode1(op, a, l) = Group1Regs(\o020, a, l, a, 255 - l)
    BY <1>7 DEF Opcode1, CML
  <2>2. Pair(a, 1 - l)
          = Shifted({4}, StagedAC({4}, a), StagedLK({4}, l))
    BY DEF Shifted, StagedAC, StagedLK
  <2> QED
    BY <1>1, <2>1, <2>2, OperateWords, Group1Line
<1>8. CASE op = "IAC"
  <2>1. Opcode1(op, a, l) = Group1Regs(\o001, a, l, a + 1, l)
    BY <1>8 DEF Opcode1, IAC
  <2>2. Pair(Inc(a), l)
          = Shifted({0}, StagedAC({0}, a), StagedLK({0}, l))
    BY DEF Shifted, StagedAC, StagedLK
  <2> QED
    BY <1>1, <2>1, <2>2, OperateWords, Group1Line
<1>9. CASE op = "RAR"
  <2>1. Opcode1(op, a, l) = Group1Regs(\o010, a, l, a \div 2 + l * 2048, a % 2)
    BY <1>9 DEF Opcode1, RAR
  <2>2. Pair(RightAC(a, l), RightLK(a, l))
          = Shifted({3}, StagedAC({3}, a), StagedLK({3}, l))
    BY DEF Shifted, StagedAC, StagedLK
  <2> QED
    BY <1>2, <2>1, <2>2, OperateWords, Group1Line
<1>10. CASE op = "RTR"
  <2>1. Opcode1(op, a, l) = Group1Regs(\o012, a, l, a \div 4 + l * 1024 + (a % 2) * 2048, Bit(a, 1))
    BY <1>10 DEF Opcode1, RTR
  <2>2. Pair(RightAC(RightAC(a, l), RightLK(a, l)), RightLK(RightAC(a, l), RightLK(a, l)))
          = Shifted({3, 1}, StagedAC({3, 1}, a), StagedLK({3, 1}, l))
    BY DEF Shifted, StagedAC, StagedLK
  <2> QED
    BY <1>2, <2>1, <2>2, OperateWords, Group1Line
<1>11. CASE op = "RAL"
  <2>1. Opcode1(op, a, l) = Group1Regs(\o004, a, l, a * 2 + l, Bit(a, 11))
    BY <1>11 DEF Opcode1, RAL
  <2>2. Pair(LeftAC(a, l), LeftLK(a, l))
          = Shifted({2}, StagedAC({2}, a), StagedLK({2}, l))
    BY DEF Shifted, StagedAC, StagedLK
  <2> QED
    BY <1>3, <2>1, <2>2, OperateWords, Group1Line
<1>12. CASE op = "RTL"
  <2>1. Opcode1(op, a, l) = Group1Regs(\o006, a, l, a * 4 + l * 2 + Bit(a, 11), Bit(a, 10))
    BY <1>12 DEF Opcode1, RTL
  <2>2. Pair(LeftAC(LeftAC(a, l), LeftLK(a, l)), LeftLK(LeftAC(a, l), LeftLK(a, l)))
          = Shifted({2, 1}, StagedAC({2, 1}, a), StagedLK({2, 1}, l))
    BY DEF Shifted, StagedAC, StagedLK
  <2> QED
    BY <1>3, <2>1, <2>2, OperateWords, Group1Line
<1> QED
  BY <1>4, <1>5, <1>6, <1>7, <1>8, <1>9, <1>10, <1>11, <1>12

\* The skip, by the bits of the instruction.
Skipped(bits, a, l) ==
  IF 3 \in bits THEN /\ 6 \in bits => ~On(a, 11)
                     /\ 5 \in bits => a # 0
                     /\ 4 \in bits => l = 0
  ELSE \/ 6 \in bits /\ On(a, 11)
       \/ 5 \in bits /\ a = 0
       \/ 4 \in bits /\ l = 1

LEMMA SkipLine ==
  ASSUME NEW w \in Word, NEW bits, HasBits(w, bits), 8 \in bits, 7 \notin bits, 0 \notin bits,
         3 \in bits \/ w % 8 = 0, NEW a \in Word, NEW l \in BitValue
  PROVE  Right(Structure(w, a, l, a, l, Value(Skipped(bits, a, l)), 0, 1, 0))
<1> DEFINE s == Pair(a, l)
<1>1. On(w, 8) /\ ~On(w, 7) /\ ~On(w, 0)
  BY DEF HasBits
<1>2. \A k \in {3, 4, 5, 6} : (On(w, k) <=> k \in bits) /\ (Simulator!On(w, k) <=> k \in bits)
  BY SimulatorWords DEF HasBits
<1>3. Skip(w, a, l) <=> Skipped(bits, a, l)
  BY <1>1, <1>2 DEF Skip, SkipAnd, SkipOr, Skipped
<1>4. Simulator!Skips(w, s) <=> Skipped(bits, a, l)
  <2>1. s.ac = a /\ s.lk = l
    BY PairReads
  <2>2. l # 0 <=> l = 1
    BY SMT DEF BitValue
  <2> HIDE DEF s
  <2>3. Simulator!OrSkips(w, s) <=> \/ 6 \in bits /\ On(a, 11)
                                    \/ 5 \in bits /\ a = 0
                                    \/ 4 \in bits /\ l = 1
    BY <1>2, <2>1, <2>2, SimulatorWords
       DEF Simulator!OrSkips, Simulator!SMA, Simulator!SZA, Simulator!SNL
  <2>4. Simulator!AndSkips(w, s) <=> /\ 6 \in bits => ~On(a, 11)
                                     /\ 5 \in bits => a # 0
                                     /\ 4 \in bits => l = 0
    BY <1>2, <2>1, SimulatorWords
       DEF Simulator!AndSkips, Simulator!SPA, Simulator!SNA, Simulator!SZL
  <2> QED
    BY <1>2, <2>3, <2>4 DEF Simulator!Skips, Skipped
<1>5. /\ Value(Skipped(bits, a, l)) = Value(Skip(w, a, l))
      /\ Value(Skipped(bits, a, l)) = Value(Simulator!Skips(w, [ac |-> a, lk |-> l]))
  BY <1>3, <1>4 DEF Value, Pair
<1> QED
  BY <1>1, <1>5, SkipRight

LEMMA ValueIsBit == 0 \in BitValue /\ 1 \in BitValue /\ \A b : Value(b) \in BitValue
  BY DEF Value, BitValue

LEMMA Group2Line ==
  ASSUME NEW w \in 0 .. 511, NEW bits, HasBits(w, bits), 8 \in bits, 7 \notin bits, 0 \notin bits,
         3 \in bits \/ w % 8 = 0, NEW a \in Word, NEW l \in BitValue
  PROVE  LET r == Structure(w, a, l, a, l, Value(Skipped(bits, a, l)), 0, 1, 0)
         IN  Shaped(r) /\ Right(Written(r))
<1> DEFINE s == Value(Skipped(bits, a, l))
<1>1. w \in Word
  BY DEF Word
<1>2. Right(Structure(w, a, l, a, l, s, 0, 1, 0))
  BY <1>1, SkipLine
<1>3. s \in BitValue /\ 0 \in BitValue /\ 1 \in BitValue
  BY ValueIsBit
<1> HIDE DEF s
<1>4. Shaped(Structure(w, a, l, a, l, s, 0, 1, 0))
  BY StructureReads
<1>5. Written(Structure(w, a, l, a, l, s, 0, 1, 0)) = Structure(w, a, l, a, l, s, 0, 1, 0)
  <2>1. /\ w % 512 = w /\ a % 4096 = a /\ l % 2 = l
        /\ s % 2 = s /\ 0 % 2 = 0 /\ 1 % 2 = 1
    BY <1>3, Narrow
  <2> QED
    BY <2>1, WrittenStructure
<1>6. Right(Written(Structure(w, a, l, a, l, s, 0, 1, 0)))
  BY <1>2, <1>5
<1> QED
  BY <1>4, <1>6 DEF s

LEMMA Group2Opcodes ==
  ASSUME NEW op \in {"SMA", "SZA", "SNL", "SPA", "SNA", "SZL"},
         NEW a \in Word, NEW l \in BitValue
  PROVE  Shaped(Opcode1(op, a, l)) /\ Right(Written(Opcode1(op, a, l)))
<1>1. l # 0 <=> l = 1
  BY SMT DEF BitValue
<1>2. \o500 % 8 = 0 /\ \o440 % 8 = 0 /\ \o420 % 8 = 0
  BY SMT
<1>3. CASE op = "SMA"
  <2>1. Opcode1(op, a, l) = Structure(\o500, a, l, a, l, Value(Skipped({8, 6}, a, l)), 0, 1, 0)
    BY <1>3 DEF Opcode1, SMA, Group2Regs, Structure, Value, Skipped
  <2> QED
    BY <1>2, <2>1, SkipWordBits, Group2Line
<1>4. CASE op = "SZA"
  <2>1. Opcode1(op, a, l) = Structure(\o440, a, l, a, l, Value(Skipped({8, 5}, a, l)), 0, 1, 0)
    BY <1>4 DEF Opcode1, SZA, Group2Regs, Structure, Value, Skipped
  <2> QED
    BY <1>2, <2>1, SkipWordBits, Group2Line
<1>5. CASE op = "SNL"
  <2>1. Opcode1(op, a, l) = Structure(\o420, a, l, a, l, Value(Skipped({8, 4}, a, l)), 0, 1, 0)
    BY <1>1, <1>5 DEF Opcode1, SNL, Group2Regs, Structure, Value, Skipped
  <2> QED
    BY <1>2, <2>1, SkipWordBits, Group2Line
<1>6. CASE op = "SPA"
  <2>1. Opcode1(op, a, l) = Structure(\o510, a, l, a, l, Value(Skipped({8, 6, 3}, a, l)), 0, 1, 0)
    BY <1>6 DEF Opcode1, SPA, Group2Regs, Structure, Value, Skipped
  <2> QED
    BY <2>1, SkipWordBits, Group2Line
<1>7. CASE op = "SNA"
  <2>1. Opcode1(op, a, l) = Structure(\o450, a, l, a, l, Value(Skipped({8, 5, 3}, a, l)), 0, 1, 0)
    BY <1>7 DEF Opcode1, SNA, Group2Regs, Structure, Value, Skipped
  <2> QED
    BY <2>1, SkipWordBits, Group2Line
<1>8. CASE op = "SZL"
  <2>1. Opcode1(op, a, l) = Structure(\o430, a, l, a, l, Value(Skipped({8, 4, 3}, a, l)), 0, 1, 0)
    BY <1>8 DEF Opcode1, SZL, Group2Regs, Structure, Value, Skipped
  <2> QED
    BY <2>1, SkipWordBits, Group2Line
<1> QED
  BY <1>3, <1>4, <1>5, <1>6, <1>7, <1>8

-----------------------------------------------------------------------------
\* The tests, in their order.

Opcodes == {"CLA", "CLL", "CMA", "CML", "IAC", "RAR", "RTR", "RAL", "RTL",
            "SMA", "SZA", "SNL", "SPA", "SNA", "SZL"}

\* The structure a directed test is meant to leave: what it does not set is
\* the group of its instruction, and the skip is clear in group 1 only.
Result(t) ==
  LET w == t.set.i_reg
  IN  Structure(w, t.set.ac_reg, t.set.l_reg, t.set.result_ac, t.set.result_link,
                IF "skip" \in DOMAIN t.wires THEN t.wires.skip ELSE Value(On(w, 8)),
                Value(Group1(w)), Value(Group2(w)), Value(Group3(w)))

\* A test whose line is right.
Good(t) ==
  \/ t.kind = "single" /\ t.op \in Opcodes /\ t.ac \in Word
  \/ t.kind = "exhaustive" /\ t.op \in Opcodes
  \/ t.kind = "directed" /\ Shaped(Result(t)) /\ Right(Written(Result(t)))

\* Structure r has what test t leaves out; every structure has what t leaves
\* out; what u leaves out is what t has left.
Ready(t, r) == Shaped(r) /\ (t.kind = "directed" => Assigned(t, r) = Result(t))
Free(t) == \A r : Shaped(r) => Ready(t, r)
Leads(t, u) == Free(u) \/ (t.kind = "directed" /\ Ready(u, Result(t)))

Chained(s) ==
  /\ \E S : s \in Seq(S)
  /\ \A k \in 1 .. Len(s) : Good(s[k])
  /\ Len(s) > 0 => Free(s[1])
  /\ \A k \in 1 .. Len(s) : k > 1 => Leads(s[k - 1], s[k])

LEMMA ChainsJoin ==
  ASSUME NEW s, NEW t, Chained(s), Chained(t)
  PROVE  Chained(s \o t)
<1>1. PICK S : s \in Seq(S)
  BY DEF Chained
<1>2. PICK T : t \in Seq(T)
  BY DEF Chained
<1>3. s \in Seq(S \cup T) /\ t \in Seq(S \cup T)
  BY <1>1, <1>2
<1> DEFINE u == s \o t
<1>4. /\ u \in Seq(S \cup T) /\ Len(u) = Len(s) + Len(t)
      /\ Len(s) \in Nat /\ Len(t) \in Nat
      /\ \A k \in 1 .. Len(s) : u[k] = s[k]
      /\ \A k \in 1 .. Len(u) : k > Len(s) => u[k] = t[k - Len(s)]
  BY <1>3
<1> HIDE DEF u
<1>5. ASSUME NEW k \in 1 .. Len(u)
      PROVE  Good(u[k]) /\ (k > 1 => Leads(u[k - 1], u[k]))
  <2>1. CASE k <= Len(s)
    <3>1. k \in 1 .. Len(s) /\ u[k] = s[k] /\ (k > 1 => u[k - 1] = s[k - 1])
      BY <1>4, <2>1
    <3> QED
      BY <3>1 DEF Chained
  <2>2. CASE k > Len(s)
    <3> DEFINE j == k - Len(s)
    <3>1. j \in 1 .. Len(t) /\ u[k] = t[j]
      BY <1>4, <2>2
    <3>2. CASE j = 1
      <4>1. Leads(u[k - 1], t[j])
        BY <3>1, <3>2 DEF Chained, Leads
      <4> QED
        BY <3>1, <4>1 DEF Chained
    <3>3. CASE j > 1
      <4>1. u[k - 1] = t[j - 1]
        BY <1>4, <3>1, <3>3
      <4> HIDE DEF j
      <4> QED
        BY <3>1, <3>3, <4>1 DEF Chained
    <3> QED
      BY <3>1, <3>2, <3>3
  <2> QED
    BY <1>4, <2>1, <2>2
<1>6. Len(u) > 0 => Free(u[1])
  <2>1. CASE Len(s) > 0
    BY <1>4, <2>1 DEF Chained
  <2>2. CASE Len(s) = 0
    BY <1>4, <2>2 DEF Chained
  <2> QED
    BY <1>4, <2>1, <2>2
<1> QED
  BY <1>4, <1>5, <1>6 DEF Chained, u

LEMMA ChainOptional ==
  ASSUME NEW flags, NEW s, Chained(s)
  PROVE  Chained(If(flags, s))
<1>1. Chained(<<>>)
  <2>1. <<>> \in Seq({}) /\ Len(<<>>) = 0
    OBVIOUS
  <2> QED
    BY <2>1 DEF Chained
<1> QED
  BY <1>1 DEF If

\* A list of opcode tests.
LEMMA OpcodesChained ==
  ASSUME NEW s, \E S : s \in Seq(S),
         \A k \in 1 .. Len(s) : s[k].kind # "directed" /\ Good(s[k])
  PROVE  Chained(s)
<1>1. \A k \in 1 .. Len(s) : Free(s[k])
  BY DEF Free, Ready
<1>2. Len(s) \in Nat
  OBVIOUS
<1> QED
  BY <1>1, <1>2 DEF Chained, Leads

LEMMA OpcodeTests ==
  /\ Chained(group1_single_tests) /\ Chained(group1_exhaustive_tests)
  /\ Chained(group2_single_tests) /\ Chained(group2_exhaustive_tests)
<1>1. \A op \in Opcodes, a \in Word :
        Single(op, a).kind # "directed" /\ Good(Single(op, a))
  BY DEF Good, Single
<1>2. \A op \in Opcodes : Exhaustive(op).kind # "directed" /\ Good(Exhaustive(op))
  BY DEF Good, Exhaustive
<1>3. \A op \in {"CLA", "CLL", "CMA", "CML", "IAC", "RAR", "RTR", "RAL", "RTL",
                 "SMA", "SZA", "SNL", "SPA", "SNA", "SZL"} : op \in Opcodes
  BY DEF Opcodes
<1>4. /\ \o7654 \in Word /\ 0 \in Word /\ \o7776 \in Word /\ \o7777 \in Word
      /\ \o4001 \in Word /\ 1 \in Word /\ 4 \in Word
  BY SMT DEF Word
<1> DEFINE Opcodeful(t) == t.kind # "directed" /\ Good(t)
<1>5. /\ \A op \in Opcodes, a \in Word : Opcodeful(Single(op, a))
      /\ \A op \in Opcodes : Opcodeful(Exhaustive(op))
  BY <1>1, <1>2
<1> HIDE DEF Opcodeful
<1>6. \A k \in 1 .. Len(group1_single_tests) : Opcodeful(group1_single_tests[k])
  BY <1>3, <1>4, <1>5 DEF group1_single_tests
<1>7. \A k \in 1 .. Len(group1_exhaustive_tests) : Opcodeful(group1_exhaustive_tests[k])
  BY <1>3, <1>5 DEF group1_exhaustive_tests
<1>8. \A k \in 1 .. Len(group2_single_tests) : Opcodeful(group2_single_tests[k])
  BY <1>3, <1>4, <1>5 DEF group2_single_tests
<1>9. \A k \in 1 .. Len(group2_exhaustive_tests) : Opcodeful(group2_exhaustive_tests[k])
  BY <1>3, <1>5 DEF group2_exhaustive_tests
<1>10. /\ \E S : group1_single_tests \in Seq(S)
       /\ \E S : group1_exhaustive_tests \in Seq(S)
       /\ \E S : group2_single_tests \in Seq(S)
       /\ \E S : group2_exhaustive_tests \in Seq(S)
  <2> DEFINE S == {Single(op, a) : op \in Opcodes, a \in Word} \cup {Exhaustive(op) : op \in Opcodes}
  <2>1. /\ \A op \in Opcodes, a \in Word : Single(op, a) \in S
        /\ \A op \in Opcodes : Exhaustive(op) \in S
    OBVIOUS
  <2> HIDE DEF S
  <2>2. group1_single_tests \in Seq(S)
    BY <1>3, <1>4, <2>1 DEF group1_single_tests
  <2>3. group1_exhaustive_tests \in Seq(S)
    BY <1>3, <2>1 DEF group1_exhaustive_tests
  <2>4. group2_single_tests \in Seq(S)
    BY <1>3, <1>4, <2>1 DEF group2_single_tests
  <2>5. group2_exhaustive_tests \in Seq(S)
    BY <1>3, <2>1 DEF group2_exhaustive_tests
  <2> QED
    BY <2>2, <2>3, <2>4, <2>5
<1> QED
  BY <1>6, <1>7, <1>8, <1>9, <1>10, OpcodesChained DEF Opcodeful

-----------------------------------------------------------------------------
\* The directed tests.

LEMMA DirectedReads ==
  ASSUME NEW i, NEW a, NEW l, NEW x, NEW y, NEW wires
  PROVE  LET t == Directed(i, a, l, x, y, wires)
         IN  /\ t.kind = "directed" /\ t.wires = wires
             /\ DOMAIN t.set = {"i_reg", "ac_reg", "l_reg", "result_ac", "result_link"}
             /\ t.set["i_reg"] = i /\ t.set["ac_reg"] = a /\ t.set["l_reg"] = l
             /\ t.set["result_ac"] = x /\ t.set["result_link"] = y
BY DEF Directed

LEMMA DirectedAssigns ==
  ASSUME NEW i, NEW a, NEW l, NEW x, NEW y, NEW wires, NEW r, Shaped(r)
  PROVE  Assigned(Directed(i, a, l, x, y, wires), r)
           = Structure(i, a, l, x, y,
                       IF "skip" \in DOMAIN wires THEN wires["skip"] ELSE r.skip,
                       IF "micro_g1" \in DOMAIN wires THEN wires["micro_g1"] ELSE r.micro_g1,
                       IF "micro_g2" \in DOMAIN wires THEN wires["micro_g2"] ELSE r.micro_g2,
                       IF "micro_g3" \in DOMAIN wires THEN wires["micro_g3"] ELSE r.micro_g3)
<1> DEFINE t == Directed(i, a, l, x, y, wires)
<1>1. DOMAIN r = {"i_reg", "ac_reg", "l_reg", "result_ac", "result_link",
                  "skip", "micro_g1", "micro_g2", "micro_g3"}
  BY DEF Shaped, Structure
<1>2. /\ t.wires = wires
      /\ DOMAIN t.set = {"i_reg", "ac_reg", "l_reg", "result_ac", "result_link"}
      /\ t.set["i_reg"] = i /\ t.set["ac_reg"] = a /\ t.set["l_reg"] = l
      /\ t.set["result_ac"] = x /\ t.set["result_link"] = y
  BY DirectedReads
<1> HIDE DEF t
<1>3. Assigned(t, r)
        = Structure(i, a, l, x, y,
                    IF "skip" \in DOMAIN wires THEN wires["skip"] ELSE r.skip,
                    IF "micro_g1" \in DOMAIN wires THEN wires["micro_g1"] ELSE r.micro_g1,
                    IF "micro_g2" \in DOMAIN wires THEN wires["micro_g2"] ELSE r.micro_g2,
                    IF "micro_g3" \in DOMAIN wires THEN wires["micro_g3"] ELSE r.micro_g3)
  BY <1>1, <1>2 DEF Assigned, Structure
<1> QED
  BY <1>3 DEF t

LEMMA DirectedResult ==
  ASSUME NEW i, NEW bits, HasBits(i, bits), NEW a, NEW l, NEW x, NEW y, NEW wires
  PROVE  Result(Directed(i, a, l, x, y, wires))
           = Structure(i, a, l, x, y,
                       IF "skip" \in DOMAIN wires THEN wires["skip"] ELSE IF 8 \in bits THEN 1 ELSE 0,
                       IF 8 \in bits THEN 0 ELSE 1,
                       IF 8 \in bits /\ 0 \notin bits THEN 1 ELSE 0,
                       IF 8 \in bits /\ 0 \in bits THEN 1 ELSE 0)
<1>1. (On(i, 8) <=> 8 \in bits) /\ (On(i, 0) <=> 0 \in bits)
  BY DEF HasBits
<1> QED
  BY <1>1, DirectedReads DEF Result, Value, Group1, Group2, Group3

LEMMA GoodDirected ==
  ASSUME NEW t, t.kind = "directed",
         NEW w \in 0 .. 511, NEW a \in Word, NEW l \in BitValue, NEW x \in Word, NEW y \in BitValue,
         NEW s \in BitValue, NEW g1 \in BitValue, NEW g2 \in BitValue, NEW g3 \in BitValue,
         Result(t) = Structure(w, a, l, x, y, s, g1, g2, g3),
         Right(Structure(w, a, l, x, y, s, g1, g2, g3))
  PROVE  Good(t)
<1>1. /\ w % 512 = w /\ a % 4096 = a /\ l % 2 = l /\ x % 4096 = x /\ y % 2 = y
      /\ s % 2 = s /\ g1 % 2 = g1 /\ g2 % 2 = g2 /\ g3 % 2 = g3
  BY Narrow
<1>2. Written(Result(t)) = Result(t)
  BY <1>1, WrittenStructure
<1> QED
  BY <1>2, StructureReads DEF Good

\* What the tests that do not set the group find.
Operated(r) == Shaped(r) /\ r.skip = 0 /\ r.micro_g1 = 1 /\ r.micro_g2 = 0 /\ r.micro_g3 = 0
Skipping(r) == Shaped(r) /\ r.micro_g1 = 0 /\ r.micro_g2 = 1 /\ r.micro_g3 = 0

LEMMA WiresRead ==
  ASSUME NEW s, NEW g1, NEW g2, NEW g3
  PROVE  /\ DOMAIN Wires(s, g1, g2, g3) = {"skip", "micro_g1", "micro_g2", "micro_g3"}
         /\ Wires(s, g1, g2, g3)["skip"] = s /\ Wires(s, g1, g2, g3)["micro_g1"] = g1
         /\ Wires(s, g1, g2, g3)["micro_g2"] = g2 /\ Wires(s, g1, g2, g3)["micro_g3"] = g3
         /\ DOMAIN NoWires = {}
         /\ DOMAIN [skip |-> s] = {"skip"} /\ [skip |-> s]["skip"] = s
BY DEF Wires, NoWires

LEMMA OperateTest ==
  ASSUME NEW w \in 0 .. 511, NEW bits, HasBits(w, bits), 8 \notin bits,
         1 \in bits => 2 \in bits \/ 3 \in bits,
         NEW a \in Word, NEW l \in BitValue, NEW x \in Word, NEW y \in BitValue,
         Pair(x, y) = Shifted(bits, StagedAC(bits, a), StagedLK(bits, l))
  PROVE  LET t == Directed(w, a, l, x, y, Wires(0, 1, 0, 0))
             u == Directed(w, a, l, x, y, NoWires)
         IN  /\ t.kind = "directed" /\ Good(t) /\ Free(t) /\ Operated(Result(t))
             /\ u.kind = "directed" /\ Good(u) /\ Operated(Result(u))
             /\ \A r : Operated(r) => Ready(u, r)
<1> DEFINE t == Directed(w, a, l, x, y, Wires(0, 1, 0, 0))
           u == Directed(w, a, l, x, y, NoWires)
           r0 == Structure(w, a, l, x, y, 0, 1, 0, 0)
<1>1. t.kind = "directed" /\ u.kind = "directed"
  BY DirectedReads
<1>2. Result(t) = r0 /\ Result(u) = r0
  BY WiresRead, DirectedResult
<1>3. \A r : Shaped(r) => Assigned(t, r) = r0
  BY WiresRead, DirectedAssigns
<1>4. \A r : Operated(r) => Assigned(u, r) = r0
  BY WiresRead, DirectedAssigns DEF Operated
<1>5. Operated(r0) /\ Shaped(r0)
  BY StructureReads DEF Operated
<1>6. Right(r0)
  <2>1. w \in Word
    BY DEF Word
  <2> QED
    BY <2>1, OperateLine
<1>7. Good(t) /\ Good(u)
  BY <1>1, <1>2, <1>6, ValueIsBit, GoodDirected
<1> HIDE DEF t, u, r0
<1>8. Free(t) /\ \A r : Operated(r) => Ready(u, r)
  BY <1>2, <1>3, <1>4 DEF Free, Ready, Operated
<1> QED
  BY <1>1, <1>2, <1>5, <1>7, <1>8 DEF t, u

LEMMA SkipTest ==
  ASSUME NEW w \in 0 .. 511, NEW bits, HasBits(w, bits), 8 \in bits, 7 \notin bits, 0 \notin bits,
         3 \in bits \/ w % 8 = 0, NEW a \in Word, NEW l \in BitValue,
         NEW s, s = Value(Skipped(bits, a, l))
  PROVE  LET t == KeptIn(w, a, l, Wires(s, 0, 1, 0))
             u == Kept(w, a, l, s)
             v == KeptIn(w, a, l, NoWires)
         IN  /\ t.kind = "directed" /\ Good(t) /\ Free(t)
             /\ Skipping(Result(t)) /\ Result(t).skip = s
             /\ u.kind = "directed" /\ Good(u) /\ Skipping(Result(u))
             /\ \A r : Skipping(r) => Ready(u, r)
             /\ s = 1 => /\ v.kind = "directed" /\ Good(v) /\ Skipping(Result(v))
                         /\ \A r : Skipping(r) /\ r.skip = 1 => Ready(v, r)
<1> DEFINE t == Directed(w, a, l, a, l, Wires(s, 0, 1, 0))
           u == Directed(w, a, l, a, l, [skip |-> s])
           v == Directed(w, a, l, a, l, NoWires)
           r0 == Structure(w, a, l, a, l, s, 0, 1, 0)
<1>1. t.kind = "directed" /\ u.kind = "directed" /\ v.kind = "directed"
  BY DirectedReads
<1>2. Result(t) = r0 /\ Result(u) = r0 /\ (s = 1 => Result(v) = r0)
  BY WiresRead, DirectedResult
<1>3. \A r : Shaped(r) => Assigned(t, r) = r0
  BY WiresRead, DirectedAssigns
<1>4. \A r : Skipping(r) => Assigned(u, r) = r0
  BY WiresRead, DirectedAssigns DEF Skipping
<1>5. s = 1 => \A r : Skipping(r) /\ r.skip = 1 => Assigned(v, r) = r0
  BY WiresRead, DirectedAssigns DEF Skipping
<1>6. Skipping(r0) /\ r0.skip = s
  BY StructureReads DEF Skipping
<1>7. Right(r0)
  <2>1. w \in Word
    BY DEF Word
  <2> QED
    BY <2>1, SkipLine
<1>8. Good(t) /\ Good(u) /\ (s = 1 => Good(v))
  BY <1>1, <1>2, <1>7, ValueIsBit, GoodDirected
<1> HIDE DEF t, u, v, r0
<1>9. /\ Free(t)
      /\ \A r : Skipping(r) => Ready(u, r)
      /\ s = 1 => \A r : Skipping(r) /\ r.skip = 1 => Ready(v, r)
  BY <1>2, <1>3, <1>4, <1>5 DEF Free, Ready, Skipping
<1>10. t = KeptIn(w, a, l, Wires(s, 0, 1, 0)) /\ u = Kept(w, a, l, s) /\ v = KeptIn(w, a, l, NoWires)
  BY DEF t, u, v, Kept, KeptIn
<1> QED
  BY <1>1, <1>2, <1>6, <1>8, <1>9, <1>10

LEMMA Group3Test ==
  ASSUME NEW w \in 0 .. 511, NEW bits, HasBits(w, bits), 8 \in bits, 7 \notin bits, 0 \in bits,
         NEW a \in Word, NEW l \in BitValue, NEW s, s = Value(Skip(w, a, l))
  PROVE  LET t == KeptIn(w, a, l, Wires(s, 0, 0, 1))
         IN  Good(t) /\ Free(t)
<1> DEFINE t == Directed(w, a, l, a, l, Wires(s, 0, 0, 1))
           r0 == Structure(w, a, l, a, l, s, 0, 0, 1)
<1>1. t.kind = "directed"
  BY DirectedReads
<1>2. Result(t) = r0
  BY WiresRead, DirectedResult
<1>3. \A r : Shaped(r) => Assigned(t, r) = r0
  BY WiresRead, DirectedAssigns
<1>4. Right(r0)
  BY Group3Right DEF HasBits
<1>5. Good(t)
  BY <1>1, <1>2, <1>4, ValueIsBit, GoodDirected
<1> HIDE DEF t, r0
<1>6. Free(t)
  BY <1>2, <1>3 DEF Free, Ready
<1> QED
  BY <1>5, <1>6 DEF t, KeptIn

\* The three lists: the first test sets everything, and each other one finds
\* what it needs in what its predecessor leaves.
LEMMA Group1DirectedTests == Chained(group1_directed_tests)
<1>1. /\ \o7777 = 4095 /\ 4095 \in Word /\ 0 \in Word /\ 2 \in Word /\ 0 \in BitValue /\ 1 \in BitValue
      /\ Not(0) = 4095 /\ Not(4095) = 0 /\ Inc(0) = 1 /\ Inc(4095) = 0 /\ 1 - 0 = 1 /\ 1 - 1 = 0
      /\ LeftAC(1, 0) = 2 /\ LeftLK(1, 0) = 0
  BY SMT DEF Word, BitValue, Not, Inc, LeftAC, LeftLK
<1> DEFINE OperateStart(t) == t.kind = "directed" /\ Good(t) /\ Free(t) /\ Operated(Result(t))
           OperateNext(t) == /\ t.kind = "directed" /\ Good(t) /\ Operated(Result(t))
                             /\ \A r : Operated(r) => Ready(t, r)
           t1 == Directed(\o300, \o7777, 1, 0, 0, Wires(0, 1, 0, 0))
           t2 == Directed(\o240, \o7777, 1, \o7777, 1, NoWires)
           t3 == Directed(\o120, \o7777, 1, \o7777, 1, NoWires)
           t4 == Directed(\o205, \o7777, 0, 2, 0, NoWires)
           t5 == Directed(\o375, \o7777, 1, 0, 1, NoWires)
<1>2. OperateStart(t1)
  <2>1. Pair(0, 0) = Shifted({7, 6}, StagedAC({7, 6}, 4095), StagedLK({7, 6}, 1))
    BY DEF Shifted, StagedAC, StagedLK
  <2>2. \o300 \in 0 .. 511 /\ HasBits(\o300, {7, 6})
    BY OperateWords
  <2> QED
    BY <1>1, <2>1, <2>2, OperateTest
<1>3. OperateNext(t2)
  <2>1. Pair(4095, 1) = Shifted({7, 5}, StagedAC({7, 5}, 4095), StagedLK({7, 5}, 1))
    BY <1>1 DEF Shifted, StagedAC, StagedLK
  <2>2. \o240 \in 0 .. 511 /\ HasBits(\o240, {7, 5})
    BY OperateWords
  <2> QED
    BY <1>1, <2>1, <2>2, OperateTest
<1>4. OperateNext(t3)
  <2>1. Pair(4095, 1) = Shifted({6, 4}, StagedAC({6, 4}, 4095), StagedLK({6, 4}, 1))
    BY <1>1 DEF Shifted, StagedAC, StagedLK
  <2>2. \o120 \in 0 .. 511 /\ HasBits(\o120, {6, 4})
    BY OperateWords
  <2> QED
    BY <1>1, <2>1, <2>2, OperateTest
<1>5. OperateNext(t4)
  <2>1. Pair(2, 0) = Shifted({7, 2, 0}, StagedAC({7, 2, 0}, 4095), StagedLK({7, 2, 0}, 0))
    BY <1>1 DEF Shifted, StagedAC, StagedLK
  <2>2. \o205 \in 0 .. 511 /\ HasBits(\o205, {7, 2, 0})
    BY OperateWords
  <2> QED
    BY <1>1, <2>1, <2>2, OperateTest
<1>6. OperateNext(t5)
  <2>1. Pair(0, 1) = Shifted({7, 6, 5, 4, 3, 2, 0}, StagedAC({7, 6, 5, 4, 3, 2, 0}, 4095),
                             StagedLK({7, 6, 5, 4, 3, 2, 0}, 1))
    BY <1>1 DEF Shifted, StagedAC, StagedLK
  <2>2. \o375 \in 0 .. 511 /\ HasBits(\o375, {7, 6, 5, 4, 3, 2, 0})
    BY OperateWords
  <2> QED
    BY <1>1, <2>1, <2>2, OperateTest
<1>7. group1_directed_tests = <<t1, t2, t3, t4, t5>>
  BY DEF group1_directed_tests
<1> HIDE DEF t1, t2, t3, t4, t5
<1> DEFINE s == <<t1, t2, t3, t4, t5>>
<1>8. s \in Seq({t1, t2, t3, t4, t5}) /\ Len(s) = 5
  OBVIOUS
<1>9. s[1] = t1 /\ s[2] = t2 /\ s[3] = t3 /\ s[4] = t4 /\ s[5] = t5
  OBVIOUS
<1> HIDE DEF s
<1>10. \A k \in 1 .. 5 : Good(s[k])
  BY <1>2, <1>3, <1>4, <1>5, <1>6, <1>9
<1>11. \A k \in 1 .. 5 : k > 1 => Leads(s[k - 1], s[k])
  <2>1. Leads(t1, t2) /\ Leads(t2, t3) /\ Leads(t3, t4) /\ Leads(t4, t5)
    BY <1>2, <1>3, <1>4, <1>5, <1>6 DEF Leads
  <2> QED
    BY <1>9, <2>1
<1>12. Chained(s)
  BY <1>2, <1>8, <1>9, <1>10, <1>11 DEF Chained
<1> QED
  BY <1>7, <1>12 DEF s

LEMMA SignOfTests ==
  /\ \o4001 \in Word /\ 0 \in Word /\ 1 \in Word /\ 0 \in BitValue /\ 1 \in BitValue
  /\ On(\o4001, 11) /\ ~On(0, 11) /\ ~On(1, 11) /\ \o4001 # 0
<1>1. /\ \o4001 \in Word /\ 0 \in Word /\ 1 \in Word /\ 0 \in BitValue /\ 1 \in BitValue
      /\ \o4001 # 0
  BY SMT DEF Word, BitValue
<1>2. (\o4001 \div 2048) % 2 = 1 /\ (0 \div 2048) % 2 = 0 /\ (1 \div 2048) % 2 = 0
  BY SMT
<1> QED
  BY <1>1, <1>2, BitsOfWord DEF On

LEMMA Group2OrTests == Chained(group2_or_directed_tests)
<1> DEFINE t1 == KeptIn(\o520, \o4001, 1, Wires(1, 0, 1, 0))
           t2 == KeptIn(\o460, 0, 1, NoWires)
           s == <<t1, t2>>
<1>1. \o520 % 8 = 0 /\ \o460 % 8 = 0
  BY SMT
<1>2. t1.kind = "directed" /\ Good(t1) /\ Free(t1) /\ Skipping(Result(t1)) /\ Result(t1).skip = 1
  <2>1. 1 = Value(Skipped({8, 6, 4}, \o4001, 1))
    BY SignOfTests DEF Skipped, Value
  <2>2. \o520 \in 0 .. 511 /\ HasBits(\o520, {8, 6, 4})
    BY SkipWordBits
  <2> QED
    BY <1>1, <2>1, <2>2, SignOfTests, SkipTest
<1>3. /\ t2.kind = "directed" /\ Good(t2)
      /\ \A r : Skipping(r) /\ r.skip = 1 => Ready(t2, r)
  <2>1. 1 = Value(Skipped({8, 5, 4}, 0, 1))
    BY DEF Skipped, Value
  <2>2. \o460 \in 0 .. 511 /\ HasBits(\o460, {8, 5, 4})
    BY SkipWordBits
  <2> QED
    BY <1>1, <2>1, <2>2, SignOfTests, SkipTest
<1>4. group2_or_directed_tests = s
  BY DEF group2_or_directed_tests
<1> HIDE DEF t1, t2
<1>5. s \in Seq({t1, t2}) /\ Len(s) = 2 /\ s[1] = t1 /\ s[2] = t2
  OBVIOUS
<1> HIDE DEF s
<1>6. /\ \A k \in 1 .. 2 : Good(s[k])
      /\ \A k \in 1 .. 2 : k > 1 => Leads(s[k - 1], s[k])
  BY <1>2, <1>3, <1>5 DEF Leads
<1> QED
  BY <1>2, <1>4, <1>5, <1>6 DEF Chained

LEMMA Group2AndTests == Chained(group2_and_directed_tests)
<1> DEFINE SkipStart(t) == t.kind = "directed" /\ Good(t) /\ Free(t) /\ Skipping(Result(t))
           SkipNext(t) == /\ t.kind = "directed" /\ Good(t) /\ Skipping(Result(t))
                          /\ \A r : Skipping(r) => Ready(t, r)
<1>1. SkipStart(KeptIn(\o550, \o4001, 0, Wires(0, 0, 1, 0)))
  <2>1. 0 = Value(Skipped({8, 6, 5, 3}, \o4001, 0))
    BY SignOfTests DEF Skipped, Value
  <2>2. \o550 \in 0 .. 511 /\ HasBits(\o550, {8, 6, 5, 3})
    BY SkipWordBits
  <2> QED
    BY <2>1, <2>2, SignOfTests, SkipTest
<1>2. /\ SkipNext(Kept(\o550, 0, 0, 0))
      /\ SkipNext(Kept(\o550, 1, 0, 1))
  <2>1. /\ 0 = Value(Skipped({8, 6, 5, 3}, 0, 0))
        /\ 1 = Value(Skipped({8, 6, 5, 3}, 1, 0))
    BY SignOfTests DEF Skipped, Value
  <2>2. \o550 \in 0 .. 511 /\ HasBits(\o550, {8, 6, 5, 3})
    BY SkipWordBits
  <2> QED
    BY <2>1, <2>2, SignOfTests, SkipTest
<1>3. /\ SkipNext(Kept(\o530, \o4001, 1, 0))
      /\ SkipNext(Kept(\o530, \o4001, 0, 0))
      /\ SkipNext(Kept(\o530, 1, 1, 0))
      /\ SkipNext(Kept(\o530, 1, 0, 1))
  <2>1. /\ 0 = Value(Skipped({8, 6, 4, 3}, \o4001, 1))
        /\ 0 = Value(Skipped({8, 6, 4, 3}, \o4001, 0))
        /\ 0 = Value(Skipped({8, 6, 4, 3}, 1, 1))
        /\ 1 = Value(Skipped({8, 6, 4, 3}, 1, 0))
    BY SignOfTests DEF Skipped, Value
  <2>2. \o530 \in 0 .. 511 /\ HasBits(\o530, {8, 6, 4, 3})
    BY SkipWordBits
  <2> QED
    BY <2>1, <2>2, SignOfTests, SkipTest
<1>4. /\ SkipNext(Kept(\o470, 0, 1, 0))
      /\ SkipNext(Kept(\o470, 1, 1, 0))
      /\ SkipNext(Kept(\o470, 1, 0, 1))
  <2>1. /\ 0 = Value(Skipped({8, 5, 4, 3}, 0, 1))
        /\ 0 = Value(Skipped({8, 5, 4, 3}, 1, 1))
        /\ 1 = Value(Skipped({8, 5, 4, 3}, 1, 0))
    BY SignOfTests DEF Skipped, Value
  <2>2. \o470 \in 0 .. 511 /\ HasBits(\o470, {8, 5, 4, 3})
    BY SkipWordBits
  <2> QED
    BY <2>1, <2>2, SignOfTests, SkipTest
<1>5. /\ SkipNext(Kept(\o570, \o4001, 1, 0))
      /\ SkipNext(Kept(\o570, \o4001, 0, 0))
      /\ SkipNext(Kept(\o570, 1, 1, 0))
      /\ SkipNext(Kept(\o570, 1, 0, 1))
  <2>1. /\ 0 = Value(Skipped({8, 6, 5, 4, 3}, \o4001, 1))
        /\ 0 = Value(Skipped({8, 6, 5, 4, 3}, \o4001, 0))
        /\ 0 = Value(Skipped({8, 6, 5, 4, 3}, 1, 1))
        /\ 1 = Value(Skipped({8, 6, 5, 4, 3}, 1, 0))
    BY SignOfTests DEF Skipped, Value
  <2>2. \o570 \in 0 .. 511 /\ HasBits(\o570, {8, 6, 5, 4, 3})
    BY SkipWordBits
  <2> QED
    BY <2>1, <2>2, SignOfTests, SkipTest
<1> DEFINE s == group2_and_directed_tests
<1> HIDE DEF SkipStart, SkipNext
<1>6. \E S : s \in Seq(S)
  <2> DEFINE t1 == KeptIn(\o550, \o4001, 0, Wires(0, 0, 1, 0))
             S == {t1} \cup {Kept(w, a, l, b) : w \in Word, a \in Word, l \in BitValue, b \in BitValue}
  <2>1. /\ t1 \in S
        /\ \A w, a \in Word, l, b \in BitValue : Kept(w, a, l, b) \in S
    OBVIOUS
  <2>2. \o550 \in Word /\ \o530 \in Word /\ \o470 \in Word /\ \o570 \in Word
    BY SMT DEF Word
  <2> HIDE DEF S
  <2>3. s \in Seq(S)
    BY <2>1, <2>2, SignOfTests DEF group2_and_directed_tests
  <2> QED
    BY <2>3
<1>7. Len(s) = 15
  BY DEF group2_and_directed_tests
<1>8. SkipStart(s[1]) /\ \A k \in 1 .. 15 : k > 1 => SkipNext(s[k])
  BY <1>1, <1>2, <1>3, <1>4, <1>5 DEF group2_and_directed_tests
<1> HIDE DEF s
<1>9. \A k \in 1 .. 15 : Good(s[k])
  BY <1>8 DEF SkipStart, SkipNext
<1>10. \A k \in 1 .. 15 : k > 1 => Leads(s[k - 1], s[k])
  <2> SUFFICES ASSUME NEW k \in 1 .. 15, k > 1 PROVE Leads(s[k - 1], s[k])
    OBVIOUS
  <2>1. s[k - 1].kind = "directed" /\ Skipping(Result(s[k - 1]))
    <3>1. k - 1 \in 1 .. 15
      OBVIOUS
    <3> QED
      BY <1>8, <3>1 DEF SkipStart, SkipNext
  <2> QED
    BY <1>8, <2>1 DEF SkipNext, Leads
<1>11. Free(s[1])
  BY <1>8 DEF SkipStart
<1>12. Chained(s)
  BY <1>6, <1>7, <1>9, <1>10, <1>11 DEF Chained
<1> QED
  BY <1>12 DEF s

LEMMA Group3Tests == Chained(group3_tests)
<1> DEFINE t1 == KeptIn(\o401, \o4001, 1, Wires(0, 0, 0, 1))
           t2 == KeptIn(\o411, \o4001, 1, Wires(1, 0, 0, 1))
           s == <<t1, t2>>
<1>1. ~Skip(\o401, \o4001, 1) /\ Skip(\o411, \o4001, 1)
  <2>1. /\ On(\o401, 8) /\ ~On(\o401, 3) /\ ~On(\o401, 4) /\ ~On(\o401, 5) /\ ~On(\o401, 6)
        /\ On(\o411, 8) /\ On(\o411, 3) /\ ~On(\o411, 4) /\ ~On(\o411, 5) /\ ~On(\o411, 6)
    BY SkipWordBits DEF HasBits
  <2> QED
    BY <2>1 DEF Skip, SkipAnd, SkipOr
<1>2. 0 = Value(Skip(\o401, \o4001, 1)) /\ 1 = Value(Skip(\o411, \o4001, 1))
  BY <1>1 DEF Value
<1>3. Good(t1) /\ Free(t1) /\ Good(t2) /\ Free(t2)
  BY <1>2, SignOfTests, SkipWordBits, Group3Test
<1>4. group3_tests = s
  BY DEF group3_tests
<1> HIDE DEF t1, t2
<1>5. s \in Seq({t1, t2}) /\ Len(s) = 2 /\ s[1] = t1 /\ s[2] = t2
  OBVIOUS
<1> HIDE DEF s
<1>6. /\ \A k \in 1 .. 2 : Good(s[k])
      /\ \A k \in 1 .. 2 : k > 1 => Leads(s[k - 1], s[k])
  BY <1>3, <1>5 DEF Leads
<1> QED
  BY <1>3, <1>4, <1>5, <1>6 DEF Chained

LEMMA TestsChained == Chained(Tests)
<1> DEFINE c1 == If({"GROUP1_TESTS", "RUN_SINGLE_TESTS"}, group1_single_tests)
           c2 == If({"GROUP1_TESTS", "RUN_EXHAUSTIVE_TESTS"}, group1_exhaustive_tests)
           c3 == If({"GROUP1_TESTS", "RUN_DIRECTED_TESTS"}, group1_directed_tests)
           c4 == If({"GROUP2_TESTS", "RUN_SINGLE_TESTS"}, group2_single_tests)
           c5 == If({"GROUP2_TESTS", "RUN_EXHAUSTIVE_TESTS"}, group2_exhaustive_tests)
           c6 == If({"GROUP2_TESTS", "RUN_DIRECTED_TESTS"},
                    group2_or_directed_tests \o group2_and_directed_tests)
           c7 == If({"GROUP3_TESTS"}, group3_tests)
<1>1. Chained(group2_or_directed_tests \o group2_and_directed_tests)
  BY Group2OrTests, Group2AndTests, ChainsJoin
<1>2. /\ Chained(c1) /\ Chained(c2) /\ Chained(c3) /\ Chained(c4) /\ Chained(c5)
      /\ Chained(c6) /\ Chained(c7)
  BY <1>1, OpcodeTests, Group1DirectedTests, Group3Tests, ChainOptional
<1>3. Tests = c1 \o c2 \o c3 \o c4 \o c5 \o c6 \o c7
  BY DEF Tests
<1> HIDE DEF c1, c2, c3, c4, c5, c6, c7
<1>4. Chained(c1 \o c2)
  BY <1>2, ChainsJoin
<1>5. Chained(c1 \o c2 \o c3)
  BY <1>2, <1>4, ChainsJoin
<1>6. Chained(c1 \o c2 \o c3 \o c4)
  BY <1>2, <1>5, ChainsJoin
<1>7. Chained(c1 \o c2 \o c3 \o c4 \o c5)
  BY <1>2, <1>6, ChainsJoin
<1>8. Chained(c1 \o c2 \o c3 \o c4 \o c5 \o c6)
  BY <1>2, <1>7, ChainsJoin
<1>9. Chained(c1 \o c2 \o c3 \o c4 \o c5 \o c6 \o c7)
  BY <1>2, <1>8, ChainsJoin
<1> QED
  BY <1>3, <1>9

-----------------------------------------------------------------------------
\* The invariant: the structure is ready for the test that runs.

TestReady == call <= Len(Tests) => Ready(Tests[call], registers)
LineRight == \A v \in line : Right(v)

GeneratorInvariant ==
  /\ call \in Nat \ {0} /\ ac \in Word /\ link \in BitValue
  /\ Shaped(registers)
  /\ TestReady
  /\ LineRight

\* What is left to show of a step that leaves the structure r.
LEMMA StepKeeps ==
  ASSUME GeneratorInvariant, call <= Len(Tests), NEW r, Emit(r), Shaped(r), Right(Written(r)),
         build' = build, call' = call \/ call' = call + 1,
         Tests[call].kind = "directed" => call' = call + 1 /\ r = Result(Tests[call]),
         ac' \in Word, link' \in BitValue
  PROVE  GeneratorInvariant'
<1>1. Tests' = Tests
  BY DEF Tests, If
<1>2. registers' = r /\ line' = {Written(r)}
  BY DEF Emit
<1>3. call \in 1 .. Len(Tests) /\ Len(Tests) \in Nat
  <2>1. Len(Tests) \in Nat
    BY TestsChained DEF Chained
  <2> QED
    BY <2>1 DEF GeneratorInvariant
<1>4. ASSUME call' <= Len(Tests)
      PROVE  Ready(Tests[call'], r)
  <2>1. CASE call' = call
    <3>1. Tests[call].kind # "directed"
      BY <1>3, <2>1
    <3> QED
      BY <2>1, <3>1 DEF Ready
  <2>2. CASE call' = call + 1
    <3>1. Leads(Tests[call], Tests[call + 1])
      <4>1. call + 1 \in 1 .. Len(Tests) /\ call + 1 > 1 /\ (call + 1) - 1 = call
        BY <1>3, <1>4, <2>2
      <4> QED
        BY <4>1, TestsChained DEF Chained
    <3> QED
      BY <2>2, <3>1 DEF Leads, Free
  <2> QED
    BY <2>1, <2>2
<1>5. TestReady'
  BY <1>1, <1>2, <1>4 DEF TestReady
<1>6. LineRight'
  BY <1>2 DEF LineRight
<1>7. call' \in Nat \ {0}
  BY <1>3
<1> QED
  BY <1>2, <1>5, <1>6, <1>7 DEF GeneratorInvariant

LEMMA OpcodeRight ==
  ASSUME NEW op \in Opcodes, NEW a \in Word, NEW l \in BitValue
  PROVE  Shaped(Opcode1(op, a, l)) /\ Right(Written(Opcode1(op, a, l)))
BY Group1Opcodes, Group2Opcodes DEF Opcodes

LEMMA RegsShaped ==
  ASSUME NEW W, NEW B,
         NEW r \in [i_reg : W, ac_reg : W, l_reg : B, result_ac : W, result_link : B,
                    skip : B, micro_g1 : B, micro_g2 : B, micro_g3 : B]
  PROVE  Shaped(r)
<1>1. r = [i_reg |-> r.i_reg, ac_reg |-> r.ac_reg, l_reg |-> r.l_reg,
           result_ac |-> r.result_ac, result_link |-> r.result_link, skip |-> r.skip,
           micro_g1 |-> r.micro_g1, micro_g2 |-> r.micro_g2, micro_g3 |-> r.micro_g3]
  OBVIOUS
<1> QED
  BY <1>1 DEF Shaped, Structure

LEMMA GeneratorInit == GenInit => GeneratorInvariant
<1> SUFFICES ASSUME GenInit PROVE GeneratorInvariant
  OBVIOUS
<1>1. Shaped(registers)
  <2> DEFINE W == 0 .. 65535
             B == 0 .. 255
             R == [i_reg : W, ac_reg : W, l_reg : B, result_ac : W, result_link : B,
                   skip : B, micro_g1 : B, micro_g2 : B, micro_g3 : B]
  <2>1. Regs = R
    BY DEF Regs
  <2> HIDE DEF W, B
  <2>2. \A r \in R : Shaped(r)
    BY RegsShaped
  <2> HIDE DEF R
  <2> QED
    BY <2>1, <2>2, GarbageAssumption DEF GenInit
<1>2. call = 1 /\ ac \in Word /\ link \in BitValue /\ LineRight
  BY NotIsWord, ValueIsBit DEF GenInit, LineRight
<1>3. TestReady
  <2>1. Len(Tests) \in Nat
    BY TestsChained DEF Chained
  <2>2. 1 <= Len(Tests) => Free(Tests[1])
    BY <2>1, TestsChained DEF Chained
  <2> QED
    BY <1>1, <1>2, <2>2 DEF Free, TestReady
<1> QED
  BY <1>1, <1>2, <1>3 DEF GeneratorInvariant

LEMMA GeneratorNext == GeneratorInvariant /\ [GenNext]_genVars => GeneratorInvariant'
<1> SUFFICES ASSUME GeneratorInvariant, [GenNext]_genVars PROVE GeneratorInvariant'
  OBVIOUS
<1> DEFINE t == Tests[call]
<1>1. link = 0 \/ link = 1
  BY SMT DEF GeneratorInvariant, BitValue
<1>2. /\ call \in Nat \ {0} /\ ac \in Word /\ link \in BitValue /\ 1 - link \in BitValue
      /\ (ac + link) % 4096 \in Word
  <2>1. call \in Nat \ {0} /\ ac \in Word /\ link \in BitValue
    BY DEF GeneratorInvariant
  <2>2. 1 - link \in BitValue /\ (ac + link) % 4096 \in Word
    BY <1>1, <2>1, SMT DEF BitValue, Word
  <2> QED
    BY <2>1, <2>2
<1>3. call <= Len(Tests) => Good(t) /\ Ready(t, registers)
  <2>1. Len(Tests) \in Nat
    BY TestsChained DEF Chained
  <2> QED
    BY <1>2, <2>1, TestsChained DEF Chained, GeneratorInvariant, TestReady
<1>4. ASSUME call <= Len(Tests), run_single_test
      PROVE  GeneratorInvariant'
  <2> DEFINE r == Opcode1(t.op, t.ac, link)
  <2>1. t.kind = "single" /\ t.op \in Opcodes /\ t.ac \in Word
    BY <1>3, <1>4 DEF run_single_test, Good
  <2>2. Shaped(r) /\ Right(Written(r))
    BY <1>2, <2>1, OpcodeRight
  <2>3. /\ Emit(r) /\ build' = build /\ ac' \in Word /\ link' \in BitValue
        /\ call' = call \/ call' = call + 1
    BY <1>1, <1>2, <1>4 DEF run_single_test
  <2> HIDE DEF r
  <2> QED
    BY <1>4, <2>1, <2>2, <2>3, StepKeeps
<1>5. ASSUME call <= Len(Tests), run_exhaustive_test
      PROVE  GeneratorInvariant'
  <2> DEFINE r == Opcode1(t.op, ac, link)
  <2>1. t.kind = "exhaustive" /\ t.op \in Opcodes
    BY <1>3, <1>5 DEF run_exhaustive_test, Good
  <2>2. Shaped(r) /\ Right(Written(r))
    BY <1>2, <2>1, OpcodeRight
  <2>3. /\ Emit(r) /\ build' = build /\ ac' \in Word /\ link' \in BitValue
        /\ call' = call \/ call' = call + 1
    BY <1>2, <1>5 DEF run_exhaustive_test
  <2> HIDE DEF r
  <2> QED
    BY <1>5, <2>1, <2>2, <2>3, StepKeeps
<1>6. ASSUME call <= Len(Tests), run_directed_test
      PROVE  GeneratorInvariant'
  <2> DEFINE r == Result(t)
  <2>1. t.kind = "directed" /\ Shaped(r) /\ Right(Written(r)) /\ Assigned(t, registers) = r
    BY <1>3, <1>6 DEF run_directed_test, Good, Ready
  <2>2. Emit(r) /\ build' = build /\ call' = call + 1 /\ ac' \in Word /\ link' \in BitValue
    BY <1>2, <1>6, <2>1 DEF run_directed_test
  <2>3. t.kind = "directed" => call' = call + 1 /\ r = Result(t)
    BY <2>2
  <2> HIDE DEF r
  <2> QED
    BY <1>6, <2>1, <2>2, <2>3, StepKeeps
<1>7. ASSUME UNCHANGED testVars
      PROVE  GeneratorInvariant'
  BY <1>7 DEF testVars, GeneratorInvariant, TestReady, LineRight, Tests, If
<1>8. CASE RunTest
  BY <1>4, <1>5, <1>6, <1>8 DEF RunTest
<1> QED
  BY <1>7, <1>8 DEF GenNext, genVars, OpenOutput, CloseOutput

\* Every line any build writes is what the decoder answers, whatever its
\* latch holds: no test reads a field an earlier one left wrong.
THEOREM VectorsAreTheDecoders == GenSpec => []DecoderAgrees
<1>1. GeneratorInvariant => DecoderAgrees
  BY DEF GeneratorInvariant, LineRight, Right, DecoderRight, DecoderAgrees
<1> QED
  BY <1>1, GeneratorInit, GeneratorNext, PTL DEF GenSpec

\* The C simulator computes AC and link as every group 1 line has them, and
\* skips where every group 2 line does.
THEOREM VectorsAreTheSimulators == GenSpec => []SimulatorAgrees
<1>1. GeneratorInvariant => SimulatorAgrees
  BY DEF GeneratorInvariant, LineRight, Right, SimulatorRight, SimulatorAgrees
<1> QED
  BY <1>1, GeneratorInit, GeneratorNext, PTL DEF GenSpec

=============================================================================
