----------------------------- MODULE CPUProofs -----------------------------
(***************************************************************************)
(* Type correctness of the processor and the handshake between controller  *)
(* and memory, for every set of inputs, of power-up values and of          *)
(* programs, and a reset at any moment: what memory answers is what the    *)
(* controller uses, and what the controller asks to be written is what     *)
(* memory holds.                                                           *)
(*                                                                         *)
(* TypeOK is inductive as it stands.  Handshake is inductive, given the    *)
(* types.  What makes it so is that a state that waits for memory is left  *)
(* only in the clock of mem_finished, to a state that does not wait, and   *)
(* that the states a reset leads through, REG_INIT and CPU_IDLE, take as   *)
(* many clocks as memory needs to finish what it had begun.                *)
(*                                                                         *)
(* Answered is inductive with it: memory serves the request of the state   *)
(* the controller is in, and the address and data wires do not move while  *)
(* it does.                                                                *)
(*                                                                         *)
(* And the EAE: what MIC_9 takes from it is the product, or the quotient   *)
(* and the remainder, of the registers the controller holds.               *)
(***************************************************************************)
EXTENDS CPUSafety, WordLemmas, TLAPS

-----------------------------------------------------------------------------
\* Memory.

\* What is read is a word.
LEMMA ReadTypes == ASSUME MemTypeOK, NEW a \in Word
                   PROVE  ReadMemory(a) \in Word /\ ReadData(a) \in Word
<1>1. 0 \in Word
  BY DEF Word
<1>2. ReadMemory(a) \in Word
  BY <1>1 DEF MemTypeOK, ReadMemory
<1> QED
  BY <1>2 DEF MemTypeOK, ReadData

\* A clock of the memory controller keeps its types.
LEMMA MemoryTypes ==
  ASSUME MemTypeOK, NEW r, NEW w, NEW a \in Word, NEW d \in Word, MemClock(r, w, a, d)
  PROVE  MemTypeOK'
<1>1. CASE MemIdle(r, w)
  BY <1>1 DEF MemIdle, MemTypeOK, MemStates
<1>2. CASE MemRead(a)
  BY <1>2, ReadTypes DEF MemRead, MemTypeOK, MemStates
<1>3. CASE MemWrite(a, d)
  BY <1>3 DEF MemWrite, WriteMemory, MemTypeOK, MemStates
<1>4. CASE MemDone
  BY <1>4 DEF MemDone, MemTypeOK, MemStates
<1> QED
  BY <1>1, <1>2, <1>3, <1>4 DEF MemClock

-----------------------------------------------------------------------------
\* The EAE, with words of 12 bits.

EaeWord == 0 .. Eae!Base - 1
Product == 0 .. Eae!Base * Eae!Base - 1

\* The two ranges, without their definitions: as literal intervals they are
\* beyond the provers.
LEMMA EaeRanges == /\ \A x : x \in EaeWord <=> x \in Nat /\ x <= 4095
                   /\ \A x : x \in Product <=> x \in Nat /\ x <= 16777215
                   /\ Eae!Base = 4096
<1>1. Eae!Base = 4096
  BY SMT DEF Eae!Base
<1>2. PICK w \in Nat, p \in Nat : w = 4095 /\ p = 16777215
  BY SMT
<1>3. \A x : /\ x \in 0 .. w <=> x \in Nat /\ x <= w
             /\ x \in 0 .. p <=> x \in Nat /\ x <= p
  BY SMT
<1>4. Eae!Base - 1 = w /\ Eae!Base * Eae!Base - 1 = p
  BY SMT, <1>1, <1>2
<1>5. EaeWord = 0 .. w /\ Product = 0 .. p
  BY ONLY <1>4 DEF EaeWord, Product
<1>6. \A x : /\ x \in EaeWord <=> x \in Nat /\ x <= w
             /\ x \in Product <=> x \in Nat /\ x <= p
  BY ONLY <1>3, <1>5
<1> QED
  BY SMT, <1>1, <1>2, <1>6

\* One iteration keeps the double-length register in its 24 bits.
LEMMA StepTypes == ASSUME NEW p \in Product, NEW m \in EaeWord
                   PROVE  /\ Eae!MultiplyStep(p, m) \in Product
                          /\ Eae!DivideStep(p, m) \in Product
                          /\ p \div Eae!Base \in EaeWord
                          /\ p % Eae!Base \in EaeWord
                          /\ p \div (Eae!Base * 2048) \in 0 .. 1
<1>1. p \in Nat /\ p <= 16777215 /\ m \in Nat /\ m <= 4095
  BY EaeRanges
<1>2. /\ p \div 4096 \in Nat /\ p \div 4096 <= 4095
      /\ p % 4096 \in Nat /\ p % 4096 <= 4095
      /\ p \div 8388608 \in 0 .. 1
  BY SMT, <1>1
<1>3. Eae!MultiplyStep(p, m) \in Product
  <2>1. /\ (p \div 4096 + m) * 2048 + (p % 4096) \div 2 \in Nat
        /\ (p \div 4096 + m) * 2048 + (p % 4096) \div 2 <= 16777215
        /\ p \div 2 \in Nat /\ p \div 2 <= 16777215
    BY SMT, <1>1, <1>2
  <2> QED
    BY SMT, <2>1, EaeRanges DEF Eae!MultiplyStep
<1>4. Eae!DivideStep(p, m) \in Product
  <2> DEFINE d == (p \div 2048 + 8192 - m) % 8192
  <2>1. Eae!Difference(p, m) = d
    BY SMT, EaeRanges DEF Eae!Difference
  <2>2. d \in Nat
    BY SMT, <1>1
  <2>3. /\ (p * 2) % 16777216 \in Nat /\ (p * 2) % 16777216 <= 16777215
        /\ p % 2048 \in Nat /\ p % 2048 <= 2047
    BY SMT, <1>1
  <2> HIDE DEF d
  <2>4. CASE d < 4096
    <3>1. d * 4096 + (p % 2048) * 2 + 1 \in Nat /\ d * 4096 + (p % 2048) * 2 + 1 <= 16777215
      BY SMT, <2>2, <2>3, <2>4
    <3> QED
      BY SMT, <2>1, <2>4, <3>1, EaeRanges DEF Eae!DivideStep, Eae!Subtracts
  <2>5. CASE ~(d < 4096)
    BY SMT, <2>1, <2>3, <2>5, EaeRanges DEF Eae!DivideStep, Eae!Subtracts
  <2> QED
    BY <2>4, <2>5
<1>5. /\ p \div Eae!Base \in EaeWord /\ p % Eae!Base \in EaeWord
      /\ p \div (Eae!Base * 2048) \in 0 .. 1
  BY SMT, <1>2, EaeRanges
<1> QED
  BY <1>3, <1>4, <1>5

LEMMA EaeTypes ==
  ASSUME Eae!EaeTypeOK, NEW start,
         NEW ac \in Word, NEW mq \in Word, NEW mb \in Word,
         Eae!EaeClock(start, ac, mq, mb)
  PROVE  Eae!EaeTypeOK'
<1>1. /\ mul \in [phase : Eae!Phases, count : 0 .. 12, regm : EaeWord, regp : Product]
      /\ div \in [phase : Eae!Phases, count : 0 .. 12, regm : EaeWord, regp : Product,
                  link : 0 .. 1]
      /\ eaeOut \in [acMul : EaeWord, mqMul : EaeWord, acDvi : EaeWord, mqDvi : EaeWord]
      /\ mul.phase = "S1" => mul.count < 12
      /\ div.phase = "S1" => div.count < 12
  BY DEF Eae!EaeTypeOK, EaeWord, Product
<1>2. /\ ac \in EaeWord /\ mq \in EaeWord /\ mb \in EaeWord /\ mb \in Product
      /\ ac * Eae!Base + mq \in Product
  <2>1. ac * 4096 + mq \in Nat /\ ac * 4096 + mq <= 16777215
    BY SMT DEF Word
  <2>2. /\ ac \in Nat /\ ac <= 4095 /\ mq \in Nat /\ mq <= 4095
        /\ mb \in Nat /\ mb <= 4095 /\ mb <= 16777215
    BY SMT DEF Word
  <2> QED
    BY SMT, <2>1, <2>2, EaeRanges
<1> DEFINE Control(u) == /\ u.phase \in Eae!Phases /\ u.count \in 0 .. 12
                         /\ u.phase = "S1" => u.count < 12
<1>3. ASSUME NEW u, Control(u)
      PROVE  /\ Eae!NextPhase(u, start) \in Eae!Phases
             /\ Eae!NextCount(u) \in 0 .. 12
             /\ Eae!NextPhase(u, start) = "S1" => Eae!NextCount(u) < 12
  BY SMT, <1>3 DEF Eae!NextPhase, Eae!NextCount, Eae!Phases
<1>4. /\ mul' \in [phase : Eae!Phases, count : 0 .. 12, regm : EaeWord, regp : Product]
      /\ mul'.phase = "S1" => mul'.count < 12
  <2>1. Control(mul) /\ mul.regm \in EaeWord /\ mul.regp \in Product
    BY <1>1
  <2>2. Eae!MultiplyStep(mul.regp, mul.regm) \in Product
    BY <2>1, StepTypes
  <2> QED
    BY <1>2, <1>3, <2>1, <2>2 DEF Eae!EaeClock, Eae!Multiply
<1>5. /\ div' \in [phase : Eae!Phases, count : 0 .. 12, regm : EaeWord, regp : Product,
                   link : 0 .. 1]
      /\ div'.phase = "S1" => div'.count < 12
  <2>1. /\ Control(div) /\ div.regm \in EaeWord /\ div.regp \in Product
        /\ div.link \in 0 .. 1
    BY <1>1
  <2>2. /\ Eae!DivideStep(div.regp, div.regm) \in Product
        /\ div.regp \div (Eae!Base * 2048) \in 0 .. 1
    <3> HIDE DEF Control
    <3> DEFINE r == div.regp
               d == div.regm
    <3>1. r \in Product /\ d \in EaeWord
      BY <2>1
    <3> HIDE DEF r, d
    <3>2. Eae!DivideStep(r, d) \in Product /\ r \div (Eae!Base * 2048) \in 0 .. 1
      BY <3>1, StepTypes
    <3> QED
      BY <3>2 DEF r, d
  <2> DEFINE m == IF Eae!Loading(div, start) THEN mb ELSE div.regm
             p == IF Eae!Loading(div, start) THEN ac * Eae!Base + mq
                  ELSE IF Eae!Stepping(div) THEN Eae!DivideStep(div.regp, div.regm)
                  ELSE div.regp
             l == IF Eae!Stepping(div) /\ ~Eae!Subtracts(div.regp, div.regm)
                  THEN div.regp \div (Eae!Base * 2048) ELSE div.link
  <2>3. m \in EaeWord /\ p \in Product /\ l \in 0 .. 1
    BY <1>2, <2>1, <2>2
  <2>4. div' = [phase |-> Eae!NextPhase(div, start), count |-> Eae!NextCount(div),
                regm |-> m, regp |-> p, link |-> l]
    BY DEF Eae!EaeClock, Eae!Divide
  <2> HIDE DEF m, p, l
  <2> QED
    BY <1>3, <2>1, <2>3, <2>4
<1>6. eaeOut' \in [acMul : EaeWord, mqMul : EaeWord, acDvi : EaeWord, mqDvi : EaeWord]
  BY SMT, <1>1, StepTypes DEF Eae!EaeClock, Eae!Results
<1> QED
  BY <1>4, <1>5, <1>6 DEF Eae!EaeTypeOK, EaeWord, Product

-----------------------------------------------------------------------------
\* The controller and the datapath.

\* What an edge of the clock leaves of them.
Typed(s, n, f, r, a, d, o) ==
  /\ s \in States /\ n \in {FirstStates[k] : k \in 1 .. 8} /\ f \in BOOLEAN
  /\ r \in Registers /\ a \in Word /\ d \in Word /\ o \in Word

ControlTyped == Typed(state, instState, eaFlag, reg, address, writeData, dispout)

LEMMA RegisterTypes ==
  ASSUME reg \in Registers
  PROVE  /\ reg.ac \in Word /\ reg.lk \in BitValue /\ reg.ir \in Word /\ reg.mq \in Word
         /\ reg.pc \in Word /\ reg.mb \in Word /\ reg.ea \in Word
  BY DEF Registers

\* Loading one register with a word, or the link with a bit, keeps the types.
LEMMA LoadAC == \A r \in Registers : \A w \in Word : [r EXCEPT !.ac = w] \in Registers
  BY DEF Registers
LEMMA LoadLK == \A r \in Registers : \A w \in BitValue : [r EXCEPT !.lk = w] \in Registers
  BY DEF Registers
LEMMA LoadIR == \A r \in Registers : \A w \in Word : [r EXCEPT !.ir = w] \in Registers
  BY DEF Registers
LEMMA LoadMQ == \A r \in Registers : \A w \in Word : [r EXCEPT !.mq = w] \in Registers
  BY DEF Registers
LEMMA LoadPC == \A r \in Registers : \A w \in Word : [r EXCEPT !.pc = w] \in Registers
  BY DEF Registers
LEMMA LoadMB == \A r \in Registers : \A w \in Word : [r EXCEPT !.mb = w] \in Registers
  BY DEF Registers
LEMMA LoadEA == \A r \in Registers : \A w \in Word : [r EXCEPT !.ea = w] \in Registers
  BY DEF Registers

\* Every state that an action names.
LEMMA StatesListed ==
  {"REG_INIT", "CPU_IDLE", "SR_CHG_1", "SR_CHG_2", "LD_PC_1", "LD_AC_1", "DEP_1",
   "DEP_2", "FETCH_1", "FETCH_2", "FETCH_3", "DECODE", "HALT", "CAL_EA_1",
   "EA_IND_1", "EA_IND_2", "EA_AUT_1", "EA_AUT_2", "EA_AUT_3", "EA_AUT_4",
   "EA_AUT_5", "AND_2", "AND_3", "TAD_2", "TAD_3", "ISZ_2", "ISZ_3", "ISZ_4",
   "ISZ_5", "ISZ_6", "DCA_2", "DCA_3", "JMS_2", "IOT_2", "IOT_3", "IOT_4",
   "IOT_5", "IOT_6", "MIC_2", "MIC_3", "MIC_4", "MIC_5", "MIC_6", "MIC_7",
   "MIC_8", "MIC_9"} \cup {FirstStates[k] : k \in 1 .. 8} \subseteq States
  BY DEF States, ReadStates, WriteStates

LEMMA ConsoleTypes ==
  ASSUME ControlTyped, MemTypeOK, NEW i \in InputWires, Console(i)
  PROVE  ControlTyped'
<1> USE DEF ControlTyped, Typed, latches, ports
<1>0. i.swreg \in Word /\ Inc(reg.pc) \in Word /\ 0 \in Word /\ 0 \in BitValue
  <2>1. i.swreg \in Word
    BY DEF InputWires
  <2>2. Inc(reg.pc) \in Word
    BY FieldsAreWords, RegisterTypes
  <2>3. 0 \in Word /\ 0 \in BitValue
    BY ONLY TRUE DEF Word, BitValue
  <2> QED
    BY <2>1, <2>2, <2>3
<1>1. CASE RegInit
  BY StatesListed, <1>0, <1>1 DEF RegInit, Go, Registers
<1>2. CASE CpuIdle(i)
  <2>1. Displayed(i.dispsel) \in Word
    BY RegisterTypes DEF Displayed, InputWires
  <2>2. IdleSuccessor(i) \in States
    BY StatesListed DEF IdleSuccessor
  <2> QED
    BY StatesListed, <1>2, <2>1, <2>2 DEF CpuIdle, Go
<1>3. CASE SrChg1(i)
  BY StatesListed, <1>0, <1>3 DEF SrChg1, Go
<1>4. CASE SrChg2
  BY StatesListed, <1>4 DEF SrChg2, Await
<1>5. CASE LdPc1(i)
  BY StatesListed, <1>0, <1>5, LoadPC DEF LdPc1, Go
<1>6. CASE LdAc1(i)
  BY StatesListed, <1>0, <1>6, LoadAC DEF LdAc1, Go
<1>7. CASE Dep1(i)
  BY StatesListed, <1>0, <1>7, RegisterTypes DEF Dep1, Go
<1>8. CASE Dep2
  BY StatesListed, <1>0, <1>8, LoadPC, RegisterTypes DEF Dep2, Await
<1> QED
  BY <1>1, <1>2, <1>3, <1>4, <1>5, <1>6, <1>7, <1>8 DEF Console

LEMMA FetchTypes ==
  ASSUME ControlTyped, MemTypeOK, Fetch
  PROVE  ControlTyped'
<1> USE DEF ControlTyped, Typed, latches, ports
<1>0. Inc(reg.pc) \in Word /\ readData \in Word
  BY FieldsAreWords, RegisterTypes, ReadTypes DEF readData
<1>1. CASE Fetch1
  BY StatesListed, <1>1, RegisterTypes DEF Fetch1, Go
<1>2. CASE Fetch2
  BY StatesListed, <1>2 DEF Fetch2, Await
<1>3. CASE Fetch3
  BY StatesListed, <1>0, <1>3, LoadIR, LoadPC DEF Fetch3, Go
<1>4. CASE DecodeHalt
  BY StatesListed, <1>4 DEF DecodeHalt, Go
<1>5. CASE Decode
  <2>1. Opcode(reg.ir) + 1 \in 1 .. 8
    BY FieldsAreWords, RegisterTypes
  <2>2. instState' \in {FirstStates[k] : k \in 1 .. 8}
    BY <1>5, <2>1 DEF Decode
  <2> QED
    BY StatesListed, <1>5, <2>2 DEF Decode, Go
<1>6. CASE Halt
  BY StatesListed, <1>6 DEF Halt, Go
<1> QED
  BY <1>1, <1>2, <1>3, <1>4, <1>5, <1>6 DEF Fetch

LEMMA AddressTypes ==
  ASSUME ControlTyped, MemTypeOK, EffectiveAddress
  PROVE  ControlTyped'
<1> USE DEF ControlTyped, Typed, latches, ports
<1>0. /\ instState \in States
      /\ readData \in Word /\ Inc(readData) \in Word
      /\ Offset(reg.ir) \in Word /\ Page(reg.pc) + Offset(reg.ir) \in Word
  <2>1. instState \in States
    BY StatesListed
  <2>2. readData \in Word
    BY ReadTypes DEF readData
  <2> QED
    BY <2>1, <2>2, FieldsAreWords, RegisterTypes
<1>1. CASE CalEa1
  BY StatesListed, <1>0, <1>1, LoadEA DEF CalEa1, Go
<1>2. CASE EaInd1
  BY StatesListed, <1>2, RegisterTypes DEF EaInd1, Go
<1>3. CASE EaInd2
  BY StatesListed, <1>0, <1>3, LoadEA, RegisterTypes DEF EaInd2, Await
<1>4. CASE EaAut1
  BY StatesListed, <1>4, RegisterTypes DEF EaAut1, Go
<1>5. CASE EaAut2
  BY StatesListed, <1>5 DEF EaAut2, Await
<1>6. CASE EaAut3
  BY StatesListed, <1>0, <1>6 DEF EaAut3, Go
<1>7. CASE EaAut4
  BY StatesListed, <1>7 DEF EaAut4, Await
<1>8. CASE EaAut5
  BY StatesListed, <1>0, <1>8, LoadEA DEF EaAut5, Go
<1> QED
  BY <1>1, <1>2, <1>3, <1>4, <1>5, <1>6, <1>7, <1>8 DEF EffectiveAddress

\* The steps shared by AND, TAD, ISZ and MUY/DVI.
LEMMA OperandTypes ==
  ASSUME ControlTyped, MemTypeOK, NEW s, NEW t \in States,
         AddressOperand(s, t) \/ ReadOperand(s, t)
  PROVE  ControlTyped'
<1> USE DEF ControlTyped, Typed, latches, ports
<1>1. CASE AddressOperand(s, t)
  BY StatesListed, <1>1, RegisterTypes DEF AddressOperand, Go
<1>2. CASE ReadOperand(s, t)
  <2>1. readData \in Word
    BY ReadTypes DEF readData
  <2>2. reg' \in Registers
    BY <1>2, <2>1, LoadMB DEF ReadOperand
  <2> QED
    BY StatesListed, <1>2, <2>2 DEF ReadOperand, Await
<1> QED
  BY <1>1, <1>2

LEMMA ReferenceTypes ==
  ASSUME ControlTyped, MemTypeOK, MemoryReference
  PROVE  ControlTyped'
<1> USE DEF ControlTyped, Typed, latches, ports
<1>0. /\ 0 \in Word /\ readData \in Word
      /\ Inc(reg.pc) \in Word /\ Inc(reg.mb) \in Word /\ Inc(reg.ea) \in Word
      /\ And(reg.ac, reg.mb) \in Word
  <2>1. 0 \in Word
    BY ONLY TRUE DEF Word
  <2>2. readData \in Word
    BY ReadTypes DEF readData
  <2> QED
    BY <2>1, <2>2, FieldsAreWords, AndIsWord, RegisterTypes
<1>1. CASE And1 \/ And2 \/ Tad1 \/ Tad2 \/ Isz1 \/ Isz2
  <2>1. {"AND_2", "AND_3", "TAD_2", "TAD_3", "ISZ_2", "ISZ_3"} \subseteq States
    BY StatesListed
  <2> QED
    BY <1>1, <2>1, OperandTypes DEF And1, And2, Tad1, Tad2, Isz1, Isz2
<1>2. CASE And3
  BY StatesListed, <1>0, <1>2, LoadAC DEF And3, Go
<1>3. CASE Tad3
  <2>1. (reg.ac + reg.mb) % 4096 \in Word /\ 1 - reg.lk \in BitValue
    <3>1. \A l \in BitValue : 1 - l \in BitValue
      BY DEF BitValue
    <3> QED
      BY <3>1, SumIsWord, RegisterTypes
  <2>2. reg' \in Registers
    <3> DEFINE link == IF reg.ac + reg.mb > 4095 THEN 1 - reg.lk ELSE reg.lk
               added == [reg EXCEPT !.ac = (reg.ac + reg.mb) % 4096]
    <3>1. link \in BitValue
      BY <2>1, RegisterTypes
    <3>2. added \in Registers
      BY <2>1, LoadAC
    <3>3. reg' = [added EXCEPT !.lk = link]
      BY <1>3 DEF Tad3
    <3> HIDE DEF link, added
    <3> QED
      BY <3>1, <3>2, <3>3, LoadLK
  <2> QED
    BY StatesListed, <1>3, <2>2 DEF Tad3, Go
<1>4. CASE Isz3
  BY StatesListed, <1>0, <1>4, LoadMB DEF Isz3, Go
<1>5. CASE Isz4
  BY StatesListed, <1>5, RegisterTypes DEF Isz4, Go
<1>6. CASE Isz5
  BY StatesListed, <1>6 DEF Isz5, Await
<1>7. CASE Isz6
  BY StatesListed, <1>0, <1>7, LoadPC, RegisterTypes DEF Isz6, Go
<1>8. CASE Dca1
  BY StatesListed, <1>8, RegisterTypes DEF Dca1, Go
<1>9. CASE Dca2
  BY StatesListed, <1>9, LoadMB DEF Dca2, Await
<1>10. CASE Dca3
  BY StatesListed, <1>0, <1>10, LoadAC DEF Dca3, Go
<1>11. CASE Jms1
  BY StatesListed, <1>11, RegisterTypes DEF Jms1, Go
<1>12. CASE Jms2
  <2>1. reg' \in Registers
    BY <1>0, <1>12, LoadMB, LoadPC DEF Jms2
  <2> QED
    BY StatesListed, <1>12, <2>1 DEF Jms2, Await
<1>13. CASE Jmp1
  BY StatesListed, <1>0, <1>13, LoadPC, RegisterTypes DEF Jmp1, Go
<1> QED
  BY <1>1, <1>2, <1>3, <1>4, <1>5, <1>6, <1>7, <1>8, <1>9, <1>10, <1>11, <1>12, <1>13
     DEF MemoryReference

LEMMA TransferTypes ==
  ASSUME ControlTyped, MemTypeOK, NEW i \in InputWires, InputOutput(i)
  PROVE  ControlTyped'
<1> USE DEF ControlTyped, Typed, latches, ports
<1>0. /\ 0 \in Word /\ Inc(reg.pc) \in Word /\ Or(reg.ac, i.datain) \in Word
  <2>1. i.datain \in 0 .. 255
    BY DEF InputWires
  <2> QED
    BY <2>1, ByteIsWord, FieldsAreWords, OrIsWord, RegisterTypes
<1>1. CASE Iot1(i)
  BY StatesListed, <1>0, <1>1, LoadPC, RegisterTypes DEF Iot1, Go
<1>2. CASE Iot2(i)
  BY StatesListed, <1>0, <1>2, LoadAC, RegisterTypes DEF Iot2, Go
<1>3. CASE Iot3(i)
  BY StatesListed, <1>0, <1>3, LoadAC, RegisterTypes DEF Iot3, Go
<1>4. CASE Iot4(i)
  BY StatesListed, <1>0, <1>4, LoadAC DEF Iot4, Go
<1>5. CASE Iot5
  BY StatesListed, <1>5, RegisterTypes DEF Iot5, Go
<1>6. CASE Iot6
  BY StatesListed, <1>6 DEF Iot6, Go
<1> QED
  BY <1>1, <1>2, <1>3, <1>4, <1>5, <1>6 DEF InputOutput

LEMMA MicrocodedTypes ==
  ASSUME ControlTyped, MemTypeOK, Eae!EaeTypeOK, heldLink \in BitValue, Microcoded
  PROVE  ControlTyped'
<1> USE DEF ControlTyped, Typed, latches, ports
<1>0. /\ 0 \in Word /\ 0 \in BitValue
      /\ Inc(reg.pc) \in Word /\ Or(reg.ac, reg.mq) \in Word
      /\ micro.ac \in Word /\ micro.lk \in BitValue
  <2>1. 0 \in Word /\ 0 \in BitValue
    BY ONLY TRUE DEF Word, BitValue
  <2>2. micro \in PairOfWordAndBit
    BY RegisterTypes, MicroTypes DEF micro
  <2> QED
    BY <2>1, <2>2, FieldsAreWords, OrIsWord, RegisterTypes DEF PairOfWordAndBit
<1>1. CASE Mic1
  BY StatesListed, <1>0, <1>1, LoadAC, LoadLK DEF Mic1, Go
<1>2. CASE Mic2
  BY StatesListed, <1>0, <1>2, LoadAC, LoadPC, RegisterTypes DEF Mic2, Go
<1>3. CASE Mic3
  BY StatesListed, <1>0, <1>3, LoadAC, RegisterTypes DEF Mic3, Go
<1>4. CASE Mic4
  BY StatesListed, <1>0, <1>4, LoadAC, LoadMQ, RegisterTypes DEF Mic4, Go
<1>5. CASE Mic5
  BY StatesListed, <1>5 DEF Mic5, Go
<1>6. CASE Mic6
  BY StatesListed, <1>0, <1>6, LoadPC DEF Mic6, Go
<1>7. CASE Mic7
  BY StatesListed, <1>7, OperandTypes DEF Mic7
<1>8. CASE Mic8
  BY StatesListed, <1>8 DEF Mic8, Go
<1>9. CASE Mic9
  <2>1. /\ eaeOut.acMul \in Word /\ eaeOut.mqMul \in Word
        /\ eaeOut.acDvi \in Word /\ eaeOut.mqDvi \in Word
        /\ div.link \in BitValue
    <3>1. /\ eaeOut.acMul \in EaeWord /\ eaeOut.mqMul \in EaeWord
          /\ eaeOut.acDvi \in EaeWord /\ eaeOut.mqDvi \in EaeWord
          /\ div.link \in 0 .. 1
      BY DEF Eae!EaeTypeOK, EaeWord
    <3>2. EaeWord = Word
      BY SMT, EaeRanges DEF EaeWord, Word
    <3> QED
      BY <3>1, <3>2 DEF BitValue
  <2> QED
    BY StatesListed, <1>0, <1>9, <2>1, LoadAC, LoadMQ, LoadLK DEF Mic9, Go
<1> QED
  BY <1>1, <1>2, <1>3, <1>4, <1>5, <1>6, <1>7, <1>8, <1>9 DEF Microcoded

-----------------------------------------------------------------------------
\* The processor.

LEMMA InitTypes == Init => TypeOK
<1> SUFFICES ASSUME Init PROVE TypeOK
  OBVIOUS
<1>1. 0 \in Word /\ 0 \in BitValue
  BY DEF Word, BitValue
<1>2. swregTemp \in Word
  BY InputsAssumption DEF Init, InputWires
<1>3. ControlTypeOK
  <2>1. instState \in {FirstStates[k] : k \in 1 .. 8}
    BY DEF Init, FirstStates
  <2>2. reg \in Registers
    BY PowerUpAssumption DEF Init
  <2>3. heldLink \in BitValue
    BY DEF Init
  <2> QED
    BY StatesListed, <1>1, <1>2, <2>1, <2>2, <2>3 DEF Init, ControlTypeOK
<1>4. MemTypeOK
  BY ProgramsAssumption, <1>1 DEF Init, MemTypeOK, MemStates
<1>5. Eae!EaeTypeOK
  <2>1. 0 \in EaeWord /\ 0 \in Product
    BY SMT, EaeRanges
  <2> QED
    BY <2>1 DEF Init, Eae!EaeInit, Eae!EaeTypeOK, Eae!Phases, EaeWord, Product
<1> QED
  BY <1>3, <1>4, <1>5 DEF TypeOK

LEMMA ClockTypes == ASSUME TypeOK, NEW i \in Inputs, Clock(i)
                    PROVE  TypeOK'
<1>1. i \in InputWires
  BY InputsAssumption
<1>2. ControlTyped /\ MemTypeOK /\ Eae!EaeTypeOK /\ heldLink \in BitValue
  BY DEF TypeOK, ControlTypeOK, ControlTyped, Typed
<1>3. ControlTyped'
  <2>1. Controller(i)
    BY DEF Clock
  <2> QED
    BY <1>1, <1>2, <2>1, ConsoleTypes, FetchTypes, AddressTypes, ReferenceTypes,
       TransferTypes, MicrocodedTypes DEF Controller
<1>4. MemTypeOK'
  BY <1>2, MemoryTypes DEF Clock, ControlTyped, Typed
<1>5. Eae!EaeTypeOK'
  <2>1. reg \in Registers
    BY <1>2 DEF ControlTyped, Typed
  <2> QED
    BY <1>2, <2>1, RegisterTypes, EaeTypes DEF Clock
<1>6. heldLink' \in BitValue
  <2>1. reg \in Registers
    BY <1>2 DEF ControlTyped, Typed
  <2>2. Pipeline(reg.ir, reg.ac, reg.lk, heldLink) \in PairOfWordAndBit
    BY <1>2, <2>1, RegisterTypes, PipelineTypes
  <2> QED
    BY <2>2 DEF Clock, HoldLink, PairOfWordAndBit
<1>7. swregTemp' \in Word /\ srchange' \in BOOLEAN /\ resetN' \in BOOLEAN
  BY <1>1 DEF Clock, Detect, InputWires, TypeOK, ControlTypeOK
<1> QED
  BY <1>3, <1>4, <1>5, <1>6, <1>7 DEF TypeOK, ControlTypeOK, ControlTyped, Typed

LEMMA StepKeepsTypes == TypeOK /\ [Next]_vars => TypeOK'
<1> SUFFICES ASSUME TypeOK, [Next]_vars PROVE TypeOK'
  OBVIOUS
<1>1. ASSUME NEW i \in Inputs, Clock(i) PROVE TypeOK'
  BY <1>1, ClockTypes
<1>2. CASE PressReset
  BY <1>2, StatesListed
     DEF PressReset, TypeOK, ControlTypeOK, MemTypeOK, Eae!EaeTypeOK, latches, ports,
         memVars, eaeVars
<1>3. CASE ReleaseReset
  BY <1>3
     DEF ReleaseReset, TypeOK, ControlTypeOK, MemTypeOK, Eae!EaeTypeOK, cpuVars, latches,
         ports, memVars, eaeVars
<1>4. CASE UNCHANGED vars
  BY <1>4
     DEF vars, TypeOK, ControlTypeOK, MemTypeOK, Eae!EaeTypeOK, cpuVars, latches,
         ports, memVars, eaeVars
<1> QED
  BY <1>1, <1>2, <1>3, <1>4 DEF Next

\* The processor keeps its types: no register, wire or counter ever leaves
\* the range of its declaration, with any inputs and any program.
THEOREM TypeCorrect == Spec => []TypeOK
  BY InitTypes, StepKeepsTypes, PTL DEF Spec

-----------------------------------------------------------------------------
\* The handshake.

\* How an edge of the clock moves a controller that waits or was reset.
Waits ==
  /\ state \in WaitStates => state' = IF MemFinished THEN state' ELSE state
  /\ state \in WaitStates /\ MemFinished => state' \notin WaitStates
  /\ state = "REG_INIT" => state' = IF resetN THEN "CPU_IDLE" ELSE "REG_INIT"
  /\ state = "CPU_IDLE" => state' \notin WaitStates

\* The states where instructions start do not wait.
LEMMA FirstStatesDoNotWait ==
  \A s \in {FirstStates[k] : k \in 1 .. 8} : s \notin WaitStates /\ s # "REG_INIT"
  BY DEF FirstStates, WaitStates, ReadStates, WriteStates

LEMMA ConsoleWaits == ASSUME NEW i, Console(i) PROVE Waits
<1> USE DEF Waits, WaitStates, ReadStates, WriteStates, Go, Await
<1>1. CASE RegInit
  BY <1>1 DEF RegInit
<1>2. CASE CpuIdle(i)
  BY <1>2 DEF CpuIdle, IdleSuccessor
<1>3. CASE SrChg1(i) \/ SrChg2
  BY <1>3 DEF SrChg1, SrChg2
<1>4. CASE LdPc1(i) \/ LdAc1(i) \/ Dep1(i) \/ Dep2
  BY <1>4 DEF LdPc1, LdAc1, Dep1, Dep2
<1> QED
  BY <1>1, <1>2, <1>3, <1>4 DEF Console

LEMMA FetchWaits == ASSUME ControlTyped', Fetch PROVE Waits
<1> USE DEF Waits, WaitStates, ReadStates, WriteStates, Go, Await
<1>1. CASE Decode
  BY <1>1 DEF Decode
<1>2. CASE ~Decode
  BY <1>2 DEF Fetch, Fetch1, Fetch2, Fetch3, DecodeHalt, Halt
<1> QED
  BY <1>1, <1>2

LEMMA AddressWaits == ASSUME ControlTyped, EffectiveAddress PROVE Waits
<1>0. instState \notin WaitStates
  BY FirstStatesDoNotWait DEF ControlTyped, Typed
<1>1. CASE EaInd2
  BY <1>0, <1>1 DEF EaInd2, Await, Waits
<1>2. CASE ~EaInd2
  BY <1>2 DEF Waits, WaitStates, ReadStates, WriteStates, Go, Await, EffectiveAddress,
       CalEa1, EaInd1, EaAut1, EaAut2, EaAut3, EaAut4, EaAut5
<1> QED
  BY <1>1, <1>2

LEMMA ReferenceWaits == ASSUME MemoryReference PROVE Waits
<1> USE DEF Waits, WaitStates, ReadStates, WriteStates, Go, Await
<1>1. CASE And1 \/ And2 \/ And3 \/ Tad1 \/ Tad2 \/ Tad3
  BY <1>1 DEF And1, And2, And3, Tad1, Tad2, Tad3, AddressOperand, ReadOperand
<1>2. CASE Isz1 \/ Isz2 \/ Isz3 \/ Isz4 \/ Isz5 \/ Isz6
  BY <1>2 DEF Isz1, Isz2, Isz3, Isz4, Isz5, Isz6, AddressOperand, ReadOperand
<1>3. CASE Dca1 \/ Dca2 \/ Dca3 \/ Jms1 \/ Jms2 \/ Jmp1
  BY <1>3 DEF Dca1, Dca2, Dca3, Jms1, Jms2, Jmp1
<1> QED
  BY <1>1, <1>2, <1>3 DEF MemoryReference

LEMMA TransferWaits == ASSUME NEW i, InputOutput(i) PROVE Waits
  BY DEF Waits, WaitStates, ReadStates, WriteStates, Go, InputOutput,
         Iot1, Iot2, Iot3, Iot4, Iot5, Iot6

LEMMA MicrocodedWaits == ASSUME Microcoded PROVE Waits
  BY DEF Waits, WaitStates, ReadStates, WriteStates, Go, Await, Microcoded, ReadOperand,
         Mic1, Mic2, Mic3, Mic4, Mic5, Mic6, Mic7, Mic8, Mic9

LEMMA ClockWaits == ASSUME TypeOK, NEW i \in Inputs, Clock(i) PROVE Waits
<1>1. ControlTyped /\ ControlTyped'
  BY ClockTypes DEF TypeOK, ControlTypeOK, ControlTyped, Typed
<1>2. Controller(i)
  BY DEF Clock
<1> QED
  BY <1>1, <1>2, ConsoleWaits, FetchWaits, AddressWaits, ReferenceWaits, TransferWaits,
     MicrocodedWaits DEF Controller

-----------------------------------------------------------------------------

LEMMA InitHandshake == Init => Handshake
  BY DEF Init, Handshake

LEMMA ClockHandshake == ASSUME TypeOK, Handshake, NEW i \in Inputs, Clock(i)
                        PROVE  Handshake'
<1>1. Waits
  BY ClockWaits
<1>2. /\ MemClock(state \in ReadStates, state \in WriteStates, address, writeData)
      /\ resetN' = resetN
  BY DEF Clock
<1>3. "REG_INIT" \notin WaitStates /\ "CPU_IDLE" \notin WaitStates
  BY DEF WaitStates, ReadStates, WriteStates
<1>4. CASE memState = "IDLE"
  BY <1>1, <1>2, <1>4
     DEF Waits, Handshake, WaitStates, MemClock, MemIdle, MemRead, MemWrite, MemDone, MemFinished
<1>5. CASE memState = "READ" \/ memState = "WRITE"
  BY <1>1, <1>2, <1>5
     DEF Waits, Handshake, WaitStates, MemClock, MemIdle, MemRead, MemWrite, MemDone, MemFinished
<1>6. CASE memState = "DONE"
  BY <1>1, <1>2, <1>6
     DEF Waits, Handshake, WaitStates, MemClock, MemIdle, MemRead, MemWrite, MemDone, MemFinished
<1> QED
  BY <1>4, <1>5, <1>6 DEF TypeOK, MemTypeOK, MemStates

LEMMA StepHandshake == TypeOK /\ Handshake /\ [Next]_vars => Handshake'
<1> SUFFICES ASSUME TypeOK, Handshake, [Next]_vars PROVE Handshake'
  OBVIOUS
<1>1. ASSUME NEW i \in Inputs, Clock(i) PROVE Handshake'
  BY <1>1, ClockHandshake
<1>2. CASE PressReset
  BY <1>2 DEF PressReset, Handshake, memVars
<1>3. CASE ReleaseReset
  BY <1>3 DEF ReleaseReset, Handshake, cpuVars, memVars
<1>4. CASE UNCHANGED vars
  BY <1>4 DEF vars, Handshake, cpuVars, memVars
<1> QED
  BY <1>1, <1>2, <1>3, <1>4 DEF Next

\* Memory works only for the controller state that asked for it, or for one
\* that a reset has taken away.
THEOREM HandshakeHolds == Spec => []Handshake
  BY InitHandshake, StepHandshake, TypeCorrect, PTL DEF Spec

\* A wait for memory begins only while memory is idle: mem_finished always
\* answers the request the controller has just made, a reset or not.
THEOREM AnswersAreFresh == Spec => NoStaleAnswer
<1>1. ASSUME TypeOK, Handshake, [Next]_vars, state' \in WaitStates, state' # state
      PROVE  memState' = "IDLE"
  <2>1. PICK i \in Inputs : Clock(i)
    <3>1. "REG_INIT" \notin WaitStates
      BY DEF WaitStates, ReadStates, WriteStates
    <3> QED
      BY <1>1, <3>1 DEF Next, PressReset, ReleaseReset, vars, cpuVars
  <2>2. Waits
    BY <1>1, <2>1, ClockWaits
  <2>3. state \notin WaitStates \cup {"REG_INIT", "CPU_IDLE"}
    BY <1>1, <2>2 DEF Waits, WaitStates, ReadStates, WriteStates
  <2>4. memState = "IDLE"
    BY <1>1, <2>3 DEF Handshake, WaitStates, TypeOK, MemTypeOK, MemStates
  <2> QED
    BY <2>1, <2>3, <2>4 DEF Clock, MemClock, MemIdle, MemRead, MemWrite, MemDone, WaitStates
<1>2. TypeOK /\ Handshake /\ [Next]_vars
        => [state' \in WaitStates /\ state' # state => memState' = "IDLE"]_vars
  BY <1>1
<1> QED
  BY <1>2, TypeCorrect, HandshakeHolds, PTL DEF Spec, NoStaleAnswer

-----------------------------------------------------------------------------
\* The answers.

\* In FETCH_3 and EA_AUT_3, one clock after mem_finished, memory is idle, so
\* read_data comes from the latch, which took the word from the location
\* that is still on the address wires.
Latched ==
  /\ state \in ReadStates /\ memState = "DONE" => readLatch = ReadMemory(address)
  /\ state \in {"FETCH_3", "EA_AUT_3"} => memState = "IDLE" /\ readLatch = ReadMemory(address)

Answered == Latched /\ WriteLands /\ FetchedInOrder

\* What an edge of the clock does to the wires of an access under way, and
\* how the states that use an answer are entered.
Serves ==
  /\ state \in WaitStates => address' = address /\ writeData' = writeData
  /\ state' = "FETCH_2" => \/ state = "FETCH_1" /\ address' = reg.pc /\ reg' = reg
                           \/ state = "FETCH_2" /\ reg' = reg
  /\ state' = "FETCH_3" => state = "FETCH_2" /\ MemFinished /\ reg' = reg
  /\ state' = "EA_AUT_3" => state = "EA_AUT_2" /\ MemFinished
  /\ state' = "DECODE" => /\ state = "FETCH_3" /\ address' = address
                          /\ reg'.ir = readData /\ reg'.pc = Inc(reg.pc)

\* The states that use an answer are not those where an instruction starts.
LEMMA FirstStatesUseNoAnswer ==
  \A s \in {FirstStates[k] : k \in 1 .. 8} :
     s \notin {"FETCH_2", "FETCH_3", "EA_AUT_3", "DECODE"}
  BY DEF FirstStates

LEMMA ConsoleServes == ASSUME NEW i, Console(i) PROVE Serves
<1> USE DEF Serves, WaitStates, ReadStates, WriteStates, Go, Await, ports
<1>1. CASE RegInit
  BY <1>1 DEF RegInit
<1>2. CASE CpuIdle(i)
  BY <1>2 DEF CpuIdle, IdleSuccessor
<1>3. CASE SrChg1(i) \/ SrChg2
  BY <1>3 DEF SrChg1, SrChg2
<1>4. CASE LdPc1(i) \/ LdAc1(i) \/ Dep1(i) \/ Dep2
  BY <1>4 DEF LdPc1, LdAc1, Dep1, Dep2
<1> QED
  BY <1>1, <1>2, <1>3, <1>4 DEF Console

LEMMA FetchServes == ASSUME ControlTyped, ControlTyped', Fetch PROVE Serves
<1> USE DEF Serves, WaitStates, ReadStates, WriteStates, Go, Await, ports
<1>1. CASE Decode
  BY <1>1, FirstStatesUseNoAnswer DEF Decode, ControlTyped, Typed
<1>2. CASE Fetch3
  <2>1. reg \in Registers
    BY DEF ControlTyped, Typed
  <2> QED
    BY <1>2, <2>1 DEF Fetch3, Registers
<1>3. CASE Fetch1 \/ Fetch2 \/ DecodeHalt \/ Halt
  BY <1>3 DEF Fetch1, Fetch2, DecodeHalt, Halt
<1> QED
  BY <1>1, <1>2, <1>3 DEF Fetch

LEMMA AddressServes == ASSUME ControlTyped, EffectiveAddress PROVE Serves
<1>0. instState \notin {"FETCH_2", "FETCH_3", "EA_AUT_3", "DECODE"}
  BY FirstStatesUseNoAnswer DEF ControlTyped, Typed
<1> USE <1>0 DEF Serves, WaitStates, ReadStates, WriteStates, Go, Await, ports
<1>1. CASE CalEa1 \/ EaInd1 \/ EaInd2
  BY <1>1 DEF CalEa1, EaInd1, EaInd2
<1>2. CASE EaAut1 \/ EaAut2 \/ EaAut3 \/ EaAut4 \/ EaAut5
  BY <1>2 DEF EaAut1, EaAut2, EaAut3, EaAut4, EaAut5
<1> QED
  BY <1>1, <1>2 DEF EffectiveAddress

LEMMA ReferenceServes == ASSUME MemoryReference PROVE Serves
<1> USE DEF Serves, WaitStates, ReadStates, WriteStates, Go, Await, ports
<1>1. CASE And1 \/ And2 \/ And3 \/ Tad1 \/ Tad2 \/ Tad3
  BY <1>1 DEF And1, And2, And3, Tad1, Tad2, Tad3, AddressOperand, ReadOperand
<1>2. CASE Isz1 \/ Isz2 \/ Isz3 \/ Isz4 \/ Isz5 \/ Isz6
  BY <1>2 DEF Isz1, Isz2, Isz3, Isz4, Isz5, Isz6, AddressOperand, ReadOperand
<1>3. CASE Dca1 \/ Dca2 \/ Dca3 \/ Jms1 \/ Jms2 \/ Jmp1
  BY <1>3 DEF Dca1, Dca2, Dca3, Jms1, Jms2, Jmp1
<1> QED
  BY <1>1, <1>2, <1>3 DEF MemoryReference

LEMMA TransferServes == ASSUME NEW i, InputOutput(i) PROVE Serves
  BY DEF Serves, WaitStates, ReadStates, WriteStates, Go, ports, InputOutput,
         Iot1, Iot2, Iot3, Iot4, Iot5, Iot6

LEMMA MicrocodedServes == ASSUME Microcoded PROVE Serves
  BY DEF Serves, WaitStates, ReadStates, WriteStates, Go, Await, ports, Microcoded,
         ReadOperand, Mic1, Mic2, Mic3, Mic4, Mic5, Mic6, Mic7, Mic8, Mic9

LEMMA ClockServes == ASSUME TypeOK, NEW i \in Inputs, Clock(i) PROVE Serves
<1>1. ControlTyped /\ ControlTyped'
  BY ClockTypes DEF TypeOK, ControlTypeOK, ControlTyped, Typed
<1>2. Controller(i)
  BY DEF Clock
<1> QED
  BY <1>1, <1>2, ConsoleServes, FetchServes, AddressServes, ReferenceServes, TransferServes,
     MicrocodedServes DEF Controller

-----------------------------------------------------------------------------

LEMMA InitAnswered == Init => Answered
  BY DEF Init, Answered, Latched, WriteLands, FetchedInOrder, ReadStates, WriteStates

LEMMA ClockLatches == ASSUME TypeOK, Handshake, Answered, NEW i \in Inputs, Clock(i)
                      PROVE  Latched'
<1>1. Waits /\ Serves
  BY ClockWaits, ClockServes
<1>2. MemClock(state \in ReadStates, state \in WriteStates, address, writeData)
  BY DEF Clock
<1>3. ASSUME state' \in ReadStates, memState' = "DONE"
      PROVE  readLatch' = ReadMemory(address)'
  <2>1. state' \in WaitStates
    BY <1>3 DEF WaitStates
  <2>2. CASE memState = "READ"
    <3>1. /\ readLatch' = ReadMemory(address) /\ memory' = memory
      BY <1>2, <2>2 DEF MemClock, MemIdle, MemRead, MemWrite, MemDone, ReadData
    <3>2. address' = address
      BY <1>1, <2>1, <2>2 DEF Waits, Serves, Handshake, WaitStates, ReadStates, WriteStates
    <3> QED
      BY <3>1, <3>2 DEF ReadMemory
  <2>3. CASE memState # "READ"
    <3>1. memState = "WRITE"
      BY <1>2, <1>3, <2>3 DEF MemClock, MemIdle, MemRead, MemWrite, MemDone
    <3> QED
      BY <1>1, <1>3, <2>1, <3>1
         DEF Waits, Handshake, WaitStates, ReadStates, WriteStates, MemFinished
  <2> QED
    BY <2>2, <2>3
<1>4. ASSUME state' \in {"FETCH_3", "EA_AUT_3"}
      PROVE  memState' = "IDLE" /\ readLatch' = ReadMemory(address)'
  <2>1. state \in ReadStates /\ memState = "DONE"
    BY <1>1, <1>4 DEF Serves, ReadStates, MemFinished
  <2>2. memState' = "IDLE" /\ UNCHANGED <<memory, readLatch, address>>
    BY <1>1, <1>2, <2>1 DEF Serves, WaitStates, MemClock, MemIdle, MemRead, MemWrite, MemDone
  <2> QED
    BY <2>1, <2>2 DEF Answered, Latched, ReadMemory
<1> QED
  BY <1>3, <1>4 DEF Latched

LEMMA ClockWrites == ASSUME TypeOK, Handshake, NEW i \in Inputs, Clock(i)
                     PROVE  WriteLands'
<1>1. Waits /\ Serves
  BY ClockWaits, ClockServes
<1>2. MemClock(state \in ReadStates, state \in WriteStates, address, writeData)
  BY DEF Clock
<1> SUFFICES ASSUME state' \in WriteStates, memState' = "DONE"
             PROVE  address' \in DOMAIN memory' /\ memory'[address'] = writeData'
  BY DEF WriteLands
<1>3. state' \in WaitStates
  BY DEF WaitStates
<1>4. memState = "WRITE"
  <2>1. memState = "READ" \/ memState = "WRITE"
    BY <1>2 DEF MemClock, MemIdle, MemRead, MemWrite, MemDone
  <2>2. memState # "READ"
    BY <1>1, <1>3 DEF Waits, Handshake, WaitStates, ReadStates, WriteStates, MemFinished
  <2> QED
    BY <2>1, <2>2
<1>5. address' = address /\ writeData' = writeData
  BY <1>1, <1>3, <1>4 DEF Waits, Serves, Handshake, WaitStates, ReadStates, WriteStates
<1>6. WriteMemory(address, writeData)
  BY <1>2, <1>4 DEF MemClock, MemIdle, MemRead, MemWrite, MemDone
<1> QED
  BY <1>5, <1>6 DEF WriteMemory

LEMMA ClockFetches == ASSUME TypeOK, Answered, NEW i \in Inputs, Clock(i)
                      PROVE  FetchedInOrder'
<1>1. Serves
  BY ClockServes
<1>2. MemClock(state \in ReadStates, state \in WriteStates, address, writeData)
  BY DEF Clock
<1>3. "FETCH_2" \in WaitStates
  BY DEF WaitStates, ReadStates
<1>4. state' \in {"FETCH_2", "FETCH_3"} => address' = reg'.pc
  BY <1>1, <1>3 DEF Serves, Answered, FetchedInOrder
<1>5. ASSUME state' = "DECODE"
      PROVE  reg'.ir = ReadMemory(address)' /\ reg'.pc = Inc(address')
  <2>1. /\ state = "FETCH_3" /\ memState = "IDLE" /\ address' = address
        /\ reg'.ir = readLatch /\ reg'.pc = Inc(reg.pc)
    BY <1>1, <1>5 DEF Serves, Answered, Latched, readData, ReadData
  <2>2. memory' = memory /\ address = reg.pc /\ readLatch = ReadMemory(address)
    <3>1. state \notin WriteStates
      BY <2>1 DEF WriteStates
    <3> QED
      BY <1>2, <2>1, <3>1
         DEF MemClock, MemIdle, MemRead, MemWrite, MemDone, Answered, Latched, FetchedInOrder
  <2> QED
    BY <2>1, <2>2 DEF ReadMemory
<1> QED
  BY <1>4, <1>5 DEF FetchedInOrder

LEMMA StepAnswered == TypeOK /\ Handshake /\ Answered /\ [Next]_vars => Answered'
<1> SUFFICES ASSUME TypeOK, Handshake, Answered, [Next]_vars PROVE Answered'
  OBVIOUS
<1> USE DEF Answered, Latched, WriteLands, FetchedInOrder, ReadMemory
<1>1. ASSUME NEW i \in Inputs, Clock(i) PROVE Answered'
  BY <1>1, ClockLatches, ClockWrites, ClockFetches
<1>2. CASE PressReset
  BY <1>2 DEF PressReset, memVars, ReadStates, WriteStates
<1>3. CASE ReleaseReset
  BY <1>3 DEF ReleaseReset, cpuVars, ports, memVars
<1>4. CASE UNCHANGED vars
  BY <1>4 DEF vars, cpuVars, ports, memVars
<1> QED
  BY <1>1, <1>2, <1>3, <1>4 DEF Next

LEMMA AnsweredHolds == Spec => []Answered
  BY InitAnswered, StepAnswered, TypeCorrect, HandshakeHolds, PTL DEF Spec

\* The controller takes what memory holds at the address it asked for, also
\* in the two states that look one clock after mem_finished.
THEOREM ReadsAnswered == Spec => []ReadAnswers
<1>1. Answered => ReadAnswers
  BY DEF Answered, Latched, ReadAnswers, readData, ReadData
<1> QED
  BY <1>1, AnsweredHolds, PTL

\* When the controller goes on after a write, the word is in memory.
THEOREM WritesLand == Spec => []WriteLands
<1>1. Answered => WriteLands
  BY DEF Answered
<1> QED
  BY <1>1, AnsweredHolds, PTL

\* The instruction decoded is the one memory holds before the program counter.
THEOREM FetchesInOrder == Spec => []FetchedInOrder
<1>1. Answered => FetchedInOrder
  BY DEF Answered
<1> QED
  BY <1>1, AnsweredHolds, PTL

-----------------------------------------------------------------------------
(***************************************************************************)
(* The EAE in the processor.  Two arguments meet.  A race: the EAE has no  *)
(* reset, so the controller may come back to MIC_8 for another instruction *)
(* while the machines still work on the last one; it does not, because no  *)
(* way there from FETCH_1 takes fewer clocks than the longest iteration.   *)
(* And the arithmetic of module EAEProofs, with words of twelve bits.      *)
(***************************************************************************)

Powers == [k \in 0 .. 12 |->
             <<1, 2, 4, 8, 16, 32, 64, 128, 256, 512, 1024, 2048, 4096>>[k + 1]]

Arith == INSTANCE EAEProofs
           WITH W <- 12, Half <- 2048, Weight <- Powers,
                job <- [ac |-> reg.ac, mq |-> reg.mq, mb |-> reg.mb]

\* The clocks a machine of the EAE may still need to come to rest.
Remaining(u) ==
  IF u.phase = "S0" THEN 0
  ELSE IF u.phase = "S3" THEN 1
  ELSE IF u.phase = "S2" THEN 2 ELSE 14 - u.count

\* The clocks a wait for memory still takes.
Answer == IF memState = "DONE" THEN 1 ELSE IF memState = "READ" THEN 2 ELSE 3

\* At least so many clocks go by before MIC_8 is next entered.
ClocksBefore ==
  CASE state = "FETCH_2" -> 10 + Answer
    [] state = "FETCH_3" -> 10
    [] state = "DECODE" -> 9
    [] state = "MIC_1" -> 8
    [] state = "MIC_3" -> 7
    [] state = "MIC_4" -> 6
    [] state = "MIC_5" -> 5
    [] state = "MIC_6" -> 4
    [] state = "MIC_7" -> Answer
    [] OTHER -> 14

AddressStates == {"CAL_EA_1", "EA_IND_1", "EA_IND_2", "EA_AUT_1", "EA_AUT_2",
                  "EA_AUT_3", "EA_AUT_4", "EA_AUT_5"}

\* An instruction with an address does not continue at MIC_1.
Addressing == state \in AddressStates => instState # "MIC_1"

\* The machines come to rest in time.
Race ==
  /\ Arith!LockStep /\ Arith!Counted(mul) /\ Arith!Counted(div)
  /\ Remaining(mul) <= ClocksBefore
  /\ Addressing

\* While MIC_8 holds start high the machines work on its registers.
Computes ==
  state = "MIC_8" =>
    /\ mul.phase # "S3"
    /\ Arith!MultiplyLoop
    /\ Arith!DivideLoop

\* MIC_3 and its followers are reached by a group 3 instruction only.
Grouped == state \in {"MIC_3", "MIC_4", "MIC_5"} => Group3(reg.ir)

-----------------------------------------------------------------------------
\* The instance of the arithmetic.

LEMMA TwelveBits ==
  /\ 12 \in Nat \ {0} /\ 2048 = 2^(12 - 1)
  /\ Powers \in [0 .. 12 -> Nat \ {0}]
  /\ Powers[0] = 1
  /\ \A k \in 1 .. 12 : Powers[k] = 2 * Powers[k - 1]
  /\ Powers[12 - 1] = 2048
<1>1. 2048 = 2^(12 - 1)
  BY SMT
<1>2. Powers \in [0 .. 12 -> Nat \ {0}]
  BY SMT DEF Powers
<1>3. \A k \in 1 .. 12 : Powers[k] = 2 * Powers[k - 1]
  BY SMT DEF Powers
<1> QED
  BY <1>1, <1>2, <1>3 DEF Powers

\* The two instances of the EAE are one.
LEMMA SameWords == Arith!Base = 4096 /\ Arith!Digits = Word
<1>1. Arith!Base = 4096
  BY SMT DEF Arith!Base
<1> QED
  BY <1>1 DEF Arith!Digits, Word

LEMMA SameTypes == Eae!EaeTypeOK <=> Arith!EaeTypeOK
<1>1. Eae!Base = Arith!Base /\ Eae!Phases = Arith!Phases
  BY DEF Eae!Base, Arith!Base, Eae!Phases, Arith!Phases
<1> QED
  BY <1>1, Zenon DEF Eae!EaeTypeOK, Arith!EaeTypeOK

LEMMA SameInit == Eae!EaeInit <=> Arith!EaeInit
  BY DEF Eae!EaeInit, Arith!EaeInit

LEMMA SameClock ==
  ASSUME NEW start, NEW ac, NEW mq, NEW mb, Eae!EaeClock(start, ac, mq, mb)
  PROVE  Arith!EaeClock(start, ac, mq, mb)
  BY DEF Eae!EaeClock, Arith!EaeClock, Eae!Base, Arith!Base,
         Eae!Multiply, Eae!Divide, Eae!Results, Arith!Multiply, Arith!Divide, Arith!Results,
         Eae!NextPhase, Eae!NextCount, Eae!Loading, Eae!Stepping, Eae!Finished,
         Arith!NextPhase, Arith!NextCount, Arith!Loading, Arith!Stepping, Arith!Finished,
         Eae!MultiplyStep, Eae!DivideStep, Eae!Subtracts, Eae!Difference,
         Arith!MultiplyStep, Arith!DivideStep, Arith!Subtracts, Arith!Difference

-----------------------------------------------------------------------------
\* The way to MIC_8 and MIC_9: from which state, and when, an edge of the
\* clock enters a state of it.
Steers ==
  /\ state' = "FETCH_2" => state \in {"FETCH_1", "FETCH_2"}
  /\ state' = "FETCH_3" => state = "FETCH_2" /\ MemFinished
  /\ state' = "DECODE" => state = "FETCH_3"
  /\ state' = "MIC_1" => state = "DECODE"
  /\ state' = "MIC_3" => state = "MIC_1" /\ reg'.ir = reg.ir /\ Group3(reg.ir)
  /\ state' = "MIC_4" => state = "MIC_3" /\ reg'.ir = reg.ir
  /\ state' = "MIC_5" => state = "MIC_4" /\ reg'.ir = reg.ir
  /\ state' = "MIC_6" => state = "MIC_5"
  /\ state' = "MIC_7" => state \in {"MIC_6", "MIC_7"}
  /\ state' = "MIC_8" => \/ state = "MIC_7" /\ MemFinished
                         \/ state = "MIC_8" /\ ~Eae!EaeFinished /\ reg' = reg
  /\ state' = "MIC_9" => \/ /\ state = "MIC_5" /\ reg' = reg
                            /\ ~(Group3(reg.ir) /\ On(reg.ir, 2))
                         \/ state = "MIC_8" /\ Eae!EaeFinished /\ reg' = reg
  /\ state' \in AddressStates => instState' # "MIC_1"

\* Where an instruction starts is on the way only for MIC_1.
Way == {"FETCH_2", "FETCH_3", "DECODE", "MIC_3", "MIC_4", "MIC_5", "MIC_6", "MIC_7",
        "MIC_8", "MIC_9"}

LEMMA FirstStatesOffTheWay ==
  \A s \in {FirstStates[k] : k \in 1 .. 8} : s \notin Way \cup AddressStates
  BY DEF FirstStates, Way, AddressStates

LEMMA ConsoleSteers == ASSUME NEW i, Console(i) PROVE Steers
<1> USE DEF Steers, AddressStates, Go, Await
<1>1. CASE RegInit
  BY <1>1 DEF RegInit
<1>2. CASE CpuIdle(i)
  BY <1>2 DEF CpuIdle, IdleSuccessor
<1>3. CASE SrChg1(i) \/ SrChg2
  BY <1>3 DEF SrChg1, SrChg2
<1>4. CASE LdPc1(i) \/ LdAc1(i) \/ Dep1(i) \/ Dep2
  BY <1>4 DEF LdPc1, LdAc1, Dep1, Dep2
<1> QED
  BY <1>1, <1>2, <1>3, <1>4 DEF Console

LEMMA FetchSteers == ASSUME ControlTyped, ControlTyped', Fetch PROVE Steers
<1> USE DEF Steers, Go, Await
<1>1. CASE Decode
  <2>1. instState' \notin Way \cup AddressStates
    BY FirstStatesOffTheWay DEF ControlTyped, Typed
  <2>2. Opcode(reg.ir) <= 5 => instState' # "MIC_1"
    <3>1. Opcode(reg.ir) \in 0 .. 7
      BY FieldsAreWords, RegisterTypes DEF ControlTyped, Typed
    <3> QED
      BY <1>1, <3>1 DEF Decode, FirstStates
  <2> QED
    BY <1>1, <2>1, <2>2 DEF Decode, Way, AddressStates
<1>2. CASE ~Decode
  BY <1>2 DEF Fetch, Fetch1, Fetch2, Fetch3, DecodeHalt, Halt, AddressStates
<1> QED
  BY <1>1, <1>2

LEMMA AddressSteers == ASSUME ControlTyped, Addressing, EffectiveAddress PROVE Steers
<1>1. instState \notin Way \cup AddressStates
  BY FirstStatesOffTheWay DEF ControlTyped, Typed
<1>2. state \in AddressStates /\ instState' = instState
  BY DEF AddressStates, latches, Go, Await, EffectiveAddress, CalEa1, EaInd1, EaInd2,
         EaAut1, EaAut2, EaAut3, EaAut4, EaAut5
<1>3. state' \in AddressStates \cup {instState}
  BY DEF AddressStates, Go, Await, EffectiveAddress, CalEa1, EaInd1, EaInd2,
         EaAut1, EaAut2, EaAut3, EaAut4, EaAut5
<1>4. instState # "MIC_1"
  BY <1>2 DEF Addressing
<1> QED
  BY <1>1, <1>2, <1>3, <1>4 DEF Steers, Way, AddressStates

LEMMA ReferenceSteers == ASSUME MemoryReference PROVE Steers
<1> USE DEF Steers, AddressStates, Go, Await
<1>1. CASE And1 \/ And2 \/ And3 \/ Tad1 \/ Tad2 \/ Tad3
  BY <1>1 DEF And1, And2, And3, Tad1, Tad2, Tad3, AddressOperand, ReadOperand
<1>2. CASE Isz1 \/ Isz2 \/ Isz3 \/ Isz4 \/ Isz5 \/ Isz6
  BY <1>2 DEF Isz1, Isz2, Isz3, Isz4, Isz5, Isz6, AddressOperand, ReadOperand
<1>3. CASE Dca1 \/ Dca2 \/ Dca3 \/ Jms1 \/ Jms2 \/ Jmp1
  BY <1>3 DEF Dca1, Dca2, Dca3, Jms1, Jms2, Jmp1
<1> QED
  BY <1>1, <1>2, <1>3 DEF MemoryReference

LEMMA TransferSteers == ASSUME NEW i, InputOutput(i) PROVE Steers
  BY DEF Steers, AddressStates, Go, InputOutput, Iot1, Iot2, Iot3, Iot4, Iot5, Iot6

LEMMA MicrocodedSteers == ASSUME ControlTyped, Microcoded PROVE Steers
<1> USE DEF Steers, AddressStates, Go, Await
<1>1. CASE Mic1 \/ Mic2
  BY <1>1 DEF Mic1, Mic2, Group1, Group2, Group3
<1>2. CASE Mic3 \/ Mic4
  <2>1. reg \in Registers
    BY DEF ControlTyped, Typed
  <2> QED
    BY <1>2, <2>1 DEF Mic3, Mic4, Registers
<1>3. CASE Mic5 \/ Mic6 \/ Mic7
  BY <1>3 DEF Mic5, Mic6, Mic7, ReadOperand
<1>4. CASE Mic8 \/ Mic9
  BY <1>4 DEF Mic8, Mic9
<1> QED
  BY <1>1, <1>2, <1>3, <1>4 DEF Microcoded

LEMMA ClockSteers == ASSUME TypeOK, Addressing, NEW i \in Inputs, Clock(i) PROVE Steers
<1>1. ControlTyped /\ ControlTyped'
  BY ClockTypes DEF TypeOK, ControlTypeOK, ControlTyped, Typed
<1>2. Controller(i)
  BY DEF Clock
<1> QED
  BY <1>1, <1>2, ConsoleSteers, FetchSteers, AddressSteers, ReferenceSteers, TransferSteers,
     MicrocodedSteers DEF Controller

-----------------------------------------------------------------------------
\* The race.

\* A machine that is not started comes a clock nearer to rest.
LEMMA ComesToRest ==
  ASSUME Arith!Counted(mul), NEW start, ~start,
         mul'.phase = Arith!NextPhase(mul, start), mul'.count = Arith!NextCount(mul)
  PROVE  /\ Remaining(mul) \in 0 .. 14 /\ Remaining(mul)' \in 0 .. 14
         /\ Remaining(mul)' = 0 \/ Remaining(mul)' <= Remaining(mul) - 1
<1>1. mul.count \in 0 .. 12
  BY DEF Arith!Counted
<1>2. CASE mul.phase = "S0"
  BY <1>2 DEF Remaining, Arith!NextPhase
<1>3. CASE mul.phase = "S1"
  BY SMT, <1>1, <1>3 DEF Remaining, Arith!NextPhase, Arith!NextCount, Arith!Counted
<1>4. CASE mul.phase = "S2" \/ mul.phase = "S3"
  BY <1>4 DEF Remaining, Arith!NextPhase
<1> QED
  BY <1>2, <1>3, <1>4 DEF Arith!Counted, Arith!Phases

LEMMA RemainingBound == ASSUME NEW u, Arith!Counted(u) PROVE Remaining(u) \in 0 .. 14
  BY SMT DEF Remaining, Arith!Counted, Arith!Phases

\* The controller is at most a clock nearer to MIC_8, and needs one more.
LEMMA TakesItsTime ==
  ASSUME TypeOK, Handshake, Addressing, NEW i \in Inputs, Clock(i)
  PROVE  /\ ClocksBefore \in 0 .. 14 /\ ClocksBefore' \in 0 .. 14
         /\ ClocksBefore' >= ClocksBefore - 1 \/ ClocksBefore' = 14
         /\ state = "MIC_8" => ClocksBefore' = 14
         /\ state' = "MIC_8" /\ state # "MIC_8" => ClocksBefore = 1
<1>1. Waits /\ Steers
  BY ClockWaits, ClockSteers
<1>2. MemClock(state \in ReadStates, state \in WriteStates, address, writeData)
  BY DEF Clock
<1>3. memState \in MemStates /\ memState' \in MemStates
  BY ClockTypes DEF TypeOK, MemTypeOK
<1>4. /\ ClocksBefore \in 0 .. 14 /\ ClocksBefore' \in 0 .. 14
      /\ Answer \in 1 .. 3 /\ Answer' \in 1 .. 3
  BY DEF ClocksBefore, Answer
<1>5. "FETCH_2" \in WaitStates /\ "MIC_7" \in WaitStates
  BY DEF WaitStates, ReadStates
<1>6. ASSUME state' \in {"FETCH_2", "MIC_7"}, state # state'
      PROVE  Answer' = 3
  <2>1. state \in {"FETCH_1", "MIC_6"}
    BY <1>1, <1>6 DEF Steers
  <2>2. memState = "IDLE"
    BY <1>3, <2>1 DEF Handshake, WaitStates, ReadStates, WriteStates, MemStates
  <2>3. memState' = "IDLE"
    BY <1>2, <2>1, <2>2
       DEF MemClock, MemIdle, MemRead, MemWrite, MemDone, ReadStates, WriteStates
  <2> QED
    BY <2>3 DEF Answer
<1>7. ASSUME state' \in {"FETCH_2", "MIC_7"}, state = state'
      PROVE  Answer' = Answer - 1
  <2>1. state \in ReadStates /\ state \notin WriteStates /\ memState # "DONE" /\ memState # "WRITE"
    BY <1>1, <1>5, <1>7 DEF Waits, ReadStates, WriteStates, MemFinished, Handshake
  <2> QED
    BY <1>2, <1>3, <2>1 DEF MemClock, MemIdle, MemRead, MemWrite, MemDone, Answer, MemStates
<1>8. MemFinished => Answer = 1
  BY DEF MemFinished, Answer
<1> HIDE DEF Answer
<1>9. ClocksBefore' >= ClocksBefore - 1 \/ ClocksBefore' = 14
  BY <1>1, <1>4, <1>6, <1>7, <1>8 DEF Steers, ClocksBefore
<1>10. state = "MIC_8" => ClocksBefore' = 14
  BY <1>1 DEF Steers, ClocksBefore
<1>11. state' = "MIC_8" /\ state # "MIC_8" => ClocksBefore = 1
  BY <1>1, <1>8 DEF Steers, ClocksBefore
<1> QED
  BY <1>4, <1>9, <1>10, <1>11

\* The two machines count alike.
LEMMA ClockCounts ==
  ASSUME TypeOK, Race, NEW i \in Inputs, Clock(i)
  PROVE  /\ Arith!EaeClock(eaeStart, reg.ac, reg.mq, reg.mb)
         /\ mul'.phase = Arith!NextPhase(mul, eaeStart) /\ mul'.count = Arith!NextCount(mul)
         /\ div'.phase = Arith!NextPhase(div, eaeStart) /\ div'.count = Arith!NextCount(div)
         /\ Arith!LockStep'
         /\ Arith!EaeTypeOK /\ Arith!EaeTypeOK' /\ Arith!Counted(mul)' /\ Arith!Counted(div)'
         /\ reg.ac \in Arith!Digits /\ reg.mq \in Arith!Digits /\ reg.mb \in Arith!Digits
<1>1. Arith!EaeClock(eaeStart, reg.ac, reg.mq, reg.mb)
  BY SameClock DEF Clock
<1>2. /\ mul'.phase = Arith!NextPhase(mul, eaeStart) /\ mul'.count = Arith!NextCount(mul)
      /\ div'.phase = Arith!NextPhase(div, eaeStart) /\ div'.count = Arith!NextCount(div)
  BY <1>1 DEF Arith!EaeClock, Arith!Multiply, Arith!Divide
<1>3. Arith!LockStep'
  BY <1>2 DEF Race, Arith!LockStep, Arith!NextPhase, Arith!NextCount
<1>4. reg.ac \in Arith!Digits /\ reg.mq \in Arith!Digits /\ reg.mb \in Arith!Digits
  BY SameWords, RegisterTypes DEF TypeOK, ControlTypeOK
<1>5. Arith!EaeTypeOK /\ Arith!Counted(mul) /\ Arith!Counted(div) /\ eaeStart \in BOOLEAN
  BY SameTypes DEF TypeOK, Race, eaeStart
<1>6. Arith!EaeTypeOK' /\ Arith!Counted(mul)' /\ Arith!Counted(div)'
  BY <1>1, <1>4, <1>5, TwelveBits, Arith!ClockTypes
<1> QED
  BY <1>1, <1>2, <1>3, <1>4, <1>5, <1>6

LEMMA ClockRace ==
  ASSUME TypeOK, Handshake, Race, NEW i \in Inputs, Clock(i)
  PROVE  /\ Race'
         /\ state' = "MIC_8" /\ state # "MIC_8" => mul'.phase = "S0" /\ div'.phase = "S0"
<1>1. Addressing /\ Steers
  BY ClockSteers DEF Race
<1>2. /\ Arith!LockStep' /\ Arith!Counted(mul)' /\ Arith!Counted(div)'
      /\ mul'.phase = Arith!NextPhase(mul, eaeStart) /\ mul'.count = Arith!NextCount(mul)
  BY ClockCounts
<1>3. /\ ClocksBefore \in 0 .. 14 /\ ClocksBefore' \in 0 .. 14
      /\ ClocksBefore' >= ClocksBefore - 1 \/ ClocksBefore' = 14
      /\ state = "MIC_8" => ClocksBefore' = 14
      /\ state' = "MIC_8" /\ state # "MIC_8" => ClocksBefore = 1
  BY <1>1, TakesItsTime
<1>4. /\ Remaining(mul) \in 0 .. 14 /\ Remaining(mul)' \in 0 .. 14
      /\ Remaining(mul) <= ClocksBefore
  <2>1. Remaining(mul') \in 0 .. 14
    BY <1>2, RemainingBound DEF Arith!Counted
  <2> QED
    BY <2>1, RemainingBound DEF Race, Remaining
<1>5. ~eaeStart => Remaining(mul)' = 0 \/ Remaining(mul)' <= Remaining(mul) - 1
  BY <1>2, ComesToRest DEF Race
<1>6. Remaining(mul)' <= ClocksBefore'
  BY SMT, <1>3, <1>4, <1>5 DEF eaeStart
<1>7. ASSUME state' = "MIC_8", state # "MIC_8"
      PROVE  mul'.phase = "S0" /\ div'.phase = "S0"
  <2>1. Remaining(mul)' = 0
    BY SMT, <1>3, <1>4, <1>5, <1>7 DEF eaeStart
  <2>2. mul'.phase = "S0"
    <3>1. mul'.count \in 0 .. 12
      BY <1>2 DEF Arith!Counted
    <3> QED
      BY SMT, <2>1, <3>1 DEF Remaining
  <2> QED
    BY <1>2, <2>2 DEF Arith!LockStep
<1>8. Addressing'
  BY <1>1 DEF Steers, Addressing
<1> QED
  BY <1>2, <1>6, <1>7, <1>8 DEF Race

LEMMA InitRace == Init => Race
<1> SUFFICES ASSUME Init PROVE Race
  OBVIOUS
<1>1. mul.phase = "S0" /\ div.phase = "S0" /\ mul.count = 0 /\ div.count = 0
  BY DEF Init, Eae!EaeInit
<1>2. Arith!Counted(mul) /\ Arith!Counted(div)
  BY SMT, <1>1 DEF Arith!Counted, Arith!Phases, Arith!Busy
<1>3. Remaining(mul) <= ClocksBefore
  BY <1>1 DEF Remaining, ClocksBefore, Init
<1> QED
  BY <1>1, <1>2, <1>3 DEF Race, Arith!LockStep, Addressing, AddressStates, Init

LEMMA StepRace == TypeOK /\ Handshake /\ Race /\ [Next]_vars => Race'
<1> SUFFICES ASSUME TypeOK, Handshake, Race, [Next]_vars PROVE Race'
  OBVIOUS
<1>1. ASSUME NEW i \in Inputs, Clock(i) PROVE Race'
  BY <1>1, ClockRace
<1>2. ASSUME UNCHANGED eaeVars,
             \/ state' = "REG_INIT"
             \/ state' = state /\ instState' = instState /\ memState' = memState
      PROVE  Race'
  <2>1. mul' = mul /\ div' = div
    BY <1>2 DEF eaeVars
  <2>2. /\ Arith!LockStep' /\ Arith!Counted(mul)' /\ Arith!Counted(div)'
        /\ Remaining(mul)' = Remaining(mul)
    BY <2>1 DEF Race, Arith!LockStep, Arith!Counted, Arith!Busy, Remaining
  <2>3. Addressing'
    BY <1>2 DEF Race, Addressing, AddressStates
  <2>4. ClocksBefore' = ClocksBefore \/ ClocksBefore' = 14
    BY <1>2 DEF ClocksBefore, Answer
  <2>5. Remaining(mul) \in 0 .. 14
    BY RemainingBound DEF Race
  <2> QED
    BY <2>2, <2>3, <2>4, <2>5 DEF Race
<1>3. CASE PressReset
  BY <1>2, <1>3 DEF PressReset
<1>4. CASE ReleaseReset
  BY <1>2, <1>4 DEF ReleaseReset, cpuVars, memVars, latches
<1>5. CASE UNCHANGED vars
  BY <1>2, <1>5 DEF vars, cpuVars, memVars, latches
<1> QED
  BY <1>1, <1>3, <1>4, <1>5 DEF Next

LEMMA RaceWon == Spec => []Race
  BY InitRace, StepRace, TypeCorrect, HandshakeHolds, PTL DEF Spec

\* MIC_8 is entered only while both machines rest, even when a reset left
\* them iterating: the operands the controller gives are taken.
THEOREM EaeRests == Spec => EaeFresh
<1>1. ASSUME TypeOK, Handshake, Race, [Next]_vars, state' = "MIC_8", state # "MIC_8"
      PROVE  mul'.phase = "S0" /\ div'.phase = "S0"
  <2>1. PICK i \in Inputs : Clock(i)
    BY <1>1 DEF Next, PressReset, ReleaseReset, vars, cpuVars
  <2> QED
    BY <1>1, <2>1, ClockRace
<1>2. TypeOK /\ Handshake /\ Race /\ [Next]_vars
        => [state' = "MIC_8" /\ state # "MIC_8"
              => mul'.phase = "S0" /\ div'.phase = "S0"]_vars
  BY <1>1
<1> QED
  BY <1>2, TypeCorrect, HandshakeHolds, RaceWon, PTL DEF Spec, EaeFresh

-----------------------------------------------------------------------------
\* The answers.

Answers == Computes /\ Grouped /\ EaeAnswers

LEMMA InitAnswers == Init => Answers
  BY DEF Init, Answers, Computes, Grouped, EaeAnswers

\* On entering MIC_8 the machines rest; a clock there loads or iterates.
LEMMA ClockComputes ==
  ASSUME TypeOK, Handshake, Race, Answers, NEW i \in Inputs, Clock(i)
  PROVE  Computes'
<1> SUFFICES ASSUME state' = "MIC_8" PROVE Computes'
  BY DEF Computes
<1>1. Steers
  BY ClockSteers DEF Race
<1>2. CASE state # "MIC_8"
  BY <1>2, ClockRace DEF Computes, Arith!MultiplyLoop, Arith!DivideLoop, Arith!Busy
<1>3. CASE state = "MIC_8"
  <2>1. reg' = reg /\ mul.phase # "S2"
    BY <1>1, <1>3 DEF Steers, Eae!EaeFinished, Eae!Finished
  <2>2. PICK a, q, b \in Arith!Digits : a = reg.ac /\ q = reg.mq /\ b = reg.mb
    BY ClockCounts
  <2>3. Arith!EaeClock(eaeStart, a, q, b) /\ Arith!EaeTypeOK
    BY <2>2, ClockCounts
  <2>4. /\ Arith!LockStep /\ Arith!Counted(mul) /\ Arith!Counted(div)
        /\ Arith!Loading(mul, eaeStart) \/ Arith!Stepping(mul)
    BY <1>3, <2>1 DEF Race, Answers, Computes, Arith!Counted, Arith!Phases,
                      Arith!Loading, Arith!Stepping, eaeStart
  <2>5. mul.phase = "S1" => /\ Arith!Multiplies(q, b)
                            /\ a < b => Arith!Divides(a * Arith!Base + q, b)
    BY <1>3, <2>2, <2>4 DEF Answers, Computes, Arith!MultiplyLoop, Arith!DivideLoop,
                            Arith!Busy, Arith!LockStep
  <2>6. mul'.phase # "S3" /\ Arith!Computing(a, q, b)'
    <3>1. Arith!Holding(eaeStart, a, q, b)
      BY <2>4, <2>5 DEF Arith!Holding, Arith!Computing
    <3> QED
      BY <2>3, <3>1, TwelveBits, Arith!HeldStart
  <2>7. reg'.ac = a /\ reg'.mq = q /\ reg'.mb = b
    BY <2>1, <2>2
  <2>8. Arith!MultiplyLoop'
    BY <2>6, <2>7 DEF Arith!Computing, Arith!MultiplyLoop, Arith!Multiplies
  <2>9. Arith!DivideLoop'
    BY <2>6, <2>7 DEF Arith!Computing, Arith!DivideLoop, Arith!Divides
  <2> QED
    BY <2>6, <2>8, <2>9 DEF Computes
<1> QED
  BY <1>2, <1>3

\* The clock that leaves MIC_8 puts the answers into the result registers.
LEMMA ClockAnswers ==
  ASSUME TypeOK, Handshake, Race, Answers, NEW i \in Inputs, Clock(i)
  PROVE  EaeAnswers' /\ Grouped'
<1>1. Steers
  BY ClockSteers DEF Race
<1>2. Grouped'
  BY <1>1 DEF Steers, Answers, Grouped, Group3
<1>3. ASSUME state' = "MIC_9", On(reg.ir, 2)
      PROVE  state = "MIC_8" /\ Eae!EaeFinished /\ reg' = reg
  BY <1>1, <1>3 DEF Steers, Answers, Grouped
<1>4. ASSUME state' = "MIC_9", On(reg'.ir, 2)
      PROVE  /\ eaeOut'.acMul * 4096 + eaeOut'.mqMul = reg'.mq * reg'.mb
             /\ reg'.ac < reg'.mb =>
                   /\ eaeOut'.mqDvi * reg'.mb + eaeOut'.acDvi = reg'.ac * 4096 + reg'.mq
                   /\ eaeOut'.acDvi < reg'.mb
                   /\ eaeOut'.mqDvi # \o7777 => div'.link = 0
  <2>1. reg' = reg /\ On(reg.ir, 2)
    BY <1>1, <1>4 DEF Steers
  <2>2. state = "MIC_8" /\ Eae!EaeFinished
    BY <1>3, <1>4, <2>1
  <2>3. /\ Arith!EaeClock(eaeStart, reg.ac, reg.mq, reg.mb)
        /\ Arith!EaeTypeOK
        /\ reg.ac \in Arith!Digits /\ reg.mq \in Arith!Digits /\ reg.mb \in Arith!Digits
    BY ClockCounts
  <2>4. /\ Arith!Results /\ Arith!Finished(mul) /\ Arith!Finished(div)
        /\ Arith!Counted(mul) /\ Arith!Counted(div) /\ Arith!Busy(mul) /\ Arith!Busy(div)
    BY <2>2, <2>3 DEF Arith!EaeClock, Race, Arith!LockStep, Arith!Finished, Arith!Busy,
                      Eae!EaeFinished, Eae!Finished
  <2>5. /\ Arith!Multiplies(reg.mq, reg.mb)
        /\ reg.ac < reg.mb => Arith!Divides(reg.ac * Arith!Base + reg.mq, reg.mb)
    BY <2>2, <2>4 DEF Answers, Computes, Arith!MultiplyLoop, Arith!DivideLoop
  <2>6. eaeOut'.acMul * 4096 + eaeOut'.mqMul = reg.mq * reg.mb
    <3>1. eaeOut'.acMul * Arith!Base + eaeOut'.mqMul = reg.mq * reg.mb
      BY <2>3, <2>4, <2>5, TwelveBits, Arith!FinishedProduct
    <3> QED
      BY <3>1, SameWords
  <2>7. ASSUME reg.ac < reg.mb
        PROVE  /\ eaeOut'.mqDvi * reg.mb + eaeOut'.acDvi = reg.ac * 4096 + reg.mq
               /\ eaeOut'.acDvi < reg.mb
               /\ eaeOut'.mqDvi # \o7777 => div'.link = 0
    <3> DEFINE D == reg.ac * Arith!Base + reg.mq
    <3>1. reg.ac \in Nat /\ reg.mq \in Nat /\ reg.mb \in Nat
      BY <2>3, TwelveBits, Arith!DigitsRange
    <3>2. D \in Nat /\ reg.mb \in Arith!Positive
      BY SMT, <2>7, <3>1, SameWords DEF Arith!Positive
    <3>3. D = (D \div reg.mb) * reg.mb + (D % reg.mb)
      BY <3>2, Arith!DivideEquation, TwelveBits
    <3>4. /\ eaeOut'.mqDvi = D \div reg.mb /\ eaeOut'.acDvi = D % reg.mb
          /\ eaeOut'.acDvi < reg.mb
          /\ eaeOut'.mqDvi # Arith!Base - 1 => div'.link = 0
      <4> HIDE DEF D
      <4>1. Arith!Divides(D, reg.mb)
        BY <2>5, <2>7 DEF D
      <4> QED
        BY <2>3, <2>4, <3>2, <4>1, TwelveBits, Arith!FinishedQuotient DEF Arith!EaeClock
    <3>5. Arith!Base - 1 = \o7777
      BY SMT, SameWords
    <3> QED
      BY <3>3, <3>4, <3>5, SameWords
  <2> QED
    BY <2>1, <2>6, <2>7
<1> QED
  BY <1>2, <1>4 DEF EaeAnswers

LEMMA StepAnswers == TypeOK /\ Handshake /\ Race /\ Answers /\ [Next]_vars => Answers'
<1> SUFFICES ASSUME TypeOK, Handshake, Race, Answers, [Next]_vars PROVE Answers'
  OBVIOUS
<1>1. ASSUME NEW i \in Inputs, Clock(i) PROVE Answers'
  BY <1>1, ClockComputes, ClockAnswers DEF Answers
<1>2. CASE PressReset
  BY <1>2 DEF PressReset, Answers, Computes, Grouped, EaeAnswers
<1>3. ASSUME UNCHANGED <<state, reg, mul, div, eaeOut>> PROVE Answers'
  BY <1>3 DEF Answers, Computes, Grouped, EaeAnswers, Arith!MultiplyLoop, Arith!DivideLoop,
              Arith!Busy, Arith!Multiplies, Arith!Divides
<1>4. CASE ReleaseReset
  BY <1>3, <1>4 DEF ReleaseReset, cpuVars, eaeVars
<1>5. CASE UNCHANGED vars
  BY <1>3, <1>5 DEF vars, cpuVars, eaeVars
<1> QED
  BY <1>1, <1>2, <1>4, <1>5 DEF Next

\* What MIC_9 takes is the product of MQ and the memory buffer, and their
\* quotient and remainder when the quotient fits in a word.
THEOREM EaeCorrect == Spec => []EaeAnswers
<1>1. Answers => EaeAnswers
  BY DEF Answers
<1> QED
  BY <1>1, InitAnswers, StepAnswers, TypeCorrect, HandshakeHolds, RaceWon, PTL DEF Spec

=============================================================================
