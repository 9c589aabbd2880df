--------------------------- MODULE CPURefinement ---------------------------
(***************************************************************************)
(* The clocked machine implements the programmer's machine, for every      *)
(* program, every use of the front panel and a reset at any clock, as long *)
(* as it meets none of the departures that Regular of CPUHistory names.    *)
(*                                                                         *)
(* The invariant says for every state of the controller what is already    *)
(* done of the operation under way: in the registers, on the wires and in  *)
(* memory, which may have been written and not yet have answered.  The     *)
(* last clock of an operation then makes arch what one step of PDP8 makes  *)
(* of it, and a reset finds memory as that step may leave it.              *)
(***************************************************************************)
EXTENDS CPUHistory, CPUProofs

-----------------------------------------------------------------------------
\* The operation under way, from the programmer's state it started in.

At(m, x) == IF x \in DOMAIN m THEN m[x] ELSE 0
Put(m, x, d) == [b \in DOMAIN m \cup {x} |-> IF b = x THEN d ELSE m[b]]

Instr == At(arch.mem, arch.pc)
Following == Inc(arch.pc)

\* The location an address names, what it holds, and the effective address.
Pointer == IF On(Instr, 7) THEN Page(Following) + Offset(Instr) ELSE Offset(Instr)
Target == At(arch.mem, Pointer)
Indexing == On(Instr, 8) /\ AutoIndex(Pointer)
Effective == IF ~On(Instr, 8) THEN Pointer
             ELSE IF AutoIndex(Pointer) THEN Inc(Target) ELSE Target

\* Memory after the pointer has been stepped, the operand, and memory after
\* the instruction.
Indexed == IF Indexing THEN Put(arch.mem, Pointer, Inc(Target)) ELSE arch.mem
Operand == At(Indexed, Effective)
Executed == CASE Opcode(Instr) = 2 -> Put(Indexed, Effective, Inc(Operand))
              [] Opcode(Instr) = 3 -> Put(Indexed, Effective, arch.ac)
              [] Opcode(Instr) = 4 -> Put(Indexed, Effective, Following)
              [] OTHER -> Indexed

\* Group 3: AC and MQ after clearing and loading.
Cleared == IF On(Instr, 7) THEN 0 ELSE arch.ac
LoadedAC == IF On(Instr, 6) THEN Or(Cleared, arch.mq) ELSE IF On(Instr, 4) THEN 0 ELSE Cleared
LoadedMQ == IF ~On(Instr, 6) /\ On(Instr, 4) THEN Cleared ELSE arch.mq

-----------------------------------------------------------------------------
\* The states by what they are part of.

PanelStates == {"SR_CHG_1", "SR_CHG_2", "LD_PC_1", "LD_AC_1", "DEP_1", "DEP_2"}
FetchStates == {"FETCH_1", "FETCH_2", "FETCH_3"}
FirstRefs == {"AND_1", "TAD_1", "ISZ_1", "DCA_1", "JMS_1", "JMP_1"}
IndirectStates == AddressStates \ {"CAL_EA_1"}
AndStates == {"AND_2", "AND_3"}
TadStates == {"TAD_2", "TAD_3"}
IszStates == {"ISZ_2", "ISZ_3", "ISZ_4", "ISZ_5", "ISZ_6"}
DcaStates == {"DCA_2", "DCA_3"}
RefStates == AndStates \cup TadStates \cup IszStates \cup DcaStates \cup {"JMS_2"}
IotStates == {"IOT_1", "IOT_2", "IOT_3", "IOT_4", "IOT_5", "IOT_6"}
Mic3States == {"MIC_3", "MIC_4", "MIC_5", "MIC_6", "MIC_7", "MIC_8", "MIC_9"}
MicStates == {"MIC_1", "MIC_2"} \cup Mic3States

Kept == reg.ac = arch.ac /\ reg.lk = arch.lk /\ reg.mq = arch.mq

\* Memory in a state that writes, and was `before' when it was entered.
Storing(before) == memory = IF memState = "DONE" THEN Put(before, address, writeData) ELSE before

-----------------------------------------------------------------------------
\* The parts of the invariant.

PendingTyped ==
  /\ pending = [kind |-> pending.kind, sw |-> pending.sw, io |-> pending.io,
                halts |-> pending.halts, during |-> pending.during]
  /\ pending.sw \in Word

Pending ==
  /\ PendingTyped
  /\ state = "REG_INIT" => pending.kind = "reset"
  /\ state \in {"SR_CHG_1", "SR_CHG_2"} => pending.kind = "examine"
  /\ state = "LD_PC_1" => pending.kind = "loadpc"
  /\ state = "LD_AC_1" => pending.kind = "loadac"
  /\ state \in {"DEP_1", "DEP_2"} => pending.kind = "deposit"
  /\ state \notin {"CPU_IDLE", "REG_INIT"} \cup PanelStates => pending.kind = "instruction"
  /\ state \notin {"CPU_IDLE", "REG_INIT"} => ~pending.halts

\* Nothing has been done yet.
Beginning ==
  /\ state \in {"CPU_IDLE"} \cup PanelStates \cup FetchStates => Kept /\ reg.pc = arch.pc
  /\ state \in {"CPU_IDLE"} \cup (PanelStates \ {"DEP_2"}) \cup FetchStates => memory = arch.mem
  /\ state = "DEP_2" => address = arch.pc /\ writeData = pending.sw /\ Storing(arch.mem)
  /\ state = "DECODE" => reg.ir = Instr /\ reg.pc = Following /\ Kept /\ memory = arch.mem

Addresses ==
  /\ state \in AddressStates \cup FirstRefs =>
       /\ reg.ir = Instr /\ reg.pc = Following /\ Kept
       /\ Opcode(Instr) <= 5 /\ Alike(Instr)
  /\ state \in AddressStates => instState = FirstStates[Opcode(Instr) + 1]
  /\ state \in FirstRefs => state = FirstStates[Opcode(Instr) + 1]
  /\ state \in IndirectStates => On(Instr, 8)
  /\ state \in AddressStates \ {"EA_AUT_4", "EA_AUT_5"} => memory = arch.mem
  /\ state \in {"EA_IND_1", "EA_AUT_1"} => reg.ea = Pointer
  /\ state = "EA_IND_2" => address = Pointer /\ ~AutoIndex(Pointer)
  /\ state \in {"EA_AUT_1", "EA_AUT_2", "EA_AUT_3", "EA_AUT_4", "EA_AUT_5"} => AutoIndex(Pointer)
  /\ state \in {"EA_AUT_2", "EA_AUT_3", "EA_AUT_4", "EA_AUT_5"} => ~eaFlag /\ address = Pointer
  /\ state \in {"EA_AUT_4", "EA_AUT_5"} => writeData = Inc(Target)
  /\ state = "EA_AUT_4" => Storing(arch.mem)
  /\ state = "EA_AUT_5" => memory = Indexed
  /\ state \in FirstRefs => reg.ea = Effective /\ memory = Indexed
  /\ state = "JMP_1" /\ eaFlag => memState = "IDLE" /\ readLatch = reg.ea

References ==
  /\ state \in RefStates => reg.ir = Instr /\ Kept
  /\ state \in RefStates \ {"JMS_2"} => reg.pc = Following
  /\ state \in AndStates => Opcode(Instr) = 0
  /\ state \in TadStates => Opcode(Instr) = 1
  /\ state \in IszStates => Opcode(Instr) = 2
  /\ state \in DcaStates => Opcode(Instr) = 3
  /\ state = "JMS_2" => Opcode(Instr) = 4 /\ reg.ea = Effective
  /\ state \in {"AND_2", "TAD_2", "ISZ_2", "ISZ_3", "ISZ_4", "ISZ_5", "DCA_2", "JMS_2"}
       => address = Effective
  /\ state \in AndStates \cup TadStates \cup {"ISZ_2", "ISZ_3", "ISZ_4"} => memory = Indexed
  /\ state \in {"AND_3", "TAD_3", "ISZ_3"} => reg.mb = Operand
  /\ state \in {"ISZ_4", "ISZ_5", "ISZ_6"} => reg.mb = Inc(Operand)
  /\ state = "ISZ_5" => writeData = Inc(Operand)
  /\ state = "DCA_2" => writeData = arch.ac
  /\ state = "JMS_2" => writeData = Following
  /\ state \in {"ISZ_5", "DCA_2", "JMS_2"} => Storing(Indexed)
  /\ state \in {"ISZ_6", "DCA_3"} => memory = Executed

Transfers ==
  /\ state \in IotStates => /\ Opcode(Instr) = 6 /\ memory = arch.mem
                            /\ reg.ir = Instr /\ reg.lk = arch.lk /\ reg.mq = arch.mq
  /\ state \in IotStates \ {"IOT_6"} => reg.pc = Following
  /\ state \in {"IOT_1", "IOT_2", "IOT_6"} => reg.ac = arch.ac
  /\ state \in IotStates \ {"IOT_1", "IOT_6"} => ~On(Instr, 0)
  /\ state = "IOT_6" => /\ On(Instr, 0)
                        /\ reg.pc = IF pending.io.skipFlag THEN Inc(Following) ELSE Following
  /\ state \in IotStates \ {"IOT_1"} => pending.io \in {Wires(i) : i \in Inputs}
  /\ state = "IOT_3" => reg.ac = IF pending.io.clearacc THEN 0 ELSE arch.ac
  /\ state = "IOT_4" => pending.io.clearacc /\ reg.ac = pending.io.datain
  /\ state = "IOT_5" => reg.ac = IF pending.io.clearacc THEN pending.io.datain ELSE arch.ac

Microinstructions ==
  /\ state \in MicStates => Opcode(Instr) = 7 /\ Alike(Instr) /\ reg.ir = Instr /\ memory = arch.mem
  /\ state \in {"MIC_1", "MIC_2", "MIC_3"} => Kept
  /\ state = "MIC_2" => Group2(Instr)
  /\ state \in Mic3States => Group3(Instr) /\ reg.lk = arch.lk
  /\ state \in {"MIC_1", "MIC_2", "MIC_3", "MIC_4", "MIC_5", "MIC_6"} => reg.pc = Following
  /\ state = "MIC_4" => reg.ac = Cleared /\ reg.mq = arch.mq
  /\ state \in {"MIC_5", "MIC_6", "MIC_7", "MIC_8", "MIC_9"} => reg.ac = LoadedAC /\ reg.mq = LoadedMQ
  /\ state \in {"MIC_6", "MIC_7", "MIC_8"} => On(Instr, 2)
  /\ state \in {"MIC_7", "MIC_8"} => /\ reg.pc = Inc(Following)
                                     /\ At(arch.mem, Following) = At(arch.mem, Inc(Following))
  /\ state = "MIC_7" => address = Inc(Following)
  /\ state = "MIC_8" => reg.mb = At(arch.mem, Following)
  /\ state = "MIC_9" => IF On(Instr, 2) THEN reg.pc = Inc(Following) /\ reg.mb = At(arch.mem, Following)
                                        ELSE reg.pc = Following

\* The instruction has halted the machine; all is done.
Halting ==
  state = "HALT" =>
    /\ Opcode(Instr) = 7 /\ Group2(Instr) /\ Alike(Instr) /\ On(Instr, 1)
    /\ reg.ac = IF On(Instr, 7) THEN 0 ELSE arch.ac
    /\ reg.lk = arch.lk /\ reg.mq = arch.mq /\ memory = arch.mem
    /\ reg.pc = IF Skip(Instr, arch.ac, arch.lk) THEN Inc(Following) ELSE Following

\* What a reset may find in memory, by the kind of the operation it ends.
Leavable(kind) ==
  {arch.mem}
  \cup (IF kind = "deposit" THEN {Put(arch.mem, arch.pc, pending.sw)} ELSE {})
  \cup (IF kind = "instruction" /\ Opcode(Instr) <= 5 THEN {Indexed, Executed} ELSE {})

\* Memory in REG_INIT, where a write may still be under way.
Resetting ==
  state = "REG_INIT" =>
    /\ memory \in Leavable(pending.during)
    /\ memState = "WRITE" => Put(memory, address, writeData) \in Leavable(pending.during)

Doing == /\ Pending /\ Beginning /\ Addresses /\ References /\ Transfers /\ Microinstructions
         /\ Halting /\ Resetting

-----------------------------------------------------------------------------
\* Words: the two designs name the same operators.

LEMMA SameOperators ==
  /\ \A w, k : Machine!On(w, k) = On(w, k)
  /\ \A v, w : Machine!And(v, w) = And(v, w) /\ Machine!Or(v, w) = Or(v, w)
  /\ \A w : /\ Machine!Not(w) = Not(w) /\ Machine!Opcode(w) = Opcode(w)
            /\ Machine!Page(w) = Page(w) /\ Machine!Offset(w) = Offset(w)
            /\ Machine!Cut(w + 1) = Inc(w)
  BY DEF Machine!On, On, Machine!Bit, Bit, Machine!Weights, Weights, Machine!And, And,
         Machine!Or, Or, Machine!FromBits, FromBits, Machine!Not, Not, Machine!Opcode, Opcode,
         Machine!Page, Page, Machine!Offset, Offset, Machine!Cut, Inc

\* A location of memory as the programmer's machine reads and writes it.
LEMMA SameMemory ==
  /\ \A m, x : Machine!MemRead(m, x) = At(m, x % 4096)
  /\ \A m, x, d : Machine!MemWrite(m, x, d) = Put(m, x % 4096, d % 4096)
  BY DEF Machine!MemRead, Machine!MemWrite, Machine!Cut, At, Put

-----------------------------------------------------------------------------
\* Group 1: the stages of the decoder and the statements of the C simulator.

\* A state of the golden model, of which No says that it has not halted.
No == FALSE
Full(a, l, p, sw, c, b, m, h) ==
  [ac |-> a, lk |-> l, pc |-> p, sr |-> sw, cpma |-> c, mb |-> b, mem |-> m, halted |-> h]

LEMMA FullReads ==
  ASSUME NEW a, NEW l, NEW p, NEW sw, NEW c, NEW b, NEW m, NEW h
  PROVE  LET s == Full(a, l, p, sw, c, b, m, h)
         IN  /\ s.ac = a /\ s.lk = l /\ s.pc = p /\ s.sr = sw
             /\ s.cpma = c /\ s.mb = b /\ s.mem = m /\ s.halted = h
  BY DEF Full

\* Before an instruction touches memory.  `rest' is what of the golden model's
\* state the programmer's machine does not have: the switches, the address
\* and the buffer the previous operation left.
Gold(a, l, p, rest) == Full(a, l, p, rest.sw, rest.c, rest.b, arch.mem, No)

\* Where it starts.
Start(rest) == Gold(arch.ac, arch.lk, arch.pc, rest)

Switches(sw) == [sw |-> sw, c |-> 0, b |-> 0]

LEMMA GoldReads ==
  ASSUME NEW a, NEW l, NEW p, NEW rest
  PROVE  /\ Gold(a, l, p, rest).ac = a /\ Gold(a, l, p, rest).lk = l
         /\ Gold(a, l, p, rest).pc = p /\ Gold(a, l, p, rest).sr = rest.sw
         /\ Gold(a, l, p, rest).mem = arch.mem /\ Gold(a, l, p, rest).halted = No
  BY FullReads DEF Gold

\* Rotations by one place.
LEMMA GoldRotates ==
  ASSUME NEW a \in Word, NEW l \in BitValue, NEW p, NEW rest
  PROVE  /\ Machine!RAR(Gold(a, l, p, rest)) = Gold(RightAC(a, l), RightLK(a, l), p, rest)
         /\ Machine!RAL(Gold(a, l, p, rest)) = Gold(LeftAC(a, l), LeftLK(a, l), p, rest)
<1> DEFINE g == Gold(a, l, p, rest)
<1>0. g.ac = a /\ g.lk = l
  BY GoldReads
<1>1. Machine!RAR(g) = [g EXCEPT !.lk = a % 2, !.ac = Machine!Or(a \div 2, 2048 * l)]
  <2> HIDE DEF g
  <2>1. Machine!RAR(g) = [g EXCEPT !.lk = g.ac % 2, !.ac = Machine!Or(g.ac \div 2, 2048 * g.lk)]
    BY DEF Machine!RAR
  <2> QED
    BY <1>0, <2>1
<1>2. Machine!Or(a \div 2, 2048 * l) = RightAC(a, l)
  BY SameOperators, OrTop DEF RightAC
<1>3. Machine!RAL(g) = [g EXCEPT !.lk = LeftLK(a, l), !.ac = LeftAC(a, l)]
  <2> HIDE DEF g
  <2>1. Machine!RAL(g) = [g EXCEPT !.lk = ((2 * g.ac + g.lk) \div 4096) % 2,
                                   !.ac = (2 * g.ac + g.lk) % 4096]
    BY DEF Machine!RAL, Machine!Cut
  <2> QED
    BY <1>0, <2>1 DEF LeftAC, LeftLK
<1> DEFINE x == Machine!Or(a \div 2, 2048 * l)
           y == a % 2
           u == LeftAC(a, l)
           v == LeftLK(a, l)
<1>4. Machine!RAR(g) = Gold(x, y, p, rest)
  <2>1. Machine!RAR(g) = [[g EXCEPT !.lk = y] EXCEPT !.ac = x]
    BY <1>1
  <2> HIDE DEF x, y
  <2>2. [g EXCEPT !.lk = y] = Gold(a, y, p, rest)
    BY DEF Gold, Full
  <2>3. [Gold(a, y, p, rest) EXCEPT !.ac = x] = Gold(x, y, p, rest)
    BY DEF Gold, Full
  <2> QED
    BY <2>1, <2>2, <2>3
<1>5. Machine!RAL(g) = Gold(u, v, p, rest)
  <2>1. Machine!RAL(g) = [[g EXCEPT !.lk = v] EXCEPT !.ac = u]
    BY <1>3
  <2> HIDE DEF u, v
  <2>2. [g EXCEPT !.lk = v] = Gold(a, v, p, rest)
    BY DEF Gold, Full
  <2>3. [Gold(a, v, p, rest) EXCEPT !.ac = u] = Gold(u, v, p, rest)
    BY DEF Gold, Full
  <2> QED
    BY <2>1, <2>2, <2>3
<1> QED
  BY <1>2, <1>4, <1>5 DEF RightLK

\* The shift stage, after which the simulator agrees on AC and link unless
\* the instruction is a byte swap.
LEMMA GoldShifts ==
  ASSUME NEW w \in Word, NEW b \in PairOfWordAndBit, NEW held, NEW p, NEW rest,
         ShiftSelect(w) # 1
  PROVE  LET s5 == Gold(b.ac, b.lk, p, rest)
             s6 == Machine!When(On(w, 3), IF On(w, 1) THEN Machine!RTR(s5) ELSE Machine!RAR(s5), s5)
             s7 == Machine!When(On(w, 2), IF On(w, 1) THEN Machine!RTL(s6) ELSE Machine!RAL(s6), s6)
             c == ShiftStage(w, b, held)
         IN  s7 = Gold(c.ac, c.lk, p, rest)
<1>1. PICK a \in Word, l \in BitValue : b = [ac |-> a, lk |-> l]
  BY DEF PairOfWordAndBit
<1> DEFINE a1 == RightAC(a, l)
           l1 == RightLK(a, l)
           a2 == RightAC(a1, l1)
           l2 == RightLK(a1, l1)
           a3 == LeftAC(a, l)
           l3 == LeftLK(a, l)
           a4 == LeftAC(a3, l3)
           l4 == LeftLK(a3, l3)
           s5 == Gold(a, l, p, rest)
<1>2. /\ a1 \in Word /\ l1 \in BitValue /\ a2 \in Word /\ l2 \in BitValue
      /\ a3 \in Word /\ l3 \in BitValue /\ a4 \in Word /\ l4 \in BitValue
  BY RightTypes, LeftTypes
<1>3. /\ LeftAC(a1, l1) = a /\ LeftLK(a1, l1) = l
      /\ LeftAC(a2, l2) = a1 /\ LeftLK(a2, l2) = l1
  BY <1>2, LeftOfRight
<1>4. /\ Machine!RAR(s5) = Gold(a1, l1, p, rest)
      /\ Machine!RTR(s5) = Gold(a2, l2, p, rest)
      /\ Machine!RAL(s5) = Gold(a3, l3, p, rest)
      /\ Machine!RTL(s5) = Gold(a4, l4, p, rest)
  BY <1>2, GoldRotates DEF Machine!RTR, Machine!RTL
<1>5. /\ Machine!RAL(Gold(a1, l1, p, rest)) = s5
      /\ Machine!RTL(Gold(a2, l2, p, rest)) = s5
  BY <1>2, <1>3, GoldRotates DEF Machine!RTL
<1>6. /\ [ac |-> (a % 2048) * 2 + l, lk |-> Bit(a, 11)] = [ac |-> a3, lk |-> l3]
      /\ [ac |-> (a % 1024) * 4 + l * 2 + Bit(a, 11), lk |-> Bit(a, 10)] = [ac |-> a4, lk |-> l4]
      /\ [ac |-> l * 2048 + a \div 2, lk |-> Bit(a, 0)] = [ac |-> a1, lk |-> l1]
      /\ [ac |-> Bit(a, 0) * 2048 + l * 1024 + a \div 4, lk |-> Bit(a, 1)] = [ac |-> a2, lk |-> l2]
  BY RightWires, LeftWires DEF RightAC
<1> HIDE DEF a1, l1, a2, l2, a3, l3, a4, l4
<1>7. /\ Bit(w, 1) \in {0, 1} /\ Bit(w, 2) \in {0, 1} /\ Bit(w, 3) \in {0, 1}
  BY BitIsBit DEF BitValue
<1> DEFINE c == ShiftStage(w, b, held)
<1>8. c = IF On(w, 3)
          THEN IF On(w, 2) THEN b
               ELSE IF On(w, 1) THEN [ac |-> a2, lk |-> l2] ELSE [ac |-> a1, lk |-> l1]
          ELSE IF On(w, 2) THEN IF On(w, 1) THEN [ac |-> a4, lk |-> l4] ELSE [ac |-> a3, lk |-> l3]
               ELSE b
  <2>1. /\ ShiftSelect(w) = IF On(w, 3) THEN IF On(w, 2) THEN IF On(w, 1) THEN 7 ELSE 6
                                           ELSE IF On(w, 1) THEN 5 ELSE 4
                             ELSE IF On(w, 2) THEN IF On(w, 1) THEN 3 ELSE 2
                                           ELSE IF On(w, 1) THEN 1 ELSE 0
    BY <1>7 DEF ShiftSelect, On
  <2> QED
    BY <1>1, <1>6, <2>1 DEF ShiftStage
<1> HIDE DEF c
<1>9. Machine!When(On(w, 3), IF On(w, 1) THEN Machine!RTR(s5) ELSE Machine!RAR(s5), s5)
        = IF On(w, 3) THEN IF On(w, 1) THEN Gold(a2, l2, p, rest) ELSE Gold(a1, l1, p, rest) ELSE s5
  BY <1>4 DEF Machine!When
<1> DEFINE s6 == IF On(w, 3) THEN IF On(w, 1) THEN Gold(a2, l2, p, rest) ELSE Gold(a1, l1, p, rest) ELSE s5
<1>10. Machine!When(On(w, 2), IF On(w, 1) THEN Machine!RTL(s6) ELSE Machine!RAL(s6), s6)
         = Gold(c.ac, c.lk, p, rest)
  BY <1>1, <1>4, <1>5, <1>8 DEF Machine!When
<1> QED
  BY <1>1, <1>9, <1>10 DEF c

\* The statements before the shifts, one register each.
LEMMA GoldSteps ==
  ASSUME NEW a \in Word, NEW l \in BitValue, NEW p, NEW rest
  PROVE  /\ Machine!CLA(Gold(a, l, p, rest)) = Gold(0, l, p, rest)
         /\ Machine!CLL(Gold(a, l, p, rest)) = Gold(a, 0, p, rest)
         /\ Machine!CMA(Gold(a, l, p, rest)) = Gold(Not(a), l, p, rest)
         /\ Machine!CML(Gold(a, l, p, rest)) = Gold(a, 1 - l, p, rest)
         /\ Machine!IAC(Gold(a, l, p, rest)) = Gold(Inc(a), l, p, rest)
<1> DEFINE g == Gold(a, l, p, rest)
           n == Not(a)
           k == 1 - l
           c == Inc(a)
<1>0. g.ac = a /\ g.lk = l
  BY GoldReads
<1>1. /\ Machine!CLA(g) = [g EXCEPT !.ac = 0] /\ Machine!CLL(g) = [g EXCEPT !.lk = 0]
      /\ Machine!CMA(g) = [g EXCEPT !.ac = n] /\ Machine!CML(g) = [g EXCEPT !.lk = k]
      /\ Machine!IAC(g) = [g EXCEPT !.ac = c]
  <2> HIDE DEF g
  <2>1. Machine!CLA(g) = [g EXCEPT !.ac = 0] /\ Machine!CLL(g) = [g EXCEPT !.lk = 0]
    BY DEF Machine!CLA, Machine!CLL
  <2>2. Machine!CMA(g) = [g EXCEPT !.ac = n]
    <3>1. Machine!Not(Machine!Cut(a)) = n
      BY SameOperators DEF Machine!Cut, Word
    <3> HIDE DEF n
    <3>2. Machine!CMA(g) = [g EXCEPT !.ac = Machine!Not(Machine!Cut(g.ac))]
      BY DEF Machine!CMA
    <3> QED
      BY <1>0, <3>1, <3>2
  <2>3. Machine!CML(g) = [g EXCEPT !.lk = k]
    BY <1>0 DEF Machine!CML
  <2>4. Machine!IAC(g) = [g EXCEPT !.ac = c]
    BY <1>0, SameOperators DEF Machine!IAC
  <2> QED
    BY <2>1, <2>2, <2>3, <2>4
<1> HIDE DEF n, k, c
<1>2. [g EXCEPT !.ac = 0] = Gold(0, l, p, rest)
  BY DEF Gold, Full
<1>3. [g EXCEPT !.lk = 0] = Gold(a, 0, p, rest)
  BY DEF Gold, Full
<1>4. [g EXCEPT !.ac = n] = Gold(n, l, p, rest)
  BY DEF Gold, Full
<1>5. [g EXCEPT !.lk = k] = Gold(a, k, p, rest)
  BY DEF Gold, Full
<1>6. [g EXCEPT !.ac = c] = Gold(c, l, p, rest)
  BY DEF Gold, Full
<1> QED
  BY <1>1, <1>2, <1>3, <1>4, <1>5, <1>6 DEF n, k, c

\* Group 1 is the pipeline of the decoder.
LEMMA GoldGroup1 ==
  ASSUME NEW w \in Word, NEW a \in Word, NEW l \in BitValue, NEW held, NEW p, NEW rest,
         ShiftSelect(w) # 1
  PROVE  Machine!Group1Sequence(w, Gold(a, l, p, rest))
           = Gold(Pipeline(w, a, l, held).ac, Pipeline(w, a, l, held).lk, p, rest)
<1> DEFINE c == ClearStage(w, a, l)
           d == ComplementStage(w, c)
           e == IncrementStage(w, d)
           s0 == Gold(a, l, p, rest)
           s1 == Machine!When(On(w, 7), Machine!CLA(s0), s0)
           s2 == Machine!When(On(w, 6), Machine!CLL(s1), s1)
           s3 == Machine!When(On(w, 5), Machine!CMA(s2), s2)
           s4 == Machine!When(On(w, 4), Machine!CML(s3), s3)
           s5 == Machine!When(On(w, 0), Machine!IAC(s4), s4)
           s6 == Machine!When(On(w, 3), IF On(w, 1) THEN Machine!RTR(s5) ELSE Machine!RAR(s5), s5)
           s7 == Machine!When(On(w, 2), IF On(w, 1) THEN Machine!RTL(s6) ELSE Machine!RAL(s6), s6)
<1>1. Machine!Group1Sequence(w, s0) = s7
  <2> DEFINE t1 == Machine!When(Machine!On(w, 7), Machine!CLA(s0), s0)
             t2 == Machine!When(Machine!On(w, 6), Machine!CLL(t1), t1)
             t3 == Machine!When(Machine!On(w, 5), Machine!CMA(t2), t2)
             t4 == Machine!When(Machine!On(w, 4), Machine!CML(t3), t3)
             t5 == Machine!When(Machine!On(w, 0), Machine!IAC(t4), t4)
             t6 == Machine!When(Machine!On(w, 3), IF Machine!On(w, 1) THEN Machine!RTR(t5)
                                                                      ELSE Machine!RAR(t5), t5)
             t7 == Machine!When(Machine!On(w, 2), IF Machine!On(w, 1) THEN Machine!RTL(t6)
                                                                      ELSE Machine!RAL(t6), t6)
  <2>1. Machine!Group1Sequence(w, s0) = t7
    BY Zenon DEF Machine!Group1Sequence
  <2> HIDE DEF s0
  <2>2. t1 = s1
    BY SameOperators
  <2> HIDE DEF t1, s1
  <2>3. t2 = s2
    BY <2>2, SameOperators
  <2> HIDE DEF t2, s2
  <2>4. t3 = s3
    BY <2>3, SameOperators
  <2> HIDE DEF t3, s3
  <2>5. t4 = s4
    BY <2>4, SameOperators
  <2> HIDE DEF t4, s4
  <2>6. t5 = s5
    BY <2>5, SameOperators
  <2> HIDE DEF t5, s5
  <2>7. t6 = s6
    BY <2>6, SameOperators
  <2> HIDE DEF t6, s6
  <2>8. t7 = s7
    BY <2>7, SameOperators
  <2> HIDE DEF t7, s7
  <2> QED
    BY <2>1, <2>8, Zenon
<1>2. 0 \in Word /\ 0 \in BitValue
  BY DEF Word, BitValue
<1>3. c \in PairOfWordAndBit /\ s2 = Gold(c.ac, c.lk, p, rest)
  <2>1. s1 = Gold(c.ac, l, p, rest) /\ c.ac \in Word /\ c.lk \in BitValue
    BY <1>2, GoldSteps DEF Machine!When, ClearStage
  <2>2. s2 = Gold(c.ac, c.lk, p, rest)
    <3> HIDE DEF s1
    <3>1. CASE On(w, 6)
      BY <2>1, <3>1, GoldSteps DEF Machine!When, ClearStage
    <3>2. CASE ~On(w, 6)
      BY <2>1, <3>2 DEF Machine!When, ClearStage
    <3> QED
      BY <3>1, <3>2
  <2>3. c \in PairOfWordAndBit
    BY <2>1 DEF ClearStage, PairOfWordAndBit
  <2> QED
    BY <2>2, <2>3
<1> HIDE DEF c, s2
<1>4. d \in PairOfWordAndBit /\ s4 = Gold(d.ac, d.lk, p, rest)
  <2>1. PICK x \in Word, y \in BitValue : c = [ac |-> x, lk |-> y] /\ s2 = Gold(x, y, p, rest)
    BY <1>3 DEF PairOfWordAndBit
  <2>2. Not(x) \in Word /\ 1 - y \in BitValue
    <3>1. Not(x) \in Word
      BY FieldsAreWords
    <3>2. 1 - y \in BitValue
      BY DEF BitValue
    <3> QED
      BY <3>1, <3>2
  <2>3. d = [ac |-> IF On(w, 5) THEN Not(x) ELSE x, lk |-> IF On(w, 4) THEN 1 - y ELSE y]
    BY <2>1 DEF ComplementStage
  <2>4. s3 = Gold(IF On(w, 5) THEN Not(x) ELSE x, y, p, rest)
    BY <2>1, GoldSteps DEF Machine!When
  <2> HIDE DEF s3, d
  <2>5. CASE On(w, 4)
    BY <2>2, <2>3, <2>4, <2>5, GoldSteps DEF Machine!When, PairOfWordAndBit
  <2>6. CASE ~On(w, 4)
    BY <2>2, <2>3, <2>4, <2>6 DEF Machine!When, PairOfWordAndBit
  <2> QED
    BY <2>5, <2>6
<1> HIDE DEF d, s4
<1>5. e \in PairOfWordAndBit /\ s5 = Gold(e.ac, e.lk, p, rest)
  <2>1. PICK x \in Word, y \in BitValue : d = [ac |-> x, lk |-> y] /\ s4 = Gold(x, y, p, rest)
    BY <1>4 DEF PairOfWordAndBit
  <2>2. Inc(x) \in Word
    BY FieldsAreWords
  <2>3. e = [ac |-> IF On(w, 0) THEN Inc(x) ELSE x, lk |-> y]
    BY <2>1 DEF IncrementStage
  <2>4. s5 = Gold(IF On(w, 0) THEN Inc(x) ELSE x, y, p, rest)
    BY <2>1, GoldSteps DEF Machine!When
  <2> QED
    BY <2>2, <2>3, <2>4 DEF PairOfWordAndBit
<1> HIDE DEF e, s5
<1>6. s7 = Gold(ShiftStage(w, e, held).ac, ShiftStage(w, e, held).lk, p, rest)
  BY <1>5, GoldShifts
<1> QED
  BY <1>1, <1>6 DEF Pipeline, c, d, e

-----------------------------------------------------------------------------
\* The programmer's state and what the operation under way makes of it.

Programmer(a, l, q, p, m) == [ac |-> a, lk |-> l, mq |-> q, pc |-> p, mem |-> m]

Contents(m) == DOMAIN m \subseteq Word /\ \A x \in DOMAIN m : m[x] \in Word

ArchTyped ==
  /\ arch = Programmer(arch.ac, arch.lk, arch.mq, arch.pc, arch.mem)
  /\ arch.ac \in Word /\ arch.lk \in BitValue /\ arch.mq \in Word /\ arch.pc \in Word
  /\ Contents(arch.mem)

LEMMA LocationTypes ==
  ASSUME NEW m, Contents(m), NEW x \in Word, NEW d \in Word
  PROVE  At(m, x) \in Word /\ Contents(Put(m, x, d))
<1>1. 0 \in Word
  BY DEF Word
<1> QED
  BY <1>1 DEF At, Put, Contents

LEMMA OperandTyped ==
  ASSUME ArchTyped
  PROVE  /\ Instr \in Word /\ Following \in Word /\ Pointer \in Word /\ Target \in Word
         /\ Effective \in Word /\ Contents(Indexed) /\ Operand \in Word
<1>1. Instr \in Word /\ Following \in Word
  BY LocationTypes, FieldsAreWords DEF ArchTyped, Instr, Following
<1>2. Pointer \in Word
  BY <1>1, FieldsAreWords DEF Pointer
<1>3. Target \in Word
  BY <1>2, LocationTypes DEF ArchTyped, Target
<1>4. Inc(Target) \in Word
  BY <1>3, FieldsAreWords
<1>5. Effective \in Word
  BY <1>2, <1>3, <1>4 DEF Effective
<1>6. Contents(Indexed)
  BY <1>2, <1>4, LocationTypes DEF ArchTyped, Indexed
<1>7. Operand \in Word
  BY <1>5, <1>6, LocationTypes DEF Operand
<1> QED
  BY <1>1, <1>2, <1>3, <1>5, <1>6, <1>7

\* One register of the programmer's state changed.
LEMMA ArchLoads ==
  ASSUME ArchTyped, NEW x
  PROVE  /\ [arch EXCEPT !.pc = x] = Programmer(arch.ac, arch.lk, arch.mq, x, arch.mem)
         /\ [arch EXCEPT !.ac = x] = Programmer(x, arch.lk, arch.mq, arch.pc, arch.mem)
<1> DEFINE a == arch.ac
           l == arch.lk
           q == arch.mq
           p == arch.pc
           m == arch.mem
<1>1. arch = Programmer(a, l, q, p, m)
  BY DEF ArchTyped
<1> HIDE DEF a, l, q, p, m
<1>2. [arch EXCEPT !.pc = x] = Programmer(a, l, q, x, m)
  BY <1>1 DEF Programmer
<1>3. [arch EXCEPT !.ac = x] = Programmer(x, l, q, p, m)
  BY <1>1 DEF Programmer
<1> QED
  BY <1>2, <1>3 DEF a, l, q, p, m

\* Where the golden model starts and what of it the machine keeps.
LEMMA GoldStarts ==
  ASSUME ArchTyped, NEW sw, NEW rest
  PROVE  /\ Machine!ir = Instr /\ Machine!next = Following
         /\ Machine!ToGolden(arch, sw) = Start(Switches(sw))
         /\ Machine!CurrentInstruction(Start(rest)) = Instr
         /\ Machine!Short(arch.pc + 1) = arch.pc + 1
         /\ (arch.pc + 1) % 4096 = Following
<1>1. arch.pc % 4096 = arch.pc /\ (arch.pc + 1) % 65536 = arch.pc + 1
  <2>1. \A x \in Word : x % 4096 = x /\ (x + 1) % 65536 = x + 1
    BY SMT DEF Word
  <2> QED
    BY <2>1 DEF ArchTyped
<1>2. Machine!ir = Instr
  BY <1>1, SameMemory DEF Machine!ir, Instr
<1>3. Machine!next = Following /\ (arch.pc + 1) % 4096 = Following
  BY SameOperators DEF Machine!next, Following, Inc
<1>4. Machine!ToGolden(arch, sw) = Start(Switches(sw))
  BY DEF Machine!ToGolden, Start, Switches, Gold, Full, No
<1>5. Machine!CurrentInstruction(Start(rest)) = Instr
  BY <1>1, SameMemory, GoldReads DEF Machine!CurrentInstruction, Start, Instr
<1>6. Machine!Short(arch.pc + 1) = arch.pc + 1
  BY <1>1 DEF Machine!Short
<1> QED
  BY <1>2, <1>3, <1>4, <1>5, <1>6

\* The effective address as the golden model has it, uncut.
Address == IF ~On(Instr, 8) THEN Pointer
           ELSE IF AutoIndex(Pointer) THEN Target + 1 ELSE Target

LEMMA AddressCut ==
  ASSUME ArchTyped
  PROVE  /\ Address \in Nat /\ Address % 4096 = Effective
         /\ Machine!Cut(Address + 1) = Inc(Effective)
<1>1. Pointer \in Word /\ Target \in Word
  BY OperandTyped
<1>2. \A x \in Word : /\ x \in Nat /\ x + 1 \in Nat /\ x % 4096 = x /\ (x + 1) % 4096 = Inc(x)
                      /\ (x + 2) % 4096 = Inc(Inc(x))
  BY SMT DEF Word, Inc
<1>3. Address \in Nat /\ Address % 4096 = Effective
  BY <1>1, <1>2 DEF Address, Effective
<1>4. \A x \in Nat : (x + 1) % 4096 = Inc(x % 4096)
  BY SMT DEF Inc
<1> QED
  BY <1>3, <1>4 DEF Machine!Cut

LEMMA GoldAddress ==
  ASSUME ArchTyped, NEW p, p % 4096 = Following, NEW rest
  PROVE  Machine!EffAddCalc(Instr, Gold(arch.ac, arch.lk, p, rest))
           = Full(arch.ac, arch.lk, p, rest.sw, Address, rest.b, Indexed, No)
<1> DEFINE g == Gold(arch.ac, arch.lk, p, rest)
           a == arch.ac
           l == arch.lk
           m == arch.mem
           sw == rest.sw
           c == rest.c
           b == rest.b
           t == Target + 1
           n == Put(arch.mem, Pointer, Inc(Target))
<1>1. g.pc = p /\ g.mem = m
  BY GoldReads
<1>2. Pointer \in Word /\ Target \in Word
  BY OperandTyped
<1>3. Pointer % 4096 = Pointer /\ Target % 4096 = Target /\ t % 4096 = Inc(Target)
      /\ (Pointer \in 8 .. 15 <=> AutoIndex(Pointer))
  <2>1. \A x \in Word : /\ x % 4096 = x /\ (x + 1) % 4096 = Inc(x)
                        /\ x \in 8 .. 15 <=> AutoIndex(x)
    BY SMT DEF Word, Inc, AutoIndex
  <2> QED
    BY <1>2, <2>1
<1>4. Machine!GetAddress(Instr, g) = Pointer
  BY <1>1, SameOperators
     DEF Machine!GetAddress, Machine!CurrentPage, Machine!Cut, Pointer
<1>5. Machine!MemRead(g.mem, Pointer) = Target
  BY <1>1, <1>3, SameMemory DEF Target
<1>6. Machine!MemWrite(g.mem, Pointer, t) = n
  BY <1>1, <1>3, SameMemory
<1> HIDE DEF a, l, m, n, sw, c, b
<1>7. /\ [g EXCEPT !.cpma = Pointer] = Full(a, l, p, sw, Pointer, b, m, No)
      /\ [g EXCEPT !.cpma = Target] = Full(a, l, p, sw, Target, b, m, No)
      /\ [g EXCEPT !.cpma = t, !.mem = n] = Full(a, l, p, sw, t, b, n, No)
  <2>1. g = Full(a, l, p, sw, c, b, m, No)
    BY DEF Gold, a, l, m, sw, c, b
  <2> HIDE DEF g, t
  <2>2. /\ [g EXCEPT !.cpma = Pointer] = Full(a, l, p, sw, Pointer, b, m, No)
        /\ [g EXCEPT !.cpma = Target] = Full(a, l, p, sw, Target, b, m, No)
        /\ [g EXCEPT !.cpma = t] = Full(a, l, p, sw, t, b, m, No)
    BY <2>1 DEF Full
  <2>3. [Full(a, l, p, sw, t, b, m, No) EXCEPT !.mem = n] = Full(a, l, p, sw, t, b, n, No)
    BY DEF Full
  <2> QED
    BY <2>2, <2>3, Zenon
<1> DEFINE wr == Machine!MemWrite(g.mem, Pointer, t)
           e == Machine!EffAddCalc(Instr, g)
<1>8. e = IF ~On(Instr, 8) THEN [g EXCEPT !.cpma = Pointer]
          ELSE IF Pointer \in 8 .. 15 THEN [g EXCEPT !.cpma = t, !.mem = wr]
          ELSE [g EXCEPT !.cpma = Target]
  <2> HIDE DEF g
  <2> QED
    BY <1>4, <1>5, SameOperators DEF Machine!EffAddCalc
<1> HIDE DEF g, t, wr, e
<1>9. e = IF ~On(Instr, 8) THEN Full(a, l, p, sw, Pointer, b, m, No)
          ELSE IF AutoIndex(Pointer) THEN Full(a, l, p, sw, t, b, n, No)
          ELSE Full(a, l, p, sw, Target, b, m, No)
  <2>1. CASE ~On(Instr, 8)
    BY <1>7, <1>8, <2>1
  <2>2. CASE On(Instr, 8) /\ AutoIndex(Pointer)
    <3>1. wr = n
      BY <1>6 DEF wr
    <3> QED
      BY <1>3, <1>7, <1>8, <2>2, <3>1
  <2>3. CASE On(Instr, 8) /\ ~AutoIndex(Pointer)
    BY <1>3, <1>7, <1>8, <2>3
  <2> QED
    BY <2>1, <2>2, <2>3
<1>10. e = Full(a, l, p, sw, Address, b, Indexed, No)
  <2>1. CASE ~On(Instr, 8)
    BY <1>9, <2>1 DEF Address, Indexed, Indexing, m
  <2>2. CASE On(Instr, 8) /\ AutoIndex(Pointer)
    BY <1>9, <2>2 DEF Address, Indexed, Indexing, n, t
  <2>3. CASE On(Instr, 8) /\ ~AutoIndex(Pointer)
    BY <1>9, <2>3 DEF Address, Indexed, Indexing, m
  <2> QED
    BY <2>1, <2>2, <2>3
<1> QED
  BY <1>10 DEF a, l, e, g, sw, b

-----------------------------------------------------------------------------
\* The memory reference instructions of the golden model.

\* The link after an addition and the program counter after an ISZ.
CarriedLK(a, x, l) == IF ((a + x) \div 4096) % 2 = 1 THEN 1 - l ELSE l
SkippedPC(y, p) == IF y = 0 THEN Machine!Short(p + 1) ELSE p

LEMMA GoldReferences ==
  ASSUME NEW a, NEW l, NEW p, NEW sw, NEW c, NEW b, NEW m, NEW x, x = Machine!MemRead(m, c)
  PROVE  LET s == Full(a, l, p, sw, c, b, m, No)
             y == Machine!Cut(x + 1)
         IN  /\ Machine!AND(s) = Full(Machine!And(a, x), l, p, sw, c, x, m, No)
             /\ Machine!TAD(s) = Full(Machine!Cut(a + x), CarriedLK(a, x, l), p, sw, c, x, m, No)
             /\ Machine!ISZ(s)
                  = Full(a, l, SkippedPC(y, p), sw, c, y, Machine!MemWrite(m, c, y), No)
             /\ Machine!DCA(s) = Full(0, l, p, sw, c, a, Machine!MemWrite(m, c, a), No)
             /\ Machine!JMS(s)
                  = Full(a, l, Machine!Cut(c + 1), sw, c, p, Machine!MemWrite(m, c, p), No)
             /\ Machine!JMP(s) = Full(a, l, c, sw, c, b, m, No)
<1> DEFINE s == Full(a, l, p, sw, c, b, m, No)
           y == Machine!Cut(x + 1)
           e == Machine!And(a, x)
           d == Machine!Cut(a + x)
           k == CarriedLK(a, x, l)
           q == SkippedPC(y, p)
           u == Machine!MemWrite(m, c, y)
           v == Machine!MemWrite(m, c, a)
           w == Machine!MemWrite(m, c, p)
           z == Machine!Cut(c + 1)
<1>1. /\ s.ac = a /\ s.lk = l /\ s.pc = p /\ s.cpma = c /\ s.mem = m
  BY FullReads
<1> HIDE DEF s
<1>2. /\ Machine!AND(s) = [[s EXCEPT !.mb = x] EXCEPT !.ac = e]
  BY <1>1 DEF Machine!AND
<1>3. Machine!TAD(s) = [[[s EXCEPT !.mb = x] EXCEPT !.ac = d] EXCEPT !.lk = k]
  BY <1>1 DEF Machine!TAD, CarriedLK
<1>4. Machine!ISZ(s) = [[[s EXCEPT !.mb = y] EXCEPT !.mem = u] EXCEPT !.pc = q]
  BY <1>1 DEF Machine!ISZ, SkippedPC
<1>5. Machine!DCA(s) = [[[s EXCEPT !.mb = a] EXCEPT !.mem = v] EXCEPT !.ac = 0]
  BY <1>1 DEF Machine!DCA
<1>6. Machine!JMS(s) = [[[s EXCEPT !.mb = p] EXCEPT !.mem = w] EXCEPT !.pc = z]
  BY <1>1 DEF Machine!JMS
<1>7. Machine!JMP(s) = [s EXCEPT !.pc = c]
  BY <1>1 DEF Machine!JMP
<1> HIDE DEF y, e, d, k, q, u, v, w, z
<1>8. /\ [s EXCEPT !.mb = x] = Full(a, l, p, sw, c, x, m, No)
      /\ [s EXCEPT !.mb = y] = Full(a, l, p, sw, c, y, m, No)
      /\ [s EXCEPT !.mb = a] = Full(a, l, p, sw, c, a, m, No)
      /\ [s EXCEPT !.mb = p] = Full(a, l, p, sw, c, p, m, No)
      /\ [s EXCEPT !.pc = c] = Full(a, l, c, sw, c, b, m, No)
  BY DEF s, Full
<1>9. [Full(a, l, p, sw, c, x, m, No) EXCEPT !.ac = e] = Full(e, l, p, sw, c, x, m, No)
  BY DEF Full
<1>10. [[Full(a, l, p, sw, c, x, m, No) EXCEPT !.ac = d] EXCEPT !.lk = k]
         = Full(d, k, p, sw, c, x, m, No)
  <2>1. [Full(a, l, p, sw, c, x, m, No) EXCEPT !.ac = d] = Full(d, l, p, sw, c, x, m, No)
    BY DEF Full
  <2>2. [Full(d, l, p, sw, c, x, m, No) EXCEPT !.lk = k] = Full(d, k, p, sw, c, x, m, No)
    BY DEF Full
  <2> QED
    BY <2>1, <2>2
<1>11. [[Full(a, l, p, sw, c, y, m, No) EXCEPT !.mem = u] EXCEPT !.pc = q]
         = Full(a, l, q, sw, c, y, u, No)
  <2>1. [Full(a, l, p, sw, c, y, m, No) EXCEPT !.mem = u] = Full(a, l, p, sw, c, y, u, No)
    BY DEF Full
  <2>2. [Full(a, l, p, sw, c, y, u, No) EXCEPT !.pc = q] = Full(a, l, q, sw, c, y, u, No)
    BY DEF Full
  <2> QED
    BY <2>1, <2>2
<1>12. [[Full(a, l, p, sw, c, a, m, No) EXCEPT !.mem = v] EXCEPT !.ac = 0]
         = Full(0, l, p, sw, c, a, v, No)
  <2>1. [Full(a, l, p, sw, c, a, m, No) EXCEPT !.mem = v] = Full(a, l, p, sw, c, a, v, No)
    BY DEF Full
  <2>2. [Full(a, l, p, sw, c, a, v, No) EXCEPT !.ac = 0] = Full(0, l, p, sw, c, a, v, No)
    BY DEF Full
  <2> QED
    BY <2>1, <2>2
<1>13. [[Full(a, l, p, sw, c, p, m, No) EXCEPT !.mem = w] EXCEPT !.pc = z]
         = Full(a, l, z, sw, c, p, w, No)
  <2>1. [Full(a, l, p, sw, c, p, m, No) EXCEPT !.mem = w] = Full(a, l, p, sw, c, p, w, No)
    BY DEF Full
  <2>2. [Full(a, l, p, sw, c, p, w, No) EXCEPT !.pc = z] = Full(a, l, z, sw, c, p, w, No)
    BY DEF Full
  <2> QED
    BY <2>1, <2>2
<1>14. /\ Machine!AND(s) = Full(e, l, p, sw, c, x, m, No)
       /\ Machine!TAD(s) = Full(d, k, p, sw, c, x, m, No)
       /\ Machine!ISZ(s) = Full(a, l, q, sw, c, y, u, No)
       /\ Machine!DCA(s) = Full(0, l, p, sw, c, a, v, No)
       /\ Machine!JMS(s) = Full(a, l, z, sw, c, p, w, No)
       /\ Machine!JMP(s) = Full(a, l, c, sw, c, b, m, No)
  BY <1>2, <1>3, <1>4, <1>5, <1>6, <1>7, <1>8, <1>9, <1>10, <1>11, <1>12, <1>13
<1> QED
  BY <1>14 DEF s, y, e, d, k, q, u, v, w, z

LEMMA FromFull ==
  ASSUME NEW a, NEW l, NEW p, NEW sw, NEW c, NEW b, NEW m, NEW h, NEW q
  PROVE  Machine!FromGolden(Full(a, l, p, sw, c, b, m, h), q) = Programmer(a, l, q, p % 4096, m)
<1> DEFINE s == Full(a, l, p, sw, c, b, m, h)
<1>1. s.ac = a /\ s.lk = l /\ s.pc = p /\ s.mem = m
  BY FullReads
<1> HIDE DEF s
<1>2. Machine!FromGolden(s, q) = Programmer(a, l, q, p % 4096, m)
  BY <1>1 DEF Machine!FromGolden, Machine!Cut, Programmer
<1> QED
  BY <1>2 DEF s

\* One turn of the loop of the C simulator.
LEMMA GoldTurns ==
  ASSUME ArchTyped, NEW rest
  PROVE  LET g == Machine!Execute(Start(rest))
             p == arch.pc + 1
             f == Gold(arch.ac, arch.lk, p, rest)
             s == Full(arch.ac, arch.lk, p, rest.sw, Address, rest.b, Indexed, No)
         IN  /\ Opcode(Instr) = 0 => g = Machine!AND(s)
             /\ Opcode(Instr) = 1 => g = Machine!TAD(s)
             /\ Opcode(Instr) = 2 => g = Machine!ISZ(s)
             /\ Opcode(Instr) = 3 => g = Machine!DCA(s)
             /\ Opcode(Instr) = 4 => g = Machine!JMS(s)
             /\ Opcode(Instr) = 5 => g = Machine!JMP(s)
             /\ Opcode(Instr) = 7 => g = Machine!Microinstruction(Instr, f)
<1> DEFINE a == arch.ac
           l == arch.lk
           p == arch.pc + 1
           g0 == Gold(a, l, arch.pc, rest)
           f == Gold(a, l, p, rest)
           s == Full(a, l, p, rest.sw, Address, rest.b, Indexed, No)
           g == Machine!Execute(g0)
<1>1. /\ Start(rest) = g0 /\ Machine!CurrentInstruction(g0) = Instr
      /\ Machine!Short(p) = p /\ p % 4096 = Following
  BY GoldStarts DEF Start
<1>2. Machine!Short(g0.pc + 1) = p
  BY <1>1, GoldReads
<1>3. [g0 EXCEPT !.pc = p] = f
  <2> HIDE DEF a, l, p
  <2> QED
    BY DEF Gold, Full
<1>4. Machine!EffAddCalc(Instr, f) = s
  BY <1>1, GoldAddress
<1> HIDE DEF a, l, p, g0, f, s
<1>5. g = LET d == [g0 EXCEPT !.pc = Machine!Short(g0.pc + 1)]
              e == Machine!EffAddCalc(Instr, d)
          IN  CASE Opcode(Instr) = 0 -> Machine!AND(e)
                [] Opcode(Instr) = 1 -> Machine!TAD(e)
                [] Opcode(Instr) = 2 -> Machine!ISZ(e)
                [] Opcode(Instr) = 3 -> Machine!DCA(e)
                [] Opcode(Instr) = 4 -> Machine!JMS(e)
                [] Opcode(Instr) = 5 -> Machine!JMP(e)
                [] Opcode(Instr) = 6 -> e
                [] Opcode(Instr) = 7 -> Machine!Microinstruction(Instr, d)
  BY <1>1, SameOperators, Zenon DEF Machine!Execute
<1>6. g = CASE Opcode(Instr) = 0 -> Machine!AND(s)
            [] Opcode(Instr) = 1 -> Machine!TAD(s)
            [] Opcode(Instr) = 2 -> Machine!ISZ(s)
            [] Opcode(Instr) = 3 -> Machine!DCA(s)
            [] Opcode(Instr) = 4 -> Machine!JMS(s)
            [] Opcode(Instr) = 5 -> Machine!JMP(s)
            [] Opcode(Instr) = 6 -> s
            [] Opcode(Instr) = 7 -> Machine!Microinstruction(Instr, f)
  BY <1>2, <1>3, <1>4, <1>5
<1> HIDE DEF g
<1>7. /\ Opcode(Instr) = 0 => g = Machine!AND(s)
      /\ Opcode(Instr) = 1 => g = Machine!TAD(s)
      /\ Opcode(Instr) = 2 => g = Machine!ISZ(s)
      /\ Opcode(Instr) = 3 => g = Machine!DCA(s)
      /\ Opcode(Instr) = 4 => g = Machine!JMS(s)
      /\ Opcode(Instr) = 5 => g = Machine!JMP(s)
      /\ Opcode(Instr) = 7 => g = Machine!Microinstruction(Instr, f)
  BY <1>6
<1> QED
  BY <1>1, <1>7 DEF g, a, l, p, f, s

\* What a memory reference instruction leaves, and that it does not halt.
ReferredAC == CASE Opcode(Instr) = 0 -> And(arch.ac, Operand)
                [] Opcode(Instr) = 1 -> (arch.ac + Operand) % 4096
                [] Opcode(Instr) = 3 -> 0
                [] OTHER -> arch.ac
ReferredLK == IF Opcode(Instr) = 1 /\ arch.ac + Operand > 4095 THEN 1 - arch.lk ELSE arch.lk
ReferredPC == CASE Opcode(Instr) = 2 -> IF Inc(Operand) = 0 THEN Inc(Following) ELSE Following
                [] Opcode(Instr) = 4 -> Inc(Effective)
                [] Opcode(Instr) = 5 -> Effective
                [] OTHER -> Following

ReferredMB(before) == CASE Opcode(Instr) \in {0, 1} -> Operand
                        [] Opcode(Instr) = 2 -> Inc(Operand)
                        [] Opcode(Instr) = 3 -> arch.ac
                        [] Opcode(Instr) = 4 -> Following
                        [] OTHER -> before

LEMMA GoldRefers ==
  ASSUME ArchTyped, Opcode(Instr) <= 5, NEW rest
  PROVE  LET g == Machine!Execute(Start(rest))
         IN  /\ Machine!FromGolden(g, arch.mq)
                  = Programmer(ReferredAC, ReferredLK, arch.mq, ReferredPC, Executed)
             /\ g.halted = No /\ g.mem = Executed
             /\ g.mb % 4096 = ReferredMB(rest.b % 4096) /\ g.cpma % 4096 = Effective
<1> DEFINE a == arch.ac
           l == arch.lk
           p == arch.pc + 1
           x == Operand
           sw == rest.sw
           bu == rest.b
           s == Full(a, l, p, sw, Address, bu, Indexed, No)
           g == Machine!Execute(Start(rest))
           k == IF a + x > 4095 THEN 1 - l ELSE l
           r == IF Inc(x) = 0 THEN p + 1 ELSE p
<1>1. /\ Address % 4096 = Effective /\ Machine!Cut(Address + 1) = Inc(Effective)
      /\ Instr \in Word /\ x \in Word /\ a \in Word /\ arch.pc \in Word /\ Effective \in Word
  BY AddressCut, OperandTyped DEF ArchTyped
<1>2. /\ x = Machine!MemRead(Indexed, Address)
      /\ Machine!Cut(x + 1) = Inc(x)
      /\ Machine!MemWrite(Indexed, Address, Inc(x)) = Put(Indexed, Effective, Inc(x))
      /\ Machine!MemWrite(Indexed, Address, a) = Put(Indexed, Effective, a)
      /\ Machine!MemWrite(Indexed, Address, p) = Put(Indexed, Effective, Following)
  <2>1. \A n \in Word : n % 4096 = n
    BY SMT DEF Word
  <2>2. Inc(x) \in Word /\ Inc(x) % 4096 = Inc(x) /\ a % 4096 = a
    BY <1>1, <2>1, FieldsAreWords
  <2>3. p % 4096 = Following
    BY GoldStarts
  <2> QED
    BY <1>1, <2>2, <2>3, SameMemory, SameOperators DEF Operand
<1>3. /\ Machine!Short(p + 1) = p + 1 /\ p % 4096 = Following /\ (p + 1) % 4096 = Inc(Following)
      /\ Inc(Effective) % 4096 = Inc(Effective)
      /\ x % 4096 = x /\ Inc(x) % 4096 = Inc(x) /\ a % 4096 = a
  <2>1. \A n \in Word : /\ (n + 1 + 1) % 65536 = n + 1 + 1
                        /\ (n + 1 + 1) % 4096 = Inc(Inc(n))
                        /\ Inc(n) % 4096 = Inc(n) /\ n % 4096 = n
    BY SMTT(30) DEF Word, Inc
  <2> QED
    BY <1>1, <2>1, GoldStarts DEF Machine!Short, Following
<1>4. k = IF ((a + x) \div 4096) % 2 = 1 THEN 1 - l ELSE l
  <2>1. \A m, n \in Word : ((m + n) \div 4096) % 2 = 1 <=> m + n > 4095
    BY SMTT(30) DEF Word
  <2> QED
    BY <1>1, <2>1
<1> DEFINE b0 == Full(And(a, x), l, p, sw, Address, x, Indexed, No)
           b1 == Full((a + x) % 4096, k, p, sw, Address, x, Indexed, No)
           b2 == Full(a, l, r, sw, Address, Inc(x), Put(Indexed, Effective, Inc(x)), No)
           b3 == Full(0, l, p, sw, Address, a, Put(Indexed, Effective, a), No)
           b4 == Full(a, l, Inc(Effective), sw, Address, p, Put(Indexed, Effective, Following), No)
           b5 == Full(a, l, Address, sw, Address, bu, Indexed, No)
<1>5. /\ Opcode(Instr) = 0 => g = b0
      /\ Opcode(Instr) = 1 => g = b1
      /\ Opcode(Instr) = 2 => g = b2
      /\ Opcode(Instr) = 3 => g = b3
      /\ Opcode(Instr) = 4 => g = b4
      /\ Opcode(Instr) = 5 => g = b5
  <2> HIDE DEF g, a, l, p, x
  <2>1. /\ Opcode(Instr) = 0 => g = Machine!AND(s)
        /\ Opcode(Instr) = 1 => g = Machine!TAD(s)
        /\ Opcode(Instr) = 2 => g = Machine!ISZ(s)
        /\ Opcode(Instr) = 3 => g = Machine!DCA(s)
        /\ Opcode(Instr) = 4 => g = Machine!JMS(s)
        /\ Opcode(Instr) = 5 => g = Machine!JMP(s)
    BY GoldTurns DEF g, a, l, p
  <2>2. /\ Machine!AND(s) = b0 /\ Machine!TAD(s) = b1 /\ Machine!ISZ(s) = b2
        /\ Machine!DCA(s) = b3 /\ Machine!JMS(s) = b4 /\ Machine!JMP(s) = b5
    <3> HIDE DEF sw, bu
    <3> DEFINE y == Inc(x)
    <3>1. /\ Machine!Cut(x + 1) = y /\ Machine!And(a, x) = And(a, x)
          /\ Machine!Cut(Address + 1) = Inc(Effective)
          /\ Machine!Cut(a + x) = (a + x) % 4096
      BY <1>1, <1>2, <1>3, SameOperators DEF Machine!Cut
    <3>2. k = CarriedLK(a, x, l)
      BY <1>4 DEF CarriedLK
    <3>3. r = SkippedPC(y, p)
      BY <1>3 DEF SkippedPC
    <3> HIDE DEF y, k, r
    <3>4. /\ Machine!AND(s) = Full(Machine!And(a, x), l, p, sw, Address, x, Indexed, No)
          /\ Machine!TAD(s) = Full(Machine!Cut(a + x), k, p, sw, Address, x, Indexed, No)
          /\ Machine!ISZ(s)
               = Full(a, l, r, sw, Address, y, Machine!MemWrite(Indexed, Address, y), No)
          /\ Machine!DCA(s) = Full(0, l, p, sw, Address, a, Machine!MemWrite(Indexed, Address, a), No)
          /\ Machine!JMS(s)
               = Full(a, l, Machine!Cut(Address + 1), sw, Address, p,
                      Machine!MemWrite(Indexed, Address, p), No)
          /\ Machine!JMP(s) = b5
      BY <1>2, <3>1, <3>2, <3>3, GoldReferences
    <3> QED
      BY <1>2, <3>1, <3>4 DEF y
  <2> HIDE DEF s, b0, b1, b2, b3, b4, b5
  <2> QED
    BY <2>1, <2>2
<1>6. Opcode(Instr) \in 0 .. 5
  BY <1>1, FieldsAreWords
<1> HIDE DEF g, a, l, p, x, k, r, sw, bu, b0, b1, b2, b3, b4, b5
<1>7. r % 4096 = IF Inc(x) = 0 THEN Inc(Following) ELSE Following
  BY <1>3 DEF r
<1> DEFINE q == arch.mq
<1> HIDE DEF q
<1>8. /\ Machine!FromGolden(g, q) = Programmer(ReferredAC, ReferredLK, q, ReferredPC, Executed)
      /\ g.halted = No /\ g.mem = Executed
      /\ g.mb % 4096 = ReferredMB(bu % 4096) /\ g.cpma % 4096 = Effective
  <2>1. CASE Opcode(Instr) = 0
    <3>1. /\ Machine!FromGolden(b0, q) = Programmer(And(a, x), l, q, Following, Indexed)
          /\ b0.halted = No /\ b0.mem = Indexed
          /\ b0.mb % 4096 = x /\ b0.cpma % 4096 = Effective
      BY <1>1, <1>3, FromFull, FullReads DEF b0
    <3>2. /\ ReferredAC = And(a, x) /\ ReferredLK = l
          /\ ReferredPC = Following
          /\ Executed = Indexed
          /\ ReferredMB(bu % 4096) = x
      BY <2>1 DEF ReferredAC, ReferredLK, ReferredPC, ReferredMB, Executed, a, l, x
    <3> QED
      BY <1>5, <2>1, <3>1, <3>2
  <2>2. CASE Opcode(Instr) = 1
    <3>1. /\ Machine!FromGolden(b1, q) = Programmer((a + x) % 4096, k, q, Following, Indexed)
          /\ b1.halted = No /\ b1.mem = Indexed
          /\ b1.mb % 4096 = x /\ b1.cpma % 4096 = Effective
      BY <1>1, <1>3, FromFull, FullReads DEF b1
    <3>2. /\ ReferredAC = (a + x) % 4096 /\ ReferredLK = k
          /\ ReferredPC = Following
          /\ Executed = Indexed
          /\ ReferredMB(bu % 4096) = x
      BY <2>2 DEF ReferredAC, ReferredLK, ReferredPC, ReferredMB, Executed, a, l, x, k
    <3> QED
      BY <1>5, <2>2, <3>1, <3>2
  <2>3. CASE Opcode(Instr) = 2
    <3>1. /\ Machine!FromGolden(b2, q) = Programmer(a, l, q, (IF Inc(x) = 0 THEN Inc(Following) ELSE Following),
                                              Put(Indexed, Effective, Inc(x)))
          /\ b2.halted = No /\ b2.mem = Put(Indexed, Effective, Inc(x))
          /\ b2.mb % 4096 = Inc(x) /\ b2.cpma % 4096 = Effective
      BY <1>1, <1>3, <1>7, FromFull, FullReads DEF b2
    <3>2. /\ ReferredAC = a /\ ReferredLK = l
          /\ ReferredPC = (IF Inc(x) = 0 THEN Inc(Following) ELSE Following)
          /\ Executed = Put(Indexed, Effective, Inc(x))
          /\ ReferredMB(bu % 4096) = Inc(x)
      BY <2>3 DEF ReferredAC, ReferredLK, ReferredPC, ReferredMB, Executed, a, l, x
    <3> QED
      BY <1>5, <2>3, <3>1, <3>2
  <2>4. CASE Opcode(Instr) = 3
    <3>1. /\ Machine!FromGolden(b3, q) = Programmer(0, l, q, Following, Put(Indexed, Effective, a))
          /\ b3.halted = No /\ b3.mem = Put(Indexed, Effective, a)
          /\ b3.mb % 4096 = a /\ b3.cpma % 4096 = Effective
      BY <1>1, <1>3, FromFull, FullReads DEF b3
    <3>2. /\ ReferredAC = 0 /\ ReferredLK = l
          /\ ReferredPC = Following
          /\ Executed = Put(Indexed, Effective, a)
          /\ ReferredMB(bu % 4096) = a
      BY <2>4 DEF ReferredAC, ReferredLK, ReferredPC, ReferredMB, Executed, a, l, x
    <3> QED
      BY <1>5, <2>4, <3>1, <3>2
  <2>5. CASE Opcode(Instr) = 4
    <3>1. /\ Machine!FromGolden(b4, q) = Programmer(a, l, q, Inc(Effective), Put(Indexed, Effective, Following))
          /\ b4.halted = No /\ b4.mem = Put(Indexed, Effective, Following)
          /\ b4.mb % 4096 = Following /\ b4.cpma % 4096 = Effective
      BY <1>1, <1>3, FromFull, FullReads DEF b4
    <3>2. /\ ReferredAC = a /\ ReferredLK = l
          /\ ReferredPC = Inc(Effective)
          /\ Executed = Put(Indexed, Effective, Following)
          /\ ReferredMB(bu % 4096) = Following
      BY <2>5 DEF ReferredAC, ReferredLK, ReferredPC, ReferredMB, Executed, a, l, x
    <3> QED
      BY <1>5, <2>5, <3>1, <3>2
  <2>6. CASE Opcode(Instr) = 5
    <3>1. /\ Machine!FromGolden(b5, q) = Programmer(a, l, q, Effective, Indexed)
          /\ b5.halted = No /\ b5.mem = Indexed
          /\ b5.mb % 4096 = bu % 4096 /\ b5.cpma % 4096 = Effective
      BY <1>1, FromFull, FullReads DEF b5
    <3>2. /\ ReferredAC = a /\ ReferredLK = l
          /\ ReferredPC = Effective
          /\ Executed = Indexed
          /\ ReferredMB(bu % 4096) = bu % 4096
      BY <2>6 DEF ReferredAC, ReferredLK, ReferredPC, ReferredMB, Executed, a, l, x
    <3> QED
      BY <1>5, <2>6, <3>1, <3>2
  <2> QED
    BY <1>6, <2>1, <2>2, <2>3, <2>4, <2>5, <2>6
<1> QED
  BY <1>8 DEF g, q, bu

-----------------------------------------------------------------------------
\* What one step of the programmer's machine makes of an instruction.

LEMMA PerformsReference ==
  ASSUME ArchTyped, Opcode(Instr) <= 5, NEW sw, NEW io, NEW h, h = No
  PROVE  Machine!Performs(Programmer(ReferredAC, ReferredLK, arch.mq, ReferredPC, Executed), sw, io, h)
<1> DEFINE b == Programmer(ReferredAC, ReferredLK, arch.mq, ReferredPC, Executed)
           g == Machine!Execute(Machine!ToGolden(arch, sw))
<1>1. Machine!FromGolden(g, arch.mq) = b /\ g.halted = h
  BY GoldStarts, GoldRefers
<1>2. Machine!ir = Instr /\ Opcode(Instr) \in 0 .. 7
  BY GoldStarts, OperandTyped, FieldsAreWords
<1> HIDE DEF b, g
<1>3. Machine!Performs(b, sw, io, h)
  BY <1>1, <1>2, SameOperators DEF Machine!Performs, g
<1> QED
  BY <1>3 DEF b

LEMMA PerformsTransfer ==
  ASSUME ArchTyped, Opcode(Instr) = 6, NEW b, NEW sw, NEW io, NEW h, h = No,
         b = IF On(Instr, 0)
             THEN Programmer(arch.ac, arch.lk, arch.mq,
                             IF io.skipFlag THEN Inc(Following) ELSE Following, arch.mem)
             ELSE Programmer(IF io.clearacc THEN io.datain ELSE arch.ac, arch.lk, arch.mq,
                             Following, arch.mem)
  PROVE  Machine!Performs(b, sw, io, h)
<1> DEFINE a == arch.ac
           l == arch.lk
           q == arch.mq
           m == arch.mem
           x == IF io.skipFlag THEN Inc(Following) ELSE Following
           y == IF io.clearacc THEN io.datain ELSE arch.ac
           f == Following
<1>1. Machine!ir = Instr /\ Machine!next = f /\ Machine!Cut(f + 1) = Inc(Following)
  BY GoldStarts, SameOperators
<1>2. arch = Programmer(a, l, q, arch.pc, m)
  BY DEF ArchTyped
<1>3. Machine!Transfer(b, io)
        <=> b = IF On(Instr, 0) THEN [arch EXCEPT !.pc = x]
                                ELSE [arch EXCEPT !.pc = f, !.ac = y]
  BY <1>1, SameOperators DEF Machine!Transfer
<1> DEFINE p == arch.pc
           e == [arch EXCEPT !.pc = f, !.ac = y]
<1> HIDE DEF a, l, q, m, x, y, f, p
<1>4. [arch EXCEPT !.pc = x] = Programmer(a, l, q, x, m)
  BY <1>2 DEF Programmer, p
<1>5. e = Programmer(y, l, q, f, m)
  <2>1. e = [[arch EXCEPT !.pc = f] EXCEPT !.ac = y]
    OBVIOUS
  <2>2. [arch EXCEPT !.pc = f] = Programmer(a, l, q, f, m)
    BY <1>2 DEF Programmer, p
  <2>3. [Programmer(a, l, q, f, m) EXCEPT !.ac = y] = Programmer(y, l, q, f, m)
    BY DEF Programmer
  <2> QED
    BY <2>1, <2>2, <2>3
<1> HIDE DEF e
<1>6. Machine!Transfer(b, io)
  <2>1. b = IF On(Instr, 0) THEN Programmer(a, l, q, x, m) ELSE Programmer(y, l, q, f, m)
    BY DEF a, l, q, x, y, f, m
  <2> QED
    BY <1>3, <1>4, <1>5, <2>1 DEF e
<1> QED
  BY <1>1, <1>6, SameOperators DEF Machine!Performs, No

LEMMA GoldOperates ==
  ASSUME ArchTyped, Opcode(Instr) = 7, Group1(Instr), Alike(Instr), NEW held, NEW rest
  PROVE  LET c == Pipeline(Instr, arch.ac, arch.lk, held)
         IN  Machine!Execute(Start(rest)) = Gold(c.ac, c.lk, arch.pc + 1, rest)
<1> DEFINE p == arch.pc + 1
           f == Gold(arch.ac, arch.lk, p, rest)
<1>1. Machine!Execute(Start(rest)) = Machine!Group1Sequence(Instr, f)
  <2>1. ~On(Instr, 8)
    BY DEF Group1
  <2> QED
    BY <2>1, GoldTurns, SameOperators DEF Machine!Microinstruction
<1>2. ShiftSelect(Instr) # 1
  BY DEF Alike
<1> QED
  BY <1>1, <1>2, OperandTyped, GoldGroup1 DEF ArchTyped

LEMMA PerformsGroup1 ==
  ASSUME ArchTyped, Opcode(Instr) = 7, Group1(Instr), Alike(Instr),
         NEW held, NEW sw, NEW io, NEW h, h = No
  PROVE  LET c == Pipeline(Instr, arch.ac, arch.lk, held)
         IN  Machine!Performs(Programmer(c.ac, c.lk, arch.mq, Following, arch.mem), sw, io, h)
<1> DEFINE w == Instr
           c == Pipeline(w, arch.ac, arch.lk, held)
           p == arch.pc + 1
           q == arch.mq
           b == Programmer(c.ac, c.lk, q, Following, arch.mem)
           rest == Switches(sw)
           g == Machine!Execute(Machine!ToGolden(arch, sw))
<1>1. Machine!ir = w /\ p % 4096 = Following
  BY GoldStarts
<1>2. g = Gold(c.ac, c.lk, p, rest)
  BY GoldStarts, GoldOperates
<1>3. Machine!FromGolden(g, q) = b /\ g.halted = h
  <2> HIDE DEF g, c, p, q, w, rest
  <2>1. g = Full(c.ac, c.lk, p, rest.sw, rest.c, rest.b, arch.mem, No)
    BY <1>2 DEF Gold
  <2>2. p % 4096 = Following
    BY <1>1
  <2> QED
    BY <2>1, <2>2, FromFull, FullReads
<1> HIDE DEF b, g
<1>4. Machine!Performs(b, sw, io, h)
  BY <1>1, <1>3, SameOperators DEF Machine!Performs, g, q, w, Group1
<1> QED
  BY <1>4 DEF b

\* Both designs skip for the same instructions of group 2.
LEMMA GoldSkips ==
  ASSUME NEW w, NEW a, NEW l, NEW p, NEW rest, On(w, 8),
         On(w, 3) \/ w % 8 = 0 \/ ~(On(w, 6) \/ On(w, 5) \/ On(w, 4))
  PROVE  Machine!Skips(w, Gold(a, l, p, rest)) <=> Skip(w, a, l)
<1> DEFINE s == Gold(a, l, p, rest)
<1>1. s.ac = a /\ s.lk = l
  BY GoldReads
<1> HIDE DEF s
<1>2. Machine!AndSkips(w, s) <=> SkipAnd(w, a, l)
  BY <1>1, SameOperators DEF Machine!AndSkips, SkipAnd, Machine!SPA, Machine!SNA, Machine!SZL
<1>3. Machine!OrSkips(w, s) <=> SkipOr(w, a, l)
  BY <1>1, SameOperators DEF Machine!OrSkips, SkipOr, Machine!SMA, Machine!SZA, Machine!SNL
<1>4. ~(On(w, 6) \/ On(w, 5) \/ On(w, 4)) => ~SkipOr(w, a, l)
  BY DEF SkipOr
<1>5. Machine!Skips(w, s) <=> Skip(w, a, l)
  BY <1>2, <1>3, <1>4, SameOperators DEF Machine!Skips, Skip
<1> QED
  BY <1>5 DEF s

Yes == TRUE

LEMMA GoldGroup2 ==
  ASSUME ArchTyped, Opcode(Instr) = 7, Group2(Instr), Alike(Instr), NEW rest
  PROVE  LET g == Machine!Execute(Start(rest))
             skip == Skip(Instr, arch.ac, arch.lk)
         IN  /\ Machine!FromGolden(g, arch.mq)
                  = Programmer(IF On(Instr, 7) THEN 0 ELSE arch.ac, arch.lk, arch.mq,
                               IF skip THEN Inc(Following) ELSE Following, arch.mem)
             /\ g.halted = IF On(Instr, 1) THEN Yes ELSE No
             /\ g.mb = rest.b /\ g.cpma = rest.c
<1> DEFINE w == Instr
           a == arch.ac
           l == arch.lk
           p == arch.pc + 1
           f == Gold(a, l, p, rest)
           g == Machine!Execute(Start(rest))
           skip == Skip(w, a, l)
           p1 == IF skip THEN p + 1 ELSE p
           a2 == IF On(w, 7) THEN 0 ELSE a
           s1 == Machine!When(Machine!Skips(w, f), [f EXCEPT !.pc = Machine!Short(f.pc + 1)], f)
           s2 == Machine!When(On(w, 7), Machine!CLA(s1), s1)
           s3 == Machine!When(On(w, 2), Machine!OSR(s2), s2)
           q == arch.mq
           sw == rest.sw
           c == rest.c
           b == rest.b
<1>1. a \in Word /\ l \in BitValue /\ arch.pc \in Word
  BY DEF ArchTyped
<1>2. /\ p % 4096 = Following /\ (p + 1) % 4096 = Inc(Following)
      /\ Machine!Short(p + 1) = p + 1
  <2>1. \A n \in Word : /\ (n + 1 + 1) % 65536 = n + 1 + 1
                        /\ (n + 1) % 4096 = Inc(n) /\ (n + 1 + 1) % 4096 = Inc(Inc(n))
    BY SMT DEF Word, Inc
  <2> QED
    BY <1>1, <2>1 DEF Following, Machine!Short
<1>3. /\ On(w, 8) /\ ~On(w, 2)
      /\ On(w, 3) \/ w % 8 = 0 \/ ~(On(w, 6) \/ On(w, 5) \/ On(w, 4))
  BY DEF Group2, Alike
<1>4. Machine!Skips(w, f) <=> skip
  BY <1>3, GoldSkips
<1>5. g = Machine!When(On(w, 1), Machine!HaltC(s3), s3)
  <2>1. g = Machine!Group2Sequence(w, f)
    BY <1>3, GoldTurns, SameOperators DEF Machine!Microinstruction
  <2> HIDE DEF g, f, w
  <2> QED
    BY <2>1, SameOperators DEF Machine!Group2Sequence
<1>6. s1 = Gold(a, l, p1, rest)
  <2> DEFINE n == p + 1
  <2>1. Machine!Short(f.pc + 1) = n
    BY <1>2, GoldReads
  <2>2. [f EXCEPT !.pc = n] = Gold(a, l, n, rest)
    <3> HIDE DEF a, l, p, n
    <3> QED
      BY DEF Gold, Full
  <2> HIDE DEF f, n, a, l, p, skip
  <2>3. CASE skip
    <3>1. s1 = [f EXCEPT !.pc = n]
      BY <1>4, <2>1, <2>3 DEF Machine!When
    <3> QED
      BY <2>2, <2>3, <3>1 DEF n
  <2>4. CASE ~skip
    BY <1>4, <2>4 DEF Machine!When, f
  <2> QED
    BY <2>3, <2>4
<1> HIDE DEF s1
<1>7. s2 = Gold(a2, l, p1, rest)
  BY <1>1, <1>6, GoldSteps DEF Machine!When
<1>8. s3 = s2
  BY <1>3 DEF Machine!When
<1>9. Machine!HaltC(s3) = Full(a2, l, p1, sw, c, b, arch.mem, Yes)
  <2>1. s3 = Full(a2, l, p1, sw, c, b, arch.mem, No)
    BY <1>7, <1>8 DEF Gold
  <2> DEFINE m == arch.mem
  <2> HIDE DEF a2, l, p1, s3, m
  <2>2. Machine!HaltC(s3) = [s3 EXCEPT !.halted = Yes]
    BY Zenon DEF Machine!HaltC, Yes
  <2>3. [s3 EXCEPT !.halted = Yes] = Full(a2, l, p1, sw, c, b, m, Yes)
    BY <2>1 DEF Full, m
  <2> QED
    BY <2>2, <2>3 DEF m
<1> DEFINE halts == IF On(w, 1) THEN Yes ELSE No
<1> HIDE DEF s2, s3, a2, l, p1, g
<1>10. g = Full(a2, l, p1, sw, c, b, arch.mem, halts)
  <2>1. CASE On(w, 1)
    BY <1>5, <1>9, <2>1 DEF Machine!When
  <2>2. CASE ~On(w, 1)
    BY <1>5, <1>7, <1>8, <2>2 DEF Machine!When, Gold
  <2> QED
    BY <2>1, <2>2
<1> DEFINE p2 == IF skip THEN Inc(Following) ELSE Following
<1>11. p1 % 4096 = p2
  BY <1>2 DEF p1
<1> HIDE DEF halts, p2, q, b, c, sw
<1>12. /\ Machine!FromGolden(g, q) = Programmer(a2, l, q, p2, arch.mem)
       /\ g.halted = halts
       /\ g.mb = b /\ g.cpma = c
  BY <1>10, <1>11, FromFull, FullReads
<1> QED
  BY <1>12 DEF g, a2, l, q, p2, b, c, halts

\* The CLA of group 2, which is done by the pipeline of group 1.
LEMMA ClearedByPipeline ==
  ASSUME Group2(Instr), Alike(Instr), Opcode(Instr) = 7, NEW a, NEW l \in BitValue, NEW held
  PROVE  Micro(Instr, a, l, held).ac = IF On(Instr, 7) THEN 0 ELSE a
<1> DEFINE w == Instr
<1>1. CASE ~On(w, 7)
  BY <1>1 DEF Micro, Group2
<1>2. CASE On(w, 7)
  <2>1. Pipeline(w, 0, l, 0).ac = 0
    BY <1>2 DEF Alike
  <2>2. ClearStage(w, a, l) = ClearStage(w, 0, l)
    BY <1>2 DEF ClearStage
  <2>3. \A b : ShiftStage(w, b, held).ac = ShiftStage(w, b, 0).ac
    BY DEF ShiftStage
  <2>4. Pipeline(w, a, l, held).ac = Pipeline(w, 0, l, 0).ac
    BY <2>2, <2>3 DEF Pipeline
  <2> QED
    BY <1>2, <2>1, <2>4 DEF Micro
<1> QED
  BY <1>1, <1>2

LEMMA PerformsGroup2 ==
  ASSUME ArchTyped, Opcode(Instr) = 7, Group2(Instr), Alike(Instr),
         NEW held, NEW sw, NEW io, NEW h \in BOOLEAN, h <=> On(Instr, 1), NEW b,
         b = Programmer(Micro(Instr, arch.ac, arch.lk, held).ac, arch.lk, arch.mq,
                        IF Skip(Instr, arch.ac, arch.lk) THEN Inc(Following) ELSE Following,
                        arch.mem)
  PROVE  Machine!Performs(b, sw, io, h)
<1> DEFINE g == Machine!Execute(Machine!ToGolden(arch, sw))
           halts == IF On(Instr, 1) THEN Yes ELSE No
           x == IF On(Instr, 7) THEN 0 ELSE arch.ac
<1>1. Micro(Instr, arch.ac, arch.lk, held).ac = x
  BY ClearedByPipeline DEF ArchTyped
<1>2. Machine!FromGolden(g, arch.mq) = b /\ g.halted = halts
  <2>1. b = Programmer(x, arch.lk, arch.mq,
                       IF Skip(Instr, arch.ac, arch.lk) THEN Inc(Following) ELSE Following, arch.mem)
    BY <1>1
  <2> HIDE DEF g
  <2> QED
    BY <2>1, GoldStarts, GoldGroup2 DEF g
<1>3. h = halts
  BY Zenon DEF Yes, No
<1>4. Machine!ir = Instr /\ ~On(Instr, 0)
  BY GoldStarts DEF Group2
<1> HIDE DEF g, halts
<1> QED
  BY <1>2, <1>3, <1>4, SameOperators DEF Machine!Performs, g

\* Group 3: clearing and loading.
LEMMA Exchanges ==
  ASSUME ArchTyped, ~(On(Instr, 6) /\ On(Instr, 4))
  PROVE  Machine!ClearAndExchange([arch EXCEPT !.pc = Machine!next])
           = Programmer(LoadedAC, arch.lk, LoadedMQ, Following, arch.mem)
<1> DEFINE a == arch.ac
           l == arch.lk
           q == arch.mq
           m == arch.mem
           f == Following
           c == Cleared
           s == [arch EXCEPT !.pc = f]
           t == IF On(Instr, 7) THEN [s EXCEPT !.ac = 0] ELSE s
           o == Or(c, q)
<1>1. Machine!ir = Instr /\ Machine!next = f
  BY GoldStarts
<1>2. s = Programmer(a, l, q, f, m)
  BY ArchLoads
<1> HIDE DEF s, f
<1>3. t = Programmer(c, l, q, f, m)
  <2>1. [s EXCEPT !.ac = 0] = Programmer(0, l, q, f, m)
    <3> HIDE DEF a, l, q, m
    <3> QED
      BY <1>2 DEF Programmer
  <2> QED
    BY <1>2, <2>1 DEF Cleared
<1>4. t.ac = c /\ t.mq = q
  BY <1>3 DEF Programmer
<1> HIDE DEF t
<1>5. Machine!ClearAndExchange(s)
        = IF On(Instr, 6) THEN [t EXCEPT !.ac = o]
          ELSE IF On(Instr, 4) THEN [t EXCEPT !.mq = c, !.ac = 0]
          ELSE t
  <2>1. CASE On(Instr, 6)
    BY <1>1, <1>4, <2>1, SameOperators DEF Machine!ClearAndExchange, t
  <2>2. CASE ~On(Instr, 6) /\ On(Instr, 4)
    <3>1. Machine!ClearAndExchange(s) = [[t EXCEPT !.mq = t.ac] EXCEPT !.ac = 0]
      BY <1>1, <2>2, SameOperators DEF Machine!ClearAndExchange, t
    <3>2. Machine!ClearAndExchange(s) = [[t EXCEPT !.mq = c] EXCEPT !.ac = 0]
      BY <1>4, <3>1
    <3> QED
      BY <2>2, <3>2
  <2>3. CASE ~On(Instr, 6) /\ ~On(Instr, 4)
    BY <1>1, <2>3, SameOperators DEF Machine!ClearAndExchange, t
  <2> QED
    BY <2>1, <2>2, <2>3
<1> HIDE DEF a, l, q, m, c, o
<1>6. [t EXCEPT !.ac = o] = Programmer(o, l, q, f, m)
  BY <1>3 DEF Programmer
<1>7. [t EXCEPT !.mq = c, !.ac = 0] = Programmer(0, l, c, f, m)
  <2>1. [t EXCEPT !.mq = c] = Programmer(c, l, c, f, m)
    BY <1>3 DEF Programmer
  <2>2. [Programmer(c, l, c, f, m) EXCEPT !.ac = 0] = Programmer(0, l, c, f, m)
    BY DEF Programmer
  <2>3. [t EXCEPT !.mq = c, !.ac = 0] = [[t EXCEPT !.mq = c] EXCEPT !.ac = 0]
    OBVIOUS
  <2> QED
    BY <2>1, <2>2, <2>3
<1> DEFINE r == Machine!ClearAndExchange(s)
<1> HIDE DEF r
<1>8. r = Programmer(LoadedAC, l, LoadedMQ, f, m)
  <2>1. CASE On(Instr, 6)
    BY <1>5, <1>6, <2>1 DEF LoadedAC, LoadedMQ, o, c, q, r
  <2>2. CASE ~On(Instr, 6) /\ On(Instr, 4)
    BY <1>5, <1>7, <2>2 DEF LoadedAC, LoadedMQ, c, r
  <2>3. CASE ~On(Instr, 6) /\ ~On(Instr, 4)
    BY <1>3, <1>5, <2>3 DEF LoadedAC, LoadedMQ, c, q, r
  <2> QED
    BY <2>1, <2>2, <2>3
<1> QED
  BY <1>1, <1>8 DEF r, s, l, f, m

LEMMA CutWord == \A v \in Word : v % 4096 = v
  BY SMT DEF Word

\* A quotient and its remainder are determined by their equation.
LEMMA WordQuotient ==
  ASSUME NEW k \in Nat, NEW n \in Nat \ {0}, NEW x \in Nat, NEW z \in Nat, k = z * n + x, x < n
  PROVE  (k \div n) = z /\ (k % n) = x
  BY SMT

LEMMA QuotientDetermined ==
  \A k \in Nat, n \in Nat \ {0}, x \in Nat, z \in Nat :
    k = z * n + x /\ x < n => (k \div n) = z /\ (k % n) = x
  BY WordQuotient

LEMMA WordQuotients ==
  \A u, q, n, x, z \in Word :
    (z * n + x = u * 4096 + q) /\ x < n
      => ((u * 4096 + q) \div n) = z /\ ((u * 4096 + q) % n) = x
<1>0. \A n, z \in Nat : z * n \in Nat
  BY SMT
<1>1. \A n, x, z \in Word : x < n => z * n + x \in Nat /\ n \in Nat \ {0} /\ x \in Nat /\ z \in Nat
  <2> TAKE n, x, z \in Word
  <2> HAVE x < n
  <2>1. n \in Nat \ {0} /\ x \in Nat /\ z \in Nat
    BY SMT DEF Word
  <2> DEFINE j == z * n
  <2>2. j \in Nat
    BY <2>1, <1>0
  <2> HIDE DEF j
  <2>3. j + x \in Nat
    BY <2>1, <2>2
  <2> QED
    BY <2>1, <2>3 DEF j
<1>2. \A n, x, z \in Word : x < n => ((z * n + x) \div n) = z /\ ((z * n + x) % n) = x
  BY <1>1, Zenon, QuotientDetermined
<1>3. ASSUME NEW a, NEW b, NEW n, NEW x, NEW z, a = b, (a \div n) = z /\ (a % n) = x
      PROVE  (b \div n) = z /\ (b % n) = x
  BY <1>3
<1> QED
  <2> TAKE u, q, n, x, z \in Word
  <2> HAVE (z * n + x = u * 4096 + q) /\ x < n
  <2> DEFINE a == z * n + x
             b == u * 4096 + q
  <2>1. a = b
    OBVIOUS
  <2>2. (a \div n) = z /\ (a % n) = x
    BY <1>2
  <2> HIDE DEF a, b
  <2>3. (b \div n) = z /\ (b % n) = x
    BY <2>1, <2>2, <1>3
  <2> QED
    BY <2>3 DEF b

\* A product and a quotient are determined by their equations.
LEMMA PerformsMultiply ==
  ASSUME NEW u, NEW l, NEW q \in Word, NEW g, NEW m, NEW n \in Word,
         NEW x \in Word, NEW z \in Word, x * 4096 + z = q * n
  PROVE  Machine!Multiplied(Programmer(u, l, q, g, m), n) = Programmer(x, 0, z, g, m)
<1> DEFINE p == n * q
           t == Programmer(u, l, q, g, m)
           v == p \div 4096
           w == p % 4096
<1>1. p = x * 4096 + z /\ x \in Nat /\ z \in Nat /\ z < 4096
  BY SMT DEF Word
<1>3. v = x /\ w = z
  <2> HIDE DEF p
  <2>1. p \in Nat /\ 4096 \in Nat \ {0}
    BY SMT, <1>1
  <2>2. p \div 4096 = x /\ p % 4096 = z
    BY <1>1, <2>1, WordQuotient
  <2> QED
    BY <2>2
<1>4. t.mq = q
  BY DEF Programmer
<1> HIDE DEF t
<1>5. Machine!Multiplied(t, n) = [t EXCEPT !.ac = v, !.mq = w, !.lk = 0]
  BY <1>4 DEF Machine!Multiplied
<1> HIDE DEF v, w
<1>6. [[[t EXCEPT !.ac = x] EXCEPT !.mq = z] EXCEPT !.lk = 0] = Programmer(x, 0, z, g, m)
  <2> DEFINE t1 == [t EXCEPT !.ac = x]
             t2 == [t1 EXCEPT !.mq = z]
             t3 == [t2 EXCEPT !.lk = 0]
  <2>1. t1 = Programmer(x, l, q, g, m)
    BY DEF Programmer, t
  <2> HIDE DEF t1
  <2>2. t2 = Programmer(x, l, z, g, m)
    BY <2>1 DEF Programmer
  <2> HIDE DEF t2
  <2>3. t3 = Programmer(x, 0, z, g, m)
    BY <2>2 DEF Programmer
  <2> QED
    BY <2>3 DEF t1, t2
<1>7. Machine!Multiplied(t, n) = Programmer(x, 0, z, g, m)
  <2>1. Machine!Multiplied(t, n) = [[[t EXCEPT !.ac = x] EXCEPT !.mq = z] EXCEPT !.lk = 0]
    BY <1>3, <1>5
  <2> QED
    BY <1>6, <2>1
<1> QED
  BY <1>7 DEF t

LEMMA PerformsDivide ==
  ASSUME NEW u \in Word, NEW l, NEW q \in Word, NEW g, NEW m, NEW n \in Word,
         NEW x \in Word, NEW y, NEW z \in Word,
         u < n => z * n + x = u * 4096 + q /\ x < n /\ y = 0
  PROVE  Machine!Divided(Programmer(u, l, q, g, m), n, Programmer(x, y, z, g, m))
<1> DEFINE t == Programmer(u, l, q, g, m)
           b == Programmer(x, y, z, g, m)
           k == u * 4096 + q
           v == k % n
           w == k \div n
<1>1. t.ac = u /\ t.mq = q /\ b.ac = x /\ b.lk = y /\ b.mq = z
  BY DEF Programmer
<1> HIDE DEF t
<1>2. [[[t EXCEPT !.ac = x] EXCEPT !.mq = z] EXCEPT !.lk = y] = Programmer(x, y, z, g, m)
  <2> DEFINE t1 == [t EXCEPT !.ac = x]
             t2 == [t1 EXCEPT !.mq = z]
             t3 == [t2 EXCEPT !.lk = y]
  <2>1. t1 = Programmer(x, l, q, g, m)
    BY DEF Programmer, t
  <2> HIDE DEF t1
  <2>2. t2 = Programmer(x, l, z, g, m)
    BY <2>1 DEF Programmer
  <2> HIDE DEF t2
  <2>3. t3 = Programmer(x, y, z, g, m)
    BY <2>2 DEF Programmer
  <2> QED
    BY <2>3 DEF t1, t2
<1> HIDE DEF b
<1>3. CASE u < n
  <2>2. y = 0
    BY <1>3
  <2>3. v = x /\ w = z
    BY <1>3, WordQuotients
  <2>4. Machine!Divided(t, n, b) <=> b = [t EXCEPT !.ac = v, !.mq = w, !.lk = 0]
    BY <1>1, <1>3 DEF Machine!Divided
  <2> HIDE DEF v, w
  <2>5. b = [t EXCEPT !.ac = v, !.mq = w, !.lk = 0]
    <3>1. b = [t EXCEPT !.ac = x, !.mq = z, !.lk = 0]
      BY <1>2, <2>2 DEF b
    <3> QED
      BY <2>3, <3>1
  <2>6. Machine!Divided(t, n, b)
    BY <2>4, <2>5
  <2> QED
    BY <2>6 DEF t, b
<1>4. CASE ~(u < n)
  <2>1. Machine!Divided(t, n, b) <=> b = [t EXCEPT !.ac = x, !.mq = z, !.lk = y]
    BY <1>1, <1>4 DEF Machine!Divided
  <2>2. Machine!Divided(t, n, b)
    BY <1>2, <2>1 DEF b
  <2> QED
    BY <2>2 DEF t, b
<1> QED
  BY <1>3, <1>4

LEMMA PerformsGroup3 ==
  ASSUME ArchTyped, Opcode(Instr) = 7, Group3(Instr), Alike(Instr),
         NEW sw, NEW io, NEW h, h = No, NEW b,
         NEW x \in Word, NEW y, NEW z \in Word, NEW n \in Word, n = At(arch.mem, Following),
         b = Programmer(x, y, z, IF On(Instr, 2) THEN Inc(Following) ELSE Following, arch.mem),
         ~On(Instr, 2) => x = LoadedAC /\ y = arch.lk /\ z = LoadedMQ,
         On(Instr, 2) /\ ~On(Instr, 1) => x * 4096 + z = LoadedMQ * n /\ y = 0,
         On(Instr, 2) /\ On(Instr, 1) /\ LoadedAC < n =>
           z * n + x = LoadedAC * 4096 + LoadedMQ /\ x < n /\ y = 0
  PROVE  Machine!Performs(b, sw, io, h)
<1> DEFINE l == arch.lk
           m == arch.mem
           u == LoadedAC
           q == LoadedMQ
           f == Following
           d == [arch EXCEPT !.pc = Machine!next]
           s == Machine!ClearAndExchange(d)
           g == Inc(Following)
           t == [s EXCEPT !.pc = g]
<1>1. /\ Machine!ir = Instr /\ Machine!next = f /\ Machine!Cut(f + 1) = g
      /\ Machine!MemRead(arch.mem, f) = n
  <2>1. f % 4096 = f
    BY CutWord, OperandTyped
  <2> QED
    BY <2>1, GoldStarts, SameOperators, SameMemory
<1>2. s = Programmer(u, l, q, f, m)
  BY Exchanges DEF Alike
<1>3. u \in Word /\ q \in Word
  <2>1. 0 \in Word
    BY ByteIsWord
  <2>2. arch.ac \in Word /\ arch.mq \in Word
    BY DEF ArchTyped
  <2>3. Cleared \in Word
    BY <2>1, <2>2 DEF Cleared
  <2> QED
    BY <2>1, <2>2, <2>3, OrIsWord DEF LoadedAC, LoadedMQ
<1>4. /\ ~On(Instr, 2) => b = Programmer(u, l, q, f, m)
      /\ On(Instr, 2) => b = Programmer(x, y, z, g, m)
  OBVIOUS
<1> HIDE DEF l, m, u, q, f, d, s, g, t
<1>5. s.pc = f
  BY <1>2 DEF Programmer
<1>6. t = Programmer(u, l, q, g, m)
  BY <1>2 DEF t, Programmer
<1>7. Machine!Arithmetic(b) <=>
        IF ~On(Instr, 2) THEN b = s
        ELSE IF On(Instr, 1) THEN Machine!Divided(t, n, b) ELSE b = Machine!Multiplied(t, n)
  BY <1>1, <1>5, SameOperators DEF Machine!Arithmetic, s, t, d
<1>8. ASSUME On(Instr, 2), ~On(Instr, 1) PROVE b = Machine!Multiplied(t, n)
  <2>1. Machine!Multiplied(t, n) = Programmer(x, 0, z, g, m)
    BY <1>3, <1>6, <1>8, PerformsMultiply DEF q
  <2> QED
    BY <1>4, <1>8, <2>1
<1>9. ASSUME On(Instr, 2), On(Instr, 1) PROVE Machine!Divided(t, n, b)
  BY <1>3, <1>4, <1>6, <1>9, PerformsDivide DEF u, q
<1>10. Machine!Arithmetic(b)
  BY <1>2, <1>4, <1>7, <1>8, <1>9
<1> QED
  BY <1>1, <1>10, SameOperators DEF Machine!Performs, Group3, No

-----------------------------------------------------------------------------
\* What an edge of the clock leaves as it was, and what it takes in.

\* The operation under way does not change while arch does not.
Frozen ==
  /\ arch' = arch /\ Instr' = Instr /\ Following' = Following /\ Pointer' = Pointer
  /\ Target' = Target /\ Effective' = Effective /\ Indexed' = Indexed
  /\ Operand' = Operand /\ Executed' = Executed
  /\ Cleared' = Cleared /\ LoadedAC' = LoadedAC /\ LoadedMQ' = LoadedMQ

LEMMA Freezes == ASSUME arch' = arch PROVE Frozen
<1>1. Instr' = Instr /\ Following' = Following
  BY DEF Instr, Following
<1>2. Pointer' = Pointer
  BY <1>1 DEF Pointer
<1>3. Target' = Target
  BY <1>2 DEF Target
<1>4. Effective' = Effective /\ Indexed' = Indexed
  BY <1>1, <1>2, <1>3 DEF Effective, Indexed, Indexing
<1>5. Operand' = Operand
  BY <1>4 DEF Operand
<1>6. Executed' = Executed
  BY <1>1, <1>4, <1>5 DEF Executed
<1>7. Cleared' = Cleared
  BY <1>1 DEF Cleared
<1>8. LoadedAC' = LoadedAC /\ LoadedMQ' = LoadedMQ
  BY <1>1, <1>7 DEF LoadedAC, LoadedMQ
<1> QED
  BY <1>1, <1>2, <1>3, <1>4, <1>5, <1>6, <1>7, <1>8 DEF Frozen

Taking(i) ==
  /\ PendingTyped'
  /\ pending'.kind = pending.kind /\ pending'.during = pending.during
  /\ pending'.sw = IF state \in SwitchStates THEN i.swreg ELSE pending.sw
  /\ pending'.io = IF state = "IOT_1" THEN Wires(i) ELSE pending.io
  /\ pending'.halts \in BOOLEAN /\ (pending'.halts <=> pending.halts \/ state = "HALT")

LEMMA Takes == ASSUME PendingTyped, NEW i \in Inputs, TakeIn(i) PROVE Taking(i)
<1> DEFINE k == pending.kind
           d == pending.during
           x == IF state \in SwitchStates THEN i.swreg ELSE pending.sw
           y == IF state = "IOT_1" THEN Wires(i) ELSE pending.io
           z == (pending.halts \/ halt)
<1>1. pending' = [kind |-> k, sw |-> x, io |-> y, halts |-> z, during |-> d]
  BY DEF PendingTyped, TakeIn
<1>4. z \in BOOLEAN /\ x \in Word
  BY InputsAssumption DEF InputWires, PendingTyped
<1> HIDE DEF k, d, x, y, z
<1>2. /\ pending'.kind = k /\ pending'.sw = x /\ pending'.io = y
      /\ pending'.halts = z /\ pending'.during = d
  BY <1>1
<1>3. PendingTyped'
  BY <1>1, <1>2, <1>4 DEF PendingTyped
<1> QED
  BY <1>2, <1>3, <1>4 DEF Taking, k, d, x, y, z, halt

-----------------------------------------------------------------------------
\* Memory at an edge of the clock.

LEMMA MemoryRests ==
  ASSUME TypeOK, Handshake, NEW i \in Inputs, Clock(i), state \notin WriteStates \cup {"REG_INIT"}
  PROVE  memory' = memory
  BY DEF Clock, MemClock, MemIdle, MemRead, MemWrite, MemDone, Handshake, WaitStates

\* A state that is neither waiting nor after a reset finds memory idle.
LEMMA MemoryIdles ==
  ASSUME TypeOK, Handshake, NEW i \in Inputs, Clock(i),
         state \notin WaitStates \cup {"REG_INIT", "CPU_IDLE"}
  PROVE  memState = "IDLE" /\ memState' = "IDLE" /\ memory' = memory /\ readLatch' = readLatch
<1>1. memState = "IDLE"
  BY DEF Handshake, WaitStates, TypeOK, MemTypeOK, MemStates
<1> QED
  BY <1>1 DEF Clock, MemClock, MemIdle, MemRead, MemWrite, MemDone, WaitStates

\* A write lands in the clock before its answer, on the memory that was there
\* when the state was entered.
LEMMA MemoryStores ==
  ASSUME TypeOK, Handshake, NEW i \in Inputs, Clock(i), state \in WriteStates,
         NEW b, Storing(b)
  PROVE  /\ MemFinished => memory' = Put(b, address, writeData)
         /\ ~MemFinished => memory' = IF memState' = "DONE" THEN Put(b, address, writeData) ELSE b
<1>1. memState \in {"IDLE", "WRITE", "DONE"}
  BY DEF Handshake, TypeOK, MemTypeOK, MemStates, ReadStates, WriteStates
<1>2. CASE memState = "IDLE"
  BY <1>2 DEF Clock, MemClock, MemIdle, MemRead, MemWrite, MemDone, Storing, MemFinished
<1>3. CASE memState = "WRITE"
  <2>1. memState' = "DONE" /\ WriteMemory(address, writeData) /\ memory = b
    BY <1>3 DEF Clock, MemClock, MemIdle, MemRead, MemWrite, MemDone, Storing
  <2>2. memory' = Put(b, address, writeData)
    BY <2>1 DEF WriteMemory, Put
  <2> QED
    BY <1>3, <2>1, <2>2 DEF MemFinished
<1>4. CASE memState = "DONE"
  BY <1>4 DEF Clock, MemClock, MemIdle, MemRead, MemWrite, MemDone, Storing, MemFinished
<1> QED
  BY <1>1, <1>2, <1>3, <1>4

\* What was asked for is on the read wires, and stays there.
LEMMA MemoryReplies ==
  ASSUME Answered
  PROVE  /\ state \in ReadStates /\ MemFinished => readData = At(memory, address) /\ readData = readLatch
         /\ state \in {"FETCH_3", "EA_AUT_3"} => readData = At(memory, address)
  BY DEF Answered, Latched, readData, ReadData, ReadMemory, At, MemFinished

LEMMA MemoryTurnsIdle ==
  ASSUME TypeOK, NEW i \in Inputs, Clock(i), MemFinished
  PROVE  memState' = "IDLE" /\ readLatch' = readLatch
  BY DEF Clock, MemClock, MemIdle, MemRead, MemWrite, MemDone, MemFinished

-----------------------------------------------------------------------------
\* The invariant through the states of an operation.

LEMMA FirstOfReference ==
  ASSUME NEW k \in 0 .. 7
  PROVE  /\ k <= 5 => FirstStates[k + 1] \in FirstRefs
         /\ FirstStates[k + 1] = "AND_1" <=> k = 0
         /\ FirstStates[k + 1] = "TAD_1" <=> k = 1
         /\ FirstStates[k + 1] = "ISZ_1" <=> k = 2
         /\ FirstStates[k + 1] = "DCA_1" <=> k = 3
         /\ FirstStates[k + 1] = "JMS_1" <=> k = 4
         /\ FirstStates[k + 1] = "JMP_1" <=> k = 5
         /\ k = 6 => FirstStates[k + 1] = "IOT_1"
         /\ k = 7 => FirstStates[k + 1] = "MIC_1"
<1>1. k \in {0, 1, 2, 3, 4, 5, 6, 7}
  OBVIOUS
<1> QED
  BY <1>1 DEF FirstStates, FirstRefs

\* In what follows the sets of states are always expanded.
USE DEF PanelStates, FetchStates, FirstRefs, IndirectStates, AddressStates, AndStates,
        TadStates, IszStates, DcaStates, RefStates, IotStates, Mic3States, MicStates, Kept

LEMMA FetchDoes ==
  ASSUME TypeOK, Handshake, Answered, ArchTyped, Doing, NEW i \in Inputs, Clock(i),
         Frozen, Taking(i), Fetch1 \/ Fetch2
  PROVE  Doing'
<1> USE DEF Taking, Frozen, Doing, Pending, Beginning, Addresses, References, Transfers,
         Microinstructions, Halting, Resetting
<1>1. CASE Fetch1
  <2>1. memory' = memory
    BY <1>1, MemoryRests DEF Fetch1, Go, WriteStates
  <2> QED
    BY <1>1, <2>1 DEF Fetch1, Go
<1>2. CASE Fetch2
  <2>1. memory' = memory
    BY <1>2, MemoryRests DEF Fetch2, Await, WriteStates
  <2> QED
    BY <1>2, <2>1 DEF Fetch2, Await
<1> QED
  BY <1>1, <1>2

\* The only word that the controller takes for a halt before the decoder does.
LEMMA HaltWord ==
  ASSUME NEW a, NEW l
  PROVE  /\ Opcode(3842) = 7 /\ Group2(3842) /\ On(3842, 1) /\ ~On(3842, 7)
         /\ ~Skip(3842, a, l)
<1>1. Opcode(3842) = 7
  BY SMT DEF Opcode
<1>2. /\ On(3842, 8) /\ On(3842, 1) /\ ~On(3842, 0) /\ ~On(3842, 7)
      /\ ~On(3842, 6) /\ ~On(3842, 5) /\ ~On(3842, 4) /\ ~On(3842, 3)
  BY SMT DEF On, Bit, Weights
<1> QED
  BY <1>1, <1>2 DEF Group2, Skip, SkipOr

LEMMA DecodeDoes ==
  ASSUME TypeOK, Handshake, Answered, Regular, ArchTyped, Doing, NEW i \in Inputs, Clock(i),
         Frozen, Taking(i), Fetch3 \/ Decode \/ DecodeHalt
  PROVE  Doing'
<1>0. memory' = memory
  BY MemoryRests DEF Fetch3, Decode, DecodeHalt, Go, WriteStates
<1>1. CASE Fetch3
  <2>1. readData = Instr
    BY <1>1, MemoryReplies DEF Fetch3, Go, Doing, Beginning, FetchStates, Instr, Answered, FetchedInOrder
  <2>2. reg' = [reg EXCEPT !.ir = Instr, !.pc = Following] /\ state = "FETCH_3" /\ state' = "DECODE"
    BY <1>1, <2>1 DEF Fetch3, Go, Doing, Beginning, FetchStates, Following
  <2>3. /\ reg'.ir = Instr /\ reg'.pc = Following /\ reg'.ac = reg.ac /\ reg'.lk = reg.lk
        /\ reg'.mq = reg.mq
    BY <2>2 DEF TypeOK, ControlTypeOK, Registers
  <2> QED
    BY <1>0, <2>2, <2>3 DEF Taking, Frozen, Doing, Pending, Beginning, Addresses,
       References, Transfers, Microinstructions, Halting, Resetting
<1>2. CASE Decode
  <2>1. /\ reg.ir = Instr /\ reg.pc = Following /\ Kept /\ memory = arch.mem /\ Alike(Instr)
        /\ state = "DECODE" /\ reg' = reg
        /\ instState' = FirstStates[Opcode(Instr) + 1]
        /\ state' = IF Opcode(Instr) <= 5 THEN "CAL_EA_1" ELSE instState'
    BY <1>2 DEF Decode, Go, Doing, Beginning, Regular
  <2>2. Opcode(Instr) \in 0 .. 7
    BY OperandTyped, FieldsAreWords
  <2>3. \/ Opcode(Instr) <= 5 /\ state' = "CAL_EA_1"
        \/ Opcode(Instr) = 6 /\ state' = "IOT_1"
        \/ Opcode(Instr) = 7 /\ state' = "MIC_1"
    <3>1. Opcode(Instr) <= 5 \/ Opcode(Instr) = 6 \/ Opcode(Instr) = 7
      BY <2>2
    <3>2. Opcode(Instr) > 5 => ~(Opcode(Instr) <= 5)
      BY <2>2
    <3> QED
      BY <2>1, <2>2, <3>1, <3>2, FirstOfReference
  <2> QED
    BY <1>0, <2>1, <2>3 DEF Taking, Frozen, Doing, Pending, Beginning, Addresses,
       References, Transfers, Microinstructions, Halting, Resetting
<1>3. CASE DecodeHalt
  <2>1. /\ Instr = 3842 /\ reg.pc = Following /\ Kept /\ memory = arch.mem /\ Alike(Instr)
        /\ state = "DECODE" /\ state' = "HALT" /\ reg' = reg
    BY <1>3 DEF DecodeHalt, Go, Doing, Beginning, Regular, HLT
  <2>2. /\ Opcode(Instr) = 7 /\ Group2(Instr) /\ On(Instr, 1)
        /\ ~On(Instr, 7) /\ ~Skip(Instr, arch.ac, arch.lk)
    BY <2>1, HaltWord
  <2> QED
    BY <1>0, <2>1, <2>2 DEF Taking, Frozen, Doing, Pending, Beginning, Addresses,
       References, Transfers, Microinstructions, Halting, Resetting
<1> QED
  BY <1>1, <1>2, <1>3

LEMMA AddressDoes ==
  ASSUME TypeOK, Handshake, Answered, ArchTyped, Doing, NEW i \in Inputs, Clock(i),
         Frozen, Taking(i), CalEa1 \/ EaInd1 \/ EaAut1
  PROVE  Doing'
<1>0. memory' = memory
  BY MemoryRests DEF CalEa1, EaInd1, EaAut1, Go, WriteStates
<1>1. CASE CalEa1
  <2>1. /\ reg'.ea = Pointer /\ reg'.ac = reg.ac /\ reg'.lk = reg.lk /\ reg'.mq = reg.mq
        /\ reg'.pc = reg.pc /\ reg'.ir = reg.ir
    BY <1>1 DEF CalEa1, Go, Doing, Addresses, Pointer, TypeOK, ControlTypeOK, Registers
  <2>2. /\ state = "CAL_EA_1" /\ instState' = FirstStates[Opcode(Instr) + 1]
        /\ eaFlag' <=> ~On(Instr, 7)
        /\ state' = IF On(Instr, 8) THEN "EA_IND_1" ELSE instState'
        /\ Opcode(Instr) <= 5 /\ Opcode(Instr) \in 0 .. 7 /\ Alike(Instr)
    BY <1>1, OperandTyped, FieldsAreWords DEF CalEa1, Go, Doing, Addresses
  <2>3. ~On(Instr, 8) => Effective = Pointer /\ Indexed = arch.mem
    BY DEF Effective, Indexed, Indexing
  <2>4. ~On(Instr, 8) => /\ state' \in FirstRefs
                         /\ state' = "JMP_1" => Opcode(Instr) = 5 /\ ~eaFlag'
    BY <2>2, FirstOfReference DEF Alike
  <2>5. CASE On(Instr, 8)
    BY <1>0, <2>1, <2>2, <2>5 DEF Taking, Frozen, Doing, Pending, Beginning, Addresses,
       References, Transfers, Microinstructions, Halting, Resetting
  <2>6. CASE ~On(Instr, 8)
    BY <1>0, <2>1, <2>2, <2>3, <2>4, <2>6 DEF Taking, Frozen, Doing, Pending, Beginning, Addresses,
       References, Transfers, Microinstructions, Halting, Resetting
  <2> QED
    BY <2>5, <2>6
<1>2. CASE EaInd1
  BY <1>0, <1>2 DEF EaInd1, Go, Taking, Frozen, Doing, Pending, Beginning, Addresses,
     References, Transfers, Microinstructions, Halting, Resetting, latches
<1>3. CASE EaAut1
  BY <1>0, <1>3 DEF EaAut1, Go, Taking, Frozen, Doing, Pending, Beginning, Addresses,
     References, Transfers, Microinstructions, Halting, Resetting
<1> QED
  BY <1>1, <1>2, <1>3

LEMMA IndirectDoes ==
  ASSUME TypeOK, Handshake, Answered, ArchTyped, Doing, NEW i \in Inputs, Clock(i),
         Frozen, Taking(i), EaInd2 \/ EaAut2 \/ EaAut3
  PROVE  Doing'
<1>0. memory' = memory
  BY MemoryRests DEF EaInd2, EaAut2, EaAut3, Go, Await, WriteStates
<1>1. CASE EaInd2
  <2>1. CASE ~MemFinished
    <3>1. reg' = reg
      BY <1>1, <2>1 DEF EaInd2, TypeOK, ControlTypeOK, Registers
    <3> QED
      BY <1>0, <1>1, <2>1, <3>1 DEF EaInd2, Await, Taking, Frozen, Doing, Pending, Beginning,
         Addresses, References, Transfers, Microinstructions, Halting, Resetting, latches, ports
  <2>2. CASE MemFinished
    <3>1. readData = Target /\ readData = readLatch
      BY <1>1, <2>2, MemoryReplies DEF EaInd2, Await, Doing, Addresses, ReadStates, Target
    <3>2. /\ reg'.ea = Target /\ reg'.ac = reg.ac /\ reg'.lk = reg.lk /\ reg'.mq = reg.mq
          /\ reg'.pc = reg.pc /\ reg'.ir = reg.ir
      BY <1>1, <2>2, <3>1 DEF EaInd2, TypeOK, ControlTypeOK, Registers
    <3>3. /\ state = "EA_IND_2" /\ state' = FirstStates[Opcode(Instr) + 1]
          /\ Opcode(Instr) <= 5 /\ Opcode(Instr) \in 0 .. 7
      BY <1>1, <2>2, OperandTyped, FieldsAreWords DEF EaInd2, Await, Doing, Addresses
    <3>4. state' \in FirstRefs
      BY <3>3, FirstOfReference
    <3>5. Effective = Target /\ Indexed = arch.mem
      BY <1>1 DEF EaInd2, Await, Doing, Addresses, Effective, Indexed, Indexing
    <3>6. memState' = "IDLE" /\ readLatch' = readLatch
      BY <2>2, MemoryTurnsIdle
    <3> QED
      BY <1>0, <3>1, <3>2, <3>3, <3>4, <3>5, <3>6 DEF Taking, Frozen, Doing, Pending, Beginning,
         Addresses, References, Transfers, Microinstructions, Halting, Resetting
  <2> QED
    BY <2>1, <2>2
<1>2. CASE EaAut2
  BY <1>0, <1>2 DEF EaAut2, Await, Taking, Frozen, Doing, Pending, Beginning,
     Addresses, References, Transfers, Microinstructions, Halting, Resetting, latches, ports
<1>3. CASE EaAut3
  <2>1. readData = Target
    BY <1>3, MemoryReplies DEF EaAut3, Go, Doing, Addresses, Target
  <2>2. memState' = "IDLE"
    BY <1>3, MemoryIdles DEF EaAut3, Go, WaitStates, ReadStates, WriteStates
  <2> QED
    BY <1>0, <1>3, <2>1, <2>2 DEF EaAut3, Go, Storing, Taking, Frozen, Doing, Pending, Beginning,
       Addresses, References, Transfers, Microinstructions, Halting, Resetting, latches
<1> QED
  BY <1>1, <1>2, <1>3

LEMMA IndexDoes ==
  ASSUME TypeOK, Handshake, Answered, ArchTyped, Doing, NEW i \in Inputs, Clock(i),
         Frozen, Taking(i), EaAut4 \/ EaAut5
  PROVE  Doing'
<1>1. CASE EaAut4
  <2>1. /\ state = "EA_AUT_4" /\ address = Pointer /\ writeData = Inc(Target)
        /\ Storing(arch.mem) /\ On(Instr, 8) /\ AutoIndex(Pointer)
        /\ reg' = reg /\ address' = address /\ writeData' = writeData
        /\ eaFlag' = eaFlag /\ instState' = instState
        /\ state' = IF MemFinished THEN "EA_AUT_5" ELSE "EA_AUT_4"
    BY <1>1 DEF EaAut4, Await, Doing, Addresses, latches, ports
  <2>2. Indexed = Put(arch.mem, address, writeData)
    BY <2>1 DEF Indexed, Indexing
  <2>3. /\ MemFinished => memory' = Indexed
        /\ ~MemFinished => Storing(arch.mem)'
    BY <2>1, <2>2, MemoryStores DEF WriteStates, Storing, Frozen
  <2> QED
    BY <2>1, <2>3 DEF Taking, Frozen, Doing, Pending, Beginning,
       Addresses, References, Transfers, Microinstructions, Halting, Resetting
<1>2. CASE EaAut5
  <2>0. memory' = memory
    BY <1>2, MemoryRests DEF EaAut5, Go, WriteStates
  <2>1. /\ reg'.ea = writeData /\ reg'.ac = reg.ac /\ reg'.lk = reg.lk /\ reg'.mq = reg.mq
        /\ reg'.pc = reg.pc /\ reg'.ir = reg.ir
    BY <1>2 DEF EaAut5, TypeOK, ControlTypeOK, Registers
  <2>2. /\ state = "EA_AUT_5" /\ state' = FirstStates[Opcode(Instr) + 1]
        /\ Opcode(Instr) <= 5 /\ Opcode(Instr) \in 0 .. 7 /\ ~eaFlag'
    BY <1>2, OperandTyped, FieldsAreWords DEF EaAut5, Go, Doing, Addresses, latches
  <2>3. state' \in FirstRefs
    BY <2>2, FirstOfReference
  <2>4. Effective = writeData
    BY <1>2 DEF EaAut5, Go, Doing, Addresses, Effective
  <2> QED
    BY <2>0, <2>1, <2>2, <2>3, <2>4 DEF Taking, Frozen, Doing, Pending, Beginning,
       Addresses, References, Transfers, Microinstructions, Halting, Resetting
<1> QED
  BY <1>1, <1>2

\* The states that put the effective address on the wires and the states
\* that take the operand, of AND, TAD and ISZ.
LEMMA OperandDoes ==
  ASSUME TypeOK, Handshake, Answered, ArchTyped, Doing, NEW i \in Inputs, Clock(i),
         Frozen, Taking(i), And1 \/ And2 \/ Tad1 \/ Tad2 \/ Isz1 \/ Isz2
  PROVE  Doing'
<1>0. memory' = memory
  BY MemoryRests DEF And1, And2, Tad1, Tad2, Isz1, Isz2, AddressOperand, ReadOperand, Go, Await,
     WriteStates
<1>1. Opcode(Instr) \in 0 .. 7
  BY OperandTyped, FieldsAreWords
<1>2. CASE And1 \/ Tad1 \/ Isz1
  <2>1. /\ state = "AND_1" => state' = "AND_2" /\ Opcode(Instr) = 0
        /\ state = "TAD_1" => state' = "TAD_2" /\ Opcode(Instr) = 1
        /\ state = "ISZ_1" => state' = "ISZ_2" /\ Opcode(Instr) = 2
        /\ state \in {"AND_1", "TAD_1", "ISZ_1"} /\ address' = Effective /\ reg' = reg
    BY <1>1, <1>2, FirstOfReference DEF And1, Tad1, Isz1, AddressOperand, Go, Doing, Addresses
  <2> QED
    BY <1>0, <2>1 DEF Taking, Frozen, Doing, Pending, Beginning, Addresses,
       References, Transfers, Microinstructions, Halting, Resetting
<1>3. CASE And2 \/ Tad2 \/ Isz2
  <2>1. /\ state = "AND_2" => state' = IF MemFinished THEN "AND_3" ELSE state
        /\ state = "TAD_2" => state' = IF MemFinished THEN "TAD_3" ELSE state
        /\ state = "ISZ_2" => state' = IF MemFinished THEN "ISZ_3" ELSE state
        /\ state \in {"AND_2", "TAD_2", "ISZ_2"} /\ address' = address
    BY <1>3 DEF And2, Tad2, Isz2, ReadOperand, Await, ports
  <2>2. /\ reg'.mb = readData /\ reg'.ac = reg.ac /\ reg'.lk = reg.lk /\ reg'.mq = reg.mq
        /\ reg'.pc = reg.pc /\ reg'.ir = reg.ir
    BY <1>3 DEF And2, Tad2, Isz2, ReadOperand, TypeOK, ControlTypeOK, Registers
  <2>3. MemFinished => readData = Operand
    BY <2>1, MemoryReplies DEF ReadStates, Operand, Doing, References
  <2> QED
    BY <1>0, <2>1, <2>2, <2>3 DEF Taking, Frozen, Doing, Pending, Beginning, Addresses,
       References, Transfers, Microinstructions, Halting, Resetting
<1> QED
  BY <1>2, <1>3

LEMMA IszDoes ==
  ASSUME TypeOK, Handshake, Answered, ArchTyped, Doing, NEW i \in Inputs, Clock(i),
         Frozen, Taking(i), Isz3 \/ Isz4 \/ Isz5
  PROVE  Doing'
<1>1. CASE Isz3
  <2>0. memory' = memory
    BY <1>1, MemoryRests DEF Isz3, Go, WriteStates
  <2>1. /\ reg'.mb = Inc(Operand) /\ reg'.ac = reg.ac /\ reg'.lk = reg.lk /\ reg'.mq = reg.mq
        /\ reg'.pc = reg.pc /\ reg'.ir = reg.ir
    BY <1>1 DEF Isz3, Go, Doing, References, TypeOK, ControlTypeOK, Registers
  <2> QED
    BY <1>1, <2>0, <2>1 DEF Isz3, Go, ports, Taking, Frozen, Doing, Pending, Beginning, Addresses,
       References, Transfers, Microinstructions, Halting, Resetting
<1>2. CASE Isz4
  <2>1. memState' = "IDLE" /\ memory' = memory
    BY <1>2, MemoryIdles DEF Isz4, Go, WaitStates, ReadStates, WriteStates
  <2> QED
    BY <1>2, <2>1 DEF Isz4, Go, Storing, Taking, Frozen, Doing, Pending, Beginning, Addresses,
       References, Transfers, Microinstructions, Halting, Resetting
<1>3. CASE Isz5
  <2>1. /\ state = "ISZ_5" /\ address = Effective /\ writeData = Inc(Operand)
        /\ Opcode(Instr) = 2 /\ Storing(Indexed)
        /\ reg' = reg /\ address' = address /\ writeData' = writeData
        /\ state' = IF MemFinished THEN "ISZ_6" ELSE "ISZ_5"
    BY <1>3 DEF Isz5, Await, Doing, References, ports
  <2>2. Executed = Put(Indexed, address, writeData)
    BY <2>1 DEF Executed
  <2>3. /\ MemFinished => memory' = Executed
        /\ ~MemFinished => Storing(Indexed)'
    BY <2>1, <2>2, MemoryStores DEF WriteStates, Storing, Frozen
  <2> QED
    BY <2>1, <2>3 DEF Taking, Frozen, Doing, Pending, Beginning, Addresses,
       References, Transfers, Microinstructions, Halting, Resetting
<1> QED
  BY <1>1, <1>2, <1>3

LEMMA StoreDoes ==
  ASSUME TypeOK, Handshake, Answered, ArchTyped, Doing, NEW i \in Inputs, Clock(i),
         Frozen, Taking(i), Dca1 \/ Dca2 \/ Jms1 \/ Jms2, state' # "CPU_IDLE"
  PROVE  Doing'
<1>0. Opcode(Instr) \in 0 .. 7
  BY OperandTyped, FieldsAreWords
<1>1. CASE Dca1 \/ Jms1
  <2>1. memState' = "IDLE" /\ memory' = memory
    BY <1>1, MemoryIdles DEF Dca1, Jms1, Go, WaitStates, ReadStates, WriteStates
  <2>2. /\ \/ state = "DCA_1" /\ state' = "DCA_2" /\ Opcode(Instr) = 3 /\ writeData' = reg.ac
           \/ state = "JMS_1" /\ state' = "JMS_2" /\ Opcode(Instr) = 4 /\ writeData' = reg.pc
        /\ address' = Effective /\ reg' = reg
    BY <1>0, <1>1, FirstOfReference DEF Dca1, Jms1, Go, Doing, Addresses
  <2> QED
    BY <2>1, <2>2 DEF Storing, Taking, Frozen, Doing, Pending, Beginning, Addresses,
       References, Transfers, Microinstructions, Halting, Resetting
<1>2. CASE Dca2
  <2>1. /\ state = "DCA_2" /\ address = Effective /\ writeData = arch.ac
        /\ Opcode(Instr) = 3 /\ Storing(Indexed)
        /\ address' = address /\ writeData' = writeData
        /\ state' = IF MemFinished THEN "DCA_3" ELSE "DCA_2"
    BY <1>2 DEF Dca2, Await, Doing, References, ports
  <2>2. Executed = Put(Indexed, address, writeData)
    BY <2>1 DEF Executed
  <2>3. /\ MemFinished => memory' = Executed
        /\ ~MemFinished => Storing(Indexed)'
    BY <2>1, <2>2, MemoryStores DEF WriteStates, Storing, Frozen
  <2>4. /\ reg'.ac = reg.ac /\ reg'.lk = reg.lk /\ reg'.mq = reg.mq
        /\ reg'.pc = reg.pc /\ reg'.ir = reg.ir
    BY <1>2 DEF Dca2, TypeOK, ControlTypeOK, Registers
  <2> QED
    BY <2>1, <2>3, <2>4 DEF Taking, Frozen, Doing, Pending, Beginning, Addresses,
       References, Transfers, Microinstructions, Halting, Resetting
<1>3. CASE Jms2
  <2>1. /\ state = "JMS_2" /\ state' = "JMS_2" /\ ~MemFinished /\ Storing(Indexed)
        /\ address' = address /\ writeData' = writeData
    BY <1>3 DEF Jms2, Await, Doing, References, ports
  <2>2. Storing(Indexed)'
    BY <2>1, MemoryStores DEF WriteStates, Storing, Frozen
  <2>3. /\ reg'.ac = reg.ac /\ reg'.lk = reg.lk /\ reg'.mq = reg.mq /\ reg'.ir = reg.ir
        /\ reg'.ea = reg.ea
    BY <1>3 DEF Jms2, TypeOK, ControlTypeOK, Registers
  <2> QED
    BY <2>1, <2>2, <2>3 DEF Taking, Frozen, Doing, Pending, Beginning, Addresses,
       References, Transfers, Microinstructions, Halting, Resetting
<1> QED
  BY <1>1, <1>2, <1>3

LEMMA WiresTyped ==
  ASSUME NEW i \in Inputs
  PROVE  Wires(i).datain \in Word /\ Wires(i).clearacc \in BOOLEAN /\ Wires(i).skipFlag \in BOOLEAN
<1>1. i.datain \in 0 .. 255 /\ i.clearacc \in BOOLEAN /\ i.skipFlag \in BOOLEAN
  BY InputsAssumption DEF InputWires
<1>2. i.datain \in Word
  BY <1>1 DEF Word
<1> QED
  BY <1>1, <1>2 DEF Wires

LEMMA TransferDoes ==
  ASSUME TypeOK, Handshake, Answered, ArchTyped, Doing, NEW i \in Inputs, Clock(i), Steady(i),
         Frozen, Taking(i), Iot1(i) \/ Iot2(i) \/ Iot3(i) \/ Iot4(i)
  PROVE  Doing'
<1>0. memory' = memory
  BY MemoryRests DEF Iot1, Iot2, Iot3, Iot4, Go, WriteStates
<1>1. /\ Wires(i).skipFlag = i.skipFlag /\ Wires(i).clearacc = i.clearacc
      /\ Wires(i).datain = i.datain /\ i.datain \in Word
  BY WiresTyped DEF Wires
<1>2. CASE Iot1(i)
  <2>1. /\ reg'.pc = IF On(Instr, 0) /\ i.skipFlag THEN Inc(Following) ELSE Following
        /\ reg'.ac = reg.ac /\ reg'.lk = reg.lk /\ reg'.mq = reg.mq /\ reg'.ir = reg.ir
    BY <1>2 DEF Iot1, Go, Doing, Transfers, TypeOK, ControlTypeOK, Registers
  <2>2. /\ state = "IOT_1" /\ state' = IF On(Instr, 0) THEN "IOT_6" ELSE "IOT_2"
        /\ pending'.io = Wires(i)
    BY <1>2 DEF Iot1, Go, Doing, Transfers, Taking
  <2> QED
    BY <1>0, <1>1, <2>1, <2>2 DEF Taking, Frozen, Doing, Pending, Beginning, Addresses,
       References, Transfers, Microinstructions, Halting, Resetting
<1>3. CASE Iot2(i)
  <2>1. /\ reg'.ac = (IF i.clearacc THEN 0 ELSE reg.ac)
        /\ reg'.pc = reg.pc /\ reg'.lk = reg.lk /\ reg'.mq = reg.mq /\ reg'.ir = reg.ir
    BY <1>3 DEF Iot2, Go, TypeOK, ControlTypeOK, Registers
  <2>2. state = "IOT_2" /\ state' = "IOT_3" /\ pending.io = Wires(i)
    BY <1>3 DEF Iot2, Go, Steady
  <2> QED
    BY <1>0, <1>1, <2>1, <2>2 DEF Taking, Frozen, Doing, Pending, Beginning, Addresses,
       References, Transfers, Microinstructions, Halting, Resetting
<1>4. CASE Iot3(i)
  <2>1. /\ reg'.ac = (IF i.clearacc THEN Or(reg.ac, i.datain) ELSE reg.ac)
        /\ reg'.pc = reg.pc /\ reg'.lk = reg.lk /\ reg'.mq = reg.mq /\ reg'.ir = reg.ir
    BY <1>4 DEF Iot3, Go, TypeOK, ControlTypeOK, Registers
  <2>2. /\ state = "IOT_3" /\ state' = (IF i.clearacc THEN "IOT_4" ELSE "IOT_5")
        /\ pending.io = Wires(i)
    BY <1>4 DEF Iot3, Go, Steady
  <2>3. i.clearacc => reg'.ac = i.datain
    BY <1>1, <2>1, <2>2, OrZero DEF Doing, Transfers
  <2> QED
    BY <1>0, <1>1, <2>1, <2>2, <2>3 DEF Taking, Frozen, Doing, Pending, Beginning, Addresses,
       References, Transfers, Microinstructions, Halting, Resetting
<1>5. CASE Iot4(i)
  <2>1. /\ reg'.ac = Or(reg.ac, i.datain)
        /\ reg'.pc = reg.pc /\ reg'.lk = reg.lk /\ reg'.mq = reg.mq /\ reg'.ir = reg.ir
    BY <1>5 DEF Iot4, Go, TypeOK, ControlTypeOK, Registers
  <2>2. state = "IOT_4" /\ state' = "IOT_5" /\ pending.io = Wires(i)
    BY <1>5 DEF Iot4, Go, Steady
  <2>3. reg'.ac = i.datain
    BY <1>1, <2>1, <2>2, OrItself DEF Doing, Transfers
  <2> QED
    BY <1>0, <1>1, <2>2, <2>1, <2>3 DEF Taking, Frozen, Doing, Pending, Beginning, Addresses,
       References, Transfers, Microinstructions, Halting, Resetting
<1> QED
  BY <1>2, <1>3, <1>4, <1>5

LEMMA MicrocodedDoes ==
  ASSUME TypeOK, Handshake, Answered, ArchTyped, Doing, NEW i \in Inputs, Clock(i),
         Frozen, Taking(i), Mic1 \/ Mic2, state' # "CPU_IDLE"
  PROVE  Doing'
<1>0. memory' = memory
  BY MemoryRests DEF Mic1, Mic2, Go, WriteStates
<1>1. CASE Mic1
  <2>1. /\ state = "MIC_1" /\ reg' = reg
        /\ \/ state' = "MIC_2" /\ Group2(Instr)
           \/ state' = "MIC_3" /\ Group3(Instr)
    BY <1>1 DEF Mic1, Go, Doing, Microinstructions, Group1, Group2, Group3
  <2> QED
    BY <1>0, <2>1 DEF Taking, Frozen, Doing, Pending, Beginning, Addresses,
       References, Transfers, Microinstructions, Halting, Resetting
<1>2. CASE Mic2
  <2>1. /\ state = "MIC_2" /\ state' = "HALT" /\ On(Instr, 1) /\ Opcode(Instr) = 7
        /\ Group2(Instr) /\ Alike(Instr) /\ Kept /\ reg.ir = Instr
    BY <1>2 DEF Mic2, Go, Doing, Microinstructions
  <2>2. /\ reg'.ac = Micro(Instr, arch.ac, arch.lk, heldLink).ac
        /\ reg'.pc = IF Skip(Instr, arch.ac, arch.lk) THEN Inc(Following) ELSE Following
        /\ reg'.lk = reg.lk /\ reg'.mq = reg.mq /\ reg'.ir = reg.ir
    BY <1>2, <2>1 DEF Mic2, micro, Doing, Microinstructions, TypeOK, ControlTypeOK, Registers
  <2>3. reg'.ac = IF On(Instr, 7) THEN 0 ELSE arch.ac
    BY <2>1, <2>2, ClearedByPipeline DEF ArchTyped
  <2> QED
    BY <1>0, <2>1, <2>2, <2>3 DEF Taking, Frozen, Doing, Pending, Beginning, Addresses,
       References, Transfers, Microinstructions, Halting, Resetting
<1> QED
  BY <1>1, <1>2

LEMMA Group3Does ==
  ASSUME TypeOK, Handshake, Answered, Regular, ArchTyped, Doing, NEW i \in Inputs, Clock(i),
         Frozen, Taking(i), Mic3 \/ Mic4 \/ Mic5 \/ Mic6 \/ Mic7 \/ Mic8
  PROVE  Doing'
<1>0. memory' = memory
  BY MemoryRests DEF Mic3, Mic4, Mic5, Mic6, Mic7, Mic8, ReadOperand, Await, Go, WriteStates
<1>1. CASE Mic3
  <2>1. /\ reg'.ac = Cleared /\ reg'.pc = reg.pc /\ reg'.lk = reg.lk /\ reg'.mq = reg.mq
        /\ reg'.ir = reg.ir
    BY <1>1 DEF Mic3, Go, Cleared, Doing, Microinstructions, TypeOK, ControlTypeOK, Registers
  <2> QED
    BY <1>0, <1>1, <2>1 DEF Mic3, Go, Taking, Frozen, Doing, Pending, Beginning, Addresses,
       References, Transfers, Microinstructions, Halting, Resetting
<1>2. CASE Mic4
  <2>1. /\ reg.ac = Cleared /\ reg.mq = arch.mq /\ reg.ir = Instr /\ Group3(Instr) /\ Alike(Instr)
        /\ Opcode(Instr) = 7
    BY <1>2 DEF Mic4, Go, Doing, Microinstructions
  <2>2. ~(On(Instr, 6) /\ On(Instr, 4))
    BY <2>1 DEF Alike
  <2>3. /\ reg'.ac = LoadedAC /\ reg'.mq = LoadedMQ /\ reg'.pc = reg.pc /\ reg'.lk = reg.lk
        /\ reg'.ir = reg.ir
    BY <1>2, <2>1, <2>2 DEF Mic4, LoadedAC, LoadedMQ, TypeOK, ControlTypeOK, Registers
  <2> QED
    BY <1>0, <1>2, <2>3 DEF Mic4, Go, Taking, Frozen, Doing, Pending, Beginning, Addresses,
       References, Transfers, Microinstructions, Halting, Resetting
<1>3. CASE Mic5
  BY <1>0, <1>3 DEF Mic5, Go, Taking, Frozen, Doing, Pending, Beginning, Addresses,
     References, Transfers, Microinstructions, Halting, Resetting
<1>4. CASE Mic6
  <2>1. /\ reg'.pc = Inc(Following) /\ reg'.ac = reg.ac /\ reg'.mq = reg.mq /\ reg'.lk = reg.lk
        /\ reg'.ir = reg.ir /\ address' = Inc(Following)
    BY <1>4 DEF Mic6, Go, Doing, Microinstructions, TypeOK, ControlTypeOK, Registers
  <2>2. At(arch.mem, Following) = At(arch.mem, Inc(Following))
    BY <1>4 DEF Mic6, Go, Doing, Microinstructions, Regular, ReadMemory, At
  <2> QED
    BY <1>0, <1>4, <2>1, <2>2 DEF Mic6, Go, Taking, Frozen, Doing, Pending, Beginning, Addresses,
       References, Transfers, Microinstructions, Halting, Resetting
<1>5. CASE Mic7
  <2>1. /\ reg'.mb = readData /\ reg'.ac = reg.ac /\ reg'.lk = reg.lk /\ reg'.mq = reg.mq
        /\ reg'.pc = reg.pc /\ reg'.ir = reg.ir
    BY <1>5 DEF Mic7, ReadOperand, TypeOK, ControlTypeOK, Registers
  <2>2. /\ state = "MIC_7" /\ state' = (IF MemFinished THEN "MIC_8" ELSE state)
        /\ address' = address
    BY <1>5 DEF Mic7, ReadOperand, Await, ports
  <2>3. MemFinished => readData = At(arch.mem, Following)
    BY <2>2, MemoryReplies DEF ReadStates, Doing, Microinstructions
  <2> QED
    BY <1>0, <2>1, <2>2, <2>3 DEF Taking, Frozen, Doing, Pending, Beginning, Addresses,
       References, Transfers, Microinstructions, Halting, Resetting
<1>6. CASE Mic8
  BY <1>0, <1>6 DEF Mic8, Go, Taking, Frozen, Doing, Pending, Beginning, Addresses,
     References, Transfers, Microinstructions, Halting, Resetting
<1> QED
  BY <1>1, <1>2, <1>3, <1>4, <1>5, <1>6

\* The front panel, and a reset that is held.
LEMMA PanelDoes ==
  ASSUME TypeOK, Handshake, Answered, ArchTyped, Doing, NEW i \in Inputs, Clock(i),
         Frozen, Taking(i), SrChg1(i) \/ SrChg2 \/ Dep1(i) \/ Dep2, state' # "CPU_IDLE"
  PROVE  Doing'
<1>1. CASE SrChg1(i) \/ SrChg2
  <2>1. memory' = memory
    BY <1>1, MemoryRests DEF SrChg1, SrChg2, Go, Await, WriteStates
  <2> QED
    BY <1>1, <2>1 DEF SrChg1, SrChg2, Go, Await, Taking, Frozen, Doing, Pending, Beginning,
       Addresses, References, Transfers, Microinstructions, Halting, Resetting
<1>2. CASE Dep1(i)
  <2>1. memState' = "IDLE" /\ memory' = memory
    BY <1>2, MemoryIdles DEF Dep1, Go, WaitStates, ReadStates, WriteStates
  <2> QED
    BY <1>2, <2>1 DEF Dep1, Go, SwitchStates, Storing, Taking, Frozen, Doing, Pending, Beginning,
       Addresses, References, Transfers, Microinstructions, Halting, Resetting
<1>3. CASE Dep2
  <2>1. /\ state = "DEP_2" /\ state' = "DEP_2" /\ ~MemFinished /\ Storing(arch.mem)
        /\ address' = address /\ writeData' = writeData
    BY <1>3 DEF Dep2, Await, Doing, Beginning, ports
  <2>2. Storing(arch.mem)'
    BY <2>1, MemoryStores DEF WriteStates, Storing, Frozen
  <2>3. reg' = reg
    BY <1>3, <2>1 DEF Dep2, TypeOK, ControlTypeOK, Registers
  <2> QED
    BY <2>1, <2>2, <2>3 DEF SwitchStates, Taking, Frozen, Doing, Pending, Beginning,
       Addresses, References, Transfers, Microinstructions, Halting, Resetting
<1> QED
  BY <1>1, <1>2, <1>3

-----------------------------------------------------------------------------
\* The invariant through a reset and through CPU_IDLE.

LEMMA FirstStatesNamed ==
  {FirstStates[k] : k \in 1 .. 8} = FirstRefs \cup {"IOT_1", "MIC_1"}
<1>1. 1 .. 8 = {1, 2, 3, 4, 5, 6, 7, 8}
  OBVIOUS
<1> QED
  BY <1>1 DEF FirstStates

\* What a reset finds in memory is what the operation it ends may leave.
LEMMA Leaves ==
  ASSUME TypeOK, Handshake, Doing, state \notin {"CPU_IDLE", "REG_INIT"}
  PROVE  /\ memory \in Leavable(pending.kind)
         /\ memState = "WRITE" => Put(memory, address, writeData) \in Leavable(pending.kind)
<1>1. CASE state \in WriteStates
  <2>0. memState = "WRITE" => memState # "DONE"
    OBVIOUS
  <2>1. CASE state = "DEP_2"
    BY <2>0, <2>1 DEF Doing, Pending, Beginning, Storing, Leavable
  <2>2. CASE state = "EA_AUT_4"
    <3>1. /\ Opcode(Instr) <= 5 /\ pending.kind = "instruction"
          /\ Indexed = Put(arch.mem, address, writeData) /\ Storing(arch.mem)
      BY <2>2 DEF Doing, Pending, Addresses, Indexed, Indexing
    <3> QED
      BY <3>1 DEF Storing, Leavable
  <2>3. CASE state \in {"ISZ_5", "DCA_2", "JMS_2"}
    <3>1. /\ Opcode(Instr) <= 5 /\ pending.kind = "instruction" /\ Storing(Indexed)
          /\ Executed = Put(Indexed, address, writeData)
      BY <2>3 DEF Doing, Pending, References, Executed
    <3> QED
      BY <3>1 DEF Storing, Leavable
  <2> QED
    BY <1>1, <2>1, <2>2, <2>3 DEF WriteStates
<1>2. CASE state \notin WriteStates
  <2>1. memState # "WRITE"
    BY <1>2 DEF Handshake
  <2>2. \/ state \in PanelStates \cup FetchStates \cup {"DECODE", "HALT"} \cup IotStates \cup MicStates
        \/ state \in AddressStates \cup FirstRefs \cup RefStates
    BY FirstStatesNamed DEF TypeOK, ControlTypeOK, States, ReadStates, WriteStates
  <2>3. CASE state \in PanelStates \cup FetchStates \cup {"DECODE", "HALT"} \cup IotStates \cup MicStates
    <3>1. memory = arch.mem
      BY <1>2, <2>3 DEF WriteStates, Doing, Beginning, Transfers, Microinstructions, Halting
    <3> QED
      BY <2>1, <3>1 DEF Leavable
  <2>4. CASE state \in AddressStates \cup FirstRefs \cup RefStates
    <3>1. /\ memory \in {arch.mem, Indexed, Executed}
          /\ Opcode(Instr) <= 5 /\ pending.kind = "instruction"
      BY <1>2, <2>4 DEF WriteStates, Doing, Pending, Addresses, References
    <3> QED
      BY <2>1, <3>1 DEF Leavable
  <2> QED
    BY <2>2, <2>3, <2>4
<1> QED
  BY <1>1, <1>2

LEMMA PressDoes ==
  ASSUME TypeOK, Handshake, Doing, HPressReset
  PROVE  Doing'
<1> DEFINE x == IF state = "CPU_IDLE" THEN "none"
                ELSE IF state = "REG_INIT" THEN pending.during ELSE pending.kind
<1>1. /\ state' = "REG_INIT" /\ memory' = memory /\ memState' = memState
      /\ address' = address /\ writeData' = writeData /\ arch' = arch
  BY DEF HPressReset, WatchReset, PressReset, ports, memVars, historyVars
<1>2. /\ pending'.kind = "reset" /\ pending'.during = x /\ pending'.sw = pending.sw /\ PendingTyped'
  <2>1. PendingTyped
    BY DEF Doing, Pending
  <2>2. pending' = [kind |-> "reset", sw |-> pending.sw, io |-> pending.io,
                    halts |-> pending.halts, during |-> x]
    BY <2>1 DEF HPressReset, WatchReset, PendingTyped
  <2> HIDE DEF x
  <2> QED
    BY <2>1, <2>2 DEF PendingTyped
<1>3. /\ memory \in Leavable(x)
      /\ memState = "WRITE" => Put(memory, address, writeData) \in Leavable(x)
  <2>1. CASE state = "CPU_IDLE"
    BY <2>1 DEF Doing, Beginning, Handshake, WriteStates, Leavable
  <2>2. CASE state = "REG_INIT"
    BY <2>2 DEF Doing, Resetting
  <2>3. CASE state \notin {"CPU_IDLE", "REG_INIT"}
    BY <2>3, Leaves
  <2> QED
    BY <2>1, <2>2, <2>3
<1> HIDE DEF x
<1>4. Resetting'
  BY <1>1, <1>2, <1>3, Freezes DEF Resetting, Leavable, Frozen
<1> QED
  BY <1>1, <1>2, <1>4 DEF Doing, Pending, Beginning, Addresses,
     References, Transfers, Microinstructions, Halting

LEMMA HeldDoes ==
  ASSUME TypeOK, Handshake, Doing, NEW i \in Inputs, Clock(i), Frozen, Taking(i), RegInit,
         state' # "CPU_IDLE"
  PROVE  Doing'
<1>1. state = "REG_INIT" /\ state' = "REG_INIT"
  BY DEF RegInit, Go
<1>2. memState' # "WRITE" /\ memory' \in Leavable(pending.during)
  <2>1. \/ memState' # "WRITE" /\ memory' = memory
        \/ memState = "WRITE" /\ memState' = "DONE" /\ memory' = Put(memory, address, writeData)
    BY <1>1 DEF Clock, MemClock, MemIdle, MemRead, MemWrite, MemDone, ReadStates, WriteStates,
       WriteMemory, Put
  <2> QED
    BY <1>1, <2>1 DEF Doing, Resetting
<1>3. pending'.during = pending.during /\ pending'.sw = pending.sw
  BY <1>1 DEF Taking, SwitchStates
<1>4. Resetting'
  BY <1>1, <1>2, <1>3 DEF Resetting, Leavable, Frozen
<1> QED
  BY <1>1, <1>4 DEF Taking, Doing, Pending, Beginning, Addresses,
     References, Transfers, Microinstructions, Halting

LEMMA IdleDoes ==
  ASSUME TypeOK, Handshake, Doing, NEW i \in Inputs, Clock(i), Frozen, Begin, CpuIdle(i)
  PROVE  Doing'
<1>1. memory' = memory /\ reg' = reg
  BY MemoryRests DEF CpuIdle, Go, WriteStates
<1>2. PendingTyped' /\ pending'.kind = KindOf(state') /\ ~pending'.halts
  <2>1. pending' = [kind |-> KindOf(state'), sw |-> 0, io |-> NoIO, halts |-> FALSE,
                    during |-> "none"]
    BY DEF Begin, NoEvent
  <2> QED
    BY <2>1 DEF PendingTyped, Word
<1>3. /\ state = "CPU_IDLE"
      /\ state' \in {"CPU_IDLE", "FETCH_1", "SR_CHG_1", "LD_PC_1", "LD_AC_1", "DEP_1"}
  BY DEF CpuIdle, Go, IdleSuccessor
<1> QED
  BY <1>1, <1>2, <1>3 DEF KindOf, Frozen, Doing, Pending, Beginning, Addresses,
     References, Transfers, Microinstructions, Halting, Resetting

LEMMA DoneDoes ==
  ASSUME PendingTyped', state' = "CPU_IDLE", arch' = Visible'
  PROVE  Doing'
<1>1. /\ arch'.ac = reg'.ac /\ arch'.lk = reg'.lk /\ arch'.mq = reg'.mq /\ arch'.pc = reg'.pc
      /\ arch'.mem = memory'
  BY DEF Visible
<1> QED
  BY <1>1 DEF Doing, Pending, Beginning, Addresses,
     References, Transfers, Microinstructions, Halting, Resetting

-----------------------------------------------------------------------------
\* The clock that ends an operation is a step of the programmer's machine.

\* What such a clock makes of the history.
Ends(i) == Taking(i) /\ state' = "CPU_IDLE" /\ event' = pending' /\ arch' = Visible'

LEMMA EndsVisible ==
  ASSUME NEW i, Ends(i)
  PROVE  arch' = Programmer(reg'.ac, reg'.lk, reg'.mq, reg'.pc, memory')
  BY DEF Ends, Visible, Programmer

\* An instruction has ended and has not halted.
LEMMA EndsInstruction ==
  ASSUME Doing, NEW i, Ends(i), state \notin {"CPU_IDLE", "REG_INIT", "HALT"} \cup PanelStates
  PROVE  /\ pending'.halts = No /\ pending'.sw = pending'.sw
         /\ Machine!Performs(arch', pending'.sw, pending'.io, pending'.halts) => Machine!Next
  BY DEF Ends, Taking, Doing, Pending, No, Machine!Next, Machine!Instruction, Machine!Happens

LEMMA EndsExamine ==
  ASSUME TypeOK, Handshake, ArchTyped, Doing, NEW i \in Inputs, Clock(i), Ends(i), SrChg2
  PROVE  Machine!Next
<1>1. memory' = memory
  BY MemoryRests DEF SrChg2, Await, WriteStates
<1>2. arch' = Programmer(arch.ac, arch.lk, arch.mq, arch.pc, arch.mem)
  BY <1>1, EndsVisible DEF SrChg2, Await, Doing, Beginning
<1>3. arch' = arch
  BY <1>2 DEF ArchTyped
<1>4. event'.kind = "examine"
  BY DEF SrChg2, Await, Ends, Taking, Doing, Pending
<1> QED
  BY <1>3, <1>4 DEF Machine!Next, Machine!Examine, Machine!Happens

LEMMA EndsLoad ==
  ASSUME TypeOK, Handshake, ArchTyped, Doing, NEW i \in Inputs, Clock(i), Ends(i),
         LdPc1(i) \/ LdAc1(i)
  PROVE  Machine!Next
<1>1. memory' = memory
  BY MemoryRests DEF LdPc1, LdAc1, Go, WriteStates
<1>2. event'.sw = i.swreg
  BY DEF LdPc1, LdAc1, Go, Ends, Taking, SwitchStates
<1>3. CASE LdPc1(i)
  <2>1. /\ reg'.pc = i.swreg /\ reg'.ac = reg.ac /\ reg'.lk = reg.lk /\ reg'.mq = reg.mq
    BY <1>3 DEF LdPc1, TypeOK, ControlTypeOK, Registers
  <2>2. arch' = [arch EXCEPT !.pc = event'.sw]
    <3> DEFINE w == event'.sw
    <3>1. arch' = Programmer(arch.ac, arch.lk, arch.mq, w, arch.mem)
      BY <1>1, <1>2, <1>3, <2>1, EndsVisible DEF LdPc1, Go, Doing, Beginning
    <3> HIDE DEF w
    <3>2. arch' = [arch EXCEPT !.pc = w]
      BY <3>1, ArchLoads
    <3> QED
      BY <3>2 DEF w
  <2>3. event'.kind = "loadpc"
    BY <1>3 DEF LdPc1, Go, Ends, Taking, Doing, Pending
  <2> QED
    BY <2>2, <2>3 DEF Machine!Next, Machine!LoadPC, Machine!Happens
<1>4. CASE LdAc1(i)
  <2>1. /\ reg'.ac = i.swreg /\ reg'.pc = reg.pc /\ reg'.lk = reg.lk /\ reg'.mq = reg.mq
    BY <1>4 DEF LdAc1, TypeOK, ControlTypeOK, Registers
  <2>2. arch' = [arch EXCEPT !.ac = event'.sw]
    <3> DEFINE w == event'.sw
    <3>1. arch' = Programmer(w, arch.lk, arch.mq, arch.pc, arch.mem)
      BY <1>1, <1>2, <1>4, <2>1, EndsVisible DEF LdAc1, Go, Doing, Beginning
    <3> HIDE DEF w
    <3>2. arch' = [arch EXCEPT !.ac = w]
      BY <3>1, ArchLoads
    <3> QED
      BY <3>2 DEF w
  <2>3. event'.kind = "loadac"
    BY <1>4 DEF LdAc1, Go, Ends, Taking, Doing, Pending
  <2> QED
    BY <2>2, <2>3 DEF Machine!Next, Machine!LoadAC, Machine!Happens
<1> QED
  BY <1>3, <1>4

\* A deposit as the programmer's machine has it.
LEMMA Deposits ==
  ASSUME ArchTyped, NEW sw \in Word
  PROVE  Machine!Deposited(arch, sw)
           = Programmer(arch.ac, arch.lk, arch.mq, Following, Put(arch.mem, arch.pc, sw))
<1> DEFINE m == Machine!MemWrite(arch.mem, arch.pc, sw)
           t == [arch EXCEPT !.mem = m]
           u == [t EXCEPT !.pc = Machine!next]
<1>1. m = Put(arch.mem, arch.pc, sw)
  BY SameMemory, CutWord DEF ArchTyped
<1>2. Machine!next = Following
  BY GoldStarts
<1>3. Machine!Deposited(arch, sw) = u
  BY DEF Machine!Deposited
<1> HIDE DEF m
<1>4. t = Programmer(arch.ac, arch.lk, arch.mq, arch.pc, m)
  BY DEF ArchTyped, Programmer
<1> HIDE DEF t
<1>5. u = Programmer(arch.ac, arch.lk, arch.mq, Following, m)
  BY <1>2, <1>4 DEF Programmer
<1> QED
  BY <1>1, <1>3, <1>5

LEMMA EndsDeposit ==
  ASSUME TypeOK, Handshake, ArchTyped, Doing, NEW i \in Inputs, Clock(i), Ends(i), Dep2
  PROVE  Machine!Next
<1>1. /\ state = "DEP_2" /\ MemFinished /\ address = arch.pc /\ writeData = pending.sw
      /\ Storing(arch.mem) /\ reg.pc = arch.pc /\ Kept
  BY DEF Dep2, Await, Ends, Doing, Beginning
<1>2. memory' = Put(arch.mem, arch.pc, pending.sw)
  BY <1>1, MemoryStores DEF WriteStates
<1>3. /\ reg'.pc = Following /\ reg'.ac = reg.ac /\ reg'.lk = reg.lk /\ reg'.mq = reg.mq
  BY <1>1 DEF Dep2, Following, TypeOK, ControlTypeOK, Registers
<1>4. pending.sw \in Word
  BY <1>1 DEF TypeOK, ControlTypeOK
<1>5. arch' = Machine!Deposited(arch, pending.sw)
  BY <1>1, <1>2, <1>3, <1>4, EndsVisible, Deposits
<1>6. event'.kind = "deposit" /\ event'.sw = pending.sw
  BY <1>1 DEF Ends, Taking, SwitchStates, Doing, Pending
<1> QED
  BY <1>5, <1>6 DEF Machine!Next, Machine!Deposit, Machine!Happens

LEMMA EndsReference ==
  ASSUME TypeOK, Handshake, Answered, ArchTyped, Doing, NEW i \in Inputs, Clock(i), Ends(i),
         MemoryReference
  PROVE  Machine!Next
<1>0. Opcode(Instr) \in 0 .. 7
  BY OperandTyped, FieldsAreWords
<1>1. /\ Opcode(Instr) <= 5 /\ reg'.ac = ReferredAC /\ reg'.lk = ReferredLK /\ reg'.mq = arch.mq
      /\ reg'.pc = ReferredPC /\ memory' = Executed
      /\ state \notin {"CPU_IDLE", "REG_INIT", "HALT"} \cup PanelStates
  <2>1. CASE And3
    <3>1. /\ state = "AND_3" /\ reg.mb = Operand /\ reg.pc = Following /\ Kept
          /\ memory = Indexed /\ Opcode(Instr) = 0
      BY <2>1 DEF And3, Go, Doing, References
    <3>2. /\ reg'.ac = And(reg.ac, reg.mb) /\ reg'.lk = reg.lk /\ reg'.mq = reg.mq
          /\ reg'.pc = reg.pc
      BY <2>1 DEF And3, TypeOK, ControlTypeOK, Registers
    <3>3. memory' = memory
      BY <3>1, MemoryRests DEF WriteStates
    <3> QED
      BY <3>1, <3>2, <3>3 DEF ReferredAC, ReferredLK, ReferredPC, Executed
  <2>2. CASE Tad3
    <3>1. /\ state = "TAD_3" /\ reg.mb = Operand /\ reg.pc = Following /\ Kept
          /\ memory = Indexed /\ Opcode(Instr) = 1
      BY <2>2 DEF Tad3, Go, Doing, References
    <3>2. /\ reg'.ac = (reg.ac + reg.mb) % 4096
          /\ reg'.lk = (IF reg.ac + reg.mb > 4095 THEN 1 - reg.lk ELSE reg.lk)
          /\ reg'.mq = reg.mq /\ reg'.pc = reg.pc
      BY <2>2 DEF Tad3, TypeOK, ControlTypeOK, Registers
    <3>3. memory' = memory
      BY <3>1, MemoryRests DEF WriteStates
    <3> QED
      BY <3>1, <3>2, <3>3 DEF ReferredAC, ReferredLK, ReferredPC, Executed
  <2>3. CASE Isz6
    <3>1. /\ state = "ISZ_6" /\ reg.mb = Inc(Operand) /\ reg.pc = Following /\ Kept
          /\ memory = Executed /\ Opcode(Instr) = 2
      BY <2>3 DEF Isz6, Go, Doing, References
    <3>2. /\ reg'.pc = (IF reg.mb = 0 THEN Inc(reg.pc) ELSE reg.pc)
          /\ reg'.ac = reg.ac /\ reg'.lk = reg.lk /\ reg'.mq = reg.mq
      BY <2>3 DEF Isz6, TypeOK, ControlTypeOK, Registers
    <3>3. memory' = memory
      BY <3>1, MemoryRests DEF WriteStates
    <3> QED
      BY <3>1, <3>2, <3>3 DEF ReferredAC, ReferredLK, ReferredPC
  <2>4. CASE Dca3
    <3>1. /\ state = "DCA_3" /\ reg.pc = Following /\ Kept /\ memory = Executed /\ Opcode(Instr) = 3
      BY <2>4 DEF Dca3, Go, Doing, References
    <3>2. /\ reg'.ac = 0 /\ reg'.lk = reg.lk /\ reg'.mq = reg.mq /\ reg'.pc = reg.pc
      BY <2>4 DEF Dca3, TypeOK, ControlTypeOK, Registers
    <3>3. memory' = memory
      BY <3>1, MemoryRests DEF WriteStates
    <3> QED
      BY <3>1, <3>2, <3>3 DEF ReferredAC, ReferredLK, ReferredPC
  <2>5. CASE Jms2
    <3>1. /\ state = "JMS_2" /\ MemFinished /\ Kept /\ Opcode(Instr) = 4 /\ reg.ea = Effective
          /\ address = Effective /\ writeData = Following /\ Storing(Indexed)
      BY <2>5 DEF Jms2, Await, Ends, Doing, References
    <3>2. /\ reg'.pc = Inc(reg.ea) /\ reg'.ac = reg.ac /\ reg'.lk = reg.lk /\ reg'.mq = reg.mq
      BY <2>5 DEF Jms2, TypeOK, ControlTypeOK, Registers
    <3>3. memory' = Put(Indexed, Effective, Following)
      BY <3>1, MemoryStores DEF WriteStates
    <3> QED
      BY <3>1, <3>2, <3>3 DEF ReferredAC, ReferredLK, ReferredPC, Executed
  <2>6. CASE Jmp1
    <3>1. /\ state = "JMP_1" /\ Kept /\ reg.ea = Effective /\ memory = Indexed
          /\ eaFlag => memState = "IDLE" /\ readLatch = reg.ea
      BY <2>6 DEF Jmp1, Go, Doing, Addresses
    <3>2. Opcode(Instr) = 5
      BY <1>0, <3>1, FirstOfReference DEF Doing, Addresses
    <3>3. /\ reg'.pc = Effective /\ reg'.ac = reg.ac /\ reg'.lk = reg.lk /\ reg'.mq = reg.mq
      BY <2>6, <3>1 DEF Jmp1, readData, ReadData, TypeOK, ControlTypeOK, Registers
    <3>4. memory' = memory
      BY <3>1, MemoryRests DEF WriteStates
    <3> QED
      BY <3>1, <3>2, <3>3, <3>4 DEF ReferredAC, ReferredLK, ReferredPC, Executed
  <2>7. \/ And3 \/ Tad3 \/ Isz6 \/ Dca3 \/ Jms2 \/ Jmp1
    BY DEF Ends, MemoryReference, And1, And2, Tad1, Tad2, Isz1, Isz2, Isz3, Isz4, Isz5, Dca1, Dca2,
       Jms1, AddressOperand, ReadOperand, Go, Await
  <2> QED
    BY <2>1, <2>2, <2>3, <2>4, <2>5, <2>6, <2>7
<1>2. arch' = Programmer(ReferredAC, ReferredLK, arch.mq, ReferredPC, Executed)
  BY <1>1, EndsVisible
<1> QED
  BY <1>1, <1>2, EndsInstruction, PerformsReference

LEMMA EndsTransfer ==
  ASSUME TypeOK, Handshake, ArchTyped, Doing, NEW i \in Inputs, Clock(i), Ends(i),
         InputOutput(i)
  PROVE  Machine!Next
<1>1. Iot5 \/ Iot6
  BY DEF Ends, InputOutput, Iot1, Iot2, Iot3, Iot4, Go
<1>2. state \in {"IOT_5", "IOT_6"} /\ reg' = reg
  BY <1>1 DEF Iot5, Iot6, Go
<1>3. memory' = memory
  BY <1>2, MemoryRests DEF WriteStates
<1>4. pending'.io = pending.io
  BY <1>2 DEF Ends, Taking
<1>5. /\ Opcode(Instr) = 6
      /\ arch' = IF On(Instr, 0)
                 THEN Programmer(arch.ac, arch.lk, arch.mq,
                        IF pending'.io.skipFlag THEN Inc(Following) ELSE Following, arch.mem)
                 ELSE Programmer(IF pending'.io.clearacc THEN pending'.io.datain ELSE arch.ac,
                        arch.lk, arch.mq, Following, arch.mem)
  BY <1>2, <1>3, <1>4, EndsVisible DEF Doing, Transfers
<1>6. Machine!Performs(arch', pending'.sw, pending'.io, pending'.halts)
  <2> DEFINE b == arch'
             io == pending'.io
             sw == pending'.sw
             h == pending'.halts
  <2>1. h = No
    BY <1>2, EndsInstruction
  <2>2. Opcode(Instr) = 6
    BY <1>5
  <2>3. b = IF On(Instr, 0)
            THEN Programmer(arch.ac, arch.lk, arch.mq,
                            IF io.skipFlag THEN Inc(Following) ELSE Following, arch.mem)
            ELSE Programmer(IF io.clearacc THEN io.datain ELSE arch.ac, arch.lk, arch.mq,
                            Following, arch.mem)
    BY <1>5
  <2> HIDE DEF b, io, sw, h
  <2>4. Machine!Performs(b, sw, io, h)
    BY <2>1, <2>2, <2>3, PerformsTransfer
  <2> QED
    BY <2>4 DEF b, io, sw, h
<1> QED
  BY <1>2, <1>6, EndsInstruction

LEMMA EndsGroup1 ==
  ASSUME TypeOK, Handshake, ArchTyped, Doing, NEW i \in Inputs, Clock(i), Ends(i), Mic1
  PROVE  Machine!Next
<1>1. /\ state = "MIC_1" /\ Group1(Instr) /\ Opcode(Instr) = 7 /\ Alike(Instr) /\ reg.ir = Instr
      /\ Kept /\ reg.pc = Following /\ memory = arch.mem
  BY DEF Mic1, Go, Ends, Doing, Microinstructions, Group1, Group2
<1> DEFINE c == Pipeline(Instr, arch.ac, arch.lk, heldLink)
<1>2. micro = c
  BY <1>1 DEF micro, Micro, Group1
<1>3. reg'.ac = c.ac /\ reg'.lk = c.lk /\ reg'.mq = reg.mq /\ reg'.pc = reg.pc
  <2> HIDE DEF c
  <2> QED
    BY <1>1, <1>2 DEF Mic1, TypeOK, ControlTypeOK, Registers
<1>4. memory' = memory
  BY <1>1, MemoryRests DEF WriteStates
<1>5. arch' = Programmer(c.ac, c.lk, arch.mq, Following, arch.mem)
  <2> HIDE DEF c
  <2> QED
    BY <1>1, <1>3, <1>4, EndsVisible
<1>6. Machine!Performs(arch', pending'.sw, pending'.io, pending'.halts)
  <2> DEFINE io == pending'.io
             sw == pending'.sw
             h == pending'.halts
  <2>1. h = No
    BY <1>1, EndsInstruction
  <2> HIDE DEF io, sw, h
  <2>2. Machine!Performs(Programmer(c.ac, c.lk, arch.mq, Following, arch.mem), sw, io, h)
    BY <1>1, <2>1, PerformsGroup1
  <2> HIDE DEF c
  <2> QED
    BY <1>5, <2>2 DEF io, sw, h
<1> QED
  BY <1>1, <1>6, EndsInstruction

LEMMA EndsGroup2 ==
  ASSUME TypeOK, Handshake, ArchTyped, Doing, NEW i \in Inputs, Clock(i), Ends(i), Mic2 \/ Halt
  PROVE  Machine!Next
<1>1. /\ state \in {"MIC_2", "HALT"} /\ Group2(Instr) /\ Opcode(Instr) = 7 /\ Alike(Instr)
      /\ reg.mq = arch.mq /\ reg.lk = arch.lk /\ memory = arch.mem
  BY DEF Mic2, Halt, Go, Doing, Microinstructions, Halting
<1>2. memory' = memory
  BY <1>1, MemoryRests DEF WriteStates
<1>3. /\ reg'.ac = IF On(Instr, 7) THEN 0 ELSE arch.ac
      /\ reg'.pc = IF Skip(Instr, arch.ac, arch.lk) THEN Inc(Following) ELSE Following
      /\ reg'.lk = reg.lk /\ reg'.mq = reg.mq
  <2>1. CASE Mic2
    <3>1. /\ state = "MIC_2" /\ Kept /\ reg.ir = Instr /\ reg.pc = Following
      BY <2>1 DEF Mic2, Go, Doing, Microinstructions
    <3>2. /\ reg'.ac = Micro(Instr, arch.ac, arch.lk, heldLink).ac
          /\ reg'.pc = IF Skip(Instr, arch.ac, arch.lk) THEN Inc(Following) ELSE Following
          /\ reg'.lk = reg.lk /\ reg'.mq = reg.mq
      BY <2>1, <3>1 DEF Mic2, micro, TypeOK, ControlTypeOK, Registers
    <3> QED
      BY <1>1, <3>2, ClearedByPipeline DEF ArchTyped
  <2>2. CASE Halt
    BY <2>2 DEF Halt, Go, Doing, Halting
  <2> QED
    BY <2>1, <2>2
<1> DEFINE x == IF On(Instr, 7) THEN 0 ELSE arch.ac
           f == IF Skip(Instr, arch.ac, arch.lk) THEN Inc(Following) ELSE Following
           io == pending'.io
           sw == pending'.sw
           h == pending'.halts
           b == arch'
<1>4. b = Programmer(x, arch.lk, arch.mq, f, arch.mem)
  BY <1>1, <1>2, <1>3, EndsVisible
<1>5. x = Micro(Instr, arch.ac, arch.lk, heldLink).ac
  BY <1>1, ClearedByPipeline DEF ArchTyped
<1>6. h \in BOOLEAN /\ (h <=> On(Instr, 1))
  <2>1. CASE Mic2
    <3>1. state = "MIC_2" /\ ~On(Instr, 1)
      BY <2>1 DEF Mic2, Go, Ends, Doing, Microinstructions
    <3> QED
      BY <3>1 DEF Ends, Taking, Doing, Pending
  <2>2. CASE Halt
    <3>1. state = "HALT" /\ On(Instr, 1)
      BY <2>2 DEF Halt, Go, Doing, Halting
    <3> QED
      BY <3>1 DEF Ends, Taking
  <2> QED
    BY <2>1, <2>2
<1>7. event'.kind = "instruction" /\ event' = pending'
  BY <1>1 DEF Ends, Taking, Doing, Pending
<1> HIDE DEF x, io, sw, h, b
<1>8. Machine!Performs(b, sw, io, h)
  BY <1>1, <1>4, <1>5, <1>6, PerformsGroup2
<1>9. Machine!Performs(arch', event'.sw, event'.io, event'.halts)
  BY <1>7, <1>8 DEF b, sw, io, h
<1> QED
  BY <1>7, <1>9 DEF Machine!Next, Machine!Instruction, Machine!Happens

LEMMA EndsGroup3 ==
  ASSUME TypeOK, TypeOK', Handshake, EaeAnswers, Regular, ArchTyped, Doing,
         NEW i \in Inputs, Clock(i), Ends(i), Mic9
  PROVE  Machine!Next
<1>1. /\ state = "MIC_9" /\ Group3(Instr) /\ Opcode(Instr) = 7 /\ Alike(Instr) /\ reg.ir = Instr
      /\ reg.ac = LoadedAC /\ reg.mq = LoadedMQ /\ reg.lk = arch.lk /\ memory = arch.mem
      /\ reg.pc = IF On(Instr, 2) THEN Inc(Following) ELSE Following
      /\ On(Instr, 2) => reg.mb = At(arch.mem, Following)
  BY DEF Mic9, Go, Doing, Microinstructions
<1>2. memory' = memory
  BY <1>1, MemoryRests DEF WriteStates
<1> DEFINE x == reg'.ac
           y == reg'.lk
           z == reg'.mq
           n == At(arch.mem, Following)
           f == IF On(Instr, 2) THEN Inc(Following) ELSE Following
           io == pending'.io
           sw == pending'.sw
           h == pending'.halts
           b == arch'
<1>3. x \in Word /\ z \in Word /\ n \in Word
  BY OperandTyped, LocationTypes DEF TypeOK, ControlTypeOK, Registers, ArchTyped
<1>4. /\ reg'.pc = reg.pc
      /\ ~On(Instr, 2) => x = LoadedAC /\ y = arch.lk /\ z = LoadedMQ
      /\ On(Instr, 2) /\ ~On(Instr, 1) => x = eaeOut.acMul /\ z = eaeOut.mqMul /\ y = 0
      /\ On(Instr, 2) /\ On(Instr, 1) => x = eaeOut.acDvi /\ z = eaeOut.mqDvi /\ y = div.link
  BY <1>1 DEF Mic9, TypeOK, ControlTypeOK, Registers
<1>5. h = No /\ event' = pending' /\ event'.kind = "instruction"
  BY <1>1 DEF Ends, Taking, Doing, Pending, No
<1>6. b = Programmer(x, y, z, f, arch.mem)
  BY <1>1, <1>2, <1>4, EndsVisible
<1> HIDE DEF x, y, z, n, f, io, sw, h, b
<1>7. On(Instr, 2) /\ ~On(Instr, 1) => x * 4096 + z = LoadedMQ * n /\ y = 0
  BY <1>1, <1>4 DEF EaeAnswers, n
<1>8. On(Instr, 2) /\ On(Instr, 1) /\ LoadedAC < n
        => z * n + x = LoadedAC * 4096 + LoadedMQ /\ x < n /\ y = 0
  BY <1>1, <1>4 DEF EaeAnswers, Regular, n
<1>9. Machine!Performs(b, sw, io, h)
  BY <1>1, <1>3, <1>4, <1>5, <1>6, <1>7, <1>8, PerformsGroup3 DEF n, f
<1>10. Machine!Performs(arch', event'.sw, event'.io, event'.halts)
  BY <1>5, <1>9 DEF b, sw, io, h
<1> QED
  BY <1>5, <1>10 DEF Machine!Next, Machine!Instruction, Machine!Happens

\* What Doing lets a reset find is what the programmer's machine lets it find.
LEMMA LeavableAllowed ==
  ASSUME ArchTyped, pending.sw \in Word, NEW m \in Leavable(pending.during),
         event'.during = pending.during, event'.sw = pending.sw
  PROVE  m \in Machine!Interrupted
<1> DEFINE fetched == Machine!ToGolden([arch EXCEPT !.pc = Machine!next], 0)
           turned == Machine!Execute(Machine!ToGolden(arch, 0))
           addressed == Machine!EffAddCalc(Machine!ir, fetched)
           d == Machine!Deposited(arch, pending.sw)
<1>1. Machine!ir = Instr /\ Machine!next = Following
  BY GoldStarts
<1>2. fetched = Gold(arch.ac, arch.lk, Following, Switches(0))
  <2> DEFINE a == [arch EXCEPT !.pc = Machine!next]
  <2>1. a = Programmer(arch.ac, arch.lk, arch.mq, Following, arch.mem)
    BY <1>1, ArchLoads
  <2> HIDE DEF a
  <2>2. Machine!ToGolden(a, 0) = Gold(arch.ac, arch.lk, Following, Switches(0))
    BY <2>1 DEF Machine!ToGolden, Programmer, Gold, Full, No, Switches
  <2> QED
    BY <2>2 DEF a
<1> HIDE DEF fetched
<1>3. addressed.mem = Indexed
  <2>1. Following % 4096 = Following
    BY OperandTyped, CutWord
  <2>2. addressed = Full(arch.ac, arch.lk, Following, Switches(0).sw, Address, Switches(0).b, Indexed, No)
    BY <1>1, <1>2, <2>1, GoldAddress
  <2> QED
    BY <2>2, FullReads
<1>4. Opcode(Instr) <= 5 => turned.mem = Executed
  BY GoldStarts, GoldRefers
<1>5. d.mem = Put(arch.mem, arch.pc, pending.sw)
  <2>1. d = Programmer(arch.ac, arch.lk, arch.mq, Following, Put(arch.mem, arch.pc, pending.sw))
    BY Deposits
  <2> QED
    BY <2>1 DEF Programmer
<1>6. Machine!Opcode(Machine!ir) = Opcode(Instr)
  BY <1>1, SameOperators
<1>7. Machine!Interrupted =
        CASE event'.during = "deposit" -> {arch.mem, d.mem}
          [] event'.during = "instruction" /\ Opcode(Instr) <= 5 ->
               {arch.mem, addressed.mem, turned.mem}
          [] OTHER -> {arch.mem}
  BY <1>6 DEF Machine!Interrupted, fetched
<1> HIDE DEF addressed, turned, d
<1> QED
  BY <1>3, <1>4, <1>5, <1>7 DEF Leavable

LEMMA EndsReset ==
  ASSUME TypeOK, Handshake, ArchTyped, Doing, NEW i \in Inputs, Clock(i), Ends(i), RegInit
  PROVE  Machine!Next
<1>1. state = "REG_INIT"
  BY DEF RegInit, Go
<1>2. memory' \in Leavable(pending.during)
  <2>1. \/ memory' = memory
        \/ memState = "WRITE" /\ memory' = Put(memory, address, writeData)
    BY <1>1 DEF Clock, MemClock, MemIdle, MemRead, MemWrite, MemDone, WriteMemory, Put
  <2> QED
    BY <1>1, <2>1 DEF Doing, Resetting
<1>3. /\ event'.kind = "reset" /\ event'.during = pending.during /\ event'.sw = pending.sw
      /\ pending.sw \in Word
  BY <1>1 DEF Ends, Taking, Doing, Pending, PendingTyped, SwitchStates
<1>4. memory' \in Machine!Interrupted
  BY <1>2, <1>3, LeavableAllowed
<1>5. reg'.ac = 0 /\ reg'.lk = 0 /\ reg'.mq = 0 /\ reg'.pc = 0
  BY DEF RegInit
<1>6. arch' = [ac |-> 0, lk |-> 0, mq |-> 0, pc |-> 0, mem |-> memory']
  BY <1>5, EndsVisible DEF Programmer
<1>7. arch'.mem = memory'
  BY <1>6
<1> QED
  BY <1>3, <1>4, <1>6, <1>7 DEF Machine!Next, Machine!Reset, Machine!Happens

-----------------------------------------------------------------------------
\* The theorem.

LEMMA ClockImplements ==
  ASSUME TypeOK, TypeOK', Handshake, Answered, EaeAnswers, Regular, ArchTyped, Doing,
         NEW i \in Inputs, HClock(i)
  PROVE  /\ Doing' /\ ArchTyped' /\ [Machine!Next]_<<arch, event>>
         /\ state # "CPU_IDLE" /\ state' = "CPU_IDLE" => Machine!Next
<1>1. Clock(i) /\ Steady(i) /\ Controller(i)
  BY DEF HClock, Clock
<1>2. CASE state = "CPU_IDLE"
  <2>1. Begin /\ UNCHANGED <<arch, event>>
    BY <1>2 DEF HClock, Watch
  <2>2. CpuIdle(i)
    BY <1>1, <1>2, FirstStatesNamed
       DEF Controller, Console, Fetch, EffectiveAddress, MemoryReference, InputOutput, Microcoded,
           RegInit, SrChg1, SrChg2, LdPc1, LdAc1, Dep1, Dep2, Fetch1, Fetch2, Fetch3, DecodeHalt,
           Decode, Halt, CalEa1, EaInd1, EaInd2, EaAut1, EaAut2, EaAut3, EaAut4, EaAut5,
           And1, And2, And3, Tad1, Tad2, Tad3, Isz1, Isz2, Isz3, Isz4, Isz5, Isz6, Dca1, Dca2, Dca3,
           Jms1, Jms2, Jmp1, AddressOperand, ReadOperand, Iot1, Iot2, Iot3, Iot4, Iot5, Iot6,
           Mic1, Mic2, Mic3, Mic4, Mic5, Mic6, Mic7, Mic8, Mic9, Go, Await
  <2> QED
    BY <1>1, <1>2, <2>1, <2>2, Freezes, IdleDoes DEF ArchTyped
<1>3. CASE state # "CPU_IDLE"
  <2>1. Taking(i)
    BY <1>3, Takes DEF HClock, Watch, Doing, Pending
  <2>2. CASE state' # "CPU_IDLE"
    <3>1. arch' = arch /\ event' = event
      BY <1>3, <2>2 DEF HClock, Watch
    <3>2. Frozen
      BY <3>1, Freezes
    <3>3. ~CpuIdle(i) /\ ~LdPc1(i) /\ ~LdAc1(i) /\ ~And3 /\ ~Tad3 /\ ~Isz6 /\ ~Dca3 /\ ~Jmp1
          /\ ~Iot5 /\ ~Iot6 /\ ~Mic9 /\ ~Halt
      BY <1>3, <2>2 DEF CpuIdle, LdPc1, LdAc1, And3, Tad3, Isz6, Dca3, Jmp1, Iot5, Iot6, Mic9,
         Halt, Go
    <3>4. Doing'
      <4>1. CASE Console(i)
        BY <1>1, <2>1, <2>2, <3>2, <3>3, <4>1, PanelDoes, HeldDoes DEF Console
      <4>2. CASE Fetch
        BY <1>1, <2>1, <3>2, <3>3, <4>2, FetchDoes, DecodeDoes DEF Fetch
      <4>3. CASE EffectiveAddress
        BY <1>1, <2>1, <3>2, <4>3, AddressDoes, IndirectDoes, IndexDoes DEF EffectiveAddress
      <4>4. CASE MemoryReference
        BY <1>1, <2>1, <2>2, <3>2, <3>3, <4>4, OperandDoes, IszDoes, StoreDoes DEF MemoryReference
      <4>5. CASE InputOutput(i)
        BY <1>1, <2>1, <3>2, <3>3, <4>5, TransferDoes DEF InputOutput
      <4>6. CASE Microcoded
        BY <1>1, <2>1, <2>2, <3>2, <3>3, <4>6, MicrocodedDoes, Group3Does DEF Microcoded
      <4> QED
        BY <1>1, <4>1, <4>2, <4>3, <4>4, <4>5, <4>6 DEF Controller
    <3> QED
      BY <2>2, <3>1, <3>4 DEF ArchTyped
  <2>3. CASE state' = "CPU_IDLE"
    <3>1. Ends(i)
      BY <1>3, <2>1, <2>3 DEF HClock, Watch, Ends
    <3>2. Doing'
      BY <2>1, <2>3, <3>1, DoneDoes DEF Ends, Taking
    <3>3. ArchTyped'
      BY <3>1, EndsVisible
         DEF ArchTyped, Programmer, Contents, TypeOK, ControlTypeOK, Registers, MemTypeOK
    <3>4. ~CpuIdle(i) /\ ~SrChg1(i) /\ ~Dep1(i)
      BY <1>3, <2>3 DEF CpuIdle, SrChg1, Dep1, Go
    <3>5. Machine!Next
      <4>1. CASE Console(i)
        BY <1>1, <3>1, <3>4, <4>1, EndsReset, EndsExamine, EndsLoad, EndsDeposit DEF Console
      <4>2. CASE Fetch
        <5>1. Halt
          BY <2>3, <4>2, FirstStatesNamed DEF Fetch, Fetch1, Fetch2, Fetch3, DecodeHalt, Decode,
             Go, Await, TypeOK, ControlTypeOK
        <5> QED
          BY <1>1, <3>1, <5>1, EndsGroup2
      <4>3. CASE EffectiveAddress
        <5>1. state' # "CPU_IDLE"
          BY <4>3, FirstStatesNamed DEF EffectiveAddress, CalEa1, EaInd1, EaInd2, EaAut1, EaAut2,
             EaAut3, EaAut4, EaAut5, Go, Await, TypeOK, ControlTypeOK
        <5> QED
          BY <2>3, <5>1
      <4>4. CASE MemoryReference
        BY <1>1, <3>1, <4>4, EndsReference
      <4>5. CASE InputOutput(i)
        BY <1>1, <3>1, <4>5, EndsTransfer
      <4>6. CASE Microcoded
        <5>1. Mic1 \/ Mic2 \/ Mic9
          BY <2>3, <4>6 DEF Microcoded, Mic3, Mic4, Mic5, Mic6, Mic7, Mic8, ReadOperand, Go, Await
        <5> QED
          BY <1>1, <3>1, <5>1, EndsGroup1, EndsGroup2, EndsGroup3
      <4> QED
        BY <1>1, <4>1, <4>2, <4>3, <4>4, <4>5, <4>6 DEF Controller
    <3> QED
      BY <3>2, <3>3, <3>5
  <2> QED
    BY <2>2, <2>3
<1> QED
  BY <1>2, <1>3

LEMMA StepImplements ==
  ASSUME TypeOK, TypeOK', Handshake, Answered, EaeAnswers, Regular, ArchTyped, Doing,
         [HNext]_<<vars, historyVars>>
  PROVE  Doing' /\ ArchTyped' /\ [Machine!Next]_<<arch, event>>
<1>1. ASSUME NEW i \in Inputs, HClock(i)
      PROVE  Doing' /\ ArchTyped' /\ [Machine!Next]_<<arch, event>>
  BY <1>1, ClockImplements
<1>2. CASE HPressReset
  <2>1. arch' = arch /\ event' = event
    BY <1>2 DEF HPressReset, WatchReset
  <2> QED
    BY <1>2, <2>1, PressDoes DEF ArchTyped
<1>3. CASE HReleaseReset \/ UNCHANGED <<vars, historyVars>>
  <2>1. UNCHANGED <<cpuVars, memVars, historyVars>>
    BY <1>3 DEF HReleaseReset, ReleaseReset, vars
  <2>2. UNCHANGED <<state, instState, eaFlag, reg, address, writeData, memState, memory,
                    readLatch, arch, event, pending>>
    BY <2>1 DEF cpuVars, latches, ports, memVars, historyVars
  <2>3. Frozen
    BY <2>2, Freezes
  <2>4. Doing'
    BY <2>2, <2>3
       DEF Frozen, Storing, Leavable, PendingTyped, Doing, Pending, Beginning, Addresses,
       References, Transfers, Microinstructions, Halting, Resetting
  <2> QED
    BY <2>2, <2>4 DEF ArchTyped
<1> QED
  BY <1>1, <1>2, <1>3 DEF HNext

LEMMA InitImplements ==
  ASSUME HInit
  PROVE  Doing /\ ArchTyped /\ Machine!Init
<1>1. /\ reg \in Registers /\ memory \in Programs /\ reg \in PowerUpRegs
      /\ state = "CPU_IDLE" /\ arch = Visible /\ event = NoEvent /\ pending = NoEvent
  BY PowerUpAssumption DEF HInit, WatchInit, Init
<1>2. arch = Programmer(reg.ac, reg.lk, reg.mq, reg.pc, memory)
  BY <1>1 DEF Visible, Programmer
<1>3. ArchTyped
  BY <1>1, <1>2, ProgramsAssumption DEF ArchTyped, Programmer, Contents, Registers
<1>4. Doing
  BY <1>1, <1>2 DEF NoEvent, Word, PendingTyped, Programmer, Doing, Pending, Beginning, Addresses,
     References, Transfers, Microinstructions, Halting, Resetting
<1>5. Machine!Init
  BY <1>1 DEF Machine!Init, PowerUpStates, Visible, NoEvent
<1> QED
  BY <1>3, <1>4, <1>5

\* The history watches the machine; it holds back nothing but the devices.
LEMMA HistoryWatches == HSpec => Spec
<1>1. HInit => Init
  BY DEF HInit
<1>2. [HNext]_<<vars, historyVars>> => [Next]_vars
  BY DEF HNext, HClock, HPressReset, HReleaseReset, Next
<1> QED
  BY <1>1, <1>2, PTL DEF HSpec, Spec

\* As long as the machine meets no departure, every operation it completes,
\* and every reset, is a step of the programmer's machine.
THEOREM ProcessorImplements == HSpec /\ []Regular => ImplementsPDP8
<1>1. TypeOK /\ TypeOK' /\ Handshake /\ Answered /\ EaeAnswers /\ Regular
        /\ (Doing /\ ArchTyped) /\ [HNext]_<<vars, historyVars>>
      => (Doing /\ ArchTyped)' /\ [Machine!Next]_<<arch, event>>
  BY StepImplements
<1>2. HInit => Doing /\ ArchTyped /\ Machine!Init
  BY InitImplements
<1> QED
  BY <1>1, <1>2, HistoryWatches, TypeCorrect, HandshakeHolds, AnsweredHolds, EaeCorrect, PTL
     DEF HSpec, ImplementsPDP8, Machine!Spec

=============================================================================
