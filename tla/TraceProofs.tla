---------------------------- MODULE TraceProofs ----------------------------
(***************************************************************************)
(* The traces the testbenches write of the design are those the golden     *)
(* model writes, for every program, every state to start in and a reset at *)
(* any clock, as long as the machine meets no departure (Regular) and the  *)
(* run lamp stays lit through every instruction.                           *)
(*                                                                         *)
(* An invariant says for every state of the controller which lines are     *)
(* already written.  While memory is awaited the line appears with the     *)
(* answer, one clock before the controller goes on.  The refinement of     *)
(* CPURefinement says what the registers are when the operation ends.      *)
(***************************************************************************)
EXTENDS CPUTraces, CPURefinement, SequenceTheorems

\* The testbenches write nothing while the run lamp is out.  It is lit at every
\* edge of an instruction but that of HALT, which puts it out, and as long as
\* a skip is to be reported.  Of the panel's operations nothing is asked.
Lit ==
  state # "CPU_IDLE" /\ ((pending.kind = "instruction" /\ state # "HALT") \/ cond_skip_flag)
    => \/ \E i \in Inputs : i.run /\ TraceClock(i)
       \/ HPressReset \/ HReleaseReset

LampLit == [][Lit]_allVars

-----------------------------------------------------------------------------
\* The lines of the instruction under way, from the state it started in.

FetchLine == <<"IF", arch.pc, Instr, Instr>>
PointerRead == <<"DR", Pointer, Target, Target>>
PointerWrite == <<"DW", Pointer, Inc(Target), Inc(Target)>>
OperandRead == <<"DR", Effective, Operand, Operand>>
Written == CASE Opcode(Instr) = 2 -> Inc(Operand)
             [] Opcode(Instr) = 3 -> arch.ac
             [] OTHER -> Following
OperandWrite == <<"DW", Effective, Written, Written>>

Fetching == <<FetchLine>>
Pointing == Fetching \o <<PointerRead>>
Stepping == Pointing \o <<PointerWrite>>

\* When the effective address is known, and when the operand has been read.
Referring == IF ~On(Instr, 8) THEN Fetching
             ELSE IF AutoIndex(Pointer) THEN Stepping ELSE Pointing
Reading == Referring \o <<OperandRead>>

\* In a state that waits for memory, which answers with this line.
Awaiting(lines, line) == memory_trace = IF MemFinished THEN lines \o <<line>> ELSE lines

MemoryTraced ==
  /\ state = "FETCH_1" => memory_trace = <<>>
  /\ state = "FETCH_2" => Awaiting(<<>>, FetchLine)
  /\ state \in {"FETCH_3", "DECODE", "CAL_EA_1", "EA_IND_1", "EA_AUT_1", "MIC_1", "MIC_2", "HALT"}
       => memory_trace = Fetching
  /\ state \in {"EA_IND_2", "EA_AUT_2"} => Awaiting(Fetching, PointerRead)
  /\ state = "EA_AUT_3" => memory_trace = Pointing
  /\ state = "EA_AUT_4" => Awaiting(Pointing, PointerWrite)
  /\ state = "EA_AUT_5" => memory_trace = Stepping
  /\ state \in FirstRefs => memory_trace = Referring
  /\ state \in {"AND_2", "TAD_2", "ISZ_2"} => Awaiting(Referring, OperandRead)
  /\ state \in {"AND_3", "TAD_3", "ISZ_3", "ISZ_4"} => memory_trace = Reading
  /\ state = "ISZ_5" => Awaiting(Reading, OperandWrite)
  /\ state = "ISZ_6" => memory_trace = Reading \o <<OperandWrite>>
  /\ state \in {"DCA_2", "JMS_2"} => Awaiting(Referring, OperandWrite)
  /\ state = "DCA_3" => memory_trace = Referring \o <<OperandWrite>>

\* No skip waits to be reported but that of the ISZ or the group 2
\* instruction under way, or of one a reset has ended.
SkipStates == {"MIC_2", "ISZ_1"} \cup IszStates

\* The states of the instructions that are compared, but for HALT.
Underway == {"DECODE", "MIC_1", "MIC_2"} \cup FetchStates \cup AddressStates \cup FirstRefs \cup RefStates

BranchTraced ==
  /\ state \notin SkipStates \cup {"REG_INIT"} => cond_skip_flag = FALSE
  /\ state \in SkipStates => cond_skip_flag = TRUE /\ pc_temp = Following
  /\ state \in Underway \ {"JMS_2"} => branch_trace = <<>>
  /\ state = "JMS_2" => branch_trace = <<<<Following, Inc(Effective), "Subroutine", TRUE>>>>
  /\ state \in MicStates => Instr # HLT
  /\ state = "HALT" => reg.ir = Instr /\ (Instr = HLT => branch_trace = <<>>)

\* MB and the effective address stay until the instruction loads them.
OpcodeTraced ==
  /\ begun.mb \in Word /\ begun.ea \in Word
  /\ state \in FetchStates \cup {"DECODE", "MIC_1", "MIC_2", "CAL_EA_1"} =>
       reg.mb = begun.mb /\ reg.ea = begun.ea
  /\ state \in AddressStates \cup FirstRefs => reg.mb = begun.mb
  /\ state \in RefStates => reg.ea = Effective
  /\ state = "DCA_3" => reg.mb = arch.ac
  /\ state \in Underway => opcode_trace = <<>>
  /\ state = "HALT" /\ Instr = HLT =>
       opcode_trace = <<7, arch.ac, arch.lk, begun.mb, Following, begun.ea>>

-----------------------------------------------------------------------------
\* What an edge of the clock writes to the memory trace.

TraceLines ==
  /\ FetchLine' = FetchLine /\ PointerRead' = PointerRead /\ PointerWrite' = PointerWrite
  /\ OperandRead' = OperandRead /\ OperandWrite' = OperandWrite
  /\ Fetching' = Fetching /\ Pointing' = Pointing /\ Stepping' = Stepping
  /\ Referring' = Referring /\ Reading' = Reading

LEMMA LinesFreeze == ASSUME Frozen PROVE TraceLines
<1>1. /\ FetchLine' = FetchLine /\ PointerRead' = PointerRead /\ PointerWrite' = PointerWrite
      /\ OperandRead' = OperandRead /\ OperandWrite' = OperandWrite
  BY DEF Frozen, FetchLine, PointerRead, PointerWrite, OperandRead, OperandWrite, Written
<1>2. Fetching' = Fetching /\ Pointing' = Pointing /\ Stepping' = Stepping
  BY <1>1 DEF Fetching, Pointing, Stepping
<1>3. Referring' = Referring
  BY <1>2 DEF Frozen, Referring
<1> QED
  BY <1>1, <1>2, <1>3 DEF Reading, TraceLines

LEMMA LineOfRead ==
  ASSUME TypeOK, Handshake, NEW i \in Inputs, Clock(i), state \in ReadStates, memState' = "DONE",
         NEW w, w = At(memory, address)
  PROVE  MemoryLine = <<<<IF state = "FETCH_2" THEN "IF" ELSE "DR", address, w, w>>>>
<1>1. memState = "READ" /\ state \notin WriteStates
  BY DEF Handshake, TypeOK, MemTypeOK, MemStates, ReadStates, WriteStates, Clock, MemClock, MemIdle,
     MemRead, MemWrite, MemDone
<1>2. readLatch' = w /\ ReadMemory(address) = w
  BY <1>1 DEF Clock, MemClock, MemIdle, MemRead, MemWrite, MemDone, ReadData, ReadMemory, At
<1>3. MemoryLine = write_mem_trace(IF state = "FETCH_2" THEN 1 ELSE 0, address, w, w)
  BY <1>1, <1>2 DEF MemoryLine
<1>4. CASE state = "FETCH_2"
  BY <1>3, <1>4 DEF write_mem_trace
<1>5. CASE state # "FETCH_2"
  BY <1>3, <1>5 DEF write_mem_trace
<1> QED
  BY <1>4, <1>5

LEMMA LineOfWrite ==
  ASSUME TypeOK, Handshake, NEW i \in Inputs, Clock(i), state \in WriteStates, memState' = "DONE"
  PROVE  MemoryLine = <<<<"DW", address, writeData, writeData>>>>
<1>1. memState = "WRITE" /\ state \notin ReadStates
  BY DEF Handshake, TypeOK, MemTypeOK, MemStates, ReadStates, WriteStates, Clock, MemClock, MemIdle,
     MemRead, MemWrite, MemDone
<1>2. memory'[address] = writeData
  BY <1>1 DEF Clock, MemClock, MemIdle, MemRead, MemWrite, MemDone, WriteMemory
<1> QED
  BY <1>1, <1>2 DEF MemoryLine, write_mem_trace

LEMMA NothingWritten ==
  ASSUME TypeOK, Handshake, NEW i \in Inputs, Clock(i), Record(TRUE),
         state \notin WaitStates \cup {"REG_INIT", "CPU_IDLE"}
  PROVE  memory_trace' = memory_trace
BY MemoryIdles DEF Record, MemoryAnswers

\* In a state that waits, when `line' is what memory answers.
LEMMA LineWritten ==
  ASSUME TypeOK, NEW i \in Inputs, Clock(i), Record(TRUE),
         NEW lines, NEW line, Awaiting(lines, line),
         memState' = "DONE" => MemoryLine = <<line>>
  PROVE  /\ MemFinished => memory_trace' = lines \o <<line>>
         /\ ~MemFinished => memory_trace' = IF MemFinished' THEN lines \o <<line>> ELSE lines
<1>1. MemFinished => memState' # "DONE"
  BY MemoryTurnsIdle
<1> QED
  BY <1>1 DEF Record, MemoryAnswers, Awaiting, MemFinished

-----------------------------------------------------------------------------
\* The memory trace through the states of an instruction.

USE DEF PanelStates, FetchStates, FirstRefs, IndirectStates, AddressStates, AndStates,
        TadStates, IszStates, DcaStates, RefStates, IotStates, Mic3States, MicStates, Kept

LEMMA FetchTraced ==
  ASSUME TypeOK, Handshake, Answered, Doing, NEW i \in Inputs, Clock(i), Record(TRUE), Frozen,
         MemoryTraced, Fetch1 \/ Fetch2 \/ Fetch3 \/ Decode \/ DecodeHalt
  PROVE  MemoryTraced'
<1>0. TraceLines
  BY LinesFreeze
<1>1. CASE Fetch1 \/ Fetch3 \/ DecodeHalt
  <2>1. memory_trace' = memory_trace
    BY <1>1, NothingWritten DEF Fetch1, Fetch3, DecodeHalt, Go, WaitStates, ReadStates, WriteStates
  <2>2. \/ state = "FETCH_1" /\ state' = "FETCH_2" /\ memState' = "IDLE"
        \/ state = "FETCH_3" /\ state' = "DECODE"
        \/ state = "DECODE" /\ state' = "HALT"
    BY <1>1, MemoryIdles DEF Fetch1, Fetch3, DecodeHalt, Go, WaitStates, ReadStates, WriteStates
  <2> QED
    BY <1>0, <2>1, <2>2 DEF MemoryTraced, TraceLines, Awaiting, MemFinished
<1>2. CASE Decode
  <2>1. memory_trace' = memory_trace /\ memory_trace = Fetching
    BY <1>2, NothingWritten DEF Decode, Go, WaitStates, ReadStates, WriteStates, MemoryTraced
  <2>2. state' \in {"CAL_EA_1", "IOT_1", "MIC_1"}
    BY <1>2, FieldsAreWords, FirstOfReference DEF Decode, Go, TypeOK, ControlTypeOK, Registers
  <2> QED
    BY <1>0, <2>1, <2>2 DEF MemoryTraced, TraceLines
<1>3. CASE Fetch2
  <2>1. /\ state = "FETCH_2" /\ state' = IF MemFinished THEN "FETCH_3" ELSE "FETCH_2"
        /\ address = arch.pc /\ memory = arch.mem /\ Awaiting(<<>>, FetchLine)
    BY <1>3 DEF Fetch2, Await, Doing, Beginning, Answered, FetchedInOrder, MemoryTraced
  <2>2. memState' = "DONE" => MemoryLine = <<FetchLine>>
    BY <2>1, LineOfRead DEF ReadStates, FetchLine, Instr
  <2>3. <<>> \o <<FetchLine>> = Fetching
    BY DEF Fetching
  <2>4. /\ MemFinished => memory_trace' = Fetching
        /\ ~MemFinished => memory_trace' = IF MemFinished' THEN <<>> \o <<FetchLine>> ELSE <<>>
    BY <2>1, <2>2, <2>3, LineWritten
  <2> QED
    BY <1>0, <2>1, <2>4 DEF MemoryTraced, TraceLines, Awaiting
<1> QED
  BY <1>1, <1>2, <1>3

\* The states that compute an address where memory is idle.
LEMMA AddressTraced ==
  ASSUME TypeOK, Handshake, Answered, Doing, NEW i \in Inputs, Clock(i), Record(TRUE), Frozen,
         MemoryTraced, CalEa1 \/ EaInd1 \/ EaAut1 \/ EaAut3 \/ EaAut5, Opcode(Instr) \in 0 .. 7
  PROVE  MemoryTraced'
<1>0. TraceLines
  BY LinesFreeze
<1>1. memory_trace' = memory_trace /\ memState' = "IDLE"
  BY NothingWritten, MemoryIdles
     DEF CalEa1, EaInd1, EaAut1, EaAut3, EaAut5, Go, WaitStates, ReadStates, WriteStates
<1>2. CASE CalEa1
  <2>1. /\ state = "CAL_EA_1" /\ memory_trace = Fetching
        /\ state' = IF On(Instr, 8) THEN "EA_IND_1" ELSE FirstStates[Opcode(Instr) + 1]
    BY <1>2 DEF CalEa1, Go, Doing, Addresses, MemoryTraced
  <2>2. ~On(Instr, 8) => state' \in FirstRefs /\ Referring = Fetching
    BY <1>2, <2>1, FirstOfReference DEF CalEa1, Go, Doing, Addresses, Referring
  <2> QED
    BY <1>0, <1>1, <2>1, <2>2 DEF MemoryTraced, TraceLines
<1>3. CASE EaInd1 \/ EaAut1 \/ EaAut3
  <2>1. \/ state = "EA_IND_1" /\ state' \in {"EA_AUT_1", "EA_IND_2"}
        \/ state = "EA_AUT_1" /\ state' = "EA_AUT_2"
        \/ state = "EA_AUT_3" /\ state' = "EA_AUT_4"
    BY <1>3 DEF EaInd1, EaAut1, EaAut3, Go
  <2> QED
    BY <1>0, <1>1, <2>1 DEF MemoryTraced, TraceLines, Awaiting, MemFinished
<1>4. CASE EaAut5
  <2>1. /\ state = "EA_AUT_5" /\ memory_trace = Stepping
        /\ state' = FirstStates[Opcode(Instr) + 1] /\ Opcode(Instr) <= 5
    BY <1>4 DEF EaAut5, Go, Doing, Addresses, MemoryTraced
  <2>2. state' \in FirstRefs
    BY <2>1, FirstOfReference
  <2>3. Referring = Stepping
    BY <2>1 DEF Doing, Addresses, Referring
  <2> QED
    BY <1>0, <1>1, <2>1, <2>2, <2>3 DEF MemoryTraced, TraceLines
<1> QED
  BY <1>2, <1>3, <1>4

\* The states that read a pointer, and the one that writes it back stepped.
LEMMA PointerTraced ==
  ASSUME TypeOK, Handshake, Answered, Doing, NEW i \in Inputs, Clock(i), Record(TRUE), Frozen,
         MemoryTraced, EaInd2 \/ EaAut2 \/ EaAut4, Opcode(Instr) \in 0 .. 7
  PROVE  MemoryTraced'
<1>0. TraceLines
  BY LinesFreeze
<1>1. CASE EaInd2 \/ EaAut2
  <2>1. /\ state \in {"EA_IND_2", "EA_AUT_2"} /\ address = Pointer /\ memory = arch.mem
        /\ Awaiting(Fetching, PointerRead)
    BY <1>1 DEF EaInd2, EaAut2, Await, Doing, Addresses, MemoryTraced
  <2>2. memState' = "DONE" => MemoryLine = <<PointerRead>>
    BY <2>1, LineOfRead DEF ReadStates, PointerRead, Target
  <2>3. /\ MemFinished => memory_trace' = Pointing
        /\ ~MemFinished => memory_trace' = IF MemFinished' THEN Fetching \o <<PointerRead>> ELSE Fetching
    BY <2>1, <2>2, LineWritten DEF Pointing
  <2>4. state = "EA_AUT_2" => state' = IF MemFinished THEN "EA_AUT_3" ELSE "EA_AUT_2"
    BY <1>1 DEF EaInd2, EaAut2, Await
  <2>5. state = "EA_IND_2" =>
          /\ Referring = Pointing
          /\ MemFinished => state' \in FirstRefs
          /\ ~MemFinished => state' = "EA_IND_2"
    BY <1>1, FirstOfReference DEF EaInd2, EaAut2, Await, Doing, Addresses, Referring
  <2> QED
    BY <1>0, <2>1, <2>3, <2>4, <2>5 DEF MemoryTraced, TraceLines, Awaiting
<1>2. CASE EaAut4
  <2>1. /\ state = "EA_AUT_4" /\ address = Pointer /\ writeData = Inc(Target)
        /\ Awaiting(Pointing, PointerWrite)
        /\ state' = IF MemFinished THEN "EA_AUT_5" ELSE "EA_AUT_4"
    BY <1>2 DEF EaAut4, Await, Doing, Addresses, MemoryTraced
  <2>2. memState' = "DONE" => MemoryLine = <<PointerWrite>>
    BY <2>1, LineOfWrite DEF WriteStates, PointerWrite
  <2>3. /\ MemFinished => memory_trace' = Stepping
        /\ ~MemFinished => memory_trace' = IF MemFinished' THEN Pointing \o <<PointerWrite>> ELSE Pointing
    BY <2>1, <2>2, LineWritten DEF Stepping
  <2> QED
    BY <1>0, <2>1, <2>3 DEF MemoryTraced, TraceLines, Awaiting
<1> QED
  BY <1>1, <1>2

\* The states of the memory reference instructions where memory is idle.
LEMMA ReferenceTraced ==
  ASSUME TypeOK, Handshake, Answered, Doing, NEW i \in Inputs, Clock(i), Record(TRUE), Frozen,
         MemoryTraced, And1 \/ Tad1 \/ Isz1 \/ Isz3 \/ Isz4 \/ Dca1 \/ Jms1
  PROVE  MemoryTraced'
<1>0. TraceLines
  BY LinesFreeze
<1>1. memory_trace' = memory_trace /\ memState' = "IDLE"
  BY NothingWritten, MemoryIdles
     DEF And1, Tad1, Isz1, AddressOperand, Isz3, Isz4, Dca1, Jms1, Go, WaitStates, ReadStates,
         WriteStates
<1>2. \/ state = "AND_1" /\ state' = "AND_2"
      \/ state = "TAD_1" /\ state' = "TAD_2"
      \/ state = "ISZ_1" /\ state' = "ISZ_2"
      \/ state = "ISZ_3" /\ state' = "ISZ_4"
      \/ state = "ISZ_4" /\ state' = "ISZ_5"
      \/ state = "DCA_1" /\ state' = "DCA_2"
      \/ state = "JMS_1" /\ state' = "JMS_2"
  BY DEF And1, Tad1, Isz1, AddressOperand, Isz3, Isz4, Dca1, Jms1, Go
<1> QED
  BY <1>0, <1>1, <1>2 DEF MemoryTraced, TraceLines, Awaiting, MemFinished

\* The states that read the operand, and those that write.
LEMMA OperandTraced ==
  ASSUME TypeOK, Handshake, Answered, Doing, NEW i \in Inputs, Clock(i), Record(TRUE), Frozen,
         MemoryTraced, And2 \/ Tad2 \/ Isz2 \/ Isz5 \/ Dca2 \/ Jms2, state' # "CPU_IDLE"
  PROVE  MemoryTraced'
<1>0. TraceLines
  BY LinesFreeze
<1>1. CASE And2 \/ Tad2 \/ Isz2
  <2>1. /\ state \in {"AND_2", "TAD_2", "ISZ_2"} /\ address = Effective /\ memory = Indexed
        /\ Awaiting(Referring, OperandRead)
    BY <1>1 DEF And2, Tad2, Isz2, ReadOperand, Await, Doing, References, MemoryTraced
  <2>2. memState' = "DONE" => MemoryLine = <<OperandRead>>
    BY <2>1, LineOfRead DEF ReadStates, OperandRead, Operand
  <2>3. /\ MemFinished => memory_trace' = Reading
        /\ ~MemFinished => memory_trace' = IF MemFinished' THEN Referring \o <<OperandRead>> ELSE Referring
    BY <2>1, <2>2, LineWritten DEF Reading
  <2>4. \/ state = "AND_2" /\ state' = IF MemFinished THEN "AND_3" ELSE "AND_2"
        \/ state = "TAD_2" /\ state' = IF MemFinished THEN "TAD_3" ELSE "TAD_2"
        \/ state = "ISZ_2" /\ state' = IF MemFinished THEN "ISZ_3" ELSE "ISZ_2"
    BY <1>1 DEF And2, Tad2, Isz2, ReadOperand, Await
  <2> QED
    BY <1>0, <2>1, <2>3, <2>4 DEF MemoryTraced, TraceLines, Awaiting
<1>2. CASE Isz5 \/ Dca2 \/ Jms2
  <2> DEFINE lines == IF state = "ISZ_5" THEN Reading ELSE Referring
  <2>1. /\ state \in {"ISZ_5", "DCA_2", "JMS_2"} /\ address = Effective /\ writeData = Written
        /\ Awaiting(lines, OperandWrite)
    BY <1>2 DEF Isz5, Dca2, Jms2, Await, Doing, References, MemoryTraced, Written
  <2>2. memState' = "DONE" => MemoryLine = <<OperandWrite>>
    BY <2>1, LineOfWrite DEF WriteStates, OperandWrite
  <2>3. /\ MemFinished => memory_trace' = lines \o <<OperandWrite>>
        /\ ~MemFinished => memory_trace' = IF MemFinished' THEN lines \o <<OperandWrite>> ELSE lines
    <3> HIDE DEF lines
    <3> QED
      BY <2>1, <2>2, LineWritten
  <2>4. \/ state = "ISZ_5" /\ state' = IF MemFinished THEN "ISZ_6" ELSE "ISZ_5"
        \/ state = "DCA_2" /\ state' = IF MemFinished THEN "DCA_3" ELSE "DCA_2"
        \/ state = "JMS_2" /\ state' = "JMS_2" /\ ~MemFinished
    BY <1>2 DEF Isz5, Dca2, Jms2, Await
  <2> QED
    BY <1>0, <2>1, <2>3, <2>4 DEF MemoryTraced, TraceLines, Awaiting
<1> QED
  BY <1>1, <1>2

\* The states that use no memory, and those of the front panel.
LEMMA OtherTraced ==
  ASSUME TypeOK, Handshake, NEW i \in Inputs, Clock(i), Record(TRUE), Frozen, MemoryTraced,
         Console(i) \/ InputOutput(i) \/ Microcoded, state # "CPU_IDLE", state' # "CPU_IDLE"
  PROVE  MemoryTraced'
<1>0. TraceLines
  BY LinesFreeze
<1>1. CASE state' \in {"MIC_2", "HALT"}
  <2>1. state \in {"MIC_1", "MIC_2"}
    BY <1>1 DEF Console, RegInit, CpuIdle, SrChg1, SrChg2, LdPc1, LdAc1, Dep1, Dep2,
       InputOutput, Iot1, Iot2, Iot3, Iot4, Iot5, Iot6,
       Microcoded, Mic1, Mic2, Mic3, Mic4, Mic5, Mic6, Mic7, Mic8, Mic9, ReadOperand, Go, Await
  <2>2. memory_trace' = memory_trace
    BY <2>1, NothingWritten DEF WaitStates, ReadStates, WriteStates
  <2> QED
    BY <1>0, <1>1, <2>1, <2>2 DEF MemoryTraced, TraceLines
<1>2. CASE state' \notin {"MIC_2", "HALT"}
  <2>1. state' \in {"REG_INIT"} \cup PanelStates \cup IotStates \cup Mic3States
    BY <1>2 DEF Console, RegInit, CpuIdle, SrChg1, SrChg2, LdPc1, LdAc1, Dep1, Dep2,
       InputOutput, Iot1, Iot2, Iot3, Iot4, Iot5, Iot6,
       Microcoded, Mic1, Mic2, Mic3, Mic4, Mic5, Mic6, Mic7, Mic8, Mic9, ReadOperand, Go, Await
  <2> QED
    BY <2>1 DEF MemoryTraced
<1> QED
  BY <1>1, <1>2

-----------------------------------------------------------------------------
\* The golden model's memory trace.

\* The lines of the design's trace when the instruction ends.
Shown == CASE Opcode(Instr) = 7 -> Fetching
           [] Opcode(Instr) = 5 -> Referring
           [] Opcode(Instr) \in {0, 1} -> Reading
           [] Opcode(Instr) = 2 -> Reading \o <<OperandWrite>>
           [] OTHER -> Referring \o <<OperandWrite>>

LEMMA TwoLines ==
  ASSUME NEW r, NEW w
  PROVE  Append(<<r>>, w) = <<r>> \o <<w>> /\ <<r, w>> = <<r>> \o <<w>>
<1> DEFINE S == {r, w}
           a == Append(<<r>>, w)
<1>1. <<r>> \in Seq(S) /\ <<w>> \in Seq(S) /\ <<r, w>> \in Seq(S)
  OBVIOUS
<1>2. a = <<r>> \o <<w>>
  BY <1>1, AppendIsConcat
<1>3. a \in Seq(S) /\ Len(a) = 2 /\ a[1] = r /\ a[2] = w
  <2>1. Len(<<r>>) = 1 /\ <<r>>[1] = r
    OBVIOUS
  <2> QED
    BY <1>1, <2>1, AppendProperties
<1>4. a = <<r, w>>
  <2>1. Len(<<r, w>>) = 2 /\ <<r, w>>[1] = r /\ <<r, w>>[2] = w
    OBVIOUS
  <2>2. \A k \in 1 .. Len(a) : a[k] = <<r, w>>[k]
    BY <1>3, <2>1
  <2> HIDE DEF a, S
  <2> QED
    BY <1>1, <1>3, <2>1, <2>2, SeqEqual
<1> QED
  BY <1>2, <1>4

\* How the golden model puts the lines together, and how the design does.
PointerPart == IF ~On(Instr, 8) THEN <<>>
               ELSE IF AutoIndex(Pointer) THEN <<PointerRead>> \o <<PointerWrite>> ELSE <<PointerRead>>
OperandPart == CASE Opcode(Instr) \in {0, 1} -> <<OperandRead>>
                 [] Opcode(Instr) = 2 -> <<OperandRead>> \o <<OperandWrite>>
                 [] Opcode(Instr) \in {3, 4} -> <<OperandWrite>>
                 [] OTHER -> <<>>

LEMMA LinesJoin ==
  ASSUME Opcode(Instr) \in 0 .. 5
  PROVE  Fetching \o (PointerPart \o OperandPart) = Shown
<1> DEFINE S == {FetchLine, PointerRead, PointerWrite, OperandRead, OperandWrite}
<1>1. /\ Fetching \in Seq(S) /\ <<>> \in Seq(S) /\ <<PointerRead>> \in Seq(S)
      /\ <<PointerWrite>> \in Seq(S) /\ <<OperandRead>> \in Seq(S) /\ <<OperandWrite>> \in Seq(S)
  BY DEF Fetching
<1> HIDE DEF S
<1>2. <<PointerRead>> \o <<PointerWrite>> \in Seq(S) /\ <<OperandRead>> \o <<OperandWrite>> \in Seq(S)
  BY <1>1, ConcatProperties
<1>3. PointerPart \in Seq(S) /\ OperandPart \in Seq(S)
  BY <1>1, <1>2 DEF PointerPart, OperandPart
<1>4. Fetching \o (PointerPart \o OperandPart) = (Fetching \o PointerPart) \o OperandPart
  BY <1>1, <1>3, ConcatAssociative, SMTT(30)
<1>5. Fetching \o PointerPart = Referring
  <2>1. Fetching \o <<>> = Fetching
    BY <1>1, ConcatEmptySeq
  <2>2. Fetching \o (<<PointerRead>> \o <<PointerWrite>>) = Stepping
    BY <1>1, ConcatAssociative DEF Stepping, Pointing
  <2> QED
    BY <2>1, <2>2 DEF PointerPart, Referring, Pointing
<1>6. Referring \in Seq(S)
  BY <1>1, <1>3, <1>5, ConcatProperties
<1>7. Referring \o OperandPart = Shown
  <2>1. Referring \o <<>> = Referring
    BY <1>6, ConcatEmptySeq
  <2>2. Referring \o (<<OperandRead>> \o <<OperandWrite>>) = Reading \o <<OperandWrite>>
    BY <1>1, <1>6, ConcatAssociative DEF Reading
  <2>3. CASE Opcode(Instr) \in {0, 1}
    BY <2>3 DEF OperandPart, Shown, Reading
  <2>4. CASE Opcode(Instr) = 2
    BY <2>2, <2>4 DEF OperandPart, Shown
  <2>5. CASE Opcode(Instr) \in {3, 4}
    BY <2>5 DEF OperandPart, Shown
  <2>6. CASE Opcode(Instr) = 5
    BY <2>1, <2>6 DEF OperandPart, Shown
  <2> QED
    BY <2>3, <2>4, <2>5, <2>6
<1> QED
  BY <1>4, <1>5, <1>7

\* The words the golden model cuts.
LEMMA CutWords ==
  ASSUME NEW w \in Word
  PROVE  /\ Machine!Cut(w) = w /\ Machine!Cut(Machine!Cut(w)) = Machine!Cut(w)
         /\ Machine!Cut(w + 1) = Inc(w) /\ Machine!Cut(Inc(w)) = Inc(w)
BY CutWord, FieldsAreWords, SameOperators DEF Machine!Cut

\* The instruction fetched, and its effective address computed.
LEMMA GoldFetches ==
  ASSUME ArchTyped, NEW rest
  PROVE  LET f == Machine!Fetched(Start(rest))
         IN  /\ f = Gold(arch.ac, arch.lk, arch.pc + 1, rest)
             /\ Machine!EffAddCalc(Instr, f)
                  = Full(arch.ac, arch.lk, arch.pc + 1, rest.sw, Address, rest.b, Indexed, No)
             /\ Machine!GetAddress(Instr, f) = Pointer
             /\ Machine!Cut(f.pc) = Following /\ Machine!Cut(f.pc + 1) = Inc(Following)
<1> DEFINE a == arch.ac
           l == arch.lk
           p == arch.pc + 1
           g == Start(rest)
           f == Gold(a, l, p, rest)
<1>1. Machine!Short(p) = p /\ p % 4096 = Following /\ g.pc = arch.pc /\ f.pc = p
  BY GoldStarts, GoldReads DEF Start
<1>2. Machine!Fetched(g) = [g EXCEPT !.pc = p]
  BY <1>1 DEF Machine!Fetched
<1>3. [g EXCEPT !.pc = p] = f
  <2> HIDE DEF p
  <2> QED
    BY DEF Start, Gold, Full
<1>4. Machine!EffAddCalc(Instr, f) = Full(a, l, p, rest.sw, Address, rest.b, Indexed, No)
  BY <1>1, GoldAddress
<1>5. Machine!GetAddress(Instr, f) = Pointer
  BY <1>1, SameOperators DEF Machine!GetAddress, Machine!CurrentPage, Machine!Cut, Pointer
<1>6. Machine!Cut(p) = Following /\ Machine!Cut(p + 1) = Inc(Following)
  <2>1. \A n \in Word : (n + 1 + 1) % 4096 = Inc(Inc(n))
    BY SMT DEF Word, Inc
  <2> QED
    BY <1>1, <2>1 DEF Machine!Cut, ArchTyped, Following
<1> QED
  BY <1>1, <1>2, <1>3, <1>4, <1>5, <1>6

LEMMA GoldPoints ==
  ASSUME ArchTyped, NEW f, f.mem = arch.mem, Machine!GetAddress(Instr, f) = Pointer
  PROVE  Machine!PointerLines(Instr, f) = PointerPart
<1>1. Pointer \in Word /\ Target \in Word
  BY OperandTyped
<1>2. Machine!Cut(Pointer) = Pointer /\ Machine!MemRead(f.mem, Pointer) = Target
  BY <1>1, CutWords, SameMemory DEF Target, Machine!Cut
<1>3. Machine!ReadLine("DR", f, Pointer) = PointerRead
  BY <1>2 DEF Machine!ReadLine, PointerRead
<1>4. Machine!WriteLine(Pointer, Target + 1) = PointerWrite
  BY <1>1, <1>2, CutWords DEF Machine!WriteLine, PointerWrite
<1>5. Pointer \in 8 .. 15 <=> AutoIndex(Pointer)
  BY <1>1, SMT DEF Word, AutoIndex
<1>6. Append(<<PointerRead>>, PointerWrite) = <<PointerRead>> \o <<PointerWrite>>
  BY TwoLines
<1>7. Machine!PointerLines(Instr, f)
        = IF ~On(Instr, 8) THEN <<>>
          ELSE IF Pointer \in 8 .. 15 THEN Append(<<PointerRead>>, PointerWrite) ELSE <<PointerRead>>
  BY <1>2, <1>3, <1>4, SameOperators DEF Machine!PointerLines
<1> QED
  BY <1>5, <1>6, <1>7 DEF PointerPart

LEMMA GoldHandles ==
  ASSUME ArchTyped, Opcode(Instr) \in 0 .. 5, NEW sw, NEW b,
         NEW s, s = Full(arch.ac, arch.lk, arch.pc + 1, sw, Address, b, Indexed, No)
  PROVE  /\ Machine!OperandLines(Instr, s) = OperandPart
         /\ Machine!ISZ(s).mb = Inc(Operand)
<1> DEFINE p == arch.pc + 1
           y == Machine!Cut(Operand + 1)
<1>1. /\ s.ac = arch.ac /\ s.pc = p /\ s.cpma = Address /\ s.mem = Indexed
  BY FullReads
<1>2. /\ Address % 4096 = Effective /\ Operand \in Word /\ arch.ac \in Word
      /\ p % 4096 = Following
  BY AddressCut, OperandTyped, GoldStarts DEF ArchTyped
<1>3. Machine!MemRead(Indexed, Address) = Operand
  BY <1>2, SameMemory DEF Operand
<1>4. Machine!ISZ(s).mb = Inc(Operand)
  <2> DEFINE a == arch.ac
             l == arch.lk
             q == SkippedPC(y, p)
             m == Machine!MemWrite(Indexed, Address, y)
  <2>1. Machine!ISZ(s) = Full(a, l, q, sw, Address, y, m, No)
    BY <1>3, GoldReferences
  <2>2. y = Inc(Operand)
    BY <1>2, CutWords
  <2> HIDE DEF a, l, q, m, y
  <2> QED
    BY <2>1, <2>2, FullReads
<1>5. Machine!ReadLine("DR", s, Address) = OperandRead
  BY <1>1, <1>2, <1>3 DEF Machine!ReadLine, OperandRead, Machine!Cut
<1>6. /\ Machine!WriteLine(Address, Inc(Operand)) = <<"DW", Effective, Inc(Operand), Inc(Operand)>>
      /\ Machine!WriteLine(Address, arch.ac) = <<"DW", Effective, arch.ac, arch.ac>>
      /\ Machine!WriteLine(Address, p) = <<"DW", Effective, Following, Following>>
  <2>1. /\ Machine!Cut(Address) = Effective /\ Machine!Cut(Inc(Operand)) = Inc(Operand)
        /\ Machine!Cut(arch.ac) = arch.ac /\ Machine!Cut(p) = Following
    BY <1>2, CutWords DEF Machine!Cut
  <2> QED
    BY <2>1 DEF Machine!WriteLine
<1> DEFINE w2 == Machine!WriteLine(Address, Inc(Operand))
           w3 == Machine!WriteLine(Address, arch.ac)
           w4 == Machine!WriteLine(Address, p)
           o == Machine!OperandLines(Instr, s)
<1>7. /\ Opcode(Instr) = 2 => w2 = OperandWrite
      /\ Opcode(Instr) = 3 => w3 = OperandWrite
      /\ Opcode(Instr) = 4 => w4 = OperandWrite
  BY <1>6 DEF OperandWrite, Written
<1>8. o = CASE Opcode(Instr) \in {0, 1} -> <<OperandRead>>
            [] Opcode(Instr) = 2 -> <<OperandRead, w2>>
            [] Opcode(Instr) = 3 -> <<w3>>
            [] Opcode(Instr) = 4 -> <<w4>>
            [] OTHER -> <<>>
  BY <1>1, <1>4, <1>5, SameOperators DEF Machine!OperandLines
<1> HIDE DEF w2, w3, w4, o
<1>9. o = OperandPart
  <2>1. CASE Opcode(Instr) \in {0, 1}
    BY <1>8, <2>1 DEF OperandPart
  <2>2. CASE Opcode(Instr) = 2
    BY <1>7, <1>8, <2>2, TwoLines DEF OperandPart
  <2>3. CASE Opcode(Instr) = 3
    BY <1>7, <1>8, <2>3 DEF OperandPart
  <2>4. CASE Opcode(Instr) = 4
    BY <1>7, <1>8, <2>4 DEF OperandPart
  <2>5. CASE Opcode(Instr) = 5
    BY <1>8, <2>5 DEF OperandPart
  <2> QED
    BY <2>1, <2>2, <2>3, <2>4, <2>5
<1> QED
  BY <1>4, <1>9 DEF o

LEMMA GoldMemoryTrace ==
  ASSUME ArchTyped, Opcode(Instr) # 6, NEW rest
  PROVE  Machine!MemoryTrace(Start(rest)) = Shown
<1> DEFINE g == Start(rest)
           f == Machine!Fetched(g)
           s == Machine!EffAddCalc(Instr, f)
           t == Machine!MemoryTrace(g)
<1>1. Machine!CurrentInstruction(g) = Instr /\ g.pc = arch.pc /\ g.mem = arch.mem
  BY GoldStarts, GoldReads DEF Start
<1>2. Machine!ReadLine("IF", g, g.pc) = FetchLine
  <2>1. Machine!Cut(arch.pc) = arch.pc /\ Machine!MemRead(arch.mem, arch.pc) = Instr
    BY CutWords, SameMemory DEF ArchTyped, Instr, Machine!Cut
  <2> QED
    BY <1>1, <2>1 DEF Machine!ReadLine, FetchLine
<1>3. t = <<FetchLine>> \o IF Opcode(Instr) = 7 THEN <<>>
                            ELSE Machine!PointerLines(Instr, f) \o Machine!OperandLines(Instr, s)
  <2> HIDE DEF g
  <2> QED
    BY <1>1, <1>2, SameOperators DEF Machine!MemoryTrace
<1> HIDE DEF g, t
<1>4. CASE Opcode(Instr) = 7
  <2>1. <<FetchLine>> \o <<>> = <<FetchLine>>
    OBVIOUS
  <2> QED
    BY <1>3, <1>4, <2>1 DEF Shown, Fetching, t, g
<1>5. CASE Opcode(Instr) # 7
  <2>1. Opcode(Instr) \in 0 .. 5
    BY <1>5, OperandTyped, FieldsAreWords
  <2>2. Machine!PointerLines(Instr, f) = PointerPart
    <3>1. f.mem = arch.mem
      BY GoldFetches, GoldReads DEF g
    <3> QED
      BY <3>1, GoldFetches, GoldPoints DEF g
  <2>3. Machine!OperandLines(Instr, s) = OperandPart
    BY <2>1, GoldFetches, GoldHandles DEF g
  <2>4. t = <<FetchLine>> \o (PointerPart \o OperandPart)
    BY <1>3, <1>5, <2>2, <2>3
  <2> QED
    BY <2>1, <2>4, LinesJoin DEF Fetching, t, g
<1> QED
  BY <1>4, <1>5

-----------------------------------------------------------------------------
\* The last clock of an instruction.

LastStates == {"AND_3", "TAD_3", "ISZ_6", "DCA_3", "JMS_2", "JMP_1", "MIC_1", "MIC_2", "HALT"}

LEMMA EndsIn ==
  ASSUME TypeOK, Doing, NEW i \in Inputs, Clock(i), pending.kind = "instruction",
         state # "CPU_IDLE", state' = "CPU_IDLE", Opcode(reg.ir) # 6,
         Opcode(reg.ir) = 7 => ~Group3(reg.ir)
  PROVE  /\ state \in LastStates
         /\ state = "ISZ_6" => Isz6
         /\ state = "JMS_2" => Jms2 /\ MemFinished
         /\ state = "MIC_1" => Mic1 /\ Group1(Instr)
         /\ state = "MIC_2" => Mic2 /\ ~On(Instr, 1)
<1>1. Controller(i) /\ state \notin {"REG_INIT"} \cup PanelStates
  BY DEF Clock, Doing, Pending
<1>2. CASE Console(i)
  BY <1>1, <1>2 DEF Console, RegInit, CpuIdle, SrChg1, SrChg2, LdPc1, LdAc1, Dep1, Dep2, Go, Await
<1>3. CASE Fetch
  <2>1. Halt
    BY <1>3, FirstStatesNamed, FieldsAreWords
       DEF Fetch, Fetch1, Fetch2, Fetch3, DecodeHalt, Decode, Go, Await, TypeOK, ControlTypeOK, Registers
  <2> QED
    BY <2>1 DEF Halt, Go, LastStates
<1>4. CASE EffectiveAddress
  BY <1>4, FirstStatesNamed
     DEF EffectiveAddress, CalEa1, EaInd1, EaInd2, EaAut1, EaAut2, EaAut3, EaAut4, EaAut5, Go,
         Await, TypeOK, ControlTypeOK
<1>5. CASE MemoryReference
  <2>1. And3 \/ Tad3 \/ Isz6 \/ Dca3 \/ Jms2 \/ Jmp1
    BY <1>5 DEF MemoryReference, And1, And2, Tad1, Tad2, Isz1, Isz2, Isz3, Isz4, Isz5, Dca1, Dca2,
       Jms1, AddressOperand, ReadOperand, Go, Await
  <2> QED
    BY <2>1 DEF And3, Tad3, Isz6, Dca3, Jms2, Jmp1, Go, Await, LastStates
<1>6. CASE InputOutput(i)
  <2>1. state \in IotStates
    BY <1>6 DEF InputOutput, Iot1, Iot2, Iot3, Iot4, Iot5, Iot6, Go
  <2> QED
    BY <2>1 DEF Doing, Transfers
<1>7. CASE Microcoded
  <2>1. Mic1 \/ Mic2 \/ Mic9
    BY <1>7 DEF Microcoded, Mic3, Mic4, Mic5, Mic6, Mic7, Mic8, ReadOperand, Go, Await
  <2>2. state = "MIC_9" => Group3(reg.ir)
    BY DEF Doing, Microinstructions
  <2> QED
    BY <2>1, <2>2 DEF Mic1, Mic2, Mic9, Go, LastStates, Doing, Microinstructions
<1> QED
  BY <1>1, <1>2, <1>3, <1>4, <1>5, <1>6, <1>7 DEF Controller

LEMMA EndsTraced ==
  ASSUME TypeOK, Handshake, ArchTyped, Doing, NEW i \in Inputs, Clock(i), Record(TRUE), MemoryTraced,
         pending.kind = "instruction", state # "CPU_IDLE", state' = "CPU_IDLE",
         Opcode(reg.ir) # 6,
         Opcode(reg.ir) = 7 => ~Group3(reg.ir)
  PROVE  Opcode(Instr) # 6 /\ memory_trace' = Shown
<1>1. state \in LastStates /\ (state = "JMS_2" => MemFinished)
  BY EndsIn
<1>2. CASE state = "JMS_2"
  <2>1. Opcode(Instr) = 4 /\ Awaiting(Referring, OperandWrite)
    BY <1>2 DEF Doing, References, MemoryTraced
  <2>2. memState' = "IDLE"
    BY <1>1, <1>2, MemoryTurnsIdle
  <2> QED
    BY <1>1, <1>2, <2>1, <2>2 DEF Awaiting, Shown, Record, MemoryAnswers
<1>3. CASE state # "JMS_2"
  <2>1. memory_trace' = memory_trace
    BY <1>1, <1>3, NothingWritten DEF LastStates, WaitStates, ReadStates, WriteStates
  <2>2. CASE state \in {"AND_3", "TAD_3"}
    BY <2>1, <2>2 DEF Doing, References, MemoryTraced, Shown
  <2>3. CASE state = "ISZ_6"
    BY <2>1, <2>3 DEF Doing, References, MemoryTraced, Shown
  <2>4. CASE state = "DCA_3"
    BY <2>1, <2>4 DEF Doing, References, MemoryTraced, Shown
  <2>5. CASE state = "JMP_1"
    <3>1. Opcode(Instr) = 5
      BY <2>5, FirstOfReference, OperandTyped, FieldsAreWords DEF Doing, Addresses
    <3> QED
      BY <2>1, <2>5, <3>1 DEF MemoryTraced, Shown
  <2>6. CASE state \in {"MIC_1", "MIC_2", "HALT"}
    BY <2>1, <2>6 DEF Doing, Microinstructions, Halting, MemoryTraced, Shown
  <2> QED
    BY <1>1, <1>3, <2>2, <2>3, <2>4, <2>5, <2>6 DEF LastStates
<1> QED
  BY <1>2, <1>3

-----------------------------------------------------------------------------
\* Every step.

\* What the proofs below know of a state and of a step, besides the traces.
Situation == TypeOK /\ Handshake /\ Answered /\ EaeAnswers /\ Regular /\ ArchTyped /\ Doing
Known == Situation /\ Situation' /\ [Lit]_allVars /\ [TraceNext]_allVars

\* The edge of the clock that begins an operation, one during an instruction,
\* and one during an operation of the panel or a reset.
Begins(i) == HClock(i) /\ state = "CPU_IDLE" /\ CpuIdle(i) /\ NewTraces
Goes(i) == HClock(i) /\ state # "CPU_IDLE" /\ Record(TRUE) /\ Taking(i)
Works(i) == /\ HClock(i) /\ state # "CPU_IDLE" /\ Record(i.run) /\ Taking(i)
            /\ pending.kind # "instruction" /\ ~cond_skip_flag

\* A reset, and nothing that the traces are about.
Resets == state' = "REG_INIT" /\ arch' = arch /\ UNCHANGED traceVars
Rests == UNCHANGED <<state, reg, memState, arch, traceVars>>

LEMMA AlwaysKnown == Situation /\ Situation' /\ [Lit]_allVars /\ [TraceNext]_allVars => Known
BY DEF Known

LEMMA Edges ==
  ASSUME Known
  PROVE  (\E i \in Inputs : Begins(i) \/ Goes(i) \/ Works(i)) \/ Resets \/ Rests
<1>1. ASSUME NEW i \in Inputs, TraceClock(i), ~UNCHANGED allVars
      PROVE  \E j \in Inputs : Begins(j) \/ Goes(j) \/ Works(j)
  <2>1. CASE state = "CPU_IDLE"
    <3>1. HClock(i) /\ NewTraces /\ Controller(i)
      BY <1>1, <2>1 DEF TraceClock, HClock, Clock
    <3>2. CpuIdle(i)
      BY <2>1, <3>1, FirstStatesNamed
         DEF Controller, Console, Fetch, EffectiveAddress, MemoryReference, InputOutput, Microcoded,
             RegInit, SrChg1, SrChg2, LdPc1, LdAc1, Dep1, Dep2, Fetch1, Fetch2, Fetch3, DecodeHalt,
             Decode, Halt, CalEa1, EaInd1, EaInd2, EaAut1, EaAut2, EaAut3, EaAut4, EaAut5,
             And1, And2, And3, Tad1, Tad2, Tad3, Isz1, Isz2, Isz3, Isz4, Isz5, Isz6, Dca1, Dca2,
             Dca3, Jms1, Jms2, Jmp1, AddressOperand, ReadOperand, Iot1, Iot2, Iot3, Iot4, Iot5,
             Iot6, Mic1, Mic2, Mic3, Mic4, Mic5, Mic6, Mic7, Mic8, Mic9, Go, Await
    <3> QED
      BY <2>1, <3>1, <3>2 DEF Begins
  <2>2. CASE state # "CPU_IDLE" /\ ((pending.kind = "instruction" /\ state # "HALT") \/ cond_skip_flag)
    <3>1. ~HPressReset /\ ~HReleaseReset
      <4>1. resetN' = resetN
        BY <1>1 DEF TraceClock, HClock, Clock
      <4> QED
        BY <4>1 DEF HPressReset, PressReset, HReleaseReset, ReleaseReset
    <3>2. PICK j \in Inputs : j.run /\ TraceClock(j)
      BY <1>1, <2>2, <3>1 DEF Known, Situation, Lit
    <3>3. j.run = TRUE
      BY <3>2, InputsAssumption DEF InputWires
    <3>4. HClock(j) /\ Record(TRUE)
      BY <2>2, <3>2, <3>3 DEF TraceClock
    <3>5. Taking(j)
      BY <2>2, <3>4, Takes DEF HClock, Watch, Known, Situation, Doing, Pending
    <3> QED
      BY <2>2, <3>4, <3>5 DEF Goes
  <2>3. CASE state # "CPU_IDLE" /\ ~cond_skip_flag
    <3>1. HClock(i) /\ Record(i.run)
      BY <1>1, <2>3 DEF TraceClock
    <3>2. Taking(i)
      BY <1>1, <2>3, <3>1, Takes DEF HClock, Watch, Known, Situation, Doing, Pending
    <3>3. CASE pending.kind # "instruction"
      BY <1>1, <2>3, <3>1, <3>2, <3>3 DEF Works
    <3>4. CASE state = "HALT"
      <4>1. ~MemoryAnswers
        BY <1>1, <3>1, <3>4, MemoryIdles
           DEF HClock, MemoryAnswers, Known, Situation, WaitStates, ReadStates, WriteStates
      <4>2. Record(TRUE)
        BY <2>3, <3>1, <3>4, <4>1 DEF Record, Resting
      <4> QED
        BY <1>1, <2>3, <3>1, <3>2, <4>2 DEF Goes
    <3> QED
      BY <2>2, <2>3, <3>3, <3>4
  <2> QED
    BY <2>1, <2>2, <2>3
<1>2. CASE HPressReset /\ UNCHANGED traceVars
  BY <1>2 DEF HPressReset, PressReset, WatchReset, Resets
<1>3. CASE (HReleaseReset /\ UNCHANGED traceVars) \/ UNCHANGED allVars
  BY <1>3 DEF HReleaseReset, ReleaseReset, allVars, vars, cpuVars, memVars, historyVars, Rests
<1> QED
  BY <1>1, <1>2, <1>3 DEF Known, Situation, TraceNext

\* An operation of the panel, or a reset, writes no line that matters.
LEMMA WorksOn ==
  ASSUME Known, NEW i \in Inputs, Works(i)
  PROVE  /\ state' \in {"CPU_IDLE", "REG_INIT"} \cup PanelStates
         /\ cond_skip_flag' = FALSE /\ begun' = begun
         /\ pending'.kind # "instruction"
<1>1. pending'.kind # "instruction"
  BY DEF Works, Taking
<1>2. state' \in {"CPU_IDLE", "REG_INIT"} \cup PanelStates
  BY <1>1 DEF Known, Situation, Doing, Pending
<1> QED
  BY <1>1, <1>2 DEF Works, Record, PanelStates

\* An edge that does not end the operation.
LEMMA GoesOn ==
  ASSUME NEW i, Goes(i), state' # "CPU_IDLE"
  PROVE  Clock(i) /\ Controller(i) /\ Frozen
BY Freezes DEF Goes, HClock, Clock, Watch

LEMMA BeforeStarts ==
  ASSUME ArchTyped
  PROVE  Before = Start([sw |-> 0, c |-> begun.ea, b |-> begun.mb])
<1> DEFINE g == Machine!ToGolden(arch, 0)
           a == arch.ac
           l == arch.lk
           p == arch.pc
           m == arch.mem
           c == begun.ea
           b == begun.mb
<1>1. g = Full(a, l, p, 0, 0, 0, m, No)
  BY DEF Machine!ToGolden, Full, No
<1> HIDE DEF g, a, l, p, m, c, b
<1>2. [g EXCEPT !.mb = b] = Full(a, l, p, 0, 0, b, m, No)
  BY <1>1 DEF Full
<1>3. [Full(a, l, p, 0, 0, b, m, No) EXCEPT !.cpma = c] = Full(a, l, p, 0, c, b, m, No)
  BY DEF Full
<1>4. Before = [[g EXCEPT !.mb = b] EXCEPT !.cpma = c]
  BY DEF Before, g, b, c
<1>5. Start([sw |-> 0, c |-> c, b |-> b]) = Full(a, l, p, 0, c, b, m, No)
  BY DEF Start, Gold, a, l, p, m
<1> QED
  BY <1>2, <1>3, <1>4, <1>5 DEF b, c

LEMMA MemoryTracedGoes ==
  ASSUME Known, MemoryTraced, NEW i \in Inputs, Goes(i), state' # "CPU_IDLE"
  PROVE  MemoryTraced'
<1>1. /\ Clock(i) /\ Controller(i) /\ Frozen /\ Record(TRUE) /\ state # "CPU_IDLE"
      /\ TypeOK /\ Handshake /\ Answered /\ Doing
  BY GoesOn DEF Goes, Known, Situation
<1>2. Opcode(Instr) \in 0 .. 7
  BY OperandTyped, FieldsAreWords DEF Known, Situation
<1>3. ~Halt /\ ~And3 /\ ~Tad3 /\ ~Isz6 /\ ~Dca3 /\ ~Jmp1
  BY DEF Halt, And3, Tad3, Isz6, Dca3, Jmp1, Go
<1>4. CASE Fetch
  BY <1>1, <1>3, <1>4, FetchTraced DEF Fetch
<1>5. CASE EffectiveAddress
  BY <1>1, <1>2, <1>5, AddressTraced, PointerTraced DEF EffectiveAddress
<1>6. CASE MemoryReference
  BY <1>1, <1>3, <1>6, ReferenceTraced, OperandTraced DEF MemoryReference
<1>7. CASE Console(i) \/ InputOutput(i) \/ Microcoded
  BY <1>1, <1>7, OtherTraced
<1> QED
  BY <1>1, <1>4, <1>5, <1>6, <1>7 DEF Controller

LEMMA MemoryTracedStep == Known /\ MemoryTraced => MemoryTraced'
<1> SUFFICES ASSUME Known, MemoryTraced PROVE MemoryTraced'
  OBVIOUS
<1>1. ASSUME NEW i \in Inputs, Begins(i)
      PROVE  MemoryTraced'
  BY <1>1 DEF Begins, CpuIdle, IdleSuccessor, Go, NewTraces, MemoryTraced
<1>2. ASSUME NEW i \in Inputs, Goes(i)
      PROVE  MemoryTraced'
  <2>1. CASE state' = "CPU_IDLE"
    BY <2>1 DEF MemoryTraced
  <2>2. CASE state' # "CPU_IDLE"
    BY <1>2, <2>2, MemoryTracedGoes
  <2> QED
    BY <2>1, <2>2
<1>5. ASSUME NEW i \in Inputs, Works(i)
      PROVE  MemoryTraced'
  BY <1>5, WorksOn DEF MemoryTraced, PanelStates, FirstRefs
<1>3. CASE Resets
  BY <1>3 DEF Resets, MemoryTraced
<1>4. CASE Rests
  <2>1. /\ state' = state /\ memState' = memState /\ memory_trace' = memory_trace
        /\ TraceLines
    BY <1>4, Freezes, LinesFreeze DEF Rests, traceVars
  <2> QED
    BY <2>1 DEF MemoryTraced, TraceLines, Awaiting, MemFinished
<1> QED
  BY <1>1, <1>2, <1>3, <1>4, <1>5, Edges

LEMMA MemoryTraceStep ==
  Known /\ MemoryTraced => [Compared => memory_trace' = Machine!MemoryTrace(Before)]_allVars
<1> SUFFICES ASSUME Known, MemoryTraced, Compared
             PROVE  memory_trace' = Machine!MemoryTrace(Before)
  OBVIOUS
<1>1. PICK i \in Inputs : Goes(i)
  BY Edges, WorksOn DEF Compared, Begins, Resets, Rests
<1>2. pending.kind = "instruction"
  BY <1>1 DEF Goes, Taking, Compared
<1>3. Opcode(Instr) # 6 /\ memory_trace' = Shown
  BY <1>1, <1>2, EndsTraced DEF Goes, HClock, Known, Situation, Compared, Comparable
<1> QED
  BY <1>3, BeforeStarts, GoldMemoryTrace DEF Known, Situation

\* The traces watch the history and hold back nothing.
LEMMA TracesWatch == TraceSpec => HSpec
<1>1. TraceInit => HInit
  BY DEF TraceInit
<1>2. [TraceNext]_allVars => [HNext]_<<vars, historyVars>>
  BY DEF TraceNext, TraceClock, HNext, allVars
<1> QED
  BY <1>1, <1>2, PTL DEF TraceSpec, HSpec, allVars

\* The invariants of the machine and of its history hold of it while traced.
LEMMA SituationHolds == TraceSpec /\ []Regular => []Situation
<1>1. HInit => Doing /\ ArchTyped
  BY InitImplements
<1>2. TypeOK /\ TypeOK' /\ Handshake /\ Answered /\ EaeAnswers /\ Regular
        /\ (Doing /\ ArchTyped) /\ [HNext]_<<vars, historyVars>>
      => (Doing /\ ArchTyped)'
  BY StepImplements
<1>3. HSpec /\ []Regular => [](Doing /\ ArchTyped /\ TypeOK /\ Handshake /\ Answered /\ EaeAnswers)
  BY <1>1, <1>2, HistoryWatches, TypeCorrect, HandshakeHolds, AnsweredHolds, EaeCorrect, PTL DEF HSpec
<1>4. (Doing /\ ArchTyped /\ TypeOK /\ Handshake /\ Answered /\ EaeAnswers) /\ Regular => Situation
  BY DEF Situation
<1> QED
  BY <1>3, <1>4, TracesWatch, PTL

\* Whatever the program and wherever it starts, the memory accesses of every
\* instruction that the traces are compared for, as the clocks of the memory
\* controller show them, are the golden model's.
THEOREM MemoryTracesAgree == TraceSpec /\ []Regular /\ LampLit => MemoryTraceAgrees
<1>1. TraceInit => MemoryTraced
  BY DEF TraceInit, HInit, Init, MemoryTraced
<1> QED
  BY <1>1, AlwaysKnown, MemoryTracedStep, MemoryTraceStep, SituationHolds, PTL
     DEF TraceSpec, LampLit, MemoryTraceAgrees, allVars

-----------------------------------------------------------------------------
\* The order of the controller's states, and which of them load MB and the
\* effective address.

Moves ==
  /\ state' \in Underway => state \in Underway /\ state' # "FETCH_1"
  /\ state' \in IszStates => state \in {"ISZ_1"} \cup IszStates
  /\ state \in {"ISZ_1"} \cup IszStates => state' \in IszStates \cup {"CPU_IDLE"}
  /\ state' \in AddressStates \cup FirstRefs => state \in {"DECODE"} \cup AddressStates
  /\ state' = "MIC_2" => state = "MIC_1"
  /\ state = "MIC_2" => state' \in {"HALT", "CPU_IDLE"}
  /\ state = "JMS_1" => state' = "JMS_2"
  /\ state = "JMP_1" => state' = "CPU_IDLE"
  /\ state = "JMS_2" => state' \in {"JMS_2", "CPU_IDLE"}
  /\ state = "REG_INIT" => state' \in {"REG_INIT", "CPU_IDLE"}
  /\ state' = "JMS_2" => state \in {"JMS_1", "JMS_2"}
  /\ state' = "HALT" => DecodeHalt \/ Mic2
  /\ state' \in MicStates => state \in MicStates \/ Decode

Loads ==
  /\ state \in FetchStates \cup {"DECODE", "MIC_1", "MIC_2"} \cup AddressStates \cup FirstRefs =>
       reg'.mb = reg.mb
  /\ state \in FetchStates \cup {"DECODE", "MIC_1", "MIC_2"} \cup FirstRefs \cup RefStates =>
       reg'.ea = reg.ea
  /\ state \in {"AND_3", "TAD_3", "ISZ_6", "DCA_3"} => reg'.mb = reg.mb
  /\ state' \in FetchStates \cup {"DECODE", "MIC_1", "MIC_2", "CAL_EA_1"} =>
       state \in FetchStates \cup {"DECODE", "MIC_1"}
  /\ state' \in RefStates => state \in FirstRefs \cup RefStates
  /\ state' = "DCA_3" => state = "DCA_2" /\ reg'.mb = writeData
  /\ state \in LastStates => reg'.ir = reg.ir

LEMMA ControllerMoves ==
  ASSUME TypeOK, ArchTyped, Doing, NEW i, Controller(i), state # "CPU_IDLE"
  PROVE  Moves /\ Loads
<1>1. /\ state \in {"DECODE"} => reg.ir = Instr
      /\ Opcode(Instr) \in 0 .. 7
      /\ state \in AddressStates => Opcode(Instr) <= 5 /\ instState = FirstStates[Opcode(Instr) + 1]
  BY OperandTyped, FieldsAreWords DEF Doing, Beginning, Addresses
<1>2. reg = [ac |-> reg.ac, lk |-> reg.lk, ir |-> reg.ir, mq |-> reg.mq, pc |-> reg.pc,
             mb |-> reg.mb, ea |-> reg.ea]
  BY DEF TypeOK, ControlTypeOK, Registers
<1>3. CASE Console(i)
  BY <1>3 DEF Console, RegInit, CpuIdle, SrChg1, SrChg2, LdPc1, LdAc1, Dep1, Dep2, Go, Await,
     Moves, Loads, Underway, LastStates
<1>4. CASE Fetch
  <2>1. state = "DECODE" /\ Decode => state' \in {"CAL_EA_1", "IOT_1", "MIC_1"}
    BY <1>1, FirstOfReference DEF Decode, Go
  <2> QED
    BY <1>2, <1>4, <2>1 DEF Fetch, Fetch1, Fetch2, Fetch3, DecodeHalt, Decode, Halt, Go, Await,
       Moves, Loads, Underway, LastStates
<1>5. CASE EffectiveAddress
  <2>1. state \in AddressStates => instState \in FirstRefs
    BY <1>1, FirstOfReference
  <2> QED
    BY <1>2, <1>5, <2>1 DEF EffectiveAddress, CalEa1, EaInd1, EaInd2, EaAut1, EaAut2, EaAut3,
       EaAut4, EaAut5, Go, Await, Moves, Loads, Underway, LastStates
<1>6. CASE MemoryReference
  <2>1. CASE And1 \/ And2 \/ And3 \/ Tad1 \/ Tad2 \/ Tad3
    <3>1. CASE And3
      BY <1>2, <3>1 DEF And3, Go, Moves, Loads, Underway, LastStates
    <3>2. CASE Tad3
      <4>1. reg'.mb = reg.mb /\ reg'.ea = reg.ea
        BY <1>2, <3>2 DEF Tad3
      <4> QED
        BY <3>2, <4>1 DEF Tad3, Go, Moves, Loads, Underway, LastStates
    <3>3. CASE And1 \/ And2 \/ Tad1 \/ Tad2
      BY <1>2, <3>3 DEF And1, And2, Tad1, Tad2, AddressOperand, ReadOperand, Go, Await,
         Moves, Loads, Underway, LastStates
    <3> QED
      BY <2>1, <3>1, <3>2, <3>3
  <2>2. CASE Isz1 \/ Isz2 \/ Isz3 \/ Isz4 \/ Isz5 \/ Isz6
    BY <1>2, <2>2 DEF Isz1, Isz2, Isz3, Isz4, Isz5, Isz6, AddressOperand, ReadOperand, Go, Await,
       Moves, Loads, Underway, LastStates
  <2>3. CASE Dca1 \/ Dca2 \/ Dca3 \/ Jms1 \/ Jms2 \/ Jmp1
    BY <1>2, <2>3 DEF Dca1, Dca2, Dca3, Jms1, Jms2, Jmp1, Go, Await, Moves, Loads, Underway, LastStates
  <2> QED
    BY <1>6, <2>1, <2>2, <2>3 DEF MemoryReference
<1>7. CASE InputOutput(i)
  BY <1>7 DEF InputOutput, Iot1, Iot2, Iot3, Iot4, Iot5, Iot6, Go, Moves, Loads, Underway, LastStates
<1>8. CASE Microcoded
  BY <1>2, <1>8 DEF Microcoded, Mic1, Mic2, Mic3, Mic4, Mic5, Mic6, Mic7, Mic8, Mic9,
     ReadOperand, Go, Await, Moves, Loads, Underway, LastStates
<1> QED
  BY <1>3, <1>4, <1>5, <1>6, <1>7, <1>8 DEF Controller

-----------------------------------------------------------------------------
\* The branch trace through the states of an instruction.

\* Putting together at most one line.
LEMMA OneLine ==
  ASSUME NEW r
  PROVE  /\ <<>> \o <<>> = <<>> /\ <<>> \o <<r>> = <<r>> /\ <<r>> \o <<>> = <<r>>
<1>1. <<>> \in Seq({r}) /\ <<r>> \in Seq({r})
  OBVIOUS
<1> QED
  BY <1>1, ConcatEmptySeq

\* An edge that reports no skip.
LEMMA NoSkipReported ==
  ASSUME Record(TRUE), ~(Resting(state') /\ cond_skip_flag), NEW r, branch_trace \in {<<>>, <<r>>}
  PROVE  /\ state \notin {"JMS_1", "JMP_1"} => branch_trace' = branch_trace
         /\ state \in {"JMS_1", "JMP_1"} /\ branch_trace = <<>> => branch_trace' = BranchLines
<1>1. branch_trace' = branch_trace \o BranchLines \o <<>>
  BY DEF Record
<1>2. CASE state \in {"JMS_1", "JMP_1"}
  <2>1. PICK q : BranchLines = <<q>>
    BY <1>2 DEF BranchLines, write_branch_trace
  <2> QED
    BY <1>1, <1>2, <2>1, OneLine
<1>3. CASE state \notin {"JMS_1", "JMP_1"}
  <2>1. BranchLines = <<>>
    BY <1>3 DEF BranchLines
  <2> QED
    BY <1>1, <1>3, <2>1, OneLine
<1> QED
  BY <1>2, <1>3

\* No instruction that comes to ISZ_1 or MIC_2 here is OSR.
LEMMA SkipAwaits ==
  ASSUME Known, Moves, Frozen, state' \in {"MIC_2", "ISZ_1"}
  PROVE  SkipReported = TRUE /\ reg'.pc = Following'
<1>1. reg.ir = Instr
  <2>1. state \in {"MIC_1", "DECODE"} \cup AddressStates
    BY DEF Moves
  <2> QED
    BY <2>1 DEF Known, Situation, Doing, Beginning, Addresses, Microinstructions
<1>2. CASE state' = "MIC_2"
  <2>1. ~On(Instr, 2) /\ reg'.pc = Following'
    BY <1>2 DEF Known, Situation, Doing, Microinstructions, Alike, Frozen
  <2>2. On(3844, 2)
    BY SMT DEF On, Bit, Weights
  <2> QED
    BY <1>1, <2>1, <2>2 DEF SkipReported
<1>3. CASE state' = "ISZ_1"
  <2>1. Opcode(Instr) \in 0 .. 7 /\ state' = FirstStates[Opcode(Instr) + 1] /\ reg'.pc = Following'
    BY <1>3, OperandTyped, FieldsAreWords DEF Known, Situation, Doing, Addresses, Frozen
  <2>2. Opcode(Instr) = 2
    BY <1>3, <2>1, FirstOfReference
  <2>3. Opcode(3844) = 7
    BY SMT DEF Opcode
  <2> QED
    BY <1>1, <2>1, <2>2, <2>3 DEF SkipReported
<1> QED
  BY <1>2, <1>3

LEMMA BranchTracedGoes ==
  ASSUME Known, BranchTraced, NEW i \in Inputs, Goes(i), state' # "CPU_IDLE"
  PROVE  BranchTraced'
<1>1. /\ Frozen /\ Record(TRUE) /\ state # "CPU_IDLE" /\ Moves
      /\ Instr' = Instr /\ Following' = Following /\ Effective' = Effective
  BY GoesOn, ControllerMoves DEF Goes, Known, Situation, Frozen
<1>2. /\ state' \in SkipStates => cond_skip_flag' = TRUE /\ pc_temp' = Following'
      /\ state' \notin SkipStates \cup {"REG_INIT"} => cond_skip_flag' = FALSE
  <2>1. CASE state' \in {"MIC_2", "ISZ_1"}
    BY <1>1, <2>1, SkipAwaits DEF Record, SkipStates
  <2>2. CASE state' \notin {"MIC_2", "ISZ_1"}
    <3>1. /\ pc_temp' = pc_temp
          /\ cond_skip_flag' = (cond_skip_flag /\ ~Resting(state'))
      BY <1>1, <2>2 DEF Record
    <3>2. CASE state \in SkipStates
      <4>1. cond_skip_flag = TRUE /\ pc_temp = Following
        BY <3>2 DEF BranchTraced
      <4>2. state' \in IszStates \cup {"HALT"}
        BY <1>1, <3>2 DEF Moves, SkipStates
      <4> QED
        BY <1>1, <3>1, <4>1, <4>2 DEF Resting, SkipStates
    <3>3. CASE state \notin SkipStates
      <4>1. state' \notin SkipStates
        BY <1>1, <2>2, <3>3 DEF Moves, SkipStates
      <4>2. state # "REG_INIT" => cond_skip_flag = FALSE
        BY <3>3 DEF BranchTraced
      <4>3. state = "REG_INIT" => state' = "REG_INIT"
        BY <1>1 DEF Moves
      <4> QED
        BY <3>1, <4>1, <4>2, <4>3
    <3> QED
      BY <3>2, <3>3
  <2> QED
    BY <2>1, <2>2
<1>3. /\ state' \in Underway \ {"JMS_2"} => branch_trace' = <<>>
      /\ state' = "JMS_2" => branch_trace' = <<<<Following, Inc(Effective), "Subroutine", TRUE>>>>
  <2> DEFINE line == <<Following, Inc(Effective), "Subroutine", TRUE>>
  <2> SUFFICES ASSUME state' \in Underway
               PROVE  branch_trace' = IF state' = "JMS_2" THEN <<line>> ELSE <<>>
    BY DEF Underway
  <2>1. ~Resting(state') /\ state \in Underway
    BY <1>1 DEF Moves, Resting, Underway
  <2>2. /\ state = "JMS_2" => branch_trace = <<line>> /\ state' = "JMS_2"
        /\ state # "JMS_2" => branch_trace = <<>>
        /\ state = "JMS_1" => state' = "JMS_2"
        /\ state # "JMP_1"
        /\ state' = "JMS_2" => state \in {"JMS_1", "JMS_2"}
    BY <1>1, <2>1 DEF Moves, BranchTraced
  <2>3. state = "JMS_1" => BranchLines = <<line>>
    <3>1. state = "JMS_1" => reg.pc = Following /\ reg.ea = Effective
      BY DEF Known, Situation, Doing, Addresses
    <3>2. write_branch_trace(Following, Effective + 1, 2, TRUE) = <<line>>
      BY DEF write_branch_trace, Inc
    <3> HIDE DEF line
    <3> QED
      BY <3>1, <3>2 DEF BranchLines
  <2> HIDE DEF line
  <2> QED
    BY <1>1, <2>1, <2>2, <2>3, NoSkipReported
<1>4. state' \in MicStates => Instr # HLT
  <2>1. state = "DECODE" => reg.ir = Instr
    BY DEF Known, Situation, Doing, Beginning
  <2>2. CASE state \in MicStates
    BY <2>2 DEF BranchTraced
  <2>3. CASE Decode
    BY <2>1, <2>3 DEF Decode, Go
  <2> QED
    BY <1>1, <2>2, <2>3 DEF Moves
<1>5. state' = "HALT" => reg'.ir = Instr /\ (Instr = HLT => branch_trace' = <<>>)
  <2> SUFFICES ASSUME state' = "HALT"
               PROVE  reg'.ir = Instr /\ (Instr = HLT => branch_trace' = <<>>)
    OBVIOUS
  <2>1. CASE DecodeHalt
    <3>1. state = "DECODE" /\ reg' = reg
      BY <2>1 DEF DecodeHalt, Go
    <3>2. reg.ir = Instr /\ branch_trace = <<>> /\ cond_skip_flag = FALSE
      BY <3>1 DEF Known, Situation, Doing, Beginning, BranchTraced, Underway, SkipStates
    <3> QED
      BY <1>1, <3>1, <3>2, NoSkipReported
  <2>2. CASE Mic2
    <3>1. state = "MIC_2" /\ reg'.ir = reg.ir
      BY <2>2 DEF Mic2, Go, Known, Situation, TypeOK, ControlTypeOK, Registers
    <3> QED
      BY <3>1 DEF Known, Situation, Doing, Microinstructions, BranchTraced
  <2> QED
    BY <1>1, <2>1, <2>2 DEF Moves
<1> QED
  BY <1>1, <1>2, <1>3, <1>4, <1>5 DEF BranchTraced

LEMMA BranchTracedStep == Known /\ BranchTraced => BranchTraced'
<1> SUFFICES ASSUME Known, BranchTraced PROVE BranchTraced'
  OBVIOUS
<1>1. ASSUME NEW i \in Inputs, Begins(i)
      PROVE  BranchTraced'
  BY <1>1 DEF Begins, CpuIdle, IdleSuccessor, Go, NewTraces, BranchTraced, SkipStates, Underway
<1>2. ASSUME NEW i \in Inputs, Goes(i)
      PROVE  BranchTraced'
  <2>1. CASE state' = "CPU_IDLE"
    BY <1>2, <2>1 DEF Goes, Record, Resting, BranchTraced, SkipStates, Underway
  <2>2. CASE state' # "CPU_IDLE"
    BY <1>2, <2>2, BranchTracedGoes
  <2> QED
    BY <2>1, <2>2
<1>5. ASSUME NEW i \in Inputs, Works(i)
      PROVE  BranchTraced'
  BY <1>5, WorksOn DEF BranchTraced, PanelStates, SkipStates, Underway
<1>3. CASE Resets
  BY <1>3 DEF Resets, BranchTraced, SkipStates, Underway
<1>4. CASE Rests
  <2>1. /\ state' = state /\ reg' = reg /\ branch_trace' = branch_trace /\ pc_temp' = pc_temp
        /\ cond_skip_flag' = cond_skip_flag
        /\ Instr' = Instr /\ Following' = Following /\ Effective' = Effective
    BY <1>4, Freezes DEF Rests, traceVars, Frozen
  <2> QED
    BY <2>1 DEF BranchTraced
<1> QED
  BY <1>1, <1>2, <1>3, <1>4, <1>5, Edges

-----------------------------------------------------------------------------
\* The branch trace of both when the instruction ends.

\* What is compared, of the instruction that is under way.
ComparedWord ==
  /\ Opcode(Instr) # 6
  /\ Opcode(Instr) = 7 => /\ Alike(Instr) /\ ~Group3(Instr)
                          /\ Group2(Instr) /\ On(Instr, 1) => Instr = HLT

\* Whether the instruction skips.
Skipped == IF Opcode(Instr) = 2 THEN Inc(Operand) = 0 ELSE Skip(Instr, arch.ac, arch.lk)

\* The lines of the design's trace when the instruction ends.
Conditional == <<<<Following, Inc(Following), "Conditional", Skipped>>>>
Always == <<<<Following, Inc(Following), "Unconditional", TRUE>>>>
Subroutine == <<<<Following, Inc(Effective), "Subroutine", TRUE>>>>
Jump == <<<<Following, Effective, "Unconditional", TRUE>>>>

Branched ==
  CASE Opcode(Instr) = 2 -> Conditional
    [] Opcode(Instr) = 4 -> Subroutine
    [] Opcode(Instr) = 5 -> Jump
    [] Instr = 3848 -> Always
    [] Opcode(Instr) = 7 /\ Group2(Instr) /\ Instr \notin {3848, HLT} -> Conditional
    [] OTHER -> <<>>

\* 7410, which skips always, and HLT among the words of group 2.
LEMMA SkipWords ==
  /\ Opcode(3848) = 7 /\ On(3848, 8) /\ ~On(3848, 0) /\ ~On(3848, 1)
  /\ Opcode(3842) = 7 /\ On(3842, 8) /\ ~On(3842, 3) /\ 3842 % 8 # 0
  /\ \A w \in Word : ~On(w, 0) /\ ~On(w, 1) /\ ~On(w, 2) => w % 8 = 0
  /\ \A w \in Word : Inc(w) # w
<1>1. /\ Opcode(3848) = 7 /\ On(3848, 8) /\ ~On(3848, 0) /\ ~On(3848, 1)
      /\ Opcode(3842) = 7 /\ On(3842, 8) /\ ~On(3842, 3) /\ 3842 % 8 # 0
  BY SMT DEF Opcode, On, Bit, Weights
<1>2. ASSUME NEW w \in Word, ~On(w, 0), ~On(w, 1), ~On(w, 2)
      PROVE  w % 8 = 0
  <2>1. Weights[0 + 1] = 1 /\ Weights[1 + 1] = 2 /\ Weights[2 + 1] = 4
    BY DEF Weights
  <2>2. (w \div 1) % 2 # 1 /\ (w \div 2) % 2 # 1 /\ (w \div 4) % 2 # 1
    BY <1>2, <2>1 DEF On, Bit
  <2> QED
    BY <2>2, SMTT(30) DEF Word
<1>3. \A w \in Word : Inc(w) # w
  BY SMT DEF Word, Inc
<1> QED
  BY <1>1, <1>2, <1>3

LEMMA GoldBranchTrace ==
  ASSUME ArchTyped, ComparedWord, NEW rest
  PROVE  Machine!BranchTrace(Start(rest)) = Branched
<1> DEFINE g == Start(rest)
           f == Machine!Fetched(g)
           s == Machine!EffAddCalc(Instr, f)
           to == Machine!Cut(Machine!Execute(g).pc)
           zero == Machine!ISZ(s).mb = 0
           skips == Machine!Skips(Instr, f)
           call == <<<<Machine!Cut(f.pc), to, "Subroutine", TRUE>>>>
           jump == <<<<Machine!Cut(f.pc), to, "Unconditional", TRUE>>>>
           onZero == Machine!Skipping(f, "Conditional", zero)
           always == Machine!Skipping(f, "Unconditional", TRUE)
           onTest == Machine!Skipping(f, "Conditional", skips)
           t == Machine!BranchTrace(g)
<1>1. Machine!CurrentInstruction(g) = Instr /\ Opcode(Instr) \in {0, 1, 2, 3, 4, 5, 7} /\ Instr \in Word
  BY GoldStarts, OperandTyped, FieldsAreWords DEF ComparedWord
<1>2. Machine!Cut(f.pc) = Following /\ Machine!Cut(f.pc + 1) = Inc(Following)
  BY GoldFetches
<1>3. /\ zero = Skipped => onZero = Conditional
      /\ skips = Skipped => onTest = Conditional
      /\ always = Always
  <2> HIDE DEF f, zero, skips
  <2> QED
    BY <1>2 DEF Machine!Skipping, Conditional, Always
<1>4. t = CASE Opcode(Instr) = 2 -> onZero
            [] Opcode(Instr) = 4 -> call
            [] Opcode(Instr) = 5 -> jump
            [] Instr = 3848 -> always
            [] Opcode(Instr) = 7 /\ On(Instr, 8) /\ Instr # 3848 /\ (On(Instr, 3) \/ Instr % 8 = 0) -> onTest
            [] OTHER -> <<>>
  <2> DEFINE w == Machine!CurrentInstruction(g)
             z == Machine!Skipping(f, "Conditional", Machine!ISZ(Machine!EffAddCalc(w, f)).mb = 0)
             k == Machine!Skipping(f, "Conditional", Machine!Skips(w, f))
  <2>1. t = CASE Machine!Opcode(w) = 2 -> z
              [] Machine!Opcode(w) = 4 -> call
              [] Machine!Opcode(w) = 5 -> jump
              [] w = 3848 -> always
              [] Machine!Opcode(w) = 7 /\ Machine!On(w, 8) /\ w # 3848 /\ (Machine!On(w, 3) \/ w % 8 = 0) -> k
              [] OTHER -> <<>>
    BY Zenon DEF Machine!BranchTrace
  <2>2. w = Instr /\ z = onZero /\ k = onTest
    BY <1>1
  <2> HIDE DEF t, w, z, k, call, jump, onZero, always, onTest
  <2> QED
    BY <2>1, <2>2, SameOperators
<1> HIDE DEF t, call, jump, onZero, always, onTest, zero, skips
<1>5. CASE Opcode(Instr) \in {0, 1, 3}
  <2>1. Instr # 3848
    BY <1>5, SkipWords
  <2> QED
    BY <1>4, <1>5, <2>1 DEF Branched, t
<1>6. CASE Opcode(Instr) = 2
  <2>1. s = Full(arch.ac, arch.lk, arch.pc + 1, rest.sw, Address, rest.b, Indexed, No)
    BY GoldFetches
  <2>2. Machine!ISZ(s).mb = Inc(Operand)
    <3> HIDE DEF s
    <3> QED
      BY <1>6, <2>1, GoldHandles
  <2>3. zero = Skipped
    BY <1>6, <2>2 DEF Skipped, zero
  <2> QED
    BY <1>3, <1>4, <1>6, <2>3 DEF Branched, t
<1>7. CASE Opcode(Instr) \in {4, 5}
  <2> DEFINE e == Machine!Execute(g)
             b == Programmer(ReferredAC, ReferredLK, arch.mq, ReferredPC, Executed)
  <2>1. Machine!FromGolden(e, arch.mq) = b
    BY <1>7, GoldRefers
  <2>2. Machine!FromGolden(e, arch.mq).pc = Machine!Cut(e.pc) /\ b.pc = ReferredPC
    <3> HIDE DEF e
    <3> QED
      BY DEF Machine!FromGolden, Programmer
  <2>3. to = ReferredPC
    BY <2>1, <2>2
  <2> HIDE DEF to, e, b
  <2>4. /\ Opcode(Instr) = 4 => call = Subroutine
        /\ Opcode(Instr) = 5 => jump = Jump
    <3> HIDE DEF f
    <3> QED
      BY <1>2, <2>3 DEF call, jump, Subroutine, Jump, ReferredPC
  <2>5. Instr # 3848
    BY <1>7, SkipWords
  <2> QED
    BY <1>4, <1>7, <2>4, <2>5 DEF Branched, t
<1>8. CASE Opcode(Instr) = 7
  <2>1. f = Gold(arch.ac, arch.lk, arch.pc + 1, rest)
    BY GoldFetches
  <2>2. On(Instr, 8) => ~On(Instr, 0) /\ ~On(Instr, 2) /\ (On(Instr, 1) => Instr = HLT)
    BY <1>8 DEF ComparedWord, Group2, Group3, Alike
  <2>3. CASE ~On(Instr, 8)
    <3>1. Instr # 3848
      BY <2>3, SkipWords
    <3> QED
      BY <1>4, <1>8, <2>3, <3>1 DEF Branched, Group2, t
  <2>4. CASE On(Instr, 8) /\ Instr = 3848
    BY <1>3, <1>4, <1>8, <2>4 DEF Branched, t
  <2>5. CASE On(Instr, 8) /\ Instr = HLT
    <3>1. ~On(Instr, 3) /\ Instr % 8 # 0 /\ Instr # 3848
      BY <2>5, SkipWords DEF HLT
    <3> QED
      BY <1>4, <1>8, <2>5, <3>1 DEF Branched, t
  <2>6. CASE On(Instr, 8) /\ Instr # 3848 /\ Instr # HLT
    <3>1. Instr % 8 = 0 /\ Group2(Instr)
      BY <1>1, <2>2, <2>6, SkipWords DEF Group2
    <3>2. Machine!Skips(Instr, f) <=> Skip(Instr, arch.ac, arch.lk)
      BY <2>1, <2>6, <3>1, GoldSkips
    <3>3. Machine!Skips(Instr, f) \in BOOLEAN /\ Skip(Instr, arch.ac, arch.lk) \in BOOLEAN
      BY Zenon DEF Machine!Skips, Skip, Machine!AndSkips, Machine!OrSkips, SkipAnd, SkipOr
    <3>4. skips = Skipped
      BY <1>8, <3>2, <3>3 DEF Skipped, skips
    <3> QED
      BY <1>3, <1>4, <1>8, <2>6, <3>1, <3>4 DEF Branched, t
  <2> QED
    BY <2>3, <2>4, <2>5, <2>6
<1> QED
  BY <1>1, <1>5, <1>6, <1>7, <1>8

\* What the edge that ends a compared instruction finds.
LEMMA EndsCompared ==
  ASSUME Known, BranchTraced, Compared
  PROVE  /\ ComparedWord /\ reg.ir = Instr /\ state \in LastStates
         /\ state = "ISZ_6" => Isz6
         /\ state = "JMS_2" => Jms2
         /\ state = "MIC_1" => Group1(Instr)
         /\ state = "MIC_2" => Mic2
         /\ state = "HALT" => Instr = HLT
         /\ \E i \in Inputs : Goes(i)
<1>1. PICK i \in Inputs : Goes(i)
  BY Edges, WorksOn DEF Compared, Begins, Resets, Rests
<1>2. pending.kind = "instruction"
  BY <1>1 DEF Goes, Taking, Compared
<1>3. /\ state \in LastStates
      /\ state = "ISZ_6" => Isz6
      /\ state = "JMS_2" => Jms2
      /\ state = "MIC_1" => Group1(Instr)
      /\ state = "MIC_2" => Mic2
  BY <1>1, <1>2, EndsIn DEF Goes, HClock, Known, Situation, Compared, Comparable
<1>4. CASE state \in {"AND_3", "TAD_3", "ISZ_6", "DCA_3", "JMS_2", "JMP_1"}
  <2>1. reg.ir = Instr /\ Opcode(Instr) <= 5
    BY <1>4 DEF Known, Situation, Doing, References, Addresses
  <2>2. Opcode(Instr) \in 0 .. 7
    BY OperandTyped, FieldsAreWords DEF Known, Situation
  <2>3. ComparedWord
    BY <2>1, <2>2 DEF ComparedWord
  <2> QED
    BY <1>1, <1>3, <1>4, <2>1, <2>3
<1>5. CASE state \in {"MIC_1", "MIC_2", "HALT"}
  <2>1. /\ reg.ir = Instr /\ Opcode(Instr) = 7 /\ Alike(Instr)
        /\ state = "HALT" => Group2(Instr) /\ On(Instr, 1)
    BY <1>5 DEF Known, Situation, Doing, Microinstructions, Halting, BranchTraced
  <2>2. ComparedWord
    BY <2>1 DEF ComparedWord, Compared, Comparable
  <2> QED
    BY <1>1, <1>3, <1>5, <2>1, <2>2 DEF ComparedWord
<1> QED
  BY <1>3, <1>4, <1>5 DEF LastStates

\* The line of a skip.
LEMMA SkipShown ==
  ASSUME reg.ir = Instr, pc_temp = Following, Skipped = (reg'.pc # pc_temp)
  PROVE  SkipLine = IF Instr = 3848 THEN Always ELSE Conditional
<1> DEFINE taken == reg'.pc # pc_temp
           always == write_branch_trace(pc_temp, pc_temp + 1, 0, TRUE)
           tested == write_branch_trace(pc_temp, pc_temp + 1, 1, taken)
<1>1. always = Always
  BY DEF write_branch_trace, Always, Inc
<1>2. tested = Conditional
  <2>1. taken = Skipped
    OBVIOUS
  <2> HIDE DEF taken
  <2> QED
    BY <2>1 DEF write_branch_trace, Conditional, Inc
<1>3. SkipLine = IF reg.ir = 3848 THEN always ELSE tested
  BY Zenon DEF SkipLine
<1> HIDE DEF always, tested
<1> QED
  BY <1>1, <1>2, <1>3

LEMMA EndsBranched ==
  ASSUME Known, BranchTraced, Compared
  PROVE  branch_trace' = Branched
<1>1. /\ ComparedWord /\ reg.ir = Instr /\ state \in LastStates
      /\ state = "ISZ_6" => Isz6
      /\ state = "MIC_1" => Group1(Instr)
      /\ state = "MIC_2" => Mic2
      /\ state = "HALT" => Instr = HLT
      /\ Record(TRUE)
  BY EndsCompared DEF Goes
<1>2. Following \in Word /\ Inc(Following) # Following
  BY OperandTyped, SkipWords DEF Known, Situation
<1>3. CASE state \in {"AND_3", "TAD_3", "DCA_3", "MIC_1", "HALT"}
  <2>1. Instr # 3848 /\ Branched = <<>>
    <3>1. CASE state \in {"AND_3", "TAD_3", "DCA_3"}
      <4>1. Opcode(Instr) \in {0, 1, 3}
        BY <3>1 DEF Known, Situation, Doing, References
      <4>2. Instr # 3848
        BY <4>1, SkipWords
      <4> QED
        BY <4>1, <4>2 DEF Branched
    <3>2. CASE state \in {"MIC_1", "HALT"}
      <4>1. Opcode(Instr) = 7 /\ (Group1(Instr) \/ Instr = HLT)
        BY <1>1, <3>2 DEF Known, Situation, Doing, Microinstructions, Halting
      <4>2. Instr # 3848
        BY <4>1, SkipWords DEF Group1, HLT
      <4> QED
        BY <4>1, <4>2 DEF Branched, Group1, Group2
    <3> QED
      BY <1>3, <3>1, <3>2
  <2>2. branch_trace = <<>> /\ cond_skip_flag = FALSE
    BY <1>1, <1>3 DEF BranchTraced, SkipStates, Underway
  <2> QED
    BY <1>1, <1>3, <2>1, <2>2, NoSkipReported
<1>4. CASE state \in {"ISZ_6", "MIC_2"}
  <2>1. branch_trace = <<>> /\ cond_skip_flag = TRUE /\ pc_temp = Following /\ BranchLines = <<>>
    BY <1>4 DEF BranchTraced, SkipStates, Underway, BranchLines
  <2>2. branch_trace' = <<>> \o <<>> \o SkipLine
    BY <1>1, <2>1 DEF Record, Resting, Compared
  <2>3. Skipped = (reg'.pc # pc_temp)
    <3>1. CASE state = "ISZ_6"
      <4>1. reg.mb = Inc(Operand) /\ reg.pc = Following /\ Opcode(Instr) = 2
        BY <3>1 DEF Known, Situation, Doing, References
      <4>2. reg'.pc = IF reg.mb = 0 THEN Inc(reg.pc) ELSE reg.pc
        BY <1>1, <3>1 DEF Isz6, Known, Situation, TypeOK, ControlTypeOK, Registers
      <4> QED
        BY <1>2, <2>1, <4>1, <4>2 DEF Skipped
    <3>2. CASE state = "MIC_2"
      <4>1. reg.ac = arch.ac /\ reg.lk = arch.lk /\ reg.pc = Following /\ Opcode(Instr) = 7
        BY <3>2 DEF Known, Situation, Doing, Microinstructions
      <4>2. reg'.pc = IF Skip(Instr, reg.ac, reg.lk) THEN Inc(reg.pc) ELSE reg.pc
        BY <1>1, <3>2 DEF Mic2, Known, Situation, TypeOK, ControlTypeOK, Registers
      <4>3. Skip(Instr, arch.ac, arch.lk) \in BOOLEAN
        BY Zenon DEF Skip, SkipAnd, SkipOr
      <4> QED
        BY <1>2, <2>1, <4>1, <4>2, <4>3 DEF Skipped
    <3> QED
      BY <1>4, <3>1, <3>2
  <2>4. SkipLine = IF Instr = 3848 THEN Always ELSE Conditional
    BY <1>1, <2>1, <2>3, SkipShown
  <2>5. SkipLine = Branched
    <3>1. CASE state = "ISZ_6"
      <4>1. Opcode(Instr) = 2
        BY <3>1 DEF Known, Situation, Doing, References
      <4>2. Instr # 3848
        BY <4>1, SkipWords
      <4> QED
        BY <2>4, <4>1, <4>2 DEF Branched
    <3>2. CASE state = "MIC_2"
      <4>1. Opcode(Instr) = 7 /\ Group2(Instr) /\ Instr # HLT
        BY <3>2 DEF Known, Situation, Doing, Microinstructions, BranchTraced
      <4> QED
        BY <2>4, <4>1 DEF Branched
    <3> QED
      BY <1>4, <3>1, <3>2
  <2>6. \E r : SkipLine = <<r>>
    BY <2>4 DEF Always, Conditional
  <2> QED
    BY <2>2, <2>5, <2>6, OneLine
<1>5. CASE state = "JMS_2"
  <2>1. branch_trace = Subroutine /\ cond_skip_flag = FALSE /\ Opcode(Instr) = 4
    BY <1>5 DEF BranchTraced, SkipStates, Subroutine, Known, Situation, Doing, References
  <2>2. Instr # 3848
    BY <2>1, SkipWords
  <2>3. branch_trace' = branch_trace
    <3>1. PICK r : branch_trace = <<r>>
      BY <2>1 DEF Subroutine
    <3> QED
      BY <1>1, <1>5, <2>1, <3>1, NoSkipReported
  <2> QED
    BY <2>1, <2>2, <2>3 DEF Branched
<1>6. CASE state = "JMP_1"
  <2>1. /\ branch_trace = <<>> /\ cond_skip_flag = FALSE
        /\ reg.pc = Following /\ reg.ea = Effective
    BY <1>6 DEF BranchTraced, SkipStates, Underway, Known, Situation, Doing, Addresses
  <2>2. Opcode(Instr) = 5
    BY <1>6, FirstOfReference, OperandTyped, FieldsAreWords DEF Known, Situation, Doing, Addresses
  <2>3. Instr # 3848
    BY <2>2, SkipWords
  <2>4. write_branch_trace(Following, Effective, 0, TRUE) = Jump
    <3>1. Effective % 4096 = Effective
      BY CutWord, OperandTyped DEF Known, Situation
    <3> QED
      BY <3>1 DEF write_branch_trace, Jump
  <2>5. branch_trace' = Jump
    BY <1>1, <1>6, <2>1, <2>4, NoSkipReported DEF BranchLines
  <2> QED
    BY <2>2, <2>3, <2>5 DEF Branched
<1> QED
  BY <1>1, <1>3, <1>4, <1>5, <1>6 DEF LastStates

LEMMA BranchTraceStep ==
  Known /\ BranchTraced => [Compared => branch_trace' = Machine!BranchTrace(Before)]_allVars
<1> SUFFICES ASSUME Known, BranchTraced, Compared
             PROVE  branch_trace' = Machine!BranchTrace(Before)
  OBVIOUS
<1>1. ComparedWord /\ branch_trace' = Branched
  BY EndsCompared, EndsBranched
<1> QED
  BY <1>1, BeforeStarts, GoldBranchTrace DEF Known, Situation

\* Whatever the program, the calls, jumps and skips of the compared
\* instructions that the testbench infers from the controller's states and
\* the program counter are the golden model's.
THEOREM BranchTracesAgree == TraceSpec /\ []Regular /\ LampLit => BranchTraceAgrees
<1>1. TraceInit => BranchTraced
  BY DEF TraceInit, HInit, Init, BranchTraced, SkipStates, Underway
<1> QED
  BY <1>1, AlwaysKnown, BranchTracedStep, BranchTraceStep, SituationHolds, PTL
     DEF TraceSpec, LampLit, BranchTraceAgrees, allVars

-----------------------------------------------------------------------------
\* The opcode trace through the states of an instruction.

LEMMA OpcodeTracedGoes ==
  ASSUME Known, BranchTraced, OpcodeTraced, NEW i \in Inputs, Goes(i), state' # "CPU_IDLE"
  PROVE  OpcodeTraced'
<1>1. /\ Record(TRUE) /\ state # "CPU_IDLE" /\ Moves /\ Loads /\ begun' = begun
      /\ Instr' = Instr /\ Following' = Following /\ Effective' = Effective /\ arch' = arch
  BY GoesOn, ControllerMoves DEF Goes, Known, Situation, Frozen, Record
<1>2. begun'.mb \in Word /\ begun'.ea \in Word
  BY <1>1 DEF OpcodeTraced
<1>3. /\ state' \in FetchStates \cup {"DECODE", "MIC_1", "MIC_2", "CAL_EA_1"} =>
           reg'.mb = begun'.mb /\ reg'.ea = begun'.ea
      /\ state' \in AddressStates \cup FirstRefs => reg'.mb = begun'.mb
  BY <1>1 DEF OpcodeTraced, Moves, Loads
<1>4. state' \in RefStates => reg'.ea = Effective'
  <2>1. state \in FirstRefs => reg.ea = Effective
    BY DEF Known, Situation, Doing, Addresses
  <2> QED
    BY <1>1, <2>1 DEF OpcodeTraced, Loads
<1>5. state' = "DCA_3" => reg'.mb = arch'.ac
  <2>1. state = "DCA_2" => writeData = arch.ac
    BY DEF Known, Situation, Doing, References
  <2> QED
    BY <1>1, <2>1 DEF Loads
<1>6. state' \in Underway => opcode_trace' = <<>>
  <2> SUFFICES ASSUME state' \in Underway PROVE opcode_trace' = <<>>
    OBVIOUS
  <2>1. state \in Underway /\ ~Resting(state')
    BY <1>1 DEF Moves, Resting, Underway
  <2> QED
    BY <1>1, <2>1 DEF Record, OpcodeTraced
<1>7. state' = "HALT" /\ Instr = HLT =>
        opcode_trace' = <<7, arch.ac, arch.lk, begun.mb, Following, begun.ea>>
  <2> SUFFICES ASSUME state' = "HALT", Instr = HLT
               PROVE  opcode_trace' = <<7, arch.ac, arch.lk, begun.mb, Following, begun.ea>>
    OBVIOUS
  <2>1. ~Mic2
    BY DEF Mic2, Go, BranchTraced
  <2>2. state = "DECODE" /\ reg' = reg
    BY <1>1, <2>1 DEF Moves, DecodeHalt, Go
  <2>3. /\ reg.ir = HLT /\ reg.ac = arch.ac /\ reg.lk = arch.lk /\ reg.pc = Following
        /\ reg.mb = begun.mb /\ reg.ea = begun.ea
    BY <2>2 DEF Known, Situation, Doing, Beginning, OpcodeTraced
  <2>4. opcode_trace' = write_opcode(reg)
    BY <1>1, <2>2 DEF Record, Resting, OpcodeLine, write_opcode
  <2>5. Opcode(HLT) = 7
    BY SkipWords DEF HLT
  <2> QED
    BY <2>3, <2>4, <2>5 DEF write_opcode
<1> QED
  BY <1>1, <1>2, <1>3, <1>4, <1>5, <1>6, <1>7 DEF OpcodeTraced

LEMMA OpcodeTracedStep == Known /\ BranchTraced /\ OpcodeTraced => OpcodeTraced'
<1> SUFFICES ASSUME Known, BranchTraced, OpcodeTraced PROVE OpcodeTraced'
  OBVIOUS
<1>1. ASSUME NEW i \in Inputs, Begins(i)
      PROVE  OpcodeTraced'
  <2>1. /\ begun'.mb = reg.mb /\ begun'.ea = reg.ea /\ opcode_trace' = <<>>
        /\ reg' = reg
    BY <1>1 DEF Begins, NewTraces, CpuIdle
  <2>2. reg.mb \in Word /\ reg.ea \in Word
    BY DEF Known, Situation, TypeOK, ControlTypeOK, Registers
  <2>3. state' \in {"CPU_IDLE", "FETCH_1"} \cup PanelStates
    BY <1>1 DEF Begins, CpuIdle, IdleSuccessor, Go
  <2> QED
    BY <2>1, <2>2, <2>3 DEF OpcodeTraced, Underway
<1>2. ASSUME NEW i \in Inputs, Goes(i)
      PROVE  OpcodeTraced'
  <2>1. CASE state' = "CPU_IDLE"
    <3>1. begun' = begun
      BY <1>2 DEF Goes, Record
    <3> QED
      BY <2>1, <3>1 DEF OpcodeTraced, Underway
  <2>2. CASE state' # "CPU_IDLE"
    BY <1>2, <2>2, OpcodeTracedGoes
  <2> QED
    BY <2>1, <2>2
<1>5. ASSUME NEW i \in Inputs, Works(i)
      PROVE  OpcodeTraced'
  BY <1>5, WorksOn DEF OpcodeTraced, PanelStates, Underway
<1>3. CASE Resets
  BY <1>3 DEF Resets, traceVars, OpcodeTraced, Underway
<1>4. CASE Rests
  <2>1. /\ state' = state /\ reg' = reg /\ opcode_trace' = opcode_trace /\ begun' = begun
        /\ Instr' = Instr /\ Following' = Following /\ Effective' = Effective /\ arch' = arch
    BY <1>4, Freezes DEF Rests, traceVars, Frozen
  <2> QED
    BY <2>1 DEF OpcodeTraced
<1> QED
  BY <1>1, <1>2, <1>3, <1>4, <1>5, Edges

-----------------------------------------------------------------------------
\* The opcode trace of both when the instruction ends.

\* The golden model's instruction does the same whatever the switches and
\* whatever MB and CPMA it starts with, but for these two.
GoldMB(before) == IF Opcode(Instr) <= 5 THEN ReferredMB(before) ELSE before
GoldEA(before) == IF Opcode(Instr) <= 5 THEN Effective ELSE before

LEMMA GoldSame ==
  ASSUME ArchTyped, ComparedWord, NEW r1, NEW r2, r2.b \in Word, r2.c \in Word
  PROVE  /\ Machine!FromGolden(Machine!Execute(Start(r1)), arch.mq)
              = Machine!FromGolden(Machine!Execute(Start(r2)), arch.mq)
         /\ Machine!Cut(Machine!Execute(Start(r2)).mb) = GoldMB(r2.b)
         /\ Machine!Cut(Machine!Execute(Start(r2)).cpma) = GoldEA(r2.c)
<1> DEFINE x == Machine!FromGolden(Machine!Execute(Start(r1)), arch.mq)
           y == Machine!FromGolden(Machine!Execute(Start(r2)), arch.mq)
           e == Machine!Execute(Start(r2))
<1>1. Opcode(Instr) \in {0, 1, 2, 3, 4, 5, 7}
  BY OperandTyped, FieldsAreWords DEF ComparedWord
<1>2. r2.b % 4096 = r2.b /\ r2.c % 4096 = r2.c
  BY CutWord
<1>3. CASE Opcode(Instr) <= 5
  <2> DEFINE b == Programmer(ReferredAC, ReferredLK, arch.mq, ReferredPC, Executed)
  <2>1. x = b /\ y = b
    BY <1>3, GoldRefers
  <2>2. e.mb % 4096 = ReferredMB(r2.b) /\ e.cpma % 4096 = Effective
    BY <1>2, <1>3, GoldRefers
  <2> HIDE DEF x, y, e, b
  <2>3. x = y /\ Machine!Cut(e.mb) = GoldMB(r2.b) /\ Machine!Cut(e.cpma) = GoldEA(r2.c)
    BY <1>3, <2>1, <2>2 DEF GoldMB, GoldEA, Machine!Cut
  <2> QED
    BY <2>3 DEF x, y, e
<1>4. CASE Opcode(Instr) = 7 /\ Group1(Instr)
  <2> DEFINE c == Pipeline(Instr, arch.ac, arch.lk, 0)
             p == arch.pc + 1
             b == Programmer(c.ac, c.lk, arch.mq, p % 4096, arch.mem)
  <2>1. /\ Machine!Execute(Start(r1)) = Full(c.ac, c.lk, p, r1.sw, r1.c, r1.b, arch.mem, No)
        /\ e = Full(c.ac, c.lk, p, r2.sw, r2.c, r2.b, arch.mem, No)
    BY <1>4, GoldOperates DEF ComparedWord, Gold
  <2> HIDE DEF c, p
  <2>2. x = b
    BY <2>1, FromFull
  <2>3. y = b
    BY <2>1, FromFull
  <2>4. e.mb = r2.b /\ e.cpma = r2.c
    BY <2>1, FullReads
  <2> HIDE DEF x, y, e, b
  <2>5. x = y /\ Machine!Cut(e.mb) = GoldMB(r2.b) /\ Machine!Cut(e.cpma) = GoldEA(r2.c)
    BY <1>2, <1>4, <2>2, <2>3, <2>4 DEF GoldMB, GoldEA, Machine!Cut
  <2> QED
    BY <2>5 DEF x, y, e
<1>5. CASE Opcode(Instr) = 7 /\ Group2(Instr)
  <2> DEFINE b == Programmer(IF On(Instr, 7) THEN 0 ELSE arch.ac, arch.lk, arch.mq,
                             IF Skip(Instr, arch.ac, arch.lk) THEN Inc(Following) ELSE Following,
                             arch.mem)
  <2>1. x = b /\ y = b /\ e.mb = r2.b /\ e.cpma = r2.c
    BY <1>5, GoldGroup2 DEF ComparedWord
  <2> HIDE DEF x, y, e, b
  <2>2. x = y /\ Machine!Cut(e.mb) = GoldMB(r2.b) /\ Machine!Cut(e.cpma) = GoldEA(r2.c)
    BY <1>2, <1>5, <2>1 DEF GoldMB, GoldEA, Machine!Cut
  <2> QED
    BY <2>2 DEF x, y, e
<1> QED
  BY <1>1, <1>3, <1>4, <1>5 DEF ComparedWord, Group1, Group2, Group3

\* The registers when the instruction has ended are the golden model's.
LEMMA EndsAlike ==
  ASSUME Known, BranchTraced, Compared
  PROVE  \E sw : arch' = Machine!FromGolden(Machine!Execute(Start(Switches(sw))), arch.mq)
<1>1. PICK i \in Inputs : Goes(i)
  BY EndsCompared
<1>2. ComparedWord /\ Machine!Next
  BY <1>1, EndsCompared, ClockImplements DEF Goes, Known, Situation, Compared
<1>3. event'.kind = "instruction"
  BY <1>1 DEF Goes, HClock, Watch, Compared
<1>4. Machine!Performs(arch', event'.sw, event'.io, event'.halts)
  BY <1>2, <1>3 DEF Machine!Next, Machine!Instruction, Machine!LoadPC, Machine!LoadAC,
     Machine!Deposit, Machine!Examine, Machine!Reset, Machine!Happens
<1> DEFINE sw == event'.sw
           b == arch'
           g == Machine!Execute(Machine!ToGolden(arch, sw))
<1>5. g = Machine!Execute(Start(Switches(sw))) /\ Machine!ir = Instr
  BY GoldStarts DEF Known, Situation
<1>6. b = Machine!FromGolden(g, arch.mq)
  <2> HIDE DEF b, g
  <2> QED
    BY <1>2, <1>4, <1>5, SameOperators DEF Machine!Performs, ComparedWord, Group3, b, g
<1> QED
  BY <1>5, <1>6

\* MB and the effective address when the instruction has ended.
LEMMA EndsBuffers ==
  ASSUME Known, BranchTraced, OpcodeTraced, Compared, state # "HALT"
  PROVE  reg'.mb = GoldMB(begun.mb) /\ reg'.ea = GoldEA(begun.ea)
<1>1. /\ state \in LastStates
      /\ state = "JMS_2" => Jms2
  BY EndsCompared
<1>2. Loads
  BY EndsCompared, ControllerMoves DEF Goes, HClock, Clock, Known, Situation
<1>3. CASE state \in {"AND_3", "TAD_3", "ISZ_6", "DCA_3"}
  <2>1. /\ reg'.ea = Effective
        /\ reg'.mb = CASE state = "ISZ_6" -> Inc(Operand)
                       [] state = "DCA_3" -> arch.ac
                       [] OTHER -> Operand
    BY <1>2, <1>3 DEF Loads, OpcodeTraced, Known, Situation, Doing, References
  <2>2. /\ state \in {"AND_3", "TAD_3"} => Opcode(Instr) \in {0, 1}
        /\ state = "ISZ_6" => Opcode(Instr) = 2
        /\ state = "DCA_3" => Opcode(Instr) = 3
    BY <1>3 DEF Known, Situation, Doing, References
  <2> QED
    BY <1>3, <2>1, <2>2 DEF GoldMB, GoldEA, ReferredMB
<1>4. CASE state = "JMS_2"
  <2>1. reg'.mb = Following /\ reg'.ea = Effective /\ Opcode(Instr) = 4
    BY <1>1, <1>2, <1>4 DEF Jms2, Loads, OpcodeTraced, Known, Situation, Doing, References, TypeOK,
       ControlTypeOK, Registers
  <2> QED
    BY <2>1 DEF GoldMB, GoldEA, ReferredMB
<1>5. CASE state = "JMP_1"
  <2>1. reg'.mb = begun.mb /\ reg'.ea = Effective
    BY <1>2, <1>5 DEF Loads, OpcodeTraced, Known, Situation, Doing, Addresses
  <2>2. Opcode(Instr) = 5
    BY <1>5, FirstOfReference, OperandTyped, FieldsAreWords DEF Known, Situation, Doing, Addresses
  <2> QED
    BY <2>1, <2>2 DEF GoldMB, GoldEA, ReferredMB
<1>6. CASE state \in {"MIC_1", "MIC_2"}
  <2>1. reg'.mb = begun.mb /\ reg'.ea = begun.ea /\ Opcode(Instr) = 7
    BY <1>2, <1>6 DEF Loads, OpcodeTraced, Known, Situation, Doing, Microinstructions
  <2> QED
    BY <2>1 DEF GoldMB, GoldEA
<1> QED
  BY <1>1, <1>3, <1>4, <1>5, <1>6 DEF LastStates

LEMMA OpcodeTraceStep ==
  Known /\ BranchTraced /\ OpcodeTraced
    => [Compared => opcode_trace' = Machine!OpcodeTrace(Before)]_allVars
<1> SUFFICES ASSUME Known, BranchTraced, OpcodeTraced, Compared
             PROVE  opcode_trace' = Machine!OpcodeTrace(Before)
  OBVIOUS
<1> DEFINE rest == [sw |-> 0, c |-> begun.ea, b |-> begun.mb]
           g == Start(rest)
           e == Machine!Execute(g)
<1>1. /\ ComparedWord /\ reg.ir = Instr /\ state \in LastStates
      /\ state = "HALT" => Instr = HLT
  BY EndsCompared
<1>2. PICK i \in Inputs : Goes(i)
  BY EndsCompared
<1>3. Before = g /\ Machine!CurrentInstruction(g) = Instr
  BY BeforeStarts, GoldStarts DEF Known, Situation
<1>4. /\ arch' = Machine!FromGolden(e, arch.mq)
      /\ Machine!Cut(e.mb) = GoldMB(begun.mb) /\ Machine!Cut(e.cpma) = GoldEA(begun.ea)
  <2>1. PICK sw : arch' = Machine!FromGolden(Machine!Execute(Start(Switches(sw))), arch.mq)
    BY EndsAlike
  <2>2. rest.b = begun.mb /\ rest.c = begun.ea /\ begun.mb \in Word /\ begun.ea \in Word
    BY DEF OpcodeTraced
  <2> HIDE DEF rest
  <2> QED
    BY <1>1, <2>1, <2>2, GoldSame DEF Known, Situation
<1>5. /\ Machine!Cut(e.ac) = arch'.ac /\ e.lk = arch'.lk /\ Machine!Cut(e.pc) = arch'.pc
  <2>1. arch'.ac = e.ac /\ arch'.lk = e.lk /\ arch'.pc = Machine!Cut(e.pc)
    <3> HIDE DEF e
    <3> QED
      BY <1>4 DEF Machine!FromGolden
  <2>2. arch'.ac % 4096 = arch'.ac
    BY CutWord DEF Known, Situation, ArchTyped
  <2> QED
    BY <2>1, <2>2 DEF Machine!Cut
<1>6. Machine!OpcodeTrace(Before)
        = <<Opcode(Instr), arch'.ac, arch'.lk, GoldMB(begun.mb), arch'.pc, GoldEA(begun.ea)>>
  <2> HIDE DEF g
  <2> QED
    BY <1>3, <1>4, <1>5, SameOperators DEF Machine!OpcodeTrace
<1>7. arch'.ac = reg'.ac /\ arch'.lk = reg'.lk /\ arch'.pc = reg'.pc
  BY <1>2 DEF Goes, HClock, Watch, Visible, Compared
<1>8. CASE state # "HALT"
  <2>1. reg'.ir = Instr
    BY <1>1, <1>2, ControllerMoves DEF Goes, HClock, Clock, Known, Situation, Loads
  <2>2. opcode_trace' = write_opcode(reg')
    BY <1>2, <1>8 DEF Goes, Record, Resting, Compared, OpcodeLine
  <2> QED
    BY <1>6, <1>7, <1>8, <2>1, <2>2, EndsBuffers DEF write_opcode
<1>9. CASE state = "HALT"
  <2>1. opcode_trace' = <<7, arch.ac, arch.lk, begun.mb, Following, begun.ea>>
    BY <1>1, <1>2, <1>9 DEF Goes, Record, Resting, OpcodeTraced
  <2>2. Opcode(Instr) = 7 /\ ~On(Instr, 7) /\ ~Skip(Instr, arch.ac, arch.lk)
    BY <1>1, <1>9, HaltWord DEF HLT
  <2>3. reg' = reg
    BY <1>2, <1>9, FirstStatesNamed
       DEF Goes, HClock, Clock, Controller, Console, Fetch, EffectiveAddress, MemoryReference,
           InputOutput, Microcoded, RegInit, CpuIdle, SrChg1, SrChg2, LdPc1, LdAc1, Dep1, Dep2,
           Fetch1, Fetch2, Fetch3, DecodeHalt, Decode, Halt, CalEa1, EaInd1, EaInd2, EaAut1,
           EaAut2, EaAut3, EaAut4, EaAut5, And1, And2, And3, Tad1, Tad2, Tad3, Isz1, Isz2, Isz3,
           Isz4, Isz5, Isz6, Dca1, Dca2, Dca3, Jms1, Jms2, Jmp1, AddressOperand, ReadOperand,
           Iot1, Iot2, Iot3, Iot4, Iot5, Iot6, Mic1, Mic2, Mic3, Mic4, Mic5, Mic6, Mic7, Mic8,
           Mic9, Go, Await
  <2>4. reg.ac = arch.ac /\ reg.lk = arch.lk /\ reg.pc = Following
    BY <1>9, <2>2 DEF Known, Situation, Doing, Halting
  <2>5. GoldMB(begun.mb) = begun.mb /\ GoldEA(begun.ea) = begun.ea
    BY <2>2 DEF GoldMB, GoldEA
  <2> QED
    BY <1>6, <1>7, <2>1, <2>2, <2>3, <2>4, <2>5
<1> QED
  BY <1>8, <1>9

\* Whatever the program, when the idle lamp lights after a compared
\* instruction, the registers the testbench writes down are the golden
\* model's, MB and the effective address included.
THEOREM OpcodeTracesAgree == TraceSpec /\ []Regular /\ LampLit => OpcodeTraceAgrees
<1>1. TraceInit => BranchTraced /\ OpcodeTraced
  <2> SUFFICES ASSUME TraceInit PROVE BranchTraced /\ OpcodeTraced
    OBVIOUS
  <2>1. /\ state = "CPU_IDLE" /\ cond_skip_flag = FALSE
        /\ begun.mb = reg.mb /\ begun.ea = reg.ea
    BY DEF TraceInit, HInit, Init
  <2>2. reg \in Registers
    BY PowerUpAssumption DEF TraceInit, HInit, Init
  <2> QED
    BY <2>1, <2>2 DEF BranchTraced, OpcodeTraced, SkipStates, Underway, Registers
<1>2. Known /\ BranchTraced /\ OpcodeTraced => (BranchTraced /\ OpcodeTraced)'
  BY BranchTracedStep, OpcodeTracedStep
<1> QED
  BY <1>1, <1>2, AlwaysKnown, OpcodeTraceStep, SituationHolds, PTL
     DEF TraceSpec, LampLit, OpcodeTraceAgrees, allVars

=============================================================================
