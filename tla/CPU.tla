-------------------------------- MODULE CPU --------------------------------
(***************************************************************************)
(* The processor: the controller's state machine (Controller.sv), the      *)
(* datapath it steers (CPU.sv), and with them on the same clock the memory *)
(* controller, the EAE and the microinstruction decoder.                   *)
(*                                                                         *)
(* One action per controller state.  An action is what the next rising     *)
(* edge of the clock does in that state: state' is the arm of the          *)
(* next-state logic, reg', address', writeData' and dispout' are what the  *)
(* output logic selects in the datapath multiplexers.  Clock(i) is an edge *)
(* with the inputs i, at which every machine on the bus moves.  The reset  *)
(* is asynchronous: it moves the controller between two edges and nothing  *)
(* else.                                                                   *)
(*                                                                         *)
(* linkout is a copy of the link, kept out; dataout is never driven.       *)
(***************************************************************************)
EXTENDS MemoryController, MicroDecoder

CONSTANTS
  Inputs,      \* the values the input wires take: a set of InputWires
  PowerUpRegs, \* the values the registers power up with
  Programs     \* the contents memory starts with

VARIABLES
  state,      \* Curr_State
  instState,  \* Inst_State, a latch: where the instruction starts
  eaFlag,     \* EA_Flag, a latch: the effective address is a page zero one
  reg,        \* curr_reg
  address, writeData, dispout,  \* the registered outputs of the datapath
  swregTemp,  \* the switch register one clock ago
  srchange,   \* high for the clock after the switch register changed
  heldLink,   \* the decoder's latched link, see MicroDecoder
  resetN,     \* the reset button, active low
  mul, div, eaeOut

Eae == INSTANCE EAE WITH W <- 12, Half <- 2048

latches == <<instState, eaFlag>>
ports == <<address, writeData, dispout>>
eaeVars == <<mul, div, eaeOut>>
cpuVars == <<state, latches, reg, ports, swregTemp, srchange, heldLink>>
vars == <<cpuVars, memVars, eaeVars, resetN>>

Registers == [ac : Word, lk : BitValue, ir : Word, mq : Word,
              pc : Word, mb : Word, ea : Word]

InputWires == [run : BOOLEAN, step : BOOLEAN, loadpc : BOOLEAN,
               loadac : BOOLEAN, deposit : BOOLEAN, dispsel : 0 .. 3,
               swreg : Word, skipFlag : BOOLEAN, clearacc : BOOLEAN,
               datain : 0 .. 255]

ASSUME InputsAssumption == Inputs \subseteq InputWires
ASSUME PowerUpAssumption == PowerUpRegs \subseteq Registers
ASSUME ProgramsAssumption ==
  \A m \in Programs : DOMAIN m \subseteq Word /\ \A a \in DOMAIN m : m[a] \in Word

\* The states that hold read_enable high, and those that hold write_enable high.
ReadStates == {"SR_CHG_2", "FETCH_2", "EA_IND_2", "EA_AUT_2",
               "AND_2", "TAD_2", "ISZ_2", "MIC_7"}
WriteStates == {"DEP_2", "EA_AUT_4", "ISZ_5", "DCA_2", "JMS_2"}

\* Where an instruction starts: DECODE's case on the operation code.
FirstStates == <<"AND_1", "TAD_1", "ISZ_1", "DCA_1", "JMS_1", "JMP_1", "IOT_1", "MIC_1">>

States == ReadStates \cup WriteStates \cup
          {FirstStates[k] : k \in 1 .. 8} \cup
          {"REG_INIT", "CPU_IDLE", "SR_CHG_1", "FETCH_1", "FETCH_3", "DECODE",
           "LD_PC_1", "LD_AC_1", "DEP_1", "CAL_EA_1", "EA_IND_1", "EA_AUT_1",
           "EA_AUT_3", "EA_AUT_5", "AND_3", "TAD_3", "ISZ_3", "ISZ_4", "ISZ_6",
           "DCA_3", "IOT_2", "IOT_3", "IOT_4", "IOT_5", "IOT_6", "MIC_2",
           "MIC_3", "MIC_4", "MIC_5", "MIC_6", "MIC_8", "MIC_9", "HALT"}

readData == ReadData(address)

\* A state that lasts one clock.
Go(s, t) == state = s /\ state' = t

\* A mutant: the wait is not one.
AwaitNothing(s, t) == state = s /\ state' = t
\* A state that lasts until memory has answered.
Await(s, t) == state = s /\ state' = IF MemFinished THEN t ELSE s

-----------------------------------------------------------------------------
\* Reset and the front panel.

\* A mutant: MQ is not cleared.
RegInitKeepsMQ ==
  /\ Go("REG_INIT", IF resetN THEN "CPU_IDLE" ELSE "REG_INIT")
  /\ reg' = [ac |-> 0, lk |-> 0, ir |-> 0, mq |-> reg.mq, pc |-> 0, mb |-> 0, ea |-> 0]
  /\ writeData' = 0
  /\ UNCHANGED <<latches, address, dispout>>

\* The state is asynchronously held here for as long as resetN is low.
RegInit ==
  /\ Go("REG_INIT", IF resetN THEN "CPU_IDLE" ELSE "REG_INIT")
  /\ reg' = [ac |-> 0, lk |-> 0, ir |-> 0, mq |-> 0, pc |-> 0, mb |-> 0, ea |-> 0]
  /\ writeData' = 0
  /\ UNCHANGED <<latches, address, dispout>>

\* dispsel chooses what the display shows while the machine is idle.
Displayed(dispsel) == <<reg.pc, reg.ac, reg.mq, reg.mb>>[dispsel + 1]

\* The priority of the requests.
IdleSuccessor(i) ==
  IF i.run \/ i.step THEN "FETCH_1"
  ELSE IF srchange THEN "SR_CHG_1"
  ELSE IF i.loadpc THEN "LD_PC_1"
  ELSE IF i.loadac THEN "LD_AC_1"
  ELSE IF i.deposit THEN "DEP_1" ELSE "CPU_IDLE"

CpuIdle(i) ==
  /\ Go("CPU_IDLE", IdleSuccessor(i))
  /\ dispout' = Displayed(i.dispsel)
  /\ UNCHANGED <<latches, reg, address, writeData>>

SrChg1(i) ==
  /\ Go("SR_CHG_1", "SR_CHG_2")
  /\ address' = i.swreg
  /\ UNCHANGED <<latches, reg, writeData, dispout>>

SrChg2 ==
  /\ Await("SR_CHG_2", "CPU_IDLE")
  /\ UNCHANGED <<latches, reg, ports>>

LdPc1(i) ==
  /\ Go("LD_PC_1", "CPU_IDLE")
  /\ reg' = [reg EXCEPT !.pc = i.swreg]
  /\ UNCHANGED <<latches, ports>>

LdAc1(i) ==
  /\ Go("LD_AC_1", "CPU_IDLE")
  /\ reg' = [reg EXCEPT !.ac = i.swreg]
  /\ UNCHANGED <<latches, ports>>

Dep1(i) ==
  /\ Go("DEP_1", "DEP_2")
  /\ address' = reg.pc
  /\ writeData' = i.swreg
  /\ UNCHANGED <<latches, reg, dispout>>

\* A mutant: pc has a thirteenth bit.
Dep2NoWrap ==
  /\ Await("DEP_2", "CPU_IDLE")
  /\ reg' = [reg EXCEPT !.pc = IF MemFinished THEN @ + 1 ELSE @]
  /\ UNCHANGED <<latches, ports>>

\* A mutant: pc moves on at every clock of the wait.
Dep2EveryClock ==
  /\ Await("DEP_2", "CPU_IDLE")
  /\ reg' = [reg EXCEPT !.pc = Inc(@)]
  /\ UNCHANGED <<latches, ports>>

Dep2 ==
  /\ Await("DEP_2", "CPU_IDLE")
  /\ reg' = [reg EXCEPT !.pc = IF MemFinished THEN Inc(@) ELSE @]
  /\ UNCHANGED <<latches, ports>>

Console(i) == RegInit \/ CpuIdle(i) \/ SrChg1(i) \/ SrChg2
              \/ LdPc1(i) \/ LdAc1(i) \/ Dep1(i) \/ Dep2

-----------------------------------------------------------------------------
\* Fetch and decode.

Fetch1 ==
  /\ Go("FETCH_1", "FETCH_2")
  /\ address' = reg.pc
  /\ UNCHANGED <<latches, reg, writeData, dispout>>

\* A mutant: pc moves on here, as in DEP_2, and in FETCH_3.
Fetch2Increments ==
  /\ Await("FETCH_2", "FETCH_3")
  /\ reg' = [reg EXCEPT !.pc = IF MemFinished THEN Inc(@) ELSE @]
  /\ UNCHANGED <<latches, ports>>

Fetch2 ==
  /\ Await("FETCH_2", "FETCH_3")
  /\ UNCHANGED <<latches, reg, ports>>

Fetch3 ==
  /\ Go("FETCH_3", "DECODE")
  /\ reg' = [reg EXCEPT !.ir = readData, !.pc = Inc(@)]
  /\ UNCHANGED <<latches, ports>>

HLT == \o7402

DecodeHalt ==
  /\ reg.ir = HLT
  /\ Go("DECODE", "HALT")
  /\ UNCHANGED <<latches, reg, ports>>

Decode ==
  /\ reg.ir # HLT
  /\ instState' = FirstStates[Opcode(reg.ir) + 1]
  /\ Go("DECODE", IF Opcode(reg.ir) <= 5 THEN "CAL_EA_1" ELSE instState')
  /\ UNCHANGED <<eaFlag, reg, ports>>

Halt ==
  /\ Go("HALT", "CPU_IDLE")
  /\ UNCHANGED <<latches, reg, ports>>

Fetch == Fetch1 \/ Fetch2 \/ Fetch3 \/ DecodeHalt \/ Decode \/ Halt

-----------------------------------------------------------------------------
\* The effective address of a memory reference instruction.

\* pc has already moved past the instruction.
CalEa1 ==
  /\ Go("CAL_EA_1", IF On(reg.ir, 8) THEN "EA_IND_1" ELSE instState)
  /\ eaFlag' = ~On(reg.ir, 7)
  /\ reg' = [reg EXCEPT !.ea = IF On(reg.ir, 7) THEN Page(reg.pc) + Offset(reg.ir)
                                                ELSE Offset(reg.ir)]
  /\ UNCHANGED <<instState, ports>>

EaInd1 ==
  /\ Go("EA_IND_1", IF AutoIndex(reg.ea) THEN "EA_AUT_1" ELSE "EA_IND_2")
  /\ address' = reg.ea
  /\ UNCHANGED <<latches, reg, writeData, dispout>>

EaInd2 ==
  /\ Await("EA_IND_2", instState)
  /\ reg' = [reg EXCEPT !.ea = IF MemFinished THEN readData ELSE @]
  /\ UNCHANGED <<latches, ports>>

EaAut1 ==
  /\ Go("EA_AUT_1", "EA_AUT_2")
  /\ address' = reg.ea
  /\ eaFlag' = FALSE
  /\ UNCHANGED <<instState, reg, writeData, dispout>>

EaAut2 ==
  /\ Await("EA_AUT_2", "EA_AUT_3")
  /\ UNCHANGED <<latches, reg, ports>>

EaAut3 ==
  /\ Go("EA_AUT_3", "EA_AUT_4")
  /\ writeData' = Inc(readData)
  /\ UNCHANGED <<latches, reg, address, dispout>>

EaAut4 ==
  /\ Await("EA_AUT_4", "EA_AUT_5")
  /\ UNCHANGED <<latches, reg, ports>>

EaAut5 ==
  /\ Go("EA_AUT_5", instState)
  /\ reg' = [reg EXCEPT !.ea = writeData]
  /\ UNCHANGED <<latches, ports>>

EffectiveAddress == CalEa1 \/ EaInd1 \/ EaInd2 \/ EaAut1 \/ EaAut2
                    \/ EaAut3 \/ EaAut4 \/ EaAut5

-----------------------------------------------------------------------------
\* The memory reference instructions.

\* AND_1, TAD_1 and ISZ_1 put the effective address on the address wires.
AddressOperand(s, t) ==
  /\ Go(s, t)
  /\ address' = reg.ea
  /\ UNCHANGED <<latches, reg, writeData, dispout>>

\* While a read is awaited the memory buffer follows read_data.
ReadOperand(s, t) ==
  /\ Await(s, t)
  /\ reg' = [reg EXCEPT !.mb = readData]
  /\ UNCHANGED <<latches, ports>>

And1 == AddressOperand("AND_1", "AND_2")
And2 == ReadOperand("AND_2", "AND_3")
And3 ==
  /\ Go("AND_3", "CPU_IDLE")
  /\ reg' = [reg EXCEPT !.ac = And(@, reg.mb)]
  /\ UNCHANGED <<latches, ports>>

\* A carry out of the accumulator complements the link.
Tad1 == AddressOperand("TAD_1", "TAD_2")
Tad2 == ReadOperand("TAD_2", "TAD_3")
Tad3 ==
  /\ Go("TAD_3", "CPU_IDLE")
  /\ LET sum == reg.ac + reg.mb
     IN  reg' = [reg EXCEPT !.ac = sum % 4096,
                            !.lk = IF sum > 4095 THEN 1 - @ ELSE @]
  /\ UNCHANGED <<latches, ports>>

Isz1 == AddressOperand("ISZ_1", "ISZ_2")
Isz2 == ReadOperand("ISZ_2", "ISZ_3")
Isz3 ==
  /\ Go("ISZ_3", "ISZ_4")
  /\ reg' = [reg EXCEPT !.mb = Inc(@)]
  /\ UNCHANGED <<latches, ports>>
Isz4 ==
  /\ Go("ISZ_4", "ISZ_5")
  /\ writeData' = reg.mb
  /\ UNCHANGED <<latches, reg, address, dispout>>
Isz5 ==
  /\ Await("ISZ_5", "ISZ_6")
  /\ UNCHANGED <<latches, reg, ports>>
Isz6 ==
  /\ Go("ISZ_6", "CPU_IDLE")
  /\ reg' = [reg EXCEPT !.pc = IF reg.mb = 0 THEN Inc(@) ELSE @]
  /\ UNCHANGED <<latches, ports>>

Dca1 ==
  /\ Go("DCA_1", "DCA_2")
  /\ address' = reg.ea
  /\ writeData' = reg.ac
  /\ UNCHANGED <<latches, reg, dispout>>
Dca2 ==
  /\ Await("DCA_2", "DCA_3")
  /\ reg' = [reg EXCEPT !.mb = writeData]
  /\ UNCHANGED <<latches, ports>>
Dca3 ==
  /\ Go("DCA_3", "CPU_IDLE")
  /\ reg' = [reg EXCEPT !.ac = 0]
  /\ UNCHANGED <<latches, ports>>

Jms1 ==
  /\ Go("JMS_1", "JMS_2")
  /\ address' = reg.ea
  /\ writeData' = reg.pc
  /\ UNCHANGED <<latches, reg, dispout>>
Jms2 ==
  /\ Await("JMS_2", "CPU_IDLE")
  /\ reg' = [reg EXCEPT !.mb = writeData, !.pc = Inc(reg.ea)]
  /\ UNCHANGED <<latches, ports>>

\* With eaFlag the program counter is loaded from read_data, otherwise from
\* the effective address register.
Jmp1 ==
  /\ Go("JMP_1", "CPU_IDLE")
  /\ reg' = [reg EXCEPT !.pc = IF eaFlag THEN readData ELSE reg.ea]
  /\ UNCHANGED <<latches, ports>>

MemoryReference == And1 \/ And2 \/ And3 \/ Tad1 \/ Tad2 \/ Tad3
                   \/ Isz1 \/ Isz2 \/ Isz3 \/ Isz4 \/ Isz5 \/ Isz6
                   \/ Dca1 \/ Dca2 \/ Dca3 \/ Jms1 \/ Jms2 \/ Jmp1

-----------------------------------------------------------------------------
\* Input-output transfer: the signals of the IOT distributor.

Iot1(i) ==
  /\ Go("IOT_1", IF On(reg.ir, 0) THEN "IOT_6" ELSE "IOT_2")
  /\ reg' = [reg EXCEPT !.pc = IF On(reg.ir, 0) /\ i.skipFlag THEN Inc(@) ELSE @]
  /\ UNCHANGED <<latches, ports>>

Iot2(i) ==
  /\ Go("IOT_2", "IOT_3")
  /\ reg' = [reg EXCEPT !.ac = IF i.clearacc THEN 0 ELSE @]
  /\ dispout' = IF i.clearacc THEN dispout ELSE reg.ac
  /\ UNCHANGED <<latches, address, writeData>>

Iot3(i) ==
  /\ Go("IOT_3", IF i.clearacc THEN "IOT_4" ELSE "IOT_5")
  /\ reg' = [reg EXCEPT !.ac = IF i.clearacc THEN Or(@, i.datain) ELSE @]
  /\ dispout' = IF i.clearacc THEN dispout ELSE reg.ac
  /\ UNCHANGED <<latches, address, writeData>>

Iot4(i) ==
  /\ Go("IOT_4", "IOT_5")
  /\ reg' = [reg EXCEPT !.ac = Or(@, i.datain)]
  /\ UNCHANGED <<latches, ports>>

Iot5 ==
  /\ Go("IOT_5", "CPU_IDLE")
  /\ dispout' = reg.ac
  /\ UNCHANGED <<latches, reg, address, writeData>>

\* No arm of either case names IOT_6: the defaults apply.
Iot6 ==
  /\ Go("IOT_6", "CPU_IDLE")
  /\ UNCHANGED <<latches, reg, ports>>

InputOutput(i) == Iot1(i) \/ Iot2(i) \/ Iot3(i) \/ Iot4(i) \/ Iot5 \/ Iot6

-----------------------------------------------------------------------------
\* The microcoded instructions.

micro == Micro(reg.ir, reg.ac, reg.lk, heldLink)

Mic1 ==
  /\ Go("MIC_1", IF Group1(reg.ir) THEN "CPU_IDLE"
                 ELSE IF Group2(reg.ir) THEN "MIC_2" ELSE "MIC_3")
  /\ reg' = IF Group1(reg.ir) THEN [reg EXCEPT !.ac = micro.ac, !.lk = micro.lk] ELSE reg
  /\ UNCHANGED <<latches, ports>>

\* The arms that would load or OR the switch register compare with constants
\* that are never equal ({micro_g2, ...} == 7'b11????1 and == 1).
Mic2 ==
  /\ Go("MIC_2", IF On(reg.ir, 1) THEN "HALT" ELSE "CPU_IDLE")
  /\ reg' = [reg EXCEPT !.ac = micro.ac,
                        !.pc = IF Skip(reg.ir, reg.ac, reg.lk) THEN Inc(@) ELSE @]
  /\ UNCHANGED <<latches, ports>>

Mic3 ==
  /\ Go("MIC_3", "MIC_4")
  /\ reg' = [reg EXCEPT !.ac = IF Group3(reg.ir) /\ On(reg.ir, 7) THEN 0 ELSE @]
  /\ UNCHANGED <<latches, ports>>

\* The swap arm compares with 4'b11?1, which is never equal.
Mic4 ==
  /\ Go("MIC_4", "MIC_5")
  /\ reg' = IF ~Group3(reg.ir) THEN reg
            ELSE IF On(reg.ir, 6) THEN [reg EXCEPT !.ac = Or(@, reg.mq)]
            ELSE IF On(reg.ir, 4) THEN [reg EXCEPT !.mq = reg.ac, !.ac = 0]
            ELSE reg
  /\ UNCHANGED <<latches, ports>>

Mic5 ==
  /\ Go("MIC_5", IF Group3(reg.ir) /\ On(reg.ir, 2) THEN "MIC_6" ELSE "MIC_9")
  /\ UNCHANGED <<latches, reg, ports>>

Mic6 ==
  /\ Go("MIC_6", "MIC_7")
  /\ address' = Inc(reg.pc)
  /\ reg' = [reg EXCEPT !.pc = Inc(@)]
  /\ UNCHANGED <<latches, writeData, dispout>>

Mic7 == ReadOperand("MIC_7", "MIC_8")

\* A mutant: eae_fin is not waited for.
Mic8Impatient ==
  /\ Go("MIC_8", "MIC_9")
  /\ UNCHANGED <<latches, reg, ports>>

Mic8 ==
  /\ Go("MIC_8", IF Eae!EaeFinished THEN "MIC_9" ELSE "MIC_8")
  /\ UNCHANGED <<latches, reg, ports>>

Mic9 ==
  /\ Go("MIC_9", "CPU_IDLE")
  /\ reg' = IF ~On(reg.ir, 2) THEN reg
            ELSE IF On(reg.ir, 1)
              THEN [reg EXCEPT !.ac = eaeOut.acDvi, !.mq = eaeOut.mqDvi, !.lk = div.link]
              ELSE [reg EXCEPT !.ac = eaeOut.acMul, !.mq = eaeOut.mqMul, !.lk = 0]
  /\ UNCHANGED <<latches, ports>>

Microcoded == Mic1 \/ Mic2 \/ Mic3 \/ Mic4 \/ Mic5 \/ Mic6 \/ Mic7 \/ Mic8 \/ Mic9

-----------------------------------------------------------------------------
\* The outputs the controller drives in a state, whatever the inputs.

halt == state = "HALT"
cpuIdle == state \in {"CPU_IDLE", "HALT"}
eaeStart == state = "MIC_8"
ioAddress == IF state \in {"IOT_1", "IOT_2", "IOT_3"} \/ (state = "DECODE" /\ Opcode(reg.ir) = 6)
             THEN (reg.ir \div 8) % 8 ELSE 0
bit1CP2 == state = "IOT_2" /\ On(reg.ir, 1)
bit2CP3 == state = "IOT_3" /\ On(reg.ir, 2)

Controller(i) == Console(i) \/ Fetch \/ EffectiveAddress \/ MemoryReference
                 \/ InputOutput(i) \/ Microcoded

\* The change detector and the decoder's latch.
Detect(i) ==
  /\ swregTemp' = i.swreg
  /\ srchange' = (i.swreg # swregTemp)

HoldLink == heldLink' = Pipeline(reg.ir, reg.ac, reg.lk, heldLink).lk

\* A rising edge of the clock.
Clock(i) ==
  /\ Controller(i)
  /\ Detect(i)
  /\ HoldLink
  /\ MemClock(state \in ReadStates, state \in WriteStates, address, writeData)
  /\ Eae!EaeClock(eaeStart, reg.ac, reg.mq, reg.mb)
  /\ UNCHANGED resetN

\* A mutant: the asynchronous value of the state register is CPU_IDLE.
PressResetToIdle ==
  /\ resetN
  /\ resetN' = FALSE
  /\ state' = "CPU_IDLE"
  /\ UNCHANGED <<latches, reg, ports, swregTemp, srchange, heldLink, memVars, eaeVars>>

\* The reset button goes down: only the state register hears it.
PressReset ==
  /\ resetN
  /\ resetN' = FALSE
  /\ state' = "REG_INIT"
  /\ UNCHANGED <<latches, reg, ports, swregTemp, srchange, heldLink, memVars, eaeVars>>

ReleaseReset ==
  /\ ~resetN
  /\ resetN' = TRUE
  /\ UNCHANGED <<cpuVars, memVars, eaeVars>>

\* Power-up: the controller is idle (its state variable has an initial
\* value), memory holds a program, the registers hold anything.
Init ==
  /\ state = "CPU_IDLE"
  /\ instState = "AND_1"
  /\ eaFlag = FALSE
  /\ reg \in PowerUpRegs
  /\ address = 0 /\ writeData = 0 /\ dispout = 0
  /\ \E i \in Inputs : swregTemp = i.swreg
  /\ srchange = FALSE
  /\ heldLink \in BitValue
  /\ memState = "IDLE" /\ readLatch = 0
  /\ memory \in Programs
  /\ Eae!EaeInit
  /\ resetN = TRUE

Next == (\E i \in Inputs : Clock(i)) \/ PressReset \/ ReleaseReset

Spec == Init /\ [][Next]_vars

=============================================================================
