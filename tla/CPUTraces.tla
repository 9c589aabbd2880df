----------------------------- MODULE CPUTraces -----------------------------
(***************************************************************************)
(* The trace files simulation_tb and veloce_top (with PDP8_hvl.cxx) write  *)
(* of the design while the run lamp is lit.  The design does not announce  *)
(* an access or a branch: the testbenches infer them from the controller's *)
(* states and a few wires, clock by clock.                                 *)
(*                                                                         *)
(* The traces here hold the lines of the operation under way and end with  *)
(* it.  They are compared with those of the golden model.                  *)
(***************************************************************************)
EXTENDS CPUHistory

VARIABLES
  memory_trace, branch_trace, opcode_trace,
  pc_temp, cond_skip_flag,  \* a skip that has yet to be reported
  begun                     \* MB and the effective address when the operation began

traceVars == <<memory_trace, branch_trace, opcode_trace, pc_temp, cond_skip_flag, begun>>

\* The C functions behind veloce_top, which are handed codes and write names.
\* They end the simulation when a wire is unknown; no register is, here.
write_mem_trace(mem_type, trace_address, data_bus, data_mem) ==
  <<<<<<"DR", "IF", "DW">>[mem_type + 1], trace_address, data_bus, data_mem>>>>

\* The target is handed over as a word.  simulation_tb writes its line itself
\* and does not cut the sum, 10000 after 7777; lines are compared by the word.
write_branch_trace(current_pc, target_pc, branch_type, taken) ==
  <<<<current_pc, target_pc % 4096,
      <<"Unconditional", "Conditional", "Subroutine">>[branch_type + 1], taken>>>>

write_opcode(r) == <<Opcode(r.ir), r.ac, r.lk, r.mb, r.pc, r.ea>>

\* mem_finished rises.  A word never written is zero, as in the emulator; in a
\* simulator it is unknown.  Nobody holds an enable high for the answer to a
\* request that a reset has taken away.
MemoryLine ==
  CASE state \in ReadStates ->
         write_mem_trace(IF state = "FETCH_2" THEN 1 ELSE 0, address, readLatch', ReadMemory(address))
    [] state \in WriteStates -> write_mem_trace(2, address, writeData, memory'[address])
    [] OTHER -> <<>>

\* A mutant: the target of a subroutine call is its first word.
BranchLinesEntry ==
  CASE state = "JMS_1" -> write_branch_trace(reg.pc, reg.ea, 2, TRUE)
    [] state = "JMP_1" -> write_branch_trace(reg.pc, reg.ea, 0, TRUE)
    [] OTHER -> <<>>

\* Calls and jumps.
BranchLines ==
  CASE state = "JMS_1" -> write_branch_trace(reg.pc, reg.ea + 1, 2, TRUE)
    [] state = "JMP_1" -> write_branch_trace(reg.pc, reg.ea, 0, TRUE)
    [] OTHER -> <<>>

Resting(s) == s \in {"CPU_IDLE", "HALT"}

\* Whether the instruction in MIC_2 or ISZ_1 will have its line: not OSR.
\* (veloce_top looks at bit 2 only, and so leaves out an ISZ of 0004, too.)
SkipReported == reg.ir # \o7404

\* The line of a skip, from the program counter before and after.
SkipLine ==
  IF reg.ir = \o7410 THEN write_branch_trace(pc_temp, pc_temp + 1, 0, TRUE)
  ELSE write_branch_trace(pc_temp, pc_temp + 1, 1, reg'.pc # pc_temp)

\* A mutant: the registers as they were before the edge.
OpcodeLineEarly == write_opcode(reg)

\* CPU_idle rises.
OpcodeLine == write_opcode(reg')

\* A mutant: the testbench looks for reads only.
MemoryAnswersReads == memState' = "DONE" /\ state \in ReadStates

MemoryAnswers == memState' = "DONE"

\* An edge of the clock during an operation; lit: the run lamp.
Record(lit) ==
  /\ memory_trace' = IF MemoryAnswers /\ lit THEN memory_trace \o MemoryLine
                                             ELSE memory_trace
  /\ branch_trace' = branch_trace \o BranchLines
       \o (IF Resting(state') /\ cond_skip_flag /\ lit THEN SkipLine ELSE <<>>)
  /\ opcode_trace' = IF Resting(state') /\ ~Resting(state) /\ lit THEN OpcodeLine
                                                                  ELSE opcode_trace
  /\ IF state' \in {"MIC_2", "ISZ_1"}
       THEN pc_temp' = reg'.pc /\ cond_skip_flag' = SkipReported
       ELSE /\ UNCHANGED pc_temp
            /\ cond_skip_flag' = (cond_skip_flag /\ ~(Resting(state') /\ lit))
  /\ UNCHANGED begun

\* The edge that begins one.
NewTraces ==
  /\ memory_trace' = <<>> /\ branch_trace' = <<>> /\ opcode_trace' = <<>>
  /\ begun' = [mb |-> reg.mb, ea |-> reg.ea]
  /\ UNCHANGED <<pc_temp, cond_skip_flag>>

TraceClock(i) == HClock(i) /\ IF state = "CPU_IDLE" THEN NewTraces ELSE Record(i.run)

TraceInit ==
  /\ HInit
  /\ memory_trace = <<>> /\ branch_trace = <<>> /\ opcode_trace = <<>>
  /\ pc_temp = 0 /\ cond_skip_flag = FALSE /\ begun = [mb |-> reg.mb, ea |-> reg.ea]

TraceNext == \/ \E i \in Inputs : TraceClock(i)
             \/ HPressReset /\ UNCHANGED traceVars
             \/ HReleaseReset /\ UNCHANGED traceVars

TraceSpec == TraceInit /\ [][TraceNext]_<<vars, historyVars, traceVars>>

-----------------------------------------------------------------------------
\* The golden model with the state this instruction started from.  MB and
\* CPMA, which the programmer does not see, are in the opcode line.
Before == [Machine!ToGolden(arch, 0) EXCEPT !.mb = begun.mb, !.cpma = begun.ea]

\* The instructions whose lines are compared: not input-output and group 3,
\* which the golden model does in its own way, and not a group 2 instruction
\* that tests or clears and halts, which is reported or not depending on which
\* process sees the run lamp go out first.
Comparable ==
  LET ir == reg.ir
  IN  /\ Opcode(ir) # 6
      /\ Opcode(ir) = 7 => ~Group3(ir) /\ (Group2(ir) /\ On(ir, 1) => ir = HLT)

Compared == state # "CPU_IDLE" /\ state' = "CPU_IDLE"
            /\ pending'.kind = "instruction" /\ Comparable

allVars == <<vars, historyVars, traceVars>>

\* An instruction's memory accesses, as the clocks of the memory controller
\* show them, are those of the golden model: the same words at the same
\* addresses, fetched, read and written in the same order, none twice.
MemoryTraceAgrees == [][Compared => memory_trace' = Machine!MemoryTrace(Before)]_allVars

\* Calls, jumps and skips, taken or not, are reported alike.
BranchTraceAgrees == [][Compared => branch_trace' = Machine!BranchTrace(Before)]_allVars

\* When the idle lamp lights, AC, link, MB, PC and the effective address are
\* those the golden model prints after the instruction.
OpcodeTraceAgrees == [][Compared => opcode_trace' = Machine!OpcodeTrace(Before)]_allVars

=============================================================================
