---------------------------- MODULE GoldenTraces ----------------------------
(***************************************************************************)
(* What the golden model writes to its three trace files for one           *)
(* instruction: mem_read and mem_write in memory.c, write_branch_trace,    *)
(* and the opcode line at the end of main.c's loop.  run_and_check_results *)
(* compares the files with those the testbenches write of the design.      *)
(*                                                                         *)
(* A line is the tuple of its fields.  Addresses are compared as words:    *)
(* after 7777 the program prints a PC or CPMA of 10000 in five digits.     *)
(***************************************************************************)
EXTENDS Golden

\* Op, address, bus, memory.
ReadLine(op, s, a) == <<op, Cut(a), MemRead(s.mem, a), MemRead(s.mem, a)>>
WriteLine(a, d) == <<"DW", Cut(a), Cut(d), Cut(d)>>

Fetched(s) == [s EXCEPT !.pc = Short(@ + 1)]

\* The accesses of EffAddCalc.
PointerLines(ir, s) ==
  LET pointer == GetAddress(ir, s)
      read    == <<ReadLine("DR", s, pointer)>>
  IN  IF ~On(ir, 8) THEN <<>>
      ELSE IF pointer \in 8 .. 15
        THEN Append(read, WriteLine(pointer, MemRead(s.mem, pointer) + 1))
        ELSE read

\* The accesses of the instruction itself; s has its effective address.
OperandLines(ir, s) ==
  CASE Opcode(ir) \in {0, 1} -> <<ReadLine("DR", s, s.cpma)>>
    [] Opcode(ir) = 2 -> <<ReadLine("DR", s, s.cpma), WriteLine(s.cpma, ISZ(s).mb)>>
    [] Opcode(ir) = 3 -> <<WriteLine(s.cpma, s.ac)>>
    [] Opcode(ir) = 4 -> <<WriteLine(s.cpma, s.pc)>>
    [] OTHER -> <<>>

MemoryTrace(s) ==
  LET ir == CurrentInstruction(s)
  IN  <<ReadLine("IF", s, s.pc)>>
      \o IF Opcode(ir) = 7 THEN <<>>
         ELSE PointerLines(ir, Fetched(s)) \o OperandLines(ir, EffAddCalc(ir, Fetched(s)))

\* Program counter, target, type, taken.
Skipping(s, type, taken) == <<<<Cut(s.pc), Cut(s.pc + 1), type, taken>>>>

BranchTrace(s) ==
  LET ir == CurrentInstruction(s)
      f  == Fetched(s)
      to == Cut(Execute(s).pc)
  IN  CASE Opcode(ir) = 2 -> Skipping(f, "Conditional", ISZ(EffAddCalc(ir, f)).mb = 0)
        [] Opcode(ir) = 4 -> <<<<Cut(f.pc), to, "Subroutine", TRUE>>>>
        [] Opcode(ir) = 5 -> <<<<Cut(f.pc), to, "Unconditional", TRUE>>>>
        [] ir = \o7410 -> Skipping(f, "Unconditional", TRUE)
        [] Opcode(ir) = 7 /\ On(ir, 8) /\ ir # \o7410 /\ (On(ir, 3) \/ ir % 8 = 0) ->
             Skipping(f, "Conditional", Skips(ir, f))
        [] OTHER -> <<>>

\* Operation code, AC, link, MB, PC, CPMA.
OpcodeTrace(s) ==
  LET e == Execute(s)
  IN  <<Opcode(CurrentInstruction(s)), Cut(e.ac), e.lk, Cut(e.mb), Cut(e.pc), Cut(e.cpma)>>

=============================================================================
