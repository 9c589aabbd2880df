------------------------------- MODULE Golden -------------------------------
(***************************************************************************)
(* The golden model: what one instruction does in the C simulator          *)
(* (good_models/C_PDP8: cpu.c, memory.c and the loop of main.c), as an     *)
(* operator from machine state to machine state.  The testbenches compare  *)
(* the Verilog design with this program.                                   *)
(*                                                                         *)
(* A machine is a record [ac, lk, pc, sr, cpma, mb, mem, halted].  The     *)
(* C registers are 16 bits wide and only some assignments cut them to 12.  *)
(* Memory is a partial function: its domain is the locations whose valid   *)
(* bit is set; the words are kept as mem_read returns them, cut to 12 bits.*)
(* The keyboard and printer instructions, whose state is shared with       *)
(* another thread, are in module Simulator.                                *)
(***************************************************************************)
EXTENDS Words

Cut(v) == v % 4096
Short(v) == v % 65536

MemRead(m, a) == IF Cut(a) \in DOMAIN m THEN m[Cut(a)] ELSE 0

MemWrite(m, a, d) ==
  [b \in DOMAIN m \cup {Cut(a)} |-> IF b = Cut(a) THEN Cut(d) ELSE m[b]]

-----------------------------------------------------------------------------
\* memory.c: the effective address.

CurrentPage(ir, s) == Page(Cut(s.pc)) + Offset(ir)
GetAddress(ir, s) == IF On(ir, 7) THEN CurrentPage(ir, s) ELSE Offset(ir)

\* A pointer in 0010-0017 is incremented in memory before it is used.
EffAddCalc(ir, s) ==
  LET pointer == GetAddress(ir, s)
      target  == MemRead(s.mem, pointer)
  IN  IF ~On(ir, 8) THEN [s EXCEPT !.cpma = pointer]
      ELSE IF pointer \in 8 .. 15
        THEN [s EXCEPT !.cpma = target + 1, !.mem = MemWrite(@, pointer, target + 1)]
        ELSE [s EXCEPT !.cpma = target]

-----------------------------------------------------------------------------
\* cpu.c: the memory reference instructions, once cpma is known.

AND(s) == LET b == MemRead(s.mem, s.cpma)
          IN  [s EXCEPT !.mb = b, !.ac = And(@, b)]

TAD(s) == LET b == MemRead(s.mem, s.cpma)
              sum == s.ac + b
          IN  [s EXCEPT !.mb = b, !.ac = Cut(sum),
                        !.lk = IF (sum \div 4096) % 2 = 1 THEN 1 - @ ELSE @]

ISZ(s) == LET b == Cut(MemRead(s.mem, s.cpma) + 1)
          IN  [s EXCEPT !.mb = b, !.mem = MemWrite(@, s.cpma, b),
                        !.pc = IF b = 0 THEN Short(@ + 1) ELSE @]

DCA(s) == [s EXCEPT !.mb = s.ac, !.mem = MemWrite(@, s.cpma, s.ac), !.ac = 0]

JMS(s) == [s EXCEPT !.mb = s.pc, !.mem = MemWrite(@, s.cpma, s.pc),
                    !.pc = Cut(s.cpma + 1)]

JMP(s) == [s EXCEPT !.pc = s.cpma]

-----------------------------------------------------------------------------
\* cpu.c: the microinstructions of group 1, in the order main.c applies them.

When(c, new, s) == IF c THEN new ELSE s

CLA(s) == [s EXCEPT !.ac = 0]
CLL(s) == [s EXCEPT !.lk = 0]
CMA(s) == [s EXCEPT !.ac = Not(Cut(@))]
CML(s) == [s EXCEPT !.lk = 1 - @]
IAC(s) == [s EXCEPT !.ac = Cut(@ + 1)]

RAR(s) == [s EXCEPT !.lk = s.ac % 2, !.ac = Or(@ \div 2, 2048 * s.lk)]
RTR(s) == RAR(RAR(s))
RAL(s) == LET shifted == 2 * s.ac + s.lk
          IN  [s EXCEPT !.lk = (shifted \div 4096) % 2, !.ac = Cut(shifted)]
RTL(s) == RAL(RAL(s))

Group1Sequence(ir, s) ==
  LET s1 == When(On(ir, 7), CLA(s), s)
      s2 == When(On(ir, 6), CLL(s1), s1)
      s3 == When(On(ir, 5), CMA(s2), s2)
      s4 == When(On(ir, 4), CML(s3), s3)
      s5 == When(On(ir, 0), IAC(s4), s4)
      s6 == When(On(ir, 3), IF On(ir, 1) THEN RTR(s5) ELSE RAR(s5), s5)
  IN  When(On(ir, 2), IF On(ir, 1) THEN RTL(s6) ELSE RAL(s6), s6)

-----------------------------------------------------------------------------
\* cpu.c: the skips of group 2.

SMA(s) == On(s.ac, 11)
SZA(s) == s.ac = 0
SNL(s) == s.lk = 1
SPA(s) == ~On(s.ac, 11)
SNA(s) == s.ac # 0
SZL(s) == s.lk = 0

OrSkips(ir, s) == \/ On(ir, 6) /\ SMA(s)
                  \/ On(ir, 5) /\ SZA(s)
                  \/ On(ir, 4) /\ SNL(s)

AndSkips(ir, s) == /\ On(ir, 6) => SPA(s)
                   /\ On(ir, 5) => SNA(s)
                   /\ On(ir, 4) => SZL(s)

\* The OR subgroup skips only when the three low bits are clear.
Skips(ir, s) == IF On(ir, 3) THEN AndSkips(ir, s)
                             ELSE ir % 8 = 0 /\ OrSkips(ir, s)

OSR(s) == [s EXCEPT !.ac = Or(@, s.sr)]
HaltC(s) == [s EXCEPT !.halted = TRUE]

Group2Sequence(ir, s) ==
  LET s1 == When(Skips(ir, s), [s EXCEPT !.pc = Short(@ + 1)], s)
      s2 == When(On(ir, 7), CLA(s1), s1)
      s3 == When(On(ir, 2), OSR(s2), s2)
  IN  When(On(ir, 1), HaltC(s3), s3)

Microinstruction(ir, s) ==
  IF On(ir, 8) THEN Group2Sequence(ir, s) ELSE Group1Sequence(ir, s)

-----------------------------------------------------------------------------
\* main.c: one turn of the loop.  Opcode 6 computes an effective address
\* like the others, with its side effects.

CurrentInstruction(s) == MemRead(s.mem, s.pc)

Execute(s) ==
  LET ir == CurrentInstruction(s)
      fetched == [s EXCEPT !.pc = Short(@ + 1)]
      addressed == EffAddCalc(ir, fetched)
  IN  CASE Opcode(ir) = 0 -> AND(addressed)
        [] Opcode(ir) = 1 -> TAD(addressed)
        [] Opcode(ir) = 2 -> ISZ(addressed)
        [] Opcode(ir) = 3 -> DCA(addressed)
        [] Opcode(ir) = 4 -> JMS(addressed)
        [] Opcode(ir) = 5 -> JMP(addressed)
        [] Opcode(ir) = 6 -> addressed
        [] Opcode(ir) = 7 -> Microinstruction(ir, fetched)

=============================================================================
