-------------------------------- MODULE PDP8 --------------------------------
(***************************************************************************)
(* What the machine promises: the programmer's PDP-8, one step for one     *)
(* instruction or one operation of the front panel.  The instructions are  *)
(* those of the golden model, with a program counter of 12 bits; what the  *)
(* C simulator does not have is taken from the VHDL design (the EAE) and   *)
(* from the controller (the panel, input-output).                          *)
(*                                                                         *)
(* Besides the state the programmer sees there is the operation just       *)
(* performed, so that a step says what it claims to be.                    *)
(***************************************************************************)
EXTENDS GoldenTraces

CONSTANTS Initially   \* the states the machine may start in

VARIABLES
  arch,   \* [ac, lk, mq, pc, mem]
  event   \* the last operation: [kind, sw, io, halts, during]

Kinds == {"none", "instruction", "loadpc", "loadac", "deposit", "examine", "reset"}

\* The golden model's view of this machine, and back.
ToGolden(a, sw) == [ac |-> a.ac, lk |-> a.lk, pc |-> a.pc, sr |-> sw,
                    cpma |-> 0, mb |-> 0, mem |-> a.mem, halted |-> FALSE]

FromGolden(g, mq) == [ac |-> g.ac, lk |-> g.lk, mq |-> mq, pc |-> Cut(g.pc), mem |-> g.mem]

ir == MemRead(arch.mem, arch.pc)
next == Cut(arch.pc + 1)

-----------------------------------------------------------------------------
\* Group 3: clear, then swap, OR or load MQ, then multiply or divide by the
\* word that follows the instruction.

ClearAndExchange(a) ==
  LET c == IF On(ir, 7) THEN [a EXCEPT !.ac = 0] ELSE a
  IN  IF On(ir, 6) /\ On(ir, 4) THEN [c EXCEPT !.ac = c.mq, !.mq = c.ac]
      ELSE IF On(ir, 6) THEN [c EXCEPT !.ac = Or(@, c.mq)]
      ELSE IF On(ir, 4) THEN [c EXCEPT !.mq = c.ac, !.ac = 0]
      ELSE c

Multiplied(a, operand) ==
  [a EXCEPT !.ac = (operand * a.mq) \div 4096, !.mq = (operand * a.mq) % 4096, !.lk = 0]

\* When the quotient does not fit in a word the result is not specified.
Divided(a, operand, b) ==
  LET dividend == a.ac * 4096 + a.mq
  IN  IF a.ac < operand
      THEN b = [a EXCEPT !.ac = dividend % operand, !.mq = dividend \div operand, !.lk = 0]
      ELSE b = [a EXCEPT !.ac = b.ac, !.mq = b.mq, !.lk = b.lk]

Arithmetic(b) ==
  LET exchanged == ClearAndExchange([arch EXCEPT !.pc = next])
      operand   == MemRead(arch.mem, next)
      past      == [exchanged EXCEPT !.pc = Cut(@ + 1)]
  IN  IF ~On(ir, 2) THEN b = exchanged
      ELSE IF On(ir, 1) THEN Divided(past, operand, b)
      ELSE b = Multiplied(past, operand)

-----------------------------------------------------------------------------
\* Input-output: bit 0 tests the device's flag; otherwise an input device
\* (clearacc) loads AC with its data and an output device leaves AC alone.
Transfer(b, io) ==
  b = IF On(ir, 0)
      THEN [arch EXCEPT !.pc = IF io.skipFlag THEN Cut(next + 1) ELSE next]
      ELSE [arch EXCEPT !.pc = next, !.ac = IF io.clearacc THEN io.datain ELSE @]

-----------------------------------------------------------------------------
\* arch becomes b by the instruction at pc, which halts the machine or not.
Performs(b, sw, io, halts) ==
  IF Opcode(ir) = 6 THEN Transfer(b, io) /\ ~halts
  ELSE IF Opcode(ir) = 7 /\ On(ir, 8) /\ On(ir, 0) THEN Arithmetic(b) /\ ~halts
  ELSE LET g == Execute(ToGolden(arch, sw))
       IN  b = FromGolden(g, arch.mq) /\ halts = g.halted

Happens(kind) == event'.kind = kind

Instruction == Happens("instruction") /\ Performs(arch', event'.sw, event'.io, event'.halts)

LoadPC == Happens("loadpc") /\ arch' = [arch EXCEPT !.pc = event'.sw]

LoadAC == Happens("loadac") /\ arch' = [arch EXCEPT !.ac = event'.sw]

\* Store the switch register in the location pc names, and move to the next.
Deposited(a, sw) == [a EXCEPT !.mem = MemWrite(@, a.pc, sw), !.pc = next]

Deposit == Happens("deposit") /\ arch' = Deposited(arch, event'.sw)

\* The switches moved: the addressed word is looked at.
Examine == Happens("examine") /\ UNCHANGED arch

\* Reset clears the registers and no memory.  An operation it interrupts has
\* left each of its writes done or not done, in order: first the pointer
\* of an auto-indexed reference, then the operand.
Interrupted ==
  LET fetched == ToGolden([arch EXCEPT !.pc = next], 0)
  IN  CASE event'.during = "deposit" ->
             {arch.mem, Deposited(arch, event'.sw).mem}
        [] event'.during = "instruction" /\ Opcode(ir) <= 5 ->
             {arch.mem, EffAddCalc(ir, fetched).mem, Execute(ToGolden(arch, 0)).mem}
        [] OTHER -> {arch.mem}

Reset ==
  /\ Happens("reset")
  /\ arch'.mem \in Interrupted
  /\ arch' = [ac |-> 0, lk |-> 0, mq |-> 0, pc |-> 0, mem |-> arch'.mem]

Init == arch \in Initially /\ event.kind = "none"

Next == Instruction \/ LoadPC \/ LoadAC \/ Deposit \/ Examine \/ Reset

Spec == Init /\ [][Next]_<<arch, event>>

=============================================================================
