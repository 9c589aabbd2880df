---------------------------- MODULE MicroDecoder ----------------------------
(***************************************************************************)
(* micro_instruction_decoder.sv: the combinational decoder of the          *)
(* microcoded (opcode 7) instructions.  Given the instruction register,    *)
(* the accumulator and the link it says which group the instruction        *)
(* belongs to, whether a group 2 instruction skips, and what the           *)
(* accumulator and the link become.                                        *)
(*                                                                         *)
(* The group 1 pipeline is always at work, whatever is in ir: clear,       *)
(* complement, increment, shift.  Its last stage does not assign the link  *)
(* of a byte swap, so that wire is a latch: `held' is what it last was.    *)
(***************************************************************************)
EXTENDS Words

\* The group an instruction belongs to (the wires micro_g1, micro_g2, micro_g3).
Group1(ir) == ~On(ir, 8)
Group2(ir) == On(ir, 8) /\ ~On(ir, 0)
Group3(ir) == On(ir, 8) /\ On(ir, 0)

ClearStage(ir, ac, lk) == [ac |-> IF On(ir, 7) THEN 0 ELSE ac,
                           lk |-> IF On(ir, 6) THEN 0 ELSE lk]

ComplementStage(ir, b) == [ac |-> IF On(ir, 5) THEN Not(b.ac) ELSE b.ac,
                           lk |-> IF On(ir, 4) THEN 1 - b.lk ELSE b.lk]

\* The increment does not carry into the link.
IncrementStage(ir, b) == [ac |-> IF On(ir, 0) THEN Inc(b.ac) ELSE b.ac,
                          lk |-> b.lk]

\* {RAR, RAL, BSW} as a number.
ShiftSelect(ir) == 4 * Bit(ir, 3) + 2 * Bit(ir, 2) + Bit(ir, 1)

ShiftStage(ir, b, held) ==
  CASE ShiftSelect(ir) = 1 ->
         [ac |-> (b.ac % 64) * 64 + b.ac \div 64, lk |-> held]
    [] ShiftSelect(ir) = 2 ->
         [ac |-> (b.ac % 2048) * 2 + b.lk, lk |-> Bit(b.ac, 11)]
    [] ShiftSelect(ir) = 3 ->
         [ac |-> (b.ac % 1024) * 4 + b.lk * 2 + Bit(b.ac, 11), lk |-> Bit(b.ac, 10)]
    [] ShiftSelect(ir) = 4 ->
         [ac |-> b.lk * 2048 + b.ac \div 2, lk |-> Bit(b.ac, 0)]
    [] ShiftSelect(ir) = 5 ->
         [ac |-> Bit(b.ac, 0) * 2048 + b.lk * 1024 + b.ac \div 4, lk |-> Bit(b.ac, 1)]
    [] OTHER -> b

Pipeline(ir, ac, lk, held) ==
  ShiftStage(ir, IncrementStage(ir, ComplementStage(ir, ClearStage(ir, ac, lk))), held)

\* ac_micro and l_micro: the pipeline, except that outside group 1 an
\* instruction without the CLA bit leaves both alone.
Micro(ir, ac, lk, held) ==
  IF On(ir, 8) /\ ~On(ir, 7) THEN [ac |-> ac, lk |-> lk]
                             ELSE Pipeline(ir, ac, lk, held)

SkipOr(ir, ac, lk) == \/ On(ir, 6) /\ On(ac, 11)
                      \/ On(ir, 5) /\ ac = 0
                      \/ On(ir, 4) /\ lk = 1

\* A mutant: the conditions are negated one by one, the conjunction is not.
SkipAndAny(ir, ac, lk) == \/ On(ir, 6) /\ ~On(ac, 11)
                          \/ On(ir, 5) /\ ac # 0
                          \/ On(ir, 4) /\ lk = 0

SkipAnd(ir, ac, lk) == /\ On(ir, 6) => ~On(ac, 11)
                       /\ On(ir, 5) => ac # 0
                       /\ On(ir, 4) => lk = 0

\* The wire skip; the controller looks at it for group 2 only.
Skip(ir, ac, lk) == /\ On(ir, 8)
                    /\ IF On(ir, 3) THEN SkipAnd(ir, ac, lk) ELSE SkipOr(ir, ac, lk)

=============================================================================
