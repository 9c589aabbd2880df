--------------------------- MODULE MCDivergences ---------------------------
(***************************************************************************)
(* Where the design does not do what its own comments, its test programs   *)
(* or the C simulator say.  One property for each, and the one instruction *)
(* that shows it.  A step of the reset button is never at fault: each      *)
(* property looks only at the step to the state that follows.              *)
(***************************************************************************)
EXTENDS MCInstructions

At(w) == {(Start :> w) @@ (Start + 1 :> 3) @@ (Start + 2 :> 5) @@ (5 :> \o1234)}
SomeRegs == RegsAt({Start}, {0, \o700, \o7000}, {0, 1}, {\o1111})

JmpZeroPage == At(\o5020)
ClaSza == At(\o7640)
Muy == At(\o7405)

\* JMP loads the program counter "from EA for Jump" (PC_JMP).
JumpLoadsEA == [][state = "JMP_1" /\ state' = "CPU_IDLE" => reg'.pc = reg.ea]_vars

\* Bit 7 "will act as the CLA bit for both groups": a group 2 instruction
\* with CLA, and without the switch register, leaves AC clear.
ClaClears ==
  [][state = "MIC_2" /\ state' \in {"CPU_IDLE", "HALT"} /\ On(reg.ir, 7) /\ ~On(reg.ir, 2)
       => reg'.ac = 0]_vars

\* The operand of MUY and DVI is the word after the instruction, where pc
\* points when MIC_6 addresses it.
OperandFollows == [][state = "MIC_6" /\ state' = "MIC_7" => address' = reg.pc]_vars

=============================================================================
