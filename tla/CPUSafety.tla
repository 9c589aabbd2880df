----------------------------- MODULE CPUSafety -----------------------------
(***************************************************************************)
(* What must hold of the processor at every clock, whatever the program,   *)
(* the front panel and the reset button do.  The controller talks to two   *)
(* machines that have no reset, memory and the EAE: a reset leaves them in *)
(* the middle of what they were doing, and nothing but the number of       *)
(* clocks to the next request keeps an old answer from being taken for a   *)
(* new one.                                                                *)
(***************************************************************************)
EXTENDS CPU

\* Every variable keeps its type.
ControlTypeOK ==
  /\ state \in States
  /\ instState \in {FirstStates[k] : k \in 1 .. 8}
  /\ eaFlag \in BOOLEAN
  /\ reg \in Registers
  /\ address \in Word /\ writeData \in Word /\ dispout \in Word
  /\ swregTemp \in Word /\ srchange \in BOOLEAN
  /\ heldLink \in BitValue
  /\ resetN \in BOOLEAN

TypeOK == ControlTypeOK /\ MemTypeOK /\ Eae!EaeTypeOK

-----------------------------------------------------------------------------
\* The handshake with memory (memory_controller.sv).

WaitStates == ReadStates \cup WriteStates

\* Memory works only for the controller state that asked, or for one that a
\* reset has taken away: a read is never under way in a state that holds
\* write_enable, nor the reverse, and whatever a reset interrupted is over
\* before the next request.
Handshake ==
  /\ memState = "READ" => state \in ReadStates \cup {"REG_INIT"}
  /\ memState = "WRITE" => state \in WriteStates \cup {"REG_INIT"}
  /\ memState = "DONE" => state \in WaitStates \cup {"REG_INIT", "CPU_IDLE"}
  /\ ~resetN => state = "REG_INIT"

\* A state that waits for memory is entered only while memory is idle, so
\* the mem_finished it will see answers its own request.
NoStaleAnswer ==
  [][state' \in WaitStates /\ state' # state => memState' = "IDLE"]_vars

\* When the controller takes what was read (in the clock of mem_finished, or
\* in FETCH_3 and EA_AUT_3 one clock later), it is the word now in memory at
\* the address that was asked for.
ReadAnswers ==
  (state \in ReadStates /\ memState = "DONE") \/ state \in {"FETCH_3", "EA_AUT_3"}
    => readData = ReadMemory(address)

\* When the controller goes on after a write, the word is in memory at the
\* address that is still on the wires.
WriteLands ==
  state \in WriteStates /\ memState = "DONE" => /\ address \in DOMAIN memory
                                                /\ memory[address] = writeData

\* The instruction being decoded is the one memory holds just before the
\* location the program counter names.
FetchedInOrder ==
  /\ state = "FETCH_2" => address = reg.pc
  /\ state = "FETCH_3" => address = reg.pc
  /\ state = "DECODE" => reg.ir = ReadMemory(address) /\ reg.pc = Inc(address)

-----------------------------------------------------------------------------
\* The handshake with the EAE (EAE.sv, Multiply.sv, Divide.sv).

\* MIC_8 is entered only while both machines rest, even when a reset left
\* them iterating: a machine still at work would ignore the new operands and
\* finish with the old ones.
EaeFresh ==
  [][state' = "MIC_8" /\ state # "MIC_8"
       => mul'.phase = "S0" /\ div'.phase = "S0"]_vars

\* The result registers the controller reads in MIC_9 hold the product of
\* the operands it gave, and their quotient and remainder when the quotient
\* fits in a word; the divider's link, which only a shift writes, is then
\* clear unless the quotient is all ones.
EaeAnswers ==
  state = "MIC_9" /\ On(reg.ir, 2) =>
    /\ eaeOut.acMul * 4096 + eaeOut.mqMul = reg.mq * reg.mb
    /\ reg.ac < reg.mb => /\ eaeOut.mqDvi * reg.mb + eaeOut.acDvi = reg.ac * 4096 + reg.mq
                          /\ eaeOut.acDvi < reg.mb
                          /\ eaeOut.mqDvi # \o7777 => div.link = 0

-----------------------------------------------------------------------------
\* Progress, under weak fairness of the clock.

\* No operation hangs: as long as reset is eventually left alone, the
\* controller keeps coming back to CPU_IDLE.
ReturnsToIdle == <>[]resetN => []<>(state = "CPU_IDLE")

=============================================================================
