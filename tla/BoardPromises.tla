--------------------------- MODULE BoardPromises ---------------------------
(***************************************************************************)
(* What the board promises: to the testbenches, which work it blind, that  *)
(* the program of the object file runs on it as it does on the golden      *)
(* model, and to the operator, that a press is one operation.              *)
(***************************************************************************)
EXTENDS Board

CONSTANTS Fuel  \* more instructions than any of the files executes

GoldenModel == INSTANCE Golden

\* main.c: the machine with its memory filled and its program counter set.
Loaded == [ac |-> 0, lk |-> 0, pc |-> \o200, sr |-> 0, cpma |-> 0, mb |-> 0,
           mem |-> fill_memory(file), halted |-> FALSE]

GoldenResult ==
  LET after[n \in 0 .. Fuel] ==
        IF n = 0 THEN Loaded
        ELSE LET before == after[n - 1]
             IN  IF before.halted THEN before ELSE GoldenModel!Execute(before)
  IN  after[Fuel]

Scripted == user # "operator"

\* The program has been loaded, has run and has halted.
Finished == /\ Scripted /\ script = <<>>
            /\ ~run /\ state = "CPU_IDLE" /\ reg.ir = HLT

-----------------------------------------------------------------------------
\* When a testbench raises the run switch, memory is what fill_memory makes
\* of the file, the program counter is 0200 and the machine is idle: no
\* press of the script came too early, was lost or was taken twice.
LoadedImage ==
  [][Scripted /\ run' /\ ~run =>
       memory = fill_memory(file) /\ reg.pc = \o200 /\ state = "CPU_IDLE"]_boardVars

\* When the program has halted, memory with its valid flags and the registers
\* are those the golden model ends with: the files the two write compare equal.
SameResult ==
  Finished => LET g == GoldenResult
              IN  /\ g.halted
                  /\ memory = g.mem
                  /\ <<reg.ac, reg.lk, reg.pc, reg.mb>> = <<g.ac, g.lk, GoldenModel!Cut(g.pc), g.mb>>

\* The testbenches end the simulation when the run lamp goes out: it does.
RunsToHalt == Scripted ~> Finished

-----------------------------------------------------------------------------
\* However long a button is held, whatever is pressed with it and whatever
\* the machine is doing, it begins one operation before all are let go.
AtMostOnce == [][ByButton => ~answered]_boardVars

\* A button pressed on a machine at rest, and left alone, is answered.
CalmPressAnswered == calm ~> (answered \/ ~calm)

=============================================================================
