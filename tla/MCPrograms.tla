----------------------------- MODULE MCPrograms -----------------------------
(***************************************************************************)
(* Whole programs with the reset button at every clock, and the front      *)
(* panel in every order.                                                   *)
(***************************************************************************)
EXTENDS CPUHistory, CPUSafety, TLC

Quiet == [run |-> FALSE, step |-> FALSE, loadpc |-> FALSE, loadac |-> FALSE,
          deposit |-> FALSE, dispsel |-> 0, swreg |-> 0, skipFlag |-> FALSE,
          clearacc |-> FALSE, datain |-> 0]

AllZero == [ac |-> 0, lk |-> 0, ir |-> 0, mq |-> 0, pc |-> 0, mb |-> 0, ea |-> 0]
ZeroRegs == {AllZero}

-----------------------------------------------------------------------------
\* A program in a loop, the run switch on.  Location 0, where a reset leads,
\* is its start.  It multiplies, divides, counts with ISZ, steps an
\* auto-index pointer, calls a subroutine and starts again.  An operand of
\* the EAE stands twice and is a NOP, as the next instruction is taken from
\* the second one.
Loop == 0 :> \o7300            \* CLA CLL
     @@ 1 :> \o1024            \* TAD 24
     @@ 2 :> \o3017            \* DCA 17     reset the pointer
     @@ 3 :> \o1020            \* TAD 20
     @@ 4 :> \o7425            \* MQL MUY
     @@ 5 :> \o7000 @@ 6 :> \o7000
     @@ 7 :> \o3417            \* DCA I 17   pointer 24, becomes 25
     @@ 8 :> \o7407            \* DVI
     @@ 9 :> \o7000 @@ 10 :> \o7000
     @@ 11 :> \o2025           \* ISZ 25
     @@ 12 :> \o4423           \* JMS I 23
     @@ 13 :> \o7300           \* CLA CLL
     @@ 14 :> \o5200           \* JMP 0      page bit set
     @@ 16 :> \o5252 @@ 19 :> \o300 @@ 20 :> \o24
     @@ \o301 :> \o1020 @@ \o302 :> \o5700   \* TAD 20; JMP I 300

\* The EAE as early as it can be after a reset: MUY at location 0.
Tight == 0 :> \o7405           \* MUY
      @@ 1 :> \o7000 @@ 2 :> \o7000
      @@ 3 :> \o7001           \* IAC
      @@ 4 :> \o7421           \* MQL
      @@ 5 :> \o5200           \* JMP 0

\* Input-output: a device instruction with each combination of its three low
\* bits, taking the skip or not.
Device(k) == 0 :> \o7040                     \* CMA
          @@ 1 :> \o6030 + k                 \* IOT 3
          @@ 2 :> \o5200 @@ 3 :> \o5200      \* JMP 0

LoopPrograms == {Loop, Tight} \cup {Device(k) : k \in 0 .. 7}

\* Every combination of the device's answers, the run switch on.
RunningInputs == {[Quiet EXCEPT !.run = TRUE, !.skipFlag = f, !.clearacc = c, !.datain = d] :
                    f \in BOOLEAN, c \in BOOLEAN, d \in {0, 21, 255}}

-----------------------------------------------------------------------------
\* The front panel: each button, two of them at once, and two settings of
\* the switches, one an instruction (IAC) and one an address.  Power-up is at
\* the end of memory, from where a deposit wraps around.

Buttons == {[step |-> FALSE, loadpc |-> FALSE, loadac |-> FALSE, deposit |-> FALSE],
            [step |-> TRUE, loadpc |-> FALSE, loadac |-> FALSE, deposit |-> FALSE],
            [step |-> FALSE, loadpc |-> TRUE, loadac |-> FALSE, deposit |-> FALSE],
            [step |-> FALSE, loadpc |-> FALSE, loadac |-> TRUE, deposit |-> TRUE],
            [step |-> FALSE, loadpc |-> FALSE, loadac |-> FALSE, deposit |-> TRUE]}

PanelInputs == {b @@ [Quiet EXCEPT !.swreg = s, !.dispsel = 1] :
                  b \in Buttons, s \in {\o7001, 1}}
PanelRegs == {[AllZero EXCEPT !.pc = \o7777]}
PanelPrograms == {1 :> \o7001}

\* No further than a word or two from where the switches point, and at most
\* one increment of AC.
NearSwitches == /\ reg.pc \in {\o7777, 0, 1}
                /\ reg.ac \in {0, 1}
                /\ DOMAIN memory \subseteq {\o7777, 1}

=============================================================================
