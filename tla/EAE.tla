-------------------------------- MODULE EAE --------------------------------
(***************************************************************************)
(* EAE.sv, Multiply.sv and Divide.sv: the extended arithmetic element.     *)
(* Two machines work side by side from the same start signal: an           *)
(* add-and-shift multiplier and a subtract-and-shift divider.  Each loads  *)
(* its operands on the first clock of start, iterates once per bit of a    *)
(* word, and raises finished for one clock.  Neither has a reset.          *)
(*                                                                         *)
(* The width of a word is a parameter: it is 12 in the machine.            *)
(***************************************************************************)
EXTENDS Naturals

CONSTANTS
  W,     \* bits of a word
  Half   \* 2^(W-1), the weight of its top bit

ASSUME WidthAssumption == W \in Nat \ {0} /\ Half = 2^(W - 1)

VARIABLES
  mul,     \* Multiply.sv: [phase, count, regm, regp]
  div,     \* Divide.sv:   [phase, count, regm, regp, link]
  eaeOut   \* the result registers of EAE.sv: [acMul, mqMul, acDvi, mqDvi]

eaeVars == <<mul, div, eaeOut>>

Base == 2 * Half
Phases == {"S0", "S1", "S2", "S3"}

-----------------------------------------------------------------------------
\* The control shared by the two machines.

\* A mutant: an iteration for every bit of the double register.
NextPhaseLong(u, start) ==
  IF u.phase = "S0" /\ start THEN "S1"
  ELSE IF u.phase = "S1" THEN (IF u.count = 2 * W - 1 THEN "S2" ELSE "S1")
  ELSE IF u.phase = "S2" /\ start THEN "S3"
  ELSE "S0"

NextPhase(u, start) ==
  IF u.phase = "S0" /\ start THEN "S1"
  ELSE IF u.phase = "S1" THEN (IF u.count = W - 1 THEN "S2" ELSE "S1")
  ELSE IF u.phase = "S2" /\ start THEN "S3"
  ELSE "S0"

\* A mutant: the counter is never cleared.
NextCountRunning(u) == IF u.phase = "S1" THEN u.count + 1 ELSE u.count

NextCount(u) == IF u.phase = "S1" THEN u.count + 1 ELSE 0

\* A mutant: the operands are loaded whenever start is high.
LoadingAlways(u, start) == start

Loading(u, start) == u.phase = "S0" /\ start
Stepping(u) == u.phase = "S1"
Finished(u) == u.phase = "S2"

-----------------------------------------------------------------------------
\* A mutant: the adder has no carry out.
MultiplyStepNoCarry(p, m) ==
  IF p % 2 = 1 THEN ((p \div Base + m) % Base) * Half + (p % Base) \div 2
               ELSE p \div 2

\* The product register holds the bits of the multiplicand not yet examined
\* below the partial product.
MultiplyStep(p, m) ==
  IF p % 2 = 1 THEN (p \div Base + m) * Half + (p % Base) \div 2
               ELSE p \div 2

Multiply(start, multiplier, multiplicand) ==
  mul' = [phase |-> NextPhase(mul, start),
          count |-> NextCount(mul),
          regm  |-> IF Loading(mul, start) THEN multiplier ELSE mul.regm,
          regp  |-> IF Loading(mul, start) THEN multiplicand
                    ELSE IF Stepping(mul) THEN MultiplyStep(mul.regp, mul.regm)
                    ELSE mul.regp]

-----------------------------------------------------------------------------
\* The top W+1 bits of the dividend register less the divisor, modulo
\* 2^(W+1); the top bit of the difference says there was a borrow.
Difference(p, d) == (p \div Half + 2 * Base - d) % (2 * Base)
\* A mutant: nothing is subtracted from an equal number.
SubtractsLess(p, d) == Difference(p, d) \in 1 .. Base - 1

Subtracts(p, d) == Difference(p, d) < Base

DivideStep(p, d) ==
  IF Subtracts(p, d) THEN Difference(p, d) * Base + (p % Half) * 2 + 1
                     ELSE (p * 2) % (Base * Base)

\* A mutant: the divider has no S3, and starts over while start is high.
DivideNoS3(start, dividend, divisor) ==
  div' = [phase |-> IF Finished(div) THEN "S0" ELSE NextPhase(div, start),
          count |-> NextCount(div),
          regm  |-> IF Loading(div, start) THEN divisor ELSE div.regm,
          regp  |-> IF Loading(div, start) THEN dividend
                    ELSE IF Stepping(div) THEN DivideStep(div.regp, div.regm)
                    ELSE div.regp,
          link  |-> IF Stepping(div) /\ ~Subtracts(div.regp, div.regm)
                    THEN div.regp \div (Base * Half) ELSE div.link]

\* A mutant: link_out takes the top bit as the shift leaves it.
DivideLinkLate(start, dividend, divisor) ==
  div' = [phase |-> NextPhase(div, start),
          count |-> NextCount(div),
          regm  |-> IF Loading(div, start) THEN divisor ELSE div.regm,
          regp  |-> IF Loading(div, start) THEN dividend
                    ELSE IF Stepping(div) THEN DivideStep(div.regp, div.regm)
                    ELSE div.regp,
          link  |-> IF Stepping(div) /\ ~Subtracts(div.regp, div.regm)
                    THEN DivideStep(div.regp, div.regm) \div (Base * Half) ELSE div.link]

\* link_out takes the bit a shift pushes out, and keeps it over a subtraction.
Divide(start, dividend, divisor) ==
  div' = [phase |-> NextPhase(div, start),
          count |-> NextCount(div),
          regm  |-> IF Loading(div, start) THEN divisor ELSE div.regm,
          regp  |-> IF Loading(div, start) THEN dividend
                    ELSE IF Stepping(div) THEN DivideStep(div.regp, div.regm)
                    ELSE div.regp,
          link  |-> IF Stepping(div) /\ ~Subtracts(div.regp, div.regm)
                    THEN div.regp \div (Base * Half) ELSE div.link]

-----------------------------------------------------------------------------
\* The result registers follow each machine while it is in S2.
Results ==
  eaeOut' = [acMul |-> IF Finished(mul) THEN mul.regp \div Base ELSE eaeOut.acMul,
             mqMul |-> IF Finished(mul) THEN mul.regp % Base ELSE eaeOut.mqMul,
             acDvi |-> IF Finished(div) THEN div.regp \div Base ELSE eaeOut.acDvi,
             mqDvi |-> IF Finished(div) THEN div.regp % Base ELSE eaeOut.mqDvi]

\* eae_fin is the multiplier's finished.
EaeFinished == Finished(mul)

\* One rising edge of the clock.
EaeClock(start, ac, mq, mb) ==
  /\ Multiply(start, mq, mb)
  /\ Divide(start, ac * Base + mq, mb)
  /\ Results

\* At power-up both machines rest; the registers hold anything: zero here,
\* except for the divider's link, which is read before it is ever written.
EaeInit ==
  /\ mul = [phase |-> "S0", count |-> 0, regm |-> 0, regp |-> 0]
  /\ \E l \in 0 .. 1 :
       div = [phase |-> "S0", count |-> 0, regm |-> 0, regp |-> 0, link |-> l]
  /\ eaeOut = [acMul |-> 0, mqMul |-> 0, acDvi |-> 0, mqDvi |-> 0]

\* An iterating machine has not yet counted to W.
EaeTypeOK ==
  /\ mul \in [phase : Phases, count : 0 .. W, regm : 0 .. Base - 1,
              regp : 0 .. Base * Base - 1]
  /\ div \in [phase : Phases, count : 0 .. W, regm : 0 .. Base - 1,
              regp : 0 .. Base * Base - 1, link : 0 .. 1]
  /\ mul.phase = "S1" => mul.count < W
  /\ div.phase = "S1" => div.count < W
  /\ eaeOut \in [acMul : 0 .. Base - 1, mqMul : 0 .. Base - 1,
                 acDvi : 0 .. Base - 1, mqDvi : 0 .. Base - 1]

=============================================================================
