----------------------------- MODULE EAEResults -----------------------------
(***************************************************************************)
(* The EAE by itself, under any use of its inputs: start may go up and     *)
(* down at any clock, as it does when a reset takes the controller out of  *)
(* MIC_8, and the operands may change while it works.  `job' remembers the *)
(* operands that were on the wires when the machines were last loaded.     *)
(***************************************************************************)
EXTENDS EAE

CONSTANT Weight   \* Weight[k] = 2^k, the weight of bit k and what k shifts multiply by

\* Said of each bit and the next one: all that is used of powers of two.
ASSUME WeightAssumption ==
  /\ Weight \in [0 .. W -> Nat \ {0}]
  /\ Weight[0] = 1
  /\ \A k \in 1 .. W : Weight[k] = 2 * Weight[k - 1]
  /\ Weight[W - 1] = Half

VARIABLE job

Digits == 0 .. Base - 1

RClock(start, ac, mq, mb) ==
  /\ EaeClock(start, ac, mq, mb)
  /\ job' = IF Loading(mul, start) THEN [ac |-> ac, mq |-> mq, mb |-> mb] ELSE job

RInit == EaeInit /\ job = [ac |-> 0, mq |-> 0, mb |-> 0]

RNext == \E start \in BOOLEAN : \E ac, mq, mb \in Digits : RClock(start, ac, mq, mb)

RSpec == RInit /\ [][RNext]_<<eaeVars, job>>

\* Every variable keeps its type; the iterations stop in time.
RTypeOK ==
  /\ EaeTypeOK
  /\ job \in [ac : Digits, mq : Digits, mb : Digits]

\* The two machines go through their phases together: EAE.sv reports the
\* multiplier's finish for both.
LockStep == mul.phase = div.phase /\ mul.count = div.count

Busy(u) == u.phase \in {"S1", "S2"}

\* After k iterations the product register holds the product by the k low
\* bits of the multiplicand, and below it the bits not yet looked at.
Multiplies(multiplier, multiplicand) ==
  LET k == mul.count
  IN  /\ mul.regm = multiplier
      /\ mul.regp = multiplier * (multiplicand % Weight[k]) * Weight[W - k]
                    + multiplicand \div Weight[k]

MultiplyLoop == Busy(mul) => Multiplies(job.mq, job.mb)

\* After k iterations the k low bits of the dividend register are the first k
\* bits of the quotient, and above them is what is left of the dividend, less
\* than the divisor scaled to its place.  A shift has pushed out a zero: the
\* link tells of an earlier division only while each bit was a subtraction.
Divides(dividend, divisor) ==
  LET k    == div.count
      q    == div.regp % Weight[k]
      left == div.regp \div Weight[k]
  IN  /\ div.regm = divisor
      /\ left + divisor * q * Weight[W - k] = dividend
      /\ left < divisor * Weight[W - k]
      /\ div.link = 0 \/ q = Weight[k] - 1

\* The division is right when its quotient fits in a word.
DivideLoop == Busy(div) /\ job.ac < job.mb => Divides(job.ac * Base + job.mq, job.mb)

\* When finished is seen, the results of the next clock are those of the
\* operands loaded, however the inputs have changed since, and the link is
\* clear unless the quotient is all ones.
ResultsAnswerJob ==
  [][EaeFinished =>
       /\ eaeOut'.acMul * Base + eaeOut'.mqMul = job.mq * job.mb
       /\ job.ac < job.mb => /\ eaeOut'.mqDvi = (job.ac * Base + job.mq) \div job.mb
                             /\ eaeOut'.acDvi = (job.ac * Base + job.mq) % job.mb
                             /\ eaeOut'.mqDvi # Base - 1 => div'.link = 0]_<<eaeVars, job>>

=============================================================================
