------------------------------- MODULE MCEae -------------------------------
(***************************************************************************)
(* The EAE with words of three bits.                                       *)
(***************************************************************************)
EXTENDS EAEResults

Powers == [k \in 0 .. 3 |-> 2^k]

\* A bound: every job is explored after power-up and after jobs whose
\* results are zero, and not after every other job.
ZeroBefore == eaeOut = [acMul |-> 0, mqMul |-> 0, acDvi |-> 0, mqDvi |-> 0]

=============================================================================
