------------------------------- MODULE Words -------------------------------
(***************************************************************************)
(* The 12-bit words of the PDP-8, their bits and the fields of an          *)
(* instruction word.  A word is the natural number its 12 wires encode;    *)
(* bit 0 is the least significant one, as in the Verilog declarations      *)
(* (logic [11:0]), not as in the PDP-8 handbooks.                          *)
(***************************************************************************)
EXTENDS Naturals, Sequences

Word == 0 .. 4095
BitValue == 0 .. 1

Weights == <<1, 2, 4, 8, 16, 32, 64, 128, 256, 512, 1024, 2048>>

\* Bit i of w, as the number 0 or 1 and as a condition.
Bit(w, i) == (w \div Weights[i + 1]) % 2
On(w, i) == Bit(w, i) = 1

\* The word whose bit i is b[i].
FromBits(b) == b[0] + 2 * b[1] + 4 * b[2] + 8 * b[3] + 16 * b[4] + 32 * b[5]
               + 64 * b[6] + 128 * b[7] + 256 * b[8] + 512 * b[9]
               + 1024 * b[10] + 2048 * b[11]

And(v, w) == FromBits([i \in 0 .. 11 |-> Bit(v, i) * Bit(w, i)])
Or(v, w) == FromBits([i \in 0 .. 11 |-> IF On(v, i) THEN 1 ELSE Bit(w, i)])
Not(w) == 4095 - w

Inc(w) == (w + 1) % 4096

\* ir[11:9], ir[6:0] and the five high bits of an address.
Opcode(w) == w \div 512
Offset(w) == w % 128
Page(w) == w - (w % 128)

\* A mutant: the comparison forgets the lowest of the nine bits.
AutoIndexWide(w) == w \div 8 <= 1

\* An address whose high nine bits are 000000001: the locations 0010-0017.
AutoIndex(w) == w \div 8 = 1

=============================================================================
