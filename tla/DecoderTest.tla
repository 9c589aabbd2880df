---------------------------- MODULE DecoderTest ----------------------------
(***************************************************************************)
(* micro_instruction_decoder_tb.sv: the decoder against the vectors of the *)
(* generator, and, which the testbench does not do, the vectors against    *)
(* the C simulator.  The three were written apart; each is a reference for *)
(* the others.                                                             *)
(***************************************************************************)
EXTENDS MicroGenerator

Decoder == INSTANCE MicroDecoder
Simulator == INSTANCE Golden

Value(b) == IF b THEN 1 ELSE 0

\* The six comparisons the testbench makes at each clock, for whatever the
\* decoder's latch holds.
Answer(v, held) ==
  LET m == Decoder!Micro(v.i_reg, v.ac_reg, v.l_reg, held)
  IN  [result_ac |-> m.ac, result_link |-> m.lk,
       skip |-> Value(Decoder!Skip(v.i_reg, v.ac_reg, v.l_reg)),
       micro_g1 |-> Value(Decoder!Group1(v.i_reg)),
       micro_g2 |-> Value(Decoder!Group2(v.i_reg)),
       micro_g3 |-> Value(Decoder!Group3(v.i_reg))]

\* Every line any build writes is what the decoder answers: no test reads a
\* field another test left wrong, nor one that was never set.
DecoderAgrees ==
  \A v \in line, held \in BitValue : \A f \in DOMAIN Answer(v, held) : v[f] = Answer(v, held)[f]

\* The C simulator gives the same AC and L in group 1, and in group 2 skips
\* where the vectors do.
SimulatorAgrees ==
  \A v \in line :
    LET before == [ac |-> v.ac_reg, lk |-> v.l_reg]
        after  == Simulator!Group1Sequence(v.i_reg, before)
    IN  /\ v.micro_g1 = 1 => after = [ac |-> v.result_ac, lk |-> v.result_link]
        /\ v.micro_g2 = 1 => v.skip = Value(Simulator!Skips(v.i_reg, before))

-----------------------------------------------------------------------------
\* The build the makefile means, and every build without the exhaustive tests.
AllBuilds == {Flags} \cup SUBSET (Flags \ {"RUN_EXHAUSTIVE_TESTS"})

SomeGarbage == {[f \in {"i_reg", "ac_reg", "l_reg", "result_ac", "result_link", "skip",
                        "micro_g1", "micro_g2", "micro_g3"} |-> x] : x \in {0, 255}}

=============================================================================
