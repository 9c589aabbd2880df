--------------------------- MODULE MicroGenerator ---------------------------
(***************************************************************************)
(* micro_instruction_generator.c: the program that writes the test vectors *)
(* of the decoder's testbench.  It keeps one register structure, which     *)
(* every test changes and prints: a line gives the instruction, AC and L   *)
(* before, and AC, L, the skip and the group expected of the decoder.      *)
(*                                                                         *)
(* An opcode test sets the whole structure, a directed test only some      *)
(* fields: the rest stays as an earlier test, perhaps of another group,    *)
(* left it.  Which groups and which kinds of test are compiled in is a     *)
(* choice of the build.  One action prints one line.  The name of the      *)
(* opcode, the last field, is left out.                                    *)
(***************************************************************************)
EXTENDS Words

CONSTANTS
  Builds,  \* the sets of flags the program may be compiled with
  Garbage  \* what the structure may hold before the first test sets it

Flags == {"GROUP1_TESTS", "GROUP2_TESTS", "GROUP3_TESTS",
          "RUN_SINGLE_TESTS", "RUN_EXHAUSTIVE_TESTS", "RUN_DIRECTED_TESTS"}

ASSUME BuildsAssumption == Builds \subseteq SUBSET Flags

\* The fields of regs, with the widths of their C types.
Regs == [i_reg : 0 .. 65535, ac_reg : 0 .. 65535, l_reg : 0 .. 255,
         result_ac : 0 .. 65535, result_link : 0 .. 255, skip : 0 .. 255,
         micro_g1 : 0 .. 255, micro_g2 : 0 .. 255, micro_g3 : 0 .. 255]

ASSUME GarbageAssumption == Garbage \subseteq Regs

VARIABLES
  build,      \* the flags of this build
  call,       \* the test that runs, an index of Tests(build)
  ac, link,   \* its loop variables
  registers,  \* the structure
  line,       \* the set of the line written last
  output      \* where main is with output_file

testVars == <<build, call, ac, link, registers, line>>
genVars == <<testVars, output>>

-----------------------------------------------------------------------------
\* The opcode functions: a group 1 operation gives AC and L, a group 2
\* operation the skip.

Group1Regs(i, a, l, newAc, newLink) ==
  [i_reg |-> i, ac_reg |-> a, l_reg |-> l, result_ac |-> newAc % 65536,
   result_link |-> newLink, skip |-> 0, micro_g1 |-> 1, micro_g2 |-> 0, micro_g3 |-> 0]

CLA(a, l) == Group1Regs(\o200, a, l, 0, l)
CLL(a, l) == Group1Regs(\o100, a, l, a, 0)
CMA(a, l) == Group1Regs(\o040, a, l, 65535 - a, l)
CML(a, l) == Group1Regs(\o020, a, l, a, 255 - l)
IAC(a, l) == Group1Regs(\o001, a, l, a + 1, l)
RAR(a, l) == Group1Regs(\o010, a, l, a \div 2 + l * 2048, a % 2)

\* A mutant: the two bits that come in at the top change places.
RTRCrossed(a, l) ==
  Group1Regs(\o012, a, l, a \div 4 + l * 2048 + (a % 2) * 1024, Bit(a, 1))

RTR(a, l) == Group1Regs(\o012, a, l, a \div 4 + l * 1024 + (a % 2) * 2048, Bit(a, 1))
RAL(a, l) == Group1Regs(\o004, a, l, a * 2 + l, Bit(a, 11))
RTL(a, l) == Group1Regs(\o006, a, l, a * 4 + l * 2 + Bit(a, 11), Bit(a, 10))

Group2Regs(i, a, l, skips) ==
  [i_reg |-> i, ac_reg |-> a, l_reg |-> l, result_ac |-> a, result_link |-> l,
   skip |-> IF skips THEN 1 ELSE 0, micro_g1 |-> 0, micro_g2 |-> 1, micro_g3 |-> 0]

SMA(a, l) == Group2Regs(\o500, a, l, On(a, 11))
SZA(a, l) == Group2Regs(\o440, a, l, a = 0)
SNL(a, l) == Group2Regs(\o420, a, l, l # 0)
SPA(a, l) == Group2Regs(\o510, a, l, ~On(a, 11))
SNA(a, l) == Group2Regs(\o450, a, l, a # 0)
SZL(a, l) == Group2Regs(\o430, a, l, l = 0)

\* The function a test is given a pointer to.
Opcode1(op, a, l) ==
  CASE op = "CLA" -> CLA(a, l) [] op = "CLL" -> CLL(a, l) [] op = "CMA" -> CMA(a, l)
    [] op = "CML" -> CML(a, l) [] op = "IAC" -> IAC(a, l) [] op = "RAR" -> RAR(a, l)
    [] op = "RTR" -> RTR(a, l) [] op = "RAL" -> RAL(a, l) [] op = "RTL" -> RTL(a, l)
    [] op = "SMA" -> SMA(a, l) [] op = "SZA" -> SZA(a, l) [] op = "SNL" -> SNL(a, l)
    [] op = "SPA" -> SPA(a, l) [] op = "SNA" -> SNA(a, l) [] op = "SZL" -> SZL(a, l)

-----------------------------------------------------------------------------
\* The tests.  Single: an opcode on one AC, with both links.  Exhaustive: on
\* every AC.  Directed: an assignment of the first five fields, and of those
\* of the others that `wires' has.

Single(op, a) == [kind |-> "single", op |-> op, ac |-> a]
Exhaustive(op) == [kind |-> "exhaustive", op |-> op, ac |-> 0]

Directed(i, a, l, newAc, newLink, wires) ==
  [kind |-> "directed", wires |-> wires,
   set |-> [i_reg |-> i, ac_reg |-> a, l_reg |-> l, result_ac |-> newAc, result_link |-> newLink]]

Wires(s, g1, g2, g3) == [skip |-> s, micro_g1 |-> g1, micro_g2 |-> g2, micro_g3 |-> g3]
NoWires == [f \in {} |-> 0]

group1_single_tests ==
  << Single("CLA", \o7654), Single("CLL", \o7654), Single("CMA", 0),
     Single("CML", \o7654), Single("IAC", \o7776), Single("RAR", \o7777),
     Single("RTR", \o7777), Single("RAL", \o7777), Single("RTL", \o7777) >>

group1_exhaustive_tests ==
  << Exhaustive("CLA"), Exhaustive("CLA"), Exhaustive("CLL"), Exhaustive("CMA"),
     Exhaustive("CML"), Exhaustive("IAC"), Exhaustive("RAR"), Exhaustive("RTR"),
     Exhaustive("RAL"), Exhaustive("RTL") >>

\* Only the first block sets the fields after result_link.
group1_directed_tests ==
  << Directed(\o300, \o7777, 1, 0, 0, Wires(0, 1, 0, 0)),
     Directed(\o240, \o7777, 1, \o7777, 1, NoWires),
     Directed(\o120, \o7777, 1, \o7777, 1, NoWires),
     Directed(\o205, \o7777, 0, 2, 0, NoWires),
     Directed(\o375, \o7777, 1, 0, 1, NoWires) >>

group2_single_tests ==
  << Single("SMA", \o4001), Single("SMA", 1), Single("SZA", 0), Single("SZA", 1),
     Single("SNL", 0), Single("SPA", 1), Single("SPA", \o4001),
     Single("SNA", 4), Single("SNA", 0), Single("SZL", 0) >>

group2_exhaustive_tests ==
  << Exhaustive("SMA"), Exhaustive("SZA"), Exhaustive("SNL"),
     Exhaustive("SPA"), Exhaustive("SNA"), Exhaustive("SZL") >>

\* AC and L are left alone, and the skip is expected to be s; the block may
\* set the group too.
Kept(i, a, l, s) == Directed(i, a, l, a, l, [skip |-> s])
KeptIn(i, a, l, wires) == Directed(i, a, l, a, l, wires)

\* A mutant: the first block leaves the group to the tests before it.
group2_or_groupless ==
  << Kept(\o520, \o4001, 1, 1), KeptIn(\o460, 0, 1, NoWires) >>

group2_or_directed_tests ==
  << KeptIn(\o520, \o4001, 1, Wires(1, 0, 1, 0)), KeptIn(\o460, 0, 1, NoWires) >>

group2_and_directed_tests ==
  << KeptIn(\o550, \o4001, 0, Wires(0, 0, 1, 0)),
     Kept(\o550, 0, 0, 0), Kept(\o550, 1, 0, 1),
     Kept(\o530, \o4001, 1, 0), Kept(\o530, \o4001, 0, 0),
     Kept(\o530, 1, 1, 0), Kept(\o530, 1, 0, 1),
     Kept(\o470, 0, 1, 0), Kept(\o470, 1, 1, 0),
     Kept(\o470, 0, 1, 0), Kept(\o470, 1, 0, 1),
     Kept(\o570, \o4001, 1, 0), Kept(\o570, \o4001, 0, 0),
     Kept(\o570, 1, 1, 0), Kept(\o570, 1, 0, 1) >>

group3_tests ==
  << KeptIn(\o401, \o4001, 1, Wires(0, 0, 0, 1)), KeptIn(\o411, \o4001, 1, Wires(1, 0, 0, 1)) >>

-----------------------------------------------------------------------------
\* main: the tests of a build in the order they are called.

If(flags, tests) == IF flags \subseteq build THEN tests ELSE <<>>

Tests ==
  If({"GROUP1_TESTS", "RUN_SINGLE_TESTS"}, group1_single_tests)
  \o If({"GROUP1_TESTS", "RUN_EXHAUSTIVE_TESTS"}, group1_exhaustive_tests)
  \o If({"GROUP1_TESTS", "RUN_DIRECTED_TESTS"}, group1_directed_tests)
  \o If({"GROUP2_TESTS", "RUN_SINGLE_TESTS"}, group2_single_tests)
  \o If({"GROUP2_TESTS", "RUN_EXHAUSTIVE_TESTS"}, group2_exhaustive_tests)
  \o If({"GROUP2_TESTS", "RUN_DIRECTED_TESTS"},
        group2_or_directed_tests \o group2_and_directed_tests)
  \o If({"GROUP3_TESTS"}, group3_tests)

\* write_regs: every field is cut to its width on the wire.
Written(r) ==
  [f \in DOMAIN r |-> CASE f = "i_reg" -> r[f] % 512
                        [] f \in {"ac_reg", "result_ac"} -> r[f] % 4096
                        [] OTHER -> r[f] % 2]

Emit(r) == registers' = r /\ line' = {Written(r)}

run_single_test ==
  /\ Tests[call].kind = "single"
  /\ Emit(Opcode1(Tests[call].op, Tests[call].ac, link))
  /\ link' = 1 - link
  /\ call' = call + link
  /\ UNCHANGED <<build, ac>>

run_exhaustive_test ==
  /\ Tests[call].kind = "exhaustive"
  /\ Emit(Opcode1(Tests[call].op, ac, link))
  /\ link' = 1 - link
  /\ ac' = (ac + link) % 4096
  /\ call' = IF ac = 4095 /\ link = 1 THEN call + 1 ELSE call
  /\ UNCHANGED build

\* The structure r after the block of test t.
Assigned(t, r) ==
  [f \in DOMAIN r |-> IF f \in DOMAIN t.set THEN t.set[f]
                     ELSE IF f \in DOMAIN t.wires THEN t.wires[f] ELSE r[f]]

run_directed_test ==
  /\ Tests[call].kind = "directed"
  /\ Emit(Assigned(Tests[call], registers))
  /\ call' = call + 1
  /\ UNCHANGED <<build, ac, link>>

GenInit ==
  /\ build \in Builds
  /\ call = 1 /\ ac = 0 /\ link = 0
  /\ registers \in Garbage
  /\ line = {}
  /\ output = "unopened"

\* Without the file main exits and no test runs.
OpenOutput ==
  /\ output = "unopened"
  /\ output' \in {"open", "failed"}
  /\ UNCHANGED testVars

RunTest ==
  /\ output = "open" /\ call <= Len(Tests)
  /\ run_single_test \/ run_exhaustive_test \/ run_directed_test
  /\ UNCHANGED output

CloseOutput ==
  /\ output = "open" /\ call > Len(Tests)
  /\ output' = "closed"
  /\ UNCHANGED testVars

GenNext == OpenOutput \/ RunTest \/ CloseOutput

GenSpec == GenInit /\ [][GenNext]_genVars

=============================================================================
