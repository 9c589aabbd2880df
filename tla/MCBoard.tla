------------------------------ MODULE MCBoard ------------------------------
(***************************************************************************)
(* Object files for the testbenches, and an operator with four buttons     *)
(* and two settings of the switches.                                       *)
(***************************************************************************)
EXTENDS BoardHistory, TLC

Quiet == [run |-> FALSE, step |-> FALSE, loadpc |-> FALSE, loadac |-> FALSE,
          deposit |-> FALSE, dispsel |-> 0, swreg |-> 0, skipFlag |-> FALSE,
          clearacc |-> FALSE, datain |-> 0]
NoInputs == {Quiet}

ZeroRegs == {[ac |-> 0, lk |-> 0, ir |-> 0, mq |-> 0, pc |-> 0, mb |-> 0, ea |-> 0]}

\* An empty memory for the testbenches; IAC, HLT for the operator.
EmptyOrShort == {<<>>, 0 :> \o7001 @@ 1 :> \o7402}

-----------------------------------------------------------------------------
\* Object files: words and origins as pairs of bytes.
Origin(a) == <<64 + a \div 64, a % 64>>
Bytes(ws) == FlattenSeq([k \in 1 .. Len(ws) |-> <<ws[k] \div 64, ws[k] % 64>>])

\* Data before the program, the last word of memory, and a word stored twice.
\* The program steps the auto-index pointer 10 to 7777, adds what is there,
\* calls a subroutine with a counter at its end, and halts.
Calling == Bytes(<<\o7776, 3>>) \o Origin(\o7777) \o Bytes(<<\o4321>>)
           \o Origin(\o10) \o Bytes(<<\o7776>>)
           \o Origin(\o200) \o Bytes(<<\o7402, \o1410, \o4210, \o3001, \o7402>>)
           \o Origin(\o200) \o Bytes(<<\o7300>>)
           \o Origin(\o210) \o Bytes(<<0, \o2000, \o5211, \o7024, \o5610>>)

\* Skips taken and not taken, over halts, and a byte too many at the end.
Odd == Origin(\o200)
       \o Bytes(<<\o7550, \o7001, \o7550, \o7402, \o7041, \o7500, \o7402, \o7402>>)
       \o <<\o12>>

SomeFiles == {Calling, Odd}

-----------------------------------------------------------------------------
TwoSettings == {0, \o7402}
Unset == {0, \o200, \o7777}
FourButtons == {"btnu", "btnl", "btnd", "btnc"}

\* The operator's machine does not run away from its two words.
NearProgram == user = "operator" =>
  reg.pc \in {0, 1, 2, \o7402} /\ DOMAIN memory \subseteq {0, 1, 2}

=============================================================================
