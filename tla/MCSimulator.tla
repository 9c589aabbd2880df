---------------------------- MODULE MCSimulator ----------------------------
(***************************************************************************)
(* Small programs for the simulator, and what the user may type.           *)
(***************************************************************************)
EXTENDS SimulatorProperties

At200(words) == [a \in 128 .. 127 + Len(words) |-> words[a - 127]]

\* Read until a `q': KSF; JMP .-1; KRB; TLS; TAD 20; SZA; JMP 200; HLT.
PollKRB == At200(<<\o6031, \o5200, \o6036, \o6046, \o1020, \o7440, \o5200, \o7402>>)
           @@ 16 :> 4096 - 16 * 113

\* KCC; KSF; JMP .-1; KRS; TPC; TAD 20; SZA; JMP 200; HLT.
PollKRS == At200(<<\o6032, \o6031, \o5201, \o6034, \o6044, \o1020, \o7440, \o5200, \o7402>>)
           @@ 16 :> 4096 - 16 * 113

\* TFL; TSF; HLT; TCF; KCF; TSF; HLT.
Flags == At200(<<\o6040, \o6041, \o7402, \o6042, \o6030, \o6041, \o7402>>)

Halt == At200(<<\o7402>>)

\* echo.pal: CLA; TLS; KSF; JMP .-1; KRB; TSF; JMP .-1; TLS; JMP 202.
Echo == At200(<<\o7200, \o6046, \o6031, \o5202, \o6036, \o6041, \o5205, \o6046, \o5202>>)

PollImages == {PollKRB, PollKRS, Flags, Halt}
PollImage == {PollKRB}
EchoImage == {Echo}

\* `a', a character with the high bit set, the end of a line, `q'.
FourKeys == <<97, 233, 10, 113>>
TwoKeys == <<97, 98>>
Either == BOOLEAN
Never == {FALSE}

=============================================================================
