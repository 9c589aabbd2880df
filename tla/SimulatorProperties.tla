------------------------ MODULE SimulatorProperties ------------------------
(***************************************************************************)
(* What must hold of the simulator's threads, however they interleave and  *)
(* whatever the user types or does not type.                               *)
(***************************************************************************)
EXTENDS Simulator

\* A program that waits for the flag and then reads never gets a character
\* twice, nor two in another order than they were typed, nor what input_char
\* held before the first: the flag that KRB or KCC clears and that the
\* keyboard thread raises and clears on its own always goes with a new
\* character.  Characters may be lost.
Reads == simPc = "locked" /\ ~machine.halted /\ instruction % 64 \in {\o34, \o36}
ReadInOrder ==
  [][Reads /\ simPc' # "locked" => \/ lastRead' > lastRead
                                   \/ lastRead' = EOF /\ closed]_simulatorVars

\* The keyboard thread calls fgetc, which waits, only after kbhit has seen a
\* character, so it goes on looking at quit.  Only the debugger can take that
\* character from it.
FgetcReturns == kbPc = "getting" => Readable \/ debugged

\* When the process has ended in order, both threads have, the terminal is
\* as it was, the files are closed, the listing is the memory as the program left
\* it and the last character it printed is out, flushed (TPC) or not (TLS).
OrderlyEnd ==
  mainPc = "done" => /\ kbPc = "ended" /\ simPc = "ended"
                     /\ canonical
                     /\ files = {}
                     /\ listing = {machine.mem}
                     /\ shown = printed

\* Once the program has halted the process ends, whether or not another key
\* is pressed.  With the debugger, whose gets can take the character kbhit
\* saw, the keyboard thread may be left waiting for one more.
Ends == machine.halted ~> Exited \/ (debugged /\ kbPc = "getting" /\ ~Readable)

\* And one more is enough, or the end of the input: when the program has
\* halted and there is a character to read, debugger or not, the process ends.
OneMoreKey == machine.halted /\ Readable ~> Exited

\* The debugger's gets and the keyboard thread's fgetc share stdin without
\* losing a line end between them: an Enter nobody has taken while the
\* debugger prompts lets it go on, or the keyboard thread has taken and stored
\* it (and the user must press Enter again).
Untaken(c) == c \in {tty[k] : k \in DOMAIN tty} \cup {buffer[k] : k \in DOMAIN buffer}
EnterIsTaken ==
  \A c \in {k \in 1 .. Len(Keys) : Newline(k)} :
    simPc \in {"prompt", "gets"} /\ Untaken(c) ~> simPc = "fetch" \/ kb.char >= c \/ Exited

-----------------------------------------------------------------------------
\* read_keyboard "reads keyboard input and stores the chars inputted": a
\* character that has been typed is stored, or a later one.
KeysAreStored == \A c \in 1 .. Len(Keys) : typed >= c ~> Exited \/ kb.char >= c

\* echo.pal, at its last TLS: "write character".  The wait before it is a TSF.
EchoIsWritten == \A c \in 1 .. Len(Keys) : lastRead = c ~> Exited \/ printed = Byte(c)

=============================================================================
