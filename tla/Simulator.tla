----------------------------- MODULE Simulator -----------------------------
(***************************************************************************)
(* The C simulator as a process (good_models/C_PDP8): main opens the       *)
(* files, starts the keyboard thread and the simulator thread, waits for   *)
(* both and writes the memory listing.  The threads share struct keyboard  *)
(* under keyboard_mux, and standard input under stdio's own lock when the  *)
(* debugger reads from it too.                                             *)
(*                                                                         *)
(* A character is the place it has in what the user types: 0 is what the   *)
(* uninitialised input_char holds, one past the end is EOF.  Byte gives    *)
(* its code.  Taking keyboard_mux is one action, what is done under it and *)
(* its release are another: nothing in between touches the same state.     *)
(***************************************************************************)
EXTENDS Golden, FiniteSets, TLC

CONSTANTS
  Keys,      \* the codes of the characters the user may type, in order
  Images,    \* the memory contents fill_memory may leave
  Debugging  \* whether the fourth argument is "d": a set of BOOLEAN

ASSUME KeysAssumption == Keys \in Seq(0 .. 255)
ASSUME ImagesAssumption == \A m \in Images : DOMAIN m \subseteq Word

VARIABLES
  mainPc, simPc, kbPc,  \* where the three threads are
  pressed, hit, got,    \* read_keyboard: local_key_press, kb_return, inputted_char
  machine,     \* run_program: registers, with memory, as in Golden
  instruction, \* its current_instruction
  printFlag,   \* registers.print_flag
  printed,     \* the code of the last character it printed
  shown,       \* the last of them certain to have left stdout's buffer
  debugger,    \* debugger.c: state
  kb,          \* struct keyboard, with input_char as a place
  mutex,       \* who holds keyboard_mux
  stdinLock,   \* who holds the lock of stdin
  typed,       \* how many characters have been typed
  tty, buffer, \* those the terminal holds, and those stdio has taken from it
  closed,      \* no more will come
  canonical,   \* the terminal hands over whole lines only
  files,       \* the open files
  listing,     \* valid_memory_golden.txt, a set of at most one memory
  debugged,    \* history: whether the debugger was asked for
  lastRead     \* history: the last character KRS or KRB gave the program

mainVars == <<mainPc, listing>>
keyboardVars == <<kbPc, pressed, hit, got, canonical>>
simVars == <<simPc, machine, instruction, printFlag, printed, debugger, debugged, lastRead>>
sharedVars == <<kb, mutex>>
stdinVars == <<stdinLock, tty, buffer>>
userVars == <<typed, closed>>
simulatorVars == <<mainVars, keyboardVars, simVars, sharedVars, stdinVars, userVars, files, shown>>

EOF == Len(Keys) + 1
Byte(c) == IF c = 0 THEN 85 ELSE IF c = EOF THEN 255 ELSE Keys[c]
Newline(c) == Byte(c) = 10

\* exit() and a crash end every thread.
Exited == mainPc \in {"done", "failed"}

-----------------------------------------------------------------------------
\* The terminal.  A read takes all there is to have, in canonical mode one
\* line; at the end of input it takes nothing and a reader gets EOF.

KeyPress ==
  /\ ~Exited /\ ~closed /\ typed < Len(Keys)
  /\ typed' = typed + 1
  /\ tty' = Append(tty, typed + 1)
  /\ UNCHANGED <<closed, mainVars, keyboardVars, simVars, sharedVars, stdinLock, buffer, files, shown>>

CloseInput ==
  /\ ~Exited /\ ~closed
  /\ closed' = TRUE
  /\ UNCHANGED <<typed, mainVars, keyboardVars, simVars, sharedVars, stdinVars, files, shown>>

\* stdio may write out what it holds at any time; it must at fflush and exit.
Flush ==
  /\ ~Exited
  /\ shown' = printed
  /\ UNCHANGED <<mainVars, keyboardVars, simVars, sharedVars, stdinVars, userVars, files>>

LineEnds == {k \in 1 .. Len(tty) : Newline(tty[k])}
FirstLine == SubSeq(tty, 1, CHOOSE k \in LineEnds : \A l \in LineEnds : k <= l)

Deliverable == IF ~canonical \/ (closed /\ LineEnds = {}) THEN tty
               ELSE IF LineEnds = {} THEN <<>> ELSE FirstLine

\* A getc: from the buffer if it holds anything, else one read fills it.
Filled == IF buffer = <<>> THEN Deliverable ELSE buffer
Readable == Filled # <<>> \/ closed

Char == IF Filled = <<>> THEN EOF ELSE Head(Filled)
TakeChar ==
  /\ Readable
  /\ buffer' = IF Filled = <<>> THEN <<>> ELSE Tail(Filled)
  /\ tty' = IF buffer = <<>> THEN SubSeq(tty, Len(Filled) + 1, Len(tty)) ELSE tty

\* Nobody else reads from stdin while one waits for a character.
LockStdin(who) == stdinLock = "none" /\ stdinLock' = who
UnlockStdin == stdinLock' = "none"

Lock(who) == mutex = "none" /\ mutex' = who
Unlock == mutex' = "none"

-----------------------------------------------------------------------------
\* read_keyboard.

AtKb(from, to) == kbPc = from /\ kbPc' = to
OtherThanKb == UNCHANGED <<mainVars, simVars, userVars, files, shown>>

NonBlocking ==
  /\ AtKb("start", "poll")
  /\ canonical' = FALSE
  /\ UNCHANGED <<pressed, hit, got, sharedVars, stdinVars>>

\* A mutant: kbhit always sees a key.
KbHitAlways == TRUE

\* select on the descriptor: it does not see what stdio has buffered.
KbHit == Deliverable # <<>> \/ closed

Poll ==
  /\ AtKb("poll", IF pressed THEN "lock clear" ELSE IF KbHit THEN "get" ELSE "lock quit")
  /\ hit' = KbHit
  /\ pressed' = FALSE
  /\ UNCHANGED <<got, canonical, sharedVars, stdinVars>>

ClearFlag ==
  /\ AtKb("clear", IF hit THEN "get" ELSE "lock quit")
  /\ kb' = [kb EXCEPT !.flag = 0]
  /\ Unlock
  /\ UNCHANGED <<pressed, hit, got, canonical, stdinVars>>

BeginGet ==
  /\ AtKb("get", "getting")
  /\ LockStdin("keyboard")
  /\ pressed' = TRUE
  /\ UNCHANGED <<hit, got, canonical, sharedVars, tty, buffer>>

Fgetc ==
  /\ AtKb("getting", "lock store")
  /\ got' = Char
  /\ TakeChar
  /\ UnlockStdin
  /\ UNCHANGED <<pressed, hit, canonical, sharedVars>>

\* A mutant: the structure is written as a whole.
StoreWhole ==
  /\ AtKb("store", "lock quit")
  /\ kb' = [char |-> got, flag |-> 1, quit |-> 0]
  /\ hit' = FALSE
  /\ Unlock
  /\ UNCHANGED <<pressed, got, canonical, stdinVars>>

Store ==
  /\ AtKb("store", "lock quit")
  /\ kb' = [kb EXCEPT !.char = got, !.flag = 1]
  /\ hit' = FALSE
  /\ Unlock
  /\ UNCHANGED <<pressed, got, canonical, stdinVars>>

SeeQuit ==
  /\ AtKb("quit", IF kb.quit = 1 THEN "disable" ELSE "poll")
  /\ Unlock
  /\ UNCHANGED <<pressed, hit, got, canonical, kb, stdinVars>>

Blocking ==
  /\ AtKb("disable", "ended")
  /\ canonical' = TRUE
  /\ UNCHANGED <<pressed, hit, got, sharedVars, stdinVars>>

KeyboardLocks ==
  /\ ~Exited
  /\ Lock("keyboard")
  /\ \/ AtKb("lock clear", "clear")
     \/ AtKb("lock store", "store")
     \/ AtKb("lock quit", "quit")
  /\ UNCHANGED <<pressed, hit, got, canonical, kb, stdinVars>>
  /\ OtherThanKb

KeyboardMoves ==
  /\ ~Exited
  /\ NonBlocking \/ Poll \/ ClearFlag \/ BeginGet \/ Fgetc \/ Store \/ SeeQuit \/ Blocking
  /\ OtherThanKb

-----------------------------------------------------------------------------
\* run_program.  The loop's body is one action, but for the mutex.

AtSim(from, to) == simPc = from /\ simPc' = to
OtherThanSim == UNCHANGED <<mainVars, keyboardVars, userVars, debugged>>
Quiet == UNCHANGED <<sharedVars, stdinVars, files>>

ResetRegs(m) == [ac |-> 0, lk |-> 0, pc |-> 128, sr |-> 0, cpma |-> 0, mb |-> 0,
                 mem |-> m, halted |-> FALSE]

\* Nobody looks whether opcodes_golden.txt could be opened.
Begin ==
  /\ AtSim("start", IF debugger = "OFF" THEN "fetch" ELSE "prompt")
  /\ machine' = ResetRegs(machine.mem)
  /\ printFlag' = 0
  /\ files' \in {files, files \cup {"opcode"}}
  /\ UNCHANGED <<instruction, printed, shown, debugger, lastRead, sharedVars, stdinVars>>

\* A mutant: what was typed ahead of the prompt is thrown away.
PromptDiscards ==
  /\ AtSim("prompt", "gets")
  /\ LockStdin("simulator")
  /\ tty' = <<>> /\ buffer' = <<>>
  /\ UNCHANGED <<machine, instruction, printFlag, printed, shown, debugger, lastRead,
                 sharedVars, files>>

\* debugger_pre_instruction_fetch: gets reads to the end of the line.
Prompt ==
  /\ AtSim("prompt", "gets")
  /\ LockStdin("simulator")
  /\ UNCHANGED <<machine, instruction, printFlag, printed, shown, debugger, lastRead,
                 sharedVars, tty, buffer, files>>

Gets ==
  /\ simPc = "gets"
  /\ TakeChar
  /\ IF Newline(Char) \/ Char = EOF
     THEN simPc' = "fetch" /\ UnlockStdin
     ELSE UNCHANGED <<simPc, stdinLock>>
  /\ UNCHANGED <<machine, instruction, printFlag, printed, shown, debugger, lastRead,
                 sharedVars, files>>

\* The device instructions by their low six bits.
Device(w) == Opcode(w) = 6
KeyboardOps == {\o30, \o31, \o32, \o34, \o36}
Locks(w, m) == m.halted \/ (Device(w) /\ w % 64 \in KeyboardOps)

\* A turn ends with a line for opcodes_golden.txt.
Written(next) == IF "opcode" \in files THEN next ELSE "unwritten"
AfterTurn == Written(IF debugger = "OFF" THEN "fetch" ELSE "prompt")

\* TSF, and KSF below, skip on a flag.
SkipIf(flag, m) == IF flag = 1 THEN [m EXCEPT !.pc = Short(@ + 1)] ELSE m

Printing(m) == (m.ac \div 16) % 256

\* TFL, TSF, TCF, TPC and TLS; any other device code does nothing.  Only TPC
\* flushes.
Printer(w, m) ==
  /\ machine' = IF w % 64 = \o41 THEN SkipIf(printFlag, m) ELSE m
  /\ printFlag' = IF w % 64 = \o40 THEN 1
                  ELSE IF w % 64 \in {\o42, \o46} THEN 0 ELSE printFlag
  /\ printed' = IF w % 64 \in {\o44, \o46} THEN Printing(m) ELSE printed
  /\ shown' = IF w % 64 = \o44 THEN Printing(m) ELSE shown

\* Up to the mutex, if the instruction takes it: KCC and KRB have cleared AC
\* by then, and HLT has done the rest of its word.
Turn ==
  LET w == CurrentInstruction(machine)
      m == Execute(machine)
  IN  /\ AtSim("fetch", IF Locks(w, m) THEN "lock" ELSE AfterTurn)
      /\ instruction' = w
      /\ IF ~Device(w) THEN machine' = m /\ UNCHANGED <<printFlag, printed, shown>>
         ELSE IF w % 64 \in KeyboardOps
           THEN /\ machine' = IF w % 64 \in {\o32, \o36} THEN CLA(m) ELSE m
                /\ UNCHANGED <<printFlag, printed, shown>>
           ELSE Printer(w, m)
      /\ UNCHANGED <<debugger, lastRead>>
      /\ Quiet

\* A char is signed: it is extended to the width of int before the shift.
Extended(byte) == IF byte < 128 THEN 16 * byte ELSE 65536 - 16 * (256 - byte)
Or16(v, w) == 4096 * Or(v \div 4096, w \div 4096) + Or(v, w)
OrInput(m) == [m EXCEPT !.ac = Or16(@, Extended(Byte(kb.char)))]

KCF == kb' = [kb EXCEPT !.flag = 0] /\ UNCHANGED <<machine, lastRead>>
KSF == machine' = SkipIf(kb.flag, machine) /\ UNCHANGED <<kb, lastRead>>
KRS == machine' = OrInput(machine) /\ lastRead' = kb.char /\ UNCHANGED kb

\* A mutant: the flag stays up.
KRBFlagless == machine' = OrInput(machine) /\ lastRead' = kb.char /\ UNCHANGED kb

KRB == /\ machine' = OrInput(machine)
       /\ lastRead' = kb.char
       /\ kb' = [kb EXCEPT !.flag = 0]

\* A mutant: the keyboard thread is not told.
HLTAlone == UNCHANGED <<kb, machine, lastRead>>
HLT == kb' = [kb EXCEPT !.quit = 1] /\ UNCHANGED <<machine, lastRead>>

\* What is done under keyboard_mux.
UnderLock ==
  LET op == instruction % 64
  IN  /\ AtSim("locked", IF machine.halted THEN Written("post") ELSE AfterTurn)
      /\ CASE machine.halted -> HLT
           [] ~machine.halted /\ op \in {\o30, \o32} -> KCF
           [] ~machine.halted /\ op = \o31 -> KSF
           [] ~machine.halted /\ op = \o34 -> KRS
           [] ~machine.halted /\ op = \o36 -> KRB
      /\ Unlock
      /\ UNCHANGED <<instruction, printFlag, printed, shown, debugger, stdinVars, files>>

\* After the loop: debugger_post_program_run, and the file is closed.
Finish ==
  /\ AtSim("post", "ended")
  /\ debugger' = "OFF"
  /\ files' = files \ {"opcode"}
  /\ UNCHANGED <<machine, instruction, printFlag, printed, shown, lastRead, sharedVars, stdinVars>>

SimulatorLocks ==
  /\ ~Exited
  /\ AtSim("lock", "locked")
  /\ Lock("simulator")
  /\ UNCHANGED <<machine, instruction, printFlag, printed, shown, debugger, lastRead, kb,
                 stdinVars, files>>
  /\ OtherThanSim

\* The first line written to a file that is not open ends the process; what
\* stdout's buffer holds is lost.
WithoutOpcodeFile ==
  /\ ~Exited
  /\ simPc = "unwritten"
  /\ mainPc' = "failed"
  /\ UNCHANGED <<listing, keyboardVars, simVars, sharedVars, stdinVars, userVars, files, shown>>

SimulatorMoves ==
  /\ ~Exited
  /\ Begin \/ Prompt \/ Gets \/ Turn \/ UnderLock \/ Finish
  /\ OtherThanSim

-----------------------------------------------------------------------------
\* main.

AtMain(from, to) == mainPc = from /\ mainPc' = to
OtherThanMain == UNCHANGED <<pressed, hit, got, canonical, machine, instruction, printFlag,
                             printed, debugger, debugged, lastRead, sharedVars, stdinVars, userVars>>

\* init_system and trace_init open the branch trace and the memory trace.
\* Without a file main exits, or crashes on the missing trace.
OpenFile(from, to, file) ==
  /\ \/ AtMain(from, to) /\ files' = files \cup {file}
     \/ AtMain(from, "failed") /\ UNCHANGED files
  /\ UNCHANGED <<kbPc, simPc, listing, shown>>

OpenBranchTrace == OpenFile("init", "trace", "branch")
OpenTrace == OpenFile("trace", "create keyboard", "trace")

CreateKeyboard ==
  /\ \/ AtMain("create keyboard", "create simulator") /\ kbPc' = "start"
     \/ AtMain("create keyboard", "failed") /\ UNCHANGED kbPc
  /\ UNCHANGED <<simPc, files, listing, shown>>

CreateSimulator ==
  /\ \/ AtMain("create simulator", "join keyboard") /\ simPc' = "start"
     \/ AtMain("create simulator", "failed") /\ UNCHANGED simPc
  /\ UNCHANGED <<kbPc, files, listing, shown>>

\* A mutant: the keyboard thread is detached.
JoinNothing ==
  /\ AtMain("join keyboard", "join simulator")
  /\ UNCHANGED <<kbPc, simPc, files, listing, shown>>

JoinKeyboard ==
  /\ AtMain("join keyboard", "join simulator")
  /\ kbPc = "ended"
  /\ UNCHANGED <<kbPc, simPc, files, listing, shown>>

JoinSimulator ==
  /\ AtMain("join simulator", "print")
  /\ simPc = "ended"
  /\ UNCHANGED <<kbPc, simPc, files, listing, shown>>

\* Without its file it calls exit, which writes stdout out.
MemPrintValid ==
  /\ \/ AtMain("print", "close") /\ listing' = {machine.mem} /\ UNCHANGED shown
     \/ AtMain("print", "failed") /\ shown' = printed /\ UNCHANGED listing
  /\ UNCHANGED <<kbPc, simPc, files>>

\* And main returns, which is an exit too.
CloseTraces ==
  /\ AtMain("close", "done")
  /\ files' = files \ {"branch", "trace"}
  /\ shown' = printed
  /\ UNCHANGED <<kbPc, simPc, listing>>

MainMoves ==
  /\ \/ OpenBranchTrace \/ OpenTrace \/ CreateKeyboard \/ CreateSimulator \/ JoinKeyboard \/ JoinSimulator
     \/ MemPrintValid \/ CloseTraces
  /\ OtherThanMain

-----------------------------------------------------------------------------

SimulatorInit ==
  /\ mainPc = "init" /\ simPc = "none" /\ kbPc = "none"
  /\ pressed = FALSE /\ hit = FALSE /\ got = 0
  /\ \E m \in Images : machine = ResetRegs(m)
  /\ instruction = 0 /\ printFlag = 0 /\ printed = 0 /\ shown = 0 /\ lastRead = 0
  /\ debugged \in Debugging
  /\ debugger = IF debugged THEN "PAUSE" ELSE "OFF"
  /\ kb = [char |-> 0, flag |-> 0, quit |-> 0]
  /\ mutex = "none" /\ stdinLock = "none"
  /\ typed = 0 /\ tty = <<>> /\ buffer = <<>> /\ closed = FALSE /\ canonical = TRUE
  /\ files = {} /\ listing = {}

Process == KeyboardLocks \/ KeyboardMoves \/ SimulatorLocks \/ SimulatorMoves \/ MainMoves

SimulatorNext == Process \/ WithoutOpcodeFile \/ KeyPress \/ CloseInput \/ Flush

\* The operating system runs every thread that can run, and a thread that
\* keeps asking for the mutex gets it.  Nobody has to type.
SimulatorFairness ==
  /\ WF_simulatorVars(MainMoves)
  /\ WF_simulatorVars(KeyboardMoves) /\ SF_simulatorVars(KeyboardLocks)
  /\ WF_simulatorVars(SimulatorMoves) /\ SF_simulatorVars(SimulatorLocks)
  /\ WF_simulatorVars(WithoutOpcodeFile)

SimulatorSpec == SimulatorInit /\ [][SimulatorNext]_simulatorVars /\ SimulatorFairness

=============================================================================
