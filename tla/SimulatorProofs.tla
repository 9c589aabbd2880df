-------------------------- MODULE SimulatorProofs --------------------------
(***************************************************************************)
(* The simulator's threads, for every program, everything the user may     *)
(* type and every interleaving: the keyboard thread never waits in fgetc   *)
(* unless the debugger has taken the character it saw, and a process that  *)
(* ends in order leaves nothing undone.                                    *)
(***************************************************************************)
EXTENDS SimulatorProperties, TLAPS

-----------------------------------------------------------------------------
\* Which threads exist, and which have ended, is known from where main is;
\* so is which files are open.

RunningPcs == {"fetch", "prompt", "gets", "lock", "locked", "post", "unwritten"}

Lifetimes ==
  /\ mainPc \in {"init", "trace", "create keyboard"} => kbPc = "none"
  /\ mainPc \in {"init", "trace", "create keyboard", "create simulator"} => simPc = "none"
  /\ mainPc \in {"join simulator", "print", "close", "done"} => kbPc = "ended"
  /\ mainPc \in {"print", "close", "done"} => simPc = "ended"
  /\ kbPc = "ended" => canonical

Filed ==
  /\ files \subseteq {"branch", "trace", "opcode"}
  /\ "opcode" \in files => simPc \in RunningPcs
  /\ mainPc = "done" => files \subseteq {"opcode"}
  /\ mainPc \in {"close", "done"} => listing = {machine.mem}
  /\ mainPc = "done" => shown = printed

Orderly == Lifetimes /\ Filed

LEMMA InitOrderly == SimulatorInit => Orderly
  BY DEF SimulatorInit, Orderly, Lifetimes, Filed, RunningPcs

\* The keyboard thread moves itself and the terminal.
LEMMA KeyboardOrderly == ASSUME Orderly, KeyboardMoves \/ KeyboardLocks PROVE Orderly'
<1>1. /\ kbPc \notin {"none", "ended"} /\ kbPc' # "none"
      /\ kbPc' = "ended" => canonical'
  BY DEF KeyboardMoves, KeyboardLocks, AtKb, NonBlocking, Poll, ClearFlag, BeginGet, Fgetc,
         Store, SeeQuit, Blocking
<1>2. UNCHANGED <<mainPc, listing, simPc, machine, files>> /\ mainPc # "done"
  BY DEF KeyboardMoves, KeyboardLocks, OtherThanKb, mainVars, simVars, Exited
<1> QED
  BY <1>1, <1>2 DEF Orderly, Lifetimes, Filed

\* The simulator thread moves itself, the machine and its own file.
LEMMA SimulatorOrderly == ASSUME Orderly, SimulatorMoves \/ SimulatorLocks PROVE Orderly'
<1>1. /\ simPc \in {"start"} \cup RunningPcs
      /\ \/ simPc' \in RunningPcs /\ files' \subseteq files \cup {"opcode"}
         \/ simPc' = "ended" /\ files' = files \ {"opcode"}
  BY DEF SimulatorMoves, SimulatorLocks, RunningPcs, AtSim, AfterTurn, Written, Quiet,
         Begin, Prompt, Gets, Turn, UnderLock, Finish
<1>2. UNCHANGED <<mainPc, listing, kbPc, canonical>> /\ mainPc # "done"
  BY DEF SimulatorMoves, SimulatorLocks, OtherThanSim, mainVars, keyboardVars, Exited
<1> QED
  BY <1>1, <1>2 DEF Orderly, Lifetimes, Filed, RunningPcs

\* main starts the threads, waits for them, and then writes and closes.
LEMMA MainOrderly == ASSUME Orderly, MainMoves PROVE Orderly'
<1> USE DEF Orderly, Lifetimes, Filed, RunningPcs, AtMain
<1>1. UNCHANGED <<canonical, machine, printed>>
  BY DEF MainMoves, OtherThanMain
<1>2. CASE OpenBranchTrace \/ OpenTrace
  BY <1>1, <1>2 DEF OpenBranchTrace, OpenTrace, OpenFile
<1>3. CASE CreateKeyboard \/ CreateSimulator
  BY <1>1, <1>3 DEF CreateKeyboard, CreateSimulator
<1>4. CASE JoinKeyboard \/ JoinSimulator
  BY <1>1, <1>4 DEF JoinKeyboard, JoinSimulator
<1>5. CASE MemPrintValid \/ CloseTraces
  BY <1>1, <1>5 DEF MemPrintValid, CloseTraces
<1> QED
  BY <1>2, <1>3, <1>4, <1>5 DEF MainMoves

LEMMA StepOrderly == Orderly /\ [SimulatorNext]_simulatorVars => Orderly'
<1> SUFFICES ASSUME Orderly, [SimulatorNext]_simulatorVars PROVE Orderly'
  OBVIOUS
<1>1. CASE Process
  BY <1>1, KeyboardOrderly, SimulatorOrderly, MainOrderly DEF Process
<1>2. CASE WithoutOpcodeFile
  BY <1>2 DEF WithoutOpcodeFile, Orderly, Lifetimes, Filed, keyboardVars, simVars
<1>3. ASSUME UNCHANGED <<mainVars, keyboardVars, simVars, files>>, shown' \in {shown, printed}
      PROVE  Orderly'
  BY <1>3 DEF Orderly, Lifetimes, Filed, mainVars, keyboardVars, simVars
<1>4. CASE KeyPress \/ CloseInput \/ Flush
  BY <1>3, <1>4 DEF KeyPress, CloseInput, Flush
<1>5. CASE UNCHANGED simulatorVars
  BY <1>3, <1>5 DEF simulatorVars
<1> QED
  BY <1>1, <1>2, <1>4, <1>5 DEF SimulatorNext

\* A process that ends in order has joined both threads, gives the terminal
\* back as it was, has closed its files, and has listed the memory as the
\* program left it.
THEOREM EndsOrderly == SimulatorSpec => []OrderlyEnd
<1>1. Orderly => OrderlyEnd
  BY DEF Orderly, Lifetimes, Filed, RunningPcs, OrderlyEnd
<1> QED
  BY <1>1, InitOrderly, StepOrderly, PTL DEF SimulatorSpec

-----------------------------------------------------------------------------
\* What kbhit saw is still there: without the debugger only the keyboard
\* thread reads from standard input.

\* The keyboard thread's loop, in which the terminal delivers characters as
\* they come.
LoopPcs == {"poll", "lock clear", "clear", "get", "getting", "lock store", "store",
            "lock quit", "quit", "disable"}

\* Where the thread has seen a character that it has not read yet.
Seen == kbPc \in {"get", "getting"} \/ (kbPc \in {"lock clear", "clear"} /\ hit)

OneReader ==
  /\ kbPc \in LoopPcs => ~canonical
  /\ typed \in Nat
  /\ ~debugged => /\ debugger = "OFF" /\ simPc \notin {"prompt", "gets"}
                  /\ tty \in Seq(Nat)
                  /\ Seen => buffer # <<>> \/ tty # <<>> \/ closed

LEMMA InitOneReader == SimulatorInit => OneReader
<1>1. <<>> \in Seq(Nat)
  OBVIOUS
<1> QED
  BY <1>1 DEF SimulatorInit, OneReader, LoopPcs, Seen

\* In the loop everything typed is delivered at once.
LEMMA DeliversAll == ASSUME OneReader, kbPc \in LoopPcs PROVE Deliverable = tty
  BY DEF OneReader, Deliverable

LEMMA FgetcReader == ASSUME OneReader, Fgetc, OtherThanKb PROVE OneReader'
<1>1. /\ kbPc = "getting" /\ kbPc' = "lock store"
      /\ UNCHANGED <<canonical, simPc, debugger, debugged, typed>>
  BY DEF Fgetc, AtKb, OtherThanKb, simVars, userVars
<1>2. ASSUME ~debugged PROVE tty' \in Seq(Nat)
  <2>1. tty \in Seq(Nat) /\ Deliverable = tty
    BY <1>1, <1>2, DeliversAll DEF OneReader, LoopPcs
  <2>2. tty' = IF buffer = <<>> THEN SubSeq(tty, Len(tty) + 1, Len(tty)) ELSE tty
    BY <2>1 DEF Fgetc, TakeChar, Filled
  <2>3. SubSeq(tty, Len(tty) + 1, Len(tty)) \in Seq(Nat)
    BY <2>1
  <2> QED
    BY <2>1, <2>2, <2>3
<1> QED
  BY <1>1, <1>2 DEF OneReader, LoopPcs, Seen

LEMMA StillThere ==
  ASSUME OneReader, kbPc \in LoopPcs, Seen' => Seen,
         UNCHANGED <<canonical, debugger, simPc, debugged, typed, closed, tty, buffer>>
  PROVE  OneReader'
  BY DEF OneReader

LEMMA KeyboardReader == ASSUME OneReader, KeyboardMoves \/ KeyboardLocks PROVE OneReader'
<1>1. OtherThanKb
  BY DEF KeyboardMoves, KeyboardLocks
<1>2. UNCHANGED <<debugger, simPc, debugged, typed, closed>>
  BY <1>1 DEF OtherThanKb, simVars, userVars
<1> USE DEF OneReader, LoopPcs, Seen, AtKb, stdinVars
<1>3. CASE Fgetc
  BY <1>1, <1>3, FgetcReader
<1>4. CASE Poll
  <2>1. KbHit => tty # <<>> \/ closed
    BY <1>4, DeliversAll DEF Poll, KbHit
  <2>2. /\ kbPc = "poll" /\ kbPc' \in {"lock clear", "get", "lock quit"}
        /\ (kbPc' = "get" => KbHit) /\ hit' = KbHit
        /\ UNCHANGED <<canonical, tty, buffer>>
    BY <1>4 DEF Poll
  <2> QED
    BY <1>2, <2>1, <2>2
<1>5. CASE NonBlocking \/ Blocking
  BY <1>2, <1>5 DEF NonBlocking, Blocking
<1>6. CASE ClearFlag \/ BeginGet
  <2>1. UNCHANGED <<canonical, hit, tty, buffer>> /\ kbPc \in LoopPcs
    BY <1>6 DEF ClearFlag, BeginGet
  <2>2. Seen' => Seen
    BY <1>6, <2>1 DEF ClearFlag, BeginGet
  <2> HIDE DEF OneReader, LoopPcs, Seen
  <2> QED
    BY <1>2, <2>1, <2>2, StillThere
<1>7. CASE Store \/ SeeQuit \/ KeyboardLocks
  <2>1. UNCHANGED <<canonical, tty, buffer>> /\ kbPc \in LoopPcs
    BY <1>7 DEF Store, SeeQuit, KeyboardLocks
  <2>2. CASE Store \/ SeeQuit
    <3>1. ~Seen'
      BY <2>2 DEF Store, SeeQuit
    <3> HIDE DEF OneReader, LoopPcs, Seen
    <3> QED
      BY <1>2, <2>1, <3>1, StillThere
  <2>3. CASE KeyboardLocks
    <3>1. Seen' => Seen
      BY <2>3 DEF KeyboardLocks
    <3> HIDE DEF OneReader, LoopPcs, Seen
    <3> QED
      BY <1>2, <2>1, <3>1, StillThere
  <2> QED
    BY <1>7, <2>2, <2>3
<1> QED
  BY <1>3, <1>4, <1>5, <1>6, <1>7 DEF KeyboardMoves

LEMMA SimulatorReader == ASSUME OneReader, SimulatorMoves \/ SimulatorLocks PROVE OneReader'
<1>1. UNCHANGED <<kbPc, canonical, hit, typed, closed, debugged>>
  BY DEF SimulatorMoves, SimulatorLocks, OtherThanSim, keyboardVars, userVars
<1>2. ASSUME ~debugged
      PROVE  /\ debugger' = "OFF" /\ simPc' \notin {"prompt", "gets"}
             /\ UNCHANGED <<tty, buffer>>
  BY <1>2 DEF OneReader, SimulatorMoves, SimulatorLocks, AtSim, AfterTurn, Written, Quiet, stdinVars,
              Begin, Prompt, Gets, Turn, UnderLock, Finish
<1> QED
  BY <1>1, <1>2 DEF OneReader, Seen

LEMMA StepReader == OneReader /\ [SimulatorNext]_simulatorVars => OneReader'
<1> SUFFICES ASSUME OneReader, [SimulatorNext]_simulatorVars PROVE OneReader'
  OBVIOUS
<1>1. CASE KeyboardMoves \/ KeyboardLocks
  BY <1>1, KeyboardReader
<1>2. CASE SimulatorMoves \/ SimulatorLocks
  BY <1>2, SimulatorReader
<1>3. ASSUME UNCHANGED <<canonical, hit, debugger, debugged, tty, buffer, typed, closed>>,
             kbPc' \in {kbPc, "start"}, simPc' \in {simPc, "start"}
      PROVE  OneReader'
  BY <1>3 DEF OneReader, LoopPcs, Seen
<1>4. CASE MainMoves
  <2>1. kbPc' \in {kbPc, "start"} /\ simPc' \in {simPc, "start"}
    BY <1>4 DEF MainMoves, OpenBranchTrace, OpenTrace, OpenFile, CreateKeyboard, CreateSimulator,
                JoinKeyboard, JoinSimulator, MemPrintValid, CloseTraces
  <2> QED
    BY <1>3, <1>4, <2>1 DEF MainMoves, OtherThanMain, stdinVars, userVars
<1>5. CASE WithoutOpcodeFile \/ Flush
  BY <1>3, <1>5 DEF WithoutOpcodeFile, Flush, keyboardVars, simVars, stdinVars, userVars
<1>6. CASE KeyPress
  <2>1. /\ UNCHANGED <<kbPc, simPc, canonical, hit, debugger, debugged, closed, buffer>>
        /\ typed' = typed + 1 /\ tty' = Append(tty, typed + 1)
    BY <1>6 DEF KeyPress, keyboardVars, simVars
  <2>2. ASSUME tty \in Seq(Nat) PROVE tty' \in Seq(Nat) /\ tty' # <<>>
    <3>1. typed + 1 \in Nat
      BY DEF OneReader
    <3> QED
      BY <2>1, <2>2, <3>1
  <2>3. /\ (kbPc \in LoopPcs => ~canonical)'
        /\ typed' \in Nat
    <3>1. typed \in Nat /\ (kbPc \in LoopPcs => ~canonical)
      BY DEF OneReader
    <3>2. UNCHANGED <<kbPc, canonical>>
      BY <2>1
    <3>3. typed' = typed + 1
      BY <2>1
    <3>4. typed' \in Nat
      BY <3>1, <3>3
    <3> QED
      BY <3>1, <3>2, <3>4 DEF LoopPcs
  <2>4. ASSUME ~debugged
        PROVE  debugger' = "OFF" /\ simPc' \notin {"prompt", "gets"} /\ tty \in Seq(Nat)
    BY <2>1, <2>4 DEF OneReader
  <2>5. (~debugged)' <=> ~debugged
    BY <2>1
  <2> QED
    BY <2>2, <2>3, <2>4, <2>5 DEF OneReader
<1>7. CASE CloseInput
  BY <1>7 DEF CloseInput, OneReader, Seen, keyboardVars, simVars, stdinVars
<1>8. CASE UNCHANGED simulatorVars
  BY <1>3, <1>8 DEF simulatorVars, keyboardVars, simVars, stdinVars, userVars
<1> QED
  BY <1>1, <1>2, <1>4, <1>5, <1>6, <1>7, <1>8 DEF SimulatorNext, Process

\* The keyboard thread, once in fgetc, gets its character without another
\* key being pressed; only the debugger can have taken it.
THEOREM FgetcGets == SimulatorSpec => []FgetcReturns
<1>1. OneReader => FgetcReturns
  <2> SUFFICES ASSUME OneReader, kbPc = "getting", ~debugged PROVE Readable
    BY DEF FgetcReturns
  <2>1. Deliverable = tty
    BY DeliversAll DEF LoopPcs
  <2> QED
    BY <2>1 DEF OneReader, Seen, Readable, Filled
<1> QED
  BY <1>1, InitOneReader, StepReader, PTL DEF SimulatorSpec

=============================================================================
