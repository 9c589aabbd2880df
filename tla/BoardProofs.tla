---------------------------- MODULE BoardProofs ----------------------------
(***************************************************************************)
(* The board, for every program, object file and divider and all that the  *)
(* operator may do: a button that is held begins one operation, and the    *)
(* panel drives the processor as the processor's own specification says    *)
(* it may be driven, so what is proved of the processor holds on the       *)
(* board: what its users do there are operations of the programmer's       *)
(* machine.                                                                *)
(***************************************************************************)
EXTENDS BoardHistory, CPURefinement

-----------------------------------------------------------------------------
\* A hand: what it may touch.
Handling == \/ \E b : Touch(b) \/ LetGo(b)
            \/ \E v \in Word : Turn(v)
            \/ RunUp \/ RunDown \/ ResetDown \/ ResetUp

LEMMA HandsHandle ==
  ASSUME script \in Seq(Deeds), Operate \/ Follow
  PROVE  /\ Handling
         /\ answered' = (answered /\ buttons' # {} /\ resetN)
         /\ script' \in Seq(Deeds)
<1>1. CASE Operate
  <2>1. Hand => Handling
    BY BoardAssumption DEF Hand, Handling
  <2> QED
    BY <1>1, <2>1 DEF Operate
<1>2. CASE Follow
  <2>1. Head(script) \in Deeds /\ Tail(script) \in Seq(Deeds)
    BY <1>2 DEF Follow
  <2>2. ASSUME NEW step \in Deeds, Perform(step) PROVE Handling
    <3>1. CASE step.act = "turn"
      <4>1. step.value \in Word /\ Turn(step.value)
        BY <2>2, <3>1 DEF Deeds, Perform
      <4> QED
        BY <4>1 DEF Handling
    <3>2. CASE step.act # "turn"
      BY <2>2, <3>2 DEF Deeds, Perform, Handling
    <3> QED
      BY <3>1, <3>2
  <2> QED
    BY <1>2, <2>1, <2>2 DEF Follow
<1> QED
  BY <1>1, <1>2

\* The panel's wires are wires the processor may be driven with.
PanelTyped ==
  /\ run \in BOOLEAN /\ cur_state_disp \in 0 .. 3 /\ sw \in Word
  /\ script \in Seq(Deeds)

LEMMA WiresDrive == PanelTyped => PanelWires \in InputWires
<1>1. ASSUME NEW b PROVE Strobe(b) \in BOOLEAN
  BY DEF Strobe
<1>2. 0 \in 0 .. 255
  OBVIOUS
<1> QED
  BY <1>1, <1>2 DEF PanelTyped, PanelWires, InputWires

LEMMA InitPanel == BoardInit => PanelTyped
<1> SUFFICES ASSUME BoardInit PROVE PanelTyped
  OBVIOUS
<1>1. script \in Seq(Deeds)
  <2>1. CASE user = "operator"
    <3>1. script = <<>>
      BY <2>1 DEF BoardInit, ScriptOf
    <3> QED
      BY <3>1
  <2>2. CASE user # "operator"
    BY <2>2, ScriptsAssumption DEF BoardInit
  <2> QED
    BY <2>1, <2>2
<1>2. 0 \in Word /\ 0 \in 0 .. 3
  BY DEF Word
<1>3. sw \in Word
  BY <1>2, BoardAssumption DEF BoardInit
<1> QED
  BY <1>1, <1>2, <1>3 DEF BoardInit, PanelInit, PanelTyped

LEMMA StepPanel == PanelTyped /\ [BoardNext]_boardVars => PanelTyped'
<1> SUFFICES ASSUME PanelTyped, [BoardNext]_boardVars PROVE PanelTyped'
  OBVIOUS
<1>1. CASE BoardClock
  <2>1. cur_state_disp' \in 0 .. 3
    BY <1>1 DEF PanelTyped, BoardClock, PanelClock, NextDisp
  <2>2. run' \in BOOLEAN
    BY <1>1 DEF BoardClock, PanelClock
  <2> QED
    BY <1>1, <2>1, <2>2 DEF PanelTyped, BoardClock, PanelClock
<1>2. CASE Operate \/ Follow
  <2>1. Handling /\ script' \in Seq(Deeds)
    BY <1>2, HandsHandle DEF PanelTyped
  <2>2. run' \in BOOLEAN
    BY <2>1 DEF PanelTyped, Handling, Touch, LetGo, Turn, RunUp, RunDown, ResetDown, ResetUp,
                panelVars, PanelReset, Press, Release, SetSwitches, RaiseRun, LowerRun
  <2>3. sw' \in Word
    BY <2>1 DEF PanelTyped, Handling, Touch, LetGo, Turn, RunUp, RunDown, ResetDown, ResetUp,
                panelVars, PanelReset, Press, Release, SetSwitches, RaiseRun, LowerRun
  <2>4. cur_state_disp' \in {cur_state_disp, 0}
    BY <2>1 DEF Handling, Touch, LetGo, Turn, RunUp, RunDown, ResetDown, ResetUp,
                panelVars, PanelReset, Press, Release, SetSwitches, RaiseRun, LowerRun
  <2>5. cur_state_disp' \in 0 .. 3
    BY <2>4 DEF PanelTyped
  <2> QED
    BY <2>1, <2>2, <2>3, <2>5 DEF PanelTyped
<1>3. CASE UNCHANGED boardVars
  BY <1>3 DEF PanelTyped, boardVars, panelVars, userVars
<1> QED
  BY <1>1, <1>2, <1>3 DEF BoardNext

\* The board is a processor whose inputs are what the panel makes of the
\* buttons and switches, and whose reset is one of the buttons.
THEOREM BoardIsProcessor == ASSUME Inputs = InputWires PROVE BoardSpec => Spec
<1>1. BoardInit => Init
  BY DEF BoardInit
<1>2. PanelTyped /\ [BoardNext]_boardVars => [Next]_vars
  <2> SUFFICES ASSUME PanelTyped, [BoardNext]_boardVars PROVE [Next]_vars
    OBVIOUS
  <2>1. CASE BoardClock
    BY <2>1, WiresDrive DEF BoardClock, Next
  <2>2. CASE Operate \/ Follow
    <3>1. Handling
      BY <2>2, HandsHandle DEF PanelTyped
    <3>2. UNCHANGED vars \/ PressReset \/ ReleaseReset
      BY <3>1 DEF Handling, Touch, LetGo, Turn, RunUp, RunDown, ResetDown, ResetUp
    <3> QED
      BY <3>2 DEF Next
  <2>3. CASE UNCHANGED boardVars
    BY <2>3 DEF boardVars
  <2> QED
    BY <2>1, <2>2, <2>3 DEF BoardNext
<1> QED
  BY <1>1, <1>2, InitPanel, StepPanel, PTL DEF BoardSpec, Spec

\* So everything proved of the processor holds while it is loaded and run
\* from the panel: answers are fresh and right, instructions are taken in
\* order, and the EAE, which no reset stops, is at rest when it is started.
COROLLARY ProcessorOnBoard ==
  ASSUME Inputs = InputWires
  PROVE  BoardSpec => /\ [](TypeOK /\ Handshake /\ ReadAnswers /\ WriteLands /\ FetchedInOrder)
                      /\ []EaeAnswers
                      /\ NoStaleAnswer /\ EaeFresh
  BY BoardIsProcessor, TypeCorrect, HandshakeHolds, ReadsAnswered, WritesLand, FetchesInOrder,
     EaeCorrect, AnswersAreFresh, EaeRests, PTL

-----------------------------------------------------------------------------
\* The one-shot.

\* Once a button has been answered the one-shot waits for the release, and
\* a reset, which would let it start again, keeps the controller from idling.
Released ==
  /\ ~resetN => state = "REG_INIT"
  /\ answered => buttons # {} /\ (resetN => cur_state_deb = "b3")

LEMMA InitReleased == BoardInit => Released
  BY DEF BoardInit, Init, Released

\* In the two states a reset passes through the controller does one thing.
LEMMA ResetOrIdle ==
  ASSUME NEW i, Controller(i), state \in {"REG_INIT", "CPU_IDLE"}
  PROVE  RegInit \/ CpuIdle(i)
<1> USE DEF Go, Await
<1>1. CASE Console(i)
  BY <1>1 DEF Console, SrChg1, SrChg2, LdPc1, LdAc1, Dep1, Dep2
<1>2. ~Fetch
  BY DEF Fetch, Fetch1, Fetch2, Fetch3, DecodeHalt, Decode, Halt
<1>3. ~EffectiveAddress
  BY DEF EffectiveAddress, CalEa1, EaInd1, EaInd2, EaAut1, EaAut2, EaAut3, EaAut4, EaAut5
<1>4. ~MemoryReference
  BY DEF MemoryReference, And1, And2, And3, Tad1, Tad2, Tad3, Isz1, Isz2, Isz3, Isz4, Isz5,
         Isz6, Dca1, Dca2, Dca3, Jms1, Jms2, Jmp1, AddressOperand, ReadOperand
<1>5. ~InputOutput(i)
  BY DEF InputOutput, Iot1, Iot2, Iot3, Iot4, Iot5, Iot6
<1>6. ~Microcoded
  BY DEF Microcoded, Mic1, Mic2, Mic3, Mic4, Mic5, Mic6, Mic7, Mic8, Mic9, ReadOperand
<1> QED
  BY <1>1, <1>2, <1>3, <1>4, <1>5, <1>6 DEF Controller

\* What a button begins, it begins with its strobe, on a machine out of reset.
LEMMA BeginsByStrobe ==
  ASSUME Released, BoardClock, ByButton
  PROVE  resetN /\ cur_state_deb = "b2" /\ buttons # {}
<1>1. CpuIdle(PanelWires)
  BY ResetOrIdle DEF BoardClock, Clock, ByButton, RegInit, Go
<1>2. \E b \in Buttons : Strobe(b)
  BY <1>1 DEF CpuIdle, Go, IdleSuccessor, PanelWires, ByButton, Buttons
<1> QED
  BY <1>2 DEF Strobe, Released, ByButton

LEMMA ClockReleased == ASSUME Released, BoardClock PROVE Released' /\ (ByButton => ~answered)
<1>1. resetN' = resetN /\ buttons' = buttons /\ answered' = (answered \/ ByButton)
  BY DEF BoardClock, Clock, PanelClock
<1>2. ~resetN' => state' = "REG_INIT"
  BY <1>1, ResetOrIdle DEF Released, BoardClock, Clock, RegInit, CpuIdle, Go
<1>3. ASSUME resetN, buttons # {}, cur_state_deb \in {"b2", "b3"} PROVE cur_state_deb' = "b3"
  BY <1>3 DEF BoardClock, PanelClock, NextDeb
<1>4. ByButton => ~answered
  BY BeginsByStrobe DEF Released
<1>5. CASE ByButton
  BY <1>1, <1>2, <1>3, <1>5, BeginsByStrobe DEF Released
<1>6. CASE ~ByButton
  BY <1>1, <1>2, <1>3, <1>6 DEF Released
<1> QED
  BY <1>4, <1>5, <1>6

\* A hand moves the controller only to reset it.
LEMMA HandReleased ==
  ASSUME Released, Handling, answered' = (answered /\ buttons' # {} /\ resetN)
  PROVE  Released' /\ ~ByButton
<1> USE DEF Released, ByButton, vars, cpuVars, panelVars
<1>1. CASE (\E b : Touch(b) \/ LetGo(b)) \/ (\E v : Turn(v)) \/ RunUp \/ RunDown
  BY <1>1 DEF Touch, LetGo, Turn, RunUp, RunDown, Press, Release, SetSwitches, RaiseRun, LowerRun
<1>2. CASE ResetDown
  BY <1>2 DEF ResetDown, PressReset, PanelReset
<1>3. CASE ResetUp
  BY <1>3 DEF ResetUp, ReleaseReset
<1> QED
  BY <1>1, <1>2, <1>3 DEF Handling

\* However long a button is held, whatever is pressed with it and whatever
\* the machine is doing, it begins one operation before all are let go.
THEOREM OneOperation == BoardSpec => AtMostOnce
<1>1. PanelTyped /\ Released /\ [BoardNext]_boardVars
        => Released' /\ [ByButton => ~answered]_boardVars
  <2> SUFFICES ASSUME PanelTyped, Released, [BoardNext]_boardVars
               PROVE  Released' /\ [ByButton => ~answered]_boardVars
    OBVIOUS
  <2>1. CASE BoardClock
    BY <2>1, ClockReleased
  <2>2. CASE Operate \/ Follow
    BY <2>2, HandsHandle, HandReleased DEF PanelTyped
  <2>3. CASE UNCHANGED boardVars
    BY <2>3 DEF boardVars, vars, cpuVars, panelVars, userVars, Released
  <2> QED
    BY <2>1, <2>2, <2>3 DEF BoardNext
<1> QED
  BY <1>1, InitReleased, InitPanel, StepPanel, PTL DEF BoardSpec, AtMostOnce

-----------------------------------------------------------------------------
\* The operations of the board.

\* No device drives the wires the processor listens to in a transfer.
Formed == pending = [kind |-> pending.kind, sw |-> pending.sw, io |-> pending.io,
                     halts |-> pending.halts, during |-> pending.during]
NoDevice == Formed /\ (state \in {"IOT_2", "IOT_3", "IOT_4"} => pending.io = NoIO)

LEMMA WithinTransfer ==
  ASSUME TypeOK, TypeOK', NEW i, Controller(i), state' \in {"IOT_2", "IOT_3", "IOT_4"}
  PROVE  state \in {"IOT_1", "IOT_2", "IOT_3"}
<1> USE DEF Go, Await
<1>1. ~Console(i)
  BY DEF Console, RegInit, CpuIdle, IdleSuccessor, SrChg1, SrChg2, LdPc1, LdAc1, Dep1, Dep2
<1>2. ~Fetch
  BY FirstStatesNamed DEF Fetch, Fetch1, Fetch2, Fetch3, DecodeHalt, Decode, Halt,
                          FirstRefs, TypeOK, ControlTypeOK
<1>3. ~EffectiveAddress
  BY FirstStatesNamed DEF EffectiveAddress, CalEa1, EaInd1, EaInd2, EaAut1, EaAut2, EaAut3,
                          EaAut4, EaAut5, FirstRefs, TypeOK, ControlTypeOK
<1>4. ~MemoryReference
  BY DEF MemoryReference, And1, And2, And3, Tad1, Tad2, Tad3, Isz1, Isz2, Isz3, Isz4, Isz5,
         Isz6, Dca1, Dca2, Dca3, Jms1, Jms2, Jmp1, AddressOperand, ReadOperand
<1>5. ~Microcoded
  BY DEF Microcoded, Mic1, Mic2, Mic3, Mic4, Mic5, Mic6, Mic7, Mic8, Mic9, ReadOperand
<1>6. CASE InputOutput(i)
  BY <1>6 DEF InputOutput, Iot1, Iot2, Iot3, Iot4, Iot5, Iot6
<1> QED
  BY <1>1, <1>2, <1>3, <1>4, <1>5, <1>6 DEF Controller

LEMMA PanelIsNoDevice == Wires(PanelWires) = NoIO
  BY DEF Wires, PanelWires, NoIO

\* So the panel holds them for as long as a transfer takes.
LEMMA ClockHolds ==
  ASSUME TypeOK, TypeOK', NoDevice, BoardClock, Watch(PanelWires)
  PROVE  Steady(PanelWires) /\ NoDevice'
<1>1. Steady(PanelWires)
  BY PanelIsNoDevice DEF Steady, NoDevice
<1>2. Formed'
  BY DEF Watch, Begin, TakeIn, NoEvent, NoDevice, Formed
<1>3. ASSUME state' \in {"IOT_2", "IOT_3", "IOT_4"} PROVE pending'.io = NoIO
  <2>1. state \in {"IOT_1", "IOT_2", "IOT_3"}
    BY <1>3, WithinTransfer DEF BoardClock, Clock
  <2>2. pending'.io = IF state = "IOT_1" THEN NoIO ELSE pending.io
    BY <2>1, PanelIsNoDevice DEF Watch, TakeIn, NoDevice, Formed
  <2> QED
    BY <2>1, <2>2 DEF NoDevice
<1> QED
  BY <1>1, <1>2, <1>3 DEF NoDevice

\* A hand is the processor's reset, or nothing to it.
LEMMA HandWatched ==
  ASSUME NoDevice, Handling,
         IF resetN /\ ~resetN' THEN WatchReset ELSE UNCHANGED historyVars
  PROVE  [HNext]_<<vars, historyVars>> /\ NoDevice'
<1>1. CASE ResetDown
  <2>1. PressReset /\ WatchReset /\ state' = "REG_INIT"
    BY <1>1 DEF ResetDown, PressReset
  <2>2. Formed'
    BY <2>1 DEF WatchReset, NoDevice, Formed
  <2> QED
    BY <2>1, <2>2 DEF HNext, HPressReset, NoDevice
<1>2. CASE ResetUp
  <2>1. ReleaseReset /\ UNCHANGED historyVars /\ state' = state
    BY <1>2 DEF ResetUp, ReleaseReset, cpuVars
  <2> QED
    BY <2>1 DEF HNext, HReleaseReset, historyVars, NoDevice, Formed
<1>3. CASE (\E b : Touch(b) \/ LetGo(b)) \/ (\E v : Turn(v)) \/ RunUp \/ RunDown
  <2>1. UNCHANGED vars /\ resetN' = resetN /\ state' = state
    BY <1>3 DEF Touch, LetGo, Turn, RunUp, RunDown, vars, cpuVars
  <2> QED
    BY <2>1 DEF historyVars, NoDevice, Formed
<1> QED
  BY <1>1, <1>2, <1>3 DEF Handling

\* The board with its history is the processor with its own.
THEOREM BoardWatched == ASSUME Inputs = InputWires PROVE HBoardSpec => HSpec
<1>1. HBoardInit => HInit /\ NoDevice
  BY DEF HBoardInit, BoardInit, HInit, Init, WatchInit, NoEvent, NoDevice, Formed
<1>2. HBoardSpec => BoardSpec
  <2>1. HBoardInit => BoardInit
    BY DEF HBoardInit
  <2>2. [HBoardNext]_boardHistoryVars => [BoardNext]_boardVars
    BY DEF HBoardNext, HHand, BoardNext, boardHistoryVars
  <2> QED
    BY <2>1, <2>2, PTL DEF HBoardSpec, BoardSpec
<1>3. TypeOK /\ TypeOK' /\ PanelTyped /\ NoDevice /\ [HBoardNext]_boardHistoryVars
        => [HNext]_<<vars, historyVars>> /\ NoDevice'
  <2> SUFFICES ASSUME TypeOK, TypeOK', PanelTyped, NoDevice, [HBoardNext]_boardHistoryVars
               PROVE  [HNext]_<<vars, historyVars>> /\ NoDevice'
    OBVIOUS
  <2>1. CASE BoardClock /\ Watch(PanelWires)
    <3>1. HClock(PanelWires) /\ NoDevice'
      BY <2>1, ClockHolds DEF BoardClock, HClock
    <3>2. PanelWires \in Inputs
      BY WiresDrive
    <3> QED
      BY <3>1, <3>2 DEF HNext
  <2>2. CASE HHand
    BY <2>2, HandsHandle, HandWatched DEF HHand, PanelTyped
  <2>3. CASE UNCHANGED boardHistoryVars
    BY <2>3 DEF boardHistoryVars, boardVars, vars, cpuVars, historyVars, NoDevice, Formed
  <2> QED
    BY <2>1, <2>2, <2>3 DEF HBoardNext
<1>4. BoardSpec => []PanelTyped
  BY InitPanel, StepPanel, PTL DEF BoardSpec
<1> QED
  BY <1>1, <1>2, <1>3, <1>4, BoardIsProcessor, TypeCorrect, PTL DEF HBoardSpec, HSpec

\* So what its users do on the board, they do to the programmer's machine:
\* every examine, load, deposit, step and instruction is whole, with the
\* switches as they stood, and a reset leaves what it may leave.
COROLLARY BoardImplements ==
  ASSUME Inputs = InputWires
  PROVE  HBoardSpec /\ []Regular => ImplementsPDP8
  BY BoardWatched, ProcessorImplements, PTL

=============================================================================
