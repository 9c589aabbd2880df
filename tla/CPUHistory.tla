----------------------------- MODULE CPUHistory -----------------------------
(***************************************************************************)
(* The processor of module CPU with the history that tells where one       *)
(* operation ends and the next begins.  An operation begins when the       *)
(* controller leaves CPU_IDLE and has been performed when it is back there.*)
(* `arch' is the programmer's state as the last operation left it, `event' *)
(* what that operation was, `pending' the operation under way.  With them  *)
(* the clocked machine implements the PDP-8 of module PDP8.                *)
(***************************************************************************)
EXTENDS CPU

VARIABLES arch, event, pending

historyVars == <<arch, event, pending>>

NoIO == [skipFlag |-> FALSE, clearacc |-> FALSE, datain |-> 0]
NoEvent == [kind |-> "none", sw |-> 0, io |-> NoIO, halts |-> FALSE, during |-> "none"]

Visible == [ac |-> reg.ac, lk |-> reg.lk, mq |-> reg.mq, pc |-> reg.pc, mem |-> memory]

\* The operation a successor of CPU_IDLE begins.
KindOf(s) ==
  CASE s = "FETCH_1" -> "instruction"
    [] s = "SR_CHG_1" -> "examine"
    [] s = "LD_PC_1" -> "loadpc"
    [] s = "LD_AC_1" -> "loadac"
    [] s = "DEP_1" -> "deposit"
    [] OTHER -> "none"

\* The states at whose end an operation takes in the switches.
SwitchStates == {"LD_PC_1", "LD_AC_1", "DEP_1", "MIC_2"}

Begin == pending' = [NoEvent EXCEPT !.kind = KindOf(state')]

Wires(i) == [skipFlag |-> i.skipFlag, clearacc |-> i.clearacc, datain |-> i.datain]

\* A device holds its wires from the clock that tests its flag to the end of
\* the transfer.  The devices are not part of the design: this is what the
\* controller, which samples the wires three times, needs of them.
Steady(i) == state \in {"IOT_2", "IOT_3", "IOT_4"} => Wires(i) = pending.io

\* What the operation under way has taken in and put out by the end of this
\* clock.
TakeIn(i) ==
  pending' = [pending EXCEPT
    !.sw = IF state \in SwitchStates THEN i.swreg ELSE @,
    !.io = IF state = "IOT_1" THEN Wires(i) ELSE @,
    !.halts = @ \/ halt]

\* What the history makes of an edge of the clock, and of a reset.
Watch(i) ==
  IF state = "CPU_IDLE" THEN Begin /\ UNCHANGED <<arch, event>>
  ELSE /\ TakeIn(i)
       /\ IF state' = "CPU_IDLE"
          THEN event' = pending' /\ arch' = Visible'
          ELSE UNCHANGED <<arch, event>>

WatchReset ==
  /\ pending' = [pending EXCEPT !.kind = "reset",
                                !.during = IF state = "CPU_IDLE" THEN "none"
                                           ELSE IF state = "REG_INIT" THEN @
                                           ELSE pending.kind]
  /\ UNCHANGED <<arch, event>>

HClock(i) == Clock(i) /\ Steady(i) /\ Watch(i)
HPressReset == PressReset /\ WatchReset
HReleaseReset == ReleaseReset /\ UNCHANGED historyVars

WatchInit == arch = Visible /\ event = NoEvent /\ pending = NoEvent

HInit == Init /\ WatchInit

HNext == (\E i \in Inputs : HClock(i)) \/ HPressReset \/ HReleaseReset

HSpec == HInit /\ [][HNext]_<<vars, historyVars>>

\* The clock runs freely, so edges keep coming; nobody is obliged to press
\* or to release a button.
HFairSpec == HSpec /\ WF_<<vars, historyVars>>(\E i \in Inputs : HClock(i))

-----------------------------------------------------------------------------
PowerUpStates == {[ac |-> r.ac, lk |-> r.lk, mq |-> r.mq, pc |-> r.pc, mem |-> m] :
                    r \in PowerUpRegs, m \in Programs}

Machine == INSTANCE PDP8 WITH Initially <- PowerUpStates

-----------------------------------------------------------------------------
\* Where the design departs from what the programmer's machine is.  The words
\* that mean the same to both: not JMP direct to page zero, the byte swap, the
\* switch register, the exchange; CLA of group 2 only where the group 1
\* pipeline, which does it, adds nothing; and the skips that the C simulator
\* makes depend on the three low bits only with these bits clear.
Alike(w) ==
  /\ Opcode(w) = 5 => On(w, 8) \/ On(w, 7)
  /\ Opcode(w) = 7 /\ Group1(w) => ShiftSelect(w) # 1
  /\ Opcode(w) = 7 /\ Group2(w) =>
       /\ ~On(w, 2)
       /\ On(w, 7) => \A l \in BitValue : Pipeline(w, 0, l, 0).ac = 0
       /\ On(w, 3) \/ w % 8 = 0 \/ ~(On(w, 6) \/ On(w, 5) \/ On(w, 4))
  /\ Opcode(w) = 7 /\ Group3(w) => ~(On(w, 6) /\ On(w, 4))

\* The machine meets no departure: the word is one of these, an operand of
\* the EAE stands in both words after the instruction, and a quotient of all
\* ones finds the link clear.
Regular ==
  /\ state = "DECODE" => Alike(reg.ir)
  /\ state = "MIC_6" => ReadMemory(reg.pc) = ReadMemory(Inc(reg.pc))
  /\ state = "MIC_9" /\ On(reg.ir, 2) /\ On(reg.ir, 1) /\ reg.ac < reg.mb /\ eaeOut.mqDvi = \o7777
       => div.link = 0

-----------------------------------------------------------------------------
\* The clocked machine implements the programmer's machine.

ImplementsPDP8 == Machine!Spec

=============================================================================
