----------------------------- MODULE FrontPanel -----------------------------
(***************************************************************************)
(* Front_Panel.sv: five buttons, twelve data switches and the run switch.  *)
(* A one-shot state machine shared by the five buttons gives each press    *)
(* one strobe of one clock, after a free-running divider has passed zero.  *)
(* `run' is a latch with two clocks, the rising edges of its switch and of *)
(* `halt'.  The lamps and the seven-segment display are left out.          *)
(***************************************************************************)
EXTENDS Naturals

CONSTANTS Divider  \* the last value of m1counter: 5 in the code, for simulation

ASSUME DividerAssumption == Divider \in Nat

VARIABLES
  run,             \* the run latch
  cur_state_deb,   \* the one-shot
  cur_state_disp,  \* the display selector
  m1counter,       \* the divider, which no reset stops
  sw,              \* the data switches
  sw12,            \* the run switch
  buttons          \* the buttons that are down

panelVars == <<run, cur_state_deb, cur_state_disp, m1counter, sw, sw12, buttons>>

Buttons == {"btnc", "btnu", "btnd", "btnl", "btnr"}

\* A mutant: the divider is compared with the hardware's million.
count0Million == m1counter = 999999

count0 == m1counter = 0

\* The strobe of a button: it must still be down.
Strobe(b) == cur_state_deb = "b2" /\ b \in buttons

\* A mutant: the one-shot does not wait for the release.
NextDebRepeating ==
  CASE cur_state_deb = "b0" -> IF buttons # {} THEN "b1" ELSE "b0"
    [] cur_state_deb = "b1" -> IF count0 THEN "b2" ELSE "b1"
    [] cur_state_deb = "b2" -> "b3"
    [] cur_state_deb = "b3" -> "b0"

NextDeb ==
  CASE cur_state_deb = "b0" -> IF buttons # {} THEN "b1" ELSE "b0"
    [] cur_state_deb = "b1" -> IF count0 THEN "b2" ELSE "b1"
    [] cur_state_deb = "b2" -> "b3"
    [] cur_state_deb = "b3" -> IF buttons = {} THEN "b0" ELSE "b3"

NextDisp == IF Strobe("btnc") THEN (cur_state_disp + 1) % 4 ELSE cur_state_disp

\* A clock edge; `halting' says whether halt rises with it.
PanelClock(halting, resetN) ==
  /\ m1counter' = IF m1counter = Divider THEN 0 ELSE m1counter + 1
  /\ cur_state_deb' = IF resetN THEN NextDeb ELSE "b0"
  /\ cur_state_disp' = IF resetN THEN NextDisp ELSE 0
  /\ run' = (run /\ ~halting)
  /\ UNCHANGED <<sw, sw12, buttons>>

PanelReset ==
  /\ cur_state_deb' = "b0"
  /\ cur_state_disp' = 0
  /\ UNCHANGED <<run, m1counter, sw, sw12, buttons>>

\* What the operator does.
Press(b) ==
  /\ b \notin buttons
  /\ buttons' = buttons \cup {b}
  /\ UNCHANGED <<run, cur_state_deb, cur_state_disp, m1counter, sw, sw12>>

Release(b) ==
  /\ b \in buttons
  /\ buttons' = buttons \ {b}
  /\ UNCHANGED <<run, cur_state_deb, cur_state_disp, m1counter, sw, sw12>>

SetSwitches(v) ==
  /\ sw' = v
  /\ UNCHANGED <<run, cur_state_deb, cur_state_disp, m1counter, sw12, buttons>>

\* A mutant: the polarity of halt.
RaiseRunInverted(halt) ==
  /\ ~sw12
  /\ sw12' = TRUE
  /\ run' = halt
  /\ UNCHANGED <<cur_state_deb, cur_state_disp, m1counter, sw, buttons>>

\* While halt is high the rising edge of the switch clears the latch too.
RaiseRun(halt) ==
  /\ ~sw12
  /\ sw12' = TRUE
  /\ run' = ~halt
  /\ UNCHANGED <<cur_state_deb, cur_state_disp, m1counter, sw, buttons>>

LowerRun ==
  /\ sw12
  /\ sw12' = FALSE
  /\ UNCHANGED <<run, cur_state_deb, cur_state_disp, m1counter, sw, buttons>>

\* Power-up.  The enumerations and the counter have two-state types and start
\* at zero; run is unknown, which the controller's IF takes for false.  How the
\* data switches stand is the board's affair.
PanelInit ==
  /\ run = FALSE
  /\ cur_state_deb = "b0" /\ cur_state_disp = 0
  /\ m1counter = 0
  /\ sw12 = FALSE /\ buttons = {}

=============================================================================
