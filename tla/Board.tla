------------------------------- MODULE Board -------------------------------
(***************************************************************************)
(* The whole board (Top.sv, and veloce_top.sv, which instantiates the same *)
(* five modules): the front panel drives the inputs of the processor and   *)
(* hears its halt, on one clock and one reset.  The IOT distributor is not *)
(* on the board; its wires are not driven.                                 *)
(*                                                                         *)
(* Three users work it.  The operator presses and turns what he likes,     *)
(* when he likes.  The testbenches simulation_tb and veloce_top load an    *)
(* object file through the switches, by the clock and without looking at   *)
(* the answer, and raise the run switch.                                   *)
(***************************************************************************)
EXTENDS CPU, FrontPanel, ObjectFile

CONSTANTS
  Users,        \* which of the three users
  Files,        \* the object files the testbenches load
  Settings,     \* the switch settings the operator uses
  Undriven,     \* what data switches may read as that nobody has set yet
  Reach,        \* the buttons the operator uses
  Moves         \* a bound: how often he touches anything

ASSUME BoardAssumption ==
  /\ Users \subseteq {"operator", "simulation_tb", "veloce_top"}
  /\ Settings \subseteq Word /\ Undriven \subseteq Word
  /\ Reach \subseteq Buttons
  /\ Moves \in Nat

VARIABLES
  user, file,
  script,   \* what the testbench has still to do
  wait,     \* the clocks until it does it
  moves,    \* how often the operator has touched anything
  answered, \* a button has begun an operation since all were up
  calm      \* the button that is down was pressed on a machine at rest, and
            \* nothing has been touched since

userVars == <<user, file, script, wait, moves, answered, calm>>
boardVars == <<vars, panelVars, userVars>>

PanelWires == [run |-> run, step |-> Strobe("btnu"), loadpc |-> Strobe("btnl"),
               loadac |-> Strobe("btnr"), deposit |-> Strobe("btnd"),
               dispsel |-> cur_state_disp, swreg |-> sw,
               skipFlag |-> FALSE, clearacc |-> FALSE, datain |-> 0]

\* The clock edge that starts what a button asks for.
ByButton == /\ state = "CPU_IDLE"
            /\ \/ state' \in {"LD_PC_1", "LD_AC_1", "DEP_1"}
               \/ state' = "FETCH_1" /\ ~run

BoardClock ==
  /\ script # <<>> => wait > 0
  /\ Clock(PanelWires)
  /\ PanelClock(state' = "HALT", resetN)
  /\ wait' = IF wait > 0 THEN wait - 1 ELSE 0
  /\ answered' = (answered \/ ByButton)
  /\ UNCHANGED <<user, file, script, moves, calm>>

-----------------------------------------------------------------------------
\* What a hand can do, a person's or a testbench's.

Touch(b) == Press(b) /\ UNCHANGED vars
LetGo(b) == Release(b) /\ UNCHANGED vars
Turn(v) == SetSwitches(v) /\ UNCHANGED vars
RunUp == RaiseRun(halt) /\ UNCHANGED vars
RunDown == LowerRun /\ UNCHANGED vars
ResetDown == PressReset /\ PanelReset
ResetUp == ReleaseReset /\ UNCHANGED panelVars

\* Nothing under way and nothing about to be.
AtRest == /\ state = "CPU_IDLE" /\ ~run /\ resetN
          /\ ~srchange /\ swregTemp = sw
          /\ buttons = {} /\ cur_state_deb = "b0"

Hand == \/ \E b \in Reach : Touch(b) \/ LetGo(b)
        \/ \E v \in Settings \ {sw} : Turn(v)
        \/ RunUp \/ RunDown \/ ResetDown \/ ResetUp

Operate ==
  /\ user = "operator" /\ moves < Moves
  /\ Hand
  /\ moves' = moves + 1
  /\ answered' = (answered /\ buttons' # {} /\ resetN)
  /\ calm' = (AtRest /\ buttons' # {} /\ buttons' # {"btnc"})
  /\ UNCHANGED <<user, file, script, wait>>

-----------------------------------------------------------------------------
\* The testbenches' scripts: sequences of what to do after how many clocks.

After(clocks, act, value) == <<[clocks |-> clocks, act |-> act, value |-> value]>>

\* The tasks set_pc, write_data2, Load_PC and Deposit: turn, press, let go.
PushAfter(clocks, button, value) ==
  After(clocks, "turn", value) \o After(10, "press", button) \o After(10, "release", button)

\* Each pair of the file goes to the switches, then one clock passes.
simulation_tb(f) ==
  LET pairs == Pairs(f)
      Push(k, v) == PushAfter(IF k = 1 THEN 10 ELSE 11,
                              IF k <= Len(pairs) /\ ~IsOrigin(pairs[k]) THEN "btnd" ELSE "btnl", v)
  IN  After(0, "resetDown", 0) \o After(5, "resetUp", 0)
      \o FlattenSeq([k \in 1 .. Len(pairs) |-> Push(k, WordValue(pairs[k]))])
      \o Push(Len(pairs) + 1, \o200)
      \o After(10, "runUp", 0)

\* Each word is deposited at its own address, the last one twice: mem_done is
\* looked at after the deposit.
veloce_top(f) ==
  LET words == Len(init_temp_mem(f))
      Send(k) == LET cell == send_word_to_hdl(f, k)
                 IN  PushAfter(10, "btnl", cell.address) \o PushAfter(40, "btnd", cell.data)
  IN  After(0, "resetDown", 0) \o After(1, "resetUp", 0)
      \o PushAfter(29, "btnl", \o200)
      \o FlattenSeq([k \in 1 .. words + 1 |-> Send(k)])
      \o PushAfter(20, "btnl", \o200)
      \o After(10, "runUp", 0)

ScriptOf(u, f) == CASE u = "operator" -> <<>>
                    [] u = "simulation_tb" -> simulation_tb(f)
                    [] u = "veloce_top" -> veloce_top(f)

\* What can be in a script.  Of every file the words are words: this is what
\* the loops that read the file compute.
Deeds == [clocks : Nat, act : {"turn"}, value : Word]
         \cup [clocks : Nat, act : {"press", "release"}, value : Buttons]
         \cup [clocks : Nat, act : {"resetDown", "resetUp", "runUp"}, value : {0}]

ASSUME ScriptsAssumption ==
  \A u \in Users \ {"operator"}, f \in Files : ScriptOf(u, f) \in Seq(Deeds)

Perform(step) ==
  CASE step.act = "turn" -> Turn(step.value)
    [] step.act = "press" -> Touch(step.value)
    [] step.act = "release" -> LetGo(step.value)
    [] step.act = "resetDown" -> ResetDown
    [] step.act = "resetUp" -> ResetUp
    [] step.act = "runUp" -> RunUp

Follow ==
  /\ script # <<>> /\ wait = 0
  /\ Perform(Head(script))
  /\ script' = Tail(script)
  /\ wait' = IF script' = <<>> THEN 0 ELSE Head(script').clocks
  /\ answered' = (answered /\ buttons' # {} /\ resetN)
  /\ UNCHANGED <<user, file, moves, calm>>

-----------------------------------------------------------------------------
\* The memory of a simulation starts empty; an operator finds a program.
\* simulation_tb starts with the switches down, as the operator finds them;
\* veloce_top sets them with its first Load_PC only.
BoardInit ==
  /\ Init /\ PanelInit
  /\ user \in Users
  /\ memory = <<>> <=> user # "operator"
  /\ sw \in IF user = "veloce_top" THEN Undriven ELSE {0}
  /\ file \in IF user = "operator" THEN {<<>>} ELSE Files
  /\ script = ScriptOf(user, file)
  /\ wait = 0 /\ moves = 0
  /\ answered = FALSE /\ calm = FALSE

BoardNext == BoardClock \/ Operate \/ Follow

\* The clock is free running and a testbench gets on with its script; the
\* operator need not do anything.
BoardSpec == /\ BoardInit /\ [][BoardNext]_boardVars
             /\ WF_boardVars(BoardClock) /\ WF_boardVars(Follow)

=============================================================================
