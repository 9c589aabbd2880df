---------------------------- MODULE BoardHistory ----------------------------
(***************************************************************************)
(* The board with the history of its processor: what its users do with     *)
(* switches and buttons, seen as operations of the programmer's machine.   *)
(* No device is on the board, so nothing need be assumed of devices.       *)
(***************************************************************************)
EXTENDS BoardPromises, CPUHistory

boardHistoryVars == <<boardVars, historyVars>>

\* A hand is an event for the processor when it presses the reset button.
HHand ==
  /\ Operate \/ Follow
  /\ IF resetN /\ ~resetN' THEN WatchReset ELSE UNCHANGED historyVars

HBoardInit == BoardInit /\ WatchInit
HBoardNext == (BoardClock /\ Watch(PanelWires)) \/ HHand

HBoardSpec == /\ HBoardInit /\ [][HBoardNext]_boardHistoryVars
              /\ WF_boardVars(BoardClock) /\ WF_boardVars(Follow)

=============================================================================
