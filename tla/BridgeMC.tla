------------------------------ MODULE BridgeMC ------------------------------
(***************************************************************************)
(* Instances of Bridge for TLC.  State 0 is nothing pressed, 1 and 2 are   *)
(* two held buttons or tilted sticks; the transform moves 1 to 2, so that  *)
(* mapping a state twice shows.                                            *)
(***************************************************************************)
EXTENDS Bridge

MCLosses == [evdev |-> 2, socket |-> 1]
MCNoLosses == [evdev |-> 0]
MCState == 0..2
MCShape == [s \in MCState |-> IF s = 0 THEN 0 ELSE IF s = 1 THEN 2 ELSE 1]
MCEncode == [s \in MCState |-> s]
=============================================================================
