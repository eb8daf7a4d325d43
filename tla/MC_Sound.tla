------------------------------ MODULE MC_Sound ------------------------------
(***************************************************************************)
(* Levels 0 to 3 with 2 for the 50 of the code; three moves by others and  *)
(* two failed calls, at any point of a handler.                            *)
(***************************************************************************)
EXTENDS Sound

MCOdd == {None, MaxVolume + 1}
=============================================================================
