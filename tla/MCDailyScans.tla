----------------------------- MODULE MCDailyScans -----------------------------
(***************************************************************************)
(* Two instances and two periods, one renewal between them at any time.    *)
(* The levels are scaled down and keep what matters of the code's: more    *)
(* than one, with days between them that have no level of their own.  A    *)
(* period outlasts the window, and the window of the licence (four days)   *)
(* the three days that can be lost.                                        *)
(***************************************************************************)
EXTENDS DailyScans

CONSTANTS i1, i2
=============================================================================
