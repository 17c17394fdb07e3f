----------------------------- MODULE MCKillBell -----------------------------
(***************************************************************************)
(* Two operators, three calls, TTLs of one and two ticks.                  *)
(***************************************************************************)
EXTENDS KillBell

CONSTANTS o1, o2
=============================================================================
