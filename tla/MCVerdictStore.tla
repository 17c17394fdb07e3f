--------------------------- MODULE MCVerdictStore ---------------------------
(***************************************************************************)
(* A small instance of VerdictStore: two pull requests opened from one     *)
(* head and three milliseconds, so that three ids are shared by verdicts   *)
(* of different pull requests and different decisions.                     *)
(***************************************************************************)
EXTENDS VerdictStore

MCTimes == 1..3
=============================================================================
