------------------------ MODULE MCResumableTraining ------------------------
(***************************************************************************)
(* Two trainers; evaluations may rise, fall and tie in every order.  The   *)
(* crash run has four steps, each evaluated, and a checkpoint at every     *)
(* other; the other runs have the smoke profile's own ten, five and five.  *)
(***************************************************************************)
EXTENDS ResumableTraining, TLC

Scores == 1 .. 3
=============================================================================
