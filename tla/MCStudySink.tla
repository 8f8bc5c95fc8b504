----------------------------- MODULE MCStudySink -----------------------------
(***************************************************************************)
(* Instances of StudySink for TLC: the sets below are what the provider    *)
(* and the evaluator may answer.                                           *)
(***************************************************************************)
EXTENDS StudySink

CONSTANTS seed, novel, garbage, rubbish

MCSources == {seed, novel}
MCGarbage == {garbage}
MCTwoGarbage == {garbage, rubbish}
MCOneToken == {1}
MCNoTraining == {0}
MCNoRetries == {0}
MCTwoOutcomes == {"accepted", "rejected"}
MCAccepted == {"accepted"}
MCNone == {}

=============================================================================
