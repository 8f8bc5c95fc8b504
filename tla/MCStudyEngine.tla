---------------------------- MODULE MCStudyEngine ----------------------------
(***************************************************************************)
(* Instances of StudyEngine for TLC.  Candidate sources and response texts *)
(* are model values; the sets below are the inputs of its two services.    *)
(***************************************************************************)
EXTENDS StudyEngine

CONSTANTS seed, novel, garbage

MCSources == {seed, novel}
MCGarbage == {garbage}
MCUsages == {1, Unknown}
MCTrainingUses == {0, 1}
MCNoRetries == {0}

MCTwoOutcomes == {"accepted", "rejected"}
MCAccepted == {"accepted"}
MCOneToken == {1}
MCFirst == {1}
MCNone == {}

=============================================================================
