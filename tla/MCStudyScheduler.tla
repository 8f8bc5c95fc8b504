-------------------------- MODULE MCStudyScheduler --------------------------
(***************************************************************************)
(* Instances of StudyScheduler for TLC.                                    *)
(***************************************************************************)
EXTENDS StudyScheduler

CONSTANTS c1, c2, op

MCTwoCampaigners == {c1, c2}
MCOneOperator == {op}

=============================================================================
