---------------------------- MODULE StudyProtocol ----------------------------
(***************************************************************************)
(* What a study run promises to whoever analyses its records, whatever     *)
(* process executed it and however often that process was killed: the seed *)
(* is evaluated first, opportunities are opened one after the other, each  *)
(* is put to the provider at least once and a bounded number of times      *)
(* before it closes with one outcome, and the run is completed by nothing  *)
(* but the last of them.  StudyEngine implements it (StudyEngine!Protocol) *)
(* under the refinement mapping that reads these variables off the stored  *)
(* run state.                                                              *)
(***************************************************************************)
EXTENDS Naturals, Sequences

CONSTANTS ProposalOpportunities, ProviderAttempts, Outcomes

VARIABLES
    phase,      \* "unseeded", "searching" or "completed"
    opened,     \* opportunities opened so far
    asked,      \* provider attempts consumed, by opportunity
    outcomes    \* outcomes of the closed opportunities, in order

vars == <<phase, opened, asked, outcomes>>

Opportunities == 1 .. ProposalOpportunities

Init ==
    /\ phase = "unseeded"
    /\ opened = 0
    /\ asked = [i \in Opportunities |-> 0]
    /\ outcomes = <<>>

SeedEvaluated ==
    /\ phase = "unseeded"
    /\ phase' = "searching"
    /\ UNCHANGED <<opened, asked, outcomes>>

Open ==
    /\ phase = "searching"
    /\ opened = Len(outcomes)
    /\ opened < ProposalOpportunities
    /\ opened' = opened + 1
    /\ UNCHANGED <<phase, asked, outcomes>>

Ask ==
    /\ phase = "searching"
    /\ opened = Len(outcomes) + 1
    /\ asked[opened] < ProviderAttempts
    /\ asked' = [asked EXCEPT ![opened] = @ + 1]
    /\ UNCHANGED <<phase, opened, outcomes>>

Close ==
    /\ phase = "searching"
    /\ opened = Len(outcomes) + 1
    /\ asked[opened] > 0
    /\ \E o \in Outcomes : outcomes' = Append(outcomes, o)
    /\ UNCHANGED <<phase, opened, asked>>

Complete ==
    /\ phase = "searching"
    /\ Len(outcomes) = ProposalOpportunities
    /\ phase' = "completed"
    /\ UNCHANGED <<opened, asked, outcomes>>

Next == SeedEvaluated \/ Open \/ Ask \/ Close \/ Complete

Spec == Init /\ [][Next]_vars

=============================================================================
