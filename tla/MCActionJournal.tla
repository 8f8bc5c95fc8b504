-------------------------- MODULE MCActionJournal --------------------------
(***************************************************************************)
(* Instance of ActionJournal for TLC: a canaries attempt over two run ids  *)
(* and a single attempt that wants the second of them or a third.          *)
(***************************************************************************)
EXTENDS ActionJournal, TLC

CONSTANTS canary, single, r1, r2, r3

MCAttempts == {canary, single}
MCRuns == {r1, r2, r3}
MCPlans == {(canary :> <<r1, r2>>) @@ (single :> <<n>>) : n \in {r2, r3}}

=============================================================================
