----------------------------- MODULE ActionGate -----------------------------
(***************************************************************************)
(* What the workspace-global action journal promises, without its files:   *)
(* one paid action is open at a time, an action that is settled is never   *)
(* opened again, and after the seal nothing is opened.                     *)
(***************************************************************************)
EXTENDS FiniteSets

CONSTANT Attempts

VARIABLES
    phase,   \* for each attempt: unknown, open or settled
    sealed

vars == <<phase, sealed>>

Phases == {"unknown", "open", "settled"}

Init ==
    /\ phase = [a \in Attempts |-> "unknown"]
    /\ sealed = FALSE

\* A first record of a, when every other attempt is settled.
Open(a) ==
    /\ ~sealed
    /\ phase[a] = "unknown"
    /\ \A b \in Attempts : phase[b] # "open"
    /\ phase' = [phase EXCEPT ![a] = "open"]
    /\ UNCHANGED sealed

\* An attempt that is refused before it owns anything is settled at once.
Settle(a) ==
    /\ ~sealed
    /\ phase[a] # "settled"
    /\ phase[a] = "unknown" => \A b \in Attempts : phase[b] # "open"
    /\ phase' = [phase EXCEPT ![a] = "settled"]
    /\ UNCHANGED sealed

Seal ==
    /\ \A a \in Attempts : phase[a] # "open"
    /\ sealed' = TRUE
    /\ UNCHANGED phase

Next ==
    \/ \E a \in Attempts : Open(a) \/ Settle(a)
    \/ Seal

Spec == Init /\ [][Next]_vars

=============================================================================
