---------------------------- MODULE MCEventStore ----------------------------
(***************************************************************************)
(* Instance of EventStore for TLC: two processes, which are alike.         *)
(***************************************************************************)
EXTENDS EventStore

CONSTANTS p, q, e, f

MCProcs == {p, q}
MCEvents == {e, f}

=============================================================================
