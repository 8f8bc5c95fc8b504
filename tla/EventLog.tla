------------------------------ MODULE EventLog ------------------------------
(***************************************************************************)
(* What the event store of a run promises: one sequence of events that     *)
(* only ever grows, by one event at a time, and one index that is frozen   *)
(* over a prefix of it, once.  EventStore implements it                    *)
(* (EventStore!Ledger); StudySink's `log' is this sequence.                *)
(***************************************************************************)
EXTENDS Naturals, Sequences

CONSTANT Events

VARIABLES
    log,
    frozen    \* the frozen index, in a set of at most one

contents == <<log, frozen>>

Init == log = <<>> /\ frozen = {}

Extend(e) == log' = Append(log, e) /\ UNCHANGED frozen

\* At the head that a scan has shown, which others may have left behind.
Freeze(k) ==
    /\ frozen = {}
    /\ frozen' = {[i \in 1 .. k |-> log[i]]}
    /\ UNCHANGED log

Next ==
    \/ \E e \in Events : Extend(e)
    \/ \E k \in 0 .. Len(log) : Freeze(k)

Spec == Init /\ [][Next]_contents

=============================================================================
