------------------------------ MODULE OneShot ------------------------------
(***************************************************************************)
(* What the confirmation layer promises of a release: one call spends it,  *)
(* once and for good; only that call may give its verdict, once; and the   *)
(* final index, when it is frozen, covers the verdicts given by then and   *)
(* never changes.                                                          *)
(***************************************************************************)
CONSTANTS Callers, Releases, Verdicts, None

VARIABLES
    spender,    \* the call that spent each release, or None
    verdict,    \* the verdict of each release, or None
    covered     \* the verdicts under the final index, or None

shot == <<spender, verdict, covered>>

ShotInit ==
    /\ spender = [r \in Releases |-> None]
    /\ verdict = [r \in Releases |-> None]
    /\ covered = None

Spend(c, r) ==
    /\ spender[r] = None
    /\ spender' = [spender EXCEPT ![r] = c]
    /\ UNCHANGED <<verdict, covered>>

Decide(c, r, v) ==
    /\ spender[r] = c
    /\ verdict[r] = None
    /\ verdict' = [verdict EXCEPT ![r] = v]
    /\ UNCHANGED <<spender, covered>>

\* The verdicts of a moment that has passed: later ones may be missing.
Cover ==
    /\ covered = None
    /\ covered' \in {w \in [Releases -> Verdicts \union {None}] :
                        \A r \in Releases : w[r] \in {None, verdict[r]}}
    /\ UNCHANGED <<spender, verdict>>

ShotNext ==
    \/ \E c \in Callers, r \in Releases :
          Spend(c, r) \/ \E v \in Verdicts : Decide(c, r, v)
    \/ Cover

ShotSpec == ShotInit /\ [][ShotNext]_shot
=============================================================================
