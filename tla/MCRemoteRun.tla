---------------------------- MODULE MCRemoteRun ----------------------------
(***************************************************************************)
(* A run of each kind that stands on its own, and one that reads it.       *)
(***************************************************************************)
EXTENDS RemoteRun

CONSTANTS x, y

MCRuns == {x, y}
MCSource == [r \in {x, y} |-> x]

\* A run without a provider is verified or resumed; of the two with one the
\* canary is verified, and a resume of the bounded one is refused.
MCKinds ==
    {k \in [MCRuns -> {"free", "canary", "bounded", "resume", "verify"}] :
        \/ k[x] = "free" /\ k[y] \in {"resume", "verify"}
        \/ k[x] = "canary" /\ k[y] = "verify"
        \/ k[x] = "bounded" /\ k[y] = "resume"}

=============================================================================
