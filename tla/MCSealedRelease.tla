-------------------------- MODULE MCSealedRelease --------------------------
(***************************************************************************)
(* Two processes, an authorization of two candidates, and two releases,    *)
(* which may name the same candidate.                                      *)
(***************************************************************************)
EXTENDS SealedRelease, TLC

Symmetry == Permutations(Callers) \union Permutations(Releases)
=============================================================================
