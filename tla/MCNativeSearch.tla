--------------------------- MODULE MCNativeSearch ---------------------------
(***************************************************************************)
(* Every native controller over three opportunities, three architectures   *)
(* besides the seed's, two cells and two scores.                           *)
(***************************************************************************)
EXTENDS NativeSearch, TLC

CONSTANTS ir0, ir1, ir2, ir3, noIR, decoder, encoder

MCArchitectures == {ir0, ir1, ir2, ir3}
MCCells == {decoder, encoder}

Symmetry == Permutations({ir1, ir2, ir3})

=============================================================================
