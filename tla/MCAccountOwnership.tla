------------------------- MODULE MCAccountOwnership -------------------------
(***************************************************************************)
(* The constants of AccountOwnership for TLC.                              *)
(***************************************************************************)
EXTENDS AccountOwnership, TLC

CONSTANTS p, q, d, e, one, two

ProcSymmetry == Permutations({p, q}) \cup Permutations({d, e}) \cup Permutations({one, two})

=============================================================================
