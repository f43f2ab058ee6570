-------------------------------- MODULE MCCA --------------------------------
(* ChiaCA for model checking: the Secrets are interchangeable. *)
EXTENDS ChiaCA, TLC

Symmetry == Permutations(Secrets)
=============================================================================
