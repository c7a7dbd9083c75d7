------------------------------ MODULE MCLifespan ------------------------------
(* Small instances of Lifespan for TLC. *)
EXTENDS Lifespan, TLC

Symmetry == Permutations(Workers)
===============================================================================
