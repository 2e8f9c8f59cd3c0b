-------------------------- MODULE MCCharacterCache --------------------------
(* CharacterCache with two difficulties, one of which is always selected. *)
EXTENDS CharacterCache, TLC

CONSTANTS h, m

Selections == {{h}, {h, m}}
Symmetry == Permutations(Workers)
=============================================================================
