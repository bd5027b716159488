------------------------------ MODULE MCBackend ------------------------------
(***************************************************************************)
(* Instances of module MemoryBackend for TLC: two names, for participants  *)
(* and channels alike, and two passwords.                                  *)
(***************************************************************************)
EXTENDS MemoryBackend, TLC

CONSTANTS u, v, k, l, none

StorageTexts == {u, v, k, l}
Distinct == [t \in Texts \cup {NoText} |-> t]

StorageSymmetry == Permutations(ValidNames) \cup Permutations(ValidPasswords)

=============================================================================
