----------------------------- MODULE MCStorage -----------------------------
(* Small instances of Storage for TLC. *)
EXTENDS Storage

\* Guard handles are interchangeable.
GuardSymmetry == Permutations(Guards)
=============================================================================
