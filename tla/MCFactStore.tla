----------------------------- MODULE MCFactStore -----------------------------
(* Two threads of one server that remember a fact under the same key.      *)
EXTENDS FactStore, TLC

Alike == Permutations(Writers) \union Permutations(Values)
=============================================================================
