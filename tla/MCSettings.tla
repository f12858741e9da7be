----------------------------- MODULE MCSettings -----------------------------
(***************************************************************************)
(* Two places for runs of `portlens config`, each with any number of them  *)
(* one after the other.                                                    *)
(***************************************************************************)
EXTENDS Settings, TLC

Alike == Permutations(Runs) \cup Permutations(Inodes) \cup Permutations(Names \ Invalid)
MCPortSets == {{80}}
=============================================================================
