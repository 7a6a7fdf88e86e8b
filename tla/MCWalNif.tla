------------------------------- MODULE MCWalNif -------------------------------
(* Instances of WalNif for TLC. *)
EXTENDS WalNif, TLC

CONSTANTS c1, c2

ClientSymmetry == Permutations(Clients)
================================================================================
