--------------------------- MODULE MCWalletSession ---------------------------
(* Instances of WalletSession for TLC. *)
EXTENDS WalletSession, TLC

Symmetry == Permutations(Users) \cup Permutations(Tasks)

==============================================================================
