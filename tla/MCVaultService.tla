--------------------------- MODULE MCVaultService ---------------------------
(* A small instance of VaultService for TLC. *)
EXTENDS VaultService, TLC

SomePassphrases == {"", "default", "pass1", "pass2"}
SomeNames       == {"", "db"}
SomeKeyPairs    == {<<"public", "private">>}

ClientSymmetry == Permutations(Clients)
=============================================================================
