---------------------------- MODULE MCVaultInit -----------------------------
(* The instance of VaultInit for TLC needs nothing but the bound.            *)
EXTENDS VaultInit
=============================================================================
