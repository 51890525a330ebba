------------------------------ MODULE MCSsoDemo -----------------------------
(* Instances of SsoDemo for TLC.                                             *)
EXTENDS SsoDemo
=============================================================================
