------------------------------ MODULE MCCerts -------------------------------
(* An instance of Certs for TLC.                                             *)
EXTENDS Certs
=============================================================================
