-------------------------- MODULE MCKeycloakSetup ---------------------------
(* Instances of KeycloakSetup for TLC.                                       *)
EXTENDS KeycloakSetup, TLC

CONSTANTS s1, s2

RunSymmetry == Permutations(Run)
=============================================================================
