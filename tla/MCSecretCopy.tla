---------------------------- MODULE MCSecretCopy ----------------------------
(* Instantiates SecretCopy for TLC. The values come from the cfg files.    *)
EXTENDS SecretCopy, TLC
=============================================================================
