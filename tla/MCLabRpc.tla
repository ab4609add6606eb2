------------------------------ MODULE MCLabRpc ------------------------------
(* Small instances of LabRpc for TLC; every constant is a set of model     *)
(* values, given in the configurations.                                    *)
EXTENDS LabRpc
=============================================================================
