-------------------------- MODULE MCMultiKeyDialog --------------------------
(* Instances of MultiKeyDialog for TLC.                                     *)
EXTENDS MultiKeyDialog
=============================================================================
