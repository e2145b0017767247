---------------------------- MODULE MCPlayground ----------------------------
(* Instances of Playground for TLC.                                         *)
EXTENDS Playground
=============================================================================
