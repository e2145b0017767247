----------------------------- MODULE MCSystemTask -----------------------------
(* Two or three master nodes and two successive runs of one job type. *)
EXTENDS SystemTask

CONSTANTS n1, n2, n3
=============================================================================
