---------------------------- MODULE MCTaskBilling ----------------------------
(* Small instances of TaskBilling: one user, no tokens, no subscriptions. *)
EXTENDS TaskBilling

CONSTANTS u1, r1, k1, p1, f1, s1

NoTokenOwner == [t \in {} |-> u1]
NoSubOwner == [s \in {} |-> u1]
=============================================================================
