--------------------------- MODULE MCAuthSession ---------------------------
(* Instances of AuthSession for TLC: the surroundings of one run.  They are *)
(* never mixed, so the run is the sum of small instances.                   *)
EXTENDS AuthSession

World(locks, logins, logouts, refreshes, changes, removals, leaves, faults) ==
  [locks |-> locks,
   left |-> [login |-> logins, logout |-> logouts, refresh |-> refreshes, change |-> changes,
             remove |-> removals, leave |-> leaves, fault |-> faults]]

(* A sign-in, a sign-out or both while refreshes run.                       *)
Signing == {World(TRUE, 1, 1, 1, 0, 0, 0, 0), World(TRUE, 1, 0, 2, 0, 0, 0, 0), World(TRUE, 0, 1, 2, 0, 0, 0, 0)}

(* Refreshes, a reload and a fault.                                         *)
Refreshing == {World(TRUE, 0, 0, 3, 0, 0, 1, 1)}

(* Revocation from another device and a security change, with one session   *)
(* or two.                                                                  *)
Changing == {World(TRUE, 0, 0, 3, 1, 1, 0, 0), World(TRUE, 1, 0, 1, 1, 1, 0, 0)}

(* A browser without the lock.                                              *)
Racing ==
  {World(FALSE, 1, 1, 1, 0, 0, 0, 0), World(FALSE, 0, 1, 2, 0, 0, 0, 0), World(FALSE, 1, 0, 2, 0, 0, 0, 0),
   World(FALSE, 0, 0, 3, 0, 0, 0, 0)}

AllWorlds == Signing \cup Refreshing \cup Changing \cup Racing
=============================================================================
