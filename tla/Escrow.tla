-------------------------------- MODULE Escrow --------------------------------
(***************************************************************************)
(* What billing promises, without columns, clipping, errors or resets: an  *)
(* operation is opened once against some accounts, may be changed while it *)
(* is open, and is closed once and for good.  Every account it draws on    *)
(* moves by exactly the change of its charge, in the same step, and by     *)
(* nothing else.  Money that moves outside operations is not in here: a    *)
(* balance is what an account has less what was put into it.               *)
(***************************************************************************)
EXTENDS Integers

CONSTANTS
    Operations,
    Accounts,
    MaxCharge      \* the largest charge of an operation

VARIABLES
    stage,     \* "new", "open" or "closed"
    charge,    \* what the operation holds, or was charged in the end
    payers,    \* the accounts it draws on
    balance

vars == <<stage, charge, payers, balance>>

Init ==
    /\ stage = [o \in Operations |-> "new"]
    /\ charge = [o \in Operations |-> 0]
    /\ payers = [o \in Operations |-> {}]
    /\ balance = [a \in Accounts |-> 0]

\* Operation o, and no other, gets a stage and a charge; the accounts it draws
\* on pay the difference.
Charge(o, from) ==
    /\ stage'[o] \in {"open", "closed"}
    /\ charge'[o] \in 0..MaxCharge
    /\ stage' = [stage EXCEPT ![o] = stage'[o]]
    /\ charge' = [charge EXCEPT ![o] = charge'[o]]
    /\ balance' = [a \in Accounts |->
                      IF a \in from THEN balance[a] - (charge'[o] - charge[o]) ELSE balance[a]]

\* An operation that takes over an earlier charge may close at once.
Begin(o) ==
    /\ stage[o] = "new"
    /\ payers'[o] \subseteq Accounts
    /\ Charge(o, payers'[o])
    /\ payers' = [payers EXCEPT ![o] = payers'[o]]

Change(o) ==
    /\ stage[o] = "open"
    /\ Charge(o, payers[o])
    /\ payers' = payers

Next == \E o \in Operations : Begin(o) \/ Change(o)

Spec == Init /\ [][Next]_vars
=============================================================================
