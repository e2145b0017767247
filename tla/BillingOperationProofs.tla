------------------------ MODULE BillingOperationProofs ------------------------
(***************************************************************************)
(* Proofs about BillingOperation for every set of users, tokens,           *)
(* subscriptions, requests and tasks and every quota limit: what a charge  *)
(* does over its life, and what it moves between the rows.                 *)
(***************************************************************************)
EXTENDS BillingOperation, FiniteSetTheorems, TLAPS

\* The ids an operation refers to exist, as far as its charge needs them.
Owned(op) ==
    /\ op.user \in Users
    /\ op.funding = "subscription" => op.sub \in Subs

OpsOwned == \A o \in OpIds : ops[o].status # "none" => Owned(ops[o])

\* A task row names its user, and an operation that exists.
TasksOwned ==
    \A k \in Tasks :
        /\ tasks[k].status # "none" => tasks[k].user \in Users
        /\ tasks[k].op # Unset => ops[tasks[k].op].status # "none"

\* TypeOK alone is not inductive: the rows an operation without an owner
\* would change are unspecified.
TypeInv == TypeOK /\ OpsOwned /\ TasksOwned

-----------------------------------------------------------------------------
(* Lemmas on the operators. *)

\* What a larger reservation or settlement adds is between zero and what was
\* asked for.
LEMMA AppliedDeltaRange ==
    ASSUME TypeOK, NEW op \in Operation, Owned(op), NEW target \in Quota
    PROVE  /\ AppliedDelta(op, target) \in Int
           /\ op.reserved + AppliedDelta(op, target) \in Quota
           /\ op.reserved + AppliedDelta(op, target) <= target
           /\ target > op.reserved => AppliedDelta(op, target) >= 0
           /\ target <= op.reserved => AppliedDelta(op, target) = target - op.reserved
<1>1. MaxQuota \in Nat BY QuotaAssumption
<1>2. op.reserved \in 0..MaxQuota BY DEF Operation, Quota
<1>3. FundingRoom(op) \in Int
  BY <1>1 DEF FundingRoom, TypeOK, Owned, Operation, Fundings, UserRow, SubRow
<1>4. TokenRoom(op) \in Int
  BY <1>1 DEF TokenRoom, TokenCharged, TypeOK, Operation, TokenRow, Lesser
<1>5. AdditionalCapacity(op) \in Nat
  BY <1>1, <1>3, <1>4 DEF AdditionalCapacity, Larger, Lesser
<1> QED BY <1>1, <1>2, <1>5 DEF AppliedDelta, Lesser, Quota

\* Charging a token row, with the restoration of an exhausted one, gives a token
\* row.
LEMMA ChargedTokenType ==
    ASSUME NEW t \in TokenRow, NEW b \in BOOLEAN, NEW delta \in Int
    PROVE  ChargedToken(t, b, delta) \in TokenRow
<1> DEFINE moved == [t EXCEPT !.used = @ + delta,
                              !.remain = IF b THEN @ - delta ELSE @]
<1>0. t.used + delta \in Int /\ (IF b THEN t.remain - delta ELSE t.remain) \in Int
  BY DEF TokenRow
<1>1. moved \in TokenRow
  BY <1>0, Zenon DEF TokenRow
<1>2. [moved EXCEPT !.status = "enabled"] \in TokenRow
  BY <1>1 DEF TokenRow, TokenStatuses
<1>3. ChargedToken(t, b, delta) \in {moved, [moved EXCEPT !.status = "enabled"]}
  BY Zenon DEF ChargedToken, Restored
<1> QED BY <1>1, <1>2, <1>3

\* applyBillingOperationDeltaTx keeps wallet, subscription and token rows typed;
\* the guards keep amount_used from becoming negative.
LEMMA ApplyDeltaType ==
    ASSUME TypeOK, NEW op \in Operation, Owned(op), NEW delta \in Int,
           ApplyDelta(op, delta)
    PROVE  /\ users' \in [Users -> UserRow]
           /\ tokens' \in [Tokens -> TokenRow]
           /\ subs' \in [Subs -> SubRow]
<1>1. users' \in [Users -> UserRow]
  BY DEF TypeOK, ApplyDelta, Owned, UserRow
<1>2. tokens' \in [Tokens -> TokenRow]
  BY ChargedTokenType DEF TypeOK, ApplyDelta, Operation, TokenCharged
<1>3. CASE op.funding = "subscription"
  <2>1. subs[op.sub] \in SubRow BY <1>3 DEF TypeOK, Owned
  <2>2. subs[op.sub].used + delta \in Nat
    BY <1>3, <2>1 DEF ApplyDelta, DeltaFits, FundingFits, SubRow
  <2> QED BY <1>1, <1>2, <1>3, <2>1, <2>2 DEF TypeOK, ApplyDelta, Owned, SubRow
<1>4. CASE op.funding # "subscription"
  BY <1>1, <1>2, <1>4 DEF TypeOK, ApplyDelta
<1> QED BY <1>3, <1>4

\* A changed reservation stays a quota of 32 bits, in the rows and in the
\* operation.
LEMMA AdjustType ==
    ASSUME TypeInv, NEW o \in OpIds, NEW target \in Quota,
           NEW k \in Tasks \cup {Unset}, AdjustReservation(o, target, k)
    PROVE  /\ users' \in [Users -> UserRow]
           /\ tokens' \in [Tokens -> TokenRow]
           /\ subs' \in [Subs -> SubRow]
           /\ ops' \in [OpIds -> Operation]
           /\ ops'[o].status = "reserved"
           /\ \A p \in OpIds \ {o} : ops'[p] = ops[p]
           /\ OpsOwned'
<1> DEFINE op == ops[o]
           delta == AppliedDelta(op, target)
<1>1. op \in Operation /\ op.status = "reserved" /\ Owned(op)
  BY DEF TypeInv, TypeOK, OpsOwned, AdjustReservation, Open
<1>2. /\ delta \in Int
      /\ op.reserved + delta \in Quota
  BY <1>1, AppliedDeltaRange DEF TypeInv
<1>3. CASE target = op.reserved /\ ops' = [ops EXCEPT ![o].task = k] /\ UNCHANGED rows
  BY <1>1, <1>3 DEF TypeInv, TypeOK, rows, Operation, OpsOwned, Owned
<1>4. CASE /\ ops' = [ops EXCEPT ![o] = [op EXCEPT !.requested = target,
                            !.limited = TRUE, !.task = k]]
           /\ UNCHANGED rows
  BY <1>1, <1>4 DEF TypeInv, TypeOK, rows, Operation, OpsOwned, Owned
<1>5. CASE /\ ApplyDelta(op, delta)
           /\ ops' = [ops EXCEPT ![o] = [op EXCEPT !.reserved = @ + delta,
                            !.requested = target,
                            !.limited = delta # target - op.reserved,
                            !.task = k]]
  <2>1. /\ users' \in [Users -> UserRow]
        /\ tokens' \in [Tokens -> TokenRow]
        /\ subs' \in [Subs -> SubRow]
    BY <1>1, <1>2, <1>5, ApplyDeltaType DEF TypeInv
  <2> HIDE DEF delta
  <2>2. [op EXCEPT !.reserved = @ + delta, !.requested = target,
            !.limited = delta # target - op.reserved, !.task = k] \in Operation
    BY <1>1, <1>2, ZenonT(30) DEF Operation
  <2> QED BY <1>1, <1>5, <2>1, <2>2 DEF TypeInv, TypeOK, OpsOwned, Owned, Operation
<1> QED BY <1>3, <1>4, <1>5 DEF AdjustReservation

\* Closing an operation: op is the stored row of o, or the row with which a
\* legacy task is adopted.
LEMMA TransitionType ==
    ASSUME TypeInv, NEW o \in OpIds, NEW op \in Operation, Owned(op),
           op.status # "none", op.status # "reserved" => op = ops[o],
           NEW requested \in Quota, NEW outcome \in Outcomes,
           NEW abandon \in BOOLEAN,
           Transition(o, op, requested, outcome, abandon)
    PROVE  /\ users' \in [Users -> UserRow]
           /\ tokens' \in [Tokens -> TokenRow]
           /\ subs' \in [Subs -> SubRow]
           /\ ops' \in [OpIds -> Operation]
           /\ ops'[o].status \in Closed
           /\ \A p \in OpIds \ {o} : ops'[p] = ops[p]
           /\ OpsOwned'
<1> DEFINE delta == IF outcome = "settle" THEN AppliedDelta(op, requested)
                    ELSE -op.reserved
           final == IF outcome = "settle" THEN Settled(op, requested, delta)
                    ELSE Refunded(op)
<1>1. MaxQuota \in Nat /\ op.reserved \in Quota /\ Quota \subseteq Int
  BY QuotaAssumption DEF Operation, Quota
<1>2. delta \in Int /\ op.reserved + delta \in Quota
  BY <1>1, AppliedDeltaRange DEF TypeInv, Outcomes, Quota
<1>3. final \in Operation /\ Owned(final) /\ final.status \in Closed
  <2> HIDE DEF delta
  <2>1. Settled(op, requested, delta) \in Operation
    BY <1>1, <1>2 DEF Operation, Settled, OpStatuses
  <2>2. Refunded(op) \in Operation
    <3>1. 0 \in Quota BY <1>1 DEF Quota
    <3> QED BY <3>1 DEF Operation, Refunded, OpStatuses
  <2>3. /\ Owned(Settled(op, requested, delta))
        /\ Settled(op, requested, delta).status = "settled"
        /\ Owned(Refunded(op)) /\ Refunded(op).status = "refunded"
    BY DEF Operation, Settled, Refunded, Owned
  <2> QED BY <2>1, <2>2, <2>3 DEF Closed
<1>4. LET a == Abandoned(op, requested)
      IN  a \in Operation /\ Owned(a) /\ a.status \in Closed
  BY <1>1 DEF Operation, Abandoned, OpStatuses, Owned, Closed
<1>5. CASE Replays(op, requested, outcome) /\ UNCHANGED <<ops, rows>>
  <2>1. op.status \in Closed BY <1>5 DEF Replays, Closed
  <2>2. op = ops[o] BY <2>1 DEF Closed
  <2> QED BY <1>5, <2>1, <2>2 DEF TypeInv, TypeOK, rows, OpsOwned, Owned
<1>6. CASE ApplyDelta(op, delta) /\ ops' = [ops EXCEPT ![o] = final]
  <2>1. /\ users' \in [Users -> UserRow]
        /\ tokens' \in [Tokens -> TokenRow]
        /\ subs' \in [Subs -> SubRow]
    BY <1>2, <1>6, ApplyDeltaType DEF TypeInv
  <2> HIDE DEF delta, final
  <2> QED BY <1>3, <1>6, <2>1 DEF TypeInv, TypeOK, OpsOwned, Owned
<1>7. CASE ops' = [ops EXCEPT ![o] = Abandoned(op, requested)] /\ UNCHANGED rows
  BY <1>4, <1>7 DEF TypeInv, TypeOK, rows, OpsOwned, Owned
<1> QED BY <1>5, <1>6, <1>7 DEF Transition

\* A task update leaves the rows of the ghosts and of the other tables typed.
LEMMA OpsKeepTasksOwned ==
    ASSUME TypeInv, UNCHANGED tasks, ops' \in [OpIds -> Operation],
           \A o \in OpIds : ops[o].status # "none" => ops'[o].status # "none"
    PROVE  TasksOwned'
BY DEF TypeInv, TypeOK, TasksOwned, TaskRow

-----------------------------------------------------------------------------
(* One lemma per group of actions. *)

\* The token side of a reservation.
LEMMA ReserveRowsType ==
    ASSUME TypeInv, NEW u \in Users, NEW t \in Tokens \cup {Unset},
           NEW quota \in Quota, ReserveRows(u, t, quota)
    PROVE  tokens' \in [Tokens -> TokenRow]
<1>1. quota \in Int BY QuotaAssumption DEF Quota
<1>2. CASE t = Unset BY <1>2 DEF TypeInv, TypeOK, ReserveRows
<1>3. CASE t \in Tokens
  <2>1. tokens[t] \in TokenRow BY <1>3 DEF TypeInv, TypeOK
  <2>2. (~tokens[t].unlimited) \in BOOLEAN OBVIOUS
  <2>3. ChargedToken(tokens[t], ~tokens[t].unlimited, quota) \in TokenRow
    BY <1>1, <2>1, <2>2, ChargedTokenType
  <2> QED BY <1>3, <2>3, IdAssumption DEF TypeInv, TypeOK, ReserveRows
<1> QED BY <1>2, <1>3

\* The row ReserveBillingOperation inserts.
LEMMA NewOperationType ==
    ASSUME NEW u \in Users, NEW t \in Tokens \cup {Unset}, NEW f \in Fundings,
           NEW s \in Subs \cup {Unset}, NEW quota \in Quota,
           f = "subscription" => s \in Subs
    PROVE  LET op == NewOperation(u, t, f, s, quota)
           IN  op \in Operation /\ Owned(op) /\ op.status = "reserved"
<1>1. 0 \in Quota BY QuotaAssumption DEF Quota
<1>2. (t # Unset /\ ~tokens[t].unlimited) \in BOOLEAN OBVIOUS
<1> QED BY <1>1, <1>2 DEF NewOperation, NoOperation, Operation, OpStatuses, Fundings, Owned

\* A reservation against a wallet.
LEMMA ReserveWalletType ==
    ASSUME TypeInv, NEW r \in Requests, NEW u \in Users,
           NEW t \in Tokens \cup {Unset}, NEW quota \in Quota,
           ReserveFromWallet(r, u, t, quota)
    PROVE  TypeInv'
<1>1. tokens' \in [Tokens -> TokenRow]
  BY ReserveRowsType DEF ReserveFromWallet
<1>2. users' \in [Users -> UserRow]
  BY QuotaAssumption DEF ReserveFromWallet, TypeInv, TypeOK, UserRow, Quota
<1> DEFINE new == NewOperation(u, t, "wallet", Unset, quota)
<1>3. new \in Operation /\ Owned(new) /\ new.status = "reserved"
  BY NewOperationType DEF Fundings
<1> HIDE DEF new
<1>4. ops' = [ops EXCEPT ![r] = new]
  BY DEF ReserveFromWallet, new
<1>5. ops' \in [OpIds -> Operation] /\ OpsOwned'
      /\ \A o \in OpIds : ops[o].status # "none" => ops'[o].status # "none"
  BY <1>3, <1>4 DEF TypeInv, TypeOK, OpsOwned, OpIds, Owned
<1>6. UNCHANGED <<subs, tasks, ghost>> BY DEF ReserveFromWallet
<1>7. TasksOwned' BY <1>5, <1>6, OpsKeepTasksOwned
<1> QED BY <1>1, <1>2, <1>5, <1>6, <1>7 DEF TypeInv, TypeOK, ghost

\* A reservation against a subscription: resets on the way only lower
\* amount_used, and the selected one gets the quota on top.
LEMMA ReserveSubscriptionType ==
    ASSUME TypeInv, NEW r \in Requests, NEW u \in Users,
           NEW t \in Tokens \cup {Unset}, NEW quota \in Quota,
           ReserveFromSubscription(r, u, t, quota)
    PROVE  TypeInv'
<1>1. tokens' \in [Tokens -> TokenRow]
  BY ReserveRowsType DEF ReserveFromSubscription
<1>2. PICK s \in Subs : LET reset == ResetOnTheWay(u, s) IN
        /\ subs' = [x \in Subs |->
                       [subs[x] EXCEPT
                           !.used = (IF x \in reset THEN 0 ELSE @)
                                    + (IF x = s THEN quota ELSE 0),
                           !.due = @ /\ x \notin reset]]
        /\ forgiven' = [x \in Subs |->
                           forgiven[x] + IF x \in reset THEN subs[x].used ELSE 0]
        /\ ops' = [ops EXCEPT ![r] = NewOperation(u, t, "subscription", s, quota)]
  BY Zenon DEF ReserveFromSubscription
<1> DEFINE new == NewOperation(u, t, "subscription", s, quota)
           reset == ResetOnTheWay(u, s)
<1>3. new \in Operation /\ Owned(new) /\ new.status = "reserved"
  BY NewOperationType DEF Fundings
<1>4. subs' \in [Subs -> SubRow] /\ forgiven' \in [Subs -> Int]
  <2> HIDE DEF reset
  <2>1. quota \in Nat BY QuotaAssumption DEF Quota
  <2>2. ASSUME NEW x \in Subs
        PROVE  /\ [subs[x] EXCEPT
                     !.used = (IF x \in reset THEN 0 ELSE @)
                              + (IF x = s THEN quota ELSE 0),
                     !.due = @ /\ x \notin reset] \in SubRow
               /\ (forgiven[x] + IF x \in reset THEN subs[x].used ELSE 0) \in Int
    <3>1. subs[x] \in SubRow /\ forgiven[x] \in Int BY DEF TypeInv, TypeOK
    <3>2. /\ (IF x \in reset THEN 0 ELSE subs[x].used)
             + (IF x = s THEN quota ELSE 0) \in Nat
          /\ (forgiven[x] + IF x \in reset THEN subs[x].used ELSE 0) \in Int
      BY <2>1, <3>1 DEF SubRow
    <3>3. (subs[x].due /\ x \notin reset) \in BOOLEAN OBVIOUS
    <3> QED BY <3>1, <3>2, <3>3 DEF SubRow
  <2> QED BY <1>2, <2>2 DEF reset
<1> HIDE DEF new, reset
<1>5. ops' = [ops EXCEPT ![r] = new]
  BY <1>2 DEF new
<1>6. ops' \in [OpIds -> Operation] /\ OpsOwned'
      /\ \A o \in OpIds : ops[o].status # "none" => ops'[o].status # "none"
  BY <1>3, <1>5 DEF TypeInv, TypeOK, OpsOwned, OpIds, Owned
<1>7. UNCHANGED <<users, tasks, funded, outside>> BY DEF ReserveFromSubscription
<1>8. TasksOwned' BY <1>6, <1>7, OpsKeepTasksOwned
<1> QED BY <1>1, <1>4, <1>6, <1>7, <1>8 DEF TypeInv, TypeOK

\* Adjusting, settling and refunding through a request handler.
LEMMA RequestStepType ==
    ASSUME TypeInv, NEW r \in Requests, NEW q \in Quota,
           \/ AdjustBillingOperationReservation(r, q)
           \/ SettleBillingOperation(r, q)
           \/ RefundBillingOperation(r)
    PROVE  TypeInv'
<1>1. r \in OpIds /\ 0 \in Quota BY QuotaAssumption DEF OpIds, Quota
<1>2. UNCHANGED <<tasks, ghost>>
  BY DEF AdjustBillingOperationReservation, SettleBillingOperation, RefundBillingOperation
<1>3. ops[r] \in Operation BY <1>1 DEF TypeInv, TypeOK
<1>4. /\ users' \in [Users -> UserRow]
      /\ tokens' \in [Tokens -> TokenRow]
      /\ subs' \in [Subs -> SubRow]
      /\ ops' \in [OpIds -> Operation]
      /\ ops'[r].status # "none"
      /\ \A p \in OpIds \ {r} : ops'[p] = ops[p]
      /\ OpsOwned'
  <2>1. CASE AdjustBillingOperationReservation(r, q)
    <3>1. ops[r].task \in Tasks \cup {Unset} BY <1>3 DEF Operation
    <3> QED BY <1>1, <2>1, <3>1, AdjustType DEF AdjustBillingOperationReservation
  <2>2. ASSUME NEW quota \in Quota, NEW outcome \in Outcomes,
               Transition(r, ops[r], quota, outcome, FALSE)
        PROVE  /\ ops'[r].status # "none"
               /\ users' \in [Users -> UserRow]
               /\ tokens' \in [Tokens -> TokenRow]
               /\ subs' \in [Subs -> SubRow]
               /\ ops' \in [OpIds -> Operation]
               /\ \A p \in OpIds \ {r} : ops'[p] = ops[p]
               /\ OpsOwned'
    <3>1. ops[r].status # "none" /\ Owned(ops[r])
      BY <1>1, <2>2 DEF Transition, Replays, Open, TypeInv, OpsOwned
    <3> QED BY <1>1, <1>3, <2>2, <3>1, TransitionType DEF Closed
  <2>3. CASE SettleBillingOperation(r, q)
    BY <2>2, <2>3 DEF SettleBillingOperation, Outcomes
  <2>4. CASE RefundBillingOperation(r)
    BY <1>1, <2>2, <2>4 DEF RefundBillingOperation, Outcomes
  <2> QED BY <2>1, <2>3, <2>4
<1>5. TasksOwned' BY <1>2, <1>4, OpsKeepTasksOwned
<1> QED BY <1>2, <1>4, <1>5 DEF TypeInv, TypeOK, ghost

\* Creating a task with its operation: the task takes the operation's owner.
LEMMA CreateTaskType ==
    ASSUME TypeInv, NEW k \in Tasks, NEW r \in Requests, NEW q \in Quota,
           CreateTaskWithBillingOperation(k, r, q)
    PROVE  TypeInv'
<1>1. r \in OpIds BY DEF OpIds
<1>2. /\ users' \in [Users -> UserRow]
      /\ tokens' \in [Tokens -> TokenRow]
      /\ subs' \in [Subs -> SubRow]
      /\ ops' \in [OpIds -> Operation]
      /\ ops'[r].status = "reserved"
      /\ \A p \in OpIds \ {r} : ops'[p] = ops[p]
      /\ OpsOwned'
  BY <1>1, AdjustType DEF CreateTaskWithBillingOperation
<1>3. /\ ops[r] \in Operation /\ ops'[r] \in Operation
      /\ ops[r].user \in Users
  BY <1>1, <1>2 DEF CreateTaskWithBillingOperation, AdjustReservation, Open,
                    TypeInv, TypeOK, OpsOwned, Owned
<1> DEFINE new == [status |-> "submitted", op |-> r, quota |-> ops'[r].reserved,
                   user |-> ops[r].user, token |-> ops[r].token,
                   sub |-> ops[r].sub, beforeCutoff |-> FALSE]
<1>4. new \in TaskRow /\ new.user \in Users /\ new.op = r
  BY <1>1, <1>3 DEF TaskRow, Operation, TaskRunning
<1>5. tasks' = [tasks EXCEPT ![k] = new]
  BY DEF CreateTaskWithBillingOperation
<1> HIDE DEF new
<1>6. tasks' \in [Tasks -> TaskRow] BY <1>4, <1>5 DEF TypeInv, TypeOK
<1>7. TasksOwned'
  <2> SUFFICES ASSUME NEW l \in Tasks
               PROVE  /\ tasks'[l].status # "none" => tasks'[l].user \in Users
                      /\ tasks'[l].op # Unset => ops'[tasks'[l].op].status # "none"
    BY DEF TasksOwned
  <2>1. CASE l = k BY <1>2, <1>4, <1>5, <2>1 DEF TypeInv, TypeOK
  <2>2. CASE l # k
    <3>1. tasks'[l] = tasks[l] BY <1>5, <2>2 DEF TypeInv, TypeOK
    <3>2. tasks[l].op \in OpIds \cup {Unset} BY DEF TypeInv, TypeOK, TaskRow
    <3> QED BY <1>2, <3>1, <3>2 DEF TypeInv, TasksOwned
  <2> QED BY <2>1, <2>2
<1> QED BY <1>2, <1>6, <1>7 DEF CreateTaskWithBillingOperation, TypeInv, TypeOK, ghost

\* The operation under which a task is closed, its own or the adopted one, is an
\* operation row with an owner.
LEMMA AdoptedType ==
    ASSUME TypeInv, NEW k \in Tasks, tasks[k].status # "none"
    PROVE  LET op == AdoptedOperation(k)
           IN  /\ OperationOf(k) \in OpIds
               /\ op \in Operation /\ Owned(op) /\ op.status # "none"
               /\ op.status # "reserved" => op = ops[OperationOf(k)]
<1>1. tasks[k] \in TaskRow /\ tasks[k].user \in Users
  BY DEF TypeInv, TypeOK, TasksOwned
<1>2. k \in OpIds /\ OperationOf(k) \in OpIds
  BY <1>1 DEF OpIds, OperationOf, TaskRow
<1>3. CASE Adopts(k)
  <2>1. 0 \in Quota BY QuotaAssumption DEF Quota
  <2>2. NormalizedFunding(k) \in Fundings
        /\ (NormalizedFunding(k) = "subscription" => tasks[k].sub \in Subs)
    BY <1>1 DEF NormalizedFunding, Fundings, TaskRow
  <2>3. (tasks[k].token # Unset) \in BOOLEAN OBVIOUS
  <2> QED BY <1>1, <1>2, <1>3, <2>1, <2>2, <2>3
          DEF AdoptedOperation, NoOperation, Operation, OpStatuses, Owned, TaskRow
<1>4. CASE ~Adopts(k)
  <2>1. AdoptedOperation(k) = ops[OperationOf(k)] BY <1>4 DEF AdoptedOperation
  <2>2. ops[OperationOf(k)].status # "none"
    BY <1>1, <1>4 DEF Adopts, OperationOf, TypeInv, TasksOwned
  <2> QED BY <1>2, <2>1, <2>2 DEF TypeInv, TypeOK, OpsOwned
<1> QED BY <1>3, <1>4

\* The end of a task, with the operation it closes or adopts.
LEMMA TaskTransitionType ==
    ASSUME TypeInv, NEW k \in Tasks, NEW from \in TaskRunning, NEW to \in TaskDone,
           NEW q \in Quota, ApplyTaskBillingTransition(k, from, to, q)
    PROVE  TypeInv'
<1> DEFINE o == OperationOf(k)
           op == AdoptedOperation(k)
<1>1. tasks[k] \in TaskRow /\ tasks[k].status # "none"
  BY DEF ApplyTaskBillingTransition, MayEnd, TaskDone, TypeInv, TypeOK
<1>2. /\ o \in OpIds /\ op \in Operation /\ Owned(op) /\ op.status # "none"
      /\ op.status # "reserved" => op = ops[o]
  BY <1>1, AdoptedType
<1>3. 0 \in Quota /\ Quota \subseteq Int BY QuotaAssumption DEF Quota
<1>4. CASE /\ tasks' = [tasks EXCEPT ![k].status = to, ![k].quota = 0]
           /\ UNCHANGED <<users, tokens, subs, ops, ghost>>
  <2>1. tasks' \in [Tasks -> TaskRow]
    BY <1>1, <1>3, <1>4 DEF TypeInv, TypeOK, TaskRow
  <2>2. \A l \in Tasks : tasks'[l].op = tasks[l].op /\ tasks'[l].user = tasks[l].user
    BY <1>1, <1>4 DEF TypeInv, TypeOK, TaskRow
  <2>3. \A l \in Tasks : l # k => tasks'[l] = tasks[l]
    BY <1>4 DEF TypeInv, TypeOK
  <2>4. TasksOwned'
    BY <1>1, <1>4, <2>2, <2>3 DEF TypeInv, TypeOK, TasksOwned
  <2> QED BY <1>4, <2>1, <2>4 DEF TypeInv, TypeOK, ghost, OpsOwned, Owned
<1>5. CASE /\ Transition(o, op, q, OutcomeOf(to), TRUE)
           /\ tasks' = [tasks EXCEPT ![k].status = to, ![k].op = o,
                                     ![k].quota = ops'[o].actual]
           /\ IF Adopts(k) THEN AttributeLegacyCharge(op) ELSE UNCHANGED ghost
  <2> HIDE DEF o, op
  <2>1. OutcomeOf(to) \in Outcomes BY DEF OutcomeOf, Outcomes
  <2>2. /\ users' \in [Users -> UserRow]
        /\ tokens' \in [Tokens -> TokenRow]
        /\ subs' \in [Subs -> SubRow]
        /\ ops' \in [OpIds -> Operation]
        /\ ops'[o].status \in Closed
        /\ \A p \in OpIds \ {o} : ops'[p] = ops[p]
        /\ OpsOwned'
    BY <1>2, <1>5, <2>1, TransitionType
  <2>3. ops'[o].actual \in Quota BY <1>2, <2>2 DEF Operation
  <2>4. tasks' \in [Tasks -> TaskRow]
    BY <1>1, <1>2, <1>5, <2>3 DEF TypeInv, TypeOK, TaskRow
  <2>5. TasksOwned'
    <3> SUFFICES ASSUME NEW l \in Tasks
                 PROVE  /\ tasks'[l].status # "none" => tasks'[l].user \in Users
                        /\ tasks'[l].op # Unset => ops'[tasks'[l].op].status # "none"
      BY DEF TasksOwned
    <3>1. CASE l = k
      <4>1. tasks'[k].op = o /\ tasks'[k].user = tasks[k].user
        BY <1>1, <1>5 DEF TypeInv, TypeOK, TaskRow
      <4> QED BY <1>1, <2>2, <3>1, <4>1 DEF TypeInv, TasksOwned, Closed
    <3>2. CASE l # k
      <4>1. tasks'[l] = tasks[l] BY <1>5, <3>2 DEF TypeInv, TypeOK
      <4>2. tasks[l].op \in OpIds \cup {Unset} BY DEF TypeInv, TypeOK, TaskRow
      <4> QED BY <2>2, <4>1, <4>2 DEF TypeInv, TasksOwned, Closed
    <3> QED BY <3>1, <3>2
  <2>6. /\ funded' \in [Users -> Int] /\ outside' \in [Tokens -> Int]
        /\ forgiven' \in [Subs -> Int]
    <3>1. op.reserved \in Int BY <1>2, <1>3 DEF Operation
    <3>2. CASE AttributeLegacyCharge(op)
      <4>1. funded' \in [Users -> Int]
        BY <1>2, <3>1, <3>2 DEF AttributeLegacyCharge, Owned, TypeInv, TypeOK
      <4>2. forgiven' \in [Subs -> Int]
        BY <1>2, <3>1, <3>2 DEF AttributeLegacyCharge, Owned, TypeInv, TypeOK
      <4>3. op.token \in Tokens \cup {Unset} BY <1>2 DEF Operation
      <4>4. outside' \in [Tokens -> Int]
        BY <3>1, <3>2, <4>3 DEF AttributeLegacyCharge, TokenCharged, TypeInv, TypeOK
      <4> QED BY <4>1, <4>2, <4>4
    <3> QED BY <1>5, <3>2 DEF TypeInv, TypeOK, ghost
  <2> QED BY <2>2, <2>4, <2>5, <2>6 DEF TypeInv, TypeOK
<1> QED BY <1>4, <1>5 DEF ApplyTaskBillingTransition

\* Steps outside billing leave the operations and the tasks alone.
LEMMA OutsideFrame ==
    ASSUME TypeInv, TypeOK', UNCHANGED <<ops, tasks>>
    PROVE  TypeInv'
BY DEF TypeInv, OpsOwned, Owned, TasksOwned

\* What the rest of the system does to users keeps the rows typed.
LEMMA UserStepType ==
    ASSUME TypeInv, UserNext
    PROVE  TypeInv'
<1>1. ASSUME NEW u \in Users, NEW amount \in Amounts, ChangeUserQuota(u, amount)
      PROVE  TypeInv'
  <2>1. UNCHANGED <<tokens, subs, ops, tasks, outside, forgiven>>
    BY <1>1 DEF ChangeUserQuota
  <2>2. users' \in [Users -> UserRow] /\ funded' \in [Users -> Int]
    BY <1>1, QuotaAssumption DEF ChangeUserQuota, TypeInv, TypeOK, UserRow
  <2>3. TypeOK' BY <2>1, <2>2 DEF TypeInv, TypeOK
  <2> QED BY <2>1, <2>3, OutsideFrame
<1>2. ASSUME NEW u \in Users, NEW row \in {"soft", "gone"}, DeleteUser(u, row)
      PROVE  TypeInv'
  <2>1. UNCHANGED <<subs, ops, tasks, ghost>>
    BY <1>2 DEF DeleteUser
  <2>2. users' \in [Users -> UserRow]
    BY <1>2 DEF DeleteUser, TypeInv, TypeOK, UserRow, RowStates
  <2>3. \A t \in Tokens : [tokens[t] EXCEPT !.row = "gone"] \in TokenRow
    BY DEF TypeInv, TypeOK, TokenRow, RowStates
  <2>4. tokens' \in [Tokens -> TokenRow]
    BY <1>2, <2>3 DEF DeleteUser, PurgedTokens, TypeInv, TypeOK
  <2>5. TypeOK' BY <2>1, <2>2, <2>4 DEF TypeInv, TypeOK, ghost
  <2> QED BY <2>1, <2>5, OutsideFrame
<1> QED BY <1>1, <1>2 DEF UserNext

\* What the rest of the system does to tokens keeps the rows typed, edits from
\* rows read earlier included.
LEMMA TokenStepType ==
    ASSUME TypeInv, TokenNext
    PROVE  TypeInv'
<1>1. ASSUME NEW t \in Tokens, NEW amount \in Amounts, ChangeTokenQuota(t, amount)
      PROVE  TypeInv'
  <2>1. amount \in Int BY QuotaAssumption
  <2>2. tokens[t] \in TokenRow BY DEF TypeInv, TypeOK
  <2>3. ChargedToken(tokens[t], TRUE, amount) \in TokenRow
    BY <2>1, <2>2, ChargedTokenType
  <2>4. UNCHANGED <<users, subs, ops, tasks, funded, forgiven>>
    BY <1>1 DEF ChangeTokenQuota
  <2>5. tokens' \in [Tokens -> TokenRow]
    BY <1>1, <2>3 DEF ChangeTokenQuota, TypeInv, TypeOK
  <2>6. outside' \in [Tokens -> Int]
    BY <1>1, <2>1 DEF ChangeTokenQuota, TypeInv, TypeOK
  <2>7. TypeOK' BY <2>4, <2>5, <2>6 DEF TypeInv, TypeOK
  <2> QED BY <2>4, <2>7, OutsideFrame
<1>2. ASSUME NEW t \in Tokens, NEW row \in TokenRow,
             tokens' = [tokens EXCEPT ![t] = row],
             UNCHANGED <<users, subs, ops, tasks, ghost>>
      PROVE  TypeInv'
  <2>1. TypeOK' BY <1>2 DEF TypeInv, TypeOK, ghost
  <2> QED BY <1>2, <2>1, OutsideFrame
<1>3. ASSUME NEW t \in Tokens, NEW row, WriteToken(t, row),
             row.status \in TokenStatuses, row.remain \in Int,
             row.unlimited \in BOOLEAN, row.expired \in BOOLEAN
      PROVE  TypeInv'
  <2>1. [tokens[t] EXCEPT !.status = row.status, !.remain = row.remain,
            !.unlimited = row.unlimited, !.expired = row.expired] \in TokenRow
    BY <1>3 DEF TypeInv, TypeOK, TokenRow
  <2> QED BY <1>2, <1>3, <2>1 DEF WriteToken
<1>4. ASSUME NEW t \in Tokens, NEW status \in TokenStatuses,
             tokens' = [tokens EXCEPT ![t].status = status],
             UNCHANGED <<users, subs, ops, tasks, ghost>>
      PROVE  TypeInv'
  <2>1. [tokens[t] EXCEPT !.status = status] \in TokenRow
    BY DEF TypeInv, TypeOK, TokenRow
  <2> QED BY <1>2, <1>4, <2>1
<1>5. ASSUME NEW t \in Tokens, TokenExpires(t)
      PROVE  TypeInv'
  <2>1. [tokens[t] EXCEPT !.expired = TRUE] \in TokenRow
    BY DEF TypeInv, TypeOK, TokenRow
  <2> QED BY <1>2, <1>5, <2>1 DEF TokenExpires
<1>6. ASSUME NEW t \in Tokens, DeleteToken(t)
      PROVE  TypeInv'
  <2>1. [tokens[t] EXCEPT !.row = "soft"] \in TokenRow
    BY DEF TypeInv, TypeOK, TokenRow, RowStates
  <2> QED BY <1>2, <1>6, <2>1 DEF DeleteToken
<1>7. ASSUME NEW t \in Tokens, NEW status \in TokenStatuses, UpdateTokenStatus(t, status)
      PROVE  TypeInv'
  <2> DEFINE row == [tokens[t] EXCEPT !.status = status]
  <2>1. tokens[t] \in TokenRow
    BY DEF TypeInv, TypeOK
  <2>2. /\ row.status \in TokenStatuses /\ row.remain \in Int
        /\ row.unlimited \in BOOLEAN /\ row.expired \in BOOLEAN
    BY <2>1 DEF TokenRow
  <2>3. WriteToken(t, row)
    BY <1>7 DEF UpdateTokenStatus
  <2> HIDE DEF row
  <2> QED BY <1>3, <2>2, <2>3
<1>8. ASSUME NEW t \in Tokens, PersistTokenInvalidStatus(t)
      PROVE  TypeInv'
  BY <1>4, <1>8 DEF PersistTokenInvalidStatus, TokenStatuses
<1>9. ASSUME NEW t \in Tokens, NEW seenStatus \in TokenStatuses, NEW remain \in Remains,
             NEW unlimited \in BOOLEAN, NEW expired \in BOOLEAN,
             UpdateToken(t, seenStatus, remain, unlimited, expired)
      PROVE  TypeInv'
  <2> DEFINE row == [status |-> seenStatus, remain |-> remain,
                     unlimited |-> unlimited, expired |-> expired]
  <2>1. /\ row.status \in TokenStatuses /\ row.remain \in Int
        /\ row.unlimited \in BOOLEAN /\ row.expired \in BOOLEAN
    BY QuotaAssumption
  <2>2. WriteToken(t, row)
    BY <1>9 DEF UpdateToken
  <2> HIDE DEF row
  <2> QED BY <1>3, <2>1, <2>2
<1> QED BY <1>1, <1>3, <1>5, <1>6, <1>7, <1>8, <1>9 DEF TokenNext

\* What the rest of the system does to subscriptions keeps the rows typed.
LEMMA SubscriptionStepType ==
    ASSUME TypeInv, SubscriptionNext
    PROVE  TypeInv'
<1>1. ASSUME NEW s \in Subs, NEW row \in SubRow,
             subs' = [subs EXCEPT ![s] = row],
             UNCHANGED <<users, tokens, ops, tasks, funded, outside>>,
             forgiven' \in [Subs -> Int]
      PROVE  TypeInv'
  <2>1. TypeOK' BY <1>1 DEF TypeInv, TypeOK
  <2> QED BY <1>1, <2>1, OutsideFrame
<1>2. ASSUME NEW s \in Subs, NEW advance \in BOOLEAN, ResetUserSubscription(s, advance)
      PROVE  TypeInv'
  <2>1. subs[s] \in SubRow /\ forgiven[s] \in Int BY DEF TypeInv, TypeOK
  <2>2. (subs[s].due /\ ~advance) \in BOOLEAN OBVIOUS
  <2>3. [subs[s] EXCEPT !.used = 0, !.due = @ /\ ~advance] \in SubRow
    BY <2>1, <2>2 DEF SubRow
  <2>4. subs' = [subs EXCEPT ![s] = [subs[s] EXCEPT !.used = 0, !.due = @ /\ ~advance]]
    BY <1>2, <2>1 DEF ResetUserSubscription, TypeInv, TypeOK, SubRow
  <2>5. forgiven' \in [Subs -> Int]
    BY <1>2, <2>1 DEF ResetUserSubscription, SubRow, TypeInv, TypeOK
  <2>6. UNCHANGED <<users, tokens, ops, tasks, funded, outside>>
    BY <1>2 DEF ResetUserSubscription
  <2> QED BY <1>1, <2>3, <2>4, <2>5, <2>6
<1>3. ASSUME NEW s \in Subs, NEW row \in SubRow,
             subs' = [subs EXCEPT ![s] = row],
             UNCHANGED <<users, tokens, ops, tasks, ghost>>
      PROVE  TypeInv'
  BY <1>1, <1>3 DEF ghost, TypeInv, TypeOK
<1>4. ASSUME NEW s \in Subs
      PROVE  /\ [subs[s] EXCEPT !.due = TRUE] \in SubRow
             /\ [subs[s] EXCEPT !.active = FALSE] \in SubRow
             /\ [subs[s] EXCEPT !.row = "gone"] \in SubRow
  BY DEF TypeInv, TypeOK, SubRow
<1>5. ASSUME NEW s \in Subs, SubscriptionFallsDue(s) PROVE TypeInv'
  BY <1>3, <1>4, <1>5 DEF SubscriptionFallsDue
<1>6. ASSUME NEW s \in Subs, EndSubscription(s) PROVE TypeInv'
  BY <1>3, <1>4, <1>6 DEF EndSubscription
<1>7. ASSUME NEW s \in Subs, AdminDeleteUserSubscription(s) PROVE TypeInv'
  BY <1>3, <1>4, <1>7 DEF AdminDeleteUserSubscription
<1> QED BY <1>2, <1>5, <1>6, <1>7 DEF SubscriptionNext

-----------------------------------------------------------------------------
(* The invariant. *)

\* The initial rows are typed and owned.
LEMMA TypeInit == Init => TypeInv
<1> SUFFICES ASSUME Init PROVE TypeInv OBVIOUS
<1>1. 0 \in Quota BY QuotaAssumption DEF Quota
<1>2. NoOperation \in Operation
  BY <1>1 DEF NoOperation, Operation, OpStatuses, Fundings
<1>3. users \in [Users -> UserRow]
  BY QuotaAssumption DEF Init, UserRow, RowStates
<1>4. tokens \in [Tokens -> TokenRow] /\ subs \in [Subs -> SubRow]
  BY InitialAssumption DEF Init
<1>5. ops \in [OpIds -> Operation] /\ OpsOwned
  <2>1. \A o \in OpIds : ops[o] = NoOperation BY DEF Init
  <2>2. NoOperation.status = "none" BY DEF NoOperation
  <2> QED BY <1>2, <2>1, <2>2 DEF Init, OpsOwned
<1>6. tasks \in [Tasks -> TaskRow] /\ TasksOwned
  <2>1. PICK legacy \in [LegacyTasks -> LegacyRows] :
          tasks = [k \in Tasks |-> IF k \in LegacyTasks THEN legacy[k] ELSE NoTask]
    BY DEF Init
  <2>2. NoTask \in TaskRow /\ NoTask.op = Unset /\ NoTask.status = "none"
    BY <1>1 DEF NoTask, TaskRow
  <2>3. \A k \in LegacyTasks : /\ legacy[k] \in TaskRow /\ legacy[k].op = Unset
                               /\ legacy[k].user \in Users
    BY InitialAssumption DEF TaskRow
  <2> QED BY <2>1, <2>2, <2>3 DEF TasksOwned
<1>7. funded \in [Users -> Int] /\ outside \in [Tokens -> Int] /\ forgiven \in [Subs -> Int]
  BY <1>3, <1>4 DEF Init, UserRow, TokenRow, SubRow
<1> QED BY <1>3, <1>4, <1>5, <1>6, <1>7 DEF TypeInv, TypeOK

\* Every transaction and every outside step keeps the rows typed and owned.
LEMMA TypeStep == TypeInv /\ [Next]_vars => TypeInv'
<1> SUFFICES ASSUME TypeInv, [Next]_vars PROVE TypeInv' OBVIOUS
<1>1. CASE RequestNext
  <2>1. PICK r \in Requests :
        \/ \E u \in Users, t \in Tokens \cup {Unset}, q \in Quota :
            \/ ReserveFromWallet(r, u, t, q)
            \/ ReserveFromSubscription(r, u, t, q)
        \/ \E q \in Quota : AdjustBillingOperationReservation(r, q)
        \/ \E q \in Quota : SettleBillingOperation(r, q)
        \/ RefundBillingOperation(r)
    BY <1>1 DEF RequestNext
  <2>2. 0 \in Quota BY QuotaAssumption DEF Quota
  <2> QED BY <2>1, <2>2, ReserveWalletType, ReserveSubscriptionType, RequestStepType
<1>2. CASE TaskNext
  BY <1>2, CreateTaskType, TaskTransitionType DEF TaskNext
<1>3. CASE UserNext \/ TokenNext \/ SubscriptionNext
  BY <1>3, UserStepType, TokenStepType, SubscriptionStepType
<1>4. CASE UNCHANGED vars
  BY <1>4 DEF vars, TypeInv, TypeOK, OpsOwned, Owned, TasksOwned
<1> QED BY <1>1, <1>2, <1>3, <1>4 DEF Next

\* The rows keep their columns and ranges in every behaviour: amounts of
\* operations and tasks stay within 0..MaxQuota, subscription usage never
\* becomes negative.
THEOREM TypeCorrect == Spec => []TypeOK
<1>1. TypeInv => TypeOK BY DEF TypeInv
<1> QED BY TypeInit, TypeStep, <1>1, PTL DEF Spec

-----------------------------------------------------------------------------
(* Closed operations and their price. *)

\* What a step may do to the operations: closed ones stay, and what is closed
\* now is closed at the right price.
Final == \A o \in OpIds : ops[o].status \in Closed => ops'[o] = ops[o]
PriceInv == TypeInv /\ ClosedAtTheRightPrice

\* What transitionBillingOperationTx does to an operation: a closed one stays,
\* an open one closes at a right price.
LEMMA TransitionOutcome ==
    ASSUME PriceInv, NEW o \in OpIds, NEW op \in Operation, Owned(op),
           op.status # "none", op = ops[o] \/ ops[o].status = "none",
           op.status # "reserved" => op = ops[o],
           NEW requested \in Quota, NEW outcome \in Outcomes,
           NEW abandon \in BOOLEAN,
           Transition(o, op, requested, outcome, abandon)
    PROVE  Final /\ ClosedAtTheRightPrice'
<1> DEFINE delta == IF outcome = "settle" THEN AppliedDelta(op, requested)
                    ELSE -op.reserved
           final == IF outcome = "settle" THEN Settled(op, requested, delta)
                    ELSE Refunded(op)
<1>1. MaxQuota \in Nat /\ op.reserved \in Quota /\ Quota \subseteq Int
  BY QuotaAssumption DEF Operation, Quota
<1>2. ASSUME NEW new, RightPrice(new), op.status = "reserved",
             ops' = [ops EXCEPT ![o] = new]
      PROVE  Final /\ ClosedAtTheRightPrice'
  BY <1>2 DEF PriceInv, TypeInv, TypeOK, Final, ClosedAtTheRightPrice, Closed
<1>3. CASE Replays(op, requested, outcome) /\ UNCHANGED <<ops, rows>>
  BY <1>3 DEF PriceInv, Final, ClosedAtTheRightPrice
<1>4. CASE Open(op) /\ ApplyDelta(op, delta) /\ ops' = [ops EXCEPT ![o] = final]
  <2>1. CASE outcome = "settle"
    <3> DEFINE d == AppliedDelta(op, requested)
    <3>1. /\ d \in Int /\ op.reserved + d <= requested
          /\ requested > op.reserved => d >= 0
          /\ requested <= op.reserved => d = requested - op.reserved
      BY AppliedDeltaRange DEF PriceInv, TypeInv
    <3> HIDE DEF d
    <3>0. op.reserved \in Int /\ requested \in Int BY <1>1
    <3>2. (d # requested - op.reserved) <=> (op.reserved + d < requested)
      BY <3>0, <3>1
    <3>3. (d # requested - op.reserved) => op.reserved + d >= op.reserved
      BY <3>0, <3>1
    <3>4. RightPrice(Settled(op, requested, d))
      <4> DEFINE new == Settled(op, requested, d)
      <4>1. /\ new.status = "settled" /\ new.requested = requested
            /\ new.actual = op.reserved + d /\ new.reserved = op.reserved
            /\ new.limited = (d # requested - op.reserved)
        BY DEF Settled, Operation
      <4> HIDE DEF new
      <4>2. op.reserved + d <= requested BY <3>1
      <4>3. RightPrice(new)
        BY <3>2, <3>3, <4>1, <4>2, Zenon DEF RightPrice
      <4> QED BY <4>3 DEF new
    <3> QED BY <1>2, <1>4, <2>1, <3>4 DEF d, Open
  <2>2. CASE outcome = "refund"
    <3>1. RightPrice(Refunded(op)) BY DEF Refunded, RightPrice, Operation
    <3> QED BY <1>2, <1>4, <2>2, <3>1 DEF Open
  <2> QED BY <2>1, <2>2 DEF Outcomes
<1>5. CASE Open(op) /\ ops' = [ops EXCEPT ![o] = Abandoned(op, requested)]
  <2>1. RightPrice(Abandoned(op, requested))
    BY DEF Abandoned, RightPrice, Operation
  <2> QED BY <1>2, <1>5, <2>1 DEF Open
<1> QED BY <1>3, <1>4, <1>5 DEF Transition

\* A step that leaves operation r reserved and the others alone.
LEMMA ReservedOutcome ==
    ASSUME PriceInv, NEW r \in OpIds, ops[r].status \in {"none", "reserved"},
           ops'[r].status = "reserved", \A p \in OpIds \ {r} : ops'[p] = ops[p]
    PROVE  Final /\ ClosedAtTheRightPrice'
BY DEF PriceInv, Final, ClosedAtTheRightPrice, RightPrice, Closed

\* Every step leaves closed operations as they are and the others at a right
\* price.
LEMMA PriceStep == PriceInv /\ [Next]_vars => Final /\ PriceInv'
<1> SUFFICES ASSUME PriceInv, [Next]_vars PROVE Final /\ ClosedAtTheRightPrice'
  BY TypeStep DEF PriceInv
<1>0. 0 \in Quota /\ Requests \subseteq OpIds /\ ops \in [OpIds -> Operation]
  BY QuotaAssumption DEF Quota, OpIds, PriceInv, TypeInv, TypeOK
<1>1. ASSUME UNCHANGED ops PROVE Final /\ ClosedAtTheRightPrice'
  BY <1>1 DEF PriceInv, Final, ClosedAtTheRightPrice
<1>2. ASSUME NEW r \in Requests, NEW u \in Users, NEW t \in Tokens \cup {Unset},
             NEW q \in Quota,
             ReserveFromWallet(r, u, t, q) \/ ReserveFromSubscription(r, u, t, q)
      PROVE  Final /\ ClosedAtTheRightPrice'
  <2>1. ops[r].status = "none"
    BY <1>2 DEF ReserveFromWallet, ReserveFromSubscription
  <2>2. PICK new : new.status = "reserved" /\ ops' = [ops EXCEPT ![r] = new]
    <3>1. CASE ReserveFromWallet(r, u, t, q)
      <4>1. NewOperation(u, t, "wallet", Unset, q).status = "reserved"
        BY NewOperationType DEF Fundings
      <4> QED BY <3>1, <4>1 DEF ReserveFromWallet
    <3>2. CASE ReserveFromSubscription(r, u, t, q)
      <4>1. \A s \in Subs : NewOperation(u, t, "subscription", s, q).status = "reserved"
        BY NewOperationType DEF Fundings
      <4>2. PICK s \in Subs :
              ops' = [ops EXCEPT ![r] = NewOperation(u, t, "subscription", s, q)]
        BY <3>2, Zenon DEF ReserveFromSubscription
      <4> QED BY <4>1, <4>2
    <3> QED BY <1>2, <3>1, <3>2
  <2> QED BY <1>0, <2>1, <2>2, ReservedOutcome
<1>3. ASSUME NEW r \in Requests, NEW q \in Quota, NEW k \in Tasks \cup {Unset},
             AdjustReservation(r, q, k)
      PROVE  Final /\ ClosedAtTheRightPrice'
  <2>1. ops[r].status = "reserved" BY <1>3 DEF AdjustReservation, Open
  <2>2. /\ ops'[r].status = "reserved"
        /\ \A p \in OpIds \ {r} : ops'[p] = ops[p]
    BY <1>0, <1>3, AdjustType DEF PriceInv
  <2> QED BY <1>0, <2>1, <2>2, ReservedOutcome
<1>4. ASSUME NEW r \in Requests, NEW q \in Quota, NEW outcome \in Outcomes,
             Transition(r, ops[r], q, outcome, FALSE)
      PROVE  Final /\ ClosedAtTheRightPrice'
  <2>1. ops[r] \in Operation /\ ops[r].status # "none" /\ Owned(ops[r])
    BY <1>0, <1>4 DEF Transition, Replays, Open, PriceInv, TypeInv, TypeOK, OpsOwned
  <2> QED BY <1>0, <1>4, <2>1, TransitionOutcome
<1>5. ASSUME NEW k \in Tasks, NEW from \in TaskRunning, NEW to \in TaskDone,
             NEW q \in Quota, ApplyTaskBillingTransition(k, from, to, q)
      PROVE  Final /\ ClosedAtTheRightPrice'
  <2> DEFINE o == OperationOf(k)
             op == AdoptedOperation(k)
  <2>1. tasks[k].status # "none"
    BY <1>5 DEF ApplyTaskBillingTransition, MayEnd, TaskDone
  <2>2. /\ o \in OpIds /\ op \in Operation /\ Owned(op) /\ op.status # "none"
        /\ op.status # "reserved" => op = ops[o]
    BY <2>1, AdoptedType DEF PriceInv
  <2>3. op = ops[o] \/ ops[o].status = "none"
    BY DEF AdoptedOperation, OperationOf, Adopts
  <2>4. OutcomeOf(to) \in Outcomes BY DEF OutcomeOf, Outcomes
  <2>5. CASE UNCHANGED ops BY <1>1, <2>5
  <2>6. CASE Transition(o, op, q, OutcomeOf(to), TRUE)
    <3> HIDE DEF o, op
    <3> QED BY <2>2, <2>3, <2>4, <2>6, TransitionOutcome
  <2> QED BY <1>5, <2>5, <2>6 DEF ApplyTaskBillingTransition
<1>6. CASE RequestNext
  <2>1. PICK r \in Requests :
        \/ \E u \in Users, t \in Tokens \cup {Unset}, q \in Quota :
            \/ ReserveFromWallet(r, u, t, q)
            \/ ReserveFromSubscription(r, u, t, q)
        \/ \E q \in Quota : AdjustBillingOperationReservation(r, q)
        \/ \E q \in Quota : SettleBillingOperation(r, q)
        \/ RefundBillingOperation(r)
    BY <1>6 DEF RequestNext
  <2>2. ops[r].task \in Tasks \cup {Unset} BY <1>0 DEF Operation
  <2> QED BY <1>0, <1>2, <1>3, <1>4, <2>1, <2>2
          DEF AdjustBillingOperationReservation, SettleBillingOperation,
              RefundBillingOperation, Outcomes
<1>7. CASE TaskNext
  BY <1>3, <1>5, <1>7 DEF TaskNext, CreateTaskWithBillingOperation
<1>8. CASE UserNext \/ TokenNext \/ SubscriptionNext
  <2>1. ASSUME UserNext PROVE UNCHANGED ops
    BY <2>1 DEF UserNext, ChangeUserQuota, DeleteUser
  <2>2. ASSUME TokenNext PROVE UNCHANGED ops
    <3>1. ASSUME NEW t, NEW row, WriteToken(t, row) PROVE UNCHANGED ops
      BY <3>1 DEF WriteToken
    <3>2. ASSUME NEW t, NEW status, UpdateTokenStatus(t, status)
          PROVE  UNCHANGED ops
      BY <3>1, <3>2 DEF UpdateTokenStatus
    <3>3. ASSUME NEW t, NEW seenStatus, NEW remain, NEW unlimited, NEW expired,
                 UpdateToken(t, seenStatus, remain, unlimited, expired)
          PROVE  UNCHANGED ops
      BY <3>1, <3>3 DEF UpdateToken
    <3> QED BY <2>2, <3>2, <3>3 DEF TokenNext, ChangeTokenQuota, TokenExpires,
              PersistTokenInvalidStatus, DeleteToken
  <2>3. ASSUME SubscriptionNext PROVE UNCHANGED ops
    BY <2>3 DEF SubscriptionNext, SubscriptionFallsDue, ResetUserSubscription,
         EndSubscription, AdminDeleteUserSubscription
  <2> QED BY <1>1, <1>8, <2>1, <2>2, <2>3
<1>9. CASE UNCHANGED vars BY <1>1, <1>9 DEF vars
<1> QED BY <1>6, <1>7, <1>8, <1>9 DEF Next

\* Before the first request no operation has been closed.
LEMMA PriceInit == Init => PriceInv
<1> SUFFICES ASSUME Init PROVE ClosedAtTheRightPrice
  BY TypeInit DEF PriceInv
<1>1. \A o \in OpIds : ops[o] = NoOperation BY DEF Init
<1> QED BY <1>1 DEF ClosedAtTheRightPrice, RightPrice, NoOperation

\* In every behaviour a closed operation charges what it should: no more than
\* was asked, less only when marked, nothing when refunded.
THEOREM PricesAreRight == Spec => []ClosedAtTheRightPrice
<1>1. PriceInv => ClosedAtTheRightPrice BY DEF PriceInv
<1>2. PriceInv /\ [Next]_vars => PriceInv' BY PriceStep
<1> QED BY PriceInit, <1>1, <1>2, PTL DEF Spec

\* In every behaviour the outcome stored with a closed operation is final.
THEOREM OutcomesAreFinal == Spec => ClosedIsFinal
<1>1. PriceInv /\ [Next]_vars => PriceInv' BY PriceStep
<1>2. PriceInv /\ [Next]_vars => [Final]_vars BY PriceStep
<1>3. Final <=> \A o \in OpIds : ops[o].status \in Closed => ops'[o] = ops[o]
  BY DEF Final
<1> QED BY PriceInit, <1>1, <1>2, <1>3, PTL DEF Spec, ClosedIsFinal, Final

-----------------------------------------------------------------------------
(***************************************************************************)
(* What a billing transaction moves: the rows move by exactly the change   *)
(* of one operation's charge, so that the transactions implement Escrow:   *)
(* each step of the system maps to one charge of one operation, or to a    *)
(* step that leaves the ledger alone.                                      *)
(***************************************************************************)


\* The wallets and the tokens move by change, on account of operation op.
RowsMove(op, change) ==
    /\ \A u \in Users :
        users'[u].quota = users[u].quota - (IF op.funding = "wallet" /\ op.user = u THEN change ELSE 0)
    /\ \A t \in Tokens :
        /\ tokens'[t].used = tokens[t].used + (IF op.token = t THEN change ELSE 0)
        /\ tokens'[t].remain =
              tokens[t].remain - (IF op.remainCharged /\ op.token = t THEN change ELSE 0)

\* The subscriptions do, with what resets have wiped.
SubsMove(op, change) ==
    \A s \in Subs :
        subs'[s].used + forgiven'[s] =
            subs[s].used + forgiven[s] + (IF op.funding = "subscription" /\ op.sub = s THEN change ELSE 0)

\* Money that moved before counts as the charge of op from now on.
Attributed(op, early) ==
    /\ \A u \in Users :
        funded'[u] = funded[u] + (IF op.funding = "wallet" /\ op.user = u THEN early ELSE 0)
    /\ \A t \in Tokens : outside'[t] = outside[t] - (IF op.token = t THEN early ELSE 0)

\* What is taken was there.
Solvent ==
    /\ \A u \in Users : users'[u].quota < users[u].quota => users'[u].quota >= 0
    /\ \A t \in Tokens : tokens'[t].remain < tokens[t].remain => tokens'[t].remain >= 0

Stuck(t) == t.status = "exhausted" /\ t.remain > 0 /\ t.row = "live" /\ ~t.expired
Revived == \A t \in Tokens : tokens'[t].remain > tokens[t].remain => ~Stuck(tokens'[t])

SameOwners(op, old) ==
    /\ op.user = old.user /\ op.token = old.token
    /\ op.funding = old.funding /\ op.sub = old.sub

\* Operation o, and no other, is written, and everything moves by the change of
\* its charge.
OperationMoves(o) ==
    LET op == ops'[o]
        change == Held(op) - HeldBefore(o)
        early == HeldBefore(o) - Held(ops[o])
    IN  /\ \A p \in OpIds \ {o} : ops'[p] = ops[p]
        /\ ops[o].status \in {"none", "reserved"}
        /\ ops[o].status = "reserved" => SameOwners(op, ops[o])
        /\ op.status # "none"
        /\ RowsMove(op, change) /\ SubsMove(op, change + early) /\ Attributed(op, early)
        /\ Solvent /\ Revived

-----------------------------------------------------------------------------
(* What the updates of rows move. *)

\* The update of a token, with its revival.
LEMMA ChargedTokenMoves ==
    ASSUME NEW t \in TokenRow, NEW b \in BOOLEAN, NEW delta \in Int
    PROVE  LET c == ChargedToken(t, b, delta) IN
           /\ c.used = t.used + delta
           /\ c.remain = IF b THEN t.remain - delta ELSE t.remain
           /\ b /\ delta < 0 => ~Stuck(c)
<1> DEFINE moved == [t EXCEPT !.used = @ + delta,
                              !.remain = IF b THEN @ - delta ELSE @]
           c == ChargedToken(t, b, delta)
<1>1. /\ moved.used = t.used + delta
      /\ moved.remain = IF b THEN t.remain - delta ELSE t.remain
  BY DEF TokenRow
<1>2. moved \in TokenRow
  <2>1. t.used + delta \in Int /\ (IF b THEN t.remain - delta ELSE t.remain) \in Int
    BY DEF TokenRow
  <2> QED BY <2>1, Zenon DEF TokenRow
<1>3. c = IF delta < 0 /\ b THEN Restored(moved) ELSE moved
  BY Zenon DEF ChargedToken
<1> HIDE DEF moved, c
<1>4. /\ Restored(moved).used = moved.used /\ Restored(moved).remain = moved.remain
      /\ ~Stuck(Restored(moved))
  <2>1. CASE moved.status = "exhausted" /\ moved.remain > 0 /\ ~moved.expired /\ moved.row = "live"
    <3>1. Restored(moved) = [moved EXCEPT !.status = "enabled"] BY <2>1 DEF Restored
    <3>2. /\ [moved EXCEPT !.status = "enabled"].used = moved.used
          /\ [moved EXCEPT !.status = "enabled"].remain = moved.remain
          /\ [moved EXCEPT !.status = "enabled"].status = "enabled"
      BY <1>2 DEF TokenRow
    <3> QED BY <3>1, <3>2 DEF Stuck
  <2>2. CASE ~(moved.status = "exhausted" /\ moved.remain > 0 /\ ~moved.expired /\ moved.row = "live")
    BY <2>2, Zenon DEF Restored, Stuck
  <2> QED BY <2>1, <2>2
<1>5. CASE delta < 0 /\ b BY <1>1, <1>3, <1>4, <1>5, Zenon DEF c
<1>6. CASE ~(delta < 0 /\ b) BY <1>1, <1>3, <1>6, Zenon DEF c
<1> QED BY <1>5, <1>6

\* A charge of delta to token t (no token if Unset).
TokensMove(t, b, delta) ==
    \A x \in Tokens :
        /\ tokens'[x].used = tokens[x].used + (IF t = x THEN delta ELSE 0)
        /\ tokens'[x].remain = tokens[x].remain - (IF b /\ t = x THEN delta ELSE 0)
        /\ tokens'[x].remain < tokens[x].remain => tokens'[x].remain >= 0

\* The token columns after the update of a transaction.
LEMMA TokenColumnMoves ==
    ASSUME TypeOK, NEW t \in Tokens \cup {Unset}, NEW b \in BOOLEAN, NEW delta \in Int,
           tokens' = IF t # Unset THEN [tokens EXCEPT ![t] = ChargedToken(@, b, delta)] ELSE tokens,
           t # Unset /\ b /\ delta > 0 => tokens[t].remain >= delta
    PROVE  TokensMove(t, b, delta) /\ Revived
<1> SUFFICES ASSUME NEW x \in Tokens
             PROVE  /\ tokens'[x].used = tokens[x].used + (IF t = x THEN delta ELSE 0)
                    /\ tokens'[x].remain = tokens[x].remain - (IF b /\ t = x THEN delta ELSE 0)
                    /\ tokens'[x].remain < tokens[x].remain => tokens'[x].remain >= 0
                    /\ tokens'[x].remain > tokens[x].remain => ~Stuck(tokens'[x])
  BY DEF Revived, TokensMove
<1>1. /\ tokens[x] \in TokenRow /\ tokens[x].used \in Int /\ tokens[x].remain \in Int
      /\ x # Unset /\ tokens \in [Tokens -> TokenRow]
  BY IdAssumption DEF TypeOK, TokenRow
<1>2. CASE t = x
  <2>1. tokens'[x] = ChargedToken(tokens[x], b, delta) BY <1>1, <1>2
  <2>2. /\ tokens'[x].used = tokens[x].used + delta
        /\ tokens'[x].remain = IF b THEN tokens[x].remain - delta ELSE tokens[x].remain
        /\ b /\ delta < 0 => ~Stuck(tokens'[x])
    BY <1>1, <2>1, ChargedTokenMoves
  <2>3. CASE b
    <3>1. tokens'[x].remain = tokens[x].remain - delta BY <2>2, <2>3
    <3>2. tokens'[x].remain < tokens[x].remain => tokens'[x].remain >= 0
      <4>1. delta > 0 => tokens[x].remain >= delta BY <1>1, <1>2, <2>3, Zenon
      <4> QED BY <1>1, <3>1, <4>1
    <3>3. tokens'[x].remain > tokens[x].remain => delta < 0 BY <1>1, <3>1
    <3>4. tokens'[x].remain > tokens[x].remain => ~Stuck(tokens'[x]) BY <2>2, <2>3, <3>3
    <3> QED BY <1>2, <2>2, <2>3, <3>1, <3>2, <3>4
  <2>4. CASE ~b
    <3>1. tokens'[x].remain = tokens[x].remain BY <2>2, <2>4
    <3> QED BY <1>1, <1>2, <2>2, <2>4, <3>1
  <2> QED BY <2>3, <2>4
<1>3. CASE t # x
  <2>1. tokens'[x] = tokens[x] BY <1>1, <1>3
  <2> QED BY <1>1, <1>3, <2>1
<1> QED BY <1>2, <1>3

\* applyBillingOperationDeltaTx moves what op draws on by delta.
LEMMA DeltaMoves ==
    ASSUME TypeOK, NEW op \in Operation, Owned(op), NEW delta \in Int, ApplyDelta(op, delta)
    PROVE  /\ RowsMove(op, delta) /\ Solvent /\ Revived
           /\ \A s \in Subs : subs'[s].used =
                subs[s].used + (IF op.funding = "subscription" /\ op.sub = s THEN delta ELSE 0)
<1>1. op.token \in Tokens \cup {Unset} /\ op.remainCharged \in BOOLEAN /\ op.funding \in Fundings
  BY DEF Operation
<1>2. tokens' = IF op.token # Unset
                THEN [tokens EXCEPT ![op.token] = ChargedToken(@, op.remainCharged, delta)] ELSE tokens
  BY DEF ApplyDelta, TokenCharged
<1>3. op.token # Unset /\ op.remainCharged /\ delta > 0 => tokens[op.token].remain >= delta
  BY DEF ApplyDelta, DeltaFits, TokenFits, TokenCharged
<1>4. TokensMove(op.token, op.remainCharged, delta) /\ Revived
  BY <1>1, <1>2, <1>3, TokenColumnMoves
<1>5. ASSUME NEW u \in Users
      PROVE  /\ users'[u].quota = users[u].quota - (IF op.funding = "wallet" /\ op.user = u THEN delta ELSE 0)
             /\ users'[u].quota < users[u].quota => users'[u].quota >= 0
  <2>1. users[u] \in UserRow /\ users[u].quota \in Int /\ users \in [Users -> UserRow]
    BY DEF TypeOK, UserRow
  <2>2. CASE op.funding = "wallet" /\ op.user = u
    <3>1. users'[u].quota = users[u].quota - delta
      BY <2>1, <2>2 DEF ApplyDelta, UserRow
    <3>2. delta > 0 => users[u].quota >= delta
      BY <2>2 DEF ApplyDelta, DeltaFits, FundingFits
    <3> QED BY <2>1, <2>2, <3>1, <3>2
  <2>3. CASE ~(op.funding = "wallet" /\ op.user = u)
    <3>1. users'[u] = users[u] BY <2>1, <2>3 DEF ApplyDelta
    <3> QED BY <2>1, <2>3, <3>1
  <2> QED BY <2>2, <2>3
<1>6. ASSUME NEW s \in Subs
      PROVE  subs'[s].used = subs[s].used + (IF op.funding = "subscription" /\ op.sub = s THEN delta ELSE 0)
  <2>1. subs[s] \in SubRow /\ subs[s].used \in Int /\ subs \in [Subs -> SubRow]
    BY DEF TypeOK, SubRow
  <2>2. CASE op.funding = "subscription" /\ op.sub = s
    <3>1. subs'[s].used = subs[s].used + delta
      BY <2>1, <2>2 DEF ApplyDelta, SubRow
    <3> QED BY <2>2, <3>1
  <2>3. CASE ~(op.funding = "subscription" /\ op.sub = s)
    <3>1. subs'[s] = subs[s] BY <2>1, <2>3 DEF ApplyDelta
    <3> QED BY <2>1, <2>3, <3>1
  <2> QED BY <2>2, <2>3
<1> QED BY <1>4, <1>5, <1>6 DEF RowsMove, Solvent, TokensMove

\* A transaction that leaves the rows alone moves nothing.
LEMMA NothingMoves ==
    ASSUME TypeOK, NEW op, UNCHANGED rows
    PROVE  /\ RowsMove(op, 0) /\ Solvent /\ Revived
           /\ \A s \in Subs : subs'[s].used =
                subs[s].used + (IF op.funding = "subscription" /\ op.sub = s THEN 0 ELSE 0)
<1>1. users' = users /\ tokens' = tokens /\ subs' = subs BY DEF rows
<1>2. /\ \A u \in Users : users[u].quota \in Int
      /\ \A t \in Tokens : tokens[t].used \in Int /\ tokens[t].remain \in Int
      /\ \A s \in Subs : subs[s].used \in Int
  BY DEF TypeOK, UserRow, TokenRow, SubRow
<1> QED BY <1>1, <1>2 DEF RowsMove, Solvent, Revived

-----------------------------------------------------------------------------
(* What the transactions move. *)

\* Operation o holds what op had reserved and d more, the rows have moved by d,
\* and early is the part of op's reservation that was charged before o existed.
MovedBy(o, op, d, early) ==
    /\ \A p \in OpIds \ {o} : ops'[p] = ops[p]
    /\ ops'[o].status # "none"
    /\ Held(ops'[o]) = op.reserved + d
    /\ SameOwners(ops'[o], op) /\ ops'[o].remainCharged = op.remainCharged
    /\ RowsMove(op, d) /\ Solvent /\ Revived
    /\ \A s \in Subs : subs'[s].used =
          subs[s].used + (IF op.funding = "subscription" /\ op.sub = s THEN d ELSE 0)
    /\ \A s \in Subs : forgiven'[s] =
          forgiven[s] + (IF op.funding = "subscription" /\ op.sub = s THEN early ELSE 0)
    /\ Attributed(op, early)

LEMMA MovedByMoves ==
    ASSUME TypeInv, NEW o \in OpIds, NEW op \in Operation, NEW d \in Int, NEW early \in Int,
           MovedBy(o, op, d, early),
           HeldBefore(o) = op.reserved, Held(ops[o]) = op.reserved - early,
           ops[o].status \in {"none", "reserved"},
           ops[o].status = "reserved" => op = ops[o]
    PROVE  OperationMoves(o)
<1> DEFINE new == ops'[o]
<1>1. op.reserved \in Int BY QuotaAssumption DEF Operation, Quota
<1>2. Held(new) - HeldBefore(o) = d /\ HeldBefore(o) - Held(ops[o]) = early
  BY <1>1 DEF MovedBy
<1>3. SameOwners(new, op) /\ new.remainCharged = op.remainCharged BY DEF MovedBy
<1> HIDE DEF new
<1>4. RowsMove(new, d) BY <1>3 DEF MovedBy, RowsMove, SameOwners
<1>5. Attributed(new, early) BY <1>3 DEF MovedBy, Attributed, SameOwners
<1>6. SubsMove(new, d + early)
  <2> SUFFICES ASSUME NEW s \in Subs
               PROVE  subs'[s].used + forgiven'[s] =
                        subs[s].used + forgiven[s]
                        + (IF new.funding = "subscription" /\ new.sub = s THEN d + early ELSE 0)
    BY DEF SubsMove
  <2>1. subs[s].used \in Int /\ forgiven[s] \in Int BY DEF TypeInv, TypeOK, SubRow
  <2>2. CASE op.funding = "subscription" /\ op.sub = s
    <3>1. subs'[s].used = subs[s].used + d /\ forgiven'[s] = forgiven[s] + early
      BY <2>2 DEF MovedBy
    <3> QED BY <1>3, <2>1, <2>2, <3>1 DEF SameOwners
  <2>3. CASE ~(op.funding = "subscription" /\ op.sub = s)
    <3>1. subs'[s].used = subs[s].used + 0 /\ forgiven'[s] = forgiven[s] + 0
      BY <2>3 DEF MovedBy
    <3> QED BY <1>3, <2>1, <2>3, <3>1 DEF SameOwners
  <2> QED BY <2>2, <2>3
<1> QED BY <1>2, <1>3, <1>4, <1>5, <1>6 DEF OperationMoves, MovedBy, new

\* A transaction that leaves the ghosts alone attributes nothing.
LEMMA NothingAttributed ==
    ASSUME TypeOK, NEW op, UNCHANGED ghost
    PROVE  /\ Attributed(op, 0)
           /\ \A s \in Subs : forgiven'[s] =
                forgiven[s] + (IF op.funding = "subscription" /\ op.sub = s THEN 0 ELSE 0)
<1>1. funded' = funded /\ outside' = outside /\ forgiven' = forgiven BY DEF ghost
<1>2. /\ \A u \in Users : funded[u] \in Int
      /\ \A t \in Tokens : outside[t] \in Int
      /\ \A s \in Subs : forgiven[s] \in Int
  BY DEF TypeOK
<1> QED BY <1>1, <1>2 DEF Attributed

LEMMA LegacyAttributed ==
    ASSUME TypeOK, NEW op \in Operation, Owned(op), AttributeLegacyCharge(op)
    PROVE  /\ Attributed(op, op.reserved)
           /\ \A s \in Subs : forgiven'[s] =
                forgiven[s] + (IF op.funding = "subscription" /\ op.sub = s THEN op.reserved ELSE 0)
<1>0. op.reserved \in Int /\ op.token \in Tokens \cup {Unset}
  BY QuotaAssumption DEF Operation, Quota
<1>1. ASSUME NEW u \in Users
      PROVE  funded'[u] = funded[u] + (IF op.funding = "wallet" /\ op.user = u THEN op.reserved ELSE 0)
  BY <1>0 DEF TypeOK, AttributeLegacyCharge
<1>2. ASSUME NEW t \in Tokens
      PROVE  outside'[t] = outside[t] - (IF op.token = t THEN op.reserved ELSE 0)
  BY <1>0, IdAssumption DEF TypeOK, AttributeLegacyCharge, TokenCharged
<1>3. ASSUME NEW s \in Subs
      PROVE  forgiven'[s] =
               forgiven[s] + (IF op.funding = "subscription" /\ op.sub = s THEN op.reserved ELSE 0)
  BY <1>0 DEF TypeOK, AttributeLegacyCharge
<1> QED BY <1>1, <1>2, <1>3 DEF Attributed

\* transitionBillingOperationTx on an open operation, stored or adopted.
LEMMA TransitionMoves ==
    ASSUME TypeInv, NEW o \in OpIds, NEW op \in Operation, Owned(op), op.status = "reserved",
           NEW requested \in Quota, NEW outcome \in Outcomes, NEW abandon,
           Transition(o, op, requested, outcome, abandon),
           NEW early \in Int, Attributed(op, early),
           \A s \in Subs : forgiven'[s] =
              forgiven[s] + (IF op.funding = "subscription" /\ op.sub = s THEN early ELSE 0)
    PROVE  \E d \in Int : MovedBy(o, op, d, early)
<1> DEFINE delta == IF outcome = "settle" THEN AppliedDelta(op, requested) ELSE -op.reserved
           final == IF outcome = "settle" THEN Settled(op, requested, delta) ELSE Refunded(op)
<1>0. TypeOK /\ ops \in [OpIds -> Operation] BY DEF TypeInv, TypeOK
<1>1. op.reserved \in Int BY QuotaAssumption DEF Operation, Quota
<1>2. delta \in Int BY <1>0, <1>1, AppliedDeltaRange
<1>3. ASSUME NEW new, ops' = [ops EXCEPT ![o] = new]
      PROVE  ops'[o] = new /\ \A p \in OpIds \ {o} : ops'[p] = ops[p]
  BY <1>0, <1>3
<1>4. CASE RowsPresent(op) /\ ApplyDelta(op, delta) /\ ops' = [ops EXCEPT ![o] = final]
  <2>1. /\ final.status \in {"settled", "refunded"} /\ final.actual = op.reserved + delta
        /\ SameOwners(final, op) /\ final.remainCharged = op.remainCharged
    <3>1. CASE outcome = "settle"
      <4> HIDE DEF delta
      <4>1. final = Settled(op, requested, delta) BY <3>1
      <4> QED BY <4>1 DEF Settled, Operation, SameOwners
    <3>2. CASE outcome = "refund"
      <4>1. final = Refunded(op) /\ op.reserved + delta = 0 BY <1>1, <3>2
      <4> QED BY <4>1 DEF Refunded, Operation, SameOwners
    <3> QED BY <3>1, <3>2 DEF Outcomes
  <2> HIDE DEF delta, final
  <2>2. ops'[o] = final /\ \A p \in OpIds \ {o} : ops'[p] = ops[p] BY <1>3, <1>4
  <2>3. Held(ops'[o]) = op.reserved + delta BY <2>1, <2>2 DEF Held
  <2> QED BY <1>0, <1>2, <1>4, <2>1, <2>2, <2>3, DeltaMoves DEF MovedBy
<1>5. CASE UNCHANGED rows /\ ops' = [ops EXCEPT ![o] = Abandoned(op, requested)]
  <2> DEFINE new == Abandoned(op, requested)
  <2>1. /\ new.status = "abandoned" /\ new.actual = op.reserved + 0
        /\ SameOwners(new, op) /\ new.remainCharged = op.remainCharged
    BY <1>1 DEF Abandoned, Operation, SameOwners
  <2> HIDE DEF new
  <2>2. ops'[o] = new /\ \A p \in OpIds \ {o} : ops'[p] = ops[p] BY <1>3, <1>5 DEF new
  <2>3. Held(ops'[o]) = op.reserved + 0 BY <2>1, <2>2 DEF Held
  <2>4. MovedBy(o, op, 0, early)
    BY <1>0, <1>5, <2>1, <2>2, <2>3, NothingMoves DEF MovedBy
  <2> QED BY <2>4
<1>6. ~Replays(op, requested, outcome) BY DEF Replays
<1> QED BY <1>4, <1>5, <1>6 DEF Transition

\* adjustBillingOperationReservationTx.
LEMMA AdjustMoves ==
    ASSUME TypeInv, NEW o \in OpIds, NEW target \in Quota, NEW k \in Tasks \cup {Unset},
           AdjustReservation(o, target, k), UNCHANGED ghost
    PROVE  OperationMoves(o)
<1> DEFINE op == ops[o]
           delta == AppliedDelta(op, target)
<1>0. TypeOK /\ ops \in [OpIds -> Operation] BY DEF TypeInv, TypeOK
<1>1. op \in Operation /\ op.status = "reserved" /\ Owned(op) /\ op.reserved \in Int
  BY QuotaAssumption DEF TypeInv, TypeOK, OpsOwned, AdjustReservation, Open, Operation, Quota
<1>2. delta \in Int BY <1>0, <1>1, AppliedDeltaRange
<1>3. ASSUME NEW new, ops' = [ops EXCEPT ![o] = new]
      PROVE  ops'[o] = new /\ \A p \in OpIds \ {o} : ops'[p] = ops[p]
  BY <1>0, <1>3
<1>4. HeldBefore(o) = op.reserved /\ Held(ops[o]) = op.reserved - 0
  BY <1>1 DEF HeldBefore, Held
<1>5. ASSUME NEW new, NEW d \in Int, ops' = [ops EXCEPT ![o] = new],
             new.status = "reserved", new.reserved = op.reserved + d,
             SameOwners(new, op), new.remainCharged = op.remainCharged,
             RowsMove(op, d), Solvent, Revived,
             \A s \in Subs : subs'[s].used =
                subs[s].used + (IF op.funding = "subscription" /\ op.sub = s THEN d ELSE 0)
      PROVE  OperationMoves(o)
  <2> HIDE DEF op
  <2>1. ops'[o] = new /\ \A p \in OpIds \ {o} : ops'[p] = ops[p] BY <1>3, <1>5
  <2>2. Held(ops'[o]) = op.reserved + d BY <1>5, <2>1 DEF Held
  <2>3. MovedBy(o, op, d, 0)
    BY <1>0, <1>5, <2>1, <2>2, NothingAttributed DEF MovedBy
  <2> QED BY <1>1, <1>4, <1>5, <2>3, MovedByMoves DEF op
<1>6. CASE ops' = [ops EXCEPT ![o].task = k] /\ UNCHANGED rows
  <2> DEFINE new == [op EXCEPT !.task = k]
  <2>1. /\ new.status = "reserved" /\ new.reserved = op.reserved + 0
        /\ SameOwners(new, op) /\ new.remainCharged = op.remainCharged
    BY <1>1 DEF Operation, SameOwners
  <2>2. ops' = [ops EXCEPT ![o] = new] BY <1>6
  <2> HIDE DEF new, op
  <2>3. /\ RowsMove(op, 0) /\ Solvent /\ Revived
        /\ \A s \in Subs : subs'[s].used =
              subs[s].used + (IF op.funding = "subscription" /\ op.sub = s THEN 0 ELSE 0)
    BY <1>0, <1>6, NothingMoves
  <2>4. 0 \in Int OBVIOUS
  <2> QED BY <1>5, <2>1, <2>2, <2>3, <2>4
<1>7. CASE /\ ops' = [ops EXCEPT ![o] = [op EXCEPT !.requested = target, !.limited = TRUE, !.task = k]]
           /\ UNCHANGED rows
  <2> DEFINE new == [op EXCEPT !.requested = target, !.limited = TRUE, !.task = k]
  <2>1. /\ new.status = "reserved" /\ new.reserved = op.reserved + 0
        /\ SameOwners(new, op) /\ new.remainCharged = op.remainCharged
    BY <1>1 DEF Operation, SameOwners
  <2>2. ops' = [ops EXCEPT ![o] = new] BY <1>7
  <2> HIDE DEF new, op
  <2>3. /\ RowsMove(op, 0) /\ Solvent /\ Revived
        /\ \A s \in Subs : subs'[s].used =
              subs[s].used + (IF op.funding = "subscription" /\ op.sub = s THEN 0 ELSE 0)
    BY <1>0, <1>7, NothingMoves
  <2>4. 0 \in Int OBVIOUS
  <2> QED BY <1>5, <2>1, <2>2, <2>3, <2>4
<1>8. CASE /\ ApplyDelta(op, delta)
           /\ ops' = [ops EXCEPT ![o] = [op EXCEPT !.reserved = @ + delta, !.requested = target,
                                                   !.limited = delta # target - op.reserved, !.task = k]]
  <2> DEFINE limited == delta # target - op.reserved
             new == [op EXCEPT !.reserved = @ + delta, !.requested = target,
                               !.limited = limited, !.task = k]
  <2>1. ops' = [ops EXCEPT ![o] = new] BY <1>8
  <2> HIDE DEF delta, limited
  <2>2. /\ new.status = "reserved" /\ new.reserved = op.reserved + delta
        /\ SameOwners(new, op) /\ new.remainCharged = op.remainCharged
    BY <1>1 DEF Operation, SameOwners
  <2> HIDE DEF new, op
  <2> QED BY <1>0, <1>1, <1>2, <1>5, <1>8, <2>1, <2>2, DeltaMoves
<1> QED BY <1>6, <1>7, <1>8, Zenon DEF AdjustReservation

\* A request id that has no operation yet holds nothing.
FreshHoldsNothing == \A o \in OpIds : ops[o].status = "none" => ops[o].actual = 0

LedgerInv == TypeInv /\ FreshHoldsNothing

\* The token side of ReserveBillingOperation.
LEMMA ReserveRowsMoves ==
    ASSUME TypeOK, NEW u \in Users, NEW t \in Tokens \cup {Unset}, NEW quota \in Quota,
           ReserveRows(u, t, quota), NEW b \in BOOLEAN, b = (t # Unset /\ ~tokens[t].unlimited)
    PROVE  TokensMove(t, b, quota) /\ Revived
<1>1. quota \in Int BY QuotaAssumption DEF Quota
<1>2. tokens' = IF t # Unset THEN [tokens EXCEPT ![t] = ChargedToken(@, b, quota)] ELSE tokens
  <2>1. CASE t = Unset BY <2>1 DEF ReserveRows
  <2>2. CASE t # Unset
    <3>1. b = ~tokens[t].unlimited BY <2>2, Zenon
    <3> QED BY <2>2, <3>1, Zenon DEF ReserveRows
  <2> QED BY <2>1, <2>2
<1>3. t # Unset /\ b /\ quota > 0 => tokens[t].remain >= quota
  <2> SUFFICES ASSUME t # Unset, b, quota > 0 PROVE tokens[t].remain >= quota OBVIOUS
  <2>1. ~tokens[t].unlimited BY Zenon
  <2> QED BY <2>1, Zenon DEF ReserveRows, TokenAccepts
<1> QED BY <1>1, <1>2, <1>3, TokenColumnMoves, Zenon

\* A new operation charges its quota.
LEMMA NewOperationMoves ==
    ASSUME LedgerInv, NEW r \in Requests, ops[r].status = "none",
           NEW u \in Users, NEW t \in Tokens \cup {Unset}, NEW f \in Fundings,
           NEW s \in Subs \cup {Unset}, NEW quota \in Quota,
           ReserveRows(u, t, quota),
           ops' = [ops EXCEPT ![r] = NewOperation(u, t, f, s, quota)],
           \A x \in Users :
              /\ users'[x].quota = users[x].quota - (IF f = "wallet" /\ u = x THEN quota ELSE 0)
              /\ users'[x].quota < users[x].quota => users'[x].quota >= 0,
           \A x \in Subs :
              subs'[x].used + forgiven'[x] =
                subs[x].used + forgiven[x] + (IF f = "subscription" /\ s = x THEN quota ELSE 0),
           UNCHANGED <<funded, outside>>
    PROVE  OperationMoves(r)
<1> DEFINE new == NewOperation(u, t, f, s, quota)
           b == t # Unset /\ ~tokens[t].unlimited
<1>0. TypeOK /\ ops \in [OpIds -> Operation] /\ r \in OpIds /\ r \notin Tasks /\ quota \in Int
  BY IdAssumption, QuotaAssumption DEF LedgerInv, TypeInv, TypeOK, OpIds, Quota
<1>1. /\ new.status = "reserved" /\ new.user = u /\ new.token = t /\ new.remainCharged = b
      /\ new.funding = f /\ new.sub = s /\ new.reserved = quota
  BY DEF NewOperation, NoOperation
<1>2. b \in BOOLEAN OBVIOUS
<1> HIDE DEF new
<1>3. ops'[r] = new /\ \A p \in OpIds \ {r} : ops'[p] = ops[p]
  BY <1>0 DEF new
<1>4. HeldBefore(r) = 0 /\ Held(ops[r]) = 0
  BY <1>0 DEF HeldBefore, Held, LedgerInv, FreshHoldsNothing
<1>5. Held(ops'[r]) = quota BY <1>1, <1>3 DEF Held
<1>6. TokensMove(t, b, quota) /\ Revived
  <2>1. b = (t # Unset /\ ~tokens[t].unlimited) OBVIOUS
  <2> HIDE DEF b
  <2> QED BY <1>0, <1>2, <2>1, ReserveRowsMoves, Zenon
<1> HIDE DEF b
<1>7. RowsMove(ops'[r], quota) BY <1>1, <1>3, <1>6 DEF RowsMove, TokensMove
<1>8. SubsMove(ops'[r], quota) BY <1>1, <1>3 DEF SubsMove
<1>9. Attributed(ops'[r], 0)
  <2>1. /\ \A x \in Users : funded[x] \in Int
        /\ \A x \in Tokens : outside[x] \in Int
    BY <1>0 DEF TypeOK
  <2> QED BY <2>1 DEF Attributed
<1>10. Solvent BY <1>6 DEF Solvent, TokensMove
<1>11. Held(ops'[r]) - HeldBefore(r) = quota /\ HeldBefore(r) - Held(ops[r]) = 0 /\ quota + 0 = quota
  BY <1>0, <1>4, <1>5
<1>12. ops'[r].status # "none" /\ ops[r].status # "reserved" BY <1>1, <1>3
<1> QED BY <1>3, <1>6, <1>7, <1>8, <1>9, <1>10, <1>11, <1>12 DEF OperationMoves

LEMMA ReserveWalletMoves ==
    ASSUME LedgerInv, NEW r \in Requests, NEW u \in Users, NEW t \in Tokens \cup {Unset},
           NEW quota \in Quota, ReserveFromWallet(r, u, t, quota)
    PROVE  OperationMoves(r)
<1>0. TypeOK /\ quota \in Int BY QuotaAssumption DEF LedgerInv, TypeInv, Quota
<1>1. ASSUME NEW x \in Users
      PROVE  /\ users'[x].quota = users[x].quota - (IF "wallet" = "wallet" /\ u = x THEN quota ELSE 0)
             /\ users'[x].quota < users[x].quota => users'[x].quota >= 0
  <2>1. users[x].quota \in Int /\ users[x] \in UserRow /\ users \in [Users -> UserRow]
    BY <1>0 DEF TypeOK, UserRow
  <2>2. users' = [users EXCEPT ![u].quota = @ - quota] BY DEF ReserveFromWallet
  <2>3. CASE u = x
    <3>1. users'[x].quota = users[x].quota - quota BY <2>1, <2>2, <2>3 DEF UserRow
    <3>2. quota = 0 \/ users[x].quota >= quota BY <2>3 DEF ReserveFromWallet, WalletCovers
    <3> QED BY <1>0, <2>1, <2>3, <3>1, <3>2
  <2>4. CASE u # x BY <2>1, <2>2, <2>4
  <2> QED BY <2>3, <2>4
<1>2. ASSUME NEW x \in Subs
      PROVE  subs'[x].used + forgiven'[x] =
               subs[x].used + forgiven[x] + (IF "wallet" = "subscription" /\ Unset = x THEN quota ELSE 0)
  BY <1>0 DEF ReserveFromWallet, ghost, TypeOK, SubRow
<1>3. /\ ops[r].status = "none" /\ ReserveRows(u, t, quota) /\ UNCHANGED <<funded, outside>>
      /\ ops' = [ops EXCEPT ![r] = NewOperation(u, t, "wallet", Unset, quota)]
  BY DEF ReserveFromWallet, ghost
<1>4. "wallet" \in Fundings BY DEF Fundings
<1> QED BY <1>1, <1>2, <1>3, <1>4, NewOperationMoves, ZenonT(60)

LEMMA ReserveSubscriptionMoves ==
    ASSUME LedgerInv, NEW r \in Requests, NEW u \in Users, NEW t \in Tokens \cup {Unset},
           NEW quota \in Quota, ReserveFromSubscription(r, u, t, quota)
    PROVE  OperationMoves(r)
<1>0. TypeOK /\ quota \in Int BY QuotaAssumption DEF LedgerInv, TypeInv, Quota
<1>1. PICK s \in Subs : LET reset == ResetOnTheWay(u, s) IN
        /\ subs' = [x \in Subs |->
                       [subs[x] EXCEPT
                           !.used = (IF x \in reset THEN 0 ELSE @)
                                    + (IF x = s THEN quota ELSE 0),
                           !.due = @ /\ x \notin reset]]
        /\ forgiven' = [x \in Subs |->
                           forgiven[x] + IF x \in reset THEN subs[x].used ELSE 0]
        /\ ops' = [ops EXCEPT ![r] = NewOperation(u, t, "subscription", s, quota)]
  BY Zenon DEF ReserveFromSubscription
<1> DEFINE reset == ResetOnTheWay(u, s)
<1>2. ASSUME NEW x \in Subs
      PROVE  subs'[x].used + forgiven'[x] =
               subs[x].used + forgiven[x] + (IF "subscription" = "subscription" /\ s = x THEN quota ELSE 0)
  <2> DEFINE used == (IF x \in reset THEN 0 ELSE subs[x].used) + (IF x = s THEN quota ELSE 0)
  <2>1. subs[x] \in SubRow /\ subs[x].used \in Int /\ forgiven[x] \in Int
    BY <1>0 DEF TypeOK, SubRow
  <2>2. /\ subs'[x] = [subs[x] EXCEPT !.used = used, !.due = @ /\ x \notin reset]
        /\ forgiven'[x] = forgiven[x] + IF x \in reset THEN subs[x].used ELSE 0
    BY <1>1
  <2>3. subs'[x].used = used
    <3> HIDE DEF used, reset
    <3> QED BY <2>1, <2>2 DEF SubRow
  <2> HIDE DEF reset
  <2> QED BY <1>0, <2>1, <2>2, <2>3
<1>3. /\ ops[r].status = "none" /\ ReserveRows(u, t, quota) /\ UNCHANGED <<users, funded, outside>>
  BY DEF ReserveFromSubscription
<1>4. ASSUME NEW x \in Users
      PROVE  /\ users'[x].quota = users[x].quota - (IF "subscription" = "wallet" /\ u = x THEN quota ELSE 0)
             /\ users'[x].quota < users[x].quota => users'[x].quota >= 0
  BY <1>0, <1>3 DEF TypeOK, UserRow
<1>5. ops' = [ops EXCEPT ![r] = NewOperation(u, t, "subscription", s, quota)] BY <1>1
<1>6. "subscription" \in Fundings /\ s \in Subs \cup {Unset} BY DEF Fundings
<1> QED BY <1>2, <1>3, <1>4, <1>5, <1>6, NewOperationMoves, ZenonT(60)

\* Settling or refunding through a request handler.
LEMMA RequestTransitionMoves ==
    ASSUME LedgerInv, NEW r \in Requests, NEW q \in Quota, NEW outcome \in Outcomes,
           Transition(r, ops[r], q, outcome, FALSE), UNCHANGED ghost
    PROVE  UNCHANGED <<ops, rows>> \/ OperationMoves(r)
<1>0. TypeInv /\ TypeOK /\ r \in OpIds /\ ops[r] \in Operation /\ 0 \in Int
  BY DEF LedgerInv, TypeInv, TypeOK, OpIds
<1>1. CASE ops[r].status # "reserved" BY <1>1 DEF Transition, Open
<1>2. CASE ops[r].status = "reserved"
  <2>1. Owned(ops[r]) BY <1>0, <1>2 DEF TypeInv, OpsOwned
  <2>2. PICK d \in Int : MovedBy(r, ops[r], d, 0)
    BY <1>0, <1>2, <2>1, NothingAttributed, TransitionMoves
  <2>3. ops[r].reserved \in Int BY <1>0, QuotaAssumption DEF Operation, Quota
  <2>4. HeldBefore(r) = ops[r].reserved /\ Held(ops[r]) = ops[r].reserved - 0
    BY <1>2, <2>3 DEF HeldBefore, Held
  <2> QED BY <1>0, <1>2, <2>2, <2>4, MovedByMoves
<1> QED BY <1>1, <1>2

\* The end of a task: a legacy task is adopted with what it was charged.
LEMMA TaskTransitionMoves ==
    ASSUME LedgerInv, NEW k \in Tasks, NEW from \in TaskRunning, NEW to \in TaskDone,
           NEW q \in Quota, ApplyTaskBillingTransition(k, from, to, q)
    PROVE  UNCHANGED <<ops, rows, ghost>> \/ \E o \in OpIds : OperationMoves(o)
<1> DEFINE o == OperationOf(k)
           op == AdoptedOperation(k)
<1>0. TypeInv /\ TypeOK /\ 0 \in Int /\ k \in OpIds BY DEF LedgerInv, TypeInv, OpIds
<1>1. tasks[k] \in TaskRow /\ tasks[k].status # "none"
  BY <1>0 DEF ApplyTaskBillingTransition, MayEnd, TaskDone, TypeOK
<1>2. /\ o \in OpIds /\ op \in Operation /\ Owned(op) /\ op.status # "none"
      /\ op.status # "reserved" => op = ops[o]
  BY <1>0, <1>1, AdoptedType
<1>3. OutcomeOf(to) \in Outcomes BY DEF OutcomeOf, Outcomes
<1>4. op.reserved \in Int BY <1>2, QuotaAssumption DEF Operation, Quota
<1>5. CASE UNCHANGED <<users, tokens, subs, ops, ghost>> BY <1>5 DEF rows
<1>6. CASE /\ Transition(o, op, q, OutcomeOf(to), TRUE)
           /\ IF Adopts(k) THEN AttributeLegacyCharge(op) ELSE UNCHANGED ghost
  <2>1. CASE Adopts(k)
    <3>1. /\ o = k /\ ops[k].status = "none" /\ op.status = "reserved"
          /\ op.reserved = tasks[k].quota
      BY <2>1 DEF Adopts, OperationOf, AdoptedOperation, NoOperation
    <3>2. HeldBefore(o) = op.reserved /\ Held(ops[o]) = op.reserved - op.reserved
      BY <1>0, <1>4, <3>1 DEF HeldBefore, Held, LedgerInv, FreshHoldsNothing
    <3> HIDE DEF o, op
    <3>3. PICK d \in Int : MovedBy(o, op, d, op.reserved)
      BY <1>0, <1>2, <1>3, <1>4, <1>6, <2>1, <3>1, LegacyAttributed, TransitionMoves
    <3> QED BY <1>0, <1>2, <1>4, <3>1, <3>2, <3>3, MovedByMoves
  <2>2. CASE ~Adopts(k) /\ op.status = "reserved"
    <3>1. op = ops[o] BY <2>2 DEF AdoptedOperation
    <3>2. HeldBefore(o) = op.reserved /\ Held(ops[o]) = op.reserved - 0
      BY <1>4, <2>2, <3>1 DEF HeldBefore, Held
    <3> HIDE DEF o, op
    <3>3. PICK d \in Int : MovedBy(o, op, d, 0)
      BY <1>0, <1>2, <1>3, <1>6, <2>2, NothingAttributed, TransitionMoves
    <3> QED BY <1>0, <1>2, <2>2, <3>1, <3>2, <3>3, MovedByMoves
  <2>3. CASE ~Adopts(k) /\ op.status # "reserved"
    <3> HIDE DEF o, op
    <3> QED BY <1>6, <2>3 DEF Transition, Open
  <2>4. Adopts(k) => op.status = "reserved" BY DEF AdoptedOperation, NoOperation
  <2> QED BY <2>1, <2>2, <2>3, <2>4
<1> QED BY <1>5, <1>6 DEF ApplyTaskBillingTransition

-----------------------------------------------------------------------------
(* Every step is the move of one operation, or moves no account. *)

\* No account of the ledger changes: what moved is in the ghosts.
AccountsKept ==
    /\ \A u \in Users : users'[u].quota - funded'[u] = users[u].quota - funded[u]
    /\ \A t \in Tokens : outside'[t] - tokens'[t].used = outside[t] - tokens[t].used
    /\ \A s \in Subs : subs'[s].used + forgiven'[s] = subs[s].used + forgiven[s]

LEMMA UserStepKeeps ==
    ASSUME TypeOK, UserNext
    PROVE  UNCHANGED ops /\ AccountsKept
<1>1. ASSUME NEW u \in Users, NEW amount \in Amounts, ChangeUserQuota(u, amount)
      PROVE  UNCHANGED ops /\ AccountsKept
  <2>1. UNCHANGED <<tokens, subs, ops, outside, forgiven>> /\ amount \in Int
    BY <1>1, QuotaAssumption DEF ChangeUserQuota
  <2>2. \A x \in Users : users'[x].quota - funded'[x] = users[x].quota - funded[x]
    BY <1>1, <2>1 DEF ChangeUserQuota, TypeOK, UserRow
  <2> QED BY <2>1, <2>2 DEF AccountsKept
<1>2. ASSUME NEW u \in Users, NEW row \in {"soft", "gone"}, DeleteUser(u, row)
      PROVE  UNCHANGED ops /\ AccountsKept
  <2>1. UNCHANGED <<subs, ops, funded, outside, forgiven>> BY <1>2 DEF DeleteUser, ghost
  <2>2. \A x \in Users : users'[x].quota = users[x].quota
    BY <1>2 DEF DeleteUser, TypeOK, UserRow
  <2>3. \A t \in Tokens : tokens'[t].used = tokens[t].used
    BY <1>2 DEF DeleteUser, PurgedTokens, TypeOK, TokenRow
  <2> QED BY <2>1, <2>2, <2>3 DEF AccountsKept
<1> QED BY <1>1, <1>2 DEF UserNext

LEMMA TokenStepKeeps ==
    ASSUME TypeOK, TokenNext
    PROVE  UNCHANGED ops /\ AccountsKept
<1>1. ASSUME NEW t \in Tokens, NEW row, tokens' = [tokens EXCEPT ![t] = row],
             row.used = tokens[t].used, UNCHANGED <<users, subs, ops, tasks, ghost>>
      PROVE  UNCHANGED ops /\ AccountsKept
  <2>1. \A x \in Tokens : tokens'[x].used = tokens[x].used BY <1>1 DEF TypeOK
  <2> QED BY <1>1, <2>1 DEF AccountsKept, ghost
<1>2. ASSUME NEW t \in Tokens, NEW amount \in Amounts, ChangeTokenQuota(t, amount)
      PROVE  UNCHANGED ops /\ AccountsKept
  <2>1. UNCHANGED <<users, subs, ops, funded, forgiven>> /\ amount \in Int /\ TRUE \in BOOLEAN
    BY <1>2, QuotaAssumption DEF ChangeTokenQuota
  <2>2. tokens[t] \in TokenRow BY DEF TypeOK
  <2>3. ChargedToken(tokens[t], TRUE, amount).used = tokens[t].used + amount
    BY <2>1, <2>2, ChargedTokenMoves
  <2>4. \A x \in Tokens : outside'[x] - tokens'[x].used = outside[x] - tokens[x].used
    <3> SUFFICES ASSUME NEW x \in Tokens
                 PROVE  outside'[x] - tokens'[x].used = outside[x] - tokens[x].used
      OBVIOUS
    <3>1. outside[x] \in Int /\ tokens[x].used \in Int BY DEF TypeOK, TokenRow
    <3>2. CASE x = t
      <4>1. /\ tokens'[x] = ChargedToken(tokens[t], TRUE, amount)
            /\ outside'[x] = outside[x] + amount
        BY <1>2, <3>2 DEF ChangeTokenQuota, TypeOK
      <4>2. tokens'[x].used = tokens[x].used + amount BY <2>3, <3>2, <4>1
      <4>3. outside'[x] = outside[x] + amount BY <4>1
      <4> QED BY ONLY <2>1, <3>1, <4>2, <4>3
    <3>3. CASE x # t
      <4>1. tokens'[x] = tokens[x] /\ outside'[x] = outside[x]
        BY <1>2, <3>3 DEF ChangeTokenQuota, TypeOK
      <4> QED BY <4>1
    <3> QED BY <3>2, <3>3
  <2> QED BY <2>1, <2>4 DEF AccountsKept
<1>3. ASSUME NEW t \in Tokens, NEW row, WriteToken(t, row)
      PROVE  UNCHANGED ops /\ AccountsKept
  <2> DEFINE new == [tokens[t] EXCEPT !.status = row.status, !.remain = row.remain,
                                      !.unlimited = row.unlimited, !.expired = row.expired]
  <2>1. new.used = tokens[t].used BY DEF TypeOK, TokenRow
  <2>2. tokens' = [tokens EXCEPT ![t] = new] /\ UNCHANGED <<users, subs, ops, tasks, ghost>>
    BY <1>3 DEF WriteToken
  <2> HIDE DEF new
  <2> QED BY <1>1, <2>1, <2>2
<1>4. ASSUME NEW t \in Tokens, NEW status, UpdateTokenStatus(t, status)
      PROVE  UNCHANGED ops /\ AccountsKept
  BY <1>3, <1>4 DEF UpdateTokenStatus
<1>5. ASSUME NEW t \in Tokens, NEW seenStatus, NEW remain, NEW unlimited, NEW expired,
             UpdateToken(t, seenStatus, remain, unlimited, expired)
      PROVE  UNCHANGED ops /\ AccountsKept
  BY <1>3, <1>5 DEF UpdateToken
<1>6. ASSUME NEW t \in Tokens,
             TokenExpires(t) \/ PersistTokenInvalidStatus(t) \/ DeleteToken(t)
      PROVE  UNCHANGED ops /\ AccountsKept
  <2>1. UNCHANGED <<users, subs, ops, tasks, ghost>>
    BY <1>6 DEF TokenExpires, PersistTokenInvalidStatus, DeleteToken
  <2>2. /\ \A v : [tokens[t] EXCEPT !.expired = v].used = tokens[t].used
        /\ \A v : [tokens[t] EXCEPT !.status = v].used = tokens[t].used
        /\ \A v : [tokens[t] EXCEPT !.row = v].used = tokens[t].used
    BY DEF TypeOK, TokenRow
  <2>3. CASE TokenExpires(t)
    <3>1. tokens' = [tokens EXCEPT ![t] = [tokens[t] EXCEPT !.expired = TRUE]]
      BY <2>3 DEF TokenExpires
    <3> QED BY <1>1, <2>1, <2>2, <3>1
  <2>4. CASE PersistTokenInvalidStatus(t)
    <3>1. PICK v \in {"expired", "exhausted"} :
            tokens' = [tokens EXCEPT ![t] = [tokens[t] EXCEPT !.status = v]]
      BY <2>4 DEF PersistTokenInvalidStatus
    <3> QED BY <1>1, <2>1, <2>2, <3>1
  <2>5. CASE DeleteToken(t)
    <3>1. tokens' = [tokens EXCEPT ![t] = [tokens[t] EXCEPT !.row = "soft"]]
      BY <2>5 DEF DeleteToken
    <3> QED BY <1>1, <2>1, <2>2, <3>1
  <2> QED BY <1>6, <2>3, <2>4, <2>5
<1> QED BY <1>2, <1>4, <1>5, <1>6 DEF TokenNext

LEMMA SubscriptionStepKeeps ==
    ASSUME TypeOK, SubscriptionNext
    PROVE  UNCHANGED ops /\ AccountsKept
<1>1. PICK s \in Subs :
        \/ SubscriptionFallsDue(s)
        \/ \E advance \in BOOLEAN : ResetUserSubscription(s, advance)
        \/ EndSubscription(s)
        \/ AdminDeleteUserSubscription(s)
  BY DEF SubscriptionNext
<1>2. UNCHANGED <<users, tokens, ops, funded, outside>>
  BY <1>1 DEF SubscriptionFallsDue, ResetUserSubscription, EndSubscription,
              AdminDeleteUserSubscription, ghost
<1>3. ASSUME NEW x \in Subs
      PROVE  subs'[x].used + forgiven'[x] = subs[x].used + forgiven[x]
  <2>1. subs[x] \in SubRow /\ subs \in [Subs -> SubRow] /\ subs[x].used \in Int
        /\ forgiven \in [Subs -> Int] /\ forgiven[x] \in Int
    BY DEF TypeOK, SubRow
  <2>2. ASSUME NEW advance \in BOOLEAN, ResetUserSubscription(s, advance)
        PROVE  subs'[x].used + forgiven'[x] = subs[x].used + forgiven[x]
    <3>1. CASE x = s
      <4>1. subs'[x].used = 0 /\ forgiven'[x] = forgiven[x] + subs[x].used
        BY <2>1, <2>2, <3>1 DEF ResetUserSubscription, SubRow
      <4> QED BY <2>1, <4>1
    <3>2. CASE x # s
      <4>1. subs'[x] = subs[x] /\ forgiven'[x] = forgiven[x]
        BY <2>1, <2>2, <3>2 DEF ResetUserSubscription
      <4> QED BY <4>1
    <3> QED BY <3>1, <3>2
  <2>3. ASSUME SubscriptionFallsDue(s) \/ EndSubscription(s) \/ AdminDeleteUserSubscription(s)
        PROVE  subs'[x].used + forgiven'[x] = subs[x].used + forgiven[x]
    <3>1. subs'[x].used = subs[x].used /\ forgiven' = forgiven
      BY <2>1, <2>3 DEF SubscriptionFallsDue, EndSubscription, AdminDeleteUserSubscription, ghost, SubRow
    <3> QED BY <3>1
  <2> QED BY <1>1, <2>2, <2>3
<1> QED BY <1>2, <1>3 DEF AccountsKept

LEMMA StepMoves ==
    ASSUME LedgerInv, [Next]_vars
    PROVE  \/ UNCHANGED ops /\ AccountsKept
           \/ \E o \in OpIds : OperationMoves(o)
<1>0. TypeOK /\ TypeInv /\ 0 \in Quota /\ Requests \subseteq OpIds /\ ops \in [OpIds -> Operation]
  BY QuotaAssumption DEF LedgerInv, TypeInv, TypeOK, Quota, OpIds
<1>1. ASSUME UNCHANGED <<ops, rows, ghost>> PROVE UNCHANGED ops /\ AccountsKept
  BY <1>1 DEF rows, ghost, AccountsKept
<1>2. ASSUME NEW r \in Requests, NEW q \in Quota, NEW outcome \in Outcomes,
             Transition(r, ops[r], q, outcome, FALSE), UNCHANGED ghost
      PROVE  (UNCHANGED ops /\ AccountsKept) \/ OperationMoves(r)
  BY <1>1, <1>2, RequestTransitionMoves
<1>3. CASE RequestNext
  <2>1. PICK r \in Requests :
        \/ \E u \in Users, t \in Tokens \cup {Unset}, q \in Quota :
            \/ ReserveFromWallet(r, u, t, q)
            \/ ReserveFromSubscription(r, u, t, q)
        \/ \E q \in Quota : AdjustBillingOperationReservation(r, q)
        \/ \E q \in Quota : SettleBillingOperation(r, q)
        \/ RefundBillingOperation(r)
    BY <1>3 DEF RequestNext
  <2>2. r \in OpIds /\ ops[r].task \in Tasks \cup {Unset} BY <1>0 DEF Operation
  <2>3. ASSUME NEW q \in Quota, AdjustBillingOperationReservation(r, q) PROVE OperationMoves(r)
    BY <1>0, <2>2, <2>3, AdjustMoves DEF AdjustBillingOperationReservation
  <2>4. ASSUME NEW q \in Quota, SettleBillingOperation(r, q) \/ RefundBillingOperation(r)
        PROVE  (UNCHANGED ops /\ AccountsKept) \/ OperationMoves(r)
    BY <1>0, <1>2, <2>4 DEF SettleBillingOperation, RefundBillingOperation, Outcomes
  <2> QED BY <1>0, <2>1, <2>2, <2>3, <2>4, ReserveWalletMoves, ReserveSubscriptionMoves
<1>4. CASE TaskNext
  <2>1. ASSUME NEW k \in Tasks, NEW r \in Requests, NEW q \in Quota, CreateTaskWithBillingOperation(k, r, q)
        PROVE  OperationMoves(r)
    BY <1>0, <2>1, AdjustMoves DEF CreateTaskWithBillingOperation
  <2> QED BY <1>0, <1>1, <1>4, <2>1, TaskTransitionMoves DEF TaskNext
<1>5. CASE UserNext \/ TokenNext \/ SubscriptionNext
  BY <1>0, <1>5, UserStepKeeps, TokenStepKeeps, SubscriptionStepKeeps
<1>6. CASE UNCHANGED vars BY <1>1, <1>6 DEF vars, rows, ghost
<1> QED BY <1>3, <1>4, <1>5, <1>6 DEF Next

LEMMA LedgerInvariant == Spec => []LedgerInv
<1>1. Init => FreshHoldsNothing
  BY DEF Init, FreshHoldsNothing, NoOperation
<1>2. LedgerInv /\ [Next]_vars => LedgerInv'
  <2> SUFFICES ASSUME LedgerInv, [Next]_vars PROVE FreshHoldsNothing'
    BY TypeStep DEF LedgerInv
  <2>1. CASE UNCHANGED ops BY <2>1 DEF LedgerInv, FreshHoldsNothing
  <2>2. ASSUME NEW o \in OpIds, OperationMoves(o) PROVE FreshHoldsNothing'
    BY <2>2 DEF LedgerInv, FreshHoldsNothing, OperationMoves
  <2> QED BY <2>1, <2>2, StepMoves
<1> QED BY TypeInit, <1>1, <1>2, PTL DEF Spec, LedgerInv

-----------------------------------------------------------------------------
(* The action properties. *)

\* For any instance: a transaction that writes an operation moves wallet, token
\* and subscription by exactly the change of that operation's charge.
THEOREM ChargesMoveExactly == Spec => ChargeMovesExactly
<1> DEFINE ExactlyAt(o) ==
        LET op == ops'[o]
            change == Held(op) - HeldBefore(o)
            forWallet(u) == IF op.funding = "wallet" /\ op.user = u THEN change ELSE 0
            forToken(t) == IF op.token = t THEN change ELSE 0
            forRemain(t) == IF op.remainCharged THEN forToken(t) ELSE 0
            forSub(s) == IF op.funding = "subscription" /\ op.sub = s
                         THEN Held(op) - Held(ops[o]) ELSE 0
        IN  op # ops[o] =>
            /\ \A p \in OpIds \ {o} : ops'[p] = ops[p]
            /\ \A u \in Users : users'[u].quota = users[u].quota - forWallet(u)
            /\ \A t \in Tokens :
                /\ tokens'[t].used = tokens[t].used + forToken(t)
                /\ tokens'[t].remain = tokens[t].remain - forRemain(t)
            /\ \A s \in Subs :
                subs'[s].used + forgiven'[s] = subs[s].used + forgiven[s] + forSub(s)
           Exactly == \A o \in OpIds : ExactlyAt(o)
<1>1. LedgerInv /\ LedgerInv' /\ [Next]_vars => Exactly
  <2> SUFFICES ASSUME LedgerInv, LedgerInv', [Next]_vars PROVE Exactly OBVIOUS
  <2>1. CASE UNCHANGED ops BY <2>1
  <2>2. ASSUME NEW o \in OpIds, OperationMoves(o) PROVE Exactly
    <3> DEFINE op == ops'[o]
               change == Held(op) - HeldBefore(o)
               early == HeldBefore(o) - Held(ops[o])
    <3>1. \A p \in OpIds \ {o} : ops'[p] = ops[p] BY <2>2 DEF OperationMoves
    <3>2. RowsMove(op, change) /\ SubsMove(op, change + early) BY <2>2, Zenon DEF OperationMoves
    <3>3. change + early = Held(op) - Held(ops[o])
      <4>1. ops[o] \in Operation /\ op \in Operation /\ (o \in Tasks => tasks[o] \in TaskRow)
        BY DEF LedgerInv, TypeInv, TypeOK
      <4>2. Held(op) \in Int /\ Held(ops[o]) \in Int /\ HeldBefore(o) \in Int
        BY <4>1, QuotaAssumption DEF Held, HeldBefore, Operation, TaskRow, Quota
      <4> QED BY <4>2
    <3>4. \A u \in Users : users'[u].quota =
            users[u].quota - (IF op.funding = "wallet" /\ op.user = u THEN change ELSE 0)
      BY <3>2, Zenon DEF RowsMove
    <3>5. \A t \in Tokens :
            /\ tokens'[t].used = tokens[t].used + (IF op.token = t THEN change ELSE 0)
            /\ tokens'[t].remain = tokens[t].remain
                 - (IF op.remainCharged THEN IF op.token = t THEN change ELSE 0 ELSE 0)
      <4> HIDE DEF change, op
      <4> QED BY <3>2, Zenon DEF RowsMove
    <3>6. \A s \in Subs : subs'[s].used + forgiven'[s] = subs[s].used + forgiven[s]
            + (IF op.funding = "subscription" /\ op.sub = s THEN Held(op) - Held(ops[o]) ELSE 0)
      <4> HIDE DEF change, op, early
      <4> QED BY <3>2, <3>3, Zenon DEF SubsMove
    <3>7. ExactlyAt(o) BY <3>1, <3>4, <3>5, <3>6, Zenon
    <3>8. \A x \in OpIds : x # o => ExactlyAt(x) BY <3>1
    <3> HIDE DEF ExactlyAt
    <3> QED BY <3>7, <3>8
  <2> QED BY <2>1, <2>2, StepMoves
<1> QED BY <1>1, LedgerInvariant, PTL DEF Spec, ChargeMovesExactly

\* For any instance: a billing transaction takes from a wallet or a limited
\* token only what is there.
THEOREM NothingIsOverdrawn == Spec => NoOverdraft
<1>1. LedgerInv /\ [Next]_vars => (ops' # ops => Solvent)
  BY StepMoves DEF OperationMoves
<1> QED BY <1>1, LedgerInvariant, PTL DEF Spec, NoOverdraft, Solvent

\* For any instance: a billing transaction that gives quota back leaves no live,
\* unexpired token exhausted with quota to spend.
THEOREM RefundsReviveTokens == Spec => RefundRevivesToken
<1> DEFINE Revives ==
      \A t \in Tokens :
        (\E o \in OpIds : ops'[o] # ops[o]) /\ tokens'[t].remain > tokens[t].remain =>
            ~(/\ tokens'[t].status = "exhausted" /\ tokens'[t].remain > 0
              /\ tokens'[t].row = "live" /\ ~tokens'[t].expired)
<1>1. LedgerInv /\ [Next]_vars => Revives
  BY StepMoves DEF OperationMoves, Revived, Stuck
<1> QED BY <1>1, LedgerInvariant, PTL DEF Spec, RefundRevivesToken

-----------------------------------------------------------------------------
(* The accounts of the ledger and their balances. *)

\* An account is a wallet, a token or a subscription.
LEMMA AccountKinds ==
    ASSUME NEW a \in Accounts
    PROVE  \/ \E u \in Users : a = Account("wallet", u)
           \/ \E t \in Tokens : a = Account("token", t)
           \/ \E s \in Subs : a = Account("subscription", s)
BY DEF Accounts

\* The balance of each kind of account, before and after a step.
LEMMA WalletBalance ==
    ASSUME NEW u \in Users
    PROVE  /\ BalanceOf(Account("wallet", u)) = users[u].quota - funded[u]
           /\ BalanceOf(Account("wallet", u))' = users'[u].quota - funded'[u]
BY DEF BalanceOf, Account

LEMMA TokenBalance ==
    ASSUME NEW t \in Tokens
    PROVE  /\ BalanceOf(Account("token", t)) = outside[t] - tokens[t].used
           /\ BalanceOf(Account("token", t))' = outside'[t] - tokens'[t].used
BY DEF BalanceOf, Account

LEMMA SubscriptionBalance ==
    ASSUME NEW s \in Subs
    PROVE  /\ BalanceOf(Account("subscription", s)) = -(subs[s].used + forgiven[s])
           /\ BalanceOf(Account("subscription", s))' = -(subs'[s].used + forgiven'[s])
BY DEF BalanceOf, Account

\* The accounts an operation draws on.
LEMMA PayersAre ==
    ASSUME NEW op \in Operation, op.status # "none"
    PROVE  /\ \A u \in Users : Account("wallet", u) \in PayersOf(op)
                                   <=> op.funding = "wallet" /\ op.user = u
           /\ \A t \in Tokens : Account("token", t) \in PayersOf(op) <=> op.token = t
           /\ \A s \in Subs : Account("subscription", s) \in PayersOf(op)
                                  <=> op.funding = "subscription" /\ op.sub = s
           /\ Owned(op) => PayersOf(op) \subseteq Accounts
<1>1. op.funding \in {"wallet", "subscription"} /\ op.token \in Tokens \cup {Unset}
  BY DEF Operation, Fundings
<1>2. Unset \notin Tokens BY IdAssumption
<1>3. \A k1, k2, i, j : Account(k1, i) = Account(k2, j) <=> k1 = k2 /\ i = j
  BY DEF Account
<1>4. \A a : a \in PayersOf(op) <=>
        \/ a = Account(op.funding, IF op.funding = "wallet" THEN op.user ELSE op.sub)
        \/ op.token # Unset /\ a = Account("token", op.token)
  BY DEF PayersOf
<1>5. Owned(op) => PayersOf(op) \subseteq Accounts
  BY <1>1, <1>4 DEF Owned, Accounts
<1> QED BY <1>1, <1>2, <1>3, <1>4, <1>5

\* Where the money is counted, the move of an operation is a charge of its
\* payers.
LEMMA BalancesMove ==
    ASSUME LedgerInv, LedgerInv', NEW o \in OpIds, OperationMoves(o), NEW a \in Accounts
    PROVE  BalanceOf(a)' = IF a \in PayersOf(ops'[o])
                           THEN BalanceOf(a) - (Held(ops'[o]) - Held(ops[o]))
                           ELSE BalanceOf(a)
<1> DEFINE op == ops'[o]
           change == Held(op) - HeldBefore(o)
           early == HeldBefore(o) - Held(ops[o])
           moved == Held(op) - Held(ops[o])
<1>1. ops[o] \in Operation /\ op \in Operation /\ (o \in Tasks => tasks[o] \in TaskRow)
  BY DEF LedgerInv, TypeInv, TypeOK
<1>2. Held(op) \in Int /\ Held(ops[o]) \in Int /\ HeldBefore(o) \in Int
  BY <1>1, QuotaAssumption DEF Held, HeldBefore, Operation, TaskRow, Quota
<1>3. change \in Int /\ early \in Int /\ moved \in Int /\ change + early = moved
  BY <1>2
<1>4. op.status # "none" /\ RowsMove(op, change) /\ SubsMove(op, change + early) /\ Attributed(op, early)
  BY Zenon DEF OperationMoves
<1> HIDE DEF op, change, early, moved
<1>5. CASE \E u \in Users : a = Account("wallet", u)
  <2>1. PICK u \in Users : a = Account("wallet", u) BY <1>5
  <2>2. a \in PayersOf(op) <=> op.funding = "wallet" /\ op.user = u BY <1>1, <1>4, <2>1, PayersAre
  <2>3. users[u].quota \in Int /\ funded[u] \in Int BY DEF LedgerInv, TypeInv, TypeOK, UserRow
  <2>4. CASE op.funding = "wallet" /\ op.user = u
    <3>1. users'[u].quota = users[u].quota - change BY <1>4, <2>4, Zenon DEF RowsMove
    <3>2. funded'[u] = funded[u] + early BY <1>4, <2>4, Zenon DEF Attributed
    <3>3. users'[u].quota - funded'[u] = (users[u].quota - funded[u]) - moved
      BY ONLY <1>3, <2>3, <3>1, <3>2
    <3> QED BY <2>1, <2>2, <2>4, <3>3, WalletBalance DEF op, moved
  <2>5. CASE ~(op.funding = "wallet" /\ op.user = u)
    <3>1. users'[u].quota = users[u].quota - 0 BY <1>4, <2>5, Zenon DEF RowsMove
    <3>2. funded'[u] = funded[u] + 0 BY <1>4, <2>5, Zenon DEF Attributed
    <3>3. users'[u].quota - funded'[u] = users[u].quota - funded[u]
      BY ONLY <2>3, <3>1, <3>2
    <3> QED BY <2>1, <2>2, <2>5, <3>3, WalletBalance DEF op
  <2> QED BY <2>4, <2>5
<1>6. CASE \E t \in Tokens : a = Account("token", t)
  <2>1. PICK t \in Tokens : a = Account("token", t) BY <1>6
  <2>2. a \in PayersOf(op) <=> op.token = t BY <1>1, <1>4, <2>1, PayersAre
  <2>3. tokens[t].used \in Int /\ outside[t] \in Int BY DEF LedgerInv, TypeInv, TypeOK, TokenRow
  <2>4. CASE op.token = t
    <3>1. tokens'[t].used = tokens[t].used + change BY <1>4, <2>4, Zenon DEF RowsMove
    <3>2. outside'[t] = outside[t] - early BY <1>4, <2>4, Zenon DEF Attributed
    <3>3. outside'[t] - tokens'[t].used = (outside[t] - tokens[t].used) - moved
      BY ONLY <1>3, <2>3, <3>1, <3>2
    <3> QED BY <2>1, <2>2, <2>4, <3>3, TokenBalance DEF op, moved
  <2>5. CASE op.token # t
    <3>1. tokens'[t].used = tokens[t].used + 0 BY <1>4, <2>5, Zenon DEF RowsMove
    <3>2. outside'[t] = outside[t] - 0 BY <1>4, <2>5, Zenon DEF Attributed
    <3>3. outside'[t] - tokens'[t].used = outside[t] - tokens[t].used
      BY ONLY <2>3, <3>1, <3>2
    <3> QED BY <2>1, <2>2, <2>5, <3>3, TokenBalance DEF op
  <2> QED BY <2>4, <2>5
<1>7. CASE \E s \in Subs : a = Account("subscription", s)
  <2>1. PICK s \in Subs : a = Account("subscription", s) BY <1>7
  <2>2. a \in PayersOf(op) <=> op.funding = "subscription" /\ op.sub = s
    BY <1>1, <1>4, <2>1, PayersAre
  <2>3. subs[s].used \in Int /\ forgiven[s] \in Int BY DEF LedgerInv, TypeInv, TypeOK, SubRow
  <2>4. CASE op.funding = "subscription" /\ op.sub = s
    <3>1. subs'[s].used + forgiven'[s] = subs[s].used + forgiven[s] + (change + early)
      BY <1>4, <2>4, Zenon DEF SubsMove
    <3>2. -(subs'[s].used + forgiven'[s]) = -(subs[s].used + forgiven[s]) - moved
      BY ONLY <1>3, <2>3, <3>1
    <3> QED BY <2>1, <2>2, <2>4, <3>2, SubscriptionBalance DEF op, moved
  <2>5. CASE ~(op.funding = "subscription" /\ op.sub = s)
    <3>1. subs'[s].used + forgiven'[s] = subs[s].used + forgiven[s] + 0
      BY <1>4, <2>5, Zenon DEF SubsMove
    <3>2. -(subs'[s].used + forgiven'[s]) = -(subs[s].used + forgiven[s])
      BY ONLY <2>3, <3>1
    <3> QED BY <2>1, <2>2, <2>5, <3>2, SubscriptionBalance DEF op
  <2> QED BY <2>4, <2>5
<1> QED BY <1>5, <1>6, <1>7, AccountKinds

LEMMA BalancesKept ==
    ASSUME AccountsKept, NEW a \in Accounts
    PROVE  BalanceOf(a)' = BalanceOf(a)
<1>1. ASSUME NEW u \in Users, a = Account("wallet", u) PROVE BalanceOf(a)' = BalanceOf(a)
  BY <1>1, WalletBalance DEF AccountsKept
<1>2. ASSUME NEW t \in Tokens, a = Account("token", t) PROVE BalanceOf(a)' = BalanceOf(a)
  BY <1>2, TokenBalance DEF AccountsKept
<1>3. ASSUME NEW s \in Subs, a = Account("subscription", s) PROVE BalanceOf(a)' = BalanceOf(a)
  BY <1>3, SubscriptionBalance DEF AccountsKept
<1> QED BY <1>1, <1>2, <1>3, AccountKinds

\* In the beginning nothing has moved.
LEMMA InitialBalance ==
    ASSUME Init, NEW a \in Accounts
    PROVE  BalanceOf(a) = 0
<1>0. TypeOK BY TypeInit DEF TypeInv
<1>1. ASSUME NEW u \in Users, a = Account("wallet", u) PROVE BalanceOf(a) = 0
  <2>1. funded[u] = users[u].quota /\ users[u].quota \in Int BY <1>0 DEF Init, TypeOK, UserRow
  <2> QED BY <1>1, <2>1, WalletBalance
<1>2. ASSUME NEW t \in Tokens, a = Account("token", t) PROVE BalanceOf(a) = 0
  <2>1. outside[t] = tokens[t].used /\ tokens[t].used \in Int BY <1>0 DEF Init, TypeOK, TokenRow
  <2> QED BY <1>2, <2>1, TokenBalance
<1>3. ASSUME NEW s \in Subs, a = Account("subscription", s) PROVE BalanceOf(a) = 0
  <2>1. forgiven[s] = -subs[s].used /\ subs[s].used \in Int BY <1>0 DEF Init, TypeOK, SubRow
  <2>2. -(subs[s].used + forgiven[s]) = 0 BY <2>1
  <2> QED BY <1>3, <2>2, SubscriptionBalance
<1> QED BY <1>1, <1>2, <1>3, AccountKinds

-----------------------------------------------------------------------------
(* The sum of what operations hold, counted in units. *)

\* An operation has as many units as it charges.
LEMMA UnitsOfOne ==
    ASSUME NEW o, NEW n \in Nat
    PROVE  IsFiniteSet({o} \X (1..n)) /\ Cardinality({o} \X (1..n)) = n
<1>1. IsFiniteSet({o}) /\ Cardinality({o}) = 1 BY FS_Singleton
<1>2. IsFiniteSet(1..n) /\ Cardinality(1..n) = IF 1 > n THEN 0 ELSE n - 1 + 1 BY FS_Interval
<1>3. Cardinality(1..n) = n BY <1>2
<1>4. \A S, T : IsFiniteSet(S) /\ IsFiniteSet(T) =>
        IsFiniteSet(S \X T) /\ Cardinality(S \X T) = Cardinality(S) * Cardinality(T)
  BY FS_Product
<1>5. IsFiniteSet({o} \X (1..n)) /\ Cardinality({o} \X (1..n)) = Cardinality({o}) * Cardinality(1..n)
  BY <1>1, <1>2, <1>4, Zenon
<1>6. Cardinality({o} \X (1..n)) = 1 * n BY <1>1, <1>3, <1>5, Zenon
<1> QED BY <1>5, <1>6

\* There are finitely many units.
LEMMA UnitsAreFinite == IsFiniteSet(OpIds \X (1..MaxQuota))
<1>1. IsFiniteSet(1..MaxQuota) BY QuotaAssumption, FS_Interval
<1>2. \A S, T : IsFiniteSet(S) /\ IsFiniteSet(T) => IsFiniteSet(S \X T) BY FS_Product
<1> QED BY <1>1, <1>2, FiniteAssumption, Zenon

\* The units of operation o, and the others, make up a set of units.
LEMMA CountSplits ==
    ASSUME NEW U \in SUBSET (OpIds \X (1..MaxQuota)), NEW o \in OpIds, NEW n \in Quota,
           {unit \in U : unit[1] = o} = {o} \X (1..n)
    PROVE  LET others == {unit \in U : unit[1] # o}
           IN  Cardinality(others) \in Nat /\ Cardinality(U) = Cardinality(others) + n
<1> DEFINE others == {unit \in U : unit[1] # o}
           own == {o} \X (1..n)
<1>2. IsFiniteSet(others) BY UnitsAreFinite, FS_Subset
<1>3. n \in Nat BY QuotaAssumption DEF Quota
<1>4. IsFiniteSet(own) /\ Cardinality(own) = n BY <1>3, UnitsOfOne
<1>5. U = others \cup own /\ others \cap own = {} OBVIOUS
<1> HIDE DEF others, own
<1>6. Cardinality(others) \in Nat BY <1>2, FS_CardinalityType
<1>7. Cardinality(U) = Cardinality(others) + Cardinality(own) - Cardinality(others \cap own)
  BY <1>2, <1>4, <1>5, FS_Union
<1>8. Cardinality(others \cap own) = 0 BY <1>5, FS_EmptySet
<1>9. Cardinality(U) = Cardinality(others) + n BY <1>3, <1>4, <1>6, <1>7, <1>8
<1> QED BY <1>6, <1>9 DEF others

\* The units that operation o holds from account a, now and after a step.
Share(a, o) == IF a \in PayersOf(ops[o]) THEN Held(ops[o]) ELSE 0

LEMMA OwnUnits ==
    ASSUME LedgerInv, NEW a, NEW o \in OpIds
    PROVE  /\ Share(a, o) \in Quota
           /\ {unit \in UnitsFrom(a) : unit[1] = o} = {o} \X (1..Share(a, o))
<1>1. Held(ops[o]) \in Quota
  BY DEF LedgerInv, TypeInv, TypeOK, Operation, Held
<1>2. Share(a, o) \in Quota BY <1>1, QuotaAssumption DEF Share, Quota
<1>3. CASE a \in PayersOf(ops[o])
  <2>1. Share(a, o) = Held(ops[o]) BY <1>3 DEF Share
  <2> QED BY <1>1, <1>2, <1>3, <2>1, QuotaAssumption DEF UnitsFrom, Quota
<1>4. CASE a \notin PayersOf(ops[o])
  <2>1. Share(a, o) = 0 BY <1>4 DEF Share
  <2> QED BY <1>2, <1>4, <2>1 DEF UnitsFrom
<1> QED BY <1>2, <1>3, <1>4

LEMMA OwnUnitsNext ==
    ASSUME LedgerInv', NEW a, NEW o \in OpIds
    PROVE  /\ Share(a, o)' \in Quota
           /\ {unit \in UnitsFrom(a)' : unit[1] = o} = {o} \X (1..Share(a, o)')
<1>1. Held(ops'[o]) \in Quota
  BY DEF LedgerInv, TypeInv, TypeOK, Operation, Held
<1>2. Share(a, o)' \in Quota BY <1>1, QuotaAssumption DEF Share, Quota
<1>3. CASE a \in PayersOf(ops'[o])
  <2>1. Share(a, o)' = Held(ops'[o]) BY <1>3 DEF Share
  <2> QED BY <1>1, <1>2, <1>3, <2>1, QuotaAssumption DEF UnitsFrom, Quota
<1>4. CASE a \notin PayersOf(ops'[o])
  <2>1. Share(a, o)' = 0 BY <1>4 DEF Share
  <2> QED BY <1>2, <1>4, <2>1 DEF UnitsFrom
<1> QED BY <1>2, <1>3, <1>4

\* A step that writes one operation changes the number of units by the change of
\* that operation's share.
LEMMA UnitsMove ==
    ASSUME LedgerInv, LedgerInv', NEW a, NEW o \in OpIds, \A p \in OpIds \ {o} : ops'[p] = ops[p]
    PROVE  /\ Cardinality(UnitsFrom(a)) \in Int /\ Share(a, o) \in Int /\ Share(a, o)' \in Int
           /\ Cardinality(UnitsFrom(a)') = Cardinality(UnitsFrom(a)) + Share(a, o)' - Share(a, o)
<1> DEFINE U == UnitsFrom(a)
           V == UnitsFrom(a)'
           before == Share(a, o)
           after == Share(a, o)'
           others == {unit \in U : unit[1] # o}
<1>1. U \in SUBSET (OpIds \X (1..MaxQuota)) /\ V \in SUBSET (OpIds \X (1..MaxQuota)) BY DEF UnitsFrom
<1>2. others = {unit \in V : unit[1] # o} BY DEF UnitsFrom
<1>3. before \in Quota /\ {unit \in U : unit[1] = o} = {o} \X (1..before) BY OwnUnits
<1>4. after \in Quota /\ {unit \in V : unit[1] = o} = {o} \X (1..after) BY OwnUnitsNext
<1>5. before \in Int /\ after \in Int BY <1>3, <1>4, QuotaAssumption DEF Quota
<1> HIDE DEF U, V, before, after
<1>6. Cardinality(others) \in Nat /\ Cardinality(U) = Cardinality(others) + before
  BY <1>1, <1>3, CountSplits
<1>7. Cardinality(V) = Cardinality(others) + after
  <2> HIDE DEF others
  <2> QED BY <1>1, <1>2, <1>4, CountSplits
<1> HIDE DEF others
<1>8. Cardinality(U) \in Int /\ Cardinality(V) = Cardinality(U) + after - before BY <1>5, <1>6, <1>7
<1> QED BY <1>5, <1>8 DEF U, V, before, after

\* Every account is short of exactly what operations hold from it.
AddsUp == \A a \in Accounts : BalanceOf(a) + Cardinality(UnitsFrom(a)) = 0

LEMMA BalanceType ==
    ASSUME LedgerInv, NEW a \in Accounts
    PROVE  BalanceOf(a) \in Int
<1>1. ASSUME NEW u \in Users, a = Account("wallet", u) PROVE BalanceOf(a) \in Int
  BY <1>1, WalletBalance DEF LedgerInv, TypeInv, TypeOK, UserRow
<1>2. ASSUME NEW t \in Tokens, a = Account("token", t) PROVE BalanceOf(a) \in Int
  BY <1>2, TokenBalance DEF LedgerInv, TypeInv, TypeOK, TokenRow
<1>3. ASSUME NEW s \in Subs, a = Account("subscription", s) PROVE BalanceOf(a) \in Int
  BY <1>3, SubscriptionBalance DEF LedgerInv, TypeInv, TypeOK, SubRow
<1> QED BY <1>1, <1>2, <1>3, AccountKinds

LEMMA AddsUpStep ==
    ASSUME LedgerInv, LedgerInv', [Next]_vars, AddsUp
    PROVE  AddsUp'
<1> SUFFICES ASSUME NEW a \in Accounts PROVE BalanceOf(a)' + Cardinality(UnitsFrom(a)') = 0
  BY DEF AddsUp, Accounts, Account
<1>1. BalanceOf(a) + Cardinality(UnitsFrom(a)) = 0 BY DEF AddsUp
<1>2. CASE UNCHANGED ops /\ AccountsKept
  <2>1. UnitsFrom(a)' = UnitsFrom(a) BY <1>2 DEF UnitsFrom
  <2> QED BY <1>1, <1>2, <2>1, BalancesKept
<1>3. ASSUME NEW o \in OpIds, OperationMoves(o)
      PROVE  BalanceOf(a)' + Cardinality(UnitsFrom(a)') = 0
  <2> DEFINE op == ops'[o]
             old == ops[o]
  <2>1. /\ \A p \in OpIds \ {o} : ops'[p] = ops[p]
        /\ old.status \in {"none", "reserved"} /\ op.status # "none"
        /\ old.status = "reserved" => SameOwners(op, old)
    BY <1>3, Zenon DEF OperationMoves
  <2>2. /\ Cardinality(UnitsFrom(a)) \in Int /\ Share(a, o) \in Int /\ Share(a, o)' \in Int
        /\ Cardinality(UnitsFrom(a)') = Cardinality(UnitsFrom(a)) + Share(a, o)' - Share(a, o)
    BY <2>1, UnitsMove
  <2>3. BalanceOf(a)' = IF a \in PayersOf(op) THEN BalanceOf(a) - (Held(op) - Held(old)) ELSE BalanceOf(a)
    BY <1>3, BalancesMove
  <2>4. old.status = "none" => Held(old) = 0 /\ Share(a, o) = 0
    BY DEF LedgerInv, FreshHoldsNothing, Held, Share, PayersOf
  <2>5. old.status = "reserved" => PayersOf(op) = PayersOf(old)
    BY <2>1 DEF SameOwners, PayersOf
  <2>6. BalanceOf(a) \in Int BY BalanceType
  <2>7. CASE a \in PayersOf(op)
    <3>1. Share(a, o)' = Held(op) BY <2>7 DEF Share
    <3>2. Share(a, o) = Held(old) BY <2>1, <2>4, <2>5, <2>7 DEF Share
    <3> QED BY <1>1, <2>2, <2>3, <2>6, <2>7, <3>1, <3>2
  <2>8. CASE a \notin PayersOf(op)
    <3>1. Share(a, o)' = 0 BY <2>8 DEF Share
    <3>2. Share(a, o) = 0 BY <2>1, <2>4, <2>5, <2>8 DEF Share
    <3> QED BY <1>1, <2>2, <2>3, <2>6, <2>8, <3>1, <3>2
  <2> QED BY <2>7, <2>8
<1> QED BY <1>2, <1>3, StepMoves

\* For any number of users, tokens, subscriptions, requests and tasks: no quota is
\* created or lost by any order of billing transactions, top-ups, edits, resets
\* and deletions (model/billing_operation.go).
THEOREM NoQuotaIsLost == Spec => []QuotaIsConserved
<1>1. Init => AddsUp
  <2> SUFFICES ASSUME Init, NEW a \in Accounts PROVE BalanceOf(a) + Cardinality(UnitsFrom(a)) = 0
    BY DEF AddsUp
  <2>1. UnitsFrom(a) = {} BY DEF UnitsFrom, Init, NoOperation, PayersOf
  <2>2. Cardinality(UnitsFrom(a)) = 0 BY <2>1, FS_EmptySet
  <2>3. BalanceOf(a) = 0 BY InitialBalance
  <2> QED BY <2>2, <2>3
<1>2. LedgerInv /\ AddsUp => QuotaIsConserved
  <2> SUFFICES ASSUME LedgerInv, AddsUp PROVE QuotaIsConserved OBVIOUS
  <2>1. ASSUME NEW a \in Accounts PROVE BalanceOf(a) + Cardinality(UnitsFrom(a)) = 0 BY DEF AddsUp
  <2>2. ASSUME NEW a \in Accounts PROVE Cardinality(UnitsFrom(a)) \in Nat
    <3>1. UnitsFrom(a) \in SUBSET (OpIds \X (1..MaxQuota)) BY DEF UnitsFrom
    <3> QED BY <3>1, UnitsAreFinite, FS_Subset, FS_CardinalityType
  <2>3. ASSUME NEW u \in Users PROVE users[u].quota + Charged("wallet", u) = funded[u]
    <3>1. Account("wallet", u) \in Accounts BY DEF Accounts
    <3>2. users[u].quota \in Int /\ funded[u] \in Int BY DEF LedgerInv, TypeInv, TypeOK, UserRow
    <3> QED BY <2>1, <2>2, <3>1, <3>2, WalletBalance DEF Charged
  <2>4. ASSUME NEW t \in Tokens PROVE tokens[t].used = Charged("token", t) + outside[t]
    <3>1. Account("token", t) \in Accounts BY DEF Accounts
    <3>2. tokens[t].used \in Int /\ outside[t] \in Int BY DEF LedgerInv, TypeInv, TypeOK, TokenRow
    <3> QED BY <2>1, <2>2, <3>1, <3>2, TokenBalance DEF Charged
  <2>5. ASSUME NEW s \in Subs PROVE subs[s].used + forgiven[s] = Charged("subscription", s)
    <3>1. Account("subscription", s) \in Accounts BY DEF Accounts
    <3>2. subs[s].used \in Int /\ forgiven[s] \in Int BY DEF LedgerInv, TypeInv, TypeOK, SubRow
    <3> QED BY <2>1, <2>2, <3>1, <3>2, SubscriptionBalance DEF Charged
  <2> QED BY <2>3, <2>4, <2>5 DEF QuotaIsConserved
<1>3. LedgerInv /\ LedgerInv' /\ [Next]_vars /\ AddsUp => AddsUp' BY AddsUpStep
<1> QED BY <1>1, <1>2, <1>3, LedgerInvariant, PTL DEF Spec

-----------------------------------------------------------------------------
(* The refinement. *)

LEMMA EscrowInit == Init => Ledger!Init
<1> SUFFICES ASSUME Init PROVE Ledger!Init OBVIOUS
<1>1. \A o \in OpIds : ops[o] = NoOperation BY DEF Init
<1>2. \A o \in OpIds : StageOf(ops[o]) = "new" /\ Held(ops[o]) = 0 /\ PayersOf(ops[o]) = {}
  BY <1>1 DEF StageOf, Held, PayersOf, NoOperation
<1>3. \A a \in Accounts : BalanceOf(a) = 0 BY InitialBalance
<1> QED BY <1>2, <1>3, Zenon DEF Ledger!Init

LEMMA EscrowStep ==
    ASSUME LedgerInv, LedgerInv', [Next]_vars
    PROVE  [Ledger!Next]_(Ledger!vars)
<1>1. CASE UNCHANGED ops /\ AccountsKept
  <2>1. \A a \in Accounts : BalanceOf(a)' = BalanceOf(a) BY <1>1, BalancesKept
  <2> QED BY <1>1, <2>1 DEF Ledger!vars
<1>2. ASSUME NEW o \in OpIds, OperationMoves(o) PROVE Ledger!Begin(o) \/ Ledger!Change(o)
  <2>1. /\ \A p \in OpIds \ {o} : ops'[p] = ops[p]
        /\ ops[o].status \in {"none", "reserved"}
        /\ ops[o].status = "reserved" => SameOwners(ops'[o], ops[o])
        /\ ops'[o].status # "none"
    BY <1>2, Zenon DEF OperationMoves
  <2>2. ops'[o] \in Operation /\ ops[o] \in Operation /\ Owned(ops'[o])
    BY <2>1 DEF LedgerInv, TypeInv, TypeOK, OpsOwned, Owned
  <2>3. StageOf(ops'[o]) \in {"open", "closed"} BY <2>1, <2>2 DEF StageOf, Operation, OpStatuses
  <2>4. Held(ops'[o]) \in 0..MaxQuota BY <2>2 DEF Held, Operation, Quota
  <2>5. PayersOf(ops'[o]) \subseteq Accounts BY <2>1, <2>2, PayersAre
  <2>6. \A a \in Accounts : BalanceOf(a)' = IF a \in PayersOf(ops'[o])
                                            THEN BalanceOf(a) - (Held(ops'[o]) - Held(ops[o]))
                                            ELSE BalanceOf(a)
    BY <1>2, BalancesMove
  <2>7. Ledger!Charge(o, PayersOf(ops'[o]))
    BY <2>1, <2>3, <2>4, <2>6 DEF Ledger!Charge
  <2>8. CASE ops[o].status = "none"
    <3>1. StageOf(ops[o]) = "new" BY <2>8 DEF StageOf
    <3> QED BY <2>1, <2>5, <2>7, <3>1 DEF Ledger!Begin
  <2>9. CASE ops[o].status = "reserved"
    <3>1. StageOf(ops[o]) = "open" BY <2>9 DEF StageOf
    <3>2. PayersOf(ops'[o]) = PayersOf(ops[o])
      BY <2>1, <2>9 DEF SameOwners, PayersOf
    <3> QED BY <2>1, <2>7, <3>1, <3>2 DEF Ledger!Change
  <2> QED BY <2>1, <2>8, <2>9
<1> QED BY <1>1, <1>2, StepMoves DEF Ledger!Next

\* For any instance: through every interleaving of requests, task polls, edits,
\* resets and deletions each step charges one operation's own accounts by the
\* change of its charge, or moves nothing (model/billing_operation.go).
THEOREM BillingImplementsEscrow == Spec => ImplementsEscrow
<1>1. LedgerInv /\ LedgerInv' /\ [Next]_vars => [Ledger!Next]_(Ledger!vars) BY EscrowStep
<1> QED BY EscrowInit, <1>1, LedgerInvariant, PTL DEF Spec, ImplementsEscrow, Ledger!Spec
=============================================================================
