--------------------------- MODULE BillingOperation ---------------------------
(***************************************************************************)
(* Durable billing operations (model/billing_operation.go).                *)
(*                                                                         *)
(* Every relay request and every asynchronous task is charged through one  *)
(* row of the table billing_operations.  The row is created by a           *)
(* reservation that takes quota from a wallet or a subscription and from   *)
(* an API token, may be adjusted while it is reserved, and is closed       *)
(* exactly once: settled at the quota the request really cost, refunded,   *)
(* or abandoned when the rows that should be corrected are missing or      *)
(* inconsistent.  Each action below is one database transaction of the     *)
(* code: its row locks (model/locking.go) make it atomic, and an error     *)
(* rolls everything back, so a failing call is a step that is not taken.   *)
(*                                                                         *)
(* The rows an operation draws on are changed by the rest of the system    *)
(* too: top-ups, direct charges, token edits, quota resets of              *)
(* subscriptions, deletions.  They are the second group of actions.        *)
(***************************************************************************)
EXTENDS Integers, FiniteSets

CONSTANTS
    Users,         \* users.id
    Tokens,        \* tokens.id
    Subs,          \* user_subscriptions.id, numbered in the order of end_time
    Requests,      \* request ids of relay requests
    Tasks,         \* tasks.id
    TokenOwner,    \* the user a token belongs to
    SubOwner,      \* the user a subscription belongs to
    MaxQuota,      \* common.MaxQuota, the largest value of a 32-bit column
    InitialQuotas, \* wallet balances to start from
    InitialTokens, \* token rows to start from
    InitialSubs,   \* subscription rows to start from
    LegacyTasks,   \* task rows written before tasks had billing operations
    LegacyRows,    \* what such a row may hold
    Amounts,       \* amounts moved by the code outside billing operations
    Remains,       \* remain_quota values an owner may give a token
    OutsideBound,  \* bound on what the ghost counters may reach
    Unset          \* the zero value of an id column

\* "legacy-task:<id>" is the request id under which a legacy task is adopted;
\* the task itself stands for it.
OpIds == Requests \cup Tasks

ASSUME QuotaAssumption ==
    /\ MaxQuota \in Nat \ {0}
    /\ OutsideBound \in Nat
    /\ InitialQuotas \subseteq Int
    /\ Amounts \subseteq Int
    /\ Remains \subseteq Int

ASSUME IdAssumption ==
    /\ Subs \subseteq Nat
    /\ Requests \cap Tasks = {}
    /\ Unset \notin Users \cup Tokens \cup Subs \cup OpIds
    /\ TokenOwner \in [Tokens -> Users]
    /\ SubOwner \in [Subs -> Users]
    /\ LegacyTasks \subseteq Tasks

\* A database has finitely many rows.
ASSUME FiniteAssumption == IsFiniteSet(OpIds)

VARIABLES
    users,     \* wallet and soft-delete state of each user row
    tokens,    \* quota columns and state of each token row
    subs,      \* quota columns and state of each subscription row
    ops,       \* billing_operations by request id
    tasks,     \* the billing columns of the task rows
    funded,    \* ghost: money put into a wallet, net of charges made outside
    outside,   \* ghost: token usage recorded outside billing operations
    forgiven   \* ghost: subscription usage wiped by quota resets

rows  == <<users, tokens, subs>>
ghost == <<funded, outside, forgiven>>
vars  == <<users, tokens, subs, ops, tasks, funded, outside, forgiven>>

Quota       == 0..MaxQuota
RowStates   == {"live", "soft", "gone"}
Fundings    == {"wallet", "subscription"}
OpStatuses  == {"none", "reserved", "settled", "refunded", "abandoned"}
Outcomes    == {"settle", "refund"}
TaskRunning == {"submitted", "in_progress"}
TaskDone    == {"success", "failure"}
TokenStatuses == {"enabled", "disabled", "expired", "exhausted"}

UserRow == [quota : Int, row : RowStates]

TokenRow ==
    [remain : Int, used : Int, unlimited : BOOLEAN, expired : BOOLEAN,
     status : TokenStatuses, row : RowStates]

\* total = 0 means that the subscription has no cap.  active: the status is
\* active and end_time lies ahead.  due: next_reset_time has passed.
SubRow ==
    [total : Nat, used : Nat, active : BOOLEAN, due : BOOLEAN,
     row : {"live", "gone"}]

Operation ==
    [status : OpStatuses, user : Users \cup {Unset},
     token : Tokens \cup {Unset}, remainCharged : BOOLEAN,
     funding : Fundings, sub : Subs \cup {Unset},
     reserved : Quota, requested : Quota, actual : Quota,
     limited : BOOLEAN, task : Tasks \cup {Unset}]

TaskRow ==
    [status : {"none"} \cup TaskRunning \cup TaskDone,
     op : OpIds \cup {Unset}, quota : Quota, user : Users \cup {Unset},
     token : Tokens \cup {Unset}, sub : Subs \cup {Unset},
     beforeCutoff : BOOLEAN]

ASSUME InitialAssumption ==
    /\ InitialTokens \subseteq TokenRow
    /\ InitialSubs \subseteq {s \in SubRow : s.total > 0 => s.used <= s.total}
    /\ LegacyRows \subseteq {k \in TaskRow : k.op = Unset /\ k.user # Unset}

NoOperation ==
    [status |-> "none", user |-> Unset, token |-> Unset,
     remainCharged |-> FALSE, funding |-> "wallet", sub |-> Unset,
     reserved |-> 0, requested |-> 0, actual |-> 0,
     limited |-> FALSE, task |-> Unset]

NoTask ==
    [status |-> "none", op |-> Unset, quota |-> 0, user |-> Unset,
     token |-> Unset, sub |-> Unset, beforeCutoff |-> FALSE]

-----------------------------------------------------------------------------
(* The rows an operation owns and what a change of its charge does to them. *)

Lesser(a, b) == IF a < b THEN a ELSE b
Larger(a, b) == IF a > b THEN a ELSE b

\* An operation whose token id is unset has TokenCharged = false (playground).
TokenCharged(op) == op.token # Unset

\* loadBillingOperationRowsTx finds every row: users and tokens are read
\* Unscoped, so a soft-deleted one still counts, a purged one does not.
RowsPresent(op) ==
    /\ op.funding = "subscription" => subs[op.sub].row = "live"
    /\ users[op.user].row # "gone"
    /\ TokenCharged(op) => tokens[op.token].row # "gone"

\* Mutant: a refund may drive amount_used below zero.
FundingFitsNoFloor(op, delta) ==
    IF op.funding = "subscription"
    THEN subs[op.sub].total > 0 => subs[op.sub].used + delta <= subs[op.sub].total
    ELSE delta > 0 => users[op.user].quota >= delta

FundingFits(op, delta) ==
    IF op.funding = "subscription"
    THEN LET s == subs[op.sub] IN
         /\ s.used + delta >= 0
         /\ s.total > 0 => s.used + delta <= s.total
    ELSE LET quota == users[op.user].quota IN
         /\ delta > 0 => quota >= delta
         /\ delta < 0 => quota <= MaxQuota + delta

TokenFits(op, delta) ==
    LET t == tokens[op.token] IN
    TokenCharged(op) =>
        /\ delta > 0 => t.used <= MaxQuota - delta
        /\ delta < 0 => t.used >= -delta
        /\ op.remainCharged /\ delta > 0 => t.remain >= delta
        /\ op.remainCharged /\ delta < 0 => t.remain <= MaxQuota + delta

\* validateBillingOperationDelta.  applyBillingOperationDeltaTx repeats the
\* same conditions in the WHERE clauses of its updates.
DeltaFits(op, delta) == delta = 0 \/ (FundingFits(op, delta) /\ TokenFits(op, delta))

\* Mutant: nothing revives an exhausted token.
NotRestored(t) == t

\* RestoreExhaustedTokenIfFunded on the row t.
Restored(t) ==
    IF t.status = "exhausted" /\ t.remain > 0 /\ ~t.expired /\ t.row = "live"
    THEN [t EXCEPT !.status = "enabled"]
    ELSE t

\* Mutant: an unlimited token is not charged at all.
ChargedTokenLimitedOnly(t, remainCharged, delta) ==
    LET moved == [t EXCEPT !.used = @ + delta, !.remain = @ - delta]
    IN  IF ~remainCharged THEN t ELSE IF delta < 0 THEN Restored(moved) ELSE moved

\* The token update of applyBillingOperationDeltaTx.
ChargedToken(t, remainCharged, delta) ==
    LET moved == [t EXCEPT !.used = @ + delta,
                           !.remain = IF remainCharged THEN @ - delta ELSE @]
    IN  IF delta < 0 /\ remainCharged THEN Restored(moved) ELSE moved

\* applyBillingOperationDeltaTx: delta more is charged (less when negative).
ApplyDelta(op, delta) ==
    /\ DeltaFits(op, delta)
    /\ users' = IF op.funding = "wallet"
                THEN [users EXCEPT ![op.user].quota = @ - delta]
                ELSE users
    /\ subs' = IF op.funding = "subscription"
               THEN [subs EXCEPT ![op.sub].used = @ + delta]
               ELSE subs
    /\ tokens' = IF TokenCharged(op)
                 THEN [tokens EXCEPT ![op.token] =
                          ChargedToken(@, op.remainCharged, delta)]
                 ELSE tokens

FundingRoom(op) ==
    IF op.funding = "wallet" THEN users[op.user].quota
    ELSE IF subs[op.sub].total = 0 THEN MaxQuota
    ELSE subs[op.sub].total - subs[op.sub].used

TokenRoom(op) ==
    LET t == tokens[op.token] IN
    IF ~TokenCharged(op) THEN MaxQuota
    ELSE Lesser(MaxQuota - t.used, IF op.remainCharged THEN t.remain ELSE MaxQuota)

\* billingOperationAdditionalCapacity
AdditionalCapacity(op) ==
    Larger(0, Lesser(MaxQuota, Lesser(FundingRoom(op), TokenRoom(op))))

\* A larger charge is clipped to the capacity, a smaller one is not.
AppliedDelta(op, target) ==
    IF target > op.reserved
    THEN Lesser(target - op.reserved, AdditionalCapacity(op))
    ELSE target - op.reserved

-----------------------------------------------------------------------------
(* The transactions of model/billing_operation.go. *)

\* selectBillingSubscriptionTx: the active subscriptions in the order of
\* end_time; the ones that are due are reset on the way, the first that has
\* room for the quota is taken.
Eligible(u) == {s \in Subs : SubOwner[s] = u /\ subs[s].active /\ subs[s].row = "live"}
UsedAfterReset(s) == IF subs[s].due THEN 0 ELSE subs[s].used
HasRoom(s, quota) == subs[s].total > 0 => subs[s].total - UsedAfterReset(s) >= quota
Selected(u, quota, s) ==
    /\ s \in Eligible(u) /\ HasRoom(s, quota)
    /\ \A x \in Eligible(u) : x < s => ~HasRoom(x, quota)
ResetOnTheWay(u, s) == {x \in Eligible(u) : x <= s /\ subs[x].due}

\* The token columns a reservation needs and changes.
TokenAccepts(t, quota) ==
    /\ tokens[t].row = "live"
    /\ tokens[t].status = "enabled"
    /\ ~tokens[t].expired
    /\ quota > 0 => /\ tokens[t].used <= MaxQuota - quota
                    /\ ~tokens[t].unlimited => tokens[t].remain >= quota

ReserveRows(u, t, quota) ==
    /\ users[u].row = "live"
    /\ t # Unset => TokenOwner[t] = u /\ TokenAccepts(t, quota)
    /\ tokens' = IF t = Unset THEN tokens
                 ELSE [tokens EXCEPT ![t] =
                          ChargedToken(@, ~tokens[t].unlimited, quota)]

\* Mutant: the selected subscription is not stored with the operation.
NewOperationWithoutSub(u, t, funding, s, quota) ==
    [NoOperation EXCEPT !.status = "reserved", !.user = u, !.token = t,
        !.funding = funding, !.reserved = quota]

NewOperation(u, t, funding, s, quota) ==
    [NoOperation EXCEPT !.status = "reserved", !.user = u, !.token = t,
        !.remainCharged = t # Unset /\ ~tokens[t].unlimited,
        !.funding = funding, !.sub = s, !.reserved = quota]

\* Mutant: the wallet is checked against one unit less.
WalletCoversAlmost(u, quota) == users[u].quota + 1 >= quota
WalletCovers(u, quota) == quota = 0 \/ users[u].quota >= quota

\* A second reservation under the same request id returns the stored row (or
\* a conflict): the step is not taken.
ReserveFromWallet(r, u, t, quota) ==
    /\ ops[r].status = "none"
    /\ WalletCovers(u, quota)
    /\ ReserveRows(u, t, quota)
    /\ users' = [users EXCEPT ![u].quota = @ - quota]
    /\ ops' = [ops EXCEPT ![r] = NewOperation(u, t, "wallet", Unset, quota)]
    /\ UNCHANGED <<subs, tasks, ghost>>

ReserveFromSubscription(r, u, t, quota) ==
    /\ ops[r].status = "none"
    /\ quota > 0
    /\ ReserveRows(u, t, quota)
    /\ \E s \in Subs :
        LET reset == ResetOnTheWay(u, s) IN
        /\ Selected(u, quota, s)
        /\ subs' = [x \in Subs |->
                       [subs[x] EXCEPT
                           !.used = (IF x \in reset THEN 0 ELSE @)
                                    + (IF x = s THEN quota ELSE 0),
                           !.due = @ /\ x \notin reset]]
        /\ forgiven' = [x \in Subs |->
                           forgiven[x] + IF x \in reset THEN subs[x].used ELSE 0]
        /\ ops' = [ops EXCEPT ![r] = NewOperation(u, t, "subscription", s, quota)]
    /\ UNCHANGED <<users, tasks, funded, outside>>

\* Mutant: a settled operation may be changed again.
OpenWhileCharged(op) == op.status \in {"reserved", "settled"}

\* The only status from which an operation is adjusted or closed.
Open(op) == op.status = "reserved"

\* adjustBillingOperationReservationTx on operation o, which is then saved
\* with task id k.
AdjustReservation(o, target, k) ==
    LET op == ops[o]
        delta == AppliedDelta(op, target)
    IN  /\ Open(op)
        /\ \/ /\ target = op.reserved
              /\ ops' = [ops EXCEPT ![o].task = k]
              /\ UNCHANGED rows
           \/ /\ target # op.reserved
              /\ ~RowsPresent(op)
              /\ ops' = [ops EXCEPT ![o] = [op EXCEPT !.requested = target,
                            !.limited = TRUE, !.task = k]]
              /\ UNCHANGED rows
           \/ /\ target # op.reserved
              /\ RowsPresent(op)
              /\ ApplyDelta(op, delta)
              /\ ops' = [ops EXCEPT ![o] = [op EXCEPT !.reserved = @ + delta,
                            !.requested = target,
                            !.limited = delta # target - op.reserved,
                            !.task = k]]

AdjustBillingOperationReservation(r, target) ==
    /\ AdjustReservation(r, target, ops[r].task)
    /\ UNCHANGED <<tasks, ghost>>

\* Mutant: a clipped settlement is not marked.
SettledUnmarked(op, requested, delta) ==
    [op EXCEPT !.status = "settled", !.requested = requested,
        !.actual = op.reserved + delta, !.limited = FALSE]

Settled(op, requested, delta) ==
    [op EXCEPT !.status = "settled", !.requested = requested,
        !.actual = op.reserved + delta,
        !.limited = delta # requested - op.reserved]

\* Mutant: the refund is paid but the status is not advanced.
RefundedStillOpen(op) == [op EXCEPT !.requested = 0, !.actual = 0]

Refunded(op) ==
    [op EXCEPT !.status = "refunded", !.requested = 0, !.actual = 0, !.limited = FALSE]

\* abandonBillingOperation: what was reserved stays charged.
Abandoned(op, requested) ==
    [op EXCEPT !.status = "abandoned", !.requested = requested,
        !.actual = op.reserved, !.limited = TRUE]

\* Mutant: only a settlement may be repeated.
ReplaysSettlement(op, requested, outcome) ==
    outcome = "settle" /\ op.status = "settled" /\ op.requested = requested

\* A call that repeats what was already done succeeds and changes nothing.
Replays(op, requested, outcome) ==
    \/ outcome = "settle" /\ op.status = "settled" /\ op.requested = requested
    \/ outcome = "refund" /\ op.status \in {"refunded", "abandoned"}

\* transitionBillingOperationTx on the row op of operation o.  Only the task
\* path abandons an operation whose rows exist but cannot take the change
\* (abandonOnInconsistent); elsewhere that is an error.
Transition(o, op, requested, outcome, abandonOnInconsistent) ==
    LET delta == IF outcome = "settle" THEN AppliedDelta(op, requested) ELSE -op.reserved
        final == IF outcome = "settle" THEN Settled(op, requested, delta) ELSE Refunded(op)
    IN  \/ /\ Replays(op, requested, outcome)
           /\ UNCHANGED <<ops, rows>>
        \/ /\ Open(op)
           /\ RowsPresent(op)
           /\ ApplyDelta(op, delta)
           /\ ops' = [ops EXCEPT ![o] = final]
        \/ /\ Open(op)
           /\ \/ ~RowsPresent(op)
              \/ abandonOnInconsistent /\ ~DeltaFits(op, delta)
           /\ ops' = [ops EXCEPT ![o] = Abandoned(op, requested)]
           /\ UNCHANGED rows

SettleBillingOperation(r, requested) ==
    /\ Transition(r, ops[r], requested, "settle", FALSE)
    /\ UNCHANGED <<tasks, ghost>>

RefundBillingOperation(r) ==
    /\ Transition(r, ops[r], 0, "refund", FALSE)
    /\ UNCHANGED <<tasks, ghost>>

\* Mutant: any operation may be linked, a linked one too.
LinkableAgain(r) == ops[r].status # "none"
Linkable(r) == ops[r].task = Unset

\* The task row and the link between task and operation are written in the
\* transaction that adjusts the reservation to the price of the task.
CreateTaskWithBillingOperation(k, r, target) ==
    /\ tasks[k].status = "none"
    /\ Linkable(r)
    /\ AdjustReservation(r, target, k)
    /\ tasks' = [tasks EXCEPT ![k] =
                    [status |-> "submitted", op |-> r, quota |-> ops'[r].reserved,
                     user |-> ops[r].user, token |-> ops[r].token,
                     sub |-> ops[r].sub, beforeCutoff |-> FALSE]]
    /\ UNCHANGED ghost

\* loadOrAdoptTaskBillingOperationTx: a task without an operation gets one
\* that holds the quota charged when the task was submitted.
Adopts(k) == tasks[k].op = Unset /\ ops[k].status = "none"
OperationOf(k) == IF tasks[k].op = Unset THEN k ELSE tasks[k].op
NormalizedFunding(k) == IF tasks[k].sub # Unset THEN "subscription" ELSE "wallet"
AdoptedOperation(k) ==
    IF Adopts(k)
    THEN [NoOperation EXCEPT !.status = "reserved", !.user = tasks[k].user,
             !.token = tasks[k].token, !.remainCharged = tasks[k].token # Unset,
             !.funding = NormalizedFunding(k), !.sub = tasks[k].sub,
             !.reserved = tasks[k].quota, !.task = k]
    ELSE ops[OperationOf(k)]

\* A legacy task older than the cutoff fails without a refund.
LegacyNoRefund(k, outcome) ==
    tasks[k].op = Unset /\ outcome = "refund" /\ tasks[k].beforeCutoff

\* Ghosts: the charge a legacy task made in its time counts, from its adoption
\* on, as a charge of its operation.
AttributeLegacyCharge(op) ==
    /\ funded' = IF op.funding = "wallet"
                 THEN [funded EXCEPT ![op.user] = @ + op.reserved] ELSE funded
    /\ forgiven' = IF op.funding = "subscription"
                   THEN [forgiven EXCEPT ![op.sub] = @ + op.reserved] ELSE forgiven
    /\ outside' = IF TokenCharged(op)
                  THEN [outside EXCEPT ![op.token] = @ - op.reserved] ELSE outside

\* The status checks at the head of ApplyTaskBillingTransition: a terminal
\* task only accepts its own status again, a running one only a caller that
\* still knows its status.
MayEnd(k, from, to) ==
    IF tasks[k].status \in TaskDone
    THEN tasks[k].status = to
    ELSE tasks[k].status = from /\ from # "none"

OutcomeOf(to) == IF to = "success" THEN "settle" ELSE "refund"

ApplyTaskBillingTransition(k, from, to, requested) ==
    LET o  == OperationOf(k)
        op == AdoptedOperation(k)
    IN  /\ MayEnd(k, from, to)
        /\ \/ /\ LegacyNoRefund(k, OutcomeOf(to))
              /\ tasks' = [tasks EXCEPT ![k].status = to, ![k].quota = 0]
              /\ UNCHANGED <<users, tokens, subs, ops, ghost>>
           \/ /\ ~LegacyNoRefund(k, OutcomeOf(to))
              /\ op.task \in {Unset, k}
              /\ Transition(o, op, requested, OutcomeOf(to), TRUE)
              /\ tasks' = [tasks EXCEPT ![k].status = to, ![k].op = o,
                                        ![k].quota = ops'[o].actual]
              /\ IF Adopts(k)
                 THEN AttributeLegacyCharge(op)
                 ELSE UNCHANGED ghost

-----------------------------------------------------------------------------
(* The rest of the system, as far as it writes the same rows.              *)

Bounded(n) == n \in -OutsideBound..OutsideBound
Int32 == -(MaxQuota + 1)..MaxQuota

\* increaseUserQuota and decreaseUserQuota: top-ups, check-ins, administrator
\* changes, charges that have no operation.  Neither looks at the balance; the
\* column users.quota (type:int) refuses what does not fit 32 bits.
ChangeUserQuota(u, amount) ==
    /\ users[u].row = "live"
    /\ users[u].quota + amount \in Int32
    /\ users' = [users EXCEPT ![u].quota = @ + amount]
    /\ funded' = [funded EXCEPT ![u] = @ + amount]
    /\ UNCHANGED <<tokens, subs, ops, tasks, outside, forgiven>>

\* decreaseTokenQuota (amount > 0) and increaseTokenQuota (amount < 0).
ChangeTokenQuota(t, amount) ==
    /\ tokens[t].row = "live"
    /\ Bounded(tokens[t].remain - amount)
    /\ Bounded(outside[t] + amount)
    /\ tokens' = [tokens EXCEPT ![t] = ChargedToken(@, TRUE, amount)]
    /\ outside' = [outside EXCEPT ![t] = @ + amount]
    /\ UNCHANGED <<users, subs, ops, tasks, funded, forgiven>>

\* UpdateToken (controller) and Token.Update.  The handler reads the row,
\* checks what it read, edits the status or else the other columns, and writes
\* all four back without looking again: a charge or a status that was stored
\* in the meantime is overwritten.
WriteToken(t, row) ==
    /\ tokens[t].row = "live"
    /\ tokens' = [tokens EXCEPT ![t] =
          [@ EXCEPT !.status = row.status, !.remain = row.remain,
                    !.unlimited = row.unlimited, !.expired = row.expired]]
    /\ UNCHANGED <<users, subs, ops, tasks, ghost>>

\* The other columns are edited, with the status that was read; also the
\* status of a row that was read earlier, with the columns it then had.
UpdateToken(t, seenStatus, remain, unlimited, expired) ==
    WriteToken(t, [status |-> seenStatus, remain |-> remain,
                   unlimited |-> unlimited, expired |-> expired])

\* The status is edited on the row as it is.
UpdateTokenStatus(t, status) ==
    LET seen == tokens[t] IN
    /\ status = "enabled" =>
        /\ ~(seen.status = "expired" /\ seen.expired)
        /\ ~(seen.status = "exhausted" /\ seen.remain <= 0 /\ ~seen.unlimited)
    /\ WriteToken(t, [seen EXCEPT !.status = status])

\* expired_time passes.
TokenExpires(t) ==
    /\ ~tokens[t].expired
    /\ tokens' = [tokens EXCEPT ![t].expired = TRUE]
    /\ UNCHANGED <<users, subs, ops, tasks, ghost>>

\* persistTokenInvalidStatus, on behalf of ValidateUserToken.
PersistTokenInvalidStatus(t) ==
    LET tok == tokens[t] IN
    /\ tok.row = "live" /\ tok.status = "enabled"
    /\ \/ /\ tok.expired
          /\ tokens' = [tokens EXCEPT ![t].status = "expired"]
       \/ /\ ~tok.expired /\ ~tok.unlimited /\ tok.remain <= 0
          /\ tokens' = [tokens EXCEPT ![t].status = "exhausted"]
    /\ UNCHANGED <<users, subs, ops, tasks, ghost>>

DeleteToken(t) ==
    /\ tokens[t].row = "live"
    /\ tokens' = [tokens EXCEPT ![t].row = "soft"]
    /\ UNCHANGED <<users, subs, ops, tasks, ghost>>

\* deleteUserAuthenticationData: both deletions purge the tokens.
PurgedTokens(u) ==
    [t \in Tokens |-> IF TokenOwner[t] = u THEN [tokens[t] EXCEPT !.row = "gone"]
                      ELSE tokens[t]]

DeleteUser(u, row) ==
    /\ \/ row = "soft" /\ users[u].row = "live"
       \/ row = "gone" /\ users[u].row # "gone"
    /\ users' = [users EXCEPT ![u].row = row]
    /\ tokens' = PurgedTokens(u)
    /\ UNCHANGED <<subs, ops, tasks, ghost>>

\* next_reset_time passes.
SubscriptionFallsDue(s) ==
    /\ subs[s].active /\ ~subs[s].due
    /\ subs' = [subs EXCEPT ![s].due = TRUE]
    /\ UNCHANGED <<users, tokens, ops, tasks, ghost>>

\* resetUserSubscriptionTx: by an administrator at any time, by the
\* background job when due.  Reservations outstanding on the subscription
\* are not looked at.
ResetUserSubscription(s, advanceResetTime) ==
    /\ subs[s].active /\ subs[s].row = "live"
    /\ forgiven[s] + subs[s].used <= OutsideBound
    /\ subs' = [subs EXCEPT ![s].used = 0, ![s].due = @ /\ ~advanceResetTime]
    /\ forgiven' = [forgiven EXCEPT ![s] = @ + subs[s].used]
    /\ UNCHANGED <<users, tokens, ops, tasks, funded, outside>>

\* The end_time passes, or an administrator cancels the subscription.
EndSubscription(s) ==
    /\ subs[s].active
    /\ subs' = [subs EXCEPT ![s].active = FALSE]
    /\ UNCHANGED <<users, tokens, ops, tasks, ghost>>

AdminDeleteUserSubscription(s) ==
    /\ subs[s].row = "live"
    /\ subs' = [subs EXCEPT ![s].row = "gone"]
    /\ UNCHANGED <<users, tokens, ops, tasks, ghost>>

-----------------------------------------------------------------------------
Init ==
    /\ users \in [Users -> [quota : InitialQuotas, row : {"live"}]]
    /\ tokens \in [Tokens -> InitialTokens]
    /\ subs \in [Subs -> InitialSubs]
    /\ ops = [o \in OpIds |-> NoOperation]
    /\ \E legacy \in [LegacyTasks -> LegacyRows] :
        tasks = [k \in Tasks |-> IF k \in LegacyTasks THEN legacy[k] ELSE NoTask]
    /\ funded = [u \in Users |-> users[u].quota]
    /\ outside = [t \in Tokens |-> tokens[t].used]
    /\ forgiven = [s \in Subs |-> -subs[s].used]

\* Request handlers (service/billing_session.go) in any order, with any
\* repetition.
RequestNext ==
    \E r \in Requests :
        \/ \E u \in Users, t \in Tokens \cup {Unset}, q \in Quota :
            \/ ReserveFromWallet(r, u, t, q)
            \/ ReserveFromSubscription(r, u, t, q)
        \/ \E q \in Quota : AdjustBillingOperationReservation(r, q)
        \/ \E q \in Quota : SettleBillingOperation(r, q)
        \/ RefundBillingOperation(r)

TaskNext ==
    \E k \in Tasks, q \in Quota :
        \/ \E r \in Requests : CreateTaskWithBillingOperation(k, r, q)
        \/ \E from \in TaskRunning, to \in TaskDone :
            ApplyTaskBillingTransition(k, from, to, q)

UserNext ==
    \E u \in Users :
        \/ \E amount \in Amounts : ChangeUserQuota(u, amount)
        \/ \E row \in {"soft", "gone"} : DeleteUser(u, row)

TokenNext ==
    \E t \in Tokens :
        \/ \E amount \in Amounts : ChangeTokenQuota(t, amount)
        \/ \E seenStatus \in TokenStatuses, remain \in Remains,
              unlimited, expired \in BOOLEAN :
            UpdateToken(t, seenStatus, remain, unlimited, expired)
        \/ \E status \in TokenStatuses : UpdateTokenStatus(t, status)
        \/ TokenExpires(t)
        \/ PersistTokenInvalidStatus(t)
        \/ DeleteToken(t)

SubscriptionNext ==
    \E s \in Subs :
        \/ SubscriptionFallsDue(s)
        \/ \E advance \in BOOLEAN : ResetUserSubscription(s, advance)
        \/ EndSubscription(s)
        \/ AdminDeleteUserSubscription(s)

Next == RequestNext \/ TaskNext \/ UserNext \/ TokenNext \/ SubscriptionNext

Spec == Init /\ [][Next]_vars

-----------------------------------------------------------------------------
(* Properties *)

\* What an operation charges in its present state.
Held(op) == IF op.status = "reserved" THEN op.reserved ELSE op.actual

Closed == {"settled", "refunded", "abandoned"}

\* Every row has the columns and ranges the code gives it.
TypeOK ==
    /\ users \in [Users -> UserRow]
    /\ tokens \in [Tokens -> TokenRow]
    /\ subs \in [Subs -> SubRow]
    /\ ops \in [OpIds -> Operation]
    /\ tasks \in [Tasks -> TaskRow]
    /\ funded \in [Users -> Int]
    /\ outside \in [Tokens -> Int]
    /\ forgiven \in [Subs -> Int]

\* A closed operation is never written again: however often and in whatever
\* order settle, refund and adjust are called afterwards, by request handlers
\* and by task pollers, the stored outcome stays (the status switch of
\* transitionBillingOperationTx and the check of adjust...Tx).
ClosedIsFinal ==
    [][\A o \in OpIds : ops[o].status \in Closed => ops'[o] = ops[o]]_vars

RightPrice(op) ==
    /\ op.status = "settled" =>
        /\ op.actual <= op.requested
        /\ op.limited <=> op.actual < op.requested
        /\ op.limited => op.actual >= op.reserved
    /\ op.status = "refunded" => op.actual = 0
    /\ op.status = "abandoned" => op.actual = op.reserved /\ op.limited

\* What a settled request pays: never more than it asked for, less only when
\* the row is marked as limited, and then never less than what was already
\* reserved.  A refunded one pays nothing, an abandoned one what it had
\* reserved (transitionBillingOperationTx, abandonBillingOperation).
ClosedAtTheRightPrice == \A o \in OpIds : RightPrice(ops[o])

\* The accounts of the ledger: a wallet, a subscription's used amount and a
\* token's used amount, each without what was moved outside operations.
Account(kind, id) == [kind |-> kind, id |-> id]
Accounts ==
    {Account("wallet", u) : u \in Users} \cup {Account("token", t) : t \in Tokens}
    \cup {Account("subscription", s) : s \in Subs}

BalanceOf(a) ==
    CASE a.kind = "wallet" -> users[a.id].quota - funded[a.id]
      [] a.kind = "token" -> outside[a.id] - tokens[a.id].used
      [] a.kind = "subscription" -> -(subs[a.id].used + forgiven[a.id])

PayersOf(op) ==
    IF op.status = "none" THEN {}
    ELSE {Account(op.funding, IF op.funding = "wallet" THEN op.user ELSE op.sub)}
         \cup {Account("token", t) : t \in {op.token} \ {Unset}}

\* The units of quota that operations hold from account a, and their number: the
\* sum of the charges, over all operations, that are drawn on it.
UnitsFrom(a) ==
    {unit \in OpIds \X (1..MaxQuota) :
        a \in PayersOf(ops[unit[1]]) /\ unit[2] <= Held(ops[unit[1]])}
Charged(kind, id) == Cardinality(UnitsFrom(Account(kind, id)))

\* No quota is created or lost, through every interleaving of reservations,
\* adjustments, settlements, refunds, adoptions, resets, edits and deletions: what
\* was funded from outside is the wallet's balance plus what operations hold of
\* it; used_quota of a token is what operations charge to it plus what was recorded
\* outside them; and amount_used of a subscription is what operations charge to
\* it, less what resets wiped.
QuotaIsConserved ==
    /\ \A u \in Users : users[u].quota + Charged("wallet", u) = funded[u]
    /\ \A t \in Tokens : tokens[t].used = Charged("token", t) + outside[t]
    /\ \A s \in Subs : subs[s].used + forgiven[s] = Charged("subscription", s)

StageOf(op) ==
    CASE op.status = "none" -> "new" [] op.status = "reserved" -> "open" [] OTHER -> "closed"

Ledger == INSTANCE Escrow WITH
    Operations <- OpIds, MaxCharge <- MaxQuota,
    stage <- [o \in OpIds |-> StageOf(ops[o])],
    charge <- [o \in OpIds |-> Held(ops[o])],
    payers <- [o \in OpIds |-> PayersOf(ops[o])],
    balance <- [a \in Accounts |-> BalanceOf(a)]

\* Billing implements the ledger: through every interleaving, with clipping,
\* resets, adoptions, purged owners and edits, each step of the system is one
\* charge of one operation to its own accounts, or no charge at all.
ImplementsEscrow == Ledger!Spec

\* The charge an operation had before a step; a legacy task has already paid
\* its quota when it is adopted.
HeldBefore(o) ==
    IF o \in Tasks /\ ops[o].status = "none" THEN tasks[o].quota ELSE Held(ops[o])

\* Whenever a transaction writes an operation, the wallet, the subscription
\* and both columns of the token move by exactly the change of that
\* operation's charge, no other operation is written, and no other row moves
\* (the deltas of applyBillingOperationDeltaTx and ReserveBillingOperation).
\* Usage wiped by a reset inside the transaction is counted in forgiven.
ChargeMovesExactly ==
    [][\A o \in OpIds :
        LET op == ops'[o]
            change == Held(op) - HeldBefore(o)
            forWallet(u) == IF op.funding = "wallet" /\ op.user = u THEN change ELSE 0
            forToken(t) == IF op.token = t THEN change ELSE 0
            forRemain(t) == IF op.remainCharged THEN forToken(t) ELSE 0
            forSub(s) == IF op.funding = "subscription" /\ op.sub = s
                         THEN Held(op) - Held(ops[o]) ELSE 0
        IN  op # ops[o] =>
            /\ \A p \in OpIds \ {o} : ops'[p] = ops[p]
            /\ \A u \in Users : users'[u].quota = users[u].quota - forWallet(u)
            /\ \A t \in Tokens :
                /\ tokens'[t].used = tokens[t].used + forToken(t)
                /\ tokens'[t].remain = tokens[t].remain - forRemain(t)
            /\ \A s \in Subs :
                subs'[s].used + forgiven'[s] = subs[s].used + forgiven[s] + forSub(s)]_vars

\* A finished task and its operation agree: the operation is closed, belongs
\* to this task or to none, and the task row shows what was finally charged
\* (ApplyTaskBillingTransition writes both in one transaction).
FinishedTaskIsBilled ==
    \A k \in Tasks : tasks[k].status \in TaskDone /\ tasks[k].op # Unset =>
        LET op == ops[tasks[k].op] IN
        /\ op.status \in Closed
        /\ op.task \in {Unset, k}
        /\ tasks[k].quota = op.actual

\* Two tasks never share an operation, and the link is mutual while the
\* operation names a task (the TaskId check of CreateTaskWithBillingOperation).
OperationServesOneTask ==
    /\ \A k, l \in Tasks : tasks[k].op # Unset /\ tasks[k].op = tasks[l].op => k = l
    /\ \A o \in OpIds : ops[o].task # Unset => tasks[ops[o].task].op = o

\* The use of a subscription never goes below zero, and that of a capped one
\* never beyond its total, whatever mixture of reservations, settlements,
\* refunds and resets runs over it.
SubscriptionWithinTotal ==
    \A s \in Subs :
        /\ subs[s].used >= 0
        /\ subs[s].total > 0 => subs[s].used <= subs[s].total

\* No billing transaction overdraws a wallet or a limited token: what it
\* takes was there (the quota >= ? and remain_quota >= ? conditions).
NoOverdraft ==
    [][ops' # ops =>
        /\ \A u \in Users : users'[u].quota < users[u].quota => users'[u].quota >= 0
        /\ \A t \in Tokens :
            tokens'[t].remain < tokens[t].remain => tokens'[t].remain >= 0]_vars

\* "All paths that give remain_quota back to a token must call it, or the token
\* stays unusable after the refund" (RestoreExhaustedTokenIfFunded): a step
\* that closes or lowers a charge leaves no live, unexpired token exhausted
\* with quota to spend.
RefundRevivesToken ==
    [][\A t \in Tokens :
        (\E o \in OpIds : ops'[o] # ops[o]) /\ tokens'[t].remain > tokens[t].remain =>
            ~(/\ tokens'[t].status = "exhausted" /\ tokens'[t].remain > 0
              /\ tokens'[t].row = "live" /\ ~tokens'[t].expired)]_vars

\* What the comment of BillingSession.Refund says of a reservation: the refund
\* reverses it, or abandons it when an owner is gone; only a failing database
\* keeps it from closing.  (Refuted: the run shows a reservation that every
\* refund refuses.)
ReservationCanBeRefunded ==
    \A o \in OpIds : ops[o].status = "reserved" =>
        ~RowsPresent(ops[o]) \/ DeltaFits(ops[o], -ops[o].reserved)

=============================================================================
