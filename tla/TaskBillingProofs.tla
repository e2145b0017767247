--------------------------- MODULE TaskBillingProofs ---------------------------
(***************************************************************************)
(* Tasks and their operations, the cap of subscriptions, and the way of a  *)
(* task from submission to its end with all its workers: for every set of  *)
(* users, tokens, subscriptions, requests, tasks and workers.              *)
(***************************************************************************)
EXTENDS TaskBilling, BillingOperationProofs

\* The link between a task and its operation is mutual, a task without a row
\* has none, and an operation under a task's own id is that task's.
LinkInv ==
    /\ \A k \in Tasks : tasks[k].op # Unset => ops[tasks[k].op].task = k
    /\ \A o \in OpIds : ops[o].task # Unset => tasks[ops[o].task].op = o
    /\ \A k \in Tasks : ops[k].status # "none" => ops[k].task = k
    /\ \A k \in Tasks : tasks[k].status = "none" => tasks[k].op = Unset

TaskInv == PriceInv /\ LinkInv /\ FinishedTaskIsBilled

-----------------------------------------------------------------------------
(* What the transactions do to the links. *)

\* transitionBillingOperationTx saves the row with the task it has, and writes
\* no other operation.
LEMMA TransitionKeepsTask ==
    ASSUME TypeInv, NEW o \in OpIds, NEW op \in Operation,
           op.status # "reserved" => op = ops[o],
           NEW requested, NEW outcome, NEW abandon,
           Transition(o, op, requested, outcome, abandon)
    PROVE  ops'[o].task = op.task /\ \A p \in OpIds \ {o} : ops'[p] = ops[p]
<1>1. ASSUME NEW new, new.task = op.task, ops' = [ops EXCEPT ![o] = new]
      PROVE  ops'[o].task = op.task /\ \A p \in OpIds \ {o} : ops'[p] = ops[p]
  BY <1>1 DEF TypeInv, TypeOK
<1>2. \A delta : Settled(op, requested, delta).task = op.task
  BY DEF Settled, Operation
<1>3. Refunded(op).task = op.task /\ Abandoned(op, requested).task = op.task
  BY DEF Refunded, Abandoned, Operation
<1>4. CASE Replays(op, requested, outcome) /\ UNCHANGED <<ops, rows>>
  <2>1. op = ops[o] BY <1>4 DEF Replays
  <2> QED BY <1>4, <2>1
<1>5. ASSUME NEW delta, \/ ops' = [ops EXCEPT ![o] = Settled(op, requested, delta)]
                        \/ ops' = [ops EXCEPT ![o] = Refunded(op)]
                        \/ ops' = [ops EXCEPT ![o] = Abandoned(op, requested)]
      PROVE  ops'[o].task = op.task /\ \A p \in OpIds \ {o} : ops'[p] = ops[p]
  BY <1>1, <1>2, <1>3, <1>5
<1> QED BY <1>4, <1>5 DEF Transition

\* adjustBillingOperationReservationTx saves the row with the given task.
LEMMA AdjustSetsTask ==
    ASSUME TypeInv, NEW o \in OpIds, NEW target, NEW k, AdjustReservation(o, target, k)
    PROVE  ops'[o].task = k
<1>1. ops[o] \in Operation /\ ops \in [OpIds -> Operation] BY DEF TypeInv, TypeOK
<1>2. ASSUME NEW new, new.task = k, ops' = [ops EXCEPT ![o] = new]
      PROVE  ops'[o].task = k
  BY <1>1, <1>2
<1>3. [ops[o] EXCEPT !.task = k].task = k BY <1>1 DEF Operation
<1>4. [ops[o] EXCEPT !.requested = target, !.limited = TRUE, !.task = k].task = k
  BY <1>1 DEF Operation
<1> DEFINE d == AppliedDelta(ops[o], target)
           l == d # target - ops[o].reserved
<1>5. [ops[o] EXCEPT !.reserved = @ + d, !.requested = target, !.limited = l, !.task = k].task = k
  <2> HIDE DEF d, l
  <2> QED BY <1>1 DEF Operation
<1>6. CASE ops' = [ops EXCEPT ![o].task = k] BY <1>1, <1>2, <1>3, <1>6
<1>7. CASE ops' = [ops EXCEPT ![o] = [ops[o] EXCEPT !.requested = target, !.limited = TRUE, !.task = k]]
  BY <1>2, <1>4, <1>7
<1>8. CASE ops' = [ops EXCEPT ![o] = [ops[o] EXCEPT !.reserved = @ + d, !.requested = target,
                                                    !.limited = l, !.task = k]]
  <2> HIDE DEF d, l
  <2> QED BY <1>2, <1>5, <1>8
<1> QED BY <1>6, <1>7, <1>8, Zenon DEF AdjustReservation

\* A step of a request handler writes one operation, which keeps its task: a new
\* one has none.
LEMMA RequestKeepsTask ==
    ASSUME TypeInv, RequestNext
    PROVE  /\ UNCHANGED tasks
           /\ \E r \in Requests :
                /\ \A p \in OpIds \ {r} : ops'[p] = ops[p]
                /\ IF ops[r].status = "none" THEN ops'[r].task = Unset
                   ELSE ops'[r].task = ops[r].task
<1>1. PICK r \in Requests :
        \/ \E u \in Users, t \in Tokens \cup {Unset}, q \in Quota :
            \/ ReserveFromWallet(r, u, t, q)
            \/ ReserveFromSubscription(r, u, t, q)
        \/ \E q \in Quota : AdjustBillingOperationReservation(r, q)
        \/ \E q \in Quota : SettleBillingOperation(r, q)
        \/ RefundBillingOperation(r)
  BY DEF RequestNext
<1>2. r \in OpIds /\ ops \in [OpIds -> Operation] /\ ops[r] \in Operation
  BY DEF OpIds, TypeInv, TypeOK
<1>3. UNCHANGED tasks
  BY <1>1 DEF ReserveFromWallet, ReserveFromSubscription, AdjustBillingOperationReservation,
              SettleBillingOperation, RefundBillingOperation
<1>4. ASSUME NEW u, NEW t, NEW q, ReserveFromWallet(r, u, t, q) \/ ReserveFromSubscription(r, u, t, q)
      PROVE  /\ \A p \in OpIds \ {r} : ops'[p] = ops[p]
             /\ ops[r].status = "none" /\ ops'[r].task = Unset
  <2>1. \A f, s : NewOperation(u, t, f, s, q).task = Unset
    BY DEF NewOperation, NoOperation
  <2>2. PICK f, s : ops' = [ops EXCEPT ![r] = NewOperation(u, t, f, s, q)]
    BY <1>4, Zenon DEF ReserveFromWallet, ReserveFromSubscription
  <2>3. ops[r].status = "none" BY <1>4 DEF ReserveFromWallet, ReserveFromSubscription
  <2> QED BY <1>2, <2>1, <2>2, <2>3
<1>5. ASSUME NEW q \in Quota, AdjustBillingOperationReservation(r, q)
      PROVE  /\ \A p \in OpIds \ {r} : ops'[p] = ops[p]
             /\ ops[r].status # "none" /\ ops'[r].task = ops[r].task
  <2>1. AdjustReservation(r, q, ops[r].task) /\ ops[r].task \in Tasks \cup {Unset}
    BY <1>2, <1>5 DEF AdjustBillingOperationReservation, Operation
  <2>2. ops[r].status = "reserved" BY <2>1 DEF AdjustReservation, Open
  <2> QED BY <1>2, <2>1, <2>2, AdjustSetsTask, AdjustType
<1>6. ASSUME NEW q, NEW outcome, Transition(r, ops[r], q, outcome, FALSE)
      PROVE  /\ \A p \in OpIds \ {r} : ops'[p] = ops[p]
             /\ ops[r].status # "none" /\ ops'[r].task = ops[r].task
  <2>1. ops[r].status # "none" BY <1>6 DEF Transition, Replays, Open
  <2> QED BY <1>2, <1>6, <2>1, TransitionKeepsTask
<1> QED BY <1>1, <1>3, <1>4, <1>5, <1>6 DEF SettleBillingOperation, RefundBillingOperation

\* The rest of the system writes neither operations nor tasks.
LEMMA OutsideKeepsTasks ==
    ASSUME UserNext \/ TokenNext \/ SubscriptionNext
    PROVE  UNCHANGED <<ops, tasks>>
<1>1. ASSUME UserNext PROVE UNCHANGED <<ops, tasks>>
  BY <1>1 DEF UserNext, ChangeUserQuota, DeleteUser
<1>2. ASSUME TokenNext PROVE UNCHANGED <<ops, tasks>>
  <2>1. ASSUME NEW t, NEW row, WriteToken(t, row) PROVE UNCHANGED <<ops, tasks>>
    BY <2>1 DEF WriteToken
  <2>2. ASSUME NEW t, NEW status, UpdateTokenStatus(t, status) PROVE UNCHANGED <<ops, tasks>>
    BY <2>1, <2>2 DEF UpdateTokenStatus
  <2>3. ASSUME NEW t, NEW seenStatus, NEW remain, NEW unlimited, NEW expired,
               UpdateToken(t, seenStatus, remain, unlimited, expired)
        PROVE  UNCHANGED <<ops, tasks>>
    BY <2>1, <2>3 DEF UpdateToken
  <2> QED BY <1>2, <2>2, <2>3 DEF TokenNext, ChangeTokenQuota, TokenExpires,
            PersistTokenInvalidStatus, DeleteToken
<1>3. ASSUME SubscriptionNext PROVE UNCHANGED <<ops, tasks>>
  BY <1>3 DEF SubscriptionNext, SubscriptionFallsDue, ResetUserSubscription,
       EndSubscription, AdminDeleteUserSubscription
<1> QED BY <1>1, <1>2, <1>3

\* How ApplyTaskBillingTransition ends task k: without billing, if it is an old
\* one, or together with the operation that is linked to it, which it closes.
LEMMA TaskTransitionEffect ==
    ASSUME TypeInv, LinkInv, NEW k \in Tasks, NEW from \in TaskRunning, NEW to \in TaskDone,
           NEW q \in Quota, ApplyTaskBillingTransition(k, from, to, q)
    PROVE  /\ tasks'[k].status = to
           /\ \A l \in Tasks \ {k} : tasks'[l] = tasks[l]
           /\ \/ /\ UNCHANGED ops
                 /\ tasks[k].op = Unset /\ tasks'[k].op = Unset
              \/ \E o \in OpIds :
                 /\ o = tasks[k].op \/ (tasks[k].op = Unset /\ o = k /\ ops[k].status = "none")
                 /\ tasks'[k].op = o /\ tasks'[k].quota = ops'[o].actual
                 /\ ops'[o].task = k /\ ops'[o].status \in Closed
                 /\ \A p \in OpIds \ {o} : ops'[p] = ops[p]
<1> DEFINE o == OperationOf(k)
           op == AdoptedOperation(k)
<1>1. tasks[k] \in TaskRow /\ tasks[k].status # "none" /\ tasks \in [Tasks -> TaskRow]
  BY DEF ApplyTaskBillingTransition, MayEnd, TaskDone, TypeInv, TypeOK
<1>2. /\ o \in OpIds /\ op \in Operation /\ Owned(op) /\ op.status # "none"
      /\ op.status # "reserved" => op = ops[o]
  BY <1>1, AdoptedType
<1>3. CASE /\ LegacyNoRefund(k, OutcomeOf(to))
           /\ tasks' = [tasks EXCEPT ![k].status = to, ![k].quota = 0]
           /\ UNCHANGED <<users, tokens, subs, ops, ghost>>
  BY <1>1, <1>3 DEF LegacyNoRefund, TaskRow
<1>4. CASE /\ Transition(o, op, q, OutcomeOf(to), TRUE)
           /\ tasks' = [tasks EXCEPT ![k].status = to, ![k].op = o,
                                     ![k].quota = ops'[o].actual]
  <2>1. o = tasks[k].op \/ (tasks[k].op = Unset /\ o = k /\ ops[k].status = "none")
    <3>1. k \in OpIds /\ k # Unset BY IdAssumption DEF OpIds
    <3>2. CASE tasks[k].op = Unset
      <4>1. ops[k].task # k BY <3>1, <3>2 DEF LinkInv
      <4>2. ops[k].status = "none" BY <4>1 DEF LinkInv
      <4> QED BY <3>2, <4>2 DEF OperationOf
    <3> QED BY <3>2 DEF OperationOf
  <2>2. op.task = k
    <3>1. CASE Adopts(k) BY <3>1 DEF AdoptedOperation, NoOperation
    <3>2. CASE ~Adopts(k)
      <4>1. tasks[k].op # Unset /\ op = ops[tasks[k].op]
        BY <1>2, <2>1, <3>2, IdAssumption DEF Adopts, AdoptedOperation, OperationOf
      <4> QED BY <4>1 DEF LinkInv
    <3> QED BY <3>1, <3>2
  <2> HIDE DEF o, op
  <2>3. ops'[o].task = k /\ \A p \in OpIds \ {o} : ops'[p] = ops[p]
    BY <1>2, <1>4, <2>2, TransitionKeepsTask
  <2>4. OutcomeOf(to) \in Outcomes BY DEF OutcomeOf, Outcomes
  <2>5. ops'[o].status \in Closed
    BY <1>2, <1>4, <2>4, TransitionType
  <2>6. /\ tasks'[k].status = to /\ tasks'[k].op = o /\ tasks'[k].quota = ops'[o].actual
        /\ \A l \in Tasks \ {k} : tasks'[l] = tasks[l]
    BY <1>1, <1>4 DEF TaskRow
  <2> QED BY <1>2, <2>1, <2>3, <2>5, <2>6
<1> QED BY <1>3, <1>4 DEF ApplyTaskBillingTransition

-----------------------------------------------------------------------------
(* The links. *)

LEMMA LinkStep == TypeInv /\ LinkInv /\ [Next]_vars => LinkInv'
<1> SUFFICES ASSUME TypeInv, LinkInv, [Next]_vars PROVE LinkInv' OBVIOUS
<1>0. /\ \A k \in Tasks : tasks[k].op \in OpIds \cup {Unset}
      /\ \A k \in Tasks : tasks[k].op # Unset => ops[tasks[k].op].status # "none"
      /\ Unset \notin OpIds /\ Tasks \subseteq OpIds /\ Requests \subseteq OpIds
      /\ Requests \cap Tasks = {}
  BY IdAssumption DEF TypeInv, TypeOK, TasksOwned, TaskRow, OpIds
<1>5. \A o \in OpIds : ops[o].task \in Tasks \cup {Unset}
  BY DEF TypeInv, TypeOK, Operation
<1>1. CASE UNCHANGED <<ops, tasks>> BY <1>1 DEF LinkInv
<1>2. CASE RequestNext
  <2>1. UNCHANGED tasks BY <1>2, RequestKeepsTask
  <2>2. PICK r \in Requests :
          /\ \A p \in OpIds \ {r} : ops'[p] = ops[p]
          /\ IF ops[r].status = "none" THEN ops'[r].task = Unset ELSE ops'[r].task = ops[r].task
    BY <1>2, RequestKeepsTask
  <2>3. \A k \in Tasks : ops'[k] = ops[k] BY <1>0, <2>2
  <2> QED BY <1>0, <2>1, <2>2, <2>3 DEF LinkInv
<1>3. ASSUME NEW k \in Tasks, NEW r \in Requests, NEW q \in Quota,
             CreateTaskWithBillingOperation(k, r, q)
      PROVE  LinkInv'
  <2>1. AdjustReservation(r, q, k) /\ ops[r].task = Unset /\ tasks[k].status = "none"
    BY <1>3 DEF CreateTaskWithBillingOperation, Linkable
  <2>2. ops'[r].task = k /\ \A p \in OpIds \ {r} : ops'[p] = ops[p]
    BY <1>0, <2>1, AdjustSetsTask, AdjustType
  <2>3. /\ tasks'[k].op = r /\ tasks'[k].status = "submitted"
        /\ \A l \in Tasks \ {k} : tasks'[l] = tasks[l]
    BY <1>3 DEF CreateTaskWithBillingOperation, TypeInv, TypeOK
  <2>4. tasks[k].op = Unset /\ \A o \in OpIds : ops[o].task # k
    BY <1>0, <2>1 DEF LinkInv
  <2>5. \A l \in Tasks : tasks[l].op # r
    BY <1>0, <2>1 DEF LinkInv
  <2>6. \A l \in Tasks : ops'[l] = ops[l] BY <1>0, <2>2
  <2>7. \A l \in Tasks : tasks'[l].op # Unset => ops'[tasks'[l].op].task = l
    BY <1>0, <2>2, <2>3, <2>5 DEF LinkInv
  <2>8. \A o \in OpIds : ops'[o].task # Unset => tasks'[ops'[o].task].op = o
    BY <1>0, <1>5, <2>2, <2>3, <2>4 DEF LinkInv
  <2>9. \A l \in Tasks : ops'[l].status # "none" => ops'[l].task = l
    BY <2>6 DEF LinkInv
  <2>10. \A l \in Tasks : tasks'[l].status = "none" => tasks'[l].op = Unset
    BY <2>3 DEF LinkInv
  <2> QED BY <2>7, <2>8, <2>9, <2>10 DEF LinkInv
<1>4. ASSUME NEW k \in Tasks, NEW from \in TaskRunning, NEW to \in TaskDone, NEW q \in Quota,
             ApplyTaskBillingTransition(k, from, to, q)
      PROVE  LinkInv'
  <2>1. /\ tasks'[k].status = to /\ to # "none"
        /\ \A l \in Tasks \ {k} : tasks'[l] = tasks[l]
    BY <1>4, TaskTransitionEffect DEF TaskDone
  <2>2. CASE UNCHANGED ops /\ tasks[k].op = Unset /\ tasks'[k].op = Unset
    <3>1. \A l \in Tasks : tasks'[l].op = tasks[l].op BY <2>1, <2>2
    <3> QED BY <1>0, <1>5, <2>1, <2>2, <3>1 DEF LinkInv
  <2>3. ASSUME NEW o \in OpIds,
               o = tasks[k].op \/ (tasks[k].op = Unset /\ o = k /\ ops[k].status = "none"),
               tasks'[k].op = o, ops'[o].task = k,
               \A p \in OpIds \ {o} : ops'[p] = ops[p]
        PROVE  LinkInv'
    <3>1. \A l \in Tasks \ {k} : tasks[l].op # o
      BY <1>0, <2>3 DEF LinkInv
    <3>2. \A p \in OpIds \ {o} : ops[p].task # k
      BY <1>0, <2>3 DEF LinkInv
    <3>3. \A l \in Tasks : tasks'[l].op # Unset => ops'[tasks'[l].op].task = l
      BY <1>0, <2>1, <2>3, <3>1 DEF LinkInv
    <3>4. \A p \in OpIds : ops'[p].task # Unset => tasks'[ops'[p].task].op = p
      BY <1>0, <1>5, <2>1, <2>3, <3>2 DEF LinkInv
    <3>5. \A l \in Tasks : ops'[l].status # "none" => ops'[l].task = l
      <4> SUFFICES ASSUME NEW l \in Tasks, ops'[l].status # "none" PROVE ops'[l].task = l
        OBVIOUS
      <4>1. CASE l = o
        <5>1. CASE ops[l].status = "none" BY <1>0, <2>3, <4>1, <5>1
        <5>2. CASE ops[l].status # "none"
          BY <1>0, <2>3, <4>1, <5>2 DEF LinkInv
        <5> QED BY <5>1, <5>2
      <4>2. CASE l # o BY <1>0, <2>3, <4>2 DEF LinkInv
      <4> QED BY <4>1, <4>2
    <3>6. \A l \in Tasks : tasks'[l].status = "none" => tasks'[l].op = Unset
      BY <2>1 DEF LinkInv
    <3> QED BY <3>3, <3>4, <3>5, <3>6 DEF LinkInv
  <2> QED BY <1>4, <2>2, <2>3, TaskTransitionEffect
<1> QED BY <1>1, <1>2, <1>3, <1>4, OutsideKeepsTasks DEF Next, TaskNext, vars

LEMMA LinkInit == Init => LinkInv
<1> SUFFICES ASSUME Init PROVE LinkInv OBVIOUS
<1>1. \A o \in OpIds : ops[o] = NoOperation BY DEF Init
<1>2. PICK legacy \in [LegacyTasks -> LegacyRows] :
        tasks = [k \in Tasks |-> IF k \in LegacyTasks THEN legacy[k] ELSE NoTask]
  BY DEF Init
<1>3. \A k \in Tasks : tasks[k].op = Unset
  BY <1>2, InitialAssumption DEF NoTask
<1> QED BY <1>1, <1>3 DEF LinkInv, NoOperation, OpIds

-----------------------------------------------------------------------------
(* Finished tasks. *)

LEMMA BilledStep == TaskInv /\ [Next]_vars => FinishedTaskIsBilled'
<1> SUFFICES ASSUME TaskInv, [Next]_vars,
                    NEW l \in Tasks, tasks'[l].status \in TaskDone, tasks'[l].op # Unset
             PROVE  /\ ops'[tasks'[l].op].status \in Closed
                    /\ ops'[tasks'[l].op].task \in {Unset, l}
                    /\ tasks'[l].quota = ops'[tasks'[l].op].actual
  BY DEF FinishedTaskIsBilled
<1>0. TypeInv /\ LinkInv /\ FinishedTaskIsBilled /\ Final
      /\ tasks[l].op \in OpIds \cup {Unset}
  BY PriceStep DEF TaskInv, PriceInv, TypeInv, TypeOK, TaskRow
<1>1. CASE tasks'[l] = tasks[l]
  BY <1>0, <1>1 DEF FinishedTaskIsBilled, Final
<1>2. ASSUME NEW k \in Tasks, NEW r \in Requests, NEW q \in Quota,
             CreateTaskWithBillingOperation(k, r, q)
      PROVE  tasks'[l] = tasks[l]
  BY <1>0, <1>2 DEF CreateTaskWithBillingOperation, TypeInv, TypeOK, TaskDone
<1>3. ASSUME NEW k \in Tasks, NEW from \in TaskRunning, NEW to \in TaskDone, NEW q \in Quota,
             ApplyTaskBillingTransition(k, from, to, q), tasks'[l] # tasks[l]
      PROVE  \E o \in OpIds : /\ tasks'[l].op = o /\ tasks'[l].quota = ops'[o].actual
                              /\ ops'[o].task = l /\ ops'[o].status \in Closed
  <2>1. l = k BY <1>0, <1>3, TaskTransitionEffect
  <2> QED BY <1>0, <1>3, <2>1, TaskTransitionEffect
<1>4. ASSUME RequestNext \/ UserNext \/ TokenNext \/ SubscriptionNext \/ UNCHANGED vars
      PROVE  tasks'[l] = tasks[l]
  BY <1>0, <1>4, RequestKeepsTask, OutsideKeepsTasks DEF vars
<1> QED BY <1>1, <1>2, <1>3, <1>4 DEF Next, TaskNext

LEMMA TaskInvariant == Spec => []TaskInv
<1>1. Init => TaskInv
  <2> SUFFICES ASSUME Init PROVE FinishedTaskIsBilled
    BY PriceInit, LinkInit DEF TaskInv
  <2>1. PICK legacy \in [LegacyTasks -> LegacyRows] :
          tasks = [k \in Tasks |-> IF k \in LegacyTasks THEN legacy[k] ELSE NoTask]
    BY DEF Init
  <2>2. \A k \in Tasks : tasks[k].op = Unset
    BY <2>1, InitialAssumption DEF NoTask
  <2> QED BY <2>2 DEF FinishedTaskIsBilled
<1>2. TaskInv /\ [Next]_vars => TaskInv'
  <2> SUFFICES ASSUME TaskInv, [Next]_vars PROVE TaskInv' OBVIOUS
  <2>1. PriceInv' BY PriceStep DEF TaskInv
  <2>2. LinkInv' BY LinkStep DEF TaskInv, PriceInv
  <2>3. FinishedTaskIsBilled' BY BilledStep
  <2> QED BY <2>1, <2>2, <2>3 DEF TaskInv
<1> QED BY <1>1, <1>2, PTL DEF Spec

\* For any number of tasks and requests, two tasks never share an operation and
\* the link between a task and its operation is mutual: the TaskId check of
\* CreateTaskWithBillingOperation and the adoption of legacy tasks.
THEOREM OneTaskPerOperation == Spec => []OperationServesOneTask
<1>1. TaskInv => OperationServesOneTask
  BY DEF TaskInv, LinkInv, OperationServesOneTask
<1> QED BY <1>1, TaskInvariant, PTL

\* For any number of tasks and requests, a finished task is billed: its
\* operation is closed for good at the price the task row shows, because
\* ApplyTaskBillingTransition writes both in one transaction and nothing writes
\* a closed operation again.
THEOREM FinishedTasksAreBilled == Spec => []FinishedTaskIsBilled
<1>1. TaskInv => FinishedTaskIsBilled BY DEF TaskInv
<1> QED BY <1>1, TaskInvariant, PTL

-----------------------------------------------------------------------------
(* The cap of subscriptions. *)

Capped == \A s \in Subs : subs[s].total > 0 => subs[s].used <= subs[s].total

\* applyBillingOperationDeltaTx checks the cap before it changes amount_used.
LEMMA ApplyDeltaCapped ==
    ASSUME TypeOK, Capped, NEW op \in Operation, Owned(op), NEW delta \in Int, ApplyDelta(op, delta)
    PROVE  Capped'
<1> SUFFICES ASSUME NEW s \in Subs, subs'[s].total > 0 PROVE subs'[s].used <= subs'[s].total
  BY DEF Capped
<1>1. subs[s] \in SubRow /\ subs \in [Subs -> SubRow] BY DEF TypeOK
<1>2. CASE op.funding = "subscription" /\ op.sub = s
  <2>1. subs'[s] = [subs[s] EXCEPT !.used = @ + delta] BY <1>1, <1>2 DEF ApplyDelta
  <2>2. subs'[s].used = subs[s].used + delta /\ subs'[s].total = subs[s].total
    BY <1>1, <2>1 DEF SubRow
  <2>3. CASE delta = 0 BY <1>1, <2>2, <2>3 DEF Capped, SubRow
  <2>4. CASE delta # 0 BY <1>2, <2>2, <2>4 DEF ApplyDelta, DeltaFits, FundingFits
  <2> QED BY <2>3, <2>4
<1>3. CASE ~(op.funding = "subscription" /\ op.sub = s)
  <2>1. subs'[s] = subs[s] BY <1>1, <1>3 DEF ApplyDelta, Owned
  <2> QED BY <2>1 DEF Capped
<1> QED BY <1>2, <1>3

LEMMA TransitionCapped ==
    ASSUME TypeOK, Capped, NEW o, NEW op \in Operation, Owned(op),
           NEW requested \in Quota, NEW outcome \in Outcomes, NEW abandon,
           Transition(o, op, requested, outcome, abandon)
    PROVE  Capped'
<1> DEFINE delta == IF outcome = "settle" THEN AppliedDelta(op, requested) ELSE -op.reserved
<1>1. op.reserved \in Int BY QuotaAssumption DEF Operation, Quota
<1>2. delta \in Int BY <1>1, AppliedDeltaRange
<1>3. CASE ApplyDelta(op, delta)
  <2> HIDE DEF delta
  <2> QED BY <1>2, <1>3, ApplyDeltaCapped
<1>4. CASE UNCHANGED rows BY <1>4 DEF Capped, rows
<1> QED BY <1>3, <1>4 DEF Transition

LEMMA AdjustCapped ==
    ASSUME TypeInv, Capped, NEW o \in OpIds, NEW target \in Quota, NEW k, AdjustReservation(o, target, k)
    PROVE  Capped'
<1>1. ops[o] \in Operation /\ Owned(ops[o])
  BY DEF TypeInv, TypeOK, OpsOwned, AdjustReservation, Open
<1>2. AppliedDelta(ops[o], target) \in Int
  BY <1>1, AppliedDeltaRange DEF TypeInv
<1>3. CASE ApplyDelta(ops[o], AppliedDelta(ops[o], target))
  BY <1>1, <1>2, <1>3, ApplyDeltaCapped DEF TypeInv
<1>4. CASE UNCHANGED rows BY <1>4 DEF Capped, rows
<1> QED BY <1>3, <1>4 DEF AdjustReservation

\* selectBillingSubscriptionTx takes a subscription whose room, after its reset,
\* covers the quota.
LEMMA ReserveCapped ==
    ASSUME TypeInv, Capped, NEW r, NEW u, NEW t, NEW quota \in Quota,
           ReserveFromSubscription(r, u, t, quota)
    PROVE  Capped'
<1>1. PICK s \in Subs :
        /\ Selected(u, quota, s)
        /\ subs' = [x \in Subs |->
                       [subs[x] EXCEPT
                           !.used = (IF x \in ResetOnTheWay(u, s) THEN 0 ELSE @)
                                    + (IF x = s THEN quota ELSE 0),
                           !.due = @ /\ x \notin ResetOnTheWay(u, s)]]
  BY Zenon DEF ReserveFromSubscription
<1> SUFFICES ASSUME NEW x \in Subs, subs'[x].total > 0 PROVE subs'[x].used <= subs'[x].total
  BY DEF Capped
<1> DEFINE used == (IF x \in ResetOnTheWay(u, s) THEN 0 ELSE subs[x].used) + (IF x = s THEN quota ELSE 0)
<1>2. subs[x] \in SubRow /\ quota \in Nat BY QuotaAssumption DEF TypeInv, TypeOK, Quota
<1>3. subs'[x].used = used /\ subs'[x].total = subs[x].total
  <2>1. subs'[x] = [subs[x] EXCEPT !.used = used, !.due = @ /\ x \notin ResetOnTheWay(u, s)]
    BY <1>1
  <2> HIDE DEF used
  <2> QED BY <1>2, <2>1 DEF SubRow
<1>4. CASE x = s
  <2>1. (IF s \in ResetOnTheWay(u, s) THEN 0 ELSE subs[s].used) = UsedAfterReset(s)
    <3>1. s \in Nat BY IdAssumption
    <3>2. s <= s BY <3>1
    <3>3. s \in Eligible(u) BY <1>1, Zenon DEF Selected
    <3>4. s \in ResetOnTheWay(u, s) <=> subs[s].due BY <3>2, <3>3, Zenon DEF ResetOnTheWay
    <3> QED BY <3>4 DEF UsedAfterReset
  <2>2. subs[s].total - UsedAfterReset(s) >= quota
    BY <1>1, <1>3, <1>4 DEF Selected, HasRoom
  <2>3. UsedAfterReset(s) \in Nat BY <1>2, <1>4 DEF UsedAfterReset, SubRow
  <2> QED BY <1>2, <1>3, <1>4, <2>1, <2>2, <2>3 DEF SubRow
<1>5. CASE x # s
  BY <1>2, <1>3, <1>5 DEF Capped, SubRow
<1> QED BY <1>4, <1>5

LEMMA CappedStep == TypeInv /\ Capped /\ [Next]_vars => Capped'
<1> SUFFICES ASSUME TypeInv, Capped, [Next]_vars PROVE Capped' OBVIOUS
<1>0. 0 \in Quota /\ Requests \subseteq OpIds /\ ops \in [OpIds -> Operation] /\ TypeOK
  BY QuotaAssumption DEF Quota, OpIds, TypeInv, TypeOK
<1>1. CASE UNCHANGED subs BY <1>1 DEF Capped
<1>2. ASSUME NEW r \in Requests, NEW q \in Quota, NEW outcome \in Outcomes,
             Transition(r, ops[r], q, outcome, FALSE)
      PROVE  Capped'
  <2>1. ops[r] \in Operation /\ Owned(ops[r])
    BY <1>0, <1>2 DEF Transition, Replays, Open, TypeInv, OpsOwned
  <2> QED BY <1>0, <1>2, <2>1, TransitionCapped
<1>3. CASE RequestNext
  <2>1. PICK r \in Requests :
        \/ \E u \in Users, t \in Tokens \cup {Unset}, q \in Quota :
            \/ ReserveFromWallet(r, u, t, q)
            \/ ReserveFromSubscription(r, u, t, q)
        \/ \E q \in Quota : AdjustBillingOperationReservation(r, q)
        \/ \E q \in Quota : SettleBillingOperation(r, q)
        \/ RefundBillingOperation(r)
    BY <1>3 DEF RequestNext
  <2>2. ASSUME NEW u, NEW t, NEW q, ReserveFromWallet(r, u, t, q) PROVE Capped'
    BY <1>1, <2>2 DEF ReserveFromWallet
  <2> QED BY <1>0, <1>2, <2>1, <2>2, ReserveCapped, AdjustCapped
          DEF AdjustBillingOperationReservation, SettleBillingOperation, RefundBillingOperation, Outcomes
<1>4. CASE TaskNext
  <2>1. ASSUME NEW k \in Tasks, NEW r \in Requests, NEW q \in Quota, CreateTaskWithBillingOperation(k, r, q)
        PROVE  Capped'
    BY <1>0, <2>1, AdjustCapped DEF CreateTaskWithBillingOperation
  <2>2. ASSUME NEW k \in Tasks, NEW from \in TaskRunning, NEW to \in TaskDone, NEW q \in Quota,
               ApplyTaskBillingTransition(k, from, to, q)
        PROVE  Capped'
    <3>1. tasks[k].status # "none"
      BY <2>2 DEF ApplyTaskBillingTransition, MayEnd, TaskDone
    <3>2. AdoptedOperation(k) \in Operation /\ Owned(AdoptedOperation(k))
      BY <3>1, AdoptedType
    <3>3. OutcomeOf(to) \in Outcomes BY DEF OutcomeOf, Outcomes
    <3> QED BY <1>0, <1>1, <2>2, <3>2, <3>3, TransitionCapped DEF ApplyTaskBillingTransition
  <2> QED BY <1>4, <2>1, <2>2 DEF TaskNext
<1>5. ASSUME UserNext PROVE UNCHANGED subs
  BY <1>5 DEF UserNext, ChangeUserQuota, DeleteUser
<1>6. ASSUME TokenNext PROVE UNCHANGED subs
  <2>1. ASSUME NEW t, NEW row, WriteToken(t, row) PROVE UNCHANGED subs
    BY <2>1 DEF WriteToken
  <2>2. ASSUME NEW t, NEW status, UpdateTokenStatus(t, status) PROVE UNCHANGED subs
    BY <2>1, <2>2 DEF UpdateTokenStatus
  <2>3. ASSUME NEW t, NEW seenStatus, NEW remain, NEW unlimited, NEW expired,
               UpdateToken(t, seenStatus, remain, unlimited, expired)
        PROVE  UNCHANGED subs
    BY <2>1, <2>3 DEF UpdateToken
  <2> QED BY <1>6, <2>2, <2>3 DEF TokenNext, ChangeTokenQuota, TokenExpires,
            PersistTokenInvalidStatus, DeleteToken
<1>7. CASE SubscriptionNext
  <2>1. PICK s \in Subs :
        \/ SubscriptionFallsDue(s)
        \/ \E advance \in BOOLEAN : ResetUserSubscription(s, advance)
        \/ EndSubscription(s)
        \/ AdminDeleteUserSubscription(s)
    BY <1>7 DEF SubscriptionNext
  <2>2. \A x \in Subs : subs[x] \in SubRow /\ subs \in [Subs -> SubRow] BY DEF TypeInv, TypeOK
  <2>3. \A x \in Subs : subs'[x].total = subs[x].total /\ subs'[x].used \in {0, subs[x].used}
    BY <2>1, <2>2 DEF SubscriptionFallsDue, ResetUserSubscription, EndSubscription,
                      AdminDeleteUserSubscription, SubRow
  <2> QED BY <2>2, <2>3 DEF Capped, SubRow
<1> QED BY <1>1, <1>3, <1>4, <1>5, <1>6, <1>7 DEF Next, vars

\* For any number of subscriptions and requests, the use of a subscription is
\* never negative and, under a cap, never above it: every change of amount_used is
\* checked against the row as it is, after the resets on the way.
THEOREM SubscriptionsWithinTotal == Spec => []SubscriptionWithinTotal
<1>1. Init => Capped
  BY InitialAssumption DEF Init, Capped
<1>2. TypeInv /\ Capped => SubscriptionWithinTotal
  BY DEF TypeInv, TypeOK, SubRow, Capped, SubscriptionWithinTotal
<1> QED BY TypeInit, TypeStep, CappedStep, <1>1, <1>2, PTL DEF Spec

-----------------------------------------------------------------------------
(* A charged task was delivered: the inductive invariant. *)

\* The operation of a request is that of one task, whose row exists.
RequestLinkInv ==
    \A k \in Tasks : tasks[k].op \in Requests =>
        ops[tasks[k].op].task = k /\ tasks[k].status # "none"

\* A request that was not submitted has no job, and a task row says success
\* only when the job has succeeded.
JobInv ==
    /\ \A r \in Requests : handler[r] \in {"idle", "submitting"} => job[r].state = "none"
    /\ \A k \in Tasks : tasks[k].op \in Requests /\ tasks[k].status = "success" =>
        job[tasks[k].op].state = "success"

\* What a worker has read of task k: a row that names its owner and an operation
\* that exists, and the same request as the row does by now.  Only a fetch reads
\* a row that has ended.
ReadInv(w) ==
    LET k == worker[w].task
        seen == worker[w].seen
    IN  /\ k \in Tasks /\ tasks[k].status # "none"
        /\ seen.status # "none" /\ seen.user \in Users
        /\ seen.op # Unset => ops[seen.op].status # "none"
        /\ seen.op \in Requests \/ tasks[k].op \in Requests => seen.op = tasks[k].op
        /\ w \notin Fetchers => seen.status \in TaskRunning

\* What a worker will write about the job of a request: a success is the job's,
\* and who has read a success has been told one.
ConclusionInv(w) ==
    LET seen == worker[w].seen
        answered == worker[w].pc = "write"
    IN  seen.op \in Requests =>
        /\ seen.status = "success" => job[seen.op].state = "success"
        /\ answered /\ worker[w].reply = "success" => job[seen.op].state = "success"
        /\ answered /\ seen.status = "success" => worker[w].reply = "success"

WorkerInv == \A w \in Workers : worker[w].pc # "idle" => ReadInv(w) /\ ConclusionInv(w)

\* ChargedMeansDelivered alone is not inductive: a stale answer could end the
\* wrong job, a stale row could bring back a task that ended.
FlowInv == FlowTypeOK /\ TypeInv /\ RequestLinkInv /\ JobInv /\ WorkerInv /\ ChargedMeansDelivered

-----------------------------------------------------------------------------
WorkerRow ==
    [pc : {"idle", "ask", "write"}, task : Tasks \cup {Unset},
     seen : TaskRow, reply : {"none"} \cup TaskRunning \cup TaskDone]

JobRow == [by : Platforms \cup {Unset}, state : JobStates]

\* FlowTypeOK by the sets the lemmas speak of, now and after a step.
LEMMA FlowTypes ==
    FlowTypeOK <=> /\ TypeOK /\ job \in [OpIds -> JobRow] /\ handler \in [Requests -> HandlerStates]
                   /\ worker \in [Workers -> WorkerRow]
BY DEF FlowTypeOK, JobRow, WorkerRow

LEMMA FlowTypesNext ==
    FlowTypeOK' <=> /\ TypeOK' /\ job' \in [OpIds -> JobRow] /\ handler' \in [Requests -> HandlerStates]
                    /\ worker' \in [Workers -> WorkerRow]
BY DEF FlowTypeOK, JobRow, WorkerRow

LEMMA IdleType == Idle \in WorkerRow /\ Idle.pc = "idle"
<1>1. 0 \in Quota BY QuotaAssumption DEF Quota
<1>2. NoTask \in TaskRow BY <1>1 DEF NoTask, TaskRow
<1> QED BY <1>2 DEF Idle, WorkerRow

\* What a worker has read and concluded stays true through every step that
\* leaves its record alone.
LEMMA WorkersKept ==
    ASSUME FlowInv,
           \A k \in Tasks : tasks[k].status # "none" =>
               /\ tasks'[k].status # "none"
               /\ tasks'[k].op \in Requests \/ tasks[k].op \in Requests => tasks'[k].op = tasks[k].op,
           \A o \in OpIds : ops[o].status # "none" => ops'[o].status # "none",
           \A r \in Requests : job[r].state = "success" => job'[r].state = "success",
           \A w \in Workers : worker'[w] = worker[w] \/ worker'[w].pc = "idle"
    PROVE  WorkerInv'
<1> SUFFICES ASSUME NEW w \in Workers, worker'[w].pc # "idle" PROVE ReadInv(w)' /\ ConclusionInv(w)'
  BY DEF WorkerInv
<1>1. worker'[w] = worker[w] /\ ReadInv(w) /\ ConclusionInv(w) BY DEF FlowInv, WorkerInv
<1>2. worker[w].seen.op \in OpIds \cup {Unset}
  BY FlowTypes DEF FlowInv, WorkerRow, TaskRow
<1>3. ReadInv(w)' BY <1>1, <1>2 DEF ReadInv
<1>4. ConclusionInv(w)' BY <1>1 DEF ConclusionInv
<1> QED BY <1>3, <1>4

\* A step of the handlers or of the provider that writes no row.
LEMMA HandlerOnly ==
    ASSUME FlowInv, UNCHANGED <<vars, worker>>, NEW r \in Requests, NEW x \in HandlerStates \ {"idle", "submitting"},
           handler' = [handler EXCEPT ![r] = x], job' \in [OpIds -> JobRow],
           \A p \in OpIds : job'[p] = job[p] \/ (p = r /\ job[p].state = "none")
    PROVE  FlowInv'
<1> USE DEF FlowInv
<1>1. UNCHANGED <<users, tokens, subs, ops, tasks, funded, outside, forgiven>> BY DEF vars
<1>2. TypeOK' /\ TypeInv'
  BY <1>1 DEF TypeInv, TypeOK, OpsOwned, Owned, TasksOwned
<1>3. handler \in [Requests -> HandlerStates] /\ worker \in [Workers -> WorkerRow] /\ Requests \subseteq OpIds
  BY FlowTypes DEF OpIds
<1>4. FlowTypeOK' BY <1>2, <1>3, FlowTypesNext
<1>5. \A p \in Requests : job[p].state = "success" => job'[p].state = "success" BY <1>3
<1>6. WorkerInv' BY <1>1, <1>5, WorkersKept
<1>7. RequestLinkInv' BY <1>1 DEF RequestLinkInv
<1>8. JobInv'
  <2>1. \A p \in Requests : handler'[p] \in {"idle", "submitting"} => p # r /\ handler'[p] = handler[p]
    BY <1>3
  <2> QED BY <1>1, <1>3, <1>5, <2>1 DEF JobInv
<1>9. ChargedMeansDelivered' BY <1>1, <1>5 DEF ChargedMeansDelivered
<1> QED BY <1>2, <1>4, <1>6, <1>7, <1>8, <1>9

\* The submitting handler, up to the write of the task row.
LEMMA SubmitKeeps ==
    ASSUME FlowInv, NEW r \in Requests,
           \/ SubmitAccepted(r) \/ SubmitFails(r) \/ ProtectFails(r) \/ LinkTaskFails(r) \/ HandlerCrashes(r)
           \/ DeferredRefund(r) /\ UNCHANGED vars
    PROVE  FlowInv'
<1>1. PICK x \in HandlerStates \ {"idle", "submitting"} : handler' = [handler EXCEPT ![r] = x]
  BY DEF SubmitAccepted, SubmitFails, ProtectFails, LinkTaskFails, HandlerCrashes, DeferredRefund, HandlerStates
<1>2. UNCHANGED <<vars, worker>>
  BY DEF SubmitAccepted, SubmitFails, ProtectFails, LinkTaskFails, HandlerCrashes, DeferredRefund
<1>3. job \in [OpIds -> JobRow] /\ r \in OpIds BY FlowTypes DEF FlowInv, OpIds
<1>4. CASE UNCHANGED job BY <1>1, <1>2, <1>3, <1>4, HandlerOnly
<1>5. CASE /\ handler[r] = "submitting"
           /\ \E p \in Platforms : job' = [job EXCEPT ![r] = [by |-> p, state |-> "queued"]]
  <2>1. PICK p \in Platforms : job' = [job EXCEPT ![r] = [by |-> p, state |-> "queued"]] BY <1>5
  <2>2. [by |-> p, state |-> "queued"] \in JobRow BY DEF JobRow, JobStates
  <2>3. job[r].state = "none" BY <1>5 DEF FlowInv, JobInv
  <2>4. job' \in [OpIds -> JobRow] /\ \A q \in OpIds : job'[q] = job[q] \/ (q = r /\ job[q].state = "none")
    BY <1>3, <2>1, <2>2, <2>3
  <2> QED BY <1>1, <1>2, <2>4, HandlerOnly
<1> QED BY <1>4, <1>5 DEF SubmitAccepted, SubmitFails, ProtectFails, LinkTaskFails, HandlerCrashes, DeferredRefund

\* A job that ended stays ended.
LEMMA JobProgressKeeps ==
    ASSUME FlowInv, NEW o \in OpIds, JobProgress(o)
    PROVE  FlowInv'
<1> USE DEF FlowInv
<1>1. UNCHANGED <<users, tokens, subs, ops, tasks, funded, outside, forgiven, handler, worker>>
  BY DEF JobProgress, vars
<1>2. TypeOK' /\ TypeInv'
  BY <1>1 DEF TypeInv, TypeOK, OpsOwned, Owned, TasksOwned
<1>3. /\ handler \in [Requests -> HandlerStates] /\ worker \in [Workers -> WorkerRow]
      /\ Requests \subseteq OpIds /\ job \in [OpIds -> JobRow]
  BY FlowTypes DEF OpIds
<1>4. PICK x \in {"running"} \cup TaskDone : job' = [job EXCEPT ![o].state = x]
  BY DEF JobProgress
<1>5. job[o].state \in {"queued", "running"} BY DEF JobProgress
<1>6. x \in JobStates BY DEF JobStates, TaskDone
<1>7. job' \in [OpIds -> JobRow] BY <1>3, <1>4, <1>6 DEF JobRow
<1>8. \A p \in OpIds : job[p].state \in {"none", "success"} => job'[p] = job[p] BY <1>3, <1>4, <1>5
<1>9. FlowTypeOK' BY <1>1, <1>2, <1>3, <1>7, FlowTypesNext
<1>10. WorkerInv' BY <1>1, <1>3, <1>8, WorkersKept
<1>11. RequestLinkInv' BY <1>1 DEF RequestLinkInv
<1>12. JobInv' BY <1>1, <1>3, <1>8 DEF JobInv
<1>13. ChargedMeansDelivered' BY <1>1, <1>3, <1>8 DEF ChargedMeansDelivered
<1> QED BY <1>2, <1>9, <1>10, <1>11, <1>12, <1>13

-----------------------------------------------------------------------------
(* The steps that write rows. *)

\* A reservation, a refund by the handler and the owner's steps write no task
\* row, link no operation and settle none.
LEMMA NoTaskWritten ==
    ASSUME FlowInv, TypeInv', UNCHANGED <<tasks, job, worker>>, handler' \in [Requests -> HandlerStates],
           \A r \in Requests : handler'[r] \in {"idle", "submitting"} => handler[r] \in {"idle", "submitting"},
           \A o \in OpIds : /\ ops[o].status # "none" => ops'[o].status # "none" /\ ops'[o].task = ops[o].task
                            /\ ops'[o].status = "settled" => ops[o].status = "settled"
    PROVE  FlowInv'
<1> USE DEF FlowInv
<1>1. FlowTypeOK' BY FlowTypes, FlowTypesNext DEF TypeInv
<1>2. WorkerInv' BY WorkersKept
<1>3. RequestLinkInv'
  <2>1. \A k \in Tasks : tasks[k].op \in Requests => ops[tasks[k].op].status # "none" /\ tasks[k].op \in OpIds
    BY IdAssumption DEF TypeInv, TasksOwned, OpIds
  <2> QED BY <2>1 DEF RequestLinkInv
<1>4. JobInv' BY DEF JobInv
<1>5. ChargedMeansDelivered' BY DEF ChargedMeansDelivered, OpIds
<1> QED BY <1>1, <1>2, <1>3, <1>4, <1>5

\* RelayTaskSubmit reserves.
LEMMA ReserveKeeps ==
    ASSUME FlowInv, NEW r \in Requests, NEW u \in Users, NEW price \in Prices, Reserve(r, u, price)
    PROVE  FlowInv'
<1>1. price \in Quota /\ r \in OpIds /\ ops \in [OpIds -> Operation] /\ handler \in [Requests -> HandlerStates]
  BY WorkerAssumption, FlowTypes DEF OpIds, FlowInv, TypeOK
<1>2. TypeInv' BY <1>1, ReserveWalletType DEF Reserve, FlowInv
<1>3. /\ UNCHANGED <<tasks, job, worker>> /\ handler' = [handler EXCEPT ![r] = "submitting"] /\ handler[r] = "idle"
      /\ ops' = [ops EXCEPT ![r] = NewOperation(u, Unset, "wallet", Unset, price)] /\ ops[r].status = "none"
  BY DEF Reserve, ReserveFromWallet
<1>4. NewOperation(u, Unset, "wallet", Unset, price).status = "reserved"
  BY DEF NewOperation, NoOperation
<1>5. \A o \in OpIds : /\ ops[o].status # "none" => ops'[o].status # "none" /\ ops'[o].task = ops[o].task
                       /\ ops'[o].status = "settled" => ops[o].status = "settled"
  BY <1>1, <1>3, <1>4
<1>6. /\ handler' \in [Requests -> HandlerStates]
      /\ \A p \in Requests : handler'[p] \in {"idle", "submitting"} => handler[p] \in {"idle", "submitting"}
  BY <1>1, <1>3 DEF HandlerStates
<1> QED BY <1>2, <1>3, <1>5, <1>6, NoTaskWritten

\* The deferred refund.
LEMMA RefundKeeps ==
    ASSUME FlowInv, NEW r \in Requests, RefundBillingOperation(r), UNCHANGED <<job, worker>>,
           handler' = [handler EXCEPT ![r] = "done"]
    PROVE  FlowInv'
<1>1. r \in OpIds /\ ops \in [OpIds -> Operation] /\ handler \in [Requests -> HandlerStates] /\ 0 \in Quota
      /\ ops[r] \in Operation /\ TypeInv
  BY QuotaAssumption, FlowTypes DEF OpIds, FlowInv, TypeOK, Quota
<1>2. TypeInv' BY <1>1, RequestStepType
<1>3. Transition(r, ops[r], 0, "refund", FALSE) /\ UNCHANGED tasks BY DEF RefundBillingOperation
<1>4. ops'[r].task = ops[r].task /\ \A p \in OpIds \ {r} : ops'[p] = ops[p]
  BY <1>1, <1>3, TransitionKeepsTask
<1>5. ops'[r] = ops[r] \/ ops'[r].status \in {"refunded", "abandoned"}
  <2>1. Refunded(ops[r]).status = "refunded" /\ Abandoned(ops[r], 0).status = "abandoned"
    BY <1>1 DEF Refunded, Abandoned, Operation
  <2>2. \/ UNCHANGED ops
        \/ ops' = [ops EXCEPT ![r] = Refunded(ops[r])]
        \/ ops' = [ops EXCEPT ![r] = Abandoned(ops[r], 0)]
    BY <1>3 DEF Transition
  <2> QED BY <1>1, <2>1, <2>2
<1>6. \A o \in OpIds : /\ ops[o].status # "none" => ops'[o].status # "none" /\ ops'[o].task = ops[o].task
                       /\ ops'[o].status = "settled" => ops[o].status = "settled"
  BY <1>4, <1>5
<1>7. /\ handler' \in [Requests -> HandlerStates]
      /\ \A p \in Requests : handler'[p] \in {"idle", "submitting"} => handler[p] \in {"idle", "submitting"}
  BY <1>1 DEF HandlerStates
<1> QED BY <1>2, <1>3, <1>6, <1>7, NoTaskWritten

\* Top-ups and deletions.
LEMMA OwnerKeeps ==
    ASSUME FlowInv, OwnerNext
    PROVE  FlowInv'
<1>1. UserNext /\ UNCHANGED <<job, handler, worker>> BY DEF OwnerNext, UserNext
<1>2. TypeInv' BY <1>1, UserStepType DEF FlowInv
<1>3. UNCHANGED <<ops, tasks>> BY <1>1, OutsideKeepsTasks
<1> QED BY <1>1, <1>2, <1>3, NoTaskWritten, FlowTypes DEF FlowInv

\* A new task takes a row that nobody has read, and an operation no other task has.
LEMMA LinkTaskKeeps ==
    ASSUME FlowInv, NEW r \in Requests, NEW k \in Tasks, NEW price \in Prices, LinkTask(r, k, price)
    PROVE  FlowInv'
<1> USE DEF FlowInv
<1>0. /\ price \in Quota /\ r \in OpIds /\ ops \in [OpIds -> Operation] /\ tasks \in [Tasks -> TaskRow]
      /\ handler \in [Requests -> HandlerStates] /\ Requests \subseteq OpIds /\ k \in Tasks \cup {Unset}
  BY WorkerAssumption, FlowTypes DEF OpIds, TypeOK
<1>1. CreateTaskWithBillingOperation(k, r, price) /\ UNCHANGED <<job, worker>>
      /\ handler' = [handler EXCEPT ![r] = "done"]
  BY DEF LinkTask
<1>2. TypeInv' BY <1>0, <1>1, CreateTaskType
<1>3. AdjustReservation(r, price, k) /\ ops[r].task = Unset /\ tasks[k].status = "none" /\ ops[r].status = "reserved"
  BY <1>1 DEF CreateTaskWithBillingOperation, Linkable, AdjustReservation, Open
<1>4. ops'[r].task = k /\ ops'[r].status = "reserved" /\ \A p \in OpIds \ {r} : ops'[p] = ops[p]
  BY <1>0, <1>3, AdjustSetsTask, AdjustType
<1>5. /\ tasks'[k].op = r /\ tasks'[k].status = "submitted"
      /\ \A l \in Tasks \ {k} : tasks'[l] = tasks[l]
  BY <1>0, <1>1 DEF CreateTaskWithBillingOperation
<1>6. handler' \in [Requests -> HandlerStates] BY <1>0, <1>1 DEF HandlerStates
<1>7. FlowTypeOK' BY <1>1, <1>2, <1>6, FlowTypes, FlowTypesNext DEF TypeInv
<1>8. WorkerInv' BY <1>1, <1>3, <1>4, <1>5, WorkersKept
<1>9. RequestLinkInv'
  <2>1. \A l \in Tasks : tasks[l].op # r BY <1>3, IdAssumption DEF RequestLinkInv, OpIds
  <2> QED BY <1>0, <1>4, <1>5, <2>1 DEF RequestLinkInv
<1>10. JobInv' BY <1>0, <1>1, <1>5 DEF JobInv
<1>11. ChargedMeansDelivered'
  <2> SUFFICES ASSUME NEW p \in Requests, ops'[p].status = "settled"
               PROVE  /\ job'[p].state = "success"
                      /\ \E l \in Tasks : tasks'[l].op = p /\ tasks'[l].status = "success"
    BY DEF ChargedMeansDelivered
  <2>1. ops[p].status = "settled" BY <1>0, <1>4
  <2>2. PICK l \in Tasks : tasks[l].op = p /\ tasks[l].status = "success" BY <2>1 DEF ChargedMeansDelivered
  <2> QED BY <1>1, <1>3, <1>5, <2>1, <2>2 DEF ChargedMeansDelivered
<1> QED BY <1>2, <1>7, <1>8, <1>9, <1>10, <1>11

\* How a transition ends task k, whatever its caller knew: its link to a request
\* stays, a success stays, and only a success settles the operation.
LEMMA EndEffect ==
    ASSUME TypeInv, NEW k \in Tasks, NEW from, NEW to \in TaskDone, NEW q \in Quota,
           ApplyTaskBillingTransition(k, from, to, q)
    PROVE  /\ tasks[k].status # "none" /\ tasks'[k].status = to
           /\ tasks[k].status = "success" => to = "success"
           /\ \A l \in Tasks \ {k} : tasks'[l] = tasks[l]
           /\ \A o \in OpIds : ops[o].status # "none" => ops'[o].status # "none" /\ ops'[o].task = ops[o].task
           /\ tasks'[k].op \in Requests \/ tasks[k].op \in Requests => tasks'[k].op = tasks[k].op
           /\ \A r \in Requests :
                \/ ops'[r] = ops[r]
                \/ r = tasks[k].op /\ (ops'[r].status = "settled" => to = "success")
           /\ TypeInv'
<1> DEFINE o == OperationOf(k)
           op == AdoptedOperation(k)
<1>1. /\ tasks[k] \in TaskRow /\ tasks \in [Tasks -> TaskRow] /\ tasks[k].status # "none"
      /\ tasks[k].status = "success" => to = "success"
      /\ Unset \notin OpIds /\ Requests \subseteq OpIds /\ k \in OpIds /\ k \notin Requests
  BY IdAssumption DEF ApplyTaskBillingTransition, MayEnd, TaskDone, TypeInv, TypeOK, OpIds
<1>2. TypeInv'
  <2>1. \E f \in TaskRunning : ApplyTaskBillingTransition(k, f, to, q)
    <3>1. CASE tasks[k].status \in TaskRunning
      <4>1. MayEnd(k, tasks[k].status, to) BY <1>1, <3>1 DEF MayEnd, TaskRunning, TaskDone, ApplyTaskBillingTransition
      <4> QED BY <3>1, <4>1 DEF ApplyTaskBillingTransition
    <3>2. CASE tasks[k].status \in TaskDone
      <4>1. MayEnd(k, "submitted", to) BY <3>2 DEF MayEnd, ApplyTaskBillingTransition
      <4>2. ApplyTaskBillingTransition(k, "submitted", to, q) BY <4>1 DEF ApplyTaskBillingTransition
      <4> QED BY <4>2 DEF TaskRunning
    <3> QED BY <1>1, <3>1, <3>2 DEF TaskRow
  <2> QED BY <2>1, TaskTransitionType
<1>3. /\ o \in OpIds /\ op \in Operation /\ Owned(op) /\ op.status # "none"
      /\ op.status # "reserved" => op = ops[o]
  BY <1>1, AdoptedType
<1>4. CASE /\ LegacyNoRefund(k, OutcomeOf(to))
           /\ tasks' = [tasks EXCEPT ![k].status = to, ![k].quota = 0]
           /\ UNCHANGED ops
  BY <1>1, <1>2, <1>4 DEF TaskRow
<1>5. CASE /\ Transition(o, op, q, OutcomeOf(to), TRUE)
           /\ tasks' = [tasks EXCEPT ![k].status = to, ![k].op = o, ![k].quota = ops'[o].actual]
  <2>1. o \in Requests \/ tasks[k].op \in Requests => o = tasks[k].op
    BY <1>1 DEF OperationOf
  <2>2. ops[o].status # "none" => op = ops[o]
    BY <1>1 DEF AdoptedOperation, Adopts, OperationOf
  <2> HIDE DEF o, op
  <2>3. ops'[o].task = op.task /\ \A p \in OpIds \ {o} : ops'[p] = ops[p]
    BY <1>3, <1>5, TransitionKeepsTask
  <2>4. OutcomeOf(to) \in Outcomes BY DEF OutcomeOf, Outcomes
  <2>5. ops'[o].status \in Closed BY <1>3, <1>5, <2>4, TransitionType
  <2>6. to = "failure" => ops'[o] = ops[o] \/ ops'[o].status # "settled"
    <3> SUFFICES ASSUME to = "failure" PROVE ops'[o] = ops[o] \/ ops'[o].status # "settled" OBVIOUS
    <3>1. OutcomeOf(to) = "refund" BY DEF OutcomeOf
    <3>2. Refunded(op).status = "refunded" /\ Abandoned(op, q).status = "abandoned"
      BY <1>3 DEF Refunded, Abandoned, Operation
    <3>3. \/ ops' = ops
          \/ ops' = [ops EXCEPT ![o] = Refunded(op)]
          \/ ops' = [ops EXCEPT ![o] = Abandoned(op, q)]
      BY <1>5, <3>1 DEF Transition
    <3>4. o \in DOMAIN ops BY <1>3 DEF TypeInv, TypeOK
    <3> QED BY <3>2, <3>3, <3>4
  <2>7. tasks'[k].status = to /\ tasks'[k].op = o /\ \A l \in Tasks \ {k} : tasks'[l] = tasks[l]
    BY <1>1, <1>5 DEF TaskRow
  <2>8. to \in {"success", "failure"} BY DEF TaskDone
  <2> QED BY <1>1, <1>2, <2>1, <2>2, <2>3, <2>5, <2>6, <2>7, <2>8 DEF Closed
<1> QED BY <1>4, <1>5 DEF ApplyTaskBillingTransition

\* EndTask: a success is written only on the word of the provider about the job of
\* the operation that is settled, and a stale answer finds the end that was
\* written before it.
LEMMA EndTaskKeeps ==
    ASSUME FlowInv, NEW w \in Workers, EndTask(w)
    PROVE  FlowInv'
<1> USE DEF FlowInv
<1> DEFINE k == worker[w].task
           seen == worker[w].seen
           to == worker[w].reply
<1>0. /\ worker \in [Workers -> WorkerRow] /\ seen \in TaskRow /\ Requests \subseteq OpIds
      /\ handler \in [Requests -> HandlerStates] /\ job \in [OpIds -> JobRow]
  BY FlowTypes DEF WorkerRow, OpIds
<1>1. worker' = [worker EXCEPT ![w] = Idle] /\ UNCHANGED <<job, handler>> /\ to \in TaskDone /\ worker[w].pc = "write"
  BY DEF EndTask
<1>2. ReadInv(w) /\ ConclusionInv(w) BY <1>1 DEF WorkerInv
<1>3. /\ worker' \in [Workers -> WorkerRow]
      /\ \A v \in Workers : worker'[v] = worker[v] \/ worker'[v].pc = "idle"
  BY <1>0, <1>1, IdleType
<1>4. CASE UNCHANGED vars
  <2>1. UNCHANGED <<users, tokens, subs, ops, tasks, funded, outside, forgiven>> BY <1>4 DEF vars
  <2>2. TypeOK' /\ TypeInv' BY <2>1 DEF TypeInv, TypeOK, OpsOwned, Owned, TasksOwned
  <2>3. FlowTypeOK' BY <1>0, <1>1, <1>3, <2>2, FlowTypesNext
  <2>4. WorkerInv' BY <1>1, <1>3, <2>1, WorkersKept
  <2> QED BY <1>1, <2>1, <2>2, <2>3, <2>4 DEF RequestLinkInv, JobInv, ChargedMeansDelivered
<1>5. ASSUME NEW q \in Requested(seen, to), ApplyTaskBillingTransition(k, seen.status, to, q)
      PROVE  FlowInv'
  <2>0. q \in Quota /\ k \in Tasks
    BY <1>0, <1>2, QuotaAssumption, WorkerAssumption DEF Requested, Quota, TaskRow, ReadInv
  <2> DEFINE from == seen.status
  <2> HIDE DEF k, seen, to, from
  <2>1. /\ tasks[k].status # "none" /\ tasks'[k].status = to
        /\ tasks[k].status = "success" => to = "success"
        /\ \A l \in Tasks \ {k} : tasks'[l] = tasks[l]
        /\ \A o \in OpIds : ops[o].status # "none" => ops'[o].status # "none" /\ ops'[o].task = ops[o].task
        /\ tasks'[k].op \in Requests \/ tasks[k].op \in Requests => tasks'[k].op = tasks[k].op
        /\ \A r \in Requests :
             \/ ops'[r] = ops[r]
             \/ r = tasks[k].op /\ (ops'[r].status = "settled" => to = "success")
        /\ TypeInv'
    BY <1>1, <1>5, <2>0, EndEffect DEF from
  <2>2. tasks[k].op \in Requests /\ to = "success" => job[tasks[k].op].state = "success"
    BY <1>1, <1>2 DEF ReadInv, ConclusionInv, k, seen, to
  <2>3. FlowTypeOK' BY <1>0, <1>1, <1>3, <2>1, FlowTypesNext DEF TypeInv
  <2>4. WorkerInv'
    <3>1. \A l \in Tasks : tasks[l].status # "none" =>
               /\ tasks'[l].status # "none"
               /\ tasks'[l].op \in Requests \/ tasks[l].op \in Requests => tasks'[l].op = tasks[l].op
      BY <1>1, <2>1 DEF TaskDone
    <3> QED BY <1>1, <1>3, <2>1, <3>1, WorkersKept
  <2>5. RequestLinkInv'
    <3> SUFFICES ASSUME NEW l \in Tasks, tasks'[l].op \in Requests
                 PROVE  ops'[tasks'[l].op].task = l /\ tasks'[l].status # "none"
      BY DEF RequestLinkInv
    <3>1. tasks'[l].op = tasks[l].op BY <2>1
    <3>2. ops[tasks[l].op].task = l /\ tasks[l].status # "none" /\ ops[tasks[l].op].status # "none"
      BY <1>0, <3>1, IdAssumption DEF RequestLinkInv, TypeInv, TasksOwned, OpIds
    <3>3. tasks'[l].status # "none" BY <1>1, <2>1, <3>2 DEF TaskDone
    <3> QED BY <1>0, <2>1, <3>1, <3>2, <3>3
  <2>6. JobInv' BY <1>1, <2>0, <2>1, <2>2 DEF JobInv
  <2>7. ChargedMeansDelivered'
    <3> SUFFICES ASSUME NEW r \in Requests, ops'[r].status = "settled"
                 PROVE  /\ job'[r].state = "success"
                        /\ \E l \in Tasks : tasks'[l].op = r /\ tasks'[l].status = "success"
      BY DEF ChargedMeansDelivered
    <3>1. CASE ops'[r] = ops[r]
      <4>1. PICK l \in Tasks : tasks[l].op = r /\ tasks[l].status = "success" BY <3>1 DEF ChargedMeansDelivered
      <4>2. tasks'[l].op = r /\ tasks'[l].status = "success" BY <2>1, <4>1
      <4> QED BY <1>1, <3>1, <4>2 DEF ChargedMeansDelivered
    <3>2. CASE r = tasks[k].op /\ to = "success"
      BY <1>1, <2>0, <2>1, <2>2, <3>2
    <3> QED BY <2>1, <3>1, <3>2
  <2> QED BY <2>1, <2>3, <2>4, <2>5, <2>6, <2>7
<1> QED BY <1>4, <1>5 DEF EndTask

\* UpdateWithStatus puts back a row that was read earlier: the link is the one that
\* was read, and a row that ended in success is only read by who has its answer.
LEMMA UpdateWithStatusKeeps ==
    ASSUME FlowInv, NEW w \in Workers, UpdateWithStatus(w)
    PROVE  FlowInv'
<1> USE DEF FlowInv
<1> DEFINE k == worker[w].task
           seen == worker[w].seen
           to == worker[w].reply
           row == [seen EXCEPT !.status = to]
<1>0. /\ worker \in [Workers -> WorkerRow] /\ seen \in TaskRow /\ Requests \subseteq OpIds
      /\ handler \in [Requests -> HandlerStates] /\ job \in [OpIds -> JobRow] /\ tasks \in [Tasks -> TaskRow]
  BY FlowTypes DEF WorkerRow, OpIds, TypeOK
<1>1. /\ worker' = [worker EXCEPT ![w] = Idle] /\ to \in TaskRunning /\ worker[w].pc = "write"
      /\ UNCHANGED <<users, tokens, subs, ops, funded, outside, forgiven, job, handler>>
      /\ tasks' = IF tasks[k].status = seen.status THEN [tasks EXCEPT ![k] = row] ELSE tasks
  BY DEF UpdateWithStatus, StatusMatches, ghost
<1>2. ReadInv(w) /\ ConclusionInv(w) BY <1>1 DEF WorkerInv
<1>3. /\ worker' \in [Workers -> WorkerRow]
      /\ \A v \in Workers : worker'[v] = worker[v] \/ worker'[v].pc = "idle"
  BY <1>0, <1>1, IdleType
<1>4. /\ row \in TaskRow /\ row.status = to /\ row.op = seen.op /\ row.user = seen.user /\ to # "none" /\ to # "success"
      /\ k \in Tasks /\ seen.user \in Users /\ seen.op \in OpIds \cup {Unset}
      /\ seen.op # Unset => ops[seen.op].status # "none"
      /\ seen.op \in Requests \/ tasks[k].op \in Requests => seen.op = tasks[k].op
      /\ seen.op \in Requests => seen.status # "success"
      /\ tasks[k].status # "none"
  BY <1>0, <1>1, <1>2 DEF TaskRow, TaskRunning, ReadInv, ConclusionInv
<1> HIDE DEF k, seen, to, row
<1>5. /\ tasks' \in [Tasks -> TaskRow] /\ \A l \in Tasks \ {k} : tasks'[l] = tasks[l]
      /\ tasks'[k] = tasks[k] \/ (tasks[k].status = seen.status /\ tasks'[k] = row)
  BY <1>0, <1>1, <1>4
<1>6. TypeInv'
  <2>1. TypeOK' BY <1>1, <1>5 DEF TypeOK, TypeInv
  <2>2. OpsOwned' BY <1>1 DEF TypeInv, OpsOwned, Owned
  <2>3. TasksOwned' BY <1>1, <1>4, <1>5 DEF TypeInv, TasksOwned
  <2> QED BY <2>1, <2>2, <2>3 DEF TypeInv
<1>7. FlowTypeOK' BY <1>0, <1>1, <1>3, <1>6, FlowTypesNext DEF TypeInv
<1>8. \A l \in Tasks : /\ tasks[l].status # "none" => tasks'[l].status # "none"
                       /\ tasks'[l].op \in Requests \/ tasks[l].op \in Requests => tasks'[l].op = tasks[l].op
  BY <1>4, <1>5
<1>9. WorkerInv' BY <1>1, <1>3, <1>8, WorkersKept
<1>10. RequestLinkInv' BY <1>1, <1>8 DEF RequestLinkInv
<1>11. JobInv' BY <1>1, <1>4, <1>5 DEF JobInv
<1>12. ChargedMeansDelivered'
  <2> SUFFICES ASSUME NEW r \in Requests, ops'[r].status = "settled"
               PROVE  /\ job'[r].state = "success"
                      /\ \E l \in Tasks : tasks'[l].op = r /\ tasks'[l].status = "success"
    BY DEF ChargedMeansDelivered
  <2>1. PICK l \in Tasks : tasks[l].op = r /\ tasks[l].status = "success" BY <1>1 DEF ChargedMeansDelivered
  <2>2. tasks'[l] = tasks[l] BY <1>4, <1>5, <2>1
  <2> QED BY <1>1, <2>1, <2>2 DEF ChargedMeansDelivered
<1> QED BY <1>6, <1>7, <1>9, <1>10, <1>11, <1>12

-----------------------------------------------------------------------------
(* The steps that only move a worker. *)

\* A worker goes on without a write.
LEMMA WorkerMoves ==
    ASSUME FlowInv, NEW w \in Workers, NEW row \in WorkerRow, worker' = [worker EXCEPT ![w] = row],
           UNCHANGED <<vars, job, handler>>,
           row.pc # "idle" => ReadInv(w)' /\ ConclusionInv(w)'
    PROVE  FlowInv'
<1> USE DEF FlowInv
<1>0. /\ worker \in [Workers -> WorkerRow]
      /\ handler \in [Requests -> HandlerStates] /\ job \in [OpIds -> JobRow]
  BY FlowTypes
<1>1. UNCHANGED <<users, tokens, subs, ops, tasks, funded, outside, forgiven>> BY DEF vars
<1>2. TypeOK' /\ TypeInv' BY <1>1 DEF TypeInv, TypeOK, OpsOwned, Owned, TasksOwned
<1>3. FlowTypeOK' BY <1>0, <1>2, FlowTypesNext
<1>4. WorkerInv'
  <2> SUFFICES ASSUME NEW v \in Workers, worker'[v].pc # "idle" PROVE ReadInv(v)' /\ ConclusionInv(v)'
    BY DEF WorkerInv
  <2>1. CASE v = w BY <1>0, <2>1
  <2>2. CASE v # w
    <3>1. worker'[v] = worker[v] /\ ReadInv(v) /\ ConclusionInv(v) BY <1>0, <2>2 DEF WorkerInv
    <3> QED BY <1>1, <3>1 DEF ReadInv, ConclusionInv
  <2> QED BY <2>1, <2>2
<1> QED BY <1>1, <1>2, <1>3, <1>4 DEF RequestLinkInv, JobInv, ChargedMeansDelivered

\* The sweep, the pollers and the fetches read a row.
LEMMA ReadsKeeps ==
    ASSUME FlowInv, NEW w \in Workers, NEW k \in Tasks, SweepReads(w, k) \/ PollReads(w, k) \/ FetchReads(w, k)
    PROVE  FlowInv'
<1> USE DEF FlowInv
<1>1. PICK pc \in {"ask", "write"}, reply \in {"none", "failure"} : Reads(w, k, pc, reply)
  BY DEF SweepReads, PollReads, FetchReads
<1> DEFINE row == [pc |-> pc, task |-> k, seen |-> tasks[k], reply |-> reply]
<1>2. /\ worker' = [worker EXCEPT ![w] = row] /\ UNCHANGED <<vars, job, handler>>
      /\ worker \in [Workers -> WorkerRow] /\ tasks[k] \in TaskRow
  BY <1>1, FlowTypes DEF Reads, TypeOK
<1>3. row \in WorkerRow BY <1>2 DEF WorkerRow, TaskDone
<1>4. tasks[k].status # "none" /\ (w \notin Fetchers => tasks[k].status \in TaskRunning)
  BY DEF SweepReads, PollReads, FetchReads, TaskRunning
<1>5. worker'[w] = row /\ UNCHANGED <<tasks, ops, job>> BY <1>2 DEF vars
<1>6. ReadInv(w)' BY <1>4, <1>5 DEF ReadInv, TypeInv, TasksOwned
<1>7. ConclusionInv(w)'
  <2>1. tasks[k].status = "success" => pc = "ask"
    BY <1>1, <1>2 DEF SweepReads, PollReads, FetchReads, TaskRunning, Reads
  <2> QED BY <1>5, <2>1 DEF ConclusionInv, JobInv
<1> QED BY <1>2, <1>3, <1>6, <1>7, WorkerMoves

\* A worker has an answer: the state of the job, or a failure.
LEMMA ConcludesKeeps ==
    ASSUME FlowInv, NEW w \in Workers, NEW reply, worker[w].pc = "ask",
           worker' = [worker EXCEPT ![w].pc = "write", ![w].reply = reply],
           UNCHANGED <<vars, job, handler>>,
           \/ reply = ReplyOf(JobOf(w))
           \/ w \in Pollers /\ reply \in {"failure", worker[w].seen.status}
    PROVE  FlowInv'
<1> USE DEF FlowInv
<1> DEFINE seen == worker[w].seen
           row == [worker[w] EXCEPT !.pc = "write", !.reply = reply]
<1>1. /\ worker \in [Workers -> WorkerRow] /\ worker[w] \in WorkerRow /\ seen \in TaskRow
      /\ job \in [OpIds -> JobRow] /\ Unset \notin Requests /\ Tasks \subseteq OpIds
  BY FlowTypes, IdAssumption DEF WorkerRow, OpIds
<1>2. ReadInv(w) /\ ConclusionInv(w) BY DEF WorkerInv
<1>3. JobOf(w) \in JobRow /\ (seen.op \in Requests => JobOf(w) = job[seen.op])
  BY <1>1, <1>2 DEF JobOf, ReadInv, TaskRow
<1>4. ReplyOf(JobOf(w)) \in {"none"} \cup TaskRunning \cup TaskDone
      /\ (ReplyOf(JobOf(w)) = "success" <=> JobOf(w).state = "success")
  BY <1>3 DEF ReplyOf, JobRow, JobStates, TaskRunning, TaskDone
<1>5. w \in Pollers => seen.status \in TaskRunning
  BY <1>2, WorkerAssumption DEF ReadInv
<1>6. reply \in {"none"} \cup TaskRunning \cup TaskDone BY <1>4, <1>5 DEF TaskDone
<1>7. row \in WorkerRow BY <1>1, <1>6 DEF WorkerRow
<1>8. worker' = [worker EXCEPT ![w] = row] BY <1>1
<1>9. /\ worker'[w].seen = seen /\ worker'[w].task = worker[w].task /\ worker'[w].reply = reply
      /\ UNCHANGED <<tasks, ops, job>>
  BY <1>1, <1>8 DEF vars, WorkerRow
<1>10. ReadInv(w)' BY <1>2, <1>9 DEF ReadInv
<1>11. ConclusionInv(w)'
  <2> SUFFICES ASSUME seen.op \in Requests
               PROVE  /\ seen.status = "success" => job[seen.op].state = "success"
                      /\ reply = "success" => job[seen.op].state = "success"
                      /\ seen.status = "success" => reply = "success"
    BY <1>9 DEF ConclusionInv
  <2> QED BY <1>2, <1>3, <1>4, <1>5 DEF ConclusionInv, TaskRunning
<1> QED BY <1>7, <1>8, <1>10, <1>11, WorkerMoves

-----------------------------------------------------------------------------
LEMMA FlowStarts == FlowInit => FlowInv
<1> SUFFICES ASSUME FlowInit PROVE FlowInv OBVIOUS
<1>1. TypeInv BY TypeInit DEF FlowInit
<1>2. PICK old \in [LegacyTasks -> [by : Platforms, state : JobStates \ {"none"}]] :
        job = [o \in OpIds |-> IF o \in LegacyTasks THEN old[o] ELSE NoJob]
  BY DEF FlowInit
<1>3. NoJob \in JobRow /\ NoJob.state = "none" BY DEF NoJob, JobRow, JobStates
<1>4. \A o \in LegacyTasks : old[o] \in JobRow BY DEF JobRow
<1>5. job \in [OpIds -> JobRow] /\ \A r \in Requests : job[r].state = "none"
  BY <1>2, <1>3, <1>4, IdAssumption DEF OpIds
<1>6. /\ handler = [r \in Requests |-> "idle"] /\ worker = [w \in Workers |-> Idle] /\ Init
      /\ handler \in [Requests -> HandlerStates] /\ worker \in [Workers -> WorkerRow]
  BY IdleType DEF FlowInit, HandlerStates
<1>7. FlowTypeOK BY <1>1, <1>5, <1>6, FlowTypes DEF TypeInv
<1>8. PICK legacy \in [LegacyTasks -> LegacyRows] :
        tasks = [k \in Tasks |-> IF k \in LegacyTasks THEN legacy[k] ELSE NoTask]
  BY <1>6 DEF Init
<1>9. \A k \in Tasks : tasks[k].op = Unset /\ Unset \notin Requests
  BY <1>8, InitialAssumption, IdAssumption DEF NoTask, OpIds
<1>10. \A o \in Requests : ops[o].status = "none" BY <1>6 DEF Init, NoOperation, OpIds
<1> QED BY <1>1, <1>5, <1>6, <1>7, <1>9, <1>10, IdleType
        DEF FlowInv, RequestLinkInv, JobInv, WorkerInv, ChargedMeansDelivered

LEMMA FlowStep == FlowInv /\ [FlowNext]_flowVars => FlowInv'
<1> SUFFICES ASSUME FlowInv, [FlowNext]_flowVars PROVE FlowInv' OBVIOUS
<1>1. CASE HandlerNext
  <2>1. ASSUME NEW r \in Requests, DeferredRefund(r) PROVE FlowInv'
    <3>1. CASE UNCHANGED vars BY <2>1, <3>1, SubmitKeeps
    <3>2. CASE RefundBillingOperation(r) /\ handler' = [handler EXCEPT ![r] = "done"]
      BY <2>1, <3>2, RefundKeeps DEF DeferredRefund
    <3> QED BY <2>1, <3>1, <3>2 DEF DeferredRefund
  <2> QED BY <1>1, <2>1, ReserveKeeps, SubmitKeeps, LinkTaskKeeps DEF HandlerNext
<1>2. ASSUME NEW w \in Workers,
             \/ ChannelLost(w) \/ UpdateVideoSingleTask(w) \/ UpdateSunoTasks(w)
             \/ ApplyGeminiVideoPollingResult(w) \/ TryRealtimeFetch(w) \/ TryRealtimeFetchGemini(w)
      PROVE  FlowInv'
  <2>1. ASSUME NEW P, NEW others, Concludes(w, P, others),
               others = {} \/ (w \in Pollers /\ others \subseteq {"failure", worker[w].seen.status})
        PROVE  FlowInv'
    <3>1. PICK reply \in {ReplyOf(JobOf(w))} \cup others :
            worker' = [worker EXCEPT ![w].pc = "write", ![w].reply = reply]
      BY <2>1 DEF Concludes
    <3> QED BY <2>1, <3>1, ConcludesKeeps DEF Concludes
  <2>2. CASE ChannelLost(w) BY <2>2, ConcludesKeeps DEF ChannelLost
  <2> QED BY <1>2, <2>1, <2>2 DEF UpdateVideoSingleTask, UpdateSunoTasks, ApplyGeminiVideoPollingResult,
                                   TryRealtimeFetch, TryRealtimeFetchGemini
<1>3. ASSUME NEW w \in Workers, WorkerGivesUp(w) PROVE FlowInv'
  BY <1>3, IdleType, WorkerMoves DEF WorkerGivesUp
<1>4. CASE WorkerNext
  BY <1>2, <1>3, <1>4, ReadsKeeps, EndTaskKeeps, UpdateWithStatusKeeps DEF WorkerNext
<1>5. CASE OwnerNext BY <1>5, OwnerKeeps
<1>6. CASE \E o \in OpIds : JobProgress(o) BY <1>6, JobProgressKeeps
<1>7. CASE UNCHANGED flowVars
  <2>1. UNCHANGED <<users, tokens, subs, ops, tasks, funded, outside, forgiven, job, handler, worker>>
    BY <1>7 DEF flowVars, vars
  <2>2. TypeOK' /\ TypeInv'
    BY <2>1 DEF FlowInv, TypeInv, TypeOK, OpsOwned, Owned, TasksOwned
  <2>3. FlowTypeOK' BY <2>1, <2>2, FlowTypes, FlowTypesNext DEF FlowInv
  <2>4. WorkerInv' BY <2>1, WorkersKept
  <2> QED BY <2>1, <2>2, <2>3, <2>4 DEF FlowInv, RequestLinkInv, JobInv, ChargedMeansDelivered
<1> QED BY <1>1, <1>4, <1>5, <1>6, <1>7 DEF FlowNext

LEMMA FlowInvariant == FlowSpec => []FlowInv
BY FlowStarts, FlowStep, PTL DEF FlowSpec

\* Whatever pollers, fetches and sweeps there are, and however late they write what
\* they read, a settled request is one whose job succeeded and whose task row says
\* so, for good.
THEOREM ChargesAreDelivered == FlowSpec => []ChargedMeansDelivered
<1>1. FlowInv => ChargedMeansDelivered BY DEF FlowInv
<1> QED BY <1>1, FlowInvariant, PTL
=============================================================================
