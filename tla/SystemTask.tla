------------------------------ MODULE SystemTask ------------------------------
(***************************************************************************)
(* Background jobs of one type on several master nodes                     *)
(* (model/system_task.go, service/system_task.go): a run is a row of       *)
(* system_tasks, created by the scheduler or on demand, claimed under the  *)
(* type's row in system_task_locks, kept alive by a heartbeat and failed   *)
(* when its lease runs out.  The polling of asynchronous tasks and the     *)
(* sweep of TaskBilling run inside such a job.                             *)
(*                                                                         *)
(* None of this is in a transaction: each action is one statement, and     *)
(* what a runner read before it may be stale when the next one executes.   *)
(*                                                                         *)
(* Time is abstracted to one bit of the lock: locked_until lies in the     *)
(* past.  A runner compares locked_until with a now it took earlier, so    *)
(* each runner also carries a bit that says whether the lock that is       *)
(* stored had already run out at that moment.  Nodes agree on the time.    *)
(***************************************************************************)
EXTENDS Naturals

CONSTANTS
    Runs,          \* ids of the runs, numbered in the order of their creation
    Runners,       \* runner ids; a restarted process takes a new one
    Nobody,
    MaxFailures,   \* bound on the statements the database fails
    PromptClaims   \* a claim is never interrupted for longer than the lock's TTL

ASSUME RunAssumption ==
    /\ Runs \subseteq Nat \ {0}
    /\ Nobody \notin Runners
    /\ MaxFailures \in Nat
    /\ PromptClaims \in BOOLEAN

VARIABLES
    rows,     \* system_tasks
    lock,     \* the row of system_task_locks for this type
    pass,     \* each runner's loop: stale-lock cleanup, then claim
    exec,     \* the goroutine that executes a claimed run
    failures  \* statements of a pass that have failed so far

sysVars == <<rows, lock, pass, exec, failures>>

NoLock == [task |-> 0, by |-> Nobody, expired |-> FALSE]
Resting == [pc |-> "rest", task |-> 0, old |-> 0, oldBy |-> Nobody, stale |-> FALSE]
NotExecuting == [pc |-> "none", by |-> Nobody]

Ended == {"succeeded", "failed"}
Active == {"pending", "running"}

RunRow == [status : {"none"} \cup Active \cup Ended, by : Runners \cup {Nobody}]
LockRow == [task : Runs \cup {0}, by : Runners \cup {Nobody}, expired : BOOLEAN]
PassState ==
    [pc : {"rest", "mark", "delete", "acquire", "take_over", "fail_old", "start", "dead"},
     task : Runs \cup {0}, old : Runs \cup {0}, oldBy : Runners \cup {Nobody},
     stale : BOOLEAN]
ExecState == [pc : {"none", "running", "cancelled", "release"}, by : Runners \cup {Nobody}]

\* The condition locked_until < now of runner n's statements.
StaleFor(n) == lock # NoLock /\ pass[n].stale

\* The lock becomes l and the loops p: a lock that is newly stored ends after
\* every now taken before.
WriteLock(l, p) ==
    /\ lock' = l
    /\ pass' = [n \in Runners |-> [p[n] EXCEPT !.stale = IF l = lock THEN @ ELSE FALSE]]

Lease(t, n) == [task |-> t, by |-> n, expired |-> FALSE]

\* ReleaseSystemTaskLock
WithoutLock(t, n) == IF lock.task = t /\ lock.by = n THEN NoLock ELSE lock

\* Mutant: the lock goes away and the run is forgotten.
LeaseExpiredRowKept(t) == rows
\* MarkSystemTaskLeaseExpired
LeaseExpiredRow(t) ==
    IF t \in Runs /\ rows[t].status = "running"
    THEN [rows EXCEPT ![t].status = "failed"] ELSE rows

-----------------------------------------------------------------------------
(* Creation, and the passage of time *)

\* Mutant: active_key is not unique.
ActiveKeyIgnored == TRUE
\* The unique active_key admits one active row per type.
ActiveKeyFree == \A s \in Runs : rows[s].status \notin Active

\* CreateSystemTask for the scheduler, EnqueueSystemTask and
\* StartLogCleanupTask.
CreateSystemTask(t) ==
    /\ rows[t].status = "none"
    /\ \A s \in Runs : s < t => rows[s].status # "none"
    /\ ActiveKeyFree
    /\ rows' = [rows EXCEPT ![t].status = "pending"]
    /\ UNCHANGED <<lock, pass, exec, failures>>

\* A runner between acquireSystemTaskLock and the end of ClaimSystemTask.
Claiming(n) == pass[n].pc \in {"fail_old", "start"}

\* locked_until passes.
LeaseExpires ==
    /\ lock # NoLock /\ ~lock.expired
    /\ PromptClaims => ~Claiming(lock.by)
    /\ lock' = [lock EXCEPT !.expired = TRUE]
    /\ UNCHANGED <<rows, pass, exec, failures>>

-----------------------------------------------------------------------------
(* ExpireStaleSystemTaskLocks: read, fail the run, delete the lock *)

ReadStaleLock(n) ==
    /\ pass[n].pc = "rest"
    /\ lock # NoLock /\ lock.expired
    /\ pass' = [pass EXCEPT ![n] = [Resting EXCEPT !.pc = "mark", !.old = lock.task,
                                                   !.oldBy = lock.by, !.stale = TRUE]]
    /\ UNCHANGED <<rows, lock, exec, failures>>

MarkStaleRun(n) ==
    /\ pass[n].pc = "mark"
    /\ rows' = LeaseExpiredRow(pass[n].old)
    /\ pass' = [pass EXCEPT ![n].pc = "delete"]
    /\ UNCHANGED <<lock, exec, failures>>

DeleteStaleLock(n) ==
    LET p == pass[n]
        rested == [pass EXCEPT ![n] = Resting]
    IN  /\ p.pc = "delete"
        /\ IF lock.task = p.old /\ lock.by = p.oldBy /\ StaleFor(n)
           THEN WriteLock(NoLock, rested)
           ELSE pass' = rested /\ UNCHANGED lock
        /\ UNCHANGED <<rows, exec, failures>>

-----------------------------------------------------------------------------
(* ClaimSystemTask *)

\* The pending row is found, and now and locked_until are computed.
BeginClaim(n, t) ==
    /\ pass[n].pc = "rest"
    /\ rows[t].status = "pending"
    /\ pass' = [pass EXCEPT ![n] = [Resting EXCEPT !.pc = "acquire", !.task = t,
                                                   !.stale = lock.expired]]
    /\ UNCHANGED <<rows, lock, exec, failures>>

\* acquireSystemTaskLock: insert, or else read the lock that is there.
AcquireLock(n) ==
    LET p == pass[n] IN
    /\ p.pc = "acquire"
    /\ \/ /\ lock = NoLock
          /\ WriteLock(Lease(p.task, n), [pass EXCEPT ![n].pc = "start"])
       \/ /\ lock # NoLock /\ ~StaleFor(n)
          /\ pass' = [pass EXCEPT ![n] = Resting]
          /\ UNCHANGED lock
       \/ /\ StaleFor(n)
          /\ pass' = [pass EXCEPT ![n].pc = "take_over", ![n].old = lock.task]
          /\ UNCHANGED lock
    /\ UNCHANGED <<rows, exec, failures>>

\* Mutant: the lock is taken because it had run out when it was read.
MayTakeOverUnchecked(n) == lock # NoLock
\* The WHERE clause of the takeover.
MayTakeOver(n) == StaleFor(n)

TakeOverLock(n) ==
    LET p == pass[n] IN
    /\ p.pc = "take_over"
    /\ IF MayTakeOver(n)
       THEN WriteLock(Lease(p.task, n),
                      [pass EXCEPT ![n].pc = IF p.old # p.task THEN "fail_old" ELSE "start"])
       ELSE pass' = [pass EXCEPT ![n] = Resting] /\ UNCHANGED lock
    /\ UNCHANGED <<rows, exec, failures>>

FailOldRun(n) ==
    /\ pass[n].pc = "fail_old"
    /\ rows' = LeaseExpiredRow(pass[n].old)
    /\ pass' = [pass EXCEPT ![n].pc = "start"]
    /\ UNCHANGED <<lock, exec, failures>>

Startable(t) == rows[t].status = "pending"

\* The row goes from pending to running and its handler is dispatched (unless
\* reading the row back fails), or the lock is given back.
StartRun(n) ==
    LET t == pass[n].task
        rested == [pass EXCEPT ![n] = Resting]
    IN  /\ pass[n].pc = "start"
        /\ \/ /\ Startable(t)
              /\ rows' = [rows EXCEPT ![t] = [status |-> "running", by |-> n]]
              /\ exec' \in {exec, [exec EXCEPT ![t] = [pc |-> "running", by |-> n]]}
              /\ pass' = rested
              /\ UNCHANGED lock
           \/ /\ ~Startable(t)
              /\ WriteLock(WithoutLock(t, n), rested)
              /\ UNCHANGED <<rows, exec>>
        /\ UNCHANGED failures

\* A statement of the pass fails: a claim that has the lock gives it back, the
\* rest waits for the next pass.
PassFails(n) ==
    LET rested == [pass EXCEPT ![n] = Resting]
    IN  /\ failures < MaxFailures
        /\ pass[n].pc \notin {"rest", "dead"}
        /\ IF Claiming(n) THEN WriteLock(WithoutLock(pass[n].task, n), rested)
           ELSE pass' = rested /\ UNCHANGED lock
        /\ failures' = failures + 1
        /\ UNCHANGED <<rows, exec>>

-----------------------------------------------------------------------------
(* runWithLeaseHeartbeat and the handlers *)

Holds(t, n) == lock.task = t /\ lock.by = n /\ ~lock.expired

\* RenewSystemTaskLock; when it fails the handler's context is cancelled.
RenewLease(t) ==
    /\ exec[t].pc = "running"
    /\ IF Holds(t, exec[t].by)
       THEN WriteLock(lock, pass) /\ UNCHANGED exec
       ELSE /\ exec' = [exec EXCEPT ![t].pc = "cancelled"]
            /\ UNCHANGED <<lock, pass>>
    /\ UNCHANGED <<rows, failures>>

\* Mutant: the row is not checked, only the lock.
MayFinishByLock(t, n) == lock.task = t /\ lock.by = n
\* The WHERE clause of FinishSystemTask (and of UpdateSystemTaskState).
MayFinish(t, n) == rows[t].status = "running" /\ rows[t].by = n /\ Holds(t, n)

\* FinishSystemTask; a run whose lock is lost ends without writing.
FinishRun(t, status) ==
    LET n == exec[t].by IN
    /\ exec[t].pc \in {"running", "cancelled"}
    /\ IF MayFinish(t, n)
       THEN /\ rows' = [rows EXCEPT ![t].status = status]
            /\ exec' = [exec EXCEPT ![t].pc = "release"]
       ELSE exec' = [exec EXCEPT ![t] = NotExecuting] /\ UNCHANGED rows
    /\ UNCHANGED <<lock, pass, failures>>

ReleaseLock(t) ==
    /\ exec[t].pc = "release"
    /\ WriteLock(WithoutLock(t, exec[t].by), pass)
    /\ exec' = [exec EXCEPT ![t] = NotExecuting]
    /\ UNCHANGED <<rows, failures>>

\* The process of runner n ends, with everything it executes.
RunnerCrashes(n) ==
    /\ pass[n].pc # "dead"
    /\ \E m \in Runners \ {n} : pass[m].pc # "dead"
    /\ pass' = [pass EXCEPT ![n] = [Resting EXCEPT !.pc = "dead"]]
    /\ exec' = [t \in Runs |-> IF exec[t].by = n THEN NotExecuting ELSE exec[t]]
    /\ UNCHANGED <<rows, lock, failures>>

-----------------------------------------------------------------------------
SysInit ==
    /\ rows = [t \in Runs |-> [status |-> "none", by |-> Nobody]]
    /\ lock = NoLock
    /\ pass = [n \in Runners |-> Resting]
    /\ exec = [t \in Runs |-> NotExecuting]
    /\ failures = 0

CleanupStep(n) == ReadStaleLock(n) \/ MarkStaleRun(n) \/ DeleteStaleLock(n)
ClaimStep(n) ==
    \/ \E t \in Runs : BeginClaim(n, t)
    \/ AcquireLock(n) \/ TakeOverLock(n) \/ FailOldRun(n) \/ StartRun(n)
Finishing(t) == (\E status \in Ended : FinishRun(t, status)) \/ ReleaseLock(t)

SysNext ==
    \/ \E t \in Runs : CreateSystemTask(t) \/ RenewLease(t) \/ Finishing(t)
    \/ \E n \in Runners : CleanupStep(n) \/ ClaimStep(n) \/ PassFails(n) \/ RunnerCrashes(n)
    \/ LeaseExpires

\* A runner that is alive loops for ever and its pass runs to the end; a
\* handler returns; a lease nobody renews runs out.
Unrenewed == lock # NoLock /\ exec[lock.task].by # lock.by /\ ~Claiming(lock.by)
SysFairness ==
    /\ \A n \in Runners : /\ SF_sysVars(ReadStaleLock(n))
                          /\ SF_sysVars(\E t \in Runs : BeginClaim(n, t))
    /\ \A n \in Runners : WF_sysVars(pass[n].pc # "rest" /\ (CleanupStep(n) \/ ClaimStep(n)))
    /\ \A t \in Runs : WF_sysVars(Finishing(t))
    /\ WF_sysVars(Unrenewed /\ LeaseExpires)

SysSpec == SysInit /\ [][SysNext]_sysVars /\ SysFairness

-----------------------------------------------------------------------------
(* Properties *)

\* Rows, lock and goroutines have the states the code gives them.
SysTypeOK ==
    /\ rows \in [Runs -> RunRow]
    /\ lock \in LockRow
    /\ pass \in [Runners -> PassState]
    /\ exec \in [Runs -> ExecState]
    /\ failures \in 0..MaxFailures

\* Only runs under a lease are running: this is what lets the stale-lock
\* cleanup, which looks at locks alone, fail every run whose runner is gone
\* ("mark expired leases failed").
RunningHasLease ==
    \A t \in Runs : rows[t].status = "running" => lock.task = t

\* A lease that has not run out is given up by its holder only: no cleanup
\* and no claim of another runner, however stale what it has read, removes or
\* replaces it.
ValidLeaseIsRespected ==
    [][lock # NoLock /\ ~lock.expired /\ <<lock'.task, lock'.by>> # <<lock.task, lock.by>> =>
        \/ exec[lock.task] = [pc |-> "release", by |-> lock.by]
        \/ Claiming(lock.by)]_sysVars

\* An ended run stays as it ended: a handler that comes back after its lease
\* was taken cannot turn "task lease expired" into a success, and no second
\* runner starts the run again.
EndedRunIsFinal ==
    [][\A t \in Runs : rows[t].status \in Ended => rows'[t] = rows[t]]_sysVars

\* Every run that was created ends, so that the next one of its type can be
\* created: its handler finishes it, or its lease runs out and it is failed.
RunsEnd ==
    \A t \in Runs : rows[t].status \in Active ~> rows[t].status \in Ended
=============================================================================
