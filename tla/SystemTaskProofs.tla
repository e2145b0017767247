--------------------------- MODULE SystemTaskProofs ---------------------------
(***************************************************************************)
(* Proofs about SystemTask for any number of runners and runs: what holds  *)
(* of leases in general, and what holds as long as no claim is interrupted *)
(* for longer than the time to live of the lock.                           *)
(***************************************************************************)
EXTENDS SystemTask, TLAPS

\* The states of a pass that is about to claim pass[n].task.
ClaimPcs == {"acquire", "take_over", "fail_old", "start"}

\* A lock found stale is the lock that is stored, and it has run out.
StaleIsExpired == \A n \in Runners : StaleFor(n) => lock.expired

\* Only started rows name a runner, and no pass claims a row its own runner
\* has started: rows never become pending again.
StartedBy ==
    /\ \A t \in Runs : rows[t].status \in {"none", "pending"} => rows[t].by = Nobody
    /\ \A n \in Runners, t \in Runs :
        pass[n].pc \in ClaimPcs /\ pass[n].task = t => rows[t].by # n

\* A goroutine executes a row its runner started, and releases an ended one.
ExecutesStarted ==
    \A t \in Runs : exec[t].pc # "none" =>
        /\ exec[t].by \in Runners /\ rows[t].by = exec[t].by
        /\ exec[t].pc = "release" => rows[t].status \in Ended

OneActive ==
    \A s, t \in Runs : rows[s].status \in Active /\ rows[t].status \in Active => s = t

\* A claim that has the lock still has it, and it has not run out.
ClaimHasLease ==
    \A n \in Runners : Claiming(n) => lock = Lease(pass[n].task, n)

\* A pass that may still take over a stale lock knows that nothing runs, and
\* one that may still delete it knows that its run has been failed.
StaleMeansIdle ==
    \A n \in Runners : StaleFor(n) =>
        /\ pass[n].pc \in {"acquire", "take_over"} => \A t \in Runs : rows[t].status # "running"
        /\ pass[n].pc = "delete" =>
            \A t \in Runs : t = pass[n].old => rows[t].status # "running"

PassTasks ==
    \A n \in Runners : pass[n].pc \in ClaimPcs => pass[n].task \in Runs

RunningUnderOwnLease ==
    \A t \in Runs : rows[t].status = "running" => lock.task = t /\ lock.by = rows[t].by

LeaseInv == SysTypeOK /\ StaleIsExpired

RunInv ==
    /\ LeaseInv /\ StartedBy /\ ExecutesStarted /\ OneActive /\ ClaimHasLease
    /\ StaleMeansIdle /\ PassTasks /\ RunningUnderOwnLease

-----------------------------------------------------------------------------
\* What a write of the lock leaves of the loops: everything but the bit that
\* says the lock stored before had run out.
LEMMA WriteLockEffect ==
    ASSUME NEW l \in LockRow, NEW p \in [Runners -> PassState], WriteLock(l, p)
    PROVE  /\ lock' = l
           /\ pass' \in [Runners -> PassState]
           /\ \A n \in Runners :
                /\ pass'[n].pc = p[n].pc /\ pass'[n].task = p[n].task
                /\ pass'[n].old = p[n].old /\ pass'[n].oldBy = p[n].oldBy
                /\ pass'[n].stale => l = lock /\ p[n].stale
<1> DEFINE q(n) == [p[n] EXCEPT !.stale = IF l = lock THEN @ ELSE FALSE]
<1>1. lock' = l /\ pass' = [n \in Runners |-> q(n)]
  BY DEF WriteLock
<1>2. ASSUME NEW n \in Runners
      PROVE  /\ q(n) \in PassState
             /\ q(n).pc = p[n].pc /\ q(n).task = p[n].task
             /\ q(n).old = p[n].old /\ q(n).oldBy = p[n].oldBy
             /\ q(n).stale => l = lock /\ p[n].stale
  <2>1. p[n] \in PassState
    OBVIOUS
  <2>2. CASE l = lock
    BY <2>1, <2>2 DEF PassState
  <2>3. CASE l # lock
    BY <2>1, <2>3 DEF PassState
  <2>. QED
    BY <2>2, <2>3
<1>. HIDE DEF q
<1>. QED
  BY <1>1, <1>2

\* The locks the code stores are lock rows.
LEMMA LockRows ==
    ASSUME SysTypeOK, NEW t \in Runs, NEW n \in Runners
    PROVE  NoLock \in LockRow /\ Lease(t, n) \in LockRow /\ WithoutLock(t, n) \in LockRow
  BY DEF SysTypeOK, NoLock, Lease, WithoutLock, LockRow

\* A write of the lock keeps LeaseInv's parts about lock and loops.
LEMMA WriteLockKeeps ==
    ASSUME LeaseInv, NEW l \in LockRow, NEW p \in [Runners -> PassState],
           \A n \in Runners : p[n].stale => pass[n].stale, WriteLock(l, p)
    PROVE  lock' \in LockRow /\ pass' \in [Runners -> PassState] /\ StaleIsExpired'
<1>1. /\ lock' = l
      /\ pass' \in [Runners -> PassState]
      /\ \A n \in Runners : pass'[n].stale => l = lock /\ p[n].stale
  BY WriteLockEffect
<1>. QED
  BY <1>1 DEF LeaseInv, StaleIsExpired, StaleFor

\* A loop that rests gains no stale lock.
LEMMA LoopMoves ==
    ASSUME SysTypeOK, NEW n \in Runners
    PROVE  /\ [pass EXCEPT ![n] = Resting] \in [Runners -> PassState]
           /\ \A m \in Runners : [pass EXCEPT ![n] = Resting][m].stale => pass[m].stale
  BY DEF SysTypeOK, Resting, PassState

\* Nor does one that goes on to its next statement.
LEMMA LoopContinues ==
    ASSUME SysTypeOK, NEW n \in Runners, NEW pc \in {"start", "fail_old", "delete"}
    PROVE  /\ [pass EXCEPT ![n].pc = pc] \in [Runners -> PassState]
           /\ \A m \in Runners : [pass EXCEPT ![n].pc = pc][m].stale => pass[m].stale
  BY DEF SysTypeOK, PassState

\* Failing a run whose lease is gone keeps the rows in their type.
LEMMA ExpiredRowType ==
    ASSUME SysTypeOK, NEW t \in Runs \cup {0}
    PROVE  LeaseExpiredRow(t) \in [Runs -> RunRow]
  BY RunAssumption DEF SysTypeOK, LeaseExpiredRow, RunRow, Ended, Active

\* Every step keeps rows, lock and goroutines in their types, and a lock known
\* to be stale stays expired until it is replaced.
LEMMA LeaseStep == LeaseInv /\ [SysNext]_sysVars => LeaseInv'
<1> SUFFICES ASSUME LeaseInv, [SysNext]_sysVars PROVE LeaseInv'
  OBVIOUS
<1>0. SysTypeOK /\ StaleIsExpired
  BY DEF LeaseInv
<1>1. ASSUME NEW t \in Runs, CreateSystemTask(t) PROVE LeaseInv'
  BY <1>0, <1>1 DEF LeaseInv, SysTypeOK, StaleIsExpired, StaleFor, RunRow, Active, CreateSystemTask
<1>2. ASSUME NEW t \in Runs, RenewLease(t) PROVE LeaseInv'
  <2>1. CASE Holds(t, exec[t].by)
    <3>1. WriteLock(lock, pass) /\ exec' = exec /\ rows' = rows /\ failures' = failures
      BY <1>2, <2>1 DEF RenewLease
    <3>2. lock' \in LockRow /\ pass' \in [Runners -> PassState] /\ StaleIsExpired'
      BY <1>0, <3>1, WriteLockKeeps DEF SysTypeOK
    <3>. QED
      BY <1>0, <3>1, <3>2 DEF LeaseInv, SysTypeOK
  <2>2. CASE ~Holds(t, exec[t].by)
    BY <1>0, <1>2, <2>2 DEF LeaseInv, SysTypeOK, StaleIsExpired, StaleFor, RenewLease, ExecState
  <2>. QED
    BY <2>1, <2>2
<1>3. ASSUME NEW t \in Runs, NEW status \in Ended, FinishRun(t, status) PROVE LeaseInv'
  <2>1. /\ rows' \in {rows, [rows EXCEPT ![t].status = status]}
        /\ exec' \in {[exec EXCEPT ![t].pc = "release"], [exec EXCEPT ![t] = NotExecuting]}
        /\ lock' = lock /\ pass' = pass /\ failures' = failures
    BY <1>3 DEF FinishRun
  <2>2. rows' \in [Runs -> RunRow]
    BY <1>0, <2>1 DEF SysTypeOK, RunRow
  <2>3. exec' \in [Runs -> ExecState]
    BY <1>0, <2>1 DEF SysTypeOK, ExecState, NotExecuting
  <2>. QED
    BY <1>0, <2>1, <2>2, <2>3 DEF LeaseInv, SysTypeOK, StaleIsExpired, StaleFor
<1>4. ASSUME NEW t \in Runs, ReleaseLock(t) PROVE LeaseInv'
  <2>1. /\ WriteLock(WithoutLock(t, exec[t].by), pass)
        /\ exec' = [exec EXCEPT ![t] = NotExecuting] /\ rows' = rows /\ failures' = failures
    BY <1>4 DEF ReleaseLock
  <2>2. WithoutLock(t, exec[t].by) \in LockRow
    BY <1>0 DEF SysTypeOK, WithoutLock, NoLock, LockRow
  <2>3. lock' \in LockRow /\ pass' \in [Runners -> PassState] /\ StaleIsExpired'
    BY <1>0, <2>1, <2>2, WriteLockKeeps DEF SysTypeOK
  <2>. QED
    BY <1>0, <2>1, <2>3 DEF LeaseInv, SysTypeOK, ExecState, NotExecuting
<1>5. ASSUME NEW n \in Runners, NEW t \in Runs, BeginClaim(n, t) PROVE LeaseInv'
  BY <1>0, <1>5 DEF LeaseInv, SysTypeOK, StaleIsExpired, StaleFor, BeginClaim, Resting, PassState, LockRow
<1>6. ASSUME NEW n \in Runners, ReadStaleLock(n) PROVE LeaseInv'
  BY <1>0, <1>6 DEF LeaseInv, SysTypeOK, StaleIsExpired, StaleFor, ReadStaleLock, Resting, PassState, LockRow
<1>7. ASSUME NEW n \in Runners, MarkStaleRun(n) PROVE LeaseInv'
  <2>1. rows' \in [Runs -> RunRow]
    BY <1>0, <1>7, ExpiredRowType DEF MarkStaleRun, SysTypeOK, PassState
  <2>. QED
    BY <1>0, <1>7, <2>1 DEF LeaseInv, SysTypeOK, StaleIsExpired, StaleFor, MarkStaleRun, PassState
<1>8. ASSUME NEW n \in Runners, DeleteStaleLock(n) PROVE LeaseInv'
  <2>1. rows' = rows /\ exec' = exec /\ failures' = failures
    BY <1>8 DEF DeleteStaleLock
  <2>2. CASE WriteLock(NoLock, [pass EXCEPT ![n] = Resting])
    <3>1. lock' \in LockRow /\ pass' \in [Runners -> PassState] /\ StaleIsExpired'
      BY <1>0, <2>2, LoopMoves, LockRows, WriteLockKeeps DEF NoLock, LockRow
    <3>. QED
      BY <1>0, <2>1, <3>1 DEF LeaseInv, SysTypeOK
  <2>3. CASE pass' = [pass EXCEPT ![n] = Resting] /\ UNCHANGED lock
    BY <1>0, <2>1, <2>3, LoopMoves DEF LeaseInv, SysTypeOK, StaleIsExpired, StaleFor
  <2>. QED
    BY <1>8, <2>2, <2>3 DEF DeleteStaleLock
<1>9. ASSUME NEW n \in Runners, AcquireLock(n) PROVE LeaseInv'
  <2>1. rows' = rows /\ exec' = exec /\ failures' = failures
    BY <1>9 DEF AcquireLock
  <2>2. CASE WriteLock(Lease(pass[n].task, n), [pass EXCEPT ![n].pc = "start"])
    <3>1. Lease(pass[n].task, n) \in LockRow
      BY <1>0 DEF Lease, LockRow, SysTypeOK, PassState
    <3> DEFINE l == Lease(pass[n].task, n)
               p == [pass EXCEPT ![n].pc = "start"]
    <3>a. p \in [Runners -> PassState] /\ \A m \in Runners : p[m].stale => pass[m].stale
      BY <1>0, LoopContinues
    <3>b. l \in LockRow /\ WriteLock(l, p)
      BY <2>2, <3>1
    <3> HIDE DEF l, p
    <3>2. lock' \in LockRow /\ pass' \in [Runners -> PassState] /\ StaleIsExpired'
      BY <3>a, <3>b, WriteLockKeeps
    <3>. QED
      BY <1>0, <2>1, <3>2 DEF LeaseInv, SysTypeOK
  <2>3. CASE pass' = [pass EXCEPT ![n] = Resting] /\ UNCHANGED lock
    BY <1>0, <2>1, <2>3, LoopMoves DEF LeaseInv, SysTypeOK, StaleIsExpired, StaleFor
  <2>4. CASE pass' = [pass EXCEPT ![n].pc = "take_over", ![n].old = lock.task] /\ UNCHANGED lock
    <3> DEFINE q == [pass[n] EXCEPT !.pc = "take_over", !.old = lock.task]
    <3>0. pass[n] \in PassState /\ lock.task \in Runs \cup {0}
      BY <1>0 DEF SysTypeOK, LockRow
    <3>1. q \in PassState /\ q.stale = pass[n].stale
      BY <3>0 DEF PassState
    <3>2. pass' = [pass EXCEPT ![n] = q]
      BY <1>0, <2>4 DEF SysTypeOK, PassState
    <3> HIDE DEF q
    <3>3. /\ pass' \in [Runners -> PassState]
          /\ \A m \in Runners : pass'[m].stale = pass[m].stale
      BY <1>0, <3>1, <3>2 DEF SysTypeOK
    <3>. QED
      BY <1>0, <2>1, <2>4, <3>3 DEF LeaseInv, SysTypeOK, StaleIsExpired, StaleFor
  <2>. QED
    BY <1>9, <2>2, <2>3, <2>4 DEF AcquireLock
<1>10. ASSUME NEW n \in Runners, TakeOverLock(n) PROVE LeaseInv'
  <2>1. rows' = rows /\ exec' = exec /\ failures' = failures
    BY <1>10 DEF TakeOverLock
  <2>2. ASSUME NEW pc \in {"start", "fail_old"},
               WriteLock(Lease(pass[n].task, n), [pass EXCEPT ![n].pc = pc])
        PROVE  LeaseInv'
    <3>1. Lease(pass[n].task, n) \in LockRow
      BY <1>0 DEF Lease, LockRow, SysTypeOK, PassState
    <3> DEFINE l == Lease(pass[n].task, n)
               p == [pass EXCEPT ![n].pc = pc]
    <3>a. p \in [Runners -> PassState] /\ \A m \in Runners : p[m].stale => pass[m].stale
      BY <1>0, LoopContinues
    <3>b. l \in LockRow /\ WriteLock(l, p)
      BY <2>2, <3>1
    <3> HIDE DEF l, p
    <3>2. lock' \in LockRow /\ pass' \in [Runners -> PassState] /\ StaleIsExpired'
      BY <3>a, <3>b, WriteLockKeeps
    <3>. QED
      BY <1>0, <2>1, <3>2 DEF LeaseInv, SysTypeOK
  <2>3. CASE pass' = [pass EXCEPT ![n] = Resting] /\ UNCHANGED lock
    BY <1>0, <2>1, <2>3, LoopMoves DEF LeaseInv, SysTypeOK, StaleIsExpired, StaleFor
  <2>4. \/ \E pc \in {"start", "fail_old"} :
              WriteLock(Lease(pass[n].task, n), [pass EXCEPT ![n].pc = pc])
        \/ pass' = [pass EXCEPT ![n] = Resting] /\ UNCHANGED lock
    BY <1>10 DEF TakeOverLock
  <2>. QED
    BY <2>2, <2>3, <2>4
<1>11. ASSUME NEW n \in Runners, FailOldRun(n) PROVE LeaseInv'
  <2>1. rows' \in [Runs -> RunRow]
    BY <1>0, <1>11, ExpiredRowType DEF FailOldRun, SysTypeOK, PassState
  <2>. QED
    BY <1>0, <1>11, <2>1 DEF LeaseInv, SysTypeOK, StaleIsExpired, StaleFor, FailOldRun, PassState
<1>12. ASSUME NEW n \in Runners, StartRun(n) PROVE LeaseInv'
  <2> DEFINE t == pass[n].task
  <2>1. CASE Startable(t)
    <3>1. /\ rows' = [rows EXCEPT ![t] = [status |-> "running", by |-> n]]
          /\ exec' \in {exec, [exec EXCEPT ![t] = [pc |-> "running", by |-> n]]}
          /\ pass' = [pass EXCEPT ![n] = Resting] /\ lock' = lock /\ failures' = failures
      BY <1>12, <2>1 DEF StartRun
    <3>2. rows' \in [Runs -> RunRow]
      BY <1>0, <3>1 DEF SysTypeOK, RunRow, Active
    <3>3. exec' \in [Runs -> ExecState]
      BY <1>0, <3>1 DEF SysTypeOK, ExecState
    <3>. QED
      BY <1>0, <3>1, <3>2, <3>3, LoopMoves DEF LeaseInv, SysTypeOK, StaleIsExpired, StaleFor
  <2>2. CASE ~Startable(t)
    <3>1. /\ WriteLock(WithoutLock(t, n), [pass EXCEPT ![n] = Resting])
          /\ rows' = rows /\ exec' = exec /\ failures' = failures
      BY <1>12, <2>2 DEF StartRun
    <3>2. WithoutLock(t, n) \in LockRow
      BY <1>0 DEF SysTypeOK, WithoutLock, NoLock, LockRow
    <3>3. lock' \in LockRow /\ pass' \in [Runners -> PassState] /\ StaleIsExpired'
      BY <1>0, <3>1, <3>2, LoopMoves, WriteLockKeeps
    <3>. QED
      BY <1>0, <3>1, <3>3 DEF LeaseInv, SysTypeOK
  <2>. QED
    BY <2>1, <2>2
<1>13. ASSUME NEW n \in Runners, PassFails(n) PROVE LeaseInv'
  <2>1. /\ rows' = rows /\ exec' = exec /\ failures' \in 0..MaxFailures
    BY <1>0, <1>13, RunAssumption DEF PassFails, SysTypeOK
  <2>2. CASE WriteLock(WithoutLock(pass[n].task, n), [pass EXCEPT ![n] = Resting])
    <3>1. WithoutLock(pass[n].task, n) \in LockRow
      BY <1>0 DEF SysTypeOK, WithoutLock, NoLock, LockRow
    <3>2. lock' \in LockRow /\ pass' \in [Runners -> PassState] /\ StaleIsExpired'
      BY <1>0, <2>2, <3>1, LoopMoves, WriteLockKeeps
    <3>. QED
      BY <1>0, <2>1, <3>2 DEF LeaseInv, SysTypeOK
  <2>3. CASE pass' = [pass EXCEPT ![n] = Resting] /\ UNCHANGED lock
    BY <1>0, <2>1, <2>3, LoopMoves DEF LeaseInv, SysTypeOK, StaleIsExpired, StaleFor
  <2>. QED
    BY <1>13, <2>2, <2>3 DEF PassFails
<1>14. ASSUME NEW n \in Runners, RunnerCrashes(n) PROVE LeaseInv'
  BY <1>0, <1>14 DEF LeaseInv, SysTypeOK, StaleIsExpired, StaleFor, RunnerCrashes, Resting,
     NotExecuting, PassState, ExecState
<1>15. CASE LeaseExpires
  BY <1>0, <1>15 DEF LeaseInv, SysTypeOK, StaleIsExpired, StaleFor, LeaseExpires, NoLock, LockRow
<1>16. CASE UNCHANGED sysVars
  BY <1>0, <1>16 DEF LeaseInv, SysTypeOK, StaleIsExpired, StaleFor, sysVars
<1>. QED
  BY <1>1, <1>2, <1>3, <1>4, <1>5, <1>6, <1>7, <1>8, <1>9, <1>10, <1>11, <1>12, <1>13,
     <1>14, <1>15, <1>16 DEF SysNext, CleanupStep, ClaimStep, Finishing

\* The initial state satisfies both invariants.
LEMMA RunInit == SysInit => RunInv
  BY RunAssumption DEF SysInit, RunInv, LeaseInv, SysTypeOK, StaleIsExpired, StartedBy,
     ExecutesStarted, OneActive, ClaimHasLease, StaleMeansIdle, PassTasks,
     RunningUnderOwnLease, StaleFor, Claiming, ClaimPcs, NoLock, Resting, NotExecuting,
     RunRow, LockRow, PassState, ExecState, Active, Ended

\* Under prompt claims every step keeps a running row under the lease of the
\* runner that started it.
LEMMA RunStep ==
    ASSUME PromptClaims PROVE RunInv /\ [SysNext]_sysVars => RunInv'
<1> SUFFICES ASSUME RunInv, [SysNext]_sysVars PROVE RunInv'
  OBVIOUS
<1>0. /\ SysTypeOK /\ StaleIsExpired /\ StartedBy /\ ExecutesStarted /\ OneActive
      /\ ClaimHasLease /\ StaleMeansIdle /\ PassTasks /\ RunningUnderOwnLease
  BY DEF RunInv, LeaseInv
<1>a. LeaseInv'
  BY LeaseStep DEF RunInv
<1>1. ASSUME NEW t \in Runs, CreateSystemTask(t) PROVE RunInv'
  <2>same. ClaimHasLease' /\ PassTasks'
    BY <1>0, <1>1 DEF ClaimHasLease, Claiming, CreateSystemTask, ActiveKeyFree, PassTasks
  <2>StartedBy. StartedBy'
    BY <1>0, <1>1 DEF StartedBy, CreateSystemTask, ActiveKeyFree
  <2>ExecutesStarted. ExecutesStarted'
    BY <1>0, <1>1 DEF ExecutesStarted, Ended, CreateSystemTask, ActiveKeyFree
  <2>OneActive. OneActive'
    BY <1>0, <1>1 DEF OneActive, CreateSystemTask, ActiveKeyFree
  <2>StaleMeansIdle. StaleMeansIdle'
    BY <1>0, <1>1 DEF StaleMeansIdle, StaleFor, CreateSystemTask, ActiveKeyFree
  <2>RunningUnderOwnLease. RunningUnderOwnLease'
    BY <1>0, <1>1 DEF RunningUnderOwnLease, CreateSystemTask, ActiveKeyFree
  <2>. QED
    BY <1>a, <2>same, <2>StartedBy, <2>ExecutesStarted, <2>OneActive, <2>StaleMeansIdle,
       <2>RunningUnderOwnLease DEF RunInv
<1>2. ASSUME NEW t \in Runs, RenewLease(t) PROVE RunInv'
  <2>1. CASE Holds(t, exec[t].by)
    <3>f. rows' = rows /\ exec' = exec
      BY <1>2, <2>1 DEF RenewLease
    <3> DEFINE l == lock
               p == pass
    <3>l. l \in LockRow
      BY <1>0 DEF SysTypeOK
    <3>p. p \in [Runners -> PassState]
      BY <1>0 DEF SysTypeOK
    <3>w. WriteLock(l, p)
      BY <1>2, <2>1 DEF RenewLease
    <3>e. /\ lock' = l
          /\ \A m \in Runners :
                /\ pass'[m].pc = p[m].pc /\ pass'[m].task = p[m].task
                /\ pass'[m].old = p[m].old
                /\ pass'[m].stale => l = lock /\ p[m].stale
      <4> HIDE DEF l, p
      <4>. QED
        BY <3>l, <3>p, <3>w, WriteLockEffect
    <3>same. ExecutesStarted' /\ OneActive'
      BY <1>0, <3>e, <3>f DEF ExecutesStarted, OneActive
    <3>StartedBy. StartedBy'
      BY <1>0, <3>e, <3>f DEF StartedBy
    <3>ClaimHasLease. ClaimHasLease'
      BY <1>0, <3>e, <3>f DEF ClaimHasLease, Claiming
    <3>StaleMeansIdle. StaleMeansIdle'
      BY <1>0, <3>e, <3>f DEF StaleMeansIdle, StaleFor
    <3>PassTasks. PassTasks'
      BY <1>0, <3>e, <3>f DEF PassTasks
    <3>RunningUnderOwnLease. RunningUnderOwnLease'
      BY <1>0, <3>e, <3>f DEF RunningUnderOwnLease
    <3>. QED
      BY <1>a, <3>same, <3>StartedBy, <3>ClaimHasLease, <3>StaleMeansIdle, <3>PassTasks,
         <3>RunningUnderOwnLease DEF RunInv
  <2>2. CASE ~Holds(t, exec[t].by)
    <3>same. StartedBy' /\ OneActive' /\ ClaimHasLease' /\ StaleMeansIdle' /\ PassTasks' /\
       RunningUnderOwnLease'
      BY <1>0, <1>2, <2>2 DEF StartedBy, RenewLease, OneActive, ClaimHasLease, Claiming,
         StaleMeansIdle, StaleFor, PassTasks, RunningUnderOwnLease
    <3>ExecutesStarted. ExecutesStarted'
      BY <1>0, <1>2, <2>2 DEF ExecutesStarted, SysTypeOK, ExecState, RenewLease
    <3>. QED
      BY <1>a, <3>same, <3>ExecutesStarted DEF RunInv
  <2>. QED
    BY <2>1, <2>2
<1>3. ASSUME NEW t \in Runs, NEW status \in Ended, FinishRun(t, status) PROVE RunInv'
  <2>same. ClaimHasLease' /\ PassTasks'
    BY <1>0, <1>3 DEF ClaimHasLease, Claiming, FinishRun, MayFinish, Holds, PassTasks
  <2>StartedBy. StartedBy'
    <3>1. rows' \in {rows, [rows EXCEPT ![t].status = status]} /\ pass' = pass
      BY <1>3 DEF FinishRun
    <3>2. \A r \in Runs : /\ rows'[r].by = rows[r].by
                          /\ rows'[r].status \in {"none", "pending"} =>
                                rows[r].status \in {"none", "pending"}
      BY <1>0, <3>1 DEF SysTypeOK, RunRow, Ended
    <3>. QED
      BY <1>0, <3>1, <3>2 DEF StartedBy
  <2>ExecutesStarted. ExecutesStarted'
    BY <1>0, <1>3 DEF ExecutesStarted, NotExecuting, SysTypeOK, RunRow, ExecState,
       FinishRun, MayFinish, Holds
  <2>OneActive. OneActive'
    BY <1>0, <1>3 DEF OneActive, Active, SysTypeOK, FinishRun, MayFinish, Holds
  <2>StaleMeansIdle. StaleMeansIdle'
    BY <1>0, <1>3, RunAssumption DEF StaleMeansIdle, StaleFor, SysTypeOK, FinishRun,
       MayFinish, Holds
  <2>RunningUnderOwnLease. RunningUnderOwnLease'
    BY <1>0, <1>3 DEF RunningUnderOwnLease, SysTypeOK, RunRow, FinishRun, MayFinish, Holds
  <2>. QED
    BY <1>a, <2>same, <2>StartedBy, <2>ExecutesStarted, <2>OneActive, <2>StaleMeansIdle,
       <2>RunningUnderOwnLease DEF RunInv
<1>4. ASSUME NEW t \in Runs, ReleaseLock(t) PROVE RunInv'
  <2>f. rows' = rows /\ exec' = [exec EXCEPT ![t] = NotExecuting] /\ exec[t].pc = "release"
    BY <1>4 DEF ReleaseLock
  <2> DEFINE l == WithoutLock(t, exec[t].by)
             p == pass
  <2>l. l \in LockRow
    BY <1>0 DEF SysTypeOK, WithoutLock, NoLock, LockRow
  <2>p. p \in [Runners -> PassState]
    BY <1>0 DEF SysTypeOK
  <2>w. WriteLock(l, p)
    BY <1>4 DEF ReleaseLock
  <2>e. /\ lock' = l
        /\ \A m \in Runners :
              /\ pass'[m].pc = p[m].pc /\ pass'[m].task = p[m].task
              /\ pass'[m].old = p[m].old
              /\ pass'[m].stale => l = lock /\ p[m].stale
    <3> HIDE DEF l, p
    <3>. QED
      BY <2>l, <2>p, <2>w, WriteLockEffect
  <2>same. OneActive'
    BY <1>0, <2>e, <2>f DEF OneActive
  <2>StartedBy. StartedBy'
    BY <1>0, <2>e, <2>f DEF StartedBy
  <2>ExecutesStarted. ExecutesStarted'
    BY <1>0, <2>e, <2>f DEF ExecutesStarted, NotExecuting
  <2>ClaimHasLease. ClaimHasLease'
    <3> SUFFICES ASSUME NEW m \in Runners, Claiming(m)' PROVE lock' = Lease(pass[m].task, m)
      BY <2>e DEF ClaimHasLease
    <3>1. pass[m].pc \in ClaimPcs /\ lock = Lease(pass[m].task, m)
      BY <1>0, <2>e DEF ClaimHasLease, Claiming, ClaimPcs
    <3>2. rows[t].by = exec[t].by
      BY <1>0, <2>f DEF ExecutesStarted
    <3>3. ~(lock.task = t /\ lock.by = exec[t].by)
      BY <1>0, <3>1, <3>2 DEF StartedBy, Lease
    <3>. QED
      BY <2>e, <3>1, <3>3 DEF WithoutLock
  <2>StaleMeansIdle. StaleMeansIdle'
    <3> SUFFICES ASSUME NEW m \in Runners, StaleFor(m)'
                 PROVE  /\ pass[m].pc \in {"acquire", "take_over"} =>
                            \A r \in Runs : rows[r].status # "running"
                        /\ pass[m].pc = "delete" =>
                            \A r \in Runs : r = pass[m].old => rows[r].status # "running"
      BY <2>e, <2>f DEF StaleMeansIdle
    <3>1. lock' = lock /\ pass[m].stale
      BY <2>e DEF StaleFor
    <3>2. StaleFor(m)
      BY <3>1 DEF StaleFor
    <3>. QED
      BY <1>0, <3>2 DEF StaleMeansIdle
  <2>PassTasks. PassTasks'
    BY <1>0, <2>e, <2>f DEF PassTasks
  <2>RunningUnderOwnLease. RunningUnderOwnLease'
    BY <1>0, <2>e, <2>f DEF RunningUnderOwnLease, Ended, WithoutLock, ExecutesStarted
  <2>. QED
    BY <1>a, <2>same, <2>StartedBy, <2>ExecutesStarted, <2>ClaimHasLease, <2>StaleMeansIdle,
       <2>PassTasks, <2>RunningUnderOwnLease DEF RunInv
<1>5. ASSUME NEW n \in Runners, NEW t \in Runs, BeginClaim(n, t) PROVE RunInv'
  <2>same. ExecutesStarted' /\ OneActive' /\ RunningUnderOwnLease'
    BY <1>0, <1>5 DEF ExecutesStarted, BeginClaim, OneActive, RunningUnderOwnLease
  <2>StartedBy. StartedBy'
    BY <1>0, <1>5, RunAssumption DEF StartedBy, BeginClaim
  <2>ClaimHasLease. ClaimHasLease'
    BY <1>0, <1>5 DEF ClaimHasLease, Claiming, BeginClaim
  <2>StaleMeansIdle. StaleMeansIdle'
    BY <1>0, <1>5 DEF StaleMeansIdle, OneActive, Active, BeginClaim
  <2>PassTasks. PassTasks'
    BY <1>0, <1>5 DEF PassTasks, BeginClaim
  <2>. QED
    BY <1>a, <2>same, <2>StartedBy, <2>ClaimHasLease, <2>StaleMeansIdle, <2>PassTasks DEF
       RunInv
<1>6. ASSUME NEW n \in Runners, ReadStaleLock(n) PROVE RunInv'
  <2>same. ExecutesStarted' /\ OneActive' /\ RunningUnderOwnLease'
    BY <1>0, <1>6 DEF ExecutesStarted, ReadStaleLock, OneActive, RunningUnderOwnLease
  <2>StartedBy. StartedBy'
    BY <1>0, <1>6 DEF StartedBy, ClaimPcs, ReadStaleLock
  <2>ClaimHasLease. ClaimHasLease'
    BY <1>0, <1>6 DEF ClaimHasLease, Claiming, ReadStaleLock
  <2>StaleMeansIdle. StaleMeansIdle'
    BY <1>0, <1>6 DEF StaleMeansIdle, StaleFor, ReadStaleLock
  <2>PassTasks. PassTasks'
    BY <1>0, <1>6 DEF PassTasks, ClaimPcs, ReadStaleLock
  <2>. QED
    BY <1>a, <2>same, <2>StartedBy, <2>ClaimHasLease, <2>StaleMeansIdle, <2>PassTasks DEF
       RunInv
<1>7. ASSUME NEW n \in Runners, MarkStaleRun(n) PROVE RunInv'
  <2>StartedBy. StartedBy'
    BY <1>0, <1>7 DEF StartedBy, ClaimPcs, MarkStaleRun, LeaseExpiredRow
  <2>ExecutesStarted. ExecutesStarted'
    BY <1>0, <1>7 DEF ExecutesStarted, Ended, MarkStaleRun, LeaseExpiredRow
  <2>OneActive. OneActive'
    BY <1>0, <1>7 DEF OneActive, Active, MarkStaleRun, LeaseExpiredRow
  <2>ClaimHasLease. ClaimHasLease'
    BY <1>0, <1>7 DEF ClaimHasLease, Claiming, MarkStaleRun, LeaseExpiredRow
  <2>StaleMeansIdle. StaleMeansIdle'
    BY <1>0, <1>7 DEF StaleMeansIdle, StaleFor, SysTypeOK, MarkStaleRun, LeaseExpiredRow
  <2>PassTasks. PassTasks'
    BY <1>0, <1>7 DEF PassTasks, ClaimPcs, MarkStaleRun, LeaseExpiredRow
  <2>RunningUnderOwnLease. RunningUnderOwnLease'
    BY <1>0, <1>7 DEF RunningUnderOwnLease, MarkStaleRun, LeaseExpiredRow
  <2>. QED
    BY <1>a, <2>StartedBy, <2>ExecutesStarted, <2>OneActive, <2>ClaimHasLease,
       <2>StaleMeansIdle, <2>PassTasks, <2>RunningUnderOwnLease DEF RunInv
<1>8. ASSUME NEW n \in Runners, DeleteStaleLock(n) PROVE RunInv'
  <2>f. rows' = rows /\ exec' = exec /\ pass[n].pc = "delete"
    BY <1>8 DEF DeleteStaleLock
  <2>1. CASE lock.task = pass[n].old /\ lock.by = pass[n].oldBy /\ StaleFor(n)
    <3> DEFINE l == NoLock
               p == [pass EXCEPT ![n] = Resting]
    <3>l. l \in LockRow
      BY DEF NoLock, LockRow
    <3>p. p \in [Runners -> PassState]
      BY <1>0, LoopMoves
    <3>w. WriteLock(l, p)
      BY <1>8, <2>1 DEF DeleteStaleLock
    <3>e. /\ lock' = l
          /\ \A m \in Runners :
                /\ pass'[m].pc = p[m].pc /\ pass'[m].task = p[m].task
                /\ pass'[m].old = p[m].old
                /\ pass'[m].stale => l = lock /\ p[m].stale
      <4> HIDE DEF l, p
      <4>. QED
        BY <3>l, <3>p, <3>w, WriteLockEffect
    <3>same. ExecutesStarted' /\ OneActive'
      BY <1>0, <2>f, <2>1, <3>e DEF ExecutesStarted, OneActive
    <3>StartedBy. StartedBy'
      BY <1>0, <2>f, <2>1, <3>e DEF StartedBy, ClaimPcs, Resting
    <3>ClaimHasLease. ClaimHasLease'
      BY <1>0, <2>f, <2>1, <3>e DEF ClaimHasLease, Claiming, Lease, Resting, StaleIsExpired
    <3>StaleMeansIdle. StaleMeansIdle'
      BY <1>0, <2>f, <2>1, <3>e DEF StaleMeansIdle, StaleFor
    <3>PassTasks. PassTasks'
      BY <1>0, <2>f, <2>1, <3>e DEF PassTasks, ClaimPcs, Resting
    <3>RunningUnderOwnLease. RunningUnderOwnLease'
      BY <1>0, <2>f, <2>1, <3>e DEF RunningUnderOwnLease, StaleMeansIdle
    <3>. QED
      BY <1>a, <3>same, <3>StartedBy, <3>ClaimHasLease, <3>StaleMeansIdle, <3>PassTasks,
         <3>RunningUnderOwnLease DEF RunInv
  <2>2. CASE ~(lock.task = pass[n].old /\ lock.by = pass[n].oldBy /\ StaleFor(n))
    <3>f. pass' = [pass EXCEPT ![n] = Resting] /\ lock' = lock
      BY <1>8, <2>2 DEF DeleteStaleLock
    <3>same. ExecutesStarted' /\ OneActive' /\ RunningUnderOwnLease'
      BY <1>0, <2>f, <3>f DEF ExecutesStarted, OneActive, RunningUnderOwnLease
    <3>StartedBy. StartedBy'
      BY <1>0, <2>f, <3>f DEF StartedBy, ClaimPcs, Resting
    <3>ClaimHasLease. ClaimHasLease'
      BY <1>0, <2>f, <3>f DEF ClaimHasLease, Claiming, Resting
    <3>StaleMeansIdle. StaleMeansIdle'
      BY <1>0, <2>f, <3>f DEF StaleMeansIdle, StaleFor, Resting
    <3>PassTasks. PassTasks'
      BY <1>0, <2>f, <3>f DEF PassTasks, ClaimPcs, Resting
    <3>. QED
      BY <1>a, <3>same, <3>StartedBy, <3>ClaimHasLease, <3>StaleMeansIdle, <3>PassTasks DEF
         RunInv
  <2>. QED
    BY <2>1, <2>2
<1>9. ASSUME NEW n \in Runners, AcquireLock(n) PROVE RunInv'
  <2>f. rows' = rows /\ exec' = exec /\ pass[n].pc = "acquire"
    BY <1>9 DEF AcquireLock
  <2>1. CASE lock = NoLock
    <3> DEFINE l == Lease(pass[n].task, n)
               p == [pass EXCEPT ![n].pc = "start"]
    <3>l. l \in LockRow
      BY <1>0 DEF Lease, LockRow, SysTypeOK, PassState
    <3>p. p \in [Runners -> PassState]
      BY <1>0, LoopContinues
    <3>w. WriteLock(l, p)
      BY <1>9, <2>1 DEF AcquireLock, StaleFor
    <3>e. /\ lock' = l
          /\ \A m \in Runners :
                /\ pass'[m].pc = p[m].pc /\ pass'[m].task = p[m].task
                /\ pass'[m].old = p[m].old
                /\ pass'[m].stale => l = lock /\ p[m].stale
      <4> HIDE DEF l, p
      <4>. QED
        BY <3>l, <3>p, <3>w, WriteLockEffect
    <3>same. ExecutesStarted' /\ OneActive'
      BY <1>0, <2>f, <2>1, <3>e DEF ExecutesStarted, OneActive
    <3>StartedBy. StartedBy'
      BY <1>0, <2>f, <2>1, <3>e DEF StartedBy, ClaimPcs
    <3>ClaimHasLease. ClaimHasLease'
      <4>1. \A m \in Runners : ~Claiming(m)
        BY <1>0, <2>1, RunAssumption DEF ClaimHasLease, Lease, NoLock
      <4>2. \A m \in Runners : p[m].task = pass[m].task /\ (m # n => p[m].pc = pass[m].pc)
        BY <1>0 DEF SysTypeOK, PassState
      <4>3. l = Lease(pass[n].task, n)
        OBVIOUS
      <4> HIDE DEF l, p
      <4>. QED
        BY <3>e, <4>1, <4>2, <4>3, ZenonT(30) DEF ClaimHasLease, Claiming, Lease
    <3>StaleMeansIdle. StaleMeansIdle'
      BY <1>0, <2>f, <2>1, <3>e DEF StaleMeansIdle, StaleFor
    <3>PassTasks. PassTasks'
      BY <1>0, <2>f, <2>1, <3>e DEF PassTasks, ClaimPcs
    <3>RunningUnderOwnLease. RunningUnderOwnLease'
      BY <1>0, <2>f, <2>1, <3>e, RunAssumption DEF RunningUnderOwnLease, NoLock
    <3>. QED
      BY <1>a, <3>same, <3>StartedBy, <3>ClaimHasLease, <3>StaleMeansIdle, <3>PassTasks,
         <3>RunningUnderOwnLease DEF RunInv
  <2>2. CASE lock # NoLock
    <3>f. /\ lock' = lock
          /\ pass' \in {[pass EXCEPT ![n] = Resting], [pass EXCEPT ![n].pc = "take_over", ![n].old = lock.task]}
      BY <1>9, <2>2 DEF AcquireLock
    <3>same. ExecutesStarted' /\ OneActive' /\ RunningUnderOwnLease'
      BY <1>0, <2>f, <3>f DEF ExecutesStarted, OneActive, RunningUnderOwnLease
    <3>StartedBy. StartedBy'
      BY <1>0, <2>f, <3>f DEF StartedBy, ClaimPcs, Resting, SysTypeOK, PassState
    <3>ClaimHasLease. ClaimHasLease'
      BY <1>0, <2>f, <3>f DEF ClaimHasLease, Claiming, Resting, SysTypeOK, PassState
    <3>StaleMeansIdle. StaleMeansIdle'
      BY <1>0, <2>f, <3>f DEF StaleMeansIdle, StaleFor, Resting, SysTypeOK, PassState
    <3>PassTasks. PassTasks'
      <4>1. \A m \in Runners : pass'[m].pc \in ClaimPcs =>
                pass[m].pc \in ClaimPcs /\ pass'[m].task = pass[m].task
        BY <1>0, <2>f, <3>f DEF SysTypeOK, PassState, Resting, ClaimPcs
      <4>. QED
        BY <1>0, <4>1 DEF PassTasks
    <3>. QED
      BY <1>a, <3>same, <3>StartedBy, <3>ClaimHasLease, <3>StaleMeansIdle, <3>PassTasks DEF
         RunInv
  <2>. QED
    BY <2>1, <2>2
<1>10. ASSUME NEW n \in Runners, TakeOverLock(n) PROVE RunInv'
  <2>f. rows' = rows /\ exec' = exec /\ pass[n].pc = "take_over"
    BY <1>10 DEF TakeOverLock
  <2>1. CASE StaleFor(n)
    <3>c. PICK pc \in {"start", "fail_old"} :
            WriteLock(Lease(pass[n].task, n), [pass EXCEPT ![n].pc = pc])
      BY <1>10, <2>1 DEF TakeOverLock, MayTakeOver
    <3> DEFINE l == Lease(pass[n].task, n)
               p == [pass EXCEPT ![n].pc = pc]
    <3>l. l \in LockRow
      BY <1>0 DEF Lease, LockRow, SysTypeOK, PassState
    <3>p. p \in [Runners -> PassState]
      BY <1>0, LoopContinues
    <3>w. WriteLock(l, p)
      BY <3>c
    <3>e. /\ lock' = l
          /\ \A m \in Runners :
                /\ pass'[m].pc = p[m].pc /\ pass'[m].task = p[m].task
                /\ pass'[m].old = p[m].old
                /\ pass'[m].stale => l = lock /\ p[m].stale
      <4> HIDE DEF l, p
      <4>. QED
        BY <3>l, <3>p, <3>w, WriteLockEffect
    <3>same. ExecutesStarted' /\ OneActive'
      BY <1>0, <2>f, <2>1, <3>e DEF ExecutesStarted, OneActive
    <3>StartedBy. StartedBy'
      BY <1>0, <2>f, <2>1, <3>e DEF StartedBy, ClaimPcs
    <3>ClaimHasLease. ClaimHasLease'
      <4> SUFFICES ASSUME NEW m \in Runners, Claiming(m)' PROVE lock' = Lease(pass'[m].task, m)
        BY DEF ClaimHasLease
      <4>1. p[n].task = pass[n].task /\ (m # n => p[m] = pass[m])
        BY <1>0 DEF SysTypeOK
      <4>2. CASE m = n
        BY <3>e, <4>1, <4>2
      <4>3. CASE m # n
        <5>1. Claiming(m)
          BY <3>e, <4>1, <4>3 DEF Claiming
        <5>2. lock = Lease(pass[m].task, m) /\ lock.expired
          BY <1>0, <2>1, <5>1 DEF ClaimHasLease, StaleIsExpired
        <5>. QED
          BY <5>2 DEF Lease
      <4>. QED
        BY <4>2, <4>3
    <3>StaleMeansIdle. StaleMeansIdle'
      BY <1>0, <2>f, <2>1, <3>e DEF StaleMeansIdle
    <3>PassTasks. PassTasks'
      BY <1>0, <2>f, <2>1, <3>e DEF PassTasks, ClaimPcs
    <3>RunningUnderOwnLease. RunningUnderOwnLease'
      BY <1>0, <2>f, <2>1, <3>e DEF RunningUnderOwnLease, StaleMeansIdle
    <3>. QED
      BY <1>a, <3>same, <3>StartedBy, <3>ClaimHasLease, <3>StaleMeansIdle, <3>PassTasks,
         <3>RunningUnderOwnLease DEF RunInv
  <2>2. CASE ~StaleFor(n)
    <3>f. pass' = [pass EXCEPT ![n] = Resting] /\ lock' = lock
      BY <1>10, <2>2 DEF TakeOverLock, MayTakeOver
    <3>same. ExecutesStarted' /\ OneActive' /\ RunningUnderOwnLease'
      BY <1>0, <2>f, <3>f DEF ExecutesStarted, OneActive, RunningUnderOwnLease
    <3>StartedBy. StartedBy'
      BY <1>0, <2>f, <3>f DEF StartedBy, ClaimPcs, Resting
    <3>ClaimHasLease. ClaimHasLease'
      BY <1>0, <2>f, <3>f DEF ClaimHasLease, Claiming, Resting
    <3>StaleMeansIdle. StaleMeansIdle'
      BY <1>0, <2>f, <3>f DEF StaleMeansIdle, StaleFor, Resting
    <3>PassTasks. PassTasks'
      BY <1>0, <2>f, <3>f DEF PassTasks, ClaimPcs, Resting
    <3>. QED
      BY <1>a, <3>same, <3>StartedBy, <3>ClaimHasLease, <3>StaleMeansIdle, <3>PassTasks DEF
         RunInv
  <2>. QED
    BY <2>1, <2>2
<1>11. ASSUME NEW n \in Runners, FailOldRun(n) PROVE RunInv'
  <2>StartedBy. StartedBy'
    BY <1>0, <1>11 DEF StartedBy, ClaimPcs, FailOldRun, LeaseExpiredRow
  <2>ExecutesStarted. ExecutesStarted'
    BY <1>0, <1>11 DEF ExecutesStarted, Ended, FailOldRun, LeaseExpiredRow
  <2>OneActive. OneActive'
    BY <1>0, <1>11 DEF OneActive, Active, FailOldRun, LeaseExpiredRow
  <2>ClaimHasLease. ClaimHasLease'
    BY <1>0, <1>11 DEF ClaimHasLease, Claiming, FailOldRun, LeaseExpiredRow
  <2>StaleMeansIdle. StaleMeansIdle'
    BY <1>0, <1>11 DEF StaleMeansIdle, StaleFor, FailOldRun, LeaseExpiredRow
  <2>PassTasks. PassTasks'
    BY <1>0, <1>11 DEF PassTasks, ClaimPcs, FailOldRun, LeaseExpiredRow
  <2>RunningUnderOwnLease. RunningUnderOwnLease'
    BY <1>0, <1>11 DEF RunningUnderOwnLease, FailOldRun, LeaseExpiredRow
  <2>. QED
    BY <1>a, <2>StartedBy, <2>ExecutesStarted, <2>OneActive, <2>ClaimHasLease,
       <2>StaleMeansIdle, <2>PassTasks, <2>RunningUnderOwnLease DEF RunInv
<1>12. ASSUME NEW n \in Runners, StartRun(n) PROVE RunInv'
  <2>f. pass[n].pc = "start" /\ pass[n].task \in Runs /\ lock = Lease(pass[n].task, n)
    BY <1>0, <1>12 DEF StartRun, PassTasks, ClaimPcs, ClaimHasLease, Claiming
  <2>1. CASE Startable(pass[n].task)
    <3>f. /\ rows[pass[n].task].status = "pending"
          /\ rows' = [rows EXCEPT ![pass[n].task] = [status |-> "running", by |-> n]]
          /\ exec' \in {exec, [exec EXCEPT ![pass[n].task] = [pc |-> "running", by |-> n]]}
          /\ pass' = [pass EXCEPT ![n] = Resting] /\ lock' = lock
      BY <1>12, <2>1 DEF StartRun, Startable
    <3>StartedBy. StartedBy'
      BY <1>0, <2>f, <3>f DEF StartedBy, ClaimPcs, Resting, SysTypeOK, ClaimHasLease
    <3>ExecutesStarted. ExecutesStarted'
      BY <1>0, <2>f, <3>f, RunAssumption DEF ExecutesStarted, SysTypeOK, RunRow, StartedBy
    <3>OneActive. OneActive'
      BY <1>0, <2>f, <3>f DEF OneActive, Active
    <3>ClaimHasLease. ClaimHasLease'
      BY <1>0, <2>f, <3>f DEF ClaimHasLease, Claiming, Resting
    <3>StaleMeansIdle. StaleMeansIdle'
      BY <1>0, <2>f, <3>f DEF StaleMeansIdle, StaleFor, Lease, Resting, StaleIsExpired
    <3>PassTasks. PassTasks'
      BY <1>0, <2>f, <3>f DEF PassTasks, ClaimPcs, Resting
    <3>RunningUnderOwnLease. RunningUnderOwnLease'
      BY <1>0, <2>f, <3>f DEF RunningUnderOwnLease, Lease, OneActive
    <3>. QED
      BY <1>a, <3>StartedBy, <3>ExecutesStarted, <3>OneActive, <3>ClaimHasLease,
         <3>StaleMeansIdle, <3>PassTasks, <3>RunningUnderOwnLease DEF RunInv
  <2>2. CASE ~Startable(pass[n].task)
    <3>f. rows' = rows /\ exec' = exec
      BY <1>12, <2>2 DEF StartRun
    <3> DEFINE l == WithoutLock(pass[n].task, n)
               p == [pass EXCEPT ![n] = Resting]
    <3>l. l \in LockRow
      BY <1>0 DEF SysTypeOK, WithoutLock, NoLock, LockRow
    <3>p. p \in [Runners -> PassState]
      BY <1>0, LoopMoves
    <3>w. WriteLock(l, p)
      BY <1>12, <2>2 DEF StartRun
    <3>e. /\ lock' = l
          /\ \A m \in Runners :
                /\ pass'[m].pc = p[m].pc /\ pass'[m].task = p[m].task
                /\ pass'[m].old = p[m].old
                /\ pass'[m].stale => l = lock /\ p[m].stale
      <4> HIDE DEF l, p
      <4>. QED
        BY <3>l, <3>p, <3>w, WriteLockEffect
    <3>same. ExecutesStarted' /\ OneActive'
      BY <1>0, <2>f, <3>e, <3>f DEF ExecutesStarted, OneActive
    <3>StartedBy. StartedBy'
      BY <1>0, <2>f, <3>e, <3>f DEF StartedBy, ClaimPcs, Resting
    <3>ClaimHasLease. ClaimHasLease'
      BY <1>0, <2>f, <3>e, <3>f DEF ClaimHasLease, Claiming, Lease, Resting, SysTypeOK,
         WithoutLock
    <3>StaleMeansIdle. StaleMeansIdle'
      BY <1>0, <2>f, <3>e, <3>f DEF StaleMeansIdle, StaleFor, Resting, WithoutLock
    <3>PassTasks. PassTasks'
      BY <1>0, <2>f, <3>e, <3>f DEF PassTasks, ClaimPcs, Resting
    <3>RunningUnderOwnLease. RunningUnderOwnLease'
      BY <1>0, <2>f, <3>e, <3>f DEF RunningUnderOwnLease, ClaimPcs, WithoutLock, StartedBy
    <3>. QED
      BY <1>a, <3>same, <3>StartedBy, <3>ClaimHasLease, <3>StaleMeansIdle, <3>PassTasks,
         <3>RunningUnderOwnLease DEF RunInv
  <2>. QED
    BY <2>1, <2>2
<1>13. ASSUME NEW n \in Runners, PassFails(n) PROVE RunInv'
  <2>f. rows' = rows /\ exec' = exec
    BY <1>13 DEF PassFails
  <2>1. CASE Claiming(n)
    <3>f. pass[n].task \in Runs /\ lock = Lease(pass[n].task, n)
      BY <1>0, <2>1 DEF PassTasks, ClaimPcs, ClaimHasLease, Claiming
    <3> DEFINE l == WithoutLock(pass[n].task, n)
               p == [pass EXCEPT ![n] = Resting]
    <3>l. l \in LockRow
      BY <1>0 DEF SysTypeOK, WithoutLock, NoLock, LockRow
    <3>p. p \in [Runners -> PassState]
      BY <1>0, LoopMoves
    <3>w. WriteLock(l, p)
      BY <1>13, <2>1 DEF PassFails
    <3>e. /\ lock' = l
          /\ \A m \in Runners :
                /\ pass'[m].pc = p[m].pc /\ pass'[m].task = p[m].task
                /\ pass'[m].old = p[m].old
                /\ pass'[m].stale => l = lock /\ p[m].stale
      <4> HIDE DEF l, p
      <4>. QED
        BY <3>l, <3>p, <3>w, WriteLockEffect
    <3>same. ExecutesStarted' /\ OneActive'
      BY <1>0, <2>f, <2>1, <3>e, <3>f DEF ExecutesStarted, OneActive
    <3>StartedBy. StartedBy'
      BY <1>0, <2>f, <2>1, <3>e, <3>f DEF StartedBy, ClaimPcs, Resting
    <3>ClaimHasLease. ClaimHasLease'
      BY <1>0, <2>f, <2>1, <3>e, <3>f DEF ClaimHasLease, Claiming, Lease, Resting,
         SysTypeOK, WithoutLock
    <3>StaleMeansIdle. StaleMeansIdle'
      BY <1>0, <2>f, <2>1, <3>e, <3>f DEF StaleMeansIdle, StaleFor, Resting, WithoutLock
    <3>PassTasks. PassTasks'
      BY <1>0, <2>f, <2>1, <3>e, <3>f DEF PassTasks, ClaimPcs, Resting
    <3>RunningUnderOwnLease. RunningUnderOwnLease'
      BY <1>0, <2>f, <2>1, <3>e, <3>f DEF RunningUnderOwnLease, ClaimPcs, Claiming,
         WithoutLock, StartedBy
    <3>. QED
      BY <1>a, <3>same, <3>StartedBy, <3>ClaimHasLease, <3>StaleMeansIdle, <3>PassTasks,
         <3>RunningUnderOwnLease DEF RunInv
  <2>2. CASE ~Claiming(n)
    <3>f. pass' = [pass EXCEPT ![n] = Resting] /\ lock' = lock
      BY <1>13, <2>2 DEF PassFails
    <3>same. ExecutesStarted' /\ OneActive' /\ RunningUnderOwnLease'
      BY <1>0, <2>f, <3>f DEF ExecutesStarted, OneActive, RunningUnderOwnLease
    <3>StartedBy. StartedBy'
      BY <1>0, <2>f, <3>f DEF StartedBy, ClaimPcs, Resting
    <3>ClaimHasLease. ClaimHasLease'
      BY <1>0, <2>f, <3>f DEF ClaimHasLease, Claiming, Resting
    <3>StaleMeansIdle. StaleMeansIdle'
      BY <1>0, <2>f, <3>f DEF StaleMeansIdle, StaleFor, Resting
    <3>PassTasks. PassTasks'
      BY <1>0, <2>f, <3>f DEF PassTasks, ClaimPcs, Resting
    <3>. QED
      BY <1>a, <3>same, <3>StartedBy, <3>ClaimHasLease, <3>StaleMeansIdle, <3>PassTasks DEF
         RunInv
  <2>. QED
    BY <2>1, <2>2
<1>14. ASSUME NEW n \in Runners, RunnerCrashes(n) PROVE RunInv'
  <2>same. OneActive' /\ RunningUnderOwnLease'
    BY <1>0, <1>14 DEF OneActive, RunnerCrashes, RunningUnderOwnLease
  <2>StartedBy. StartedBy'
    BY <1>0, <1>14 DEF StartedBy, ClaimPcs, RunnerCrashes
  <2>ExecutesStarted. ExecutesStarted'
    BY <1>0, <1>14 DEF ExecutesStarted, NotExecuting, RunnerCrashes
  <2>ClaimHasLease. ClaimHasLease'
    BY <1>0, <1>14 DEF ClaimHasLease, Claiming, RunnerCrashes
  <2>StaleMeansIdle. StaleMeansIdle'
    BY <1>0, <1>14 DEF StaleMeansIdle, StaleFor, RunnerCrashes
  <2>PassTasks. PassTasks'
    BY <1>0, <1>14 DEF PassTasks, ClaimPcs, RunnerCrashes
  <2>. QED
    BY <1>a, <2>same, <2>StartedBy, <2>ExecutesStarted, <2>ClaimHasLease, <2>StaleMeansIdle,
       <2>PassTasks DEF RunInv
<1>15. CASE LeaseExpires
  <2>same. StartedBy' /\ ExecutesStarted' /\ OneActive' /\ PassTasks'
    BY <1>0, <1>15 DEF StartedBy, LeaseExpires, ExecutesStarted, OneActive, PassTasks
  <2>ClaimHasLease. ClaimHasLease'
    BY <1>0, <1>15 DEF ClaimHasLease, Claiming, Lease, LeaseExpires
  <2>StaleMeansIdle. StaleMeansIdle'
    BY <1>0, <1>15 DEF StaleMeansIdle, StaleFor, LeaseExpires
  <2>RunningUnderOwnLease. RunningUnderOwnLease'
    BY <1>0, <1>15 DEF RunningUnderOwnLease, LeaseExpires
  <2>. QED
    BY <1>a, <2>same, <2>ClaimHasLease, <2>StaleMeansIdle, <2>RunningUnderOwnLease DEF
       RunInv
<1>16. CASE UNCHANGED sysVars
  <2>same. StartedBy' /\ ExecutesStarted' /\ OneActive' /\ ClaimHasLease' /\ StaleMeansIdle'
     /\ PassTasks' /\ RunningUnderOwnLease'
    BY <1>0, <1>16 DEF StartedBy, sysVars, ExecutesStarted, OneActive, ClaimHasLease,
       Claiming, StaleMeansIdle, StaleFor, PassTasks, RunningUnderOwnLease
  <2>. QED
    BY <1>a, <2>same DEF RunInv
<1>. QED
  BY <1>1, <1>2, <1>3, <1>4, <1>5, <1>6, <1>7, <1>8, <1>9, <1>10, <1>11, <1>12, <1>13,
     <1>14, <1>15, <1>16 DEF SysNext, CleanupStep, ClaimStep, Finishing

-----------------------------------------------------------------------------
\* The rows, the lock and the goroutines of the job runners never leave the
\* states the code gives them (SysTypeOK), whatever is interrupted or fails.
THEOREM SysTypeCorrect == SysSpec => []SysTypeOK
<1>1. SysInit => LeaseInv
  BY RunInit DEF RunInv
<1>2. LeaseInv /\ [SysNext]_sysVars => LeaseInv'
  BY LeaseStep
<1>3. LeaseInv => SysTypeOK
  BY DEF LeaseInv
<1>. QED
  BY <1>1, <1>2, <1>3, PTL DEF SysSpec

\* A lease that has not run out is taken away or replaced by nobody but its
\* holder (ValidLeaseIsRespected), for any number of runners and however stale
\* the rows are that the cleanup and the claims act on.
THEOREM LeasesRespected == SysSpec => ValidLeaseIsRespected
<1> DEFINE Respected ==
        lock # NoLock /\ ~lock.expired /\ <<lock'.task, lock'.by>> # <<lock.task, lock.by>> =>
            \/ exec[lock.task] = [pc |-> "release", by |-> lock.by]
            \/ Claiming(lock.by)
<1>1. SysInit => LeaseInv
  BY RunInit DEF RunInv
<1>2. LeaseInv /\ [SysNext]_sysVars => LeaseInv'
  BY LeaseStep
<1>3. LeaseInv /\ [SysNext]_sysVars => [Respected]_sysVars
  <2> SUFFICES ASSUME LeaseInv, SysNext PROVE Respected
    OBVIOUS
  <2>0. SysTypeOK /\ StaleIsExpired
    BY DEF LeaseInv
  <2>1. ASSUME NEW t \in Runs, ReleaseLock(t) PROVE Respected
    <3>1. lock' = WithoutLock(t, exec[t].by) /\ exec[t].pc = "release"
      BY <2>1 DEF ReleaseLock, WriteLock
    <3>2. CASE lock.task = t /\ lock.by = exec[t].by
      BY <2>0, <3>1, <3>2 DEF SysTypeOK, ExecState
    <3>3. CASE ~(lock.task = t /\ lock.by = exec[t].by)
      BY <3>1, <3>3 DEF WithoutLock
    <3>. QED
      BY <3>2, <3>3
  <2>2. ASSUME NEW n \in Runners, DeleteStaleLock(n) \/ TakeOverLock(n) PROVE Respected
    <3>1. lock' = lock \/ StaleFor(n)
      BY <2>2 DEF DeleteStaleLock, TakeOverLock, MayTakeOver
    <3>. QED
      BY <2>0, <3>1 DEF StaleIsExpired
  <2>3. ASSUME NEW n \in Runners, StartRun(n) \/ PassFails(n) PROVE Respected
    <3>1. lock' = lock \/ (lock' = WithoutLock(pass[n].task, n) /\ Claiming(n))
      BY <2>3 DEF StartRun, PassFails, WriteLock, Claiming
    <3>. QED
      BY <3>1 DEF WithoutLock
  <2>4. ASSUME NEW n \in Runners, AcquireLock(n) PROVE Respected
    BY <2>4 DEF AcquireLock
  <2>5. ASSUME NEW t \in Runs, RenewLease(t) PROVE Respected
    BY <2>5 DEF RenewLease, WriteLock
  <2>6. CASE LeaseExpires
    BY <2>0, <2>6 DEF LeaseExpires, SysTypeOK, LockRow
  <2>7. ASSUME NEW t \in Runs, NEW status \in Ended, FinishRun(t, status) PROVE Respected
    BY <2>7 DEF FinishRun
  <2>8. ASSUME NEW n \in Runners,
               \/ ReadStaleLock(n) \/ MarkStaleRun(n) \/ FailOldRun(n) \/ RunnerCrashes(n)
               \/ \E t \in Runs : BeginClaim(n, t)
        PROVE  Respected
    BY <2>8 DEF ReadStaleLock, MarkStaleRun, FailOldRun, RunnerCrashes, BeginClaim
  <2>9. ASSUME NEW t \in Runs, CreateSystemTask(t) PROVE Respected
    BY <2>9 DEF CreateSystemTask
  <2>. HIDE DEF Respected
  <2>. QED
    BY <2>1, <2>2, <2>3, <2>4, <2>5, <2>6, <2>7, <2>8, <2>9
       DEF SysNext, CleanupStep, ClaimStep, Finishing
<1>. QED
  BY <1>1, <1>2, <1>3, PTL DEF SysSpec, ValidLeaseIsRespected

\* A run that has succeeded or failed stays as it is (EndedRunIsFinal), under
\* every interleaving of handlers that come back late, cleanups and claims.
THEOREM EndsAreFinal == SysSpec => EndedRunIsFinal
<1> DEFINE Final == \A t \in Runs : rows[t].status \in Ended => rows'[t] = rows[t]
<1>1. SysInit => LeaseInv
  BY RunInit DEF RunInv
<1>2. LeaseInv /\ [SysNext]_sysVars => LeaseInv'
  BY LeaseStep
<1>3. LeaseInv /\ [SysNext]_sysVars => [Final]_sysVars
  <2> SUFFICES ASSUME SysTypeOK, SysNext PROVE Final
    BY DEF LeaseInv
  <2>1. ASSUME NEW t \in Runs, CreateSystemTask(t) PROVE Final
    BY <2>1 DEF CreateSystemTask, SysTypeOK, Ended
  <2>2. ASSUME NEW t \in Runs, NEW status \in Ended, FinishRun(t, status) PROVE Final
    BY <2>2 DEF FinishRun, MayFinish, SysTypeOK, Ended
  <2>3. ASSUME NEW n \in Runners, MarkStaleRun(n) \/ FailOldRun(n) PROVE Final
    BY <2>3 DEF MarkStaleRun, FailOldRun, LeaseExpiredRow, SysTypeOK, Ended
  <2>4. ASSUME NEW n \in Runners, StartRun(n) PROVE Final
    BY <2>4 DEF StartRun, Startable, SysTypeOK, Ended
  <2>5. CASE rows' = rows
    BY <2>5
  <2>6. ASSUME NEW n \in Runners,
               \/ ReadStaleLock(n) \/ DeleteStaleLock(n) \/ AcquireLock(n)
               \/ TakeOverLock(n) \/ PassFails(n) \/ RunnerCrashes(n)
               \/ \E t \in Runs : BeginClaim(n, t)
        PROVE  rows' = rows
    BY <2>6 DEF ReadStaleLock, DeleteStaleLock, AcquireLock, TakeOverLock, PassFails,
       RunnerCrashes, BeginClaim
  <2>7. ASSUME NEW t \in Runs, RenewLease(t) \/ ReleaseLock(t) PROVE rows' = rows
    BY <2>7 DEF RenewLease, ReleaseLock
  <2>8. LeaseExpires => rows' = rows
    BY DEF LeaseExpires
  <2>. HIDE DEF Final
  <2>. QED
    BY <2>1, <2>2, <2>3, <2>4, <2>5, <2>6, <2>7, <2>8
       DEF SysNext, CleanupStep, ClaimStep, Finishing
<1>. QED
  BY <1>1, <1>2, <1>3, PTL DEF SysSpec, EndedRunIsFinal

\* As long as no claim is interrupted for longer than the lock's time to live,
\* every run that is marked running is the one the type's lock stands for
\* (RunningHasLease), so the cleanup of stale locks reaches it.
THEOREM NoRunWithoutLease ==
    ASSUME PromptClaims PROVE SysSpec => []RunningHasLease
<1>1. SysInit => RunInv
  BY RunInit
<1>2. RunInv /\ [SysNext]_sysVars => RunInv'
  BY RunStep
<1>3. RunInv => RunningHasLease
  BY DEF RunInv, RunningUnderOwnLease, RunningHasLease
<1>. QED
  BY <1>1, <1>2, <1>3, PTL DEF SysSpec
=============================================================================
