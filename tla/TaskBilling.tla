----------------------------- MODULE TaskBilling -----------------------------
(***************************************************************************)
(* An asynchronous task from submission to its end: the request handler    *)
(* that submits it (controller/relay.go, RelayTask), the pollers, the      *)
(* timeout sweep and the realtime fetches that learn how it ended          *)
(* (service/task_polling.go, relay/relay_task.go), and the provider.       *)
(*                                                                         *)
(* A poller and a fetch read the task row, ask the provider, and write     *)
(* later what they concluded from the row they read; the sweep reads a     *)
(* batch and writes it row by row.  Any number of these are between their  *)
(* read and their write at the same time, on one node or on several.  The  *)
(* database transactions are the actions of BillingOperation.              *)
(***************************************************************************)
EXTENDS BillingOperation

CONSTANTS
    Pollers,   \* polling passes (RunTaskPollingOnce) running concurrently
    Fetchers,  \* concurrent user requests that fetch a task in real time
    Sweepers,  \* timeout sweeps
    Prices     \* quotas a task may be priced at

Workers == Pollers \cup Fetchers \cup Sweepers

ASSUME WorkerAssumption ==
    /\ Prices \subseteq Quota
    /\ Pollers \cap Fetchers = {} /\ Pollers \cap Sweepers = {}
    /\ Fetchers \cap Sweepers = {}

VARIABLES
    job,       \* the provider's job for a request or an old task: who runs it, how far it is
    handler,   \* where the submitting handler of a request is
    worker     \* the row each worker has read and what it concluded

flowVars == <<vars, job, handler, worker>>

JobStates == {"none", "queued", "running", "success", "failure"}

\* Vertex and Gemini are the platforms with realtime fetches; "video" stands
\* for the other video platforms (Kling and so on).
Platforms == {"video", "suno", "vertex", "gemini"}

NoJob == [by |-> Unset, state |-> "none"]

\* failing: the deferred Refund of RelayTask is about to run.  stranded: the
\* handler ended and left the reservation as it was.
HandlerStates == {"idle", "submitting", "accepted", "failing", "done", "stranded"}

\* seen is the row as the worker read it, reply the status it will write.
Idle == [pc |-> "idle", task |-> Unset, seen |-> NoTask, reply |-> "none"]

-----------------------------------------------------------------------------
(* RelayTask *)

\* RelayTaskSubmit reserves before the first attempt; retries keep the
\* reservation.
Reserve(r, u, price) ==
    /\ handler[r] = "idle"
    /\ ReserveFromWallet(r, u, Unset, price)
    /\ handler' = [handler EXCEPT ![r] = "submitting"]
    /\ UNCHANGED <<job, worker>>

SubmitAccepted(r) ==
    /\ handler[r] = "submitting"
    /\ handler' = [handler EXCEPT ![r] = "accepted"]
    /\ \E p \in Platforms : job' = [job EXCEPT ![r] = [by |-> p, state |-> "queued"]]
    /\ UNCHANGED <<vars, worker>>

\* The last attempt failed; the provider may have taken the job all the same
\* when only its answer was lost or not understood.
SubmitFails(r) ==
    /\ handler[r] = "submitting"
    /\ handler' = [handler EXCEPT ![r] = "failing"]
    /\ \/ \E p \in Platforms : job' = [job EXCEPT ![r] = [by |-> p, state |-> "queued"]]
       \/ UNCHANGED job
    /\ UNCHANGED <<vars, worker>>

\* Mutant: this return forgets to set taskErr, so nothing is refunded.
ProtectFailsSilently(r) ==
    /\ handler[r] = "accepted"
    /\ handler' = [handler EXCEPT ![r] = "done"]
    /\ UNCHANGED <<vars, job, worker>>

\* SetProviderResultURI fails on accepted work: taskErr is set, so the
\* deferred refund runs.
ProtectFails(r) ==
    /\ handler[r] = "accepted"
    /\ handler' = [handler EXCEPT ![r] = "failing"]
    /\ UNCHANGED <<vars, job, worker>>

LinkTask(r, k, price) ==
    /\ handler[r] = "accepted"
    /\ CreateTaskWithBillingOperation(k, r, price)
    /\ handler' = [handler EXCEPT ![r] = "done"]
    /\ UNCHANGED <<job, worker>>

\* "The caller must not refund accepted upstream work when this persistence
\* step fails": the handler returns with taskErr unset.
LinkTaskFails(r) ==
    /\ handler[r] = "accepted"
    /\ handler' = [handler EXCEPT ![r] = "stranded"]
    /\ UNCHANGED <<vars, job, worker>>

\* The deferred BillingSession.Refund; an error is only logged.
DeferredRefund(r) ==
    /\ handler[r] = "failing"
    /\ \/ /\ RefundBillingOperation(r)
          /\ handler' = [handler EXCEPT ![r] = "done"]
       \/ /\ handler' = [handler EXCEPT ![r] = "stranded"]
          /\ UNCHANGED vars
    /\ UNCHANGED <<job, worker>>

\* The process ends; nothing looks for reservations without a task afterwards.
HandlerCrashes(r) ==
    /\ handler[r] \in {"submitting", "accepted", "failing"}
    /\ handler' = [handler EXCEPT ![r] = "stranded"]
    /\ UNCHANGED <<vars, job, worker>>

-----------------------------------------------------------------------------
(* The provider: a job only moves forward. *)

JobProgress(o) ==
    /\ \/ job[o].state = "queued" /\ job' = [job EXCEPT ![o].state = "running"]
       \/ /\ job[o].state \in {"queued", "running"}
          /\ \E end \in TaskDone : job' = [job EXCEPT ![o].state = end]
    /\ UNCHANGED <<vars, handler, worker>>

-----------------------------------------------------------------------------
(* Workers *)

\* The task status an adaptor derives from the state of the job.  A Gemini or
\* Vertex operation that is not done is in progress.
ReplyOf(j) ==
    CASE j.state = "running" -> "in_progress"
      [] j.state = "queued" -> IF j.by \in {"vertex", "gemini"} THEN "in_progress" ELSE "submitted"
      [] OTHER -> j.state

\* A worker has read the row of task k; reply is "none" until it has asked.
Reads(w, k, pc, reply) ==
    /\ worker[w].pc = "idle"
    /\ worker' = [worker EXCEPT ![w] =
          [pc |-> pc, task |-> k, seen |-> tasks[k], reply |-> reply]]
    /\ UNCHANGED <<vars, job, handler>>

\* sweepTimedOutTasks loads the running tasks submitted before the cutoff
\* (any may be: a pass runs as late as it likes) and writes them failed.
SweepReads(w, k) ==
    /\ w \in Sweepers
    /\ tasks[k].status \in TaskRunning
    /\ Reads(w, k, "write", "failure")

\* RunTaskPollingOnce loads the running tasks whose progress is not 100% (the
\* adaptors report less while a job runs).  A row without upstream task id is
\* failed without asking.
PollReads(w, k) ==
    /\ w \in Pollers
    /\ tasks[k].status \in TaskRunning
    /\ \/ Reads(w, k, "ask", "none")
       \/ Reads(w, k, "write", "failure")

\* videoFetchByIDRespBodyBuilder loads a task whatever its status.
FetchReads(w, k) ==
    /\ w \in Fetchers
    /\ tasks[k].status # "none"
    /\ Reads(w, k, "ask", "none")

\* The upstream task id of the row a worker has read names the job: the one the
\* request has started, or that of a task from before there were operations.
JobOf(w) == job[IF worker[w].seen.op = Unset THEN worker[w].task ELSE worker[w].seen.op]

\* The worker has asked a provider on one of the platforms and will write the
\* status its answer tells (the state of the job at that moment) or one of
\* the others.  Without a usable answer it writes nothing (WorkerGivesUp).
Concludes(w, platforms, others) ==
    LET j == JobOf(w)
    IN  /\ worker[w].pc = "ask"
        /\ j.by \in platforms
        /\ \E reply \in {ReplyOf(j)} \cup others :
            worker' = [worker EXCEPT ![w].pc = "write", ![w].reply = reply]
        /\ UNCHANGED <<vars, job, handler>>

\* updateVideoTasks: a channel that is gone fails all its tasks.
ChannelLost(w) ==
    /\ w \in Pollers
    /\ worker[w].pc = "ask"
    /\ JobOf(w).by # "suno"
    /\ worker' = [worker EXCEPT ![w].pc = "write", ![w].reply = "failure"]
    /\ UNCHANGED <<vars, job, handler>>

\* updateVideoSingleTask: an answer in no known format is a failure of the
\* task; after a rate limit or with an unknown status nothing is written.
UpdateVideoSingleTask(w) ==
    /\ w \in Pollers
    /\ Concludes(w, {"video", "vertex"}, {"failure"})

\* updateSunoTasks: a gone channel, or a fail reason in an answer of whatever
\* status, is a failure; an answer without status keeps the one that was read.
UpdateSunoTasks(w) ==
    /\ w \in Pollers
    /\ Concludes(w, {"suno"}, {worker[w].seen.status, "failure"})

\* applyGeminiVideoPollingResult: a retryable answer, one that cannot be
\* sanitized and one whose result cannot be protected write nothing; only a
\* failed operation fails the task.
ApplyGeminiVideoPollingResult(w) ==
    /\ w \in Pollers
    /\ Concludes(w, {"gemini"}, {})

\* The realtime fetches write what the provider answers, whatever the status
\* of the row they read.
TryRealtimeFetch(w) ==
    /\ w \in Fetchers
    /\ Concludes(w, {"vertex"}, {})

TryRealtimeFetchGemini(w) ==
    /\ w \in Fetchers
    /\ Concludes(w, {"gemini"}, {})

\* The conditions under which ApplyTaskBillingTransition commits: on the task
\* path an open operation always closes, if need be as abandoned.
Commits(k, from, to, requested) ==
    LET op == AdoptedOperation(k) IN
    /\ MayEnd(k, from, to)
    /\ \/ LegacyNoRefund(k, OutcomeOf(to))
       \/ /\ op.task \in {Unset, k}
          /\ Open(op) \/ Replays(op, requested, OutcomeOf(to))

\* CalculateTaskBillingOnComplete: a recalculated price or the quota of the
\* row the worker read; 0 for a failure.
Requested(seen, to) == IF to = "failure" THEN {0} ELSE Prices \cup {seen.quota}

\* ApplyDurableTaskBillingTransition; a refused transition is only logged.
EndTask(w) ==
    LET k == worker[w].task
        seen == worker[w].seen
        to == worker[w].reply
    IN  /\ worker[w].pc = "write" /\ to \in TaskDone
        /\ \E requested \in Requested(seen, to) :
            \/ ApplyTaskBillingTransition(k, seen.status, to, requested)
            \/ ~Commits(k, seen.status, to, requested) /\ UNCHANGED vars
        /\ worker' = [worker EXCEPT ![w] = Idle]
        /\ UNCHANGED <<job, handler>>

\* Mutant: the row is written whatever its status is by now.
UnguardedMatch(k, fromStatus) == TRUE
StatusMatches(k, fromStatus) == tasks[k].status = fromStatus

\* UpdateWithStatus: every column of the row the worker read, with the new
\* status, provided the stored status is still the one it read.
UpdateWithStatus(w) ==
    LET k == worker[w].task
        seen == worker[w].seen
        to == worker[w].reply
    IN  /\ worker[w].pc = "write" /\ to \in TaskRunning
        /\ tasks' = IF StatusMatches(k, seen.status)
                    THEN [tasks EXCEPT ![k] = [seen EXCEPT !.status = to]]
                    ELSE tasks
        /\ worker' = [worker EXCEPT ![w] = Idle]
        /\ UNCHANGED <<users, tokens, subs, ops, ghost, job, handler>>

\* The context is cancelled, the provider or the database does not answer, or
\* the process ends.
WorkerGivesUp(w) ==
    /\ worker[w].pc # "idle"
    /\ worker' = [worker EXCEPT ![w] = Idle]
    /\ UNCHANGED <<vars, job, handler>>

-----------------------------------------------------------------------------
FlowInit ==
    /\ Init
    /\ \E old \in [LegacyTasks -> [by : Platforms, state : JobStates \ {"none"}]] :
        job = [o \in OpIds |-> IF o \in LegacyTasks THEN old[o] ELSE NoJob]
    /\ handler = [r \in Requests |-> "idle"]
    /\ worker = [w \in Workers |-> Idle]

HandlerNext ==
    \E r \in Requests :
        \/ \E u \in Users, price \in Prices : Reserve(r, u, price)
        \/ SubmitAccepted(r)
        \/ SubmitFails(r)
        \/ ProtectFails(r)
        \/ \E k \in Tasks, price \in Prices : LinkTask(r, k, price)
        \/ LinkTaskFails(r)
        \/ DeferredRefund(r)
        \/ HandlerCrashes(r)

WorkerNext ==
    \E w \in Workers :
        \/ \E k \in Tasks : SweepReads(w, k) \/ PollReads(w, k) \/ FetchReads(w, k)
        \/ ChannelLost(w)
        \/ UpdateVideoSingleTask(w)
        \/ UpdateSunoTasks(w)
        \/ ApplyGeminiVideoPollingResult(w)
        \/ TryRealtimeFetch(w)
        \/ TryRealtimeFetchGemini(w)
        \/ EndTask(w)
        \/ UpdateWithStatus(w)
        \/ WorkerGivesUp(w)

OwnerNext ==
    /\ \E u \in Users : \/ DeleteUser(u, "gone")
                        \/ \E amount \in Amounts : ChangeUserQuota(u, amount)
    /\ UNCHANGED <<job, handler, worker>>

FlowNext == HandlerNext \/ WorkerNext \/ OwnerNext \/ \E o \in OpIds : JobProgress(o)

\* The handler is a goroutine that the runtime keeps scheduling: one of its
\* next steps is taken.
HandlerMoves(r) ==
    \/ SubmitAccepted(r) \/ SubmitFails(r) \/ ProtectFails(r) \/ LinkTaskFails(r)
    \/ \E k \in Tasks, price \in Prices : LinkTask(r, k, price)
    \/ DeferredRefund(r)

\* The poll handler is a system task scheduled over and over
\* (service/system_task.go), and every pass starts with the sweep: a task that
\* stays unfinished is read by it again and again, and the database does not
\* refuse the write for ever.
Fairness ==
    /\ \A r \in Requests : WF_flowVars(HandlerMoves(r))
    /\ \A w \in Sweepers : /\ \A k \in Tasks : WF_flowVars(SweepReads(w, k))
                           /\ SF_flowVars(EndTask(w))

FlowSpec == FlowInit /\ [][FlowNext]_flowVars /\ Fairness

-----------------------------------------------------------------------------
(* Properties *)

\* Rows, jobs, handlers and workers have the states the code gives them; a
\* worker only ever writes a task status it knows.
FlowTypeOK ==
    /\ TypeOK
    /\ job \in [OpIds -> [by : Platforms \cup {Unset}, state : JobStates]]
    /\ handler \in [Requests -> HandlerStates]
    /\ worker \in [Workers -> [pc : {"idle", "ask", "write"}, task : Tasks \cup {Unset},
                               seen : TaskRow, reply : {"none"} \cup TaskRunning \cup TaskDone]]

\* A user pays for a task only if the provider finished it and the task row
\* says so, and goes on saying so: no stale poller, fetch or sweep overwrites
\* the end of a task that was charged.
ChargedMeansDelivered ==
    \A r \in Requests : ops[r].status = "settled" =>
        /\ job[r].state = "success"
        /\ \E k \in Tasks : tasks[k].op = r /\ tasks[k].status = "success"

\* Every unfinished task finishes, however polls, fetches and sweeps race,
\* also one that a late fetch has brought back after its operation was closed
\* (sweepTimedOutTasks with the replay of a refund).
TasksFinish ==
    \A k \in Tasks : tasks[k].status \in TaskRunning ~> tasks[k].status \in TaskDone

\* A reservation does not stay open: the handler refunds it, or its task
\* closes it, unless the handler was cut off or could not write.
ReservationIsResolved ==
    \A r \in Requests :
        ops[r].status = "reserved" ~> ops[r].status \in Closed \/ handler[r] = "stranded"
=============================================================================
