---------------------------- MODULE JobExecution ----------------------------
(***************************************************************************)
(* The core of the orchestrator: what several operating-system processes   *)
(* (long-running workers, the web server, command-line calls) do to the    *)
(* rows of the jobs table through OrchestratorService and JobRepository.   *)
(*                                                                         *)
(* Every `with db.connect()` block of the code is a step of its own: the   *)
(* code reads a row in one transaction, decides, and writes in another.    *)
(* Inside one process nothing runs between two awaits, so an actor in the  *)
(* middle of such a section excludes the other actors of its process       *)
(* (MidSection); actors of other processes interleave freely.              *)
(*                                                                         *)
(* An executor is one slot for process_claimed_job: an asyncio task of a   *)
(* worker, or a background task of the web server (Run Now, Retry Now,     *)
(* run-once).  An operator is whoever presses a button or types a command. *)
(*                                                                         *)
(* The audit tables (job_runs, scheduler_events, artifacts) are written    *)
(* along the way and read by nothing modelled here; they are left out.     *)
(***************************************************************************)
EXTENDS JobTable, FiniteSets

CONSTANTS
  Jobs, Executors, Operators, Processes,
  WorkerProcesses,  \* the processes that run WorkerService.run_forever
  RunOnceProcesses, \* the processes that serve POST /worker/run-once
  ProcessOf,        \* the process of an executor or of an operator
  WorkerIdOf,       \* the worker_id an executor claims with
  Disabled,         \* jobs whose backend the configuration does not enable
  MaxAttempts,      \* jobs.max_attempts
  Commands,         \* the operator commands the environment uses
  LeasesMayLapse,   \* may a lease expire although its task is alive?
  NoJob, Nobody,
  MaxClaims,        \* bound on the claims of one job
  MaxStops          \* bound on crashes and shutdowns

ASSUME ConstantsAssumption ==
  /\ WorkerProcesses \subseteq Processes
  /\ RunOnceProcesses \subseteq Processes \ WorkerProcesses
  /\ ProcessOf \in [Executors \cup Operators -> Processes]
  /\ WorkerIdOf \in [Executors -> WorkerIds]
  /\ Disabled \subseteq Jobs
  /\ MaxAttempts \in Nat
  /\ Commands \subseteq {"cancel", "retry", "delete"}
  /\ LeasesMayLapse \in BOOLEAN
  /\ NoJob \notin Jobs /\ Nobody \notin Executors
  /\ MaxClaims \in Nat
  /\ MaxStops \in Nat

VARIABLES
  table,     \* the jobs table
  process,   \* whether each process is down, starting, up or draining
  recovery,  \* the run of recover_stale_jobs in each process
  task,      \* what each executor is doing
  command,   \* the operator command between its read and its write
  stops      \* crashes and shutdowns so far

vars == <<table, process, recovery, task, command, stops>>

\* pc, in the order of process_claimed_job:
\*   claimed  - claim_job committed, its get_job not yet run
\*   loaded   - the job is in hand, the task waits to be scheduled
\*   running  - the backend works, the heartbeat renews the lease
\*   stopping - an exception is handled, heartbeat.stop() is awaited
\*   saving   - _persist_success, before it re-reads the job
\*   checking - update_job_status, before its get_job
\*   writing  - update_job_status, before its UPDATE
Task == [pc       : {"idle", "claimed", "loaded", "running", "stopping",
                     "saving", "checking", "writing"},
         job      : Jobs \cup {NoJob},
         claim    : Nat,               \* attempt_count as this claim left it
         attempts : Nat,               \* attempt_count of the copy it read
         cancel   : BOOLEAN,           \* cancel_requested of that copy
         lost     : BOOLEAN,           \* LeaseHeartbeat.lost_lease
         path     : {"result", "error"},
         target   : JobStatus,
         expected : JobStatus]

IdleTask == [pc |-> "idle", job |-> NoJob, claim |-> 0, attempts |-> 0,
             cancel |-> FALSE, lost |-> FALSE, path |-> "result",
             target |-> "running", expected |-> "running"]

Recovery == [pc : {"off", "next", "write"}, stale : SUBSET Jobs,
             job : Jobs \cup {NoJob}, target : JobStatus]

NoRecovery == [pc |-> "off", stale |-> {}, job |-> NoJob, target |-> "running"]

Command == [kind : Commands \cup {"none"}, job : Jobs \cup {NoJob},
            seen : JobStatus]

NoCommand == [kind |-> "none", job |-> NoJob, seen |-> "queued"]

TypeOK ==
  /\ table    \in [Jobs -> Row]
  /\ process  \in [Processes -> {"down", "starting", "up", "draining"}]
  /\ recovery \in [Processes -> Recovery]
  /\ task     \in [Executors -> Task]
  /\ command  \in [Operators -> Command]
  /\ stops    \in Nat

Init ==
  /\ table    = [j \in Jobs |-> NoRow("unborn")]
  /\ process  = [p \in Processes |-> IF p \in WorkerProcesses THEN "down" ELSE "up"]
  /\ recovery = [p \in Processes |-> NoRecovery]
  /\ task     = [e \in Executors |-> IdleTask]
  /\ command  = [o \in Operators |-> NoCommand]
  /\ stops    = 0

-----------------------------------------------------------------------------
Executing(e, j) == task[e].pc # "idle" /\ task[e].job = j

\* Some actor of process p is between two awaits.
MidSection(p) ==
  \/ recovery[p].pc # "off"
  \/ \E e \in Executors :
       ProcessOf[e] = p /\ task[e].pc \in {"claimed", "saving", "checking", "writing"}
  \/ \E o \in Operators : ProcessOf[o] = p /\ command[o].kind # "none"

Free(p) == process[p] \in {"up", "draining"} /\ ~MidSection(p)

-----------------------------------------------------------------------------
\* The queue and the clock.

\* create_job.
Enqueue(j) ==
  /\ table[j].status = "unborn"
  /\ table' = [table EXCEPT ![j] = CreatedRow]
  /\ UNCHANGED <<process, recovery, task, command, stops>>

\* requeue_due_retries, from the worker's loop or the retry-due command.
RequeueDue(p) ==
  /\ process[p] = "up" /\ ~MidSection(p)
  /\ \E j \in Jobs : IsDue(table[j])
  /\ table' = [j \in Jobs |-> IF IsDue(table[j]) THEN RequeuedRow(table[j])
                              ELSE table[j]]
  /\ UNCHANGED <<process, recovery, task, command, stops>>

\* purge_completed; how old the row is is left open.
Purge(j) ==
  /\ table[j].status \in {"completed", "cancelled"}
  /\ table' = [table EXCEPT ![j] = NoRow("deleted")]
  /\ UNCHANGED <<process, recovery, task, command, stops>>

\* The clock passes next_retry_at.
RetryFallsDue(j) ==
  /\ table[j].nextRetry = "later"
  /\ table' = [table EXCEPT ![j].nextRetry = "due"]
  /\ UNCHANGED <<process, recovery, task, command, stops>>

\* The clock passes lease_expires_at.  The heartbeat of a live task renews
\* well before that, unless the machine sleeps or the event loop is blocked.
LeaseExpires(j) ==
  /\ table[j].status = "running" /\ table[j].lease = "live"
  /\ LeasesMayLapse \/ ~ \E e \in Executors : Executing(e, j)
  /\ table' = [table EXCEPT ![j].lease = "expired"]
  /\ UNCHANGED <<process, recovery, task, command, stops>>

-----------------------------------------------------------------------------
\* process_claimed_job, one executor.

\* Mutant: the UPDATE of claim_job without its test of the status.
UncheckedClaim(e, j) ==
  /\ task[e].pc = "idle"
  /\ process[ProcessOf[e]] = "up" /\ ~MidSection(ProcessOf[e])
  /\ table[j].status \in {"queued", "running"}
  /\ table[j].attempts < MaxClaims
  /\ table' = [table EXCEPT ![j] = ClaimedRow(@, WorkerIdOf[e])]
  /\ task' = [task EXCEPT ![e] = [IdleTask EXCEPT !.pc = "claimed", !.job = j,
                                    !.claim = table[j].attempts + 1]]
  /\ UNCHANGED <<process, recovery, command, stops>>

\* claim_job.  A worker takes runnable jobs of enabled backends; Run Now takes
\* any queued job.
Claim(e, j) ==
  /\ task[e].pc = "idle"
  /\ process[ProcessOf[e]] = "up" /\ ~MidSection(ProcessOf[e])
  /\ table[j].status = "queued"
  /\ ProcessOf[e] \in WorkerProcesses => IsRunnable(table[j]) /\ j \notin Disabled
  /\ table[j].attempts < MaxClaims
  /\ table' = [table EXCEPT ![j] = ClaimedRow(@, WorkerIdOf[e])]
  /\ task' = [task EXCEPT ![e] = [IdleTask EXCEPT !.pc = "claimed", !.job = j,
                                    !.claim = table[j].attempts + 1]]
  /\ UNCHANGED <<process, recovery, command, stops>>

\* The get_job that ends claim_job: the copy the execution works with.  For a
\* row deleted meanwhile its KeyError leaves the worker's loop: asyncio.run
\* cancels the other tasks and the worker ends.
Load(e) ==
  LET row == table[task[e].job]
      p == ProcessOf[e]
  IN
  /\ task[e].pc = "claimed"
  /\ \/ /\ Exists(row)
        /\ task' = [task EXCEPT ![e].pc = "loaded", ![e].attempts = row.attempts,
                                ![e].cancel = row.cancel]
        /\ UNCHANGED process
     \/ /\ ~Exists(row)
        /\ task' = [task EXCEPT ![e] = IdleTask]
        /\ process' = IF p \in WorkerProcesses
                      THEN [process EXCEPT ![p] = "draining"] ELSE process
  /\ UNCHANGED <<table, recovery, command, stops>>

\* Before the try block: the backend is looked up and the workspace's
\* integration summary is refreshed.  An error here leaves the row as it is.
FailToStart(e) ==
  /\ task[e].pc = "loaded" /\ Free(ProcessOf[e])
  /\ task[e].job \in Disabled \/ ~Exists(table[task[e].job])
  /\ task' = [task EXCEPT ![e] = IdleTask]
  /\ UNCHANGED <<table, process, recovery, command, stops>>

\* From record_run_start to the call of the backend.  The copy is read again
\* when the integration summary changed.
StartRun(e) ==
  LET row == table[task[e].job] IN
  /\ task[e].pc = "loaded" /\ Free(ProcessOf[e])
  /\ task[e].job \notin Disabled /\ Exists(row)
  /\ \E cancel \in {task[e].cancel, row.cancel},
        attempts \in {task[e].attempts, row.attempts} :
       task' = [task EXCEPT ![e] =
         IF cancel
         THEN [@ EXCEPT !.pc = "checking", !.path = "error",
                        !.target = "cancelled", !.cancel = TRUE,
                        !.attempts = attempts]
         ELSE [@ EXCEPT !.pc = "running", !.cancel = FALSE,
                        !.attempts = attempts]]
  /\ UNCHANGED <<table, process, recovery, command, stops>>

\* renew_lease from LeaseHeartbeat._run; it gives up after one refusal.
Heartbeat(e) ==
  LET j == task[e].job
      owned == table[j].status = "running" /\ table[j].owner = WorkerIdOf[e]
  IN
  /\ task[e].pc = "running" /\ ~task[e].lost /\ Free(ProcessOf[e])
  /\ table' = IF owned THEN [table EXCEPT ![j] = RenewedRow(@)] ELSE table
  /\ task' = [task EXCEPT ![e].lost = ~owned]
  /\ UNCHANGED <<process, recovery, command, stops>>

\* classify_failure for an error that may be retried.
RetryOutcome(attempts) == IF attempts >= MaxAttempts THEN "failed" ELSE "waiting_retry"

\* Where an exception takes the job: retried while attempts last, failed for
\* good, or waiting for the quota to reset (which counts no attempts).
FailureOutcomes(attempts) == {RetryOutcome(attempts), "failed", "waiting_retry"}

Raise(e, target) ==
  task' = [task EXCEPT ![e].pc = "stopping", ![e].path = "error",
                       ![e].target = target, ![e].expected = "running"]

\* Mutant: nobody looks at lost_lease.
BackendReturnsRegardless(e) ==
  /\ task[e].pc = "running" /\ Free(ProcessOf[e])
  /\ \E result \in {"completed", "queued", "waiting_retry"} :
       task' = [task EXCEPT ![e].pc = "saving", ![e].target = result]
  /\ UNCHANGED <<table, process, recovery, command, stops>>

\* The backend returns a result.
BackendReturns(e) ==
  /\ task[e].pc = "running" /\ Free(ProcessOf[e])
  /\ IF task[e].lost
     THEN Raise(e, RetryOutcome(task[e].attempts))
     ELSE \E result \in {"completed", "queued", "waiting_retry"} :
            task' = [task EXCEPT ![e].pc = "saving", ![e].target = result]
  /\ UNCHANGED <<table, process, recovery, command, stops>>

\* The backend raises.
BackendRaises(e) ==
  /\ task[e].pc = "running" /\ Free(ProcessOf[e])
  /\ \E target \in FailureOutcomes(task[e].attempts) : Raise(e, target)
  /\ UNCHANGED <<table, process, recovery, command, stops>>

\* The drain deadline passed: the task is cancelled.  During the await of
\* heartbeat.stop() the cancellation escapes the handler, and nothing is saved.
Interrupt(e) ==
  /\ process[ProcessOf[e]] = "draining" /\ ~MidSection(ProcessOf[e])
  /\ \/ task[e].pc = "running" /\ Raise(e, "waiting_retry")
     \/ task[e].pc = "stopping" /\ task' = [task EXCEPT ![e] = IdleTask]
  /\ UNCHANGED <<table, process, recovery, command, stops>>

\* heartbeat.stop() returned.
HeartbeatStopped(e) ==
  /\ task[e].pc = "stopping" /\ Free(ProcessOf[e])
  /\ task' = [task EXCEPT ![e].pc = "checking"]
  /\ UNCHANGED <<table, process, recovery, command, stops>>

\* Mutant: a failure that cannot be written is tried again.
WriteRefusedAgain(e) == Raise(e, "failed")

\* An exception between the backend's result and the write is classified as
\* an unclassified failure; one raised while a failure is written escapes.
WriteRefused(e) ==
  IF task[e].path = "result" THEN Raise(e, "failed")
  ELSE task' = [task EXCEPT ![e] = IdleTask]

\* _persist_success re-reads the job: a cancel requested by now overrides the
\* result.
ReadLatest(e) ==
  LET row == table[task[e].job] IN
  /\ task[e].pc = "saving"
  /\ IF ~Exists(row) THEN WriteRefused(e)
     ELSE task' = [task EXCEPT ![e] =
            IF row.cancel
            THEN [@ EXCEPT !.pc = "checking", !.target = "cancelled",
                           !.expected = row.status]
            ELSE [@ EXCEPT !.pc = "checking"]]
  /\ UNCHANGED <<table, process, recovery, command, stops>>

\* update_job_status reads the job and checks the transition.
CheckUpdate(e) ==
  /\ task[e].pc = "checking"
  /\ IF UpdateAllowed(table[task[e].job], task[e].expected, task[e].target)
     THEN task' = [task EXCEPT ![e].pc = "writing"]
     ELSE WriteRefused(e)
  /\ UNCHANGED <<table, process, recovery, command, stops>>

\* The UPDATE of update_job_status, in a transaction of its own.  On a deleted
\* row the event's foreign key fails.
WriteOutcome(e) ==
  LET j == task[e].job IN
  /\ task[e].pc = "writing"
  /\ \/ /\ Exists(table[j])
        /\ table' = [table EXCEPT ![j] =
                       UpdatedRow(@, task[e].target, ScheduledIf(task[e].target))]
        /\ task' = [task EXCEPT ![e] = IdleTask]
     \/ /\ ~Exists(table[j])
        /\ WriteRefused(e)
        /\ UNCHANGED table
  /\ UNCHANGED <<process, recovery, command, stops>>

-----------------------------------------------------------------------------
\* recover_stale_jobs: when a worker starts, and in every run-once request.

ListStale(p) ==
  /\ recovery' = [recovery EXCEPT ![p] = [NoRecovery EXCEPT !.pc = "next",
                    !.stale = {j \in Jobs : IsStale(table[j])}]]

StartWorker(p) ==
  /\ p \in WorkerProcesses /\ process[p] = "down"
  /\ process' = [process EXCEPT ![p] = "starting"]
  /\ ListStale(p)
  /\ UNCHANGED <<table, task, command, stops>>

RunOnce(p) ==
  /\ p \in RunOnceProcesses /\ process[p] = "up" /\ ~MidSection(p)
  /\ ListStale(p)
  /\ UNCHANGED <<table, process, task, command, stops>>

\* An error in recover_stale_jobs ends a starting worker, and only the request
\* in the web server.
RecoveryRefused(p) ==
  /\ recovery' = [recovery EXCEPT ![p] = NoRecovery]
  /\ process' = IF process[p] = "starting" THEN [process EXCEPT ![p] = "down"]
                ELSE process

RecoveryTargets(j) == IF j \in Disabled THEN {"failed"} ELSE {"queued", "waiting_retry"}

\* The next listed job: update_job_status reads it again and checks only that
\* it is still running.
RecoverCheck(p, j) ==
  /\ recovery[p].pc = "next" /\ j \in recovery[p].stale
  /\ IF table[j].status = "running"
     THEN /\ \E target \in RecoveryTargets(j) :
               recovery' = [recovery EXCEPT ![p].pc = "write", ![p].job = j,
                              ![p].target = target, ![p].stale = @ \ {j}]
          /\ UNCHANGED process
     ELSE RecoveryRefused(p)
  /\ UNCHANGED <<table, task, command, stops>>

RecoverWrite(p) ==
  LET j == recovery[p].job
      target == recovery[p].target
  IN
  /\ recovery[p].pc = "write"
  /\ \/ /\ Exists(table[j])
        /\ table' = [table EXCEPT ![j] = UpdatedRow(@, target, ScheduledIf(target))]
        /\ recovery' = [recovery EXCEPT ![p].pc = "next", ![p].job = NoJob,
                                        ![p].target = "running"]
        /\ UNCHANGED process
     \/ /\ ~Exists(table[j])
        /\ RecoveryRefused(p)
        /\ UNCHANGED table
  /\ UNCHANGED <<task, command, stops>>

RecoveryDone(p) ==
  /\ recovery[p].pc = "next" /\ recovery[p].stale = {}
  /\ recovery' = [recovery EXCEPT ![p] = NoRecovery]
  /\ process' = [process EXCEPT ![p] = "up"]
  /\ UNCHANGED <<table, task, command, stops>>

-----------------------------------------------------------------------------
\* The operator, and the end of processes.

CommandRead(o, kind, j) ==
  /\ command[o].kind = "none" /\ Free(ProcessOf[o])
  /\ table[j].status \in AcceptedFrom[kind]
  /\ command' = [command EXCEPT ![o] = [kind |-> kind, job |-> j,
                                        seen |-> table[j].status]]
  /\ UNCHANGED <<table, process, recovery, task, stops>>

CommandWrite(o) ==
  LET c == command[o] IN
  /\ c.kind # "none"
  /\ table' = IF Exists(table[c.job])
              THEN [table EXCEPT ![c.job] = CommandEffect(c.kind, c.seen, @)]
              ELSE table
  /\ command' = [command EXCEPT ![o] = NoCommand]
  /\ UNCHANGED <<process, recovery, task, stops>>

\* What a process loses when it dies: its tasks, its recovery, its commands.
LoseProcess(p) ==
  /\ task' = [e \in Executors |-> IF ProcessOf[e] = p THEN IdleTask ELSE task[e]]
  /\ recovery' = [recovery EXCEPT ![p] = NoRecovery]
  /\ command' = [o \in Operators |-> IF ProcessOf[o] = p THEN NoCommand ELSE command[o]]

\* A process is killed.  The web server and the shell are there again at once.
Crash(p) ==
  /\ process[p] # "down" /\ stops < MaxStops
  /\ process' = [process EXCEPT ![p] = IF p \in WorkerProcesses THEN "down" ELSE "up"]
  /\ LoseProcess(p)
  /\ stops' = stops + 1
  /\ UNCHANGED table

\* A worker receives SIGTERM: it claims no more.
Shutdown(p) ==
  /\ p \in WorkerProcesses /\ process[p] = "up" /\ stops < MaxStops
  /\ process' = [process EXCEPT ![p] = "draining"]
  /\ stops' = stops + 1
  /\ UNCHANGED <<table, recovery, task, command>>

\* ... and ends when no task is active.
Drained(p) ==
  /\ process[p] = "draining" /\ ~MidSection(p)
  /\ \A e \in Executors : ProcessOf[e] = p => task[e].pc = "idle"
  /\ process' = [process EXCEPT ![p] = "down"]
  /\ UNCHANGED <<table, recovery, task, command, stops>>

-----------------------------------------------------------------------------
\* What the orchestrator does for an execution, as opposed to its backend.
Proceed(e) ==
  \/ Load(e) \/ FailToStart(e) \/ StartRun(e) \/ HeartbeatStopped(e)
  \/ ReadLatest(e) \/ CheckUpdate(e) \/ WriteOutcome(e)

Execute(e) == Proceed(e) \/ BackendReturns(e) \/ BackendRaises(e)

Recover(p) == (\E j \in Jobs : RecoverCheck(p, j)) \/ RecoverWrite(p) \/ RecoveryDone(p)

Next ==
  \/ \E j \in Jobs : Enqueue(j) \/ Purge(j) \/ RetryFallsDue(j) \/ LeaseExpires(j)
  \/ \E e \in Executors : Execute(e) \/ Heartbeat(e) \/ Interrupt(e)
                          \/ \E j \in Jobs : Claim(e, j)
  \/ \E p \in Processes : RequeueDue(p) \/ StartWorker(p) \/ RunOnce(p)
                          \/ Recover(p) \/ Crash(p) \/ Shutdown(p) \/ Drained(p)
  \/ \E o \in Operators : CommandWrite(o)
                          \/ \E kind \in Commands, j \in Jobs : CommandRead(o, kind, j)

Spec == Init /\ [][Next]_vars

\* asyncio runs its ready callbacks in order, so a task that can go on goes on,
\* and a worker's loop comes round again.  A worker that ended is started
\* again.  The clock advances.  Nothing is assumed of the operator, of Run Now
\* or of a backend: no timeout of the orchestrator ends its call, and a backend
\* may never answer.
Fairness ==
  /\ \A e \in Executors : SF_vars(Proceed(e))
  /\ \A e \in Executors :
       ProcessOf[e] \in WorkerProcesses => SF_vars(\E j \in Jobs : Claim(e, j))
  /\ \A p \in WorkerProcesses :
       /\ SF_vars(RequeueDue(p))
       /\ WF_vars(StartWorker(p)) /\ WF_vars(Recover(p)) /\ WF_vars(Drained(p))
  /\ \A j \in Jobs : WF_vars(RetryFallsDue(j)) /\ WF_vars(LeaseExpires(j))
  /\ \A o \in Operators : WF_vars(CommandWrite(o))

FairSpec == Spec /\ Fairness

-----------------------------------------------------------------------------
\* Whatever the processes, the clock and the operator do.

\* Two executors that work for one job hold different claims of it: claim_job
\* hands out each attempt number once, and nothing ever takes one back.
ClaimsAreUnique ==
  \A e, f \in Executors, j \in Jobs :
    e # f /\ Executing(e, j) /\ Executing(f, j) => task[e].claim # task[f].claim

\* A job waits for a retry exactly when it has a time to be retried at.
\* Otherwise requeue_due_retries, which skips NULL, would leave it waiting for
\* ever, or list_runnable_jobs would pass over a queued job.
WaitingIffScheduled ==
  \A j \in Jobs : (table[j].status = "waiting_retry") <=> (table[j].nextRetry # "none")

\* Once its heartbeat has found the lease lost, an execution records no
\* result: what it still writes, if anything, is a retry or a failure.
LostLeaseRecordsNoResult ==
  \A e \in Executors :
    task[e].lost => /\ task[e].pc # "saving"
                    /\ task[e].pc \in {"checking", "writing"} =>
                         task[e].target \in {"waiting_retry", "failed"}

\* Every running row names its owner and an expiry, so that a later recovery
\* can tell whether it was abandoned.
RunningRowsAreLeased ==
  \A j \in Jobs : table[j].status = "running" =>
                     table[j].owner # NoWorker /\ table[j].lease # "none"

\* When leases are honoured (a live task's lease does not expire), there is one
\* recovery at a time and no retry command.

\* No job is executed twice at the same time, even while rows are cancelled and
\* deleted under their executions.
NoDuplicateExecution ==
  \A e, f \in Executors, j \in Jobs : Executing(e, j) /\ Executing(f, j) => e = f

\* A recovery about to write a job's row does not hit a job that is being
\* executed: between its list and its write nobody can have claimed the job.
NoFalseRecovery ==
  \A p \in Processes, e \in Executors :
    recovery[p].pc = "write" => ~Executing(e, recovery[p].job)

\* While a job is executed and running, the lease is live and is the
\* executor's, and the attempt is the one it claimed: its outcome is never
\* written over the attempt of another.
ExecutionOwnsItsRow ==
  \A e \in Executors, j \in Jobs :
    Executing(e, j) /\ table[j].status = "running" =>
      /\ table[j].owner = WorkerIdOf[e]
      /\ table[j].lease = "live"
      /\ table[j].attempts = task[e].claim

-----------------------------------------------------------------------------
\* Under FairSpec, with finitely many crashes and shutdowns.

\* A job that would have to be claimed once more than the model allows.
AtBound(j) == table[j].status = "queued" /\ table[j].attempts >= MaxClaims

Settled(j) == table[j].status \in {"completed", "failed", "cancelled", "deleted"}

\* A run whose executor is gone: its row stays running until the lease has
\* expired and a worker starts.
Orphaned(j) == table[j].status = "running" /\ ~ \E e \in Executors : Executing(e, j)

\* Every call of a backend ends sooner or later.
BackendsAnswer == \A e \in Executors : []<>(task[e].pc # "running")

\* If backends answer, every job that is queued is in the end completed,
\* failed, cancelled or deleted, through all its retries and follow-ups, unless
\* its run is orphaned.
EnqueuedJobsSettle ==
  BackendsAnswer =>
    \A j \in Jobs : table[j].status = "queued" ~> Settled(j) \/ Orphaned(j) \/ AtBound(j)

\* Whatever the backends do, an execution ends or waits in the call of its
\* backend: no exception handler, refused write, lost lease or row deleted
\* under it leaves a task anywhere else for ever.
ExecutionsEnd ==
  \A e \in Executors, j \in Jobs :
    Executing(e, j) ~> ~Executing(e, j) \/ task[e].pc = "running"

Abandoned(j) == table[j].status = "running" /\ table[j].lease = "expired"

\* A run whose lease has expired when no worker is up is recovered by the
\* worker that starts next, although its recovery may be refused and the worker
\* ends with the error.
StaleRunsAreRecovered ==
  \A j \in Jobs, p \in WorkerProcesses :
    Abandoned(j) /\ process[p] = "down" ~> ~Abandoned(j)

-----------------------------------------------------------------------------
\* What the documentation says of Cancel and the code does not do.

\* "Cancel: ... request a safe stop for running work": a cancel that was
\* accepted for a running job is answered by cancelling the job, and not
\* dropped with the outcome of the run.
CancelIsHonoured ==
  [][\A j \in Jobs :
       table[j].cancel /\ Exists(table'[j]) /\ ~table'[j].cancel
         => table'[j].status = "cancelled"]_vars

-----------------------------------------------------------------------------
\* With leases honoured and no retry command, the abstract job store.

Holder(j) == IF \E e \in Executors : Executing(e, j)
             THEN CHOOSE e \in Executors : Executing(e, j) ELSE Nobody

\* The jobs that a recovery has listed and not yet written.
InRecovery(p, j) ==
  \/ recovery[p].pc # "off" /\ j \in recovery[p].stale
  \/ recovery[p].pc = "write" /\ recovery[p].job = j

Lifecycle == INSTANCE JobLifecycle WITH
               status <- [j \in Jobs |-> table[j].status],
               holder <- [j \in Jobs |-> Holder(j)],
               listed <- {j \in Jobs : \E p \in Processes : InRecovery(p, j)}

ImplementsLifecycle == Lifecycle!Spec
=============================================================================
