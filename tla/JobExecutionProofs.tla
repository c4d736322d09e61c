-------------------------- MODULE JobExecutionProofs --------------------------
(***************************************************************************)
(* What JobExecution guarantees for any number of jobs, executors,         *)
(* operators and processes, proved with TLAPS.                             *)
(***************************************************************************)
EXTENDS JobExecution, TLAPS

-----------------------------------------------------------------------------
\* The statements of repository.py keep rows well typed.

\* A deleted or a new row is a row.
LEMMA NoRowType == \A why \in NoRowStatus : NoRow(why) \in Row /\ CreatedRow \in Row
BY DEF NoRow, CreatedRow, Row, NoRowStatus, JobStatus

\* claim_job, renew_lease, update_job_status, request_cancel, manual_retry and
\* requeue_due_retries turn rows into rows.
LEMMA StatementTypes ==
  ASSUME NEW row \in Row
  PROVE  /\ \A w \in WorkerIds : ClaimedRow(row, w) \in Row
         /\ RenewedRow(row) \in Row
         /\ \A target \in JobStatus :
              UpdatedRow(row, target, ScheduledIf(target)) \in Row
         /\ \A seen : CancelRequestedRow(row, seen) \in Row
         /\ RetriedRow(row) \in Row
         /\ RequeuedRow(row) \in Row
         /\ \A l \in {"none", "live", "expired"} : [row EXCEPT !.lease = l] \in Row
         /\ \A n \in {"none", "later", "due"} : [row EXCEPT !.nextRetry = n] \in Row
<1>1. \A w \in WorkerIds : ClaimedRow(row, w) \in Row
  <2> DEFINE attempts == row.attempts + 1
  <2>1. attempts \in Nat
    BY DEF Row
  <2> HIDE DEF attempts
  <2>2. \A w \in WorkerIds :
          [row EXCEPT !.status = "running", !.attempts = attempts, !.cancel = FALSE,
                      !.owner = w, !.lease = "live"] \in Row
    BY <2>1 DEF Row, JobStatus
  <2> QED
    BY <2>2 DEF ClaimedRow, attempts
<1>2. RenewedRow(row) \in Row
  BY DEF RenewedRow, Row
<1>3. \A target \in JobStatus : UpdatedRow(row, target, ScheduledIf(target)) \in Row
  BY DEF UpdatedRow, ScheduledIf, Row
<1>4. \A seen : CancelRequestedRow(row, seen) \in Row
  BY DEF CancelRequestedRow, Row, JobStatus
<1>5. RetriedRow(row) \in Row /\ RequeuedRow(row) \in Row
  BY DEF RetriedRow, RequeuedRow, Row, JobStatus
<1>6. \A l \in {"none", "live", "expired"} : [row EXCEPT !.lease = l] \in Row
  BY DEF Row
<1>7. \A n \in {"none", "later", "due"} : [row EXCEPT !.nextRetry = n] \in Row
  BY DEF Row
<1> QED
  BY <1>1, <1>2, <1>3, <1>4, <1>5, <1>6, <1>7

-----------------------------------------------------------------------------
\* Whoever is in the middle of something has a job to do it to.
Named ==
  /\ \A e \in Executors : task[e].pc # "idle" => task[e].job \in Jobs
  /\ \A p \in Processes : recovery[p].pc = "write" => recovery[p].job \in Jobs
  /\ \A o \in Operators : command[o].kind # "none" => command[o].job \in Jobs

\* No outcome and no recovery leaves a job running.
OutcomesEndRuns ==
  /\ \A e \in Executors : task[e].pc \in {"stopping", "saving", "checking", "writing"}
                          => task[e].target # "running"
  /\ \A p \in Processes : recovery[p].pc = "write" => recovery[p].target # "running"

Typed == TypeOK /\ Named /\ OutcomesEndRuns

\* An executor with nothing to do is well typed.
LEMMA IdleTaskType == IdleTask \in Task
BY DEF Task, IdleTask, JobStatus

\* The initial state is well typed.
LEMMA TypedInit == Init => Typed
<1> SUFFICES ASSUME Init PROVE Typed
  OBVIOUS
<1>1. IdleTask \in Task
  BY IdleTaskType
<1>2. NoRecovery \in Recovery
  BY DEF NoRecovery, Recovery, JobStatus
<1>3. NoCommand \in Command
  BY DEF NoCommand, Command, JobStatus
<1>4. TypeOK
  BY <1>1, <1>2, <1>3, NoRowType DEF Init, TypeOK, NoRowStatus
<1>5. Named /\ OutcomesEndRuns
  BY DEF Init, Named, OutcomesEndRuns, IdleTask, NoRecovery, NoCommand
<1> QED
  BY <1>4, <1>5 DEF Typed

\* An execution that raises keeps a well-typed task.
LEMMA RaiseType ==
  ASSUME TypeOK, NEW e \in Executors, NEW target \in JobStatus, Raise(e, target)
  PROVE  task' \in [Executors -> Task]
<1> DEFINE t == [task[e] EXCEPT !.pc = "stopping", !.path = "error",
                                !.target = target, !.expected = "running"]
<1>0. task[e] \in Task
  BY DEF TypeOK
<1>1. t \in Task
  BY <1>0 DEF Task, JobStatus
<1>2. task' = [task EXCEPT ![e] = t]
  BY DEF Raise
<1> QED
  BY <1>1, <1>2 DEF TypeOK

\* Every step of an execution (process_claimed_job, its heartbeat, its
\* cancellation) keeps the executor's state well typed.
LEMMA TypedTask ==
  ASSUME Typed, NEW e \in Executors, Execute(e) \/ Heartbeat(e) \/ Interrupt(e)
  PROVE  task' \in [Executors -> Task]
<1> USE DEF Typed
<1>0. IdleTask \in Task /\ [task EXCEPT ![e] = IdleTask] \in [Executors -> Task]
  BY IdleTaskType DEF TypeOK
<1>a. \A t \in Task : [task EXCEPT ![e] = t] \in [Executors -> Task]
  BY DEF TypeOK
<1>b. task[e] \in Task
  BY DEF TypeOK
<1>c. {"failed", "waiting_retry", "cancelled", "completed", "queued"} \subseteq JobStatus
  BY DEF JobStatus
<1>1. CASE Load(e)
  <2>1. table[task[e].job] \in Row
    BY <1>1 DEF Load, TypeOK, Named
  <2>2. [task[e] EXCEPT !.pc = "loaded", !.attempts = table[task[e].job].attempts,
                        !.cancel = table[task[e].job].cancel] \in Task
    BY <1>b, <2>1 DEF Task, Row
  <2>3. [task EXCEPT ![e].pc = "loaded", ![e].attempts = table[task[e].job].attempts,
                     ![e].cancel = table[task[e].job].cancel] \in [Executors -> Task]
    BY <1>a, <2>2
  <2> QED
    BY <1>1, <1>0, <2>3 DEF Load
<1>2. CASE FailToStart(e)
  BY <1>2, <1>0 DEF FailToStart
<1>3. CASE StartRun(e)
  <2>1. PICK cancel \in {task[e].cancel, table[task[e].job].cancel},
             attempts \in {task[e].attempts, table[task[e].job].attempts} :
          task' = [task EXCEPT ![e] =
            IF cancel
            THEN [@ EXCEPT !.pc = "checking", !.path = "error",
                           !.target = "cancelled", !.cancel = TRUE,
                           !.attempts = attempts]
            ELSE [@ EXCEPT !.pc = "running", !.cancel = FALSE,
                           !.attempts = attempts]]
    BY <1>3 DEF StartRun
  <2>2. table[task[e].job] \in Row
    BY <1>3 DEF StartRun, TypeOK, Named
  <2>3. attempts \in Nat
    BY <2>2, <1>b DEF Row, Task
  <2>4. [task[e] EXCEPT !.pc = "checking", !.path = "error",
                 !.target = "cancelled", !.cancel = TRUE,
                 !.attempts = attempts] \in Task
    BY <1>b, <2>3 DEF Task, JobStatus
  <2>5. [task[e] EXCEPT !.pc = "running", !.cancel = FALSE,
                 !.attempts = attempts] \in Task
    BY <1>b, <2>3 DEF Task, JobStatus
  <2> QED
    BY <2>1, <2>4, <2>5, <1>a
<1>4. CASE Heartbeat(e)
  <2>1. \A lost \in BOOLEAN : [task[e] EXCEPT !.lost = lost] \in Task
    BY <1>b DEF Task
  <2> QED
    BY <1>4, <1>a, <2>1 DEF Heartbeat
<1>5. CASE BackendReturns(e)
  <2>1. CASE task[e].lost
    BY <1>5, <2>1, <1>c, RaiseType DEF BackendReturns, RetryOutcome
  <2>2. CASE ~task[e].lost
    <3>1. \A result \in {"completed", "queued", "waiting_retry"} :
            [task[e] EXCEPT !.pc = "saving", !.target = result] \in Task
      BY <1>b DEF Task, JobStatus
    <3> QED
      BY <1>5, <2>2, <1>a, <3>1 DEF BackendReturns
  <2> QED
    BY <2>1, <2>2
<1>6. CASE BackendRaises(e)
  BY <1>6, <1>c, RaiseType DEF BackendRaises, FailureOutcomes, RetryOutcome
<1>7. CASE Interrupt(e)
  BY <1>7, <1>0, <1>c, RaiseType DEF Interrupt
<1>8. CASE HeartbeatStopped(e)
  BY <1>8 DEF HeartbeatStopped, TypeOK, Named, Task
<1>9. CASE WriteRefused(e)
  BY <1>9, <1>0, <1>c, RaiseType DEF WriteRefused
<1>10. CASE ReadLatest(e)
  <2>1. CASE ~Exists(table[task[e].job])
    BY <1>10, <2>1, <1>9 DEF ReadLatest
  <2>2. CASE Exists(table[task[e].job])
    <3>1. [task[e] EXCEPT !.pc = "checking", !.target = "cancelled",
                   !.expected = table[task[e].job].status] \in Task
      BY <2>2, <1>b DEF Exists, Task, JobStatus
    <3>2. [task[e] EXCEPT !.pc = "checking"] \in Task
      BY <1>b DEF Task
    <3> QED
      BY <1>10, <2>2, <3>1, <3>2, <1>a DEF ReadLatest
  <2> QED
    BY <2>1, <2>2
<1>11. CASE CheckUpdate(e)
  <2>1. [task EXCEPT ![e].pc = "writing"] \in [Executors -> Task]
    BY <1>b DEF TypeOK, Task
  <2> QED
    BY <1>11, <1>9, <2>1 DEF CheckUpdate
<1>12. CASE WriteOutcome(e)
  BY <1>12, <1>0, <1>9 DEF WriteOutcome
<1> QED
  BY <1>1, <1>2, <1>3, <1>4, <1>5, <1>6, <1>7, <1>8, <1>10, <1>11, <1>12 DEF Execute, Proceed

\* A step of an executor leaves the other executors alone, and the executor
\* with its job and its claim until it lets go of them.
LEMMA TaskFrame ==
  ASSUME Typed, NEW e \in Executors, Execute(e) \/ Heartbeat(e) \/ Interrupt(e)
  PROVE  /\ \A f \in Executors \ {e} : task'[f] = task[f]
         /\ task[e].pc # "idle"
         /\ task'[e].pc # "idle" => /\ task'[e].job = task[e].job
                                    /\ task'[e].claim = task[e].claim
         /\ UNCHANGED <<recovery, command, stops>>
<1> USE DEF Typed, Raise
<1>0. task \in [Executors -> Task] /\ IdleTask.pc = "idle"
  BY DEF TypeOK, IdleTask
<1> USE <1>0 DEF Task
<1>1. CASE Load(e)
  BY <1>1 DEF Load
<1>2. CASE FailToStart(e)
  BY <1>2 DEF FailToStart
<1>3. CASE StartRun(e)
  BY <1>3 DEF StartRun
<1>4. CASE Heartbeat(e)
  BY <1>4 DEF Heartbeat
<1>5. CASE BackendReturns(e)
  BY <1>5 DEF BackendReturns
<1>6. CASE BackendRaises(e)
  BY <1>6 DEF BackendRaises
<1>7. CASE Interrupt(e)
  BY <1>7 DEF Interrupt
<1>8. CASE HeartbeatStopped(e)
  BY <1>8 DEF HeartbeatStopped
<1>9. CASE ReadLatest(e)
  <2>1. CASE Exists(table[task[e].job])
    <3>1. CASE table[task[e].job].cancel
      <4> DEFINE status == table[task[e].job].status
                 t == [task[e] EXCEPT !.pc = "checking", !.target = "cancelled",
                                      !.expected = status]
      <4>1. task' = [task EXCEPT ![e] = t]
        BY <1>9, <2>1, <3>1 DEF ReadLatest
      <4>2. t.job = task[e].job /\ t.claim = task[e].claim
        OBVIOUS
      <4>3. task[e].pc # "idle" /\ UNCHANGED <<recovery, command, stops>>
        BY <1>9 DEF ReadLatest
      <4> HIDE DEF t
      <4> QED
        BY <4>1, <4>2, <4>3
    <3>2. CASE ~table[task[e].job].cancel
      BY <1>9, <2>1, <3>2 DEF ReadLatest
    <3> QED
      BY <3>1, <3>2
  <2>2. CASE ~Exists(table[task[e].job])
    BY <1>9, <2>2 DEF ReadLatest, WriteRefused
  <2> QED
    BY <2>1, <2>2
<1>10. CASE CheckUpdate(e)
  BY <1>10 DEF CheckUpdate, WriteRefused
<1>11. CASE WriteOutcome(e)
  BY <1>11 DEF WriteOutcome, WriteRefused
<1> QED
  BY <1>1, <1>2, <1>3, <1>4, <1>5, <1>6, <1>7, <1>8, <1>9, <1>10, <1>11 DEF Execute, Proceed

\* No step of an execution picks "running" as the outcome to write.
LEMMA TargetFrame ==
  ASSUME Typed, NEW e \in Executors, Execute(e) \/ Heartbeat(e) \/ Interrupt(e)
  PROVE  task'[e].pc \in {"stopping", "saving", "checking", "writing"}
           => task'[e].target # "running"
<1> USE DEF Typed, Raise
<1>0. task \in [Executors -> Task] /\ IdleTask.pc = "idle"
  BY DEF TypeOK, IdleTask
<1> USE <1>0 DEF Task, OutcomesEndRuns
<1>1. CASE Load(e)
  BY <1>1 DEF Load
<1>2. CASE FailToStart(e)
  BY <1>2 DEF FailToStart
<1>3. CASE StartRun(e)
  BY <1>3 DEF StartRun
<1>4. CASE Heartbeat(e)
  BY <1>4 DEF Heartbeat
<1>5. CASE BackendReturns(e)
  BY <1>5 DEF BackendReturns, RetryOutcome
<1>6. CASE BackendRaises(e)
  BY <1>6 DEF BackendRaises, FailureOutcomes, RetryOutcome
<1>7. CASE Interrupt(e)
  BY <1>7 DEF Interrupt
<1>8. CASE HeartbeatStopped(e)
  BY <1>8 DEF HeartbeatStopped
<1>9. CASE ReadLatest(e)
  <2>1. CASE Exists(table[task[e].job])
    BY <1>9, <2>1 DEF ReadLatest
  <2>2. CASE ~Exists(table[task[e].job])
    BY <1>9, <2>2 DEF ReadLatest, WriteRefused
  <2> QED
    BY <2>1, <2>2
<1>10. CASE CheckUpdate(e)
  BY <1>10 DEF CheckUpdate, WriteRefused
<1>11. CASE WriteOutcome(e)
  BY <1>11 DEF WriteOutcome, WriteRefused
<1> QED
  BY <1>1, <1>2, <1>3, <1>4, <1>5, <1>6, <1>7, <1>8, <1>9, <1>10, <1>11 DEF Execute, Proceed

-----------------------------------------------------------------------------
\* What one step may do to one row: each disjunct is a statement of
\* repository.py with the condition under which the code runs it, or the clock.
RowStep(j) ==
  \/ table'[j] = table[j]
  \/ table[j].status = "unborn" /\ table'[j] = CreatedRow
  \/ Exists(table[j]) /\ table'[j] = NoRow("deleted")
  \/ table[j].nextRetry = "later" /\ table'[j] = [table[j] EXCEPT !.nextRetry = "due"]
  \/ table[j].status = "running" /\ table'[j] = [table[j] EXCEPT !.lease = "expired"]
  \/ table[j].status = "running" /\ table'[j] = RenewedRow(table[j])
  \/ IsDue(table[j]) /\ table'[j] = RequeuedRow(table[j])
  \/ /\ table[j].status = "queued"
     /\ \E w \in WorkerIds : table'[j] = ClaimedRow(table[j], w)
  \/ /\ Exists(table[j])
     /\ \E target \in JobStatus \ {"running"} :
          table'[j] = UpdatedRow(table[j], target, ScheduledIf(target))
  \/ /\ Exists(table[j])
     /\ \E seen \in JobStatus : table'[j] = CancelRequestedRow(table[j], seen)
  \/ Exists(table[j]) /\ table'[j] = RetriedRow(table[j])

RowSteps ==
  /\ table' = [j \in Jobs |-> table'[j]]
  /\ \A j \in Jobs : RowStep(j)

\* An execution touches no row but its own, and that one only with the
\* heartbeat's or the outcome's statement.
LEMMA ExecutorRows ==
  ASSUME Typed, NEW e \in Executors, Execute(e) \/ Heartbeat(e) \/ Interrupt(e)
  PROVE  /\ RowSteps
         /\ \A j \in Jobs : j # task[e].job => table'[j] = table[j]
         /\ Heartbeat(e) \/ WriteOutcome(e) \/ UNCHANGED table
<1> USE DEF Typed
<1>0. table \in [Jobs -> Row] /\ task[e] \in Task
  BY DEF TypeOK
<1>1. CASE UNCHANGED table
  BY <1>0, <1>1 DEF RowSteps, RowStep
<1>2. CASE Heartbeat(e)
  BY <1>0, <1>2 DEF Heartbeat, RowSteps, RowStep
<1>3. CASE WriteOutcome(e)
  <2>1. task[e].target \in JobStatus \ {"running"}
    BY <1>0, <1>3 DEF WriteOutcome, OutcomesEndRuns, Task
  <2> QED
    BY <1>0, <1>3, <2>1 DEF WriteOutcome, RowSteps, RowStep
<1> QED
  BY <1>1, <1>2, <1>3 DEF Execute, Proceed, Load, FailToStart, StartRun, BackendReturns,
     BackendRaises, Interrupt, HeartbeatStopped, ReadLatest, CheckUpdate

\* Every step of the system does to each row what one statement does.
LEMMA NextRows ==
  ASSUME Typed, [Next]_vars
  PROVE  RowSteps
<1> USE DEF Typed
<1>0. table \in [Jobs -> Row]
  BY DEF TypeOK
<1>1. CASE UNCHANGED table
  BY <1>0, <1>1 DEF RowSteps, RowStep
<1>2. ASSUME NEW j \in Jobs, Enqueue(j) \/ Purge(j) \/ RetryFallsDue(j) \/ LeaseExpires(j)
      PROVE  RowSteps
  <2>1. CASE Enqueue(j)
    BY <1>0, <2>1 DEF Enqueue, RowSteps, RowStep
  <2>2. CASE Purge(j)
    BY <1>0, <2>2 DEF Purge, RowSteps, RowStep, Exists, JobStatus
  <2>3. CASE RetryFallsDue(j)
    BY <1>0, <2>3 DEF RetryFallsDue, RowSteps, RowStep
  <2>4. CASE LeaseExpires(j)
    BY <1>0, <2>4 DEF LeaseExpires, RowSteps, RowStep
  <2> QED
    BY <1>2, <2>1, <2>2, <2>3, <2>4
<1>3. ASSUME NEW e \in Executors, Execute(e) \/ Heartbeat(e) \/ Interrupt(e)
      PROVE  RowSteps
  BY <1>3, ExecutorRows
<1>4. ASSUME NEW e \in Executors, NEW j \in Jobs, Claim(e, j)
      PROVE  RowSteps
  <2>1. WorkerIdOf[e] \in WorkerIds
    BY ConstantsAssumption
  <2> QED
    BY <1>0, <1>4, <2>1 DEF Claim, RowSteps, RowStep
<1>5. ASSUME NEW p \in Processes, RequeueDue(p)
      PROVE  RowSteps
  BY <1>0, <1>5 DEF RequeueDue, RowSteps, RowStep
<1>6. ASSUME NEW p \in Processes, RecoverWrite(p)
      PROVE  RowSteps
  <2>1. recovery[p].job \in Jobs /\ recovery[p].target \in JobStatus \ {"running"}
    BY <1>6 DEF RecoverWrite, TypeOK, Named, OutcomesEndRuns, Recovery
  <2> QED
    BY <1>0, <1>6, <2>1 DEF RecoverWrite, RowSteps, RowStep
<1>7. ASSUME NEW o \in Operators, CommandWrite(o)
      PROVE  RowSteps
  <2> DEFINE c == command[o]
  <2>1. c.job \in Jobs /\ c.seen \in JobStatus /\ c.kind \in {"cancel", "retry", "delete"}
    BY <1>7, ConstantsAssumption DEF CommandWrite, TypeOK, Named, Command
  <2>2. CASE ~Exists(table[c.job])
    BY <1>7, <2>2, <1>1 DEF CommandWrite
  <2>3. CASE Exists(table[c.job])
    <3>1. table' = [table EXCEPT ![c.job] = CommandEffect(c.kind, c.seen, table[c.job])]
      BY <1>7, <2>3 DEF CommandWrite
    <3>2. CommandEffect(c.kind, c.seen, table[c.job]) \in
            {CancelRequestedRow(table[c.job], c.seen), RetriedRow(table[c.job]),
             NoRow("deleted")}
      BY <2>1 DEF CommandEffect
    <3> HIDE DEF c
    <3> QED
      BY <1>0, <2>1, <2>3, <3>1, <3>2 DEF RowSteps, RowStep
  <2> QED
    BY <2>2, <2>3
<1> QED
  BY <1>1, <1>2, <1>3, <1>4, <1>5, <1>6, <1>7 DEF Next, vars, Recover, RecoverCheck,
     RecoveryDone, StartWorker, RunOnce, Crash, Shutdown, Drained, CommandRead

\* TypeOK with the facts it rests on is inductive.
LEMMA TypedNext ==
  ASSUME Typed, [Next]_vars
  PROVE  Typed'
<1> USE DEF Typed
<1>1. table' \in [Jobs -> Row]
  <2>1. \A j \in Jobs : RowStep(j) => table'[j] \in Row
    <3> SUFFICES ASSUME NEW j \in Jobs, RowStep(j) PROVE table'[j] \in Row
      OBVIOUS
    <3>1. table[j] \in Row
      BY DEF TypeOK
    <3> QED
      BY <3>1, StatementTypes, NoRowType DEF RowStep, NoRowStatus
  <2> QED
    BY <2>1, NextRows DEF RowSteps
<1>2. CASE UNCHANGED vars
  BY <1>2 DEF vars, TypeOK, Named, OutcomesEndRuns
<1>3. ASSUME NEW e \in Executors, Execute(e) \/ Heartbeat(e) \/ Interrupt(e)
      PROVE  Typed'
  <2>1. process' \in [Processes -> {"down", "starting", "up", "draining"}]
    BY <1>3 DEF TypeOK, Execute, Proceed, Load, FailToStart, StartRun, BackendReturns, Heartbeat,
       BackendRaises, Interrupt, HeartbeatStopped, ReadLatest, CheckUpdate, WriteOutcome
  <2>2. TypeOK'
    BY <1>1, <1>3, <2>1, TypedTask, TaskFrame DEF TypeOK
  <2>3. Named'
    BY <1>3, TaskFrame DEF Named
  <2>4. OutcomesEndRuns'
    BY <1>3, TaskFrame, TargetFrame DEF OutcomesEndRuns
  <2> QED
    BY <2>2, <2>3, <2>4
<1>4. ASSUME NEW e \in Executors, NEW j \in Jobs, Claim(e, j)
      PROVE  Typed'
  <2> DEFINE t == [IdleTask EXCEPT !.pc = "claimed", !.job = j,
                                   !.claim = table[j].attempts + 1]
  <2>1. table[j].attempts + 1 \in Nat
    BY DEF TypeOK, Row
  <2>2. t \in Task /\ t.pc = "claimed" /\ t.job = j
    BY <2>1, IdleTaskType DEF Task
  <2>3. task' = [task EXCEPT ![e] = t] /\ UNCHANGED <<process, recovery, command, stops>>
    BY <1>4 DEF Claim
  <2> HIDE DEF t
  <2> QED
    BY <1>1, <2>2, <2>3 DEF TypeOK, Named, OutcomesEndRuns
<1>5. ASSUME NEW j \in Jobs, Enqueue(j) \/ Purge(j) \/ RetryFallsDue(j) \/ LeaseExpires(j)
      PROVE  Typed'
  BY <1>1, <1>5 DEF Enqueue, Purge, RetryFallsDue, LeaseExpires, TypeOK, Named, OutcomesEndRuns
<1>6. ASSUME NEW p \in Processes, RequeueDue(p) \/ Shutdown(p) \/ Drained(p)
      PROVE  Typed'
  BY <1>1, <1>6 DEF RequeueDue, Shutdown, Drained, TypeOK, Named, OutcomesEndRuns
<1>7. ASSUME NEW p \in Processes, StartWorker(p) \/ RunOnce(p)
      PROVE  Typed'
  <2> DEFINE r == [NoRecovery EXCEPT !.pc = "next", !.stale = {j \in Jobs : IsStale(table[j])}]
  <2>1. r \in Recovery /\ r.pc = "next"
    BY DEF NoRecovery, Recovery, JobStatus
  <2>2. recovery' = [recovery EXCEPT ![p] = r]
    BY <1>7 DEF StartWorker, RunOnce, ListStale
  <2> HIDE DEF r
  <2> QED
    BY <1>1, <1>7, <2>1, <2>2 DEF StartWorker, RunOnce, TypeOK, Named, OutcomesEndRuns
<1>8. ASSUME NEW p \in Processes, Recover(p)
      PROVE  Typed'
  <2>0. NoRecovery \in Recovery /\ NoRecovery.pc = "off"
    BY DEF NoRecovery, Recovery, JobStatus
  <2>1. CASE RecoveryRefused(p) /\ UNCHANGED <<task, command, stops>>
    BY <1>1, <2>0, <2>1 DEF RecoveryRefused, TypeOK, Named, OutcomesEndRuns
  <2>2. ASSUME NEW j \in Jobs, RecoverCheck(p, j), table[j].status = "running"
        PROVE  Typed'
    <3>1. PICK target \in RecoveryTargets(j) :
            recovery' = [recovery EXCEPT ![p].pc = "write", ![p].job = j,
                           ![p].target = target, ![p].stale = @ \ {j}]
      BY <2>2 DEF RecoverCheck
    <3> DEFINE r == [recovery[p] EXCEPT !.pc = "write", !.job = j, !.target = target,
                                        !.stale = @ \ {j}]
    <3>2. target \in JobStatus \ {"running"}
      BY DEF RecoveryTargets, JobStatus
    <3>3. r \in Recovery /\ r.job = j /\ r.target = target
      BY <3>2 DEF TypeOK, Recovery
    <3>4. recovery' = [recovery EXCEPT ![p] = r]
      BY <3>1
    <3> HIDE DEF r
    <3> QED
      BY <1>1, <2>2, <3>2, <3>3, <3>4 DEF RecoverCheck, TypeOK, Named, OutcomesEndRuns
  <2>3. CASE RecoverWrite(p) /\ Exists(table[recovery[p].job])
    <3> DEFINE r == [recovery[p] EXCEPT !.pc = "next", !.job = NoJob, !.target = "running"]
    <3>1. r \in Recovery /\ r.pc = "next"
      BY DEF TypeOK, Recovery, JobStatus
    <3>2. recovery' = [recovery EXCEPT ![p] = r] /\ UNCHANGED <<process, task, command, stops>>
      BY <2>3 DEF RecoverWrite
    <3> HIDE DEF r
    <3> QED
      BY <1>1, <3>1, <3>2 DEF TypeOK, Named, OutcomesEndRuns
  <2>4. CASE RecoveryDone(p)
    BY <1>1, <2>0, <2>4 DEF RecoveryDone, TypeOK, Named, OutcomesEndRuns
  <2> QED
    BY <1>8, <2>1, <2>2, <2>3, <2>4 DEF Recover, RecoverCheck, RecoverWrite
<1>9. ASSUME NEW p \in Processes, Crash(p)
      PROVE  Typed'
  <2>1. NoRecovery \in Recovery /\ NoRecovery.pc = "off"
    BY DEF NoRecovery, Recovery, JobStatus
  <2>2. NoCommand \in Command /\ NoCommand.kind = "none"
    BY DEF NoCommand, Command, JobStatus
  <2>3. IdleTask \in Task /\ IdleTask.pc = "idle"
    BY IdleTaskType DEF IdleTask
  <2> QED
    BY <1>1, <1>9, <2>1, <2>2, <2>3 DEF Crash, LoseProcess, TypeOK, Named, OutcomesEndRuns
<1>10. ASSUME NEW o \in Operators, NEW kind \in Commands, NEW j \in Jobs, CommandRead(o, kind, j)
       PROVE  Typed'
  <2> DEFINE c == [kind |-> kind, job |-> j, seen |-> table[j].status]
  <2>1. table[j].status \in JobStatus
    <3>1. kind \in {"cancel", "retry", "delete"}
      BY ConstantsAssumption
    <3> QED
      BY <1>10, <3>1 DEF CommandRead, AcceptedFrom, JobStatus
  <2>2. c \in Command /\ c.job = j
    BY <2>1 DEF Command
  <2>3. command' = [command EXCEPT ![o] = c] /\ UNCHANGED <<process, recovery, task, stops>>
    BY <1>10 DEF CommandRead
  <2> HIDE DEF c
  <2> QED
    BY <1>1, <2>2, <2>3 DEF TypeOK, Named, OutcomesEndRuns
<1>11. ASSUME NEW o \in Operators, CommandWrite(o)
       PROVE  Typed'
  <2>1. NoCommand \in Command /\ NoCommand.kind = "none"
    BY DEF NoCommand, Command, JobStatus
  <2> QED
    BY <1>1, <1>11, <2>1 DEF CommandWrite, TypeOK, Named, OutcomesEndRuns
<1> QED
  BY <1>2, <1>3, <1>4, <1>5, <1>6, <1>7, <1>8, <1>9, <1>10, <1>11 DEF Next

\* The jobs table and the state of every process, task and command keep their
\* types, whatever the processes do.
THEOREM TypeCorrect == Spec => []TypeOK
<1>1. Spec => []Typed
  BY TypedInit, TypedNext, PTL DEF Spec
<1>2. Typed => TypeOK
  BY DEF Typed
<1> QED
  BY <1>1, <1>2, PTL

-----------------------------------------------------------------------------
\* The two invariants of single rows: each statement of RowStep keeps them.

\* Every statement keeps waiting rows scheduled and running rows leased.
LEMMA RowInvariantsNext ==
  ASSUME Typed, WaitingIffScheduled, RunningRowsAreLeased, [Next]_vars
  PROVE  WaitingIffScheduled' /\ RunningRowsAreLeased'
<1> SUFFICES ASSUME NEW j \in Jobs
             PROVE  /\ (table'[j].status = "waiting_retry") <=> (table'[j].nextRetry # "none")
                    /\ table'[j].status = "running" =>
                          table'[j].owner # NoWorker /\ table'[j].lease # "none"
  BY DEF WaitingIffScheduled, RunningRowsAreLeased
<1> DEFINE Good(row) ==
      /\ (row.status = "waiting_retry") <=> (row.nextRetry # "none")
      /\ row.status = "running" => row.owner # NoWorker /\ row.lease # "none"
<1>1. RowStep(j) /\ table[j] \in Row /\ Good(table[j])
  BY NextRows DEF RowSteps, Typed, TypeOK, WaitingIffScheduled, RunningRowsAreLeased
<1>2. \A row \in Row :
        /\ Good(CreatedRow) /\ Good(NoRow("deleted"))
        /\ row.nextRetry = "later" /\ Good(row) => Good([row EXCEPT !.nextRetry = "due"])
        /\ Good(row) => Good([row EXCEPT !.lease = "expired"]) /\ Good(RenewedRow(row))
        /\ IsDue(row) => Good(RequeuedRow(row))
        /\ Good(RetriedRow(row))
  BY DEF Row, CreatedRow, NoRow, RenewedRow, IsDue, RequeuedRow, RetriedRow
<1>3. \A row \in Row, w \in WorkerIds :
        row.status = "queued" /\ Good(row) => Good(ClaimedRow(row, w))
  BY NoWorkerAssumption DEF Row, ClaimedRow
<1>4. \A row \in Row, target \in JobStatus \ {"running"} :
        Good(UpdatedRow(row, target, ScheduledIf(target)))
  BY DEF Row, UpdatedRow, ScheduledIf
<1>5. \A row \in Row, seen \in JobStatus : Good(row) => Good(CancelRequestedRow(row, seen))
  BY DEF Row, CancelRequestedRow
<1>6. Good(table'[j])
  <2> HIDE DEF Good
  <2> QED
    BY <1>1, <1>2, <1>3, <1>4, <1>5 DEF RowStep
<1> QED
  BY <1>6

\* A job waits for a retry exactly when the retry has a time, so that none
\* waits for ever and none is passed over in the queue.
THEOREM RetriesAreScheduled == Spec => []WaitingIffScheduled
<1>1. Init => WaitingIffScheduled /\ RunningRowsAreLeased
  BY DEF Init, WaitingIffScheduled, RunningRowsAreLeased, NoRow
<1>2. Spec => [](Typed /\ WaitingIffScheduled /\ RunningRowsAreLeased)
  BY <1>1, TypedInit, TypedNext, RowInvariantsNext, PTL DEF Spec
<1> QED
  BY <1>2, PTL

\* A running row always names its owner and an expiry: recovery can tell.
THEOREM RunsAreLeased == Spec => []RunningRowsAreLeased
<1>1. Init => WaitingIffScheduled /\ RunningRowsAreLeased
  BY DEF Init, WaitingIffScheduled, RunningRowsAreLeased, NoRow
<1>2. Spec => [](Typed /\ WaitingIffScheduled /\ RunningRowsAreLeased)
  BY <1>1, TypedInit, TypedNext, RowInvariantsNext, PTL DEF Spec
<1> QED
  BY <1>2, PTL

-----------------------------------------------------------------------------
\* Claims.  ClaimsAreUnique is not inductive: a new claim is different from
\* those at work because attempt_count, which no statement lowers, is an upper
\* bound of theirs.
ClaimsBelowAttempts ==
  \A e \in Executors, j \in Jobs :
    Executing(e, j) => /\ table[j].status # "unborn"
                       /\ Exists(table[j]) => task[e].claim <= table[j].attempts

\* A row that exists or existed does not come into being again, and keeps or
\* raises its attempt_count.
LEMMA AttemptsGrow ==
  ASSUME Typed, [Next]_vars, NEW j \in Jobs, table[j].status # "unborn"
  PROVE  /\ table'[j].status # "unborn"
         /\ Exists(table'[j]) => Exists(table[j]) /\ table[j].attempts <= table'[j].attempts
<1> DEFINE Grows(row, new) ==
      /\ new.status # "unborn"
      /\ Exists(new) => Exists(row) /\ row.attempts <= new.attempts
<1>1. RowStep(j) /\ table[j] \in Row
  BY NextRows DEF RowSteps, Typed, TypeOK
<1>2. \A row \in Row : row.status # "unborn" =>
        /\ Grows(row, row) /\ Grows(row, NoRow("deleted"))
        /\ Grows(row, [row EXCEPT !.nextRetry = "due"])
        /\ Grows(row, [row EXCEPT !.lease = "expired"]) /\ Grows(row, RenewedRow(row))
  BY DEF Row, NoRow, RenewedRow, Exists, JobStatus
<1>3. \A row \in Row : Exists(row) => Grows(row, RetriedRow(row)) /\ Grows(row, RequeuedRow(row))
  BY DEF Row, RetriedRow, RequeuedRow, Exists, JobStatus
<1>4. \A row \in Row, w \in WorkerIds : Exists(row) => Grows(row, ClaimedRow(row, w))
  BY DEF Row, ClaimedRow, Exists, JobStatus
<1>5. \A row \in Row, target \in JobStatus :
        Exists(row) => Grows(row, UpdatedRow(row, target, ScheduledIf(target)))
  BY DEF Row, UpdatedRow, Exists, JobStatus
<1>6. \A row \in Row, seen \in JobStatus :
        Exists(row) => Grows(row, CancelRequestedRow(row, seen))
  BY DEF Row, CancelRequestedRow, Exists, JobStatus
<1>7. \A row \in Row : IsDue(row) \/ row.status = "queued" => Exists(row)
  BY DEF IsDue, Exists, JobStatus
<1>8. Grows(table[j], table'[j])
  <2> HIDE DEF Grows
  <2> QED
    BY <1>1, <1>2, <1>3, <1>4, <1>5, <1>6, <1>7 DEF RowStep
<1> QED
  BY <1>8

\* Which executors are at work on a job after a step: those of before, with
\* the claims they had, and the one that claims it now.
LEMMA NextExecutors ==
  ASSUME Typed, [Next]_vars, NEW e \in Executors, NEW j \in Jobs, Executing(e, j)'
  PROVE  \/ Executing(e, j) /\ task'[e].claim = task[e].claim
         \/ Claim(e, j)
<1> USE DEF Typed
<1>1. CASE UNCHANGED task
  BY <1>1 DEF Executing
<1>2. ASSUME NEW f \in Executors, Execute(f) \/ Heartbeat(f) \/ Interrupt(f)
      PROVE  Executing(e, j) /\ task'[e].claim = task[e].claim
  <2>1. CASE e = f
    BY <1>2, <2>1, TaskFrame DEF Executing
  <2>2. CASE e # f
    BY <1>2, <2>2, TaskFrame DEF Executing
  <2> QED
    BY <2>1, <2>2
<1>3. ASSUME NEW f \in Executors, NEW i \in Jobs, Claim(f, i)
      PROVE  (Executing(e, j) /\ task'[e].claim = task[e].claim) \/ Claim(e, j)
  <2> DEFINE t == [IdleTask EXCEPT !.pc = "claimed", !.job = i,
                                   !.claim = table[i].attempts + 1]
  <2>1. task' = [task EXCEPT ![f] = t]
    BY <1>3 DEF Claim
  <2>2. t.job = i
    BY DEF IdleTask
  <2> HIDE DEF t
  <2>3. CASE e = f
    BY <1>3, <2>1, <2>2, <2>3 DEF TypeOK, Executing
  <2>4. CASE e # f
    BY <2>1, <2>4 DEF TypeOK, Executing
  <2> QED
    BY <2>3, <2>4
<1>4. ASSUME NEW p \in Processes, Crash(p)
      PROVE  Executing(e, j) /\ task'[e].claim = task[e].claim
  BY <1>4 DEF Crash, LoseProcess, Executing, IdleTask
<1> QED
  BY <1>1, <1>2, <1>3, <1>4 DEF Next, vars, Enqueue, Purge, RetryFallsDue, LeaseExpires,
     RequeueDue, StartWorker, RunOnce, Recover, RecoverCheck, RecoverWrite, RecoveryDone,
     Shutdown, Drained, CommandRead, CommandWrite

\* What a claim makes of its row and of its executor.
LEMMA ClaimFrame ==
  ASSUME Typed, NEW e \in Executors, NEW j \in Jobs, Claim(e, j)
  PROVE  /\ table[j].status = "queued" /\ task[e].pc = "idle"
         /\ table'[j] = ClaimedRow(table[j], WorkerIdOf[e])
         /\ table'[j].status = "running" /\ table'[j].owner = WorkerIdOf[e]
         /\ table'[j].lease = "live"
         /\ table'[j].attempts = table[j].attempts + 1
         /\ task'[e].claim = table[j].attempts + 1
         /\ \A i \in Jobs \ {j} : table'[i] = table[i]
         /\ \A f \in Executors \ {e} : task'[f] = task[f]
         /\ UNCHANGED <<process, recovery, command, stops>>
<1> DEFINE t == [IdleTask EXCEPT !.pc = "claimed", !.job = j,
                                 !.claim = table[j].attempts + 1]
<1>0. table[j] \in Row /\ table \in [Jobs -> Row] /\ task \in [Executors -> Task]
  BY DEF Typed, TypeOK
<1>1. /\ table[j].status = "queued" /\ task[e].pc = "idle"
      /\ table' = [table EXCEPT ![j] = ClaimedRow(table[j], WorkerIdOf[e])]
      /\ task' = [task EXCEPT ![e] = t]
      /\ UNCHANGED <<process, recovery, command, stops>>
  BY <1>0 DEF Claim
<1>2. t.claim = table[j].attempts + 1
  BY DEF IdleTask
<1>3. LET row == ClaimedRow(table[j], WorkerIdOf[e]) IN
        /\ row.status = "running" /\ row.owner = WorkerIdOf[e] /\ row.lease = "live"
        /\ row.attempts = table[j].attempts + 1
  BY <1>0 DEF ClaimedRow, Row
<1> HIDE DEF t
<1> QED
  BY <1>0, <1>1, <1>2, <1>3

\* No claim is handed out twice, because a claim raises attempt_count and
\* nothing lowers it.
LEMMA ClaimsNext ==
  ASSUME Typed, ClaimsBelowAttempts, ClaimsAreUnique, [Next]_vars
  PROVE  ClaimsBelowAttempts' /\ ClaimsAreUnique'
<1>1. ASSUME NEW e \in Executors, NEW j \in Jobs, Executing(e, j)'
      PROVE  /\ table'[j].status # "unborn"
             /\ Exists(table'[j]) => task'[e].claim <= table'[j].attempts
  <2>1. CASE Claim(e, j)
    BY <2>1, ClaimFrame DEF Typed, TypeOK, Row
  <2>2. CASE Executing(e, j) /\ task'[e].claim = task[e].claim
    <3>1. /\ table[j].status # "unborn"
          /\ Exists(table[j]) => task[e].claim <= table[j].attempts
      BY <2>2 DEF ClaimsBelowAttempts
    <3>2. table[j].attempts \in Nat /\ table'[j].attempts \in Nat /\ task[e].claim \in Nat
      BY TypedNext DEF Typed, TypeOK, Row, Task
    <3> QED
      BY <2>2, <3>1, <3>2, AttemptsGrow
  <2> QED
    BY <1>1, <2>1, <2>2, NextExecutors
<1>2. ASSUME NEW e \in Executors, NEW f \in Executors, NEW j \in Jobs,
             e # f, Executing(e, j)', Executing(f, j)'
      PROVE  task'[e].claim # task'[f].claim
  <2>1. ASSUME NEW g \in Executors, NEW h \in Executors, g # h, Claim(g, j), Executing(h, j)'
        PROVE  task'[g].claim # task'[h].claim
    <3>1. ~Claim(h, j)
      <4>1. task'[h] = task[h] /\ task[g].pc = "idle" /\ task'[h].pc # "idle"
        BY <2>1, ClaimFrame DEF Executing
      <4> QED
        BY <4>1, ClaimFrame
    <3>2. Executing(h, j) /\ task'[h].claim = task[h].claim
      BY <2>1, <3>1, NextExecutors
    <3>3. task[h].claim <= table[j].attempts /\ table[j].attempts \in Nat /\ task[h].claim \in Nat
      BY <2>1, <3>2, ClaimFrame DEF ClaimsBelowAttempts, Exists, JobStatus, Typed, TypeOK, Row, Task
    <3>4. task'[g].claim = table[j].attempts + 1
      BY <2>1, ClaimFrame
    <3> QED
      BY <3>2, <3>3, <3>4
  <2>2. CASE Claim(e, j) \/ Claim(f, j)
    BY <1>2, <2>1, <2>2
  <2>3. CASE ~Claim(e, j) /\ ~Claim(f, j)
    BY <1>2, <2>3, NextExecutors DEF ClaimsAreUnique
  <2> QED
    BY <2>2, <2>3
<1> QED
  BY <1>1, <1>2 DEF ClaimsBelowAttempts, ClaimsAreUnique

\* Whatever happens to leases and rows, two executors never hold the same claim.
THEOREM UniqueClaims == Spec => []ClaimsAreUnique
<1>1. Init => ClaimsBelowAttempts /\ ClaimsAreUnique
  BY DEF Init, ClaimsBelowAttempts, ClaimsAreUnique, Executing, IdleTask
<1>2. Spec => [](Typed /\ ClaimsBelowAttempts /\ ClaimsAreUnique)
  BY <1>1, TypedInit, TypedNext, ClaimsNext, PTL DEF Spec
<1> QED
  BY <1>2, PTL

-----------------------------------------------------------------------------
\* Lost leases.  The lease can only be found lost while the backend runs, and
\* every way on from there chooses a retry or a failure.
LostLeaseGivesUp ==
  \A e \in Executors :
    task[e].lost =>
      /\ task[e].pc \in {"running", "stopping", "checking", "writing"}
      /\ task[e].pc # "running" => task[e].target \in {"waiting_retry", "failed"}

\* A step of an executor keeps its part of that promise.
LEMMA LostLeaseStep ==
  ASSUME Typed, LostLeaseGivesUp, NEW e \in Executors,
         Execute(e) \/ Heartbeat(e) \/ Interrupt(e)
  PROVE  task'[e].lost =>
           /\ task'[e].pc \in {"running", "stopping", "checking", "writing"}
           /\ task'[e].pc # "running" => task'[e].target \in {"waiting_retry", "failed"}
<1> USE DEF LostLeaseGivesUp, Raise
<1>0. task \in [Executors -> Task] /\ IdleTask.lost = FALSE /\ IdleTask.pc = "idle"
  BY DEF Typed, TypeOK, IdleTask
<1> USE <1>0 DEF Task
<1>1. CASE Load(e)
  BY <1>1 DEF Load
<1>2. CASE FailToStart(e)
  BY <1>2 DEF FailToStart
<1>3. CASE StartRun(e)
  BY <1>3 DEF StartRun
<1>4. CASE Heartbeat(e)
  BY <1>4 DEF Heartbeat
<1>5. CASE BackendReturns(e)
  BY <1>5 DEF BackendReturns, RetryOutcome
<1>6. CASE BackendRaises(e)
  BY <1>6 DEF BackendRaises, FailureOutcomes, RetryOutcome
<1>7. CASE Interrupt(e)
  BY <1>7 DEF Interrupt
<1>8. CASE HeartbeatStopped(e)
  BY <1>8 DEF HeartbeatStopped
<1>9. CASE ReadLatest(e)
  <2>1. ~task[e].lost
    BY <1>9 DEF ReadLatest
  <2>2. CASE ~Exists(table[task[e].job])
    BY <1>9, <2>2 DEF ReadLatest, WriteRefused
  <2>3. CASE Exists(table[task[e].job])
    <3> DEFINE status == table[task[e].job].status
               t == [task[e] EXCEPT !.pc = "checking", !.target = "cancelled",
                                    !.expected = status]
               u == [task[e] EXCEPT !.pc = "checking"]
    <3>1. task' = [task EXCEPT ![e] = t] \/ task' = [task EXCEPT ![e] = u]
      BY <1>9, <2>3 DEF ReadLatest
    <3>2. t.lost = task[e].lost /\ u.lost = task[e].lost
      OBVIOUS
    <3> HIDE DEF t, u
    <3> QED
      BY <2>1, <3>1, <3>2
  <2> QED
    BY <2>2, <2>3
<1>10. CASE CheckUpdate(e)
  BY <1>10 DEF CheckUpdate, WriteRefused
<1>11. CASE WriteOutcome(e)
  BY <1>11 DEF WriteOutcome, WriteRefused
<1> QED
  BY <1>1, <1>2, <1>3, <1>4, <1>5, <1>6, <1>7, <1>8, <1>9, <1>10, <1>11 DEF Execute, Proceed

\* ... and so does every step of the system.
LEMMA LostLeaseNext ==
  ASSUME Typed, LostLeaseGivesUp, [Next]_vars
  PROVE  LostLeaseGivesUp'
<1>0. task \in [Executors -> Task] /\ IdleTask.lost = FALSE
  BY DEF Typed, TypeOK, IdleTask
<1>1. CASE UNCHANGED task
  BY <1>1 DEF LostLeaseGivesUp
<1>2. ASSUME NEW e \in Executors, Execute(e) \/ Heartbeat(e) \/ Interrupt(e)
      PROVE  LostLeaseGivesUp'
  BY <1>2, TaskFrame, LostLeaseStep DEF LostLeaseGivesUp
<1>3. ASSUME NEW e \in Executors, NEW j \in Jobs, Claim(e, j)
      PROVE  LostLeaseGivesUp'
  <2> DEFINE t == [IdleTask EXCEPT !.pc = "claimed", !.job = j,
                                   !.claim = table[j].attempts + 1]
  <2>1. task' = [task EXCEPT ![e] = t]
    BY <1>3 DEF Claim
  <2>2. t.lost = FALSE
    BY DEF IdleTask
  <2> HIDE DEF t
  <2> QED
    BY <1>0, <2>1, <2>2 DEF LostLeaseGivesUp
<1>4. ASSUME NEW p \in Processes, Crash(p)
      PROVE  LostLeaseGivesUp'
  BY <1>0, <1>4 DEF Crash, LoseProcess, LostLeaseGivesUp
<1> QED
  BY <1>1, <1>2, <1>3, <1>4 DEF Next, vars, Enqueue, Purge, RetryFallsDue, LeaseExpires,
     RequeueDue, StartWorker, RunOnce, Recover, RecoverCheck, RecoverWrite, RecoveryDone,
     Shutdown, Drained, CommandRead, CommandWrite

\* An execution whose heartbeat found the lease lost records no result.
THEOREM NoResultAfterALostLease == Spec => []LostLeaseRecordsNoResult
<1>1. Init => LostLeaseGivesUp
  BY DEF Init, LostLeaseGivesUp, IdleTask
<1>2. LostLeaseGivesUp => LostLeaseRecordsNoResult
  BY DEF LostLeaseGivesUp, LostLeaseRecordsNoResult
<1> QED
  BY <1>1, <1>2, TypedInit, TypedNext, LostLeaseNext, PTL DEF Spec
=============================================================================
