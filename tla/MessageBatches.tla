--------------------------- MODULE MessageBatches ---------------------------
(***************************************************************************)
(* Jobs of the message_batches backend: the worker groups queued jobs into *)
(* one upstream batch, and polls it until every member has an outcome.     *)
(*                                                                         *)
(* One worker process runs the loop of WorkerService.run_forever and, with *)
(* the configured concurrency of 1 for this backend, at most one task of   *)
(* submit_message_batch.  The loop and the task interleave at their awaits *)
(* only.  An operator in another process acts between any two              *)
(* transactions: both read a row in one and write it in another, and what  *)
(* they write does not look at the row again.                              *)
(*                                                                         *)
(* The batch service is external.  A request to it may fail, a poll        *)
(* reports the status of the batch, the items that have finished since,    *)
(* and perhaps items it has reported before.                               *)
(***************************************************************************)
EXTENDS JobTable, FiniteSets

CONSTANTS
  Jobs,
  Worker,         \* the worker_id
  MaxGroup,       \* max_batch_group_size, max_batch_size
  ItemTypes,      \* the types of the items a poll reports
  FinalStatuses,  \* the statuses with which an upstream batch ends
  OutcomesRepeat, \* may a poll report an item again?
  Commands,       \* the operator commands the environment uses
  MaxClaims,      \* bound on the claims of one job
  MaxBatches,     \* bound on batch records
  MaxStops        \* bound on crashes and shutdowns

ASSUME BatchAssumption ==
  /\ Worker \in WorkerIds
  /\ MaxGroup \in Nat \ {0}
  /\ "pending" \notin ItemTypes
  /\ FinalStatuses \cap {"none", "submitted", "in_progress"} = {}
  /\ OutcomesRepeat \in BOOLEAN
  /\ Commands \subseteq {"cancel", "retry", "delete"}
  /\ MaxClaims \in Nat /\ MaxBatches \in Nat /\ MaxStops \in Nat

\* A string: jobs are strings.
NoJob == "none"

Batches == 1 .. MaxBatches

VARIABLES
  table,       \* the jobs table
  submitted,   \* has the job's metadata an upstream_batch_id?
  batches,     \* the message_batches table, and what polls have reported
  loop,        \* where run_forever is
  todo,        \* poll_open_batches: the open records it has yet to poll
  report,      \* poll_open_batches: what it has yet to apply of a poll
  stale,       \* recover_stale_jobs: what it has yet to do
  submission,  \* the task of submit_message_batch
  update,      \* the worker's update_job_status
  command,     \* the operator's command
  stops        \* crashes and shutdowns so far

vars == <<table, submitted, batches, loop, todo, report, stale, submission, update,
          command, stops>>

\* The worker's side, but for the table and the records.
worker == <<loop, todo, report, stale, submission, update>>

\* outcome is what polls have reported of each member so far.
Batch == [members : SUBSET Jobs,
          status  : {"none", "submitted", "in_progress"} \cup FinalStatuses,
          outcome : [Jobs -> {"pending"} \cup ItemTypes]]

UnusedBatch == [members |-> {}, status |-> "none",
                outcome |-> [j \in Jobs |-> "pending"]]

\* Mutant: an expired batch is polled for ever.
UnexpiredStatuses == {"completed", "failed"}

\* list_open_batches.
ClosedStatuses == {"completed", "failed", "expired"}
IsOpen(b) == batches[b].status \notin ClosedStatuses \cup {"none"}

Report == [completed : SUBSET Jobs, failed : SUBSET Jobs, pending : SUBSET Jobs,
           incomplete : SUBSET Jobs]

NoReport == [completed |-> {}, failed |-> {}, pending |-> {}, incomplete |-> {}]

\* claimed      - the group's rows are claimed, the task has not begun
\* requesting   - the request to the service is awaited
\* recording    - the batch record is written, the members' rows are not all yet
\* interrupting - the task was cancelled, the members' rows do not all say so yet
Submission == [pc : {"idle", "claimed", "requesting", "recording", "interrupting"},
               members : SUBSET Jobs]

NoSubmission == [pc |-> "idle", members |-> {}]

\* kind: clears lease and cancel request (outcome), the lease only (incomplete),
\* or neither (pending).  seen is the status it read, submitted what it will write
\* of the metadata.
\* checking - update_job_status was called
\* writing  - it has read and checked the job
\* noting   - it returned, the run is yet to be recorded
Update == [pc        : {"none", "checking", "writing", "noting"},
           kind      : {"outcome", "pending", "incomplete"},
           job       : Jobs \cup {NoJob},
           expected  : JobStatus \cup NoRowStatus,
           target    : JobStatus,
           seen      : JobStatus \cup NoRowStatus,
           submitted : BOOLEAN]

NoUpdate == [pc |-> "none", kind |-> "outcome", job |-> NoJob, expected |-> "running",
             target |-> "running", seen |-> "running", submitted |-> FALSE]

\* seen and submitted are what it read.
Command == [kind : {"none", "cancel", "retry", "delete"}, job : Jobs \cup {NoJob},
            seen : JobStatus, submitted : BOOLEAN]

NoCommand == [kind |-> "none", job |-> NoJob, seen |-> "queued", submitted |-> FALSE]

\* recovering - recover_stale_jobs
\* asleep     - _sleep_or_wakeup
\* polling    - poll_batch is awaited, or the last record was polled
\* applying   - a poll's report is applied
\* draining   - SIGTERM: the loop waits for the active task
\* ending     - an exception left the loop
TypeOK ==
  /\ table      \in [Jobs -> Row]
  /\ submitted  \in [Jobs -> BOOLEAN]
  /\ batches    \in [Batches -> Batch]
  /\ loop       \in {"down", "recovering", "asleep", "polling", "applying",
                    "draining", "ending"}
  /\ todo       \subseteq Batches
  /\ report     \in Report
  /\ stale      \subseteq Jobs \X {"queued", "waiting_retry"}
  /\ submission \in Submission
  /\ update     \in Update
  /\ command    \in Command
  /\ stops      \in Nat

Init ==
  /\ table      = [j \in Jobs |-> NoRow("unborn")]
  /\ submitted  = [j \in Jobs |-> FALSE]
  /\ batches    = [b \in Batches |-> UnusedBatch]
  /\ loop       = "down"
  /\ todo       = {}
  /\ report     = NoReport
  /\ stale      = {}
  /\ submission = NoSubmission
  /\ update     = NoUpdate
  /\ command    = NoCommand
  /\ stops      = 0

-----------------------------------------------------------------------------
\* The queue, the clock and the operator.

Enqueue(j) ==
  /\ table[j].status = "unborn"
  /\ table' = [table EXCEPT ![j] = CreatedRow]
  /\ UNCHANGED <<submitted, batches, worker, command, stops>>

RetryFallsDue(j) ==
  /\ table[j].nextRetry = "later"
  /\ table' = [table EXCEPT ![j].nextRetry = "due"]
  /\ UNCHANGED <<submitted, batches, worker, command, stops>>

\* submit_message_batch starts no heartbeat, so a lease may expire at any time;
\* only the recovery of the next worker looks at it.
LeaseExpires(j) ==
  /\ loop = "down" /\ table[j].status = "running" /\ table[j].lease = "live"
  /\ table' = [table EXCEPT ![j].lease = "expired"]
  /\ UNCHANGED <<submitted, batches, worker, command, stops>>

\* A command reads the row and decides ...
CommandRead(kind, j) ==
  /\ command.kind = "none"
  /\ table[j].status \in AcceptedFrom[kind]
  /\ command' = [kind |-> kind, job |-> j, seen |-> table[j].status,
                 submitted |-> submitted[j]]
  /\ UNCHANGED <<table, submitted, batches, worker, stops>>

\* ... and writes it, the metadata it read included, in another transaction.
CommandWrite ==
  LET j == command.job IN
  /\ command.kind # "none"
  /\ IF Exists(table[j])
     THEN /\ table' = [table EXCEPT ![j] = CommandEffect(command.kind, command.seen, @)]
          /\ submitted' = [submitted EXCEPT ![j] = command.submitted]
     ELSE UNCHANGED <<table, submitted>>
  /\ command' = NoCommand
  /\ UNCHANGED <<batches, worker, stops>>

-----------------------------------------------------------------------------
\* update_job_status, as the worker calls it for one job after the other.

\* An exception leaves poll_open_batches, and nothing in run_forever catches it.
LeaveLoop ==
  /\ loop' = "ending"
  /\ todo' = {}
  /\ report' = NoReport

\* What an update that raises ends: recovery, and the worker before its loop;
\* the loop; or the task, with an error nobody sees.  The rest is not done.
Refused ==
  /\ update' = NoUpdate
  /\ \/ /\ loop = "recovering"
        /\ loop' = "down" /\ stale' = {}
        /\ UNCHANGED <<todo, report, submission>>
     \/ /\ loop = "applying"
        /\ LeaveLoop
        /\ UNCHANGED <<stale, submission>>
     \/ /\ submission.pc \in {"recording", "interrupting"}
        /\ submission' = NoSubmission
        /\ UNCHANGED <<loop, todo, report, stale>>

Begin(kind, j, expected, target) ==
  /\ update.pc = "none"
  /\ update' = [NoUpdate EXCEPT !.pc = "checking", !.kind = kind, !.job = j,
                                !.expected = expected, !.target = target]

\* The job is read and the transition checked.  A submission adds the batch to
\* the metadata that was read.
CheckUpdate ==
  LET row == table[update.job] IN
  /\ update.pc = "checking"
  /\ IF UpdateAllowed(row, update.expected, update.target)
     THEN /\ update' = [update EXCEPT
                !.pc = "writing", !.seen = row.status,
                !.submitted = submission.pc = "recording" \/ submitted[update.job]]
          /\ UNCHANGED <<loop, todo, report, stale, submission>>
     ELSE Refused
  /\ UNCHANGED <<table, submitted, batches, command, stops>>

\* Mutant: the row of a submitted job has no time at which it is due.
UnscheduledWrittenRow(u, row) ==
  [UpdatedRow(row, u.target, "none") EXCEPT !.cancel = FALSE]

\* A pending item keeps the lease and the cancel request, an incomplete one the
\* cancel request.
WrittenRow(u, row) ==
  CASE u.kind = "outcome"    -> UpdatedRow(row, u.target, ScheduledIf(u.target))
    [] u.kind = "incomplete" -> [UpdatedRow(row, u.target, "none")
                                   EXCEPT !.cancel = row.cancel]
    [] u.kind = "pending"    -> [row EXCEPT !.status = u.target, !.nextRetry = "later"]

\* The outcome of a poll or a submission is followed by the record of a run, or
\* by another look at the job.
Noted == update.kind = "outcome" /\ (loop = "applying" \/ submission.pc = "recording")

\* The UPDATE, and the event, whose foreign key fails if the job was deleted.
WriteUpdate ==
  LET j == update.job IN
  /\ update.pc = "writing"
  /\ \/ /\ Exists(table[j])
        /\ table' = [table EXCEPT ![j] = WrittenRow(update, @)]
        /\ submitted' = [submitted EXCEPT ![j] = update.submitted]
        /\ update' = IF Noted THEN [update EXCEPT !.pc = "noting"] ELSE NoUpdate
        /\ UNCHANGED <<loop, todo, report, stale, submission>>
     \/ /\ ~Exists(table[j])
        /\ Refused
        /\ UNCHANGED <<table, submitted>>
  /\ UNCHANGED <<batches, command, stops>>

\* record_run_start, _maybe_cleanup_workspace: for a deleted job they raise.
NoteRun ==
  /\ update.pc = "noting"
  /\ \/ /\ Exists(table[update.job])
        /\ update' = NoUpdate
        /\ UNCHANGED <<loop, todo, report, stale, submission>>
     \/ /\ ~Exists(table[update.job])
        /\ Refused
  /\ UNCHANGED <<table, submitted, batches, command, stops>>

-----------------------------------------------------------------------------
\* run_forever.

\* Neither the loop nor the task is between two awaits.
AtAwait ==
  /\ submission.pc \in {"idle", "requesting"}
  /\ loop \in {"asleep", "draining", "ending"} \/ (loop = "polling" /\ todo # {})

\* can_resume looks for upstream_batch_id.
RecoveryTarget(j) == IF submitted[j] THEN "queued" ELSE "waiting_retry"

\* recover_stale_jobs: the list, with what each row's metadata asks for ...
StartWorker ==
  /\ loop = "down"
  /\ stale' = {<<j, RecoveryTarget(j)>> : j \in {i \in Jobs : IsStale(table[i])}}
  /\ loop' = "recovering"
  /\ UNCHANGED <<table, submitted, batches, todo, report, submission, update, command, stops>>

\* ... and one listed job after the other.
RecoverJob(listed) ==
  /\ loop = "recovering" /\ listed \in stale
  /\ Begin("outcome", listed[1], "running", listed[2])
  /\ stale' = stale \ {listed}
  /\ UNCHANGED <<table, submitted, batches, loop, todo, report, submission, command, stops>>

RecoveryDone ==
  /\ loop = "recovering" /\ stale = {} /\ update.pc = "none"
  /\ loop' = "asleep"
  /\ UNCHANGED <<table, submitted, batches, todo, report, stale, submission, update,
                 command, stops>>

\* retry_due, and list_open_batches.
WakeUp ==
  /\ loop = "asleep" /\ AtAwait
  /\ table' = [j \in Jobs |-> IF IsDue(table[j]) THEN RequeuedRow(table[j]) ELSE table[j]]
  /\ todo' = {b \in Batches : IsOpen(b)}
  /\ loop' = "polling"
  /\ UNCHANGED <<submitted, batches, report, stale, submission, update, command, stops>>

\* ORDER BY created_at ASC.
NextToPoll == CHOOSE b \in todo : \A c \in todo : b <= c

\* The items poll_batch may find of batch b that were not there before.  A batch
\* that ends with items unfinished has failed or expired.
News(b, status) ==
  LET open  == {j \in batches[b].members : batches[b].outcome[j] = "pending"}
      ended == CASE batches[b].status \in FinalStatuses -> {{}}
                 [] status \in FinalStatuses \ {"failed", "expired"} -> {open}
                 [] OTHER -> SUBSET open
  IN UNION {[items -> ItemTypes] : items \in ended}

Repeated(b) ==
  IF OutcomesRepeat
  THEN SUBSET {j \in batches[b].members : batches[b].outcome[j] # "pending"}
  ELSE {{}}

\* _item_failed: an item with an error.  An expired or a cancelled one has none.
ItemFailed(type) == type = "errored"

\* Mutant: every member that did not fail is complete, reported or not.
UnfailedItems(members, seen, outcome) == {j \in members : ~ItemFailed(outcome[j])}

\* The items poll_batch sorts among the completed ones.
CompletedItems(members, seen, outcome) == {j \in seen : ~ItemFailed(outcome[j])}

\* poll_batch returned: the status goes to the record before any item is
\* applied.  An item is pending unless this poll reported it.
PollReturns(status) ==
  LET b == NextToPoll IN
  /\ loop = "polling" /\ todo # {} /\ AtAwait
  /\ batches[b].status \in FinalStatuses => status = batches[b].status
  /\ \E news \in News(b, status), repeated \in Repeated(b) :
       LET outcome == [j \in Jobs |-> IF j \in DOMAIN news THEN news[j]
                                      ELSE batches[b].outcome[j]]
           seen    == DOMAIN news \cup repeated
           pending == batches[b].members \ seen
       IN
       /\ batches' = [batches EXCEPT ![b].status = status, ![b].outcome = outcome]
       /\ report' = [completed  |-> CompletedItems(batches[b].members, seen, outcome),
                     failed     |-> {j \in seen : ItemFailed(outcome[j])},
                     pending    |-> pending,
                     incomplete |-> IF status \in {"expired", "failed"}
                                    THEN pending ELSE {}]
  /\ todo' = todo \ {b}
  /\ loop' = "applying"
  /\ UNCHANGED <<table, submitted, stale, submission, update, command, stops>>

PollFails ==
  /\ loop = "polling" /\ todo # {} /\ AtAwait
  /\ LeaveLoop
  /\ UNCHANGED <<table, submitted, batches, stale, submission, update, command, stops>>

\* _persist_success: a cancel request read here overrides the outcome.
ApplyCompleted(j) ==
  /\ loop = "applying" /\ j \in report.completed
  /\ IF table[j].cancel THEN Begin("outcome", j, table[j].status, "cancelled")
     ELSE Begin("outcome", j, "waiting_retry", "completed")
  /\ report' = [report EXCEPT !.completed = @ \ {j}]
  /\ UNCHANGED <<table, submitted, batches, loop, todo, stale, submission, command, stops>>

\* The error of a failed item is not classified as retryable.
ApplyFailed(j) ==
  /\ loop = "applying" /\ report.completed = {} /\ j \in report.failed
  /\ Begin("outcome", j, "waiting_retry", "failed")
  /\ report' = [report EXCEPT !.failed = @ \ {j}]
  /\ UNCHANGED <<table, submitted, batches, loop, todo, stale, submission, command, stops>>

\* A member without an item: a job that is not waiting (any more) is passed
\* over, and for one that was deleted get_job raises.
ApplyToWaiting(kind, j, target, rest) ==
  /\ loop = "applying" /\ update.pc = "none"
  /\ CASE table[j].status = "waiting_retry" ->
            Begin(kind, j, "waiting_retry", target) /\ report' = rest /\ UNCHANGED <<loop, todo>>
       [] Exists(table[j]) /\ table[j].status # "waiting_retry" ->
            report' = rest /\ UNCHANGED <<loop, todo, update>>
       [] ~Exists(table[j]) -> LeaveLoop /\ UNCHANGED update
  /\ UNCHANGED <<table, submitted, batches, stale, submission, command, stops>>

\* A pending item is due again later.
ApplyPending(j) ==
  /\ report.completed \cup report.failed = {} /\ j \in report.pending
  /\ ApplyToWaiting("pending", j, "waiting_retry", [report EXCEPT !.pending = @ \ {j}])

\* batch_incomplete.
ApplyIncomplete(j) ==
  /\ report.completed \cup report.failed \cup report.pending = {}
  /\ j \in report.incomplete
  /\ ApplyToWaiting("incomplete", j, "failed", [report EXCEPT !.incomplete = @ \ {j}])

ReportApplied ==
  /\ loop = "applying" /\ update.pc = "none"
  /\ report.completed \cup report.failed \cup report.pending \cup report.incomplete = {}
  /\ report' = NoReport
  /\ loop' = "polling"
  /\ UNCHANGED <<table, submitted, batches, todo, stale, submission, update, command, stops>>

-----------------------------------------------------------------------------
\* _claim_next_job, _claim_batch_group and submit_message_batch.

Queued == {j \in Jobs : table[j].status = "queued" /\ table[j].attempts < MaxClaims}

\* If the backend's slot is free: a runnable job, and queued ones compatible with
\* it.  Which are compatible (task type, model) is left open.  The limit is
\* looked at when a job was added, so a limit of 1 makes groups of two.
ClaimGroup(group) ==
  /\ loop = "polling" /\ todo = {} /\ submission.pc = "idle"
  /\ group \subseteq Queued /\ \E anchor \in group : IsRunnable(table[anchor])
  /\ Cardinality(group) <= MaxGroup \/ Cardinality(group) = 2
  /\ table' = [j \in Jobs |-> IF j \in group THEN ClaimedRow(table[j], Worker)
                              ELSE table[j]]
  /\ submission' = [NoSubmission EXCEPT !.pc = "claimed", !.members = group]
  /\ UNCHANGED <<submitted, batches, loop, todo, report, stale, update, command, stops>>

\* claim_job reads the job again, and the task its conversation.  If it was
\* deleted meanwhile, the one error leaves the loop, the other ends the task.
LoadGroup ==
  /\ submission.pc = "claimed"
  /\ \/ /\ \A j \in submission.members : Exists(table[j])
        /\ submission' = [submission EXCEPT !.pc = "requesting"]
        /\ loop' = "asleep"
     \/ /\ \E j \in submission.members : ~Exists(table[j])
        /\ submission' = NoSubmission
        /\ loop' \in {"asleep", "ending"}
  /\ UNCHANGED <<table, submitted, batches, todo, report, stale, update, command, stops>>

\* No job to claim, or the slot is taken.
ClaimNothing ==
  /\ loop = "polling" /\ todo = {} /\ submission.pc \in {"idle", "requesting"}
  /\ submission.pc = "requesting" \/ \A j \in Queued : ~IsRunnable(table[j])
  /\ loop' = "asleep"
  /\ UNCHANGED <<table, submitted, batches, todo, report, stale, submission, update,
                 command, stops>>

\* The service accepted the batch: create_batch_record.
RequestReturns ==
  /\ submission.pc = "requesting" /\ AtAwait /\ loop # "ending"
  /\ \E b \in Batches :
       /\ batches[b].status = "none" /\ \A c \in 1 .. b - 1 : batches[c].status # "none"
       /\ batches' = [batches EXCEPT ![b].status = "submitted",
                                     ![b].members = submission.members]
       /\ submission' = [submission EXCEPT !.pc = "recording"]
  /\ UNCHANGED <<table, submitted, loop, todo, report, stale, update, command, stops>>

\* The request raises: nobody handles it but _collect_finished, which drops it.
RequestFails ==
  /\ submission.pc = "requesting" /\ AtAwait /\ loop # "ending"
  /\ submission' = NoSubmission
  /\ UNCHANGED <<table, submitted, batches, loop, todo, report, stale, update, command, stops>>

\* The drain deadline passed, or the loop ended.
CancelSubmission ==
  /\ submission.pc = "requesting" /\ loop \in {"draining", "ending"}
  /\ submission' = [submission EXCEPT !.pc = "interrupting"]
  /\ UNCHANGED <<table, submitted, batches, loop, todo, report, stale, update, command, stops>>

\* The row of a member, submitted or interrupted (_persist_interrupted), waits:
\* for the poll, or to be submitted again.
SaveMember(j) ==
  /\ submission.pc \in {"recording", "interrupting"} /\ j \in submission.members
  /\ Begin("outcome", j, "running", "waiting_retry")
  /\ submission' = [submission EXCEPT !.members = @ \ {j}]
  /\ UNCHANGED <<table, submitted, batches, loop, todo, report, stale, command, stops>>

MembersSaved ==
  /\ submission.pc \in {"recording", "interrupting"}
  /\ submission.members = {} /\ update.pc = "none"
  /\ submission' = NoSubmission
  /\ UNCHANGED <<table, submitted, batches, loop, todo, report, stale, update, command, stops>>

-----------------------------------------------------------------------------
\* The end of the worker.

\* SIGTERM: the loop claims no more, and drains when it comes round.
Shutdown ==
  /\ loop = "asleep" \/ (loop = "polling" /\ todo = {})
  /\ submission.pc \in {"idle", "requesting"} /\ stops < MaxStops
  /\ loop' = "draining"
  /\ stops' = stops + 1
  /\ UNCHANGED <<table, submitted, batches, todo, report, stale, submission, update, command>>

WorkerEnds ==
  /\ loop \in {"draining", "ending"} /\ submission.pc = "idle"
  /\ loop' = "down"
  /\ UNCHANGED <<table, submitted, batches, todo, report, stale, submission, update,
                 command, stops>>

Crash ==
  /\ loop # "down" /\ stops < MaxStops
  /\ loop' = "down"
  /\ todo' = {}
  /\ report' = NoReport
  /\ stale' = {}
  /\ submission' = NoSubmission
  /\ update' = NoUpdate
  /\ stops' = stops + 1
  /\ UNCHANGED <<table, submitted, batches, command>>

-----------------------------------------------------------------------------
Environment ==
  \/ \E j \in Jobs : Enqueue(j) \/ RetryFallsDue(j) \/ LeaseExpires(j)
  \/ CommandWrite \/ \E kind \in Commands, j \in Jobs : CommandRead(kind, j)

UpdateStatus == CheckUpdate \/ WriteUpdate \/ NoteRun

Recover == RecoveryDone \/ \E listed \in stale : RecoverJob(listed)

Apply == \/ ReportApplied
         \/ \E j \in Jobs : \/ ApplyCompleted(j) \/ ApplyFailed(j)
                            \/ ApplyPending(j) \/ ApplyIncomplete(j)

Claim == LoadGroup \/ ClaimNothing \/ \E group \in SUBSET Jobs : ClaimGroup(group)

SaveSubmission == MembersSaved \/ \E j \in Jobs : SaveMember(j)

Next ==
  \/ Environment
  \/ \E status \in {"in_progress"} \cup FinalStatuses : PollReturns(status)
  \/ StartWorker \/ Recover \/ WakeUp \/ PollFails \/ Apply \/ UpdateStatus \/ Claim
  \/ RequestReturns \/ RequestFails \/ CancelSubmission \/ SaveSubmission
  \/ Shutdown \/ WorkerEnds \/ Crash

Spec == Init /\ [][Next]_vars

\* The loop and the task go on when they can, a worker that ended is started
\* again, and the clock advances.  Requests are answered or fail: the client has
\* a timeout.  Polls that go on find the batch ended.
Fairness ==
  /\ WF_vars(StartWorker) /\ WF_vars(Recover) /\ WF_vars(WakeUp)
  /\ WF_vars(Apply) /\ WF_vars(UpdateStatus) /\ WF_vars(Claim)
  /\ SF_vars(RequestReturns \/ RequestFails)
  /\ WF_vars(CancelSubmission) /\ WF_vars(SaveSubmission) /\ WF_vars(WorkerEnds)
  /\ \A j \in Jobs : WF_vars(RetryFallsDue(j))
  /\ SF_vars(\E status \in FinalStatuses : PollReturns(status))

FairSpec == Spec /\ Fairness

-----------------------------------------------------------------------------
\* Whatever the operator, the clock, the service and the process do.

\* A job is completed only by an item that a poll found and that was no failure:
\* never for want of one, not by a late poll and not in a race.  (The item of a
\* completed job may be one that expired: ItemFailed.)
CompletedJobsWereReported ==
  \A j \in Jobs : table[j].status = "completed" =>
    \E b \in Batches : \E type \in ItemTypes :
      batches[b].outcome[j] = type /\ ~ItemFailed(type)

Final == {"completed", "cancelled"}

\* What became of a job is revised by nobody who could see it: if a completed or
\* cancelled row changes, otherwise than by deletion, then under an update or a
\* command that had read it before it was completed or cancelled.  A late outcome
\* of an old batch does not revive a job.
OutcomesAreFinal ==
  [][\A j \in Jobs :
       table[j].status \in Final /\ table'[j].status \notin {table[j].status, "deleted"} =>
         \/ /\ update.pc = "writing" /\ update.job = j /\ update.seen \notin Final
            /\ update'.pc # "writing"
         \/ /\ command.kind # "none" /\ command.job = j /\ command.seen \notin Final
            /\ command'.kind = "none"]_vars

\* Some batch ended, and not with one of the statuses the code knows.
UnknownEnd ==
  \E b \in Batches :
    batches[b].status \in FinalStatuses \ {"completed", "failed", "expired"}

\* Every record is closed in the end, although a poll that meets a member whose
\* row is not waiting ends the worker: the record is closed first.  Unless some
\* batch ends with a status the code does not know: then what it reports again
\* may end every worker before a younger record is polled.
BatchesClose == \A b \in Batches : IsOpen(b) ~> ~IsOpen(b) \/ UnknownEnd

Settled(j) == table[j].status \in {"completed", "failed", "cancelled", "deleted"}

\* Running, and nobody's: until the worker starts again.
Stranded(j) ==
  table[j].status = "running" /\ j \notin submission.members /\ update.job # j

\* The job has gone round as often as the model lets it.
AtBound(j) == table[j].status = "queued" /\ table[j].attempts >= MaxClaims

Queueing(j) == table[j].status = "queued"

\* A queued job settles or is stranded: outcomes that were dropped, polls that
\* failed and workers that ended send it round again, to another batch.
QueuedJobsSettle ==
  \A j \in Jobs :
    Queueing(j) ~> Settled(j) \/ Stranded(j) \/ AtBound(j) \/ UnknownEnd

=============================================================================
