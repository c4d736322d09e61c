------------------------ MODULE MessageBatchesProofs ------------------------
(***************************************************************************)
(* What MessageBatches guarantees for any number of jobs and batches, any  *)
(* limit on groups and any set of item types and final statuses, proved    *)
(* with TLAPS.                                                             *)
(***************************************************************************)
EXTENDS MessageBatches, WellFoundedInduction, TLAPS

-----------------------------------------------------------------------------
\* The statements this component runs turn rows into rows.
LEMMA RowTypes ==
  ASSUME NEW row \in Row
  PROVE  /\ ClaimedRow(row, Worker) \in Row
         /\ RequeuedRow(row) \in Row
         /\ \A target \in JobStatus, n \in {"none", "later", "due"} :
              UpdatedRow(row, target, n) \in Row
         /\ \A n \in {"none", "later", "due"} : [row EXCEPT !.nextRetry = n] \in Row
         /\ \A l \in {"none", "live", "expired"} : [row EXCEPT !.lease = l] \in Row
         /\ \A c \in BOOLEAN : [row EXCEPT !.cancel = c] \in Row
         /\ row.cancel \in BOOLEAN
<1>1. ClaimedRow(row, Worker) \in Row
  <2> DEFINE attempts == row.attempts + 1
  <2>1. attempts \in Nat
    BY DEF Row
  <2> HIDE DEF attempts
  <2>2. [row EXCEPT !.status = "running", !.attempts = attempts, !.cancel = FALSE,
                    !.owner = Worker, !.lease = "live"] \in Row
    BY <2>1, BatchAssumption DEF Row, JobStatus
  <2> QED
    BY <2>2 DEF ClaimedRow, attempts
<1>2. RequeuedRow(row) \in Row
  BY DEF RequeuedRow, Row, JobStatus
<1>3. \A target \in JobStatus, n \in {"none", "later", "due"} :
        UpdatedRow(row, target, n) \in Row
  BY DEF UpdatedRow, Row
<1>4. /\ \A n \in {"none", "later", "due"} : [row EXCEPT !.nextRetry = n] \in Row
      /\ \A l \in {"none", "live", "expired"} : [row EXCEPT !.lease = l] \in Row
      /\ \A c \in BOOLEAN : [row EXCEPT !.cancel = c] \in Row
      /\ row.cancel \in BOOLEAN
  BY DEF Row
<1> QED
  BY <1>1, <1>2, <1>3, <1>4

\* So does a command, whatever it had read, and a deleted row is a row.
LEMMA CommandTypes ==
  ASSUME NEW row \in Row, NEW kind \in {"cancel", "retry", "delete"}, NEW seen
  PROVE  CommandEffect(kind, seen, row) \in Row
<1>1. NoRow("deleted") \in Row
  BY DEF NoRow, Row, NoRowStatus, JobStatus
<1>2. RetriedRow(row) \in Row
  BY DEF RetriedRow, Row, JobStatus
<1>3. CancelRequestedRow(row, seen) \in Row
  BY DEF CancelRequestedRow, Row, JobStatus
<1> QED
  BY <1>1, <1>2, <1>3 DEF CommandEffect

\* And so does the worker's status update; it sets the status it says it sets.
LEMMA WrittenTypes ==
  ASSUME NEW row \in Row, NEW u \in Update
  PROVE  WrittenRow(u, row) \in Row /\ WrittenRow(u, row).status = u.target
<1>1. u.target \in JobStatus /\ u.kind \in {"outcome", "pending", "incomplete"}
  BY DEF Update
<1>2. CASE u.kind = "outcome"
  <2>1. ScheduledIf(u.target) \in {"none", "later", "due"}
    BY DEF ScheduledIf
  <2>2. WrittenRow(u, row) = UpdatedRow(row, u.target, ScheduledIf(u.target))
    BY <1>2 DEF WrittenRow
  <2>3. \A n : UpdatedRow(row, u.target, n).status = u.target
    BY DEF UpdatedRow, Row
  <2> QED
    BY <1>1, <2>1, <2>2, <2>3, RowTypes
<1>3. CASE u.kind = "incomplete"
  <2> DEFINE updated == UpdatedRow(row, u.target, "none")
  <2>1. updated \in Row /\ updated.status = u.target
    <3>1. updated \in Row
      BY <1>1, RowTypes
    <3>2. updated.status = u.target
      BY DEF UpdatedRow, Row
    <3> QED
      BY <3>1, <3>2
  <2>2. WrittenRow(u, row) = [updated EXCEPT !.cancel = row.cancel]
    BY <1>3 DEF WrittenRow
  <2>3. row.cancel \in BOOLEAN
    BY DEF Row
  <2> HIDE DEF updated
  <2> QED
    BY <2>1, <2>2, <2>3 DEF Row
<1>4. CASE u.kind = "pending"
  <2>1. WrittenRow(u, row) = [row EXCEPT !.status = u.target, !.nextRetry = "later"]
    BY <1>4 DEF WrittenRow
  <2> QED
    BY <1>1, <2>1 DEF Row
<1> QED
  BY <1>1, <1>2, <1>3, <1>4

\* The outcomes an upstream batch can have reported of a member.
Outcomes == {"pending"} \cup ItemTypes

\* What a poll reports is an outcome of members it had not reported before.
LEMMA NewsIsOfPendingMembers ==
  ASSUME TypeOK, NEW b \in Batches, NEW status, NEW news \in News(b, status)
  PROVE  /\ \A j \in DOMAIN news : batches[b].outcome[j] = "pending"
         /\ \A j \in DOMAIN news : news[j] \in ItemTypes
         /\ DOMAIN news \subseteq Jobs
<1> DEFINE open == {j \in batches[b].members : batches[b].outcome[j] = "pending"}
<1>1. open \subseteq Jobs
  BY DEF TypeOK, Batch
<1>2. PICK items \in SUBSET open : news \in [items -> ItemTypes]
  BY DEF News
<1> QED
  BY <1>1, <1>2 DEF Outcomes

\* The oldest of the records that are yet to be polled exists, and is one of them.
LEMMA LeastToPoll ==
  ASSUME TypeOK, todo # {}
  PROVE  \E least \in todo : \A c \in todo : least <= c
<1>1. todo \subseteq Nat
  BY DEF TypeOK, Batches
<1> DEFINE before == {pair \in Nat \X Nat : pair[1] < pair[2]}
<1>2. IsWellFoundedOn(before, Nat)
  BY NatLessThanWellFounded DEF OpToRel
<1>3. PICK least \in todo : \A c \in todo : <<c, least>> \notin before
  BY <1>1, <1>2, WFMin, Zenon
<1>4. \A c, d \in Nat : c < d => <<c, d>> \in before
  OBVIOUS
<1> HIDE DEF before
<1>5. \A c \in todo : ~ (c < least)
  BY <1>1, <1>3, <1>4
<1> QED
  BY <1>1, <1>5

\* The records the worker starts with are records.
LEMMA Constants ==
  /\ NoReport \in Report
  /\ NoSubmission \in Submission
  /\ NoUpdate \in Update
  /\ NoCommand \in Command
<1>1. NoReport \in Report /\ NoSubmission \in Submission
  BY DEF NoReport, Report, NoSubmission, Submission
<1>2. NoUpdate \in Update /\ NoCommand \in Command
  BY DEF NoUpdate, Update, NoCommand, Command, JobStatus
<1> QED
  BY <1>1, <1>2

-----------------------------------------------------------------------------
\* The steps of the worker and of its environment keep the types.

\* The first state is well typed.
LEMMA InitTypes == Init => TypeOK
<1> SUFFICES ASSUME Init PROVE TypeOK
  OBVIOUS
<1>1. NoRow("unborn") \in Row
  BY DEF NoRow, Row, NoRowStatus, JobStatus
<1>2. UnusedBatch \in Batch
  BY DEF UnusedBatch, Batch
<1> QED
  BY <1>1, <1>2, Constants DEF Init, TypeOK

\* So is everything after the queue, the clock or the operator acted.
LEMMA EnvironmentTypes == TypeOK /\ Environment => TypeOK'
<1> SUFFICES ASSUME TypeOK, Environment PROVE TypeOK'
  OBVIOUS
<1>1. \A j \in Jobs : table[j] \in Row
  BY DEF TypeOK
<1>2. ASSUME NEW j \in Jobs, Enqueue(j) PROVE TypeOK'
  <2>1. CreatedRow \in Row
    BY DEF CreatedRow, NoRow, Row, NoRowStatus, JobStatus
  <2> QED
    BY <1>2, <2>1 DEF Enqueue, TypeOK, worker
<1>3. ASSUME NEW j \in Jobs, RetryFallsDue(j) PROVE TypeOK'
  BY <1>1, <1>3, RowTypes DEF RetryFallsDue, TypeOK, worker
<1>4. ASSUME NEW j \in Jobs, LeaseExpires(j) PROVE TypeOK'
  BY <1>1, <1>4, RowTypes DEF LeaseExpires, TypeOK, worker
<1>5. ASSUME NEW kind \in Commands, NEW j \in Jobs, CommandRead(kind, j) PROVE TypeOK'
  <2>1. kind \in {"cancel", "retry", "delete"}
    BY BatchAssumption
  <2>2. table[j].status \in JobStatus
    BY <1>5, <2>1 DEF CommandRead, AcceptedFrom, JobStatus
  <2>3. command' \in Command
    BY <1>5, <2>1, <2>2 DEF CommandRead, Command, TypeOK
  <2> QED
    BY <1>5, <2>3 DEF CommandRead, TypeOK, worker
<1>6. ASSUME CommandWrite PROVE TypeOK'
  <2> DEFINE j == command.job
             after == CommandEffect(command.kind, command.seen, table[j])
  <2>1. command.kind \in {"cancel", "retry", "delete"} /\ command.submitted \in BOOLEAN
    BY <1>6 DEF CommandWrite, TypeOK, Command
  <2>2. j \in Jobs => after \in Row
    BY <1>1, <2>1, CommandTypes
  <2>3. \/ UNCHANGED <<table, submitted>>
        \/ /\ table' = [table EXCEPT ![j] = after]
           /\ submitted' = [submitted EXCEPT ![j] = command.submitted]
    BY <1>6 DEF CommandWrite
  <2>4. command' = NoCommand /\ UNCHANGED <<batches, worker, stops>>
    BY <1>6 DEF CommandWrite
  <2> HIDE DEF after
  <2>5. table' \in [Jobs -> Row]
    BY <2>2, <2>3 DEF TypeOK
  <2>6. submitted' \in [Jobs -> BOOLEAN]
    BY <2>1, <2>3 DEF TypeOK
  <2> QED
    BY <2>4, <2>5, <2>6, Constants DEF TypeOK, worker
<1> QED
  BY <1>2, <1>3, <1>4, <1>5, <1>6 DEF Environment

\* An update that raises leaves a well-typed worker.
LEMMA RefusedTypes ==
  ASSUME TypeOK, Refused, UNCHANGED <<table, submitted, batches, command, stops>>
  PROVE  TypeOK'
BY Constants DEF Refused, LeaveLoop, TypeOK

\* One that begins is an update.
LEMMA BeginTypes ==
  ASSUME NEW kind \in {"outcome", "pending", "incomplete"}, NEW j \in Jobs,
         NEW expected \in JobStatus \cup NoRowStatus, NEW target \in JobStatus,
         Begin(kind, j, expected, target)
  PROVE  update' \in Update
BY Constants DEF Begin, Update

\* The steps of update_job_status keep the types.
LEMMA UpdateTypes == TypeOK /\ UpdateStatus => TypeOK'
<1> SUFFICES ASSUME TypeOK, UpdateStatus PROVE TypeOK'
  OBVIOUS
<1>1. update \in Update
  BY DEF TypeOK
<1>2. ASSUME CheckUpdate PROVE TypeOK'
  <2> DEFINE row == table[update.job]
             known == submission.pc = "recording" \/ submitted[update.job]
  <2>1. CASE UpdateAllowed(row, update.expected, update.target)
    <3>1. update' = [update EXCEPT !.pc = "writing", !.seen = row.status,
                                   !.submitted = known]
      BY <1>2, <2>1 DEF CheckUpdate
    <3>2. row.status \in JobStatus
      BY <2>1 DEF UpdateAllowed, Exists
    <3>3. update.pc = "checking"
      BY <1>2 DEF CheckUpdate
    <3>4. known \in BOOLEAN
      OBVIOUS
    <3> HIDE DEF row, known
    <3>5. update' \in Update
      BY <1>1, <3>1, <3>2, <3>4 DEF Update
    <3> QED
      BY <1>2, <2>1, <3>5 DEF CheckUpdate, TypeOK, row
  <2>2. CASE ~ UpdateAllowed(row, update.expected, update.target)
    BY <1>2, <2>2, RefusedTypes DEF CheckUpdate
  <2> QED
    BY <2>1, <2>2
<1>3. ASSUME WriteUpdate PROVE TypeOK'
  <2> DEFINE j == update.job
             written == WrittenRow(update, table[j])
  <2>1. CASE Exists(table[j])
    <3>1. /\ table' = [table EXCEPT ![j] = written]
          /\ submitted' = [submitted EXCEPT ![j] = update.submitted]
          /\ update' \in {NoUpdate, [update EXCEPT !.pc = "noting"]}
          /\ UNCHANGED <<loop, todo, report, stale, submission, batches, command, stops>>
      BY <1>3, <2>1 DEF WriteUpdate
    <3>2. j \in Jobs => written \in Row
      BY <1>1, WrittenTypes DEF TypeOK
    <3> HIDE DEF written
    <3>3. table' \in [Jobs -> Row]
      BY <3>1, <3>2 DEF TypeOK
    <3>4. submitted' \in [Jobs -> BOOLEAN]
      BY <1>1, <3>1 DEF TypeOK, Update
    <3>5. update' \in Update
      BY <1>1, <3>1, Constants DEF Update
    <3> QED
      BY <3>1, <3>3, <3>4, <3>5 DEF TypeOK
  <2>2. CASE ~ Exists(table[j])
    BY <1>3, <2>2, RefusedTypes DEF WriteUpdate
  <2> QED
    BY <2>1, <2>2
<1>4. ASSUME NoteRun PROVE TypeOK'
  <2>1. CASE Exists(table[update.job])
    BY <1>4, <2>1, Constants DEF NoteRun, TypeOK
  <2>2. CASE ~ Exists(table[update.job])
    BY <1>4, <2>2, RefusedTypes DEF NoteRun
  <2> QED
    BY <2>1, <2>2
<1> QED
  BY <1>2, <1>3, <1>4 DEF UpdateStatus

\* So do those of a worker that starts, and of its loop before it polls.
LEMMA StartTypes == TypeOK /\ (StartWorker \/ Recover \/ WakeUp) => TypeOK'
<1> SUFFICES ASSUME TypeOK, StartWorker \/ Recover \/ WakeUp PROVE TypeOK'
  OBVIOUS
<1>1. \A j \in Jobs : table[j] \in Row
  BY DEF TypeOK
<1>2. ASSUME StartWorker PROVE TypeOK'
  <2>1. stale' \subseteq Jobs \X {"queued", "waiting_retry"}
    BY <1>2 DEF StartWorker, RecoveryTarget
  <2> QED
    BY <1>2, <2>1 DEF StartWorker, TypeOK
<1>3. ASSUME NEW listed \in stale, RecoverJob(listed) PROVE TypeOK'
  <2>1. listed[1] \in Jobs /\ listed[2] \in {"queued", "waiting_retry"}
    BY DEF TypeOK
  <2>2. update' \in Update
    BY <1>3, <2>1, BeginTypes DEF RecoverJob, JobStatus
  <2> QED
    BY <1>3, <2>2 DEF RecoverJob, TypeOK
<1>4. ASSUME RecoveryDone PROVE TypeOK'
  BY <1>4 DEF RecoveryDone, TypeOK
<1>5. ASSUME WakeUp PROVE TypeOK'
  BY <1>1, <1>5, RowTypes DEF WakeUp, TypeOK
<1> QED
  BY <1>2, <1>3, <1>4, <1>5 DEF Recover

\* A poll that returns leaves a well-typed record and a well-typed report.
LEMMA PollTypes ==
  ASSUME TypeOK, NEW status \in {"in_progress"} \cup FinalStatuses, PollReturns(status)
  PROVE  TypeOK'
<1> DEFINE b == NextToPoll
<1>1. b \in Batches
  <2>1. \E least \in todo : \A c \in todo : least <= c
    BY LeastToPoll DEF PollReturns
  <2> QED
    BY <2>1 DEF NextToPoll, TypeOK
<1> HIDE DEF b
<1> DEFINE outcome(news) == [j \in Jobs |-> IF j \in DOMAIN news THEN news[j]
                                           ELSE batches[b].outcome[j]]
<1>2. PICK news \in News(b, status), repeated \in Repeated(b) :
        /\ batches' = [batches EXCEPT ![b].status = status, ![b].outcome = outcome(news)]
        /\ \E pending \in SUBSET batches[b].members, seen \in {DOMAIN news \cup repeated} :
             report' = [completed  |-> CompletedItems(batches[b].members, seen, outcome(news)),
                        failed     |-> {j \in seen : ItemFailed(outcome(news)[j])},
                        pending    |-> pending,
                        incomplete |-> IF status \in {"expired", "failed"}
                                       THEN pending ELSE {}]
  BY DEF PollReturns, b
<1>3. batches[b] \in Batch
  BY <1>1 DEF TypeOK
<1>4. outcome(news) \in [Jobs -> Outcomes]
  BY <1>1, <1>3, NewsIsOfPendingMembers DEF Batch, Outcomes
<1>5. DOMAIN news \cup repeated \subseteq Jobs
  <2>1. repeated \subseteq batches[b].members
    BY DEF Repeated
  <2> QED
    BY <1>1, <1>3, <2>1, NewsIsOfPendingMembers DEF Batch
<1> HIDE DEF outcome
<1>6. batches' \in [Batches -> Batch]
  <2>1. [batches[b] EXCEPT !.status = status, !.outcome = outcome(news)] \in Batch
    BY <1>3, <1>4 DEF Batch, Outcomes
  <2> QED
    BY <1>1, <1>2, <2>1 DEF TypeOK
<1>7. report' \in Report
  BY <1>1, <1>2, <1>3, <1>5 DEF Report, CompletedItems, Batch
<1> QED
  BY <1>6, <1>7 DEF PollReturns, TypeOK

\* What is left of a report is a report.
LEMMA RestTypes ==
  ASSUME TypeOK, NEW j
  PROVE  /\ [report EXCEPT !.completed = @ \ {j}] \in Report
         /\ [report EXCEPT !.failed = @ \ {j}] \in Report
         /\ [report EXCEPT !.pending = @ \ {j}] \in Report
         /\ [report EXCEPT !.incomplete = @ \ {j}] \in Report
BY DEF TypeOK, Report

\* A member without an item keeps the types, whatever its row is.
LEMMA WaitingTypes ==
  ASSUME TypeOK, NEW kind \in {"pending", "incomplete"}, NEW j \in Jobs,
         NEW target \in JobStatus, NEW rest \in Report,
         ApplyToWaiting(kind, j, target, rest)
  PROVE  TypeOK'
<1>1. UNCHANGED <<table, submitted, batches, stale, submission, command, stops>>
  BY DEF ApplyToWaiting
<1>2. CASE table[j].status = "waiting_retry"
  <2>1. Begin(kind, j, "waiting_retry", target) /\ report' = rest /\ UNCHANGED <<loop, todo>>
    BY <1>2 DEF ApplyToWaiting, Exists, JobStatus
  <2>2. update' \in Update
    BY <2>1, BeginTypes DEF JobStatus
  <2> QED
    BY <1>1, <2>1, <2>2 DEF TypeOK
<1>3. CASE Exists(table[j]) /\ table[j].status # "waiting_retry"
  <2>1. report' = rest /\ UNCHANGED <<loop, todo, update>>
    BY <1>3 DEF ApplyToWaiting
  <2> QED
    BY <1>1, <2>1 DEF TypeOK
<1>4. CASE ~ Exists(table[j])
  <2>1. LeaveLoop /\ UNCHANGED update
    BY <1>4 DEF ApplyToWaiting, Exists, JobStatus
  <2> QED
    BY <1>1, <2>1, Constants DEF LeaveLoop, TypeOK
<1> QED
  BY <1>2, <1>3, <1>4

\* Applying a report keeps the types.
LEMMA ApplyTypes == TypeOK /\ Apply => TypeOK'
<1> SUFFICES ASSUME TypeOK, Apply PROVE TypeOK'
  OBVIOUS
<1>1. ASSUME ReportApplied PROVE TypeOK'
  BY <1>1, Constants DEF ReportApplied, TypeOK
<1>2. ASSUME NEW j \in Jobs, ApplyCompleted(j) PROVE TypeOK'
  <2>1. table[j].status \in JobStatus \cup NoRowStatus
    BY DEF TypeOK, Row
  <2>2. update' \in Update
    BY <1>2, <2>1, BeginTypes DEF ApplyCompleted, JobStatus
  <2> QED
    BY <1>2, <2>2, RestTypes DEF ApplyCompleted, TypeOK
<1>3. ASSUME NEW j \in Jobs, ApplyFailed(j) PROVE TypeOK'
  <2>1. update' \in Update
    BY <1>3, BeginTypes DEF ApplyFailed, JobStatus
  <2> QED
    BY <1>3, <2>1, RestTypes DEF ApplyFailed, TypeOK
<1>4. ASSUME NEW j \in Jobs, ApplyPending(j) PROVE TypeOK'
  BY <1>4, RestTypes, WaitingTypes DEF ApplyPending, JobStatus
<1>5. ASSUME NEW j \in Jobs, ApplyIncomplete(j) PROVE TypeOK'
  BY <1>5, RestTypes, WaitingTypes DEF ApplyIncomplete, JobStatus
<1> QED
  BY <1>1, <1>2, <1>3, <1>4, <1>5 DEF Apply

\* Submitting a batch keeps the types, whatever becomes of the request.
LEMMA SubmissionTypes ==
  ASSUME TypeOK,
         Claim \/ RequestReturns \/ RequestFails \/ CancelSubmission \/ SaveSubmission
  PROVE  TypeOK'
<1>1. \A j \in Jobs : table[j] \in Row
  BY DEF TypeOK
<1>2. submission \in Submission
  BY DEF TypeOK
<1>3. ASSUME ClaimNothing PROVE TypeOK'
  BY <1>3 DEF ClaimNothing, TypeOK
<1>4. ASSUME NEW group \in SUBSET Jobs, ClaimGroup(group) PROVE TypeOK'
  <2>1. table' \in [Jobs -> Row]
    BY <1>1, <1>4, RowTypes DEF ClaimGroup
  <2>2. submission' \in Submission
    BY <1>4 DEF ClaimGroup, NoSubmission, Submission
  <2> QED
    BY <1>4, <2>1, <2>2 DEF ClaimGroup, TypeOK
<1>5. ASSUME LoadGroup PROVE TypeOK'
  <2>1. submission' \in Submission
    BY <1>2, <1>5, Constants DEF LoadGroup, Submission
  <2> QED
    BY <1>5, <2>1 DEF LoadGroup, TypeOK
<1>6. ASSUME RequestReturns PROVE TypeOK'
  <2>1. PICK b \in Batches :
          /\ batches' = [batches EXCEPT ![b].status = "submitted",
                                        ![b].members = submission.members]
          /\ submission' = [submission EXCEPT !.pc = "recording"]
    BY <1>6 DEF RequestReturns
  <2>2. [batches[b] EXCEPT !.status = "submitted", !.members = submission.members] \in Batch
    BY DEF TypeOK, Batch, Submission
  <2>3. batches' \in [Batches -> Batch]
    BY <2>1, <2>2 DEF TypeOK
  <2>4. submission' \in Submission
    BY <1>2, <2>1 DEF Submission
  <2> QED
    BY <1>6, <2>3, <2>4 DEF RequestReturns, TypeOK
<1>7. ASSUME RequestFails PROVE TypeOK'
  BY <1>7, Constants DEF RequestFails, TypeOK
<1>8. ASSUME CancelSubmission PROVE TypeOK'
  <2>1. submission' \in Submission
    BY <1>2, <1>8 DEF CancelSubmission, Submission
  <2> QED
    BY <1>8, <2>1 DEF CancelSubmission, TypeOK
<1>9. ASSUME MembersSaved PROVE TypeOK'
  BY <1>9, Constants DEF MembersSaved, TypeOK
<1>10. ASSUME NEW j \in Jobs, SaveMember(j) PROVE TypeOK'
  <2>1. update' \in Update
    BY <1>10, BeginTypes DEF SaveMember, JobStatus
  <2>2. submission' \in Submission
    BY <1>2, <1>10 DEF SaveMember, Submission
  <2> QED
    BY <1>10, <2>1, <2>2 DEF SaveMember, TypeOK
<1> QED
  BY <1>3, <1>4, <1>5, <1>6, <1>7, <1>8, <1>9, <1>10 DEF Claim, SaveSubmission

\* Every step keeps the types.
LEMMA NextTypes == TypeOK /\ [Next]_vars => TypeOK'
<1> SUFFICES ASSUME TypeOK, [Next]_vars PROVE TypeOK'
  OBVIOUS
<1>1. ASSUME PollFails PROVE TypeOK'
  BY <1>1, Constants DEF PollFails, LeaveLoop, TypeOK
<1>2. ASSUME Shutdown \/ WorkerEnds PROVE TypeOK'
  BY <1>2 DEF Shutdown, WorkerEnds, TypeOK
<1>3. ASSUME Crash PROVE TypeOK'
  BY <1>3, Constants DEF Crash, TypeOK
<1>4. ASSUME UNCHANGED vars PROVE TypeOK'
  BY <1>4 DEF vars, TypeOK
<1> QED
  BY <1>1, <1>2, <1>3, <1>4, EnvironmentTypes, UpdateTypes, StartTypes, PollTypes,
     ApplyTypes, SubmissionTypes DEF Next

\* The table, the records and the worker's state have their types, whatever the
\* worker, the operator, the clock and the service do.
THEOREM TypesHold == Spec => []TypeOK
<1> QED
  BY InitTypes, NextTypes, PTL DEF Spec

-----------------------------------------------------------------------------
\* How a row changes.

\* Job j goes on as it is, or is deleted; or it was not final, and is not
\* completed now.
Keeps(j) ==
  \/ table'[j].status \in {table[j].status, "deleted"}
  \/ table[j].status \notin Final /\ table'[j].status # "completed"

\* The statements set the status they say they set.
LEMMA StatementStatuses ==
  ASSUME NEW row \in Row
  PROVE  /\ ClaimedRow(row, Worker).status = "running"
         /\ RequeuedRow(row).status = "queued"
         /\ \A n : [row EXCEPT !.nextRetry = n].status = row.status
         /\ \A l : [row EXCEPT !.lease = l].status = row.status
BY DEF ClaimedRow, RequeuedRow, Row

\* Only an update and a command may do anything else to a row: the one writes its
\* target, the other cancels or queues the job.
LEMMA RowSteps ==
  ASSUME TypeOK, [Next]_vars, NEW i \in Jobs
  PROVE  \/ Keeps(i)
         \/ WriteUpdate /\ update.job = i /\ table'[i].status = update.target
         \/ /\ CommandWrite /\ command.job = i /\ command.kind \in {"cancel", "retry"}
            /\ table'[i].status \in {"cancelled", "queued"}
<1>1. \A j \in Jobs : table[j] \in Row
  BY DEF TypeOK
<1>2. ASSUME NEW j \in Jobs, Enqueue(j) PROVE Keeps(i)
  <2>1. CreatedRow.status = "queued"
    BY DEF CreatedRow, NoRow
  <2> QED
    BY <1>2, <2>1 DEF Enqueue, Keeps, TypeOK, Final
<1>3. ASSUME NEW j \in Jobs, RetryFallsDue(j) \/ LeaseExpires(j) PROVE Keeps(i)
  <2>1. PICK row \in {[table[j] EXCEPT !.nextRetry = "due"],
                      [table[j] EXCEPT !.lease = "expired"]} :
          table' = [table EXCEPT ![j] = row]
    BY <1>3 DEF RetryFallsDue, LeaseExpires
  <2>2. row.status = table[j].status
    <3>1. \A n : [table[j] EXCEPT !.nextRetry = n].status = table[j].status
      BY <1>1, StatementStatuses
    <3>2. \A l : [table[j] EXCEPT !.lease = l].status = table[j].status
      BY <1>1, StatementStatuses
    <3> QED
      BY <3>1, <3>2
  <2> QED
    BY <2>1, <2>2 DEF Keeps, TypeOK
<1>4. ASSUME CommandWrite
      PROVE  \/ Keeps(i)
             \/ /\ command.job = i /\ command.kind \in {"cancel", "retry"}
                /\ table'[i].status \in {"cancelled", "queued"}
  <2> DEFINE after == CommandEffect(command.kind, command.seen, table[command.job])
  <2>1. table' = table \/ table' = [table EXCEPT ![command.job] = after]
    BY <1>4 DEF CommandWrite
  <2>2. command.kind \in {"cancel", "retry", "delete"}
    BY <1>4 DEF CommandWrite, TypeOK, Command
  <2>3. ASSUME command.job = i
        PROVE  \/ after.status \in {table[i].status, "deleted"}
               \/ /\ command.kind \in {"cancel", "retry"}
                  /\ after.status \in {"cancelled", "queued"}
    <3>1. CASE command.kind = "delete"
      BY <2>3, <3>1 DEF CommandEffect, NoRow
    <3>2. CASE command.kind = "retry"
      BY <1>1, <2>3, <3>2 DEF CommandEffect, RetriedRow, Row
    <3>3. CASE command.kind = "cancel"
      BY <1>1, <2>3, <3>3 DEF CommandEffect, CancelRequestedRow, Row
    <3> QED
      BY <2>2, <3>1, <3>2, <3>3
  <2> HIDE DEF after
  <2> QED
    BY <2>1, <2>3 DEF Keeps, TypeOK
<1>5. ASSUME WriteUpdate
      PROVE  Keeps(i) \/ (update.job = i /\ table'[i].status = update.target)
  <2> DEFINE written == WrittenRow(update, table[update.job])
  <2>1. table' = table \/ table' = [table EXCEPT ![update.job] = written]
    BY <1>5 DEF WriteUpdate
  <2>2. update.job = i => written.status = update.target
    BY <1>1, WrittenTypes DEF TypeOK
  <2> HIDE DEF written
  <2> QED
    BY <2>1, <2>2 DEF Keeps, TypeOK
<1>6. ASSUME WakeUp PROVE Keeps(i)
  BY <1>1, <1>6, StatementStatuses DEF WakeUp, Keeps, IsDue, Final
<1>7. ASSUME NEW group \in SUBSET Jobs, ClaimGroup(group) PROVE Keeps(i)
  BY <1>1, <1>7, StatementStatuses DEF ClaimGroup, Queued, Keeps, Final
<1>8. ASSUME UNCHANGED table PROVE Keeps(i)
  BY <1>8 DEF Keeps
<1>9. ASSUME NEW kind, NEW j, CommandRead(kind, j) PROVE UNCHANGED table
  BY <1>9 DEF CommandRead
<1>10. ASSUME NEW status, PollReturns(status) PROVE UNCHANGED table
  BY <1>10 DEF PollReturns
<1>11. ASSUME CheckUpdate \/ NoteRun \/ StartWorker \/ Recover \/ PollFails \/ Apply
       PROVE  UNCHANGED table
  BY <1>11 DEF CheckUpdate, NoteRun, StartWorker, Recover, RecoverJob, RecoveryDone,
               PollFails, Apply, ReportApplied, ApplyCompleted, ApplyFailed, ApplyPending,
               ApplyIncomplete, ApplyToWaiting
<1>12. ASSUME \/ LoadGroup \/ ClaimNothing \/ RequestReturns \/ RequestFails
              \/ CancelSubmission \/ SaveSubmission
              \/ Shutdown \/ WorkerEnds \/ Crash \/ UNCHANGED vars
       PROVE  UNCHANGED table
  BY <1>12 DEF LoadGroup, ClaimNothing, RequestReturns, RequestFails, CancelSubmission,
               SaveSubmission, MembersSaved, SaveMember, Shutdown, WorkerEnds, Crash, vars
<1> QED
  BY <1>2, <1>3, <1>4, <1>5, <1>6, <1>7, <1>8, <1>9, <1>10, <1>11, <1>12
  DEF Next, Environment, UpdateStatus, Claim

-----------------------------------------------------------------------------
\* How the worker's update comes about.

\* An update begins: it completes only a waiting job, and only one the report
\* says is complete.
Begins ==
  \E kind, expected, target : \E j \in Jobs :
    /\ Begin(kind, j, expected, target)
    /\ target = "completed" => expected = "waiting_retry" /\ j \in report.completed

\* An update has read its row, and may be written.
Passes ==
  LET row == table[update.job] IN
  /\ update.pc = "checking"
  /\ UpdateAllowed(row, update.expected, update.target)
  /\ update' = [update EXCEPT !.pc = "writing", !.seen = row.status,
                  !.submitted = submission.pc = "recording" \/ submitted[update.job]]
  /\ UNCHANGED table

\* A step leaves the update alone, ends it, begins one or lets one pass, unless
\* it has been written.
LEMMA UpdateSteps ==
  ASSUME TypeOK, [Next]_vars
  PROVE  \/ UNCHANGED update \/ update' = NoUpdate \/ Begins \/ Passes
         \/ update.pc = "writing" /\ update' = [update EXCEPT !.pc = "noting"]
<1>1. ASSUME Environment PROVE UNCHANGED update
  BY <1>1 DEF Environment, Enqueue, RetryFallsDue, LeaseExpires, CommandRead,
              CommandWrite, worker
<1>2. ASSUME CheckUpdate PROVE update' = NoUpdate \/ Passes
  <2>1. CASE UpdateAllowed(table[update.job], update.expected, update.target)
    BY <1>2, <2>1 DEF CheckUpdate, Passes
  <2>2. CASE ~ UpdateAllowed(table[update.job], update.expected, update.target)
    BY <1>2, <2>2 DEF CheckUpdate, Refused
  <2> QED
    BY <2>1, <2>2
<1>3. ASSUME WriteUpdate
      PROVE  \/ update' = NoUpdate
             \/ update.pc = "writing" /\ update' = [update EXCEPT !.pc = "noting"]
  BY <1>3 DEF WriteUpdate, Refused
<1>4. ASSUME NoteRun PROVE update' = NoUpdate
  BY <1>4 DEF NoteRun, Refused
<1>5. ASSUME NEW listed \in stale, RecoverJob(listed) PROVE Begins
  <2>1. listed[1] \in Jobs /\ listed[2] # "completed"
    BY DEF TypeOK
  <2> QED
    BY <1>5, <2>1 DEF RecoverJob, Begins
<1>6. ASSUME NEW j \in Jobs, ApplyCompleted(j) PROVE Begins
  BY <1>6 DEF ApplyCompleted, Begins
<1>7. ASSUME NEW j \in Jobs, ApplyFailed(j) PROVE Begins
  BY <1>7 DEF ApplyFailed, Begins
<1>8. ASSUME NEW kind, NEW j \in Jobs, NEW target \in {"waiting_retry", "failed"}, NEW rest,
             ApplyToWaiting(kind, j, target, rest)
      PROVE  UNCHANGED update \/ Begins
  <2>1. CASE table[j].status = "waiting_retry"
    <3>1. Begin(kind, j, "waiting_retry", target)
      BY <1>8, <2>1 DEF ApplyToWaiting, Exists, JobStatus
    <3> QED
      BY <3>1 DEF Begins
  <2>2. CASE table[j].status # "waiting_retry"
    BY <1>8, <2>2 DEF ApplyToWaiting
  <2> QED
    BY <2>1, <2>2
<1>9. ASSUME NEW j \in Jobs, ApplyPending(j) \/ ApplyIncomplete(j)
      PROVE  UNCHANGED update \/ Begins
  BY <1>8, <1>9 DEF ApplyPending, ApplyIncomplete
<1>10. ASSUME NEW j \in Jobs, SaveMember(j) PROVE Begins
  BY <1>10 DEF SaveMember, Begins
<1>11. ASSUME NEW status, PollReturns(status) PROVE UNCHANGED update
  BY <1>11 DEF PollReturns
<1>12. ASSUME NEW group, ClaimGroup(group) PROVE UNCHANGED update
  BY <1>12 DEF ClaimGroup
<1>13. ASSUME \/ StartWorker \/ RecoveryDone \/ WakeUp \/ PollFails \/ ReportApplied
              \/ LoadGroup \/ ClaimNothing \/ RequestReturns \/ RequestFails
              \/ CancelSubmission \/ MembersSaved \/ Shutdown \/ WorkerEnds \/ UNCHANGED vars
       PROVE  UNCHANGED update
  BY <1>13 DEF StartWorker, RecoveryDone, WakeUp, PollFails, ReportApplied, LoadGroup,
               ClaimNothing, RequestReturns, RequestFails, CancelSubmission, MembersSaved,
               Shutdown, WorkerEnds, vars
<1>14. ASSUME Crash PROVE update' = NoUpdate
  BY <1>14 DEF Crash
<1> QED
  BY <1>1, <1>2, <1>3, <1>4, <1>5, <1>6, <1>7, <1>9, <1>10, <1>11, <1>12, <1>13, <1>14
  DEF Next, UpdateStatus, Recover, Apply, Claim, SaveSubmission

-----------------------------------------------------------------------------
\* What became of a job stays, but for a race.

\* What an update and a command know of the row they will write.  A job that an
\* update found cancelled has not been completed since: nobody but the worker
\* completes jobs.
Knowledge ==
  /\ update.pc # "none" => update.job \in Jobs
  /\ update.pc \in {"checking", "writing"} /\ update.target = "completed" =>
       update.expected = "waiting_retry"
  /\ update.pc = "writing" =>
       /\ update.seen = update.expected
       /\ TransitionAllowed(update.seen, update.target)
       /\ update.seen = "cancelled" => table[update.job].status # "completed"
  /\ command.kind \in {"cancel", "retry"} => command.seen \notin Final

\* Both go on knowing it.
LEMMA KnowledgeStays ==
  ASSUME TypeOK, Knowledge, [Next]_vars
  PROVE  Knowledge'
<1> USE DEF Knowledge
<1>1. update \in Update
  BY DEF TypeOK
<1>2. command'.kind \in {"cancel", "retry"} => command'.seen \notin Final
  <2>1. ASSUME NEW kind \in Commands, NEW j \in Jobs, CommandRead(kind, j),
               kind \in {"cancel", "retry"}
        PROVE  table[j].status \notin Final
    BY <2>1 DEF CommandRead, AcceptedFrom, Final
  <2>2. \/ UNCHANGED command \/ command' = NoCommand
        \/ \E kind \in Commands, j \in Jobs :
             CommandRead(kind, j) /\ command'.kind = kind /\ command'.seen = table[j].status
    <3>1. ASSUME CommandWrite PROVE command' = NoCommand
      BY <3>1 DEF CommandWrite
    <3>2. ASSUME NEW kind \in Commands, NEW j \in Jobs, CommandRead(kind, j)
          PROVE  command'.kind = kind /\ command'.seen = table[j].status
      BY <3>2 DEF CommandRead
    <3>3. ASSUME NEW j \in Jobs, Enqueue(j) \/ RetryFallsDue(j) \/ LeaseExpires(j)
          PROVE  UNCHANGED command
      BY <3>3 DEF Enqueue, RetryFallsDue, LeaseExpires
    <3>4. ASSUME NEW status, PollReturns(status) PROVE UNCHANGED command
      BY <3>4 DEF PollReturns
    <3>5. ASSUME StartWorker \/ Recover \/ WakeUp \/ PollFails \/ Apply \/ UpdateStatus
          PROVE  UNCHANGED command
      BY <3>5 DEF StartWorker, Recover, RecoverJob, RecoveryDone, WakeUp, PollFails, Apply,
                  ReportApplied, ApplyCompleted, ApplyFailed, ApplyPending, ApplyIncomplete,
                  ApplyToWaiting, UpdateStatus, CheckUpdate, WriteUpdate, NoteRun
    <3>6. ASSUME \/ Claim \/ RequestReturns \/ RequestFails \/ CancelSubmission
                 \/ SaveSubmission \/ Shutdown \/ WorkerEnds \/ Crash \/ UNCHANGED vars
          PROVE  UNCHANGED command
      BY <3>6 DEF Claim, LoadGroup, ClaimNothing, ClaimGroup, RequestReturns, RequestFails,
                  CancelSubmission, SaveSubmission, MembersSaved, SaveMember, Shutdown,
                  WorkerEnds, Crash, vars
    <3> QED
      BY <3>1, <3>2, <3>3, <3>4, <3>5, <3>6 DEF Next, Environment
  <2> QED
    BY <2>1, <2>2 DEF NoCommand
<1>3. /\ update'.pc # "none" => update'.job \in Jobs
      /\ update'.pc \in {"checking", "writing"} /\ update'.target = "completed" =>
           update'.expected = "waiting_retry"
      /\ update'.pc = "writing" =>
           /\ update'.seen = update'.expected
           /\ TransitionAllowed(update'.seen, update'.target)
           /\ update'.seen = "cancelled" => table'[update'.job].status # "completed"
  <2>1. CASE UNCHANGED update
    <3> SUFFICES ASSUME update.pc = "writing", update.seen = "cancelled"
                 PROVE  table'[update.job].status # "completed"
      BY <2>1
    <3>1. ~ (WriteUpdate /\ update' = update)
      BY <1>1, Constants DEF WriteUpdate, Refused, NoUpdate, Update
    <3> QED
      BY <2>1, <3>1, RowSteps DEF Keeps
  <2>2. CASE update' = NoUpdate
    BY <2>2 DEF NoUpdate
  <2>3. CASE Begins
    BY <2>3 DEF Begins, Begin, NoUpdate
  <2>4. CASE Passes
    BY <1>1, <2>4 DEF Passes, UpdateAllowed, Update
  <2>5. CASE update.pc = "writing" /\ update' = [update EXCEPT !.pc = "noting"]
    BY <1>1, <2>5 DEF Update
  <2> QED
    BY <2>1, <2>2, <2>3, <2>4, <2>5, UpdateSteps
<1> QED
  BY <1>2, <1>3

\* The first state knows it.
LEMMA InitKnowledge == Init => Knowledge
BY DEF Init, Knowledge, NoUpdate, NoCommand

\* What became of a job stays: no late outcome of a batch, no recovery and no
\* command that had seen it revives a job that was completed or cancelled.
THEOREM OutcomesStand == Spec => OutcomesAreFinal
<1>1. /\ TypeOK /\ Knowledge /\ [Next]_vars
      => [\A j \in Jobs :
            table[j].status \in Final /\ table'[j].status \notin {table[j].status, "deleted"} =>
              \/ /\ update.pc = "writing" /\ update.job = j /\ update.seen \notin Final
                 /\ update'.pc # "writing"
              \/ /\ command.kind # "none" /\ command.job = j /\ command.seen \notin Final
                 /\ command'.kind = "none"]_vars
  <2> SUFFICES ASSUME TypeOK, Knowledge, [Next]_vars, NEW j \in Jobs,
                      table[j].status \in Final,
                      table'[j].status \notin {table[j].status, "deleted"}
               PROVE  \/ /\ update.pc = "writing" /\ update.job = j /\ update.seen \notin Final
                         /\ update'.pc # "writing"
                      \/ /\ command.kind # "none" /\ command.job = j /\ command.seen \notin Final
                         /\ command'.kind = "none"
    OBVIOUS
  <2>1. CASE WriteUpdate /\ update.job = j /\ table'[j].status = update.target
    <3>1. update.pc = "writing"
      BY <2>1 DEF WriteUpdate
    <3>2. update'.pc # "writing"
      BY <2>1 DEF WriteUpdate, Refused, NoUpdate, TypeOK, Update
    <3>3. update.seen \notin Final
      <4> SUFFICES ASSUME update.seen \in Final PROVE FALSE
        OBVIOUS
      <4>1. TransitionAllowed(update.seen, update.target)
        BY <3>1 DEF Knowledge
      <4>2. update.target = update.seen
        BY <4>1 DEF TransitionAllowed, ALLOWED_TRANSITIONS, Final
      <4>3. update.seen = "cancelled"
        BY <3>1, <4>2 DEF Knowledge, Final
      <4> QED
        BY <2>1, <3>1, <4>2, <4>3 DEF Knowledge, Final
    <3> QED
      BY <2>1, <3>1, <3>2, <3>3
  <2>2. CASE CommandWrite /\ command.job = j /\ command.kind \in {"cancel", "retry"}
    <3>1. command.kind # "none" /\ command' = NoCommand
      BY <2>2 DEF CommandWrite
    <3> QED
      BY <2>2, <3>1 DEF Knowledge, NoCommand
  <2> QED
    BY <2>1, <2>2, RowSteps DEF Keeps
<1>2. TypeOK /\ Knowledge /\ [Next]_vars => Knowledge'
  BY KnowledgeStays
<1> QED
  BY <1>1, <1>2, InitKnowledge, TypesHold, PTL DEF Spec, OutcomesAreFinal

-----------------------------------------------------------------------------
\* Who is completed was reported.

Reported(j) ==
  \E b \in Batches : \E type \in ItemTypes :
    batches[b].outcome[j] = type /\ ~ItemFailed(type)

\* What is still to be applied, or written, of completed items was reported.
ReportsAreTrue ==
  /\ \A j \in report.completed : Reported(j)
  /\ update.pc \in {"checking", "writing"} /\ update.target = "completed" =>
       Reported(update.job)

\* An item once reported stays reported.
LEMMA ItemsStand ==
  ASSUME TypeOK, [Next]_vars, NEW j \in Jobs, Reported(j)
  PROVE  Reported(j)'
<1>1. PICK b \in Batches, type \in ItemTypes :
        batches[b].outcome[j] = type /\ ~ItemFailed(type)
  BY DEF Reported
<1>2. ASSUME UNCHANGED batches PROVE Reported(j)'
  BY <1>2 DEF Reported
<1>3. ASSUME RequestReturns PROVE Reported(j)'
  <2>1. batches'[b].outcome = batches[b].outcome
    BY <1>3 DEF RequestReturns, TypeOK, Batch
  <2> QED
    BY <1>1, <2>1 DEF Reported
<1>4. ASSUME NEW status \in {"in_progress"} \cup FinalStatuses, PollReturns(status)
      PROVE  Reported(j)'
  <2>1. PICK news \in News(NextToPoll, status) :
          batches' = [batches EXCEPT ![NextToPoll].status = status,
                       ![NextToPoll].outcome =
                         [i \in Jobs |-> IF i \in DOMAIN news THEN news[i]
                                         ELSE batches[NextToPoll].outcome[i]]]
    BY <1>4 DEF PollReturns
  <2>2. b # NextToPoll => batches'[b] = batches[b]
    BY <2>1 DEF TypeOK
  <2>3. b = NextToPoll => batches'[b].outcome[j] = type
    <3> SUFFICES ASSUME b = NextToPoll PROVE batches'[b].outcome[j] = type
      OBVIOUS
    <3>1. j \notin DOMAIN news
      BY <1>1, <2>1, NewsIsOfPendingMembers, BatchAssumption
    <3>2. batches'[b].outcome = [i \in Jobs |-> IF i \in DOMAIN news THEN news[i]
                                                ELSE batches[b].outcome[i]]
      BY <2>1 DEF TypeOK, Batch
    <3> QED
      BY <1>1, <3>1, <3>2
  <2> QED
    BY <1>1, <2>2, <2>3 DEF Reported
<1>5. ASSUME Environment PROVE UNCHANGED batches
  BY <1>5 DEF Environment, Enqueue, RetryFallsDue, LeaseExpires, CommandRead, CommandWrite
<1>6. ASSUME StartWorker \/ Recover \/ WakeUp \/ PollFails \/ Apply \/ UpdateStatus
      PROVE  UNCHANGED batches
  BY <1>6 DEF StartWorker, Recover, RecoverJob, RecoveryDone, WakeUp, PollFails, Apply,
              ReportApplied, ApplyCompleted, ApplyFailed, ApplyPending, ApplyIncomplete,
              ApplyToWaiting, UpdateStatus, CheckUpdate, WriteUpdate, NoteRun
<1>7. ASSUME \/ Claim \/ RequestFails \/ CancelSubmission \/ SaveSubmission
             \/ Shutdown \/ WorkerEnds \/ Crash \/ UNCHANGED vars
      PROVE  UNCHANGED batches
  BY <1>7 DEF Claim, LoadGroup, ClaimNothing, ClaimGroup, RequestFails, CancelSubmission,
              SaveSubmission, MembersSaved, SaveMember, Shutdown, WorkerEnds, Crash, vars
<1> QED
  BY <1>2, <1>3, <1>4, <1>5, <1>6, <1>7 DEF Next

\* What is to be applied is only forgotten, but for what a poll finds.
LEMMA ReportSteps ==
  ASSUME TypeOK, [Next]_vars
  PROVE  \/ report'.completed \subseteq report.completed
         \/ \E status \in {"in_progress"} \cup FinalStatuses : PollReturns(status)
<1>1. ASSUME NEW rest \in Report, rest.completed = report.completed,
             report' \in {report, NoReport, rest}
      PROVE  report'.completed \subseteq report.completed
  BY <1>1 DEF NoReport
<1>2. ASSUME Environment PROVE UNCHANGED report
  BY <1>2 DEF Environment, Enqueue, RetryFallsDue, LeaseExpires, CommandRead,
              CommandWrite, worker
<1>3. ASSUME UpdateStatus PROVE report' \in {report, NoReport}
  BY <1>3 DEF UpdateStatus, CheckUpdate, WriteUpdate, NoteRun, Refused, LeaveLoop
<1>4. ASSUME \/ StartWorker \/ Recover \/ WakeUp \/ Claim
             \/ RequestReturns \/ RequestFails \/ CancelSubmission \/ SaveSubmission
             \/ Shutdown \/ WorkerEnds \/ UNCHANGED vars
      PROVE  UNCHANGED report
  BY <1>4 DEF StartWorker, Recover, RecoverJob, RecoveryDone, WakeUp, Claim, LoadGroup,
              ClaimNothing, ClaimGroup, RequestReturns, RequestFails, CancelSubmission,
              SaveSubmission, MembersSaved, SaveMember, Shutdown, WorkerEnds, vars
<1>5. ASSUME PollFails \/ Crash \/ ReportApplied PROVE report' = NoReport
  BY <1>5 DEF PollFails, LeaveLoop, Crash, ReportApplied
<1>6. ASSUME NEW j \in Jobs, ApplyCompleted(j)
      PROVE  report'.completed \subseteq report.completed
  BY <1>6 DEF ApplyCompleted, TypeOK, Report
<1>7. ASSUME NEW j \in Jobs, ApplyFailed(j) \/ ApplyPending(j) \/ ApplyIncomplete(j)
      PROVE  report'.completed \subseteq report.completed
  <2>1. ASSUME NEW kind, NEW target, NEW rest,
               rest.completed = report.completed, ApplyToWaiting(kind, j, target, rest)
        PROVE  report'.completed \subseteq report.completed
    <3>1. table[j].status = "waiting_retry" \/ ~Exists(table[j])
            \/ (Exists(table[j]) /\ table[j].status # "waiting_retry")
      OBVIOUS
    <3>2. report' = rest \/ report' = NoReport
      BY <2>1, <3>1 DEF ApplyToWaiting, LeaveLoop, Exists, JobStatus
    <3> QED
      BY <2>1, <3>2 DEF NoReport
  <2>2. /\ [report EXCEPT !.failed = @ \ {j}].completed = report.completed
        /\ [report EXCEPT !.pending = @ \ {j}].completed = report.completed
        /\ [report EXCEPT !.incomplete = @ \ {j}].completed = report.completed
    BY DEF TypeOK, Report
  <2> QED
    BY <1>7, <2>1, <2>2 DEF ApplyFailed, ApplyPending, ApplyIncomplete
<1>8. NoReport.completed \subseteq report.completed
  BY DEF NoReport
<1> QED
  BY <1>2, <1>3, <1>4, <1>5, <1>6, <1>7, <1>8 DEF Next, Apply

\* The next record to poll is one of the list.
LEMMA NextToPollIsListed ==
  ASSUME TypeOK, todo # {}
  PROVE  NextToPoll \in Batches
<1>1. \E least \in todo : \A c \in todo : least <= c
  BY LeastToPoll
<1> QED
  BY <1>1 DEF NextToPoll, TypeOK

\* What a poll finds complete, it has reported.
LEMMA PollsReport ==
  ASSUME TypeOK, NEW status, PollReturns(status), NEW j \in report'.completed
  PROVE  Reported(j)'
<1> DEFINE b == NextToPoll
<1>1. b \in Batches
  BY NextToPollIsListed DEF PollReturns
<1> HIDE DEF b
<1> DEFINE outcome(news) == [i \in Jobs |-> IF i \in DOMAIN news THEN news[i]
                                            ELSE batches[b].outcome[i]]
<1>2. PICK news \in News(b, status), repeated \in Repeated(b) :
        /\ batches' = [batches EXCEPT ![b].status = status, ![b].outcome = outcome(news)]
        /\ \E pending \in SUBSET batches[b].members, seen \in {DOMAIN news \cup repeated} :
             report' = [completed  |-> CompletedItems(batches[b].members, seen, outcome(news)),
                        failed     |-> {i \in seen : ItemFailed(outcome(news)[i])},
                        pending    |-> pending,
                        incomplete |-> IF status \in {"expired", "failed"}
                                       THEN pending ELSE {}]
  BY DEF PollReturns, b
<1>3. batches'[b].outcome = outcome(news)
  BY <1>1, <1>2 DEF TypeOK, Batch
<1>4. j \in DOMAIN news \cup repeated /\ ~ItemFailed(outcome(news)[j])
  BY <1>2 DEF CompletedItems
<1>5. j \in Jobs /\ outcome(news)[j] \in ItemTypes
  <2>1. CASE j \in DOMAIN news
    BY <1>1, <2>1, NewsIsOfPendingMembers
  <2>2. CASE j \notin DOMAIN news
    <3>1. j \in batches[b].members /\ batches[b].outcome[j] # "pending"
      BY <1>4, <2>2 DEF Repeated
    <3> QED
      BY <1>1, <2>2, <3>1 DEF TypeOK, Batch
  <2> QED
    BY <2>1, <2>2
<1> HIDE DEF outcome
<1> QED
  BY <1>1, <1>3, <1>4, <1>5 DEF Reported

\* The reports go on being true.
LEMMA ReportsStayTrue ==
  ASSUME TypeOK, Knowledge, ReportsAreTrue, [Next]_vars
  PROVE  ReportsAreTrue'
<1>1. ASSUME NEW j \in report'.completed PROVE Reported(j)'
  <2>1. report.completed \subseteq Jobs
    BY DEF TypeOK, Report
  <2>2. CASE report'.completed \subseteq report.completed
    BY <1>1, <2>1, <2>2, ItemsStand DEF ReportsAreTrue
  <2>3. ASSUME NEW status, PollReturns(status) PROVE Reported(j)'
    BY <1>1, <2>3, PollsReport
  <2> QED
    BY <2>2, <2>3, ReportSteps
<1>2. ASSUME update'.pc \in {"checking", "writing"}, update'.target = "completed"
      PROVE  \E j \in Jobs : j = update'.job /\ Reported(j)'
  <2>1. ASSUME update.pc \in {"checking", "writing"}, update.target = "completed",
               update'.job = update.job
        PROVE  \E j \in Jobs : j = update'.job /\ Reported(j)'
    <3>1. PICK j \in Jobs : j = update.job
      BY <2>1 DEF Knowledge
    <3>2. Reported(j)
      BY <2>1, <3>1 DEF ReportsAreTrue
    <3> QED
      BY <2>1, <3>1, <3>2, ItemsStand
  <2>2. CASE UNCHANGED update
    BY <1>2, <2>1, <2>2
  <2>3. CASE update' = NoUpdate
    BY <1>2, <2>3 DEF NoUpdate
  <2>4. CASE Begins
    <3>1. PICK kind, expected, target :
            \E i \in Jobs : /\ Begin(kind, i, expected, target)
                            /\ target = "completed" => i \in report.completed
      BY <2>4 DEF Begins
    <3> PICK j \in Jobs : /\ Begin(kind, j, expected, target)
                          /\ target = "completed" => j \in report.completed
      BY <3>1
    <3>2. update'.job = j /\ update'.target = target
      BY DEF Begin, NoUpdate
    <3>3. Reported(j)
      BY <1>2, <3>2 DEF ReportsAreTrue
    <3> QED
      BY <3>2, <3>3, ItemsStand
  <2>5. CASE Passes
    <3>1. update'.job = update.job /\ update'.target = update.target
      BY <2>5 DEF Passes, TypeOK, Update
    <3> QED
      BY <1>2, <2>1, <2>5, <3>1 DEF Passes
  <2>6. CASE update.pc = "writing" /\ update' = [update EXCEPT !.pc = "noting"]
    BY <1>2, <2>6 DEF TypeOK, Update
  <2> QED
    BY <2>2, <2>3, <2>4, <2>5, <2>6, UpdateSteps
<1> QED
  BY <1>1, <1>2 DEF ReportsAreTrue, Reported

IInv == TypeOK /\ Knowledge /\ CompletedJobsWereReported /\ ReportsAreTrue

\* A job is completed only by an item that a poll found and that was no failure.
THEOREM CompletionIsEarned == Spec => []CompletedJobsWereReported
<1>1. Init => IInv
  <2> SUFFICES ASSUME Init PROVE IInv
    OBVIOUS
  <2>1. \A j \in Jobs : table[j].status = "unborn"
    BY DEF Init, NoRow
  <2>2. ReportsAreTrue
    BY DEF Init, ReportsAreTrue, NoReport, NoUpdate
  <2> QED
    BY <2>1, <2>2, InitTypes, InitKnowledge DEF IInv, CompletedJobsWereReported
<1>2. IInv /\ [Next]_vars => IInv'
  <2> SUFFICES ASSUME IInv, [Next]_vars PROVE IInv'
    OBVIOUS
  <2> USE DEF IInv
  <2>1. ASSUME NEW j \in Jobs, table'[j].status = "completed" PROVE Reported(j)'
    <3>1. table[j].status = "completed" \/ (WriteUpdate /\ update.job = j
                                             /\ update.target = "completed")
      BY <2>1, RowSteps DEF Keeps
    <3>2. Reported(j)
      BY <3>1 DEF CompletedJobsWereReported, ReportsAreTrue, Reported, WriteUpdate
    <3> QED
      BY <3>2, ItemsStand
  <2>2. CompletedJobsWereReported'
    BY <2>1 DEF CompletedJobsWereReported, Reported
  <2> QED
    BY <2>2, NextTypes, KnowledgeStays, ReportsStayTrue
<1> QED
  BY <1>1, <1>2, PTL DEF Spec, IInv
=============================================================================
