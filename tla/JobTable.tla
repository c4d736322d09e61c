------------------------------ MODULE JobTable ------------------------------
(***************************************************************************)
(* The `jobs` table of the SQLite database, as the lifecycle of a job sees *)
(* it: one row per job, the transition table every status change is meant  *)
(* to follow, and the effect of each UPDATE statement of repository.py on  *)
(* the row it hits.  The module has no variables: JobExecution and         *)
(* MessageBatches decide when each statement runs and what was read        *)
(* before it.                                                              *)
(*                                                                         *)
(* Time is abstracted to what the statements compare it with.  A lease is  *)
(* "live" or "expired"; a next_retry_at is "later" or "due".  The text     *)
(* columns (prompt, error message, metadata) are left out.                 *)
(***************************************************************************)
EXTENDS Naturals

CONSTANTS
  WorkerIds,  \* the values of jobs.lease_owner
  NoWorker    \* lease_owner IS NULL

ASSUME NoWorkerAssumption == NoWorker \notin WorkerIds

JobStatus == {"queued", "running", "waiting_retry",
              "completed", "failed", "cancelled"}

\* A job that was not enqueued yet, or whose row was deleted.  Ids are fresh
\* UUIDs, so a deleted job never comes back.
NoRowStatus == {"unborn", "deleted"}

Row == [status    : JobStatus \cup NoRowStatus,
        attempts  : Nat,                        \* attempt_count
        cancel    : BOOLEAN,                    \* cancel_requested
        owner     : WorkerIds \cup {NoWorker},  \* lease_owner
        lease     : {"none", "live", "expired"},\* lease_expires_at
        nextRetry : {"none", "later", "due"}]   \* next_retry_at

Exists(row) == row.status \in JobStatus

ALLOWED_TRANSITIONS ==
  [queued        |-> {"running", "cancelled"},
   running       |-> {"queued", "waiting_retry", "completed", "failed", "cancelled"},
   waiting_retry |-> {"queued", "completed", "failed", "cancelled"},
   failed        |-> {"queued", "cancelled"},
   completed     |-> {},
   cancelled     |-> {}]

\* ensure_transition(current, target) returns instead of raising.
TransitionAllowed(current, target) ==
  \/ current = target
  \/ target \in ALLOWED_TRANSITIONS[current]

\* Mutant: an update of whatever row there is.
AnyUpdateAllowed(row, expected, target) == Exists(row)

\* What update_job_status checks before it writes.
UpdateAllowed(row, expected, target) ==
  /\ Exists(row)
  /\ row.status = expected
  /\ TransitionAllowed(row.status, target)

-----------------------------------------------------------------------------
\* One operator per INSERT, UPDATE or DELETE: the row after the statement.

NoRow(why) == [status |-> why, attempts |-> 0, cancel |-> FALSE,
               owner |-> NoWorker, lease |-> "none", nextRetry |-> "none"]

CreatedRow == [NoRow("unborn") EXCEPT !.status = "queued"]

\* Mutant: the lease starts with the first heartbeat only.
UnleasedClaimedRow(row, w) ==
  [row EXCEPT !.status = "running", !.attempts = @ + 1, !.cancel = FALSE,
              !.owner = w]

ClaimedRow(row, w) ==
  [row EXCEPT !.status = "running", !.attempts = @ + 1, !.cancel = FALSE,
              !.owner = w, !.lease = "live"]

RenewedRow(row) == [row EXCEPT !.lease = "live"]

\* Mutant: the attempt is given back when its outcome is written.
RefundingUpdatedRow(row, target, nextRetry) ==
  [row EXCEPT !.status = target, !.nextRetry = nextRetry, !.attempts = @ - 1,
              !.owner = NoWorker, !.lease = "none", !.cancel = FALSE]

\* Mutant: next_retry_at is not among the columns of the UPDATE.
UnscheduledUpdatedRow(row, target, nextRetry) ==
  [row EXCEPT !.status = target,
              !.owner = NoWorker, !.lease = "none", !.cancel = FALSE]

\* The UPDATE of update_job_status with clear_lease and clear_cancel, as every
\* outcome of an execution uses it.
UpdatedRow(row, target, nextRetry) ==
  [row EXCEPT !.status = target, !.nextRetry = nextRetry,
              !.owner = NoWorker, !.lease = "none", !.cancel = FALSE]

\* Every writer of waiting_retry gives a next_retry_at, and no other outcome
\* has one.
ScheduledIf(status) == IF status = "waiting_retry" THEN "later" ELSE "none"

\* Mutant: a cancel request takes the lease away.
ReleasingCancelRequestedRow(row, seen) ==
  IF seen = "running"
  THEN [row EXCEPT !.cancel = TRUE, !.owner = NoWorker, !.lease = "none"]
  ELSE [row EXCEPT !.status = "cancelled", !.nextRetry = "none"]

\* request_cancel decides on the status it read; the statement it runs does
\* not look at the status the row has by then.
CancelRequestedRow(row, seen) ==
  IF seen = "running"
  THEN [row EXCEPT !.cancel = TRUE]
  ELSE [row EXCEPT !.status = "cancelled", !.nextRetry = "none"]

\* Mutant: a manual retry starts counting attempts afresh.
RecountingRetriedRow(row) ==
  [row EXCEPT !.status = "queued", !.nextRetry = "none", !.cancel = FALSE,
              !.attempts = 0]

RetriedRow(row) ==
  [row EXCEPT !.status = "queued", !.nextRetry = "none", !.cancel = FALSE]

\* The statuses in which an operator command is accepted: request_cancel,
\* manual_retry, and delete_job of the orchestrator.
AcceptedFrom ==
  [cancel |-> {"queued", "running", "waiting_retry", "failed"},
   retry  |-> {"failed", "waiting_retry"},
   delete |-> JobStatus \ {"running"}]

\* What the command does to the row, given the status it had read.  It does not
\* look at the row again.
CommandEffect(kind, seen, row) ==
  CASE kind = "cancel" -> CancelRequestedRow(row, seen)
    [] kind = "retry"  -> RetriedRow(row)
    [] kind = "delete" -> NoRow("deleted")

RequeuedRow(row) ==
  [row EXCEPT !.status = "queued", !.nextRetry = "none"]

IsDue(row) == row.status = "waiting_retry" /\ row.nextRetry = "due"

\* Mutants: recovery takes every running row; recovery takes only rows without
\* an expiry.
EveryRunningIsStale(row) == row.status = "running"
UnleasedIsStale(row) == row.status = "running" /\ row.lease = "none"

\* recover_stale_running_jobs: a lease that expired, or none at all.
IsStale(row) == row.status = "running" /\ row.lease # "live"

\* Mutant: next_retry_at <= now, without the IS NULL that precedes it.
DueIsRunnable(row) == row.status = "queued" /\ row.nextRetry = "due"

\* list_runnable_jobs; which of the runnable rows a worker takes first
\* (priority, follow-up bonus, age) is left open.
IsRunnable(row) == row.status = "queued" /\ row.nextRetry # "later"
=============================================================================
