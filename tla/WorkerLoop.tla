----------------------------- MODULE WorkerLoop -----------------------------
(***************************************************************************)
(* The scheduling of one worker: which queued jobs its loop claims and in  *)
(* which order, how many it executes at once, and when a failed job is     *)
(* tried again and how often.  The web server claims from the same queue   *)
(* (Run Now).  Leases, crashes and the drain are in JobExecution, batches  *)
(* in MessageBatches.                                                      *)
(*                                                                         *)
(* Jobs are numbered in the order of their creation.  Times are relative,  *)
(* in seconds: a job counts down to its next_retry_at.                     *)
(***************************************************************************)
EXTENDS RetryPolicy, FiniteSets

CONSTANTS
  Jobs,           \* the jobs, by their order of creation
  Backlog,        \* the jobs that are queued already when the worker starts
  Backends,       \* the values of jobs.backend
  BackendOf,      \* the backend of each job
  Priority,       \* the priority of each job
  Enabled,        \* the backends that are configured
  Limit,          \* worker.per_backend_concurrency
  MaxConcurrency, \* worker.max_concurrency
  Bonus,          \* worker.continuation_priority_bonus
  AutoResume,     \* the jobs whose project has auto_resume_on_quota
  MaxAttempts,    \* jobs.max_attempts
  Failures,       \* the failures of each backend that are considered
  Headers,        \* the Retry-After headers considered
  MaxExtra        \* bound: the runs of a job that end in a follow-up or a quota reset

ASSUME WorkerAssumption ==
  /\ Jobs \subseteq Nat /\ IsFiniteSet(Jobs) /\ Backlog \subseteq Jobs
  /\ BackendOf \in [Jobs -> Backends] /\ Priority \in [Jobs -> Int]
  /\ Limit \in [Backends -> Nat]
  /\ Failures \in [Backends -> SUBSET Failure] /\ Headers \subseteq Header
  /\ MaxAttempts \in Nat \ {0} /\ {MaxConcurrency, Bonus, MaxExtra} \subseteq Nat

VARIABLES
  job,     \* job[j]: the row, and what its waiting is due to
  loop,    \* run_forever: where it is and the candidates of _claim_next_job
  active,  \* the jobs of the tasks in `active`, finished or not
  count,   \* active_backends
  done     \* the jobs of finished tasks that are not collected yet

vars == <<job, loop, active, count, done>>

\* wait: seconds until next_retry_at.  History: since, the seconds since the
\* failure; after, the Retry-After it came with; quota, whether it waits for a
\* quota; extra, the runs that ended in a follow-up or a quota reset.
Job == [status : {"unborn", "queued", "running", "waiting_retry", "completed", "failed"},
        attempts : Nat, followup : BOOLEAN, wait : Nat,
        since : Nat, after : Nat \cup {NoRetryAfter}, quota : BOOLEAN, extra : Nat]

Init ==
  /\ job = [j \in Jobs |->
       [status |-> IF j \in Backlog THEN "queued" ELSE "unborn", attempts |-> 0,
        followup |-> FALSE, wait |-> 0, since |-> 0, after |-> NoRetryAfter,
        quota |-> FALSE, extra |-> 0]]
  /\ loop = [pc |-> "asleep", candidates |-> {}]
  /\ active = {} /\ done = {}
  /\ count = [b \in Backends |-> 0]

Enqueue(j) ==
  /\ job[j].status = "unborn"
  /\ job' = [job EXCEPT ![j].status = "queued"]
  /\ UNCHANGED <<loop, active, count, done>>

-----------------------------------------------------------------------------
\* One iteration of run_forever.  It awaits nothing that a task of this worker
\* could use to go on, so tasks go on while it sleeps.

On(b, jobs) == {j \in jobs : BackendOf[j] = b}

Collected == [b \in Backends |-> count[b] - Cardinality(On(b, done))]

IsDue(j) == job[j].status = "waiting_retry" /\ job[j].wait = 0

Requeued(row) ==
  [row EXCEPT !.status = "queued", !.wait = 0, !.since = 0, !.after = NoRetryAfter,
              !.quota = FALSE]

\* _collect_finished and retry_due.
Wake ==
  /\ loop.pc = "asleep"
  /\ active' = active \ done
  /\ count' = Collected
  /\ done' = {}
  /\ job' = [j \in Jobs |-> IF IsDue(j) THEN Requeued(job[j]) ELSE job[j]]
  /\ loop' = [loop EXCEPT !.pc = "awake"]

\* The order of list_runnable_jobs.
Effective(j) == Priority[j] + (IF job[j].followup THEN Bonus ELSE 0)

Before(j, k) == Effective(j) > Effective(k) \/ (Effective(j) = Effective(k) /\ j < k)

Runnable == {j \in Jobs : job[j].status = "queued"}

ListLimit == MaxConcurrency * 5

\* Mutant: the limit of a backend is checked too late.
LenientMayClaim(j) == BackendOf[j] \in Enabled /\ count[BackendOf[j]] <= Limit[BackendOf[j]]

\* Mutant: the last slot of a backend is never used.
StrictMayClaim(j) == BackendOf[j] \in Enabled /\ count[BackendOf[j]] + 1 < Limit[BackendOf[j]]

MayClaim(j) == BackendOf[j] \in Enabled /\ count[BackendOf[j]] < Limit[BackendOf[j]]

\* _claim_next_job reads the list, cut to its limit, and passes over what it may
\* not claim; so candidates of a disabled backend take up room.
List ==
  /\ loop.pc = "awake" /\ Cardinality(active) < MaxConcurrency
  /\ loop' = [pc |-> "claiming",
              candidates |-> {j \in Runnable :
                                /\ Cardinality({k \in Runnable : Before(k, j)}) < ListLimit
                                /\ MayClaim(j)}]
  /\ UNCHANGED <<job, active, count, done>>

ClaimedBy(j) == [job EXCEPT ![j].status = "running", ![j].attempts = @ + 1]

\* The first candidate is claimed, or another process was faster and it is the
\* turn of the next.
Claim ==
  /\ loop.pc = "claiming"
  /\ \E j \in loop.candidates :
       /\ \A k \in loop.candidates : k = j \/ Before(j, k)
       /\ IF job[j].status = "queued"
          THEN /\ job' = ClaimedBy(j)
               /\ active' = active \cup {j}
               /\ count' = [count EXCEPT ![BackendOf[j]] = @ + 1]
               /\ loop' = [pc |-> "awake", candidates |-> {}]
          ELSE /\ loop' = [loop EXCEPT !.candidates = @ \ {j}]
               /\ UNCHANGED <<job, active, count>>
  /\ UNCHANGED done

Sleep ==
  /\ \/ loop.pc = "awake" /\ Cardinality(active) >= MaxConcurrency
     \/ loop.pc = "claiming" /\ loop.candidates = {}
  /\ loop' = [pc |-> "asleep", candidates |-> {}]
  /\ UNCHANGED <<job, active, count, done>>

-----------------------------------------------------------------------------
\* An execution: a task of this worker, or one of the web server.

RunNow(j) ==
  /\ job[j].status = "queued" /\ BackendOf[j] \in Enabled
  /\ job' = ClaimedBy(j)
  /\ UNCHANGED <<loop, active, count, done>>

\* Only a task of this worker waits for the loop.
Ends(j) ==
  IF j \in active \ done THEN loop.pc = "asleep" /\ done' = done \cup {j} ELSE UNCHANGED done

Completes(j) ==
  /\ job[j].status = "running"
  /\ job' = [job EXCEPT ![j].status = "completed", ![j].followup = FALSE]
  /\ Ends(j)
  /\ UNCHANGED <<loop, active, count>>

\* The answer was cut off: the job is queued for its continuation at once.
FollowsUp(j) ==
  /\ job[j].status = "running" /\ job[j].extra < MaxExtra
  /\ job' = [job EXCEPT ![j].status = "queued", ![j].followup = TRUE, ![j].extra = @ + 1]
  /\ Ends(j)
  /\ UNCHANGED <<loop, active, count>>

Waiting(j, delay, after) ==
  [job[j] EXCEPT !.status = "waiting_retry", !.wait = delay, !.since = 0,
                 !.after = after, !.quota = FALSE, !.followup = FALSE]

Resumes(f, j) == LooksRateLimited(f) /\ j \in AutoResume

\* _persist_failure with the decision of classify_failure.
Fails(j) ==
  /\ job[j].status = "running"
  /\ \E f \in Failures[BackendOf[j]], header, reset \in Headers :
       LET after == IF f.kind = "http" THEN parse_retry_after(header) ELSE NoRetryAfter
       IN \/ /\ Disposition(f, job[j].attempts, MaxAttempts) = "retry"
             /\ \E delay \in Delays(job[j].attempts, after) :
                  job' = [job EXCEPT ![j] = Waiting(j, delay, after)]
          \/ /\ Disposition(f, job[j].attempts, MaxAttempts) # "retry"
             /\ Resumes(f, j) => job[j].extra < MaxExtra
             /\ job' = [job EXCEPT ![j] =
                  IF Resumes(f, j)
                  THEN [Waiting(j, QuotaWait(reset, header), NoRetryAfter) EXCEPT
                          !.quota = TRUE, !.extra = @ + 1, !.followup = job[j].followup]
                  ELSE [job[j] EXCEPT !.status = "failed", !.followup = FALSE]]
  /\ Ends(j)
  /\ UNCHANGED <<loop, active, count>>

\* A second passes; nothing else depends on the clock here.
Tick ==
  /\ \E j \in Jobs : job[j].wait > 0
  /\ job' = [j \in Jobs |->
       IF job[j].wait > 0 THEN [job[j] EXCEPT !.wait = @ - 1, !.since = @ + 1] ELSE job[j]]
  /\ UNCHANGED <<loop, active, count, done>>

Iterate == Wake \/ List \/ Claim \/ Sleep

Next ==
  \/ Iterate \/ Tick
  \/ \E j \in Jobs : Enqueue(j) \/ RunNow(j) \/ Completes(j) \/ FollowsUp(j) \/ Fails(j)

Spec == Init /\ [][Next]_vars

\* The loop goes round and time passes.  No execution is assumed to end: not
\* every backend has a timeout.
FairSpec == Spec /\ WF_vars(Iterate) /\ WF_vars(Tick)

-----------------------------------------------------------------------------
TypeOK ==
  /\ job \in [Jobs -> Job]
  /\ loop \in [pc : {"asleep", "awake", "claiming"}, candidates : SUBSET Jobs]
  /\ done \subseteq active /\ active \subseteq Jobs
  /\ count \in [Backends -> Nat]

\* The limits hold for the tasks that run and those that ended unnoticed, and
\* the counters the loop decides with are true.
ConcurrencyIsLimited ==
  /\ Cardinality(active) <= MaxConcurrency
  /\ \A b \in Backends :
       count[b] = Cardinality(On(b, active)) /\ count[b] <= Limit[b]

\* README.md:392: Retry-After always wins when present; otherwise a job is not
\* requeued before its back-off has passed, and that is at most MaxDelay.
RetriesAreTimely ==
  [][\A j \in Jobs :
       /\ job[j].status = "waiting_retry" /\ ~job[j].quota
       /\ job'[j].status = "queued"
       => IF job[j].after # NoRetryAfter THEN job[j].since = job[j].after
          ELSE job[j].since \in RawDelay(job[j].attempts) .. MaxDelay]_vars

\* Every attempt beyond max_attempts is paid for by a run that ended in a
\* follow-up or a quota reset.
AttemptsAreAccountedFor ==
  \A j \in Jobs : job[j].attempts <= MaxAttempts + job[j].extra

\* For ever again the tasks that really run leave room for j, in the worker and
\* in its backend.
SlotRecurs(j) ==
  LET live == active \ done IN
  []<>(/\ Cardinality(live) < MaxConcurrency
       /\ Cardinality(On(BackendOf[j], live)) < Limit[BackendOf[j]])

\* j is queued, and a whole list of jobs that may not be claimed comes before it.
Crowded(j) ==
  /\ j \in Runnable
  /\ Cardinality({k \in Runnable : ~MayClaim(k) /\ Before(k, j)}) >= ListLimit

\* A queued or waiting job whose backend is enabled is executed, however the web
\* server interferes and whichever other executions never end, if a slot for it
\* is free again and again; only a list that stays full of jobs of disabled or
\* busy backends keeps it waiting.
QueuedJobsAreExecuted ==
  \A j \in {k \in Jobs : BackendOf[k] \in Enabled} :
    SlotRecurs(j) =>
      (job[j].status \in {"queued", "waiting_retry"}
         ~> job[j].status = "running" \/ []Crowded(j))
=============================================================================
