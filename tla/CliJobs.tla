------------------------------ MODULE CliJobs ------------------------------
(***************************************************************************)
(* A job of a command-line backend (codex_cli, claude_code_cli): its       *)
(* workspace and private prompt from enqueue to deletion, and the child    *)
(* process that works there.  One job, since jobs share no workspace; two  *)
(* executors, a worker and the web server, and the operator.               *)
(*                                                                         *)
(* In the deployment "one" they are one process, whose code between two    *)
(* awaits nothing interrupts; in "two" what one of them does in several    *)
(* transactions or file operations the others can see in between.  Leases  *)
(* are honoured and a row is read and written in one step: JobExecution is *)
(* about what happens otherwise.  The operator does one thing at a time.   *)
(* codex_cli records events of its child as it goes; an INSERT that fails  *)
(* (the job was deleted, another process holds the database) is an error   *)
(* like any other, and may come before the child is terminated.            *)
(* Codex jobs may have a git worktree; claude_code_cli works in the job's  *)
(* directory, worktree or not, so here its jobs have none.                 *)
(***************************************************************************)
EXTENDS RetryPolicy, FiniteSets, Workspaces

CONSTANTS
  Executors,   \* the tasks that may execute the job
  Deployments, \* the ones considered, of "one" and "two"
  MaxAttempts, \* jobs.max_attempts
  MaxRuns,     \* bound: how often the job is claimed
  MaxCrashes   \* bound: processes die up to that run of the job

ASSUME CliAssumption ==
  /\ Deployments \subseteq {"one", "two"}
  /\ {MaxAttempts, MaxRuns, MaxCrashes} \subseteq Nat

VARIABLES
  deployment, \* "one" or "two" processes
  job,        \* the row, with the metadata that matters here
  disk,       \* the job's workspace
  task,       \* task[e]: process_claimed_job in executor e, with its child
  operator,   \* "idle", or what enqueue, cancel or delete_job has still to do
  orphans,    \* children that live and are nobody's
  abandoned,  \* history: a process died, or was stopped while it terminated
              \* a child or waited for a grandchild
  unrecorded, \* history: an event could not be written while a child lived
  torn        \* history: a deletion stopped between workspace and row

vars == <<deployment, job, disk, task, operator, orphans, abandoned, unrecorded, torn>>

Job == [cli : {"codex", "claude"}, kind : Kinds,
        policy : SUPPORTED_CLEANUP_POLICIES, private : BOOLEAN,
        status : {"unborn", "queued", "running", "waiting_retry", "completed",
                  "failed", "cancelled", "deleted"},
        attempts : Nat, cancel : BOOLEAN,
        path : BOOLEAN]  \* metadata.prompt_artifact_path is set

\* pc: feeding the prompt to the child, running, terminating it, gathering the
\* rest of its output, ended (an exception on its way), cleaning the workspace,
\* removing a worktree that git found clean.  result is what comes of it.
\* held: a grandchild keeps the pipes open.
Task == [pc : {"idle", "feeding", "running", "terminating", "gathering", "ended",
               "cleaning", "removing"},
         child : BOOLEAN, prompt : {"real", "placeholder"}, held : BOOLEAN,
         result : {"none", "completed", "failed", "retryable", "permanent", "interrupted"}]

IdleTask == [pc |-> "idle", child |-> FALSE, prompt |-> "real", held |-> FALSE,
             result |-> "none"]

Init ==
  /\ deployment \in Deployments
  /\ job \in {j \in [cli : {"codex", "claude"}, kind : Kinds,
                     policy : SUPPORTED_CLEANUP_POLICIES, private : BOOLEAN,
                     status : {"unborn"}, attempts : {0}, cancel : {FALSE}, path : {FALSE}] :
                j.cli = "claude" => j.kind = "directory"}
  /\ disk = Nothing
  /\ task = [e \in Executors |-> IdleTask]
  /\ operator = "idle"
  /\ orphans = 0
  /\ abandoned = FALSE /\ unrecorded = FALSE /\ torn = FALSE

\* Mutant: git worktree remove is awaited, and others go on meanwhile.
AwaitedMidSection ==
  operator \in {"storing", "cleaning", "deleting", "removed"}
  \/ \E e \in Executors : task[e].pc = "cleaning"

\* Somebody is between two operations that no await separates.
MidSection ==
  operator # "idle" \/ \E e \in Executors : task[e].pc \in {"cleaning", "removing"}

Interleaves == deployment = "two" \/ ~MidSection

-----------------------------------------------------------------------------
\* enqueue: the row is there before the private prompt is.

CreateJob ==
  /\ job.status = "unborn"
  /\ disk' = Prepared(disk, job.kind)
  /\ job' = [job EXCEPT !.status = "queued"]
  /\ operator' = IF job.private THEN "storing" ELSE "idle"
  /\ UNCHANGED <<deployment, task, orphans, abandoned, unrecorded, torn>>

StorePrompt ==
  /\ operator = "storing"
  /\ disk' = WithPrompt(disk)
  /\ job' = [job EXCEPT !.path = TRUE]
  /\ operator' = "idle"
  /\ UNCHANGED <<deployment, task, orphans, abandoned, unrecorded, torn>>

-----------------------------------------------------------------------------
\* The execution: a claim and submit() up to the creation of the child.

WorkspaceAtStart == IF job.cli = "codex" THEN Prepared(disk, job.kind) ELSE Made(disk)

\* resolve_job_prompt reads the file, and raises if it is not there.
Starts ==
  /\ job.cli = "codex" => CanPrepare(disk, job.kind)
  /\ job.path => disk.prompt

\* _emit_event of codex_cli: the INSERT needs the row of the job and the database,
\* which another process may hold for longer than the timeout.
EventStored == job.cli = "codex" => job.status # "deleted"
EventRefused == job.cli = "codex" /\ (deployment = "two" \/ job.status = "deleted")

\* The error of an event that was refused ends the execution; what is alive is
\* left to itself.
LeaveChild(e) ==
  /\ task' = [task EXCEPT ![e] = [IdleTask EXCEPT !.pc = "ended", !.result = "permanent"]]
  /\ orphans' = orphans + 1
  /\ unrecorded' = TRUE

Claimed == [job EXCEPT !.status = "running", !.attempts = @ + 1, !.cancel = FALSE]

Start(e) ==
  /\ Interleaves
  /\ job.status = "queued" /\ job.attempts < MaxRuns /\ task[e].pc = "idle"
  /\ job' = Claimed
  /\ \/ /\ Starts
        /\ disk' = WorkspaceAtStart
        /\ \E pc \in {"running"} \cup (IF job.cli = "claude" THEN {"feeding"} ELSE {}) :
             task' = [task EXCEPT ![e] =
               [IdleTask EXCEPT !.pc = pc, !.child = TRUE,
                                !.prompt = IF job.private /\ ~job.path THEN "placeholder"
                                           ELSE "real"]]
        /\ UNCHANGED <<orphans, unrecorded>>
     \/ \* process_started is refused.
        /\ Starts /\ EventRefused
        /\ disk' = WorkspaceAtStart
        /\ LeaveChild(e)
     \/ /\ ~Starts
        /\ disk' = IF job.cli = "codex" /\ ~CanPrepare(disk, job.kind) THEN disk
                   ELSE WorkspaceAtStart
        /\ task' = [task EXCEPT ![e] = [IdleTask EXCEPT !.pc = "ended", !.result = "permanent"]]
        /\ UNCHANGED <<orphans, unrecorded>>
     \/ \* A setting that is missing, or a hook that fails.
        /\ Starts
        /\ disk' = WorkspaceAtStart
        /\ task' = [task EXCEPT ![e] = [IdleTask EXCEPT !.pc = "ended", !.result = "permanent"]]
        /\ UNCHANGED <<orphans, unrecorded>>
  /\ UNCHANGED <<deployment, operator, abandoned, torn>>

\* claude_code_cli writes the prompt to the child's stdin and waits until it is
\* taken; readers and the timeout come after that.
Fed(e) ==
  /\ Interleaves
  /\ task[e].pc = "feeding"
  /\ task' = [task EXCEPT ![e].pc = "running"]
  /\ UNCHANGED <<deployment, job, disk, operator, orphans, abandoned, unrecorded, torn>>

\* A child or a grandchild is at work.
ChildLives == orphans > 0 \/ \E e \in Executors : task[e].child \/ task[e].held

\* What it does to its workspace, if that is still there.
ChildWrites ==
  /\ ChildLives /\ disk.workspace
  /\ disk' = [disk EXCEPT !.changes = TRUE]
  /\ UNCHANGED <<deployment, job, task, operator, orphans, abandoned, unrecorded, torn>>

\* The result is known, whether an event of the run is refused (permanent)
\* included.
ChildExits(e) ==
  /\ task[e].pc \in {"running", "feeding"}
  /\ \E result \in {"completed", "retryable", "permanent"}, held \in BOOLEAN :
       task' = [task EXCEPT ![e] =
         [@ EXCEPT !.pc = "gathering", !.child = FALSE, !.result = result, !.held = held]]
  /\ UNCHANGED <<deployment, job, disk, operator, orphans, abandoned, unrecorded, torn>>

\* The reader of one pipe met a refused event: gather raises that error at once,
\* although a grandchild still holds the other pipe.
ReaderFails(e) ==
  /\ Interleaves
  /\ task[e].pc = "gathering" /\ task[e].held /\ task[e].result = "permanent"
  /\ EventRefused
  /\ LeaveChild(e)
  /\ UNCHANGED <<deployment, job, disk, operator, abandoned, torn>>

\* asyncio.wait_for(process.wait(), timeout).  codex_cli records it before it
\* terminates the child.
TimesOut(e) ==
  /\ Interleaves
  /\ task[e].pc = "running"
  /\ \/ /\ EventStored
        /\ task' = [task EXCEPT ![e] = [@ EXCEPT !.pc = "terminating", !.result = "retryable"]]
        /\ UNCHANGED <<orphans, unrecorded>>
     \/ EventRefused /\ LeaveChild(e)
  /\ UNCHANGED <<deployment, job, disk, operator, abandoned, torn>>

\* Mutant: codex_cli leaves its child at a shutdown.
AlwaysAbandons(e) == TRUE

\* The await is cancelled at a shutdown.  Only codex_cli terminates its child
\* then, once the event is recorded; whoever is cancelled while terminating
\* leaves it.
Abandons(e) == job.cli = "claude" \/ task[e].pc = "terminating"

Interrupted(e) ==
  /\ Interleaves
  /\ task[e].pc \in {"feeding", "running", "terminating", "gathering"}
  /\ \/ /\ task[e].child /\ ~Abandons(e) /\ EventStored
        /\ task' = [task EXCEPT ![e] = [@ EXCEPT !.pc = "terminating", !.result = "interrupted"]]
        /\ UNCHANGED <<orphans, abandoned, unrecorded>>
     \/ /\ task[e].child /\ ~Abandons(e) /\ EventRefused
        /\ LeaveChild(e)
        /\ UNCHANGED abandoned
     \/ /\ task[e].child => Abandons(e)
        /\ task' = [task EXCEPT ![e] = [IdleTask EXCEPT !.pc = "ended", !.result = "interrupted"]]
        /\ orphans' = IF task[e].child \/ task[e].held THEN orphans + 1 ELSE orphans
        /\ abandoned' = (abandoned \/ task[e].pc = "terminating" \/ task[e].held)
        /\ UNCHANGED unrecorded
  /\ UNCHANGED <<deployment, job, disk, operator, torn>>

\* Mutant: SIGTERM only, and a child that ignores it.
NeverKilled(e) == FALSE

\* _terminate_process: SIGTERM, and SIGKILL after five seconds.
Killed(e) ==
  /\ Interleaves
  /\ task[e].pc = "terminating"
  /\ \E held \in BOOLEAN :
       task' = [task EXCEPT ![e] = [@ EXCEPT !.pc = "gathering", !.child = FALSE, !.held = held]]
  /\ UNCHANGED <<deployment, job, disk, operator, orphans, abandoned, unrecorded, torn>>

PipesClose(e) ==
  /\ task[e].held
  /\ task' = [task EXCEPT ![e].held = FALSE]
  /\ UNCHANGED <<deployment, job, disk, operator, orphans, abandoned, unrecorded, torn>>

-----------------------------------------------------------------------------
\* The outcome.  The row is written first, the workspace cleaned after it.

Ended(status) == [job EXCEPT !.status = status, !.cancel = FALSE]

\* The output is gathered and stored; _persist_success prepares the workspace
\* once more before it looks at the row.
Succeeds(e) ==
  /\ Interleaves
  /\ job.status = "running"
  /\ task[e].pc = "gathering" /\ ~task[e].held /\ task[e].result = "completed"
  /\ IF CanPrepare(Made(disk), job.kind)
     THEN /\ disk' = Prepared(Made(disk), job.kind)
          /\ job' = Ended(IF job.cancel THEN "cancelled" ELSE "completed")
          /\ task' = [task EXCEPT ![e] =
               IF job.cancel THEN IdleTask
               ELSE [IdleTask EXCEPT !.pc = "cleaning", !.result = "completed"]]
     ELSE /\ disk' = Made(disk)
          /\ task' = [task EXCEPT ![e] = [@ EXCEPT !.pc = "ended", !.result = "permanent"]]
          /\ UNCHANGED job
  /\ UNCHANGED <<deployment, operator, orphans, abandoned, unrecorded, torn>>

Raises(e) ==
  /\ Interleaves
  /\ task[e].pc = "gathering" /\ ~task[e].held /\ task[e].result # "completed"
  /\ task' = [task EXCEPT ![e].pc = "ended"]
  /\ UNCHANGED <<deployment, job, disk, operator, orphans, abandoned, unrecorded, torn>>

\* Mutant: an interrupted job stays as it is.
StatusAfterUnlessInterrupted(result) ==
  IF result = "interrupted" THEN "interrupted" ELSE "failed"

\* _persist_failure and _persist_interrupted, after the await of the heartbeat.
StatusAfter(result) ==
  IF result = "interrupted" THEN "waiting_retry"
  ELSE IF Disposition([kind |-> result, status |-> 0, typed |-> FALSE],
                      job.attempts, MaxAttempts) = "retry"
       THEN "waiting_retry" ELSE "failed"

RecordFailure(e) ==
  /\ Interleaves
  /\ task[e].pc = "ended" /\ job.status = "running"
  /\ job' = Ended(StatusAfter(task[e].result))
  /\ task' = [task EXCEPT ![e] =
       IF StatusAfter(task[e].result) = "failed"
       THEN [IdleTask EXCEPT !.pc = "cleaning", !.result = "failed"] ELSE IdleTask]
  /\ UNCHANGED <<deployment, disk, operator, orphans, abandoned, unrecorded, torn>>

\* The row is gone: every write is refused, the last event of codex_cli perhaps
\* included, and the task ends with that error.
WriteRefused(e) ==
  /\ Interleaves
  /\ \/ task[e].pc = "gathering" /\ ~task[e].held /\ task[e].result = "completed"
     \/ task[e].pc = "ended"
  /\ job.status = "deleted"
  /\ \/ /\ task[e].pc = "ended" \/ job.cli = "codex"
        /\ UNCHANGED disk
     \/ /\ task[e].pc = "gathering"
        /\ disk' = IF CanPrepare(Made(disk), job.kind) THEN Prepared(Made(disk), job.kind)
                   ELSE Made(disk)
  /\ task' = [task EXCEPT ![e] = IdleTask]
  /\ UNCHANGED <<deployment, job, operator, orphans, abandoned, unrecorded, torn>>

\* The test of a cleanup found the worktree clean.
WorktreeFoundClean(outcome) ==
  /\ job.kind = "git_worktree" /\ Removable(disk, job.kind)
  /\ PolicyRemoves(job.policy, outcome)

Cleaned(outcome) ==
  IF PolicyRemoves(job.policy, outcome) THEN AfterTest(disk, job.kind) ELSE disk

\* _maybe_cleanup_workspace reads the job again, for its metadata only, and
\* calls cleanup_job_workspace.
Clean(e) ==
  /\ task[e].pc = "cleaning"
  /\ disk' = IF job.status = "deleted" THEN disk ELSE Cleaned(task[e].result)
  /\ task' = [task EXCEPT ![e] =
       IF job.status # "deleted" /\ WorktreeFoundClean(task[e].result)
       THEN [@ EXCEPT !.pc = "removing"] ELSE IdleTask]
  /\ UNCHANGED <<deployment, job, operator, orphans, abandoned, unrecorded, torn>>

Remove(e) ==
  /\ task[e].pc = "removing"
  /\ disk' = AfterRemove(disk)
  /\ task' = [task EXCEPT ![e] = IdleTask]
  /\ UNCHANGED <<deployment, job, operator, orphans, abandoned, unrecorded, torn>>

-----------------------------------------------------------------------------
\* The scheduler, the operator, crashes.

\* A due retry, or manual_retry.
Requeue ==
  /\ Interleaves
  /\ job.status \in {"waiting_retry", "failed"}
  /\ job' = [job EXCEPT !.status = "queued", !.cancel = FALSE]
  /\ UNCHANGED <<deployment, disk, task, operator, orphans, abandoned, unrecorded, torn>>

RequestCancel ==
  /\ Interleaves
  /\ job.status = "running"
  /\ job' = [job EXCEPT !.cancel = TRUE]
  /\ UNCHANGED <<deployment, disk, task, operator, orphans, abandoned, unrecorded, torn>>

\* A job nobody executes is cancelled at once, and then its workspace cleaned.
Cancel ==
  /\ Interleaves
  /\ operator = "idle" /\ job.status \in {"queued", "waiting_retry", "failed"}
  /\ job' = [job EXCEPT !.status = "cancelled"]
  /\ operator' = "cleaning"
  /\ UNCHANGED <<deployment, disk, task, orphans, abandoned, unrecorded, torn>>

CleanCancelled ==
  /\ operator = "cleaning"
  /\ disk' = Cleaned("cancelled")
  /\ operator' = IF WorktreeFoundClean("cancelled") THEN "clearing" ELSE "idle"
  /\ UNCHANGED <<deployment, job, task, orphans, abandoned, unrecorded, torn>>

\* Mutant: a running job can be deleted.
MayDeleteAnything == job.status \notin {"unborn", "deleted"}

\* delete_job: read, remove the workspace, delete the row.
MayDelete == job.status \notin {"unborn", "running", "deleted"}

DeleteRead ==
  /\ Interleaves
  /\ operator = "idle" /\ MayDelete
  /\ operator' = "deleting"
  /\ UNCHANGED <<deployment, job, disk, task, orphans, abandoned, unrecorded, torn>>

DeleteWorkspace ==
  /\ operator = "deleting"
  /\ disk' = AfterTest(disk, job.kind)
  /\ operator' = IF job.kind = "git_worktree" /\ Removable(disk, job.kind) THEN "forcing"
                 ELSE "removed"
  /\ UNCHANGED <<deployment, job, task, orphans, abandoned, unrecorded, torn>>

\* After git status, of a cancelled or of a deleted job.  A path that became
\* something else meanwhile is an error, and the deletion stops.
RemoveWorktree ==
  /\ operator \in {"clearing", "forcing"}
  /\ disk' = AfterRemove(disk)
  /\ operator' = IF operator = "forcing" /\ (disk.workspace => disk.marker) THEN "removed"
                 ELSE "idle"
  /\ UNCHANGED <<deployment, job, task, orphans, abandoned, unrecorded, torn>>

DeleteRow ==
  /\ operator = "removed"
  /\ job' = [job EXCEPT !.status = "deleted"]
  /\ operator' = "idle"
  /\ UNCHANGED <<deployment, disk, task, orphans, abandoned, unrecorded, torn>>

\* An executor's process dies, its child does not.
Crash(e) ==
  /\ task[e].pc # "idle" /\ job.attempts <= MaxCrashes
  /\ task' = [task EXCEPT ![e] = IdleTask]
  /\ orphans' = IF task[e].child \/ task[e].held THEN orphans + 1 ELSE orphans
  /\ abandoned' = TRUE
  /\ UNCHANGED <<deployment, job, disk, operator, unrecorded, torn>>

\* The operator's command dies, or deleting the row fails.
CommandDies ==
  /\ operator # "idle" /\ job.attempts <= MaxCrashes
  /\ operator' = "idle"
  /\ torn' = TRUE
  /\ UNCHANGED <<deployment, job, disk, task, orphans, abandoned, unrecorded>>

OrphanEnds ==
  /\ orphans > 0
  /\ orphans' = orphans - 1
  /\ UNCHANGED <<deployment, job, disk, task, operator, abandoned, unrecorded, torn>>

\* recover_stale_jobs: a command-line run cannot be resumed.
Recover ==
  /\ Interleaves
  /\ job.status = "running" /\ \A e \in Executors : task[e].pc \in {"idle", "cleaning", "removing"}
  /\ job' = Ended("waiting_retry")
  /\ UNCHANGED <<deployment, disk, task, operator, orphans, abandoned, unrecorded, torn>>

\* What happens to an execution without its child and its grandchildren.
GoesOn(e) ==
  TimesOut(e) \/ Killed(e) \/ Succeeds(e) \/ Raises(e)
  \/ RecordFailure(e) \/ WriteRefused(e) \/ Clean(e) \/ Remove(e)

Next ==
  \/ \E e \in Executors :
       Start(e) \/ Fed(e) \/ ChildExits(e) \/ PipesClose(e) \/ ReaderFails(e)
       \/ Interrupted(e) \/ GoesOn(e) \/ Crash(e)
  \/ ChildWrites \/ OrphanEnds \/ Recover \/ Requeue
  \/ CreateJob \/ StorePrompt \/ RequestCancel \/ Cancel \/ CleanCancelled
  \/ DeleteRead \/ DeleteWorkspace \/ RemoveWorktree \/ DeleteRow \/ CommandDies

\* Timers and the event loop go on.  Of the child and of whoever holds its pipes
\* nothing is assumed.
Fairness ==
  /\ \A e \in Executors : SF_vars(GoesOn(e))
  /\ WF_vars(StorePrompt \/ CleanCancelled \/ DeleteWorkspace \/ RemoveWorktree \/ DeleteRow)

Spec == Init /\ [][Next]_vars /\ Fairness

-----------------------------------------------------------------------------
TypeOK ==
  /\ deployment \in Deployments
  /\ job \in Job
  /\ disk \in Disk
  /\ task \in [Executors -> Task]
  /\ operator \in {"idle", "storing", "cleaning", "clearing", "deleting", "forcing", "removed"}
  /\ orphans \in Nat
  /\ {abandoned, unrecorded, torn} \subseteq BOOLEAN

\* No cleanup and no deletion removes from a worktree what the processes of its
\* job did there, although git status and git worktree remove --force are two
\* commands: in one process that did not die, nothing of the job is at work
\* between the two.
UserChangesAreKept ==
  [][deployment = "one" /\ ~abandoned /\ job.kind = "git_worktree" /\ disk.changes
       => disk'.changes]_vars

\* A codex job that is not running has no process at work on it, and one that
\* is has one at most, unless a process died or was stopped twice, or, with
\* several processes, an event of the child could not be recorded.  (A job may
\* be deleted under its execution: see delete_job in JobExecution.)
ChildrenAreSupervised ==
  job.cli = "codex" /\ ~abandoned /\ (deployment = "one" \/ ~unrecorded) =>
    /\ orphans = 0
    /\ Cardinality({e \in Executors : task[e].child}) <= (IF job.status \in {"running", "deleted"} THEN 1 ELSE 0)

\* A child at work was given the real prompt, not its placeholder, and nobody
\* removes its workspace.
ChildrenAreEquipped ==
  deployment = "one" /\ ~torn =>
    \A e \in Executors : task[e].child => disk.workspace /\ task[e].prompt = "real"

\* A job that is to be executed again finds its workspace and its prompt, or
\* can make the workspace anew, if failed jobs keep theirs.
WaitingJobsCanRun ==
  deployment = "one" /\ ~MidSection /\ ~torn =>
    (job.status \in {"queued", "waiting_retry", "failed"} /\ job.policy # "on_completion"
      => Starts)

\* on_completion leaves nothing of a codex job that completed or failed, but
\* for a worktree with changes.
EndedWorkspacesAreRemoved ==
  deployment = "one" /\ ~MidSection /\ ~torn /\ ~abandoned /\ job.cli = "codex" =>
    (job.policy = "on_completion" /\ job.status \in {"completed", "failed"} /\ disk.workspace
      => job.kind = "git_worktree" /\ disk.changes)

\* An execution ends although its child never does; what it may wait for, for
\* ever, is a child of claude_code_cli that does not take its prompt and, with
\* both backends, a grandchild that keeps the pipes open.
CliExecutionsEnd ==
  \A e \in Executors :
    task[e].pc # "idle" ~> task[e].pc = "idle" \/ task[e].held \/ task[e].pc = "feeding"
=============================================================================
