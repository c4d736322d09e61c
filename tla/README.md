# A verification model of AI Telescreen (claude_orchestrator)

AI Telescreen runs coding jobs durably: jobs are rows of a SQLite table, worker
processes claim and execute them through one of several backends, a web server
and a command line act on the same rows, and everything is meant to survive
rate limits, crashes and restarts. This directory holds TLA+ modules translated
from `src/claude_orchestrator`, TLC configurations that check them on small
instances, and TLAPS proofs of their main properties. `PROJECT.json` lists, for
each definition, the source lines it stands for.

Running it: `tlc -config JobExecution_races.cfg MCJobExecution` (and likewise
for the other `.cfg` files), `tlapm JobExclusionProofs.tla`.

## 1. Inventory of the system

| Component | State | Operations | Interacts with |
|---|---|---|---|
| Job store: `repository.py`, `state_machine.py`, migrations | tables `jobs`, `job_runs`, `scheduler_events`, `message_batches`, `conversation_state`, `saved_projects`, ... | one SQLite transaction per `with db.connect()` block: create, claim, renew, update status, cancel, retry, delete, requeue, purge | everything; it is the only shared state between processes |
| Job execution: `services/orchestrator.py` | the copy of a job a task works with, its `LeaseHeartbeat` | `process_claimed_job`, `_persist_success/_failure/_interrupted`, `recover_stale_jobs`, `retry_due` | job store, backends, retry policy, project manager |
| Worker loop: `services/worker.py` | active tasks and their number per backend, the shutdown request, the wake-up event | start-up recovery, claim, drain, cancel, wake up | job execution, message batches, signals |
| Message batches: `backends/message_batches.py` and `submit_message_batch`, `poll_open_batches` | table `message_batches`, metadata of the member jobs | group, submit, poll, apply outcomes | worker loop, job store, the batch service |
| Retry policy: `retry.py` and the quota auto-resume of the orchestrator | none (an `rng`) | classify a failure, parse a header, compute a delay | job execution |
| Project manager: `services/project_manager.py` and the autonomy part of the orchestrator | the workflow state of a project; events, messages and feedback, with counts that stand for the older ones; saved guidance | ingest outcomes, launch the next task, continue, pause, compact | job store, job execution |
| Web control plane: `web/app.py` | background tasks of the server | Run Now, Retry Now, run-once, cancel, retry, delete, projects, templates | orchestrator |
| Command line: `cli.py` | none | the same commands from a process of their own | orchestrator |
| Workspaces: `workspaces.py` | directories, git worktrees, their markers, branches and private prompts | prepare, clean up by policy, delete | enqueue, command-line backends, outcomes, delete |
| Conversations: `backends/messages_api.py`, `agent_sdk.py`, `_followup_metadata` | the row of `conversation_state` (history, summary, checkpoint), follow-up keys in the job's metadata | `submit` or `continue_job`, `can_resume`, compaction | job execution, recovery, external services |
| Command-line backends: `codex_cli.py`, `claude_code_cli.py` | a child process, its pipes, the prompt it was given | start, feed, wait with a timeout, terminate, gather | job execution, workspaces |
| Support: `config.py`, `bootstrap.py`, `integrations.py`, `diagnostics.py`, `redaction.py`, `guardrails.py`, ... | none | pure functions and read-only I/O | all |

What is hard in this code, with the place of each in `PROJECT.json` under
"hazards":

* **Read, decide, write.** `update_job_status`, `manual_retry`, `request_cancel`
  and `delete_job` read a row in one transaction and write it in another, with
  `WHERE id = ?` only. Several processes do this at the same time.
* **Leases.** Exclusion rests on `claim_job` (a guarded UPDATE), on a heartbeat
  that renews the lease, and on a recovery that runs when a worker starts and
  takes what has expired.
* **Awaits.** Within one process everything interleaves at awaits; a task can be
  cancelled there, in its exception handler too.
* **Ends.** SIGTERM starts a drain with a deadline; a process may also crash, or
  end with an exception that nobody catches.
* **Two columns that must agree.** A waiting job without `next_retry_at` waits
  for ever, a queued one with a later `next_retry_at` is never listed.
* **Batches.** A batch outlives the worker that submitted it, its members can be
  cancelled, retried and requeued meanwhile, and one poll brings many outcomes
  that are applied one by one.

* **Two writes for one outcome.** The answer is saved before the row says so, the
  outcome before the workspace is cleaned, a row before its private prompt, older
  events are deleted before the counts that stand for them are written.
* **Children.** A child process outlives the task, and may outlive the process,
  that started it.

What makes each component correct:

* job store: statuses follow the transition table, a running row is always
  leased, attempts only grow;
* job execution: one executor per job, an outcome is written by the execution it
  belongs to, a lost lease records no result, every job ends or is recoverable;
* message batches: a job is completed only by an item that was reported and did not
  fail, its outcome is final for whoever could see it, records close;
* retry policy: delays within their bounds, no retry beyond `max_attempts`;
* worker loop: limits per backend and in all, counters that are true, no job that
  starves;
* conversations: a cut-off answer is continued, a finished one not asked for again,
  older turns are compacted and not lost;
* workspaces and children: no change in a worktree is removed, a child that works
  has its workspace and its real prompt, no child is left alone but in ways that are
  known, a workspace that policy ends is removed;
* project manager: at most one launched task per project, the limit on automatic
  tasks is kept, no task that the autonomy mode does not allow, no state that
  waits for an outcome which cannot come; a bounded memory in which every older
  outcome is counted once.

## 2. Modules

| Module | Models |
|---|---|
| `JobTable` | the `jobs` row, the transition table, and the effect of each UPDATE, INSERT and DELETE as an operator on a row. No variables. |
| `JobExecution` | any number of processes, executors and operators acting on the table, transaction by transaction. |
| `JobLifecycle` | the abstract job store: a status and a holder for each job, and the jobs that a recovery is going to end. |
| `MCJobExecution` | the deployment for TLC: a worker with two slots, the web server with one, a shell. |
| `JobExecutionProofs` | type correctness and the invariants that need no condition. |
| `JobExclusionProofs` | mutual exclusion of executions and the refinement of `JobLifecycle`, under their conditions. |
| `MessageBatches` | the jobs of the batch backend: the loop of one worker, its submission task, the batch records, an operator in another process and the service. |
| `MessageBatchesProofs` | types, finality of outcomes, and that completion is earned. |
| `ManagerAutonomy` | the Project Manager of one project: its memory, its recommendation, the workflow row, the tasks it launches, the operator and the page. |
| `MCManagerAutonomy` | how often the operator acts in each deployment, for TLC. |
| `ManagerAutonomyProofs` | types, that no task is launched which the mode does not allow, one task at a time, the limit on automatic tasks. |
| `ManagerMemory` | what the manager remembers: outcomes and feedback, their compaction into counts, saved guidance, in one or two processes. |
| `ManagerMemoryProofs` | types, that the newest rows are never deleted, that the counts stand for what was. |
| `RetryPolicy` | `retry.py` and the quota reset, as operators. No variables. |
| `WorkerLoop` | the scheduling of one worker: candidates and their order, limits, retries and their time; the web server as a second claimer. |
| `MCWorkerLoop` | jobs, priorities, limits, failures and headers for TLC. |
| `WorkerLoopProofs` | types, bounds of the delays, attempts, times of retries, limits. |
| `Conversation` | what a job remembers of its backend between two runs, and the choice between `submit` and `continue_job`. |
| `ConversationProofs` | its four invariants. |
| `Workspaces` | `workspaces.py` as operators on what there is on disk. No variables. |
| `CliJobs` | a job of a command-line backend from enqueue to deletion: workspace, private prompt, child process, two executors and the operator. |
| `CliJobsProofs` | types, user-visible changes, supervision and equipment of children, what is left of workspaces. |

Which uses which: `JobExecution` and `MessageBatches` write rows by the operators
of `JobTable`; `JobExecution` implements `JobLifecycle`; `WorkerLoop`,
`Conversation` and `CliJobs` extend `RetryPolicy`; `CliJobs` composes it with
`Workspaces`. Each of these looks at the same job from another side, and takes from
`JobExecution` what is proved there: `Conversation` and `CliJobs` have one
execution of a job at a time (`NoJobIsExecutedTwice`), and let the row change
between their own steps.

### JobExecution and the code

* `table` is the jobs table, with `status`, `attempt_count`, `cancel_requested`,
  `lease_owner`, `lease_expires_at`, `next_retry_at`. Time is abstracted to what
  statements compare it with: a lease is live or expired, a retry later or due.
* `process` is down, starting (recovering), up or draining. The web server and
  the shell are always up.
* `task[e]` is one execution of `process_claimed_job`; its `pc` names the
  transaction or await that comes next (see the comment at `Task`). `claim` is a
  history value: the attempt number its claim left in the row.
* `recovery[p]` is `recover_stale_jobs` with the list it read; `command[o]` is an
  operator's command between its read and its write.
* A process that is between two awaits excludes its own other actors
  (`MidSection`); actors of other processes act between any two transactions.
* `claim_job` commits and then reads the row again: `Claim`, `Load`.
  `_persist_success` re-reads the job, `update_job_status` reads and writes:
  `ReadLatest`, `CheckUpdate`, `WriteOutcome`. Exceptions take the paths they
  take in the code (`Raise`, `WriteRefused`), the await of `heartbeat.stop()` in
  the handler included (`HeartbeatStopped`, `Interrupt`).
* What a backend does is free: it returns any result or raises any error, and
  the retry policy's verdict is one of `FailureOutcomes`.

Left out: `job_runs`, `scheduler_events` and artifacts (written, never read by a
decision modelled here), texts and metadata, the order of claims among runnable
jobs (any order is allowed, which includes the code's), SQLite's busy errors,
and the launch of a managed job inside the handler of the previous one.

### MessageBatches and the code

* `loop` is where `run_forever` is: down, recovering, asleep, polling (each
  `poll_batch` is awaited), applying what a poll reported, draining after SIGTERM,
  ending after an exception. `todo` is the list of open records it has yet to poll,
  `report` the items it has yet to apply, `stale` what a recovery has yet to do.
* `submission` is the one task of `submit_message_batch` (the default
  concurrency of this backend is 1): the request is awaited, then the record and
  the members' rows are written without an await, or the rows of a cancelled task.
* `update` is the worker's `update_job_status`: it reads and checks the job in one
  transaction (`CheckUpdate`), and writes row and event in another (`WriteUpdate`),
  which the record of a run may follow (`NoteRun`). `command` is the operator's
  cancel, retry or delete, in two transactions as well; the operator is in another
  process and acts between any two steps. Both write the metadata they have read
  (`submitted`: is there an `upstream_batch_id`), so either can undo the other.
* `batches[b]` is a record of `message_batches`; its `outcome` field is a
  history of what polls have reported.
* An update that is refused, or finds its job deleted, leaves `poll_open_batches` and
  the loop, as the exception does: no handler is in between (`Refused`).
* The service is external. It may report items while the batch is in progress, end a
  batch with any of `FinalStatuses`, repeat outcomes if `OutcomesRepeat`, and fail at
  any request; only a batch that failed or expired ends with items unfinished. An
  item is of any of `ItemTypes`; the code takes for complete what has no error
  (`ItemFailed`), an expired or cancelled one included.
* There is one worker; a lease expires only while it is down, because nothing else
  looks at it. Batch submissions have no heartbeat in the code, so with two workers
  a slow request could be recovered by the second one; this is not modelled.

### ManagerAutonomy and the code

* `manager` is the workflow part of the row of `project_manager_state`:
  `workflow_state`, `active_job_id`, the session and `auto_tasks_run_count`.
  There is no process behind it: every handler refreshes the row
  (`_refresh_state`), decides, writes and refreshes again (`Updated`).
* `memory` is what `_build_response` tells apart of the events, messages and
  feedback it keeps: the latest outcome and whether the one before failed, the
  kind of the latest message and of the latest feedback, and which of the two is
  newer. `Response` and its three parts are the recommendation: a decision, whether
  there is a draft, whether a manual test is asked for. Of all decisions, those
  that neither launch nor ask for a test are one, `wait`. "mixed" feedback acts
  like "failed".
* `_progress_project_manager_autonomy` is a list of early returns. `Launches` is
  the conjunction of their negations, `Paused` the row each of them writes, in
  their order. The returns for low confidence and for the phase "blocked" are
  unreachable behind the test for a draft, because no answer has a draft and one
  of these: they are left out.
* Tasks are numbered by their launches. Queued, running and waiting for a retry
  are all "live" to the manager; what happens to a live task is
  `JobExecution`. `report[j]` is an outcome on its way from the end of the task to
  `_ingest_project_manager_outcome`; a crash loses it.
* `launch_job_from_project` may raise, before the manager's row is written.
* In the deployment "one" the web server runs the tasks as well (Run Now, the
  immediate start of the manager): its handlers contain no await, so each is one
  step. In "two" a worker process runs them, and a page view is three steps
  (`BeginView`, `ComputeView`, `EndView`): the read of the row, the reads that the
  workflow is computed from, and the second look at the active task with the
  write. Handlers that change the workflow are one step in both deployments.
* `chain` counts the launches that no operator made since the last message.
  `bypassed` records that the operator used a button which the page did not offer
  (a second click, an old page) or retried a task from the job page.

Left out: compaction and guidance, which are in `ManagerMemory` (the latest
events and feedback survive it: `NewestAreKept`), the text and the display, deletion
(as good as a cancel: the manager sees no live job).

### ManagerMemory and the code

* `events` and `feedback` are the rows of `project_manager_events` and
  `project_operator_feedback`, known by their number; `outcomes` and `given` say what
  was ever added. `row` is the part of `project_manager_states` about memory:
  `rolling_facts` (how many older outcomes completed and failed, how much older
  feedback there was, how much guidance was dropped) and `project_guidance`.
* A handler is a list of what it does (`Handlers`): a page view is one refresh, an
  outcome is refreshed for before and after, saving guidance refreshes twice, writes
  over the row and refreshes again. A refresh is six steps, one per transaction:
  read the row, list and delete older events, list and delete older feedback, write
  the row from the local variables.
* In "one" a handler is interrupted by a crash only; in "two" the steps of two
  handlers interleave.

Left out: messages (cut off without a count), the summary text, and the counts that
are sums or shares of the ones kept.

### RetryPolicy, WorkerLoop and the code

* Time is relative: a waiting job counts down to its `next_retry_at`, a `Tick` is a
  second. A delay with jitter is any of a set, since the `rng` may return anything.
* A header is what parsing makes of it; a failure is the class of its exception, the
  HTTP status and whether the body names its type. `LooksRateLimited` shows why:
  `_check_auto_resume_on_quota` searches for "429", which is in the code only if the
  service did not name the error, so it never applies to `rate_limit_error`.
* One iteration of `run_forever` is `Wake` (collect, requeue what is due), then
  `List` and `Claim` as long as there is a slot, then `Sleep`. Tasks of this worker
  go on while it sleeps, because nothing in between is awaited that would let them;
  the web server may claim between any two of these steps, the list and the claim
  included.
* `count` is `active_backends`, which the loop decides with; `active` and `done` are
  the tasks it stands for.
* `extra` counts the runs that ended in a follow-up or a quota reset, the two ways
  back to the queue that `max_attempts` does not bound.

Left out: leases, crashes and the drain (`JobExecution`), batches, the wake-up event
(the loop wakes at any time).

### Conversation and the code

* `state` is the row of `conversation_state`: the history, the messages the summary
  has a line for, `pending` (the answer was cut off), and whether there is a
  checkpoint. `job` has the row's status and the two metadata keys that matter,
  `followup_type` and `resume_hint`.
* `Start` is a claim with the choice `_should_continue` makes, and the request it
  builds. `Reply` is `save_conversation_state`, `Record` the rest of
  `_persist_success`; between the two the run may fail (an artifact cannot be
  written), and a process may die at any time. `lost` remembers that it did.
* Each other writer of the row drops or keeps the follow-up keys as its code does:
  a retry and `_persist_interrupted` drop them, the quota auto-resume keeps the
  type, a recovery asks `can_resume` and leaves a hint.

Left out: text, the threshold in characters and the limit of the summary.

### Workspaces, CliJobs and the code

* `disk` is what the functions of `workspaces.py` ask of a path: is there a
  workspace, with the application's marker, with changes that git reports and the
  application did not make, with the private prompt; and is there the branch of
  `worktree add -b`.
* `task[e]` is an execution with its child. Its `pc` names the await it is at:
  feeding the prompt, running, terminating, gathering the output, and, without an
  await, ended, cleaning or removing. `Interrupted` is a cancellation at one of these
  awaits, `orphans` the children that nobody waits for.
* codex_cli stores an event after it has started its child, before it terminates it,
  and for every line of output. Such an insert fails for a job that was deleted, and
  with a second process also because that holds the database (`EventRefused`): then
  the error leaves the child alone (`LeaveChild`), and `unrecorded` remembers it.
* A worktree is tested by `git status` (`Clean`, `CleanCancelled`, `DeleteWorkspace`)
  and removed by `git worktree remove --force` (`Remove`, `RemoveWorktree`): two
  commands without an await, between which a child may write, and with a second
  process everything else may happen. `AfterTest` and `AfterRemove` are the two halves
  of `cleanup_job_workspace` and `delete_job_workspace`.
* The operator's enqueue, cancel and delete are several steps, in the order of the
  code: row and then prompt, row and then workspace, workspace and then row.
* In "one" everything runs in one process and these sections are not interrupted but
  by a crash; in "two" the other executor may act in the middle (`Interleaves`).
* The child writes, exits with any result, or never does; a grandchild may hold its
  pipes, for ever. Who writes in a worktree is a process of the job: the user, or a
  process that detached itself from the child, is outside the model.

Left out: the event stream, output limits, command lines, several jobs (they share no
path), claude_code_cli with a worktree (it works in the job's directory anyway), git
commands that fail.

## 3. Runs

| Run | Question | Result |
|---|---|---|
| `races` | what holds with leases that lapse under live tasks, two recovering processes and every command racing | holds |
| `liveness` | is a job executed by one executor at a time, with leases honoured, cancel and delete racing; do the transactions implement `JobLifecycle`; do executions wait for ever nowhere but in a backend, do queued jobs settle if backends answer, do stale runs get recovered | holds |
| `cancel_lost` | is an accepted cancel honoured | violated |
| `batches` | is a job of a batch completed only by an item that was reported; is what became of it final although a batch answers late and an operator races; do records close | holds |
| `batches_rounds` | do two jobs settle although requests and polls fail and items are refused | holds |
| `autonomy` | does the manager launch one task at a time, within its limit and its mode, and notice every end | holds |
| `scheduling` | are limits, counters, attempts and delays kept; does every queued job of an enabled backend run, behind a list full of others and beside executions that hang | holds |
| `conversation` | are cut-off answers continued, finished ones left alone, and do rows agree with what is saved | holds |
| `compaction` | does a conversation keep its older turns, in the summary if not in the history | violated |
| `cli_jobs` | who looks after a child, what does it find, what does cleanup remove and leave, for what may an execution wait for ever | holds |
| `memory` | is the manager's memory bounded, its newest part intact and every older outcome counted once | holds |
| `memory_feedback` | is older feedback counted | violated |

**What the violations show.**

1. `cancel_lost`. Cancelling a running job sets a flag. If the run then ends in
   an error that is retried, in an interruption, or is recovered, the update
   clears the flag unread: the job runs again (README.md:380).
2. `compaction`. `_build_request_payload` cuts the history for the request and
   throws the summary of what it cut away; `_update_state` then saves the cut
   history. The turns in between are in neither (README.md:46). It happens as soon
   as a history that was saved at the threshold gets one more turn.
3. `memory_feedback`. `_merge_rolling_facts` returns a new dictionary of the keys
   about events, so the next compaction of outcomes drops the counts of feedback
   (README.md:292).

**Other disagreements met.** The passing runs state what the code does; these are
places where a document says more.

* *Duplicate execution by the retry command* (repository.py:1113). `manual_retry`
  tests the status it read and writes later without a test; between the two the job
  can be requeued and claimed, and a second executor claims it (README.md:364). Add
  `"retry"` to `Commands` of `JobExecution_liveness.cfg` and TLC shows it for
  `NoDuplicateExecution`.
* *A refused item takes the others along* (orchestrator.py:1783). A batch record is
  closed before its items are applied. Cancel one waiting member: the refusal of its
  item ends the poll and the worker, the finished results of the others are dropped
  and their jobs submitted again (README.md:50). This is why `BatchesClose` does not
  say that outcomes arrive, and what `QueuedJobsSettle` has to survive.
* *An expired or cancelled item completes its job* (message_batches.py:122-125,
  208-209): it is sorted among the completed ones because it has no error.
  `CompletedJobsWereReported` therefore says "reported and no failure", not "succeeded".
* *A batch that ends with a status the code does not know is polled for ever*
  (repository.py:1584; message_batches.py:98, 102): a record is closed by "completed",
  "failed" and "expired" only. When its job fell due in the meantime and is queued
  again, the repeated item is refused and ends each worker before it claims
  (README.md:50). Drop `UnknownEnd` from `QueuedJobsSettle` and TLC shows it.
* *A worktree with changes may be removed* (workspaces.py:207/210; README.md:107): a
  deletion has read the job, another process claims it, `git status` finds the worktree
  clean, the child writes, and `--force` removes what it wrote. A child that outlived its
  execution does the same in one process. Remove `deployment = "one"` or `~abandoned`
  from `UserChangesAreKept` and TLC shows it.
* *A cancelled codex run may leave its child alive* (codex_cli.py:318; README.md:596): the
  event of an interruption is stored before the child is terminated; when it is refused
  the child is not. Remove `(deployment = "one" \/ ~unrecorded)` from
  `ChildrenAreSupervised` and TLC shows the child.
* *A command overwrites an outcome* (repository.py:1047/1054, 1113/1120): an operator
  in another process who read the row before an item was applied puts a completed job
  back to cancelled or queued. `OutcomesAreFinal` names this race and allows no other.
* *An execution may never end* (claude_code_cli.py:206; codex_cli.py:315, 326, 329): the
  one waits for its child to take the prompt before the timeout is armed, the other for
  whoever holds the pipes, without a timeout. Its heartbeat goes on, its slot stays
  taken. `ExecutionsEnd` and `CliExecutionsEnd` name these waits.
* *A failed batch request strands its jobs* (orchestrator.py:1715; the comment at
  worker.py:132 says failures are persisted): the escape `Stranded`.
* *Manual tests do not always stop full autonomy* (orchestrator.py:1985). While the
  latest input of the operator is a message, an outcome that asks for a manual test
  launches the next task, up to the limit (README.md:228). `LaunchesAreAllowed`
  therefore says nothing of tests.
* *A passed test leaves partial mode blocked* (project_manager.py:1923): the stored
  state outlives its reason (orchestrator.py:847 says otherwise).
* *Auto-resume prefers the reset header to Retry-After* (orchestrator.py:2342;
  README.md:392 says Retry-After always wins), and never applies to a typed rate
  limit. `RetriesAreTimely` excludes the waits for a quota.
* *Not every 5xx is retried* (retry.py; README.md:387): 501 and 529 are final unless
  their text says otherwise. See `Unavailable`.
* *With a second process a child may work from the placeholder of a private prompt*
  (orchestrator.py:329), *or lose its workspace to a deletion that read the job before
  its claim or to the cleanup of the run before* (orchestrator.py:719, :2493). Remove
  `deployment = "one"` from `ChildrenAreEquipped` and TLC shows the first; for jobs
  without a private prompt it shows the deletion.
* *on_completion and Retry* (workspaces.py:313): a failed job whose workspace was
  removed cannot make its worktree again, because the branch is still there, and its
  private prompt is gone. Remove the policy from `WaitingJobsCanRun` to see it.

**Bounds.**

* One job is enough for the races on a row: every transaction touches one row,
  except the requeue and the lists, which treat rows alike. `batches_rounds` takes two
  jobs, for what passes from one row to the next: an item that takes the items after it
  along. That a recovery stops at the first refusal and skips the jobs after it, and that
  a job of a disabled backend is recovered as failed, is in the model and in the scope of
  the theorems (any `Jobs`, any `Disabled`) but in no run: a second job makes the runs of
  JobExecution too long.
* Two executors in two processes give every interleaving of two executions. The
  theorems cover any number of them.
* `MaxClaims` (2 or 3) is at least the number of claims a duplicate execution or
  an exhausted job (`MaxAttempts` = 2) needs. `MaxStops` = 1 allows a crash or a
  shutdown at every state; a second one would meet a table that only differs in
  what the theorems show not to matter.
* The batch runs divide what one instance cannot hold. `batches` has one job that is
  claimed twice, two records, every command and one crash or shutdown: the outcome of
  a first batch may come after that of the second. `batches_rounds` has two jobs that
  are claimed twice and two records, without an operator: rounds through refusals
  and failed requests. A third record is never made there, so a third submission ends
  as a request that fails, which strands its jobs. Two jobs with an operator are beyond
  TLC's time; the theorems `OutcomesStand` and `CompletionIsEarned` cover them, for any
  number of jobs, claims and records.
* `autonomy` takes a limit of two (the code has 10): the two tasks that a limit of
  two allows, one too many, and one after it. With `MaxTasks` = 4 the bound on the
  tasks is beyond the limit by two. The operator acts twice in "one" and once in
  "two", where more steps interleave: a message starts a chain and a second act
  (another message, feedback, a change of mode, continue, run) falls anywhere in
  it. A retry from the job page is allowed once.
* `scheduling`: three jobs, two of a backend that takes one at a time and one of
  another, two slots, so that either limit can be the one that binds. Before them ten
  jobs of a backend that is not enabled, as many as the list of a worker with two slots
  holds; nine are queued from the start and the tenth comes at any time. A base of 1 and
  a cap of 2 with a jitter of 200 % make every delay from the base to beyond the cap
  possible before it is capped; a Retry-After that has passed is shorter than any
  back-off. (One beyond the cap is left to the theorems.) That a service's
  error carries a header at all is not established here: messages_api.py:279 asks the
  error of the SDK for `headers`.
* `conversation`: six claims with a threshold of 4 and two messages kept: a history
  grows past the threshold, is compacted and grows again, with errors in between.
* `cli_jobs`: two runs of the job, processes die during the first. The second run
  meets what the first left on disk, and its children. Every combination of
  backend, kind of workspace, policy, privacy and deployment is an initial state.
* `memory`: one row retained of each kind and three inputs, so a compaction has
  something to delete after every second one, and two handlers can both hold it.
  `memory_feedback` needs a fourth input.
* Deadlock is not checked where the system may rest, with all jobs settled and all
  commands done; `memory` does check it.

**Fairness.** asyncio runs ready callbacks in order, so what the orchestrator does for
an execution goes on (SF for `Proceed`, since other actors of the process may hold it
up). A worker's loop comes round: SF for its claims and requeues. A worker that ended
is started again by its supervisor, and the clock advances (WF). Nothing is assumed of
backends: no timeout of the orchestrator ends their calls, and not all of them have one.
`ExecutionsEnd` holds whatever they do; `EnqueuedJobsSettle` has the condition
`BackendsAnswer` in its statement. Nothing is assumed of the operator, of Run Now, of
crashes, or of heartbeats either.

For batches the loop, the task and the updates go on when they can, workers are started
again and the clock advances (WF); requests of a batch are answered or fail, because
the client of this backend is built with a timeout (`_build_client`); and polls that go
on and on find the batch ended (SF), with whatever status.

For `scheduling` the loop goes round and seconds pass (WF). No execution is
assumed to end: `QueuedJobsAreExecuted` asks for a slot that is free again and again
(`SlotRecurs`). For `cli_jobs` timers fire and the event loop goes on (SF of what an
execution does without its child), and a command that has begun is finished (WF) unless
it dies; nothing is assumed of the child, nor of whoever holds its pipes.

For the manager, the page refreshes itself while it is open, and a process that
ended a task goes on to report it unless it stops: weak fairness of a page view
or a report. Launches and the operator are not assumed.

**LeasesMayLapse = FALSE** in `liveness` states
what the README says at line 595: heartbeats keep leases fresh, so long-running
jobs are not falsely recovered. It is wrong when a machine sleeps or the event
loop is blocked for longer than a lease; `races` shows what is left then.

**Escapes in the liveness properties.** `EnqueuedJobsSettle` and
`QueuedJobsSettle` allow a job to be orphaned (its row says running, nobody runs
it) because recovery only happens when a worker starts: a worker restarted
before the lease has expired, a submission that failed, or an exception that
escaped a handler leaves such a row until the next start. `StaleRunsAreRecovered`
says that this next start does recover it. They also allow a job to be queued with
`MaxClaims` claims behind it, the bound of the model (`AtBound`): every round up to the
last must end. `QueuedJobsSettle` and `BatchesClose` allow a batch that ended with a
status the code does not know (`UnknownEnd`), which is needed: see above.
`QueuedJobsAreExecuted` allows a list that stays full of jobs which may not be claimed
(`Crowded`), which happens.

**Conditions of the manager's properties.** `OneManagedTask` and
`BoundedAutonomy` are claimed for the deployment "one" while the operator keeps
to the offered buttons. Both conditions are needed. A second click on Run starts a
second task, because neither continue nor launch-draft tests for a running one. With
a worker process, a page view that read the row before a launch and writes it after
sets the count back. `EndedTasksAreNoticed` holds in both deployments for the active
task; only in "one" does it also say that a workflow shown as running has one, since
in "two" the two reads of the task's status may disagree. `NewestAreKept` is claimed
always; `OlderAreCounted` in "one", between handlers, when none of them died: rows are
deleted before the counts are written, and a second process writes the counts it
read before.

**Conditions of the other properties.** `FinishedAnswersStand` and
`RowsFollowTheDialogue` except turns whose record was `lost`: an answer that was saved
by a run that could not record it is asked for again, as `AnswersStand` proves in no
other case. `CutOffAnswersAreContinued` has no condition. `ChildrenAreSupervised` is
about codex only: claude_code_cli leaves its child alone when it is cancelled.
`abandoned` stands for a process that died or was stopped twice, `unrecorded` for an
event that was refused while a child lived, `torn` for an enqueue, cancel or deletion
that was cut short. In one process `unrecorded` needs no exception for
`ChildrenAreSupervised`: there a job cannot be deleted under its execution.
`UserChangesAreKept` is claimed in one process that did not die, where nothing of the job
is at work between test and removal. `CliExecutionsEnd`
names the two waits that nothing ends: for a child to take its prompt, and for a
grandchild to close the pipes.

## 4. Theorems

For every number of jobs, executors, operators and processes, any bounds, and
any assignment of executors to processes and worker ids; likewise for every value
of the constants of the other modules (limits, delays, headers, backends, thresholds,
policies, deployments, modes, numbers of batches, runs, tasks and inputs):

| Theorem | Says |
|---|---|
| `TypeCorrect` | `TypeOK` |
| `RetriesAreScheduled` | `WaitingIffScheduled` |
| `RunsAreLeased` | `RunningRowsAreLeased` |
| `UniqueClaims` | `ClaimsAreUnique` |
| `NoResultAfterALostLease` | `LostLeaseRecordsNoResult` |
| `NoJobIsExecutedTwice` | `NoDuplicateExecution`, under `LeasesHonoured` |
| `ExecutionsOwnTheirRows` | `ExecutionOwnsItsRow`, under `LeasesHonoured` |
| `RecoveryTakesNoLiveJob` | `NoFalseRecovery`, under `LeasesHonoured` |
| `JobStoreIsImplemented` | `ImplementsLifecycle`, under `LeasesHonoured` |
| `ManagerAutonomyProofs!TypesHold` | `TypeOK` |
| `OneTaskAtATime` | `OneManagedTask` |
| `AutonomyIsBounded` | `BoundedAutonomy` |
| `LaunchesFollowTheMode` | `LaunchesAreAllowed`, for both deployments and whatever the operator clicks |
| `MessageBatchesProofs!TypesHold` | `TypeOK` |
| `OutcomesStand` | `OutcomesAreFinal` |
| `CompletionIsEarned` | `CompletedJobsWereReported` |
| `WorkerLoopProofs!TypesHold` | `TypeOK`: no delay and no counter is negative |
| `DelaysAreBounded` | a delay is its Retry-After, or else between the capped exponential and the cap |
| `AttemptsArePaidFor` | `AttemptsAreAccountedFor` |
| `RetriesWaitTheirDelay` | `RetriesAreTimely` |
| `LimitsHold` | `ConcurrencyIsLimited` |
| `ConversationProofs!TypesHold` | `TypeOK` |
| `AnswersAreContinued` | `CutOffAnswersAreContinued` |
| `AnswersStand` | `FinishedAnswersStand` |
| `RowsAreTrue` | `RowsFollowTheDialogue` |
| `CliJobsProofs!TypesHold` | `TypeOK` |
| `ChangesAreKept` | `UserChangesAreKept`, in one process that did not die |
| `Supervision` | `ChildrenAreSupervised` |
| `Equipment` | `ChildrenAreEquipped` |
| `RetriesAreEquipped` | `WaitingJobsCanRun` |
| `EndedAreRemoved` | `EndedWorkspacesAreRemoved` |
| `ManagerMemoryProofs!TypesHold` | `TypeOK` |
| `NewestStay` | `NewestAreKept`, the first half of `MemoryIsKept` |
| `MemoryKept` | `MemoryIsKept` |

Assumptions: those named in the module of each (`ConstantsAssumption` and
`NoWorkerAssumption`, `ManagerAssumption`, `BatchAssumption`, `RetryAssumption`,
`WorkerAssumption`, `ConversationAssumption`, `CliAssumption`, `MemoryAssumption`),
and for the four so marked `LeasesHonoured`: leases do not lapse under live tasks, at
most one process recovers, the retry command is not used. Section 3 tells why the
last is needed; `races` runs without any of them.

The argument. *Typed* is `TypeOK` with what the prover needs to know of targets
that are pending: a command's recorded status, a task's outcome and a recovery's
target are among those the code can write. From it follow the two invariants on
rows, statement by statement (`NextRows`, `RowInvariantsNext`). Unique claims
need a strengthening: the claim an executor holds is at most the row's attempt
count, which never goes down while the row exists and of which a new claim takes
the successor (`AttemptsGrow`). For the lost lease the strengthening follows an
execution through its exception handler to what it writes (`LostLeaseGivesUp`).

Exclusion is not inductive by itself. `Exclusion` adds that an executed job's row
is running, or cancelled or deleted by an operator, never queued, so it cannot be
claimed; that while it runs the owner, the lease and the attempt are the
executor's, so no recovery lists it; and that what a recovery has listed is held
by nobody until it is written, since a listed row is running and only a claim
from queued would give it a new holder. Each step of `Next` either leaves the
held rows undisturbed (`HeldRows`) or is taken by their holder.

The refinement maps a job to its status, to the executor whose task has it, if any
(`Holder`; that this is one executor is `Exclusion`), and says whether a recovery has
listed it and not yet written it (`InRecovery`). What `Exclusion` says of executed and
listed rows is what the steps of `JobLifecycle` ask for; only the statuses a
recovery writes are added (`Promised`). An enqueue is a `Create`, a claim a `Start`, the
write of an outcome a `Finish`, the start of a recovery a `List`, its write a `Recover`,
requeue and purge are `Requeue` and `Forget`, a command that changes a status is an
`Interfere`, and every other step an `Abandon`, if somebody gives up a job, or a
stutter (`LifecycleStep`). That an operator may interfere with a run, and that its end
is written over a cancel, is part of what is promised: `cancel_lost` shows the same of
the code. A job that was cancelled when nobody had a hold of it stays so.

For the launches the invariant is only that memory, mode and reports keep their
types, because the launch is decided within one step. The proof follows each
trigger through `Progress` to `Launches` (`ProgressLaunches`), and connects two
failures in a row, one remembered and one just reported, to the flag that
`Exhausted` reads (`EventIsMemory`).

For one task at a time and the limit the invariant has three parts. Tasks are launched
in the order of their numbers (`Numbered`), and every count is a number of tasks
(`CountsAreTasks`), which gives the types. In one process with the offered buttons
(`Supervised`) the live task is the one the manager waits for, a report waits only when
no task is live, and automatic launches since the last message of the operator are fewer
than the count in the row, which a launch compares with the limit.

Batches. A row is completed by the worker's update alone, and otherwise goes on, is
deleted, or is written by a command (`RowSteps`). An update is begun for a job with the
status it expects and the target it will write, passes the check or ends (`UpdateSteps`).
`Knowledge` is what updates and commands know at their second transaction: an update
may go from the status it read to its target, so it read a final status only to write it
again; a job that it found cancelled has not been completed since, because nobody but
the worker completes jobs; and a command never read a final one. From this
`OutcomesStand` follows: who revises an outcome read the row before it. That completion
is earned needs to follow an item from the poll that brought it, over the report and
the check of the update, to the row (`ReportsAreTrue`), whose job may have been
cancelled, requeued or deleted on the way; what was reported stays reported
(`ItemsStand`).

Scheduling. `TypesHold` rests on two facts that are not about types. A power of two is
positive: the backends have no axiom for `^`, so `TwoTo` states the two equations of a
power, and what holds of 0 and is passed on from n to n + 1 holds of every number
because a set of numbers has a least element (`PassedOn`; the library's rule of
induction takes an operator, which no backend can instantiate). And no counter falls
below zero, because it counts the tasks on its backend (`CountsInv`).
`AttemptsArePaidFor` strengthens the bound by one for a job that may be
executed again (`Paid`): a retry is granted below `max_attempts` only, and the other
two ways back to the queue raise `extra`. `RetriesWaitTheirDelay` keeps that what is
left of a delay and what has passed of it add up to a delay of the policy
(`Scheduled`). `LimitsHold` needs that the candidates of a list still pass the test
they passed, which holds because one is claimed per list (`LoopInv`).

Conversations. The invariant `IInv` carries the four properties together and adds what
connects them: which of `submit` and `continue_job` an execution chose, that only
messages_api leaves an answer pending, that a result between its two transactions
agrees with what was saved, and that a run which is not lost has a row that tells the
truth (`OpenDialogues`).

Command-line jobs. `SuperInv` says that at most one executor is active, and only while
the row is running or deleted; that no child is alone unless a process died or was
stopped twice or, with two processes, an event was refused; and that in one process
whoever is active has a running row, so that its events are stored, and nobody is in the
middle of a cleanup or a deletion. `Supervision` is a part of it. `ChangesAreKept` adds
that in one process a worktree which git found clean has nobody to write in it, and
stays clean until it is removed (`ClearInv`). `Equipment` shows that in one
process no step which removes a workspace is taken while there is a child
(`EquipInv`). What is on disk between runs is `WorkspaceInv`, again for one process: a
run past its start has a workspace, a cleanup is about the outcome that is in the row, a
job whose prompt is not stored yet was not touched, and a codex job has its own
workspace or none; from these it follows that unless it is completed or cancelled a
job keeps what it was enqueued with (`UnfinishedAreIntact`, `RetriesAreEquipped`), and
that after the cleanup only changes keep a workspace (`OnlyChangesAreLeft`,
`EndedAreRemoved`).

Memory. Saved guidance runs through the loop of `_normalize_bullets` (`Normalized`): that
the loop keeps a list of texts and puts the first item first is proved item by item
(`Normalizing`), with the induction above. `NewestStay` needs that what a refresh is
about to delete was old when it was listed (`OnlyOldRowsGo`); rows only get older,
whoever adds or deletes meanwhile.

`MemoryKept` says what the row and the handler at work stand for
(`CountInv`, for one process that was never cut short): before a refresh has
deleted anything the row counts exactly the deleted outcomes; once the older ones are
chosen it is the local facts that count them, and the list is exactly what
will be deleted; until then the row is out of date, and no second handler is
there to see it.

Only model-checked: liveness (`EnqueuedJobsSettle`, `ExecutionsEnd`,
`StaleRunsAreRecovered`, `BatchesClose`, `QueuedJobsSettle`, `EndedTasksAreNoticed`,
`QueuedJobsAreExecuted`, `CliExecutionsEnd`), which takes fairness and ENABLED and is
out of the prover's reach. Every invariant and action property of the passing runs, and
the refinement, is stated by a theorem.

## 5. Plan

Done: every module listed in section 2.

Worth doing next, in this order:

1. `ManagerAutonomy` with handlers of two processes that interleave between their own
   refreshes, on top of the steps of `ManagerMemory`.
2. `MessageBatches` with a second worker: submissions have no heartbeat, so a slow
   request may be recovered by it; and Run Now of a single batch job.
3. Proofs of the safety parts of the liveness properties: which jobs can be orphaned,
   and by which steps.
4. The condition on priorities and backends under which no list of `WorkerLoop` stays
   crowded.

## 6. Not modelled

* Backends: the translation of requests, answers and events to and from SDKs and
  command lines, output limits, tool use. Runs see their results and errors, which
  are free.
* The text of the project manager (prompts, summaries, answers) and page rendering:
  presentation. Most of `web/app.py` and of `project_manager.py` is of this kind.
* Run Now of a single job of the batch backend: it submits a batch of one without a
  batch record, waits, and is submitted again when it falls due. `JobExecution` has
  it as a run that ends waiting.
* The second write of `try_start_manager_job_now`, and the execution of a managed job
  inside the handler of the previous one: `ManagerAutonomy` says what is launched,
  `JobExecution` how each is executed.
* Idempotency keys (the unique index decides), `job_runs`, `scheduler_events` and
  stream events: written for display, read by no decision.
* Changes that the user, or a process detached from the child, makes in a worktree.
* Configuration, bootstrap, integrations, diagnostics, redaction, guardrails:
  pure functions or read-only I/O without a state to check.
* Migrations: they run once, before anything else.
