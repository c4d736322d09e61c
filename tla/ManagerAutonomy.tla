-------------------------- MODULE ManagerAutonomy --------------------------
(***************************************************************************)
(* The Project Manager of one saved project: what it recommends, the tasks *)
(* it launches with and without the operator, and when it pauses.          *)
(*                                                                         *)
(* The manager has no process of its own.  It is a row that is read,       *)
(* refreshed and written by whoever handles an event: the process that     *)
(* runs the tasks when one ends, the web server when the operator acts or  *)
(* a page is shown.  In the deployment "one" the web server also runs the  *)
(* tasks: its handlers do not await, so each is a step.  In "two" a worker *)
(* process runs them: a task may have ended and not been reported yet, and *)
(* what it reports comes between the read and the write of a page view.    *)
(* A handler that changes the workflow state is one step in both.          *)
(*                                                                         *)
(* The wording of messages and prompts is left out; an operator message, a *)
(* feedback entry and an outcome are what the manager tells apart of them. *)
(***************************************************************************)
EXTENDS Naturals, FiniteSets

CONSTANTS
  MaxTasks,     \* bound on the tasks the manager launches
  Limit,        \* PROJECT_MANAGER_FULL_AUTONOMY_LIMIT
  Modes,        \* the autonomy modes the operator uses
  Deployments,  \* a subset of {"one", "two"}
  MaxActs       \* bound on what the operator does in each deployment

ASSUME ManagerAssumption ==
  /\ MaxTasks \in Nat
  /\ Limit \in Nat \ {0}
  /\ Modes \subseteq {"minimal", "partial", "full"}
  /\ Deployments \subseteq {"one", "two"}
  /\ MaxActs \in [Deployments -> Nat]

\* Tasks are numbered in the order of their launches.
Jobs  == 1 .. MaxTasks
NoJob == 0

VARIABLES
  deployment,
  mode,      \* autonomy_mode of the saved project
  jobs,      \* the rows of the tasks
  report,    \* outcomes that the process that ran the task has yet to ingest
  memory,    \* what the manager remembers: outcomes, messages and feedback
  manager,   \* the workflow part of the project_manager_state row
  view,      \* a page view: where it is, and the row it read
  acts,      \* acts of the operator so far
  chain,     \* history: tasks launched by outcomes since the last message
  bypassed   \* history: has the operator gone round the buttons of the page?

vars == <<deployment, mode, jobs, report, memory, manager, view, acts, chain,
          bypassed>>

Outcomes == {"failed", "misconfigured", "manual", "followup", "clean"}
Failures == {"failed", "misconfigured"}

\* "queued", "running" and "waiting_retry" are all "live" to the manager.
JobStatus == {"unborn", "live", "completed", "failed", "cancelled"}
Triggers  == {"none", "message", "continue", "outcome", "operator_confirmed"}

NoSession == 0
Sessions  == 0 .. MaxTasks

Job == [status : JobStatus, session : Sessions, trigger : Triggers]

UnbornJob == [status |-> "unborn", session |-> NoSession, trigger |-> "none"]

\* A clear message names a kind of work; an urgent one only says that it is.
Asks == {"clear", "urgent"}
Feedbacks == [outcome : {"passed", "blocked", "failed"}, followup : BOOLEAN]
NoFeedback == [outcome |-> "none", followup |-> FALSE]

\* Decisions look at the latest outcome, and whether the one before failed.
Memory == [latest : Outcomes \cup {"none"}, failedBefore : BOOLEAN,
           ask : Asks \cup {"none"}, feedback : Feedbacks \cup {NoFeedback},
           newest : {"none", "ask", "feedback"}]

Workflows == {"idle", "running_current_task", "awaiting_continue_decision",
              "awaiting_confirmation", "blocked_on_manual_test"}

Manager == [workflow : Workflows, active : Jobs \cup {NoJob},
            session : Sessions, count : 0 .. MaxTasks]

NewManager == [workflow |-> "idle", active |-> NoJob, session |-> NoSession,
               count |-> 0]

NoView == [pc |-> "none", row |-> NewManager]

TypeOK ==
  /\ deployment \in Deployments
  /\ mode \in Modes
  /\ jobs \in [Jobs -> Job]
  /\ report \in [Jobs -> Outcomes \cup {"none"}]
  /\ memory \in Memory
  /\ manager \in Manager
  /\ view \in [pc : {"none", "read", "computed"}, row : Manager]
  /\ acts \in 0 .. MaxActs[deployment]
  /\ chain \in 0 .. MaxTasks
  /\ bypassed \in BOOLEAN

Init ==
  /\ deployment \in Deployments
  /\ mode \in Modes
  /\ jobs = [j \in Jobs |-> UnbornJob]
  /\ report = [j \in Jobs |-> "none"]
  /\ memory = [latest |-> "none", failedBefore |-> FALSE, ask |-> "none",
               feedback |-> NoFeedback, newest |-> "none"]
  /\ manager = NewManager
  /\ view = NoView
  /\ acts = 0
  /\ chain = 0
  /\ bypassed = FALSE

-----------------------------------------------------------------------------
\* What the manager recommends.  A low confidence and the phase "blocked" come
\* only without a draft, and are not told apart from "wait".

Advice(decision, draft, manual) ==
  [decision |-> decision, draft |-> draft, manual |-> manual]

Wait     == Advice("wait", FALSE, FALSE)
Followup == Advice("launch_followup_job", TRUE, FALSE)

\* Wants says that a decision is in favour of launching a task.
Wants(advice) == advice.decision = "launch_followup_job" /\ advice.draft

BaselineResponse(mem) ==
  CASE mem.latest = "none" /\ mem.feedback.followup ->
         Advice("launch_followup_job", FALSE, FALSE)
    [] mem.latest \in {"failed", "followup"} -> Followup
    [] mem.latest = "manual" -> Advice("request_manual_test", FALSE, TRUE)
    [] OTHER -> Wait

MessageResponse(mem) ==
  LET baseline == BaselineResponse(mem)
  IN IF mem.ask = "urgent" /\ ~baseline.draft
        /\ baseline.decision # "launch_followup_job"
     THEN Wait
     ELSE [Followup EXCEPT !.manual = baseline.manual]

FeedbackResponse(mem) ==
  IF \/ mem.feedback.outcome = "passed" /\ ~mem.feedback.followup
     \/ mem.feedback.outcome = "blocked"
  THEN Wait
  ELSE [Followup EXCEPT !.manual = mem.feedback.followup \/ BaselineResponse(mem).manual]

\* The latest input of the operator decides which answer it is.
Response(mem) ==
  CASE mem.newest = "feedback" -> FeedbackResponse(mem)
    [] mem.newest = "ask"      -> MessageResponse(mem)
    [] mem.newest = "none"     -> BaselineResponse(mem)

-----------------------------------------------------------------------------
\* _refresh_state rewrites the row whenever anybody looks at it.

Live(rows, j) == j # NoJob /\ rows[j].status = "live"

\* Full autonomy pauses only for a decision that asks for the test.
PausesForTest(md, advice) ==
  advice.manual /\ ~(md = "full" /\ advice.decision # "request_manual_test")

\* The first read of the active task's row.
RefreshedWorkflow(md, mem, rows, row) ==
  LET advice == Response(mem)
      kept   == IF row.active # NoJob /\ row.workflow = "running_current_task"
                THEN "idle" ELSE row.workflow
  IN IF Live(rows, row.active) THEN "running_current_task"
     ELSE IF PausesForTest(md, advice) THEN "blocked_on_manual_test"
     ELSE IF md # "minimal" THEN kept
     ELSE IF Wants(advice) THEN "awaiting_confirmation" ELSE "idle"

\* Mutant: a task that ended stays the active one.
UncheckedRow(rows, row, workflow) == [row EXCEPT !.workflow = workflow]

\* The second read of it, which decides whether it is still the active task.
RefreshedRow(rows, row, workflow) ==
  [row EXCEPT !.workflow = workflow,
              !.active = IF Live(rows, @) /\ workflow = "running_current_task"
                         THEN @ ELSE NoJob]

Refreshed(md, mem, rows, row) ==
  RefreshedRow(rows, row, RefreshedWorkflow(md, mem, rows, row))

\* update_workflow_state writes a new workflow and refreshes it at once.
Updated(mem, rows, workflow, active, session, count) ==
  Refreshed(mode, mem, rows, [workflow |-> workflow, active |-> active,
                              session |-> session, count |-> count])

-----------------------------------------------------------------------------
\* _progress_project_manager_autonomy.

\* Mutant: a message may launch a task while another runs.
ImpatientWaits(trigger, row) ==
  /\ trigger = "message"
  /\ row.workflow \in {"awaiting_continue_decision", "blocked_on_manual_test"}

\* The manager is already waiting for something, a message changes nothing.
Waits(trigger, row) ==
  /\ trigger = "message"
  /\ \/ row.workflow = "running_current_task" /\ row.active # NoJob
     \/ row.workflow \in {"awaiting_continue_decision", "blocked_on_manual_test"}

\* Mutant: a message launches in partial mode too.
MinimalNeedsApproval(trigger) == mode = "minimal"

NeedsApproval(trigger) ==
  mode = "minimal" \/ (mode = "partial" /\ trigger = "message")

FailsRepeatedly(mem) == mem.latest \in Failures /\ mem.failedBefore

\* Mutant: the tasks of a session are not limited.
FailsOnly(mem, row) == mode = "full" /\ FailsRepeatedly(mem)

Exhausted(mem, row) ==
  mode = "full" /\ (FailsRepeatedly(mem) \/ row.count >= Limit)

Launches(mem, row, trigger) ==
  /\ ~Waits(trigger, row)
  /\ ~PausesForTest(mode, Response(mem))
  /\ Wants(Response(mem))
  /\ ~NeedsApproval(trigger)
  /\ ~Exhausted(mem, row)

\* The row when no task is launched, by the first reason that applies.
Paused(mem, row, trigger, session) ==
  LET To(workflow) == Updated(mem, jobs, workflow, NoJob, session, row.count)
  IN IF Waits(trigger, row) THEN row
     ELSE IF PausesForTest(mode, Response(mem)) THEN To("blocked_on_manual_test")
     ELSE IF ~Wants(Response(mem)) THEN To("idle")
     ELSE IF NeedsApproval(trigger)
     THEN Updated(mem, jobs, "awaiting_confirmation", NoJob, NoSession, 0)
     ELSE To("awaiting_confirmation")

\* Every session has a task, so this one is new.
FreshSession == 1 + Cardinality({jobs[j].session : j \in Jobs} \ {NoSession})

SessionOr(session) == IF session = NoSession THEN FreshSession ELSE session

NextTask == 1 + Cardinality({j \in Jobs : jobs[j].status # "unborn"})

\* launch_job_from_project inserts the row of the task, and the manager goes to
\* it.  It may raise instead (a disabled backend, a broken workspace): the row
\* of the manager stays as it was last written.
Launch(mem, row, trigger, session, count) ==
  \/ LET j    == NextTask
         rows == [jobs EXCEPT ![j] = [status |-> "live", session |-> session,
                                      trigger |-> trigger]]
     IN /\ j \in Jobs
        /\ jobs' = rows
        /\ manager' = Updated(mem, rows, "running_current_task", j, session, count)
  \/ jobs' = jobs /\ manager' = row

Progress(mem, row, trigger, given) ==
  LET session == IF given = NoSession THEN row.session ELSE given
  IN IF ~Launches(mem, row, trigger)
     THEN jobs' = jobs /\ manager' = Paused(mem, row, trigger, session)
     ELSE IF trigger = "message" THEN Launch(mem, row, trigger, FreshSession, 1)
     ELSE Launch(mem, row, trigger, SessionOr(session), row.count + 1)

-----------------------------------------------------------------------------
\* The tasks.

\* In "one" nothing comes between the end of a task and its report.
Idle == deployment = "one" => \A j \in Jobs : report[j] = "none"

EndTask(j, outcome) ==
  /\ Idle /\ Live(jobs, j)
  /\ jobs' = [jobs EXCEPT ![j].status =
                IF outcome \in Failures THEN "failed" ELSE "completed"]
  /\ report' = [report EXCEPT ![j] = outcome]
  /\ UNCHANGED <<deployment, mode, memory, manager, view, acts, chain, bypassed>>

\* A cancelled task is not reported.  A deleted one is as good as cancelled.
CancelTask(j) ==
  /\ Idle /\ Live(jobs, j)
  /\ jobs' = [jobs EXCEPT ![j].status = "cancelled"]
  /\ UNCHANGED <<deployment, mode, report, memory, manager, view, acts, chain, bypassed>>

\* The process stops between the end of a task and its report.
LoseReport(j) ==
  /\ report[j] # "none"
  /\ report' = [report EXCEPT ![j] = "none"]
  /\ UNCHANGED <<deployment, mode, jobs, memory, manager, view, acts, chain, bypassed>>

\* Mutant: the status of the job is remembered, not its outcome.
WithStatus(outcome) ==
  [memory EXCEPT !.latest = "completed", !.failedBefore = memory.latest \in Failures]

WithEvent(outcome) ==
  [memory EXCEPT !.latest = outcome, !.failedBefore = memory.latest \in Failures]

\* What follows an outcome, by the autonomy mode.
Continue(j, mem) ==
  LET row     == Refreshed(mode, mem, jobs, manager)
      session == IF jobs[j].session # NoSession THEN jobs[j].session ELSE row.session
      After(workflow) == Updated(mem, jobs, workflow, NoJob, session,
                                 IF row.count = 0 THEN 1 ELSE row.count)
  IN \/ mode = "minimal" /\ jobs' = jobs /\ manager' = row
     \/ /\ mode = "partial"
        /\ jobs' = jobs
        /\ manager' = After(IF Response(mem).manual THEN "blocked_on_manual_test"
                            ELSE "awaiting_continue_decision")
     \/ mode = "full" /\ Progress(mem, After("idle"), "outcome", session)

\* _ingest_project_manager_outcome.  The job is read again: when it was retried
\* meanwhile there is no outcome to remember.
Ingest(j) ==
  /\ report[j] # "none"
  /\ report' = [report EXCEPT ![j] = "none"]
  /\ IF jobs[j].status \in {"completed", "failed"}
     THEN /\ memory' = WithEvent(report[j])
          /\ Continue(j, memory')
     ELSE UNCHANGED <<jobs, memory, manager>>
  /\ chain' = chain + Cardinality({i \in Jobs : jobs'[i] # jobs[i]})
  /\ UNCHANGED <<deployment, mode, view, acts, bypassed>>

\* A job of the project that the manager did not launch ends.
OtherJobEnds(outcome) ==
  /\ Idle /\ acts < MaxActs[deployment]
  /\ acts' = acts + 1
  /\ memory' = WithEvent(outcome)
  /\ manager' = Refreshed(mode, memory', jobs, manager)
  /\ UNCHANGED <<deployment, mode, jobs, report, view, chain, bypassed>>

-----------------------------------------------------------------------------
\* The operator.

Act == Idle /\ acts < MaxActs[deployment] /\ acts' = acts + 1

SendMessage(ask) ==
  /\ Act
  /\ memory' = [memory EXCEPT !.ask = ask, !.newest = "ask"]
  /\ Progress(memory', Refreshed(mode, memory', jobs, manager), "message", NoSession)
  /\ chain' = 0
  /\ UNCHANGED <<deployment, mode, report, view, bypassed>>

GiveFeedback(feedback) ==
  /\ Act
  /\ memory' = [memory EXCEPT !.feedback = feedback, !.newest = "feedback"]
  /\ manager' = Refreshed(mode, memory', jobs, manager)
  /\ UNCHANGED <<deployment, mode, jobs, report, view, chain, bypassed>>

SetMode(md) ==
  /\ Act
  /\ mode' = md
  /\ manager' = Refreshed(md, memory, jobs, manager)
  /\ UNCHANGED <<deployment, jobs, report, memory, view, chain, bypassed>>

\* The page shows its buttons by the workflow state; a request may come from a
\* page that is out of date, or from a second click.
PressContinue ==
  LET row == Refreshed(mode, memory, jobs, manager)
  IN /\ Act
     /\ Wants(Response(memory))
     /\ Progress(memory, row, "continue", NoSession)
     /\ bypassed' = (bypassed \/ row.workflow # "awaiting_continue_decision")
     /\ UNCHANGED <<deployment, mode, report, memory, view, chain>>

PressRun ==
  LET row == Refreshed(mode, memory, jobs, manager)
  IN /\ Act
     /\ Response(memory).draft
     /\ Launch(memory, row, "operator_confirmed", SessionOr(row.session), row.count + 1)
     /\ bypassed' = (bypassed \/ row.workflow \notin {"idle", "awaiting_confirmation"})
     /\ UNCHANGED <<deployment, mode, report, memory, view, chain>>

\* The job page retries a task without the manager.  Bound: the first way round
\* the manager only.
RetryTask(j) ==
  /\ Idle /\ ~bypassed
  /\ jobs[j].status = "failed"
  /\ jobs' = [jobs EXCEPT ![j].status = "live"]
  /\ bypassed' = TRUE
  /\ UNCHANGED <<deployment, mode, report, memory, manager, view, acts, chain>>

-----------------------------------------------------------------------------
\* A page view refreshes the state.

ViewInOne ==
  /\ deployment = "one" /\ Idle
  /\ manager' = Refreshed(mode, memory, jobs, manager)
  /\ UNCHANGED <<deployment, mode, jobs, report, memory, view, acts, chain, bypassed>>

BeginView ==
  /\ deployment = "two" /\ view.pc = "none"
  /\ view' = [pc |-> "read", row |-> manager]
  /\ UNCHANGED <<deployment, mode, jobs, report, memory, manager, acts, chain, bypassed>>

ComputeView ==
  /\ view.pc = "read"
  /\ view' = [pc |-> "computed",
              row |-> [view.row EXCEPT !.workflow =
                         RefreshedWorkflow(mode, memory, jobs, view.row)]]
  /\ UNCHANGED <<deployment, mode, jobs, report, memory, manager, acts, chain, bypassed>>

EndView ==
  /\ view.pc = "computed"
  /\ manager' = RefreshedRow(jobs, view.row, view.row.workflow)
  /\ view' = NoView
  /\ UNCHANGED <<deployment, mode, jobs, report, memory, acts, chain, bypassed>>

-----------------------------------------------------------------------------
Operator ==
  \/ \E ask \in Asks : SendMessage(ask)
  \/ \E feedback \in Feedbacks : GiveFeedback(feedback)
  \/ \E md \in Modes : SetMode(md)
  \/ PressContinue
  \/ PressRun
  \/ \E j \in Jobs : RetryTask(j)

View == ViewInOne \/ BeginView \/ ComputeView \/ EndView

Next ==
  \/ Operator
  \/ View
  \/ \E j \in Jobs : CancelTask(j) \/ LoseReport(j) \/ Ingest(j)
  \/ \E j \in Jobs, outcome \in Outcomes : EndTask(j, outcome)
  \/ \E outcome \in Outcomes : OtherJobEnds(outcome)

Spec == Init /\ [][Next]_vars

\* The page refreshes itself while it is open, and a process that ended a task
\* goes on to report it.
Fairness == WF_vars(View \/ \E j \in Jobs : Ingest(j))

FairSpec == Spec /\ Fairness

-----------------------------------------------------------------------------
\* Properties.

LiveTasks == {j \in Jobs : jobs[j].status = "live"}

\* When one process runs everything and the operator keeps to the buttons the
\* page offers, the manager supervises one task at a time: a task that is live
\* is the one it waits for.
OneManagedTask ==
  deployment = "one" /\ ~bypassed =>
    Cardinality(LiveTasks) <= 1 /\ LiveTasks \subseteq {manager.active}

\* Autonomy stays bounded: after the last message of the operator outcomes
\* launch fewer tasks than the limit, whatever the tasks return.
BoundedAutonomy == deployment = "one" /\ ~bypassed => chain < Limit

Launched(j) == jobs[j].status = "unborn" /\ jobs'[j].status # "unborn"

\* No task starts that the mode does not allow: in minimal mode only what the
\* operator confirmed, in partial mode only what the operator confirmed or
\* continued, and in full mode nothing on its own after two failures.
LaunchesAreAllowed ==
  [][\A j \in Jobs : Launched(j) =>
       /\ jobs'[j].trigger = "message" => mode = "full"
       /\ jobs'[j].trigger = "continue" => mode \in {"partial", "full"}
       /\ jobs'[j].trigger = "outcome" =>
            /\ mode = "full"
            /\ ~(memory.latest \in Failures /\ memory'.latest \in Failures)]_vars

\* The manager names a task that has ended, or, where no view can be outrun by
\* a report, shows a running task without one.
WaitsInVain ==
  /\ ~Live(jobs, manager.active)
  /\ \/ manager.active # NoJob
     \/ deployment = "one" /\ manager.workflow = "running_current_task"

\* The end of a task is noticed, even when the task is cancelled, its report is
\* lost or a page view that began before writes what it read.
EndedTasksAreNoticed == WaitsInVain ~> ~WaitsInVain
=============================================================================
