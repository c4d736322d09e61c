----------------------- MODULE ManagerAutonomyProofs -----------------------
(***************************************************************************)
(* What ManagerAutonomy launches, for every limit, every set of modes and  *)
(* deployments, and any number of tasks and operator acts.                 *)
(***************************************************************************)
EXTENDS ManagerAutonomy, FiniteSetTheorems, TLAPS

\* What the launches depend on of the types.
IInv ==
  /\ mode \in Modes
  /\ jobs = [j \in Jobs |-> jobs[j]]
  /\ report \in [Jobs -> Outcomes \cup {"none"}]
  /\ memory \in Memory

\* A task that Launch starts has the trigger it is given.
LEMMA LaunchTrigger ==
  ASSUME IInv,
         NEW mem, NEW row, NEW trigger, NEW session, NEW count,
         Launch(mem, row, trigger, session, count),
         NEW i \in Jobs, Launched(i)
  PROVE  jobs'[i].trigger = trigger
BY DEF IInv, Launch, Launched

\* A launch leaves the tasks a function of their numbers.
LEMMA LaunchKeepsRows ==
  ASSUME IInv,
         NEW mem, NEW row, NEW trigger, NEW session, NEW count,
         Launch(mem, row, trigger, session, count)
  PROVE  jobs' = [j \in Jobs |-> jobs'[j]]
BY DEF IInv, Launch

\* Progress launches only when nothing holds it back.
LEMMA ProgressLaunches ==
  ASSUME IInv,
         NEW mem, NEW row, NEW trigger, NEW given,
         Progress(mem, row, trigger, given),
         NEW i \in Jobs, Launched(i)
  PROVE  jobs'[i].trigger = trigger /\ Launches(mem, row, trigger)
<1>1. Launches(mem, row, trigger)
  BY DEF Progress, Launched
<1>2. \E session, count : Launch(mem, row, trigger, session, count)
  <2>1. CASE trigger = "message"
    BY <1>1, <2>1 DEF Progress
  <2>2. CASE trigger # "message"
    BY <1>1, <2>2 DEF Progress
  <2> QED BY <2>1, <2>2
<1> QED BY <1>1, <1>2, LaunchTrigger

\* So does a decision of the manager.
LEMMA ProgressKeepsRows ==
  ASSUME IInv,
         NEW mem, NEW row, NEW trigger, NEW given,
         Progress(mem, row, trigger, given)
  PROVE  jobs' = [j \in Jobs |-> jobs'[j]]
<1>1. CASE jobs' = jobs
  BY <1>1 DEF IInv
<1>2. CASE \E session, count : Launch(mem, row, trigger, session, count)
  BY <1>2, LaunchKeepsRows
<1>3. jobs' = jobs \/ \E session, count : Launch(mem, row, trigger, session, count)
  <2>1. CASE trigger = "message"
    BY <2>1 DEF Progress
  <2>2. CASE trigger # "message"
    BY <2>2 DEF Progress
  <2> QED BY <2>1, <2>2
<1> QED BY <1>1, <1>2, <1>3

\* The events remember an outcome and whether the one before it failed.
LEMMA EventIsMemory ==
  ASSUME IInv, NEW outcome \in Outcomes
  PROVE  /\ WithEvent(outcome) \in Memory
         /\ WithEvent(outcome).latest = outcome
         /\ memory.latest \in Failures => WithEvent(outcome).failedBefore
<1> DEFINE failed == memory.latest \in Failures
<1>1. failed \in BOOLEAN
  OBVIOUS
<1>2. WithEvent(outcome) = [memory EXCEPT !.latest = outcome, !.failedBefore = failed]
  BY DEF WithEvent
<1>3. memory \in Memory
  BY DEF IInv
<1> HIDE DEF failed
<1>4. WithEvent(outcome) \in Memory
  BY <1>1, <1>2, <1>3 DEF Memory
<1>5. WithEvent(outcome).latest = outcome /\ WithEvent(outcome).failedBefore = failed
  BY <1>2, <1>3 DEF Memory
<1>6. memory.latest \in Failures => failed
  BY DEF failed
<1> QED BY <1>4, <1>5, <1>6

\* A new project remembers nothing.
LEMMA InitInvariant == Init => IInv
BY DEF Init, IInv, Memory, UnbornJob, NoFeedback

\* One case per action.
LEMMA NextInvariant == IInv /\ [Next]_vars => IInv'
<1> SUFFICES ASSUME IInv, [Next]_vars PROVE IInv'
  OBVIOUS
<1>1. ASSUME NEW ask \in Asks, SendMessage(ask) PROVE IInv'
  <2>1. jobs' = [j \in Jobs |-> jobs'[j]]
    BY <1>1, ProgressKeepsRows DEF SendMessage
  <2> QED BY <1>1, <2>1 DEF SendMessage, IInv, Memory
<1>2. ASSUME NEW feedback \in Feedbacks, GiveFeedback(feedback) PROVE IInv'
  BY <1>2 DEF GiveFeedback, IInv, Memory
<1>3. ASSUME NEW md \in Modes, SetMode(md) PROVE IInv'
  BY <1>3 DEF SetMode, IInv
<1>4. CASE PressContinue
  <2>1. jobs' = [j \in Jobs |-> jobs'[j]]
    BY <1>4, ProgressKeepsRows DEF PressContinue
  <2> QED BY <1>4, <2>1 DEF PressContinue, IInv
<1>5. CASE PressRun
  <2>1. jobs' = [j \in Jobs |-> jobs'[j]]
    BY <1>5, LaunchKeepsRows DEF PressRun
  <2> QED BY <1>5, <2>1 DEF PressRun, IInv
<1>6. ASSUME NEW j \in Jobs, RetryTask(j) PROVE IInv'
  BY <1>6 DEF RetryTask, IInv
<1>7. CASE View
  BY <1>7 DEF View, ViewInOne, BeginView, ComputeView, EndView, IInv
<1>8. ASSUME NEW j \in Jobs, CancelTask(j) PROVE IInv'
  BY <1>8 DEF CancelTask, IInv
<1>9. ASSUME NEW j \in Jobs, LoseReport(j) PROVE IInv'
  BY <1>9 DEF LoseReport, IInv
<1>10. ASSUME NEW j \in Jobs, Ingest(j) PROVE IInv'
  <2>1. mode' \in Modes /\ report' \in [Jobs -> Outcomes \cup {"none"}]
    BY <1>10 DEF Ingest, IInv
  <2>2. CASE jobs[j].status \in {"completed", "failed"}
    <3>1. memory' \in Memory
      <4>1. report[j] \in Outcomes
        BY <1>10 DEF Ingest, IInv
      <4> QED BY <1>10, <2>2, <4>1, EventIsMemory DEF Ingest
    <3>2. jobs' = [i \in Jobs |-> jobs'[i]]
      <4>1. Continue(j, memory')
        BY <1>10, <2>2 DEF Ingest
      <4>2. CASE jobs' = jobs
        BY <4>2 DEF IInv
      <4>3. CASE \E row, session : Progress(memory', row, "outcome", session)
        BY <4>3, ProgressKeepsRows
      <4> QED BY <4>1, <4>2, <4>3 DEF Continue
    <3> QED BY <2>1, <3>1, <3>2 DEF IInv
  <2>3. CASE jobs[j].status \notin {"completed", "failed"}
    BY <1>10, <2>1, <2>3 DEF Ingest, IInv
  <2> QED BY <2>2, <2>3
<1>11. ASSUME NEW j \in Jobs, NEW outcome \in Outcomes, EndTask(j, outcome) PROVE IInv'
  BY <1>11 DEF EndTask, IInv
<1>12. ASSUME NEW outcome \in Outcomes, OtherJobEnds(outcome) PROVE IInv'
  BY <1>12, EventIsMemory DEF OtherJobEnds, IInv
<1>13. CASE UNCHANGED vars
  BY <1>13 DEF vars, IInv
<1> QED BY <1>1, <1>2, <1>3, <1>4, <1>5, <1>6, <1>7, <1>8, <1>9, <1>10, <1>11, <1>12,
           <1>13 DEF Next, Operator

-----------------------------------------------------------------------------
\* What a step may launch.
Allowed(j) ==
  /\ jobs'[j].trigger = "message" => mode = "full"
  /\ jobs'[j].trigger = "continue" => mode \in {"partial", "full"}
  /\ jobs'[j].trigger = "outcome" =>
       /\ mode = "full"
       /\ ~(memory.latest \in Failures /\ memory'.latest \in Failures)

\* The modes are the three of the code.
LEMMA ModeIsKnown == IInv => mode \in {"minimal", "partial", "full"}
BY ManagerAssumption DEF IInv

\* Every launch comes from a decision that its mode allows.
LEMMA StepAllowed ==
  ASSUME IInv, [Next]_vars, NEW i \in Jobs, Launched(i)
  PROVE  Allowed(i)
<1>1. ASSUME NEW ask \in Asks, SendMessage(ask) PROVE Allowed(i)
  <2>1. /\ jobs'[i].trigger = "message"
        /\ Launches(memory', Refreshed(mode, memory', jobs, manager), "message")
    BY <1>1, ProgressLaunches DEF SendMessage
  <2> QED BY <2>1, ModeIsKnown DEF Launches, NeedsApproval, Allowed
<1>2. CASE PressContinue
  <2>1. /\ jobs'[i].trigger = "continue"
        /\ Launches(memory, Refreshed(mode, memory, jobs, manager), "continue")
    BY <1>2, ProgressLaunches DEF PressContinue
  <2> QED BY <2>1, ModeIsKnown DEF Launches, NeedsApproval, Allowed
<1>3. CASE PressRun
  <2>1. jobs'[i].trigger = "operator_confirmed"
    BY <1>3, LaunchTrigger DEF PressRun
  <2> QED BY <2>1 DEF Allowed
<1>4. ASSUME NEW j \in Jobs, Ingest(j) PROVE Allowed(i)
  <2>1. jobs[j].status \in {"completed", "failed"} /\ mode = "full"
    BY <1>4 DEF Ingest, Continue, Launched
  <2>2. report[j] \in Outcomes
    BY <1>4 DEF Ingest, IInv
  <2>3. memory' = WithEvent(report[j])
    BY <1>4, <2>1 DEF Ingest
  <2>4. PICK row, session : Progress(memory', row, "outcome", session)
    BY <1>4, <2>1 DEF Ingest, Continue
  <2>5. jobs'[i].trigger = "outcome" /\ Launches(memory', row, "outcome")
    BY <2>4, ProgressLaunches
  <2>6. ~(memory'.latest \in Failures /\ memory'.failedBefore)
    BY <2>1, <2>5 DEF Launches, Exhausted, FailsRepeatedly
  <2>7. memory.latest \in Failures => memory'.failedBefore
    BY <2>2, <2>3, EventIsMemory
  <2> QED BY <2>1, <2>5, <2>6, <2>7 DEF Allowed
<1>5. ASSUME NEW j \in Jobs, NEW outcome \in Outcomes, EndTask(j, outcome) PROVE FALSE
  BY <1>5 DEF EndTask, Live, Launched, IInv
<1>6. ASSUME NEW j \in Jobs, CancelTask(j) PROVE FALSE
  BY <1>6 DEF CancelTask, Live, Launched, IInv
<1>7. ASSUME NEW j \in Jobs, RetryTask(j) PROVE FALSE
  BY <1>7 DEF RetryTask, Launched, IInv
<1>8. CASE jobs' = jobs
  BY <1>8 DEF Launched
<1> QED
  BY <1>1, <1>2, <1>3, <1>4, <1>5, <1>6, <1>7, <1>8
  DEF Next, Operator, View, GiveFeedback, SetMode, LoseReport, OtherJobEnds, ViewInOne,
      BeginView, ComputeView, EndView, vars

\* Whatever the interleaving of page views, reports and the operator, no task
\* starts that the autonomy mode does not allow.
THEOREM LaunchesFollowTheMode == Spec => LaunchesAreAllowed
<1>1. IInv /\ [Next]_vars =>
        [\A j \in Jobs : Launched(j) =>
           /\ jobs'[j].trigger = "message" => mode = "full"
           /\ jobs'[j].trigger = "continue" => mode \in {"partial", "full"}
           /\ jobs'[j].trigger = "outcome" =>
                /\ mode = "full"
                /\ ~(memory.latest \in Failures /\ memory'.latest \in Failures)]_vars
  BY StepAllowed DEF Allowed
<1> QED BY <1>1, InitInvariant, NextInvariant, PTL DEF Spec, LaunchesAreAllowed

-----------------------------------------------------------------------------
\* The strengthening of TypeOK, OneManagedTask and BoundedAutonomy.

Born == {j \in Jobs : jobs[j].status # "unborn"}

\* Tasks are launched in the order of their numbers, and until then have no
\* session.
Numbered ==
  /\ Cardinality(Born) \in 0 .. MaxTasks
  /\ Born = 1 .. Cardinality(Born)
  /\ \A j \in Jobs \ Born : jobs[j].session = NoSession

\* Whatever is counted is a task that was launched, also in the copy that a page
\* view writes back.
CountsAreTasks ==
  /\ manager.count <= Cardinality(Born)
  /\ view.row.count <= Cardinality(Born)
  /\ chain <= Cardinality(Born)

\* One process, and only the offered buttons: the row of the manager says which
\* task is live, a report waits only when none is, and each launch by an outcome
\* raised the count that the limit is compared with.
Supervised ==
  /\ deployment = "one" => view = NoView
  /\ deployment = "one" /\ ~bypassed =>
       /\ \A j \in Jobs : jobs[j].status = "live" =>
            manager.active = j /\ manager.workflow = "running_current_task"
       /\ \A i, j \in Jobs : report[j] # "none" => jobs[i].status # "live"
       /\ \A i, j \in Jobs : report[i] # "none" /\ report[j] # "none" => i = j
       /\ chain = 0 \/ chain < manager.count
       /\ chain < Limit

Inv == TypeOK /\ Numbered /\ CountsAreTasks /\ Supervised

\* Nothing is launched, live or counted in a new project.
LEMMA InvInit == Init => Inv
<1> SUFFICES ASSUME Init PROVE Inv
  OBVIOUS
<1>0. MaxTasks \in Nat /\ Limit \in Nat \ {0} /\ MaxActs \in [Deployments -> Nat]
  BY ManagerAssumption
<1>1. NewManager \in Manager
  BY <1>0 DEF NewManager, Manager, Workflows, Sessions, NoSession, NoJob
<1>2. TypeOK
  <2>1. UnbornJob \in Job
    BY <1>0 DEF UnbornJob, Job, JobStatus, Triggers, Sessions, NoSession
  <2>2. memory \in Memory
    BY DEF Init, Memory, NoFeedback
  <2>3. view \in [pc : {"none", "read", "computed"}, row : Manager]
    BY <1>1 DEF Init, NoView
  <2>4. acts \in 0 .. MaxActs[deployment] /\ chain \in 0 .. MaxTasks
    BY <1>0 DEF Init
  <2> QED
    BY <1>1, <2>1, <2>2, <2>3, <2>4 DEF Init, TypeOK
<1>3. Born = {}
  BY DEF Init, Born, UnbornJob
<1>4. Cardinality(Born) = 0
  BY <1>3, FS_EmptySet
<1>5. Numbered
  BY <1>0, <1>3, <1>4 DEF Numbered, Init, UnbornJob
<1>6. CountsAreTasks
  BY <1>4 DEF CountsAreTasks, Init, NewManager, NoView
<1>7. Supervised
  BY <1>0 DEF Supervised, Init, UnbornJob
<1> QED
  BY <1>2, <1>5, <1>6, <1>7 DEF Inv

-----------------------------------------------------------------------------
\* The row of the manager, with no bound on its counts: a launch that finds no
\* task left in the model never takes place.
ManagerRow == [workflow : Workflows, active : Jobs \cup {NoJob}, session : Nat, count : Nat]

\* The bounded rows are rows.
LEMMA RowType == Manager \subseteq ManagerRow
BY ManagerAssumption DEF Manager, ManagerRow, Sessions

\* The bounds are what keeps a row in its type.
LEMMA BoundedRow ==
  ASSUME NEW row \in ManagerRow, row.session <= MaxTasks, row.count <= MaxTasks
  PROVE  row \in Manager
BY ManagerAssumption DEF Manager, ManagerRow, Sessions

\* A refresh knows the workflow states of the code, and shows a live task.
LEMMA WorkflowType ==
  ASSUME NEW md, NEW mem, NEW rows, NEW row \in ManagerRow
  PROVE  /\ RefreshedWorkflow(md, mem, rows, row) \in Workflows
         /\ Live(rows, row.active) =>
              RefreshedWorkflow(md, mem, rows, row) = "running_current_task"
BY DEF RefreshedWorkflow, Workflows, ManagerRow

\* A refresh keeps session and count, keeps the active task while it is live
\* and drops it otherwise.
LEMMA RefreshShape ==
  ASSUME NEW md, NEW mem, NEW rows, NEW row \in ManagerRow, NEW new,
         new = Refreshed(md, mem, rows, row)
  PROVE  /\ new \in ManagerRow
         /\ new.session = row.session /\ new.count = row.count
         /\ Live(rows, row.active) =>
              new.active = row.active /\ new.workflow = "running_current_task"
         /\ ~Live(rows, row.active) => new.active = NoJob
<1> DEFINE workflow == RefreshedWorkflow(md, mem, rows, row)
<1>1. /\ workflow \in Workflows
      /\ Live(rows, row.active) => workflow = "running_current_task"
  BY WorkflowType
<1>2. new = RefreshedRow(rows, row, workflow)
  BY DEF Refreshed
<1> HIDE DEF workflow
<1> QED
  BY <1>1, <1>2 DEF RefreshedRow, ManagerRow

\* Writing a new workflow state does to the row what is written, and refreshes.
LEMMA UpdatedShape ==
  ASSUME NEW mem, NEW rows, NEW workflow \in Workflows, NEW active \in Jobs \cup {NoJob},
         NEW session \in Nat, NEW count \in Nat, NEW new,
         new = Updated(mem, rows, workflow, active, session, count)
  PROVE  /\ new \in ManagerRow
         /\ new.session = session /\ new.count = count
         /\ Live(rows, active) =>
              new.active = active /\ new.workflow = "running_current_task"
<1> DEFINE row == [workflow |-> workflow, active |-> active, session |-> session,
                   count |-> count]
<1>1. row \in ManagerRow /\ row.session = session /\ row.count = count /\ row.active = active
  BY DEF ManagerRow
<1>2. new = Refreshed(mode, mem, rows, row)
  BY DEF Updated
<1> HIDE DEF row
<1> QED
  BY <1>1, <1>2, RefreshShape

-----------------------------------------------------------------------------
\* Counting tasks and sessions.

\* The next number is the least that was not given yet.
LEMMA NextIsUnborn ==
  ASSUME Numbered
  PROVE  NextTask = 1 + Cardinality(Born) /\ NextTask \notin Born
<1>1. NextTask = 1 + Cardinality(Born)
  BY DEF NextTask, Born
<1>2. Cardinality(Born) \in Nat
  BY ManagerAssumption DEF Numbered
<1> QED
  BY <1>1, <1>2 DEF Numbered

\* There are no more sessions than tasks.
LEMMA FreshSessionBound ==
  ASSUME TypeOK, Numbered
  PROVE  FreshSession \in Nat /\ 1 <= FreshSession /\ FreshSession <= 1 + Cardinality(Born)
<1> DEFINE S == {jobs[j].session : j \in Born}
           U == {jobs[j].session : j \in Jobs} \ {NoSession}
           f == [j \in Born |-> jobs[j].session]
<1>1. IsFiniteSet(Born) /\ Cardinality(Born) \in Nat
  BY ManagerAssumption, FS_Interval DEF Numbered
<1>2. f \in Surjection(Born, S)
  BY DEF Surjection
<1>3. IsFiniteSet(S) /\ Cardinality(S) <= Cardinality(Born)
  BY <1>1, <1>2, FS_Surjection
<1>4. U \in SUBSET S
  BY DEF Numbered
<1>5. Cardinality(U) \in Nat /\ Cardinality(S) \in Nat /\ Cardinality(U) <= Cardinality(S)
  BY <1>3, <1>4, FS_Subset, FS_CardinalityType
<1>6. FreshSession = 1 + Cardinality(U)
  BY DEF FreshSession
<1> HIDE DEF S, U
<1> QED
  BY <1>1, <1>3, <1>5, <1>6

\* The task j is the next one, and is live from now on.
Started(j, job) ==
  /\ j = NextTask /\ j \in Jobs
  /\ job \in Job /\ job.status = "live"
  /\ jobs' = [jobs EXCEPT ![j] = job]

\* A task that is started is one more task, and no other changes.
LEMMA StartedTask ==
  ASSUME TypeOK, Numbered, NEW j, NEW job, Started(j, job)
  PROVE  /\ jobs' \in [Jobs -> Job]
         /\ Numbered'
         /\ Cardinality(Born)' = Cardinality(Born) + 1
         /\ Cardinality({i \in Jobs : jobs'[i] # jobs[i]}) = 1
         /\ \A i \in Jobs : jobs'[i].status = "live" => i = j \/ jobs[i].status = "live"
<1>0. jobs \in [Jobs -> Job] /\ Cardinality(Born) \in Nat /\ MaxTasks \in Nat
  BY ManagerAssumption DEF TypeOK, Numbered
<1>1. /\ j = 1 + Cardinality(Born) /\ j \notin Born /\ j \in Jobs /\ jobs[j].status = "unborn"
      /\ job \in Job /\ job.status = "live" /\ jobs' = [jobs EXCEPT ![j] = job]
  BY NextIsUnborn DEF Started, Born
<1>2. jobs' \in [Jobs -> Job]
  BY <1>0, <1>1
<1>3. Born' = Born \cup {j}
  BY <1>0, <1>1 DEF Born
<1>4. IsFiniteSet(Born)
  BY <1>0, FS_Interval DEF Numbered
<1>5. Cardinality(Born)' = Cardinality(Born) + 1
  <2>1. Cardinality(Born \cup {j}) = Cardinality(Born) + 1
    BY <1>1, <1>4, FS_AddElement
  <2> QED
    BY <1>3, <2>1
<1>6. Numbered'
  <2>1. Born' = 1 .. (Cardinality(Born) + 1)
    BY <1>0, <1>1, <1>3 DEF Numbered
  <2>2. Cardinality(Born)' \in 0 .. MaxTasks
    BY <1>0, <1>1, <1>5 DEF Jobs
  <2>3. \A i \in Jobs \ Born' : jobs'[i].session = NoSession
    BY <1>0, <1>1, <1>3 DEF Numbered
  <2> QED
    BY <1>5, <2>1, <2>2, <2>3 DEF Numbered
<1>7. Cardinality({i \in Jobs : jobs'[i] # jobs[i]}) = 1
  <2>1. {i \in Jobs : jobs'[i] # jobs[i]} = {j}
    BY <1>0, <1>1
  <2> QED
    BY <2>1, FS_Singleton
<1> QED
  BY <1>0, <1>1, <1>2, <1>5, <1>6, <1>7

\* The manager waits for the task j, which was started by this step.
Supervises(j) ==
  /\ \E job : Started(j, job)
  /\ manager' \in Manager
  /\ manager'.active = j /\ manager'.workflow = "running_current_task"

\* launch_job_from_project launches and supervises a task, or raises.
LEMMA LaunchStep ==
  ASSUME TypeOK, Numbered,
         NEW mem, NEW row, NEW trigger \in Triggers, NEW session \in Nat, NEW count \in Nat,
         session <= MaxTasks \/ session <= 1 + Cardinality(Born),
         count <= 1 + Cardinality(Born),
         Launch(mem, row, trigger, session, count)
  PROVE  \/ UNCHANGED jobs /\ manager' = row
         \/ \E j : Supervises(j) /\ manager'.count = count
<1> DEFINE j    == NextTask
           job  == [status |-> "live", session |-> session, trigger |-> trigger]
           rows == [jobs EXCEPT ![j] = job]
<1>0. MaxTasks \in Nat /\ jobs \in [Jobs -> Job]
  BY ManagerAssumption DEF TypeOK
<1> SUFFICES ASSUME ~(UNCHANGED jobs /\ manager' = row)
             PROVE  Supervises(j) /\ manager'.count = count
  OBVIOUS
<1>1. /\ j \in Jobs /\ jobs' = rows
      /\ manager' = Updated(mem, rows, "running_current_task", j, session, count)
  BY DEF Launch
<1>2. j = 1 + Cardinality(Born) /\ j <= MaxTasks /\ j # NoJob
  BY <1>0, <1>1, NextIsUnborn DEF Jobs, NoJob
<1>3. session <= MaxTasks /\ count <= MaxTasks
  BY <1>0, <1>2 DEF Numbered
<1>4. job \in Job /\ job.status = "live"
  BY <1>0, <1>3 DEF Job, JobStatus, Sessions
<1>5. Live(rows, j)
  BY <1>0, <1>1, <1>2, <1>4 DEF Live
<1>6. Started(j, job)
  BY <1>1, <1>4 DEF Started
<1> HIDE DEF j, job, rows
<1>7. "running_current_task" \in Workflows
  BY DEF Workflows
<1>8. /\ manager' \in ManagerRow /\ manager'.session = session /\ manager'.count = count
      /\ manager'.active = j /\ manager'.workflow = "running_current_task"
  BY <1>1, <1>5, <1>7, UpdatedShape
<1>9. manager' \in Manager
  BY <1>3, <1>8, BoundedRow
<1> QED
  BY <1>6, <1>8, <1>9 DEF Supervises

\* A row that is written without a launch, unless the manager waits.
LEMMA PausedShape ==
  ASSUME TypeOK, NEW mem, NEW row \in Manager, NEW trigger, NEW session \in Sessions,
         NEW new, new = Paused(mem, row, trigger, session)
  PROVE  /\ new \in Manager
         /\ new.count = row.count \/ (NeedsApproval(trigger) /\ new.count = 0)
         /\ Waits(trigger, row) => new = row
<1> DEFINE To(workflow) == Updated(mem, jobs, workflow, NoJob, session, row.count)
<1>0. /\ MaxTasks \in Nat /\ session \in Nat /\ session <= MaxTasks
      /\ row.count \in Nat /\ row.count <= MaxTasks
  BY ManagerAssumption DEF Sessions, Manager
<1>1. ASSUME NEW workflow \in Workflows, new = To(workflow)
      PROVE  new \in Manager /\ new.count = row.count
  <2>1. new \in ManagerRow /\ new.session = session /\ new.count = row.count
    BY <1>0, <1>1, UpdatedShape
  <2> QED
    BY <1>0, <2>1, BoundedRow
<1>2. ASSUME new = Updated(mem, jobs, "awaiting_confirmation", NoJob, NoSession, 0)
      PROVE  new \in Manager /\ new.count = 0
  <2>1. "awaiting_confirmation" \in Workflows /\ NoSession \in Nat /\ NoSession <= MaxTasks
    BY <1>0 DEF Workflows, NoSession
  <2>2. new \in ManagerRow /\ new.session = NoSession /\ new.count = 0
    BY <1>2, <2>1, UpdatedShape
  <2> QED
    BY <1>0, <2>1, <2>2, BoundedRow
<1>3. CASE Waits(trigger, row)
  BY <1>3 DEF Paused
<1>4. CASE ~Waits(trigger, row)
  <2>1. {"blocked_on_manual_test", "idle", "awaiting_confirmation"} \subseteq Workflows
    BY DEF Workflows
  <2>2. \/ \E workflow \in Workflows : new = To(workflow)
        \/ /\ NeedsApproval(trigger)
           /\ new = Updated(mem, jobs, "awaiting_confirmation", NoJob, NoSession, 0)
    BY <1>4, <2>1 DEF Paused
  <2> HIDE DEF To
  <2> QED
    BY <1>1, <1>2, <1>4, <2>2
<1> QED
  BY <1>3, <1>4

\* What a decision of the manager comes to.
LEMMA ProgressStep ==
  ASSUME TypeOK, Numbered,
         NEW mem, NEW row \in Manager, row.count <= Cardinality(Born),
         NEW trigger \in Triggers, NEW given \in Sessions,
         Progress(mem, row, trigger, given)
  PROVE  \/ /\ UNCHANGED jobs
            /\ manager' \in Manager
            /\ manager'.count = row.count \/ (NeedsApproval(trigger) /\ manager'.count = 0)
            /\ Waits(trigger, row) => manager' = row
         \/ /\ Launches(mem, row, trigger)
            /\ \E j : Supervises(j)
            /\ manager'.count = IF trigger = "message" THEN 1 ELSE row.count + 1
<1> DEFINE session == IF given = NoSession THEN row.session ELSE given
<1>0. /\ MaxTasks \in Nat /\ Cardinality(Born) \in Nat
      /\ row.count \in Nat /\ session \in Sessions /\ Sessions \subseteq Nat
      /\ \A s \in Sessions : s <= MaxTasks
  BY ManagerAssumption DEF Numbered, Manager, Sessions
<1>1. FreshSession \in Nat /\ FreshSession <= 1 + Cardinality(Born)
  BY FreshSessionBound
<1>2. SessionOr(session) \in Nat
      /\ (SessionOr(session) <= MaxTasks \/ SessionOr(session) <= 1 + Cardinality(Born))
  BY <1>0, <1>1 DEF SessionOr
<1>3. CASE ~Launches(mem, row, trigger)
  <2>1. UNCHANGED jobs /\ manager' = Paused(mem, row, trigger, session)
    BY <1>3 DEF Progress
  <2> HIDE DEF session
  <2> QED
    BY <1>0, <2>1, PausedShape
<1>4. CASE Launches(mem, row, trigger) /\ trigger = "message"
  <2>1. Launch(mem, row, trigger, FreshSession, 1)
    BY <1>4 DEF Progress
  <2>2. \/ UNCHANGED jobs /\ manager' = row
        \/ \E j : Supervises(j) /\ manager'.count = 1
    BY <1>0, <1>1, <2>1, LaunchStep
  <2> QED
    BY <1>4, <2>2 DEF Launches
<1>5. CASE Launches(mem, row, trigger) /\ trigger # "message"
  <2>1. Launch(mem, row, trigger, SessionOr(session), row.count + 1)
    BY <1>5 DEF Progress
  <2> HIDE DEF session
  <2>2. \/ UNCHANGED jobs /\ manager' = row
        \/ \E j : Supervises(j) /\ manager'.count = row.count + 1
    BY <1>0, <1>2, <2>1, LaunchStep
  <2> QED
    BY <1>5, <2>2 DEF Launches
<1> QED
  BY <1>3, <1>4, <1>5

\* A refresh of a row of the manager keeps its type and its count.
LEMMA RefreshedManager ==
  ASSUME NEW md, NEW mem, NEW rows, NEW row \in Manager, NEW new,
         new = Refreshed(md, mem, rows, row)
  PROVE  /\ new \in Manager /\ new.count = row.count
         /\ Live(rows, row.active) =>
              new.active = row.active /\ new.workflow = "running_current_task"
<1>1. row \in ManagerRow /\ row.session <= MaxTasks /\ row.count <= MaxTasks
  BY RowType, ManagerAssumption DEF Manager, Sessions
<1>2. /\ new \in ManagerRow
      /\ new.session = row.session /\ new.count = row.count
      /\ Live(rows, row.active) =>
           new.active = row.active /\ new.workflow = "running_current_task"
  BY <1>1, RefreshShape
<1> QED
  BY <1>1, <1>2, BoundedRow

\* Half of the rules of the page: the workflow state is "awaiting a continue
\* decision" only outside minimal mode, and never while the active task is live.
LEMMA ContinueIsOffered ==
  ASSUME NEW mem, NEW rows, NEW row, NEW md,
         RefreshedWorkflow(md, mem, rows, row) = "awaiting_continue_decision"
  PROVE  md # "minimal" /\ ~Live(rows, row.active)
BY DEF RefreshedWorkflow

-----------------------------------------------------------------------------
\* The invariant is inductive.  Its conjuncts about tasks and counts survive a
\* step that launches a task, changes the status of one, or leaves them alone.

Counted ==
  /\ manager'.count <= Cardinality(Born)'
  /\ view'.row.count <= Cardinality(Born)'
  /\ chain' <= Cardinality(Born)'

\* Where no task changes, their numbers do not.
LEMMA SameTasks ==
  ASSUME Numbered, UNCHANGED jobs
  PROVE  Numbered' /\ Cardinality(Born)' = Cardinality(Born)
BY DEF Numbered, Born

\* A task that ends, is cancelled or retried was launched before.
LEMMA SameBorn ==
  ASSUME TypeOK, Numbered, NEW j \in Born, NEW s \in JobStatus \ {"unborn"},
         jobs' = [jobs EXCEPT ![j].status = s]
  PROVE  /\ Numbered' /\ Cardinality(Born)' = Cardinality(Born)
         /\ jobs' \in [Jobs -> Job]
         /\ \A i \in Jobs : jobs'[i].status = IF i = j THEN s ELSE jobs[i].status
<1>0. jobs \in [Jobs -> Job] /\ j \in Jobs
  BY DEF TypeOK, Born
<1>1. jobs' \in [Jobs -> Job]
  BY <1>0 DEF Job
<1>2. \A i \in Jobs : /\ jobs'[i].status = IF i = j THEN s ELSE jobs[i].status
                      /\ jobs'[i].session = jobs[i].session
  BY <1>0 DEF Job
<1>3. Born' = Born
  BY <1>0, <1>2 DEF Born
<1> QED
  BY <1>1, <1>2, <1>3 DEF Numbered

\* The manager's row after a step of a handler that launches nothing.
LEMMA QuietHandler ==
  ASSUME Inv, UNCHANGED <<deployment, jobs, report, view, chain, bypassed>>,
         mode' \in Modes, memory' \in Memory, acts' \in 0 .. MaxActs[deployment],
         NEW md, NEW mem, manager' = Refreshed(md, mem, jobs, manager)
  PROVE  Inv'
<1>0. manager \in Manager
  BY DEF Inv, TypeOK
<1>1. /\ manager' \in Manager /\ manager'.count = manager.count
      /\ Live(jobs, manager.active) =>
           manager'.active = manager.active /\ manager'.workflow = "running_current_task"
  BY <1>0, RefreshedManager
<1>2. TypeOK'
  BY <1>1 DEF Inv, TypeOK
<1>3. Numbered' /\ CountsAreTasks'
  BY <1>1, SameTasks DEF Inv, CountsAreTasks
<1>4. Supervised'
  <2>1. ASSUME NEW j \in Jobs, jobs[j].status = "live", deployment = "one", ~bypassed
        PROVE  manager'.active = j /\ manager'.workflow = "running_current_task"
    BY <1>1, <2>1, ManagerAssumption DEF Inv, Supervised, Live, Jobs, NoJob
  <2> QED
    BY <1>1, <2>1 DEF Inv, Supervised
<1> QED
  BY <1>2, <1>3, <1>4 DEF Inv

\* Conditions under which the manager may launch: nothing is live, no report
\* waits.
Resting == \A j \in Jobs : jobs[j].status # "live" /\ report'[j] = "none"

\* The supervision of a task that a handler launches, or does not.
LEMMA SupervisedHandler ==
  ASSUME Inv, UNCHANGED <<deployment, view>>, deployment = "one" /\ ~bypassed' => ~bypassed,
         report' \in [Jobs -> Outcomes \cup {"none"}],
         deployment = "one" /\ ~bypassed' =>
           /\ Resting
           /\ UNCHANGED jobs \/ \E j : Supervises(j)
           /\ chain' = 0 \/ chain' < manager'.count
           /\ chain' < Limit
  PROVE  Supervised'
<1>1. CASE deployment = "one" /\ ~bypassed' /\ UNCHANGED jobs
  BY <1>1 DEF Inv, Supervised, Resting
<1>2. ASSUME NEW j, deployment = "one" /\ ~bypassed' /\ Supervises(j)
      PROVE  Supervised'
  <2>1. PICK job : Started(j, job)
    BY <1>2 DEF Supervises
  <2>2. \A i \in Jobs : jobs'[i].status = "live" => i = j
    BY <1>2, <2>1, StartedTask DEF Inv, Resting
  <2> QED
    BY <1>2, <2>2 DEF Inv, Supervised, Resting, Supervises
<1>3. CASE ~(deployment = "one" /\ ~bypassed')
  BY <1>3 DEF Inv, Supervised
<1> QED
  BY <1>1, <1>2, <1>3

\* Types and counts after a handler that decides about a launch.
LEMMA CountedHandler ==
  ASSUME Inv, UNCHANGED <<deployment, view>>, mode' \in Modes, memory' \in Memory,
         report' \in [Jobs -> Outcomes \cup {"none"}], bypassed' \in BOOLEAN,
         acts' \in 0 .. MaxActs[deployment],
         \/ /\ UNCHANGED jobs /\ chain' \in {0, chain}
            /\ manager' \in Manager /\ manager'.count <= Cardinality(Born)
         \/ /\ \E j : Supervises(j)
            /\ chain' \in {0, chain, chain + 1}
            /\ manager'.count <= Cardinality(Born) + 1
  PROVE  TypeOK' /\ Numbered' /\ CountsAreTasks'
<1> USE DEF Inv
<1>0. /\ Cardinality(Born) \in Nat /\ MaxTasks \in Nat /\ chain \in Nat /\ chain <= MaxTasks
      /\ manager \in Manager /\ view.row \in Manager
      /\ \A row \in Manager : row.count \in Nat
  BY ManagerAssumption DEF TypeOK, Numbered, Manager
<1>1. CASE /\ UNCHANGED jobs /\ chain' \in {0, chain}
           /\ manager' \in Manager /\ manager'.count <= Cardinality(Born)
  <2>1. Numbered' /\ Cardinality(Born)' = Cardinality(Born)
    BY <1>1, SameTasks
  <2>2. CountsAreTasks'
    BY <1>0, <1>1, <2>1 DEF CountsAreTasks
  <2>3. TypeOK'
    BY <1>0, <1>1 DEF TypeOK
  <2> QED
    BY <2>1, <2>2, <2>3
<1>2. ASSUME NEW j, Supervises(j), chain' \in {0, chain, chain + 1},
             manager'.count <= Cardinality(Born) + 1
      PROVE  TypeOK' /\ Numbered' /\ CountsAreTasks'
  <2>1. PICK job : Started(j, job)
    BY <1>2 DEF Supervises
  <2>2. jobs' \in [Jobs -> Job] /\ Numbered' /\ Cardinality(Born)' = Cardinality(Born) + 1
    BY <2>1, StartedTask
  <2>3. CountsAreTasks'
    BY <1>0, <1>2, <2>2 DEF CountsAreTasks
  <2>4. chain' \in 0 .. MaxTasks
    BY <1>0, <1>2, <2>2 DEF CountsAreTasks, Numbered
  <2>5. TypeOK'
    BY <1>2, <2>2, <2>4 DEF TypeOK, Supervises
  <2> QED
    BY <2>2, <2>3, <2>5
<1> QED
  BY <1>1, <1>2

\* The acts are counted up to their bound.
LEMMA ActBound == TypeOK /\ acts < MaxActs[deployment] => acts + 1 \in 0 .. MaxActs[deployment]
BY ManagerAssumption DEF TypeOK

\* send_message: while a task is live the manager waits.
LEMMA MessageStep ==
  ASSUME Inv, NEW ask \in Asks, SendMessage(ask)
  PROVE  Inv'
<1> DEFINE row == Refreshed(mode, memory', jobs, manager)
<1> USE DEF Inv
<1>0. /\ Cardinality(Born) \in Nat /\ MaxTasks \in Nat /\ Limit \in Nat \ {0}
      /\ manager \in Manager /\ manager.count \in Nat
  BY ManagerAssumption DEF TypeOK, Numbered, Manager
<1>1. /\ row \in Manager /\ row.count = manager.count
      /\ Live(jobs, manager.active) =>
           row.active = manager.active /\ row.workflow = "running_current_task"
  BY <1>0, RefreshedManager
<1>2. Progress(memory', row, "message", NoSession)
  BY DEF SendMessage
<1>3. "message" \in Triggers /\ NoSession \in Sessions /\ row.count <= Cardinality(Born)
  BY <1>0, <1>1 DEF Triggers, NoSession, Sessions, CountsAreTasks
<1> HIDE DEF row
<1>4. \/ /\ UNCHANGED jobs
         /\ manager' \in Manager
         /\ manager'.count = row.count \/ (NeedsApproval("message") /\ manager'.count = 0)
         /\ Waits("message", row) => manager' = row
      \/ /\ Launches(memory', row, "message")
         /\ \E j : Supervises(j)
         /\ manager'.count = 1
  BY <1>1, <1>2, <1>3, ProgressStep
<1>5. memory' \in Memory /\ acts' \in 0 .. MaxActs[deployment]
  <2>1. memory' \in Memory
    BY DEF SendMessage, TypeOK, Memory, Asks
  <2> QED
    BY <2>1, ActBound DEF SendMessage, Act
<1>6. TypeOK' /\ Numbered' /\ CountsAreTasks'
  BY <1>0, <1>3, <1>4, <1>5, CountedHandler DEF SendMessage, TypeOK
<1>7. ASSUME deployment = "one", ~bypassed
      PROVE  /\ \A j \in Jobs : report[j] = "none"
             /\ \A j \in Jobs : jobs[j].status = "live" => Waits("message", row)
  <2>1. \A j \in Jobs : jobs[j].status = "live" =>
          /\ Live(jobs, manager.active) /\ manager.active # NoJob
    BY <1>7 DEF Supervised, Live, Jobs, NoJob
  <2> QED
    BY <1>1, <1>7, <2>1 DEF Waits, SendMessage, Act, Idle
<1>8. Supervised'
  <2>1. CASE ~(deployment = "one" /\ ~bypassed)
    BY <2>1 DEF Supervised, SendMessage
  <2>2. CASE deployment = "one" /\ ~bypassed /\ \E j \in Jobs : jobs[j].status = "live"
    <3>1. Waits("message", row)
      BY <1>7, <2>2
    <3>2. UNCHANGED jobs /\ manager' = row
      BY <1>4, <3>1 DEF Launches
    <3>3. \A j \in Jobs : jobs[j].status = "live" =>
            manager'.active = j /\ manager'.workflow = "running_current_task"
      BY <1>1, <2>2, <3>2 DEF Supervised, Live, Jobs, NoJob
    <3> QED
      BY <1>0, <2>2, <3>2, <3>3 DEF Supervised, SendMessage
  <2>3. CASE deployment = "one" /\ ~bypassed /\ \A j \in Jobs : jobs[j].status # "live"
    <3>1. Resting
      BY <1>7, <2>3 DEF Resting, SendMessage
    <3> QED
      BY <1>0, <1>4, <2>3, <3>1, SupervisedHandler DEF SendMessage, TypeOK
  <2> QED
    BY <2>1, <2>2, <2>3
<1> QED
  BY <1>6, <1>8

\* The Continue button is shown only while no task is live, and outside minimal
\* mode, where approval would set the count back.
LEMMA ContinueStep ==
  ASSUME Inv, PressContinue
  PROVE  Inv'
<1> DEFINE row == Refreshed(mode, memory, jobs, manager)
<1> USE DEF Inv
<1>0. /\ Cardinality(Born) \in Nat /\ MaxTasks \in Nat /\ Limit \in Nat \ {0}
      /\ manager \in Manager /\ manager.count \in Nat
      /\ acts' \in 0 .. MaxActs[deployment]
  BY ManagerAssumption, ActBound DEF TypeOK, Numbered, Manager, PressContinue, Act
<1>1. row \in Manager /\ row.count = manager.count
  BY <1>0, RefreshedManager
<1>2. Progress(memory, row, "continue", NoSession)
  BY DEF PressContinue
<1>3. "continue" \in Triggers /\ NoSession \in Sessions /\ row.count <= Cardinality(Born)
  BY <1>0, <1>1 DEF Triggers, NoSession, Sessions, CountsAreTasks
<1>4. deployment = "one" /\ ~bypassed' => ~bypassed /\ mode # "minimal" /\ Resting
  <2> SUFFICES ASSUME deployment = "one", ~bypassed'
               PROVE  ~bypassed /\ mode # "minimal" /\ Resting
    OBVIOUS
  <2>1. ~bypassed /\ row.workflow = "awaiting_continue_decision"
    BY DEF PressContinue
  <2>2. row.workflow = RefreshedWorkflow(mode, memory, jobs, manager)
    BY <1>0 DEF Refreshed, RefreshedRow, Manager
  <2>3. mode # "minimal" /\ ~Live(jobs, manager.active)
    BY <2>1, <2>2, ContinueIsOffered
  <2>4. \A j \in Jobs : jobs[j].status # "live"
    BY <2>1, <2>3 DEF Supervised, Live, Jobs, NoJob
  <2>5. \A j \in Jobs : report'[j] = "none"
    BY DEF PressContinue, Act, Idle
  <2> QED
    BY <2>1, <2>3, <2>4, <2>5 DEF Resting
<1> HIDE DEF row
<1>5. \/ /\ UNCHANGED jobs
         /\ manager' \in Manager
         /\ manager'.count = row.count \/ (mode = "minimal" /\ manager'.count = 0)
      \/ /\ \E j : Supervises(j)
         /\ manager'.count = row.count + 1
  BY <1>1, <1>2, <1>3, ProgressStep DEF NeedsApproval
<1>6. TypeOK' /\ Numbered' /\ CountsAreTasks'
  <2>1. manager'.count \in Nat
    BY <1>0, <1>1, <1>5
  <2> QED
    BY <1>0, <1>1, <1>3, <1>5, <2>1, CountedHandler DEF PressContinue, TypeOK
<1>7. Supervised'
  <2>1. deployment = "one" /\ ~bypassed' => chain' = 0 \/ chain' < manager'.count
    BY <1>0, <1>1, <1>4, <1>5 DEF Supervised, PressContinue, TypeOK
  <2> QED
    BY <1>4, <1>5, <2>1, SupervisedHandler DEF Supervised, PressContinue, TypeOK
<1> QED
  BY <1>6, <1>7

\* The Run button is shown only while no task is live.
LEMMA RunStep ==
  ASSUME Inv, PressRun
  PROVE  Inv'
<1> DEFINE row == Refreshed(mode, memory, jobs, manager)
<1> USE DEF Inv
<1>0. /\ Cardinality(Born) \in Nat /\ MaxTasks \in Nat /\ Limit \in Nat \ {0}
      /\ manager \in Manager /\ manager.count \in Nat
      /\ acts' \in 0 .. MaxActs[deployment]
  BY ManagerAssumption, ActBound DEF TypeOK, Numbered, Manager, PressRun, Act
<1>1. /\ row \in Manager /\ row.count = manager.count
      /\ Live(jobs, manager.active) => row.workflow = "running_current_task"
  BY <1>0, RefreshedManager
<1>2. Launch(memory, row, "operator_confirmed", SessionOr(row.session), row.count + 1)
  BY DEF PressRun
<1>3. "operator_confirmed" \in Triggers /\ row.count <= Cardinality(Born)
  BY <1>0, <1>1 DEF Triggers, CountsAreTasks
<1>4. deployment = "one" /\ ~bypassed' => ~bypassed /\ Resting
  <2> SUFFICES ASSUME deployment = "one", ~bypassed'
               PROVE  ~bypassed /\ Resting
    OBVIOUS
  <2>1. ~bypassed /\ ~Live(jobs, manager.active)
    BY <1>1 DEF PressRun
  <2>2. \A j \in Jobs : jobs[j].status # "live"
    BY <2>1 DEF Supervised, Live, Jobs, NoJob
  <2>3. \A j \in Jobs : report'[j] = "none"
    BY DEF PressRun, Act, Idle
  <2> QED
    BY <2>1, <2>2, <2>3 DEF Resting
<1> HIDE DEF row
<1>5. /\ SessionOr(row.session) \in Nat
      /\ SessionOr(row.session) <= MaxTasks \/ SessionOr(row.session) <= 1 + Cardinality(Born)
      /\ row.count + 1 \in Nat /\ row.count + 1 <= 1 + Cardinality(Born)
  BY <1>0, <1>1, <1>3, FreshSessionBound DEF SessionOr, Manager, Sessions
<1>6. \/ UNCHANGED jobs /\ manager' = row
      \/ \E j : Supervises(j) /\ manager'.count = row.count + 1
  BY <1>2, <1>3, <1>5, LaunchStep
<1>7. TypeOK' /\ Numbered' /\ CountsAreTasks'
  <2>1. \/ UNCHANGED jobs /\ manager' \in Manager /\ manager'.count <= Cardinality(Born)
        \/ (\E j : Supervises(j)) /\ manager'.count <= Cardinality(Born) + 1
    BY <1>0, <1>1, <1>3, <1>6
  <2> QED
    BY <1>0, <2>1, CountedHandler DEF PressRun, TypeOK
<1>8. Supervised'
  <2>1. deployment = "one" /\ ~bypassed' => chain' = 0 \/ chain' < manager'.count
    BY <1>0, <1>1, <1>4, <1>6 DEF Supervised, PressRun, TypeOK
  <2> QED
    BY <1>4, <1>6, <2>1, SupervisedHandler DEF Supervised, PressRun, TypeOK
<1> QED
  BY <1>7, <1>8

\* What follows an outcome: the count is at least one, and in full mode it is
\* compared with the limit before it is raised.
LEMMA ContinuedOutcome ==
  ASSUME Inv, NEW j \in Born, NEW mem, Continue(j, mem)
  PROVE  \/ /\ UNCHANGED jobs
            /\ manager' \in Manager /\ manager'.count <= Cardinality(Born)
            /\ manager.count <= manager'.count
         \/ /\ \E i : Supervises(i)
            /\ \E n \in Nat : /\ 1 <= n /\ manager.count <= n /\ n < Limit
                              /\ n <= Cardinality(Born)
                              /\ manager'.count = n + 1
<1> DEFINE row     == Refreshed(mode, mem, jobs, manager)
           session == IF jobs[j].session # NoSession THEN jobs[j].session ELSE row.session
           count   == IF row.count = 0 THEN 1 ELSE row.count
           After(workflow) == Updated(mem, jobs, workflow, NoJob, session, count)
           idle    == After("idle")
<1> USE DEF Inv
<1>0. /\ Cardinality(Born) \in Nat /\ 1 <= Cardinality(Born) /\ Cardinality(Born) <= MaxTasks
      /\ MaxTasks \in Nat /\ Limit \in Nat \ {0}
      /\ manager \in Manager /\ manager.count \in Nat /\ jobs[j] \in Job /\ Sessions \subseteq Nat
  <2>1. Cardinality(Born) \in Nat /\ j \in 1 .. Cardinality(Born)
    BY ManagerAssumption DEF Numbered
  <2>2. j \in Jobs
    BY DEF Born
  <2> QED
    BY <2>1, <2>2, ManagerAssumption DEF TypeOK, Numbered, Manager, Sessions
<1>1. row \in Manager /\ row.count = manager.count /\ row.session \in Sessions
  BY <1>0, RefreshedManager DEF Manager
<1>2. /\ session \in Sessions /\ session \in Nat /\ session <= MaxTasks
      /\ count \in Nat /\ 1 <= count /\ manager.count <= count /\ count <= Cardinality(Born)
  BY <1>0, <1>1 DEF Job, CountsAreTasks, Sessions
<1>3. ASSUME NEW workflow \in Workflows
      PROVE  After(workflow) \in Manager /\ After(workflow).count = count
  <2> HIDE DEF session, count
  <2>1. /\ After(workflow) \in ManagerRow
        /\ After(workflow).session = session /\ After(workflow).count = count
    BY <1>2, UpdatedShape
  <2> QED
    BY <1>0, <1>2, <2>1, BoundedRow
<1>4. {"idle", "blocked_on_manual_test", "awaiting_continue_decision"} \subseteq Workflows
  BY DEF Workflows
<1>5. \/ UNCHANGED jobs /\ manager' = row
      \/ UNCHANGED jobs /\ \E workflow \in Workflows : manager' = After(workflow)
      \/ mode = "full" /\ Progress(mem, idle, "outcome", session)
  BY <1>4 DEF Continue
<1> HIDE DEF row, session, count, After
<1>6. CASE UNCHANGED jobs /\ manager' = row
  BY <1>0, <1>1, <1>6 DEF CountsAreTasks
<1>7. CASE UNCHANGED jobs /\ \E workflow \in Workflows : manager' = After(workflow)
  BY <1>0, <1>2, <1>3, <1>7
<1>8. CASE mode = "full" /\ Progress(mem, idle, "outcome", session)
  <2>1. idle \in Manager /\ idle.count = count /\ "outcome" \in Triggers
    BY <1>3, <1>4 DEF Triggers
  <2> HIDE DEF idle
  <2>2. \/ /\ UNCHANGED jobs
           /\ manager' \in Manager
           /\ manager'.count = count
        \/ /\ Launches(mem, idle, "outcome")
           /\ \E i : Supervises(i)
           /\ manager'.count = count + 1
    BY <1>2, <1>8, <2>1, ProgressStep DEF NeedsApproval
  <2>3. Launches(mem, idle, "outcome") => count < Limit
    BY <1>0, <1>2, <1>8, <2>1 DEF Launches, Exhausted
  <2> QED
    BY <1>0, <1>2, <2>2, <2>3
<1> QED
  BY <1>5, <1>6, <1>7, <1>8

\* _ingest_project_manager_outcome.
LEMMA IngestStep ==
  ASSUME Inv, NEW j \in Jobs, Ingest(j)
  PROVE  Inv'
<1> USE DEF Inv
<1>0. /\ Cardinality(Born) \in Nat /\ MaxTasks \in Nat /\ Limit \in Nat \ {0} /\ chain \in Nat
      /\ manager \in Manager /\ manager.count \in Nat /\ acts \in 0 .. MaxActs[deployment]
      /\ report \in [Jobs -> Outcomes \cup {"none"}]
  BY ManagerAssumption DEF TypeOK, Numbered, Manager
<1>1. /\ report' = [report EXCEPT ![j] = "none"] /\ report[j] \in Outcomes
      /\ chain' = chain + Cardinality({i \in Jobs : jobs'[i] # jobs[i]})
      /\ UNCHANGED <<deployment, mode, view, acts, bypassed>>
  BY <1>0 DEF Ingest
<1>2. report' \in [Jobs -> Outcomes \cup {"none"}]
  BY <1>0, <1>1
<1>3. UNCHANGED jobs => chain' = chain
  <2> SUFFICES ASSUME UNCHANGED jobs PROVE chain' = chain
    OBVIOUS
  <2>1. {i \in Jobs : jobs'[i] # jobs[i]} = {}
    OBVIOUS
  <2>2. Cardinality({i \in Jobs : jobs'[i] # jobs[i]}) = 0
    BY <2>1, FS_EmptySet
  <2> QED
    BY <1>0, <1>1, <2>2
<1>4. deployment = "one" /\ ~bypassed' => Resting
  BY <1>0, <1>1 DEF Ingest, Supervised, Resting
<1>5. CASE jobs[j].status \in {"completed", "failed"}
  <2>1. memory' \in Memory
    <3>1. memory' = WithEvent(report[j])
      BY <1>5 DEF Ingest
    <3>2. IInv
      BY DEF TypeOK, IInv
    <3> QED
      BY <1>1, <3>1, <3>2, EventIsMemory
  <2>2. j \in Born /\ Continue(j, memory')
    BY <1>5 DEF Ingest, Born
  <2>3. CASE /\ UNCHANGED jobs
             /\ manager' \in Manager /\ manager'.count <= Cardinality(Born)
             /\ manager.count <= manager'.count
    <3>1. TypeOK' /\ Numbered' /\ CountsAreTasks'
      BY <1>0, <1>1, <1>2, <1>3, <2>1, <2>3, CountedHandler DEF TypeOK
    <3>2. manager'.count \in Nat
      BY <1>0, <2>3 DEF Manager
    <3>3. deployment = "one" /\ ~bypassed' =>
            (chain' = 0 \/ chain' < manager'.count) /\ chain' < Limit
      BY <1>0, <1>1, <1>3, <2>3, <3>2 DEF Supervised
    <3>4. Supervised'
      BY <1>1, <1>2, <1>4, <2>3, <3>3, SupervisedHandler
    <3> QED
      BY <3>1, <3>4
  <2>4. ASSUME NEW i, Supervises(i), NEW n \in Nat, 1 <= n, manager.count <= n, n < Limit,
               n <= Cardinality(Born), manager'.count = n + 1
        PROVE  Inv'
    <3>1. PICK job : Started(i, job)
      BY <2>4 DEF Supervises
    <3>2. chain' = chain + 1
      BY <1>1, <3>1, StartedTask
    <3>3. TypeOK' /\ Numbered' /\ CountsAreTasks'
      BY <1>0, <1>1, <1>2, <2>1, <2>4, <3>2, CountedHandler DEF TypeOK
    <3>4. deployment = "one" /\ ~bypassed' =>
            (chain' = 0 \/ chain' < manager'.count) /\ chain' < Limit
      BY <1>0, <1>1, <2>4, <3>2 DEF Supervised
    <3>5. Supervised'
      BY <1>1, <1>2, <1>4, <2>4, <3>4, SupervisedHandler
    <3> QED
      BY <3>3, <3>5
  <2> QED
    BY <2>2, <2>3, <2>4, ContinuedOutcome
<1>6. CASE jobs[j].status \notin {"completed", "failed"}
  <2>1. UNCHANGED <<jobs, memory, manager>>
    BY <1>6 DEF Ingest
  <2>2. TypeOK' /\ Numbered' /\ CountsAreTasks'
    BY <1>0, <1>1, <1>2, <1>3, <2>1, CountedHandler DEF TypeOK, CountsAreTasks
  <2>3. Supervised'
    BY <1>1, <1>2, <1>3, <1>4, <2>1, SupervisedHandler DEF Supervised
  <2> QED
    BY <2>2, <2>3
<1> QED
  BY <1>5, <1>6

\* A task ends, is cancelled, or is retried without the manager.
LEMMA TaskStep ==
  ASSUME Inv, NEW j \in Jobs,
         (\E outcome \in Outcomes : EndTask(j, outcome)) \/ CancelTask(j) \/ RetryTask(j)
  PROVE  Inv'
<1> USE DEF Inv
<1>1. PICK s \in JobStatus \ {"unborn"} :
        /\ jobs' = [jobs EXCEPT ![j].status = s]
        /\ s = "live" => bypassed'
  BY DEF EndTask, CancelTask, RetryTask, JobStatus
<1>2. /\ j \in Born
      /\ UNCHANGED <<deployment, mode, memory, manager, view, acts, chain>>
      /\ bypassed' \in BOOLEAN /\ (~bypassed' => ~bypassed)
  BY DEF EndTask, CancelTask, RetryTask, Live, Born, TypeOK
<1>3. /\ Numbered' /\ Cardinality(Born)' = Cardinality(Born)
      /\ jobs' \in [Jobs -> Job]
      /\ \A i \in Jobs : jobs'[i].status = IF i = j THEN s ELSE jobs[i].status
  BY <1>1, <1>2, SameBorn
<1>4. /\ report' \in [Jobs -> Outcomes \cup {"none"}]
      /\ report' = report \/ (Idle /\ Live(jobs, j) /\ \A i \in Jobs \ {j} : report'[i] = report[i])
  BY DEF EndTask, CancelTask, RetryTask, TypeOK
<1>5. TypeOK' /\ CountsAreTasks'
  BY <1>2, <1>3, <1>4 DEF TypeOK, CountsAreTasks
<1>6. Supervised'
  <2>1. CASE deployment = "one" /\ ~bypassed'
    <3>1. ~bypassed /\ s # "live" /\ \A i \in Jobs : jobs'[i].status = "live" =>
                                       i # j /\ jobs[i].status = "live"
      BY <1>1, <1>2, <1>3, <2>1
    <3>2. CASE report' = report
      BY <1>2, <2>1, <3>1, <3>2 DEF Supervised
    <3>3. CASE Idle /\ Live(jobs, j) /\ \A i \in Jobs \ {j} : report'[i] = report[i]
      <4>1. \A i \in Jobs \ {j} : report'[i] = "none"
        BY <2>1, <3>3 DEF Idle
      <4>2. \A i \in Jobs : jobs'[i].status # "live"
        BY <2>1, <3>1, <3>3 DEF Live, Supervised
      <4> QED
        BY <1>2, <2>1, <3>1, <4>1, <4>2 DEF Supervised
    <3> QED
      BY <1>4, <3>2, <3>3
  <2>2. CASE ~(deployment = "one" /\ ~bypassed')
    BY <1>2, <2>2 DEF Supervised
  <2> QED
    BY <2>1, <2>2
<1> QED
  BY <1>3, <1>5, <1>6

\* Page views: in "one" a refresh; in "two" three steps, of which the last writes
\* back what the first has read.
LEMMA ViewStep ==
  ASSUME Inv, View
  PROVE  Inv'
<1> USE DEF Inv
<1>0. /\ manager \in Manager /\ view.row \in Manager
      /\ view \in [pc : {"none", "read", "computed"}, row : Manager]
      /\ mode \in Modes /\ memory \in Memory /\ acts \in 0 .. MaxActs[deployment]
      /\ Cardinality(Born) \in Nat
  BY ManagerAssumption DEF TypeOK, Numbered
<1>1. CASE ViewInOne
  BY <1>0, <1>1, QuietHandler DEF ViewInOne
<1>2. ASSUME deployment = "two", UNCHANGED <<deployment, mode, jobs, report, memory, acts, chain,
                                             bypassed>>,
             manager' \in Manager, manager'.count \in {manager.count, view.row.count},
             view' \in [pc : {"none", "read", "computed"}, row : Manager],
             view'.row.count \in {manager.count, view.row.count, 0}
      PROVE  Inv'
  <2>1. Numbered' /\ Cardinality(Born)' = Cardinality(Born)
    BY <1>2, SameTasks
  <2> QED
    BY <1>0, <1>2, <2>1 DEF TypeOK, CountsAreTasks, Supervised
<1>3. view.pc # "none" => deployment = "two"
  BY <1>0, ManagerAssumption DEF TypeOK, Supervised, NoView
<1>4. CASE BeginView
  BY <1>0, <1>2, <1>4 DEF BeginView
<1>5. CASE ComputeView
  <2> DEFINE workflow == RefreshedWorkflow(mode, memory, jobs, view.row)
             row == [view.row EXCEPT !.workflow = workflow]
  <2>1. workflow \in Workflows
    BY <1>0, RowType, WorkflowType
  <2> HIDE DEF workflow
  <2>2. row \in Manager /\ row.count = view.row.count
    BY <1>0, <2>1 DEF Manager
  <2>3. view' = [pc |-> "computed", row |-> row]
    BY <1>5 DEF ComputeView, workflow
  <2> HIDE DEF row
  <2> QED
    BY <1>0, <1>2, <1>3, <1>5, <2>2, <2>3 DEF ComputeView
<1>6. CASE EndView
  <2>1. RefreshedRow(jobs, view.row, view.row.workflow) \in Manager
        /\ RefreshedRow(jobs, view.row, view.row.workflow).count = view.row.count
    BY <1>0 DEF RefreshedRow, Manager
  <2>2. NoView \in [pc : {"none", "read", "computed"}, row : Manager] /\ NoView.row.count = 0
    BY ManagerAssumption DEF NoView, NewManager, Manager, Workflows, Sessions, NoSession, NoJob
  <2> QED
    BY <1>0, <1>2, <1>3, <1>6, <2>1, <2>2 DEF EndView
<1> QED
  BY <1>1, <1>4, <1>5, <1>6 DEF View

\* One case per action.
LEMMA InvNext == Inv /\ [Next]_vars => Inv'
<1> SUFFICES ASSUME Inv, [Next]_vars PROVE Inv'
  OBVIOUS
<1>0. IInv /\ mode \in Modes /\ memory \in Memory /\ acts \in 0 .. MaxActs[deployment]
  BY DEF Inv, TypeOK, IInv
<1>1. ASSUME NEW feedback \in Feedbacks, GiveFeedback(feedback) PROVE Inv'
  <2>1. memory' \in Memory
    BY <1>0, <1>1 DEF GiveFeedback, Memory
  <2>2. acts' \in 0 .. MaxActs[deployment]
    BY <1>1, ActBound DEF GiveFeedback, Act, Inv
  <2> QED
    BY <1>0, <1>1, <2>1, <2>2, QuietHandler DEF GiveFeedback
<1>2. ASSUME NEW md \in Modes, SetMode(md) PROVE Inv'
  <2>1. acts' \in 0 .. MaxActs[deployment]
    BY <1>2, ActBound DEF SetMode, Act, Inv
  <2> QED
    BY <1>0, <1>2, <2>1, QuietHandler DEF SetMode
<1>3. ASSUME NEW outcome \in Outcomes, OtherJobEnds(outcome) PROVE Inv'
  <2>1. memory' \in Memory
    BY <1>0, <1>3, EventIsMemory DEF OtherJobEnds
  <2>2. acts' \in 0 .. MaxActs[deployment]
    BY <1>3, ActBound DEF OtherJobEnds, Inv
  <2> QED
    BY <1>0, <1>3, <2>1, <2>2, QuietHandler DEF OtherJobEnds
<1>4. ASSUME NEW j \in Jobs, LoseReport(j) PROVE Inv'
  <2>1. Numbered' /\ CountsAreTasks'
    BY <1>4, SameTasks DEF LoseReport, Inv, CountsAreTasks
  <2> QED
    BY <1>4, <2>1 DEF LoseReport, Inv, TypeOK, Supervised
<1>5. CASE UNCHANGED vars
  <2>1. Numbered' /\ CountsAreTasks'
    BY <1>5, SameTasks DEF vars, Inv, CountsAreTasks
  <2> QED
    BY <1>5, <2>1 DEF vars, Inv, TypeOK, Supervised
<1> QED
  BY <1>1, <1>2, <1>3, <1>4, <1>5, MessageStep, ContinueStep, RunStep, IngestStep, TaskStep,
     ViewStep DEF Next, Operator

\* The invariant holds in every reachable state.
LEMMA Invariant == Spec => []Inv
BY InvInit, InvNext, PTL DEF Spec

\* Every row, view and count keeps its type, although nothing in the handlers
\* looks at the bounds.
THEOREM TypesHold == Spec => []TypeOK
<1>1. Inv => TypeOK
  BY DEF Inv
<1> QED
  BY <1>1, Invariant, PTL

\* One process and the offered buttons: at most one task of the manager is live,
\* and it is the one the manager waits for.
THEOREM OneTaskAtATime == Spec => []OneManagedTask
<1>1. Inv => OneManagedTask
  <2> SUFFICES ASSUME Inv, deployment = "one", ~bypassed
               PROVE  Cardinality(LiveTasks) <= 1 /\ LiveTasks \subseteq {manager.active}
    BY DEF OneManagedTask
  <2>1. LiveTasks \subseteq {manager.active}
    BY DEF Inv, Supervised, LiveTasks
  <2>2. Cardinality(LiveTasks) <= Cardinality({manager.active})
    BY <2>1, FS_Singleton, FS_Subset
  <2>3. Cardinality({manager.active}) = 1
    BY FS_Singleton
  <2> QED
    BY <2>1, <2>2, <2>3
<1> QED
  BY <1>1, Invariant, PTL

\* ... and what the manager launches on its own after a message of the operator
\* stays below the limit.
THEOREM AutonomyIsBounded == Spec => []BoundedAutonomy
<1>1. Inv => BoundedAutonomy
  BY DEF Inv, Supervised, BoundedAutonomy
<1> QED
  BY <1>1, Invariant, PTL
=============================================================================
