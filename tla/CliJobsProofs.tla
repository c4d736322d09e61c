--------------------------- MODULE CliJobsProofs ---------------------------
(***************************************************************************)
(* A job of a command-line backend, for any number of executors, both      *)
(* deployments, and any number of runs and crashes.                        *)
(***************************************************************************)
EXTENDS CliJobs, FiniteSetTheorems, TLAPS

-----------------------------------------------------------------------------
\* What the operators of Workspaces do to a disk.

\* Making or preparing a workspace, or storing a prompt, keeps what is in it.
LEMMA DiskWrites ==
  ASSUME NEW disc \in Disk, NEW kind
  PROVE  /\ Made(disc) \in Disk /\ Made(disc).workspace
         /\ Made(disc).changes = disc.changes
         /\ Prepared(disc, kind) \in Disk /\ Prepared(disc, kind).workspace
         /\ Prepared(disc, kind).changes = disc.changes
         /\ WithPrompt(disc) \in Disk /\ WithPrompt(disc).workspace
         /\ WithPrompt(disc).changes = disc.changes
<1>1. /\ Made(disc) \in Disk /\ Made(disc).workspace
      /\ Made(disc).changes = disc.changes
  BY DEF Made, Disk
<1>2. Prepared(disc, kind) \in Disk
  <2>1. disc.branch \in BOOLEAN /\ (disc.branch \/ kind = "git_worktree") \in BOOLEAN
    BY DEF Disk
  <2> QED BY <2>1, Zenon DEF Prepared, Disk
<1>3. Prepared(disc, kind).workspace /\ Prepared(disc, kind).changes = disc.changes
  BY DEF Prepared, Disk
<1>4. WithPrompt(disc) \in Disk
  BY <1>1, Zenon DEF WithPrompt, Disk
<1>5. WithPrompt(disc).workspace /\ WithPrompt(disc).changes = disc.changes
  BY <1>1 DEF WithPrompt, Disk
<1> QED BY <1>1, <1>2, <1>3, <1>4, <1>5

\* The test before a removal takes a directory or nothing, and never a worktree;
\* what is not taken has no marker.
LEMMA TestIsSafe ==
  ASSUME NEW disc \in Disk, NEW kind
  PROVE  /\ AfterTest(disc, kind) \in Disk
         /\ AfterTest(disc, kind).changes => disc.changes
         /\ kind = "git_worktree" => AfterTest(disc, kind) = disc
         /\ \/ ~AfterTest(disc, kind).workspace
            \/ AfterTest(disc, kind) = disc /\ (kind = "directory" => ~disc.marker)
<1>1. disc.branch \in BOOLEAN
  BY DEF Disk
<1>2. Removed(disc) \in Disk /\ ~Removed(disc).workspace /\ ~Removed(disc).changes
  <2>1. Removed(disc) \in Disk
    BY <1>1, Zenon DEF Removed, Nothing, Disk
  <2> QED BY <2>1 DEF Removed, Nothing
<1> QED BY <1>2 DEF AfterTest, Removable

\* A removed worktree is gone with all that is in it; without a marker there is
\* none to remove.
LEMMA RemovalIsWhole ==
  ASSUME NEW disc \in Disk
  PROVE  /\ AfterRemove(disc) \in Disk
         /\ AfterRemove(disc).changes => disc.changes
         /\ ~AfterRemove(disc).workspace \/ (AfterRemove(disc) = disc /\ ~disc.marker)
<1>1. disc.branch \in BOOLEAN
  BY DEF Disk
<1>2. Removed(disc) \in Disk /\ ~Removed(disc).workspace /\ ~Removed(disc).changes
  <2>1. Removed(disc) \in Disk
    BY <1>1, Zenon DEF Removed, Nothing, Disk
  <2> QED BY <2>1 DEF Removed, Nothing
<1> QED BY <1>2 DEF AfterRemove

\* The steps of an execution that has begun, and those of anybody else.
Continues(e) ==
  GoesOn(e) \/ Fed(e) \/ ChildExits(e) \/ PipesClose(e) \/ ReaderFails(e)
  \/ Interrupted(e) \/ Crash(e)

Elsewhere ==
  \/ ChildWrites \/ OrphanEnds \/ Recover \/ Requeue \/ RequestCancel \/ Cancel
  \/ CreateJob \/ StorePrompt \/ CleanCancelled \/ DeleteRead \/ DeleteWorkspace
  \/ RemoveWorktree \/ DeleteRow \/ CommandDies \/ UNCHANGED vars

\* Every step is one of these.
LEMMA Steps ==
  ASSUME [Next]_vars
  PROVE  (\E e \in Executors : Start(e) \/ Continues(e)) \/ Elsewhere
BY Zenon DEF Next, Continues, Elsewhere

-----------------------------------------------------------------------------
\* Types.

Statuses == {"unborn", "queued", "running", "waiting_retry", "completed",
             "failed", "cancelled", "deleted"}

Places == {"idle", "feeding", "running", "terminating", "gathering", "ended",
           "cleaning", "removing"}
Results == {"none", "completed", "failed", "retryable", "permanent", "interrupted"}

\* Every write of the row keeps its type.
LEMMA JobWrites ==
  ASSUME job \in Job, NEW status \in Statuses
  PROVE  /\ [job EXCEPT !.status = status] \in Job
         /\ [job EXCEPT !.status = status, !.cancel = FALSE] \in Job
         /\ Ended(status) \in Job
         /\ [job EXCEPT !.cancel = TRUE] \in Job
         /\ [job EXCEPT !.path = TRUE] \in Job
         /\ Claimed \in Job
<1>1. job.attempts + 1 \in Nat
  BY DEF Job
<1>2. [job EXCEPT !.status = status, !.cancel = FALSE] \in Job
  BY Zenon DEF Job, Statuses
<1>3. Claimed \in Job
  BY <1>1, Zenon DEF Claimed, Job
<1>4. /\ [job EXCEPT !.status = status] \in Job
      /\ [job EXCEPT !.cancel = TRUE] \in Job
      /\ [job EXCEPT !.path = TRUE] \in Job
  BY DEF Job, Statuses
<1> QED BY <1>2, <1>3, <1>4 DEF Ended

\* Every write of a task keeps its type.
LEMMA TaskWrites ==
  ASSUME NEW t \in Task, NEW pc \in Places, NEW result \in Results, NEW held \in BOOLEAN,
         NEW prompt \in {"real", "placeholder"}
  PROVE  /\ IdleTask \in Task
         /\ [IdleTask EXCEPT !.pc = pc, !.result = result] \in Task
         /\ [IdleTask EXCEPT !.pc = pc, !.child = TRUE, !.prompt = prompt] \in Task
         /\ [t EXCEPT !.pc = pc] \in Task
         /\ [t EXCEPT !.pc = pc, !.result = result] \in Task
         /\ [t EXCEPT !.held = FALSE] \in Task
         /\ [t EXCEPT !.pc = pc, !.child = FALSE, !.held = held] \in Task
         /\ [t EXCEPT !.pc = pc, !.child = FALSE, !.result = result, !.held = held] \in Task
<1>1. IdleTask \in Task
  BY DEF IdleTask, Task
<1>2. [IdleTask EXCEPT !.pc = pc, !.result = result] \in Task
  BY <1>1, Zenon DEF Task, Places, Results
<1>3. [IdleTask EXCEPT !.pc = pc, !.child = TRUE, !.prompt = prompt] \in Task
  BY <1>1, Zenon DEF Task, Places
<1>4. [t EXCEPT !.pc = pc] \in Task /\ [t EXCEPT !.held = FALSE] \in Task
  BY DEF Task, Places
<1>5. [t EXCEPT !.pc = pc, !.result = result] \in Task
  BY Zenon DEF Task, Places, Results
<1>6. [t EXCEPT !.pc = pc, !.child = FALSE, !.held = held] \in Task
  BY Zenon DEF Task, Places
<1>7. [t EXCEPT !.pc = pc, !.child = FALSE, !.result = result, !.held = held] \in Task
  BY Zenon DEF Task, Places, Results
<1> QED BY <1>1, <1>2, <1>3, <1>4, <1>5, <1>6, <1>7

\* One case per action.
LEMMA TypeStep ==
  ASSUME TypeOK, [Next]_vars
  PROVE  TypeOK'
<1> USE DEF TypeOK
<1>0. IdleTask \in Task
  BY DEF IdleTask, Task
<1>1. ASSUME NEW e \in Executors, Start(e)
      PROVE  TypeOK'
  <2>1. job' \in Job
    BY <1>1, JobWrites DEF Start, Statuses
  <2>2. /\ Prepared(disk, job.kind) \in Disk /\ Made(disk) \in Disk
        /\ WorkspaceAtStart \in Disk
    BY DiskWrites DEF WorkspaceAtStart
  <2>3. disk' \in Disk
    BY <1>1, <2>2 DEF Start
  <2>4. \E t \in Task : task' = [task EXCEPT ![e] = t]
    <3>1. [IdleTask EXCEPT !.pc = "ended", !.result = "permanent"] \in Task
      BY <1>0, TaskWrites DEF Places, Results
    <3>2. ASSUME NEW pc \in {"running", "feeding"}, NEW prompt \in {"placeholder", "real"}
          PROVE  [IdleTask EXCEPT !.pc = pc, !.child = TRUE, !.prompt = prompt] \in Task
      <4>1. pc \in Places
        BY DEF Places
      <4> QED BY <1>0, <4>1, Zenon DEF Task, Places
    <3>3. CASE task' = [task EXCEPT ![e] = [IdleTask EXCEPT !.pc = "ended", !.result = "permanent"]]
      BY <3>1, <3>3
    <3>4. CASE \E pc \in {"running"} \cup (IF job.cli = "claude" THEN {"feeding"} ELSE {}) :
                 task' = [task EXCEPT ![e] =
                   [IdleTask EXCEPT !.pc = pc, !.child = TRUE,
                                    !.prompt = IF job.private /\ ~job.path THEN "placeholder"
                                               ELSE "real"]]
      <4>1. PICK pc \in {"running", "feeding"} :
              task' = [task EXCEPT ![e] =
                [IdleTask EXCEPT !.pc = pc, !.child = TRUE,
                                 !.prompt = IF job.private /\ ~job.path THEN "placeholder"
                                            ELSE "real"]]
        BY <3>4
      <4>2. (IF job.private /\ ~job.path THEN "placeholder" ELSE "real") \in {"placeholder", "real"}
        OBVIOUS
      <4> QED BY <3>2, <4>1, <4>2
    <3> QED BY <1>1, <3>3, <3>4 DEF Start, LeaveChild
  <2>5. task' \in [Executors -> Task]
    BY <2>4
  <2>6. orphans' \in Nat
    <3>1. orphans' = orphans \/ orphans' = orphans + 1
      BY <1>1, Zenon DEF Start, LeaveChild
    <3> QED BY <3>1
  <2>7. unrecorded' \in BOOLEAN
    <3>1. unrecorded \in BOOLEAN /\ (unrecorded' = unrecorded \/ unrecorded' = TRUE)
      BY <1>1, Zenon DEF Start, LeaveChild
    <3> QED BY <3>1
  <2> QED BY <1>1, <2>1, <2>3, <2>5, <2>6, <2>7 DEF Start
<1>2. ASSUME NEW e \in Executors, Fed(e) \/ TimesOut(e) \/ PipesClose(e) \/ Raises(e) \/ ReaderFails(e)
      PROVE  TypeOK'
  <2>1. \E t \in Task : task' = [task EXCEPT ![e] = t]
    <3>1. task[e] \in Task
      OBVIOUS
    <3>2. /\ [task[e] EXCEPT !.pc = "running"] \in Task
          /\ [task[e] EXCEPT !.pc = "ended"] \in Task
          /\ [task[e] EXCEPT !.pc = "terminating", !.result = "retryable"] \in Task
          /\ [task[e] EXCEPT !.held = FALSE] \in Task
          /\ [IdleTask EXCEPT !.pc = "ended", !.result = "permanent"] \in Task
      BY <3>1, TaskWrites DEF Places, Results
    <3>3. \/ task' = [task EXCEPT ![e] = [task[e] EXCEPT !.pc = "running"]]
          \/ task' = [task EXCEPT ![e] = [task[e] EXCEPT !.pc = "ended"]]
          \/ task' = [task EXCEPT ![e] = [task[e] EXCEPT !.pc = "terminating", !.result = "retryable"]]
          \/ task' = [task EXCEPT ![e] = [task[e] EXCEPT !.held = FALSE]]
          \/ task' = [task EXCEPT ![e] = [IdleTask EXCEPT !.pc = "ended", !.result = "permanent"]]
      BY <1>2 DEF Fed, TimesOut, PipesClose, Raises, ReaderFails, LeaveChild
    <3> QED BY <3>2, <3>3
  <2>2. orphans' \in Nat
    BY <1>2 DEF Fed, TimesOut, PipesClose, Raises, ReaderFails, LeaveChild
  <2>3. unrecorded' \in BOOLEAN
    <3>1. unrecorded \in BOOLEAN /\ (unrecorded' = unrecorded \/ unrecorded' = TRUE)
      BY <1>2, Zenon DEF Fed, TimesOut, PipesClose, Raises, ReaderFails, LeaveChild
    <3> QED BY <3>1
  <2> QED BY <1>2, <2>1, <2>2, <2>3 DEF Fed, TimesOut, PipesClose, Raises, ReaderFails
<1>3. ASSUME NEW e \in Executors, ChildExits(e) \/ Killed(e)
      PROVE  TypeOK'
  <2>1. \E t \in Task : task' = [task EXCEPT ![e] = t]
    <3>1. task[e] \in Task
      OBVIOUS
    <3>2. ASSUME NEW result \in {"completed", "retryable", "permanent"}, NEW held \in BOOLEAN
          PROVE  /\ [task[e] EXCEPT !.pc = "gathering", !.child = FALSE, !.result = result,
                                    !.held = held] \in Task
                 /\ [task[e] EXCEPT !.pc = "gathering", !.child = FALSE, !.held = held] \in Task
      BY <3>1, TaskWrites DEF Places, Results
    <3>3. CASE ChildExits(e)
      <4>1. PICK result \in {"completed", "retryable", "permanent"}, held \in BOOLEAN :
              task' = [task EXCEPT ![e] =
                [task[e] EXCEPT !.pc = "gathering", !.child = FALSE, !.result = result, !.held = held]]
        BY <3>3 DEF ChildExits
      <4> QED BY <3>2, <4>1
    <3>4. CASE Killed(e)
      <4>1. PICK held \in BOOLEAN :
              task' = [task EXCEPT ![e] =
                [task[e] EXCEPT !.pc = "gathering", !.child = FALSE, !.held = held]]
        BY <3>4 DEF Killed
      <4> QED BY <3>2, <4>1
    <3> QED BY <1>3, <3>3, <3>4
  <2> QED BY <1>3, <2>1 DEF ChildExits, Killed
<1>4. ASSUME NEW e \in Executors, Interrupted(e)
      PROVE  TypeOK'
  <2>1. \E t \in Task : task' = [task EXCEPT ![e] = t]
    <3>1. /\ [task[e] EXCEPT !.pc = "terminating", !.result = "interrupted"] \in Task
          /\ [IdleTask EXCEPT !.pc = "ended", !.result = "interrupted"] \in Task
          /\ [IdleTask EXCEPT !.pc = "ended", !.result = "permanent"] \in Task
      BY TaskWrites DEF Places, Results
    <3>2. \/ task' = [task EXCEPT ![e] = [task[e] EXCEPT !.pc = "terminating", !.result = "interrupted"]]
          \/ task' = [task EXCEPT ![e] = [IdleTask EXCEPT !.pc = "ended", !.result = "interrupted"]]
          \/ task' = [task EXCEPT ![e] = [IdleTask EXCEPT !.pc = "ended", !.result = "permanent"]]
      BY <1>4 DEF Interrupted, LeaveChild
    <3> QED BY <3>1, <3>2
  <2>2. orphans' \in Nat
    BY <1>4 DEF Interrupted, LeaveChild
  <2>3. abandoned' \in BOOLEAN /\ unrecorded' \in BOOLEAN
    BY <1>4 DEF Interrupted, LeaveChild
  <2> QED BY <1>4, <2>1, <2>2, <2>3 DEF Interrupted
<1>5. ASSUME NEW e \in Executors, Succeeds(e)
      PROVE  TypeOK'
  <2>1. job' \in Job
    BY <1>5, JobWrites DEF Succeeds, Statuses
  <2>2. disk' \in Disk
    <3>1. Made(disk) \in Disk /\ Prepared(Made(disk), job.kind) \in Disk
      BY DiskWrites
    <3> QED BY <1>5, <3>1 DEF Succeeds
  <2>3. \E t \in Task : task' = [task EXCEPT ![e] = t]
    <3>1. /\ [IdleTask EXCEPT !.pc = "cleaning", !.result = "completed"] \in Task
          /\ [task[e] EXCEPT !.pc = "ended", !.result = "permanent"] \in Task
      BY TaskWrites DEF Places, Results
    <3>2. \/ task' = [task EXCEPT ![e] = IdleTask]
          \/ task' = [task EXCEPT ![e] = [IdleTask EXCEPT !.pc = "cleaning", !.result = "completed"]]
          \/ task' = [task EXCEPT ![e] = [task[e] EXCEPT !.pc = "ended", !.result = "permanent"]]
      BY <1>5 DEF Succeeds
    <3> QED BY <1>0, <3>1, <3>2
  <2> QED BY <1>5, <2>1, <2>2, <2>3 DEF Succeeds
<1>6. ASSUME NEW e \in Executors, RecordFailure(e)
      PROVE  TypeOK'
  <2>1. StatusAfter(task[e].result) \in Statuses
    BY DEF StatusAfter, Statuses
  <2>2. job' \in Job
    BY <1>6, <2>1, JobWrites DEF RecordFailure
  <2>3. \E t \in Task : task' = [task EXCEPT ![e] = t]
    <3>1. [IdleTask EXCEPT !.pc = "cleaning", !.result = "failed"] \in Task
      BY <1>0, TaskWrites DEF Places, Results
    <3>2. \/ task' = [task EXCEPT ![e] = IdleTask]
          \/ task' = [task EXCEPT ![e] = [IdleTask EXCEPT !.pc = "cleaning", !.result = "failed"]]
      BY <1>6 DEF RecordFailure
    <3> QED BY <1>0, <3>1, <3>2
  <2> QED BY <1>6, <2>2, <2>3 DEF RecordFailure
<1>7. ASSUME NEW e \in Executors, WriteRefused(e) \/ Clean(e) \/ Remove(e) \/ Crash(e)
      PROVE  TypeOK'
  <2>1. task' \in [Executors -> Task]
    <3>1. [task[e] EXCEPT !.pc = "removing"] \in Task
      <4>1. task[e] \in Task /\ "removing" \in Places
        BY DEF Places
      <4> QED BY <4>1, Zenon DEF Task, Places
    <3>2. \/ task' = [task EXCEPT ![e] = IdleTask]
          \/ task' = [task EXCEPT ![e] = [task[e] EXCEPT !.pc = "removing"]]
      BY <1>7 DEF WriteRefused, Clean, Remove, Crash
    <3> QED BY <1>0, <3>1, <3>2
  <2>2. CASE WriteRefused(e)
    <3>1. Made(disk) \in Disk /\ Prepared(Made(disk), job.kind) \in Disk
      BY DiskWrites
    <3>2. disk' \in Disk
      BY <2>2, <3>1 DEF WriteRefused
    <3> QED BY <2>1, <2>2, <3>2 DEF WriteRefused
  <2>3. CASE Clean(e)
    <3>1. disk' \in Disk
      BY <2>3, TestIsSafe DEF Clean, Cleaned
    <3> QED BY <2>1, <2>3, <3>1 DEF Clean
  <2>4. CASE Remove(e)
    <3>1. disk' \in Disk
      BY <2>4, RemovalIsWhole DEF Remove
    <3> QED BY <2>1, <2>4, <3>1 DEF Remove
  <2>5. CASE Crash(e)
    <3>1. orphans' \in Nat
      BY <2>5 DEF Crash
    <3> QED BY <2>1, <2>5, <3>1 DEF Crash
  <2> QED BY <1>7, <2>2, <2>3, <2>4, <2>5
<1>8. CASE ChildWrites
  BY <1>8 DEF ChildWrites, Disk
<1>9. CASE Recover \/ Requeue \/ RequestCancel \/ Cancel \/ DeleteRow
  <2>1. job' \in Job
    BY <1>9, JobWrites
    DEF Recover, Requeue, RequestCancel, Cancel, DeleteRow, Statuses
  <2> QED BY <1>9, <2>1 DEF Recover, Requeue, RequestCancel, Cancel, DeleteRow
<1>10. CASE CreateJob \/ StorePrompt
  <2>1. job' \in Job
    BY <1>10, JobWrites DEF CreateJob, StorePrompt, Statuses
  <2>2. disk' \in Disk
    BY <1>10, DiskWrites DEF CreateJob, StorePrompt
  <2> QED BY <1>10, <2>1, <2>2 DEF CreateJob, StorePrompt
<1>11. CASE CleanCancelled \/ DeleteWorkspace \/ RemoveWorktree
  <2>1. disk' \in Disk
    BY <1>11, TestIsSafe, RemovalIsWhole
    DEF CleanCancelled, DeleteWorkspace, RemoveWorktree, Cleaned
  <2> QED BY <1>11, <2>1 DEF CleanCancelled, DeleteWorkspace, RemoveWorktree
<1>12. CASE DeleteRead \/ CommandDies \/ OrphanEnds
  <2>1. orphans' \in Nat
    BY <1>12 DEF DeleteRead, CommandDies, OrphanEnds
  <2> QED BY <1>12, <2>1 DEF DeleteRead, CommandDies, OrphanEnds
<1>13. CASE UNCHANGED vars
  BY <1>13 DEF vars
<1> QED
  BY <1>1, <1>2, <1>3, <1>4, <1>5, <1>6, <1>7, <1>8, <1>9, <1>10, <1>11, <1>12, <1>13, Steps
  DEF Continues, Elsewhere, GoesOn

\* A job that was not enqueued yet has a typed row.
LEMMA TypeInit == Init => TypeOK
<1> SUFFICES ASSUME Init PROVE TypeOK
  OBVIOUS
<1>1. job \in Job
  <2>1. job \in [cli : {"codex", "claude"}, kind : Kinds,
                policy : SUPPORTED_CLEANUP_POLICIES, private : BOOLEAN,
                status : {"unborn"}, attempts : {0}, cancel : {FALSE}, path : {FALSE}]
    BY Zenon DEF Init
  <2>2. job = [cli |-> job.cli, kind |-> job.kind, policy |-> job.policy,
               private |-> job.private, status |-> "unborn", attempts |-> 0,
               cancel |-> FALSE, path |-> FALSE]
    BY <2>1
  <2>3. /\ job.cli \in {"codex", "claude"} /\ job.kind \in Kinds
        /\ job.policy \in SUPPORTED_CLEANUP_POLICIES /\ job.private \in BOOLEAN
    BY <2>1
  <2>4. ASSUME NEW cli \in {"codex", "claude"}, NEW kind \in Kinds,
               NEW policy \in SUPPORTED_CLEANUP_POLICIES, NEW private \in BOOLEAN
        PROVE  [cli |-> cli, kind |-> kind, policy |-> policy, private |-> private,
                status |-> "unborn", attempts |-> 0, cancel |-> FALSE, path |-> FALSE] \in Job
    BY DEF Job
  <2>5. [cli |-> job.cli, kind |-> job.kind, policy |-> job.policy,
         private |-> job.private, status |-> "unborn", attempts |-> 0,
         cancel |-> FALSE, path |-> FALSE] \in Job
    BY <2>3, <2>4
  <2> QED BY <2>2, <2>5
<1>2. disk \in Disk
  BY DEF Init, Nothing, Disk
<1>3. task \in [Executors -> Task]
  BY DEF Init, IdleTask, Task
<1> QED BY <1>1, <1>2, <1>3 DEF Init, TypeOK

\* The row, the workspace, the executions, their children and the operator keep
\* their types, for every backend, policy and kind of workspace, in both
\* deployments and however often processes die.
THEOREM TypesHold == Spec => []TypeOK
BY TypeInit, TypeStep, PTL DEF Spec

-----------------------------------------------------------------------------
\* What a step never changes, and that what is abandoned or torn stays so.
LEMMA Lasting ==
  ASSUME TypeOK, [Next]_vars
  PROVE  /\ UNCHANGED <<job.cli, job.kind, job.policy, job.private, deployment>>
         /\ torn => torn'
         /\ abandoned => abandoned'
<1> USE DEF TypeOK
<1>1. ASSUME NEW e \in Executors, Start(e) \/ Continues(e)
      PROVE  /\ UNCHANGED <<deployment, torn>>
             /\ abandoned => abandoned'
  <2>1. CASE Interrupted(e)
    BY <2>1 DEF Interrupted
  <2>2. CASE Crash(e)
    BY <2>2 DEF Crash
  <2>3. CASE Start(e) \/ Fed(e) \/ ChildExits(e) \/ PipesClose(e) \/ ReaderFails(e) \/ GoesOn(e)
    <3>1. UNCHANGED <<deployment, torn, abandoned>>
      BY <2>3, Zenon
      DEF Start, Fed, ChildExits, PipesClose, ReaderFails, GoesOn, TimesOut, Killed, Succeeds,
          Raises, RecordFailure, WriteRefused, Clean, Remove
    <3> QED BY <3>1
  <2> QED BY <1>1, <2>1, <2>2, <2>3 DEF Continues
<1>2. ASSUME NEW e \in Executors, Start(e) \/ Continues(e)
      PROVE  UNCHANGED <<job.cli, job.kind, job.policy, job.private>>
  <2>1. CASE Start(e)
    BY <2>1 DEF Start, Claimed, Job
  <2>2. CASE Succeeds(e)
    BY <2>2 DEF Succeeds, Ended, Job
  <2>3. CASE RecordFailure(e)
    BY <2>3 DEF RecordFailure, Ended, Job
  <2>4. CASE job' = job
    BY <2>4
  <2> QED
    BY <1>2, <2>1, <2>2, <2>3, <2>4
    DEF Continues, GoesOn, Fed, ChildExits, TimesOut, Killed, PipesClose, ReaderFails, Raises,
        WriteRefused, Clean, Remove, Interrupted, Crash
<1>3. CASE \/ ChildWrites \/ OrphanEnds \/ CleanCancelled \/ DeleteRead \/ DeleteWorkspace
           \/ RemoveWorktree \/ CommandDies \/ UNCHANGED vars
  BY <1>3
  DEF ChildWrites, OrphanEnds, CleanCancelled, DeleteRead, DeleteWorkspace, RemoveWorktree,
      CommandDies, vars
<1>4. CASE \/ Recover \/ Requeue \/ RequestCancel \/ Cancel \/ CreateJob \/ StorePrompt
           \/ DeleteRow
  <2>1. /\ UNCHANGED <<deployment, torn, abandoned>>
        /\ \/ job' = [job EXCEPT !.cancel = TRUE]
           \/ job' = [job EXCEPT !.path = TRUE]
           \/ \E status \in Statuses :
                \/ job' = [job EXCEPT !.status = status]
                \/ job' = [job EXCEPT !.status = status, !.cancel = FALSE]
    BY <1>4
    DEF Recover, Requeue, RequestCancel, Cancel, CreateJob, StorePrompt, DeleteRow, Ended,
        Statuses
  <2>2. UNCHANGED <<job.cli, job.kind, job.policy, job.private>>
    BY <2>1 DEF Job
  <2> QED BY <2>1, <2>2
<1> QED BY <1>1, <1>2, <1>3, <1>4, Steps DEF Elsewhere

-----------------------------------------------------------------------------
\* Supervision.

Active(e) == task[e].pc \notin {"idle", "cleaning", "removing"}

SuperInv ==
  /\ \A e \in Executors : task[e].child \/ task[e].held => Active(e)
  /\ \A e \in Executors : Active(e) => job.status \in {"running", "deleted"}
  /\ \A d, e \in Executors : Active(d) /\ Active(e) => d = e
  /\ job.cli = "codex" /\ ~abandoned /\ (deployment = "one" \/ ~unrecorded) => orphans = 0
  /\ deployment = "one" => \A e \in Executors : Active(e) => job.status = "running" /\ ~MidSection

\* Fields of a task that has no child.
LEMMA IdleFields ==
  ASSUME NEW pc, NEW result
  PROVE  /\ IdleTask.pc = "idle" /\ ~IdleTask.child /\ ~IdleTask.held
         /\ [IdleTask EXCEPT !.pc = pc, !.result = result].pc = pc
         /\ ~[IdleTask EXCEPT !.pc = pc, !.result = result].child
         /\ ~[IdleTask EXCEPT !.pc = pc, !.result = result].held
BY DEF IdleTask

\* Fields of a task that goes on.
LEMMA TaskFields ==
  ASSUME NEW e, task[e] \in Task, NEW pc, NEW result
  PROVE  /\ [task[e] EXCEPT !.pc = pc, !.result = result].pc = pc
         /\ [task[e] EXCEPT !.pc = pc, !.result = result].child = task[e].child
         /\ [task[e] EXCEPT !.pc = pc, !.result = result].prompt = task[e].prompt
         /\ [task[e] EXCEPT !.pc = pc].pc = pc
         /\ [task[e] EXCEPT !.pc = pc].child = task[e].child
         /\ [task[e] EXCEPT !.pc = pc].prompt = task[e].prompt
         /\ [task[e] EXCEPT !.pc = pc].held = task[e].held
         /\ [task[e] EXCEPT !.pc = pc].result = task[e].result
         /\ [task[e] EXCEPT !.pc = pc, !.result = result].held = task[e].held
         /\ [task[e] EXCEPT !.held = FALSE].pc = task[e].pc
         /\ [task[e] EXCEPT !.held = FALSE].child = task[e].child
         /\ [task[e] EXCEPT !.held = FALSE].prompt = task[e].prompt
         /\ [task[e] EXCEPT !.held = FALSE].result = task[e].result
<1> DEFINE t == task[e]
<1>1. t \in Task
  OBVIOUS
<1> HIDE DEF t
<1>2. /\ [t EXCEPT !.pc = pc, !.result = result].pc = pc
      /\ [t EXCEPT !.pc = pc, !.result = result].child = t.child
      /\ [t EXCEPT !.pc = pc, !.result = result].prompt = t.prompt
      /\ [t EXCEPT !.pc = pc].pc = pc
      /\ [t EXCEPT !.pc = pc].child = t.child
      /\ [t EXCEPT !.pc = pc].prompt = t.prompt
      /\ [t EXCEPT !.pc = pc].held = t.held
      /\ [t EXCEPT !.pc = pc].result = t.result
      /\ [t EXCEPT !.pc = pc, !.result = result].held = t.held
      /\ [t EXCEPT !.held = FALSE].pc = t.pc
      /\ [t EXCEPT !.held = FALSE].child = t.child
      /\ [t EXCEPT !.held = FALSE].prompt = t.prompt
      /\ [t EXCEPT !.held = FALSE].result = t.result
  BY <1>1 DEF Task
<1> QED BY <1>2 DEF t

\* What a step of an execution after its start does to its task.
LEMMA TaskMoves ==
  ASSUME TypeOK, NEW e \in Executors, Continues(e)
  PROVE  /\ \A d \in Executors \ {e} : task'[d] = task[d]
         /\ Active(e)' => Active(e)
         /\ task'[e].child => task[e].child /\ task'[e].prompt = task[e].prompt
         /\ (task'[e].child \/ task'[e].held) /\ Active(e) => Active(e)'
         /\ task'[e].held => Active(e) \/ task[e].held
<1> USE DEF TypeOK, Active
<1>0. IdleTask.pc = "idle" /\ ~IdleTask.child /\ ~IdleTask.held
  BY DEF IdleTask
<1>1. CASE PipesClose(e) \/ Raises(e) \/ Fed(e)
  <2>1. \/ /\ Active(e)
           /\ \/ task' = [task EXCEPT ![e] = [task[e] EXCEPT !.pc = "running"]]
              \/ task' = [task EXCEPT ![e] = [task[e] EXCEPT !.pc = "ended"]]
        \/ task' = [task EXCEPT ![e] = [task[e] EXCEPT !.held = FALSE]]
    BY <1>1 DEF PipesClose, Raises, Fed
  <2>2. \A d \in Executors \ {e} : task'[d] = task[d]
    BY <2>1
  <2>3. \/ /\ Active(e)
           /\ \/ task'[e] = [task[e] EXCEPT !.pc = "running"]
              \/ task'[e] = [task[e] EXCEPT !.pc = "ended"]
        \/ task'[e] = [task[e] EXCEPT !.held = FALSE]
    BY <2>1
  <2>4. /\ task'[e].child = task[e].child /\ task'[e].prompt = task[e].prompt
        /\ \/ Active(e) /\ task'[e].pc \in {"running", "ended"}
           \/ task'[e].pc = task[e].pc /\ ~task'[e].held
    <3>1. task[e] \in Task
      OBVIOUS
    <3>2. CASE task'[e] = [task[e] EXCEPT !.held = FALSE]
      <4>1. ~task'[e].held
        BY <3>1, <3>2 DEF Task
      <4> QED BY <3>1, <3>2, <4>1, TaskFields
    <3>3. ASSUME NEW pc \in {"running", "ended"}, task'[e] = [task[e] EXCEPT !.pc = pc],
                 Active(e)
          PROVE  /\ task'[e].child = task[e].child /\ task'[e].prompt = task[e].prompt
                 /\ task'[e].pc \in {"running", "ended"}
      BY <3>1, <3>3, TaskFields
    <3> QED BY <2>3, <3>2, <3>3
  <2> QED BY <2>2, <2>4
<1>2. CASE Killed(e) \/ ChildExits(e)
  <2>1. \/ \E held \in BOOLEAN :
             task' = [task EXCEPT ![e] =
               [task[e] EXCEPT !.pc = "gathering", !.child = FALSE, !.held = held]]
        \/ \E result \in {"completed", "retryable", "permanent"}, held \in BOOLEAN :
             task' = [task EXCEPT ![e] =
               [task[e] EXCEPT !.pc = "gathering", !.child = FALSE, !.result = result,
                               !.held = held]]
    BY <1>2 DEF Killed, ChildExits
  <2>2. ~task'[e].child /\ task'[e].pc = "gathering"
    <3>1. task[e] \in Task
      OBVIOUS
    <3>2. ASSUME NEW t \in Task, NEW result, NEW held
          PROVE  /\ ~[t EXCEPT !.pc = "gathering", !.child = FALSE, !.held = held].child
                 /\ [t EXCEPT !.pc = "gathering", !.child = FALSE, !.held = held].pc = "gathering"
                 /\ ~[t EXCEPT !.pc = "gathering", !.child = FALSE, !.result = result,
                               !.held = held].child
                 /\ [t EXCEPT !.pc = "gathering", !.child = FALSE, !.result = result,
                              !.held = held].pc = "gathering"
      BY DEF Task
    <3>3. PICK held, result :
            \/ task'[e] = [task[e] EXCEPT !.pc = "gathering", !.child = FALSE, !.held = held]
            \/ task'[e] = [task[e] EXCEPT !.pc = "gathering", !.child = FALSE,
                                          !.result = result, !.held = held]
      BY <2>1
    <3> DEFINE t == task[e]
    <3>4. /\ t \in Task
          /\ \/ task'[e] = [t EXCEPT !.pc = "gathering", !.child = FALSE, !.held = held]
             \/ task'[e] = [t EXCEPT !.pc = "gathering", !.child = FALSE, !.result = result,
                                     !.held = held]
      BY <3>1, <3>3
    <3> HIDE DEF t
    <3>5. CASE task'[e] = [t EXCEPT !.pc = "gathering", !.child = FALSE, !.held = held]
      BY <3>2, <3>4, <3>5
    <3>6. CASE task'[e] = [t EXCEPT !.pc = "gathering", !.child = FALSE, !.result = result,
                                    !.held = held]
      BY <3>2, <3>4, <3>6
    <3> QED BY <3>4, <3>5, <3>6
  <2>3. Active(e)
    BY <1>2 DEF Killed, ChildExits
  <2> QED BY <2>1, <2>2, <2>3
<1>3. CASE Succeeds(e)
  <2>1. Active(e)
    BY <1>3 DEF Succeeds
  <2>2. \/ task' = [task EXCEPT ![e] = IdleTask]
        \/ task' = [task EXCEPT ![e] = [IdleTask EXCEPT !.pc = "cleaning", !.result = "completed"]]
        \/ task' = [task EXCEPT ![e] = [task[e] EXCEPT !.pc = "ended", !.result = "permanent"]]
    BY <1>3 DEF Succeeds
  <2>3. \/ ~task'[e].child /\ ~task'[e].held
        \/ task'[e].child = task[e].child /\ task'[e].prompt = task[e].prompt /\ Active(e)'
    <3>1. \/ task'[e] = IdleTask
          \/ task'[e] = [IdleTask EXCEPT !.pc = "cleaning", !.result = "completed"]
          \/ task'[e] = [task[e] EXCEPT !.pc = "ended", !.result = "permanent"]
      BY <2>2
    <3>2. \/ ~task'[e].child /\ ~task'[e].held
          \/ /\ task'[e].child = task[e].child /\ task'[e].prompt = task[e].prompt
             /\ task'[e].pc = "ended"
      <4>1. task[e] \in Task
        OBVIOUS
      <4>2. CASE task'[e] = [task[e] EXCEPT !.pc = "ended", !.result = "permanent"]
        BY <4>1, <4>2, TaskFields
      <4> QED BY <3>1, <4>2, IdleFields
    <3> QED BY <3>2
  <2> QED BY <2>1, <2>2, <2>3
<1>4. CASE RecordFailure(e)
  BY <1>0, <1>4 DEF RecordFailure, IdleTask, Task
<1>5. CASE WriteRefused(e) \/ Remove(e) \/ Crash(e)
  BY <1>0, <1>5 DEF WriteRefused, Remove, Crash
<1>6. CASE Clean(e)
  <2>1. task[e].pc = "cleaning" /\ task[e] \in Task
    BY <1>6 DEF Clean
  <2>2. \/ task' = [task EXCEPT ![e] = [task[e] EXCEPT !.pc = "removing"]]
        \/ task' = [task EXCEPT ![e] = IdleTask]
    BY <1>6 DEF Clean
  <2>3. \/ /\ task'[e].pc = "removing" /\ task'[e].child = task[e].child
           /\ task'[e].prompt = task[e].prompt /\ task'[e].held = task[e].held
        \/ task'[e].pc = "idle" /\ ~task'[e].child /\ ~task'[e].held
    <3>1. CASE task' = [task EXCEPT ![e] = [task[e] EXCEPT !.pc = "removing"]]
      <4>1. task'[e] = [task[e] EXCEPT !.pc = "removing"]
        BY <3>1
      <4> QED BY <2>1, <4>1, TaskFields
    <3> QED BY <1>0, <2>2, <3>1
  <2> QED BY <2>1, <2>2, <2>3
<1>7. CASE Interrupted(e) \/ ReaderFails(e) \/ TimesOut(e)
  <2>1. Active(e)
    BY <1>7 DEF Interrupted, ReaderFails, TimesOut
  <2>2. \/ task' = [task EXCEPT ![e] = [task[e] EXCEPT !.pc = "terminating", !.result = "interrupted"]]
        \/ task' = [task EXCEPT ![e] = [task[e] EXCEPT !.pc = "terminating", !.result = "retryable"]]
        \/ task' = [task EXCEPT ![e] = [IdleTask EXCEPT !.pc = "ended", !.result = "interrupted"]]
        \/ task' = [task EXCEPT ![e] = [IdleTask EXCEPT !.pc = "ended", !.result = "permanent"]]
    BY <1>7 DEF Interrupted, ReaderFails, TimesOut, LeaveChild
  <2>3. /\ task'[e].pc \in {"terminating", "ended"}
        /\ task'[e].child => task[e].child /\ task'[e].prompt = task[e].prompt
    <3>1. PICK result :
             \/ task'[e] = [task[e] EXCEPT !.pc = "terminating", !.result = result]
             \/ task'[e] = [IdleTask EXCEPT !.pc = "ended", !.result = result]
      BY <2>2
    <3>2. task[e] \in Task
      OBVIOUS
    <3>3. CASE task'[e] = [IdleTask EXCEPT !.pc = "ended", !.result = result]
      BY <3>3, IdleFields
    <3>4. CASE task'[e] = [task[e] EXCEPT !.pc = "terminating", !.result = result]
      BY <3>2, <3>4, TaskFields
    <3> QED BY <3>1, <3>3, <3>4
  <2> QED BY <2>1, <2>2, <2>3
<1> QED BY <1>1, <1>2, <1>3, <1>4, <1>5, <1>6, <1>7 DEF Continues, GoesOn

\* What the start of an execution does to its task.
LEMMA StartedTask ==
  ASSUME TypeOK, NEW e \in Executors, Start(e)
  PROVE  /\ \A d \in Executors \ {e} : task'[d] = task[d]
         /\ Active(e)' /\ ~task'[e].held
         /\ task'[e].child => /\ disk' = WorkspaceAtStart
                             /\ task'[e].prompt = IF job.private /\ ~job.path
                                                  THEN "placeholder" ELSE "real"
<1>1. PICK t \in Task :
        /\ task' = [task EXCEPT ![e] = t]
        /\ t.pc \notin {"idle", "cleaning", "removing"} /\ ~t.held
        /\ t.child => /\ disk' = WorkspaceAtStart
                     /\ t.prompt = IF job.private /\ ~job.path THEN "placeholder" ELSE "real"
  <2>1. CASE task' = [task EXCEPT ![e] = [IdleTask EXCEPT !.pc = "ended", !.result = "permanent"]]
    <3> DEFINE t == [IdleTask EXCEPT !.pc = "ended", !.result = "permanent"]
    <3>1. t \in Task /\ t.pc = "ended" /\ ~t.child /\ ~t.held
      BY DEF IdleTask, Task
    <3> QED BY <2>1, <3>1
  <2>2. CASE /\ disk' = WorkspaceAtStart
             /\ \E pc \in {"running", "feeding"} :
                  task' = [task EXCEPT ![e] =
                    [IdleTask EXCEPT !.pc = pc, !.child = TRUE,
                                     !.prompt = IF job.private /\ ~job.path THEN "placeholder"
                                                ELSE "real"]]
    <3>1. PICK pc \in {"running", "feeding"} :
            task' = [task EXCEPT ![e] =
              [IdleTask EXCEPT !.pc = pc, !.child = TRUE,
                               !.prompt = IF job.private /\ ~job.path THEN "placeholder"
                                          ELSE "real"]]
      BY <2>2
    <3> DEFINE t == [IdleTask EXCEPT !.pc = pc, !.child = TRUE,
                       !.prompt = IF job.private /\ ~job.path THEN "placeholder" ELSE "real"]
    <3>2. /\ t.pc = pc /\ ~t.held
          /\ t.prompt = IF job.private /\ ~job.path THEN "placeholder" ELSE "real"
      BY DEF IdleTask
    <3>3. t \in Task
      BY DEF IdleTask, Task
    <3> QED BY <2>2, <3>1, <3>2, <3>3
  <2> QED BY <2>1, <2>2 DEF Start, LeaveChild
<1> QED BY <1>1 DEF Active, TypeOK

\* An execution that goes on is not idle, and does nothing of the operator's.
LEMMA GoingOn ==
  ASSUME NEW e \in Executors, Continues(e)
  PROVE  /\ operator' = operator
         /\ task[e].pc # "idle" \/ task[e].held
<1>1. operator' = operator
  BY Zenon
  DEF Continues, GoesOn, Fed, ChildExits, PipesClose, ReaderFails, Interrupted, Crash, TimesOut,
      Killed, Succeeds, Raises, RecordFailure, WriteRefused, Clean, Remove
<1>2. task[e].pc # "idle" \/ task[e].held
  BY DEF Continues, GoesOn, Fed, ChildExits, PipesClose, ReaderFails, Interrupted, Crash,
         TimesOut, Killed, Succeeds, Raises, RecordFailure, WriteRefused, Clean, Remove
<1> QED BY <1>1, <1>2

\* Whoever writes an outcome does not execute the job any more.
LEMMA OutcomeEnds ==
  ASSUME TypeOK, NEW e \in Executors, Continues(e), job' # job
  PROVE  Active(e) /\ ~Active(e)'
<1> USE DEF TypeOK
<1>1. CASE Succeeds(e)
  <2>1. Active(e)
    BY <1>1 DEF Succeeds, Active
  <2>2. task'[e] = IdleTask
        \/ task'[e] = [IdleTask EXCEPT !.pc = "cleaning", !.result = "completed"]
    BY <1>1 DEF Succeeds
  <2>3. task'[e].pc \in {"idle", "cleaning"}
    <3>1. CASE task'[e] = IdleTask
      BY <3>1, IdleFields
    <3>2. CASE task'[e] = [IdleTask EXCEPT !.pc = "cleaning", !.result = "completed"]
      BY <3>2, IdleFields
    <3> QED BY <2>2, <3>1, <3>2
  <2> QED BY <2>1, <2>3 DEF Active
<1>2. CASE RecordFailure(e)
  <2>1. Active(e)
    BY <1>2 DEF RecordFailure, Active
  <2>2. task'[e] = IdleTask
        \/ task'[e] = [IdleTask EXCEPT !.pc = "cleaning", !.result = "failed"]
    BY <1>2 DEF RecordFailure
  <2>3. task'[e].pc \in {"idle", "cleaning"}
    <3>1. CASE task'[e] = IdleTask
      BY <3>1, IdleFields
    <3>2. CASE task'[e] = [IdleTask EXCEPT !.pc = "cleaning", !.result = "failed"]
      BY <3>2, IdleFields
    <3> QED BY <2>2, <3>1, <3>2
  <2> QED BY <2>1, <2>3 DEF Active
<1> QED
  BY <1>1, <1>2
  DEF Continues, GoesOn, Fed, ChildExits, Interrupted, Crash, TimesOut, Killed, PipesClose,
      ReaderFails, Raises, WriteRefused, Clean, Remove

\* Children that are left are counted as abandoned or, with several processes,
\* as unrecorded.
LEMMA OrphansCome ==
  ASSUME TypeOK, SuperInv, NEW e \in Executors, Continues(e), orphans' # orphans,
         job.cli = "codex"
  PROVE  abandoned' \/ (deployment # "one" /\ unrecorded')
<1>1. ASSUME EventRefused, Active(e)
      PROVE  deployment # "one"
  BY <1>1 DEF EventRefused, SuperInv
<1>2. CASE Crash(e)
  BY <1>2 DEF Crash
<1>3. CASE TimesOut(e) \/ ReaderFails(e)
  BY <1>1, <1>3 DEF TimesOut, ReaderFails, LeaveChild, Active
<1>4. CASE Interrupted(e)
  <2>1. Active(e)
    BY <1>4 DEF Interrupted, Active
  <2>2. \/ EventRefused /\ LeaveChild(e)
        \/ /\ task[e].child => Abandons(e)
           /\ task[e].child \/ task[e].held
           /\ abandoned' = (abandoned \/ task[e].pc = "terminating" \/ task[e].held)
    BY <1>4 DEF Interrupted
  <2> QED BY <1>1, <2>1, <2>2 DEF Abandons, LeaveChild
<1>5. CASE \/ Fed(e) \/ ChildExits(e) \/ PipesClose(e) \/ Killed(e) \/ Succeeds(e) \/ Raises(e)
           \/ RecordFailure(e) \/ WriteRefused(e) \/ Clean(e) \/ Remove(e)
  BY <1>5
  DEF Fed, ChildExits, PipesClose, Killed, Succeeds, Raises, RecordFailure, WriteRefused, Clean,
      Remove
<1> QED BY <1>2, <1>3, <1>4, <1>5 DEF Continues, GoesOn

\* Nobody else begins while somebody executes, and an event that is refused in
\* one process would need a job deleted under its execution.
LEMMA SuperStep ==
  ASSUME TypeOK, SuperInv, [Next]_vars
  PROVE  SuperInv'
<1> USE DEF TypeOK, SuperInv
<1>0. job'.cli = job.cli /\ deployment' = deployment /\ (abandoned => abandoned')
  BY Lasting
<1>1. ASSUME NEW e \in Executors, Start(e)
      PROVE  SuperInv'
  <2>1. job.status = "queued" /\ job'.status = "running" /\ operator' = operator /\ Interleaves
    BY <1>1 DEF Start, Claimed, Job
  <2>2. \A d \in Executors : ~Active(d) /\ ~task[d].child /\ ~task[d].held
    BY <2>1
  <2>3. \A d \in Executors \ {e} : ~Active(d)' /\ ~task'[d].child /\ ~task'[d].held
    BY <1>1, <2>2, StartedTask DEF Active
  <2>4. \/ UNCHANGED <<orphans, abandoned, unrecorded>>
        \/ deployment # "one" /\ unrecorded'
    BY <1>1, <2>1, <1>0 DEF Start, EventRefused, LeaveChild
  <2>5. deployment = "one" => ~MidSection'
    <3>1. \A d \in Executors \ {e} : task'[d] = task[d]
      BY <1>1, StartedTask
    <3>2. task'[e].pc \notin {"cleaning", "removing"}
      BY <1>1, StartedTask DEF Active
    <3> QED BY <2>1, <3>1, <3>2 DEF Interleaves, MidSection
  <2> QED BY <1>0, <1>1, <2>1, <2>3, <2>4, <2>5, StartedTask
<1>2. ASSUME NEW e \in Executors, Continues(e)
      PROVE  SuperInv'
  <2>1. \A d \in Executors : Active(d)' => Active(d)
    BY <1>2, TaskMoves DEF Active
  <2>2. \A d \in Executors : task'[d].child \/ task'[d].held => Active(d)'
    <3>1. ASSUME NEW d \in Executors, task'[d].child \/ task'[d].held
          PROVE  Active(d)'
      <4>1. CASE d = e
        BY <1>2, <3>1, <4>1, TaskMoves
      <4>2. CASE d # e
        BY <1>2, <3>1, <4>2, TaskMoves DEF Active
      <4> QED BY <4>1, <4>2
    <3> QED BY <3>1
  <2>3. job'.cli = "codex" /\ ~abandoned' /\ (deployment' = "one" \/ ~unrecorded')
          => orphans' = 0
    <3>1. unrecorded => unrecorded'
      BY <1>2
      DEF Continues, GoesOn, Fed, ChildExits, Interrupted, Crash, TimesOut, Killed, PipesClose,
          ReaderFails, Succeeds, Raises, RecordFailure, WriteRefused, Clean, Remove, LeaveChild
    <3> QED BY <1>0, <1>2, <3>1, OrphansCome
  <2>4. ASSUME NEW d \in Executors, Active(d)'
        PROVE  job' = job
    <3>1. Active(d)
      BY <2>1, <2>4
    <3> QED BY <1>2, <2>4, <3>1, OutcomeEnds
  <2>5. ASSUME NEW d \in Executors, Active(d)', deployment = "one"
        PROVE  ~MidSection'
    <3>1. Active(d) /\ ~MidSection
      BY <2>1, <2>5
    <3>2. ASSUME NEW c \in Executors, task'[c].pc \in {"cleaning", "removing"}
          PROVE  FALSE
      <4>1. task[c].pc \notin {"cleaning", "removing"}
        BY <3>1 DEF MidSection
      <4>2. c = e
        BY <1>2, <3>2, <4>1, TaskMoves
      <4>3. Active(e)
        BY <1>2, <4>1, <4>2, GoingOn DEF Active
      <4>4. c = d
        BY <3>1, <4>2, <4>3
      <4> QED BY <2>5, <3>2, <4>4 DEF Active
    <3> QED BY <1>2, <3>1, <3>2, GoingOn DEF MidSection
  <2> QED BY <1>0, <2>1, <2>2, <2>3, <2>4, <2>5
<1>3. ASSUME UNCHANGED <<task, orphans, abandoned, unrecorded>>,
             \/ \A e \in Executors : ~Active(e)
             \/ job'.status = job.status /\ operator' \in {operator, "idle"}
             \/ deployment # "one" /\ job'.status \in {job.status, "deleted"}
      PROVE  SuperInv'
  <2>1. \A e \in Executors : Active(e)' <=> Active(e)
    BY <1>3 DEF Active
  <2>2. operator' \in {operator, "idle"} /\ MidSection' => MidSection
    BY <1>3 DEF MidSection
  <2> QED BY <1>0, <1>3, <2>1, <2>2
<1>4. CASE ChildWrites \/ CommandDies \/ RequestCancel \/ StorePrompt \/ UNCHANGED vars
  <2>1. job'.status = job.status
    BY <1>4 DEF ChildWrites, CommandDies, RequestCancel, StorePrompt, vars, Job
  <2> QED
    BY <1>3, <1>4, <2>1 DEF ChildWrites, CommandDies, RequestCancel, StorePrompt, vars
<1>5. CASE \/ DeleteRead \/ CleanCancelled \/ DeleteWorkspace \/ RemoveWorktree \/ DeleteRow
  <2>1. deployment = "one" => \A e \in Executors : ~Active(e)
    BY <1>5
    DEF DeleteRead, MayDelete, CleanCancelled, DeleteWorkspace, RemoveWorktree, DeleteRow,
        MidSection
  <2>2. job'.status \in {job.status, "deleted"}
    BY <1>5 DEF DeleteRead, CleanCancelled, DeleteWorkspace, RemoveWorktree, DeleteRow, Job
  <2> QED
    BY <1>3, <1>5, <2>1, <2>2
    DEF DeleteRead, CleanCancelled, DeleteWorkspace, RemoveWorktree, DeleteRow
<1>6. CASE CreateJob \/ Requeue \/ Cancel \/ Recover
  <2>1. \A e \in Executors : ~Active(e)
    BY <1>6 DEF CreateJob, Requeue, Cancel, Recover, Active
  <2> QED BY <1>3, <1>6, <2>1 DEF CreateJob, Requeue, Cancel, Recover
<1>7. CASE OrphanEnds
  <2>1. ASSUME job.cli = "codex"
        PROVE  ~(~abandoned /\ (deployment = "one" \/ ~unrecorded))
    BY <1>7, <2>1 DEF OrphanEnds
  <2>2. \A e \in Executors : Active(e)' <=> Active(e)
    BY <1>7 DEF OrphanEnds, Active
  <2>3. MidSection' <=> MidSection
    BY <1>7 DEF OrphanEnds, MidSection
  <2> QED BY <1>0, <1>7, <2>1, <2>2, <2>3 DEF OrphanEnds
<1> QED
  BY <1>1, <1>2, <1>4, <1>5, <1>6, <1>7, Steps DEF Elsewhere

\* At first nobody executes the job.
LEMMA SuperInit == Init => SuperInv
BY DEF Init, SuperInv, Active, IdleTask

\* A codex child never outlives the claim of its job, and a job is never worked
\* on twice, but for a process that died or was stopped twice and, with several
\* processes, for an event that could not be recorded.
THEOREM Supervision == Spec => []ChildrenAreSupervised
<1>1. Spec => []SuperInv
  BY TypesHold, SuperInit, SuperStep, PTL DEF Spec
<1>2. SuperInv => ChildrenAreSupervised
  <2> SUFFICES ASSUME SuperInv, job.cli = "codex", ~abandoned,
                      deployment = "one" \/ ~unrecorded
               PROVE  /\ orphans = 0
                      /\ Cardinality({e \in Executors : task[e].child}) <=
                           (IF job.status \in {"running", "deleted"} THEN 1 ELSE 0)
    BY DEF ChildrenAreSupervised
  <2> DEFINE fathers == {e \in Executors : task[e].child}
  <2>1. CASE fathers = {}
    BY <2>1, FS_EmptySet DEF SuperInv
  <2>2. CASE fathers # {}
    <3>1. PICK e : e \in fathers
      BY <2>2
    <3>2. fathers = {e}
      BY <3>1 DEF SuperInv
    <3>3. Cardinality(fathers) = 1
      BY <3>2, FS_Singleton
    <3> QED BY <3>1, <3>3 DEF SuperInv
  <2> QED BY <2>1, <2>2
<1> QED BY <1>1, <1>2, PTL

-----------------------------------------------------------------------------
\* Equipment.  In one process, what enqueue, cancel, delete_job and the cleanup
\* after an outcome do in several operations excludes every execution.
EquipInv ==
  deployment = "one" /\ ~torn =>
    /\ \A e \in Executors : task[e].child => disk.workspace /\ task[e].prompt = "real"
    /\ job.private /\ job.status # "unborn" /\ operator # "storing" => job.path
    /\ operator # "idle" => job.status # "unborn"

\* In one process, where nothing comes between two operations of a handler.
LEMMA EquipStep ==
  ASSUME TypeOK, SuperInv, EquipInv, [Next]_vars
  PROVE  EquipInv'
<1> USE DEF TypeOK
<1>0. SUFFICES ASSUME deployment' = "one", ~torn'
               PROVE  EquipInv'
  BY DEF EquipInv
<1>1. deployment = "one" /\ ~torn
  BY <1>0, Lasting
<1>2. /\ \A e \in Executors : task[e].child => disk.workspace /\ task[e].prompt = "real"
      /\ job.private /\ job.status # "unborn" /\ operator # "storing" => job.path
      /\ operator # "idle" => job.status # "unborn"
  BY <1>1 DEF EquipInv
<1>3. /\ \A e \in Executors : task[e].child => Active(e)
      /\ MidSection => \A e \in Executors : ~Active(e)
  BY <1>1 DEF SuperInv
<1>4. Interleaves => operator = "idle"
  BY <1>1 DEF Interleaves, MidSection
\* The start of an execution.
<1>5. ASSUME NEW e \in Executors, Start(e)
      PROVE  EquipInv'
  <2>1. /\ operator' = "idle" /\ operator = "idle" /\ job.status = "queued"
        /\ \A d \in Executors : ~Active(d) /\ ~task[d].child
    BY <1>3, <1>4, <1>5 DEF Start, SuperInv
  <2>2. \A d \in Executors \ {e} : ~task'[d].child
    BY <1>5, <2>1, StartedTask
  <2>3. job.private => job.path
    BY <1>2, <2>1
  <2>4. /\ job'.private = job.private /\ job'.path = job.path
    BY <1>5 DEF Start, Claimed, Job
  <2>5. task'[e].child => disk'.workspace /\ task'[e].prompt = "real"
    <3>1. WorkspaceAtStart.workspace
      BY DiskWrites DEF WorkspaceAtStart
    <3> QED BY <1>5, <2>3, <3>1, StartedTask
  <2> QED BY <2>1, <2>2, <2>3, <2>4, <2>5 DEF EquipInv
\* Its other steps.
<1>6. ASSUME NEW e \in Executors, Continues(e)
      PROVE  EquipInv'
  <2>1. \A d \in Executors : task'[d].child => task[d].child /\ task'[d].prompt = task[d].prompt
    <3>1. ASSUME NEW d \in Executors, task'[d].child
          PROVE  task[d].child /\ task'[d].prompt = task[d].prompt
      <4>1. CASE d = e
        BY <1>6, <3>1, <4>1, TaskMoves
      <4>2. CASE d # e
        BY <1>6, <3>1, <4>2, TaskMoves
      <4> QED BY <4>1, <4>2
    <3> QED BY <3>1
  <2>2. operator' = operator
    BY <1>6, GoingOn
  <2>3. /\ job'.private = job.private /\ job'.path = job.path
        /\ job'.status = "unborn" <=> job.status = "unborn"
    BY <1>6
    DEF Continues, GoesOn, Fed, ChildExits, Interrupted, Crash, TimesOut, Killed, PipesClose,
        ReaderFails, Succeeds, Raises, RecordFailure, WriteRefused, Clean, Remove, Ended,
        StatusAfter, Job
  <2>4. ASSUME NEW d \in Executors, task[d].child
        PROVE  disk'.workspace
    <3>1. disk.workspace /\ Active(d)
      BY <1>2, <1>3, <2>4
    <3>2. CASE Clean(e) \/ Remove(e)
      BY <1>3, <3>1, <3>2 DEF Clean, Remove, MidSection
    <3>3. CASE Succeeds(e) \/ WriteRefused(e)
      <4>1. Made(disk) \in Disk /\ Made(disk).workspace
        BY DiskWrites
      <4>2. Prepared(Made(disk), job.kind).workspace
        BY <4>1, DiskWrites
      <4> QED BY <3>1, <3>3, <4>1, <4>2 DEF Succeeds, WriteRefused
    <3>4. CASE disk' = disk
      BY <3>1, <3>4
    <3> QED
      BY <1>6, <3>2, <3>3, <3>4
      DEF Continues, GoesOn, Fed, ChildExits, Interrupted, Crash, TimesOut, Killed, PipesClose,
          ReaderFails, Raises, RecordFailure
  <2> QED BY <1>2, <2>1, <2>2, <2>3, <2>4 DEF EquipInv
\* The operator and the scheduler.
<1>7. ASSUME task' = task,
             disk'.workspace = disk.workspace \/ \A e \in Executors : ~Active(e),
             job'.private /\ job'.status # "unborn" /\ operator' # "storing" => job'.path,
             operator' # "idle" => job'.status # "unborn"
      PROVE  EquipInv'
  BY <1>2, <1>3, <1>7 DEF EquipInv
<1>8. CASE ChildWrites \/ OrphanEnds \/ UNCHANGED vars
  BY <1>2, <1>7, <1>8 DEF ChildWrites, OrphanEnds, vars, Disk
<1>9. CASE Recover \/ Requeue \/ RequestCancel
  BY <1>2, <1>7, <1>9 DEF Recover, Requeue, RequestCancel, Ended, Job
<1>10. CASE Cancel \/ DeleteRead
  BY <1>2, <1>7, <1>10 DEF Cancel, DeleteRead, MayDelete, Job
<1>11. CASE CleanCancelled \/ DeleteWorkspace \/ RemoveWorktree \/ DeleteRow
  <2>1. MidSection /\ operator # "storing"
    BY <1>11 DEF CleanCancelled, DeleteWorkspace, RemoveWorktree, DeleteRow, MidSection
  <2>2. \A e \in Executors : ~Active(e)
    BY <1>3, <2>1
  <2>3. job.private /\ job.status # "unborn" => job.path
    BY <1>2, <2>1
  <2>4. /\ job'.private = job.private /\ job'.path = job.path
        /\ job.status # "unborn" /\ job'.status # "unborn"
    BY <1>2, <1>11 DEF CleanCancelled, DeleteWorkspace, RemoveWorktree, DeleteRow, Job
  <2> QED BY <1>7, <1>11, <2>2, <2>3, <2>4 DEF CleanCancelled, DeleteWorkspace, RemoveWorktree, DeleteRow
<1>12. CASE CreateJob
  <2>1. \A e \in Executors : ~Active(e)
    BY <1>12 DEF CreateJob, SuperInv
  <2> QED BY <1>7, <1>12, <2>1 DEF CreateJob, Job
<1>13. CASE StorePrompt
  <2>1. job'.path
    BY <1>13 DEF StorePrompt, Job
  <2>2. disk'.workspace
    BY <1>13, DiskWrites DEF StorePrompt
  <2>3. MidSection
    BY <1>13 DEF StorePrompt, MidSection
  <2> QED BY <1>2, <1>3, <1>7, <1>13, <2>1, <2>3 DEF StorePrompt
<1>14. CASE CommandDies
  BY <1>0, <1>14 DEF CommandDies
<1> QED
  BY <1>5, <1>6, <1>8, <1>9, <1>10, <1>11, <1>12, <1>13, <1>14, Steps DEF Elsewhere

\* At first there is no child to equip.
LEMMA EquipInit == Init => EquipInv
BY DEF Init, EquipInv, IdleTask

\* In one process, and as long as no deletion was cut short, no child works
\* from the placeholder of a private prompt or without its workspace.
THEOREM Equipment == Spec => []ChildrenAreEquipped
<1>1. Spec => [](TypeOK /\ SuperInv /\ EquipInv)
  BY TypeInit, TypeStep, SuperInit, SuperStep, EquipInit, EquipStep, PTL DEF Spec
<1>2. EquipInv => ChildrenAreEquipped
  BY DEF EquipInv, ChildrenAreEquipped
<1> QED BY <1>1, <1>2, PTL

-----------------------------------------------------------------------------
\* What is left of a workspace.  Seven parts, for one process and no deletion cut
\* short: each says what some step may rely on that finds the workspace later.

OneProcess == deployment = "one" /\ ~torn

\* Nobody is at the cleanup that follows an outcome.
NobodyCleans == \A e \in Executors : task[e].pc \notin {"cleaning", "removing"}

\* An execution past its start has a workspace (_persist_success only makes a
\* directory of the one it does not find).
RunsHaveWorkspaces ==
  \A e \in Executors :
    task[e].pc \in {"feeding", "running", "terminating", "gathering"} => disk.workspace

\* The cleanup is about the outcome that is in the row, and so is the removal of
\* a worktree that was found clean.
CleanupsFollow ==
  \A e \in Executors : task[e].pc \in {"cleaning", "removing"} =>
    /\ operator = "idle"
    /\ job.status \in {"completed", "failed"} /\ task[e].result = job.status
    /\ task[e].pc = "removing" => PolicyRemoves(job.policy, job.status)

\* Only that policy removes the workspace of a cancelled job.
ClearsByPolicy == operator = "clearing" => job.policy = "on_completion"

\* Nothing happened to a job whose prompt is not stored yet.
StoringIsFirst ==
  /\ operator = "storing" => job.status = "queued" /\ disk.workspace /\ disk.marker
  /\ job.status = "unborn" => ~job.path

\* A codex job has its own workspace or none, never a directory in its place.
WorkspacesAreMarked ==
  job.cli = "codex" /\ job.status # "deleted" /\ disk.workspace => disk.marker

Intact == disk.workspace /\ disk.marker /\ (job.path => disk.prompt)

\* Until it is completed or cancelled a job keeps what it was enqueued with.
UnfinishedAreIntact ==
  /\ job.policy # "on_completion" /\ operator # "removed"
  /\ job.status \in {"queued", "running", "waiting_retry", "failed"}
  => Intact

\* Once the cleanup is through, only changes keep a workspace.
OnlyChangesAreLeft ==
  /\ job.cli = "codex" /\ ~abandoned /\ job.policy = "on_completion" /\ NobodyCleans
  /\ job.status \in {"completed", "failed"} /\ disk.workspace
  => job.kind = "git_worktree" /\ disk.changes

WorkspaceInv ==
  OneProcess =>
    /\ RunsHaveWorkspaces
    /\ CleanupsFollow
    /\ ClearsByPolicy
    /\ StoringIsFirst
    /\ WorkspacesAreMarked
    /\ UnfinishedAreIntact
    /\ OnlyChangesAreLeft

\* What making, preparing and storing add, and that nothing else is touched.
LEMMA DiskAdds ==
  ASSUME NEW disc \in Disk, NEW kind
  PROVE  /\ Made(disc).marker = disc.marker /\ Made(disc).prompt = disc.prompt
         /\ Prepared(disc, kind).marker /\ Prepared(disc, kind).prompt = disc.prompt
         /\ WithPrompt(disc).marker = disc.marker /\ WithPrompt(disc).prompt
<1>1. Made(disc).marker = disc.marker /\ Made(disc).prompt = disc.prompt /\ Made(disc) \in Disk
  BY DiskWrites DEF Made, Disk
<1>2. Prepared(disc, kind).marker /\ Prepared(disc, kind).prompt = disc.prompt
  BY DEF Prepared, Disk
<1>3. WithPrompt(disc).marker = disc.marker /\ WithPrompt(disc).prompt
  BY <1>1 DEF WithPrompt, Disk
<1> QED BY <1>1, <1>2, <1>3

\* In one process, nobody executes the job while a handler is between two of
\* its operations, and nobody starts anything else.
LEMMA Alone ==
  ASSUME SuperInv, OneProcess
  PROVE  /\ MidSection => \A e \in Executors : ~Active(e)
         /\ Interleaves => operator = "idle" /\ NobodyCleans
BY DEF SuperInv, OneProcess, Interleaves, MidSection, NobodyCleans

Working == {"feeding", "running", "terminating", "gathering"}

\* An execution that starts works in a workspace or has failed already; what
\* it finds on disk stays or is prepared.
LEMMA StartedWork ==
  ASSUME TypeOK, NEW e \in Executors, Start(e)
  PROVE  /\ task'[e].pc \notin {"cleaning", "removing"}
         /\ task'[e].pc \in Working => disk'.workspace
         /\ disk' = disk \/ disk' = WorkspaceAtStart
         /\ WorkspaceAtStart.workspace /\ WorkspaceAtStart \in Disk
         /\ WorkspaceAtStart.prompt = disk.prompt
         /\ job.cli = "codex" \/ disk.marker => WorkspaceAtStart.marker
<1>1. /\ WorkspaceAtStart.workspace /\ WorkspaceAtStart \in Disk
      /\ WorkspaceAtStart.prompt = disk.prompt
      /\ job.cli = "codex" \/ disk.marker => WorkspaceAtStart.marker
  BY DiskWrites, DiskAdds DEF WorkspaceAtStart, TypeOK
<1>2. disk' = disk \/ disk' = WorkspaceAtStart
  BY DEF Start
<1>3. task'[e].pc \notin {"cleaning", "removing"}
  BY StartedTask DEF Active
<1>4. task'[e].pc \in Working => disk'.workspace
  <2>1. CASE task' = [task EXCEPT ![e] = [IdleTask EXCEPT !.pc = "ended", !.result = "permanent"]]
    <3>1. task'[e] = [IdleTask EXCEPT !.pc = "ended", !.result = "permanent"]
      BY <2>1 DEF TypeOK
    <3>2. task'[e].pc = "ended"
      BY <3>1, IdleFields
    <3> QED BY <3>2 DEF Working
  <2>2. CASE disk' = WorkspaceAtStart
    BY <1>1, <2>2
  <2> QED BY <2>1, <2>2 DEF Start, LeaveChild
<1> QED BY <1>1, <1>2, <1>3, <1>4

\* Where the other steps of an execution lead: work only goes on, a cleanup
\* begins with the outcome that is written, and a removal with a clean worktree.
LEMMA Turns ==
  ASSUME TypeOK, NEW e \in Executors, Continues(e)
  PROVE  /\ task'[e].pc \in Working => task[e].pc \in Working
         /\ task'[e].pc \in {"cleaning", "removing"} =>
              \/ PipesClose(e) /\ task'[e].pc = task[e].pc /\ task'[e].result = task[e].result
              \/ /\ Clean(e) /\ task'[e].pc = "removing" /\ task'[e].result = task[e].result
                 /\ task[e].pc = "cleaning" /\ WorktreeFoundClean(task[e].result)
              \/ /\ Succeeds(e) \/ RecordFailure(e)
                 /\ task'[e].pc = "cleaning"
                 /\ job'.status \in {"completed", "failed"} /\ task'[e].result = job'.status
<1> USE DEF TypeOK
<1>1. CASE Fed(e) \/ Raises(e)
  <2>1. \/ task'[e] = [task[e] EXCEPT !.pc = "running"] /\ task[e].pc = "feeding"
        \/ task'[e] = [task[e] EXCEPT !.pc = "ended"]
    BY <1>1 DEF Fed, Raises
  <2>2. task[e] \in Task
    OBVIOUS
  <2>3. \/ task'[e].pc = "running" /\ task[e].pc = "feeding"
        \/ task'[e].pc = "ended"
    <3>1. CASE task'[e] = [task[e] EXCEPT !.pc = "running"] /\ task[e].pc = "feeding"
      BY <2>2, <3>1, TaskFields
    <3>2. CASE task'[e] = [task[e] EXCEPT !.pc = "ended"]
      BY <2>2, <3>2, TaskFields
    <3> QED BY <2>1, <3>1, <3>2
  <2> QED BY <2>3 DEF Working
<1>2. CASE TimesOut(e) \/ Interrupted(e) \/ ReaderFails(e)
  <2>1. /\ task[e].pc \in Working
        /\ \/ task'[e] = [task[e] EXCEPT !.pc = "terminating", !.result = "retryable"]
           \/ task'[e] = [task[e] EXCEPT !.pc = "terminating", !.result = "interrupted"]
           \/ task'[e] = [IdleTask EXCEPT !.pc = "ended", !.result = "interrupted"]
           \/ task'[e] = [IdleTask EXCEPT !.pc = "ended", !.result = "permanent"]
    BY <1>2 DEF TimesOut, Interrupted, ReaderFails, LeaveChild, Working
  <2>2. task[e] \in Task
    OBVIOUS
  <2>3. task'[e].pc \in {"terminating", "ended"}
    <3>1. ASSUME NEW result, task'[e] = [IdleTask EXCEPT !.pc = "ended", !.result = result]
          PROVE  task'[e].pc = "ended"
      BY <3>1, IdleFields
    <3>2. ASSUME NEW result \in {"retryable", "interrupted"},
                 task'[e] = [task[e] EXCEPT !.pc = "terminating", !.result = result]
          PROVE  task'[e].pc = "terminating"
      BY <2>2, <3>2, TaskFields
    <3> QED BY <2>1, <3>1, <3>2
  <2> QED BY <2>1, <2>3
<1>3. CASE Killed(e) \/ ChildExits(e)
  <2>1. \/ \E held \in BOOLEAN :
             task' = [task EXCEPT ![e] =
               [task[e] EXCEPT !.pc = "gathering", !.child = FALSE, !.held = held]]
        \/ \E result \in {"completed", "retryable", "permanent"}, held \in BOOLEAN :
             task' = [task EXCEPT ![e] =
               [task[e] EXCEPT !.pc = "gathering", !.child = FALSE, !.result = result,
                               !.held = held]]
    BY <1>3 DEF Killed, ChildExits
  <2>2. task'[e].pc = "gathering"
    <3>1. task[e] \in Task
      OBVIOUS
    <3>2. ASSUME NEW t \in Task, NEW result, NEW held
          PROVE  /\ [t EXCEPT !.pc = "gathering", !.child = FALSE, !.held = held].pc = "gathering"
                 /\ [t EXCEPT !.pc = "gathering", !.child = FALSE, !.result = result,
                              !.held = held].pc = "gathering"
      BY DEF Task
    <3>3. \/ \E held \in BOOLEAN :
               task'[e] = [task[e] EXCEPT !.pc = "gathering", !.child = FALSE, !.held = held]
          \/ \E result \in {"completed", "retryable", "permanent"}, held \in BOOLEAN :
               task'[e] = [task[e] EXCEPT !.pc = "gathering", !.child = FALSE,
                                          !.result = result, !.held = held]
      BY <2>1
    <3>4. CASE \E held \in BOOLEAN :
                 task'[e] = [task[e] EXCEPT !.pc = "gathering", !.child = FALSE, !.held = held]
      BY <3>1, <3>2, <3>4, Zenon
    <3>5. CASE \E result \in {"completed", "retryable", "permanent"}, held \in BOOLEAN :
                 task'[e] = [task[e] EXCEPT !.pc = "gathering", !.child = FALSE,
                                            !.result = result, !.held = held]
      <4>1. PICK result \in {"completed", "retryable", "permanent"}, held \in BOOLEAN :
              task'[e] = [task[e] EXCEPT !.pc = "gathering", !.child = FALSE,
                                         !.result = result, !.held = held]
        BY <3>5
      <4> DEFINE t == task[e]
      <4>2. t \in Task /\ task'[e] = [t EXCEPT !.pc = "gathering", !.child = FALSE,
                                                !.result = result, !.held = held]
        BY <3>1, <4>1
      <4> HIDE DEF t
      <4> QED BY <3>2, <4>2
    <3> QED BY <3>3, <3>4, <3>5
  <2>3. task[e].pc \in Working
    BY <1>3 DEF Killed, ChildExits, Working
  <2> QED BY <2>2, <2>3
<1>4. CASE PipesClose(e)
  <2>1. task'[e] = [task[e] EXCEPT !.held = FALSE]
    BY <1>4 DEF PipesClose
  <2>2. task[e] \in Task
    OBVIOUS
  <2>3. task'[e].pc = task[e].pc /\ task'[e].result = task[e].result
    BY <2>1, <2>2 DEF Task
  <2> QED BY <1>4, <2>3
<1>5. CASE Succeeds(e)
  <2>1. \/ task'[e] = IdleTask
        \/ /\ task'[e] = [IdleTask EXCEPT !.pc = "cleaning", !.result = "completed"]
           /\ job' = Ended("completed")
        \/ task'[e] = [task[e] EXCEPT !.pc = "ended", !.result = "permanent"]
    BY <1>5 DEF Succeeds
  <2>2. task[e] \in Task
    OBVIOUS
  <2>3. Ended("completed").status = "completed"
    BY DEF Ended, Job
  <2>4. \/ task'[e].pc \in {"idle", "ended"}
        \/ task'[e].pc = "cleaning" /\ task'[e].result = "completed" /\ job'.status = "completed"
    <3>1. CASE task'[e] = IdleTask
      BY <3>1, IdleFields
    <3>2. CASE task'[e] = [task[e] EXCEPT !.pc = "ended", !.result = "permanent"]
      BY <2>2, <3>2, TaskFields
    <3>3. CASE /\ task'[e] = [IdleTask EXCEPT !.pc = "cleaning", !.result = "completed"]
               /\ job' = Ended("completed")
      BY <2>3, <3>3 DEF IdleTask
    <3> QED BY <2>1, <3>1, <3>2, <3>3
  <2> QED BY <1>5, <2>4 DEF Working
<1>6. CASE RecordFailure(e)
  <2>1. \/ task'[e] = IdleTask
        \/ /\ task'[e] = [IdleTask EXCEPT !.pc = "cleaning", !.result = "failed"]
           /\ job' = Ended("failed")
    BY <1>6 DEF RecordFailure
  <2>2. Ended("failed").status = "failed"
    BY DEF Ended, Job
  <2>3. \/ task'[e].pc = "idle"
        \/ task'[e].pc = "cleaning" /\ task'[e].result = "failed" /\ job'.status = "failed"
    <3>1. CASE task'[e] = IdleTask
      BY <3>1, IdleFields
    <3>2. CASE /\ task'[e] = [IdleTask EXCEPT !.pc = "cleaning", !.result = "failed"]
               /\ job' = Ended("failed")
      BY <2>2, <3>2 DEF IdleTask
    <3> QED BY <2>1, <3>1, <3>2
  <2> QED BY <1>6, <2>3 DEF Working
<1>7. CASE WriteRefused(e) \/ Remove(e) \/ Crash(e)
  <2>1. task'[e].pc = "idle"
    BY <1>7, IdleFields DEF WriteRefused, Remove, Crash
  <2> QED BY <2>1 DEF Working
<1>8. CASE Clean(e)
  <2>1. \/ task'[e] = IdleTask
        \/ /\ task'[e] = [task[e] EXCEPT !.pc = "removing"]
           /\ WorktreeFoundClean(task[e].result)
    BY <1>8 DEF Clean
  <2>2. task[e] \in Task /\ task[e].pc = "cleaning"
    BY <1>8 DEF Clean
  <2>3. CASE task'[e] = IdleTask
    BY <2>3, IdleFields DEF Working
  <2>4. CASE /\ task'[e] = [task[e] EXCEPT !.pc = "removing"]
             /\ WorktreeFoundClean(task[e].result)
    <3>1. task'[e].pc = "removing" /\ task'[e].result = task[e].result
      BY <2>2, <2>4, TaskFields
    <3> QED BY <1>8, <2>2, <2>4, <3>1 DEF Working
  <2> QED BY <2>1, <2>3, <2>4
<1> QED BY <1>1, <1>2, <1>3, <1>4, <1>5, <1>6, <1>7, <1>8 DEF Continues, GoesOn

\* The steps of an execution that touch the disk, and what they leave alone.
LEMMA DiskMoves ==
  ASSUME TypeOK, NEW e \in Executors, Continues(e)
  PROVE  /\ operator' = operator
         /\ \/ disk' = disk
            \/ Clean(e)
            \/ Remove(e)
            \/ /\ Succeeds(e) \/ WriteRefused(e)
               /\ disk'.workspace /\ disk'.prompt = disk.prompt
               /\ disk.marker \/ disk' = Prepared(Made(disk), job.kind) => disk'.marker
<1>1. operator' = operator
  BY GoingOn
<1>2. CASE Succeeds(e) \/ WriteRefused(e)
  <2>1. Made(disk) \in Disk
    BY DiskWrites DEF TypeOK
  <2>2. /\ Made(disk).workspace /\ Made(disk).prompt = disk.prompt
        /\ Made(disk).marker = disk.marker
        /\ Prepared(Made(disk), job.kind).workspace
        /\ Prepared(Made(disk), job.kind).prompt = disk.prompt
        /\ Prepared(Made(disk), job.kind).marker
    BY <2>1, DiskWrites, DiskAdds DEF TypeOK
  <2>3. disk' \in {disk, Made(disk), Prepared(Made(disk), job.kind)}
    BY <1>2 DEF Succeeds, WriteRefused
  <2> QED BY <1>1, <1>2, <2>2, <2>3
<1>3. CASE Clean(e) \/ Remove(e)
  BY <1>1, <1>3
<1>4. CASE \/ TimesOut(e) \/ Killed(e) \/ PipesClose(e) \/ Raises(e) \/ RecordFailure(e)
           \/ ReaderFails(e) \/ Fed(e) \/ ChildExits(e) \/ Interrupted(e) \/ Crash(e)
  <2>1. disk' = disk
    BY <1>4
    DEF Fed, ChildExits, Interrupted, Crash, TimesOut, Killed, PipesClose, ReaderFails, Raises,
        RecordFailure
  <2> QED BY <1>1, <2>1
<1> QED BY <1>2, <1>3, <1>4 DEF Continues, GoesOn

\* What the steps outside an execution do to the disk.
LEMMA OtherDiskMoves ==
  ASSUME TypeOK, Elsewhere
  PROVE  /\ task' = task
         /\ \/ disk' = disk
            \/ /\ ChildWrites /\ disk.workspace
               /\ disk'.workspace /\ disk'.changes
               /\ disk'.marker = disk.marker /\ disk'.prompt = disk.prompt
            \/ CreateJob /\ disk'.workspace /\ disk'.marker
            \/ StorePrompt /\ disk'.workspace /\ disk'.marker = disk.marker /\ disk'.prompt
            \/ /\ \/ CleanCancelled /\ job.policy = "on_completion"
                  \/ DeleteWorkspace
               /\ disk' = AfterTest(disk, job.kind)
            \/ RemoveWorktree /\ disk' = AfterRemove(disk)
<1> USE DEF TypeOK
<1>1. task' = task
  BY Zenon
  DEF Elsewhere, ChildWrites, OrphanEnds, Recover, Requeue, CreateJob, StorePrompt, RequestCancel,
      Cancel, CleanCancelled, DeleteRead, DeleteWorkspace, RemoveWorktree, DeleteRow, CommandDies,
      vars
<1>2. CASE ChildWrites
  <2>1. /\ disk'.workspace /\ disk'.changes
        /\ disk'.marker = disk.marker /\ disk'.prompt = disk.prompt
    BY <1>2 DEF ChildWrites, Disk
  <2> QED BY <1>1, <1>2, <2>1 DEF ChildWrites
<1>3. CASE CreateJob
  BY <1>1, <1>3, DiskWrites, DiskAdds DEF CreateJob
<1>4. CASE StorePrompt
  BY <1>1, <1>4, DiskWrites, DiskAdds DEF StorePrompt
<1>5. CASE CleanCancelled
  <2>1. disk' = disk
        \/ (job.policy = "on_completion" /\ disk' = AfterTest(disk, job.kind))
    BY <1>5 DEF CleanCancelled, Cleaned, PolicyRemoves
  <2> QED BY <1>1, <1>5, <2>1
<1>6. CASE DeleteWorkspace \/ RemoveWorktree
  BY <1>1, <1>6 DEF DeleteWorkspace, RemoveWorktree
<1>7. CASE \/ OrphanEnds \/ Recover \/ Requeue \/ RequestCancel \/ Cancel \/ DeleteRead
           \/ DeleteRow \/ CommandDies \/ UNCHANGED vars
  <2>1. disk' = disk
    BY <1>7
    DEF OrphanEnds, Recover, Requeue, RequestCancel, Cancel, DeleteRead, DeleteRow,
        CommandDies, vars
  <2> QED BY <1>1, <2>1
<1> QED BY <1>2, <1>3, <1>4, <1>5, <1>6, <1>7 DEF Elsewhere

\* Work goes on in a workspace: nothing is removed while anybody executes.
LEMMA RunsStep ==
  ASSUME TypeOK, SuperInv, WorkspaceInv, OneProcess, [Next]_vars
  PROVE  RunsHaveWorkspaces'
<1>0. \A d \in Executors : task[d].pc \in Working => disk.workspace
  BY DEF WorkspaceInv, RunsHaveWorkspaces, Working
<1>1. MidSection => \A d \in Executors : task[d].pc \notin Working
  BY Alone DEF Active, Working
<1>2. SUFFICES \A d \in Executors : task'[d].pc \in Working => disk'.workspace
  BY DEF RunsHaveWorkspaces, Working
<1>3. ASSUME NEW e \in Executors, Start(e)
      PROVE  \A d \in Executors : task'[d].pc \in Working => disk'.workspace
  <2>1. \A d \in Executors \ {e} : task'[d] = task[d]
    BY <1>3, StartedTask
  <2> QED BY <1>0, <1>3, <2>1, StartedWork
<1>4. ASSUME NEW e \in Executors, Continues(e)
      PROVE  \A d \in Executors : task'[d].pc \in Working => disk'.workspace
  <2>1. \A d \in Executors : task'[d].pc \in Working => task[d].pc \in Working
    <3>1. \A d \in Executors \ {e} : task'[d] = task[d]
      BY <1>4, TaskMoves
    <3> QED BY <1>4, <3>1, Turns
  <2>2. CASE disk' = disk
    BY <1>0, <2>1, <2>2
  <2>3. CASE Clean(e) \/ Remove(e)
    <3>1. MidSection
      BY <2>3 DEF Clean, Remove, MidSection
    <3> QED BY <1>1, <2>1, <3>1
  <2> QED BY <1>4, <2>2, <2>3, DiskMoves
<1>5. CASE Elsewhere
  <2>1. CASE CleanCancelled \/ DeleteWorkspace \/ RemoveWorktree
    <3>1. MidSection
      BY <2>1 DEF CleanCancelled, DeleteWorkspace, RemoveWorktree, MidSection
    <3> QED BY <1>1, <1>5, <3>1, OtherDiskMoves
  <2> QED BY <1>0, <1>5, <2>1, OtherDiskMoves
<1> QED BY <1>3, <1>4, <1>5, Steps

\* What an execution past its start writes into the row.
LEMMA RowMoves ==
  ASSUME TypeOK, NEW e \in Executors, Continues(e)
  PROVE  \/ job' = job
         \/ /\ Interleaves /\ job.status = "running" /\ job'.path = job.path
            /\ Succeeds(e) \/ (RecordFailure(e) /\ disk' = disk)
            /\ \/ job'.status \in {"cancelled", "waiting_retry"}
               \/ job'.status \in {"completed", "failed"} /\ task'[e].pc = "cleaning"
<1> USE DEF TypeOK
<1>1. ASSUME NEW status \in Statuses
      PROVE  Ended(status).status = status /\ Ended(status).path = job.path
  BY DEF Ended, Job
<1>2. [IdleTask EXCEPT !.pc = "cleaning", !.result = "completed"].pc = "cleaning"
  BY IdleFields
<1>3. [IdleTask EXCEPT !.pc = "cleaning", !.result = "failed"].pc = "cleaning"
  BY IdleFields
<1>4. CASE Succeeds(e)
  <2>1. ASSUME job' # job
        PROVE  \/ job' = Ended("cancelled")
               \/ /\ job' = Ended("completed")
                  /\ task'[e] = [IdleTask EXCEPT !.pc = "cleaning", !.result = "completed"]
    BY <1>4, <2>1 DEF Succeeds
  <2>2. {"cancelled", "completed"} \subseteq Statuses
    BY DEF Statuses
  <2> QED BY <1>1, <1>2, <1>4, <2>1, <2>2 DEF Succeeds
<1>5. CASE RecordFailure(e)
  <2>1. StatusAfter(task[e].result) \in {"waiting_retry", "failed"}
    BY DEF StatusAfter
  <2>2. \/ job' = Ended("waiting_retry")
        \/ /\ job' = Ended("failed")
           /\ task'[e] = [IdleTask EXCEPT !.pc = "cleaning", !.result = "failed"]
    BY <1>5, <2>1 DEF RecordFailure
  <2>3. {"waiting_retry", "failed"} \subseteq Statuses
    BY DEF Statuses
  <2> QED BY <1>1, <1>3, <1>5, <2>2, <2>3 DEF RecordFailure
<1>6. CASE job' = job
  BY <1>6
<1> QED
  BY <1>4, <1>5, <1>6
  DEF Continues, GoesOn, Fed, ChildExits, TimesOut, Killed, PipesClose, ReaderFails, Raises,
      WriteRefused, Clean, Remove, Interrupted, Crash

\* What the scheduler and the operator do to the row, when no deletion is cut
\* short, and which operation of a handler it is.
LEMMA OtherRowMoves ==
  ASSUME TypeOK, OneProcess', Elsewhere
  PROVE  \/ UNCHANGED <<job, operator>>
         \/ /\ Interleaves /\ operator' = operator
            /\ job.status \in {"running", "waiting_retry", "failed"}
            /\ job'.status \in {"running", "waiting_retry", "queued"}
            /\ job'.path = job.path
         \/ /\ Interleaves /\ operator' = "cleaning"
            /\ job.status \in {"queued", "waiting_retry", "failed"}
            /\ job'.status = "cancelled" /\ job'.path = job.path
         \/ /\ Interleaves /\ operator = "idle" /\ operator' = "deleting" /\ job' = job
         \/ /\ CreateJob /\ job.status = "unborn" /\ operator' \in {"storing", "idle"}
            /\ job'.status = "queued" /\ job'.path = job.path
         \/ /\ StorePrompt /\ operator = "storing" /\ operator' = "idle"
            /\ job'.status = job.status /\ job'.path
         \/ /\ CleanCancelled /\ operator = "cleaning" /\ job' = job
            /\ \/ operator' = "idle"
               \/ operator' = "clearing" /\ WorktreeFoundClean("cancelled")
         \/ /\ DeleteWorkspace /\ operator = "deleting" /\ job' = job
            /\ operator' \in {"forcing", "removed"}
         \/ /\ RemoveWorktree /\ operator \in {"clearing", "forcing"} /\ job' = job
            /\ operator' \in {"removed", "idle"}
         \/ /\ operator = "removed" /\ operator' = "idle"
            /\ job'.status = "deleted" /\ job'.path = job.path
<1> USE DEF TypeOK
<1>1. ASSUME NEW status \in Statuses
      PROVE  /\ [job EXCEPT !.status = status].status = status
             /\ [job EXCEPT !.status = status].path = job.path
             /\ [job EXCEPT !.status = status, !.cancel = FALSE].status = status
             /\ [job EXCEPT !.status = status, !.cancel = FALSE].path = job.path
             /\ [job EXCEPT !.cancel = TRUE].status = job.status
             /\ [job EXCEPT !.cancel = TRUE].path = job.path
             /\ [job EXCEPT !.path = TRUE].status = job.status
             /\ [job EXCEPT !.path = TRUE].path
  BY DEF Job
<1>2. {"queued", "waiting_retry", "cancelled", "deleted", "running"} \subseteq Statuses
  BY DEF Statuses
<1>3. CASE ChildWrites \/ OrphanEnds \/ UNCHANGED vars
  BY <1>3 DEF ChildWrites, OrphanEnds, vars
<1>4. CASE Recover \/ Requeue \/ RequestCancel
  <2>1. /\ Interleaves /\ operator' = operator
        /\ job.status \in {"running", "waiting_retry", "failed"}
    BY <1>4 DEF Recover, Requeue, RequestCancel
  <2>2. job'.status \in {"running", "waiting_retry", "queued"} /\ job'.path = job.path
    <3>1. CASE Recover
      BY <1>1, <1>2, <3>1 DEF Recover, Ended
    <3>2. CASE Requeue
      BY <1>1, <1>2, <3>2 DEF Requeue
    <3>3. CASE RequestCancel
      BY <1>1, <3>3 DEF RequestCancel
    <3> QED BY <1>4, <3>1, <3>2, <3>3
  <2> QED BY <2>1, <2>2
<1>5. CASE Cancel
  BY <1>1, <1>2, <1>5 DEF Cancel
<1>6. CASE DeleteRead
  BY <1>6 DEF DeleteRead
<1>7. CASE CreateJob
  BY <1>1, <1>2, <1>7 DEF CreateJob
<1>8. CASE StorePrompt
  BY <1>1, <1>2, <1>8 DEF StorePrompt
<1>9. CASE CleanCancelled \/ DeleteWorkspace \/ RemoveWorktree
  BY <1>9 DEF CleanCancelled, DeleteWorkspace, RemoveWorktree
<1>10. CASE DeleteRow
  BY <1>1, <1>2, <1>10 DEF DeleteRow
<1>11. CASE CommandDies
  BY <1>11 DEF CommandDies, OneProcess
<1> QED
  BY <1>3, <1>4, <1>5, <1>6, <1>7, <1>8, <1>9, <1>10, <1>11 DEF Elsewhere

\* A cleanup is still about the outcome in the row: nothing is written while
\* somebody cleans, and the operator waits.
LEMMA CleanupsStep ==
  ASSUME TypeOK, SuperInv, WorkspaceInv, OneProcess, OneProcess', [Next]_vars
  PROVE  CleanupsFollow'
<1> DEFINE cleaning == {"cleaning", "removing"}
<1>0. \A d \in Executors : task[d].pc \in cleaning =>
        /\ operator = "idle" /\ ~Interleaves
        /\ job.status \in {"completed", "failed"} /\ task[d].result = job.status
        /\ task[d].pc = "removing" => PolicyRemoves(job.policy, job.status)
  BY Alone DEF WorkspaceInv, CleanupsFollow, NobodyCleans
<1>1. SUFFICES ASSUME NEW d \in Executors, task'[d].pc \in cleaning
               PROVE  /\ operator' = "idle"
                      /\ job'.status \in {"completed", "failed"}
                      /\ task'[d].result = job'.status
                      /\ task'[d].pc = "removing" => PolicyRemoves(job.policy, job'.status)
  BY Lasting DEF CleanupsFollow, PolicyRemoves
<1>2. ASSUME NEW e \in Executors, Start(e)
      PROVE  FALSE
  <2>1. Interleaves /\ d # e
    BY <1>1, <1>2, StartedWork DEF Start
  <2>2. task'[d] = task[d]
    BY <1>2, <2>1, StartedTask
  <2> QED BY <1>0, <1>1, <2>1, <2>2
<1>3. ASSUME NEW e \in Executors, Continues(e)
      PROVE  /\ operator' = "idle"
             /\ job'.status \in {"completed", "failed"}
             /\ task'[d].result = job'.status
             /\ task'[d].pc = "removing" => PolicyRemoves(job.policy, job'.status)
  <2>1. operator' = operator
    BY <1>3, DiskMoves
  <2>2. CASE /\ task[d].pc \in cleaning /\ task'[d].result = task[d].result
             /\ task'[d].pc = "removing" =>
                  task[d].pc = "removing" \/ PolicyRemoves(job.policy, task[d].result)
    <3>1. job' = job
      BY <1>0, <1>3, <2>2, RowMoves
    <3> QED BY <1>0, <2>1, <2>2, <3>1
  <2>3. CASE /\ Succeeds(e) \/ RecordFailure(e)
             /\ task'[d].pc = "cleaning"
             /\ job'.status \in {"completed", "failed"} /\ task'[d].result = job'.status
    <3>1. Interleaves
      BY <2>3 DEF Succeeds, RecordFailure
    <3> QED BY <2>1, <2>3, <3>1, Alone
  <2>4. CASE d # e
    <3>1. task'[d] = task[d]
      BY <1>3, <2>4, TaskMoves
    <3> QED BY <1>1, <2>2, <3>1
  <2>5. CASE d = e
    BY <1>1, <1>3, <2>2, <2>3, <2>5, Turns DEF WorktreeFoundClean
  <2> QED BY <2>4, <2>5
<1>4. CASE Elsewhere
  <2>1. task' = task
    BY <1>4, OtherDiskMoves
  <2>2. UNCHANGED <<job, operator>>
    BY <1>0, <1>1, <1>4, <2>1, OtherRowMoves
  <2> QED BY <1>0, <1>1, <2>1, <2>2
<1> QED BY <1>2, <1>3, <1>4, Steps

\* The cleanup of a cancelled job asks for the policy before it asks git.
LEMMA ClearsStep ==
  ASSUME TypeOK, SuperInv, WorkspaceInv, OneProcess, OneProcess', [Next]_vars
  PROVE  ClearsByPolicy'
<1>1. SUFFICES ASSUME operator' = "clearing"
               PROVE  job.policy = "on_completion"
  BY Lasting DEF ClearsByPolicy
<1>2. operator = "clearing" => job.policy = "on_completion"
  BY DEF WorkspaceInv, ClearsByPolicy
<1>3. ASSUME NEW e \in Executors, Start(e) \/ Continues(e)
      PROVE  operator' = operator
  BY <1>3, GoingOn DEF Start
<1>4. CASE Elsewhere
  <2>1. operator' = operator \/ WorktreeFoundClean("cancelled")
    BY <1>1, <1>4, OtherRowMoves
  <2> QED BY <1>1, <1>2, <2>1 DEF WorktreeFoundClean, PolicyRemoves
<1> QED BY <1>1, <1>2, <1>3, <1>4, Steps

\* Nothing overtakes the storing of a prompt.
LEMMA StoringStep ==
  ASSUME TypeOK, SuperInv, WorkspaceInv, OneProcess, OneProcess', [Next]_vars
  PROVE  StoringIsFirst'
<1>0. /\ operator = "storing" =>
           job.status = "queued" /\ disk.workspace /\ disk.marker /\ ~Interleaves
      /\ job.status = "unborn" => ~job.path
  BY Alone DEF WorkspaceInv, StoringIsFirst
<1>1. ASSUME NEW e \in Executors, Start(e)
      PROVE  StoringIsFirst'
  <2>1. operator' = operator /\ Interleaves /\ job'.status = "running"
    BY <1>1 DEF Start, Claimed, Job, TypeOK
  <2> QED BY <1>0, <2>1 DEF StoringIsFirst
<1>2. ASSUME NEW e \in Executors, Continues(e)
      PROVE  StoringIsFirst'
  <2>1. operator' = operator
    BY <1>2, DiskMoves
  <2>2. job'.status = "unborn" => ~job'.path
    BY <1>0, <1>2, RowMoves
  <2>3. ASSUME operator = "storing"
        PROVE  job' = job /\ disk' = disk
    <3>1. ~Interleaves
      BY <1>0, <2>3
    <3>2. job' = job
      BY <1>2, <3>1, RowMoves
    <3>3. ~Succeeds(e) /\ ~WriteRefused(e)
      BY <3>1 DEF Succeeds, WriteRefused
    <3>4. ~Clean(e) /\ ~Remove(e)
      BY <2>3 DEF Clean, Remove, WorkspaceInv, CleanupsFollow
    <3> QED BY <1>2, <3>2, <3>3, <3>4, DiskMoves
  <2> QED BY <1>0, <2>1, <2>2, <2>3 DEF StoringIsFirst
<1>3. CASE Elsewhere
  <2>1. job'.status = "unborn" => ~job'.path
    BY <1>0, <1>3, OtherRowMoves
  <2>2. ASSUME operator' = "storing"
        PROVE  job'.status = "queued" /\ disk'.workspace /\ disk'.marker
    <3>1. CASE CreateJob
      <4>1. job'.status = "queued"
        BY <3>1 DEF CreateJob, TypeOK, Job
      <4>2. disk'.workspace /\ disk'.marker
        BY <3>1, DiskWrites, DiskAdds DEF CreateJob, TypeOK
      <4> QED BY <4>1, <4>2
    <3>2. CASE ~CreateJob
      <4>1. UNCHANGED <<job, operator>>
        BY <1>0, <1>3, <2>2, <3>2, OtherRowMoves
      <4>2. ~StorePrompt /\ ~CleanCancelled /\ ~DeleteWorkspace /\ ~RemoveWorktree
        BY <2>2 DEF StorePrompt, CleanCancelled, DeleteWorkspace, RemoveWorktree
      <4>3. disk'.workspace = disk.workspace /\ disk'.marker = disk.marker
        BY <1>3, <3>2, <4>2, OtherDiskMoves
      <4> QED BY <1>0, <2>2, <4>1, <4>3
    <3> QED BY <3>1, <3>2
  <2> QED BY <2>1, <2>2 DEF StoringIsFirst
<1> QED BY <1>1, <1>2, <1>3, Steps

\* A codex job's workspace stays its own: no step makes a bare directory where
\* a worktree is missing.
LEMMA MarkedStep ==
  ASSUME TypeOK, SuperInv, WorkspaceInv, OneProcess, OneProcess', [Next]_vars
  PROVE  WorkspacesAreMarked'
<1>0. job.cli = "codex" /\ job.status # "deleted" /\ disk.workspace => disk.marker
  BY DEF WorkspaceInv, WorkspacesAreMarked
<1>1. SUFFICES ASSUME job.cli = "codex", job'.status # "deleted", disk'.workspace
               PROVE  disk'.marker
  BY Lasting DEF WorkspacesAreMarked
<1>2. ASSUME NEW e \in Executors, Start(e)
      PROVE  disk'.marker
  <2>1. job.status = "queued"
    BY <1>2 DEF Start
  <2> QED BY <1>0, <1>1, <1>2, <2>1, StartedWork
<1>3. ASSUME NEW e \in Executors, Continues(e)
      PROVE  disk'.marker
  <2>1. job.status # "deleted"
    BY <1>1, <1>3, RowMoves
  <2>2. CASE disk' = disk
    BY <1>0, <1>1, <2>1, <2>2
  <2>3. CASE Clean(e) \/ Remove(e)
    <3>1. disk' \in {disk, AfterTest(disk, job.kind), AfterRemove(disk)}
      BY <2>3 DEF Clean, Cleaned, Remove
    <3>2. disk' = disk
      BY <1>1, <3>1, TestIsSafe, RemovalIsWhole DEF TypeOK
    <3> QED BY <2>2, <3>2
  <2>4. CASE Succeeds(e)
    <3>1. disk.workspace
      BY <2>4 DEF Succeeds, WorkspaceInv, RunsHaveWorkspaces
    <3>2. disk.marker
      BY <1>0, <1>1, <2>1, <3>1
    <3> QED BY <1>3, <2>2, <2>3, <3>2, DiskMoves
  <2>5. ~WriteRefused(e)
    BY <2>1 DEF WriteRefused
  <2> QED BY <1>3, <2>2, <2>3, <2>4, <2>5, DiskMoves
<1>4. CASE Elsewhere
  <2>1. CASE disk' = disk
    <3>1. job.status # "deleted"
      BY <1>1, <1>4, OtherRowMoves
    <3> QED BY <1>0, <1>1, <2>1, <3>1
  <2>2. CASE ChildWrites
    BY <1>0, <1>1, <1>4, <2>1, <2>2, OtherDiskMoves DEF ChildWrites
  <2>3. CASE CreateJob
    BY <2>3, DiskWrites, DiskAdds DEF CreateJob, TypeOK
  <2>4. CASE StorePrompt
    <3>1. disk.marker
      BY <2>4 DEF StorePrompt, WorkspaceInv, StoringIsFirst
    <3> QED BY <2>4, <3>1, DiskAdds DEF StorePrompt, TypeOK
  <2>5. CASE disk' \in {AfterTest(disk, job.kind), AfterRemove(disk)}
    <3>1. disk' = disk
      BY <1>1, <2>5, TestIsSafe, RemovalIsWhole DEF TypeOK
    <3> QED BY <2>1, <3>1
  <2> QED BY <1>4, <2>1, <2>2, <2>3, <2>4, <2>5, OtherDiskMoves
<1> QED BY <1>2, <1>3, <1>4, Steps

\* An unfinished job keeps its workspace and its prompt: what removes them
\* comes after the outcome, a cancellation or the confirmation of a deletion.
LEMMA IntactStep ==
  ASSUME TypeOK, SuperInv, WorkspaceInv, OneProcess, OneProcess', [Next]_vars
  PROVE  UnfinishedAreIntact'
<1> DEFINE unfinished == {"queued", "running", "waiting_retry", "failed"}
<1>0. job.policy # "on_completion" /\ operator # "removed" /\ job.status \in unfinished =>
        disk.workspace /\ disk.marker /\ (job.path => disk.prompt)
  BY DEF WorkspaceInv, UnfinishedAreIntact, Intact
<1>1. SUFFICES ASSUME job.policy # "on_completion", operator' # "removed",
                      job'.status \in unfinished
               PROVE  disk'.workspace /\ disk'.marker /\ (job'.path => disk'.prompt)
  BY Lasting DEF UnfinishedAreIntact, Intact
<1> HIDE DEF unfinished
<1>2. ASSUME NEW e \in Executors, Start(e)
      PROVE  disk'.workspace /\ disk'.marker /\ (job'.path => disk'.prompt)
  <2>1. job.status \in unfinished /\ operator = "idle" /\ job'.path = job.path
    BY <1>2, Alone DEF Start, Claimed, TypeOK, Job, unfinished
  <2> QED BY <1>0, <1>1, <1>2, <2>1, StartedWork
<1>3. ASSUME NEW e \in Executors, Continues(e)
      PROVE  disk'.workspace /\ disk'.marker /\ (job'.path => disk'.prompt)
  <2>1. job.status \in unfinished /\ job'.path = job.path /\ operator' = operator
    BY <1>1, <1>3, RowMoves, DiskMoves DEF unfinished
  <2>2. disk.workspace /\ disk.marker /\ (job.path => disk.prompt)
    BY <1>0, <1>1, <2>1
  <2>3. CASE Clean(e)
    <3>1. task[e].pc = "cleaning" /\ job' = job
      BY <2>3 DEF Clean
    <3>2. task[e].result = job.status
      BY <3>1 DEF WorkspaceInv, CleanupsFollow
    <3>3. ~PolicyRemoves(job.policy, task[e].result)
      BY <1>1, <2>1, <3>2 DEF PolicyRemoves, unfinished
    <3>4. disk' = disk
      BY <2>3, <3>3 DEF Clean, Cleaned
    <3> QED BY <2>1, <2>2, <3>4
  <2>4. ~Remove(e)
    <3>1. ASSUME task[e].pc = "removing"
          PROVE  PolicyRemoves(job.policy, job.status) /\ job.status \in {"completed", "failed"}
      BY <3>1 DEF WorkspaceInv, CleanupsFollow
    <3> QED BY <1>1, <2>1, <3>1 DEF Remove, PolicyRemoves, unfinished
  <2> QED BY <1>3, <2>1, <2>2, <2>3, <2>4, DiskMoves
<1>4. CASE Elsewhere
  <2>1. CASE CreateJob
    <3>1. ~job'.path
      BY <2>1 DEF CreateJob, TypeOK, Job, WorkspaceInv, StoringIsFirst
    <3> QED BY <2>1, <3>1, DiskWrites, DiskAdds DEF CreateJob, TypeOK
  <2>2. CASE StorePrompt
    <3>1. disk.marker
      BY <2>2 DEF StorePrompt, WorkspaceInv, StoringIsFirst
    <3> QED BY <2>2, <3>1, DiskWrites, DiskAdds DEF StorePrompt, TypeOK
  <2>3. CASE ~CreateJob /\ ~StorePrompt
    <3>1. job'.path = job.path /\ job.status \in unfinished /\ operator # "removed"
      <4>1. CASE operator = "removed"
        <5>1. ~Interleaves
          BY <4>1, Alone
        <5>2. operator' = operator \/ job'.status = "deleted"
          BY <1>4, <2>3, <4>1, <5>1, OtherRowMoves
        <5> QED BY <1>1, <4>1, <5>2 DEF unfinished
      <4>2. CASE operator # "removed"
        BY <1>1, <1>4, <2>3, <4>2, OtherRowMoves DEF unfinished
      <4> QED BY <4>1, <4>2
    <3>2. disk.workspace /\ disk.marker /\ (job.path => disk.prompt)
      BY <1>0, <1>1, <3>1
    <3>3. CASE DeleteWorkspace
      <4>1. job.kind = "git_worktree" /\ disk' = AfterTest(disk, job.kind)
        BY <1>1, <3>3 DEF DeleteWorkspace
      <4> QED BY <3>1, <3>2, <4>1, TestIsSafe DEF TypeOK
    <3>4. ~RemoveWorktree
      <4>1. ASSUME RemoveWorktree
            PROVE  operator = "clearing" \/ operator' = "removed"
        BY <3>2, <4>1 DEF RemoveWorktree
      <4> QED BY <1>1, <4>1 DEF WorkspaceInv, ClearsByPolicy
    <3>5. CASE ~DeleteWorkspace
      BY <1>1, <1>4, <2>3, <3>1, <3>2, <3>4, <3>5, OtherDiskMoves
    <3> QED BY <3>3, <3>5
  <2> QED BY <2>1, <2>2, <2>3
<1> QED BY <1>2, <1>3, <1>4, Steps

\* Whatever is left after the cleanup of on_completion is a worktree's changes.
LEMMA LeftStep ==
  ASSUME TypeOK, SuperInv, WorkspaceInv, OneProcess, OneProcess', [Next]_vars
  PROVE  OnlyChangesAreLeft'
<1> DEFINE over == {"completed", "failed"}
<1>0. /\ NobodyCleans /\ job.status \in over /\ disk.workspace /\ job.cli = "codex"
      /\ ~abandoned /\ job.policy = "on_completion"
      => job.kind = "git_worktree" /\ disk.changes
  BY DEF WorkspaceInv, OnlyChangesAreLeft
<1>1. SUFFICES ASSUME job.cli = "codex", ~abandoned', job.policy = "on_completion",
                      NobodyCleans', job'.status \in over, disk'.workspace
               PROVE  job.kind = "git_worktree" /\ disk'.changes
  BY Lasting DEF OnlyChangesAreLeft
<1> HIDE DEF over
<1>2. ~abandoned
  BY <1>1, Lasting
<1>3. ASSUME NEW e \in Executors, Start(e)
      PROVE  FALSE
  BY <1>1, <1>3 DEF Start, Claimed, TypeOK, Job, over
<1>4. ASSUME NEW e \in Executors, Continues(e)
      PROVE  job.kind = "git_worktree" /\ disk'.changes
  <2>1. job' = job
    <3>1. task'[e].pc # "cleaning"
      BY <1>1 DEF NobodyCleans
    <3> QED BY <1>1, <1>4, <3>1, RowMoves DEF over
  <2>2. CASE Clean(e)
    <3>1. task[e].pc = "cleaning"
      BY <2>2 DEF Clean
    <3>2. PolicyRemoves(job.policy, task[e].result)
      BY <1>1, <3>1 DEF PolicyRemoves, WorkspaceInv, CleanupsFollow
    <3>3. job.status # "deleted"
      BY <1>1, <2>1 DEF over
    <3>4. disk' = AfterTest(disk, job.kind)
      BY <2>2, <3>2, <3>3 DEF Clean, Cleaned
    <3>5. disk' = disk /\ (job.kind = "directory" => ~disk.marker)
      BY <1>1, <3>4, TestIsSafe DEF TypeOK
    <3>6. disk.marker
      BY <1>1, <3>3, <3>5 DEF WorkspaceInv, WorkspacesAreMarked
    <3>7. job.kind = "git_worktree"
      BY <3>5, <3>6 DEF TypeOK, Job, Kinds
    <3>8. ~WorktreeFoundClean(task[e].result)
      <4>1. ASSUME WorktreeFoundClean(task[e].result)
            PROVE  task'[e].pc = "removing"
        <5>1. task'[e] = [task[e] EXCEPT !.pc = "removing"] /\ task[e] \in Task
          BY <2>2, <3>3, <4>1 DEF Clean, TypeOK
        <5> QED BY <5>1, TaskFields
      <4> QED BY <1>1, <4>1 DEF NobodyCleans
    <3>9. disk.changes
      BY <3>2, <3>6, <3>7, <3>8 DEF WorktreeFoundClean, Removable
    <3> QED BY <3>5, <3>7, <3>9
  <2>3. CASE Remove(e)
    <3>1. disk' = disk /\ ~disk.marker
      BY <1>1, <2>3, RemovalIsWhole DEF Remove, TypeOK
    <3>2. job.status # "deleted"
      BY <1>1, <2>1 DEF over
    <3> QED BY <1>1, <3>1, <3>2 DEF WorkspaceInv, WorkspacesAreMarked
  <2>4. CASE ~Clean(e) /\ ~Remove(e)
    <3>1. disk' = disk
      <4>1. ~Succeeds(e) \/ disk' = disk
        BY <1>1, <2>1 DEF Succeeds, over
      <4>2. ~WriteRefused(e)
        BY <1>1, <2>1 DEF WriteRefused, over
      <4> QED BY <1>4, <2>4, <4>1, <4>2, DiskMoves
    <3>2. NobodyCleans
      <4>1. ~Crash(e)
        BY <1>1 DEF Crash
      <4>2. ASSUME NEW d \in Executors, task[d].pc \in {"cleaning", "removing"}
            PROVE  task'[d].pc = task[d].pc
        <5>1. CASE d # e
          <6>1. task'[d] = task[d]
            BY <1>4, <5>1, TaskMoves
          <6> QED BY <4>2, <6>1
        <5>2. CASE d = e
          <6>1. PipesClose(e)
            BY <1>4, <2>4, <4>1, <4>2, <5>2
            DEF Continues, GoesOn, Fed, ChildExits, ReaderFails, Interrupted, TimesOut, Killed,
                Succeeds, Raises, RecordFailure, WriteRefused
          <6>2. task'[e] = [task[e] EXCEPT !.held = FALSE] /\ task[e] \in Task
            BY <6>1 DEF PipesClose, TypeOK
          <6>3. task'[e].pc = task[e].pc
            BY <6>2, TaskFields
          <6> QED BY <4>2, <5>2, <6>3
        <5> QED BY <5>1, <5>2
      <4> QED BY <1>1, <4>2 DEF NobodyCleans
    <3> QED BY <1>0, <1>1, <1>2, <2>1, <3>1, <3>2
  <2> QED BY <2>2, <2>3, <2>4
<1>5. CASE Elsewhere
  <2>1. task' = task
    BY <1>5, OtherDiskMoves
  <2>2. NobodyCleans
    BY <1>1, <2>1 DEF NobodyCleans
  <2>3. job.status \in over /\ ~CreateJob
    BY <1>1, <1>5, OtherRowMoves DEF over, CreateJob
  <2>4. ~StorePrompt
    BY <2>3 DEF StorePrompt, WorkspaceInv, StoringIsFirst, over
  <2>5. CASE disk' \in {AfterTest(disk, job.kind), AfterRemove(disk)}
    <3>1. disk' = disk
      BY <1>1, <2>5, TestIsSafe, RemovalIsWhole DEF TypeOK
    <3> QED BY <1>0, <1>1, <1>2, <2>2, <2>3, <3>1
  <2> QED BY <1>0, <1>1, <1>2, <1>5, <2>2, <2>3, <2>4, <2>5, OtherDiskMoves
<1> QED BY <1>3, <1>4, <1>5, Steps

\* The seven parts together.
LEMMA WorkspaceStep ==
  ASSUME TypeOK, SuperInv, WorkspaceInv, [Next]_vars
  PROVE  WorkspaceInv'
<1> SUFFICES ASSUME OneProcess'
             PROVE  /\ RunsHaveWorkspaces' /\ CleanupsFollow' /\ ClearsByPolicy' /\ StoringIsFirst'
                    /\ WorkspacesAreMarked' /\ UnfinishedAreIntact' /\ OnlyChangesAreLeft'
  BY DEF WorkspaceInv
<1>1. OneProcess
  BY Lasting DEF OneProcess
<1> QED
  BY <1>1, RunsStep, CleanupsStep, ClearsStep, StoringStep, MarkedStep, IntactStep, LeftStep

\* At first there is neither a job nor a workspace.
LEMMA WorkspaceInit == Init => WorkspaceInv
<1> SUFFICES ASSUME Init PROVE WorkspaceInv
  OBVIOUS
<1>1. job.status = "unborn" /\ ~job.path
  BY DEF Init
<1>2. \A e \in Executors : task[e].pc = "idle"
  BY DEF Init, IdleTask
<1>3. ~disk.workspace /\ operator = "idle"
  BY DEF Init, Nothing
<1> QED
  BY <1>1, <1>2, <1>3
  DEF WorkspaceInv, RunsHaveWorkspaces, CleanupsFollow, ClearsByPolicy, StoringIsFirst, WorkspacesAreMarked,
      UnfinishedAreIntact, OnlyChangesAreLeft

\* The workspace of a job, at every moment.
LEMMA WorkspaceInvariant == Spec => [](TypeOK /\ WorkspaceInv)
<1>1. Spec => [](TypeOK /\ SuperInv)
  BY TypeInit, TypeStep, SuperInit, SuperStep, PTL DEF Spec
<1> QED BY <1>1, WorkspaceInit, WorkspaceStep, PTL DEF Spec

\* In one process, a job that waits for its first or another attempt finds the
\* workspace and the stored prompt it was enqueued with, unless its policy
\* removes them at a failure, whatever was interrupted, requeued or cut short.
THEOREM RetriesAreEquipped == Spec => []WaitingJobsCanRun
<1>1. TypeOK /\ WorkspaceInv => WaitingJobsCanRun
  <2> SUFFICES ASSUME WorkspaceInv, OneProcess, ~MidSection, job.policy # "on_completion",
                      job.status \in {"queued", "waiting_retry", "failed"}
               PROVE  Starts
    BY DEF WaitingJobsCanRun, OneProcess
  <2>1. disk.workspace /\ disk.marker /\ (job.path => disk.prompt)
    BY DEF WorkspaceInv, UnfinishedAreIntact, Intact, MidSection
  <2> QED BY <2>1 DEF Starts, CanPrepare
<1> QED BY <1>1, WorkspaceInvariant, PTL

\* In one process that did not die, on_completion leaves nothing behind of a
\* codex job that completed or failed, except the changes in its worktree.
THEOREM EndedAreRemoved == Spec => []EndedWorkspacesAreRemoved
<1>1. WorkspaceInv => EndedWorkspacesAreRemoved
  BY DEF WorkspaceInv, OneProcess, OnlyChangesAreLeft, NobodyCleans, MidSection,
         EndedWorkspacesAreRemoved
<1> QED BY <1>1, WorkspaceInvariant, PTL

-----------------------------------------------------------------------------
\* User-visible changes, and the two git commands of a removal.

\* git found a worktree clean, and is about to remove it.
Clearing ==
  operator \in {"clearing", "forcing"} \/ \E e \in Executors : task[e].pc = "removing"

ClearInv ==
  /\ job.kind = "git_worktree" => job.cli = "codex"
  /\ deployment = "one" /\ ~abandoned /\ job.kind = "git_worktree" /\ Clearing => ~disk.changes

\* Changes come from a process at work, and from nothing else.
LEMMA ChangesCome ==
  ASSUME TypeOK, [Next]_vars, disk'.changes
  PROVE  disk.changes \/ ChildWrites
<1> USE DEF TypeOK
<1>1. ASSUME NEW e \in Executors, Start(e)
      PROVE  disk.changes
  <2>1. WorkspaceAtStart.changes = disk.changes
    BY DiskWrites DEF WorkspaceAtStart
  <2> QED BY <1>1, <2>1 DEF Start
<1>2. ASSUME NEW e \in Executors, Succeeds(e) \/ WriteRefused(e)
      PROVE  disk.changes
  <2>1. /\ Made(disk) \in Disk /\ Made(disk).changes = disk.changes
        /\ Prepared(Made(disk), job.kind).changes = disk.changes
    BY DiskWrites
  <2> QED BY <1>2, <2>1 DEF Succeeds, WriteRefused
<1>3. ASSUME NEW e \in Executors, Clean(e) \/ Remove(e)
      PROVE  disk.changes
  BY <1>3, TestIsSafe, RemovalIsWhole DEF Clean, Cleaned, Remove
<1>4. CASE CreateJob \/ StorePrompt
  BY <1>4, DiskWrites DEF CreateJob, StorePrompt
<1>5. CASE CleanCancelled \/ DeleteWorkspace \/ RemoveWorktree
  BY <1>5, TestIsSafe, RemovalIsWhole
  DEF CleanCancelled, Cleaned, DeleteWorkspace, RemoveWorktree
<1>6. CASE UNCHANGED disk
  BY <1>6
<1> QED
  BY <1>1, <1>2, <1>3, <1>4, <1>5, <1>6, Steps
  DEF Continues, GoesOn, Elsewhere, Fed, ChildExits, TimesOut, Killed, PipesClose, ReaderFails,
      Raises, RecordFailure, Interrupted, Crash, OrphanEnds, Recover, Requeue, RequestCancel,
      Cancel, DeleteRead, DeleteRow, CommandDies, vars

\* Between the two commands no process of the job is at work.
LEMMA NobodyWrites ==
  ASSUME SuperInv, deployment = "one", ~abandoned, job.cli = "codex", Clearing
  PROVE  ~ChildWrites
<1>1. MidSection
  BY DEF Clearing, MidSection
<1>2. \A e \in Executors : ~task[e].child /\ ~task[e].held
  BY <1>1 DEF SuperInv
<1>3. orphans = 0
  BY DEF SuperInv
<1> QED BY <1>2, <1>3 DEF ChildWrites, ChildLives

\* A worktree that is about to be removed was found clean, and stays clean.
LEMMA ClearStep ==
  ASSUME TypeOK, SuperInv, ClearInv, [Next]_vars
  PROVE  ClearInv'
<1>0. job'.kind = job.kind /\ job'.cli = job.cli
  BY Lasting
<1>1. SUFFICES ASSUME deployment' = "one", ~abandoned', job.kind = "git_worktree", Clearing'
               PROVE  ~disk'.changes
  BY <1>0 DEF ClearInv
<1>2. deployment = "one" /\ ~abandoned /\ job.cli = "codex"
  BY <1>1, Lasting DEF ClearInv
<1>3. CASE Clearing
  BY <1>1, <1>2, <1>3, ChangesCome, NobodyWrites DEF ClearInv
<1>4. CASE ~Clearing
  <2>1. ASSUME NEW e \in Executors, Start(e)
        PROVE  FALSE
    <3>1. task'[e].pc # "removing" /\ \A d \in Executors \ {e} : task'[d] = task[d]
      BY <2>1, StartedTask DEF Active
    <3>2. operator' = operator
      BY <2>1 DEF Start
    <3> QED BY <1>1, <1>4, <3>1, <3>2 DEF Clearing
  <2>2. ASSUME NEW e \in Executors, Continues(e)
        PROVE  ~disk'.changes
    <3>1. task'[e].pc = "removing" /\ task[e].pc # "removing"
      BY <1>1, <1>4, <2>2, TaskMoves, GoingOn DEF Clearing
    <3>2. Clean(e) /\ WorktreeFoundClean(task[e].result)
      BY <2>2, <3>1, Turns
    <3>3. disk' = disk
      BY <1>1, <3>2, TestIsSafe DEF Clean, Cleaned, TypeOK
    <3> QED BY <3>2, <3>3 DEF WorktreeFoundClean, Removable
  <2>3. CASE Elsewhere
    <3>1. task' = task
      BY <2>3, OtherDiskMoves
    <3>2. operator' \in {"clearing", "forcing"} /\ operator \notin {"clearing", "forcing"}
      BY <1>1, <1>4, <3>1 DEF Clearing
    <3>3. CleanCancelled \/ DeleteWorkspace
      BY <2>3, <3>2
      DEF Elsewhere, ChildWrites, OrphanEnds, Recover, Requeue, RequestCancel, Cancel, CreateJob,
          StorePrompt, DeleteRead, RemoveWorktree, DeleteRow, CommandDies, vars
    <3>4. Removable(disk, job.kind)
      BY <3>2, <3>3 DEF CleanCancelled, DeleteWorkspace, WorktreeFoundClean
    <3>5. disk' = disk
      BY <1>1, <3>3, TestIsSafe DEF CleanCancelled, Cleaned, DeleteWorkspace, TypeOK
    <3> QED BY <1>1, <3>4, <3>5 DEF Removable
  <2> QED BY <2>1, <2>2, <2>3, Steps
<1> QED BY <1>3, <1>4

\* What git finds changed is not removed.
LEMMA ChangesStay ==
  ASSUME TypeOK, SuperInv, ClearInv, [Next]_vars, deployment = "one", ~abandoned,
         job.kind = "git_worktree", disk.changes
  PROVE  disk'.changes
<1> USE DEF TypeOK
<1>0. ~Clearing
  BY DEF ClearInv
<1>1. ASSUME NEW e \in Executors, Start(e)
      PROVE  disk'.changes
  <2>1. WorkspaceAtStart.changes
    BY DiskWrites DEF WorkspaceAtStart
  <2> QED BY <1>1, <2>1 DEF Start
<1>2. ASSUME NEW e \in Executors, Succeeds(e) \/ WriteRefused(e)
      PROVE  disk'.changes
  <2>1. /\ Made(disk) \in Disk /\ Made(disk).changes
        /\ Prepared(Made(disk), job.kind).changes
    BY DiskWrites
  <2> QED BY <1>2, <2>1 DEF Succeeds, WriteRefused
<1>3. ASSUME NEW e \in Executors, Clean(e) \/ Remove(e)
      PROVE  disk'.changes
  <2>1. ~Remove(e)
    BY <1>0 DEF Remove, Clearing
  <2> QED BY <1>3, <2>1, TestIsSafe DEF Clean, Cleaned
<1>4. CASE ChildWrites
  BY <1>4 DEF ChildWrites, Disk
<1>5. CASE CreateJob \/ StorePrompt
  BY <1>5, DiskWrites DEF CreateJob, StorePrompt
<1>6. CASE CleanCancelled \/ DeleteWorkspace \/ RemoveWorktree
  <2>1. ~RemoveWorktree
    BY <1>0 DEF RemoveWorktree, Clearing
  <2> QED BY <1>6, <2>1, TestIsSafe DEF CleanCancelled, Cleaned, DeleteWorkspace
<1>7. CASE UNCHANGED disk
  BY <1>7
<1> QED
  BY <1>1, <1>2, <1>3, <1>4, <1>5, <1>6, <1>7, Steps
  DEF Continues, GoesOn, Elsewhere, Fed, ChildExits, TimesOut, Killed, PipesClose, ReaderFails,
      Raises, RecordFailure, Interrupted, Crash, OrphanEnds, Recover, Requeue, RequestCancel,
      Cancel, DeleteRead, DeleteRow, CommandDies, vars

\* At first there is nothing to remove.
LEMMA ClearInit == Init => ClearInv
<1> SUFFICES ASSUME Init PROVE ClearInv
  OBVIOUS
<1>1. job.cli = "claude" => job.kind = "directory"
  BY DEF Init
<1>2. job.cli \in {"codex", "claude"}
  BY TypeInit DEF TypeOK, Job
<1>3. ~disk.changes
  BY DEF Init, Nothing
<1> QED BY <1>1, <1>2, <1>3 DEF ClearInv

\* In one process that did not die, what the processes of a job left in its
\* worktree is never removed, although git is asked and told in two commands:
\* the section is not interrupted, and no child outlives its execution.
THEOREM ChangesAreKept == Spec => UserChangesAreKept
<1>1. Spec => [](TypeOK /\ SuperInv /\ ClearInv)
  BY TypeInit, TypeStep, SuperInit, SuperStep, ClearInit, ClearStep, PTL DEF Spec
<1>2. TypeOK /\ SuperInv /\ ClearInv /\ [Next]_vars =>
        [deployment = "one" /\ ~abandoned /\ job.kind = "git_worktree" /\ disk.changes
           => disk'.changes]_vars
  BY ChangesStay
<1> QED BY <1>1, <1>2, PTL DEF Spec, UserChangesAreKept
=============================================================================
