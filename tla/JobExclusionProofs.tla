-------------------------- MODULE JobExclusionProofs --------------------------
(***************************************************************************)
(* Nobody executes a job that another executor executes, and the           *)
(* orchestrator implements the job store of JobLifecycle, for any number   *)
(* of jobs, executors and operators, under three conditions: the lease of  *)
(* a live task does not expire, at most one process runs recoveries, and   *)
(* the retry command is not used.  With it (Commands of                    *)
(* JobExecution_liveness.cfg) TLC finds a duplicate execution.             *)
(***************************************************************************)
EXTENDS JobExecutionProofs

LeasesHonoured ==
  /\ LeasesMayLapse = FALSE
  /\ \A p, q \in WorkerProcesses \cup RunOnceProcesses : p = q
  /\ "retry" \notin Commands

-----------------------------------------------------------------------------
\* The statuses a job can have while somebody executes it or is about to
\* recover it: running, or what cancel and delete make of that.
HeldStatus == {"running", "cancelled", "deleted"}

ExecutedRowsAreHeld ==
  \A e \in Executors, j \in Jobs : Executing(e, j) => table[j].status \in HeldStatus

\* A job that a recovery has listed and not yet written is held by nobody else.
RecoveredRowsAreFree ==
  \A p \in Processes, j \in Jobs :
    InRecovery(p, j) => /\ table[j].status \in HeldStatus
                        /\ \A e \in Executors : ~Executing(e, j)

RecoveriesAreOrderly ==
  \A p \in Processes :
    /\ recovery[p].pc # "off" => p \in WorkerProcesses \cup RunOnceProcesses
    /\ recovery[p].pc = "write" => recovery[p].job \notin recovery[p].stale

Exclusion ==
  /\ NoDuplicateExecution
  /\ ExecutionOwnsItsRow
  /\ ExecutedRowsAreHeld
  /\ RecoveredRowsAreFree
  /\ RecoveriesAreOrderly

\* Nobody executes and nobody recovers when the system starts.
LEMMA ExclusionInit == Init => Exclusion
BY DEF Init, Exclusion, NoDuplicateExecution, ExecutionOwnsItsRow, ExecutedRowsAreHeld,
   RecoveredRowsAreFree, RecoveriesAreOrderly, InRecovery, Executing, IdleTask, NoRecovery

-----------------------------------------------------------------------------
\* A held row stays held, keeps its owner and its attempt while it runs, and
\* loses its lease to the clock only, unless its executor or a recovery writes
\* it.
Undisturbed(j) ==
  /\ table'[j].status \in HeldStatus
  /\ table'[j].status = "running" =>
       /\ table[j].status = "running"
       /\ table'[j].owner = table[j].owner
       /\ table'[j].attempts = table[j].attempts
       /\ table'[j].lease \in {table[j].lease, "live"} \/ LeaseExpires(j)

\* No step but an outcome of its executor or the write of a recovery
\* disturbs a held row.
LEMMA HeldRows ==
  ASSUME LeasesHonoured, Typed, [Next]_vars, NEW j \in Jobs, table[j].status \in HeldStatus
  PROVE  \/ Undisturbed(j)
         \/ \E e \in Executors : WriteOutcome(e) /\ task[e].job = j /\ Exists(table[j])
         \/ \E p \in Processes : RecoverWrite(p) /\ recovery[p].job = j
<1>0. table \in [Jobs -> Row] /\ table[j] \in Row
  BY DEF Typed, TypeOK
<1>1. ASSUME table'[j] = table[j] PROVE Undisturbed(j)
  BY <1>1 DEF Undisturbed
<1>2. ASSUME table'[j].status \in {"cancelled", "deleted"} PROVE Undisturbed(j)
  BY <1>2 DEF Undisturbed, HeldStatus
<1>3. ASSUME table'[j].status = table[j].status, table'[j].owner = table[j].owner,
             table'[j].attempts = table[j].attempts,
             table'[j].lease \in {table[j].lease, "live"}
      PROVE  Undisturbed(j)
  BY <1>3 DEF Undisturbed
<1>4. ASSUME NEW i \in Jobs, Enqueue(i) \/ Purge(i) \/ RetryFallsDue(i) \/ LeaseExpires(i)
      PROVE  Undisturbed(j)
  <2>1. CASE i # j
    BY <1>0, <1>1, <1>4, <2>1 DEF Enqueue, Purge, RetryFallsDue, LeaseExpires
  <2>2. CASE i = j
    <3>1. ~Enqueue(j)
      BY DEF Enqueue, HeldStatus
    <3>2. CASE Purge(j)
      BY <1>0, <1>2, <3>2 DEF Purge, NoRow
    <3>3. CASE RetryFallsDue(j)
      BY <1>0, <1>3, <3>3 DEF RetryFallsDue, Row
    <3>4. CASE LeaseExpires(j)
      BY <1>0, <3>4 DEF LeaseExpires, Row, Undisturbed, HeldStatus
    <3> QED
      BY <1>4, <2>2, <3>1, <3>2, <3>3, <3>4
  <2> QED
    BY <2>1, <2>2
<1>5. ASSUME NEW e \in Executors, Execute(e) \/ Heartbeat(e) \/ Interrupt(e)
      PROVE  \/ Undisturbed(j)
             \/ WriteOutcome(e) /\ task[e].job = j /\ Exists(table[j])
  <2>1. CASE task[e].job # j
    BY <1>1, <1>5, <2>1, ExecutorRows
  <2>2. CASE Heartbeat(e)
    BY <1>0, <1>1, <1>3, <2>2 DEF Heartbeat, RenewedRow, Row
  <2>3. CASE WriteOutcome(e) /\ task[e].job = j /\ ~Exists(table[j])
    BY <1>1, <2>3 DEF WriteOutcome
  <2> QED
    BY <1>1, <1>5, <2>1, <2>2, <2>3, ExecutorRows
<1>6. ASSUME NEW e \in Executors, NEW i \in Jobs, Claim(e, i)
      PROVE  Undisturbed(j)
  BY <1>1, <1>6, ClaimFrame DEF HeldStatus
<1>7. ASSUME NEW p \in Processes, RequeueDue(p)
      PROVE  Undisturbed(j)
  BY <1>0, <1>1, <1>7 DEF RequeueDue, IsDue, HeldStatus
<1>8. ASSUME NEW p \in Processes, RecoverWrite(p), recovery[p].job # j
      PROVE  Undisturbed(j)
  BY <1>0, <1>1, <1>8 DEF RecoverWrite
<1>9. ASSUME NEW o \in Operators, CommandWrite(o)
      PROVE  Undisturbed(j)
  <2> DEFINE c == command[o]
  <2>1. c.kind \in {"cancel", "delete"} /\ c.job \in Jobs
    BY <1>9, ConstantsAssumption DEF CommandWrite, LeasesHonoured, Typed, TypeOK, Named, Command
  <2>2. CASE table' = table
    BY <1>1, <2>2
  <2>3. CASE table' = [table EXCEPT ![c.job] = CommandEffect(c.kind, c.seen, @)]
    <3>1. CASE c.job # j
      BY <1>0, <1>1, <2>3, <3>1
    <3>2. CASE c.job = j /\ c.kind = "cancel"
      BY <1>0, <1>2, <1>3, <2>3, <3>2 DEF CommandEffect, CancelRequestedRow, Row
    <3>3. CASE c.job = j /\ c.kind = "delete"
      BY <1>0, <1>2, <2>3, <3>3 DEF CommandEffect, NoRow
    <3> QED
      BY <2>1, <3>1, <3>2, <3>3
  <2> QED
    BY <1>9, <2>2, <2>3 DEF CommandWrite
<1> QED
  BY <1>1, <1>4, <1>5, <1>6, <1>7, <1>8, <1>9 DEF Next, vars, Recover, RecoverCheck,
     RecoveryDone, StartWorker, RunOnce, Crash, Shutdown, Drained, CommandRead

\* A recovery that finds its job still running takes it off the list.
LEMMA RecoverCheckFrame ==
  ASSUME Typed, NEW p \in Processes, NEW i \in Jobs, RecoverCheck(p, i),
         table[i].status = "running"
  PROVE  /\ recovery[p].pc = "next" /\ i \in recovery[p].stale
         /\ recovery'[p].job = i /\ recovery'[p].stale = recovery[p].stale \ {i}
         /\ \A q \in Processes \ {p} : recovery'[q] = recovery[q]
<1>0. recovery \in [Processes -> Recovery]
  BY DEF Typed, TypeOK
<1>1. PICK target \in RecoveryTargets(i) :
        recovery' = [recovery EXCEPT ![p].pc = "write", ![p].job = i,
                       ![p].target = target, ![p].stale = @ \ {i}]
  BY DEF RecoverCheck
<1> DEFINE r == [recovery[p] EXCEPT !.pc = "write", !.job = i, !.target = target,
                                    !.stale = @ \ {i}]
<1>2. r.job = i /\ r.stale = recovery[p].stale \ {i}
  BY <1>0 DEF Recovery
<1>3. recovery' = [recovery EXCEPT ![p] = r]
  BY <1>1
<1> HIDE DEF r
<1> QED
  BY <1>0, <1>2, <1>3 DEF RecoverCheck

\* Who is recovered after a step: the jobs of before, less the one written, and
\* the stale ones a new recovery lists.
LEMMA NextRecovered ==
  ASSUME LeasesHonoured, Typed, RecoveriesAreOrderly, [Next]_vars,
         NEW p \in Processes, NEW j \in Jobs, InRecovery(p, j)'
  PROVE  \/ /\ InRecovery(p, j)
            /\ \A q \in Processes : ~(RecoverWrite(q) /\ recovery[q].job = j)
         \/ /\ StartWorker(p) \/ RunOnce(p)
            /\ IsStale(table[j]) /\ UNCHANGED <<table, task>>
<1> USE DEF InRecovery
<1>0. recovery \in [Processes -> Recovery]
  BY DEF Typed, TypeOK
<1>1. ASSUME NEW q \in Processes, RecoverWrite(q), recovery[q].job = j
      PROVE  FALSE
  <2>1. InRecovery(q, j) /\ recovery[q].pc = "write" /\ j \notin recovery[q].stale
    BY <1>1 DEF RecoverWrite, RecoveriesAreOrderly
  <2>2. CASE p # q
    <3>1. recovery'[p] = recovery[p]
      BY <1>0, <1>1, <2>2 DEF RecoverWrite, RecoveryRefused
    <3>2. recovery[p].pc # "off"
      BY <3>1
    <3> QED
      BY <2>1, <2>2, <3>2 DEF RecoveriesAreOrderly, LeasesHonoured
  <2>3. CASE p = q
    <3>1. CASE recovery' = [recovery EXCEPT ![q] = NoRecovery]
      BY <1>0, <2>3, <3>1 DEF NoRecovery
    <3>2. CASE recovery' = [recovery EXCEPT ![q].pc = "next", ![q].job = NoJob,
                                            ![q].target = "running"]
      <4>1. recovery'[q].pc = "next" /\ recovery'[q].stale = recovery[q].stale
        BY <1>0, <3>2 DEF Recovery
      <4> QED
        BY <2>1, <2>3, <4>1
    <3> QED
      BY <1>1, <3>1, <3>2 DEF RecoverWrite, RecoveryRefused
  <2> QED
    BY <2>2, <2>3
<1>2. CASE InRecovery(p, j)
  BY <1>1, <1>2
<1>3. CASE recovery'[p] = recovery[p]
  BY <1>2, <1>3
<1>4. CASE StartWorker(p) \/ RunOnce(p)
  <2>1. recovery'[p].stale = {i \in Jobs : IsStale(table[i])} /\ recovery'[p].pc = "next"
    BY <1>0, <1>4 DEF StartWorker, RunOnce, ListStale, NoRecovery, Recovery
  <2>2. IsStale(table[j])
    BY <2>1
  <2> QED
    BY <1>4, <2>2 DEF StartWorker, RunOnce
<1>5. CASE recovery'[p] = NoRecovery
  BY <1>5 DEF NoRecovery
<1>6. ASSUME NEW i \in Jobs, RecoverCheck(p, i), table[i].status = "running"
      PROVE  InRecovery(p, j)
  BY <1>6, RecoverCheckFrame
<1>7. CASE RecoverWrite(p)
  <2>1. CASE recovery' = [recovery EXCEPT ![p].pc = "next", ![p].job = NoJob,
                                          ![p].target = "running"]
    <3>1. recovery'[p].pc = "next" /\ recovery'[p].stale = recovery[p].stale
      BY <1>0, <2>1 DEF Recovery
    <3>2. InRecovery(p, j)
      BY <1>7, <3>1 DEF RecoverWrite
    <3> QED
      BY <1>2, <3>2
  <2>2. CASE recovery' = [recovery EXCEPT ![p] = NoRecovery]
    BY <1>0, <1>5, <2>2
  <2> QED
    BY <1>7, <2>1, <2>2 DEF RecoverWrite, RecoveryRefused
<1>8. ASSUME NEW q \in Processes, Recover(q) \/ StartWorker(q) \/ RunOnce(q) \/ Crash(q)
      PROVE  \/ recovery'[p] = recovery[p] \/ recovery'[p] = NoRecovery
             \/ StartWorker(p) \/ RunOnce(p) \/ RecoverWrite(p)
             \/ \E i \in Jobs : RecoverCheck(p, i) /\ table[i].status = "running"
  <2>1. CASE p = q
    BY <1>0, <1>8, <2>1 DEF Recover, RecoverCheck, RecoveryRefused, RecoveryDone,
       Crash, LoseProcess
  <2>2. CASE p # q
    BY <1>0, <1>8, <2>2 DEF Recover, RecoverCheck, RecoverWrite, RecoveryRefused, RecoveryDone,
       StartWorker, RunOnce, ListStale, Crash, LoseProcess
  <2> QED
    BY <2>1, <2>2
<1>9. ASSUME NEW e \in Executors, Execute(e) \/ Heartbeat(e) \/ Interrupt(e)
      PROVE  recovery'[p] = recovery[p]
  BY <1>9, TaskFrame
<1> QED
  BY <1>2, <1>3, <1>4, <1>5, <1>6, <1>7, <1>8, <1>9 DEF Next, vars, Enqueue, Purge, RetryFallsDue,
     LeaseExpires, Claim, RequeueDue, Shutdown, Drained, CommandRead, CommandWrite

\* Only recovering processes recover, and a job being written is off the list.
LEMMA OrderlyNext ==
  ASSUME Typed, RecoveriesAreOrderly, [Next]_vars
  PROVE  RecoveriesAreOrderly'
<1> USE DEF RecoveriesAreOrderly
<1>0. recovery \in [Processes -> Recovery]
  BY DEF Typed, TypeOK
<1>1. CASE UNCHANGED recovery
  BY <1>1
<1>2. ASSUME NEW p \in Processes, StartWorker(p) \/ RunOnce(p)
      PROVE  RecoveriesAreOrderly'
  BY <1>0, <1>2 DEF StartWorker, RunOnce, ListStale, NoRecovery, Recovery
<1>3. ASSUME NEW p \in Processes, recovery' = [recovery EXCEPT ![p] = NoRecovery]
      PROVE  RecoveriesAreOrderly'
  BY <1>0, <1>3 DEF NoRecovery
<1>4. ASSUME NEW p \in Processes, NEW i \in Jobs, RecoverCheck(p, i)
      PROVE  RecoveriesAreOrderly'
  <2>1. CASE table[i].status = "running"
    BY <1>4, <2>1, RecoverCheckFrame
  <2>2. CASE table[i].status # "running"
    BY <1>3, <1>4, <2>2 DEF RecoverCheck, RecoveryRefused
  <2> QED
    BY <2>1, <2>2
<1>5. ASSUME NEW p \in Processes, RecoverWrite(p)
      PROVE  RecoveriesAreOrderly'
  <2>1. CASE RecoveryRefused(p)
    BY <1>3, <2>1 DEF RecoveryRefused
  <2>2. CASE ~RecoveryRefused(p)
    <3>1. /\ recovery'[p].pc = "next" /\ recovery[p].pc = "write"
          /\ \A q \in Processes \ {p} : recovery'[q] = recovery[q]
      BY <1>0, <1>5, <2>2 DEF RecoverWrite, Recovery
    <3> QED
      BY <3>1
  <2> QED
    BY <2>1, <2>2
<1>6. ASSUME NEW p \in Processes, Crash(p)
      PROVE  RecoveriesAreOrderly'
  BY <1>3, <1>6 DEF Crash, LoseProcess
<1>7. ASSUME NEW e \in Executors, Execute(e) \/ Heartbeat(e) \/ Interrupt(e)
      PROVE  RecoveriesAreOrderly'
  BY <1>1, <1>7, TaskFrame DEF Typed
<1> QED
  BY <1>1, <1>2, <1>3, <1>4, <1>5, <1>6, <1>7 DEF Next, vars, Recover, RecoveryDone, Enqueue,
     Purge, RetryFallsDue, LeaseExpires, Claim, RequeueDue, Shutdown, Drained, CommandRead,
     CommandWrite

-----------------------------------------------------------------------------
\* Executors that are at work after a step, and the row they work on.
LEMMA ExecutedNext ==
  ASSUME LeasesHonoured, Typed, Exclusion, [Next]_vars,
         NEW e \in Executors, NEW j \in Jobs, Executing(e, j)'
  PROVE  /\ table'[j].status \in HeldStatus
         /\ table'[j].status = "running" =>
              /\ table'[j].owner = WorkerIdOf[e]
              /\ table'[j].lease = "live"
              /\ table'[j].attempts = task'[e].claim
<1>1. CASE Claim(e, j)
  BY <1>1, ClaimFrame DEF HeldStatus
<1>2. CASE Executing(e, j) /\ task'[e].claim = task[e].claim
  <2>1. table[j].status \in HeldStatus
    BY <1>2 DEF Exclusion, ExecutedRowsAreHeld
  <2>2. ~ \E f \in Executors : WriteOutcome(f) /\ task[f].job = j /\ Exists(table[j])
    <3> SUFFICES ASSUME NEW f \in Executors, WriteOutcome(f), task[f].job = j, Exists(table[j])
                 PROVE  FALSE
      OBVIOUS
    <3>1. f = e
      BY <1>2 DEF WriteOutcome, Executing, Exclusion, NoDuplicateExecution
    <3>2. task'[e].pc = "idle"
      <4>1. CASE task' = [task EXCEPT ![e] = IdleTask]
        BY <4>1 DEF IdleTask, Typed, TypeOK
      <4> QED
        BY <3>1, <4>1 DEF WriteOutcome
    <3> QED
      BY <3>2 DEF Executing
  <2>3. ~ \E p \in Processes : RecoverWrite(p) /\ recovery[p].job = j
    BY <1>2 DEF RecoverWrite, Exclusion, RecoveredRowsAreFree, InRecovery
  <2>4. Undisturbed(j)
    BY <2>1, <2>2, <2>3, HeldRows
  <2>5. ~LeaseExpires(j)
    BY <1>2 DEF LeaseExpires, LeasesHonoured
  <2> QED
    BY <1>2, <2>4, <2>5 DEF Undisturbed, Exclusion, ExecutionOwnsItsRow
<1> QED
  BY <1>1, <1>2, NextExecutors

\* One at a time: a job is claimed when it is queued, and then nobody is at work.
LEMMA ExclusiveNext ==
  ASSUME LeasesHonoured, Typed, Exclusion, [Next]_vars,
         NEW e \in Executors, NEW f \in Executors, NEW j \in Jobs,
         Executing(e, j)', Executing(f, j)'
  PROVE  e = f
<1>1. ASSUME NEW g \in Executors, NEW h \in Executors, g # h, Claim(g, j), Executing(h, j)'
      PROVE  FALSE
  <2>1. ~Claim(h, j)
    BY <1>1, ClaimFrame DEF Executing
  <2>2. Executing(h, j)
    BY <1>1, <2>1, NextExecutors
  <2> QED
    BY <1>1, <2>2, ClaimFrame DEF Exclusion, ExecutedRowsAreHeld, HeldStatus
<1>2. CASE Claim(e, j) \/ Claim(f, j)
  BY <1>1, <1>2
<1>3. CASE ~Claim(e, j) /\ ~Claim(f, j)
  BY <1>3, NextExecutors DEF Exclusion, NoDuplicateExecution
<1> QED
  BY <1>2, <1>3

\* Nobody gets at a job between a recovery's list and its write.
LEMMA RecoveredNext ==
  ASSUME LeasesHonoured, Typed, Exclusion, [Next]_vars,
         NEW p \in Processes, NEW j \in Jobs, InRecovery(p, j)'
  PROVE  /\ table'[j].status \in HeldStatus
         /\ \A e \in Executors : ~Executing(e, j)'
<1>1. CASE IsStale(table[j]) /\ UNCHANGED <<table, task>>
  BY <1>1 DEF IsStale, HeldStatus, Executing, Exclusion, ExecutionOwnsItsRow
<1>2. CASE /\ InRecovery(p, j)
           /\ \A q \in Processes : ~(RecoverWrite(q) /\ recovery[q].job = j)
  <2>1. table[j].status \in HeldStatus /\ \A e \in Executors : ~Executing(e, j)
    BY <1>2 DEF Exclusion, RecoveredRowsAreFree
  <2>2. ~ \E e \in Executors : WriteOutcome(e) /\ task[e].job = j /\ Exists(table[j])
    BY <2>1 DEF WriteOutcome, Executing
  <2>3. table'[j].status \in HeldStatus
    BY <1>2, <2>1, <2>2, HeldRows DEF Undisturbed
  <2>4. \A e \in Executors : ~Claim(e, j)
    BY <2>1, ClaimFrame DEF HeldStatus
  <2> QED
    BY <2>1, <2>3, <2>4, NextExecutors
<1> QED
  BY <1>1, <1>2, NextRecovered DEF Exclusion

\* The invariant is inductive.
LEMMA ExclusionNext ==
  ASSUME LeasesHonoured, Typed, Exclusion, [Next]_vars
  PROVE  Exclusion'
<1>1. NoDuplicateExecution'
  BY ExclusiveNext DEF NoDuplicateExecution
<1>2. ExecutionOwnsItsRow' /\ ExecutedRowsAreHeld'
  BY ExecutedNext DEF ExecutionOwnsItsRow, ExecutedRowsAreHeld
<1>3. RecoveredRowsAreFree'
  BY RecoveredNext DEF RecoveredRowsAreFree
<1>4. RecoveriesAreOrderly'
  BY OrderlyNext DEF Exclusion
<1> QED
  BY <1>1, <1>2, <1>3, <1>4 DEF Exclusion

\* The invariant holds in every reachable state.
LEMMA ExclusionInvariant ==
  ASSUME LeasesHonoured
  PROVE  Spec => [](Typed /\ Exclusion)
<1>1. Init => Typed /\ Exclusion
  BY TypedInit, ExclusionInit
<1>2. Typed /\ Exclusion /\ [Next]_vars => (Typed /\ Exclusion)'
  BY LeasesHonoured, TypedNext, ExclusionNext
<1> QED
  BY <1>1, <1>2, PTL DEF Spec

\* Leases honoured, one recovering process, no retry command: no job is executed
\* by two executors at the same time, whatever is cancelled, deleted, killed or
\* recovered meanwhile.
THEOREM NoJobIsExecutedTwice ==
  ASSUME LeasesHonoured
  PROVE  Spec => []NoDuplicateExecution
<1>1. Typed /\ Exclusion => NoDuplicateExecution
  BY DEF Exclusion
<1> QED
  BY <1>1, ExclusionInvariant, PTL

\* ... an execution whose row is running owns the row with the attempt it claimed,
THEOREM ExecutionsOwnTheirRows ==
  ASSUME LeasesHonoured
  PROVE  Spec => []ExecutionOwnsItsRow
<1>1. Typed /\ Exclusion => ExecutionOwnsItsRow
  BY DEF Exclusion
<1> QED
  BY <1>1, ExclusionInvariant, PTL

\* ... and a recovery never takes a job from an executor that is alive, although
\* it writes on the strength of a list it read before.
THEOREM RecoveryTakesNoLiveJob ==
  ASSUME LeasesHonoured
  PROVE  Spec => []NoFalseRecovery
<1>1. Typed /\ Exclusion => NoFalseRecovery
  BY DEF Typed, Named, Exclusion, RecoveredRowsAreFree, InRecovery, NoFalseRecovery
<1> QED
  BY <1>1, ExclusionInvariant, PTL
-----------------------------------------------------------------------------
\* The abstract job store.  It needs to know, besides, what a recovery is about
\* to write.

RecoveryTargetsAreKnown ==
  \A p \in Processes :
    recovery[p].pc = "write" => recovery[p].target \in {"queued", "waiting_retry", "failed"}

Promised == Typed /\ Exclusion /\ RecoveryTargetsAreKnown

\* The claim makes the executor work on the job it claims.
LEMMA ClaimExecutes ==
  ASSUME Typed, NEW e \in Executors, NEW j \in Jobs, Claim(e, j)
  PROVE  task'[e].pc # "idle" /\ task'[e].job = j
<1> DEFINE claim == table[j].attempts + 1
           t == [IdleTask EXCEPT !.pc = "claimed", !.job = j, !.claim = claim]
<1>1. task' = [task EXCEPT ![e] = t] /\ task \in [Executors -> Task]
  BY DEF Claim, Typed, TypeOK
<1> HIDE DEF claim
<1>2. t.pc = "claimed" /\ t.job = j
  BY DEF IdleTask
<1> HIDE DEF t
<1> QED
  BY <1>1, <1>2

\* A recovery requeues a job, makes it wait, or fails it.
LEMMA RecoveryTargetsNext ==
  ASSUME Typed, RecoveryTargetsAreKnown, [Next]_vars
  PROVE  RecoveryTargetsAreKnown'
<1> USE DEF RecoveryTargetsAreKnown
<1>0. recovery \in [Processes -> Recovery]
  BY DEF Typed, TypeOK
<1>1. CASE UNCHANGED recovery
  BY <1>1
<1>2. ASSUME NEW p \in Processes, StartWorker(p) \/ RunOnce(p)
      PROVE  RecoveryTargetsAreKnown'
  BY <1>0, <1>2 DEF StartWorker, RunOnce, ListStale, NoRecovery, Recovery
<1>3. ASSUME NEW p \in Processes, recovery' = [recovery EXCEPT ![p] = NoRecovery]
      PROVE  RecoveryTargetsAreKnown'
  BY <1>0, <1>3 DEF NoRecovery
<1>4. ASSUME NEW p \in Processes, NEW i \in Jobs, RecoverCheck(p, i)
      PROVE  RecoveryTargetsAreKnown'
  <2>1. CASE table[i].status = "running"
    <3>1. PICK target \in RecoveryTargets(i) :
            recovery' = [recovery EXCEPT ![p].pc = "write", ![p].job = i,
                           ![p].target = target, ![p].stale = @ \ {i}]
      BY <1>4, <2>1 DEF RecoverCheck
    <3>2. target \in {"queued", "waiting_retry", "failed"}
      BY DEF RecoveryTargets
    <3> DEFINE r == [recovery[p] EXCEPT !.pc = "write", !.job = i, !.target = target,
                                        !.stale = @ \ {i}]
    <3>3. r.target = target
      BY <1>0 DEF Recovery
    <3>4. recovery' = [recovery EXCEPT ![p] = r]
      BY <3>1
    <3> HIDE DEF r
    <3> QED
      BY <1>0, <3>2, <3>3, <3>4
  <2>2. CASE table[i].status # "running"
    BY <1>3, <1>4, <2>2 DEF RecoverCheck, RecoveryRefused
  <2> QED
    BY <2>1, <2>2
<1>5. ASSUME NEW p \in Processes, RecoverWrite(p)
      PROVE  RecoveryTargetsAreKnown'
  <2>1. CASE RecoveryRefused(p)
    BY <1>3, <2>1 DEF RecoveryRefused
  <2>2. CASE ~RecoveryRefused(p)
    <3>1. /\ recovery'[p].pc = "next"
          /\ \A q \in Processes \ {p} : recovery'[q] = recovery[q]
      BY <1>0, <1>5, <2>2 DEF RecoverWrite, Recovery
    <3> QED
      BY <3>1
  <2> QED
    BY <2>1, <2>2
<1>6. ASSUME NEW p \in Processes, Crash(p)
      PROVE  RecoveryTargetsAreKnown'
  BY <1>3, <1>6 DEF Crash, LoseProcess
<1>7. ASSUME NEW p \in Processes, RecoveryDone(p)
      PROVE  RecoveryTargetsAreKnown'
  BY <1>3, <1>7 DEF RecoveryDone
<1>8. ASSUME NEW e \in Executors, Execute(e) \/ Heartbeat(e) \/ Interrupt(e)
      PROVE  RecoveryTargetsAreKnown'
  BY <1>1, <1>8, TaskFrame DEF Typed
<1> QED
  BY <1>1, <1>2, <1>4, <1>5, <1>6, <1>7, <1>8 DEF Next, vars, Recover, Enqueue,
     Purge, RetryFallsDue, LeaseExpires, Claim, RequeueDue, Shutdown, Drained, CommandRead,
     CommandWrite

\* The strengthened invariant holds in every reachable state.
LEMMA PromisedInvariant ==
  ASSUME LeasesHonoured
  PROVE  Spec => []Promised
<1>1. Init => Promised
  BY TypedInit, ExclusionInit DEF Promised, RecoveryTargetsAreKnown, Init, NoRecovery
<1>2. Promised /\ [Next]_vars => Promised'
  BY LeasesHonoured, TypedNext, ExclusionNext, RecoveryTargetsNext DEF Promised
<1> QED
  BY <1>1, <1>2, PTL DEF Spec

-----------------------------------------------------------------------------
\* Every step of JobExecution is a step of JobLifecycle, or changes nothing that
\* JobLifecycle knows.

\* The holder of a job is the one executor that executes it.
HolderExecutes ==
  \A j \in Jobs :
    /\ \A e \in Executors : Executing(e, j) => Holder(j) = e
    /\ (\A e \in Executors : ~Executing(e, j)) => Holder(j) = Nobody

\* It is found by CHOOSE, and there is nothing to choose.
LEMMA UniqueHolder == NoDuplicateExecution => HolderExecutes
BY DEF NoDuplicateExecution, HolderExecutes, Holder

\* A job that is executed by the same executors has the same holder.
LEMMA SameHolder ==
  ASSUME HolderExecutes, HolderExecutes', NEW j \in Jobs,
         \A e \in Executors : Executing(e, j)' <=> Executing(e, j)
  PROVE  Holder(j)' = Holder(j)
<1>1. CASE \A e \in Executors : ~Executing(e, j)
  BY <1>1 DEF HolderExecutes
<1>2. ASSUME NEW e \in Executors, Executing(e, j)
      PROVE  Holder(j)' = Holder(j)
  BY <1>2 DEF HolderExecutes
<1> QED
  BY <1>1, <1>2

\* A step that leaves the executors alone leaves the holders alone.
LEMMA SameHolders ==
  ASSUME HolderExecutes, HolderExecutes', UNCHANGED task
  PROVE  UNCHANGED [j \in Jobs |-> Holder(j)]
<1>1. \A j \in Jobs : Holder(j)' = Holder(j)
  BY SameHolder DEF Executing
<1> QED
  BY <1>1

\* A step that leaves the recoveries alone leaves their lists alone.
LEMMA SameLists ==
  ASSUME UNCHANGED recovery
  PROVE  UNCHANGED {j \in Jobs : \E p \in Processes : InRecovery(p, j)}
BY DEF InRecovery

\* Where no status changes, nobody begins to execute and no recovery begins,
\* executors and recoveries may have let go of their jobs.
LEMMA AbandonStep ==
  ASSUME LeasesHonoured, Promised, HolderExecutes, HolderExecutes', [Next]_vars,
         \A j \in Jobs : table'[j].status = table[j].status,
         \A e \in Executors, j \in Jobs : ~Claim(e, j),
         \A p \in Processes : ~StartWorker(p) /\ ~RunOnce(p)
  PROVE  Lifecycle!Abandon
<1> USE DEF Promised
<1> DEFINE S == {j \in Jobs : \A e \in Executors : ~Executing(e, j)'}
<1>0. \A e \in Executors, j \in Jobs : Executing(e, j)' => Executing(e, j)
  BY NextExecutors
<1>1. ASSUME NEW j \in Jobs
      PROVE  Holder(j)' = IF j \in S THEN Nobody ELSE Holder(j)
  <2>1. CASE j \in S
    BY <2>1 DEF HolderExecutes
  <2>2. CASE j \notin S
    BY <1>0, <2>2 DEF HolderExecutes
  <2> QED
    BY <2>1, <2>2
<1>2. [j \in Jobs |-> Holder(j)]' =
        [j \in Jobs |-> IF j \in S THEN Nobody ELSE [i \in Jobs |-> Holder(i)][j]]
  BY <1>1
<1>3. S \in SUBSET Jobs
  OBVIOUS
<1>4. {j \in Jobs : \E p \in Processes : InRecovery(p, j)}'
        \in SUBSET {j \in Jobs : \E p \in Processes : InRecovery(p, j)}
  BY NextRecovered DEF Exclusion
<1>5. UNCHANGED [j \in Jobs |-> table[j].status]
  OBVIOUS
<1> HIDE DEF S
<1> QED
  BY <1>2, <1>3, <1>4, <1>5 DEF Lifecycle!Abandon

\* claim_job starts a run.
LEMMA StartStep ==
  ASSUME Promised, HolderExecutes, HolderExecutes', NEW e \in Executors, NEW j \in Jobs,
         Claim(e, j)
  PROVE  Lifecycle!Start(j, e)
<1> USE DEF Promised
<1>0. table[j].status = "queued" /\ UNCHANGED recovery
  BY ClaimFrame
<1>1. /\ \A f \in Executors : ~Executing(f, j)
      /\ \A p \in Processes : ~InRecovery(p, j)
  BY <1>0 DEF Exclusion, ExecutedRowsAreHeld, RecoveredRowsAreFree, HeldStatus
<1>2. Executing(e, j)'
  BY ClaimExecutes DEF Executing
<1>3. ASSUME NEW i \in Jobs, i # j
      PROVE  Holder(i)' = Holder(i)
  <2>1. \A f \in Executors : Executing(f, i)' <=> Executing(f, i)
    BY <1>3, ClaimExecutes, ClaimFrame DEF Executing
  <2> QED
    BY <2>1, SameHolder
<1>4. Holder(j) = Nobody /\ Holder(j)' = e
  BY <1>1, <1>2 DEF HolderExecutes
<1>5. [i \in Jobs |-> Holder(i)]' = [[i \in Jobs |-> Holder(i)] EXCEPT ![j] = e]
  BY <1>3, <1>4
<1>6. [i \in Jobs |-> table[i].status]' =
        [[i \in Jobs |-> table[i].status] EXCEPT ![j] = "running"]
  <2>1. table'[j].status = "running" /\ \A i \in Jobs \ {j} : table'[i] = table[i]
    BY ClaimFrame
  <2> QED
    BY <2>1
<1> QED
  BY <1>0, <1>1, <1>4, <1>5, <1>6, SameLists DEF Lifecycle!Start

\* The executor's update_job_status ends the run of its job, unless that is
\* deleted.
LEMMA FinishStep ==
  ASSUME Promised, HolderExecutes, HolderExecutes', NEW e \in Executors, WriteOutcome(e),
         NEW j \in Jobs, task[e].job = j, Exists(table[j])
  PROVE  Lifecycle!Finish(j)
<1> DEFINE s == task[e].target
<1> USE DEF Promised
<1>0. table \in [Jobs -> Row] /\ task \in [Executors -> Task] /\ Nobody \notin Executors
  BY ConstantsAssumption DEF Typed, TypeOK
<1>1. Executing(e, j) /\ table[j].status \in {"running", "cancelled"}
  BY DEF WriteOutcome, Executing, Exclusion, ExecutedRowsAreHeld, HeldStatus, Exists, JobStatus
<1>2. s \in Lifecycle!RunEnds
  BY <1>0 DEF WriteOutcome, Typed, OutcomesEndRuns, Task, JobStatus, Lifecycle!RunEnds
<1>3. /\ task' = [task EXCEPT ![e] = IdleTask]
      /\ table' = [table EXCEPT ![j] = UpdatedRow(table[j], s, ScheduledIf(s))]
      /\ UNCHANGED recovery
  BY <1>0 DEF WriteOutcome
<1>4. \A i \in Jobs, f \in Executors : Executing(f, i)' <=> Executing(f, i) /\ f # e
  BY <1>0, <1>3 DEF Executing, IdleTask
<1>5. ASSUME NEW i \in Jobs, i # j
      PROVE  Holder(i)' = Holder(i)
  <2>1. \A f \in Executors : Executing(f, i)' <=> Executing(f, i)
    BY <1>1, <1>4, <1>5 DEF Executing
  <2> QED
    BY <2>1, SameHolder
<1>6. Holder(j) = e /\ Holder(j)' = Nobody
  <2>1. Holder(j) = e
    BY <1>1 DEF HolderExecutes
  <2>2. \A f \in Executors : ~Executing(f, j)'
    BY <1>1, <1>4, <2>1 DEF HolderExecutes
  <2> QED
    BY <1>1, <2>1, <2>2 DEF HolderExecutes
<1> HIDE DEF s
<1>7. [i \in Jobs |-> Holder(i)]' = [[i \in Jobs |-> Holder(i)] EXCEPT ![j] = Nobody]
  BY <1>1, <1>5, <1>6
<1>8. table'[j].status = s /\ \A i \in Jobs \ {j} : table'[i] = table[i]
  BY <1>0, <1>1, <1>3 DEF UpdatedRow, Row
<1>9. [i \in Jobs |-> table[i].status]' = [[i \in Jobs |-> table[i].status] EXCEPT ![j] = s]
  BY <1>1, <1>8
<1> QED
  BY <1>0, <1>1, <1>2, <1>3, <1>6, <1>7, <1>9, SameLists DEF Lifecycle!Finish, Lifecycle!Unended

\* A recovery that begins lists runs whose lease has expired: they are nobody's.
LEMMA ListStep ==
  ASSUME LeasesHonoured, Promised, HolderExecutes, HolderExecutes', [Next]_vars,
         NEW p \in Processes, StartWorker(p) \/ RunOnce(p)
  PROVE  Lifecycle!List
<1> USE DEF Promised
<1>0. /\ recovery \in [Processes -> Recovery]
      /\ UNCHANGED <<table, task>>
  BY DEF Typed, TypeOK, StartWorker, RunOnce
<1>1. Exclusion'
  BY ExclusionNext
<1>2. recovery'[p].pc = "next" /\ recovery'[p].stale = {i \in Jobs : IsStale(table[i])}
  BY <1>0 DEF StartWorker, RunOnce, ListStale, NoRecovery, Recovery
<1>3. ASSUME NEW j \in Jobs, NEW q \in Processes, InRecovery(q, j)'
      PROVE  table[j].status = "running" /\ Holder(j) = Nobody
  <2>1. recovery'[q].pc # "off"
    BY <1>3 DEF InRecovery
  <2>2. p = q
    BY <1>1, <1>2, <2>1 DEF Exclusion, RecoveriesAreOrderly, LeasesHonoured
  <2>3. IsStale(table[j])
    BY <1>2, <1>3, <2>2 DEF InRecovery
  <2>4. \A e \in Executors : ~Executing(e, j)
    BY <1>0, <1>1, <1>3 DEF Exclusion, RecoveredRowsAreFree, Executing
  <2> QED
    BY <2>3, <2>4 DEF IsStale, HolderExecutes
<1>4. {j \in Jobs : \E q \in Processes : InRecovery(q, j)}'
        \in SUBSET {j \in Jobs : table[j].status = "running" /\ Holder(j) = Nobody}
  BY <1>3
<1>5. {j \in Jobs : table[j].status = "running" /\ Holder(j) = Nobody}
        = {j \in Jobs : /\ [i \in Jobs |-> table[i].status][j] = "running"
                        /\ [i \in Jobs |-> Holder(i)][j] = Nobody}
  OBVIOUS
<1>6. UNCHANGED [j \in Jobs |-> table[j].status] /\ UNCHANGED [j \in Jobs |-> Holder(j)]
  BY <1>0, SameHolders
<1> QED
  BY <1>4, <1>5, <1>6 DEF Lifecycle!List

\* recover_stale_jobs ends the run of a job that it has listed.
LEMMA RecoverStep ==
  ASSUME LeasesHonoured, Promised, HolderExecutes, HolderExecutes', [Next]_vars,
         NEW p \in Processes, RecoverWrite(p),
         NEW j \in Jobs, recovery[p].job = j, Exists(table[j])
  PROVE  Lifecycle!Recover(j)
<1> DEFINE s == recovery[p].target
<1> USE DEF Promised
<1>0. table \in [Jobs -> Row] /\ recovery \in [Processes -> Recovery]
  BY DEF Typed, TypeOK
<1>1. InRecovery(p, j) /\ recovery[p].pc = "write"
  BY DEF RecoverWrite, InRecovery
<1>2. table[j].status \in {"running", "cancelled"}
  BY <1>1 DEF Exclusion, RecoveredRowsAreFree, HeldStatus, Exists, JobStatus
<1>3. s \in {"queued", "waiting_retry", "failed"}
  BY <1>1 DEF RecoveryTargetsAreKnown
<1>4. /\ table' = [table EXCEPT ![j] = UpdatedRow(table[j], s, ScheduledIf(s))]
      /\ recovery' = [recovery EXCEPT ![p].pc = "next", ![p].job = NoJob,
                                      ![p].target = "running"]
      /\ UNCHANGED task
  BY DEF RecoverWrite
<1> HIDE DEF s
<1>5. table'[j].status = s /\ \A i \in Jobs \ {j} : table'[i] = table[i]
  BY <1>0, <1>4 DEF UpdatedRow, Row
<1>6. [i \in Jobs |-> table[i].status]' = [[i \in Jobs |-> table[i].status] EXCEPT ![j] = s]
  BY <1>5
<1>7. /\ recovery'[p].pc = "next" /\ recovery'[p].stale = recovery[p].stale
      /\ \A q \in Processes \ {p} : recovery'[q] = recovery[q]
  BY <1>0, <1>4 DEF Recovery
<1>8. ASSUME NEW i \in Jobs, NEW q \in Processes, InRecovery(q, i)'
      PROVE  i # j /\ InRecovery(q, i)
  <2>1. ~(IsStale(table[i]) /\ UNCHANGED <<table, task>>)
    BY <1>2, <1>3, <1>5
  <2> QED
    BY <1>8, <2>1, NextRecovered DEF Exclusion
<1>9. ASSUME NEW i \in Jobs, i # j, NEW q \in Processes, InRecovery(q, i)
      PROVE  InRecovery(q, i)'
  BY <1>1, <1>7, <1>9 DEF InRecovery
<1>10. {i \in Jobs : \E q \in Processes : InRecovery(q, i)}'
         = {i \in Jobs : \E q \in Processes : InRecovery(q, i)} \ {j}
  BY <1>8, <1>9
<1> QED
  BY <1>1, <1>2, <1>3, <1>4, <1>6, <1>10, SameHolders DEF Lifecycle!Recover, Lifecycle!Unended

\* Statuses change also where a job enters the queue, returns to it, or is
\* removed.
LEMMA QueueSteps ==
  ASSUME Typed, HolderExecutes, HolderExecutes', UNCHANGED <<task, recovery>>
  PROVE  /\ \A j \in Jobs : Enqueue(j) => Lifecycle!Create(j)
         /\ \A j \in Jobs : Purge(j) => Lifecycle!Forget(j)
         /\ \A p \in Processes : RequeueDue(p) => Lifecycle!Requeue
<1>0. /\ table \in [Jobs -> Row] /\ UNCHANGED [j \in Jobs |-> Holder(j)]
      /\ UNCHANGED {j \in Jobs : \E p \in Processes : InRecovery(p, j)}
  BY SameHolders, SameLists DEF Typed, TypeOK
<1>1. ASSUME NEW j \in Jobs, Enqueue(j) PROVE Lifecycle!Create(j)
  <2>1. table'[j].status = "queued" /\ \A i \in Jobs \ {j} : table'[i] = table[i]
    BY <1>0, <1>1 DEF Enqueue, CreatedRow, NoRow
  <2>2. [i \in Jobs |-> table[i].status]' =
          [[i \in Jobs |-> table[i].status] EXCEPT ![j] = "queued"]
    BY <2>1
  <2> QED
    BY <1>0, <1>1, <2>2 DEF Enqueue, Lifecycle!Create
<1>2. ASSUME NEW j \in Jobs, Purge(j) PROVE Lifecycle!Forget(j)
  <2>1. table'[j].status = "deleted" /\ \A i \in Jobs \ {j} : table'[i] = table[i]
    BY <1>0, <1>2 DEF Purge, NoRow
  <2>2. [i \in Jobs |-> table[i].status]' =
          [[i \in Jobs |-> table[i].status] EXCEPT ![j] = "deleted"]
    BY <2>1
  <2> QED
    BY <1>0, <1>2, <2>2 DEF Purge, Lifecycle!Forget
<1>3. ASSUME NEW p \in Processes, RequeueDue(p) PROVE Lifecycle!Requeue
  <2> DEFINE S == {j \in Jobs : IsDue(table[j])}
             status == [j \in Jobs |-> table[j].status]
  <2>1. \A j \in Jobs : table'[j].status = IF j \in S THEN "queued" ELSE table[j].status
    BY <1>0, <1>3 DEF RequeueDue, RequeuedRow, Row
  <2>2. status' = [j \in Jobs |-> IF j \in S THEN "queued" ELSE status[j]]
    BY <2>1
  <2>3. S \in SUBSET {j \in Jobs : status[j] = "waiting_retry"}
    BY DEF IsDue
  <2> QED
    BY <1>0, <2>2, <2>3 DEF Lifecycle!Requeue
<1> QED
  BY <1>1, <1>2, <1>3

\* A command that changes the status of a job: cancel and delete write over
\* whatever it is by then.
LEMMA InterfereStep ==
  ASSUME LeasesHonoured, Typed, HolderExecutes, HolderExecutes', NEW o \in Operators,
         CommandWrite(o), NEW j \in Jobs, command[o].job = j,
         table'[j].status # table[j].status
  PROVE  Lifecycle!Interfere(j)
<1> DEFINE c == command[o]
<1>0. /\ table \in [Jobs -> Row] /\ UNCHANGED [i \in Jobs |-> Holder(i)]
      /\ UNCHANGED {i \in Jobs : \E p \in Processes : InRecovery(p, i)}
  BY SameHolders, SameLists DEF Typed, TypeOK, CommandWrite
<1>1. c.kind \in Commands /\ c.kind \in {"cancel", "delete"}
  BY ConstantsAssumption DEF CommandWrite, LeasesHonoured, Typed, TypeOK, Command
<1>2. Exists(table[j]) /\ table' = [table EXCEPT ![j] = CommandEffect(c.kind, c.seen, table[j])]
  BY <1>0 DEF CommandWrite
<1> DEFINE row == CommandEffect(c.kind, c.seen, table[j])
<1>3. row.status = IF c.kind = "cancel" THEN "cancelled" ELSE "deleted"
  <2>1. table'[j] = row
    BY <1>0, <1>2
  <2>2. CASE c.kind = "cancel"
    BY <1>0, <2>1, <2>2 DEF CommandEffect, CancelRequestedRow, Row
  <2>3. CASE c.kind = "delete"
    BY <2>3 DEF CommandEffect, NoRow
  <2> QED
    BY <1>1, <2>2, <2>3
<1> HIDE DEF row
<1>4. [i \in Jobs |-> table[i].status]' =
        [[i \in Jobs |-> table[i].status] EXCEPT ![j] = row.status]
  BY <1>0, <1>2 DEF row
<1>5. table[j].status \notin {"unborn", "deleted"}
  BY <1>2 DEF Exists, JobStatus
<1> QED
  BY <1>0, <1>1, <1>3, <1>4, <1>5 DEF Lifecycle!Interfere

\* The step simulation.
LEMMA LifecycleStep ==
  ASSUME LeasesHonoured, Promised, HolderExecutes, HolderExecutes', [Next]_vars
  PROVE  [Lifecycle!Next]_(Lifecycle!vars)
<1> USE DEF Promised
<1>0. table \in [Jobs -> Row]
  BY DEF Typed, TypeOK
<1>1. CASE \E e \in Executors, j \in Jobs : Claim(e, j)
  BY <1>1, StartStep DEF Lifecycle!Next
<1>2. CASE \E p \in Processes : StartWorker(p) \/ RunOnce(p)
  BY <1>2, ListStep DEF Lifecycle!Next
<1>3. ASSUME \A j \in Jobs : table'[j].status = table[j].status,
             \A e \in Executors, j \in Jobs : ~Claim(e, j),
             \A p \in Processes : ~StartWorker(p) /\ ~RunOnce(p)
      PROVE  Lifecycle!Next
  BY <1>3, AbandonStep DEF Lifecycle!Next
<1>4. ASSUME NEW e \in Executors, WriteOutcome(e), ~UNCHANGED table
      PROVE  Lifecycle!Next
  <2>1. task[e].job \in Jobs /\ Exists(table[task[e].job])
    BY <1>4 DEF WriteOutcome, Typed, Named
  <2> QED
    BY <1>4, <2>1, FinishStep DEF Lifecycle!Next
<1>5. ASSUME NEW p \in Processes, RecoverWrite(p), ~UNCHANGED table
      PROVE  Lifecycle!Next
  <2>1. recovery[p].job \in Jobs /\ Exists(table[recovery[p].job])
    BY <1>5 DEF RecoverWrite, Typed, Named
  <2>2. PICK j \in Jobs : recovery[p].job = j /\ Exists(table[j])
    BY <2>1
  <2>3. Lifecycle!Recover(j)
    BY <1>5, <2>2, RecoverStep
  <2> QED
    BY <2>3 DEF Lifecycle!Next
<1>6. ASSUME NEW j \in Jobs, Enqueue(j) \/ Purge(j)
      PROVE  Lifecycle!Next
  BY <1>6, QueueSteps DEF Enqueue, Purge, Lifecycle!Next
<1>7. ASSUME NEW p \in Processes, RequeueDue(p)
      PROVE  Lifecycle!Next
  BY <1>7, QueueSteps DEF RequeueDue, Lifecycle!Next
<1>8. ASSUME NEW o \in Operators, CommandWrite(o), NEW j \in Jobs,
             table'[j].status # table[j].status
      PROVE  Lifecycle!Next
  <2>1. command[o].job = j
    BY <1>0, <1>8 DEF CommandWrite
  <2> QED
    BY <1>8, <2>1, InterfereStep DEF Lifecycle!Next
<1>9. CASE /\ \A e \in Executors, j \in Jobs : ~Claim(e, j)
           /\ \A p \in Processes : ~StartWorker(p) /\ ~RunOnce(p)
  <2>1. ASSUME UNCHANGED table PROVE Lifecycle!Next
    BY <1>3, <1>9, <2>1
  <2>2. ASSUME NEW j \in Jobs, RetryFallsDue(j) \/ LeaseExpires(j)
        PROVE  Lifecycle!Next
    <3>1. \A i \in Jobs : table'[i].status = table[i].status
      BY <1>0, <2>2 DEF RetryFallsDue, LeaseExpires, Row
    <3> QED
      BY <1>3, <1>9, <3>1
  <2>3. ASSUME NEW e \in Executors, Execute(e) \/ Heartbeat(e) \/ Interrupt(e)
        PROVE  Lifecycle!Next
    <3>1. CASE Heartbeat(e)
      <4>1. \A i \in Jobs : table'[i].status = table[i].status
        BY <1>0, <3>1 DEF Heartbeat, RenewedRow, Row
      <4> QED
        BY <1>3, <1>9, <4>1
    <3> QED
      BY <1>4, <2>1, <2>3, <3>1, ExecutorRows
  <2>4. ASSUME NEW o \in Operators, CommandWrite(o)
        PROVE  Lifecycle!Next
    BY <1>3, <1>8, <1>9, <2>4
  <2> QED
    BY <1>5, <1>6, <1>7, <1>9, <2>1, <2>2, <2>3, <2>4 DEF Next, vars, Recover, RecoverCheck,
       RecoveryDone, Crash, Shutdown, Drained, CommandRead
<1> QED
  BY <1>1, <1>2, <1>9

\* At first no job exists, nobody holds one and none is listed.
LEMMA LifecycleInit == Init => Lifecycle!Init
<1> SUFFICES ASSUME Init PROVE Lifecycle!Init
  OBVIOUS
<1>1. \A j \in Jobs : Holder(j) = Nobody /\ table[j].status = "unborn"
  BY DEF Init, Holder, Executing, IdleTask, NoRow
<1>2. \A p \in Processes, j \in Jobs : ~InRecovery(p, j)
  BY DEF Init, InRecovery, NoRecovery
<1> QED
  BY <1>1, <1>2 DEF Lifecycle!Init

\* Leases honoured, one recovering process, no retry command: whatever the
\* claims, crashes, shutdowns, retries and recoveries, and whenever somebody
\* cancels or deletes a job, to its clients the orchestrator is the job store of
\* JobLifecycle.
THEOREM JobStoreIsImplemented ==
  ASSUME LeasesHonoured
  PROVE  Spec => ImplementsLifecycle
<1>1. Promised => HolderExecutes
  BY UniqueHolder DEF Promised, Exclusion
<1>2. Promised /\ HolderExecutes /\ HolderExecutes' /\ [Next]_vars
        => [Lifecycle!Next]_(Lifecycle!vars)
  BY LeasesHonoured, LifecycleStep
<1>3. Spec => []Promised
  BY LeasesHonoured, PromisedInvariant
<1> QED
  BY <1>1, <1>2, <1>3, LifecycleInit, PTL DEF Spec, Lifecycle!Spec, ImplementsLifecycle
=============================================================================
