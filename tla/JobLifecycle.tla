---------------------------- MODULE JobLifecycle ----------------------------
(***************************************************************************)
(* What the job store promises, with nothing said of how: a job has a      *)
(* status and at most one holder.  Only a queued job that nobody has a     *)
(* hold of is started; a run is ended by its holder or, once the holder is *)
(* gone, by a recovery that found it running; and an operator may cancel   *)
(* or delete a job at any time, which the holder learns of too late or not *)
(* at all.  JobExecution implements this as long as leases are honoured    *)
(* and the retry command is not used.                                      *)
(***************************************************************************)
CONSTANTS
  Jobs, Executors, Nobody,
  Commands  \* what operators do: "cancel", "delete"

VARIABLES
  status,  \* of each job
  holder,  \* the executor that runs it, or Nobody
  listed   \* the jobs that a recovery is going to end

vars == <<status, holder, listed>>

Init ==
  /\ status = [j \in Jobs |-> "unborn"]
  /\ holder = [j \in Jobs |-> Nobody]
  /\ listed = {}

\* The job enters the queue.
Create(j) ==
  /\ status[j] = "unborn"
  /\ status' = [status EXCEPT ![j] = "queued"]
  /\ UNCHANGED <<holder, listed>>

\* An executor claims a queued job.
Start(j, e) ==
  /\ status[j] = "queued" /\ holder[j] = Nobody /\ j \notin listed
  /\ status' = [status EXCEPT ![j] = "running"]
  /\ holder' = [holder EXCEPT ![j] = e]
  /\ UNCHANGED listed

\* A run that was cancelled from outside goes on, and its end is written.
Unended == {j \in Jobs : status[j] \in {"running", "cancelled"}}

RunEnds == {"queued", "waiting_retry", "completed", "failed", "cancelled"}

\* The holder records the outcome and lets go.
Finish(j) ==
  /\ j \in Unended /\ holder[j] # Nobody
  /\ \E s \in RunEnds : status' = [status EXCEPT ![j] = s]
  /\ holder' = [holder EXCEPT ![j] = Nobody]
  /\ UNCHANGED listed

\* Some holders are gone without an outcome, some jobs will not be recovered.
Abandon ==
  /\ \E S \in SUBSET Jobs :
       holder' = [j \in Jobs |-> IF j \in S THEN Nobody ELSE holder[j]]
  /\ listed' \in SUBSET listed
  /\ UNCHANGED status

\* A recovery looks for the runs whose holder is gone.
List ==
  /\ listed' \in SUBSET {j \in Jobs : status[j] = "running" /\ holder[j] = Nobody}
  /\ UNCHANGED <<status, holder>>

\* It makes them runnable again, or gives them up.
Recover(j) ==
  /\ j \in listed \cap Unended
  /\ \E s \in {"queued", "waiting_retry", "failed"} :
       status' = [status EXCEPT ![j] = s]
  /\ listed' = listed \ {j}
  /\ UNCHANGED holder

\* The waiting jobs whose time has come return to the queue, all at once.
Requeue ==
  /\ \E S \in SUBSET {j \in Jobs : status[j] = "waiting_retry"} :
       status' = [j \in Jobs |-> IF j \in S THEN "queued" ELSE status[j]]
  /\ UNCHANGED <<holder, listed>>

\* Old records are removed.
Forget(j) ==
  /\ status[j] \in {"completed", "cancelled"}
  /\ status' = [status EXCEPT ![j] = "deleted"]
  /\ UNCHANGED <<holder, listed>>

\* An operator cancels or deletes a job that exists, whoever has a hold of it.
Interfere(j) ==
  /\ status[j] \notin {"unborn", "deleted"}
  /\ \/ "cancel" \in Commands /\ status' = [status EXCEPT ![j] = "cancelled"]
     \/ "delete" \in Commands /\ status' = [status EXCEPT ![j] = "deleted"]
  /\ UNCHANGED <<holder, listed>>

Next ==
  \/ \E j \in Jobs : Create(j) \/ Finish(j) \/ Recover(j) \/ Forget(j) \/ Interfere(j)
  \/ \E j \in Jobs, e \in Executors : Start(j, e)
  \/ Abandon \/ List \/ Requeue

Spec == Init /\ [][Next]_vars
=============================================================================
