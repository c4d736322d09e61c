---------------------------- MODULE Conversation ----------------------------
(***************************************************************************)
(* What a job remembers of its backend between two runs: the row of        *)
(* conversation_state, the follow-up keys in the job's metadata, and the   *)
(* choice between submit and continue_job that is made of both.  Row and   *)
(* metadata are written in two transactions, the answer first, so an error *)
(* or a crash may fall in between.                                         *)
(*                                                                         *)
(* One job, executed by one executor at a time (JobExclusionProofs).  A    *)
(* message is known by its role and by the run that sent or received it, a *)
(* summary by the messages it has a line for: messages are short, neither  *)
(* the character threshold nor the limit of the summary is reached.  Only  *)
(* messages_api reads its history; the two command-line backends never     *)
(* resume and are one here, "cli".                                         *)
(***************************************************************************)
EXTENDS RetryPolicy, Sequences

CONSTANTS
  Backends,    \* the backends considered
  Threshold,   \* compaction_message_threshold
  KeepRecent,  \* compaction_keep_recent_messages
  MaxAttempts, \* jobs.max_attempts
  MaxRuns      \* bound: how often the job is claimed

ASSUME ConversationAssumption ==
  /\ Backends \subseteq {"messages_api", "agent_sdk", "cli"}
  /\ Threshold \in Nat /\ KeepRecent \in Nat \ {0}
  /\ {MaxAttempts, MaxRuns} \subseteq Nat

VARIABLES
  job,    \* the row of jobs, with the metadata that matters here
  state,  \* the row of conversation_state
  run,    \* the execution in progress
  lost    \* history: the saved answer was not recorded in the job's row

vars == <<job, state, run, lost>>

Roles == {"user", "assistant"}
Message == [role : Roles, run : Nat]

\* hint is metadata.resume_hint, followup is metadata.followup_type.
Job == [backend : Backends, status : {"queued", "running", "waiting_retry",
                                      "completed", "failed", "cancelled"},
        attempts : Nat, cancel : BOOLEAN, autoResume : BOOLEAN,
        followup : {"none", "model_continuation"},
        hint : {"none", "recoverable_resume", "checkpoint_available", "quota_reset"}]

ConversationState ==
  [history : Seq(Message), summary : SUBSET Message,
   pending : BOOLEAN, checkpoint : BOOLEAN]

NoState == [history |-> << >>, summary |-> {}, pending |-> FALSE, checkpoint |-> FALSE]

\* pc: none; "awaiting" the backend; "saved", between the two transactions.
NoRun == [pc |-> "idle", continues |-> FALSE, request |-> << >>,
          status |-> "completed", reason |-> "none"]

Run == [pc : {"idle", "awaiting", "saved"}, continues : BOOLEAN,
        request : Seq(Message), status : {"completed", "queued"},
        reason : {"none", "max_tokens", "checkpoint_available"}]

Init ==
  /\ job \in [backend : Backends, status : {"queued"}, attempts : {0},
              cancel : {FALSE}, autoResume : BOOLEAN, followup : {"none"}, hint : {"none"}]
  /\ state = NoState
  /\ run = NoRun
  /\ lost = FALSE

-----------------------------------------------------------------------------
\* The choice between submit and continue_job, and the messages of a request.

can_resume ==
  CASE job.backend = "messages_api" -> state.history # << >> \/ state.pending
    [] job.backend = "agent_sdk"    -> state.checkpoint
    [] OTHER                        -> FALSE

\* Mutant: only the metadata of the job decides.
ForgetfulShouldContinue ==
  /\ can_resume
  /\ \/ job.followup = "model_continuation"
     \/ job.hint \in {"recoverable_resume", "checkpoint_available"}

ShouldContinue ==
  /\ can_resume
  /\ \/ job.followup = "model_continuation"
     \/ job.hint \in {"recoverable_resume", "checkpoint_available"}
     \/ state.pending

LastOf(s, n) == SubSeq(s, Len(s) - n + 1, Len(s))
MessagesOf(s) == {s[i] : i \in 1 .. Len(s)}

\* _compact_messages: what is kept, and what the summary has lines for.
Kept(messages) ==
  IF Len(messages) <= Threshold THEN messages
  ELSE LastOf(messages, Lesser(KeepRecent, Len(messages)))

Summary(summary, messages) ==
  IF Len(messages) <= Threshold THEN summary
  ELSE summary \cup (MessagesOf(messages) \ MessagesOf(Kept(messages)))

Last(s) == s[Len(s)]
Said(role) == [role |-> role, run |-> job.attempts']

\* _build_request_payload.  The request is compacted as well, and the summary
\* of what it leaves out is dropped.
Request(continues) ==
  Kept(IF state.history = << >> THEN << Said("user") >>
       ELSE IF continues /\ Last(state.history).role # "user"
            THEN Append(state.history, Said("user"))
            ELSE state.history)

\* A claim, and process_claimed_job up to the call of the backend.
Start ==
  /\ job.status = "queued" /\ run.pc = "idle"
  /\ job.attempts < MaxRuns
  /\ job' = [job EXCEPT !.status = "running", !.attempts = @ + 1, !.cancel = FALSE]
  /\ run' = [NoRun EXCEPT !.pc = "awaiting", !.continues = ShouldContinue,
                          !.request = IF job.backend = "messages_api"
                                      THEN Request(ShouldContinue) ELSE << >>]
  /\ UNCHANGED <<state, lost>>

-----------------------------------------------------------------------------
\* The answer of the backend: updated_state, written by save_conversation_state
\* at the head of _persist_success.

WithReply(messages, text) ==
  IF text THEN Append(messages, [role |-> "assistant", run |-> job.attempts]) ELSE messages

\* Mutant: the flag of a cut-off answer is only ever set.
StickyMessagesApiState(text, cut) ==
  LET said == WithReply(run.request, text)
  IN [state EXCEPT !.history = Kept(said), !.summary = Summary(@, said),
                   !.pending = @ \/ cut]

MessagesApiState(text, cut) ==
  LET said == WithReply(run.request, text)
  IN [state EXCEPT !.history = Kept(said), !.summary = Summary(@, said),
                   !.pending = cut]

\* agent_sdk and the command-line backends: the summary is the last output.
OutputState(text, checkpoint) ==
  LET said == WithReply(state.history, text)
  IN [state EXCEPT !.history = said,
                   !.summary = MessagesOf(said) \ MessagesOf(state.history),
                   !.checkpoint = checkpoint]

Save(updated, status, reason) ==
  /\ run.pc = "awaiting" /\ job.status = "running"
  /\ state' = updated
  /\ run' = [run EXCEPT !.pc = "saved", !.status = status, !.reason = reason]
  /\ lost' = TRUE
  /\ UNCHANGED job

Reply ==
  \E text \in BOOLEAN :
    \/ /\ job.backend = "messages_api"
       /\ \E cut \in BOOLEAN :
            Save(MessagesApiState(text, cut), IF cut THEN "queued" ELSE "completed",
                 IF cut THEN "max_tokens" ELSE "none")
    \/ /\ job.backend = "agent_sdk"
       /\ \E checkpoint, completed \in BOOLEAN :
            Save(OutputState(text, checkpoint), IF completed THEN "completed" ELSE "queued",
                 IF checkpoint THEN "checkpoint_available" ELSE "none")
    \/ /\ job.backend = "cli"
       /\ Save(OutputState(text, FALSE), "completed", "none")

-----------------------------------------------------------------------------
\* The rest of _persist_success: what the row says of the run.

Forgotten(status) ==
  [job EXCEPT !.status = status, !.cancel = FALSE, !.followup = "none", !.hint = "none"]

\* Mutant: every reason is a resume hint.
UniformFollowedUp == [Forgotten("queued") EXCEPT !.hint = run.reason]

\* _followup_metadata.
FollowedUp ==
  IF run.reason = "max_tokens"
  THEN [Forgotten("queued") EXCEPT !.followup = "model_continuation"]
  ELSE [Forgotten("queued") EXCEPT !.hint = run.reason]

Record ==
  /\ run.pc = "saved"
  /\ job' = CASE job.cancel               -> Forgotten("cancelled")
              [] ~job.cancel /\ run.status = "completed" -> Forgotten("completed")
              [] ~job.cancel /\ run.status = "queued"    -> FollowedUp
  /\ run' = NoRun
  /\ lost' = FALSE
  /\ UNCHANGED state

\* _persist_failure.  Auto-resume leaves the follow-up type in the metadata.
Failed(f) ==
  CASE Disposition(f, job.attempts, MaxAttempts) = "retry" -> Forgotten("waiting_retry")
    [] Disposition(f, job.attempts, MaxAttempts) = "fail" /\ LooksRateLimited(f) /\ job.autoResume ->
         [job EXCEPT !.status = "waiting_retry", !.cancel = FALSE, !.hint = "quota_reset"]
    [] OTHER -> Forgotten("failed")

\* An overload, a rate limit with and without a typed body, anything else (a
\* tool_use answer, an artifact that cannot be written).
Failures == {[kind |-> "transport", status |-> 0, typed |-> FALSE],
             [kind |-> "http", status |-> 429, typed |-> TRUE],
             [kind |-> "http", status |-> 429, typed |-> FALSE],
             [kind |-> "other", status |-> 0, typed |-> FALSE]}

\* The backend raises, or what follows the save does.
RunFails ==
  \E f \in Failures :
    /\ run.pc # "idle"
    /\ run.pc = "saved" => f.kind = "other"
    /\ job' = Failed(f)
    /\ run' = NoRun
    /\ UNCHANGED <<state, lost>>

\* _persist_interrupted: a shutdown cancels the await of the backend.
Interrupted ==
  /\ run.pc = "awaiting"
  /\ job' = Forgotten("waiting_retry")
  /\ run' = NoRun
  /\ UNCHANGED <<state, lost>>

-----------------------------------------------------------------------------
\* Crashes, recovery, the scheduler and the operator.

Crash ==
  /\ run.pc # "idle"
  /\ run' = NoRun
  /\ UNCHANGED <<job, state, lost>>

\* recover_stale_jobs; the backend may not be enabled any more.
Recover ==
  /\ job.status = "running" /\ run.pc = "idle"
  /\ \/ job' = [job EXCEPT !.status = "failed", !.cancel = FALSE]
     \/ job' = IF can_resume
               THEN [job EXCEPT !.status = "queued", !.cancel = FALSE, !.hint = "recoverable_resume"]
               ELSE [job EXCEPT !.status = "waiting_retry", !.cancel = FALSE, !.hint = "none"]
  /\ UNCHANGED <<state, run, lost>>

\* requeue_due_retries keeps the follow-up keys, manual_retry drops them.
Requeue ==
  /\ job.status = "waiting_retry"
  /\ job' = [job EXCEPT !.status = "queued"]
  /\ UNCHANGED <<state, run, lost>>

\* Mutant: a job that ended can be retried too.
RevivingRetry ==
  /\ job.status \in {"waiting_retry", "failed", "completed"}
  /\ job' = Forgotten("queued")
  /\ UNCHANGED <<state, run, lost>>

Retry ==
  /\ job.status \in {"waiting_retry", "failed"}
  /\ job' = Forgotten("queued")
  /\ UNCHANGED <<state, run, lost>>

\* request_cancel of a running job; of any other job it is the end.
Cancel ==
  /\ job.status \in {"queued", "running", "waiting_retry", "failed"}
  /\ job' = IF job.status = "running" THEN [Forgotten("running") EXCEPT !.cancel = TRUE]
            ELSE Forgotten("cancelled")
  /\ UNCHANGED <<state, run, lost>>

Next == Start \/ Reply \/ Record \/ RunFails \/ Interrupted
        \/ Crash \/ Recover \/ Requeue \/ Retry \/ Cancel

Spec == Init /\ [][Next]_vars

-----------------------------------------------------------------------------
TypeOK ==
  /\ job \in Job
  /\ state \in ConversationState
  /\ run \in Run
  /\ lost \in BOOLEAN

\* A request that follows a cut-off answer asks for its continuation and ends
\* with the operator's turn, whatever happened to the follow-up keys since:
\* errors, shutdowns, crashes and retries remove them.
CutOffAnswersAreContinued ==
  run.pc = "awaiting" /\ state.pending
    => run.continues /\ Last(run.request).role = "user"

\* A finished answer is asked for again only when the run that saved it failed
\* or stopped before the row could say so.
FinishedAnswersStand ==
  run.pc = "awaiting" /\ job.backend = "messages_api" /\ ~lost
    => state.pending \/ state.history = << >>

\* The follow-up keys and the status tell the truth about the saved state,
\* except for a turn whose record was lost.
RowsFollowTheDialogue ==
  ~lost =>
    /\ job.status = "completed" => ~state.pending
    /\ job.followup = "model_continuation" => state.pending
    /\ job.hint = "checkpoint_available" => state.checkpoint

-----------------------------------------------------------------------------
\* What the documentation says and the code does not do.

Known(s) == MessagesOf(s.history) \cup s.summary

TakesTurns(messages) ==
  \A i \in 1 .. Len(messages) : messages[i].role = IF i % 2 = 1 THEN "user" ELSE "assistant"

\* "Stores conversation history locally, compacts older turns into
\* compact_summary": saving a turn of a dialogue forgets no earlier message, it
\* is in the history or it has a line in the summary.
DialoguesAreKept ==
  [][TakesTurns(state.history) => Known(state) \subseteq Known(state')]_state
=============================================================================
