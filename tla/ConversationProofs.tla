------------------------- MODULE ConversationProofs -------------------------
(***************************************************************************)
(* What a job remembers of its backend agrees with what its row says, for  *)
(* every threshold, every number of runs and every crash between the two   *)
(* transactions.                                                           *)
(***************************************************************************)
EXTENDS Conversation, SequenceTheorems, TLAPS

-----------------------------------------------------------------------------
\* Compaction keeps a suffix of the messages, and so the last one.

\* What compaction keeps is a sequence with the same last message.
LEMMA KeptMessages ==
  ASSUME NEW s \in Seq(Message)
  PROVE  /\ Kept(s) \in Seq(Message)
         /\ s # << >> => Kept(s) # << >> /\ Last(Kept(s)) = Last(s)
<1>1. CASE Len(s) <= Threshold
  BY <1>1 DEF Kept
<1>2. CASE Len(s) > Threshold
  <2> DEFINE n == Lesser(KeepRecent, Len(s))
             m == Len(s) - n + 1
  <2>1. Len(s) \in Nat /\ Len(s) >= 1
    BY <1>2, ConversationAssumption
  <2>2. n \in 1 .. Len(s)
    BY <2>1, ConversationAssumption DEF Lesser
  <2>3. m \in 1 .. Len(s)
    BY <2>1, <2>2
  <2>4. Kept(s) = SubSeq(s, m, Len(s))
    <3>1. ~(Len(s) <= Threshold)
      BY <1>2, <2>1, ConversationAssumption
    <3> QED BY <3>1, Zenon DEF Kept, LastOf
  <2> HIDE DEF n, m
  <2>5. /\ SubSeq(s, m, Len(s)) \in Seq(Message)
        /\ Len(SubSeq(s, m, Len(s))) = Len(s) - m + 1
        /\ \A i \in 1 .. Len(s) - m + 1 : SubSeq(s, m, Len(s))[i] = s[m + i - 1]
    BY <2>1, <2>3
  <2>6. SubSeq(s, m, Len(s))[Len(s) - m + 1] = s[Len(s)]
    BY <2>1, <2>3, <2>5
  <2>7. SubSeq(s, m, Len(s)) # << >>
    <3>1. Len(SubSeq(s, m, Len(s))) # 0
      BY <2>1, <2>3, <2>5
    <3>2. Len(<< >>) = 0
      OBVIOUS
    <3> QED BY <3>1, <3>2, Zenon
  <2> QED BY <2>4, <2>5, <2>6, <2>7 DEF Last
<1> QED BY <1>1, <1>2, ConversationAssumption

\* An answer is appended to a sequence of messages, or nothing is.
LEMMA RepliedMessages ==
  ASSUME NEW s \in Seq(Message), NEW text \in BOOLEAN, job.attempts \in Nat
  PROVE  WithReply(s, text) \in Seq(Message)
<1> DEFINE reply == [role |-> "assistant", run |-> job.attempts]
<1>1. reply \in Message
  BY DEF Message, Roles
<1>2. WithReply(s, text) = IF text THEN Append(s, reply) ELSE s
  BY DEF WithReply
<1> HIDE DEF reply
<1> QED BY <1>1, <1>2

\* A summary has lines for messages only.
LEMMA SummaryIsOfMessages ==
  ASSUME NEW s \in Seq(Message), NEW t \in Seq(Message), NEW summary \in SUBSET Message
  PROVE  /\ MessagesOf(s) \ MessagesOf(t) \in SUBSET Message
         /\ Summary(summary, s) \in SUBSET Message
<1>1. MessagesOf(s) \in SUBSET Message
  BY DEF MessagesOf
<1> QED BY <1>1 DEF Summary

\* A request is a sequence of messages; the one of a continuation ends with the
\* operator's turn.
LEMMA Requests ==
  ASSUME NEW continues \in BOOLEAN, state.history \in Seq(Message), job'.attempts \in Nat
  PROVE  /\ Request(continues) \in Seq(Message)
         /\ continues => Last(Request(continues)).role = "user"
<1> DEFINE said == IF state.history = << >> THEN << Said("user") >>
                   ELSE IF continues /\ Last(state.history).role # "user"
                        THEN Append(state.history, Said("user"))
                        ELSE state.history
<1>1. Said("user") \in Message /\ Said("user").role = "user"
  BY DEF Said, Message, Roles
<1> DEFINE turn == Said("user")
<1>2. turn \in Message /\ turn.role = "user"
  BY <1>1
<1> HIDE DEF turn
<1>3. said \in Seq(Message) /\ said # << >> /\ (continues => Last(said).role = "user")
  <2>1. CASE state.history = << >>
    BY <1>2, <2>1 DEF Last, turn
  <2>2. CASE state.history # << >> /\ continues /\ Last(state.history).role # "user"
    <3>1. said = Append(state.history, turn)
      BY <2>2 DEF turn
    <3>2. /\ Append(state.history, turn) \in Seq(Message)
          /\ Append(state.history, turn) # << >>
          /\ Last(Append(state.history, turn)) = turn
      BY <1>2 DEF Last
    <3> HIDE DEF said
    <3> QED BY <1>2, <3>1, <3>2
  <2>3. CASE state.history # << >> /\ ~(continues /\ Last(state.history).role # "user")
    BY <2>3
  <2> QED BY <2>1, <2>2, <2>3
<1>4. Request(continues) = Kept(said)
  BY DEF Request
<1> HIDE DEF said
<1> QED BY <1>3, <1>4, KeptMessages

-----------------------------------------------------------------------------
\* Types.

\* Fields of the row.
LEMMA JobFields ==
  ASSUME job \in Job
  PROVE  /\ job.attempts \in Nat /\ job.attempts + 1 \in Nat
         /\ job.backend \in Backends /\ job.autoResume \in BOOLEAN
BY DEF Job

\* The rows that the actions write: what they change and what they keep.
LEMMA JobWrites ==
  ASSUME job \in Job,
         NEW status \in {"queued", "running", "waiting_retry", "completed", "failed", "cancelled"},
         NEW hint \in {"none", "recoverable_resume", "checkpoint_available", "quota_reset"}
  PROVE  /\ Forgotten(status) \in Job
         /\ [Forgotten(status) EXCEPT !.hint = hint] \in Job
         /\ [Forgotten(status) EXCEPT !.followup = "model_continuation"] \in Job
         /\ [Forgotten(status) EXCEPT !.cancel = TRUE] \in Job
         /\ [job EXCEPT !.status = status] \in Job
         /\ [job EXCEPT !.status = status, !.cancel = FALSE] \in Job
         /\ [job EXCEPT !.status = status, !.cancel = FALSE, !.hint = hint] \in Job
         /\ [job EXCEPT !.status = "running", !.attempts = @ + 1, !.cancel = FALSE] \in Job
<1>1. Forgotten(status) \in Job
  BY Zenon DEF Forgotten, Job
<1>2. /\ [Forgotten(status) EXCEPT !.hint = hint] \in Job
      /\ [Forgotten(status) EXCEPT !.followup = "model_continuation"] \in Job
      /\ [Forgotten(status) EXCEPT !.cancel = TRUE] \in Job
  BY <1>1, Zenon DEF Job
<1>3. /\ [job EXCEPT !.status = status] \in Job
      /\ [job EXCEPT !.status = status, !.cancel = FALSE] \in Job
      /\ [job EXCEPT !.status = status, !.cancel = FALSE, !.hint = hint] \in Job
  BY Zenon DEF Job
<1>4. [job EXCEPT !.status = "running", !.attempts = @ + 1, !.cancel = FALSE] \in Job
  BY JobFields, Zenon DEF Job
<1> QED BY <1>1, <1>2, <1>3, <1>4

\* The states that a backend returns: only messages_api leaves an answer pending.
LEMMA StateWrites ==
  ASSUME job \in Job, state \in ConversationState, run \in Run,
         NEW text \in BOOLEAN, NEW flag \in BOOLEAN
  PROVE  /\ MessagesApiState(text, flag) \in ConversationState
         /\ MessagesApiState(text, flag).pending = flag
         /\ OutputState(text, flag) \in ConversationState
         /\ OutputState(text, flag).pending = state.pending
         /\ OutputState(text, flag).checkpoint = flag
<1>1. job.attempts \in Nat /\ run.request \in Seq(Message) /\ state.history \in Seq(Message)
      /\ state.summary \in SUBSET Message
  BY JobFields DEF Run, ConversationState
<1>2. WithReply(run.request, text) \in Seq(Message) /\ WithReply(state.history, text) \in Seq(Message)
  BY <1>1, RepliedMessages
<1>3. MessagesApiState(text, flag) \in ConversationState
  <2>1. /\ Kept(WithReply(run.request, text)) \in Seq(Message)
        /\ Summary(state.summary, WithReply(run.request, text)) \in SUBSET Message
    BY <1>1, <1>2, KeptMessages, SummaryIsOfMessages
  <2> QED BY <2>1, Zenon DEF MessagesApiState, ConversationState
<1>4. OutputState(text, flag) \in ConversationState
  <2>1. MessagesOf(WithReply(state.history, text)) \ MessagesOf(state.history) \in SUBSET Message
    BY <1>1, <1>2, SummaryIsOfMessages
  <2> QED BY <1>2, <2>1, Zenon DEF OutputState, ConversationState
<1>5. MessagesApiState(text, flag).pending = flag
  BY DEF MessagesApiState, ConversationState
<1>6. OutputState(text, flag).pending = state.pending /\ OutputState(text, flag).checkpoint = flag
  BY DEF OutputState, ConversationState
<1> QED BY <1>3, <1>4, <1>5, <1>6

-----------------------------------------------------------------------------
\* The inductive invariant.

\* Between the transactions: the reason and the status that are still to be
\* recorded agree with the state that is already saved.
SavedRuns ==
  run.pc = "saved" =>
    /\ lost
    /\ run.reason = "max_tokens" => state.pending
    /\ run.reason = "checkpoint_available" => state.checkpoint
    /\ run.status = "completed" => ~state.pending
    /\ run.status = "queued" /\ job.backend = "messages_api" => state.pending

\* A job that may be executed again has something to ask.
OpenDialogues ==
  /\ ~lost /\ job.backend = "messages_api" /\ job.status \notin {"completed", "cancelled"}
  => state.pending \/ state.history = << >>

IInv ==
  /\ TypeOK
  /\ job.backend # "messages_api" => ~state.pending
  /\ run.pc # "idle" => job.status = "running"
  /\ SavedRuns
  /\ OpenDialogues
  /\ CutOffAnswersAreContinued
  /\ RowsFollowTheDialogue

\* A new job has no conversation.
LEMMA InitInvariant == Init => IInv
<1> SUFFICES ASSUME Init PROVE IInv
  OBVIOUS
<1>1. job \in Job
  <2>1. \E backend \in Backends, autoResume \in BOOLEAN :
          job = [backend |-> backend, status |-> "queued", attempts |-> 0, cancel |-> FALSE,
                 autoResume |-> autoResume, followup |-> "none", hint |-> "none"]
    BY DEF Init
  <2> QED BY <2>1 DEF Job
<1>2. state \in ConversationState /\ ~state.pending
  BY DEF Init, NoState, ConversationState
<1>3. run \in Run /\ run.pc = "idle"
  BY DEF Init, NoRun, Run
<1>4. job.status = "queued" /\ job.followup = "none" /\ job.hint = "none"
  BY DEF Init
<1>5. state.history = << >> /\ lost = FALSE
  BY DEF Init, NoState
<1> QED
  BY <1>1, <1>2, <1>3, <1>4, <1>5
  DEF IInv, TypeOK, SavedRuns, OpenDialogues, CutOffAnswersAreContinued, RowsFollowTheDialogue

\* A step that ends the run, or has none, and keeps the saved state: the row
\* may forget its keys or change its hint to one that promises nothing.
LEMMA RowStep ==
  ASSUME IInv, job' \in Job, state' = state,
         \/ run' = NoRun
         \/ run' = run /\ (job'.status = job.status \/ run.pc = "idle"),
         lost' = lost, job'.backend = job.backend,
         job'.status \notin {"completed", "cancelled"} =>
           job.status \notin {"completed", "cancelled"},
         job'.status = "completed" => job.status = "completed",
         job'.followup \in {"none", job.followup},
         job'.hint = "checkpoint_available" => job.hint = "checkpoint_available"
  PROVE  IInv'
<1>1. NoRun \in Run /\ NoRun.pc = "idle"
  BY DEF NoRun, Run
<1>2. TypeOK'
  BY <1>1 DEF IInv, TypeOK
<1>3. run'.pc # "idle" => run' = run /\ job'.status = job.status
  BY <1>1
<1>4. (run'.pc # "idle" => job'.status = "running") /\ SavedRuns'
  BY <1>3 DEF IInv, SavedRuns
<1>5. OpenDialogues'
  BY DEF IInv, OpenDialogues
<1>6. CutOffAnswersAreContinued'
  BY <1>3 DEF IInv, CutOffAnswersAreContinued
<1>7. RowsFollowTheDialogue'
  BY DEF IInv, RowsFollowTheDialogue
<1> QED BY <1>2, <1>4, <1>5, <1>6, <1>7 DEF IInv

\* What a row that forgets its follow-up keys says.
LEMMA ForgottenFields ==
  ASSUME job \in Job, NEW status
  PROVE  /\ Forgotten(status).status = status /\ Forgotten(status).backend = job.backend
         /\ Forgotten(status).followup = "none" /\ Forgotten(status).hint = "none"
BY DEF Forgotten, Job

\* A claim chooses between submit and continue_job by what is saved.
LEMMA StartStep ==
  ASSUME IInv, Start
  PROVE  IInv'
<1> DEFINE continues == ShouldContinue
<1>1. job \in Job /\ state \in ConversationState /\ continues \in BOOLEAN
  BY DEF IInv, TypeOK, ShouldContinue
<1>2. /\ job' \in Job /\ job'.attempts \in Nat /\ job'.status = "running"
      /\ job'.backend = job.backend /\ job'.followup = job.followup /\ job'.hint = job.hint
  <2>1. job' = [job EXCEPT !.status = "running", !.attempts = @ + 1, !.cancel = FALSE]
    BY DEF Start
  <2>2. job' \in Job
    BY <1>1, <2>1, JobWrites
  <2>3. /\ job'.status = "running" /\ job'.backend = job.backend
        /\ job'.followup = job.followup /\ job'.hint = job.hint
    BY <1>1, <2>1 DEF Job
  <2> QED BY <2>2, <2>3 DEF Job
<1>3. state.history \in Seq(Message)
  BY <1>1 DEF ConversationState
<1>4. /\ Request(continues) \in Seq(Message)
      /\ continues => Last(Request(continues)).role = "user"
  BY <1>1, <1>2, <1>3, Requests
<1>5. state.pending => job.backend = "messages_api" /\ continues
  BY <1>1 DEF IInv, ShouldContinue, can_resume, ConversationState
<1> DEFINE request == IF job.backend = "messages_api" THEN Request(continues) ELSE << >>
<1>6. request \in Seq(Message)
  BY <1>4
<1>7. run' = [NoRun EXCEPT !.pc = "awaiting", !.continues = continues, !.request = request]
  BY DEF Start
<1>8. state.pending => continues /\ Last(request).role = "user"
  BY <1>4, <1>5
<1>9. state' = state /\ lost' = lost /\ job.status = "queued"
  BY DEF Start
<1> HIDE DEF continues, request
<1>10. /\ run' \in Run /\ run'.pc = "awaiting" /\ run'.continues = continues
       /\ run'.request = request
  BY <1>1, <1>6, <1>7 DEF NoRun, Run
<1>11. TypeOK' /\ SavedRuns' /\ CutOffAnswersAreContinued'
  BY <1>2, <1>8, <1>9, <1>10 DEF IInv, TypeOK, SavedRuns, CutOffAnswersAreContinued
<1>12. OpenDialogues' /\ RowsFollowTheDialogue'
  BY <1>2, <1>9 DEF IInv, OpenDialogues, RowsFollowTheDialogue
<1> QED BY <1>2, <1>9, <1>10, <1>11, <1>12 DEF IInv

\* The answer is saved: from here to the row the record may be lost.
LEMMA ReplyStep ==
  ASSUME IInv, Reply
  PROVE  IInv'
<1>1. job \in Job /\ state \in ConversationState /\ run \in Run
  BY DEF IInv, TypeOK
<1>2. ASSUME NEW updated \in ConversationState, NEW status \in {"completed", "queued"},
             NEW reason \in {"none", "max_tokens", "checkpoint_available"},
             Save(updated, status, reason),
             job.backend # "messages_api" => ~updated.pending,
             reason = "max_tokens" => updated.pending,
             reason = "checkpoint_available" => updated.checkpoint,
             status = "completed" => ~updated.pending,
             status = "queued" /\ job.backend = "messages_api" => updated.pending
      PROVE  IInv'
  <2>1. run' \in Run /\ run'.pc = "saved" /\ run'.status = status /\ run'.reason = reason
    <3>1. run' = [run EXCEPT !.pc = "saved", !.status = status, !.reason = reason]
      BY <1>2 DEF Save
    <3>2. run' \in Run
      BY <1>1, <3>1, Zenon DEF Run
    <3> QED BY <1>1, <3>1, <3>2 DEF Run
  <2>2. state' = updated /\ lost' /\ lost' \in BOOLEAN /\ job' = job /\ job.status = "running"
    BY <1>2 DEF Save
  <2> QED
    BY <1>1, <1>2, <2>1, <2>2
    DEF IInv, TypeOK, SavedRuns, OpenDialogues, CutOffAnswersAreContinued,
        RowsFollowTheDialogue
<1>3. PICK text \in BOOLEAN :
        \/ /\ job.backend = "messages_api"
           /\ \E cut \in BOOLEAN :
                Save(MessagesApiState(text, cut), IF cut THEN "queued" ELSE "completed",
                     IF cut THEN "max_tokens" ELSE "none")
        \/ /\ job.backend = "agent_sdk"
           /\ \E checkpoint, completed \in BOOLEAN :
                Save(OutputState(text, checkpoint), IF completed THEN "completed" ELSE "queued",
                     IF checkpoint THEN "checkpoint_available" ELSE "none")
        \/ /\ job.backend = "cli"
           /\ Save(OutputState(text, FALSE), "completed", "none")
  BY DEF Reply
<1>4. ASSUME job.backend = "messages_api", NEW cut \in BOOLEAN,
             Save(MessagesApiState(text, cut), IF cut THEN "queued" ELSE "completed",
                  IF cut THEN "max_tokens" ELSE "none")
      PROVE  IInv'
  <2>1. MessagesApiState(text, cut) \in ConversationState /\ MessagesApiState(text, cut).pending = cut
    BY <1>1, StateWrites
  <2>2. CASE cut
    BY <1>2, <1>4, <2>1, <2>2
  <2>3. CASE ~cut
    BY <1>2, <1>4, <2>1, <2>3
  <2> QED BY <2>2, <2>3
<1>5. ASSUME job.backend # "messages_api", NEW checkpoint \in BOOLEAN,
             NEW status \in {"completed", "queued"},
             Save(OutputState(text, checkpoint), status,
                  IF checkpoint THEN "checkpoint_available" ELSE "none")
      PROVE  IInv'
  <2>1. /\ OutputState(text, checkpoint) \in ConversationState
        /\ OutputState(text, checkpoint).pending = state.pending
        /\ OutputState(text, checkpoint).checkpoint = checkpoint
    BY <1>1, StateWrites
  <2>2. ~state.pending
    BY <1>5 DEF IInv
  <2>3. CASE checkpoint
    BY <1>2, <1>5, <2>1, <2>2, <2>3
  <2>4. CASE ~checkpoint
    BY <1>2, <1>5, <2>1, <2>2, <2>4
  <2> QED BY <2>3, <2>4
<1>6. CASE job.backend = "agent_sdk"
  BY <1>3, <1>5, <1>6
<1>7. CASE job.backend = "cli"
  BY <1>3, <1>5, <1>7
<1> QED BY <1>3, <1>4, <1>6, <1>7

\* The row is written from the result that was saved.
LEMMA RecordStep ==
  ASSUME IInv, Record
  PROVE  IInv'
<1>1. job \in Job /\ state \in ConversationState /\ run \in Run
  BY DEF IInv, TypeOK
<1>2. /\ run.pc = "saved" /\ run' = NoRun /\ ~lost' /\ lost' \in BOOLEAN /\ state' = state
  BY DEF Record
<1>3. NoRun \in Run /\ NoRun.pc = "idle"
  BY DEF NoRun, Run
<1>4. ASSUME job' \in Job, job'.backend = job.backend,
             job'.status \in {"completed", "cancelled"} \/ run.status = "queued",
             job'.status = "completed" => run.status = "completed",
             job'.followup = "model_continuation" => run.reason = "max_tokens",
             job'.hint = "checkpoint_available" => run.reason = "checkpoint_available"
      PROVE  IInv'
  BY <1>2, <1>3, <1>4
  DEF IInv, TypeOK, SavedRuns, OpenDialogues, CutOffAnswersAreContinued, RowsFollowTheDialogue
<1>5. ASSUME NEW status \in {"completed", "cancelled"}, job' = Forgotten(status),
             status = "completed" => run.status = "completed"
      PROVE  IInv'
  BY <1>1, <1>4, <1>5, ForgottenFields, JobWrites
<1>6. ASSUME run.status = "queued", job' = FollowedUp
      PROVE  IInv'
  <2>1. Forgotten("queued") \in Job
    BY <1>1, JobWrites
  <2>2. CASE run.reason = "max_tokens"
    <3>1. job' = [Forgotten("queued") EXCEPT !.followup = "model_continuation"]
      BY <1>6, <2>2 DEF FollowedUp
    <3>2. job' \in Job
      BY <1>1, <3>1, JobWrites
    <3>3. /\ job'.status = "queued" /\ job'.backend = job.backend
          /\ job'.hint = "none"
      BY <1>1, <3>1 DEF Forgotten, Job
    <3> QED BY <1>4, <1>6, <2>2, <3>2, <3>3
  <2>3. CASE run.reason # "max_tokens"
    <3>1. job' = [Forgotten("queued") EXCEPT !.hint = run.reason]
      BY <1>6, <2>3 DEF FollowedUp
    <3>2. run.reason \in {"none", "checkpoint_available"}
      BY <1>1, <2>3 DEF Run
    <3>3. job' \in Job
      BY <1>1, <3>1, <3>2, JobWrites
    <3>4. /\ job'.status = "queued" /\ job'.backend = job.backend
          /\ job'.hint = run.reason /\ job'.followup = "none"
      BY <1>1, <3>1 DEF Forgotten, Job
    <3> QED BY <1>4, <1>6, <3>3, <3>4
  <2> QED BY <2>2, <2>3
<1>7. CASE job.cancel
  BY <1>5, <1>7 DEF Record
<1>8. CASE ~job.cancel /\ run.status = "completed"
  BY <1>5, <1>8 DEF Record
<1>9. CASE ~job.cancel /\ run.status = "queued"
  BY <1>6, <1>9 DEF Record
<1>10. run.status \in {"completed", "queued"}
  BY <1>1 DEF Run
<1> QED BY <1>7, <1>8, <1>9, <1>10

\* The run ends without an answer.
LEMMA EndStep ==
  ASSUME IInv, job' \in Job, state' = state, run' = NoRun, lost' = lost,
         job.status = "running", job'.backend = job.backend,
         job'.status \in {"waiting_retry", "failed"},
         job'.followup \in {"none", job.followup},
         job'.hint \in {"none", "quota_reset"}
  PROVE  IInv'
<1>1. /\ job'.status \notin {"completed", "cancelled"} =>
           job.status \notin {"completed", "cancelled"}
      /\ job'.status = "completed" => job.status = "completed"
      /\ job'.hint = "checkpoint_available" => job.hint = "checkpoint_available"
  OBVIOUS
<1> QED BY <1>1, RowStep

\* A failure keeps the follow-up keys only under auto-resume.
LEMMA FailStep ==
  ASSUME IInv, RunFails
  PROVE  IInv'
<1>1. job \in Job
  BY DEF IInv, TypeOK
<1>2. /\ run' = NoRun /\ state' = state /\ lost' = lost
      /\ job.status = "running"
  BY DEF RunFails, IInv
<1>3. PICK f \in Failures : job' = Failed(f)
  BY DEF RunFails
<1>4. \/ \E status \in {"waiting_retry", "failed"} : job' = Forgotten(status)
      \/ job' = [job EXCEPT !.status = "waiting_retry", !.cancel = FALSE, !.hint = "quota_reset"]
  BY <1>3 DEF Failed
<1>5. ASSUME NEW status \in {"waiting_retry", "failed"}, job' = Forgotten(status)
      PROVE  IInv'
  <2>1. job' \in Job
    BY <1>1, <1>5, JobWrites
  <2>2. /\ job'.status = status /\ job'.backend = job.backend
        /\ job'.followup = "none" /\ job'.hint = "none"
    BY <1>1, <1>5, ForgottenFields
  <2> QED BY <1>2, <2>1, <2>2, EndStep
<1>6. ASSUME job' = [job EXCEPT !.status = "waiting_retry", !.cancel = FALSE, !.hint = "quota_reset"]
      PROVE  IInv'
  <2>1. job' \in Job
    BY <1>1, <1>6, JobWrites
  <2>2. /\ job'.status = "waiting_retry" /\ job'.hint = "quota_reset"
        /\ job'.backend = job.backend /\ job'.followup = job.followup
    BY <1>1, <1>6 DEF Job
  <2> QED BY <1>2, <2>1, <2>2, EndStep
<1> QED BY <1>4, <1>5, <1>6

\* A recovery asks can_resume and promises no checkpoint.
LEMMA RecoverStep ==
  ASSUME IInv, Recover
  PROVE  IInv'
<1>1. job \in Job
  BY DEF IInv, TypeOK
<1>2. /\ run' = run /\ state' = state /\ lost' = lost
      /\ job.status = "running" /\ run.pc = "idle"
  BY DEF Recover
<1>3. CASE job' = [job EXCEPT !.status = "failed", !.cancel = FALSE]
  <2>1. job' \in Job
    BY <1>1, <1>3, JobWrites
  <2>2. /\ job'.status = "failed" /\ job'.hint = job.hint
        /\ job'.backend = job.backend /\ job'.followup = job.followup
    BY <1>1, <1>3 DEF Job
  <2> QED BY <1>2, <2>1, <2>2, RowStep
<1>4. ASSUME NEW status \in {"queued", "waiting_retry"},
             NEW hint \in {"none", "recoverable_resume"},
             job' = [job EXCEPT !.status = status, !.cancel = FALSE, !.hint = hint]
      PROVE  IInv'
  <2>1. job' \in Job
    BY <1>1, <1>4, JobWrites
  <2>2. /\ job'.status = status /\ job'.hint = hint
        /\ job'.backend = job.backend /\ job'.followup = job.followup
    BY <1>1, <1>4 DEF Job
  <2> QED BY <1>2, <2>1, <2>2, RowStep
<1> QED BY <1>3, <1>4 DEF Recover

\* One case per action.
LEMMA NextInvariant ==
  ASSUME IInv, [Next]_vars
  PROVE  IInv'
<1>1. job \in Job
  BY DEF IInv, TypeOK
<1>2. CASE Interrupted
  <2>1. /\ job' = Forgotten("waiting_retry") /\ run' = NoRun /\ state' = state /\ lost' = lost
        /\ job.status = "running"
    BY <1>2 DEF Interrupted, IInv
  <2>2. job' \in Job
    BY <1>1, <2>1, JobWrites
  <2>3. /\ job'.status = "waiting_retry" /\ job'.backend = job.backend
        /\ job'.followup = "none" /\ job'.hint = "none"
    BY <1>1, <2>1, ForgottenFields
  <2> QED BY <2>1, <2>2, <2>3, EndStep
<1>3. CASE Crash
  BY <1>1, <1>3, RowStep DEF Crash
<1>4. CASE Requeue
  <2>1. job' = [job EXCEPT !.status = "queued"] /\ job.status = "waiting_retry"
    BY <1>4 DEF Requeue
  <2>2. run' = run /\ state' = state /\ lost' = lost /\ run.pc = "idle"
    BY <1>4 DEF Requeue, IInv, TypeOK, Run
  <2>3. job' \in Job
    BY <1>1, <2>1, JobWrites
  <2>4. /\ job'.status = "queued" /\ job'.hint = job.hint
        /\ job'.backend = job.backend /\ job'.followup = job.followup
    BY <1>1, <2>1 DEF Job
  <2> QED BY <2>1, <2>2, <2>3, <2>4, RowStep
<1>5. CASE Retry
  <2>1. /\ job' = Forgotten("queued") /\ job.status \in {"waiting_retry", "failed"}
        /\ run' = run /\ state' = state /\ lost' = lost /\ run.pc = "idle"
    BY <1>5 DEF Retry, IInv, TypeOK, Run
  <2> QED BY <1>1, <2>1, ForgottenFields, JobWrites, RowStep
<1>6. CASE Cancel
  <2>1. run' = run /\ state' = state /\ lost' = lost
    BY <1>6 DEF Cancel
  <2>2. CASE job.status = "running"
    <3>1. job' = [Forgotten("running") EXCEPT !.cancel = TRUE]
      BY <1>6, <2>2 DEF Cancel
    <3>2. job' \in Job
      BY <1>1, <3>1, JobWrites
    <3>3. /\ job'.status = "running" /\ job'.backend = job.backend
          /\ job'.hint = "none" /\ job'.followup = "none"
      BY <1>1, <3>1 DEF Forgotten, Job
    <3> QED BY <2>1, <2>2, <3>2, <3>3, RowStep
  <2>3. CASE job.status # "running"
    <3>1. job' = Forgotten("cancelled") /\ run.pc = "idle"
      BY <1>6, <2>3 DEF Cancel, IInv
    <3> QED BY <1>1, <2>1, <3>1, ForgottenFields, JobWrites, RowStep
  <2> QED BY <2>2, <2>3
<1>7. CASE UNCHANGED vars
  BY <1>1, <1>7, RowStep DEF vars
<1> QED
  BY <1>2, <1>3, <1>4, <1>5, <1>6, <1>7, StartStep, ReplyStep, RecordStep, FailStep, RecoverStep
  DEF Next

\* The inductive invariant.
LEMMA Invariant == Spec => []IInv
BY InitInvariant, NextInvariant, PTL DEF Spec

\* The row, the saved conversation and the request keep their types, for any
\* thresholds of compaction, backends and numbers of runs.
THEOREM TypesHold == Spec => []TypeOK
<1>1. IInv => TypeOK
  BY DEF IInv
<1> QED BY <1>1, Invariant, PTL

\* After a cut-off answer the next request continues it, although every error,
\* shutdown, retry and recovery in between drops the follow-up keys.
THEOREM AnswersAreContinued == Spec => []CutOffAnswersAreContinued
<1>1. IInv => CutOffAnswersAreContinued
  BY DEF IInv
<1> QED BY <1>1, Invariant, PTL

\* No finished answer is asked for again, unless the run that saved it did not
\* live to record it.
THEOREM AnswersStand == Spec => []FinishedAnswersStand
<1>1. IInv => FinishedAnswersStand
  BY DEF IInv, OpenDialogues, FinishedAnswersStand
<1> QED BY <1>1, Invariant, PTL

\* The keys of a row never promise a state that was not saved.
THEOREM RowsAreTrue == Spec => []RowsFollowTheDialogue
<1>1. IInv => RowsFollowTheDialogue
  BY DEF IInv
<1> QED BY <1>1, Invariant, PTL
=============================================================================
