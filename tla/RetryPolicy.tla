---------------------------- MODULE RetryPolicy ----------------------------
(***************************************************************************)
(* retry.py: whether a failure is retried and after how long, and the      *)
(* quota reset of orchestrator.py, which overrides the verdict for saved   *)
(* projects.  Pure operators: WorkerLoop and Conversation decide when they *)
(* are applied.                                                            *)
(*                                                                         *)
(* Times are whole seconds.  A delay with jitter is one of a set, a header *)
(* is what parsing it makes of it, and of the texts of a failure only the  *)
(* two that _check_auto_resume_on_quota searches are kept.                 *)
(***************************************************************************)
EXTENDS Integers

CONSTANTS
  BaseDelay,     \* retry.base_delay_seconds
  MaxDelay,      \* retry.max_delay_seconds
  JitterPercent, \* retry.jitter_ratio, in hundredths
  QuotaDelay     \* the wait for a quota whose reset time is unknown

ASSUME RetryAssumption ==
  /\ BaseDelay \in Nat /\ MaxDelay \in Nat
  /\ JitterPercent \in Nat /\ QuotaDelay \in Nat

Lesser(a, b) == IF a <= b THEN a ELSE b
Greater(a, b) == IF a >= b THEN a ELSE b

-----------------------------------------------------------------------------
\* The Retry-After header: absent or unreadable, a number of seconds, or a date
\* (here the seconds until then, negative when it has passed).

NoRetryAfter == -1

Header == [form : {"absent", "garbled"}, value : {0}]
          \cup [form : {"seconds"}, value : Nat]
          \cup [form : {"date"}, value : Int]

\* Mutant: a date that has passed gives a negative delay.
SignedRetryAfter(header) ==
  IF header.form \in {"seconds", "date"} THEN header.value ELSE NoRetryAfter

parse_retry_after(header) ==
  CASE header.form = "seconds" -> header.value
    [] header.form = "date"    -> Greater(header.value, 0)
    [] OTHER                   -> NoRetryAfter

-----------------------------------------------------------------------------
\* compute_delay_seconds.

\* 2 ** n, by its equations: of the operator ^ the provers know only its type.
TwoTo(n) == LET power[k \in 0 .. n] == IF k = 0 THEN 1 ELSE 2 * power[k - 1] IN power[n]

RawDelay(attempts) ==
  Lesser(BaseDelay * TwoTo(Greater(attempts - 1, 0)), MaxDelay)

JitterWindow(raw) == (raw * JitterPercent) \div 100

\* Mutant: the jitter is added after the cap.
UncappedDelays(attempts, after) ==
  IF after # NoRetryAfter THEN {after}
  ELSE {RawDelay(attempts) + k : k \in 0 .. JitterWindow(RawDelay(attempts))}

Delays(attempts, after) ==
  IF after # NoRetryAfter THEN {after}
  ELSE {Lesser(RawDelay(attempts) + k, MaxDelay) :
          k \in 0 .. JitterWindow(RawDelay(attempts))}

-----------------------------------------------------------------------------
\* classify_failure.  kind is the class of the exception; a transport error is
\* recognised by its name or its text.  typed says whether the body of an HTTP
\* error names its type, which then replaces "http_<status>" as the code.

Failure == [kind : {"cancelled", "configuration", "permanent", "transport",
                    "retryable", "other"}, status : {0}, typed : {FALSE}]
           \cup [kind : {"http"}, status : Nat, typed : BOOLEAN]

RateLimited == {429}
Unavailable == {500, 502, 503, 504}
Conflicts   == {408, 409, 423}

IsTransient(f) ==
  \/ f.kind \in {"transport", "retryable"}
  \/ f.kind = "http" /\ f.status \in RateLimited \cup Unavailable \cup Conflicts

\* Mutant: one attempt more than allowed.
GenerousDisposition(f, attempts, maxAttempts) ==
  IF f.kind = "cancelled" THEN "cancel"
  ELSE IF IsTransient(f) /\ attempts <= maxAttempts THEN "retry" ELSE "fail"

Disposition(f, attempts, maxAttempts) ==
  IF f.kind = "cancelled" THEN "cancel"
  ELSE IF IsTransient(f) /\ attempts < maxAttempts THEN "retry" ELSE "fail"

-----------------------------------------------------------------------------
\* _check_auto_resume_on_quota looks for a rate limit in the reason and in the
\* code of a failure that is final.  By then the reason is
\* max_attempts_exhausted; the code contains "429" only when the body names no
\* type, for the service's own is rate_limit_error.
LooksRateLimited(f) == f.kind = "http" /\ f.status \in RateLimited /\ ~f.typed

\* _parse_quota_reset_time: a reset header that can be read, then Retry-After,
\* then a constant.
QuotaWait(reset, after) ==
  CASE parse_retry_after(reset) # NoRetryAfter -> parse_retry_after(reset)
    [] parse_retry_after(reset) = NoRetryAfter /\ parse_retry_after(after) # NoRetryAfter
                                               -> parse_retry_after(after)
    [] OTHER                                   -> QuotaDelay
=============================================================================
