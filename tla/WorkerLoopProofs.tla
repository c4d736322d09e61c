-------------------------- MODULE WorkerLoopProofs --------------------------
(***************************************************************************)
(* The retry policy and the worker's scheduling, for every policy, every   *)
(* number of jobs and backends and every limit.                            *)
(***************************************************************************)
EXTENDS WorkerLoop, FiniteSetTheorems, WellFoundedInduction, TLAPS

-----------------------------------------------------------------------------
\* The retry policy.

\* What holds of 0 and is passed on holds of every number.
LEMMA PassedOn ==
  ASSUME NEW numbers \in SUBSET Nat, 0 \in numbers,
         \A n \in numbers : n + 1 \in numbers
  PROVE  numbers = Nat
<1> SUFFICES ASSUME Nat \ numbers # {}
             PROVE  FALSE
  OBVIOUS
<1>1. PICK n \in Nat \ numbers : \A m \in Nat \ numbers : ~(<<m, n>> \in OpToRel(<, Nat))
  BY NatLessThanWellFounded, WFMin
<1>2. ASSUME NEW m \in Nat \ numbers
      PROVE  n <= m
  <2>1. ~(m < n)
    BY <1>1 DEF OpToRel
  <2> QED BY <2>1
<1>3. n # 0 /\ n - 1 \in Nat /\ n - 1 \notin numbers => n <= n - 1
  BY <1>2
<1>4. n - 1 \in numbers /\ n = (n - 1) + 1
  BY <1>3
<1> QED BY <1>4

\* The powers of two up to 2 ** last.
ArePowers(power, last) ==
  power = [k \in 0 .. last |-> IF k = 0 THEN 1 ELSE 2 * power[k - 1]]

\* There are powers up to every exponent: one more lengthens their list.
LEMMA PowersExist ==
  ASSUME NEW last \in Nat
  PROVE  \E power : ArePowers(power, last)
<1> DEFINE lengths == {n \in Nat : \E power : ArePowers(power, n)}
<1>1. 0 \in lengths
  <2> DEFINE power == [k \in 0 .. 0 |-> 1]
  <2>1. ArePowers(power, 0)
    BY DEF ArePowers
  <2> QED BY <2>1
<1>2. ASSUME NEW n \in lengths
      PROVE  n + 1 \in lengths
  <2>1. PICK power : ArePowers(power, n)
    OBVIOUS
  <2> DEFINE longer == [k \in 0 .. n + 1 |-> IF k = n + 1 THEN 2 * power[n] ELSE power[k]]
             wanted(k) == IF k = 0 THEN 1 ELSE 2 * longer[k - 1]
  <2>2. n \in Nat
    OBVIOUS
  <2>3. ASSUME NEW k \in 0 .. n + 1
        PROVE  longer[k] = wanted(k)
    <3>1. CASE k = n + 1
      <4>1. longer[k - 1] = power[n]
        BY <2>2, <3>1
      <4> QED BY <2>2, <3>1, <4>1
    <3>2. CASE k # n + 1
      <4>1. k \in 0 .. n /\ longer[k] = power[k]
        BY <2>2, <3>2
      <4>2. k # 0 => longer[k - 1] = power[k - 1]
        BY <2>2, <4>1
      <4>3. power[k] = IF k = 0 THEN 1 ELSE 2 * power[k - 1]
        BY <2>1, <4>1 DEF ArePowers
      <4> QED BY <4>1, <4>2, <4>3
    <3> QED BY <3>1, <3>2
  <2>4. ArePowers(longer, n + 1)
    <3>1. longer = [k \in 0 .. n + 1 |-> longer[k]]
      OBVIOUS
    <3> HIDE DEF longer
    <3>2. longer = [k \in 0 .. n + 1 |-> wanted(k)]
      BY <2>3, <3>1
    <3> QED BY <3>2 DEF ArePowers
  <2> QED BY <2>2, <2>4
<1> HIDE DEF lengths
<1>3. lengths = Nat
  <2>1. lengths \subseteq Nat
    BY DEF lengths
  <2> QED BY <1>1, <1>2, <2>1, PassedOn
<1> QED BY <1>3 DEF lengths

\* A power of two is a positive number.
LEMMA PowersArePositive ==
  ASSUME NEW n \in Nat
  PROVE  TwoTo(n) \in Nat \ {0}
<1>1. PICK power : ArePowers(power, n) /\ TwoTo(n) = power[n]
  BY PowersExist DEF TwoTo, ArePowers
<1> DEFINE numbers == {k \in Nat : k <= n => power[k] \in Nat \ {0}}
<1>2. 0 \in numbers
  BY <1>1 DEF ArePowers
<1>3. ASSUME NEW k \in numbers
      PROVE  k + 1 \in numbers
  <2> SUFFICES ASSUME k + 1 <= n
               PROVE  power[k + 1] \in Nat \ {0}
    OBVIOUS
  <2>1. power[k] \in Nat \ {0} /\ k + 1 \in 0 .. n /\ k + 1 # 0 /\ (k + 1) - 1 = k
    OBVIOUS
  <2>2. power[k + 1] = 2 * power[k]
    BY <1>1, <2>1 DEF ArePowers
  <2> QED BY <2>1, <2>2
<1>4. numbers = Nat
  <2>1. numbers \subseteq Nat
    OBVIOUS
  <2> HIDE DEF numbers
  <2> QED BY <1>2, <1>3, <2>1, PassedOn
<1> QED BY <1>1, <1>4

\* The exponential delay is capped.
LEMMA RawDelayIsBounded ==
  ASSUME NEW attempts \in Nat
  PROVE  RawDelay(attempts) \in Nat /\ RawDelay(attempts) <= MaxDelay
<1> DEFINE exponent == Greater(attempts - 1, 0)
           product == BaseDelay * TwoTo(exponent)
<1>1. exponent \in Nat
  BY DEF Greater
<1>2. \A a, b \in Nat : a * b \in Nat
  OBVIOUS
<1> HIDE DEF exponent
<1>3. product \in Nat
  BY <1>1, <1>2, PowersArePositive, RetryAssumption
<1> HIDE DEF product
<1>4. RawDelay(attempts) = Lesser(product, MaxDelay)
  BY DEF RawDelay, product, exponent
<1> QED BY <1>3, <1>4, RetryAssumption DEF Lesser

\* What a Retry-After header says: nothing, or a number of seconds.
Answers == Nat \cup {NoRetryAfter}

\* compute_delay_seconds: a Retry-After header, even of 0 or of a day, is the
\* delay; any other delay is at least the exponential one and at most
\* max_delay_seconds, whatever the jitter.
THEOREM DelaysAreBounded ==
  ASSUME NEW attempts \in Nat, NEW after \in Answers, NEW delay \in Delays(attempts, after)
  PROVE  /\ delay \in Nat
         /\ after # NoRetryAfter => delay = after
         /\ after = NoRetryAfter => RawDelay(attempts) <= delay /\ delay <= MaxDelay
<1> DEFINE raw == RawDelay(attempts)
           window == JitterWindow(raw)
<1>1. raw \in Nat /\ raw <= MaxDelay
  BY RawDelayIsBounded
<1>2. window \in Int
  BY <1>1, RetryAssumption DEF JitterWindow
<1>3. CASE after # NoRetryAfter
  BY <1>3 DEF Delays, Answers
<1>4. CASE after = NoRetryAfter
  <2>1. PICK k \in 0 .. window : delay = Lesser(raw + k, MaxDelay)
    BY <1>4 DEF Delays
  <2> HIDE DEF raw, window
  <2>2. delay \in Nat /\ raw <= delay /\ delay <= MaxDelay
    BY <1>1, <1>2, <2>1, RetryAssumption DEF Lesser
  <2> QED BY <1>4, <2>2 DEF raw
<1> QED BY <1>3, <1>4

\* classify_failure never schedules a retry once max_attempts is reached.
LEMMA RetriesAreLimited ==
  ASSUME NEW f, NEW attempts \in Nat, Disposition(f, attempts, MaxAttempts) = "retry"
  PROVE  attempts < MaxAttempts
BY DEF Disposition

\* A header is parsed to no number or to one that is not negative.
LEMMA HeaderValues ==
  ASSUME NEW header \in Header
  PROVE  parse_retry_after(header) \in Answers
<1>1. CASE header \in [form : {"absent", "garbled"}, value : {0}]
  BY <1>1 DEF parse_retry_after, Answers
<1>2. CASE header \in [form : {"seconds"}, value : Nat]
  BY <1>2 DEF parse_retry_after, Answers
<1>3. CASE header \in [form : {"date"}, value : Int]
  BY <1>3 DEF parse_retry_after, Greater, Answers
<1> QED BY <1>1, <1>2, <1>3 DEF Header

\* So is the time until a quota is reset.
LEMMA QuotaWaits ==
  ASSUME NEW reset \in Header, NEW header \in Header
  PROVE  QuotaWait(reset, header) \in Nat
<1>1. parse_retry_after(reset) \in Answers /\ parse_retry_after(header) \in Answers
  BY HeaderValues
<1> QED BY <1>1, RetryAssumption DEF QuotaWait, Answers

-----------------------------------------------------------------------------
\* The types.  The counters are integers for now: that a slot given back was
\* taken before takes CountsInv.

Typed ==
  /\ job \in [Jobs -> Job]
  /\ loop \in [pc : {"asleep", "awake", "claiming"}, candidates : SUBSET Jobs]
  /\ done \subseteq active /\ active \subseteq Jobs
  /\ count \in [Backends -> Int]

\* Sets of jobs can be counted.
LEMMA JobsAreFinite ==
  ASSUME NEW S \in SUBSET Jobs
  PROVE  IsFiniteSet(S) /\ Cardinality(S) \in Nat
BY FS_Subset, FS_CardinalityType, WorkerAssumption

\* So can those of one backend.
LEMMA OnIsFinite ==
  ASSUME NEW b, NEW S \in SUBSET Jobs
  PROVE  On(b, S) \in SUBSET Jobs /\ IsFiniteSet(On(b, S)) /\ Cardinality(On(b, S)) \in Nat
BY JobsAreFinite DEF On

\* What Fails makes of a row.
LEMMA FailsCases ==
  ASSUME NEW j \in Jobs, Fails(j)
  PROVE  \/ \E after \in Answers : \E delay \in Delays(job[j].attempts, after) :
              /\ job' = [job EXCEPT ![j] = Waiting(j, delay, after)]
              /\ job[j].attempts < MaxAttempts \/ job[j].attempts \notin Nat
         \/ \E delay \in Nat :
              job' = [job EXCEPT ![j] =
                [Waiting(j, delay, NoRetryAfter) EXCEPT
                   !.quota = TRUE, !.extra = @ + 1, !.followup = job[j].followup]]
         \/ job' = [job EXCEPT ![j] = [job[j] EXCEPT !.status = "failed", !.followup = FALSE]]
<1>1. PICK f \in Failures[BackendOf[j]], header \in Headers, reset \in Headers :
        LET after == IF f.kind = "http" THEN parse_retry_after(header) ELSE NoRetryAfter
        IN \/ /\ Disposition(f, job[j].attempts, MaxAttempts) = "retry"
              /\ \E delay \in Delays(job[j].attempts, after) :
                   job' = [job EXCEPT ![j] = Waiting(j, delay, after)]
           \/ /\ Disposition(f, job[j].attempts, MaxAttempts) # "retry"
              /\ Resumes(f, j) => job[j].extra < MaxExtra
              /\ job' = [job EXCEPT ![j] =
                   IF Resumes(f, j)
                   THEN [Waiting(j, QuotaWait(reset, header), NoRetryAfter) EXCEPT
                           !.quota = TRUE, !.extra = @ + 1, !.followup = job[j].followup]
                   ELSE [job[j] EXCEPT !.status = "failed", !.followup = FALSE]]
  BY DEF Fails
<1> DEFINE after == IF f.kind = "http" THEN parse_retry_after(header) ELSE NoRetryAfter
<1>2. after \in Answers /\ QuotaWait(reset, header) \in Nat
  BY HeaderValues, QuotaWaits, WorkerAssumption DEF Answers
<1>3. CASE Disposition(f, job[j].attempts, MaxAttempts) = "retry"
  <2>1. PICK delay \in Delays(job[j].attempts, after) :
          job' = [job EXCEPT ![j] = Waiting(j, delay, after)]
    BY <1>1, <1>3
  <2>2. job[j].attempts < MaxAttempts
    BY <1>3 DEF Disposition
  <2> HIDE DEF after
  <2> QED BY <1>2, <2>1, <2>2
<1>4. CASE Disposition(f, job[j].attempts, MaxAttempts) # "retry"
  <2>1. job' = [job EXCEPT ![j] =
                  IF Resumes(f, j)
                  THEN [Waiting(j, QuotaWait(reset, header), NoRetryAfter) EXCEPT
                          !.quota = TRUE, !.extra = @ + 1, !.followup = job[j].followup]
                  ELSE [job[j] EXCEPT !.status = "failed", !.followup = FALSE]]
    BY <1>1, <1>4
  <2>2. CASE Resumes(f, j)
    BY <1>2, <2>1, <2>2
  <2>3. CASE ~Resumes(f, j)
    BY <2>1, <2>3
  <2> QED BY <2>2, <2>3
<1> QED BY <1>3, <1>4

\* The rows that the actions write.
LEMMA RowTypes ==
  ASSUME NEW row \in Job
  PROVE  /\ Requeued(row) \in Job
         /\ row.wait > 0 => [row EXCEPT !.wait = @ - 1, !.since = @ + 1] \in Job
         /\ [row EXCEPT !.status = "completed", !.followup = FALSE] \in Job
         /\ [row EXCEPT !.status = "failed", !.followup = FALSE] \in Job
<1>1. Requeued(row) \in Job
  <2>1. NoRetryAfter \in Answers /\ 0 \in Int
    BY DEF Answers
  <2> QED BY <2>1, Zenon DEF Requeued, Job
<1>2. ASSUME row.wait > 0
      PROVE  [row EXCEPT !.wait = @ - 1, !.since = @ + 1] \in Job
  <2>1. row.wait - 1 \in Nat /\ row.since + 1 \in Nat
    BY <1>2 DEF Job
  <2> QED BY <2>1, Zenon DEF Job
<1>3. [row EXCEPT !.status = "completed", !.followup = FALSE] \in Job
  BY Zenon DEF Job
<1>4. [row EXCEPT !.status = "failed", !.followup = FALSE] \in Job
  BY Zenon DEF Job
<1> QED BY <1>1, <1>2, <1>3, <1>4

\* A row that waits, for a retry or for a quota, keeps its type.
LEMMA WaitingTypes ==
  ASSUME NEW j, job[j] \in Job, NEW delay \in Nat, NEW after \in Answers
  PROVE  /\ Waiting(j, delay, after) \in Job
         /\ [Waiting(j, delay, after) EXCEPT
                !.quota = TRUE, !.extra = @ + 1, !.followup = job[j].followup] \in Job
<1>1. Waiting(j, delay, after) \in Job
  <2>1. 0 \in Nat
    OBVIOUS
  <2> QED BY <2>1, Zenon DEF Waiting, Job, Answers
<1> DEFINE waiting == Waiting(j, delay, after)
<1>2. waiting.extra + 1 \in Nat /\ job[j].followup \in BOOLEAN
  BY <1>1 DEF Job
<1> HIDE DEF waiting
<1>3. [waiting EXCEPT !.quota = TRUE, !.extra = @ + 1, !.followup = job[j].followup] \in Job
  BY <1>1, <1>2, Zenon DEF Job, waiting
<1> QED BY <1>1, <1>3 DEF waiting

\* One case per action.
LEMMA TypedStep ==
  ASSUME Typed, [Next]_vars
  PROVE  Typed'
<1> USE DEF Typed
<1>1. CASE Wake
  <2>1. job' \in [Jobs -> Job]
    BY <1>1, RowTypes DEF Wake
  <2>2. count' \in [Backends -> Int]
    BY <1>1, OnIsFinite DEF Wake, Collected
  <2>3. /\ loop' \in [pc : {"asleep", "awake", "claiming"}, candidates : SUBSET Jobs]
        /\ done' \subseteq active' /\ active' \subseteq Jobs
    BY <1>1 DEF Wake
  <2> QED BY <2>1, <2>2, <2>3
<1>2. CASE List
  BY <1>2 DEF List, Runnable
<1>3. CASE Claim
  <2>1. PICK j \in loop.candidates :
          \/ /\ job' = ClaimedBy(j)
             /\ active' = active \cup {j}
             /\ count' = [count EXCEPT ![BackendOf[j]] = @ + 1]
             /\ loop' = [pc |-> "awake", candidates |-> {}]
          \/ /\ loop' = [loop EXCEPT !.candidates = @ \ {j}]
             /\ UNCHANGED <<job, active, count>>
    BY <1>3 DEF Claim
  <2>2. j \in Jobs /\ done' = done
    BY <1>3, <2>1 DEF Claim
  <2>3. job' \in [Jobs -> Job]
    BY <2>1, <2>2 DEF ClaimedBy, Job
  <2> QED BY <2>1, <2>2, <2>3
<1>4. CASE Sleep
  BY <1>4 DEF Sleep
<1>5. CASE Tick
  <2>1. job' \in [Jobs -> Job]
    BY <1>5, RowTypes DEF Tick
  <2> QED BY <1>5, <2>1 DEF Tick
<1>6. ASSUME NEW j \in Jobs, Enqueue(j)
      PROVE  Typed'
  <2>1. job' \in [Jobs -> Job]
    BY <1>6 DEF Enqueue, Job
  <2> QED BY <1>6, <2>1 DEF Enqueue
<1>7. ASSUME NEW j \in Jobs, RunNow(j)
      PROVE  Typed'
  <2>1. job' \in [Jobs -> Job]
    BY <1>7 DEF RunNow, ClaimedBy, Job
  <2> QED BY <1>7, <2>1 DEF RunNow
<1>8. ASSUME NEW j \in Jobs, Completes(j)
      PROVE  Typed'
  <2>1. job' \in [Jobs -> Job]
    BY <1>8, RowTypes DEF Completes
  <2> QED BY <1>8, <2>1 DEF Completes, Ends
<1>9. ASSUME NEW j \in Jobs, FollowsUp(j)
      PROVE  Typed'
  <2>1. job' \in [Jobs -> Job]
    BY <1>9 DEF FollowsUp, Job
  <2> QED BY <1>9, <2>1 DEF FollowsUp, Ends
<1>10. ASSUME NEW j \in Jobs, Fails(j)
       PROVE  Typed'
  <2>1. job[j] \in Job
    OBVIOUS
  <2>2. \E row \in Job : job' = [job EXCEPT ![j] = row]
    <3>1. ASSUME NEW after \in Answers, NEW delay \in Nat
          PROVE  Waiting(j, delay, after) \in Job
      BY <2>1, WaitingTypes
    <3>2. ASSUME NEW after \in Answers, NEW delay \in Delays(job[j].attempts, after)
          PROVE  delay \in Nat
      BY <2>1, DelaysAreBounded DEF Job
    <3>3. ASSUME NEW delay \in Nat
          PROVE  [Waiting(j, delay, NoRetryAfter) EXCEPT
                    !.quota = TRUE, !.extra = @ + 1, !.followup = job[j].followup] \in Job
      <4>1. NoRetryAfter \in Answers
        BY DEF Answers
      <4> QED BY <2>1, <4>1, WaitingTypes, Zenon
    <3>4. [job[j] EXCEPT !.status = "failed", !.followup = FALSE] \in Job
      BY <2>1, RowTypes
    <3> QED BY <1>10, <3>1, <3>2, <3>3, <3>4, FailsCases
  <2>3. job' \in [Jobs -> Job]
    BY <2>2
  <2>4. UNCHANGED <<loop, active, count>> /\ Ends(j)
    BY <1>10 DEF Fails
  <2> QED BY <2>3, <2>4 DEF Ends
<1>11. CASE UNCHANGED vars
  BY <1>11 DEF vars
<1> QED
  BY <1>1, <1>2, <1>3, <1>4, <1>5, <1>6, <1>7, <1>8, <1>9, <1>10, <1>11 DEF Next, Iterate

\* New jobs have typed rows.
LEMMA TypedInit == Init => Typed
BY DEF Init, Typed, Job, NoRetryAfter

-----------------------------------------------------------------------------
\* The rows: the attempts are paid for, with one to spare before the next
\* execution, and a job that waits was given a delay of the policy, of which
\* wait is left and since has passed.
Paid(row) ==
  /\ row.attempts <= MaxAttempts + row.extra
  /\ row.status \in {"unborn", "queued", "waiting_retry"} =>
       row.attempts < MaxAttempts + row.extra

Scheduled(row) ==
  row.status = "waiting_retry" /\ ~row.quota =>
    row.wait + row.since \in Delays(row.attempts, row.after)

RowsInv == \A j \in Jobs : Paid(job[j]) /\ Scheduled(job[j])

\* Fields of a row.
LEMMA RowFields ==
  ASSUME NEW row \in Job
  PROVE  /\ row.attempts \in Nat /\ row.extra \in Nat /\ row.wait \in Nat
         /\ row.since \in Nat /\ row.after \in Answers /\ row.quota \in BOOLEAN
         /\ row.status \in {"unborn", "queued", "running", "waiting_retry",
                            "completed", "failed"}
BY DEF Job, Answers

\* What the writes of an execution's start and end make of a row.
LEMMA ClaimedRow ==
  ASSUME NEW row \in Job, Paid(row), row.status = "queued"
  PROVE  LET claimed == [[row EXCEPT !.status = "running"] EXCEPT !.attempts = @ + 1]
         IN  Paid(claimed) /\ Scheduled(claimed)
<1> DEFINE claimed == [[row EXCEPT !.status = "running"] EXCEPT !.attempts = @ + 1]
<1>1. /\ claimed.status = "running" /\ claimed.attempts = row.attempts + 1
      /\ claimed.extra = row.extra
  BY DEF Job
<1> HIDE DEF claimed
<1>2. Paid(claimed) /\ Scheduled(claimed)
  BY <1>1, RowFields, WorkerAssumption DEF Paid, Scheduled
<1> QED BY <1>2 DEF claimed

\* A run that completes or fails for good.
LEMMA EndedRow ==
  ASSUME NEW row \in Job, Paid(row), NEW status \in {"completed", "failed"}
  PROVE  LET ended == [row EXCEPT !.status = status, !.followup = FALSE]
         IN  Paid(ended) /\ Scheduled(ended)
<1> DEFINE ended == [row EXCEPT !.status = status, !.followup = FALSE]
<1>1. ended.status = status /\ ended.attempts = row.attempts /\ ended.extra = row.extra
  BY DEF Job
<1> HIDE DEF ended
<1>2. Paid(ended) /\ Scheduled(ended)
  BY <1>1 DEF Paid, Scheduled
<1> QED BY <1>2 DEF ended

\* A run that ends in a follow-up pays for the next attempt.
LEMMA ContinuedRow ==
  ASSUME NEW row \in Job, Paid(row)
  PROVE  LET continued == [[[row EXCEPT !.status = "queued"] EXCEPT !.followup = TRUE]
                             EXCEPT !.extra = @ + 1]
         IN  Paid(continued) /\ Scheduled(continued)
<1> DEFINE continued == [[[row EXCEPT !.status = "queued"] EXCEPT !.followup = TRUE]
                           EXCEPT !.extra = @ + 1]
<1>1. /\ continued.status = "queued" /\ continued.attempts = row.attempts
      /\ continued.extra = row.extra + 1
  BY DEF Job
<1> HIDE DEF continued
<1>2. Paid(continued) /\ Scheduled(continued)
  BY <1>1, RowFields, WorkerAssumption DEF Paid, Scheduled
<1> QED BY <1>2 DEF continued

\* A due retry goes back to the queue and waits for nothing.
LEMMA RequeuedRow ==
  ASSUME NEW row \in Job, Paid(row), row.status = "waiting_retry"
  PROVE  Paid(Requeued(row)) /\ Scheduled(Requeued(row))
<1>1. /\ Requeued(row).status = "queued" /\ Requeued(row).attempts = row.attempts
      /\ Requeued(row).extra = row.extra
  BY DEF Job, Requeued
<1> QED BY <1>1 DEF Paid, Scheduled

\* A second passes from what is left of the delay to what has passed of it.
LEMMA TickedRow ==
  ASSUME NEW row \in Job, Paid(row), Scheduled(row)
  PROVE  LET ticked == [row EXCEPT !.wait = @ - 1, !.since = @ + 1]
         IN  Paid(ticked) /\ Scheduled(ticked)
<1> DEFINE ticked == [row EXCEPT !.wait = @ - 1, !.since = @ + 1]
<1>1. /\ ticked.status = row.status /\ ticked.attempts = row.attempts
      /\ ticked.extra = row.extra /\ ticked.quota = row.quota /\ ticked.after = row.after
      /\ ticked.wait = row.wait - 1 /\ ticked.since = row.since + 1
  BY DEF Job
<1> HIDE DEF ticked
<1>2. ticked.wait + ticked.since = row.wait + row.since
  BY <1>1, RowFields
<1>3. Paid(ticked) /\ Scheduled(ticked)
  BY <1>1, <1>2 DEF Paid, Scheduled
<1> QED BY <1>3 DEF ticked

\* A retry is granted below max_attempts only; a quota reset pays for its attempt.
LEMMA WaitingRow ==
  ASSUME NEW j \in Jobs, job[j] \in Job, Paid(job[j]), NEW delay \in Nat, NEW after \in Answers
  PROVE  LET waiting == Waiting(j, delay, after)
             resumed == [waiting EXCEPT !.quota = TRUE, !.extra = @ + 1,
                                        !.followup = job[j].followup]
         IN  /\ /\ job[j].attempts < MaxAttempts
                /\ delay \in Delays(job[j].attempts, after)
                => Paid(waiting) /\ Scheduled(waiting)
             /\ Paid(resumed) /\ Scheduled(resumed)
<1> DEFINE waiting == Waiting(j, delay, after)
           resumed == [waiting EXCEPT !.quota = TRUE, !.extra = @ + 1,
                                      !.followup = job[j].followup]
<1>1. /\ waiting.status = "waiting_retry" /\ waiting.attempts = job[j].attempts
      /\ waiting.extra = job[j].extra /\ waiting.after = after /\ waiting.wait = delay
      /\ waiting.since = 0 /\ ~waiting.quota
  BY DEF Job, Waiting
<1>2. waiting \in Job
  BY WaitingTypes
<1> HIDE DEF waiting
<1>3. /\ resumed.status = "waiting_retry" /\ resumed.attempts = job[j].attempts
      /\ resumed.extra = job[j].extra + 1 /\ resumed.quota
  BY <1>1, <1>2 DEF Job
<1> HIDE DEF resumed
<1>4. ASSUME job[j].attempts < MaxAttempts, delay \in Delays(job[j].attempts, after)
      PROVE  Paid(waiting) /\ Scheduled(waiting)
  <2>1. waiting.wait + waiting.since = delay
    BY <1>1
  <2> QED BY <1>1, <1>4, <2>1, RowFields, WorkerAssumption DEF Paid, Scheduled
<1>5. Paid(resumed) /\ Scheduled(resumed)
  BY <1>3, RowFields, WorkerAssumption DEF Paid, Scheduled
<1> QED BY <1>4, <1>5 DEF waiting, resumed

\* One case per action; an execution changes one row.
LEMMA RowsStep ==
  ASSUME Typed, RowsInv, [Next]_vars
  PROVE  RowsInv'
<1> USE DEF Typed
<1> SUFFICES ASSUME NEW i \in Jobs
             PROVE  Paid(job'[i]) /\ Scheduled(job'[i])
  BY DEF RowsInv, Paid, Scheduled
<1>1. job[i] \in Job /\ Paid(job[i]) /\ Scheduled(job[i])
  BY DEF RowsInv
<1>2. CASE Wake
  <2>1. CASE IsDue(i)
    <3>1. job'[i] = Requeued(job[i]) /\ job[i].status = "waiting_retry"
      BY <1>2, <2>1 DEF Wake, IsDue
    <3> QED BY <1>1, <3>1, RequeuedRow
  <2>2. CASE ~IsDue(i)
    BY <1>1, <1>2, <2>2 DEF Wake
  <2> QED BY <2>1, <2>2
<1>3. ASSUME NEW j \in Jobs, job[j].status = "queued", job' = ClaimedBy(j)
      PROVE  Paid(job'[i]) /\ Scheduled(job'[i])
  <2>1. CASE i = j
    <3>1. job'[i] = [[job[i] EXCEPT !.status = "running"] EXCEPT !.attempts = @ + 1]
      BY <1>3, <2>1 DEF ClaimedBy, Job
    <3> QED BY <1>1, <1>3, <2>1, <3>1, ClaimedRow
  <2>2. CASE i # j
    BY <1>1, <1>3, <2>2 DEF ClaimedBy
  <2> QED BY <2>1, <2>2
<1>4. CASE Claim
  <2>1. PICK j \in loop.candidates :
          \/ job[j].status = "queued" /\ job' = ClaimedBy(j)
          \/ job' = job
    BY <1>4 DEF Claim
  <2> QED BY <1>1, <1>3, <2>1
<1>5. CASE Tick
  <2>1. job'[i] = [job[i] EXCEPT !.wait = @ - 1, !.since = @ + 1] \/ job'[i] = job[i]
    BY <1>5 DEF Tick
  <2> QED BY <1>1, <2>1, TickedRow
<1>6. ASSUME NEW j \in Jobs, Enqueue(j)
      PROVE  Paid(job'[i]) /\ Scheduled(job'[i])
  <2>1. CASE i = j
    <3>1. job[i].status = "unborn" /\ job'[i] = [job[i] EXCEPT !.status = "queued"]
      BY <1>6, <2>1 DEF Enqueue
    <3> QED BY <1>1, <3>1 DEF Paid, Scheduled, Job
  <2>2. CASE i # j
    BY <1>1, <1>6, <2>2 DEF Enqueue
  <2> QED BY <2>1, <2>2
<1>7. ASSUME NEW j \in Jobs, RunNow(j)
      PROVE  Paid(job'[i]) /\ Scheduled(job'[i])
  BY <1>3, <1>7 DEF RunNow
<1>8. ASSUME NEW j \in Jobs, NEW row, job' = [job EXCEPT ![j] = row],
             Paid(row) /\ Scheduled(row)
      PROVE  Paid(job'[i]) /\ Scheduled(job'[i])
  BY <1>1, <1>8
<1>9. ASSUME NEW j \in Jobs, Completes(j)
      PROVE  Paid(job'[i]) /\ Scheduled(job'[i])
  <2>1. job' = [job EXCEPT ![j] = [job[j] EXCEPT !.status = "completed", !.followup = FALSE]]
    BY <1>9 DEF Completes
  <2>2. job[j] \in Job /\ Paid(job[j])
    BY DEF RowsInv
  <2> QED BY <1>8, <2>1, <2>2, EndedRow
<1>10. ASSUME NEW j \in Jobs, FollowsUp(j)
       PROVE  Paid(job'[i]) /\ Scheduled(job'[i])
  <2>1. job' = [job EXCEPT ![j] = [[[job[j] EXCEPT !.status = "queued"]
                                      EXCEPT !.followup = TRUE] EXCEPT !.extra = @ + 1]]
    BY <1>10 DEF FollowsUp, Job
  <2>2. job[j] \in Job /\ Paid(job[j])
    BY DEF RowsInv
  <2> QED BY <1>8, <2>1, <2>2, ContinuedRow
<1>11. ASSUME NEW j \in Jobs, Fails(j)
       PROVE  Paid(job'[i]) /\ Scheduled(job'[i])
  <2>1. job[j] \in Job /\ Paid(job[j]) /\ job[j].attempts \in Nat
    BY RowFields DEF RowsInv
  <2>2. ASSUME NEW after \in Answers, NEW delay \in Delays(job[j].attempts, after),
               job[j].attempts < MaxAttempts, job' = [job EXCEPT ![j] = Waiting(j, delay, after)]
        PROVE  Paid(job'[i]) /\ Scheduled(job'[i])
    <3>1. delay \in Nat
      BY <2>1, DelaysAreBounded
    <3>2. Paid(Waiting(j, delay, after)) /\ Scheduled(Waiting(j, delay, after))
      BY <2>1, <2>2, <3>1, WaitingRow
    <3> QED BY <1>8, <2>2, <3>2
  <2>3. ASSUME NEW delay \in Nat,
               job' = [job EXCEPT ![j] =
                 [Waiting(j, delay, NoRetryAfter) EXCEPT
                    !.quota = TRUE, !.extra = @ + 1, !.followup = job[j].followup]]
        PROVE  Paid(job'[i]) /\ Scheduled(job'[i])
    <3> DEFINE resumed == [Waiting(j, delay, NoRetryAfter) EXCEPT
                             !.quota = TRUE, !.extra = @ + 1, !.followup = job[j].followup]
    <3>1. NoRetryAfter \in Answers
      BY DEF Answers
    <3>2. Paid(resumed) /\ Scheduled(resumed)
      BY <2>1, <3>1, WaitingRow, Zenon
    <3> HIDE DEF resumed
    <3>3. job' = [job EXCEPT ![j] = resumed]
      BY <2>3 DEF resumed
    <3> QED BY <1>8, <3>2, <3>3
  <2>4. ASSUME job' = [job EXCEPT ![j] = [job[j] EXCEPT !.status = "failed", !.followup = FALSE]]
        PROVE  Paid(job'[i]) /\ Scheduled(job'[i])
    BY <1>8, <2>1, <2>4, EndedRow
  <2> QED BY <1>11, <2>1, <2>2, <2>3, <2>4, FailsCases, Zenon
<1>12. CASE UNCHANGED job
  BY <1>1, <1>12
<1> QED
  BY <1>2, <1>4, <1>5, <1>6, <1>7, <1>9, <1>10, <1>11, <1>12
  DEF Next, Iterate, List, Sleep, vars

\* New jobs were never attempted.
LEMMA RowsInit == Init => RowsInv
BY WorkerAssumption DEF Init, RowsInv, Paid, Scheduled

\* The types in every state.
LEMMA TypedAlways == Spec => []Typed
BY TypedInit, TypedStep, PTL DEF Spec

\* max_attempts bounds the executions of a job, but for those that ended in a
\* follow-up or in the quota reset: no other path leads back to the queue.
THEOREM AttemptsArePaidFor == Spec => []AttemptsAreAccountedFor
<1>1. Spec => []RowsInv
  BY TypedAlways, RowsInit, RowsStep, PTL DEF Spec
<1>2. RowsInv => AttemptsAreAccountedFor
  BY DEF RowsInv, Paid, AttemptsAreAccountedFor
<1> QED BY <1>1, <1>2, PTL

\* A job leaves the wait for a retry only through retry_due, when its whole
\* delay has passed.
LEMMA RetriesStep ==
  ASSUME Typed, RowsInv, [Next]_vars, NEW j \in Jobs,
         job[j].status = "waiting_retry", ~job[j].quota, job'[j].status = "queued"
  PROVE  IF job[j].after # NoRetryAfter THEN job[j].since = job[j].after
         ELSE job[j].since \in RawDelay(job[j].attempts) .. MaxDelay
<1> USE DEF Typed
<1>1. job[j] \in Job /\ Scheduled(job[j])
  BY DEF RowsInv
<1>2. job[j].wait = 0
  <2>1. CASE Wake
    BY <2>1 DEF Wake, IsDue
  <2>2. CASE Tick
    BY <1>1, <2>2 DEF Tick, Job
  <2>3. ASSUME NEW k \in Jobs, job[k].status # "waiting_retry", NEW row,
               job' = [job EXCEPT ![k] = row]
        PROVE  FALSE
    BY <2>3
  <2>4. CASE Claim
    <3>1. PICK k \in loop.candidates :
            \/ job[k].status = "queued" /\ job' = ClaimedBy(k)
            \/ job' = job
      BY <2>4 DEF Claim
    <3> QED BY <2>3, <3>1 DEF ClaimedBy
  <2>5. ASSUME NEW k \in Jobs, Enqueue(k) \/ RunNow(k) \/ Completes(k) \/ FollowsUp(k)
        PROVE  FALSE
    BY <2>3, <2>5 DEF Enqueue, RunNow, ClaimedBy, Completes, FollowsUp
  <2>6. ASSUME NEW k \in Jobs, Fails(k)
        PROVE  FALSE
    <3>1. job[k].status = "running"
      BY <2>6 DEF Fails
    <3>2. job'[j] = job[j]
      BY <2>6, <3>1, FailsCases
    <3> QED BY <3>2
  <2>7. CASE UNCHANGED job
    BY <2>7
  <2> QED
    BY <2>1, <2>2, <2>4, <2>5, <2>6, <2>7 DEF Next, Iterate, List, Sleep, vars
<1>3. job[j].since \in Delays(job[j].attempts, job[j].after)
  BY <1>1, <1>2, RowFields DEF Scheduled
<1>4. /\ job[j].attempts \in Nat /\ job[j].after \in Answers
      /\ RawDelay(job[j].attempts) \in Int
  BY <1>1, RowFields, RawDelayIsBounded
<1> QED BY <1>3, <1>4, DelaysAreBounded, RetryAssumption

\* No process requeues a failed job before the delay of its policy has passed.
THEOREM RetriesWaitTheirDelay == Spec => RetriesAreTimely
<1>1. Spec => []RowsInv
  BY TypedAlways, RowsInit, RowsStep, PTL DEF Spec
<1>2. Typed /\ RowsInv /\ [Next]_vars =>
        [\A j \in Jobs :
           /\ job[j].status = "waiting_retry" /\ ~job[j].quota
           /\ job'[j].status = "queued"
           => IF job[j].after # NoRetryAfter THEN job[j].since = job[j].after
              ELSE job[j].since \in RawDelay(job[j].attempts) .. MaxDelay]_vars
  BY RetriesStep
<1> QED BY <1>1, <1>2, TypedAlways, PTL DEF Spec, RetriesAreTimely

-----------------------------------------------------------------------------
\* Concurrency.  Tasks end while the loop sleeps, so when it claims, every task
\* it counts still runs, and no candidate of its list is one of them.
LoopInv ==
  /\ loop.pc # "asleep" => done = {}
  /\ \A j \in active \ done : job[j].status = "running"
  /\ loop.pc = "claiming" =>
       /\ Cardinality(active) < MaxConcurrency
       /\ \A j \in loop.candidates : MayClaim(j)

CountsInv ==
  /\ Cardinality(active) <= MaxConcurrency
  /\ \A b \in Backends : count[b] = Cardinality(On(b, active)) /\ count[b] <= Limit[b]

\* Collecting gives back a slot for each finished task, per backend.
LEMMA WakeCounts ==
  ASSUME Typed, CountsInv, Wake
  PROVE  CountsInv'
<1>1. active \in SUBSET Jobs /\ done \in SUBSET active /\ active' = active \ done
  BY DEF Typed, Wake
<1>2. Cardinality(active') <= MaxConcurrency
  <2>1. active' \in SUBSET active /\ IsFiniteSet(active)
    BY <1>1, JobsAreFinite
  <2>2. /\ Cardinality(active') <= Cardinality(active)
        /\ Cardinality(active') \in Nat /\ Cardinality(active) \in Nat
    BY <2>1, FS_Subset, FS_CardinalityType
  <2> QED BY <2>2, WorkerAssumption DEF CountsInv
<1>3. ASSUME NEW b \in Backends
      PROVE  count'[b] = Cardinality(On(b, active')) /\ count'[b] <= Limit[b]
  <2>1. On(b, active') = On(b, active) \ On(b, done) /\ On(b, done) \in SUBSET On(b, active)
    BY <1>1 DEF On
  <2>2. /\ IsFiniteSet(On(b, active)) /\ Cardinality(On(b, active)) \in Nat
        /\ Cardinality(On(b, done)) \in Nat
    BY <1>1, OnIsFinite
  <2>3. On(b, active) \cap On(b, done) = On(b, done)
    BY <2>1
  <2>4. Cardinality(On(b, active')) = Cardinality(On(b, active)) - Cardinality(On(b, done))
    BY <2>1, <2>2, <2>3, FS_Difference
  <2>5. count'[b] = count[b] - Cardinality(On(b, done))
    BY DEF Wake, Collected
  <2>6. count[b] = Cardinality(On(b, active)) /\ count[b] <= Limit[b] /\ Limit[b] \in Nat
    BY WorkerAssumption DEF CountsInv
  <2> QED BY <2>2, <2>4, <2>5, <2>6
<1> QED BY <1>2, <1>3 DEF CountsInv

\* A claim takes a free slot of its backend.
LEMMA ClaimCounts ==
  ASSUME Typed, CountsInv, NEW j \in Jobs, j \notin active, MayClaim(j),
         Cardinality(active) < MaxConcurrency,
         active' = active \cup {j}, count' = [count EXCEPT ![BackendOf[j]] = @ + 1]
  PROVE  CountsInv'
<1>1. active \in SUBSET Jobs /\ IsFiniteSet(active) /\ Cardinality(active) \in Nat
  BY JobsAreFinite DEF Typed
<1>2. Cardinality(active') = Cardinality(active) + 1
  BY <1>1, FS_AddElement
<1>3. ASSUME NEW b \in Backends
      PROVE  count'[b] = Cardinality(On(b, active')) /\ count'[b] <= Limit[b]
  <2>1. /\ IsFiniteSet(On(b, active)) /\ Cardinality(On(b, active)) \in Nat
        /\ count[b] = Cardinality(On(b, active)) /\ count[b] <= Limit[b]
        /\ Limit[b] \in Nat
    BY <1>1, OnIsFinite, WorkerAssumption DEF CountsInv
  <2>2. CASE b = BackendOf[j]
    <3>1. On(b, active') = On(b, active) \cup {j} /\ j \notin On(b, active)
      BY <2>2 DEF On
    <3>2. Cardinality(On(b, active')) = Cardinality(On(b, active)) + 1
      BY <2>1, <3>1, FS_AddElement
    <3>3. count'[b] = count[b] + 1 /\ count[b] < Limit[b]
      BY <2>2 DEF Typed, MayClaim
    <3> QED BY <2>1, <3>2, <3>3
  <2>3. CASE b # BackendOf[j]
    <3>1. On(b, active') = On(b, active) /\ count'[b] = count[b]
      BY <2>3 DEF On, Typed
    <3> QED BY <2>1, <3>1
  <2> QED BY <2>2, <2>3
<1>4. MaxConcurrency \in Nat
  BY WorkerAssumption
<1>5. Cardinality(active') <= MaxConcurrency
  BY <1>1, <1>2, <1>4
<1> QED BY <1>3, <1>5 DEF CountsInv

\* One case per action; only the loop changes its tasks and counters.
LEMMA LoopStep ==
  ASSUME Typed, LoopInv, CountsInv, [Next]_vars
  PROVE  LoopInv' /\ CountsInv'
<1> USE DEF LoopInv
<1>1. CASE Wake
  <2>1. \A j \in active \ done : job'[j].status = "running"
    BY <1>1 DEF Wake, IsDue, Typed
  <2>2. LoopInv'
    BY <1>1, <2>1 DEF Wake, Typed
  <2> QED BY <1>1, <2>2, WakeCounts
<1>2. CASE List
  BY <1>2 DEF List, CountsInv, MayClaim, On, Typed
<1>3. CASE Claim
  <2>1. PICK j \in loop.candidates :
          IF job[j].status = "queued"
          THEN /\ job' = ClaimedBy(j)
               /\ active' = active \cup {j}
               /\ count' = [count EXCEPT ![BackendOf[j]] = @ + 1]
               /\ loop' = [pc |-> "awake", candidates |-> {}]
          ELSE /\ loop' = [loop EXCEPT !.candidates = @ \ {j}]
               /\ UNCHANGED <<job, active, count>>
    BY <1>3 DEF Claim
  <2>2. /\ j \in Jobs /\ done' = done /\ done = {} /\ loop.pc = "claiming"
        /\ MayClaim(j) /\ Cardinality(active) < MaxConcurrency
    BY <1>3, <2>1 DEF Claim, Typed
  <2>3. CASE job[j].status = "queued"
    <3>1. j \notin active
      BY <2>2, <2>3
    <3>2. CountsInv'
      BY <2>1, <2>2, <2>3, <3>1, ClaimCounts
    <3>3. \A i \in active' \ done' : job'[i].status = "running"
      BY <2>1, <2>2, <2>3 DEF ClaimedBy, Typed, Job
    <3> QED BY <2>1, <2>2, <2>3, <3>2, <3>3
  <2>4. CASE job[j].status # "queued"
    <3>1. CountsInv'
      BY <2>1, <2>4 DEF CountsInv, On
    <3>2. /\ loop'.pc = "claiming" /\ loop'.candidates \subseteq loop.candidates
          /\ UNCHANGED <<job, active, count>>
      BY <2>1, <2>2, <2>4 DEF Typed
    <3> QED BY <2>2, <3>1, <3>2 DEF MayClaim
  <2> QED BY <2>3, <2>4
<1>4. CASE Sleep
  BY <1>4 DEF Sleep, CountsInv, On, Typed
<1>5. ASSUME UNCHANGED <<loop, active, count>>, done' = done,
             \A j \in active \ done : job'[j].status = "running"
      PROVE  LoopInv' /\ CountsInv'
  BY <1>5 DEF CountsInv, MayClaim, On
<1>6. ASSUME NEW j \in Jobs, Ends(j), job[j].status = "running",
             UNCHANGED <<loop, active, count>>,
             \A i \in Jobs \ {j} : job'[i] = job[i]
      PROVE  LoopInv' /\ CountsInv'
  <2>1. CountsInv'
    BY <1>6 DEF CountsInv, On
  <2>2. CASE j \in active \ done
    <3>1. loop.pc = "asleep" /\ done' = done \cup {j}
      BY <1>6, <2>2 DEF Ends
    <3>2. \A i \in active' \ done' : job'[i].status = "running"
      BY <1>6, <3>1 DEF Typed
    <3> QED BY <1>6, <2>1, <3>1, <3>2
  <2>3. CASE j \notin active \ done
    <3>1. done' = done
      BY <1>6, <2>3 DEF Ends
    <3>2. \A i \in active \ done : job'[i].status = "running"
      BY <1>6, <2>3 DEF Typed
    <3> QED BY <1>5, <1>6, <3>1, <3>2
  <2> QED BY <2>2, <2>3
<1>7. CASE Tick
  <2>1. \A j \in Jobs : job'[j].status = job[j].status
    BY <1>7 DEF Tick, Typed, Job
  <2> QED BY <1>5, <1>7, <2>1 DEF Tick, Typed
<1>8. ASSUME NEW j \in Jobs, Enqueue(j)
      PROVE  LoopInv' /\ CountsInv'
  <2>1. \A i \in active \ done : job'[i].status = "running"
    BY <1>8 DEF Enqueue, Typed
  <2> QED BY <1>5, <1>8, <2>1 DEF Enqueue
<1>9. ASSUME NEW j \in Jobs, RunNow(j)
      PROVE  LoopInv' /\ CountsInv'
  <2>1. \A i \in active \ done : job'[i].status = "running"
    BY <1>9 DEF RunNow, ClaimedBy, Typed, Job
  <2> QED BY <1>5, <1>9, <2>1 DEF RunNow
<1>10. ASSUME NEW j \in Jobs, Completes(j) \/ FollowsUp(j)
       PROVE  LoopInv' /\ CountsInv'
  <2>1. \A i \in Jobs \ {j} : job'[i] = job[i]
    BY <1>10 DEF Completes, FollowsUp, Typed
  <2> QED BY <1>6, <1>10, <2>1 DEF Completes, FollowsUp
<1>11. ASSUME NEW j \in Jobs, Fails(j)
       PROVE  LoopInv' /\ CountsInv'
  <2>1. \A i \in Jobs \ {j} : job'[i] = job[i]
    BY <1>11, FailsCases DEF Typed
  <2> QED BY <1>6, <1>11, <2>1 DEF Fails
<1>12. CASE UNCHANGED vars
  BY <1>5, <1>12 DEF vars
<1> QED
  BY <1>1, <1>2, <1>3, <1>4, <1>7, <1>8, <1>9, <1>10, <1>11, <1>12 DEF Next, Iterate

\* At first there are no tasks.
LEMMA LoopInit == Init => LoopInv /\ CountsInv
<1> SUFFICES ASSUME Init PROVE LoopInv /\ CountsInv
  OBVIOUS
<1>1. Cardinality(active) = 0 /\ \A b \in Backends : On(b, active) = {}
  BY FS_EmptySet DEF Init, On
<1>2. ASSUME NEW b \in Backends
      PROVE  count[b] = Cardinality(On(b, active)) /\ count[b] <= Limit[b]
  <2>1. count[b] = 0 /\ Cardinality(On(b, active)) = 0
    BY <1>1, FS_EmptySet DEF Init
  <2>2. Limit[b] \in Nat
    BY WorkerAssumption
  <2> QED BY <2>1, <2>2
<1> QED BY <1>1, <1>2, WorkerAssumption DEF Init, LoopInv, CountsInv

\* The tasks and the counters in every state.
LEMMA LoopAlways == Spec => [](LoopInv /\ CountsInv)
BY TypedAlways, LoopInit, LoopStep, PTL DEF Spec

\* Rows, tasks and counters keep their types: no job waits for less than no
\* time, though a Retry-After date may have passed, and no counter falls below
\* zero, though it is decremented for jobs of an earlier iteration.
THEOREM TypesHold == Spec => []TypeOK
<1>1. Typed /\ CountsInv => TypeOK
  <2> SUFFICES ASSUME Typed, CountsInv
               PROVE  count \in [Backends -> Nat]
    BY DEF Typed, TypeOK
  <2>1. \A b \in Backends : count[b] \in Nat
    BY OnIsFinite DEF Typed, CountsInv
  <2> QED BY <2>1 DEF Typed
<1> QED BY <1>1, TypedAlways, LoopAlways, PTL

\* Neither limit is exceeded, whatever the web server claims from under the
\* loop, and active_backends never drifts from the tasks it counts.
THEOREM LimitsHold == Spec => []ConcurrencyIsLimited
<1>1. CountsInv => ConcurrencyIsLimited
  BY DEF CountsInv, ConcurrencyIsLimited
<1> QED BY <1>1, LoopAlways, PTL
=============================================================================
