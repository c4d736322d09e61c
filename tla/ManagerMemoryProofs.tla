------------------------ MODULE ManagerMemoryProofs ------------------------
(***************************************************************************)
(* The memory of the Project Manager, for any limits, any number of        *)
(* processes and inputs, and any crash.  No refresh deletes an outcome or  *)
(* a feedback entry that is among the newest: it decides what to delete    *)
(* from a list it read in an earlier transaction, and what makes that safe *)
(* is that rows are only added at the new end.  And in one process the     *)
(* counts stand for exactly the outcomes that were deleted.                *)
(***************************************************************************)
EXTENDS ManagerMemory, FiniteSetTheorems, WellFoundedInduction, TLAPS

\* A handler has local variables, whatever they hold.
IsHandler(h) == {"pc", "older"} \subseteq DOMAIN h

Shapes ==
  /\ outcomes \in Seq({"completed", "failed"})
  /\ events \subseteq DOMAIN outcomes
  /\ given \in Nat /\ feedback \subseteq 1 .. given
  /\ DOMAIN proc = Processes
  /\ \A p \in Processes : IsHandler(proc[p])

\* h is not about to delete a row that is among the newest.
DeletesOldRows(h) ==
  /\ h.pc = "counted events" =>
       \A n \in h.older : n \in Nat /\ n + RetainedEvents <= Len(outcomes)
  /\ h.pc = "counted feedback" =>
       \A n \in h.older : n \in Nat /\ n + RetainedFeedback <= given

\* What a refresh is about to delete is old.
OnlyOldRowsGo == \A p \in Processes : DeletesOldRows(proc[p])

IInv == Shapes /\ NewestAreKept /\ OnlyOldRowsGo

-----------------------------------------------------------------------------
\* A row with `limit` newer ones among the rows 1 .. last is `limit` below last.
LEMMA OlderRows ==
  ASSUME NEW last \in Nat, NEW limit \in Nat, NEW rows \in SUBSET (1 .. last),
         NEW r \in Older(rows, limit)
  PROVE  r \in Nat /\ r + limit <= last
<1> DEFINE newer == {s \in rows : s > r}
<1>1. r \in 1 .. last /\ Cardinality(newer) >= limit
  BY DEF Older
<1>2. newer \subseteq r + 1 .. last
  <2>1. \A s \in newer : s \in 1 .. last /\ s > r
    OBVIOUS
  <2> HIDE DEF newer
  <2> QED
    BY <1>1, <2>1
<1>3. /\ IsFiniteSet(r + 1 .. last)
      /\ Cardinality(r + 1 .. last) = IF r + 1 > last THEN 0 ELSE last - (r + 1) + 1
  BY <1>1, FS_Interval
<1>4. Cardinality(newer) \in Nat /\ Cardinality(newer) <= Cardinality(r + 1 .. last)
  BY <1>2, <1>3, FS_Subset, FS_CardinalityType
<1> HIDE DEF newer
<1> QED
  BY <1>1, <1>3, <1>4

\* The lists of outcomes and of feedback grow only.
Grow ==
  /\ outcomes' \in Seq({"completed", "failed"}) /\ Len(outcomes) <= Len(outcomes')
  /\ given' \in Nat /\ given <= given'

\* Rows that are old stay old.
LEMMA OldStaysOld ==
  ASSUME Shapes, Grow, NEW h, DeletesOldRows(h)
  PROVE  DeletesOldRows(h)'
<1>1. /\ Len(outcomes) \in Nat /\ Len(outcomes') \in Nat /\ Len(outcomes) <= Len(outcomes')
      /\ given \in Nat /\ given' \in Nat /\ given <= given'
      /\ RetainedEvents \in Nat /\ RetainedFeedback \in Nat
  BY MemoryAssumption DEF Shapes, Grow
<1>2. \A n, limit, before, after \in Nat :
        n + limit <= before /\ before <= after => n + limit <= after
  OBVIOUS
<1>3. ASSUME h.pc = "counted events", NEW n \in h.older
      PROVE  n \in Nat /\ n + RetainedEvents <= Len(outcomes')
  <2>1. n \in Nat /\ n + RetainedEvents <= Len(outcomes)
    BY <1>3 DEF DeletesOldRows
  <2> QED
    BY <1>1, <1>2, <2>1, Zenon
<1>4. ASSUME h.pc = "counted feedback", NEW n \in h.older
      PROVE  n \in Nat /\ n + RetainedFeedback <= given'
  <2>1. n \in Nat /\ n + RetainedFeedback <= given
    BY <1>4 DEF DeletesOldRows
  <2> QED
    BY <1>1, <1>2, <2>1, Zenon
<1> QED
  BY <1>3, <1>4 DEF DeletesOldRows

\* Only the process that took a step has other local variables than before.
LEMMA LocalStep ==
  ASSUME Shapes, OnlyOldRowsGo, Grow, NEW p \in Processes, NEW local, Local(p, local),
         IsHandler(local), DeletesOldRows(local)
  PROVE  /\ DOMAIN proc' = Processes
         /\ \A q \in Processes : IsHandler(proc'[q])
         /\ OnlyOldRowsGo'
<1>1. /\ DOMAIN proc' = Processes
      /\ proc'[p] = local
      /\ \A q \in Processes : q # p => proc'[q] = proc[q]
  BY DEF Local, Shapes
<1>2. \A q \in Processes : IsHandler(proc'[q])
  BY <1>1 DEF Shapes
<1>3. \A q \in Processes : DeletesOldRows(proc[q])' \/ proc'[q] # proc[q]
  <2> SUFFICES ASSUME NEW q \in Processes, proc'[q] = proc[q]
               PROVE  DeletesOldRows(proc[q])'
    OBVIOUS
  <2> DEFINE h == proc[q]
  <2>1. DeletesOldRows(h)
    BY DEF OnlyOldRowsGo
  <2> QED
    BY <2>1, OldStaysOld DEF DeletesOldRows
<1> QED
  BY <1>1, <1>2, <1>3, OldStaysOld DEF OnlyOldRowsGo

\* A step that leaves the rows alone.
LEMMA RowsStay ==
  ASSUME IInv, UNCHANGED <<outcomes, events, given, feedback>>,
         DOMAIN proc' = Processes, \A q \in Processes : IsHandler(proc'[q]), OnlyOldRowsGo'
  PROVE  IInv'
BY DEF IInv, Shapes, NewestAreKept

\* The steps of a refresh keep the newest rows.
LEMMA RefreshKeeps ==
  ASSUME IInv, NEW p \in Processes, Refresh(p)
  PROVE  IInv'
<1>1. IsHandler(proc[p]) /\ Shapes /\ OnlyOldRowsGo
  BY DEF IInv, Shapes
<1>2. /\ outcomes \in Seq({"completed", "failed"}) /\ Len(outcomes) \in Nat
      /\ DOMAIN outcomes = 1 .. Len(outcomes)
      /\ given \in Nat
      /\ RetainedEvents \in Nat /\ RetainedFeedback \in Nat
  BY <1>1, MemoryAssumption DEF Shapes
<1>3. UNCHANGED <<outcomes, given>>
  BY DEF Refresh, ReadRow, ListEvents, DeleteEvents, ListFeedback, DeleteFeedback, WriteRow
<1>0. Grow
  BY <1>2, <1>3 DEF Grow
<1>4. ASSUME NEW local, Local(p, local), IsHandler(local),
             local.pc \notin {"counted events", "counted feedback"}
      PROVE  /\ DOMAIN proc' = Processes
             /\ \A q \in Processes : IsHandler(proc'[q])
             /\ OnlyOldRowsGo'
  <2>1. DeletesOldRows(local)
    BY <1>4 DEF DeletesOldRows
  <2> QED
    BY <1>1, <1>4, <2>1, <1>0, LocalStep
<1>5. ASSUME ReadRow(p) PROVE IInv'
  <2> DEFINE local == [proc[p] EXCEPT !.pc = "events", !.facts = row.facts,
                                      !.guidance = row.guidance]
  <2>1. IsHandler(local) /\ local.pc = "events"
    BY <1>1 DEF IsHandler
  <2>2. Local(p, local) /\ UNCHANGED <<outcomes, events, given, feedback>>
    BY <1>5 DEF ReadRow
  <2> HIDE DEF local
  <2> QED
    BY <1>4, <2>1, <2>2, RowsStay
<1>6. ASSUME ListEvents(p) PROVE IInv'
  <2> DEFINE older == Older(events, RetainedEvents)
             counted == [proc[p] EXCEPT !.pc = "counted events", !.older = older,
                                        !.facts = Merged(@, older)]
             nothing == [proc[p] EXCEPT !.pc = "feedback"]
  <2>1. \A n \in older : n \in Nat /\ n + RetainedEvents <= Len(outcomes)
    BY <1>1, <1>2, OlderRows DEF Shapes
  <2>2. IsHandler(counted) /\ counted.pc = "counted events" /\ counted.older = older
    BY <1>1 DEF IsHandler
  <2>3. IsHandler(nothing) /\ nothing.pc = "feedback"
    BY <1>1 DEF IsHandler
  <2>4. (Local(p, counted) \/ Local(p, nothing)) /\ UNCHANGED <<events, feedback>>
    BY <1>6 DEF ListEvents
  <2> HIDE DEF older, counted, nothing
  <2>5. CASE Local(p, counted)
    <3>1. DeletesOldRows(counted)
      BY <2>1, <2>2 DEF DeletesOldRows
    <3> QED
      BY <1>0, <1>1, <1>3, <2>2, <2>4, <2>5, <3>1, LocalStep, RowsStay
  <2>6. CASE Local(p, nothing)
    BY <1>3, <1>4, <2>3, <2>4, <2>6, RowsStay
  <2> QED
    BY <2>4, <2>5, <2>6
<1>7. ASSUME DeleteEvents(p) PROVE IInv'
  <2> DEFINE local == [proc[p] EXCEPT !.pc = "feedback", !.older = {}]
  <2>1. IsHandler(local) /\ local.pc = "feedback"
    BY <1>1 DEF IsHandler
  <2>2. Local(p, local) /\ events' = events \ proc[p].older /\ feedback' = feedback
    BY <1>7 DEF DeleteEvents
  <2>3. \A n \in proc[p].older : n \in Nat /\ n + RetainedEvents <= Len(outcomes)
    BY <1>1, <1>7 DEF DeleteEvents, At, OnlyOldRowsGo, DeletesOldRows
  <2>4. NewestAreKept'
    BY <1>2, <1>3, <2>2, <2>3 DEF IInv, NewestAreKept
  <2> HIDE DEF local
  <2>5. /\ DOMAIN proc' = Processes
        /\ \A q \in Processes : IsHandler(proc'[q])
        /\ OnlyOldRowsGo'
    BY <1>4, <2>1, <2>2
  <2> QED
    BY <1>1, <1>3, <2>2, <2>4, <2>5 DEF IInv, Shapes
<1>8. ASSUME ListFeedback(p) PROVE IInv'
  <2> DEFINE older == Older(feedback, RetainedFeedback)
             counted == [proc[p] EXCEPT !.pc = "counted feedback", !.older = older,
                                        !.facts.feedback = @ + Cardinality(older)]
             nothing == [proc[p] EXCEPT !.pc = "writing"]
  <2>1. \A n \in older : n \in Nat /\ n + RetainedFeedback <= given
    BY <1>1, <1>2, OlderRows DEF Shapes
  <2>2. IsHandler(counted) /\ counted.pc = "counted feedback" /\ counted.older = older
    BY <1>1 DEF IsHandler
  <2>3. IsHandler(nothing) /\ nothing.pc = "writing"
    BY <1>1 DEF IsHandler
  <2>4. (Local(p, counted) \/ Local(p, nothing)) /\ UNCHANGED <<events, feedback>>
    BY <1>8 DEF ListFeedback
  <2> HIDE DEF older, counted, nothing
  <2>5. CASE Local(p, counted)
    <3>1. DeletesOldRows(counted)
      BY <2>1, <2>2 DEF DeletesOldRows
    <3> QED
      BY <1>0, <1>1, <1>3, <2>2, <2>4, <2>5, <3>1, LocalStep, RowsStay
  <2>6. CASE Local(p, nothing)
    BY <1>3, <1>4, <2>3, <2>4, <2>6, RowsStay
  <2> QED
    BY <2>4, <2>5, <2>6
<1>9. ASSUME DeleteFeedback(p) PROVE IInv'
  <2> DEFINE local == [proc[p] EXCEPT !.pc = "writing", !.older = {}]
  <2>1. IsHandler(local) /\ local.pc = "writing"
    BY <1>1 DEF IsHandler
  <2>2. Local(p, local) /\ feedback' = feedback \ proc[p].older /\ events' = events
    BY <1>9 DEF DeleteFeedback
  <2>3. \A n \in proc[p].older : n \in Nat /\ n + RetainedFeedback <= given
    BY <1>1, <1>9 DEF DeleteFeedback, At, OnlyOldRowsGo, DeletesOldRows
  <2>4. NewestAreKept'
    BY <1>2, <1>3, <2>2, <2>3 DEF IInv, NewestAreKept
  <2> HIDE DEF local
  <2>5. /\ DOMAIN proc' = Processes
        /\ \A q \in Processes : IsHandler(proc'[q])
        /\ OnlyOldRowsGo'
    BY <1>4, <2>1, <2>2
  <2> QED
    BY <1>1, <1>3, <2>2, <2>4, <2>5 DEF IInv, Shapes
<1>10. ASSUME WriteRow(p) PROVE IInv'
  <2>1. IsHandler(After(p)) /\ After(p).pc = "ready"
    BY <1>1 DEF IsHandler, Idle, After
  <2>2. Local(p, After(p)) /\ UNCHANGED <<outcomes, events, given, feedback>>
    BY <1>10 DEF WriteRow
  <2> QED
    BY <1>4, <2>1, <2>2, RowsStay
<1> QED
  BY <1>5, <1>6, <1>7, <1>8, <1>9, <1>10 DEF Refresh

\* A new row is the newest, and the others are as old as before or older.
LEMMA InputsKeep ==
  ASSUME IInv, NEW p \in Processes,
         Begin(p) \/ AddOutcome(p) \/ AddFeedback(p) \/ StoreGuidance(p) \/ UpdateRow(p) \/ Die(p)
  PROVE  IInv'
<1>1. IsHandler(proc[p]) /\ Shapes /\ OnlyOldRowsGo
  BY DEF IInv, Shapes
<1>2. /\ outcomes \in Seq({"completed", "failed"}) /\ Len(outcomes) \in Nat
      /\ DOMAIN outcomes = 1 .. Len(outcomes)
      /\ given \in Nat
      /\ RetainedEvents \in Nat /\ RetainedFeedback \in Nat
  BY <1>1, MemoryAssumption DEF Shapes
<1>3. IsHandler(After(p)) /\ After(p).pc = "ready"
  BY <1>1 DEF IsHandler, Idle, After
<1>4. ASSUME NEW local, Local(p, local), IsHandler(local), local.pc = "ready", Grow
      PROVE  /\ DOMAIN proc' = Processes
             /\ \A q \in Processes : IsHandler(proc'[q])
             /\ OnlyOldRowsGo'
  <2>1. DeletesOldRows(local)
    BY <1>4 DEF DeletesOldRows
  <2> QED
    BY <1>1, <1>4, <2>1, LocalStep
<1>5. ASSUME NEW local, Local(p, local), IsHandler(local), local.pc = "ready",
             UNCHANGED <<outcomes, events, given, feedback>>
      PROVE  IInv'
  <2>1. Grow
    BY <1>2, <1>5 DEF Grow
  <2> QED
    BY <1>4, <1>5, <2>1, RowsStay
<1>6. ASSUME Begin(p) PROVE IInv'
  <2>1. PICK handler \in Handlers : Local(p, [Idle EXCEPT !.todo = handler])
    BY <1>6 DEF Begin
  <2> DEFINE local == [Idle EXCEPT !.todo = handler]
  <2>2. IsHandler(local) /\ local.pc = "ready"
    BY DEF IsHandler, Idle
  <2>3. UNCHANGED <<outcomes, events, given, feedback>>
    BY <1>6 DEF Begin
  <2> HIDE DEF local
  <2> QED
    BY <1>5, <2>1, <2>2, <2>3 DEF local
<1>7. ASSUME StoreGuidance(p) \/ UpdateRow(p) PROVE IInv'
  BY <1>3, <1>5, <1>7 DEF StoreGuidance, UpdateRow
<1>8. ASSUME Die(p) PROVE IInv'
  BY <1>5, <1>8 DEF Die, IsHandler, Idle
<1>9. ASSUME AddOutcome(p) PROVE IInv'
  <2>1. PICK status \in {"completed", "failed"} : outcomes' = Append(outcomes, status)
    BY <1>9 DEF AddOutcome
  <2>2. /\ outcomes' \in Seq({"completed", "failed"})
        /\ Len(outcomes') = Len(outcomes) + 1
        /\ DOMAIN outcomes' = 1 .. Len(outcomes) + 1
    BY <1>2, <2>1
  <2>3. events' = events \cup {Len(outcomes) + 1} /\ UNCHANGED <<given, feedback>>
    BY <1>9, <2>2 DEF AddOutcome
  <2>4. NewestAreKept'
    BY <1>2, <2>2, <2>3 DEF IInv, NewestAreKept
  <2>5. /\ DOMAIN proc' = Processes
        /\ \A q \in Processes : IsHandler(proc'[q])
        /\ OnlyOldRowsGo'
    <3>1. Grow
      BY <1>2, <2>2, <2>3 DEF Grow
    <3> QED
      BY <1>3, <1>4, <1>9, <3>1 DEF AddOutcome
  <2>6. events' \subseteq DOMAIN outcomes'
    BY <1>1, <1>2, <2>2, <2>3 DEF Shapes
  <2> QED
    BY <1>1, <2>2, <2>3, <2>4, <2>5, <2>6 DEF IInv, Shapes
<1>10. ASSUME AddFeedback(p) PROVE IInv'
  <2>1. given' = given + 1 /\ feedback' = feedback \cup {given + 1}
        /\ UNCHANGED <<outcomes, events>>
    BY <1>10 DEF AddFeedback
  <2>2. given' \in Nat /\ given <= given'
    BY <1>2, <2>1
  <2>3. NewestAreKept'
    BY <1>2, <2>1 DEF IInv, NewestAreKept
  <2>4. /\ DOMAIN proc' = Processes
        /\ \A q \in Processes : IsHandler(proc'[q])
        /\ OnlyOldRowsGo'
    <3>1. Grow
      BY <1>2, <2>1, <2>2 DEF Grow
    <3> QED
      BY <1>3, <1>4, <1>10, <3>1 DEF AddFeedback
  <2>5. feedback' \subseteq 1 .. given'
    BY <1>1, <1>2, <2>1 DEF Shapes
  <2> QED
    BY <1>1, <2>1, <2>2, <2>3, <2>4, <2>5 DEF IInv, Shapes
<1> QED
  BY <1>6, <1>7, <1>8, <1>9, <1>10

-----------------------------------------------------------------------------
\* The newest outcomes and the newest feedback are never deleted, although a
\* refresh deletes what an older list showed it, whichever process adds rows in
\* between and wherever a handler dies.
THEOREM NewestStay == Spec => []NewestAreKept
<1>1. Init => IInv
  <2> SUFFICES ASSUME Init PROVE IInv
    OBVIOUS
  <2>1. outcomes = << >> /\ events = {} /\ given = 0 /\ feedback = {}
        /\ proc = [p \in Processes |-> Idle]
    BY DEF Init
  <2>2. outcomes \in Seq({"completed", "failed"}) /\ DOMAIN outcomes = {}
    BY <2>1
  <2>3. \A p \in Processes : IsHandler(proc[p]) /\ proc[p].pc = "ready"
    BY <2>1 DEF IsHandler, Idle
  <2>4. OnlyOldRowsGo
    BY <2>3 DEF OnlyOldRowsGo, DeletesOldRows
  <2>5. NewestAreKept
    BY <2>1, <2>2 DEF NewestAreKept
  <2> QED
    BY <2>1, <2>2, <2>3, <2>4, <2>5 DEF IInv, Shapes
<1>2. IInv /\ [Next]_vars => IInv'
  <2> SUFFICES ASSUME IInv, [Next]_vars PROVE IInv'
    OBVIOUS
  <2>1. CASE Next
    BY <2>1, RefreshKeeps, InputsKeep DEF Next
  <2>2. CASE UNCHANGED vars
    BY <2>2 DEF vars, IInv, Shapes, NewestAreKept, OnlyOldRowsGo, DeletesOldRows
  <2> QED
    BY <2>1, <2>2
<1>3. IInv => NewestAreKept
  BY DEF IInv
<1> QED
  BY <1>1, <1>2, <1>3, PTL DEF Spec

-----------------------------------------------------------------------------
\* Induction.  The library's theorem about the least element of a set, which
\* takes the set itself, stands for induction on a formula.

\* Every set of natural numbers but the empty one has a least element.
LEMMA Least ==
  ASSUME NEW numbers \in SUBSET Nat, numbers # {}
  PROVE  \E n \in numbers : \A m \in numbers : n <= m
<1>1. PICK n \in numbers : \A m \in numbers : ~(<<m, n>> \in OpToRel(<, Nat))
  BY NatLessThanWellFounded, WFMin
<1>2. ASSUME NEW m \in numbers
      PROVE  n <= m
  <2>1. ~(m < n)
    BY <1>1 DEF OpToRel
  <2> QED BY <2>1
<1> QED BY <1>2

\* What holds of 0 and is passed on holds of every number.
LEMMA PassedOn ==
  ASSUME NEW numbers \in SUBSET Nat, 0 \in numbers,
         \A n \in numbers : n + 1 \in numbers
  PROVE  numbers = Nat
<1> SUFFICES ASSUME Nat \ numbers # {}
             PROVE  FALSE
  OBVIOUS
<1>1. PICK n \in Nat \ numbers : \A m \in Nat \ numbers : n <= m
  BY Least
<1>2. n # 0 /\ n - 1 \in Nat /\ n - 1 \notin numbers => n <= n - 1
  BY <1>1
<1>3. n - 1 \in numbers /\ n = (n - 1) + 1
  BY <1>1, <1>2
<1> QED BY <1>1, <1>3

-----------------------------------------------------------------------------
\* The list of guidance.

\* The loop of _normalize_bullets over its first n items.
LoopStep(items, limit, before, n) ==
  IF items[n] \in ToSet(before) \/ Len(before) >= limit THEN before ELSE Append(before, items[n])

IsLoop(taken, items, limit, last) ==
  taken = [n \in 0 .. last |-> IF n = 0 THEN << >> ELSE LoopStep(items, limit, taken[n - 1], n)]

\* There is a run of the loop of every length: one more item lengthens a run.
LEMMA LoopExists ==
  ASSUME NEW items, NEW limit, NEW last \in Nat
  PROVE  \E taken : IsLoop(taken, items, limit, last)
<1> DEFINE lengths == {n \in Nat : \E taken : IsLoop(taken, items, limit, n)}
<1>1. 0 \in lengths
  <2> DEFINE taken == [n \in 0 .. 0 |-> << >>]
  <2>1. IsLoop(taken, items, limit, 0)
    BY DEF IsLoop
  <2> QED BY <2>1
<1>2. ASSUME NEW n \in lengths
      PROVE  n + 1 \in lengths
  <2>1. PICK taken : IsLoop(taken, items, limit, n)
    OBVIOUS
  <2> DEFINE longer == [m \in 0 .. n + 1 |-> IF m = n + 1 THEN LoopStep(items, limit, taken[n], n + 1)
                                             ELSE taken[m]]
             wanted(m) == IF m = 0 THEN << >> ELSE LoopStep(items, limit, longer[m - 1], m)
  <2>2. n \in Nat
    OBVIOUS
  <2>3. ASSUME NEW m \in 0 .. n + 1
        PROVE  longer[m] = wanted(m)
    <3>1. CASE m = n + 1
      <4>1. longer[m - 1] = taken[n]
        BY <2>2, <3>1
      <4> QED BY <2>2, <3>1, <4>1
    <3>2. CASE m # n + 1
      <4>1. m \in 0 .. n /\ longer[m] = taken[m]
        BY <2>2, <3>2
      <4>2. m # 0 => longer[m - 1] = taken[m - 1]
        BY <2>2, <4>1
      <4>3. taken[m] = IF m = 0 THEN << >> ELSE LoopStep(items, limit, taken[m - 1], m)
        BY <2>1, <4>1 DEF IsLoop
      <4> QED BY <4>1, <4>2, <4>3
    <3> QED BY <3>1, <3>2
  <2>4. IsLoop(longer, items, limit, n + 1)
    <3>1. longer = [m \in 0 .. n + 1 |-> longer[m]]
      OBVIOUS
    <3> HIDE DEF longer
    <3>2. longer = [m \in 0 .. n + 1 |-> wanted(m)]
      BY <2>3, <3>1
    <3> QED BY <3>2 DEF IsLoop
  <2> QED BY <2>2, <2>4
<1> HIDE DEF lengths
<1>3. lengths = Nat
  <2>1. lengths \subseteq Nat
    BY DEF lengths
  <2> QED BY <1>1, <1>2, <2>1, PassedOn
<1> QED BY <1>3 DEF lengths

\* What the loop keeps: a list of its items that begins with the first of them.
LEMMA Normalizing ==
  ASSUME NEW S, NEW items \in Seq(S), items # << >>, NEW limit \in Nat \ {0}
  PROVE  /\ Normalized(items, limit) \in Seq(S)
         /\ Normalized(items, limit) # << >>
         /\ Normalized(items, limit)[1] = items[1]
<1>1. Len(items) \in Nat /\ Len(items) >= 1 /\ \A n \in 1 .. Len(items) : items[n] \in S
  OBVIOUS
<1>2. PICK taken : /\ IsLoop(taken, items, limit, Len(items))
                   /\ Normalized(items, limit) = taken[Len(items)]
  <2>1. \E taken : IsLoop(taken, items, limit, Len(items))
    BY <1>1, LoopExists
  <2> QED BY <2>1 DEF Normalized, IsLoop, LoopStep
<1> DEFINE fine(n) == /\ taken[n] \in Seq(S)
                      /\ n >= 1 => taken[n] # << >> /\ taken[n][1] = items[1]
           numbers == {n \in Nat : n <= Len(items) => fine(n)}
<1>3. 0 \in numbers
  BY <1>1, <1>2 DEF IsLoop
<1>4. ASSUME NEW n \in numbers
      PROVE  n + 1 \in numbers
  <2> SUFFICES ASSUME n + 1 <= Len(items)
               PROVE  fine(n + 1)
    OBVIOUS
  <2>1. n \in Nat /\ fine(n) /\ n + 1 \in 1 .. Len(items)
    BY <1>1
  <2>2. taken[n + 1] = LoopStep(items, limit, taken[n], n + 1)
    BY <1>2, <2>1 DEF IsLoop
  <2>3. items[n + 1] \in S
    BY <1>1, <2>1
  <2>4. CASE n = 0
    <3>1. taken[n] = << >>
      BY <1>1, <1>2, <2>4 DEF IsLoop
    <3>2. items[n + 1] \notin ToSet(taken[n]) /\ ~(Len(taken[n]) >= limit)
      BY <3>1 DEF ToSet
    <3>3. taken[n + 1] = Append(<< >>, items[1])
      BY <2>2, <2>4, <3>1, <3>2 DEF LoopStep
    <3> QED BY <2>3, <2>4, <3>3
  <2>5. CASE n # 0
    <3>1. CASE taken[n + 1] = taken[n]
      BY <2>1, <2>5, <3>1
    <3>2. CASE taken[n + 1] = Append(taken[n], items[n + 1])
      <4>1. taken[n] \in Seq(S) /\ taken[n] # << >> /\ taken[n][1] = items[1]
        BY <2>1, <2>5
      <4>2. Append(taken[n], items[n + 1]) \in Seq(S)
        BY <2>3, <4>1
      <4>3. Append(taken[n], items[n + 1])[1] = items[1]
        BY <2>3, <4>1
      <4>4. Append(taken[n], items[n + 1]) # << >>
        BY <2>3, <4>1
      <4> QED BY <3>2, <4>2, <4>3, <4>4
    <3> QED BY <2>2, <3>1, <3>2 DEF LoopStep
  <2> QED BY <2>4, <2>5
<1>5. numbers = Nat
  <2>1. numbers \subseteq Nat
    OBVIOUS
  <2> HIDE DEF numbers
  <2> QED BY <1>3, <1>4, <2>1, PassedOn
<1>6. fine(Len(items))
  BY <1>1, <1>5
<1> QED BY <1>1, <1>2, <1>6

\* Saving a text puts it first, within the limit, and what is cut off is a number.
LEMMA Saving ==
  ASSUME NEW text \in Texts, NEW guidance \in Seq(Texts)
  PROVE  /\ Guidance(text, guidance) \in Seq(Texts)
         /\ Len(Guidance(text, guidance)) <= RetainedGuidance
         /\ Guidance(text, guidance) # << >> /\ Guidance(text, guidance)[1] = text
         /\ Dropped(text, guidance) \in Nat
<1> DEFINE all == Saved(text, guidance)
           most == IF Len(all) > RetainedGuidance THEN RetainedGuidance ELSE Len(all)
<1>1. RetainedGuidance \in Nat \ {0} /\ RetainedGuidance + 1 \in Nat \ {0}
  BY MemoryAssumption
<1>2. /\ << text >> \o guidance \in Seq(Texts) /\ << text >> \o guidance # << >>
      /\ (<< text >> \o guidance)[1] = text
  OBVIOUS
<1>3. all \in Seq(Texts) /\ all # << >> /\ all[1] = text
  BY <1>1, <1>2, Normalizing DEF Saved
<1> HIDE DEF all
<1>4. Len(all) \in Nat \ {0} /\ most \in 1 .. Len(all) /\ most <= RetainedGuidance
  BY <1>1, <1>3
<1> HIDE DEF most
<1>5. /\ SubSeq(all, 1, most) \in Seq(Texts) /\ Len(SubSeq(all, 1, most)) = most
      /\ SubSeq(all, 1, most)[1] = all[1]
  BY <1>3, <1>4
<1>6. Guidance(text, guidance) = SubSeq(all, 1, most)
  BY DEF Guidance, all, most
<1>7. Dropped(text, guidance) = Len(all) - most
  BY <1>5, <1>6 DEF Dropped, all
<1> QED BY <1>3, <1>4, <1>5, <1>6, <1>7

-----------------------------------------------------------------------------
\* Types.

Steps == {"ready", "events", "counted events", "feedback", "counted feedback", "writing"}

\* What handlers have still to do: a handler, or what is left of one.
Todos == Handlers \cup
  {<< >>, <<"refresh", "refresh">>, <<"outcome", "refresh">>, <<"store", "refresh">>,
   <<"update", "refresh">>, <<"refresh", "store", "refresh">>}

Lists == {list \in Seq(Texts) : Len(list) <= RetainedGuidance}

Locals == [todo : Todos, pc : Steps, facts : Facts, guidance : Lists, older : SUBSET Nat]

TypeInv ==
  /\ deployment \in Deployments /\ torn \in BOOLEAN
  /\ outcomes \in Seq({"completed", "failed"}) /\ events \subseteq DOMAIN outcomes
  /\ given \in Nat /\ feedback \subseteq 1 .. given
  /\ row \in [facts : Facts, guidance : Lists]
  /\ saves \in Seq(Texts)
  /\ proc \in [Processes -> Locals]

\* What follows a step, and that a handler ends with a refresh.
LEMMA Remaining ==
  ASSUME NEW todo \in Todos, todo # << >>
  PROVE  /\ Len(todo) = 1 => todo = <<"refresh">>
         /\ Tail(todo) \in Todos
         /\ Len(todo) # 1 => Tail(todo) # << >>
         /\ Len(todo) # 1 /\ Head(Tail(todo)) \in {"store", "update"} => Head(todo) = "refresh"
<1>1. CASE todo = <<"refresh">>
  BY <1>1 DEF Todos
<1>2. CASE todo = <<"refresh", "refresh">>
  BY <1>2 DEF Todos, Handlers
<1>3. CASE todo = <<"outcome", "refresh">>
  BY <1>3 DEF Todos, Handlers
<1>4. CASE todo = <<"store", "refresh">>
  BY <1>4 DEF Todos, Handlers
<1>5. CASE todo = <<"update", "refresh">>
  BY <1>5 DEF Todos, Handlers
<1>6. CASE todo = <<"refresh", "store", "refresh">>
  BY <1>6 DEF Todos, Handlers
<1>7. CASE todo = <<"refresh", "outcome", "refresh">>
  BY <1>7 DEF Todos, Handlers
<1>8. CASE todo = <<"feedback", "refresh", "refresh">>
  BY <1>8 DEF Todos, Handlers
<1>9. CASE todo = <<"refresh", "refresh", "store", "refresh">>
  BY <1>9 DEF Todos, Handlers
<1>10. CASE todo = <<"refresh", "update", "refresh">>
  BY <1>10 DEF Todos, Handlers
<1> QED
  BY <1>1, <1>2, <1>3, <1>4, <1>5, <1>6, <1>7, <1>8, <1>9, <1>10 DEF Todos, Handlers

\* A count of some of the outcomes is a number.
LEMMA CountIsNumber ==
  ASSUME NEW status, NEW last \in Nat, NEW rows \in SUBSET (1 .. last)
  PROVE  /\ IsFiniteSet(rows) /\ Cardinality(rows) \in Nat
         /\ IsFiniteSet({r \in rows : outcomes[r] = status})
         /\ Count(rows, status) \in Nat
<1>1. IsFiniteSet(1 .. last)
  BY FS_Interval
<1>2. IsFiniteSet(rows) /\ IsFiniteSet({r \in rows : outcomes[r] = status})
  <2>1. IsFiniteSet(rows)
    BY <1>1, FS_Subset
  <2>2. {r \in rows : outcomes[r] = status} \subseteq rows
    OBVIOUS
  <2> QED BY <2>1, <2>2, FS_Subset
<1> QED BY <1>2, FS_CardinalityType DEF Count

\* Facts stay facts.
LEMMA FactWrites ==
  ASSUME NEW facts \in Facts, NEW n \in Nat, NEW m \in Nat
  PROVE  /\ NoFacts \in Facts
         /\ [NoFacts EXCEPT !.completed = n, !.failed = m] \in Facts
         /\ [facts EXCEPT !.feedback = n] \in Facts
         /\ [facts EXCEPT !.guidance = n] \in Facts
         /\ [facts EXCEPT !.feedback = n].completed = facts.completed
         /\ [facts EXCEPT !.feedback = n].failed = facts.failed
         /\ [facts EXCEPT !.guidance = n].completed = facts.completed
         /\ [facts EXCEPT !.guidance = n].failed = facts.failed
         /\ facts.completed \in Nat /\ facts.failed \in Nat
         /\ facts.feedback \in Nat /\ facts.guidance \in Nat
BY DEF Facts, NoFacts

\* Every write of a handler's local variables keeps their type.
LEMMA LocalWrites ==
  ASSUME NEW h \in Locals, NEW pc \in Steps, NEW facts \in Facts, NEW guidance \in Lists,
         NEW older \in SUBSET Nat, NEW todo \in Todos
  PROVE  /\ Idle \in Locals /\ [Idle EXCEPT !.todo = todo] \in Locals
         /\ [h EXCEPT !.pc = pc] \in Locals
         /\ [h EXCEPT !.pc = pc, !.facts = facts, !.guidance = guidance] \in Locals
         /\ [h EXCEPT !.pc = pc, !.older = older] \in Locals
         /\ [h EXCEPT !.pc = pc, !.older = older, !.facts = facts] \in Locals
         /\ [h EXCEPT !.todo = todo, !.pc = pc] \in Locals
<1>1. << >> \in Lists /\ << >> \in Todos /\ {} \in SUBSET Nat /\ NoFacts \in Facts
  BY MemoryAssumption DEF Lists, Todos, NoFacts, Facts
<1>2. Idle \in Locals /\ [Idle EXCEPT !.todo = todo] \in Locals
  BY <1>1 DEF Idle, Locals, Steps
<1>3. /\ [h EXCEPT !.pc = pc] \in Locals
      /\ [h EXCEPT !.pc = pc, !.older = older] \in Locals
      /\ [h EXCEPT !.todo = todo, !.pc = pc] \in Locals
  BY DEF Locals
<1>4. [h EXCEPT !.pc = pc, !.facts = facts, !.guidance = guidance] \in Locals
  BY Zenon DEF Locals
<1>5. [h EXCEPT !.pc = pc, !.older = older, !.facts = facts] \in Locals
  BY Zenon DEF Locals
<1> QED BY <1>2, <1>3, <1>4, <1>5

\* One case per action.
LEMMA TypeStep ==
  ASSUME TypeInv, [Next]_vars
  PROVE  TypeInv'
<1> USE DEF TypeInv
<1>0. /\ DOMAIN outcomes = 1 .. Len(outcomes) /\ Len(outcomes) \in Nat
      /\ events \in SUBSET (1 .. Len(outcomes)) /\ feedback \in SUBSET (1 .. given)
  OBVIOUS
<1>1. ASSUME NEW p \in Processes, NEW local \in Locals, Local(p, local)
      PROVE  proc' \in [Processes -> Locals]
  BY <1>1 DEF Local
<1>2. CASE UNCHANGED vars
  BY <1>2 DEF vars
<1>3. ASSUME NEW p \in Processes, Begin(p) \/ Refresh(p) \/ AddOutcome(p) \/ AddFeedback(p)
               \/ StoreGuidance(p) \/ UpdateRow(p) \/ Die(p)
      PROVE  TypeInv'
  <2> DEFINE h == proc[p]
  <2>1. /\ h \in Locals /\ h.facts \in Facts /\ h.guidance \in Lists /\ h.todo \in Todos
        /\ row.facts \in Facts /\ row.guidance \in Lists
        /\ {} \in SUBSET Nat /\ << >> \in Todos
    BY DEF Locals, Todos
  <2>2. After(p) \in Locals /\ Idle \in Locals
    <3>1. Idle \in Locals
      BY <2>1, LocalWrites DEF Steps
    <3>2. CASE Busy(p)
      <4>1. Tail(h.todo) \in Todos
        BY <2>1, <3>2, Remaining DEF Busy
      <4>2. [h EXCEPT !.todo = Tail(h.todo), !.pc = "ready"] \in Locals
        BY <2>1, <4>1, LocalWrites DEF Steps
      <4> QED BY <3>1, <4>2 DEF After
    <3>3. CASE ~Busy(p)
      <4>1. h.todo = << >>
        BY <3>3 DEF Busy
      <4>2. Tail(h.todo) = << >>
        BY <4>1
      <4>3. [h EXCEPT !.todo = Tail(h.todo), !.pc = "ready"] \in Locals
        BY <2>1, <4>2, LocalWrites DEF Steps
      <4> QED BY <3>1, <4>3 DEF After
    <3> QED BY <3>1, <3>2, <3>3
  <2> HIDE DEF h
  <2>3. CASE Begin(p)
    <3>1. PICK handler \in Handlers : Local(p, [Idle EXCEPT !.todo = handler])
      BY <2>3 DEF Begin
    <3>2. handler \in Todos
      BY DEF Todos
    <3>3. [Idle EXCEPT !.todo = handler] \in Locals
      BY <2>1, <3>2, LocalWrites DEF Steps
    <3> QED BY <1>1, <2>3, <3>1, <3>3 DEF Begin
  <2>4. CASE ReadRow(p)
    <3>1. [h EXCEPT !.pc = "events", !.facts = row.facts, !.guidance = row.guidance] \in Locals
      BY <2>1, LocalWrites DEF Steps
    <3> QED BY <1>1, <2>4, <3>1 DEF ReadRow, h
  <2>5. CASE ListEvents(p)
    <3> DEFINE older == Older(events, RetainedEvents)
    <3>1. older \in SUBSET (1 .. Len(outcomes))
      BY <1>0 DEF Older
    <3>2. older \in SUBSET Nat
      BY <1>0, <3>1
    <3> HIDE DEF older
    <3>3. Count(older, "completed") \in Nat /\ Count(older, "failed") \in Nat
      BY <1>0, <3>1, CountIsNumber
    <3>4. Merged(h.facts, older) \in Facts
      <4>1. h.facts.completed \in Nat /\ h.facts.failed \in Nat
        BY <2>1 DEF Facts
      <4>2. /\ h.facts.completed + Count(older, "completed") \in Nat
            /\ h.facts.failed + Count(older, "failed") \in Nat
        BY <3>3, <4>1
      <4> QED BY <2>1, <4>2, FactWrites DEF Merged
    <3>5. /\ [h EXCEPT !.pc = "feedback"] \in Locals
          /\ [h EXCEPT !.pc = "counted events", !.older = older,
                       !.facts = Merged(h.facts, older)] \in Locals
      BY <2>1, <3>2, <3>4, LocalWrites DEF Steps
    <3> QED BY <1>1, <2>5, <3>5 DEF ListEvents, h, older
  <2>6. CASE DeleteEvents(p)
    <3>1. [h EXCEPT !.pc = "feedback", !.older = {}] \in Locals
      BY <2>1, LocalWrites DEF Steps
    <3> QED BY <1>1, <2>6, <3>1 DEF DeleteEvents, h
  <2>7. CASE ListFeedback(p)
    <3> DEFINE older == Older(feedback, RetainedFeedback)
    <3>1. older \in SUBSET (1 .. given)
      BY <1>0 DEF Older
    <3>2. older \in SUBSET Nat
      BY <1>0, <3>1
    <3> HIDE DEF older
    <3>3. Cardinality(older) \in Nat
      BY <1>0, <3>1, CountIsNumber
    <3>4. [h.facts EXCEPT !.feedback = h.facts.feedback + Cardinality(older)] \in Facts
      <4>1. h.facts.feedback \in Nat
        BY <2>1 DEF Facts
      <4>2. h.facts.feedback + Cardinality(older) \in Nat
        BY <3>3, <4>1
      <4> QED BY <2>1, <4>2, FactWrites
    <3>5. /\ [h EXCEPT !.pc = "writing"] \in Locals
          /\ [h EXCEPT !.pc = "counted feedback", !.older = older,
                !.facts = [h.facts EXCEPT !.feedback = h.facts.feedback + Cardinality(older)]]
               \in Locals
      BY <2>1, <3>2, <3>4, LocalWrites DEF Steps
    <3>6. \/ Local(p, [h EXCEPT !.pc = "writing"])
          \/ Local(p, [h EXCEPT !.pc = "counted feedback", !.older = older,
                !.facts = [h.facts EXCEPT !.feedback = h.facts.feedback + Cardinality(older)]])
      BY <2>7 DEF ListFeedback, h, older
    <3>7. proc' \in [Processes -> Locals]
      BY <1>1, <3>5, <3>6
    <3> QED BY <2>7, <3>7 DEF ListFeedback
  <2>8. CASE DeleteFeedback(p)
    <3>1. [h EXCEPT !.pc = "writing", !.older = {}] \in Locals
      BY <2>1, LocalWrites DEF Steps
    <3> QED BY <1>1, <2>8, <3>1 DEF DeleteFeedback, h
  <2>9. CASE WriteRow(p) \/ UpdateRow(p)
    <3>1. row' \in [facts : Facts, guidance : Lists]
      BY <2>1, <2>9 DEF WriteRow, UpdateRow, h
    <3> QED BY <1>1, <2>2, <2>9, <3>1 DEF WriteRow, UpdateRow
  <2>10. CASE AddOutcome(p)
    <3>1. PICK status \in {"completed", "failed"} : outcomes' = Append(outcomes, status)
      BY <2>10 DEF AddOutcome
    <3>2. /\ outcomes' \in Seq({"completed", "failed"})
          /\ Len(outcomes') = Len(outcomes) + 1
          /\ DOMAIN outcomes' = 1 .. Len(outcomes) + 1
      BY <3>1
    <3>3. events' \subseteq DOMAIN outcomes'
      BY <1>0, <2>10, <3>2 DEF AddOutcome
    <3> QED BY <1>1, <2>2, <2>10, <3>2, <3>3 DEF AddOutcome
  <2>11. CASE AddFeedback(p)
    <3>1. given' \in Nat /\ feedback' \subseteq 1 .. given'
      BY <1>0, <2>11 DEF AddFeedback
    <3> QED BY <1>1, <2>2, <2>11, <3>1 DEF AddFeedback
  <2>12. CASE StoreGuidance(p)
    <3>1. PICK text \in Texts :
            /\ row' = [facts |-> [h.facts EXCEPT !.guidance = h.facts.guidance + Dropped(text, h.guidance)],
                       guidance |-> Guidance(text, h.guidance)]
            /\ saves' = Append(saves, text)
      BY <2>12 DEF StoreGuidance, h
    <3>2. Guidance(text, h.guidance) \in Lists /\ Dropped(text, h.guidance) \in Nat
      BY <2>1, Saving DEF Lists
    <3>3. [h.facts EXCEPT !.guidance = h.facts.guidance + Dropped(text, h.guidance)] \in Facts
      <4>1. h.facts.guidance \in Nat
        BY <2>1 DEF Facts
      <4>2. h.facts.guidance + Dropped(text, h.guidance) \in Nat
        BY <3>2, <4>1
      <4> QED BY <2>1, <4>2, FactWrites
    <3>4. row' \in [facts : Facts, guidance : Lists]
      BY <3>1, <3>2, <3>3
    <3>5. saves' \in Seq(Texts)
      BY <3>1
    <3> QED BY <1>1, <2>2, <2>12, <3>4, <3>5 DEF StoreGuidance
  <2>13. CASE Die(p)
    BY <1>1, <2>2, <2>13 DEF Die
  <2> QED
    BY <1>3, <2>3, <2>4, <2>5, <2>6, <2>7, <2>8, <2>9, <2>10, <2>11, <2>12, <2>13 DEF Refresh
<1> QED BY <1>2, <1>3 DEF Next

\* At first there is nothing to remember.
LEMMA TypeInit == Init => TypeInv
<1> SUFFICES ASSUME Init PROVE TypeInv
  OBVIOUS
<1>1. << >> \in Lists /\ << >> \in Todos /\ NoFacts \in Facts
  BY MemoryAssumption DEF Lists, Todos, NoFacts, Facts
<1>2. Idle \in Locals
  BY <1>1 DEF Idle, Locals, Steps
<1>3. proc \in [Processes -> Locals]
  BY <1>2 DEF Init
<1>4. row \in [facts : Facts, guidance : Lists]
  BY <1>1 DEF Init
<1>5. /\ outcomes \in Seq({"completed", "failed"}) /\ events \subseteq DOMAIN outcomes
      /\ saves \in Seq(Texts)
  BY DEF Init
<1> QED BY <1>3, <1>4, <1>5 DEF Init, TypeInv

\* The memory keeps its types and its guidance the limit, in both deployments
\* and for any number of processes, inputs and crashes.
THEOREM TypesHold == Spec => []TypeOK
<1>1. TypeInv => TypeOK
  <2> SUFFICES ASSUME TypeInv PROVE TypeOK
    OBVIOUS
  <2>1. row.facts \in Facts /\ row.guidance \in Lists
    BY DEF TypeInv
  <2>2. Len(row.guidance) <= RetainedGuidance /\ ToSet(row.guidance) \subseteq Texts
    BY <2>1 DEF Lists, ToSet
  <2>3. ASSUME NEW p \in Processes
        PROVE  /\ proc[p].facts \in Facts /\ proc[p].older \subseteq Nat
               /\ proc[p].pc \in Steps
    BY DEF TypeInv, Locals
  <2> QED BY <2>1, <2>2, <2>3 DEF TypeInv, TypeOK, Steps
<1> QED BY <1>1, TypeInit, TypeStep, PTL DEF Spec

-----------------------------------------------------------------------------
\* Counting, in one process: what the handler at work and the manager's row
\* stand for.

OneProcess == deployment = "one" /\ ~torn

\* The outcomes whose rows were deleted.
Forgotten == DOMAIN outcomes \ events

Stands(facts, rows) ==
  facts.completed = Count(rows, "completed") /\ facts.failed = Count(rows, "failed")

\* The part of a refresh that may have deleted rows its row does not count yet.
Late == {"feedback", "counted feedback", "writing"}

\* The local variables are those of the refresh before, not only of this one.
Reuses(h) == h.pc = "ready" /\ Head(h.todo) \in {"store", "update"}

\* What a handler may rely on.
InHand(h) ==
  /\ h.pc # "ready" \/ Reuses(h) => h.guidance = row.guidance
  /\ h.pc = "events" \/ h.pc \in Late \/ Reuses(h) => Stands(h.facts, Forgotten)
  /\ h.pc = "counted events" =>
       /\ h.older = Older(events, RetainedEvents)
       /\ Stands(h.facts, Forgotten \cup h.older)
  /\ h.pc \in Late => Cardinality(events) <= RetainedEvents
  /\ h.pc = "counted feedback" => h.older = Older(feedback, RetainedFeedback)
  /\ h.pc = "writing" => Cardinality(feedback) <= RetainedFeedback

\* The guidance in the row begins with what was saved last.
SavedIsFirst == saves # << >> => row.guidance # << >> /\ row.guidance[1] = Last(saves)

CountInv ==
  OneProcess =>
    /\ \A p, q \in Processes : Busy(p) /\ Busy(q) => p = q
    /\ \A p \in Processes : Busy(p) => InHand(proc[p])
    /\ (\A p \in Processes : Busy(p) => proc[p].pc \notin Late) =>
         Stands(row.facts, Forgotten)
    /\ (\A p \in Processes : ~Busy(p)) =>
         Cardinality(events) <= RetainedEvents /\ Cardinality(feedback) <= RetainedFeedback
    /\ SavedIsFirst

\* Without the older rows there are no more than the limit: all but the oldest
\* of them are newer than the oldest of them.
LEMMA OlderLeave ==
  ASSUME NEW last \in Nat, NEW limit \in Nat, NEW rows \in SUBSET (1 .. last)
  PROVE  Cardinality(rows \ Older(rows, limit)) <= limit
<1> DEFINE kept == rows \ Older(rows, limit)
<1>1. CASE kept = {}
  BY <1>1, FS_EmptySet
<1>2. CASE kept # {}
  <2>1. PICK oldest \in kept : \A r \in kept : oldest <= r
    <3>1. kept \subseteq rows /\ rows \subseteq Nat
      OBVIOUS
    <3> HIDE DEF kept
    <3> QED BY <1>2, <3>1, Least
  <2> DEFINE newer == {s \in rows : s > oldest}
  <2>2. oldest \in rows /\ ~(Cardinality(newer) >= limit)
    BY DEF Older
  <2>3. newer \in SUBSET (1 .. last)
    OBVIOUS
  <2>4. kept \subseteq newer \cup {oldest}
    <3>1. ASSUME NEW r \in kept, r # oldest
          PROVE  r \in newer
      <4>1. r \in rows /\ r \in Nat /\ oldest \in Nat /\ oldest <= r
        BY <2>1, <2>2
      <4> QED BY <3>1, <4>1
    <3> HIDE DEF kept, newer
    <3> QED BY <3>1
  <2> HIDE DEF newer, kept
  <2>5. IsFiniteSet(newer) /\ Cardinality(newer) \in Nat
    BY <2>3, CountIsNumber
  <2>6. /\ IsFiniteSet(newer \cup {oldest})
        /\ Cardinality(newer \cup {oldest}) <= Cardinality(newer) + 1
    <3>1. /\ IsFiniteSet(newer \cup {oldest})
          /\ Cardinality(newer \cup {oldest}) =
               IF oldest \in newer THEN Cardinality(newer) ELSE Cardinality(newer) + 1
      BY <2>5, FS_AddElement, Zenon
    <3> QED BY <2>5, <3>1
  <2>7. /\ Cardinality(kept) <= Cardinality(newer \cup {oldest})
        /\ Cardinality(kept) \in Nat /\ Cardinality(newer \cup {oldest}) \in Nat
    BY <2>4, <2>6, FS_Subset, FS_CardinalityType
  <2> QED BY <2>2, <2>5, <2>6, <2>7 DEF kept
<1> QED BY <1>1, <1>2

\* Counts of rows that are apart add up.
LEMMA CountsAdd ==
  ASSUME NEW status, NEW last \in Nat,
         NEW rows \in SUBSET (1 .. last), NEW more \in SUBSET (1 .. last), rows \cap more = {}
  PROVE  Count(rows \cup more, status) = Count(rows, status) + Count(more, status)
<1> DEFINE these == {r \in rows : outcomes[r] = status}
           those == {r \in more : outcomes[r] = status}
<1>1. /\ IsFiniteSet(these) /\ IsFiniteSet(those)
      /\ Cardinality(these) \in Nat /\ Cardinality(those) \in Nat
  BY CountIsNumber DEF Count
<1>2. these \cap those = {} /\ {r \in rows \cup more : outcomes[r] = status} = these \cup those
  OBVIOUS
<1> HIDE DEF these, those
<1>3. Cardinality(these \cup those) =
        Cardinality(these) + Cardinality(those) - Cardinality(these \cap those)
  BY <1>1, FS_Union
<1>4. Cardinality(these \cap those) = 0
  BY <1>2, FS_EmptySet
<1> QED BY <1>1, <1>2, <1>3, <1>4 DEF Count, these, those

\* Where one process is at work, what it leaves in hand and in the row is all.
LEMMA OneAtWork ==
  ASSUME TypeInv, NEW p \in Processes, NEW h \in Locals, Local(p, h),
         \A q \in Processes : q # p => ~Busy(q),
         h.todo # << >> => InHand(h)',
         h.todo = << >> \/ h.pc \notin Late => Stands(row.facts, Forgotten)',
         h.todo = << >> => /\ Cardinality(events') <= RetainedEvents
                           /\ Cardinality(feedback') <= RetainedFeedback,
         SavedIsFirst'
  PROVE  CountInv'
<1>1. proc'[p] = h /\ \A q \in Processes : q # p => proc'[q] = proc[q]
  BY DEF Local, TypeInv
<1>2. \A q \in Processes : Busy(q)' => q = p
  BY <1>1 DEF Busy
<1>3. Busy(p)' <=> h.todo # << >>
  BY <1>1 DEF Busy
<1>4. ASSUME Busy(p)'
      PROVE  InHand(proc[p])'
  <2>1. InHand(h)'
    BY <1>3, <1>4
  <2> QED BY <1>1, <2>1 DEF InHand, Reuses, Stands, Count, Older
<1> QED BY <1>1, <1>2, <1>3, <1>4 DEF CountInv

\* What a process at work finds: no other is, and nothing is late but by it.
LEMMA AtWork ==
  ASSUME CountInv, OneProcess, NEW p \in Processes, Runs(p)
  PROVE  /\ \A q \in Processes : q # p => ~Busy(q)
         /\ Busy(p) => InHand(proc[p])
         /\ ~Busy(p) \/ proc[p].pc \notin Late => Stands(row.facts, Forgotten)
         /\ SavedIsFirst
BY DEF CountInv, OneProcess, Runs

\* The fields of the local variables after each write.
LEMMA LocalFields ==
  ASSUME NEW h \in Locals, NEW pc, NEW facts, NEW guidance, NEW older, NEW todo
  PROVE  /\ [h EXCEPT !.pc = pc].pc = pc
         /\ [h EXCEPT !.pc = pc].todo = h.todo
         /\ [h EXCEPT !.pc = pc].facts = h.facts
         /\ [h EXCEPT !.pc = pc].guidance = h.guidance
         /\ [h EXCEPT !.pc = pc, !.older = older].pc = pc
         /\ [h EXCEPT !.pc = pc, !.older = older].todo = h.todo
         /\ [h EXCEPT !.pc = pc, !.older = older].facts = h.facts
         /\ [h EXCEPT !.pc = pc, !.older = older].guidance = h.guidance
         /\ [h EXCEPT !.todo = todo, !.pc = pc].pc = pc
         /\ [h EXCEPT !.todo = todo, !.pc = pc].todo = todo
         /\ [h EXCEPT !.todo = todo, !.pc = pc].facts = h.facts
         /\ [h EXCEPT !.todo = todo, !.pc = pc].guidance = h.guidance
         /\ [h EXCEPT !.pc = pc, !.facts = facts, !.guidance = guidance].pc = pc
         /\ [h EXCEPT !.pc = pc, !.facts = facts, !.guidance = guidance].todo = h.todo
         /\ [h EXCEPT !.pc = pc, !.facts = facts, !.guidance = guidance].facts = facts
         /\ [h EXCEPT !.pc = pc, !.facts = facts, !.guidance = guidance].guidance = guidance
         /\ [h EXCEPT !.pc = pc, !.older = older, !.facts = facts].pc = pc
         /\ [h EXCEPT !.pc = pc, !.older = older, !.facts = facts].todo = h.todo
         /\ [h EXCEPT !.pc = pc, !.older = older, !.facts = facts].facts = facts
         /\ [h EXCEPT !.pc = pc, !.older = older, !.facts = facts].guidance = h.guidance
         /\ [h EXCEPT !.pc = pc, !.older = older, !.facts = facts].older = older
<1>1. DOMAIN h = {"todo", "pc", "facts", "guidance", "older"}
  BY DEF Locals
<1> QED BY <1>1

\* The deletions of a refresh bring what is forgotten to what was counted.
LEMMA RefreshCounts ==
  ASSUME TypeInv, TypeInv', CountInv, OneProcess, NEW p \in Processes,
         ReadRow(p) \/ ListEvents(p) \/ DeleteEvents(p) \/ ListFeedback(p) \/ DeleteFeedback(p)
  PROVE  CountInv'
<1>1. PICK g \in Locals : g = proc[p]
  BY DEF TypeInv
<1>2. /\ \A q \in Processes : q # p => ~Busy(q)
      /\ g.todo # << >> /\ InHand(g) /\ SavedIsFirst
      /\ g.pc \notin Late => Stands(row.facts, Forgotten)
  <2>1. Runs(p) /\ Busy(p)
    BY DEF ReadRow, ListEvents, DeleteEvents, ListFeedback, DeleteFeedback, At
  <2> QED BY <1>1, <2>1, AtWork DEF Busy
<1>3. /\ DOMAIN outcomes = 1 .. Len(outcomes) /\ Len(outcomes) \in Nat /\ given \in Nat
      /\ events \in SUBSET (1 .. Len(outcomes)) /\ feedback \in SUBSET (1 .. given)
      /\ RetainedEvents \in Nat /\ RetainedFeedback \in Nat
      /\ Forgotten \in SUBSET (1 .. Len(outcomes)) /\ Forgotten \cap events = {}
  BY MemoryAssumption DEF TypeInv, Forgotten
<1>4. ASSUME NEW h \in Locals, Local(p, h), h.todo = g.todo, h.pc # "ready", SavedIsFirst',
             InHand(h)', h.pc \notin Late => Stands(row.facts, Forgotten)'
      PROVE  CountInv'
  BY <1>2, <1>4, OneAtWork
<1>5. CASE ReadRow(p)
  <2>1. PICK h \in Locals :
          /\ Local(p, h)
          /\ h = [g EXCEPT !.pc = "events", !.facts = row.facts, !.guidance = row.guidance]
    BY <1>1, <1>5 DEF ReadRow, Local, TypeInv
  <2>2. /\ h.pc = "events" /\ h.todo = g.todo /\ h.facts = row.facts /\ h.guidance = row.guidance
    BY <2>1, LocalFields
  <2>3. UNCHANGED <<outcomes, events, feedback, row, saves>>
    BY <1>5 DEF ReadRow
  <2>4. g.pc = "ready" /\ Stands(row.facts, Forgotten)
    BY <1>1, <1>2, <1>5 DEF ReadRow, At, Late
  <2>5. Stands(row.facts, Forgotten)' /\ Stands(h.facts, Forgotten)' /\ SavedIsFirst'
    BY <1>2, <2>2, <2>3, <2>4 DEF Stands, Count, Forgotten, SavedIsFirst
  <2>6. InHand(h)'
    BY <2>2, <2>3, <2>5 DEF InHand, Late, Reuses
  <2> QED BY <1>4, <2>1, <2>2, <2>5, <2>6
<1>6. CASE ListEvents(p)
  <2> DEFINE older == Older(events, RetainedEvents)
  <2>1. PICK h \in Locals :
          /\ Local(p, h)
          /\ h = IF older = {} THEN [g EXCEPT !.pc = "feedback"]
                 ELSE [g EXCEPT !.pc = "counted events", !.older = older,
                                !.facts = Merged(g.facts, older)]
    BY <1>1, <1>6 DEF ListEvents, Local, TypeInv
  <2>2. UNCHANGED <<outcomes, events, feedback, row, saves>>
    BY <1>6 DEF ListEvents
  <2>3. g.pc = "events" /\ g.guidance = row.guidance /\ Stands(g.facts, Forgotten)
    BY <1>1, <1>2, <1>6 DEF ListEvents, At, InHand
  <2>4. Stands(row.facts, Forgotten)' /\ SavedIsFirst'
    BY <1>2, <2>2, <2>3 DEF Stands, Count, Forgotten, SavedIsFirst, Late
  <2>5. Cardinality(events \ older) <= RetainedEvents
    BY <1>3, OlderLeave
  <2>6. older \in SUBSET (1 .. Len(outcomes)) /\ Forgotten \cap older = {}
    BY <1>3 DEF Older
  <2>7. CASE older = {}
    <3>1. h.pc = "feedback" /\ h.todo = g.todo /\ h.facts = g.facts /\ h.guidance = g.guidance
      BY <2>1, <2>7, LocalFields
    <3>2. Stands(h.facts, Forgotten)'
      BY <2>2, <2>3, <3>1 DEF Stands, Count, Forgotten
    <3>3. Cardinality(events) <= RetainedEvents
      <4>1. events \ older = events
        BY <2>7
      <4> QED BY <2>5, <4>1
    <3>4. InHand(h)'
      BY <2>2, <2>3, <3>1, <3>2, <3>3 DEF InHand, Late, Reuses
    <3> QED BY <1>4, <2>1, <2>4, <3>1, <3>4
  <2>8. CASE older # {}
    <3>1. /\ h.pc = "counted events" /\ h.todo = g.todo /\ h.guidance = g.guidance
          /\ h.older = older /\ h.facts = Merged(g.facts, older)
      BY <2>1, <2>8, LocalFields
    <3>2. Stands(h.facts, Forgotten \cup older)
      <4>1. /\ h.facts.completed = g.facts.completed + Count(older, "completed")
            /\ h.facts.failed = g.facts.failed + Count(older, "failed")
        BY <3>1 DEF Merged, NoFacts
      <4>2. /\ Count(Forgotten \cup older, "completed") =
                 Count(Forgotten, "completed") + Count(older, "completed")
            /\ Count(Forgotten \cup older, "failed") =
                 Count(Forgotten, "failed") + Count(older, "failed")
        <5> HIDE DEF older
        <5>1. ASSUME NEW status
              PROVE  Count(Forgotten \cup older, status) =
                       Count(Forgotten, status) + Count(older, status)
          <6> DEFINE last == Len(outcomes)
          <6>1. /\ last \in Nat /\ Forgotten \in SUBSET (1 .. last)
                /\ older \in SUBSET (1 .. last) /\ Forgotten \cap older = {}
            BY <1>3, <2>6
          <6> HIDE DEF last
          <6>2. ASSUME NEW rows \in SUBSET (1 .. last), NEW more \in SUBSET (1 .. last),
                       rows \cap more = {}
                PROVE  Count(rows \cup more, status) = Count(rows, status) + Count(more, status)
            BY <6>1, <6>2, CountsAdd
          <6> QED BY <6>1, <6>2
        <5> QED BY <5>1
      <4> QED BY <2>3, <4>1, <4>2 DEF Stands
    <3>3. Stands(h.facts, Forgotten \cup h.older)'
      BY <2>2, <3>1, <3>2 DEF Stands, Count, Forgotten
    <3>4. h.older = Older(events, RetainedEvents)'
      BY <2>2, <3>1 DEF Older
    <3>5. InHand(h)'
      BY <2>2, <2>3, <3>1, <3>3, <3>4 DEF InHand, Late, Reuses
    <3> QED BY <1>4, <2>1, <2>4, <3>1, <3>5
  <2> QED BY <2>7, <2>8
<1>7. CASE DeleteEvents(p)
  <2>1. PICK h \in Locals : Local(p, h) /\ h = [g EXCEPT !.pc = "feedback", !.older = {}]
    BY <1>1, <1>7 DEF DeleteEvents, Local, TypeInv
  <2>2. h.pc = "feedback" /\ h.todo = g.todo /\ h.facts = g.facts /\ h.guidance = g.guidance
    BY <2>1, LocalFields
  <2>3. events' = events \ g.older /\ UNCHANGED <<outcomes, feedback, row, saves>>
    BY <1>1, <1>7 DEF DeleteEvents
  <2>4. /\ g.pc = "counted events" /\ g.guidance = row.guidance
        /\ g.older = Older(events, RetainedEvents) /\ Stands(g.facts, Forgotten \cup g.older)
    BY <1>1, <1>2, <1>7 DEF DeleteEvents, At, InHand
  <2>5. Forgotten' = Forgotten \cup g.older
    BY <1>3, <2>3, <2>4 DEF Forgotten, Older
  <2>6. Stands(h.facts, Forgotten)'
    BY <2>2, <2>3, <2>4, <2>5 DEF Stands, Count
  <2>7. Cardinality(events') <= RetainedEvents
    BY <1>3, <2>3, <2>4, OlderLeave
  <2>8. InHand(h)'
    BY <2>2, <2>3, <2>4, <2>6, <2>7 DEF InHand, Late, Reuses
  <2>9. SavedIsFirst'
    BY <1>2, <2>3 DEF SavedIsFirst
  <2> QED BY <1>4, <2>1, <2>2, <2>8, <2>9 DEF Late
<1>8. CASE ListFeedback(p)
  <2> DEFINE older == Older(feedback, RetainedFeedback)
  <2>1. PICK h \in Locals :
          /\ Local(p, h)
          /\ h = IF older = {} THEN [g EXCEPT !.pc = "writing"]
                 ELSE [g EXCEPT !.pc = "counted feedback", !.older = older,
                         !.facts = [g.facts EXCEPT !.feedback = g.facts.feedback + Cardinality(older)]]
    <3> DEFINE next == IF older = {} THEN [g EXCEPT !.pc = "writing"]
                 ELSE [g EXCEPT !.pc = "counted feedback", !.older = older,
                         !.facts = [g.facts EXCEPT !.feedback = g.facts.feedback + Cardinality(older)]]
    <3>1. proc' = [proc EXCEPT ![p] = next]
      BY <1>1, <1>8 DEF ListFeedback, Local
    <3> HIDE DEF next
    <3>2. next = proc'[p] /\ next \in Locals
      BY <3>1 DEF TypeInv
    <3> QED BY <3>1, <3>2 DEF Local, next
  <2>2. UNCHANGED <<outcomes, events, feedback, row, saves>>
    BY <1>8 DEF ListFeedback
  <2>3. /\ g.pc = "feedback" /\ g.guidance = row.guidance /\ Stands(g.facts, Forgotten)
        /\ Cardinality(events) <= RetainedEvents
    BY <1>1, <1>2, <1>8 DEF ListFeedback, At, InHand, Late
  <2>4. /\ h.pc \in {"writing", "counted feedback"} /\ h.todo = g.todo /\ h.guidance = g.guidance
        /\ h.facts.completed = g.facts.completed /\ h.facts.failed = g.facts.failed
        /\ h.pc = "writing" => older = {}
        /\ h.pc = "counted feedback" => h.older = older
    <3>1. CASE older = {}
      BY <2>1, <3>1, LocalFields
    <3>2. CASE older # {}
      <4>1. g.facts \in Facts
        BY DEF Locals
      <4> DEFINE facts == [g.facts EXCEPT !.feedback = g.facts.feedback + Cardinality(older)]
      <4>2. facts.completed = g.facts.completed /\ facts.failed = g.facts.failed
        BY <4>1 DEF Facts
      <4>3. h = [g EXCEPT !.pc = "counted feedback", !.older = older, !.facts = facts]
        BY <2>1, <3>2
      <4> HIDE DEF facts
      <4> QED BY <4>2, <4>3, LocalFields
    <3> QED BY <3>1, <3>2
  <2>5. Stands(h.facts, Forgotten)' /\ SavedIsFirst'
    BY <1>2, <2>2, <2>3, <2>4 DEF Stands, Count, Forgotten, SavedIsFirst
  <2>6. h.pc = "writing" => Cardinality(feedback) <= RetainedFeedback
    <3>1. Cardinality(feedback \ older) <= RetainedFeedback
      BY <1>3, OlderLeave
    <3>2. older = {} => feedback \ older = feedback
      OBVIOUS
    <3> HIDE DEF older
    <3> QED BY <2>4, <3>1, <3>2
  <2>7. h.pc = "counted feedback" => h.older = Older(feedback, RetainedFeedback)'
    BY <2>2, <2>4 DEF Older
  <2>8. InHand(h)'
    BY <2>2, <2>3, <2>4, <2>5, <2>6, <2>7 DEF InHand, Late, Reuses
  <2> QED BY <1>4, <2>1, <2>4, <2>5, <2>8 DEF Late
<1>9. CASE DeleteFeedback(p)
  <2>1. PICK h \in Locals : Local(p, h) /\ h = [g EXCEPT !.pc = "writing", !.older = {}]
    BY <1>1, <1>9 DEF DeleteFeedback, Local, TypeInv
  <2>2. h.pc = "writing" /\ h.todo = g.todo /\ h.facts = g.facts /\ h.guidance = g.guidance
    BY <2>1, LocalFields
  <2>3. feedback' = feedback \ g.older /\ UNCHANGED <<outcomes, events, row, saves>>
    BY <1>1, <1>9 DEF DeleteFeedback
  <2>4. /\ g.pc = "counted feedback" /\ g.guidance = row.guidance
        /\ g.older = Older(feedback, RetainedFeedback) /\ Stands(g.facts, Forgotten)
        /\ Cardinality(events) <= RetainedEvents
    BY <1>1, <1>2, <1>9 DEF DeleteFeedback, At, InHand, Late
  <2>5. Stands(h.facts, Forgotten)' /\ SavedIsFirst'
    BY <1>2, <2>2, <2>3, <2>4 DEF Stands, Count, Forgotten, SavedIsFirst
  <2>6. Cardinality(feedback') <= RetainedFeedback
    BY <1>3, <2>3, <2>4, OlderLeave
  <2>7. InHand(h)'
    BY <2>2, <2>3, <2>4, <2>5, <2>6 DEF InHand, Late, Reuses
  <2> QED BY <1>4, <2>1, <2>2, <2>5, <2>7 DEF Late
<1> QED BY <1>5, <1>6, <1>7, <1>8, <1>9

\* A handler that goes on to its next step starts it with what it had in hand.
LEMMA NextInHand ==
  ASSUME TypeInv, TypeInv', NEW p \in Processes, Busy(p), NEW g \in Locals, g = proc[p],
         Local(p, After(p))
  PROVE  \E h \in Locals :
           /\ Local(p, h) /\ h.pc = "ready"
           /\ Len(g.todo) = 1 => h.todo = << >> /\ Head(g.todo) = "refresh"
           /\ Len(g.todo) # 1 =>
                /\ h.todo # << >> /\ h.facts = g.facts /\ h.guidance = g.guidance
                /\ Reuses(h) => Head(g.todo) = "refresh"
<1>1. PICK h \in Locals : Local(p, h) /\ h = After(p)
  BY DEF Local, TypeInv
<1>2. g.todo \in Todos /\ g.todo # << >>
  BY DEF Busy, Locals
<1>3. ASSUME Len(g.todo) = 1
      PROVE  h.pc = "ready" /\ h.todo = << >> /\ Head(g.todo) = "refresh"
  <2>1. g.todo = <<"refresh">>
    BY <1>2, <1>3, Remaining
  <2> QED BY <1>1, <1>3, <2>1 DEF After, Idle
<1>4. ASSUME Len(g.todo) # 1
      PROVE  /\ h.pc = "ready" /\ h.todo # << >>
             /\ h.facts = g.facts /\ h.guidance = g.guidance
             /\ Reuses(h) => Head(g.todo) = "refresh"
  <2>1. h = [g EXCEPT !.todo = Tail(g.todo), !.pc = "ready"]
    BY <1>1, <1>4 DEF After
  <2>2. h.pc = "ready" /\ h.todo = Tail(g.todo) /\ h.facts = g.facts /\ h.guidance = g.guidance
    BY <2>1, LocalFields
  <2> QED BY <1>2, <1>4, <2>2, Remaining DEF Reuses
<1> QED BY <1>1, <1>3, <1>4

\* The row is written from what the handler has counted.
LEMMA WriteCounts ==
  ASSUME TypeInv, TypeInv', CountInv, OneProcess, NEW p \in Processes,
         WriteRow(p) \/ StoreGuidance(p) \/ UpdateRow(p)
  PROVE  CountInv'
<1>1. PICK g \in Locals : g = proc[p]
  BY DEF TypeInv
<1>2. /\ \A q \in Processes : q # p => ~Busy(q)
      /\ Busy(p) /\ InHand(g) /\ SavedIsFirst
  <2>1. Runs(p) /\ Busy(p)
    BY DEF WriteRow, StoreGuidance, UpdateRow, At
  <2> QED BY <1>1, <2>1, AtWork
<1>3. UNCHANGED <<outcomes, events, feedback>>
  BY DEF WriteRow, StoreGuidance, UpdateRow
<1>4. PICK h \in Locals :
        /\ Local(p, h) /\ h.pc = "ready"
        /\ Len(g.todo) = 1 => h.todo = << >> /\ Head(g.todo) = "refresh"
        /\ Len(g.todo) # 1 =>
             /\ h.todo # << >> /\ h.facts = g.facts /\ h.guidance = g.guidance
             /\ Reuses(h) => Head(g.todo) = "refresh"
  BY <1>1, <1>2, NextInHand DEF WriteRow, StoreGuidance, UpdateRow
<1>5. Stands(g.facts, Forgotten) /\ Stands(g.facts, Forgotten)'
  <2>1. g.pc \in Late \/ Reuses(g)
    BY <1>1 DEF WriteRow, StoreGuidance, UpdateRow, At, Late, Reuses
  <2>2. Stands(g.facts, Forgotten)
    BY <1>2, <2>1 DEF InHand
  <2> QED BY <1>3, <2>2 DEF Stands, Count, Forgotten
<1>6. CASE WriteRow(p) \/ UpdateRow(p)
  <2>1. /\ row' = [facts |-> g.facts, guidance |-> g.guidance] /\ saves' = saves
        /\ g.guidance = row.guidance
    <3>1. g.pc # "ready" \/ Reuses(g)
      BY <1>1, <1>6 DEF WriteRow, UpdateRow, At, Reuses
    <3> QED BY <1>1, <1>2, <1>6, <3>1 DEF WriteRow, UpdateRow, InHand
  <2>2. Stands(row.facts, Forgotten)' /\ SavedIsFirst'
    BY <1>2, <1>5, <2>1 DEF SavedIsFirst, Stands
  <2>3. h.todo # << >> => InHand(h)'
    <3>1. ASSUME h.todo # << >>
          PROVE  h.guidance = row'.guidance /\ Stands(h.facts, Forgotten)'
      BY <1>4, <1>5, <2>1, <3>1 DEF Stands
    <3> QED BY <1>4, <3>1 DEF InHand, Late
  <2>4. h.todo = << >> => /\ Cardinality(events') <= RetainedEvents
                         /\ Cardinality(feedback') <= RetainedFeedback
    <3>1. ASSUME h.todo = << >>
          PROVE  g.pc = "writing"
      BY <1>1, <1>4, <1>6, <3>1 DEF WriteRow, UpdateRow, At
    <3> QED BY <1>2, <1>3, <3>1 DEF InHand, Late
  <2> QED BY <1>2, <1>4, <2>2, <2>3, <2>4, OneAtWork
<1>7. CASE StoreGuidance(p)
  <2>1. PICK text \in Texts :
          /\ row' = [facts |-> [g.facts EXCEPT !.guidance = g.facts.guidance + Dropped(text, g.guidance)],
                     guidance |-> Guidance(text, g.guidance)]
          /\ saves' = Append(saves, text)
    BY <1>1, <1>7 DEF StoreGuidance
  <2>2. SavedIsFirst'
    <3>1. g.guidance \in Seq(Texts) /\ saves \in Seq(Texts)
      BY DEF TypeInv, Locals, Lists
    <3>2. Guidance(text, g.guidance) # << >> /\ Guidance(text, g.guidance)[1] = text
      BY <3>1, Saving
    <3>3. Last(saves') = text
      BY <2>1, <3>1 DEF Last
    <3> QED BY <2>1, <3>2, <3>3 DEF SavedIsFirst
  <2>3. Stands(row.facts, Forgotten)'
    <3>1. g.facts \in Facts
      BY DEF Locals
    <3>2. row'.facts.completed = g.facts.completed /\ row'.facts.failed = g.facts.failed
      BY <2>1, <3>1 DEF Facts
    <3> QED BY <1>5, <3>2 DEF Stands
  <2>4. Head(g.todo) = "store"
    BY <1>1, <1>7 DEF StoreGuidance, At
  <2>5. h.todo # << >> /\ InHand(h)'
    BY <1>4, <2>4 DEF InHand, Late, Reuses
  <2> QED BY <1>2, <1>4, <2>2, <2>3, <2>5, OneAtWork
<1> QED BY <1>6, <1>7

\* What is new is not forgotten, and a handler that begins finds all counted.
LEMMA InputsCount ==
  ASSUME TypeInv, TypeInv', CountInv, OneProcess, NEW p \in Processes,
         Begin(p) \/ AddOutcome(p) \/ AddFeedback(p)
  PROVE  CountInv'
<1>1. PICK g \in Locals : g = proc[p]
  BY DEF TypeInv
<1>2. /\ \A q \in Processes : q # p => ~Busy(q)
      /\ Stands(row.facts, Forgotten) /\ SavedIsFirst
  <2>1. Runs(p)
    BY DEF Begin, AddOutcome, AddFeedback, At
  <2>2. ~Busy(p) \/ proc[p].pc \notin Late
    BY DEF Begin, AddOutcome, AddFeedback, At, Late
  <2> QED BY <2>1, <2>2, AtWork
<1>3. DOMAIN outcomes = 1 .. Len(outcomes) /\ Len(outcomes) \in Nat
  BY DEF TypeInv
<1>4. Stands(row.facts, Forgotten)' /\ SavedIsFirst'
  <2>1. row' = row /\ saves' = saves
    BY DEF Begin, AddOutcome, AddFeedback
  <2>2. Forgotten' = Forgotten /\ \A r \in Forgotten : outcomes'[r] = outcomes[r]
    <3>1. CASE AddOutcome(p)
      <4>1. PICK status \in {"completed", "failed"} : outcomes' = Append(outcomes, status)
        BY <3>1 DEF AddOutcome
      <4>2. /\ DOMAIN outcomes' = 1 .. Len(outcomes) + 1
            /\ Len(outcomes') = Len(outcomes) + 1
            /\ \A r \in 1 .. Len(outcomes) : outcomes'[r] = outcomes[r]
        BY <4>1 DEF TypeInv
      <4>3. events' = events \cup {Len(outcomes) + 1}
        BY <3>1, <4>2 DEF AddOutcome
      <4> QED BY <1>3, <4>2, <4>3 DEF Forgotten
    <3>2. CASE Begin(p) \/ AddFeedback(p)
      BY <3>2 DEF Begin, AddFeedback, Forgotten
    <3> QED BY <3>1, <3>2
  <2>3. ASSUME NEW status
        PROVE  Count(Forgotten, status)' = Count(Forgotten, status)
    <3>1. {r \in Forgotten' : outcomes'[r] = status} = {r \in Forgotten : outcomes[r] = status}
      BY <2>2
    <3> QED BY <3>1 DEF Count
  <2>4. Stands(row.facts, Forgotten)'
    BY <1>2, <2>1, <2>3 DEF Stands
  <2> QED BY <1>2, <2>1, <2>4 DEF SavedIsFirst
<1>5. \E h \in Locals : Local(p, h) /\ h.todo # << >> /\ h.pc = "ready" /\ ~Reuses(h)
  <2>1. CASE Begin(p)
    <3>1. PICK handler \in Handlers : Local(p, [Idle EXCEPT !.todo = handler])
      BY <2>1 DEF Begin
    <3>2. PICK h \in Locals : Local(p, h) /\ h = [Idle EXCEPT !.todo = handler]
      BY <3>1 DEF Local, TypeInv
    <3>3. h.pc = "ready" /\ h.todo = handler
      BY <3>2 DEF Idle
    <3>4. handler # << >> /\ Head(handler) \notin {"store", "update"}
      BY DEF Handlers
    <3> QED BY <3>2, <3>3, <3>4 DEF Reuses
  <2>2. CASE AddOutcome(p) \/ AddFeedback(p)
    <3>1. Busy(p) /\ Head(g.todo) \in {"outcome", "feedback"} /\ Local(p, After(p))
      BY <1>1, <2>2 DEF AddOutcome, AddFeedback, At
    <3> QED BY <1>1, <3>1, NextInHand
  <2> QED BY <2>1, <2>2
<1>6. PICK h \in Locals : Local(p, h) /\ h.todo # << >> /\ h.pc = "ready" /\ ~Reuses(h)
  BY <1>5
<1>7. InHand(h)'
  BY <1>6 DEF InHand, Late, Reuses
<1> QED BY <1>2, <1>4, <1>6, <1>7, OneAtWork

\* One case per kind of step.
LEMMA CountStep ==
  ASSUME TypeInv, TypeInv', CountInv, [Next]_vars
  PROVE  CountInv'
<1> SUFFICES ASSUME OneProcess'
             PROVE  CountInv'
  BY DEF CountInv
<1>1. ASSUME NEW p \in Processes, Begin(p) \/ Refresh(p) \/ AddOutcome(p) \/ AddFeedback(p)
               \/ StoreGuidance(p) \/ UpdateRow(p) \/ Die(p)
      PROVE  CountInv'
  <2>1. OneProcess /\ ~Die(p)
    <3>1. ~Die(p)
      BY DEF OneProcess, Die
    <3>2. UNCHANGED <<deployment, torn>>
      BY <1>1, <3>1, Zenon
      DEF Begin, Refresh, AddOutcome, AddFeedback, StoreGuidance, UpdateRow, ReadRow,
          ListEvents, DeleteEvents, ListFeedback, DeleteFeedback, WriteRow
    <3> QED BY <3>1, <3>2 DEF OneProcess
  <2> QED BY <1>1, <2>1, RefreshCounts, WriteCounts, InputsCount DEF Refresh
<1>2. CASE UNCHANGED vars
  <2>1. UNCHANGED vars /\ OneProcess
    BY <1>2 DEF vars, OneProcess
  <2>2. \A p \in Processes : Busy(p)' <=> Busy(p)
    BY <2>1 DEF vars, Busy
  <2>3. \A p \in Processes : InHand(proc[p])' <=> InHand(proc[p])
    BY <2>1 DEF vars, InHand, Reuses, Stands, Count, Forgotten, Older
  <2>4. /\ Stands(row.facts, Forgotten)' <=> Stands(row.facts, Forgotten)
        /\ SavedIsFirst' <=> SavedIsFirst
    BY <2>1 DEF vars, Stands, Count, Forgotten, SavedIsFirst
  <2> QED BY <2>1, <2>2, <2>3, <2>4 DEF CountInv, vars
<1> QED BY <1>1, <1>2 DEF Next

\* At first nothing is counted and nothing forgotten.
LEMMA CountInit == Init => CountInv
<1> SUFFICES ASSUME Init PROVE CountInv
  OBVIOUS
<1>1. \A p \in Processes : ~Busy(p)
  BY DEF Init, Busy, Idle
<1>2. Forgotten = {} /\ Cardinality(events) = 0 /\ Cardinality(feedback) = 0
  BY FS_EmptySet DEF Init, Forgotten
<1>3. Count({}, "completed") = 0 /\ Count({}, "failed") = 0
  BY FS_EmptySet DEF Count
<1>4. Stands(row.facts, Forgotten)
  BY <1>2, <1>3 DEF Init, Stands, NoFacts
<1>5. SavedIsFirst
  BY DEF Init, SavedIsFirst
<1> QED BY <1>1, <1>2, <1>4, <1>5, MemoryAssumption DEF CountInv

\* The newest rows are there at every moment, in any deployment; and when one
\* process is done nothing else is left of them, the counts stand for exactly
\* the outcomes whose rows were deleted, and the guidance saved last comes first.
THEOREM MemoryKept == Spec => []MemoryIsKept
<1>1. Spec => [](TypeInv /\ CountInv)
  <2>1. Init => TypeInv /\ CountInv
    BY TypeInit, CountInit
  <2>2. TypeInv /\ CountInv /\ [Next]_vars => (TypeInv /\ CountInv)'
    BY TypeStep, CountStep
  <2> QED BY <2>1, <2>2, PTL DEF Spec
<1>2. CountInv => OlderAreCounted
  <2> SUFFICES ASSUME CountInv, Settled PROVE OlderAreCounted
    BY DEF OlderAreCounted
  <2> QED
    BY DEF CountInv, Settled, OneProcess, Stands, Forgotten, SavedIsFirst, OlderAreCounted
<1> QED BY <1>1, <1>2, NewestStay, PTL DEF MemoryIsKept
=============================================================================
