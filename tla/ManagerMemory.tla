--------------------------- MODULE ManagerMemory ---------------------------
(***************************************************************************)
(* What the Project Manager remembers of one project: job outcomes and     *)
(* operator feedback in tables of their own, of which only the newest rows *)
(* are kept, and, in the manager's row, the counts that stand for the      *)
(* older ones (rolling_facts) and the guidance that was saved.             *)
(*                                                                         *)
(* Every handler refreshes the row, most do so several times, and every    *)
(* refresh compacts; each read and each write is a transaction.  In the    *)
(* deployment "one" nothing interrupts a handler but a crash; in "two" the *)
(* web server and a worker interleave.  What is launched on the strength   *)
(* of this memory is in ManagerAutonomy.  Messages, which are cut off      *)
(* without being counted, the texts made from the counts, and the counts   *)
(* that are sums or shares of the others are left out.                     *)
(***************************************************************************)
EXTENDS Integers, FiniteSets, Sequences, SequencesExt

CONSTANTS
  Processes,        \* the processes with a ProjectManagerService
  Deployments,      \* the ones considered, of "one" and "two"
  RetainedEvents,   \* retained_event_limit
  RetainedFeedback, \* retained_feedback_limit
  RetainedGuidance, \* retained_guidance_limit
  Texts,            \* the recommendations that may be saved as guidance
  MaxInputs         \* bound: how many outcomes, feedback entries and saves there are

ASSUME MemoryAssumption ==
  /\ Deployments \subseteq {"one", "two"}
  /\ {RetainedEvents, RetainedFeedback} \subseteq Nat /\ RetainedGuidance \in Nat \ {0}
  /\ MaxInputs \in Nat

VARIABLES
  deployment, \* "one" or "two" processes
  outcomes,   \* history: the statuses of the outcomes, in the order of their rows
  events,     \* project_manager_events: the outcomes whose rows are still there
  given,      \* history: how many feedback entries there were
  feedback,   \* project_operator_feedback: those whose rows are still there
  row,        \* project_manager_states: rolling_facts and project_guidance
  saves,      \* history: the guidance that was saved, in order
  proc,       \* proc[p]: the handler that runs in p
  torn        \* history: a handler died

vars == <<deployment, outcomes, events, given, feedback, row, saves, proc, torn>>

Facts == [completed : Nat, failed : Nat, feedback : Nat, guidance : Nat]
NoFacts == [completed |-> 0, failed |-> 0, feedback |-> 0, guidance |-> 0]

\* todo: what the handler has still to do.  pc: "ready" for it, or within a
\* refresh, before it lists or deletes rows or writes its own; facts, guidance
\* and older are its local variables.
Handlers == {<<"refresh", "outcome", "refresh">>, <<"feedback", "refresh", "refresh">>,
             <<"refresh", "refresh", "store", "refresh">>, <<"refresh", "update", "refresh">>,
             <<"refresh">>}

Idle == [todo |-> << >>, pc |-> "ready", facts |-> NoFacts, guidance |-> << >>, older |-> {}]

Init ==
  /\ deployment \in Deployments
  /\ outcomes = << >> /\ events = {}
  /\ given = 0 /\ feedback = {}
  /\ row = [facts |-> NoFacts, guidance |-> << >>]
  /\ saves = << >>
  /\ proc = [p \in Processes |-> Idle]
  /\ torn = FALSE

Busy(p) == proc[p].todo # << >>

\* p may run: in one process a handler runs to its end.
Runs(p) == deployment = "one" => \A q \in Processes : Busy(q) => q = p

At(p, pc, step) == Runs(p) /\ Busy(p) /\ proc[p].pc = pc /\ Head(proc[p].todo) = step

-----------------------------------------------------------------------------
\* Compaction.

\* The rows after the first `limit` ones, newest first.
Older(rows, limit) == {r \in rows : Cardinality({s \in rows : s > r}) >= limit}

Count(rows, status) == Cardinality({r \in rows : outcomes[r] = status})

\* Mutant: the counts so far are forgotten.
MergedAnew(facts, older) ==
  [NoFacts EXCEPT !.completed = Count(older, "completed"), !.failed = Count(older, "failed")]

\* _merge_rolling_facts makes a new dictionary of the keys about events.
Merged(facts, older) ==
  [NoFacts EXCEPT !.completed = facts.completed + Count(older, "completed"),
                  !.failed = facts.failed + Count(older, "failed")]

\* _normalize_bullets: each text once, and no more than `limit` of them.
Normalized(items, limit) ==
  LET taken[n \in 0 .. Len(items)] ==
        IF n = 0 THEN << >>
        ELSE IF items[n] \in ToSet(taken[n - 1]) \/ Len(taken[n - 1]) >= limit THEN taken[n - 1]
        ELSE Append(taken[n - 1], items[n])
  IN taken[Len(items)]

\* The text to save before the guidance there is, with room for one too many.
Saved(text, guidance) == Normalized(<< text >> \o guidance, RetainedGuidance + 1)

\* Mutant: the list of guidance is not cut.
UncutGuidance(text, guidance) == Saved(text, guidance)

\* _store_project_guidance: the newest first, cut to the limit; what is cut off
\* is counted.
Guidance(text, guidance) ==
  LET all == Saved(text, guidance)
  IN SubSeq(all, 1, IF Len(all) > RetainedGuidance THEN RetainedGuidance ELSE Len(all))

Dropped(text, guidance) == Len(Saved(text, guidance)) - Len(Guidance(text, guidance))

-----------------------------------------------------------------------------
\* One refresh.

Local(p, local) == proc' = [proc EXCEPT ![p] = local]

ReadRow(p) ==
  /\ At(p, "ready", "refresh")
  /\ Local(p, [proc[p] EXCEPT !.pc = "events", !.facts = row.facts, !.guidance = row.guidance])
  /\ UNCHANGED <<deployment, outcomes, events, given, feedback, row, saves, torn>>

\* _compact_if_needed lists the events and counts the older ones,
ListEvents(p) ==
  /\ At(p, "events", "refresh")
  /\ LET older == Older(events, RetainedEvents)
     IN Local(p, IF older = {} THEN [proc[p] EXCEPT !.pc = "feedback"]
                 ELSE [proc[p] EXCEPT !.pc = "counted events", !.older = older,
                                      !.facts = Merged(@, older)])
  /\ UNCHANGED <<deployment, outcomes, events, given, feedback, row, saves, torn>>

\* and deletes them.
DeleteEvents(p) ==
  /\ At(p, "counted events", "refresh")
  /\ events' = events \ proc[p].older
  /\ Local(p, [proc[p] EXCEPT !.pc = "feedback", !.older = {}])
  /\ UNCHANGED <<deployment, outcomes, given, feedback, row, saves, torn>>

\* _compact_feedback_if_needed.
ListFeedback(p) ==
  /\ At(p, "feedback", "refresh")
  /\ LET older == Older(feedback, RetainedFeedback)
     IN Local(p, IF older = {} THEN [proc[p] EXCEPT !.pc = "writing"]
                 ELSE [proc[p] EXCEPT !.pc = "counted feedback", !.older = older,
                                      !.facts.feedback = @ + Cardinality(older)])
  /\ UNCHANGED <<deployment, outcomes, events, given, feedback, row, saves, torn>>

DeleteFeedback(p) ==
  /\ At(p, "counted feedback", "refresh")
  /\ feedback' = feedback \ proc[p].older
  /\ Local(p, [proc[p] EXCEPT !.pc = "writing", !.older = {}])
  /\ UNCHANGED <<deployment, outcomes, events, given, row, saves, torn>>

\* What a handler knows after a step: the last one leaves nothing.
After(p) ==
  IF Len(proc[p].todo) = 1 THEN Idle
  ELSE [proc[p] EXCEPT !.todo = Tail(@), !.pc = "ready"]

\* The row is written as a whole, from what was read when the refresh began.
WriteRow(p) ==
  /\ At(p, "writing", "refresh")
  /\ row' = [facts |-> proc[p].facts, guidance |-> proc[p].guidance]
  /\ Local(p, After(p))
  /\ UNCHANGED <<deployment, outcomes, events, given, feedback, saves, torn>>

-----------------------------------------------------------------------------
\* The handlers: ingest_job_outcome, submit_operator_feedback,
\* save_project_manager_advisory, update_workflow_state, and every view.

Inputs == {"outcome", "feedback", "store"}

\* The inputs that were made or are on their way.
Started ==
  Len(outcomes) + given + Len(saves)
  + Cardinality({p \in Processes : ToSet(proc[p].todo) \cap Inputs # {}})

Begin(p) ==
  /\ Runs(p) /\ ~Busy(p)
  /\ \E handler \in Handlers :
       /\ ToSet(handler) \cap Inputs # {} => Started < MaxInputs
       /\ Local(p, [Idle EXCEPT !.todo = handler])
  /\ UNCHANGED <<deployment, outcomes, events, given, feedback, row, saves, torn>>

AddOutcome(p) ==
  /\ At(p, "ready", "outcome")
  /\ \E status \in {"completed", "failed"} : outcomes' = Append(outcomes, status)
  /\ events' = events \cup {Len(outcomes')}
  /\ Local(p, After(p))
  /\ UNCHANGED <<deployment, given, feedback, row, saves, torn>>

AddFeedback(p) ==
  /\ At(p, "ready", "feedback")
  /\ given' = given + 1
  /\ feedback' = feedback \cup {given'}
  /\ Local(p, After(p))
  /\ UNCHANGED <<deployment, outcomes, events, row, saves, torn>>

\* Written over what the refresh before it has just written.
StoreGuidance(p) ==
  /\ At(p, "ready", "store")
  /\ \E text \in Texts :
       /\ row' = [facts |-> [proc[p].facts EXCEPT !.guidance = @ + Dropped(text, proc[p].guidance)],
                  guidance |-> Guidance(text, proc[p].guidance)]
       /\ saves' = Append(saves, text)
  /\ Local(p, After(p))
  /\ UNCHANGED <<deployment, outcomes, events, given, feedback, torn>>

\* update_workflow_state writes the row of the refresh before it once more (its
\* other columns are in ManagerAutonomy).
UpdateRow(p) ==
  /\ At(p, "ready", "update")
  /\ row' = [facts |-> proc[p].facts, guidance |-> proc[p].guidance]
  /\ Local(p, After(p))
  /\ UNCHANGED <<deployment, outcomes, events, given, feedback, saves, torn>>

\* A process dies, or an error leaves the handler.
Die(p) ==
  /\ Busy(p)
  /\ Local(p, Idle)
  /\ torn' = TRUE
  /\ UNCHANGED <<deployment, outcomes, events, given, feedback, row, saves>>

Refresh(p) ==
  ReadRow(p) \/ ListEvents(p) \/ DeleteEvents(p) \/ ListFeedback(p) \/ DeleteFeedback(p) \/ WriteRow(p)

Next ==
  \E p \in Processes :
    Begin(p) \/ Refresh(p) \/ AddOutcome(p) \/ AddFeedback(p) \/ StoreGuidance(p)
    \/ UpdateRow(p) \/ Die(p)

Spec == Init /\ [][Next]_vars

-----------------------------------------------------------------------------
TypeOK ==
  /\ deployment \in Deployments
  /\ events \subseteq DOMAIN outcomes /\ feedback \subseteq 1 .. given
  /\ row.facts \in Facts
  /\ Len(row.guidance) <= RetainedGuidance /\ ToSet(row.guidance) \subseteq Texts
  /\ \A p \in Processes :
       /\ proc[p].facts \in Facts
       /\ proc[p].older \subseteq Nat
       /\ proc[p].pc \in {"ready", "events", "counted events", "feedback",
                          "counted feedback", "writing"}
  /\ torn \in BOOLEAN

\* Nothing was torn, and nobody is at work.
Settled == deployment = "one" /\ ~torn /\ \A p \in Processes : ~Busy(p)

\* The newest outcomes and the newest feedback are there at every moment, whoever
\* compacts, in however many processes, and whoever dies.
NewestAreKept ==
  /\ \A n \in DOMAIN outcomes : n > Len(outcomes) - RetainedEvents => n \in events
  /\ \A n \in 1 .. given : n > given - RetainedFeedback => n \in feedback

\* When one process is done nothing else is left of them, every older outcome is
\* counted once, and the guidance that was saved last comes first.
OlderAreCounted ==
  Settled =>
    /\ Cardinality(events) <= RetainedEvents /\ Cardinality(feedback) <= RetainedFeedback
    /\ row.facts.completed = Count(DOMAIN outcomes \ events, "completed")
    /\ row.facts.failed = Count(DOMAIN outcomes \ events, "failed")
    /\ saves # << >> => row.guidance # << >> /\ row.guidance[1] = Last(saves)

\* README.md:292: the manager's memory is bounded, keeps what is newest, and loses
\* no older outcome that its counts do not stand for.  It says nothing of the counts
\* of feedback (FeedbackIsCounted) and of dropped guidance, which Merged forgets.
MemoryIsKept == NewestAreKept /\ OlderAreCounted

\* README.md:292: older feedback is compacted into aggregate counts as well.
FeedbackIsCounted ==
  Settled => row.facts.feedback = Cardinality((1 .. given) \ feedback)
=============================================================================
