------------------------ MODULE ChatSessionRefinement -----------------------
(* The turn machinery of the chat screen implements TurnService.           *)
EXTENDS ChatSession

Items == Prompts \cup Skills \cup Notes
InSeq(q) == {q[i] : i \in DOMAIN q}

\* The turn that holds the guard, and those that gave it back.
CurrentItem == IF status = "running" THEN {turns[generation]} ELSE {}
Ended == InSeq(turns) \ CurrentItem

\* Items in the queue or the outbox, and skills whose prompt is being fetched.
Preparing == {task[a] : a \in {b \in Actors : pc[b] = "slash"}}
Queued == InSeq(queue.next) \cup InSeq(queue.later) \cup InSeq(outbox)
WaitingItems == ((Queued \cup Preparing) \cap Items) \ InSeq(turns)

\* Items that left the queue without a turn: a notification was absorbed by
\* the turn that was running, a skill was dropped.
Gone == Items \ (unsent \cup WaitingItems \cup InSeq(turns))

Abstract == INSTANCE TurnService WITH
    Absorbable <- Notes,
    Fragile <- Skills,
    waiting <- WaitingItems,
    current <- CurrentItem,
    served <- Ended \cup (Gone \cap Notes),
    dropped <- Gone \cap Skills

\* Prompts and notifications are served exactly once, one at a time, whatever
\* the interleaving of the pump, the finishing workers and their cancellation;
\* only a skill can be lost on the way.
ImplementsTurnService == Abstract!Spec
=============================================================================
