---------------------------- MODULE ChatSession -----------------------------
(***************************************************************************)
(* The chat screen's turn machinery: components/ui/chat_app.py with        *)
(* utils/query_guard.py and utils/message_queue_manager.py.                *)
(*                                                                         *)
(* Everything runs on one asyncio loop, so the code between two awaits is  *)
(* one atomic step.  The coroutines that interleave are the actors:        *)
(*   - Pump (0): the App's message pump.  It runs one handler at a time    *)
(*     (on_input, on_key), to its end.                                     *)
(*   - Worker g: the exclusive worker of turn generation g                 *)
(*     (_stream_response), which after its turn also runs the queue.       *)
(* pc[a] names the await actor a is suspended at.                          *)
(***************************************************************************)
EXTENDS Naturals, Sequences

CONSTANTS Prompts,       \* inputs that are not slash commands
          Skills,        \* slash commands that turn into a prompt
          Compactions,   \* /compact: awaits a summary of the history
          Clears,        \* /clear: empties the history at once
          Notes,         \* notifications of background tasks
          MaxTurns       \* bound on the number of turns

Slashes == Skills \cup Compactions \cup Clears
Inputs == Prompts \cup Slashes
Commands == Inputs \cup Notes
NoCommand == "none"

ASSUME ChatSessionAssumption ==
    /\ MaxTurns \in Nat
    /\ NoCommand \notin Commands
    /\ Prompts \cap Slashes = {}
    /\ Skills \cap (Compactions \cup Clears) = {}
    /\ Compactions \cap Clears = {}
    /\ Notes \cap Inputs = {}

Pump == 0
Turns == 1 .. MaxTurns
Actors == {Pump} \cup Turns

VARIABLES
    status, generation,   \* _query_guard
    turns,                \* turns[g]: the command that started generation g
    queue,                \* message_queue_manager._command_queue, by priority
    outbox,               \* local_agent_task._pending_notifications
    unsent,               \* inputs not typed and notifications not posted yet
    accepted,             \* history: the inputs that went through the queue
    pc, task,             \* per actor: the await it is at, the command it works on
    looping,              \* the actors inside the loop of _process_queue_if_ready
    processing,           \* _queue_processing
    isStreaming,          \* _is_streaming
    abortEvent,           \* the generation of _active_abort_event; 0: None
    interrupted,          \* the generations whose abort event is set
    cancelled,            \* workers whose CancelledError is not delivered yet
    conversation,         \* _conversation: roles, and the commands they carry
    compacted             \* the /compact commands reported as done on the screen

guardVars == <<status, generation, turns>>
queueVars == <<queue, outbox, accepted>>
actorVars == <<pc, task, looping>>
historyVars == <<conversation, compacted>>
streamVars == <<isStreaming, abortEvent, interrupted>>
vars == <<guardVars, queueVars, unsent, actorVars, processing, streamVars,
          cancelled, historyVars>>

\* "mounting": _begin_prompt_turn before the user message is appended;
\* "mounted": after it; "slash": inside a slash command, before its effect;
\* "shown": after its effect; "failing": _stream_response's except clause;
\* "closing": its finally clause, after guard.end.
PCs == {"idle", "mounting", "mounted", "slash", "shown", "streaming",
        "failing", "closing", "done"}
\* The actor holds the guard: it has called try_start and not yet end.
TurnPCs == {"mounting", "mounted", "streaming", "failing"}

\* The commands whose text the history still carries.
Remembered(conv) == UNION {conv[i].about : i \in DOMAIN conv}

\* The types of the control state; what the queue and the history hold is told
\* by QueueInOrder and PromptInHistory.
TypeOK ==
    /\ status \in {"idle", "running"}
    /\ generation \in 0 .. MaxTurns
    /\ pc \in [Actors -> PCs]
    /\ looping \in SUBSET Actors
    /\ processing \in BOOLEAN
    /\ isStreaming \in BOOLEAN
    /\ abortEvent \in 0 .. MaxTurns
    /\ interrupted \in SUBSET Turns
    /\ cancelled \in SUBSET Turns

Init ==
    /\ status = "idle" /\ generation = 0 /\ turns = <<>>
    /\ queue = [next |-> <<>>, later |-> <<>>] /\ outbox = <<>> /\ accepted = <<>>
    /\ unsent = Commands
    /\ pc = [a \in Actors |-> "idle"]
    /\ task = [a \in Actors |-> NoCommand]
    /\ looping = {}
    /\ processing = FALSE
    /\ isStreaming = FALSE /\ abortEvent = 0 /\ interrupted = {}
    /\ cancelled = {}
    /\ conversation = <<>> /\ compacted = {}

-----------------------------------------------------------------------------
(* The guard and the queue, as their callers use them.                     *)

GuardActive == status # "idle"

WithPrompt(c) == Append(conversation, [role |-> "user", about |-> {c}])

\* try_start and _begin_prompt_turn on behalf of actor a, for command c, up to
\* the first await: the mount of the user message.  A notification is not shown,
\* so it is appended at once and the await is the one behind that.
BeginTurn(a, c) ==
    /\ generation < MaxTurns
    /\ status' = "running"
    /\ generation' = generation + 1
    /\ turns' = Append(turns, c)
    /\ pc' = [pc EXCEPT ![a] = IF c \in Notes THEN "mounted" ELSE "mounting"]
    /\ task' = [task EXCEPT ![a] = c]
    /\ conversation' = IF c \in Notes THEN WithPrompt(c) ELSE conversation

\* Inputs are queued as "next", notifications as "later", and nothing as "now":
\* whoever looks at the list looks at one priority at a time, so that it is kept
\* as two.  drain_pending_task_notifications empties the outbox into it.
Drained == [queue EXCEPT !.later = @ \o outbox]
NothingQueued(q) == q.next = <<>> /\ q.later = <<>>

\* peek/dequeue: the first command of the best priority.
NextCommand(q) == IF q.next # <<>> THEN Head(q.next) ELSE Head(q.later)
\* Mutant: the command is peeked at and stays in the queue.
Kept(q) == q
Dequeued(q) == IF q.next # <<>> THEN [q EXCEPT !.next = Tail(@)]
                                ELSE [q EXCEPT !.later = Tail(@)]

\* Mutant: the newest input comes first.
OnTop(q, c) == [q EXCEPT !.next = <<c>> \o @]
Enqueued(q, c) == [q EXCEPT !.next = Append(@, c)]

\* _handle_slash_command up to its first await.
BeginSlash(a, c, inLoop) ==
    /\ pc' = [pc EXCEPT ![a] = IF c \in Clears THEN "shown" ELSE "slash"]
    /\ task' = [task EXCEPT ![a] = c]
    /\ looping' = IF inLoop THEN looping \cup {a} ELSE looping
    /\ conversation' = IF c \in Clears THEN <<>> ELSE conversation
    /\ UNCHANGED guardVars

\* The actor's handler returns; a worker's coroutine ends.
Leave(a) ==
    /\ pc' = [pc EXCEPT ![a] = IF a = Pump THEN "idle" ELSE "done"]
    /\ task' = [task EXCEPT ![a] = NoCommand]
    /\ looping' = looping \ {a}

\* _process_queue_if_ready as actor a enters it, or comes back to its while
\* after a slash command, up to the next await or the return.
ProcessQueue(a) ==
    LET q == Drained
        c == NextCommand(q)
    IN  \/ /\ processing /\ a \notin looping
           /\ Leave(a)
           /\ UNCHANGED <<guardVars, queue, outbox, processing, conversation>>
        \/ /\ ~processing \/ a \in looping
           /\ GuardActive \/ NothingQueued(q)
           /\ processing' = FALSE
           /\ Leave(a)
           /\ UNCHANGED <<guardVars, queue, outbox, conversation>>
        \/ /\ ~processing \/ a \in looping
           /\ ~GuardActive /\ ~NothingQueued(q)
           /\ processing' = TRUE
           /\ outbox' = <<>>
           /\ queue' = Dequeued(q)
           /\ \/ /\ c \in Slashes
                 /\ BeginSlash(a, c, TRUE)
              \/ /\ c \notin Slashes
                 /\ BeginTurn(a, c)
                 /\ looping' = looping \cup {a}

-----------------------------------------------------------------------------
(* Handlers of the message pump.                                           *)

\* Mutant: on_input forgets that a turn is active.
NeverBusy == FALSE
Busy == GuardActive

\* on_input: queue the input behind the active turn, or act on it at once.
Submit(c) ==
    /\ pc[Pump] = "idle"
    /\ c \in unsent \cap Inputs
    /\ unsent' = unsent \ {c}
    /\ \/ /\ Busy
          /\ queue' = Enqueued(queue, c)
          /\ accepted' = Append(accepted, c)
          /\ UNCHANGED <<guardVars, actorVars, conversation>>
       \/ /\ ~Busy
          /\ c \in Prompts
          /\ BeginTurn(Pump, c)
          /\ UNCHANGED <<looping, queue, accepted>>
       \/ /\ ~Busy
          /\ c \in Slashes
          /\ BeginSlash(Pump, c, FALSE)
          /\ UNCHANGED <<queue, accepted>>
    /\ UNCHANGED <<outbox, processing, streamVars, cancelled, compacted>>

\* Mutant: Ctrl+C clears the flag and forgets the abort event.
AbortForgotten == interrupted
AbortSet == interrupted \cup ({abortEvent} \ {0})

\* on_key, Ctrl+C while a turn is shown as streaming.
CtrlC ==
    /\ pc[Pump] = "idle"
    /\ isStreaming
    /\ interrupted' = AbortSet
    /\ isStreaming' = FALSE
    /\ UNCHANGED <<guardVars, queueVars, unsent, actorVars, processing, abortEvent,
                   cancelled, historyVars>>

\* A background task posts its notification (enqueue_pending_notification).
Notify(n) ==
    /\ n \in unsent \cap Notes
    /\ unsent' = unsent \ {n}
    /\ outbox' = Append(outbox, n)
    /\ UNCHANGED <<guardVars, queue, accepted, actorVars, processing, streamVars,
                   cancelled, historyVars>>

-----------------------------------------------------------------------------
(* _begin_prompt_turn and the slash commands, in whichever actor runs them. *)
(* A worker with a CancelledError pending takes none of these steps.       *)

Resumes(a, at) == pc[a] = at /\ a \notin cancelled

AppendPrompt(a) ==
    /\ Resumes(a, "mounting")
    /\ conversation' = WithPrompt(task[a])
    /\ pc' = [pc EXCEPT ![a] = "mounted"]
    /\ UNCHANGED <<guardVars, queueVars, unsent, task, looping, processing,
                   streamVars, cancelled, compacted>>

\* The workers that starting an exclusive worker cancels: all that still run.
LiveWorkers == {g \in Turns : pc[g] \notin {"idle", "done"}}

\* The end of _begin_prompt_turn.  The exclusive worker of the new turn cancels
\* every other one; an actor that cancels itself has no await left and ends.
StartWorker(a) ==
    /\ Resumes(a, "mounted")
    /\ abortEvent' = generation
    /\ isStreaming' = TRUE
    /\ pc' = [pc EXCEPT ![a] = IF a = Pump THEN "idle" ELSE "done",
                        ![generation] = "streaming"]
    /\ task' = [task EXCEPT ![a] = NoCommand, ![generation] = turns[generation]]
    /\ looping' = looping \ {a}
    /\ processing' = (processing /\ a \notin looping)
    /\ cancelled' = cancelled \cup (LiveWorkers \ {a})
    /\ UNCHANGED <<guardVars, queueVars, unsent, interrupted, historyVars>>

\* A skill has its prompt: it starts a turn, unless one is running by now; the
\* False that _begin_prompt_turn then returns is ignored and the text is gone.
SkillReturns(a) ==
    /\ Resumes(a, "slash")
    /\ task[a] \in Skills
    /\ \/ /\ ~GuardActive
          /\ BeginTurn(a, task[a])
          /\ UNCHANGED <<looping, processing>>
       \/ /\ GuardActive
          /\ Leave(a)
          /\ processing' = (processing /\ a \notin looping)
          /\ UNCHANGED <<guardVars, conversation>>
    /\ UNCHANGED <<queueVars, unsent, streamVars, cancelled, compacted>>

\* /compact has its summary, or failed to get one.  CompactCommand.execute puts
\* the new messages in the result it returns; the screen shows the result's text
\* and leaves the history as it is.
CompactReturns(a) ==
    /\ Resumes(a, "slash")
    /\ task[a] \in Compactions
    /\ \/ compacted' = compacted \cup {task[a]}
       \/ UNCHANGED compacted
    /\ pc' = [pc EXCEPT ![a] = "shown"]
    /\ UNCHANGED <<guardVars, queueVars, unsent, task, looping, processing,
                   streamVars, cancelled, conversation>>

\* The slash command's output is mounted; the queue is next.
SlashReturns(a) ==
    /\ Resumes(a, "shown")
    /\ ProcessQueue(a)
    /\ UNCHANGED <<unsent, accepted, streamVars, cancelled, compacted>>

-----------------------------------------------------------------------------
(* _stream_response of generation g.                                       *)

\* The engine hands notifications to the running turn between two requests:
\* the reply with the tool calls and their results are in the history by then.
DrainMidTurn(g) ==
    LET notes == Drained.later
        asUser == [i \in DOMAIN notes |-> [role |-> "user", about |-> {notes[i]}]]
    IN  /\ Resumes(g, "streaming")
        /\ isStreaming
        /\ notes # <<>>
        /\ queue' = [queue EXCEPT !.later = <<>>]
        /\ outbox' = <<>>
        /\ conversation' = conversation
                             \o << [role |-> "assistant", about |-> {}] >> \o asUser
        /\ UNCHANGED <<guardVars, accepted, unsent, actorVars, processing, streamVars,
                       cancelled, compacted>>

\* CancelledError reaches a suspended coroutine on the next pass of the loop,
\* long before a new request can be answered.
CancellationsDelivered == cancelled = {}

\* Mutant: the finally clause clears the flag but forgets guard.end.
EndIgnored(g) == FALSE
EndReleases(g) == generation = g /\ status = "running"

\* The finally clause, up to its first await.
EndTurn(g) ==
    /\ isStreaming' = FALSE
    /\ abortEvent' = 0
    /\ status' = IF EndReleases(g) THEN "idle" ELSE status
    /\ pc' = [pc EXCEPT ![g] = "closing"]
    /\ task' = [task EXCEPT ![g] = NoCommand]
    /\ UNCHANGED <<generation, turns, queueVars, unsent, looping, processing,
                   interrupted, cancelled, compacted>>

\* The turn ends: with a reply in the history if it was never interrupted;
\* without one when the screen sees the cleared flag at the next event and
\* stops reading, or when the request failed.
TurnEnds(g) ==
    /\ Resumes(g, "streaming")
    /\ CancellationsDelivered
    /\ \/ /\ isStreaming
          /\ conversation' = Append(conversation, [role |-> "assistant", about |-> {}])
       \/ UNCHANGED conversation
    /\ EndTurn(g)

\* An exception escapes the engine's loop; the except clause mounts an error.
TurnFails(g) ==
    /\ Resumes(g, "streaming")
    /\ CancellationsDelivered
    /\ pc' = [pc EXCEPT ![g] = "failing"]
    /\ UNCHANGED <<guardVars, queueVars, unsent, task, looping, processing,
                   streamVars, cancelled, historyVars>>

\* A trailing user message is removed, whichever that is.
DropTrailingUser(conv) ==
    IF conv # <<>> /\ conv[Len(conv)].role = "user"
    THEN SubSeq(conv, 1, Len(conv) - 1)
    ELSE conv

\* The error is on the screen; the except clause repairs the history.
FailureShown(g) ==
    /\ Resumes(g, "failing")
    /\ conversation' = DropTrailingUser(conversation)
    /\ EndTurn(g)

\* The finally clause runs the queue after its last await.
TurnCloses(g) ==
    /\ Resumes(g, "closing")
    /\ ProcessQueue(g)
    /\ UNCHANGED <<unsent, accepted, streamVars, cancelled, compacted>>

FlagAfterUnwind(g) == processing /\ g \notin looping

\* CancelledError is raised at the await of worker g and ends it; the finally
\* clause of _process_queue_if_ready resets the flag on the way out.
Unwind(g) ==
    /\ g \in cancelled
    /\ processing' = FlagAfterUnwind(g)
    /\ cancelled' = cancelled \ {g}
    /\ Leave(g)
    /\ UNCHANGED <<guardVars, queueVars, unsent, streamVars, historyVars>>

-----------------------------------------------------------------------------
ActorStep(a) ==
    \/ AppendPrompt(a)
    \/ StartWorker(a)
    \/ SkillReturns(a)
    \/ CompactReturns(a)
    \/ SlashReturns(a)

WorkerStep(g) ==
    \/ TurnEnds(g)
    \/ TurnFails(g)
    \/ FailureShown(g)
    \/ TurnCloses(g)
    \/ Unwind(g)

UserStep ==
    \/ \E c \in Inputs : Submit(c)
    \/ CtrlC

Next ==
    \/ UserStep
    \/ \E n \in Notes : Notify(n)
    \/ \E a \in Actors : ActorStep(a)
    \/ \E g \in Turns : DrainMidTurn(g) \/ WorkerStep(g)

Spec == Init /\ [][Next]_vars

\* The user and the background tasks owe nothing.  A suspended coroutine is
\* resumed: mounts complete, the model answers or fails, a dialog is answered.
Fairness ==
    /\ \A a \in Actors : WF_vars(ActorStep(a))
    /\ \A g \in Turns : WF_vars(WorkerStep(g))

FairSpec == Spec /\ Fairness

-----------------------------------------------------------------------------
(* Safety.                                                                 *)

\* One turn at a time: an actor that is opening, streaming or failing a turn
\* works for the generation the guard is running, and it is the only one.
Holders == {a \in Actors : pc[a] \in TurnPCs}

SingleTurn ==
    /\ \A a, b \in Holders : a = b
    /\ \A g \in Turns : pc[g] \in {"streaming", "failing"} =>
          status = "running" /\ generation = g

\* The guard never leaks: while it is running some coroutine will end it.
GuardHasHolder == status = "running" => Holders # {}

\* Starting an exclusive worker cancels every other worker, but it never hits
\* one that holds the guard: its generation would never be ended.
CancelSparesTurns == \A g \in cancelled : pc[g] \notin TurnPCs

\* The guard and the exclusive workers together: what keeps query_guard and the
\* WorkerManager, which know nothing of each other, from losing a turn.
TurnDiscipline == SingleTurn /\ GuardHasHolder /\ CancelSparesTurns

\* Ctrl+C reaches the running turn: until it is interrupted, the shared flag
\* and the shared abort event are its own.  Once interrupted it stays so: no
\* later turn's use of the shared flag makes it read on.
InterruptReachesTurn ==
    \A g \in Turns : pc[g] = "streaming" =>
        IF g \in interrupted THEN ~isStreaming ELSE isStreaming /\ abortEvent = g

\* The re-entrancy flag is set exactly while one actor is inside the loop of
\* _process_queue_if_ready: a cancelled worker does not take it to its grave.
QueueFlagOwned ==
    /\ processing <=> looping # {}
    /\ \A a, b \in looping : a = b

\* The inputs that wait are the last ones that were queued, in that order:
\* the queue serves them first in, first out, and loses or repeats none.
QueueInOrder ==
    LET waiting == queue.next
    IN  /\ Len(waiting) <= Len(accepted)
        /\ waiting = SubSeq(accepted, Len(accepted) - Len(waiting) + 1, Len(accepted))

\* A turn streams only with its own prompt in the history: the engine is never
\* asked to answer a history whose question has been taken out.
PromptInHistory ==
    \A g \in Turns : pc[g] = "streaming" => turns[g] \in Remembered(conversation)

-----------------------------------------------------------------------------
(* Liveness, under FairSpec.                                               *)

InTurn(c) == \E g \in DOMAIN turns : turns[g] = c

\* A prompt that was typed gets its turn: at once, or after the turns, the
\* slash commands and the cancelled workers that were ahead of it.
PromptsAnswered == \A c \in Prompts : (c \notin unsent) ~> InTurn(c)

\* A turn that was interrupted ends, and gives the guard back.
InterruptedTurnsEnd ==
    \A g \in Turns : (g \in interrupted) ~> (status = "idle" \/ generation > g)

-----------------------------------------------------------------------------
(* What the source says and the code does not do.                          *)

\* _handle_slash_command: "Skill found - render the user's slash command, then
\* send the skill prompt content as a user message so the model acts on it".
\* A skill command that has begun ends in a turn of its own.
SkillGetsTurn ==
    [][\A a \in Actors : pc[a] = "slash" /\ task[a] \in Skills =>
          task'[a] = task[a]]_vars
=============================================================================
