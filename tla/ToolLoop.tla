------------------------------ MODULE ToolLoop -------------------------------
(***************************************************************************)
(* The agentic loop of one conversation: QueryEngine.query and             *)
(* query_with_tool_loop (query/engine.py) with the message builders, and   *)
(* the way _stream_response of the chat screen drives them.                *)
(*                                                                         *)
(* The loop is an async generator.  It is suspended at its awaits (the     *)
(* stream, the permission check, the dialog, the tool) and at each yield,  *)
(* where the reader of its events runs; pc names the suspension.  At a     *)
(* yield the reader may stop reading: the generator is then dropped and    *)
(* nothing after that yield happens.  Ctrl+C can come at any suspension.   *)
(*                                                                         *)
(* Two readers drive it.  The screen gives its engine the permission       *)
(* context and a handler, the dialog.  run_agent gives the engine of a     *)
(* sub-agent neither: its context is empty, so that every call is to be    *)
(* asked about, and the default handler (interactive_permission_check)     *)
(* names a variable that does not exist once it has the answer.            *)
(***************************************************************************)
EXTENDS Naturals, Sequences, FiniteSets

CONSTANTS MaxPrompts,     \* bound: turns of the user
          MaxLoops,       \* max_turns: requests per turn of the user
          MaxUses,        \* bound: tool calls the model asks for
          MaxNotes        \* bound: task notifications

ASSUME ToolLoopAssumption ==
    /\ MaxPrompts \in Nat /\ MaxUses \in Nat /\ MaxNotes \in Nat
    /\ MaxLoops \in Nat \ {0}

VARIABLES
    reader,       \* who reads the events, see Readers
    messages,     \* the conversation, shared with the reader
    pc,           \* where the generator is suspended
    loops,        \* turn_count
    uses,         \* tool_use_blocks of this reply, by id
    spoke,        \* assistant_blocks holds a text or thinking block
    stopReason,
    results,      \* tool_results of this reply, by tool_call_id
    abort,        \* abort_event.is_set()
    listening,    \* the reader still reads (_is_streaming)
    queue,        \* how many notifications and prompts are queued
    issued,       \* history: tool ids the model has handed out, 1 .. issued
    started,      \* history: the tools of this turn whose executor was called
    late,         \* history: those called after Ctrl+C
    prompts,      \* history: the user's turns
    posted,       \* history: notifications posted
    clean         \* history: the conversation was paired when the turn began

replyVars == <<uses, spoke, stopReason, results>>
envVars == <<reader, abort, listening, prompts, clean>>
toolVars == <<started, late>>
queueVars == <<queue, posted>>
vars == <<messages, pc, loops, replyVars, envVars, issued, toolVars, queueVars>>

\* The chat screen, and run_agent, which collects what a sub-agent says.  Both stop
\* reading at the first event after an interrupt.
Readers == {"screen", "collector"}

\* "head": at the while; "streamed": the reply is complete; "tools": before the
\* next block; "reporting": about to yield the results; "recording": they are
\* yielded; "finish": out of the loop.
PCs == {"idle", "head", "stream", "streamed", "tools", "deciding", "asking",
        "executing", "reporting", "recording", "finish"}
StopReasons == {"end_turn", "tool_use", "max_tokens", "aborted", "aborted_streaming"}

\* build_user_message, build_assistant_message, build_tool_result_message.
UserText == [role |-> "user", uses |-> <<>>, answers |-> <<>>]
Assistant(ids) == [role |-> "assistant", uses |-> ids, answers |-> <<>>]
ToolResults(ids) == [role |-> "user", uses |-> <<>>, answers |-> ids]

\* Every tool call of a conversation is answered by the very next message.
Paired(conv) ==
    \A i \in DOMAIN conv : conv[i].uses # <<>> =>
        i < Len(conv) /\ conv[i + 1].answers = conv[i].uses

TypeOK ==
    /\ messages \in Seq([role : {"user", "assistant"}, uses : Seq(1 .. MaxUses),
                         answers : Seq(1 .. MaxUses)])
    /\ reader \in Readers
    /\ pc \in PCs
    /\ loops \in 0 .. MaxLoops
    /\ uses \in Seq(1 .. issued) /\ results \in Seq(1 .. issued)
    /\ spoke \in BOOLEAN /\ abort \in BOOLEAN
    /\ listening \in BOOLEAN /\ clean \in BOOLEAN
    /\ stopReason \in StopReasons
    /\ queue \in [note : 0 .. MaxNotes, prompt : {0, 1}] /\ queue.note <= posted
    /\ issued \in 0 .. MaxUses
    /\ late \subseteq started /\ started \subseteq 1 .. issued
    /\ prompts \in 0 .. MaxPrompts /\ posted \in 0 .. MaxNotes

Init ==
    /\ reader \in Readers
    /\ messages = <<>> /\ pc = "idle" /\ loops = 0
    /\ uses = <<>> /\ spoke = FALSE /\ stopReason = "end_turn" /\ results = <<>>
    /\ abort = FALSE /\ listening = FALSE /\ prompts = 0 /\ clean = TRUE
    /\ issued = 0 /\ started = {} /\ late = {}
    /\ queue = [note |-> 0, prompt |-> 0] /\ posted = 0

-----------------------------------------------------------------------------
(* The user, the screen and the background tasks.                          *)

\* _begin_prompt_turn and the first lines of the loop (normalize_messages finds
\* nothing to drop in what the program itself builds).  A sub-agent has one prompt.
Ask ==
    /\ pc = "idle" /\ prompts < MaxPrompts
    /\ reader = "collector" => prompts = 0
    /\ messages' = Append(messages, UserText)
    /\ clean' = Paired(messages)
    /\ pc' = "head"
    /\ loops' = 0
    /\ stopReason' = "end_turn"
    /\ abort' = FALSE /\ listening' = TRUE
    /\ prompts' = prompts + 1
    /\ started' = {} /\ late' = {}
    /\ UNCHANGED <<reader, uses, spoke, results, issued, queueVars>>

\* Ctrl+C sets the abort event and clears the streaming flag.  The event that stops
\* a sub-agent is looked at by run_agent only; the loop is not given it.
Interrupt ==
    /\ pc # "idle" /\ listening
    /\ abort' = (abort \/ reader = "screen")
    /\ listening' = FALSE
    /\ UNCHANGED <<reader, messages, pc, loops, replyVars, prompts, clean, issued,
                   toolVars, queueVars>>

PostNote ==
    /\ posted < MaxNotes
    /\ posted' = posted + 1
    /\ queue' = [queue EXCEPT !.note = @ + 1]
    /\ UNCHANGED <<messages, pc, loops, replyVars, envVars, issued, toolVars>>

\* A prompt typed while the turn runs; one is enough to tell it from a note.
QueuePrompt ==
    /\ pc # "idle" /\ queue.prompt = 0
    /\ queue' = [queue EXCEPT !.prompt = 1]
    /\ UNCHANGED <<messages, pc, loops, replyVars, envVars, issued, toolVars, posted>>

\* An event is yielded.  The reader takes it and the generator goes on at next,
\* or the reader has stopped reading.
Yield(next) == pc' = IF listening THEN next ELSE "idle"

-----------------------------------------------------------------------------
(* One request: the head of the while, and query over parse_stream.        *)

OutOfLoops == loops >= MaxLoops

BeginRequest ==
    /\ pc = "head"
    /\ \/ /\ OutOfLoops
          /\ pc' = "finish"
          /\ UNCHANGED <<loops, replyVars>>
       \/ /\ ~OutOfLoops /\ abort
          /\ stopReason' = "aborted"
          /\ pc' = "finish"
          /\ UNCHANGED <<loops, uses, spoke, results>>
       \/ /\ ~OutOfLoops /\ ~abort
          /\ loops' = loops + 1
          /\ stopReason' = "end_turn"
          /\ uses' = <<>> /\ spoke' = FALSE /\ results' = <<>>
          /\ pc' = "stream"
    /\ UNCHANGED <<messages, envVars, issued, toolVars, queueVars>>

\* A text or thinking block.
StreamText ==
    /\ pc = "stream" /\ ~abort /\ ~spoke
    /\ Yield("stream")
    /\ spoke' = listening
    /\ UNCHANGED <<messages, loops, uses, stopReason, results, envVars, issued,
                   toolVars, queueVars>>

StreamToolUse ==
    /\ pc = "stream" /\ ~abort /\ issued < MaxUses
    /\ Yield("stream")
    /\ issued' = issued + 1
    /\ uses' = Append(uses, issued + 1)
    /\ UNCHANGED <<messages, loops, spoke, stopReason, results, envVars, toolVars,
                   queueVars>>

\* The reply is complete.  The model stops for its tool calls, without any, or
\* at the token limit wherever it is.
StreamStop ==
    /\ pc = "stream" /\ ~abort
    /\ \E reason \in {"end_turn", "tool_use", "max_tokens"} :
          /\ reason = "tool_use" => uses # <<>>
          /\ reason = "end_turn" => uses = <<>>
          /\ stopReason' = reason
    /\ Yield("streamed")
    /\ UNCHANGED <<messages, loops, uses, spoke, results, envVars, issued, toolVars,
                   queueVars>>

\* The next event finds the abort event set; query yields a stop of its own.
StreamAborted ==
    /\ pc = "stream" /\ abort
    /\ stopReason' = IF listening THEN "aborted_streaming" ELSE stopReason
    /\ Yield("streamed")
    /\ UNCHANGED <<messages, loops, uses, spoke, results, envVars, issued, toolVars,
                   queueVars>>

\* The request or the stream fails: query yields an error and ends, and the
\* stop reason stays what it was.
StreamFails ==
    /\ pc = "stream"
    /\ Yield("streamed")
    /\ UNCHANGED <<messages, loops, replyVars, envVars, issued, toolVars, queueVars>>

\* After the async for: keep the reply; go on only if it asks for tools.
AppendReply ==
    /\ pc = "streamed"
    /\ messages' = IF uses # <<>> \/ spoke
                   THEN Append(messages, Assistant(uses)) ELSE messages
    /\ pc' = IF stopReason = "tool_use" /\ uses # <<>> THEN "tools" ELSE "finish"
    /\ UNCHANGED <<loops, replyVars, envVars, issued, toolVars, queueVars>>

-----------------------------------------------------------------------------
(* The tools of one reply.                                                 *)

\* Mutant: only the head of the loop looks at the abort event.
AbortLate == FALSE
AbortBetweenTools == abort

NextTool ==
    /\ pc = "tools"
    /\ \/ /\ Len(results) = Len(uses)
          /\ pc' = "reporting"
          /\ UNCHANGED stopReason
       \/ /\ Len(results) < Len(uses) /\ AbortBetweenTools
          /\ stopReason' = "aborted"
          /\ pc' = "reporting"
       \/ /\ Len(results) < Len(uses) /\ ~AbortBetweenTools
          /\ pc' = "deciding"
          /\ UNCHANGED stopReason
    /\ UNCHANGED <<messages, loops, uses, spoke, results, envVars, issued, toolVars,
                   queueVars>>

Current == uses[Len(results) + 1]

\* Mutant: a refused call is tried again.
TriedAgain(id) == results
Answered(id) == Append(results, id)

\* With an empty context the pipeline neither allows nor denies.
HasHandler == reader = "screen"

\* The pipeline or the user refuses the call.
DenyTool ==
    /\ pc \in {"deciding", "asking"} /\ HasHandler
    /\ results' = Answered(Current)
    /\ Yield("tools")
    /\ UNCHANGED <<messages, loops, uses, spoke, stopReason, envVars, issued, toolVars,
                   queueVars>>

AskUser ==
    /\ pc = "deciding"
    /\ pc' = "asking"
    /\ UNCHANGED <<messages, loops, replyVars, envVars, issued, toolVars, queueVars>>

\* The call is allowed; the executor is awaited.  The abort event is not looked
\* at again after the check and the dialog.
StartTool ==
    /\ pc \in {"deciding", "asking"} /\ HasHandler
    /\ started' = started \cup {Current}
    /\ late' = IF abort THEN late \cup {Current} ELSE late
    /\ pc' = "executing"
    /\ UNCHANGED <<messages, loops, replyVars, envVars, issued, queueVars>>

\* The executor returns, or raises: the error is the result, and an event.
ToolReturns ==
    /\ pc = "executing"
    /\ results' = Append(results, Current)
    /\ pc' = "tools" \/ Yield("tools")
    /\ UNCHANGED <<messages, loops, uses, spoke, stopReason, envVars, issued, toolVars,
                   queueVars>>

\* The results are yielded, one event each.
ReportResults ==
    /\ pc = "reporting"
    /\ IF results = <<>> THEN pc' = "recording" ELSE Yield("recording")
    /\ UNCHANGED <<messages, loops, replyVars, envVars, issued, toolVars, queueVars>>

\* _drain_mid_turn_commands: prompts stay queued.
Notes == [i \in 1 .. queue.note |-> UserText]

\* Mutant: the last result stands for all.
LastAnswer == <<ToolResults(<<results[Len(results)]>>)>>
Answer == IF results = <<>> THEN <<>> ELSE <<ToolResults(results)>>

\* Mutant: the notifications go in before the results.
NotesFirst(notes, answer) == notes \o answer
AfterTools(notes, answer) == answer \o notes

\* The results become one message, with the messages a tool injects behind it;
\* then, unless the turn was aborted, the queued notifications.
RecordResults ==
    /\ pc = "recording"
    /\ \E injected \in {<<>>, <<UserText>>} :
          LET answer == IF results = <<>> THEN <<>> ELSE Answer \o injected
          IN  IF stopReason = "aborted"
              THEN /\ messages' = messages \o answer
                   /\ pc' = "finish"
                   /\ UNCHANGED queue
              ELSE /\ messages' = messages \o AfterTools(Notes, answer)
                   /\ pc' = "head"
                   /\ queue' = [queue EXCEPT !.note = 0]
    /\ UNCHANGED <<loops, replyVars, envVars, issued, toolVars, posted>>

\* The final result event; the generator is exhausted.
Finish ==
    /\ pc = "finish"
    /\ pc' = "idle"
    /\ UNCHANGED <<messages, loops, replyVars, envVars, issued, toolVars, queueVars>>

\* The last thing the generator did was to hand over an event (a tool that returned
\* without one is not told from one that failed with one).
AtEvent ==
    \/ pc = "stream" /\ (spoke \/ uses # <<>>)
    \/ pc = "streamed"
    \/ pc \in {"tools", "recording"} /\ results # <<>>

\* The permission handler raises through the generator, or the reader raises at
\* an event; the screen's except clause removes a trailing user message.  The default
\* handler raises whatever the answer was; run_agent reports the error and is done.
TurnRaises ==
    /\ \/ /\ reader = "screen"
          /\ AtEvent \/ pc = "asking"
          /\ messages' = IF messages[Len(messages)].role = "user"
                         THEN SubSeq(messages, 1, Len(messages) - 1) ELSE messages
       \/ /\ ~HasHandler
          /\ pc = "asking"
          /\ UNCHANGED messages
    /\ pc' = "idle"
    /\ UNCHANGED <<loops, replyVars, envVars, issued, toolVars, queueVars>>

-----------------------------------------------------------------------------
StreamStep == StreamText \/ StreamToolUse \/ StreamStop \/ StreamAborted \/ StreamFails
ToolStep == NextTool \/ DenyTool \/ AskUser \/ StartTool \/ ToolReturns
EngineStep ==
    \/ BeginRequest
    \/ StreamStep
    \/ AppendReply
    \/ ToolStep
    \/ ReportResults
    \/ RecordResults
    \/ Finish
    \/ TurnRaises

Next == Ask \/ Interrupt \/ PostNote \/ QueuePrompt \/ EngineStep

Spec == Init /\ [][Next]_vars

\* The generator is driven as long as it is read: the model answers, tools and
\* dialogs return.  The user and the background tasks owe nothing.
FairSpec == Spec /\ WF_vars(EngineStep)

-----------------------------------------------------------------------------
(* Safety.                                                                 *)

\* A result message stands right behind the reply that asked for it, and answers
\* its calls in their order, each once; after an interrupt it may stop early.
ResultsMatchUses ==
    \A i \in DOMAIN messages : messages[i].answers # <<>> =>
        LET asked == messages[i - 1].uses
            given == messages[i].answers
        IN  /\ i > 1
            /\ Len(given) <= Len(asked)
            /\ \A k \in DOMAIN given : given[k] = asked[k]

\* Results stay with their calls, and within a turn that began on a paired
\* conversation every request is paired: refusals, failing tools, notifications
\* and injected messages keep it so.
TurnKeepsPairing ==
    /\ ResultsMatchUses
    /\ pc = "stream" /\ clean => Paired(messages)

\* At most one tool starts after Ctrl+C: the one whose permission check or
\* dialog was under way.
OneToolAfterInterrupt == Cardinality(late) <= 1

\* A tool that ran is answered in the conversation by the next request of the turn
\* and by its end, whatever was refused, failed or injected besides.  (A turn that is
\* given up, because its reader stopped reading or something raised, does not get
\* that far, and what its last tools returned is lost.)
ExecutedIsRecorded ==
    pc \in {"head", "stream", "streamed", "finish"} =>
        \A id \in started : \E i \in DOMAIN messages :
            \E k \in DOMAIN messages[i].answers : messages[i].answers[k] = id

-----------------------------------------------------------------------------
(* Liveness, under FairSpec.                                               *)

\* A turn comes to its end, whatever the model asks for and the user refuses.
TurnReturns == pc # "idle" ~> pc = "idle"

=============================================================================
