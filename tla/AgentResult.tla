---------------------------- MODULE AgentResult ----------------------------
(***************************************************************************)
(* What a sub-agent's run comes to: the events of its loop as messages     *)
(* (run_agent.py), and from these its answer, its progress and its last    *)
(* words (agent_tool_utils.py, local_agent_task.py).                       *)
(*                                                                         *)
(* Pure operators over sequences of events.  An event has a type and a     *)
(* content: a text, empty or not, the name of a tool, or nothing.          *)
(***************************************************************************)
EXTENDS Naturals, Sequences, FiniteSets, SequencesExt, Selections

Event(type, content) == [type |-> type, content |-> content]
Empty == ""
NoBlock == Event("none", Empty)
MaxRecent == 5

-----------------------------------------------------------------------------
(* run_agent.                                                              *)

\* _event_to_content: what has no content becomes an empty text.
EventToContent(event) ==
    IF event.type \in {"text", "thinking"} /\ event.content = Empty THEN Event("text", Empty) ELSE event

Message(type, block) == [type |-> type, block |-> block]
MessageOf(event) ==
    CASE event.type \in {"text", "tool_use", "tool_result", "thinking"} ->
             <<Message("assistant", EventToContent(event))>>
      [] event.type \in {"error", "raised"} -> <<Message("error", NoBlock)>>
      [] event.type = "result" -> <<Message("result", NoBlock)>>
      [] event.type \in {"usage", "stop"} -> <<>>

\* The messages of a run whose abort event is set before the event of that number:
\* they end there, or with an exception of the loop.
RunAgent(events, abort) ==
    FlattenSeq([i \in 1 .. abort - 1 |-> MessageOf(events[i])])

-----------------------------------------------------------------------------
(* finalize_agent_tool and its kin.                                        *)

Assistants(messages) == {i \in DOMAIN messages : messages[i].type = "assistant"}
Texts(messages) == {i \in Assistants(messages) : messages[i].block.type = "text"}
Uses(messages) == {i \in Assistants(messages) : messages[i].block.type = "tool_use"}
Greatest(S) == CHOOSE i \in S : \A j \in S : j <= i

\* count_tool_uses
CountToolUses(messages) == Cardinality(Uses(messages))

\* finalize_agent_tool: the text of the last assistant message that has one; without
\* an assistant message it raises a RuntimeError.
FinalizeAgentTool(messages) ==
    IF Assistants(messages) = {} THEN [status |-> "failed", content |-> <<>>, uses |-> 0]
    ELSE [status |-> "completed", uses |-> CountToolUses(messages),
          content |-> IF Texts(messages) = {} THEN <<>>
                      ELSE <<messages[Greatest(Texts(messages))].block.content>>]

\* extract_partial_result, for an agent that was killed.
ExtractPartialResult(messages) ==
    LET spoken == {i \in Texts(messages) : messages[i].block.content # Empty}
    IN  IF spoken = {} THEN Empty ELSE messages[Greatest(spoken)].block.content

\* get_last_tool_use_name
LastToolUseName(message) ==
    IF message.type = "assistant" /\ message.block.type = "tool_use" THEN message.block.content ELSE Empty

-----------------------------------------------------------------------------
(* Progress.                                                               *)

NoProgress == [uses |-> 0, recent |-> <<>>]

\* update_progress_from_message: the oldest activities go.
UpdateProgress(tracker, message) ==
    IF LastToolUseName(message) = Empty THEN tracker
    ELSE LET recent == Append(tracker.recent, message.block.content)
         IN  [uses |-> tracker.uses + 1,
              recent |-> SubSeq(recent, Len(recent) - (IF Len(recent) < MaxRecent THEN Len(recent)
                                                       ELSE MaxRecent) + 1, Len(recent))]

\* get_progress_update, once all messages have come.
Progress(messages) == FoldLeft(UpdateProgress, NoProgress, messages)

-----------------------------------------------------------------------------
(* Properties of one input.                                                *)

\* The answer of an agent is the last text that came in time, and one that was cut
\* off by the end of its turns or of its connection keeps what it had said.  What
\* is reported of the tools agrees with the progress shown meanwhile, whose last
\* activities are the last calls; nothing behind the abort counts.
AnswersAreOfTheRun(events, abort) ==
    LET messages == RunAgent(events, abort)
        done == FinalizeAgentTool(messages)
        heard == SubSeq(events, 1, abort - 1)
        calls == Selected(heard, LAMBDA e : e.type = "tool_use")
        texts == Selected(heard, LAMBDA e : e.type = "text" /\ e.content # Empty)
        blank == \E e \in ToSet(heard) : e.type \in {"text", "thinking"} /\ e.content = Empty
        progress == Progress(messages)
    IN  /\ ExtractPartialResult(messages) = (IF texts = <<>> THEN Empty ELSE Last(texts).content)
        /\ done.status = "completed" /\ ~blank =>
               done.content = (IF texts = <<>> THEN <<>> ELSE <<Last(texts).content>>)
        /\ texts # <<>> => done.status = "completed" /\ done.content # <<>>
        /\ done.status = "completed" => done.uses = Len(calls) /\ progress.uses = done.uses
        /\ IsSuffix(progress.recent, [i \in DOMAIN calls |-> calls[i].content])
        /\ Len(progress.recent) = (IF Len(calls) < MaxRecent THEN Len(calls) ELSE MaxRecent)
=============================================================================
