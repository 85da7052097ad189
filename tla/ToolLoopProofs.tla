--------------------------- MODULE ToolLoopProofs ----------------------------
(***************************************************************************)
(* The agentic loop, for every bound, reader and model: its types, that a  *)
(* turn keeps calls and results paired (TurnKeepsPairing), that at most    *)
(* one tool starts after Ctrl+C (OneToolAfterInterrupt), and that a tool   *)
(* that was run is answered (ExecutedIsRecorded).  Below it, the           *)
(* permission context that decides about its calls.                        *)
(***************************************************************************)
EXTENDS ToolLoop, Permissions, FiniteSetTheorems, SequenceTheorems, TLAPS

USE ToolLoopAssumption

-----------------------------------------------------------------------------
(* OneToolAfterInterrupt is not inductive as it stands: nothing in it says *)
(* why a second tool cannot be started.  The invariant adds that a tool    *)
(* that started late did so under a set abort event, and that the loop is  *)
(* then past the places from which another one could start.                *)

\* Where the loop can be once a tool has started late in this turn.
PastStart == {"executing", "tools", "reporting", "recording", "head", "finish", "idle"}

LateInv ==
    /\ late = {} \/ \E id : late = {id}
    /\ late # {} => abort /\ pc \in PastStart

\* Before any turn no tool has started.
LEMMA InitLate == Init => LateInv
  BY DEF Init, LateInv

\* Every step keeps the invariant.
LEMMA NextLate == LateInv /\ [Next]_vars => LateInv'
<1> SUFFICES ASSUME LateInv, [Next]_vars PROVE LateInv'
  OBVIOUS
<1> USE DEF Yield, PastStart
<1>1. CASE Ask
  BY <1>1 DEF Ask, LateInv
<1>2. CASE Interrupt
  BY <1>2 DEF Interrupt, toolVars, LateInv
<1>3. CASE PostNote
  BY <1>3 DEF PostNote, toolVars, envVars, LateInv
<1>4. CASE QueuePrompt
  BY <1>4 DEF QueuePrompt, toolVars, envVars, LateInv
<1>5. CASE BeginRequest
  BY <1>5 DEF BeginRequest, toolVars, envVars, LateInv
<1>6. CASE StreamStep
  BY <1>6 DEF StreamStep, StreamText, StreamToolUse, StreamStop, StreamAborted,
              StreamFails, toolVars, envVars, LateInv
<1>7. CASE AppendReply
  BY <1>7 DEF AppendReply, toolVars, envVars, LateInv
<1>8. CASE ToolStep
  <2>1. CASE NextTool
    BY <2>1 DEF NextTool, AbortBetweenTools, toolVars, envVars, LateInv
  <2>2. CASE DenyTool
    BY <2>2 DEF DenyTool, toolVars, envVars, LateInv
  <2>3. CASE AskUser
    BY <2>3 DEF AskUser, toolVars, envVars, LateInv
  <2>4. CASE StartTool
    <3>1. late = {} /\ pc' = "executing" /\ abort' = abort
      BY <2>4 DEF StartTool, envVars, LateInv
    <3>2. late' = {} \/ (abort /\ late' = {Current})
      BY <2>4, <3>1 DEF StartTool
    <3> QED
      BY <3>1, <3>2 DEF LateInv
  <2>5. CASE ToolReturns
    BY <2>5 DEF ToolReturns, toolVars, envVars, LateInv
  <2> QED
    BY <1>8, <2>1, <2>2, <2>3, <2>4, <2>5 DEF ToolStep
<1>9. CASE ReportResults
  BY <1>9 DEF ReportResults, toolVars, envVars, LateInv
<1>10. CASE RecordResults
  <2>1. pc' \in {"finish", "head"} /\ late' = late /\ abort' = abort
    BY <1>10 DEF RecordResults, toolVars, envVars
  <2> QED
    BY <2>1 DEF LateInv
<1>11. CASE Finish
  BY <1>11 DEF Finish, toolVars, envVars, LateInv
<1>12. CASE TurnRaises
  BY <1>12 DEF TurnRaises, toolVars, envVars, LateInv
<1>13. CASE UNCHANGED vars
  BY <1>13 DEF vars, toolVars, envVars, LateInv
<1> QED
  BY <1>1, <1>2, <1>3, <1>4, <1>5, <1>6, <1>7, <1>8, <1>9, <1>10, <1>11, <1>12, <1>13
     DEF Next, EngineStep

\* The invariant gives the property: a set of at most one element.
LEMMA LateBound == LateInv => OneToolAfterInterrupt
<1> SUFFICES ASSUME LateInv PROVE Cardinality(late) <= 1
  BY DEF OneToolAfterInterrupt
<1>1. CASE late = {}
  <2>1. Cardinality(late) = 0
    BY <1>1, FS_EmptySet
  <2> QED
    BY <2>1
<1>2. ASSUME NEW id, late = {id} PROVE Cardinality(late) <= 1
  <2>1. Cardinality(late) = 1
    BY <1>2, FS_Singleton
  <2> QED
    BY <2>1
<1> QED
  BY <1>1, <1>2 DEF LateInv

\* At most one tool starts after Ctrl+C, whatever the model asks for and however
\* the permission checks come out (query_with_tool_loop's tool loop).
THEOREM OneToolAfterInterruptHolds == Spec => []OneToolAfterInterrupt
  BY InitLate, NextLate, LateBound, PTL DEF Spec

-----------------------------------------------------------------------------
(* Types.                                                                  *)

Message == [role : {"user", "assistant"}, uses : Seq(1 .. MaxUses), answers : Seq(1 .. MaxUses)]

\* Between the check that a call is left and its answer there is one.
CallLeft == pc \in {"deciding", "asking", "executing"} => Len(results) < Len(uses)
TypeInv ==
    /\ TypeOK /\ CallLeft /\ Len(results) <= Len(uses)
    /\ pc # "idle" => messages # <<>>

LEMMA SeqWidens ==
  ASSUME NEW S, NEW T, NEW q \in Seq(S), S \subseteq T
  PROVE  q \in Seq(T)
<1>1. /\ Len(q) \in Nat /\ DOMAIN q = 1 .. Len(q) /\ \A i \in 1 .. Len(q) : q[i] \in S
      /\ q = [i \in 1 .. Len(q) |-> q[i]]
  OBVIOUS
<1>2. \A i \in 1 .. Len(q) : q[i] \in T
  BY <1>1
<1> QED
  BY <1>1, <1>2

LEMMA MessageTypes ==
  ASSUME TypeOK
  PROVE  /\ UserText \in Message
         /\ Assistant(uses) \in Message
         /\ ToolResults(results) \in Message
<1>1. issued \in 0 .. MaxUses /\ MaxUses \in Nat /\ uses \in Seq(1 .. issued)
      /\ results \in Seq(1 .. issued) /\ 1 .. issued \subseteq 1 .. MaxUses
  BY DEF TypeOK, ToolLoopAssumption
<1>2. uses \in Seq(1 .. MaxUses) /\ results \in Seq(1 .. MaxUses) /\ <<>> \in Seq(1 .. MaxUses)
  BY <1>1, SeqWidens
<1> QED
  BY <1>2 DEF UserText, Assistant, ToolResults, Message

LEMMA TypeInit == Init => TypeInv
<1> SUFFICES ASSUME Init PROVE TypeInv
  OBVIOUS
<1>1. /\ messages = <<>> /\ pc = "idle" /\ loops = 0 /\ uses = <<>> /\ spoke = FALSE
      /\ stopReason = "end_turn" /\ results = <<>> /\ abort = FALSE /\ listening = FALSE
      /\ prompts = 0 /\ clean = TRUE /\ issued = 0 /\ started = {} /\ late = {}
      /\ queue = [note |-> 0, prompt |-> 0] /\ posted = 0 /\ reader \in Readers
  BY DEF Init
<1>2. 0 \in 0 .. MaxLoops /\ 0 \in 0 .. MaxUses /\ 0 \in 0 .. MaxPrompts /\ 0 \in 0 .. MaxNotes
  BY DEF ToolLoopAssumption
<1>3. /\ \A S : <<>> \in Seq(S)
      /\ queue \in [note : 0 .. MaxNotes, prompt : {0, 1}] /\ queue.note <= posted
  BY <1>1, <1>2
<1> QED
  BY <1>1, <1>2, <1>3 DEF TypeInv, TypeOK, CallLeft, PCs, StopReasons

LEMMA TypeStep ==
  ASSUME TypeInv, [Next]_vars
  PROVE  TypeInv'
<1> USE DEF PCs, StopReasons, Yield
<1>0. /\ TypeOK /\ CallLeft /\ Len(results) <= Len(uses) /\ messages \in Seq(Message)
      /\ (pc # "idle" => messages # <<>>)
      /\ Len(results) \in Nat /\ Len(uses) \in Nat
      /\ issued \in 0 .. MaxUses /\ loops \in 0 .. MaxLoops /\ prompts \in 0 .. MaxPrompts
      /\ posted \in 0 .. MaxNotes /\ queue.note \in 0 .. MaxNotes /\ queue.note <= posted
      /\ MaxUses \in Nat /\ MaxLoops \in Nat /\ MaxPrompts \in Nat /\ MaxNotes \in Nat
  BY DEF TypeInv, TypeOK, Message, ToolLoopAssumption
<1>1. CASE Ask
  <2>1. messages' \in Seq(Message) /\ messages' # <<>>
    BY <1>0, <1>1, MessageTypes DEF Ask
  <2>2. prompts' \in 0 .. MaxPrompts /\ loops' \in 0 .. MaxLoops
    <3>1. prompts + 1 \in 0 .. MaxPrompts /\ 0 \in 0 .. MaxLoops
      BY <1>0, <1>1 DEF Ask
    <3> QED
      BY <1>1, <3>1 DEF Ask
  <2>3. clean' \in BOOLEAN
    BY <1>1 DEF Ask, Paired
  <2> QED
    BY <1>0, <1>1, <2>1, <2>2, <2>3 DEF Ask, TypeInv, TypeOK, CallLeft, Message, queueVars
<1>2. CASE Interrupt
  BY <1>0, <1>2 DEF Interrupt, replyVars, toolVars, queueVars, TypeInv, TypeOK, CallLeft
<1>3. CASE PostNote
  <2>1. /\ posted' \in 0 .. MaxNotes /\ queue'.note <= posted'
        /\ queue' \in [note : 0 .. MaxNotes, prompt : {0, 1}]
    <3>1. posted < MaxNotes /\ posted' = posted + 1 /\ queue' = [queue EXCEPT !.note = @ + 1]
      BY <1>3 DEF PostNote
    <3>2. queue \in [note : 0 .. MaxNotes, prompt : {0, 1}]
      BY <1>0 DEF TypeOK
    <3>3. /\ posted + 1 \in 0 .. MaxNotes /\ queue.note + 1 \in 0 .. MaxNotes
          /\ queue.note + 1 <= posted + 1
      <4>1. posted < MaxNotes
        BY <1>3 DEF PostNote
      <4> QED
        BY <1>0, <4>1
    <3> QED
      BY <3>1, <3>2, <3>3
  <2> QED
    BY <1>0, <1>3, <2>1 DEF PostNote, replyVars, toolVars, envVars, TypeInv, TypeOK, CallLeft
<1>4. CASE QueuePrompt
  <2>1. queue' \in [note : 0 .. MaxNotes, prompt : {0, 1}] /\ queue'.note <= posted
    BY <1>0, <1>4 DEF QueuePrompt, TypeOK
  <2> QED
    BY <1>0, <1>4, <2>1 DEF QueuePrompt, replyVars, toolVars, envVars, TypeInv, TypeOK, CallLeft
<1>5. CASE BeginRequest
  <2>1. loops' \in 0 .. MaxLoops
    <3>1. loops < MaxLoops => loops + 1 \in 0 .. MaxLoops
      BY <1>0
    <3> QED
      BY <1>0, <1>5, <3>1 DEF BeginRequest, OutOfLoops, replyVars
  <2>2. /\ uses' \in Seq(1 .. issued) /\ results' \in Seq(1 .. issued)
        /\ Len(results') <= Len(uses')
    <3>1. UNCHANGED <<uses, results>> \/ (uses' = <<>> /\ results' = <<>>)
      BY <1>5 DEF BeginRequest, replyVars
    <3>2. CASE UNCHANGED <<uses, results>>
      BY <1>0, <3>2 DEF TypeOK
    <3>3. CASE uses' = <<>> /\ results' = <<>>
      <4>1. <<>> \in Seq(1 .. issued) /\ Len(<<>>) <= Len(<<>>)
        OBVIOUS
      <4> QED
        BY <3>3, <4>1
    <3> QED
      BY <3>1, <3>2, <3>3
  <2>3. pc' \in {"finish", "stream"} /\ spoke' \in BOOLEAN /\ stopReason' \in StopReasons
        /\ UNCHANGED <<messages, envVars, issued, toolVars, queueVars>> /\ pc = "head"
    BY <1>0, <1>5 DEF BeginRequest, replyVars, TypeOK
  <2> QED
    BY <1>0, <2>1, <2>2, <2>3
       DEF BeginRequest, replyVars, toolVars, envVars, queueVars, TypeInv, TypeOK, CallLeft
<1>6. CASE StreamToolUse
  <2>1. /\ issued + 1 \in 0 .. MaxUses /\ issued' = issued + 1
        /\ uses' = Append(uses, issued + 1) /\ results' = results
        /\ pc' \in {"stream", "idle"} /\ (pc' = "idle" \/ pc = "stream")
        /\ UNCHANGED <<messages, loops, spoke, stopReason, envVars, toolVars, queueVars>>
    BY <1>0, <1>6 DEF StreamToolUse
  <2>2. uses \in Seq(1 .. (issued + 1)) /\ results \in Seq(1 .. (issued + 1))
    <3>1. 1 .. issued \subseteq 1 .. (issued + 1)
      BY <1>0
    <3> QED
      BY <1>0, <3>1, SeqWidens DEF TypeOK
  <2>3. uses' \in Seq(1 .. (issued + 1)) /\ Len(uses') = Len(uses) + 1
    <3>1. issued + 1 \in 1 .. (issued + 1)
      BY <1>0
    <3> QED
      BY <2>1, <2>2, <3>1
  <2>4. started' \subseteq 1 .. (issued + 1)
    BY <1>0, <2>1 DEF TypeOK, toolVars
  <2>5. Len(results') <= Len(uses')
    BY <1>0, <2>1, <2>3
  <2> QED
    BY <1>0, <1>6, <2>1, <2>2, <2>3, <2>4, <2>5
       DEF StreamToolUse, toolVars, envVars, queueVars, TypeInv, TypeOK, CallLeft
<1>7. CASE StreamText \/ StreamStop \/ StreamAborted \/ StreamFails
  BY <1>0, <1>7 DEF StreamText, StreamStop, StreamAborted, StreamFails, replyVars,
        toolVars, envVars, queueVars, TypeInv, TypeOK, CallLeft
<1>8. CASE AppendReply
  <2>1. messages' \in Seq(Message) /\ messages' # <<>>
    BY <1>0, <1>8, MessageTypes DEF AppendReply
  <2> QED
    BY <1>0, <1>8, <2>1
       DEF AppendReply, replyVars, toolVars, envVars, queueVars, TypeInv, TypeOK, CallLeft,
           Message
<1>9. CASE NextTool
  BY <1>0, <1>9 DEF NextTool, toolVars, envVars, queueVars, TypeInv, TypeOK, CallLeft
<1>10. CASE AskUser
  BY <1>0, <1>10 DEF AskUser, replyVars, toolVars, envVars, queueVars, TypeInv, TypeOK, CallLeft
<1>11. ASSUME pc \in {"deciding", "asking", "executing"}
       PROVE  /\ Current \in 1 .. issued
              /\ Append(results, Current) \in Seq(1 .. issued)
              /\ Len(Append(results, Current)) <= Len(uses)
  <2>1. Current \in 1 .. issued
    <3>1. Len(results) + 1 \in 1 .. Len(uses)
      BY <1>0, <1>11 DEF CallLeft
    <3>2. \A k \in 1 .. Len(uses) : uses[k] \in 1 .. issued
      <4>1. uses \in Seq(1 .. issued)
        BY <1>0 DEF TypeOK
      <4> QED
        BY <4>1, ElementOfSeq
    <3> QED
      BY <3>1, <3>2 DEF Current
  <2>2. results \in Seq(1 .. issued) /\ Len(results) + 1 <= Len(uses)
    BY <1>0, <1>11 DEF TypeOK, CallLeft
  <2> QED
    BY <2>1, <2>2
<1>12. CASE DenyTool \/ ToolReturns
  <2>1. /\ results' = Append(results, Current) /\ pc \in {"deciding", "asking", "executing"}
        /\ pc' \in {"tools", "idle"}
        /\ UNCHANGED <<messages, loops, uses, spoke, stopReason, envVars, issued, toolVars,
                       queueVars>>
    BY <1>12 DEF DenyTool, ToolReturns, Answered
  <2> QED
    BY <1>0, <1>11, <2>1 DEF toolVars, envVars, queueVars, TypeInv, TypeOK, CallLeft
<1>13. CASE StartTool
  BY <1>0, <1>11, <1>13 DEF StartTool, replyVars, envVars, queueVars, TypeInv, TypeOK, CallLeft
<1>14. CASE ReportResults
  BY <1>0, <1>14 DEF ReportResults, replyVars, toolVars, envVars, queueVars, TypeInv, TypeOK,
        CallLeft
<1>15. CASE RecordResults
  <2>1. Notes \in Seq(Message) /\ <<>> \in Seq(Message) /\ <<UserText>> \in Seq(Message)
        /\ <<ToolResults(results)>> \in Seq(Message)
    BY <1>0, MessageTypes DEF Notes
  <2>2. PICK injected \in {<<>>, <<UserText>>} :
          \/ messages' = messages \o (IF results = <<>> THEN <<>> ELSE Answer \o injected)
          \/ messages' = messages \o AfterTools(Notes,
                             IF results = <<>> THEN <<>> ELSE Answer \o injected)
    BY <1>15 DEF RecordResults
  <2>3. /\ Answer \in Seq(Message) /\ injected \in Seq(Message)
        /\ (IF results = <<>> THEN <<>> ELSE Answer \o injected) \in Seq(Message)
    <3>1. Answer \in Seq(Message) /\ injected \in Seq(Message)
      BY <2>1, <2>2 DEF Answer
    <3>2. Answer \o injected \in Seq(Message)
      BY <3>1
    <3> QED
      BY <2>1, <3>1, <3>2
  <2>4. messages' \in Seq(Message) /\ Len(messages') >= Len(messages)
    <3> DEFINE answer == IF results = <<>> THEN <<>> ELSE Answer \o injected
    <3>1. answer \in Seq(Message) /\ answer \o Notes \in Seq(Message)
      BY <2>1, <2>3
    <3>2. messages' = messages \o answer \/ messages' = messages \o (answer \o Notes)
      BY <2>2 DEF AfterTools
    <3>3. \A more \in Seq(Message) :
              messages \o more \in Seq(Message) /\ Len(messages \o more) >= Len(messages)
      BY <1>0
    <3> HIDE DEF answer
    <3> QED
      BY <3>1, <3>2, <3>3
  <2>5. messages' # <<>>
    BY <1>0, <1>15, <2>4 DEF RecordResults
  <2>6. queue' \in [note : 0 .. MaxNotes, prompt : {0, 1}] /\ queue'.note <= posted
    <3>1. /\ queue \in [note : 0 .. MaxNotes, prompt : {0, 1}] /\ 0 \in 0 .. MaxNotes
          /\ queue' = queue \/ queue' = [queue EXCEPT !.note = 0]
      BY <1>0, <1>15 DEF RecordResults, TypeOK
    <3> QED
      BY <1>0, <3>1
  <2>7. pc' \in {"finish", "head"} /\ UNCHANGED <<loops, replyVars, envVars, issued, toolVars, posted>>
    BY <1>15 DEF RecordResults
  <2> QED
    BY <1>0, <2>4, <2>5, <2>6, <2>7
       DEF replyVars, toolVars, envVars, TypeInv, TypeOK, CallLeft, Message
<1>16. CASE Finish
  BY <1>0, <1>16 DEF Finish, replyVars, toolVars, envVars, queueVars, TypeInv, TypeOK, CallLeft
<1>17. CASE TurnRaises
  <2>1. messages' \in Seq(Message)
    <3>0. messages # <<>>
      BY <1>0, <1>17 DEF TurnRaises, AtEvent
    <3>1. Len(messages) - 1 \in Nat /\ Len(messages) - 1 <= Len(messages)
      BY <1>0, <3>0
    <3>2. SubSeq(messages, 1, Len(messages) - 1) \in Seq(Message)
      BY <1>0, <3>1
    <3> QED
      BY <1>0, <1>17, <3>2 DEF TurnRaises
  <2> QED
    BY <1>0, <1>17, <2>1
       DEF TurnRaises, replyVars, toolVars, envVars, queueVars, TypeInv, TypeOK, CallLeft, Message
<1>18. CASE UNCHANGED vars
  BY <1>0, <1>18
     DEF vars, replyVars, toolVars, envVars, queueVars, TypeInv, TypeOK, CallLeft
<1> QED
  BY <1>1, <1>2, <1>3, <1>4, <1>5, <1>6, <1>7, <1>8, <1>9, <1>10, <1>12, <1>13, <1>14, <1>15,
     <1>16, <1>17, <1>18
     DEF Next, EngineStep, StreamStep, ToolStep

-----------------------------------------------------------------------------
(* TurnKeepsPairing.  While the calls of a reply are worked off, the reply *)
(* is the last message, the results are a prefix of its calls, and all     *)
(* before it is paired; the results that are recorded for the next request *)
(* answer all of its calls.                                                *)

AfterReply == {"tools", "deciding", "asking", "executing", "reporting", "recording"}
Last == Len(messages)

PairedBefore ==
    \A i \in 1 .. (Last - 1) :
        messages[i].uses # <<>> => messages[i + 1].answers = messages[i].uses

PairInv ==
    /\ ResultsMatchUses
    /\ \A k \in 1 .. Len(results) : results[k] = uses[k]
    /\ pc \in {"head", "stream", "streamed"} /\ clean => Paired(messages)
    /\ pc \in AfterReply =>
           /\ uses # <<>>
           /\ messages[Last] = Assistant(uses)
           /\ clean => PairedBefore
    /\ pc \in {"reporting", "recording"} =>
           Len(results) = Len(uses) \/ stopReason = "aborted"

LEMMA PairInit == Init => PairInv
<1> SUFFICES ASSUME Init PROVE PairInv
  OBVIOUS
<1>1. messages = <<>> /\ results = <<>> /\ pc = "idle"
  BY DEF Init
<1>2. DOMAIN messages = {} /\ 1 .. Len(results) = {}
  BY <1>1
<1> QED
  BY <1>1, <1>2 DEF PairInv, ResultsMatchUses, AfterReply

\* Messages that answer nothing, put behind the conversation or cut off from it,
\* leave the results with their calls.
LEMMA MatchKept ==
  ASSUME ResultsMatchUses, TypeInv, messages' \in Seq(Message),
         \A i \in 1 .. Len(messages') :
             \/ messages'[i].answers = <<>>
             \/ /\ i \in 1 .. Len(messages) /\ messages'[i] = messages[i]
                /\ i > 1 => messages'[i - 1] = messages[i - 1]
  PROVE  ResultsMatchUses'
<1>1. /\ messages \in Seq(Message)
      /\ DOMAIN messages = 1 .. Len(messages) /\ DOMAIN messages' = 1 .. Len(messages')
  BY DEF TypeInv, TypeOK, Message
<1> QED
  BY <1>1 DEF ResultsMatchUses

\* What RecordResults puts behind the reply.
Recorded(tail) ==
    /\ tail \in Seq(Message)
    /\ \A k \in 1 .. Len(tail) :
           /\ tail[k].uses = <<>>
           /\ k = 1 /\ results # <<>> => tail[k] = ToolResults(results)
           /\ k > 1 \/ results = <<>> => tail[k].answers = <<>>
    /\ results # <<>> => Len(tail) >= 1

LEMMA RecordedTail ==
  ASSUME TypeInv, NEW injected \in {<<>>, <<UserText>>}
  PROVE  LET answer == IF results = <<>> THEN <<>> ELSE Answer \o injected
         IN  Recorded(answer) /\ Recorded(AfterTools(Notes, answer))
<1> DEFINE answer == IF results = <<>> THEN <<>> ELSE Answer \o injected
<1>1. /\ UserText \in Message /\ ToolResults(results) \in Message
      /\ UserText.uses = <<>> /\ UserText.answers = <<>> /\ ToolResults(results).uses = <<>>
      /\ queue.note \in Nat
  BY MessageTypes DEF TypeInv, TypeOK, UserText, ToolResults, ToolLoopAssumption
<1>2. Recorded(answer)
  <2>1. CASE results = <<>>
    <3>1. answer = <<>>
      BY <2>1
    <3> QED
      BY <2>1, <3>1 DEF Recorded
  <2>2. CASE results # <<>> /\ injected = <<>>
    <3> DEFINE given == ToolResults(results)
    <3>1. answer = <<given>>
      BY <1>1, <2>2 DEF Answer
    <3> HIDE DEF given, answer
    <3>2. Len(answer) = 1 /\ answer[1] = given /\ (given \in Message => answer \in Seq(Message))
      BY <3>1
    <3> USE DEF given
    <3>3. \A k \in 1 .. Len(answer) : k = 1
      BY <3>2
    <3> QED
      BY <1>1, <2>2, <3>2, <3>3 DEF Recorded
  <2>3. CASE results # <<>> /\ injected = <<UserText>>
    <3> DEFINE given == ToolResults(results)
               also == UserText
    <3>1. answer = <<given>> \o <<also>>
      BY <1>1, <2>3 DEF Answer
    <3> HIDE DEF given, also, answer
    <3>2. /\ Len(answer) = 2 /\ answer[1] = given /\ answer[2] = also
          /\ given \in Message /\ also \in Message => answer \in Seq(Message)
      BY <3>1
    <3> USE DEF given, also
    <3>3. \A k \in 1 .. Len(answer) : k = 1 \/ (k = 2 /\ k > 1)
      BY <3>2
    <3> QED
      BY <1>1, <2>3, <3>2, <3>3 DEF Recorded
  <2> QED
    BY <2>1, <2>2, <2>3
<1>3. /\ Notes \in Seq(Message) /\ Len(Notes) = queue.note
      /\ \A k \in 1 .. Len(Notes) : Notes[k] = UserText
  BY <1>1 DEF Notes
<1>4. Recorded(answer \o Notes)
  <2> HIDE DEF answer
  <2>1. answer \in Seq(Message) /\ Len(answer) \in Nat /\ Len(Notes) \in Nat
    BY <1>2, <1>3 DEF Recorded
  <2>2. /\ answer \o Notes \in Seq(Message)
        /\ Len(answer \o Notes) = Len(answer) + Len(Notes)
        /\ \A k \in 1 .. (Len(answer) + Len(Notes)) :
               (answer \o Notes)[k] = IF k <= Len(answer) THEN answer[k] ELSE Notes[k - Len(answer)]
    BY <1>3, <2>1
  <2>3. \A k \in 1 .. (Len(answer) + Len(Notes)) :
            k > Len(answer) => (answer \o Notes)[k] = UserText
    BY <1>3, <2>1, <2>2
  <2>4. \A k \in 1 .. (Len(answer) + Len(Notes)) :
            k <= Len(answer) => k \in 1 .. Len(answer) /\ (answer \o Notes)[k] = answer[k]
    BY <2>1, <2>2
  <2>5. Len(answer \o Notes) >= Len(answer)
    BY <2>1, <2>2
  <2>6. ASSUME NEW k \in 1 .. Len(answer \o Notes)
        PROVE  /\ (answer \o Notes)[k].uses = <<>>
               /\ k = 1 /\ results # <<>> => (answer \o Notes)[k] = ToolResults(results)
               /\ k > 1 \/ results = <<>> => (answer \o Notes)[k].answers = <<>>
    <3>1. CASE k <= Len(answer)
      BY <1>2, <2>2, <2>4, <3>1 DEF Recorded
    <3>2. CASE k > Len(answer)
      <4>1. (answer \o Notes)[k] = UserText
        BY <2>2, <2>3, <3>2
      <4>2. k = 1 => results = <<>>
        BY <1>2, <2>1, <3>2 DEF Recorded
      <4> QED
        BY <1>1, <4>1, <4>2
    <3> QED
      BY <2>1, <2>2, <3>1, <3>2
  <2>7. results # <<>> => Len(answer \o Notes) >= 1
    BY <1>2, <2>1, <2>2 DEF Recorded
  <2> QED
    BY <2>2, <2>6, <2>7 DEF Recorded
<1> QED
  BY <1>2, <1>4 DEF AfterTools

LEMMA RecordPairs ==
  ASSUME TypeInv, PairInv, RecordResults, messages' \in Seq(Message)
  PROVE  PairInv'
<1>1. /\ messages \in Seq(Message) /\ Len(messages) \in Nat /\ Len(messages) >= 1
      /\ pc = "recording" /\ UNCHANGED <<uses, results, stopReason, clean>>
      /\ results \in Seq(1 .. issued) /\ uses \in Seq(1 .. issued) /\ Len(results) <= Len(uses)
  <2>1. pc = "recording" /\ UNCHANGED <<uses, results, stopReason, clean>>
    BY DEF RecordResults, replyVars, envVars
  <2>2. messages \in Seq(Message) /\ messages # <<>> /\ Len(results) <= Len(uses)
        /\ results \in Seq(1 .. issued) /\ uses \in Seq(1 .. issued)
    BY <2>1 DEF TypeInv, TypeOK, Message
  <2>3. Len(messages) \in Nat /\ Len(messages) >= 1
    BY <2>2
  <2> QED
    BY <2>1, <2>2, <2>3
<1>2. /\ ResultsMatchUses /\ uses # <<>> /\ messages[Len(messages)] = Assistant(uses)
      /\ \A k \in 1 .. Len(results) : results[k] = uses[k]
      /\ clean => PairedBefore
      /\ Len(results) = Len(uses) \/ stopReason = "aborted"
  BY <1>1 DEF PairInv, AfterReply, Last
<1>3. PICK tail : Recorded(tail) /\ messages' = messages \o tail
  <2>1. PICK injected \in {<<>>, <<UserText>>} :
          \/ messages' = messages \o (IF results = <<>> THEN <<>> ELSE Answer \o injected)
          \/ messages' = messages \o AfterTools(Notes,
                             IF results = <<>> THEN <<>> ELSE Answer \o injected)
    BY DEF RecordResults
  <2> QED
    BY <2>1, RecordedTail
<1>4. PICK n \in Nat, m \in Nat :
        /\ n = Len(messages) /\ m = Len(tail) /\ n >= 1
        /\ DOMAIN messages = 1 .. n /\ DOMAIN messages' = 1 .. (n + m) /\ Len(messages') = n + m
        /\ \A i \in 1 .. n : messages'[i] = messages[i]
        /\ \A k \in 1 .. m : messages'[n + k] = tail[k]
  <2> DEFINE longer == messages \o tail
  <2>1. tail \in Seq(Message) /\ Len(tail) \in Nat
    BY <1>3 DEF Recorded
  <2>2. /\ DOMAIN messages = 1 .. Len(messages)
        /\ DOMAIN longer = 1 .. (Len(messages) + Len(tail))
        /\ Len(longer) = Len(messages) + Len(tail)
    BY <1>1, <2>1
  <2>3. \A i \in 1 .. Len(messages) : longer[i] = messages[i]
    BY <1>1, <2>1
  <2>4. ASSUME NEW k \in 1 .. Len(tail) PROVE longer[Len(messages) + k] = tail[k]
    BY <1>1, <2>1
  <2>5. messages' = longer
    BY <1>3
  <2> HIDE DEF longer
  <2> QED
    BY <1>1, <2>1, <2>2, <2>3, <2>4, <2>5
<1>5. \A i \in 1 .. (n + m) : i > n => i - n \in 1 .. m /\ messages'[i] = tail[i - n]
  <2> TAKE i \in 1 .. (n + m)
  <2> HAVE i > n
  <2>1. i - n \in 1 .. m /\ n + (i - n) = i
    BY <1>4
  <2> QED
    BY <1>4, <2>1
<1>6. messages'[n].uses = uses
  BY <1>2, <1>4 DEF Assistant
<1>7. ResultsMatchUses'
  <2>1. ASSUME NEW i \in 1 .. (n + m), messages'[i].answers # <<>>
        PROVE  /\ i > 1
               /\ Len(messages'[i].answers) <= Len(messages'[i - 1].uses)
               /\ \A k \in DOMAIN messages'[i].answers :
                      messages'[i].answers[k] = messages'[i - 1].uses[k]
    <3>1. CASE i <= n
      <4>1. i \in 1 .. n /\ messages'[i] = messages[i]
        BY <1>4, <3>1
      <4>2. i > 1
        BY <1>2, <1>4, <2>1, <4>1 DEF ResultsMatchUses
      <4>3. messages'[i - 1] = messages[i - 1]
        <5>1. i - 1 \in 1 .. n
          BY <4>1, <4>2
        <5> QED
          BY <1>4, <5>1
      <4> QED
        BY <1>2, <1>4, <2>1, <4>1, <4>2, <4>3 DEF ResultsMatchUses
    <3>2. CASE i > n
      <4>1. i - n \in 1 .. m /\ messages'[i] = tail[i - n]
        BY <1>5, <3>2
      <4>2. i - n = 1 /\ results # <<>>
        BY <1>3, <1>4, <2>1, <4>1 DEF Recorded
      <4>3. messages'[i].answers = results
        BY <1>3, <1>4, <4>1, <4>2 DEF Recorded, ToolResults
      <4>4. i - 1 = n /\ i > 1 /\ messages'[i - 1].uses = uses
        BY <1>4, <1>6, <4>2
      <4>5. DOMAIN results = 1 .. Len(results)
        BY <1>1
      <4> QED
        BY <1>1, <1>2, <4>3, <4>4, <4>5
    <3> QED
      BY <1>4, <3>1, <3>2
  <2> QED
    BY <1>4, <2>1 DEF ResultsMatchUses
<1>8. ASSUME pc' = "head", clean PROVE Paired(messages)'
  <2>1. Len(results) = Len(uses)
    BY <1>2, <1>8 DEF RecordResults
  <2>2. results = uses
    BY <1>1, <1>2, <2>1, SeqEqual
  <2>3. results # <<>> /\ m >= 1
    BY <1>2, <1>3, <1>4, <2>2 DEF Recorded
  <2>4. messages'[n + 1].answers = uses
    <3>1. 1 \in 1 .. m
      BY <2>3
    <3> QED
      BY <1>3, <1>4, <2>2, <2>3, <3>1 DEF Recorded, ToolResults
  <2>5. ASSUME NEW i \in 1 .. (n + m), messages'[i].uses # <<>>
        PROVE  i < n + m /\ messages'[i + 1].answers = messages'[i].uses
    <3>1. CASE i > n
      <4>1. messages'[i].uses = <<>>
        BY <1>3, <1>4, <1>5, <3>1 DEF Recorded
      <4> QED
        BY <2>5, <4>1
    <3>2. CASE i = n
      BY <1>4, <1>6, <2>3, <2>4, <3>2
    <3>3. CASE i < n
      <4>1. i \in 1 .. (n - 1) /\ i + 1 \in 1 .. n /\ i \in 1 .. n
        BY <1>4, <3>3
      <4>2. messages[i + 1].answers = messages[i].uses
        BY <1>2, <1>4, <1>8, <2>5, <4>1 DEF PairedBefore, Last
      <4> QED
        BY <1>4, <3>3, <4>1, <4>2
    <3> QED
      BY <1>4, <3>1, <3>2, <3>3
  <2> QED
    BY <1>4, <2>5 DEF Paired
<1>9. pc' \in {"finish", "head"}
  BY DEF RecordResults
<1> QED
  BY <1>1, <1>2, <1>7, <1>8, <1>9 DEF PairInv, AfterReply

\* A message that answers nothing, put behind the conversation.
LEMMA AppendFacts ==
  ASSUME TypeInv, NEW msg \in Message, messages' = Append(messages, msg), msg.answers = <<>>,
         ResultsMatchUses
  PROVE  /\ Len(messages') = Len(messages) + 1
         /\ DOMAIN messages' = 1 .. (Len(messages) + 1)
         /\ \A i \in 1 .. Len(messages) : messages'[i] = messages[i]
         /\ messages'[Len(messages) + 1] = msg
         /\ ResultsMatchUses'
<1>1. messages \in Seq(Message) /\ Len(messages) \in Nat
  BY DEF TypeInv, TypeOK, Message
<1>2. /\ Len(messages') = Len(messages) + 1
      /\ messages' \in Seq(Message) /\ DOMAIN messages' = 1 .. (Len(messages) + 1)
      /\ \A i \in 1 .. Len(messages) : messages'[i] = messages[i]
      /\ messages'[Len(messages) + 1] = msg
  BY <1>1
<1>3. ASSUME NEW i \in 1 .. Len(messages')
      PROVE  \/ messages'[i].answers = <<>>
             \/ /\ i \in 1 .. Len(messages) /\ messages'[i] = messages[i]
                /\ i > 1 => messages'[i - 1] = messages[i - 1]
  <2>1. CASE i \in 1 .. Len(messages)
    <3>1. i > 1 => i - 1 \in 1 .. Len(messages)
      BY <1>1, <2>1
    <3> QED
      BY <1>2, <2>1, <3>1
  <2>2. CASE i = Len(messages) + 1
    BY <1>2, <2>2
  <2> QED
    BY <1>1, <1>2, <2>1, <2>2
<1> QED
  BY <1>2, <1>3, MatchKept

LEMMA PairStep ==
  ASSUME TypeInv, TypeInv', PairInv, [Next]_vars
  PROVE  PairInv'
<1> USE DEF Yield, AfterReply
<1>0. /\ TypeOK /\ ResultsMatchUses /\ \A k \in 1 .. Len(results) : results[k] = uses[k]
      /\ messages \in Seq(Message) /\ messages' \in Seq(Message)
      /\ Len(messages) \in Nat /\ Len(results) \in Nat /\ Len(uses) \in Nat
      /\ Len(results) <= Len(uses)
      /\ (pc # "idle" => messages # <<>>)
  <2>1. /\ TypeOK /\ ResultsMatchUses /\ \A k \in 1 .. Len(results) : results[k] = uses[k]
        /\ Len(results) <= Len(uses) /\ (pc # "idle" => messages # <<>>)
    BY DEF TypeInv, PairInv
  <2>2. messages \in Seq(Message) /\ uses \in Seq(1 .. issued) /\ results \in Seq(1 .. issued)
    BY <2>1 DEF TypeOK, Message
  <2>3. messages' \in Seq(Message)
    BY DEF TypeInv, TypeOK, Message
  <2> QED
    BY <2>1, <2>2, <2>3
<1>1. CASE Ask
  <2>1. /\ messages' = Append(messages, UserText) /\ clean' = Paired(messages)
        /\ pc' = "head" /\ UNCHANGED <<results, uses>>
    BY <1>1 DEF Ask
  <2>2. UserText \in Message /\ UserText.answers = <<>> /\ UserText.uses = <<>>
    BY <1>0, MessageTypes DEF UserText
  <2>3. /\ Len(messages') = Len(messages) + 1
        /\ DOMAIN messages' = 1 .. (Len(messages) + 1) /\ DOMAIN messages = 1 .. Len(messages)
        /\ \A i \in 1 .. Len(messages) : messages'[i] = messages[i]
        /\ messages'[Len(messages) + 1] = UserText
        /\ ResultsMatchUses'
    BY <1>0, <2>1, <2>2, AppendFacts
  <2>4. ASSUME Paired(messages) PROVE Paired(messages)'
    <3>1. ASSUME NEW i \in 1 .. (Len(messages) + 1), messages'[i].uses # <<>>
          PROVE  i < Len(messages') /\ messages'[i + 1].answers = messages'[i].uses
      <4>1. i \in 1 .. Len(messages)
        BY <1>0, <2>2, <2>3, <3>1
      <4>2. i < Len(messages) /\ messages[i + 1].answers = messages[i].uses
        BY <2>3, <2>4, <3>1, <4>1 DEF Paired
      <4>3. i + 1 \in 1 .. Len(messages)
        BY <1>0, <4>1, <4>2
      <4> QED
        BY <1>0, <2>3, <4>1, <4>2, <4>3
    <3> QED
      BY <2>3, <3>1 DEF Paired
  <2> QED
    BY <1>0, <2>1, <2>3, <2>4 DEF PairInv
<1>2. CASE Interrupt \/ PostNote \/ QueuePrompt \/ UNCHANGED vars
  <2>1. UNCHANGED <<messages, pc, uses, results, stopReason, clean>>
    BY <1>2 DEF Interrupt, PostNote, QueuePrompt, replyVars, envVars, vars
  <2> QED
    BY <2>1 DEF PairInv, ResultsMatchUses, Paired, PairedBefore, Last
<1>3. CASE BeginRequest
  <2>1. /\ pc = "head" /\ pc' \in {"finish", "stream"} /\ UNCHANGED <<messages, clean>>
        /\ UNCHANGED <<uses, results>> \/ results' = <<>>
    BY <1>3 DEF BeginRequest, replyVars, envVars
  <2>2. \A k \in 1 .. Len(results') : results'[k] = uses'[k]
    <3>1. CASE UNCHANGED <<uses, results>>
      BY <1>0, <3>1
    <3>2. CASE results' = <<>>
      BY <3>2
    <3> QED
      BY <2>1, <3>1, <3>2
  <2> QED
    BY <2>1, <2>2 DEF PairInv, ResultsMatchUses, Paired
<1>4. CASE StreamStep
  <2>1. /\ pc = "stream" /\ pc' \in {"stream", "streamed", "idle"}
        /\ UNCHANGED <<messages, clean, results>>
    BY <1>4 DEF StreamStep, StreamText, StreamToolUse, StreamStop, StreamAborted, StreamFails,
                replyVars, envVars
  <2>2. \A k \in 1 .. Len(results) : results[k] = uses'[k]
    <3>1. CASE StreamToolUse
      <4>1. uses' = Append(uses, issued + 1) /\ uses \in Seq(1 .. issued)
        BY <1>0, <3>1 DEF StreamToolUse, TypeOK
      <4>2. \A k \in 1 .. Len(uses) : uses'[k] = uses[k]
        BY <4>1
      <4>3. \A k \in 1 .. Len(results) : k \in 1 .. Len(uses)
        BY <1>0
      <4> QED
        BY <1>0, <4>2, <4>3
    <3>2. CASE uses' = uses
      BY <1>0, <3>2
    <3> QED
      BY <1>4, <3>1, <3>2 DEF StreamStep, StreamText, StreamStop, StreamAborted, StreamFails,
                              replyVars
  <2> QED
    BY <2>1, <2>2 DEF PairInv, ResultsMatchUses, Paired
<1>5. CASE AppendReply
  <2>1. /\ pc = "streamed" /\ UNCHANGED <<uses, results, clean, stopReason>>
        /\ pc' = "finish" \/ (pc' = "tools" /\ uses # <<>>)
        /\ \/ messages' = messages /\ uses = <<>>
           \/ messages' = Append(messages, Assistant(uses))
    BY <1>5 DEF AppendReply, replyVars, envVars
  <2>2. CASE messages' = messages /\ uses = <<>>
    BY <1>0, <2>1, <2>2 DEF PairInv, ResultsMatchUses
  <2>3. CASE messages' = Append(messages, Assistant(uses))
    <3>1. Assistant(uses) \in Message /\ Assistant(uses).answers = <<>>
      BY <1>0, MessageTypes DEF Assistant
    <3>2. /\ Len(messages') = Len(messages) + 1 /\ DOMAIN messages = 1 .. Len(messages)
          /\ \A i \in 1 .. Len(messages) : messages'[i] = messages[i]
          /\ messages'[Len(messages) + 1] = Assistant(uses)
          /\ ResultsMatchUses'
      BY <1>0, <2>3, <3>1, AppendFacts
    <3>3. clean => PairedBefore'
      <4> SUFFICES ASSUME clean, NEW i \in 1 .. Len(messages), messages'[i].uses # <<>>
                   PROVE  messages'[i + 1].answers = messages'[i].uses
        BY <1>0, <3>2 DEF PairedBefore, Last
      <4>1. i < Len(messages) /\ messages[i + 1].answers = messages[i].uses
        BY <2>1, <3>2 DEF PairInv, Paired
      <4>2. i + 1 \in 1 .. Len(messages)
        BY <1>0, <4>1
      <4> QED
        BY <3>2, <4>1, <4>2
    <3>4. messages'[Last'] = Assistant(uses)
      BY <3>2 DEF Last
    <3> QED
      BY <1>0, <2>1, <3>2, <3>3, <3>4 DEF PairInv, Assistant
  <2> QED
    BY <2>1, <2>2, <2>3
<1>6. CASE NextTool
  <2>1. /\ pc = "tools" /\ UNCHANGED <<messages, uses, results, clean>>
        /\ \/ pc' = "reporting" /\ (Len(results) = Len(uses) \/ stopReason' = "aborted")
           \/ pc' = "deciding"
    BY <1>6 DEF NextTool, envVars
  <2> QED
    BY <2>1 DEF PairInv, ResultsMatchUses, Paired, PairedBefore, Last, Assistant
<1>7. CASE AskUser \/ StartTool \/ ReportResults \/ Finish
  <2>1. /\ UNCHANGED <<messages, uses, results, clean, stopReason>>
        /\ \/ pc \in {"deciding", "asking"} /\ pc' \in {"asking", "executing"}
           \/ pc = "reporting" /\ pc' \in {"recording", "idle"}
           \/ pc' = "idle"
    BY <1>7 DEF AskUser, StartTool, ReportResults, Finish, replyVars, envVars
  <2> QED
    BY <2>1 DEF PairInv, ResultsMatchUses, Paired, PairedBefore, Last, Assistant
<1>8. CASE DenyTool \/ ToolReturns
  <2>1. /\ results' = Append(results, Current) /\ pc \in {"deciding", "asking", "executing"}
        /\ pc' \in {"tools", "idle"} /\ UNCHANGED <<messages, uses, clean>>
    BY <1>8 DEF DenyTool, ToolReturns, Answered, envVars
  <2>2. results \in Seq(1 .. issued)
    BY <1>0 DEF TypeOK
  <2>3. /\ Len(results') = Len(results) + 1
        /\ \A k \in 1 .. Len(results) : results'[k] = results[k]
        /\ results'[Len(results) + 1] = uses[Len(results) + 1]
    BY <2>1, <2>2 DEF Current
  <2>4. \A k \in 1 .. Len(results') : results'[k] = uses'[k]
    BY <1>0, <2>1, <2>3
  <2> QED
    BY <2>1, <2>4 DEF PairInv, ResultsMatchUses, Paired, PairedBefore, Last, Assistant
<1>9. CASE RecordResults
  BY <1>0, <1>9, RecordPairs
<1>10. CASE TurnRaises
  <2>1. /\ pc' = "idle" /\ UNCHANGED <<uses, results, clean>> /\ messages # <<>>
        /\ \/ messages' = SubSeq(messages, 1, Len(messages) - 1) \/ messages' = messages
    BY <1>0, <1>10 DEF TurnRaises, AtEvent, replyVars, envVars
  <2>2. CASE messages' = messages
    BY <1>0, <2>1, <2>2 DEF PairInv, ResultsMatchUses
  <2>3. CASE messages' = SubSeq(messages, 1, Len(messages) - 1)
    <3>1. Len(messages) - 1 \in Nat
      BY <1>0, <2>1
    <3>2. /\ Len(messages') = Len(messages) - 1
          /\ \A i \in 1 .. (Len(messages) - 1) : messages'[i] = messages[i]
      <4> DEFINE m == Len(messages) - 1
      <4>1. m \in Nat /\ m <= Len(messages)
        BY <1>0, <3>1
      <4>2. /\ Len(SubSeq(messages, 1, m)) = m
            /\ \A i \in 1 .. m : SubSeq(messages, 1, m)[i] = messages[i]
        <5>1. 1 \in Int /\ m \in Int /\ \A i \in 1 .. m : messages[i] \in Message
          BY <1>0, <4>1
        <5> HIDE DEF m
        <5>2. /\ Len(SubSeq(messages, 1, m)) = IF 1 <= m THEN m - 1 + 1 ELSE 0
              /\ \A i \in 1 .. (m - 1 + 1) : SubSeq(messages, 1, m)[i] = messages[1 + i - 1]
          BY <5>1, SubSeqProperties
        <5>3. m - 1 + 1 = m /\ \A i \in 1 .. m : 1 + i - 1 = i
          BY <4>1
        <5>4. (IF 1 <= m THEN m ELSE 0) = m
          BY <4>1
        <5> QED
          BY <5>2, <5>3, <5>4
      <4> QED
        BY <2>3, <4>2
    <3>3. ASSUME NEW i \in 1 .. Len(messages')
          PROVE  /\ i \in 1 .. Len(messages) /\ messages'[i] = messages[i]
                 /\ i > 1 => messages'[i - 1] = messages[i - 1]
      <4>1. i \in 1 .. (Len(messages) - 1) /\ (i > 1 => i - 1 \in 1 .. (Len(messages) - 1))
        BY <3>1, <3>2
      <4> QED
        BY <1>0, <3>2, <4>1
    <3>4. ResultsMatchUses'
      BY <1>0, <3>3, MatchKept
    <3> QED
      BY <1>0, <2>1, <3>4 DEF PairInv
  <2> QED
    BY <2>1, <2>2, <2>3
<1> QED
  BY <1>1, <1>2, <1>3, <1>4, <1>5, <1>6, <1>7, <1>8, <1>9, <1>10
     DEF Next, EngineStep, ToolStep

-----------------------------------------------------------------------------
(* ExecutedIsRecorded.  As long as the turn goes on, nothing but the       *)
(* recording takes a result out of the loop: a tool that was started is    *)
(* the current call of an executor under way, or has its result among the  *)
(* results of this reply, or is answered in the conversation, which only   *)
(* grows.  A turn that is given up between the tool and its record has     *)
(* none of this, which is why the invariant speaks of a turn under way.    *)

InConversation(id) ==
    \E i \in DOMAIN messages : \E k \in DOMAIN messages[i].answers : messages[i].answers[k] = id
InResults(id) == pc \in AfterReply /\ \E k \in 1 .. Len(results) : results[k] = id
UnderWay(id) == pc = "executing" /\ id = Current

RecordInv ==
    pc # "idle" =>
        \A id \in started : InConversation(id) \/ InResults(id) \/ UnderWay(id)

LEMMA RecordInit == Init => RecordInv
  BY DEF Init, RecordInv

\* The conversation goes on behind what it was.
Grows ==
    /\ Len(messages') >= Len(messages)
    /\ \A i \in 1 .. Len(messages) : messages'[i] = messages[i]

LEMMA GrowsKeeps ==
  ASSUME TypeInv, TypeInv', Grows, NEW id, InConversation(id)
  PROVE  InConversation(id)'
<1>1. /\ DOMAIN messages = 1 .. Len(messages) /\ DOMAIN messages' = 1 .. Len(messages')
      /\ Len(messages) \in Nat /\ Len(messages') \in Nat
  <2>1. messages \in Seq(Message) /\ messages' \in Seq(Message)
    BY DEF TypeInv, TypeOK, Message
  <2> QED
    BY <2>1
<1>2. PICK i \in 1 .. Len(messages) :
        \E k \in DOMAIN messages[i].answers : messages[i].answers[k] = id
  BY <1>1 DEF InConversation
<1>3. i \in 1 .. Len(messages') /\ messages'[i] = messages[i]
  BY <1>1 DEF Grows
<1> QED
  BY <1>1, <1>2, <1>3 DEF InConversation

\* A step that starts no tool, lets the conversation grow and keeps the results
\* of a reply that is worked off.
LEMMA RecordKept ==
  ASSUME TypeInv, TypeInv', RecordInv, Grows, UNCHANGED started, pc # "idle",
         \/ pc' = "idle"
         \/ pc \notin AfterReply
         \/ /\ pc' \in AfterReply /\ Len(results') >= Len(results)
            /\ \A k \in 1 .. Len(results) : results'[k] = results[k]
            /\ pc = "executing" => \E k \in 1 .. Len(results') : results'[k] = Current
  PROVE  RecordInv'
<1> SUFFICES ASSUME pc' # "idle", NEW id \in started
             PROVE  InConversation(id)' \/ InResults(id)' \/ UnderWay(id)'
  BY DEF RecordInv
<1>1. InConversation(id) \/ InResults(id) \/ UnderWay(id)
  BY DEF RecordInv
<1>2. CASE InConversation(id)
  BY <1>2, GrowsKeeps
<1>3. CASE InResults(id)
  <2>1. PICK k \in 1 .. Len(results) : results[k] = id
    BY <1>3 DEF InResults
  <2>2. Len(results) \in Nat /\ Len(results') \in Nat
    <3>1. results \in Seq(1 .. issued) /\ results' \in Seq(1 .. issued')
      BY DEF TypeInv, TypeOK
    <3> QED
      BY <3>1
  <2>3. k \in 1 .. Len(results') /\ results'[k] = id /\ pc' \in AfterReply
    BY <1>3, <2>1, <2>2 DEF InResults
  <2> QED
    BY <2>3 DEF InResults
<1>4. CASE UnderWay(id)
  BY <1>4 DEF UnderWay, InResults, AfterReply
<1> QED
  BY <1>1, <1>2, <1>3, <1>4

\* The results become a message: every one of them is then in the conversation.
LEMMA RecordRecords ==
  ASSUME TypeInv, TypeInv', RecordInv, RecordResults
  PROVE  RecordInv'
<1>1. /\ pc = "recording" /\ pc' \in {"head", "finish"}
      /\ UNCHANGED started
  BY DEF RecordResults, toolVars
<1>2. messages \in Seq(Message) /\ messages' \in Seq(Message) /\ results \in Seq(1 .. issued)
  BY DEF TypeInv, TypeOK, Message
<1>3. PICK tail : Recorded(tail) /\ messages' = messages \o tail
  <2>1. PICK injected \in {<<>>, <<UserText>>} :
          \/ messages' = messages \o (IF results = <<>> THEN <<>> ELSE Answer \o injected)
          \/ messages' = messages \o AfterTools(Notes,
                             IF results = <<>> THEN <<>> ELSE Answer \o injected)
    BY DEF RecordResults
  <2> QED
    BY <2>1, RecordedTail
<1>4. tail \in Seq(Message)
  BY <1>3 DEF Recorded
<1>5. Grows
  BY <1>2, <1>3, <1>4 DEF Grows
<1>6. ASSUME NEW id, InResults(id) PROVE InConversation(id)'
  <2>1. PICK k \in 1 .. Len(results) : results[k] = id
    BY <1>6 DEF InResults
  <2>2. Len(tail) >= 1 /\ tail[1] = ToolResults(results)
    BY <1>2, <1>3, <2>1 DEF Recorded
  <2>3. /\ Len(messages) + 1 \in DOMAIN messages'
        /\ messages'[Len(messages) + 1] = tail[1]
    BY <1>2, <1>3, <1>4, <2>2
  <2>4. /\ messages'[Len(messages) + 1].answers = results
        /\ k \in DOMAIN results
    BY <1>2, <2>1, <2>2, <2>3 DEF ToolResults
  <2> QED
    BY <2>1, <2>3, <2>4 DEF InConversation
<1> SUFFICES ASSUME NEW id \in started
             PROVE  InConversation(id)'
  BY <1>1 DEF RecordInv
<1>7. InConversation(id) \/ InResults(id)
  BY <1>1 DEF RecordInv, UnderWay
<1> QED
  BY <1>5, <1>6, <1>7, GrowsKeeps

LEMMA RecordStep ==
  ASSUME TypeInv, TypeInv', RecordInv, [Next]_vars
  PROVE  RecordInv'
<1> USE DEF Yield
<1>0. /\ messages \in Seq(Message) /\ messages' \in Seq(Message) /\ uses \in Seq(1 .. issued)
      /\ results \in Seq(1 .. issued) /\ Len(results) \in Nat /\ Len(messages) \in Nat
      /\ UserText \in Message /\ Assistant(uses) \in Message
  <2>1. TypeOK
    BY DEF TypeInv
  <2>2. messages \in Seq(Message) /\ results \in Seq(1 .. issued) /\ uses \in Seq(1 .. issued)
    BY <2>1 DEF TypeOK, Message
  <2>3. messages' \in Seq(Message)
    BY DEF TypeInv, TypeOK, Message
  <2>4. Len(results) \in Nat /\ Len(messages) \in Nat
    BY <2>2
  <2> QED
    BY <2>1, <2>2, <2>3, <2>4, MessageTypes
<1>1. messages' = messages => Grows
  BY <1>0 DEF Grows
<1>2. ASSUME NEW msg \in Message, messages' = Append(messages, msg) PROVE Grows
  BY <1>0, <1>2 DEF Grows
<1>3. CASE Ask
  BY <1>3 DEF Ask, RecordInv
<1>4. CASE Interrupt
  <2>1. UNCHANGED <<messages, pc, results, uses, started>>
    BY <1>4 DEF Interrupt, replyVars, toolVars
  <2> QED
    BY <2>1 DEF RecordInv, InConversation, InResults, UnderWay, Current
<1>5. CASE PostNote \/ QueuePrompt \/ UNCHANGED vars
  <2>1. UNCHANGED <<messages, pc, results, uses, started>>
    BY <1>5 DEF PostNote, QueuePrompt, replyVars, toolVars, vars
  <2> QED
    BY <2>1 DEF RecordInv, InConversation, InResults, UnderWay, Current
<1>6. CASE BeginRequest \/ StreamStep \/ Finish
  <2>1. /\ pc \in {"head", "stream", "finish"}
        /\ UNCHANGED <<messages, started>>
    BY <1>6 DEF BeginRequest, StreamStep, StreamText, StreamToolUse, StreamStop, StreamAborted,
                StreamFails, Finish, toolVars
  <2> QED
    BY <1>0, <1>1, <2>1, RecordKept DEF AfterReply
<1>7. CASE AppendReply
  <2>1. /\ pc = "streamed" /\ UNCHANGED started
        /\ messages' = messages \/ messages' = Append(messages, Assistant(uses))
    BY <1>7 DEF AppendReply, toolVars
  <2> QED
    BY <1>0, <1>1, <1>2, <2>1, RecordKept DEF AfterReply
<1>8. CASE NextTool \/ AskUser \/ ReportResults
  <2>1. /\ pc \in {"tools", "deciding", "reporting"}
        /\ UNCHANGED <<messages, results, started>>
        /\ pc' \in {"reporting", "deciding", "asking", "recording", "idle"}
    BY <1>8 DEF NextTool, AskUser, ReportResults, toolVars, replyVars
  <2> QED
    BY <1>0, <1>1, <2>1, RecordKept DEF AfterReply
<1>9. CASE DenyTool \/ ToolReturns
  <2>1. /\ pc \in {"deciding", "asking", "executing"} /\ results' = Append(results, Current)
        /\ UNCHANGED <<messages, uses, started>>
        /\ pc' \in {"tools", "idle"}
    BY <1>9 DEF DenyTool, ToolReturns, Answered, toolVars
  <2>2. /\ Len(results') = Len(results) + 1 /\ results'[Len(results) + 1] = Current
        /\ \A k \in 1 .. Len(results) : results'[k] = results[k]
    BY <1>0, <2>1
  <2>3. Len(results) + 1 \in 1 .. Len(results') /\ Len(results') >= Len(results)
    BY <1>0, <2>2
  <2> QED
    BY <1>0, <1>1, <2>1, <2>2, <2>3, RecordKept DEF AfterReply
<1>10. CASE StartTool
  <2>1. /\ pc \in {"deciding", "asking"} /\ pc' = "executing" /\ started' = started \cup {Current}
        /\ UNCHANGED <<messages, uses, results>>
    BY <1>10 DEF StartTool, replyVars
  <2> QED
    BY <2>1 DEF RecordInv, InConversation, InResults, UnderWay, Current, AfterReply
<1>11. CASE RecordResults
  BY <1>11, RecordRecords
<1>12. CASE TurnRaises
  BY <1>12 DEF TurnRaises, RecordInv
<1> QED
  BY <1>3, <1>4, <1>5, <1>6, <1>7, <1>8, <1>9, <1>10, <1>11, <1>12
     DEF Next, EngineStep, ToolStep

-----------------------------------------------------------------------------
\* The loop keeps the types of its state, its results a part of its calls, and what
\* the tools of a turn under way returned.
THEOREM LoopInvariant == Spec => [](TypeInv /\ PairInv /\ RecordInv)
  BY TypeInit, TypeStep, PairInit, PairStep, RecordInit, RecordStep, PTL DEF Spec

THEOREM TypeCorrect == Spec => []TypeOK
<1>1. TypeInv => TypeOK
  BY DEF TypeInv
<1> QED
  BY <1>1, LoopInvariant, PTL

\* query_with_tool_loop: results stay with their calls, and within a turn that began on
\* a paired conversation every request is paired.
THEOREM TurnKeepsPairingHolds == Spec => []TurnKeepsPairing
<1>1. PairInv => TurnKeepsPairing
  BY DEF PairInv, TurnKeepsPairing
<1> QED
  BY <1>1, LoopInvariant, PTL

\* query_with_tool_loop: the next request of a turn, and its end, find every tool that
\* was run answered in the conversation, whatever was refused, failed or injected.
THEOREM ExecutedIsRecordedHolds == Spec => []ExecutedIsRecorded
<1>1. RecordInv => ExecutedIsRecorded
  BY DEF RecordInv, ExecutedIsRecorded, InConversation, InResults, UnderWay, AfterReply
<1> QED
  BY <1>1, LoopInvariant, PTL

-----------------------------------------------------------------------------
(* The permission context that a tool call meets, for any tools, rules and *)
(* sequence of answers: RulesKept, RulesRespected and GrantLasts.  None is *)
(* inductive alone.  RulesKept has to hold of the context an open dialog   *)
(* holds as well, since an answer may bring it back (Sound of every        *)
(* context Held).  GrantLasts needs to know that the rule made for a grant *)
(* is in force in every mode, which follows from what is kept and from     *)
(* what may be set aside.  RulesRespected needs to know that the dialog    *)
(* never asks about a denied tool (DialogAllowed).                         *)

\* The context in force and the one that may come back.
Held == {Context} \cup outdated

RuleTypes ==
    /\ Held \subseteq Contexts
    /\ deny \subseteq Rules
    /\ dialog \in Tools \cup {NoTool}
    /\ granted \subseteq Tools

\* A context keeps its rules, and sets aside only what has a dangerous pattern.
Sound(c) ==
    /\ Kept(c)
    /\ \A s \in Sources : c.stripped[s] \subseteq DangerousPatterns

DialogAllowed == dialog # NoTool => ~Covers(deny, dialog)

ContextInv ==
    /\ RuleTypes
    /\ \A c \in Held : Sound(c)
    /\ DialogAllowed
    /\ RulesRespected
    /\ GrantLasts

-----------------------------------------------------------------------------
\* What is written in the settings files, read and normalised, is rules.
LEMMA LoadedRules ==
    ASSUME settings \subseteq Setting, NEW b, NEW s
    PROVE  Loaded(b, s) \subseteq Rules /\ Passed \subseteq Rules
  BY DEF Loaded, Passed, Normal, Setting, Rules

\* The loaded rules do not change while the files do not.
LEMMA LoadedOnce ==
    ASSUME UNCHANGED fileVars PROVE AllowAtStart' = AllowAtStart
  BY DEF fileVars, AllowAtStart, Loaded, Passed

\* What a context keeps, it keeps as long as neither the files nor the grants change.
LEMMA SoundKept ==
    ASSUME NEW c, Sound(c), UNCHANGED <<fileVars, granted>>
    PROVE  Sound(c)'
<1>1. AllowAtStart' = AllowAtStart
  BY LoadedOnce
<1> QED
  BY <1>1 DEF Sound, Kept, Nothing

\* A grant is in force: the rule made for it carries no dangerous pattern, so
\* that it is never among those set aside.
LEMMA GrantInForce ==
    ASSUME ContextInv, NEW t \in granted PROVE AllowedByRule(t)
<1>1. "session" \in Sources /\ Sound(Context)
  BY DEF Sources, ContextInv, Held
<1>2. <<t, "whole">> \in allow["session"] \cup stripped["session"]
  BY <1>1 DEF Sound, Kept, Context
<1>3. <<t, "whole">> \notin stripped["session"]
  BY <1>1 DEF Sound, Context, DangerousPatterns
<1> QED
  BY <1>1, <1>2, <1>3 DEF AllowedByRule, Covers

-----------------------------------------------------------------------------
\* The context as on_mount builds it.
LEMMA ContextInit == InitContext => ContextInv
<1> SUFFICES ASSUME InitContext PROVE ContextInv
  OBVIOUS
<1>1. settings \subseteq Setting /\ mode \in Modes /\ outdated = {}
  BY DEF InitContext
<1>2. AllowAtStart \in [Sources -> SUBSET Rules]
  <2>1. \A s \in Sources : AllowAtStart[s] \subseteq Rules
    BY <1>1, LoadedRules DEF AllowAtStart, Sources, DiskSources
  <2> QED
    BY <2>1 DEF AllowAtStart
<1>3. deny \subseteq Rules
  BY <1>1, LoadedRules DEF InitContext
<1>4. RuleTypes
  <2>1. allow \in [Sources -> SUBSET Rules] /\ stripped \in [Sources -> SUBSET Rules]
    BY <1>2 DEF InitContext, Harmless, Dangerous, Nothing
  <2> QED
    BY <1>1, <1>3, <2>1 DEF InitContext, RuleTypes, Held, Contexts, Context
<1>5. Sound(Context)
  <2>1. allow = Harmless(AllowAtStart) \/ (mode # "auto" /\ allow = AllowAtStart)
    BY DEF InitContext
  <2> QED
    BY <1>2, <2>1 DEF InitContext, Sound, Kept, Context, Harmless, Dangerous, Nothing
<1>6. DialogAllowed /\ RulesRespected /\ GrantLasts
  <2>1. deny \subseteq Rules /\ ask \subseteq Rules
    BY <1>1, <1>3, LoadedRules DEF InitContext
  <2>2. \A rules : rules \subseteq Rules => ~Covers(rules, NoTool)
    BY PermissionsAssumption DEF Covers, Rules
  <2> QED
    BY <2>1, <2>2 DEF InitContext, DialogAllowed, RulesRespected, GrantLasts, NoRun
<1> QED
  BY <1>1, <1>4, <1>5, <1>6 DEF ContextInv, Held

\* A move of the mode keeps every rule, in force or set aside.
LEMMA TransitionKeeps ==
    ASSUME ContextInv, NEW new \in Modes, Transition(new), UNCHANGED <<fileVars, granted>>
    PROVE  Context' \in Contexts /\ Sound(Context)'
<1>1. AllowAtStart' = AllowAtStart
  BY LoadedOnce
<1>2. /\ Sound(Context) /\ mode \in Modes /\ mode' = new
      /\ allow \in [Sources -> SUBSET Rules] /\ stripped \in [Sources -> SUBSET Rules]
  BY DEF ContextInv, Held, RuleTypes, Contexts, Context, Transition
<1>3. /\ allow' \in [Sources -> SUBSET Rules] /\ stripped' \in [Sources -> SUBSET Rules]
      /\ Sound(Context)'
  <2>1. CASE new = "auto" /\ mode # "auto"
    BY <1>1, <1>2, <2>1 DEF Transition, Sound, Kept, Context, Harmless, Dangerous, Nothing
  <2>2. CASE new # "auto" /\ mode = "auto"
    BY <1>1, <1>2, <2>2 DEF Transition, Sound, Kept, Context, Restored, Nothing
  <2>3. CASE (new = "auto") = (mode = "auto")
    BY <1>1, <1>2, <2>3 DEF Transition, Sound, Kept, Context, Nothing
  <2> QED
    BY <2>1, <2>2, <2>3
<1> QED
  BY <1>2, <1>3 DEF Contexts, Context

\* An answer that adds no rule: the context in force is kept, the dialog's dropped.
LEMMA AnswerKeeps ==
    ASSUME ContextInv, Context' \in Contexts, Sound(Context)', outdated' = {},
           UNCHANGED <<deny, ask, granted>>, dialog # NoTool, dialog' = NoTool,
           ran' = <<dialog, TRUE>> \/ ran' = ran
    PROVE  ContextInv'
<1>1. RuleTypes' /\ (\A c \in Held : Sound(c))'
  BY DEF ContextInv, RuleTypes, Held
<1>2. DialogAllowed' /\ GrantLasts'
  BY PermissionsAssumption DEF ContextInv, RuleTypes, DialogAllowed, GrantLasts
<1>3. RulesRespected'
  <2>1. CASE ran' = <<dialog, TRUE>>
    BY <2>1 DEF ContextInv, DialogAllowed, RulesRespected, Covers
  <2>2. CASE ran' = ran
    BY <2>2 DEF ContextInv, RulesRespected, Covers
  <2> QED
    BY <2>1, <2>2
<1> QED
  BY <1>1, <1>2, <1>3 DEF ContextInv

\* Every step keeps the invariant.
LEMMA ContextStep == ContextInv /\ [ChangeContext]_contextVars => ContextInv'
<1> SUFFICES ASSUME ContextInv, [ChangeContext]_contextVars PROVE ContextInv'
  OBVIOUS
<1>0. Sound(Context) /\ Context \in Contexts /\ \A c \in outdated : Sound(c) /\ c \in Contexts
  BY DEF ContextInv, RuleTypes, Held
<1>1. ASSUME NEW new \in Modes, SetMode(new) PROVE ContextInv'
  <2>1. Context' \in Contexts /\ Sound(Context)' /\ UNCHANGED <<fileVars, granted>>
    BY <1>1, TransitionKeeps DEF SetMode
  <2>2. UNCHANGED <<deny, ask, dialog, granted, ran>>
        /\ (outdated' = outdated \/ outdated' = {Context})
    BY <1>1 DEF SetMode
  <2>3. \A c \in outdated' : Sound(c)' /\ c \in Contexts
    BY <1>0, <2>1, <2>2, SoundKept
  <2>4. RuleTypes' /\ (\A c \in Held : Sound(c))'
    BY <2>1, <2>2, <2>3 DEF ContextInv, RuleTypes, Held
  <2> QED
    BY <2>2, <2>4 DEF ContextInv, DialogAllowed, RulesRespected, GrantLasts, Covers
<1>2. ASSUME NEW t \in Tools, CallTool(t) PROVE ContextInv'
  <2>1. RuleTypes' /\ (\A c \in Held : Sound(c))'
    <3>1. UNCHANGED <<fileVars, granted, deny, Context, outdated>>
          /\ (dialog' = dialog \/ dialog' = t)
      BY <1>2 DEF CallTool, ruleVars, Context
    <3>2. \A c \in Held : Sound(c)'
      BY <1>0, <3>1, SoundKept DEF Held
    <3> QED
      BY <3>1, <3>2 DEF ContextInv, RuleTypes, Held
  <2>2. deny' = deny /\ ask' = ask
    BY <1>2 DEF CallTool, ruleVars
  <2>3. ASSUME Decision(t) = "allow", ran' = <<t, FALSE>>, dialog' = dialog
        PROVE  DialogAllowed' /\ RulesRespected'
    <3>1. ~Covers(deny, t) /\ ~Covers(ask, t)
      BY <2>3 DEF Decision
    <3> QED
      BY <2>2, <2>3, <3>1 DEF ContextInv, DialogAllowed, RulesRespected, Covers
  <2>4. ASSUME Decision(t) = "ask", dialog' = t, ran' = ran
        PROVE  DialogAllowed' /\ RulesRespected'
    <3>1. ~Covers(deny, t)
      BY <2>4 DEF Decision
    <3> QED
      BY <2>2, <2>4, <3>1 DEF ContextInv, DialogAllowed, RulesRespected, Covers
  <2>5. DialogAllowed' /\ RulesRespected'
    BY <1>2, <2>3, <2>4 DEF CallTool
  <2>6. GrantLasts'
    <3>1. CASE Decision(t) = "allow" /\ dialog' = dialog
      BY <1>2, <3>1 DEF CallTool, ruleVars, ContextInv, GrantLasts, Covers
    <3>2. CASE Decision(t) = "ask" /\ dialog' = t
      <4>1. t \in granted => Covers(ask, t)
        BY <3>2, GrantInForce DEF Decision
      <4> QED
        BY <1>2, <3>2, <4>1 DEF CallTool, ruleVars, GrantLasts, Covers
    <3> QED
      BY <1>2, <3>1, <3>2 DEF CallTool
  <2> QED
    BY <2>1, <2>5, <2>6 DEF ContextInv
<1>3. ASSUME AllowOnce \/ Refuse PROVE ContextInv'
  <2>1. UNCHANGED <<fileVars, granted, deny, ask, Context>> /\ outdated' = {}
        /\ dialog # NoTool /\ dialog' = NoTool /\ (ran' = <<dialog, TRUE>> \/ ran' = ran)
    BY <1>3 DEF AllowOnce, Refuse, ruleVars, Context
  <2>2. Sound(Context)'
    <3>1. Sound(Context) /\ UNCHANGED <<fileVars, granted>> /\ Context' = Context
      BY <1>0, <2>1
    <3>2. AllowAtStart' = AllowAtStart
      BY <3>1, LoadedOnce
    <3> QED
      BY <3>1, <3>2 DEF Sound, Kept, Nothing
  <2> QED
    BY <1>0, <2>1, <2>2, AnswerKeeps
<1>4. ASSUME AllowSession PROVE ContextInv'
  <2>1. AllowAtStart' = AllowAtStart /\ outdated' = {} /\ UNCHANGED <<deny, ask>>
        /\ dialog # NoTool /\ dialog' = NoTool /\ ran' = <<dialog, TRUE>>
        /\ granted' = granted \cup {dialog}
    BY <1>4, LoadedOnce DEF AllowSession
  <2>2. dialog \in Tools /\ <<dialog, "whole">> \in Rules /\ "session" \in Sources
        /\ <<dialog, "whole">> \notin DangerousPatterns
    BY <2>1 DEF ContextInv, RuleTypes, Rules, Sources, DangerousPatterns
  <2>3. PICK c \in Held :
          /\ mode' = c.mode /\ stripped' = c.stripped
          /\ allow' = [c.allow EXCEPT !["session"] = @ \cup {<<dialog, "whole">>}]
    BY <1>4 DEF AllowSession, InHand, SessionRule, Held
  <2>4. c \in Contexts /\ Sound(c) /\ c.allow \in [Sources -> SUBSET Rules]
        /\ c.mode \in Modes /\ c.stripped \in [Sources -> SUBSET Rules]
    BY DEF ContextInv, RuleTypes, Contexts
  <2>5. Context' \in Contexts
    <3>1. allow' \in [Sources -> SUBSET Rules]
      BY <2>2, <2>3, <2>4
    <3> QED
      BY <2>3, <2>4, <3>1 DEF Contexts, Context
  <2>6. Sound(Context)'
    <3>1. ASSUME NEW s \in Sources \ {"session"} PROVE allow'[s] = c.allow[s]
      BY <2>3, <2>4, <3>1
    <3>2. allow'["session"] = c.allow["session"] \cup {<<dialog, "whole">>}
      BY <2>2, <2>3, <2>4
    <3>3. {<<t, "whole">> : t \in granted'}
            = {<<t, "whole">> : t \in granted} \cup {<<dialog, "whole">>}
      BY <2>1
    <3>4. \A s \in Sources :
              allow'[s] \cup stripped'[s] =
                  AllowAtStart'[s] \cup
                  (IF s = "session" THEN {<<t, "whole">> : t \in granted'} ELSE {})
      BY <2>1, <2>3, <2>4, <3>1, <3>2, <3>3 DEF Sound, Kept
    <3>5. mode' = "auto" => \A s \in Sources : allow'[s] \cap DangerousPatterns = {}
      BY <2>2, <2>3, <2>4, <3>1, <3>2 DEF Sound, Kept
    <3> QED
      BY <2>3, <2>4, <3>4, <3>5 DEF Sound, Kept, Context, Nothing
  <2>7. RuleTypes' /\ (\A d \in Held : Sound(d))'
    BY <2>1, <2>2, <2>5, <2>6 DEF ContextInv, RuleTypes, Held
  <2>8. DialogAllowed' /\ GrantLasts'
    BY <2>1, <2>2, PermissionsAssumption DEF DialogAllowed, GrantLasts, ContextInv, RuleTypes
  <2>9. RulesRespected'
    BY <2>1 DEF ContextInv, DialogAllowed, RulesRespected, Covers
  <2> QED
    BY <2>7, <2>8, <2>9 DEF ContextInv
<1>5. ASSUME AllowByMode PROVE ContextInv'
  <2>1. Context' \in Contexts /\ Sound(Context)'
    BY <1>5, TransitionKeeps DEF AllowByMode, Modes
  <2> QED
    BY <1>5, <2>1, AnswerKeeps DEF AllowByMode
<1>6. CASE UNCHANGED contextVars
  <2>1. UNCHANGED <<fileVars, granted, deny, ask, Context, outdated, dialog, ran>>
    BY <1>6 DEF contextVars, ruleVars, dialogVars, Context
  <2>2. \A c \in Held : Sound(c)'
    BY <1>0, <2>1, SoundKept DEF Held
  <2> QED
    BY <2>1, <2>2 DEF ContextInv, RuleTypes, Held, DialogAllowed, RulesRespected, GrantLasts, Covers
<1> QED
  BY <1>1, <1>2, <1>3, <1>4, <1>5, <1>6 DEF ChangeContext, AnswerDialog

-----------------------------------------------------------------------------
\* The part of ContextTypeOK that ContextInv says nothing about.
RestTypes ==
    /\ settings \subseteq Setting /\ managed \in BOOLEAN /\ chosen \in Modes /\ ask \subseteq Rules
    /\ ran \in (Tools \X BOOLEAN) \cup {NoRun}

LEMMA RestInit == InitContext => RestTypes
<1> SUFFICES ASSUME InitContext PROVE RestTypes
  OBVIOUS
<1>1. settings \subseteq Setting
  BY DEF InitContext
<1> QED
  BY <1>1, LoadedRules DEF InitContext, RestTypes

LEMMA RestStep ==
  ASSUME ContextInv, RestTypes, [ChangeContext]_contextVars
  PROVE  RestTypes'
<1>1. /\ dialog \in Tools \cup {NoTool} /\ settings \subseteq Setting /\ managed \in BOOLEAN
      /\ chosen \in Modes /\ ask \subseteq Rules /\ ran \in (Tools \X BOOLEAN) \cup {NoRun}
  BY DEF ContextInv, RuleTypes, RestTypes
<1>2. ASSUME NEW new \in Modes, SetMode(new) PROVE RestTypes'
  BY <1>1, <1>2 DEF SetMode, fileVars, RestTypes
<1>3. ASSUME NEW t \in Tools, CallTool(t) PROVE RestTypes'
  <2>1. UNCHANGED <<fileVars, chosen, ask>> /\ (ran' = ran \/ ran' = <<t, FALSE>>)
    BY <1>3 DEF CallTool, ruleVars
  <2>2. <<t, FALSE>> \in Tools \X BOOLEAN
    OBVIOUS
  <2>3. ran' \in (Tools \X BOOLEAN) \cup {NoRun}
    BY <1>1, <2>1, <2>2
  <2> QED
    BY <1>1, <2>1, <2>3 DEF fileVars, RestTypes
<1>4. CASE AnswerDialog
  <2>1. UNCHANGED <<fileVars, ask>>
    BY <1>4 DEF AnswerDialog, AllowOnce, AllowSession, AllowByMode, Refuse, ruleVars
  <2>2. chosen' \in Modes
    <3>1. chosen' = chosen \/ chosen' \in {"auto", "bypassPermissions"}
      BY <1>4 DEF AnswerDialog, AllowOnce, AllowSession, AllowByMode, Refuse
    <3> QED
      BY <1>1, <3>1 DEF Modes
  <2>3. ran' \in (Tools \X BOOLEAN) \cup {NoRun}
    <3>1. ran' = ran \/ (dialog \in Tools /\ ran' = <<dialog, TRUE>>)
      BY <1>1, <1>4 DEF AnswerDialog, AllowOnce, AllowSession, AllowByMode, Refuse
    <3>2. dialog \in Tools => <<dialog, TRUE>> \in Tools \X BOOLEAN
      OBVIOUS
    <3> QED
      BY <1>1, <3>1, <3>2
  <2> QED
    BY <1>1, <2>1, <2>2, <2>3 DEF fileVars, RestTypes
<1>5. CASE UNCHANGED contextVars
  BY <1>1, <1>5 DEF contextVars, fileVars, ruleVars, RestTypes
<1> QED
  BY <1>2, <1>3, <1>4, <1>5 DEF ChangeContext

-----------------------------------------------------------------------------
\* The inductive invariant holds in every reachable state of the context.
THEOREM ContextInvariant == ContextSpec => []ContextInv
  BY ContextInit, ContextStep, PTL DEF ContextSpec

\* transition_permission_mode loses no allow rule, invents none and leaves none with a
\* dangerous pattern in force in auto mode, whatever the sequence of modes, grants and
\* answers, with the mode moving before an open dialog too.
THEOREM RulesKeptHolds == ContextSpec => []RulesKept
<1>1. ContextInv => RulesKept
  BY DEF ContextInv, Held, Sound, RulesKept
<1> QED
  BY <1>1, ContextInvariant, PTL

\* has_permissions_to_use_tool respects deny and ask rules in every mode.
THEOREM RulesRespectedHolds == ContextSpec => []RulesRespected
<1>1. ContextInv => RulesRespected
  BY DEF ContextInv
<1> QED
  BY <1>1, ContextInvariant, PTL

\* "Allow Session" lasts through every later change of the mode, and through the
\* contexts that later answers bring back.
THEOREM GrantLastsHolds == ContextSpec => []GrantLasts
<1>1. ContextInv => GrantLasts
  BY DEF ContextInv
<1> QED
  BY <1>1, ContextInvariant, PTL

\* The permission context keeps its types.
THEOREM ContextTypeCorrect == ContextSpec => []ContextTypeOK
<1>1. ContextInv /\ RestTypes => ContextTypeOK
  BY DEF ContextInv, RuleTypes, Held, Contexts, Context, RestTypes, ContextTypeOK
<1>2. InitContext => ContextInv /\ RestTypes
  BY ContextInit, RestInit
<1>3. ContextInv /\ RestTypes /\ [ChangeContext]_contextVars => (ContextInv /\ RestTypes)'
  BY ContextStep, RestStep
<1> QED
  BY <1>1, <1>2, <1>3, PTL DEF ContextSpec
=============================================================================
