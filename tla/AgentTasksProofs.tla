-------------------------- MODULE AgentTasksProofs ---------------------------
(***************************************************************************)
(* What AgentTasks says of its safety, for any agents, rounds and prompts. *)
(* Below it, what Decisions says of requests to the model, of compaction   *)
(* and of sub-agents, from SubAgentsProofs.                                *)
(***************************************************************************)
EXTENDS AgentTasks, Decisions, SubAgentsProofs, FiniteSetTheorems, TLAPS

USE AgentTasksAssumption

Receivers == Agents \cup {Main}

-----------------------------------------------------------------------------
(* The inductive invariant.  A note is pending once or held once, from the *)
(* end of its agent's run on, and that end has settled the task.           *)

Tracked ==
    \A a \in Background :
        /\ pc[a] = "unborn" <=> status[a] = "none"
        /\ pc[a] = "ended" => status[a] \in Terminal
        /\ pc[a] = "ended" <=> a \in notified

Announced ==
    \A a \in Background :
        a \in notified <=> Waiting(a) # {} \/ \E c \in Receivers : Holding(a, c)

PendingOnce ==
    \A i, j \in DOMAIN pending : pending[i].agent = pending[j].agent => i = j

OneHolder ==
    \A a \in Background :
        /\ \A c, d \in Receivers : Holding(a, c) /\ Holding(a, d) => c = d
        /\ Waiting(a) # {} => \A c \in Receivers : ~Holding(a, c)

NoteInv == Announced /\ PendingOnce /\ OneHolder
IInv == TypeOK /\ Tracked /\ NoteInv

-----------------------------------------------------------------------------
(* Notes change hands.                                                     *)

\* A drain takes all that is pending into one conversation.
LEMMA DrainMoves ==
  ASSUME NEW c \in Receivers, TypeOK, NoteInv, DrainInto(c), UNCHANGED notified
  PROVE  /\ NoteInv'
         /\ pending' \in Seq(Note)
         /\ delivered' \in [Receivers -> SUBSET Note]
<1>1. /\ pending' = <<>> /\ pending \in Seq(Note)
      /\ delivered \in [Receivers -> SUBSET Note]
      /\ delivered' = [delivered EXCEPT ![c] = @ \cup NoteSet(pending)]
  BY DEF DrainInto, AllTaken, TypeOK, Receivers
<1>2. NoteSet(pending) \subseteq Note
  BY <1>1 DEF NoteSet
<1>3. \A a \in Background : Waiting(a)' = {}
  BY <1>1 DEF Waiting
<1>4. \A a \in Background, d \in Receivers :
         Holding(a, d)' <=> Holding(a, d) \/ (d = c /\ Waiting(a) # {})
  BY <1>1 DEF Holding, Waiting, NoteSet
<1>5. Announced' /\ OneHolder'
  BY <1>3, <1>4 DEF Announced, OneHolder, NoteInv
<1>6. PendingOnce'
  BY <1>1 DEF PendingOnce
<1> QED
  BY <1>1, <1>2, <1>5, <1>6 DEF NoteInv

\* The main conversation takes the first of the pending notes.
LEMMA HeadMoves ==
  ASSUME TypeOK, NoteInv, UNCHANGED notified, pending # <<>>,
         delivered' = [delivered EXCEPT ![Main] = @ \cup {Head(pending)}],
         pending' = Tail(pending)
  PROVE  /\ NoteInv'
         /\ pending' \in Seq(Note)
         /\ delivered' \in [Receivers -> SUBSET Note]
<1>1. /\ pending \in Seq(Note) /\ pending' \in Seq(Note) /\ Main \in Receivers
      /\ delivered \in [Receivers -> SUBSET Note]
      /\ Head(pending) = pending[1] /\ Head(pending) \in Note
  BY DEF TypeOK, Receivers
<1>2. /\ DOMAIN pending' = 1 .. (Len(pending) - 1)
      /\ \A i \in DOMAIN pending' : pending'[i] = pending[i + 1] /\ i + 1 \in DOMAIN pending
      /\ 1 \in DOMAIN pending
      /\ \A i \in DOMAIN pending : i # 1 => i - 1 \in DOMAIN pending' /\ pending'[i - 1] = pending[i]
  BY <1>1
<1>3. PendingOnce'
  BY <1>1, <1>2 DEF PendingOnce, NoteInv
<1>4. \A a \in Background : Waiting(a)' # {} => Waiting(a) # {} /\ a # pending[1].agent
  BY <1>1, <1>2 DEF Waiting, PendingOnce, NoteInv
<1>5. \A a \in Background : Waiting(a) # {} => Waiting(a)' # {} \/ a = pending[1].agent
  <2> SUFFICES ASSUME NEW a \in Background, NEW i \in Waiting(a), a # pending[1].agent
               PROVE  Waiting(a)' # {}
    OBVIOUS
  <2>1. i \in DOMAIN pending /\ pending[i].agent = a /\ i # 1
    BY DEF Waiting
  <2>2. i - 1 \in Waiting(a)'
    BY <1>2, <2>1 DEF Waiting
  <2> QED
    BY <2>2
<1>6. \A a \in Background, d \in Receivers :
         Holding(a, d)' <=> Holding(a, d) \/ (d = Main /\ a = pending[1].agent)
  BY <1>1 DEF Holding
<1>7. \A a \in Background : a = pending[1].agent => Waiting(a) # {}
  BY <1>2 DEF Waiting
<1>8. Announced'
  BY <1>1, <1>4, <1>5, <1>6, <1>7 DEF Announced, NoteInv
<1>9. OneHolder'
  BY <1>1, <1>4, <1>6, <1>7 DEF OneHolder, NoteInv
<1> QED
  BY <1>1, <1>3, <1>8, <1>9 DEF NoteInv

\* The end of an agent that has not announced itself adds its only note.
LEMMA AnnounceAdds ==
  ASSUME NEW a \in Background, NEW outcome \in {"completed", "failed"},
         TypeOK, NoteInv, a \notin notified, Announce(a, outcome), UNCHANGED delivered
  PROVE  NoteInv' /\ pending' \in Seq(Note)
<1> DEFINE n == [agent |-> a, status |-> outcome]
<1>1. pending' = Append(pending, n) /\ pending \in Seq(Note) /\ notified' = notified \cup {a}
  BY DEF Announce, Announces, TypeOK
<1>2. n \in Note
  BY DEF Note
<1>3. /\ DOMAIN pending' = DOMAIN pending \cup {Len(pending) + 1}
      /\ Len(pending) + 1 \notin DOMAIN pending
      /\ \A i \in DOMAIN pending : pending'[i] = pending[i]
      /\ pending'[Len(pending) + 1] = n
  BY <1>1, <1>2
<1>4. /\ \A i \in DOMAIN pending : pending[i].agent # a
      /\ \A c \in Receivers : ~Holding(a, c)
  BY DEF NoteInv, Announced, Waiting
<1>5. PendingOnce'
  BY <1>3, <1>4 DEF PendingOnce, NoteInv
<1>6. \A b \in Background : Waiting(b)' # {} <=> Waiting(b) # {} \/ b = a
  BY <1>3 DEF Waiting
<1>7. \A b \in Background, c \in Receivers : Holding(b, c)' <=> Holding(b, c)
  BY DEF Holding
<1>8. Announced'
  BY <1>1, <1>6, <1>7 DEF Announced, NoteInv
<1>9. OneHolder'
  BY <1>4, <1>6, <1>7 DEF OneHolder, NoteInv
<1> QED
  BY <1>1, <1>2, <1>5, <1>8, <1>9 DEF NoteInv

\* Nothing is announced and nothing taken.
LEMMA NotesStay ==
  ASSUME NoteInv, UNCHANGED <<notified, pending, delivered>>
  PROVE  NoteInv'
<1>1. Announced'
  BY DEF NoteInv, Announced, Waiting, Holding
<1>2. PendingOnce'
  BY DEF NoteInv, PendingOnce
<1>3. OneHolder'
  BY DEF NoteInv, OneHolder, Waiting, Holding
<1> QED
  BY <1>1, <1>2, <1>3 DEF NoteInv

-----------------------------------------------------------------------------
(* The invariant is inductive.                                             *)

LEMMA InitHolds == Init => IInv
<1> SUFFICES ASSUME Init PROVE IInv
  OBVIOUS
<1>1. TypeOK
  <2>1. pending \in Seq(Note)
    BY DEF Init
  <2>2. delivered \in [Agents \cup {Main} -> SUBSET Note]
    BY DEF Init
  <2>3. /\ rounds \in [Agents -> 0 .. MaxRounds] /\ prompts \in 0 .. MaxPrompts
        /\ pc \in [Agents -> {"unborn", "running", "ended"}]
        /\ status \in [Background -> {"none", "running"} \cup Terminal]
    BY DEF Init
  <2> QED
    BY <2>1, <2>2, <2>3 DEF Init, TypeOK
<1>2. Tracked
  BY DEF Init, Tracked, Agents
<1>3. \A a \in Background : Waiting(a) = {}
  BY DEF Init, Waiting
<1>4. \A a \in Background, c \in Receivers : ~Holding(a, c)
  BY DEF Init, Holding, Receivers
<1>5. NoteInv
  BY <1>3, <1>4 DEF Init, NoteInv, Announced, PendingOnce, OneHolder
<1> QED
  BY <1>1, <1>2, <1>5 DEF IInv

LEMMA StepHolds == IInv /\ [Next]_vars => IInv'
<1> SUFFICES ASSUME IInv, [Next]_vars PROVE IInv'
  OBVIOUS
<1> USE DEF mainVars, agentVars, taskVars, noteVars
<1>0. TypeOK /\ Tracked /\ NoteInv
  BY DEF IInv
<1>1. CASE MainRound
  <2>1. DrainInto(Main) /\ UNCHANGED <<mainVars, agentVars, taskVars>> /\ Main \in Receivers
    BY <1>1 DEF MainRound, Receivers
  <2>2. NoteInv' /\ pending' \in Seq(Note) /\ delivered' \in [Receivers -> SUBSET Note]
    BY <1>0, <2>1, DrainMoves
  <2> QED
    BY <1>0, <2>1, <2>2 DEF IInv, TypeOK, Tracked, Receivers
<1>2. CASE UserPrompt
  <2>1. NoteInv'
    BY <1>0, <1>2, NotesStay DEF UserPrompt
  <2> QED
    BY <1>0, <1>2, <2>1 DEF UserPrompt, IInv, TypeOK, Tracked
<1>3. CASE MainEnds
  <2>1. UNCHANGED <<prompts, awaited, agentVars, taskVars>> /\ turn' \in BOOLEAN
    BY <1>0, <1>3 DEF MainEnds, TypeOK
  <2>2. CASE UNCHANGED noteVars
    BY <1>0, <2>1, <2>2, NotesStay DEF IInv, TypeOK, Tracked
  <2>3. CASE /\ pending # <<>>
             /\ delivered' = [delivered EXCEPT ![Main] = @ \cup {Head(pending)}]
             /\ pending' = Tail(pending)
    <3>1. NoteInv' /\ pending' \in Seq(Note) /\ delivered' \in [Receivers -> SUBSET Note]
      BY <1>0, <2>1, <2>3, HeadMoves
    <3> QED
      BY <1>0, <2>1, <3>1 DEF IInv, TypeOK, Tracked, Receivers
  <2> QED
    BY <1>3, <2>2, <2>3 DEF MainEnds
<1>4. ASSUME NEW a \in Background, Launch(a)
      PROVE  IInv'
  <2>1. NoteInv'
    BY <1>0, <1>4, NotesStay DEF Launch
  <2> QED
    BY <1>0, <1>4, <2>1 DEF Launch, IInv, TypeOK, Tracked, Terminal, Agents
<1>5. ASSUME NEW a \in Background, Stop(a)
      PROVE  IInv'
  <2>1. NoteInv'
    BY <1>0, <1>5, NotesStay DEF Stop
  <2> QED
    BY <1>0, <1>5, <2>1 DEF Stop, IInv, TypeOK, Tracked, Terminal, Agents
<1>6. ASSUME NEW a \in Agents, AgentRound(a)
      PROVE  IInv'
  <2>1. /\ DrainInto(a) /\ UNCHANGED <<mainVars, pc, taskVars>> /\ a \in Receivers
        /\ rounds' \in [Agents -> 0 .. MaxRounds]
    BY <1>0, <1>6 DEF AgentRound, Receivers, TypeOK
  <2>2. NoteInv' /\ pending' \in Seq(Note) /\ delivered' \in [Receivers -> SUBSET Note]
    BY <1>0, <2>1, DrainMoves
  <2> QED
    BY <1>0, <2>1, <2>2 DEF IInv, TypeOK, Tracked, Receivers
<1>7. ASSUME NEW a \in Background, BackgroundEnds(a)
      PROVE  IInv'
  <2>1. PICK outcome \in {"completed", "failed"} : Settle(a, outcome) /\ Announce(a, outcome)
    BY <1>7 DEF BackgroundEnds
  <2>2. /\ pc[a] = "running" /\ pc' = [pc EXCEPT ![a] = "ended"]
        /\ UNCHANGED <<mainVars, rounds, delivered>> /\ a \in Agents
    BY <1>7 DEF BackgroundEnds, Agents
  <2>3. a \notin notified
    BY <1>0, <2>2 DEF Tracked
  <2>4. NoteInv' /\ pending' \in Seq(Note)
    BY <1>0, <2>1, <2>2, <2>3, AnnounceAdds
  <2>5. /\ notified' = notified \cup {a}
        /\ status' \in [Background -> {"none", "running"} \cup Terminal]
        /\ \A b \in Background : b # a => status'[b] = status[b]
        /\ status'[a] \in Terminal
    <3>1. status[a] # "none"
      BY <1>0, <2>2 DEF Tracked
    <3> QED
      BY <1>0, <2>1, <2>2, <3>1 DEF Settle, StillRunning, Announce, TypeOK, Terminal
  <2>6. Tracked'
    BY <1>0, <2>2, <2>5 DEF Tracked, TypeOK, Terminal
  <2>7. TypeOK'
    BY <1>0, <2>2, <2>4, <2>5 DEF TypeOK
  <2> QED
    BY <2>4, <2>6, <2>7 DEF IInv
<1>8. ASSUME NEW a \in Foreground, Call(a)
      PROVE  IInv'
  <2>1. NoteInv'
    BY <1>0, <1>8, NotesStay DEF Call
  <2>2. a \in Agents /\ a \notin Background
    BY DEF Agents
  <2> QED
    BY <1>0, <1>8, <2>1, <2>2 DEF Call, IInv, TypeOK, Tracked
<1>9. ASSUME NEW a \in Foreground, ForegroundEnds(a)
      PROVE  IInv'
  <2>1. NoteInv'
    BY <1>0, <1>9, NotesStay DEF ForegroundEnds
  <2>2. a \in Agents /\ a \notin Background
    BY DEF Agents
  <2> QED
    BY <1>0, <1>9, <2>1, <2>2 DEF ForegroundEnds, IInv, TypeOK, Tracked
<1>10. CASE UNCHANGED vars
  <2>1. NoteInv'
    BY <1>0, <1>10, NotesStay DEF vars
  <2> QED
    BY <1>0, <1>10, <2>1 DEF vars, IInv, TypeOK, Tracked
<1> QED
  BY <1>1, <1>2, <1>3, <1>4, <1>5, <1>6, <1>7, <1>8, <1>9, <1>10
     DEF Next, MainStep, BackgroundStep, ForegroundStep, Agents

\* The state is of its type and the invariant holds in it.
THEOREM TypeCorrect == Spec => []TypeOK
<1>1. IInv => TypeOK
  BY DEF IInv
<1> QED
  BY InitHolds, StepHolds, <1>1, PTL DEF Spec

-----------------------------------------------------------------------------
(* The properties.                                                         *)

\* What a background agent announced is pending once or in one conversation,
\* whichever of the engines drains the list and however many agents there are.
THEOREM NoticeOnceHolds == Spec => []NoticeOnce
<1>1. IInv => NoticeOnce
  <2> SUFFICES ASSUME IInv, NEW a \in Background
               PROVE  /\ Cardinality(Waiting(a)) <= 1
                      /\ \A c, d \in Agents \cup {Main} : Holding(a, c) /\ Holding(a, d) => c = d
                      /\ Waiting(a) # {} => \A c \in Agents \cup {Main} : ~Holding(a, c)
    BY DEF NoticeOnce
  <2>1. CASE Waiting(a) = {}
    BY <2>1, FS_EmptySet DEF IInv, NoteInv, OneHolder, Receivers
  <2>2. CASE Waiting(a) # {}
    <3>1. PICK i : i \in Waiting(a)
      BY <2>2
    <3>2. Waiting(a) = {i}
      BY <3>1 DEF Waiting, IInv, NoteInv, PendingOnce
    <3>3. Cardinality(Waiting(a)) = 1
      BY <3>2, FS_Singleton
    <3> QED
      BY <3>3 DEF IInv, NoteInv, OneHolder, Receivers
  <2> QED
    BY <2>1, <2>2
<1> QED
  BY InitHolds, StepHolds, <1>1, PTL DEF Spec

\* An agent whose run is over has a settled task and has been announced, also
\* when it was stopped on the way.
THEOREM EndedIsSettledHolds == Spec => []EndedIsSettled
<1>1. IInv => EndedIsSettled
  BY DEF IInv, Tracked, NoteInv, Announced, EndedIsSettled, Receivers
<1> QED
  BY InitHolds, StepHolds, <1>1, PTL DEF Spec

\* No step gives a settled task another status: an agent that was stopped and
\* runs on does not relabel its task when it ends.
THEOREM StatusFinalHolds == Spec => StatusFinal
<1> DEFINE Final == \A a \in Background : status[a] \in Terminal => status'[a] = status[a]
<1>1. IInv /\ [Next]_vars => [Final]_vars
  <2> SUFFICES ASSUME IInv, Next PROVE Final
    OBVIOUS
  <2> USE DEF mainVars, agentVars, taskVars, noteVars
  <2>1. status \in [Background -> {"none", "running"} \cup Terminal] /\ Tracked
    BY DEF IInv, TypeOK
  <2>2. ASSUME NEW a \in Background, Launch(a) PROVE Final
    BY <2>1, <2>2 DEF Launch, Tracked, Terminal
  <2>3. ASSUME NEW a \in Background, Stop(a) PROVE Final
    BY <2>1, <2>3 DEF Stop, Terminal
  <2>4. ASSUME NEW a \in Background, BackgroundEnds(a) PROVE Final
    BY <2>1, <2>4 DEF BackgroundEnds, Settle, StillRunning, Terminal
  <2>5. CASE UNCHANGED status
    BY <2>5
  <2> QED
    BY <2>2, <2>3, <2>4, <2>5
       DEF Next, MainStep, MainRound, UserPrompt, MainEnds, BackgroundStep, ForegroundStep,
           AgentRound, Call, ForegroundEnds
<1> QED
  BY InitHolds, StepHolds, <1>1, PTL DEF Spec, StatusFinal

-----------------------------------------------------------------------------
(* The inputs of which SubAgentsProofs shows what is true; Decisions takes *)
(* them among others.                                                      *)

LEMMA OtherInputs ==
  ASSUME Decide PROVE AnyInput
<1> USE DEF Proved
<1>1. ASSUME EditMcpFile \/ NameTool \/ OfferTools
      PROVE  input'.part \notin Proved
  <2>1. CASE EditMcpFile
    BY <2>1 DEF EditMcpFile
  <2>2. CASE NameTool
    BY <2>2 DEF NameTool
  <2>3. CASE OfferTools
    BY <2>3 DEF OfferTools
  <2> QED
    BY <1>1, <2>1, <2>2, <2>3
<1>2. ASSUME AddMcpServer \/ ChangeMcpServers \/ ExpandVariables \/ StoreTokens
      PROVE  input'.part \notin Proved
  <2>1. CASE AddMcpServer
    BY <2>1 DEF AddMcpServer
  <2>2. CASE ChangeMcpServers
    BY <2>2 DEF ChangeMcpServers
  <2>3. CASE ExpandVariables
    BY <2>3 DEF ExpandVariables
  <2>4. CASE StoreTokens
    BY <2>4 DEF StoreTokens
  <2> QED
    BY <1>2, <2>1, <2>2, <2>3, <2>4
<1>3. ASSUME LoadSkills \/ ChangeCommands \/ PressKeys \/ SuggestCommands \/ ScrollView
      PROVE  input'.part \notin Proved
  <2>1. CASE LoadSkills
    BY <2>1 DEF LoadSkills
  <2>2. CASE ChangeCommands
    BY <2>2 DEF ChangeCommands
  <2>3. CASE PressKeys
    BY <2>3 DEF PressKeys
  <2>4. CASE SuggestCommands
    BY <2>4 DEF SuggestCommands
  <2>5. CASE ScrollView
    BY <2>5 DEF ScrollView
  <2> QED
    BY <1>3, <2>1, <2>2, <2>3, <2>4, <2>5
<1>4. ASSUME ReadRule \/ ChangeRules \/ SyncRules
      PROVE  input'.part \notin Proved
  <2>1. CASE ReadRule
    BY <2>1 DEF ReadRule
  <2>2. CASE ChangeRules
    BY <2>2 DEF ChangeRules
  <2>3. CASE SyncRules
    BY <2>3 DEF SyncRules
  <2> QED
    BY <1>4, <2>1, <2>2, <2>3
<1>5. ASSUME AssemblePrompt \/ GiveTexts \/ FindInstructions \/ IdentifyModel
      PROVE  input'.part \notin Proved
  <2>1. CASE AssemblePrompt
    BY <2>1 DEF AssemblePrompt
  <2>2. CASE GiveTexts
    BY <2>2 DEF GiveTexts
  <2>3. CASE FindInstructions
    BY <2>3 DEF FindInstructions
  <2>4. CASE IdentifyModel
    BY <2>4 DEF IdentifyModel
  <2> QED
    BY <1>5, <2>1, <2>2, <2>3, <2>4
<1>6. ASSUME EditFile \/ ShowDiff \/ ReadPieces
      PROVE  input'.part \notin Proved
  <2>1. CASE EditFile
    BY <2>1 DEF EditFile
  <2>2. CASE ShowDiff
    BY <2>2 DEF ShowDiff
  <2>3. CASE ReadPieces
    BY <2>3 DEF ReadPieces
  <2> QED
    BY <1>6, <2>1, <2>2, <2>3
<1>7. ASSUME EditNotebook \/ Search \/ RunCommand
      PROVE  input'.part \notin Proved
  <2>1. CASE EditNotebook
    BY <2>1 DEF EditNotebook
  <2>2. CASE Search
    BY <2>2 DEF Search
  <2>3. CASE RunCommand
    BY <2>3 DEF RunCommand
  <2> QED
    BY <1>7, <2>1, <2>2, <2>3
<1>8. ASSUME CutIndex \/ OpenMemory \/ RecallMemories
      PROVE  input'.part \notin Proved
  <2>1. CASE CutIndex
    BY <2>1 DEF CutIndex
  <2>2. CASE OpenMemory
    BY <2>2 DEF OpenMemory
  <2>3. CASE RecallMemories
    BY <2>3 DEF RecallMemories
  <2> QED
    BY <1>8, <2>1, <2>2, <2>3
<1>9. ASSUME CutNotes \/ TakeNotes
      PROVE  input'.part \notin Proved
  <2>1. CASE CutNotes
    BY <2>1 DEF CutNotes
  <2>2. CASE TakeNotes
    BY <2>2 DEF TakeNotes
  <2> QED
    BY <1>9, <2>1, <2>2
<1> QED
  BY <1>1, <1>2, <1>3, <1>4, <1>5, <1>6, <1>7, <1>8, <1>9 DEF Decide, AnyInput, AgentInput

\* retry.py and client.py, for every sequence of answers and calls and any number of
\* retries: no error that may pass is raised while retries are left, the third overload
\* in a row is, and a sub-agent has the client of its parent.
THEOREM RequestsAreRetriedHolds == DecisionsSpec => []RequestsAreRetried
<1>1. NoInput => RequestInv
  BY DEF NoInput, RequestInv
<1>2. [Decide]_input => [AnyInput]_input
  BY OtherInputs
<1> QED
  BY <1>1, <1>2, RequestStep, RequestMeans, PTL DEF DecisionsSpec

\* compact.py and auto_compact.py, for every history, every sequence of answers of the
\* model and any number of retries and turns: what is sent to be summarised is an end of
\* the history that begins with its prompt or with a whole round and gets shorter, a
\* history that could not be summarised is kept, and no attempt is made after three
\* failures in a row.
THEOREM CompactsOrKeepsHolds == DecisionsSpec => []CompactsOrKeeps
<1>1. NoInput => CompactInv
  BY DEF NoInput, CompactInv
<1>2. [Decide]_input => [AnyInput]_input
  BY OtherInputs
<1> QED
  BY <1>1, <1>2, CompactStep, CompactMeans, PTL DEF DecisionsSpec

\* agent_tool_utils.py, load_agents_dir.py, fork_subagent.py, team_helpers.py and
\* run_agent.py, for every sequence of files, conversation, history of a team and run:
\* each file that can be read and names an agent is one or is reported, unless one of
\* them cannot be decoded, and each type has one agent; a sub-agent keeps to its tools,
\* its conversation has a result for every call, a change of a team keeps in their
\* order those whom it does not name, and its answer is the last it gave.
THEOREM SubAgentsAreSetUpHolds == DecisionsSpec => []SubAgentsAreSetUp
<1>1. NoInput => SubAgentsInv
  BY DEF NoInput, SubAgentsInv
<1>2. [Decide]_input => [AnyInput]_input
  BY OtherInputs
<1> QED
  BY <1>1, <1>2, SubAgentsStep, SubAgentsMean, PTL DEF DecisionsSpec
=============================================================================
