----------------------------- MODULE AgentTasks ------------------------------
(***************************************************************************)
(* Sub-agents and their notifications: tasks/local_agent_task.py, the      *)
(* Agent tool and run_async_agent_lifecycle, the TaskStop tool, and the    *)
(* part of QueryEngine that hands notifications to a conversation.         *)
(*                                                                         *)
(* A foreground agent runs inside a tool call of the main conversation's   *)
(* turn; a background agent is an asyncio task of its own.  Every agent    *)
(* runs the same engine as the main conversation, over the same queue.     *)
(* Nothing suspends while it holds _tasks_lock, and no await lies between  *)
(* the end of an agent's stream and its notification, so that each of      *)
(* these is one step.                                                      *)
(***************************************************************************)
EXTENDS Naturals, Sequences, FiniteSets

CONSTANTS Background,   \* agents launched with run_in_background
          Foreground,   \* agents the main conversation waits for
          MaxRounds,    \* bound: tool rounds per agent
          MaxPrompts    \* bound: prompts of the user

ASSUME AgentTasksAssumption ==
    /\ Background \cap Foreground = {}
    /\ MaxRounds \in Nat /\ MaxPrompts \in Nat

Agents == Background \cup Foreground
Main == "main"
Nobody == "nobody"

VARIABLES
    turn,        \* a turn of the main conversation is running
    prompts,     \* prompts the user has typed
    awaited,     \* the foreground agent whose tool call is being awaited
    pc,          \* per agent: its run
    rounds,      \* per agent: tool rounds so far
    status,      \* _tasks[a].status of the background agents
    notified,    \* _tasks[a].notified
    pending,     \* _pending_notifications and the queue they are moved to
    delivered    \* per conversation: the notifications it has received

mainVars == <<turn, prompts, awaited>>
agentVars == <<pc, rounds>>
taskVars == <<status, notified>>
noteVars == <<pending, delivered>>
vars == <<mainVars, agentVars, taskVars, noteVars>>

Terminal == {"completed", "failed", "killed"}
Note == [agent : Background, status : {"completed", "failed"}]

TypeOK ==
    /\ turn \in BOOLEAN
    /\ prompts \in 0 .. MaxPrompts
    /\ awaited \in Foreground \cup {Nobody}
    /\ pc \in [Agents -> {"unborn", "running", "ended"}]
    /\ rounds \in [Agents -> 0 .. MaxRounds]
    /\ status \in [Background -> {"none", "running"} \cup Terminal]
    /\ notified \subseteq Background
    /\ pending \in Seq(Note)
    /\ delivered \in [Agents \cup {Main} -> SUBSET Note]

Init ==
    /\ turn = FALSE /\ prompts = 0 /\ awaited = Nobody
    /\ pc = [a \in Agents |-> "unborn"]
    /\ rounds = [a \in Agents |-> 0]
    /\ status = [a \in Background |-> "none"]
    /\ notified = {}
    /\ pending = <<>>
    /\ delivered = [c \in Agents \cup {Main} |-> {}]

NoteSet(notes) == {notes[i] : i \in DOMAIN notes}

-----------------------------------------------------------------------------
(* The engine and the queue.                                               *)

\* Mutant: drain_pending_notifications does not clear the list.
NothingTaken == pending
AllTaken == <<>>

\* _drain_mid_turn_commands of the engine that runs conversation c: all that is
\* pending goes into that conversation.
DrainInto(c) ==
    /\ delivered' = [delivered EXCEPT ![c] = @ \cup NoteSet(pending)]
    /\ pending' = AllTaken

\* The main conversation's turn is between two requests, not in a tool call.
MainRound ==
    /\ turn /\ awaited = Nobody
    /\ pending # <<>>
    /\ DrainInto(Main)
    /\ UNCHANGED <<mainVars, agentVars, taskVars>>

UserPrompt ==
    /\ ~turn /\ prompts < MaxPrompts
    /\ turn' = TRUE
    /\ prompts' = prompts + 1
    /\ UNCHANGED <<awaited, agentVars, taskVars, noteVars>>

\* The turn ends; _process_queue_if_ready starts one for the next notification.
MainEnds ==
    /\ turn /\ awaited = Nobody
    /\ \/ /\ pending = <<>>
          /\ turn' = FALSE
          /\ UNCHANGED noteVars
       \/ /\ pending # <<>>
          /\ delivered' = [delivered EXCEPT ![Main] = @ \cup {Head(pending)}]
          /\ pending' = Tail(pending)
          /\ UNCHANGED turn
    /\ UNCHANGED <<prompts, awaited, agentVars, taskVars>>

-----------------------------------------------------------------------------
(* Launching and stopping: tool calls of the main conversation.            *)

\* AgentTool._run_async: register_async_agent, then create_task.
Launch(a) ==
    /\ turn /\ awaited = Nobody
    /\ pc[a] = "unborn"
    /\ pc' = [pc EXCEPT ![a] = "running"]
    /\ status' = [status EXCEPT ![a] = "running"]
    /\ UNCHANGED <<mainVars, rounds, notified, noteVars>>

\* AgentTool._run_sync, as far as run_agent.
Call(a) ==
    /\ turn /\ awaited = Nobody
    /\ pc[a] = "unborn"
    /\ pc' = [pc EXCEPT ![a] = "running"]
    /\ awaited' = a
    /\ UNCHANGED <<turn, prompts, rounds, taskVars, noteVars>>

\* TaskStop, called by the main conversation or by the agent it waits for:
\* kill_async_agent marks the task and sets its abort event.  Nothing waits for
\* that event: the lifecycle gives it to the handoff stub only.
Stop(a) ==
    /\ turn
    /\ status[a] = "running"
    /\ status' = [status EXCEPT ![a] = "killed"]
    /\ UNCHANGED <<mainVars, agentVars, notified, noteVars>>

-----------------------------------------------------------------------------
(* The agents.                                                             *)

\* A reply with tool calls, their execution, and the drain behind them.
AgentRound(a) ==
    /\ pc[a] = "running"
    /\ rounds[a] < MaxRounds
    /\ rounds' = [rounds EXCEPT ![a] = @ + 1]
    /\ DrainInto(a)
    /\ UNCHANGED <<mainVars, pc, taskVars>>

\* Mutant: complete_agent_task and fail_agent_task without their status check.
Overwrite(a) == TRUE
StillRunning(a) == status[a] = "running"

\* complete_agent_task, fail_agent_task.
Settle(a, outcome) ==
    status' = IF StillRunning(a) THEN [status EXCEPT ![a] = outcome] ELSE status

\* Mutant: only the outcome of a running task is announced.
SilentIfKilled(a) == a \notin notified /\ status[a] = "running"
Announces(a) == a \notin notified

\* enqueue_agent_notification.
Announce(a, outcome) ==
    /\ notified' = notified \cup {a}
    /\ pending' = IF Announces(a)
                  THEN Append(pending, [agent |-> a, status |-> outcome])
                  ELSE pending

\* run_async_agent_lifecycle when the stream has ended.  Errors of the engine
\* are messages, not exceptions: an agent that said something has completed;
\* one that said nothing makes finalize_agent_tool raise.
BackgroundEnds(a) ==
    /\ pc[a] = "running"
    /\ pc' = [pc EXCEPT ![a] = "ended"]
    /\ \E outcome \in {"completed", "failed"} :
          /\ outcome = "failed" => rounds[a] = 0
          /\ Settle(a, outcome)
          /\ Announce(a, outcome)
    /\ UNCHANGED <<mainVars, rounds, delivered>>

\* _run_sync behind run_agent: the tool call returns.  (It returns an error,
\* always: the lines behind finalize_agent_tool treat its result as a dict.)
ForegroundEnds(a) ==
    /\ pc[a] = "running"
    /\ pc' = [pc EXCEPT ![a] = "ended"]
    /\ awaited' = Nobody
    /\ UNCHANGED <<turn, prompts, rounds, taskVars, noteVars>>

-----------------------------------------------------------------------------
MainStep == MainRound \/ UserPrompt \/ MainEnds
BackgroundStep(a) == AgentRound(a) \/ BackgroundEnds(a)
ForegroundStep(a) == AgentRound(a) \/ ForegroundEnds(a)

Next ==
    \/ MainStep
    \/ \E a \in Background : Launch(a) \/ Stop(a) \/ BackgroundStep(a)
    \/ \E a \in Foreground : Call(a) \/ ForegroundStep(a)

Spec == Init /\ [][Next]_vars

\* Models answer and tools return; nobody has to launch, stop or type anything.
FairSpec ==
    /\ Spec
    /\ \A a \in Background : WF_vars(BackgroundStep(a))
    /\ \A a \in Foreground : WF_vars(ForegroundStep(a))

-----------------------------------------------------------------------------
(* Safety.                                                                 *)

\* What a background agent announced is in one place: still pending, or in one
\* conversation.  It is neither lost nor handed out twice, whoever drains.
Holding(a, c) == \E n \in delivered[c] : n.agent = a
Waiting(a) == {i \in DOMAIN pending : pending[i].agent = a}

NoticeOnce ==
    \A a \in Background :
        /\ Cardinality(Waiting(a)) <= 1
        /\ \A c, d \in Agents \cup {Main} : Holding(a, c) /\ Holding(a, d) => c = d
        /\ Waiting(a) # {} => \A c \in Agents \cup {Main} : ~Holding(a, c)

\* When an agent's run is over its task is settled and was announced, also when
\* it was stopped on the way.
EndedIsSettled ==
    \A a \in Background : pc[a] = "ended" =>
        /\ status[a] \in Terminal
        /\ Waiting(a) # {} \/ \E c \in Agents \cup {Main} : Holding(a, c)

\* A task that was killed, has failed or completed keeps that status: the end
\* of a stopped agent does not revive or relabel it.
StatusFinal ==
    [][\A a \in Background : status[a] \in Terminal => status'[a] = status[a]]_vars

-----------------------------------------------------------------------------
(* Liveness, under FairSpec.                                               *)

\* A background agent that was launched is announced in the end, stopped or not.
LaunchedIsAnnounced ==
    \A a \in Background : pc[a] = "running" ~>
        (Waiting(a) # {} \/ \E c \in Agents \cup {Main} : Holding(a, c))
=============================================================================
