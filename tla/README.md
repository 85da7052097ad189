# A TLA+ model of open-claude-python

`src/src/open_claude` is a coding assistant in a terminal: a Textual chat screen over an
agentic loop that streams replies of a model, runs the tools it asks for, and starts
sub-agents and teammates. Almost all of it runs on one asyncio loop; the coroutines share
module-level state and a few files in `~/.claude`. What is hard in it is therefore not
parallel threads but **awaits**: what was checked before an await may be false behind it.
Only two parts meet other processes: the mailboxes and the consolidation lock.

The modules here model the parts where that matters as state machines, and the decisions
that are computed from one input as operators. TLC checks both on small instances, and TLAPS
proves the safety of the state machines, and of two groups of the decisions, for every value of the constants. `PROJECT.json` says
which definition stands for which lines; paths below are relative to `src/src/open_claude`.

## 1. The system

| component | files | state | operations |
|---|---|---|---|
| Turn machinery | `components/ui/chat_app.py`, `utils/query_guard.py`, `utils/message_queue_manager.py` | guard status and generation, command queue, streaming flag, abort event, re-entrancy flag, conversation | submit, Ctrl+C, begin/stream/end a turn, slash commands, run the queue |
| Agentic loop | `query/engine.py`, `query/streaming.py`, `query/message_builder.py` | messages, tool calls and results of the reply, stop reason | request, stream, decide and run tools, record, drain notifications |
| Sub-agents | `tasks/local_agent_task.py`, `tools/agent_tool/`, `tools/task_stop_tool` | task table, `notified`, pending notifications | define, set up, launch, call, run, stop, settle, announce |
| Mailbox | `utils/swarm/mailbox.py`, `tools/send_message_tool` | one JSON file and one lock file per teammate | send, read, mark as read |
| Teammates | `utils/swarm/in_process_runner.py`, `spawn_in_process.py`, `team_helpers.py` | tasks, abort events, queues, team file | spawn, turn, idle, wait, shut down, kill, send |
| Permissions | `utils/permissions/`, `hooks/tool_permission` | mode, allow/deny/ask rules by source, stripped rules | load, parse, persist, decide, change mode, answer the dialog |
| Compaction | `services/compact/` | consecutive failures | summarise, truncate and retry |
| Memory services | `services/session_memory`, `extract_memories`, `auto_dream` | thresholds, cursor, lock file | extract, consolidate, roll back |
| Memory files | `utils/memory`, `commands/memory.py` | the memory directory | index, scan, recall, open |
| MCP | `services/mcp/`, `tools/mcp_tool`, `commands/mcp.py`, `cli/` | connections, tasks, stacks, tool table, two definition files, tokens | define, connect, discover, call, refresh, disconnect |
| API | `services/api/` | attempt counters | request, retry, fall back |
| Definitions | `tools/agent_tool/load_agents_dir.py`, `skills/`, `commands/` | registries | load, override, look up |
| Input line | `components/ui/chat_app.py` | history, index, suggestions, following | keys, scrolling |
| File, shell and search tools | `tools/file_*`, `bash_tool`, `grep_tool`, `glob_tool`, `utils/diff.py` | the files | read, edit, write, search, run |
| System prompt | `constants/prompts.py`, `context/` | – | assemble, find CLAUDE.md |
| Widgets | `components/` | nothing another part reads | render |

How they interact. The screen's message pump (`on_input`, `on_key`) starts a turn: the
guard gives it a generation, an exclusive Textual worker (`_stream_response`) drives the
engine's async generator and appends to `_conversation`, which the engine shares. The engine
asks the permission pipeline before each tool; the pipeline may open a modal dialog of the
screen, whose answer changes the permission context. The Agent tool runs another engine in
the same process, in the foreground inside the tool call or as a task of its own; its end is
announced on a module-level list that *every* engine drains between two requests, and that
the screen drains when a turn has ended. Teammates poll mailbox files, which other processes
write. `/compact`, `/memory` and MCP refreshes run as awaits of the same loop.

Which behaviours are hard, per component (`PROJECT.json` "hazards" has each at its line):

* *Turn machinery*: a pump handler and a finishing worker interleave at every await; starting
  an exclusive worker cancels the others; the flag and abort event are shared between turns.
  Correct means: one turn at a time, none leaked, none lost, an interrupt that hits its turn.
* *Agentic loop*: an interrupt, a dropped generator or an exception at any suspension, while
  the conversation is half updated. Correct means: calls and results stay paired, and the
  loop returns.
* *Sub-agents*: end and stop race, and several engines take from one list. Correct means:
  settled once, announced once, received once.
* *Mailbox*: several processes, an unlocked reader, a check before the lock, crashes and lock
  timeouts. Correct means: nothing lost, repeated or reordered.
* *Teammates*: two ways a message reaches one, names that are taken again, and messages
  nobody handles. Correct means: acted on, and once.
* *Permissions*: rules are moved out and back as the mode changes, also while a dialog is open whose answer brings an older context back. Correct means: no rule is
  lost, and no mode lifts a deny or ask rule.
* *MCP*: a refresh is given up after 1.5 seconds at whatever await it is, while its tasks go on
  opening; rounds of connections overlap. Correct means: no task is cancelled before it can
  clean up, and what the table shows as connected is.
* *Memory services*: processes race for a lock made of a file's mtime and its content, die with it and roll
  it back. Correct means: work keeps the others out.
* *Decisions* (retry, compaction, definitions, rules as text, prompts, edits, memory files): the
  order of checks, and boundaries. Correct means: what a reference definition says.

## 2. Modules

| module | role |
|---|---|
| `QueryGuard` | the guard alone, driven by any callers |
| `ChatSession` | the turn machinery: pump, workers, queue, cancellation, slash commands |
| `TurnService` | what the turn machinery promises, with no guard, queue or await in it |
| `ChatSessionRefinement` | the mapping from `ChatSession` to `TurnService` |
| `ToolLoop` | the agentic loop of one conversation and its reader |
| `AgentTasks` | sub-agents, their tasks and notifications |
| `Mailbox` | one inbox, at the grain of file operations |
| `Teammates` | teammates of one process, with their mailboxes and queues |
| `Permissions` | the permission context of the main conversation |
| `McpConnections` (over `McpConfig`) | connections, their tasks and lock, the tool table, `/mcp` |
| `MemoryServices` | the consolidation lock between processes |
| `Decisions` (over `SubAgents` over `ModelRequests`) | puts every input of the operator modules before TLC, one input per state |
| `ApiRetry`, `Compaction` | `retry_with_backoff`; compaction, its retries and its circuit breaker |
| `McpConfig`, `McpSetup` | definitions of servers and their scopes; arguments, variables, tokens |
| `AgentSetup`, `AgentResult`, `TeamFile` | what a sub-agent is made of; what its run comes to; the team file |
| `Selections` | the part of a sequence that passes a test, by a recursion that a proof can expand (`SelectSeq` has no definition that the prover sees) |
| `Registries`, `InputLine` | skills, commands and aliases; history, suggestions, scrolling |
| `PermissionRules` | rules as text, in settings files, and synchronised from them |
| `PromptAssembly` | sections of the system prompt, the search for CLAUDE.md |
| `FileTools`, `MemoryFiles` | the file tools with preview and diff; memory index, scan, recall |
| eight `...Proofs` | theorems about the module of that name; `ChatSessionProofs` holds those on `QueryGuard` and the refinement, `ToolLoopProofs` those on `Permissions`, `AgentTasksProofs` those on `Decisions` |

**ChatSession.** An actor is the pump (0) or the worker of a turn (its generation). `pc[a]` is
the await the actor is suspended at, and an action is the code from one await to the next.
`Submit` is `on_input`: with the guard active the input is queued, otherwise `BeginTurn`
takes the guard and stops at the mount of the user message. `AppendPrompt` and `StartWorker`
are the rest of `_begin_prompt_turn`; `StartWorker` cancels all other workers, as
`@work(exclusive=True)` does, and `Unwind` is the `CancelledError` in a cancelled one.
`TurnEnds`, `TurnFails`, `FailureShown` and `TurnCloses` are the try, except and finally clauses of
`_stream_response`; `ProcessQueue` is `_process_queue_if_ready` from one await to the next, in
whichever actor runs it. `accepted`, `turns` and `compacted` are history variables.
A command is a model value; the conversation keeps only roles and the commands whose text
each message carries.

**ToolLoop.** `pc` is the suspension of the generator. At a yield the reader runs, and drops the generator if it was
interrupted (`Yield`). There are two: the screen, whose Ctrl+C also sets the abort event that the loop looks at, and whose
engine asks through its dialog; and the collector, `run_agent` of a sub-agent, whose engine has an empty permission context and no
handler of its own, so that each call is asked about and the default handler raises (`HasHandler`, `TurnRaises`). Replies are a text block, tool calls and a stop reason in any combination the stream
parser can produce, an aborted stream or a failed one. The queue is what the engine tells apart in it: how many
notifications and how many prompts it holds.

**AgentTasks.** A background agent is a task of its own, a foreground one is inside a tool call
of the main turn. No await lies between an agent's last event and its notification, so that
`BackgroundEnds` is one step: `complete_agent_task` or `fail_agent_task`, then the
announcement.

**Mailbox.** `write_text` is two steps, `Truncate` and `WriteBack`; a reader between them sees an
empty inbox. The lock covers the read, the truncation and the write of senders and of the owner's
mark, and neither the creation of the file nor the owner's poll. `faulty` records whether anything of `Faults` has
happened: the file was missing, a wait for the lock ran out, or a sender died.

**Teammates.** No handler awaits between what it reads and what it writes, so that each is one step, and an inbox
is a list. `Poll` is one pass of `wait_for_next_prompt_or_shutdown`: the abort event, then the first unread
message that it handles, then the queue of the task. A name may be spawned again; what its predecessor left
unread is then the successor's.

**Permissions.** A rule is a tool with nothing, `(*)` or a content behind it. `Loaded` and
`Passed` are the two ways a settings file enters the context, `Normal` what parsing and printing
a rule does to it. `Decision` is the pipeline, with the steps left out that need a
tool check, a denial state or a headless flag, since no caller provides one. `Transition` is
`transition_permission_mode`, reached from Shift+Tab, `/permissions` and the dialog. Shift+Tab works while the dialog
is open; a move into or out of auto mode then leaves the dialog with a context that is no longer in force (`outdated`),
and "Allow Session" brings that one back.

**McpConnections.** A coroutine (the pump, the background refresh, a turn) is the list of steps it still has to
do (`plan`), and `Progress` does the first up to its next await. A connection is a task
`<<server, round>>`; `connect_all` begins a round. `TimesOut` is `asyncio.wait_for` giving a refresh up at any await,
`Opens`, `Closes` and `Ends` are the steps of the tasks; between the last two the stack is left (connection.py:176), with the
session closed and its entry still in the table. The lock and the table of `_servers` are as in `connection.py`.

**MemoryServices.** A process goes through the time gate, the look at the lock, the truncation, the write, the
re-read and the work, one file operation per step; the file's age stands for its mtime. The module says what happens if
processes run the service; no code of the program starts it, so that nothing is claimed of how often it runs.

**Decisions.** The operator modules are free of state. Each action of `Decisions` chooses an input
from a bounded set and puts it into `input`; the invariants compare what the operators compute with a declarative
statement about that input. `ModelRequests` has the actions for `ApiRetry` and `Compaction`, `SubAgents` those for `AgentSetup`, `TeamFile` and `AgentResult`: the groups with proofs. Histories (keys pressed, members joining, failures of compaction) are inputs as well.

A definition named in a comment as *Mutant* is a plausible bug of the definition behind it.
No specification uses one; each property has been seen to fail with one in place.

## 3. Runs

| run | shows |
|---|---|
| `chat_session` | `TurnDiscipline`: one turn at a time, the guard always has a coroutine that will end it, and no exclusive start cancels a worker that holds it. `InterruptReachesTurn`; `QueueInOrder`; `PromptInHistory` |
| `chat_service` | the machinery implements `TurnService`; typed prompts get their turn; interrupted turns end |
| `tool_loop` | requests of a turn that began on a paired history are paired; at most one tool starts after Ctrl+C; what a tool returned is in the next request of its turn, and there when it ends; each turn returns |
| `agent_tasks` | terminal statuses are final; ends are settled, announced and received once |
| `mailbox` | without faults everything sent is stored and delivered; with them nothing is reordered, nor marked and not delivered |
| `teammates` | a message prompts once by each way it goes, and what waits in an inbox of a living teammate is acted on |
| `permissions` | rules are kept through all modes and outdated contexts, the dangerous ones out of force in auto mode; deny and ask rules are respected; grants last |
| `mcp` | no connection is cancelled while it opens; what is shown as connected is open; every command returns |
| `memory` | a consolidation under way keeps the gate shut for a day |
| `decisions` | nine groups of operators against their reference, named after what they decide |

Two runs show where the code does not do what it says, each against a quoted line:

| run | what happens |
|---|---|
| `skill_lost` | a skill's prompt that arrives while a turn runs is dropped silently |
| `mode_chosen` | "Allow Session" undoes a mode chosen by Shift+Tab while the dialog was open |

`QueryGuard` and `QueueFlagOwned` of `ChatSession` have no run of their own: their theorems are stronger, and `TurnDiscipline` uses
the guard in its place.

**Bounds.** `MaxTurns` 3 and 4: an overlap needs a turn that closes, one that starts and one that
is queued; a slash command adds an actor that holds no guard. Two prompts, since order and overtaking
need two. `MaxUses` and `MaxLoops` 2: a pairing is broken by the second of two calls and the
request behind it; two prompts, since a broken pairing shows in the next turn. Two
background agents and a foreground one give every pair of engines that drain one list.
Two senders with two messages each and the owner give lost updates, reordering and repeats; `MaxPolls`
exceeds the number of messages so that repeats have room. Two teammates, so that one name can be spawned twice while a
killed one ends its turn; two messages, so that one can lie in front of another. The settings hold two rules, one to
grant or strip and one to restrict, over three tools, one of each kind the pipeline tells apart. One server, two
commands and a call give up to six rounds of connections and three coroutines at one lock; servers are independent but
for that lock. Two processes, one of them mortal, before the consolidation lock: a race needs two, a stale lock a
death and a survivor. In `decisions` three retries reach the
three overloads that give up, six turns open the circuit breaker and close it again, six keys enter two lines and walk
through them, and texts of four characters hold an escaped pair behind another, or two overlapping places to edit. No run
uses symmetry: most check liveness and the others are small.

**Deadlock** is not checked: with bounded inputs each system ends in a state where nothing is left to do.

**Fairness.** `ChatSession`: weak fairness of each suspended coroutine, that is, mounts complete and the model
answers or fails; asyncio resumes what is ready. Nothing is assumed of the user. `ToolLoop`: the generator is
driven while it is read. `AgentTasks`: models answer. `Mailbox`: a call that has begun goes on
and the owner polls every two seconds; `FileLock` polls as well, so that a waiter is
weakly fair only while the lock is free. `Teammates`: turns end and sleeps are over. `McpConnections`: a task opens or fails
and ends when cancelled (weak); a coroutine is strongly fair, since `asyncio.Lock` wakes its first waiter, so that one
that finds the lock free again and again gets it. `Permissions` and `MemoryServices` have safety alone and assume nothing.

## 4. Proofs

TLAPS proves, for any constants that satisfy the modules' assumptions:

* `ChatSessionProofs`: `TypeOK`, `TurnDiscipline`, `InterruptReachesTurn`, `QueueInOrder`, `PromptInHistory`, `QueueFlagOwned`
  and the refinement `ImplementsTurnService`, for any commands and any number of turns. None is inductive:
  `Discipline` ties each program counter to guard, generation, flags and cancellation set. Its heart is that an actor in
  the part of a turn that holds the guard is unique and never cancelled, because a worker is only started by the holder.
  `PlaceInv` says that each command is in one place, once: not yet given, in the queue, in the handler of a slash command, or in a turn.
  With it each step of the machinery is one of six kinds, and each kind maps to a step of `TurnService`
  or to a stutter. `OrderInv` says that the queued inputs are the last that were
  accepted, in that order, and `HistInv` that the command of a turn past its mount is among those the history remembers.
  The guard alone is proved as an instance with variables as parameters: `TypeOK`, `OneOwner` and `OnlyOwnerReleases` follow from
  held generations being distinct and at most the current one.
* `ToolLoopProofs`: `TypeOK`, `TurnKeepsPairing`, `OneToolAfterInterrupt`, `ExecutedIsRecorded` for every bound, reader and reply.
  `TurnKeepsPairing` needs that the results gathered are a prefix of the calls of the last reply and that the loop is
  past its last tool when they are recorded. For `OneToolAfterInterrupt` the invariant says
  that a tool of the late set is the current one until the loop looks at the abort event again. For `ExecutedIsRecorded` it says
  that as long as the turn goes on a tool that ran is the current one, has its result among those gathered, or has it in the conversation (`RecordInv`).
* the same module, for `Permissions`: `ContextTypeOK`, `RulesKept`, `RulesRespected`, `GrantLasts` for any tools and settings.
  `RulesKept` has to be known of the outdated context too, since an answer may bring it back (`Sound` of every context `Held`); `GrantLasts`
  needs it and the fact that only dangerous patterns are ever set aside.
* `AgentTasksProofs`: `TypeOK`, `NoticeOnce`, `EndedIsSettled`, `StatusFinal` for any agents. A note is pending in one place
  or held in one conversation, from the end of its agent on.
* `SubAgentsProofs`, concluded in `AgentTasksProofs`: `RequestsAreRetried` and `CompactsOrKeeps`, for answers, calls, histories and
  turns of any number. Here the invariant is small (it says what the inputs look like) and the operators are the work. A recursive function is a
  choice among those that satisfy its equation, so that the first lemma is that there is one (`Recursion`); it is built step by step from the
  induction that the well-founded order of numbers gives. Retrying then follows from counting overloads: the
  counter is the number of overloads at the end of the answers. The circuit breaker's counter says whether one, two or three attempts
  failed since the last success or reset. For compaction, what is worked on is the history or the mark and an end of the history that begins
  with a reply (`Works`), each attempt goes to a later end (`OnlyCuts`), and each number of groups to drop has
  the beginning of a group (`Ranked`).
* the same two modules: `SubAgentsAreSetUp`, for files, conversations, histories of a team and runs of any length. A selection is, element by element,
  what is at its places in their order (`PickedAt`), and two selections are one if an order runs through the places of both
  (`PickedAgree`); a fold is taken apart into its steps (`FoldExists`, `TeamFolds`, `ProgressFolds`). On these rest that the members whom
  an operation on a team does not name are the same before and after it, in their order (`MembersKept`); that the messages of a run tell of its events up
  to the abort (`Hears`), so that the last message that answers is that of the last event that says something, and the tools counted
  are those asked for; that a result comes after its call, so that a reply that is kept is followed by its results; and that the first agent of a type is
  built in if one of that type is.
* `MailboxProofs`: `TypeOK`, `AtMostOneWriter`, `SentIsStored`, `ReadIsDelivered`, `DeliveredInOrder` for any senders, bounds and faults. The core is mutual
  exclusion: the lock belongs to the one process between its read and its write, so that what it writes back still contains all that
  is stored. `ReadIsDelivered` and `DeliveredInOrder` hold with faults too: only the owner sets the flag, and only on a
  message that it has taken; and the file and each copy of it under the lock stay in the order in which the senders sent.
* `TeammatesProofs`: `MailPromptsOnce` for any names, messages and tasks. A message that was taken is read in every stored copy under
  that name; a queued one is with one task and in no prompt; numbers not yet given out occur nowhere.
* `McpConnectionsProofs`: `TypeOK`, `LockOwned`, `ReadyWhenCancelled`, `TableIsLive` for any servers, commands and calls. The number of
  rounds is bounded by what the plans still owe, which makes each new round's tasks fresh. While the manager is
  marked connected none of its current tasks is opening, and only those are ever cancelled; tasks of a round that was given up are
  out of its sight. A refresh, which alone may be given up, never disconnects (`Refreshing`), so that a task that is cancelled and not yet
  gone is a current one, and a coroutine with the lock waits for it (`Ending`).
* `MemoryServicesProofs`: `TypeOK`, `WorkClosesGate` for any processes. A process that works wrote
  the file when it began, so that the file is no older than its work unless one was rewound.

Each proof has the three parts Init, step and consequence; the step lemma has one case per action. Assumptions are those
of the modules: bounds are natural numbers, kinds of commands are disjoint, background agents are not foreground ones, no sender is named like the owner.

Only model-checked, in two groups. All liveness (`PromptsAnswered`, `InterruptedTurnsEnd`, the return of turns and commands, `MailIsActedOn`): the prover has neither fairness nor ENABLED. And the other six groups of `decisions`: the library's
induction theorems take an operator as a parameter, so that each recursive function needs the detour through `Recursion`
that the three proved groups take.

## 5. What else the reading showed

Divergences that no run is spent on.

*Turns and the loop.*
* A reply that the token limit stops behind a tool call is kept with the call unanswered (`engine.py:181`), and the request of the next
  turn carries it, though "the API requires all tool_result blocks to be in a single user message following the assistant message
  that requested them" (`message_builder.py:23`). A stream that fails there, and Ctrl+C or an exception between a tool and its record, leave the same.
  `TurnKeepsPairing` therefore claims the pairing of turns that began on a paired history (`clean`).
* When a turn fails, the screen removes the last message if it is the user's: that may be its prompt, but also the results of its
  tools or a notification (`chat_app.py:780`).
* `/compact` reports success and leaves the history as it was (`chat_app.py:1098`; `commands/compact.py:14`).
* A notification posted while no turn runs waits until the user starts one (`local_agent_task.py:201`).
* A prompt typed while a finished worker closes overtakes the queued ones (`chat_app.py:706`, `:900`).
* A notification can be taken by a sub-agent (`engine.py:360`; `local_agent_task.py:197` says "consumed by the main loop").
* `normalize_messages` says it validates that roles alternate and never compares them (`message_builder.py:42`).
* `test_engine_concurrency.py:55` expects a queued prompt to be drained in mid-turn; the engine takes notifications only.

*Sub-agents.*
* The first tool call of a sub-agent ends its run: its engine is given neither a context nor a handler (`run_agent.py:248`), and the default
  handler names variables of another function (`components/permissions/__init__.py:191`, `:198`). The NameError goes through the loop, and the
  results of the tools of that reply are lost. `ToolLoop` has it (`HasHandler`, `TurnRaises`).
* TaskStop says "stopped immediately", but its event reaches nobody: the agent runs on and announces "completed" (`local_agent_task.py:396`).
* A foreground agent's tool call always returns an error (`agent_tool/__init__.py:317` treats a dataclass as a dict).
* `filter_incomplete_tool_calls` leaves results whose calls it removed; an answer that ends in an empty block is returned blank; an API error
  behind some text is reported as completed; `run_agent`'s messages carry no usage, so that token counts are 0.
* An agent file that cannot be opened is passed over without a word, and one that is not UTF-8 drops every custom agent for one failure that names no file (`load_agents_dir.py`, 545 and 676). The override of built-in agents that its docstring speaks of never overrides one (lines 572 and 626). Nothing calls that loader.

*Mailboxes and teammates.*
* Creating an inbox outside the lock can wipe a message just stored (`mailbox.py:142`; `:136` says "using file locking").
* A lock timeout is reported as sent (`mailbox.py:166`, `send_message_tool:181`), and a crash between truncating and writing empties the inbox (`mailbox.py:162`).
* A direct message to a running teammate is delivered twice, by its queue and by its mailbox; an unread shutdown of a killed
  teammate ends the next one of its name; the lead is never told of a shutdown; all in-process teammates send as "team-lead".
* Nothing spawns teammates; `team_helpers` has no caller and `set_member_active` always raises (a `mkdir` without `exist_ok`).

*Permissions.*
* In dontAsk mode an ask rule still opens the dialog (`pipeline.py:266`; `:357` "convert ask -> deny").
* Entering auto mode never strips `Bash(*)`: loading has turned it into `Bash`, which the patterns do not match (`setup.py:27`).
* `allowManagedPermissionRulesOnly` has no effect on the user's list, which `on_mount` passes as command-line rules (`chat_app.py:515`).
* Settings are written with a plain `write_text` where the comment says "atomically" (`update.py:203`); persisting a
  `RemoveRulesUpdate` raises a TypeError; a policy file with rules makes the (uncalled) synchronisation raise.
* EnterPlanMode and ExitPlanMode change no mode.

*API and compaction.*
* `get_client` says that the first call with a configuration decides (`client.py:173`); every call with one replaces the client that
  sub-agents share (`client.py:202`), and `SubAgentsShareClient` says so.
* `AuthenticationError` is only raised for a 401 or 403 whose text contains "overloaded_error" (`retry.py:186`).
* A context overflow with room left retries at once with the same request.
* A compaction whose last attempt answers "prompt too long" takes the error text for the summary (`compact.py:218`); no message has an id, so that
  there is one group and the first such answer fails. `API_TIMEOUT_MS` is passed as seconds.

*MCP.*
* `/mcp disconnect` and `/mcp reset` connect again at once, through the refresh; `/mcp disable x` reconnects x because the loader caches the disabled set.
* The semaphore that should bound concurrent connections is created per server (`connection.py:99`) and held as long as the connection.
* A server of unknown type is "treated as stdio" and always fails validation; a broken `settings.json` is overwritten with only the MCP keys.
* Tokens that are invalidated while the keyring fails are there again once it works (`auth.py:119`; `:81` "Remove stored tokens and client info").
* The OAuth callback stores its code where nobody reads it (`auth.py:243`), and nothing calls the provider.
* `/mcp add` takes flags that belong to the server's own arguments; `${V:-}` keeps its text.

*Memory.*
* Two processes that find the lock free can both consolidate: the first reads its own pid back before the other overwrites it
  (`consolidation_lock.py:84`; `:78` "Loser bails on re-read", `auto_dream.py:8` "no other process mid-consolidation").
* A rollback rewinds the lock file under another holder (`consolidation_lock.py:101`). Neither the consolidation nor the extraction after a turn has a
  caller, and the cursor of the extraction never moves, since no message has a `uuid` (`extract_memories.py:128`, `:170`).
* The numbers of `/memory list` are by time of change, so that opening one renumbers the others.
* `/memory extract` discards the model's answer and reports success.

*Tools, prompts, definitions and input.*
* An edit of a CRLF file rewrites every line end to LF; overlapping matches count once, so that an edit is made whose text is not unique
  (`file_edit_tool:91`; `:61` "will FAIL"); the permission preview shows a change
  for an edit that the tool refuses as not unique. Edit and Write are said to fail for a file that was not read first
  (`file_edit_tool:53`, `file_write_tool:47`); nothing keeps track of what was read, so that Write replaces what has become of the file since.
* Without ripgrep, Grep ignores `type`, `multiline` and the limit on names, does not sort, searches what git ignores, and matches a
  glob against the bare name (`grep_tool:199`, `:249`), so that documented globs (`:36`, `:89`) find nothing there. `SearchesNameTheNewest` says
  where the two ways agree.
* Read refuses a file of more than 10 MB even with the offset and limit its error asks for; a background command's pipes are never read and its end never
  announced; TodoWrite stores nothing; WebFetch is unimplemented.
* The prompt is built with the default model and without MCP clients whatever the session uses; CLAUDE.md of `~/.claude` is given twice
  when working at home; file tools, the shell and AskUserQuestion are named whether or not they are enabled (`prompts.py:275`, `:350`).
* A skill hides a command of its name while the suggestion shows the command's description; `/skill<newline>args` is unknown;
  SkillTool ignores `disable_model_invocation`.
* Down past the newest entry clears a draft.

## 6. Plan

What is left, in this order:

1. The groups of `decisions` that are not proved: first those without recursion (most of `McpConfig`), then those whose functions
   `Recursion` and `PickedAt` fit (`Registries`, `MemoryFiles`).
2. `Teammates` over `Mailbox` in place of an atomic list.

**Not modelled.** The widgets: rendering, with no state another part reads. The texts of prompts and skills, the front matter
parser, option parsing of the command line, images and PDFs. The transports and the OAuth exchange, which are libraries'. What no code
calls or sends: worktrees and the handoff classifier (stubs), `register_agent_foreground`, `kill_all`, `clear_mailbox`, plan approval and
permission messages, denial tracking. The count of sessions behind the time gate, which only closes the gate further. `/exit`, the double
Ctrl+C, the mouse and the clipboard.
