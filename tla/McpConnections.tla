--------------------------- MODULE McpConnections ---------------------------
(***************************************************************************)
(* The connections to MCP servers of one process: MCPConnectionManager of  *)
(* services/mcp/connection.py, the cache of discovered tools in front of   *)
(* it, the /mcp command, the refresh of the screen's tools and the calls   *)
(* of MCP tools.                                                           *)
(*                                                                         *)
(* Each connection lives in an asyncio task of its own, which connect_all  *)
(* starts and disconnect_all cancels.  Three coroutines use the manager:   *)
(* the message pump, which runs one /mcp command after the other, the      *)
(* refresh that starts when the screen is mounted, and a turn that calls a *)
(* tool.  A coroutine is the list of the steps it still has to do; an      *)
(* action takes the first of them from one await to the next.              *)
(***************************************************************************)
EXTENDS McpConfig

CONSTANTS Configured,    \* servers that settings.json defines at the start
          MaxCommands,   \* bound: commands given
          MaxCalls       \* bound: calls of MCP tools

ASSUME McpConnectionsAssumption ==
    Configured \subseteq Servers /\ MaxCommands \in Nat /\ MaxCalls \in Nat

VARIABLES settings,    \* ~/.claude/settings.json
          mcpJson,     \* .mcp.json
          loader,      \* McpConfigLoader: the disabled servers, once read
          connected,   \* MCPConnectionManager._connected
          lock,        \* _lock: the coroutine that holds it
          table,       \* _connections: the round of a server's session, or why there is none
          current,     \* _server_tasks and _ready_events: the round of a server's last task
          round,       \* how often connect_all has started tasks
          tasks,       \* the task of each server and round
          cancelled,   \* tasks that have been cancelled
          cache,       \* _mcp_tools_cache: servers whose tools were discovered
          pool,        \* servers whose tools the model is offered
          plan,        \* the steps a coroutine still has to do
          timed,       \* coroutines inside the wait_for of _refresh_tooling
          asked,       \* of a discovery: the servers whose tools are listed
          target,      \* the server and session of a tool call
          commands, calls   \* counters of the bounds

manager == <<connected, lock, table, current, round, tasks, cancelled>>
files == <<settings, mcpJson, loader>>
tooling == <<cache, pool, asked>>
bounds == <<commands, calls>>
vars == <<manager, files, tooling, plan, timed, target, bounds>>

Pump == "pump"
Background == "background"
Turn == "turn"
Coroutines == {Pump, Background, Turn}
Free == "free"

\* Entries of the table: a session, or why there is none.
Connected(r) == [status |-> "connected", round |-> r]
Absent == [status |-> "absent", round |-> 0]
Failed == [status |-> "failed", round |-> 0]
NeedsAuth == [status |-> "needs-auth", round |-> 0]

\* A value that may not be there yet is a sequence of at most one.
None == <<>>
Some(x) == <<x>>

Rounds == 1 .. (1 + 2 * MaxCommands + MaxCalls)
Tasks == Servers \X Rounds

Defined == [n \in Configured |-> [type |-> "stdio", complete |-> TRUE]]

Init ==
    /\ settings = Json(Defined, {}, TRUE) /\ mcpJson = MissingFile /\ loader = None
    /\ connected = FALSE /\ lock = Free
    /\ table = [n \in Servers |-> Absent] /\ current = [n \in Servers |-> 0]
    /\ round = 0 /\ tasks = [t \in Tasks |-> "none"] /\ cancelled = {}
    /\ cache = None /\ pool = {} /\ asked = [c \in Coroutines |-> {}]
    /\ plan = [c \in Coroutines |-> IF c = Background THEN <<"tools">> ELSE <<>>]
    /\ timed = {} /\ target = <<>> /\ commands = 0 /\ calls = 0

At(c, step) == plan[c] # <<>> /\ Head(plan[c]) = step
\* Coroutine c is done with its first step, or goes on to another in its place.
Done(c) == plan' = [plan EXCEPT ![c] = Tail(@)]
GoesOn(c, step) == plan' = [plan EXCEPT ![c] = <<step>> \o Tail(@)]

\* connect_mcp_servers and disconnect_mcp_servers drop the discovered tools;
\* a tool call uses the manager without them.
Forgets(c) == cache' = IF c = Turn THEN cache ELSE None

-----------------------------------------------------------------------------
(* MCPConnectionManager.                                                   *)

\* The tasks that the manager knows of, running or not.
CurrentTasks == {<<n, current[n]>> : n \in {s \in Servers : current[s] # 0}}
\* Mutant: connect_all waits for the tasks it has started itself.
NewSettled ==
    \A t \in CurrentTasks : t[2] = round => tasks[t] # "opening"
\* All ready events are set.
AllSettled == \A t \in CurrentTasks : tasks[t] # "opening"

\* connect_all() up to its wait: a task for each enabled server.
ConnectAll(c) ==
    /\ At(c, "connect") /\ lock = Free
    /\ IF connected
       THEN Done(c) /\ Forgets(c) /\ UNCHANGED <<manager, loader>>
       ELSE /\ loader' = IF loader = None THEN Some(DisabledServers(settings)) ELSE loader
            /\ LET started == DOMAIN AllConfigs(settings, mcpJson, loader'[1])
               IN  /\ round' = round + 1
                   /\ current' = [n \in Servers |->
                                     IF n \in started THEN round' ELSE current[n]]
                   /\ tasks' = [t \in Tasks |->
                                   IF t[1] \in started /\ t[2] = round'
                                   THEN "opening" ELSE tasks[t]]
            /\ lock' = c /\ GoesOn(c, "opening")
            /\ UNCHANGED <<connected, table, cancelled, cache>>
    /\ UNCHANGED <<settings, mcpJson, pool, asked, timed, target, bounds>>

\* The rest of connect_all().
AllReady(c) ==
    /\ At(c, "opening") /\ AllSettled
    /\ connected' = TRUE /\ lock' = Free /\ Done(c) /\ Forgets(c)
    /\ UNCHANGED <<table, current, round, tasks, cancelled, files, pool, asked,
                   timed, target, bounds>>

\* disconnect_all() up to its wait.
DisconnectAll(c) ==
    /\ At(c, "disconnect") /\ lock = Free
    /\ IF connected
       THEN /\ cancelled' = cancelled \cup CurrentTasks
            /\ lock' = c /\ GoesOn(c, "closing") /\ UNCHANGED cache
       ELSE Done(c) /\ Forgets(c) /\ UNCHANGED <<cancelled, lock>>
    /\ UNCHANGED <<connected, table, current, round, tasks, files, pool, asked,
                   timed, target, bounds>>

\* The rest of disconnect_all(), when the tasks it has cancelled are done.
AllClosed(c) ==
    /\ At(c, "closing") /\ \A t \in CurrentTasks : tasks[t] = "gone"
    /\ table' = [n \in Servers |-> Absent] /\ current' = [n \in Servers |-> 0]
    /\ connected' = FALSE /\ lock' = Free /\ Done(c) /\ Forgets(c)
    /\ UNCHANGED <<round, tasks, cancelled, files, pool, asked, timed, target, bounds>>

\* _server_lifecycle() up to its endless wait: the session is initialised, or
\* the server does not answer in time or fails.
Opens(t) ==
    /\ tasks[t] = "opening"
    /\ \/ tasks' = [tasks EXCEPT ![t] = "up"] /\ table' = [table EXCEPT ![t[1]] = Connected(t[2])]
       \/ tasks' = [tasks EXCEPT ![t] = "parked"] /\ table' = [table EXCEPT ![t[1]] = Failed]
    /\ UNCHANGED <<connected, lock, current, round, cancelled, files, tooling, plan, timed,
                   target, bounds>>

\* Mutant: the entry stays when the task ends.
KeptEntry(n) == table[n]
EntryAfterEnd(n) == Absent

\* A cancelled task leaves its stack: the session closes under the entry of the
\* table, which stays for as long as this await takes.
Closes(t) ==
    /\ t \in cancelled /\ tasks[t] \in {"up", "parked"}
    /\ tasks' = [tasks EXCEPT ![t] = "closing"]
    /\ UNCHANGED <<connected, lock, table, current, round, cancelled, files, tooling, plan,
                   timed, target, bounds>>

\* Its end: the server's entry goes, whichever task has made it.
Ends(t) ==
    /\ tasks[t] = "closing" /\ tasks' = [tasks EXCEPT ![t] = "gone"]
    /\ table' = [table EXCEPT ![t[1]] = EntryAfterEnd(t[1])]
    /\ UNCHANGED <<connected, lock, current, round, cancelled, files, tooling, plan, timed,
                   target, bounds>>

-----------------------------------------------------------------------------
(* The tools that the model is offered.                                    *)

SessionsOpen == {n \in Servers : table[n].status = "connected"}

\* _refresh_tooling() into get_mcp_tools(): what is cached, or the tools of all
\* sessions, after connecting if need be; 1.5 seconds for both.
RefreshTools(c) ==
    /\ At(c, "tools")
    /\ IF cache # None
       THEN pool' = cache[1] /\ Done(c) /\ UNCHANGED timed
       ELSE /\ plan' = [plan EXCEPT ![c] = IF connected THEN <<"discover">>
                                           ELSE <<"connect", "discover">>]
            /\ timed' = timed \cup {c} /\ UNCHANGED pool
    /\ UNCHANGED <<manager, files, cache, asked, target, bounds>>

\* discover_all_tools() goes through the sessions there are now...
Discover(c) ==
    /\ At(c, "discover")
    /\ asked' = [asked EXCEPT ![c] = SessionsOpen] /\ GoesOn(c, "list")
    /\ UNCHANGED <<manager, files, cache, pool, timed, target, bounds>>

\* ...and a server that fails to list its tools, or is gone by then, has none.
ListTools(c) ==
    /\ At(c, "list")
    /\ \E answered \in SUBSET asked[c] : cache' = Some(answered) /\ pool' = answered
    /\ asked' = [asked EXCEPT ![c] = {}] /\ Done(c) /\ timed' = timed \ {c}
    /\ UNCHANGED <<manager, files, target, bounds>>

\* Mutant: a coroutine that is cancelled keeps the lock.
LockKept(c) == lock
LockAfterCancel(c) == IF lock = c THEN Free ELSE lock

Unwinds(c) ==
    /\ plan' = [plan EXCEPT ![c] = <<>>] /\ timed' = timed \ {c}
    /\ lock' = LockAfterCancel(c) /\ asked' = [asked EXCEPT ![c] = {}]
    /\ UNCHANGED <<connected, table, current, round, tasks, cancelled, files, cache, target, bounds>>

\* wait_for gives up: the built-in tools are offered.  The tasks that
\* connect_all has started go on without it.
TimesOut(c) == c \in timed /\ pool' = {} /\ Unwinds(c)

\* A turn begins, whose exclusive worker cancels the refresh.
RefreshCancelled(c) == c = Background /\ plan[c] # <<>> /\ Unwinds(c) /\ UNCHANGED pool

-----------------------------------------------------------------------------
(* The /mcp command.                                                       *)

Edit(file, other) ==
    /\ settings' = file /\ mcpJson' = other /\ UNCHANGED loader

Command(steps) ==
    /\ plan[Pump] = <<>> /\ commands < MaxCommands
    /\ plan' = [plan EXCEPT ![Pump] = steps] /\ commands' = commands + 1
    /\ UNCHANGED <<manager, tooling, timed, target, calls>>

Reconnected == <<"disconnect", "connect", "tools">>

ConnectCommand == Command(<<"connect", "tools">>) /\ UNCHANGED files
DisconnectCommand == Command(<<"disconnect", "tools">>) /\ UNCHANGED files
ReconnectCommand == Command(Reconnected) /\ UNCHANGED files
ResetChoicesCommand ==
    Command(<<"disconnect", "tools">>) /\ Edit(ResetChoices(settings), mcpJson)
\* enable and disable, of one server or of all.
SetEnabledCommand ==
    \E n \in Servers, enabled \in BOOLEAN :
        Command(Reconnected) /\ Edit(SetDisabled(settings, n, ~enabled), mcpJson)
SetAllEnabledCommand ==
    \E enabled \in BOOLEAN :
        LET all == DOMAIN AllConfigs(settings, mcpJson, {})
        IN  /\ Command(Reconnected)
            /\ Edit([LoadJson(settings) EXCEPT !.disabled =
                        IF enabled THEN @ \ all ELSE @ \cup all], mcpJson)
\* add, add-json and remove, in either scope.
AddCommand ==
    \E n \in Servers, raw \in {[type |-> "stdio", complete |-> TRUE]} :
        /\ Command(Reconnected)
        /\ \/ Edit(settings, AddServer(mcpJson, n, raw))
           \/ Edit(AddServer(settings, n, raw), mcpJson)
RemoveCommand ==
    \E n \in Servers :
        /\ Command(Reconnected)
        /\ \/ Edit(settings, RemoveServer(mcpJson, n))
           \/ Edit(RemoveServer(settings, n), mcpJson)

-----------------------------------------------------------------------------
(* Calls of MCP tools: McpTool.call() and MCPConnectionManager.call_tool().*)

CallTool ==
    /\ plan[Turn] = <<>> /\ calls < MaxCalls
    /\ \E n \in pool : target' = <<n>>
    /\ plan' = [plan EXCEPT ![Turn] = <<"call">>] /\ calls' = calls + 1
    /\ UNCHANGED <<manager, files, tooling, timed, commands>>

\* Without a session the call fails; the server's name is all a tool knows.
LookUp(step) ==
    /\ At(Turn, step)
    /\ LET n == target[1]
       IN  IF table[n].status = "connected"
           THEN /\ target' = <<n, table[n].round>>
                /\ GoesOn(Turn, IF step = "call" THEN "answer" ELSE "last answer")
           ELSE Done(Turn) /\ target' = <<>>
    /\ UNCHANGED <<manager, files, tooling, timed, bounds>>

\* The server answers, with a result or an error: only the first time does an
\* expired session lead to another try, after a full reconnect.
Answer(step) ==
    /\ At(Turn, step)
    /\ \/ Done(Turn) /\ target' = <<>> /\ UNCHANGED table
       \/ /\ tasks[target] = "up" /\ table' = [table EXCEPT ![target[1]] = NeedsAuth]
          /\ Done(Turn) /\ target' = <<>>
       \/ /\ tasks[target] = "up" /\ step = "answer"
          /\ plan' = [plan EXCEPT ![Turn] = <<"disconnect", "connect", "call again">>]
          /\ target' = <<target[1]>> /\ UNCHANGED table
    /\ UNCHANGED <<connected, lock, current, round, tasks, cancelled, files, tooling, timed,
                   bounds>>

-----------------------------------------------------------------------------
Progress(c) ==
    \/ ConnectAll(c) \/ AllReady(c) \/ DisconnectAll(c) \/ AllClosed(c)
    \/ RefreshTools(c) \/ Discover(c) \/ ListTools(c)

Calls ==
    \/ LookUp("call") \/ Answer("answer") \/ LookUp("call again") \/ Answer("last answer")

Commands ==
    \/ ConnectCommand \/ DisconnectCommand \/ ReconnectCommand \/ ResetChoicesCommand
    \/ SetEnabledCommand \/ SetAllEnabledCommand \/ AddCommand \/ RemoveCommand

Next ==
    \/ \E c \in Coroutines : Progress(c) \/ TimesOut(c) \/ RefreshCancelled(c)
    \/ \E t \in Tasks : Opens(t) \/ Closes(t) \/ Ends(t)
    \/ Commands \/ CallTool \/ Calls

Spec == Init /\ [][Next]_vars

\* Servers answer or time out, cancelled tasks end, coroutines are resumed.
\* The lock wakes its first waiter, so that none waits behind the others for ever.
Fairness ==
    /\ \A t \in Tasks : WF_vars(Opens(t)) /\ WF_vars(Closes(t)) /\ WF_vars(Ends(t))
    /\ \A c \in Coroutines : SF_vars(Progress(c))
    /\ WF_vars(Calls)

FairSpec == Spec /\ Fairness

-----------------------------------------------------------------------------
TypeOK ==
    /\ connected \in BOOLEAN /\ lock \in Coroutines \cup {Free}
    /\ table \in [Servers -> {Absent, Failed, NeedsAuth} \cup {Connected(r) : r \in Rounds}]
    /\ current \in [Servers -> Rounds \cup {0}] /\ round \in Rounds \cup {0}
    /\ tasks \in [Tasks -> {"none", "opening", "up", "parked", "closing", "gone"}]
    /\ cancelled \subseteq Tasks
    /\ pool \subseteq Servers /\ timed \subseteq Coroutines
    /\ asked \in [Coroutines -> SUBSET Servers]

\* A connection is only cancelled when it is ready, open or failed: its stack
\* is unwound and its entry removed by the clean-up clause, which a task that
\* is cancelled while it opens never reaches, also when an earlier connect_all
\* was given up while its tasks were opening.
ReadyWhenCancelled == \A t \in cancelled : tasks[t] # "opening"

\* A server that the table shows as connected has a session that is open,
\* however tasks of abandoned rounds open, time out and overwrite each other.
\* One exception lasts while a disconnect_all waits with the lock: the session is
\* being closed and its entry not yet removed, so that a call or a discovery
\* that looks it up then fails at the server.
BeingClosed(t) == tasks[t] = "closing" /\ \E c \in Coroutines : At(c, "closing")
TableIsLive ==
    \A n \in Servers :
        LET t == <<n, table[n].round>>
        IN  table[n].status = "connected" => tasks[t] = "up" \/ BeingClosed(t)

\* The lock is held by the coroutine that waits for tasks to open or close,
\* and by no coroutine that was cancelled: one wait at a time.
LockOwned == \A c \in Coroutines : lock = c <=> (At(c, "opening") \/ At(c, "closing"))

\* Every command with its refresh and every tool call comes to its end.
CommandsReturn == \A c \in {Pump, Turn} : plan[c] # <<>> ~> plan[c] = <<>>
=============================================================================
