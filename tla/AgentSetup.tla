----------------------------- MODULE AgentSetup -----------------------------
(***************************************************************************)
(* How a sub-agent is put together: its definition (load_agents_dir.py),   *)
(* its tools (agent_tool_utils.py) and the messages it inherits            *)
(* (fork_subagent.py, run_agent.py).                                       *)
(*                                                                         *)
(* Pure operators.  A file under .claude/agents is a record of what comes  *)
(* of reading it, of the name and description in its frontmatter and of    *)
(* one optional field that stands for all of them, as each is parsed like  *)
(* the others.                                                             *)
(***************************************************************************)
EXTENDS Naturals, Sequences, FiniteSets, SequencesExt, Selections

-----------------------------------------------------------------------------
(* Definitions of agents.                                                  *)

None == "none"
BuiltInTypes == {"general-purpose", "Explore", "Plan", "verification"}

\* An optional field keeps a value that validates; one that does not is absent.
Field(raw) == IF raw = "valid" THEN raw ELSE None

\* parse_agent_from_markdown: <<>> for None.  A name is a text, missing, or
\* some other value; the file's number stands for the rest of the definition.
ParseAgentFromMarkdown(file, i) ==
    IF file.name \in {"missing", "malformed"} \/ file.description # "text" THEN <<>>
    ELSE <<[type |-> file.name, source |-> "projectSettings", file |-> i,
            option |-> Field(file.option)]>>

\* _get_built_in_agents
BuiltInAgents ==
    [k \in 1 .. Cardinality(BuiltInTypes) |->
        [type |-> SetToSeq(BuiltInTypes)[k], source |-> "built-in", file |-> 0, option |-> None]]

\* _scan_agents_dir passes over a file that cannot be opened.
AgentOf(file, i) == IF file.text = "unreadable" THEN <<>> ELSE ParseAgentFromMarkdown(file, i)

\* Text that is not UTF-8 raises through _scan_agents_dir, and the loader falls
\* back on the built-in agents.
Breaks(files) == \E i \in DOMAIN files : files[i].text = "undecodable"

AllAgents(files) ==
    IF Breaks(files) THEN BuiltInAgents
    ELSE BuiltInAgents \o FlattenSeq([i \in DOMAIN files |-> AgentOf(files[i], i)])

\* get_agent_definitions_with_overrides: the files read that have a name and do
\* not parse, or one failure whose path is "unknown".
Unknown == 0
FailedFiles(files) ==
    IF Breaks(files) THEN {Unknown}
    ELSE {i \in DOMAIN files :
             /\ files[i].text = "read" /\ files[i].name # "missing"
             /\ AgentOf(files[i], i) = <<>>}

\* get_active_agents_from_list: the first of each type, by the order of the
\* sources, in which the list of all agents is already.
FirstOfType(agents, i) ==
    ~\E j \in 1 .. (i - 1) : agents[j].type = agents[i].type
ActiveAgents(agents) == {agents[i] : i \in {k \in DOMAIN agents : FirstOfType(agents, k)}}

-----------------------------------------------------------------------------
(* Tools.                                                                  *)

AsyncAllowed == {"Bash", "TodoWrite"}        \* of ASYNC_AGENT_ALLOWED_TOOLS
TeammateAllowed == {"TodoWrite", "Agent"}    \* IN_PROCESS_TEAMMATE_ALLOWED_TOOLS
McpTools == {"mcp__s__t"}

\* Mutant: the hatch for teammates comes before the disallow lists.
DeniedUnlessAsync(tool, async) == tool = "Agent" /\ ~async
\* ALL_AGENT_DISALLOWED_TOOLS, for built-in and custom agents alike.
Denied(tool, async) == tool = "Agent"

\* _tool_allowed
ToolAllowed(tool, async, planMode) ==
    \/ tool \in McpTools
    \/ tool = "ExitPlanMode" /\ planMode
    \/ /\ ~Denied(tool, async)
       /\ async => tool \in AsyncAllowed \cup TeammateAllowed

\* resolve_agent_tools off the main thread, with the specifications of the
\* definition as the tools they name; <<>> for no list at all.
ResolveAgentTools(tools, disallowed, available, async, planMode) ==
    LET pool == {t \in available : ToolAllowed(t, async, planMode)} \ disallowed
    IN  IF tools = <<>> \/ tools[1] = {"*"} THEN pool
        ELSE pool \cap (tools[1] \ {"Agent"})

-----------------------------------------------------------------------------
(* Messages.  A message has a role, the tool uses of an assistant and the  *)
(* tool results of a user, as sets of ids.                                 *)

Reply(uses) == [role |-> "assistant", uses |-> uses, results |-> {}]
UserMessage(results) == [role |-> "user", uses |-> {}, results |-> results]

HasIncomplete(msg, answered) == ~(msg.uses \subseteq answered)

\* filter_incomplete_tool_calls
FilterIncomplete(messages) ==
    LET answered == UNION {messages[i].results : i \in DOMAIN messages}
    IN  Selected(messages, LAMBDA msg : ~HasIncomplete(msg, answered))

\* build_forked_messages: the reply and one message with a placeholder for each
\* of its calls, or the directive alone.
ForkedMessages(reply) ==
    IF reply.uses = {} THEN <<UserMessage({})>>
    ELSE <<reply, UserMessage(reply.uses)>>

\* run_agent: what the sub-agent's conversation begins with.
InitialMessages(context, prompt) == FilterIncomplete(context) \o prompt

-----------------------------------------------------------------------------
(* Properties of one input.                                                *)

\* Each file that can be read and names an agent is among the agents or reported
\* as failed, and an option that does not validate rejects none.  A file that
\* cannot be opened is neither, without a word, and one that cannot be decoded
\* takes all the others with it, for one failure that names no file.  Each type
\* has one active definition, the first; that of a built-in is never overridden.
AgentsAccountedFor(files) ==
    LET all == AllAgents(files)
        active == ActiveAgents(all)
        IsAgent(i) == \E k \in DOMAIN all : all[k].file = i
        Names(i) == files[i].text = "read" /\ files[i].name # "missing"
    IN  /\ \A i \in DOMAIN files :
               /\ IsAgent(i) => Names(i) /\ ~Breaks(files)
               /\ i \in FailedFiles(files) => Names(i) /\ ~Breaks(files)
               /\ Names(i) /\ ~Breaks(files) => (i \in FailedFiles(files)) # IsAgent(i)
        /\ Breaks(files) => FailedFiles(files) = {Unknown}
        /\ \A a \in active, b \in active : a.type = b.type => a = b
        /\ \A k \in DOMAIN all : \E a \in active : a.type = all[k].type /\ a.file <= all[k].file
        /\ \A a \in active : a.type \in BuiltInTypes => a.file = 0

\* Sub-agents do not nest and get nothing that their definition or their running
\* in the background takes from them, whichever way they ask for it.
SubAgentsKeepToTheirTools(tools, disallowed, available, async, planMode) ==
    LET got == ResolveAgentTools(tools, disallowed, available, async, planMode)
    IN  /\ got \subseteq available \ disallowed
        /\ "Agent" \notin got
        /\ async => got \subseteq AsyncAllowed \cup McpTools \cup
                                  (IF planMode THEN {"ExitPlanMode"} ELSE {})
        /\ tools # <<>> /\ tools[1] # {"*"} => got \subseteq tools[1]

\* What a sub-agent inherits contains no call without a result, and nothing is
\* dropped from it but replies with such a call; a fork answers all its calls.
InheritedCallsAreAnswered(context, reply) ==
    LET messages == InitialMessages(context, ForkedMessages(reply))
        answered(i) == UNION {messages[j].results : j \in i .. Len(messages)}
    IN  /\ \A i \in DOMAIN messages : messages[i].uses \subseteq answered(i)
        /\ Len(FilterIncomplete(context)) =
               Len(context) - Cardinality({i \in DOMAIN context :
                   ~(context[i].uses \subseteq UNION {context[j].results : j \in DOMAIN context})})
        /\ messages[Len(messages)].role = "user"
=============================================================================
