------------------------------ MODULE SubAgents ------------------------------
(***************************************************************************)
(* How sub-agents are set up, who is in a team, and what a sub-agent's run *)
(* comes to.  Each action takes an input of AgentSetup, TeamFile or        *)
(* AgentResult, from all there are within the bounds, and the invariant    *)
(* says what must be true of that input.                                   *)
(***************************************************************************)
EXTENDS ModelRequests

Setup == INSTANCE AgentSetup
Team == INSTANCE TeamFile
Results == INSTANCE AgentResult

-----------------------------------------------------------------------------
(* The inputs.                                                             *)

AgentFiles ==
    [text : {"read"}, name : {"Explore", "mine", "missing", "malformed"},
     description : {"text", "missing"}, option : {"valid", "invalid"}]
    \cup [text : {"unreadable", "undecodable"}, name : {"mine"},
          description : {"text"}, option : {"valid"}]

\* The definitions of agents are loaded.
LoadAgents ==
    /\ Idle
    /\ \E files \in SeqsUpTo(AgentFiles, 3) : input' = [part |-> "agents", files |-> files]

Tools == {"Agent", "Bash", "Read", "ExitPlanMode", "mcp__s__t"}

\* A sub-agent gets its tools.
ResolveTools ==
    /\ Idle
    /\ \E tools \in {<<>>, <<{"*"}>>} \cup {<<T>> : T \in SUBSET Tools},
          disallowed \in SUBSET Tools, available \in {Tools, Tools \ {"Bash"}},
          async \in BOOLEAN, planMode \in BOOLEAN :
           input' = [part |-> "tools", tools |-> tools, disallowed |-> disallowed,
                     available |-> available, async |-> async, planMode |-> planMode]

\* A conversation that may end, or be cut, before all calls are answered: each
\* call is made once, and results are of earlier calls.
Contexts ==
    {context \in SeqsUpTo({Setup!Reply(u) : u \in SUBSET {"a", "b"}}
                          \cup {Setup!UserMessage(r) : r \in SUBSET {"a", "b"}}, 4) :
        \A i \in DOMAIN context :
            LET before == UNION {context[j].uses : j \in 1 .. (i - 1)}
            IN  /\ context[i].results \subseteq before
                /\ context[i].uses \cap before = {}}

\* A sub-agent inherits a conversation and is forked off a reply of its own.
Fork ==
    /\ Idle
    /\ \E context \in Contexts, reply \in {Setup!Reply(u) : u \in SUBSET {"c", "d"}} :
           input' = [part |-> "fork", context |-> context, reply |-> reply]

TeamOp(kind, id, name, mode) == [kind |-> kind, id |-> id, name |-> name, mode |-> mode]
TeamOps ==
    {TeamOp("create", Team!Nobody, Team!Nobody, "none"),
     TeamOp("cleanup", Team!Nobody, Team!Nobody, "none")}
    \cup {TeamOp("add", id, name, "none") : id \in {"1", "2"}, name \in {"a", "b"}}
    \cup {TeamOp("remove", "1", Team!Nobody, "none"), TeamOp("remove", Team!Nobody, "a", "none"),
          TeamOp("remove", "2", "a", "none"), TeamOp("remove_member", "1", Team!Nobody, "none"),
          TeamOp("mode", Team!Nobody, "a", "plan"), TeamOp("active", Team!Nobody, "a", "none")}

\* Members join a team and leave it.
ChangeTeam ==
    /\ Idle
    /\ \E ops \in SeqsUpTo(TeamOps, 4) :
           input' = [part |-> "team",
                     ops |-> <<TeamOp("create", Team!Nobody, Team!Nobody, "none")>> \o ops]

RunEvents ==
    {Results!Event("text", "t"), Results!Event("text", "u"), Results!Event("text", Results!Empty),
     Results!Event("thinking", "m"), Results!Event("thinking", Results!Empty),
     Results!Event("tool_use", "Read"), Results!Event("tool_use", "Grep"),
     Results!Event("tool_result", "r"), Results!Event("usage", "n")}
Endings == {Results!Event(t, Results!Empty) : t \in {"result", "error", "raised"}}

\* More calls than are kept of the activities, before the last events or none.
ManyTools == <<"Bash", "Edit", "Glob", "Write", "Skill", "Agent">>
FirstEvents == {<<>>, [i \in DOMAIN ManyTools |-> Results!Event("tool_use", ManyTools[i])]}

\* A sub-agent runs.
RunAgent ==
    /\ Idle
    /\ \E first \in FirstEvents, events \in SeqsUpTo(RunEvents, 3), end \in Endings :
       LET all == first \o Append(events, end)
       IN  \E abort \in 1 .. (Len(all) + 1) :
               input' = [part |-> "run", events |-> all, abort |-> abort]

-----------------------------------------------------------------------------
(* Properties.                                                             *)

\* Each file under .claude/agents that can be read and names an agent is one or is
\* reported, unless one of them cannot be decoded, and no type has two agents; a
\* sub-agent never gets a tool that its definition or its place takes from it, and
\* the conversation it starts from has a result for every call; its answer is the
\* last that it said.  A change of the team concerns the members that it names.
SubAgentsAreSetUp ==
    /\ input.part = "agents" => Setup!AgentsAccountedFor(input.files)
    /\ input.part = "tools" =>
           Setup!SubAgentsKeepToTheirTools(input.tools, input.disallowed, input.available,
                                           input.async, input.planMode)
    /\ input.part = "fork" => Setup!InheritedCallsAreAnswered(input.context, input.reply)
    /\ input.part = "team" => Team!OthersAreKept(input.ops)
    /\ input.part = "run" => Results!AnswersAreOfTheRun(input.events, input.abort)
=============================================================================
