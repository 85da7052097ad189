--------------------------- MODULE PromptAssembly ---------------------------
(***************************************************************************)
(* constants/prompts.py, context/prompt_builder.py, context/claude_md.py   *)
(* and context/git_context.py: how the system prompt and the first message *)
(* of a conversation are put together.  A section is its title and its     *)
(* bullets; a bullet is the set of the tools that it tells the model to    *)
(* use, its wording is left out.                                           *)
(***************************************************************************)
EXTENDS Naturals, Sequences, FiniteSets, SequencesExt

Section(title, bullets) == [title |-> title, bullets |-> bullets]
Titles(prompt) == [i \in DOMAIN prompt |-> prompt[i].title]
Named(section) == UNION Range(section.bullets)

\* An item of a list of bullets: one, none, or those of a sub-list.
Bullet(tools) == <<tools>>
NoBullet == <<>>
OnlyIf(condition, items) == IF condition THEN items ELSE <<>>
PrependBullets(items) == FlattenSeq(items)

-----------------------------------------------------------------------------
(* The sections that do not depend on the session.                         *)

IntroSection == Section("intro", <<{}>>)
SystemSection == Section("System", PrependBullets(<<Bullet({}), Bullet({}), Bullet({}), Bullet({}), Bullet({}), Bullet({})>>))
CodeStyle == <<{}, {}, {}>>
UserHelp == <<{}, {}>>
DoingTasksSection ==
    Section("Doing tasks",
            PrependBullets(<<Bullet({}), Bullet({}), Bullet({}), Bullet({}), Bullet({}),
                             Bullet({"AskUserQuestion"}), Bullet({}), CodeStyle, Bullet({}), Bullet({}), UserHelp>>))
ActionsSection == Section("Executing actions with care", <<{}>>)
ToneSection(userType) ==
    Section("Tone and style",
            PrependBullets(<<Bullet({}), IF userType = "ant" THEN NoBullet ELSE Bullet({}), Bullet({}), Bullet({}), Bullet({})>>))
EfficiencySection(userType) ==
    Section(IF userType = "ant" THEN "Communicating with the user" ELSE "Output efficiency", <<{}>>)

\* The tool that tasks are kept with: the first of two that is enabled.
TaskTool(enabled) ==
    IF "TaskCreate" \in enabled THEN {"TaskCreate"}
    ELSE {"TodoWrite"} \cap enabled
ProvidedTools(embedded) ==
    <<{"Read"}, {"Edit"}, {"Write"}>> \o OnlyIf(~embedded, <<{"Glob"}, {"Grep"}>>) \o <<{"Bash"}>>
UsingYourToolsSection(enabled, embedded) ==
    Section("Using your tools",
            PrependBullets(<<Bullet({"Bash"}), ProvidedTools(embedded),
                             OnlyIf(TaskTool(enabled) # {}, Bullet(TaskTool(enabled))), Bullet({})>>))

-----------------------------------------------------------------------------
(* The sections of the session.  A session is a record of                  *)
(*   enabled   - the names of the enabled tools,                           *)
(*   skills    - whether skills are registered,                            *)
(*   language  - whether one is preferred,                                 *)
(*   style     - an output style: "none", "with coding", "without coding", *)
(*   clients   - MCP clients: whether connected, and with instructions,    *)
(*   memory    - what loading the memory prompt gives,                     *)
(*   git       - what the repository gives for its status,                 *)
(*   scratchpad, embedded, interactive, explore, forks, userType - options *)
(*               of the second builder.                                    *)

AgentToolBullet == {"Agent"}
SkillBullet == {"Skill"}
HasSkills(s) == s.skills /\ "Skill" \in s.enabled
SearchTools(embedded) == IF embedded THEN {"Bash"} ELSE {"Glob", "Grep"}

\* None, when there is nothing to say.
Guidance(bullets) == OnlyIf(bullets # <<>>, <<Section("Session-specific guidance", bullets)>>)

\* _get_session_specific_guidance of the builder
BuilderGuidance(s) ==
    Guidance(PrependBullets(
        <<OnlyIf("AskUserQuestion" \in s.enabled, Bullet({"AskUserQuestion"})),
          OnlyIf("Agent" \in s.enabled,
                 <<AgentToolBullet, SearchTools(FALSE), {"Agent"} \cup SearchTools(FALSE)>>),
          OnlyIf(HasSkills(s), Bullet(SkillBullet))>>))

\* get_session_specific_guidance_section of the constants
SectionsGuidance(s) ==
    Guidance(PrependBullets(
        <<OnlyIf("AskUserQuestion" \in s.enabled, Bullet({"AskUserQuestion"})),
          OnlyIf(s.interactive, Bullet({})),
          OnlyIf("Agent" \in s.enabled, Bullet(AgentToolBullet)),
          OnlyIf("Agent" \in s.enabled /\ s.explore /\ ~s.forks,
                 <<SearchTools(s.embedded), {"Agent"} \cup SearchTools(s.embedded)>>),
          OnlyIf(HasSkills(s), Bullet(SkillBullet))>>))

Optional(present, title) == OnlyIf(present, <<Section(title, <<{}>>)>>)

EnvironmentSection ==
    Section("Environment", <<{}>>)
McpInstructions(clients) ==
    LET talking == SelectSeq(clients, LAMBDA c: c.connected /\ c.instructions)
    IN  OnlyIf(talking # <<>>, <<Section("MCP Server Instructions", [i \in DOMAIN talking |-> {}])>>)
Boundary == Section("boundary", <<>>)
SummarizeSection == Section("summarize tool results", <<{}>>)

\* collect_git_context and format_git_section: nothing outside of a repository,
\* or where the settings or the environment leave it out.
GitStatus(s) == Optional(s.git = "repository", "gitStatus")

StaticSections(enabled) ==
    <<IntroSection, SystemSection, DoingTasksSection, ActionsSection,
      UsingYourToolsSection(enabled, FALSE), ToneSection("external"), EfficiencySection("external")>>
DynamicSections(s) ==
    BuilderGuidance(s) \o Optional(s.memory = "loaded", "memory") \o <<EnvironmentSection>>
        \o Optional(s.language, "Language") \o Optional(s.style # "none", "Output Style")
        \o McpInstructions(s.clients) \o <<SummarizeSection>>

\* build_system_prompt; a failure of the memory leaves it out.
BuildSystemPrompt(s) ==
    StaticSections(s.enabled) \o <<Boundary>> \o DynamicSections(s) \o GitStatus(s)

\* build_system_prompt_sections
BuildSystemPromptSections(s) ==
    <<IntroSection, SystemSection>>
        \o OnlyIf(s.style # "without coding", <<DoingTasksSection>>)
        \o <<ActionsSection, UsingYourToolsSection(s.enabled, s.embedded),
             ToneSection(s.userType), EfficiencySection(s.userType), Boundary>>
        \o SectionsGuidance(s) \o <<EnvironmentSection>>
        \o Optional(s.language, "Language") \o Optional(s.style # "none", "Output Style")
        \o McpInstructions(s.clients) \o Optional(s.scratchpad, "Scratchpad Directory")
        \o <<SummarizeSection>>

\* build_effective_system_prompt, of the texts that are given
Text(title) == <<Section(title, <<>>)>>
BuildEffective(default, given, proactive) ==
    LET appended == OnlyIf("append" \in given, Text("append")) IN
    CASE "override" \in given -> Text("override")
      [] "override" \notin given /\ "coordinator" \in given /\ "agent" \notin given ->
           Text("coordinator") \o appended
      [] "override" \notin given /\ "agent" \in given ->
           OnlyIf(proactive, default) \o Text("agent") \o appended
      [] given \cap {"override", "agent", "coordinator"} = {} /\ "custom" \in given ->
           Text("custom") \o appended
      [] given \cap {"override", "agent", "coordinator", "custom"} = {} -> default \o appended

\* get_agent_system_prompt: the prompt of a sub-agent, with the notes and the environment.
AgentPrompt(prompt, enhancementFails) ==
    IF enhancementFails THEN Text("default agent prompt") \o Text("notes") \o Text("env")
    ELSE OnlyIf(prompt # "", Text(prompt)) \o Text("notes") \o Text("env")

-----------------------------------------------------------------------------
(* The first message: the CLAUDE.md files, the date and the skills.        *)
(* Directories are a path from the root, 0, to the working directory; home *)
(* is one of them or, when it is Elsewhere, none.                          *)

Elsewhere == 100
\* A file of a directory: its CLAUDE.md or the one in its .claude directory.
File(directory, dotted) == [directory |-> directory, dotted |-> dotted]

\* Mutant: the search goes up to home and looks there as well.
ClimbedIntoHome(work, home) ==
    [i \in 1 .. (work - (IF home < work THEN home ELSE 1)) |-> work - i]
\* The directories that the search goes up through, never the root itself.
Climbed(work, home) ==
    LET stop == IF home < work THEN home ELSE 0
    IN  [i \in 1 .. (work - stop - 1) |-> work - i]
FindClaudeMdFiles(work, home, existing) ==
    SelectSeq(<<File(work, FALSE), File(work, TRUE)>>
                  \o [i \in DOMAIN Climbed(work, home) |-> File(Climbed(work, home)[i], FALSE)]
                  \o <<File(home, TRUE)>>,
              LAMBDA f: f \in existing)
\* A file that cannot be read or is empty is passed over.
ReadClaudeMd(files, readable) == SelectSeq(files, LAMBDA f: f \in readable)
UserContext(files, skills) ==
    OnlyIf(files # <<>>, <<"claudeMd">>) \o <<"currentDate">> \o OnlyIf(skills, <<"skills">>)

-----------------------------------------------------------------------------
(* What is known of a model by its identifier: the parts of the identifier *)
(* up to the version, and a suffix.                                        *)

CutoffPatterns ==
    <<[id |-> <<"sonnet", "4", "6">>, cutoff |-> "August 2025"],
      [id |-> <<"opus", "4", "6">>, cutoff |-> "May 2025"],
      [id |-> <<"opus", "4", "5">>, cutoff |-> "May 2025"],
      [id |-> <<"haiku", "4">>, cutoff |-> "February 2025"],
      [id |-> <<"opus", "4">>, cutoff |-> "January 2025"],
      [id |-> <<"sonnet", "4">>, cutoff |-> "January 2025"]>>
Matches(pattern, id) == IsPrefix(pattern.id, id)
FirstMatch(id) == SelectInSeq(CutoffPatterns, LAMBDA p: Matches(p, id))
KnowledgeCutoff(id) == IF FirstMatch(id) = 0 THEN "unknown" ELSE CutoffPatterns[FirstMatch(id)].cutoff

-----------------------------------------------------------------------------
(* What should hold.                                                       *)

Before(prompt) == SubSeq(prompt, 1, SelectInSeq(prompt, LAMBDA x: x = Boundary) - 1)

\* What precedes the boundary is the same in every session with these tools, so
\* that a cache of it is hit, and both builders write the same.
PrefixIsCacheable(s) ==
    /\ Before(BuildSystemPrompt(s)) = StaticSections(s.enabled)
    /\ s.style = "none" /\ ~s.embedded /\ s.userType = "external" =>
           Before(BuildSystemPromptSections(s)) = Before(BuildSystemPrompt(s))

\* A prompt names a tool that the session does not have only where the code names
\* it in any session: the tools for files and the shell (prompts.py:350), the
\* question to the user (275) and, along with the Agent tool, the tools for searches.
\* All others, the tool for skills and the tools for tasks among them, are there.
Unconditional == {"Read", "Edit", "Write", "Glob", "Grep", "Bash", "AskUserQuestion"}
PromptNamesWhatIsThere(s) ==
    \A prompt \in {BuildSystemPrompt(s), BuildSystemPromptSections(s)} :
        /\ \A i \in DOMAIN prompt :
               /\ Named(prompt[i]) \ Unconditional \subseteq s.enabled
               /\ prompt[i].title = "Session-specific guidance" /\ "Agent" \notin s.enabled =>
                      Named(prompt[i]) \subseteq s.enabled
        /\ ("Skill" \in UNION {Named(prompt[i]) : i \in DOMAIN prompt}) => s.skills
        /\ \A i, j \in DOMAIN prompt : prompt[i].title = prompt[j].title => i = j

\* A text that is given is part of the prompt unless one before it in the order of
\* priority takes its place, and the one to append comes last.
GivenTextsAreKept(s, given, proactive) ==
    LET default == BuildSystemPrompt(s)
        prompt == BuildEffective(default, given, proactive)
        mains == {"override", "coordinator", "agent", "custom"}
    IN  /\ Cardinality({i \in DOMAIN prompt : prompt[i].title \in mains}) =
               (IF given \cap mains = {} THEN 0 ELSE 1)
        /\ "override" \notin given /\ "append" \in given => Last(prompt).title = "append"
        /\ "override" \notin given /\ "agent" \in given =>
               Contains(Titles(prompt), "agent")
        /\ IsPrefix(default, prompt) <=>
               given \cap mains = {} \/ (proactive /\ Contains(Titles(prompt), "agent"))

\* Every CLAUDE.md from the working directory up to home, or up to the root when the
\* work is not done below home, is found, the nearest first.  Each is found once but
\* that of .claude in the home directory, which a session at home finds twice.
ClaudeMdFound(work, home, existing) ==
    LET found == FindClaudeMdFiles(work, home, existing)
        Times(f) == Cardinality({i \in DOMAIN found : found[i] = f}) IN
    /\ \A f \in Range(found) :
           Times(f) = IF work = home /\ f = File(home, TRUE) THEN 2 ELSE 1
    /\ LET below == IF home < work THEN home + 1 ELSE 1
           wanted == {File(d, FALSE) : d \in (below .. work) \cup {work}}
                         \cup {File(work, TRUE), File(home, TRUE)}
       IN  Range(found) = wanted \cap existing
    /\ \A i, j \in DOMAIN found :
           i < j /\ ~found[j].dotted => found[i].directory >= found[j].directory

\* The knowledge cutoff is that of the most specific version known.
CutoffIsOfVersion(id) ==
    LET known == {p \in Range(CutoffPatterns) : Matches(p, id)} IN
    \A p \in known : (\A q \in known : Len(q.id) <= Len(p.id)) => KnowledgeCutoff(id) = p.cutoff
=============================================================================
