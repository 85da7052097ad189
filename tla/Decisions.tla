----------------------------- MODULE Decisions -----------------------------
(***************************************************************************)
(* The decisions that the program computes from one input and that leave   *)
(* no state behind: each action takes an input of one of the modules that  *)
(* describe them, from all there are within the bounds, and the            *)
(* invariants say what must be true of that input.                         *)
(***************************************************************************)
EXTENDS SubAgents

Names == INSTANCE Registries
Line == INSTANCE InputLine
Rules == INSTANCE PermissionRules
Mcp == INSTANCE McpConfig WITH Servers <- {"s1", "s2"}, MaxName <- 2
McpArgs == INSTANCE McpSetup WITH Servers <- {"s1", "s2"}
Prompts == INSTANCE PromptAssembly
Files == INSTANCE FileTools
Memory == INSTANCE MemoryFiles

CONSTANTS MaxText,       \* bound: characters of a text
          MaxKeys        \* bound: keys that are pressed

ASSUME DecisionsAssumption == {MaxText, MaxKeys} \subseteq Nat

-----------------------------------------------------------------------------
(* The definitions of MCP servers and the names of their tools.            *)

McpEntries ==
    {[type |-> t, complete |-> c] : t \in {"absent", "http"}, c \in BOOLEAN}
McpFiles ==
    {Mcp!Json(servers, disabled, rest) :
        servers \in UNION {[S -> McpEntries] : S \in SUBSET {"s1", "s2"}},
        disabled \in {{}, {"s1"}}, rest \in BOOLEAN}

\* A command edits a file of definitions next to the other one.
EditMcpFile ==
    /\ Idle
    /\ \E user \in McpFiles, project \in McpFiles, raw \in McpEntries :
           /\ ~project.rest /\ project.disabled = {}
           /\ input' = [part |-> "mcpFile", user |-> user, project |-> project, raw |-> raw]

\* A server and a tool get a name.
NameTool ==
    /\ Idle
    /\ \E s \in SeqsUpTo(Mcp!Chars, MaxText), t \in SeqsUpTo(Mcp!Chars, 2) :
           input' = [part |-> "mcpName", server |-> s, tool |-> t]

\* Servers offer tools, some of which come out with one name.
OfferTools ==
    /\ Idle
    /\ \E infos \in SeqsUpTo(SeqsUpTo({Mcp!Letter, Mcp!Special}, 1) \X {<<Mcp!Letter>>, <<Mcp!Special, Mcp!Letter>>}, 3) :
           input' = [part |-> "mcpTools", infos |-> infos]

Arguments ==
    {<<"name">>, <<"-y">>, <<"--scope", "user">>, <<"--scope", "local">>,
     <<"--transport", "http">>, <<"--env", "K=1">>, <<"--env", "K=2">>, <<"--env", "=1">>,
     <<"--header", "L=1">>, <<"--header", "K">>, <<"--client-id", "id">>,
     <<"--callback-port", "no number">>, <<"--client-secret", "secret">>}

\* A server is added by its name, a target behind it and three more arguments.
AddMcpServer ==
    /\ Idle
    /\ \E more \in [1 .. 3 -> Arguments], target \in 1 .. 4 : \E name \in 1 .. target :
           input' = [part |-> "mcpArguments",
                     items |-> InsertAt(InsertAt(more, target, <<"target">>), name, <<"name">>)]

McpOps ==
    {[kind |-> "add", name |-> "s1", scope |-> s, raw |-> [type |-> "http", complete |-> c],
      secret |-> TRUE] : s \in {"user", "project"}, c \in BOOLEAN}
    \cup {[kind |-> "add", name |-> "s2", scope |-> "user", secret |-> FALSE,
           raw |-> [type |-> "absent", complete |-> TRUE]]}
    \cup {[kind |-> "remove", name |-> "s1", scope |-> s] : s \in {"user", "project"}}
    \cup {[kind |-> k, name |-> n, scope |-> "none"] :
              k \in {"enable", "disable"}, n \in {"s1", "all"}}
    \cup {[kind |-> "reset", name |-> "none", scope |-> "none"]}

\* Commands change the files.
ChangeMcpServers ==
    /\ Idle
    /\ \E ops \in SeqsUpTo(McpOps, 4) :
           /\ ops # <<>>
           /\ input' = [part |-> "mcpCommands", ops |-> ops]

Variables == {<<"v">>, <<"w">>}
McpValues == {McpArgs!Unset, <<>>, <<"x">>, McpArgs!Opening \o <<"w", McpArgs!Closing>>}
Pieces ==
    {[kind |-> "text", text |-> t] : t \in {<<"x">>, <<"$">>, <<McpArgs!Closing>>, <<McpArgs!Default>>}}
    \cup {[kind |-> "reference", name |-> v, default |-> d] :
              v \in Variables,
              d \in {McpArgs!Unset, <<>>, <<"d">>, <<McpArgs!Default, "$", "{">>}}

\* A definition has references to variables.
ExpandVariables ==
    /\ Idle
    /\ \E pieces \in SeqsUpTo(Pieces, 3), env \in [Variables -> McpValues] :
           input' = [part |-> "mcpVariables", pieces |-> pieces, env |-> env]

\* Tokens and secrets are stored, each time another; the keyring may work or fail.
StoreTokens ==
    /\ Idle
    /\ \E kinds \in SeqsUpTo({"tokens", "client", "secret", "invalidate"}, 4) :
       \E working \in [DOMAIN kinds -> BOOLEAN], works \in BOOLEAN :
           input' = [part |-> "mcpTokens", works |-> works,
                     ops |-> [i \in DOMAIN kinds |->
                         [kind |-> kinds[i], value |-> <<"1", "2", "3", "4">>[i],
                          works |-> working[i]]]]

-----------------------------------------------------------------------------
(* Skills and commands.                                                    *)

Bundled == {<<Names!Entry("verify", {"check"}, 0, TRUE), Names!Entry("remember", {}, 0, FALSE)>>}
OnDisk == {Names!Entry(n, {}, f, u) : n \in {"verify", "check", "mine"}, f \in 1 .. 2, u \in BOOLEAN}
Origin(o) == CHOOSE i \in DOMAIN Names!Origins : Names!Origins[i] = o
\* The files under each origin; those of a commands directory may share a name.
Disks ==
    {[o \in ToSet(Names!Origins) |-> found[Origin(o)]] :
        found \in {f \in [1 .. 4 -> SeqsUpTo(OnDisk, 1)] : f[2] = <<>> \/ f[4] = <<>>}}

\* The skills are loaded.
LoadSkills ==
    /\ Idle
    /\ \E bundled \in Bundled, disk \in Disks :
           input' = [part |-> "skills", bundled |-> bundled, disk |-> disk]

Commands == {Names!Entry("clear", {"reset", "new"}, 0, TRUE), Names!Entry("help", {"h"}, 0, TRUE)}
CommandOps ==
    {[kind |-> "register", entry |-> e, name |-> e.name] : e \in Commands}
    \cup {[kind |-> "unregister", entry |-> Names!Nothing, name |-> n] :
              n \in {"clear", "reset", "help", "h", "new"}}

\* Commands are registered and unregistered.
ChangeCommands ==
    /\ Idle
    /\ \E ops \in SeqsUpTo(CommandOps, 4) : input' = [part |-> "commands", ops |-> ops]

-----------------------------------------------------------------------------
(* The input line and the view.                                            *)

Keys == [kind : {"up", "down", "home", "enter"}, value : {Line!Empty}]
        \cup [kind : {"type"}, value : {"a", "b"}]

\* Keys are pressed.
PressKeys ==
    /\ Idle
    /\ \E keys \in SeqsUpTo(Keys, MaxKeys) : input' = [part |-> "keys", keys |-> keys]

Typed == {"q", "version", "clear", "remember", "h", "help", "verify", "check"}

\* A prefix is typed.
SuggestCommands ==
    /\ Idle
    /\ \E commands \in SUBSET Commands, skills \in SeqsUpTo(
              {Names!Entry("verify", {"check"}, 0, TRUE), Names!Entry("help", {}, 0, TRUE),
               Names!Entry("remember", {}, 0, FALSE)}, 2),
          matching \in SUBSET Typed :
           input' = [part |-> "prefix", commands |-> commands, skills |-> skills,
                     matching |-> matching]

Events == [kind : {"output", "forced", "page up", "page down"}, near : BOOLEAN]
          \cup [kind : {"refresh"}, near : {TRUE}]

\* Output comes, and a user pages through it.
ScrollView ==
    /\ Idle
    /\ \E events \in SeqsUpTo(Events, 5) : input' = [part |-> "view", events |-> events]

-----------------------------------------------------------------------------
(* Permission rules.                                                       *)

\* A rule is written down, or a text read that a user has put in a file.
ReadRule ==
    /\ Idle
    /\ \E content \in SeqsUpTo(Rules!Symbols, MaxText), rest \in SeqsUpTo(Rules!Symbols, MaxText),
          tool \in {<<Rules!Plain>>, <<Rules!Old>>} :
           /\ content = <<>> \/ rest = <<>>
           /\ input' = [part |-> "rule", tool |-> tool, content |-> content, text |-> tool \o rest]

Bash(content) == Rules!Rule(<<Rules!Plain>>, content)
Texts == {<<Rules!Plain>>, <<Rules!Plain, Rules!Open, Rules!Star, Rules!Close>>,
          Rules!RuleToString(Bash(<<Rules!Plain>>)), <<Rules!Old>>,
          <<Rules!Old, Rules!Open, Rules!Plain, Rules!Close>>}
Updates ==
    [type : {"add", "replace", "remove"}, behavior : {"allow", "deny"},
     rules : SeqsUpTo({Bash(<<>>), Bash(<<Rules!Plain>>), Bash(<<Rules!Back, Rules!Open>>)}, 2)]

\* A change of the rules is applied and persisted.
ChangeRules ==
    /\ Idle
    /\ \E allow \in SeqsUpTo(Texts, 2), deny \in SeqsUpTo(Texts, 1), update \in Updates :
           input' = [part |-> "settings", update |-> update,
                     file |-> [b \in Rules!Behaviors |->
                         CASE b = "allow" -> allow [] b = "deny" -> deny [] b = "ask" -> <<>>]]

\* The rules of all settings files are taken into a context that has some.
SyncRules ==
    /\ Idle
    /\ \E policy \in SeqsUpTo(Texts, 1), flags \in BOOLEAN, user \in SeqsUpTo(Texts, 2),
          denied \in SeqsUpTo(Texts, 1), old \in SeqsUpTo(Texts, 1), managed \in BOOLEAN :
       LET rules(allow, deny) == [b \in Rules!Behaviors |->
               CASE b = "allow" -> allow [] b = "deny" -> deny [] b = "ask" -> <<>>]
       IN  input' =
           [part |-> "sync", managed |-> managed,
            context |-> [s \in Rules!Destinations |-> rules(old, old)],
            files |-> [s \in ToSet(Rules!EnabledSources) |->
                CASE s = "policySettings" -> rules(policy, <<>>)
                  [] s = "flagSettings" -> rules(<<>>, IF flags THEN old ELSE <<>>)
                  [] s = "userSettings" -> rules(user, <<>>)
                  [] s = "projectSettings" -> rules(<<>>, denied)
                  [] s = "localSettings" -> rules(denied, user)]]

-----------------------------------------------------------------------------
(* The system prompt and the instructions.                                 *)

PromptTools == {"AskUserQuestion", "Agent", "Skill", "TaskCreate", "TodoWrite"}
Sessions ==
    [enabled : {T \in SUBSET PromptTools : Cardinality(T) \in {0, 1, 4, 5}},
     skills : BOOLEAN, language : BOOLEAN, style : {"none", "with coding", "without coding"},
     clients : {<<>>, <<[connected |-> TRUE, instructions |-> TRUE]>>,
                <<[connected |-> FALSE, instructions |-> TRUE]>>},
     memory : {"loaded", "failed"}, git : {"repository", "none"}, scratchpad : {TRUE},
     embedded : BOOLEAN, interactive : {TRUE}, explore : BOOLEAN, forks : BOOLEAN,
     userType : {"ant", "external"}]

\* The prompt of a session is put together.
AssemblePrompt ==
    /\ Idle
    /\ \E session \in Sessions : input' = [part |-> "prompt", session |-> session]

\* Texts are given that change it.
GiveTexts ==
    /\ Idle
    /\ \E given \in SUBSET {"override", "coordinator", "agent", "custom", "append"},
          proactive \in BOOLEAN,
          session \in {s \in Sessions : s.skills /\ s.explore /\ s.forks /\ s.git = "none"} :
           /\ session.enabled = PromptTools /\ session.userType = "external" /\ ~session.embedded
           /\ input' = [part |-> "texts", session |-> session, given |-> given,
                        proactive |-> proactive]

\* The instructions of a project are looked for.
FindInstructions ==
    /\ Idle
    /\ \E work \in 1 .. 4, home \in (1 .. 3) \cup {Prompts!Elsewhere} :
       \E existing \in SUBSET {Prompts!File(d, dotted) :
                                  d \in (0 .. work) \cup {home}, dotted \in BOOLEAN} :
           input' = [part |-> "instructions", work |-> work, home |-> home, existing |-> existing]

\* A model is named.
IdentifyModel ==
    /\ Idle
    /\ \E family \in {"opus", "sonnet", "haiku"}, version \in {"3", "4"},
          rest \in SeqsUpTo({"1", "5", "6"}, 2) :
           input' = [part |-> "model", id |-> <<family, version>> \o rest]

-----------------------------------------------------------------------------
(* Files.                                                                  *)

Characters == {"a", "b", Files!NewLine, Files!Return}
FileTexts == SeqsUpTo(Characters, MaxText)
Parts == SeqsUpTo({"a", "c"}, 2) \cup {<<"a", "b", "a">>, <<Files!NewLine>>}

\* A file is edited or written, which may have changed since it was shown.
EditFile ==
    /\ Idle
    /\ \E file \in FileTexts \cup {Files!Missing, Files!NotText}, old \in Parts, new \in Parts,
          all \in BOOLEAN :
       \E shown \in {file, Files!Missing, Files!NotText, <<"a", "b", "a">>, <<"b", Files!Return, "a">>} :
           input' = [part |-> "edit", file |-> file, old |-> old, new |-> new, all |-> all,
                     shown |-> shown]

\* Blocks of lines of the one that are lines of the other, each behind the one
\* before it and apart from it.
EqualBlocks(old, new) ==
    {b \in (0 .. Len(old)) \X (0 .. Len(new)) \X (1 .. Len(old)) :
        LET i == b[1] j == b[2] n == b[3]
        IN  /\ i + n <= Len(old) /\ j + n <= Len(new)
            /\ SubSeq(old, i + 1, i + n) = SubSeq(new, j + 1, j + n)}
BlocksOf(old, new) ==
    {blocks \in SeqsUpTo(EqualBlocks(old, new), 2) :
        Len(blocks) = 2 =>
            LET a == blocks[1] b == blocks[2]
            IN  /\ a[1] + a[3] <= b[1] /\ a[2] + a[3] <= b[2]
                /\ a[1] + a[3] # b[1] \/ a[2] + a[3] # b[2]}

\* A change is shown.
ShowDiff ==
    /\ Idle
    /\ \E old \in SeqsUpTo({"x", "y"}, MaxText - 1), new \in SeqsUpTo({"x", "y"}, MaxText - 1),
          operation \in {"edit", "create", "overwrite"} :
       \E blocks \in BlocksOf(old, new) :
           /\ operation = "create" => old = <<>>
           /\ input' = [part |-> "diff", old |-> old, new |-> new, blocks |-> blocks,
                        operation |-> operation]

\* A file is read in pieces.
ReadPieces ==
    /\ Idle
    /\ \E text \in FileTexts, limit \in 1 .. 3 :
           input' = [part |-> "pieces", text |-> text, limit |-> limit]

\* A cell of a notebook is changed.
EditNotebook ==
    /\ Idle
    /\ \E cells \in SeqsUpTo({"x", "y", "z"}, 3), mode \in {"insert", "delete", "replace"},
          n \in -4 .. 4 :
           input' = [part |-> "notebook", cells |-> cells, mode |-> mode, n |-> n]

TreeFiles ==
    {f \in [match : {"line", "lines", "dots", "nowhere"}, glob : BOOLEAN, type : BOOLEAN,
            ignored : BOOLEAN, vcs : BOOLEAN, mtime : 1 .. 2] :
        Cardinality({x \in {"glob", "type"} : ~f[x]} \cup {x \in {"ignored", "vcs"} : f[x]}
                    \cup {x \in {"match"} : f[x] # "line"}) <= 1}

\* Files are searched; each is found once.
Search ==
    /\ Idle
    /\ \E files \in SeqsUpTo(TreeFiles, 3), limit \in 0 .. 1, glob \in {"none", "name", "path"},
          type \in BOOLEAN, multiline \in BOOLEAN :
           /\ IsInjective(files)
           /\ input' = [part |-> "search", files |-> files, limit |-> limit + 1,
                        query |-> [glob |-> glob, type |-> type, multiline |-> multiline,
                                   ripgrep |-> TRUE, limit |-> limit]]

Outputs == SeqsUpTo({"a", Files!Blank, Files!NewLine}, 3)

\* A command is run; the times are in seconds.
RunCommand ==
    /\ Idle
    /\ \E out \in Outputs, err \in Outputs, code \in {0, 1}, lasts \in {1, 100, 300, 700},
          given \in {0, 60, 300, 1000}, max \in {2}, dangerous \in BOOLEAN, background \in BOOLEAN :
           /\ lasts # 1 => out \in SeqsUpTo({"a"}, 1) /\ err = <<>>
           /\ input' = [part |-> "command", given |-> given, max |-> max,
                        command |-> [out |-> out, err |-> err, code |-> code, lasts |-> lasts,
                                     dangerous |-> dangerous, background |-> background]]

-----------------------------------------------------------------------------
(* Memory.                                                                 *)

IndexLines == {Memory!Line(n, wide) : n \in 0 .. 3, wide \in BOOLEAN}

\* The index is loaded.
CutIndex ==
    /\ Idle
    /\ \E lines \in SeqsUpTo(IndexLines, MaxText - 1), maxLines \in 1 .. 2, max \in 2 .. 6 :
           /\ lines # <<>> /\ lines[1].chars > 0
           /\ input' = [part |-> "index", lines |-> lines, maxLines |-> maxLines, max |-> max]

MemoryNames == {"MEMORY.md", "a", "b", "c"}
MemoryDirs ==
    {files \in SeqsUpTo([name : MemoryNames, mtime : 1 .. 2, readable : BOOLEAN], 3) :
        \A i, j \in DOMAIN files : files[i].name = files[j].name => i = j}

\* A memory is opened by its number.
OpenMemory ==
    /\ Idle
    /\ \E files \in MemoryDirs, max \in 1 .. 3, n \in 1 .. 6 :
           input' = [part |-> "memory", files |-> files, max |-> max, n |-> n]

\* Memories are recalled: the model may name a file that is not there.
RecallMemories ==
    /\ Idle
    /\ \E files \in MemoryDirs, max \in 1 .. 3, surfaced \in {{}, {"a"}},
          names \in SeqsUpTo({"a", "b", "d"}, 2), failed \in BOOLEAN :
           input' = [part |-> "recall", files |-> files, max |-> max, surfaced |-> surfaced,
                     answer |-> [failed |-> failed, names |-> names]]

\* Notes are cut, a section of them having no header at their beginning.
CutNotes ==
    /\ Idle
    /\ \E first \in SeqsUpTo(0 .. 2, 2), second \in SeqsUpTo(0 .. 3, 3), max \in 1 .. 6 :
           input' = [part |-> "cutNotes", max |-> max,
                     sections |-> <<[header |-> 0, lines |-> first], [header |-> 2, lines |-> second]>>]

\* Turns of a session end, in which the conversation grows.
TakeNotes ==
    /\ Idle
    /\ \E turns \in SeqsUpTo([tokens : 1 .. 4, calls : 0 .. 1, callsLast : BOOLEAN, fails : BOOLEAN], 3),
          toStart \in 1 .. 2, between \in 1 .. 2 :
           /\ \A i \in DOMAIN turns :
                  /\ turns[i].callsLast => turns[i].calls > 0
                  /\ i > 1 => turns[i].tokens >= turns[i - 1].tokens
           /\ input' = [part |-> "notes", turns |-> turns,
                        config |-> [toStart |-> toStart, between |-> between, calls |-> 1]]

-----------------------------------------------------------------------------
(* Specification.                                                          *)

Decide ==
    \/ Request \/ Calls \/ CompactOnce \/ AutoCompact
    \/ EditMcpFile \/ NameTool \/ OfferTools
    \/ AddMcpServer \/ ChangeMcpServers \/ ExpandVariables \/ StoreTokens
    \/ LoadAgents \/ ResolveTools \/ Fork \/ ChangeTeam \/ RunAgent
    \/ LoadSkills \/ ChangeCommands
    \/ PressKeys \/ SuggestCommands \/ ScrollView
    \/ ReadRule \/ ChangeRules \/ SyncRules
    \/ AssemblePrompt \/ GiveTexts \/ FindInstructions \/ IdentifyModel
    \/ EditFile \/ ShowDiff \/ ReadPieces \/ EditNotebook \/ Search \/ RunCommand
    \/ CutIndex \/ OpenMemory \/ RecallMemories \/ CutNotes \/ TakeNotes

DecisionsSpec == NoInput /\ [][Decide]_input

-----------------------------------------------------------------------------
(* Properties.                                                             *)

\* Editing one server of a file changes no other, and what is added or removed in
\* the project is what its name resolves to over the user's definition; the name
\* of an MCP tool says which server and which tool it is, and keeps saying it when
\* more servers connect; the commands of the chat and of the shell add the same
\* server, and enable and disable what they name; a definition's variables are
\* replaced once; and the tokens stored last are the ones read, as long as a keyring
\* that worked goes on working.
McpFilesAndNames ==
    /\ input.part = "mcpFile" =>
           \A n \in {"s1", "s2"} :
               /\ Mcp!EditsAreLocal(input.user, n, input.raw)
               /\ Mcp!AddedIsFound(input.user, input.project, n, input.raw)
    /\ input.part = "mcpName" => Mcp!ParseInvertsBuild(input.server, input.tool)
    /\ input.part = "mcpTools" => Mcp!NamesAreStable(input.infos)
    /\ input.part = "mcpArguments" => McpArgs!ArgumentsAreTaken(input.items)
    /\ input.part = "mcpCommands" => McpArgs!CommandsDoWhatTheySay(input.ops)
    /\ input.part = "mcpVariables" => McpArgs!ReferencesAreExpanded(input.pieces, input.env)
    /\ input.part = "mcpTokens" => McpArgs!WhatIsStoredIsRead(input.ops, input.works)

\* A name finds the skill that was loaded last under it, and an alias hides none; a
\* name or alias of a command that is listed finds a command that has it; what is
\* suggested for a prefix is what entering it runs.  The history walks through all
\* that was entered, and the view stays where a user has paged up to.
NamesFindTheirOwner ==
    /\ input.part = "skills" => Names!NamesFindSkills(input.bundled, input.disk)
    /\ input.part = "commands" => Names!NamesFindCommands(input.ops)
    /\ input.part = "keys" => Line!HistoryIsWalked(input.keys)
    /\ input.part = "prefix" =>
           Line!SuggestionsRun(
               FoldSet(LAMBDA e, r : Names!Register(r, e), Names!EmptyRegistry, input.commands),
               FoldLeft(Names!Register, Names!EmptyRegistry, input.skills),
               <<"clear", "help", "remember", "verify">>, input.matching)
    /\ input.part = "view" => Line!PagingUpHolds(input.events)

\* A permission rule reads back from the settings file as it was written, and a
\* change of the rules means the same to the session and to the file; a context
\* that is synchronised has the rules that the files have.
RulesArePersisted ==
    /\ input.part = "rule" =>
           Rules!RulesReadBack(input.tool, input.content, input.text)
    /\ input.part = "settings" => Rules!PersistedIsApplied(input.file, input.update)
    /\ input.part = "sync" => Rules!SyncedIsOnDisk(input.context, input.files, input.managed)

\* What precedes the boundary of the prompt does not change with the session, a tool
\* for agents, skills or tasks is named only where there is one, a text that is given
\* takes the place it has a right to, every CLAUDE.md is found, and only the one of
\* ~/.claude twice, by a session at home, and a model's cutoff is its version's.
PromptsAreAssembled ==
    /\ input.part = "prompt" =>
           /\ Prompts!PrefixIsCacheable(input.session)
           /\ Prompts!PromptNamesWhatIsThere(input.session)
    /\ input.part = "texts" =>
           Prompts!GivenTextsAreKept(input.session, input.given, input.proactive)
    /\ input.part = "instructions" =>
           Prompts!ClaudeMdFound(input.work, input.home, input.existing)
    /\ input.part = "model" => Prompts!CutoffIsOfVersion(input.id)

\* An edit changes what it says and nothing else, and what the prompt for permission
\* showed unless the file changed meanwhile, as the diff has it; a file read in pieces is shown whole, the cells of a notebook
\* that are not edited are kept, a search that is cut names the newest files, and
\* a command is reported as it ended, with all that it printed or a mark of the cut.
FileChangesAreShown ==
    /\ input.part = "edit" =>
           /\ Files!EditsAreExact(input.file, input.old, input.new, input.all)
           /\ Files!ChangeIsAsShown(input.shown, input.file, input.old, input.new, input.all)
           /\ Files!WriteIsAsShown(input.shown, input.file, input.new)
    /\ input.part = "diff" =>
           Files!DiffIsOfTheChange(input.old, input.new, input.blocks, input.operation)
    /\ input.part = "pieces" => Files!PiecesCoverTheFile(input.text, input.limit)
    /\ input.part = "notebook" =>
           Files!OtherCellsAreKept(input.cells, input.mode, input.n, "new")
    /\ input.part = "search" =>
           Files!SearchesNameTheNewest(input.files, input.query, input.limit)
    /\ input.part = "command" =>
           Files!CommandsAreReported(input.command, input.given, input.max)

\* The index is cut at the end of a line and the model told so, the number of a
\* memory opens the file listed under it, only what is there and new is recalled,
\* notes that are cut keep their sections, and they are taken at their distance.
MemoriesAreKept ==
    /\ input.part = "index" => Memory!IndexIsCutWhole(input.lines, input.maxLines, input.max)
    /\ input.part = "memory" => Memory!NumbersOpenWhatTheyName(input.files, input.max, input.n)
    /\ input.part = "recall" =>
           Memory!RecallsWhatIsNew(input.files, input.max, input.surfaced, input.answer)
    /\ input.part = "cutNotes" => Memory!NotesKeepTheirSections(input.sections, input.max)
    /\ input.part = "notes" => Memory!NotesAreSpaced(input.config, input.turns)
=============================================================================
