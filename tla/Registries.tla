----------------------------- MODULE Registries -----------------------------
(***************************************************************************)
(* The registries of skills and of slash commands: what is loaded from     *)
(* disk and in which order (load_skills_dir.py), what a name or an alias   *)
(* finds (skills/registry.py, commands/registry.py), and what /name does.  *)
(*                                                                         *)
(* Pure operators over sequences of registrations.  A skill or a command   *)
(* has a name and a set of aliases; a skill on disk also a file, which may *)
(* be reached by several paths.                                            *)
(***************************************************************************)
EXTENDS Naturals, Sequences, FiniteSets, SequencesExt

Entry(name, aliases, file, invocable) ==
    [name |-> name, aliases |-> aliases, file |-> file, invocable |-> invocable]
Nothing == Entry("nothing", {}, 0, FALSE)

-----------------------------------------------------------------------------
(* Skills on disk.                                                         *)

\* The directories in the order of load_all_disk_skills.
Origins == <<"user skills", "project skills", "user commands", "project commands">>

\* _load_skills_from_skills_dir, _load_skills_from_commands_dir: what is there,
\* by origin.  A skill is named after its directory, so that of one skills
\* directory no two have a name; a commands directory has name.md and name/SKILL.md.
Found(disk) == FoldLeft(LAMBDA all, o : all \o disk[o], <<>>, Origins)

\* Mutant: duplicates are recognised by name.
SameName(a, b) == a.name = b.name
SameFile(a, b) == a.file = b.file

\* load_all_disk_skills: of several paths to one file the first counts.
LoadAllDiskSkills(disk) ==
    LET all == Found(disk)
        first == {i \in DOMAIN all : ~\E j \in 1 .. (i - 1) : SameFile(all[j], all[i])}
    IN  [k \in 1 .. Cardinality(first) |-> all[SetToSortSeq(first, <)[k]]]

-----------------------------------------------------------------------------
(* SkillRegistry.                                                          *)

NoFunction == [x \in {} |-> Nothing]
Put(f, keys, value) == [x \in DOMAIN f \cup keys |-> IF x \in keys THEN value ELSE f[x]]
Without(f, keys) == [x \in DOMAIN f \ keys |-> f[x]]
Get(f, x, default) == IF x \in DOMAIN f THEN f[x] ELSE default

EmptyRegistry == [entries |-> NoFunction, aliases |-> NoFunction]

\* SkillRegistry.register, CommandRegistry.register.
Register(registry, entry) ==
    [entries |-> Put(registry.entries, {entry.name}, entry),
     aliases |-> Put(registry.aliases, entry.aliases, entry.name)]

\* on_mount: init_bundled_skills, then what was loaded from disk.
SkillRegistry(bundled, disk) ==
    FoldLeft(Register, EmptyRegistry, bundled \o LoadAllDiskSkills(disk))

\* SkillRegistry.find: the name, then the alias.
NameFirst(registry, name) ==
    IF name \in DOMAIN registry.entries THEN name ELSE Get(registry.aliases, name, name)
FindSkill(registry, name) == Get(registry.entries, NameFirst(registry, name), Nothing)

\* get_skill_commands_for_prompt
SkillsForPrompt(registry) ==
    {registry.entries[n] : n \in {m \in DOMAIN registry.entries : registry.entries[m].invocable}}

-----------------------------------------------------------------------------
(* CommandRegistry.                                                        *)

FindCommand(registry, name) == Get(registry.entries, Get(registry.aliases, name, name), Nothing)

AliasesOf(entry) == entry.aliases

\* CommandRegistry.unregister, by name or alias.
Unregister(registry, name) ==
    LET canonical == Get(registry.aliases, name, name)
        gone == Get(registry.entries, canonical, Nothing)
        aliases == Without(registry.aliases, {name})
    IN  [entries |-> Without(registry.entries, {canonical}),
         aliases |-> IF gone = Nothing THEN aliases ELSE Without(aliases, AliasesOf(gone))]

\* A history of operations on the registry of commands.
CommandRegistry(ops) ==
    FoldLeft(LAMBDA r, op : IF op.kind = "register" THEN Register(r, op.entry)
                            ELSE Unregister(r, op.name),
             EmptyRegistry, ops)

\* get_command_names
CommandNames(registry) == DOMAIN registry.entries \cup DOMAIN registry.aliases

\* ChatApp._handle_slash_command behind its own commands: a skill that users may
\* invoke, then a command.
HandleSlash(skills, commands, name) ==
    LET skill == FindSkill(skills, name)
        command == FindCommand(commands, name)
    IN  IF skill # Nothing /\ skill.invocable THEN [kind |-> "skill", entry |-> skill]
        ELSE IF command # Nothing THEN [kind |-> "command", entry |-> command]
        ELSE [kind |-> "unknown", entry |-> Nothing]

-----------------------------------------------------------------------------
(* Properties of one input.                                                *)

\* Every name on disk finds a skill, and of the files that share one the last in
\* the order of the origins, unless that file was loaded before by another path.
\* A skill offered to the model is what its name finds; an alias never hides a
\* name; and no bundled skill is lost to anything but one of its own name.
NamesFindSkills(bundled, disk) ==
    LET registry == SkillRegistry(bundled, disk)
        loaded == LoadAllDiskSkills(disk)
        last(n) == {i \in DOMAIN loaded :
                       loaded[i].name = n /\ \A j \in (i + 1) .. Len(loaded) : loaded[j].name # n}
    IN  /\ \A i \in DOMAIN loaded : \A k \in last(loaded[i].name) :
               FindSkill(registry, loaded[i].name) = loaded[k]
        /\ \A i \in DOMAIN Found(disk) : \E k \in DOMAIN loaded : loaded[k].file = Found(disk)[i].file
        /\ \A i, j \in DOMAIN loaded : loaded[i].file = loaded[j].file => i = j
        /\ \A s \in SkillsForPrompt(registry) : FindSkill(registry, s.name) = s
        /\ \A i \in DOMAIN bundled :
               (~\E k \in DOMAIN loaded : loaded[k].name = bundled[i].name)
                   => FindSkill(registry, bundled[i].name).name = bundled[i].name

\* Commands may come and go in any order, as long as no alias is the name of
\* another one: each name that is listed finds the command that has it, and one
\* that was unregistered, by name or alias, leaves none behind.
NamesFindCommands(ops) ==
    LET registry == CommandRegistry(ops)
    IN  /\ \A n \in CommandNames(registry) :
               /\ FindCommand(registry, n) # Nothing
               /\ n \in {FindCommand(registry, n).name} \cup FindCommand(registry, n).aliases
        /\ \A e \in {ops[i].entry : i \in {j \in DOMAIN ops : ops[j].kind = "register"}} :
               e.name \in DOMAIN registry.entries => e.aliases \subseteq CommandNames(registry)
=============================================================================
