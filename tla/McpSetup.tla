------------------------------ MODULE McpSetup -------------------------------
(***************************************************************************)
(* Setting up an MCP server: the arguments of `/mcp add` (commands/mcp.py) *)
(* and of `mcp add` (cli/__init__.py), what the subcommands do to the two  *)
(* files of definitions, the variables in a definition (env_expansion.py)  *)
(* and the storage of tokens and secrets (services/mcp/auth.py).           *)
(*                                                                         *)
(* Pure operators.  An argument is a string; of a KEY=value or Name: value *)
(* only the key is told apart.                                             *)
(***************************************************************************)
EXTENDS Naturals, Sequences, FiniteSets, SequencesExt

CONSTANT Servers    \* names of servers

Config == INSTANCE McpConfig WITH MaxName <- 0

None == "none"

-----------------------------------------------------------------------------
(* The arguments of /mcp add.                                              *)

Options == {"--scope", "--transport", "--env", "--header", "--client-id", "--callback-port",
            "--client-secret"}

\* Where a scan from the left reads one of these flags: not where a value is.
FlagsAt(argv, flags) ==
    LET at[i \in 0 .. Len(argv)] ==
            IF i = 0 THEN {}
            ELSE IF argv[i] \in flags /\ i < Len(argv) /\ (i - 1) \notin at[i - 1]
                 THEN at[i - 1] \cup {i}
                 ELSE at[i - 1]
    IN  at[Len(argv)]

Picked(argv, positions) ==
    LET order == SetToSortSeq(positions, <) IN [k \in DOMAIN order |-> argv[order[k]]]

\* _parse_common_flags
CommonFlagsAt(argv) == FlagsAt(argv, Options)
CommonFlag(argv, flag, default) ==
    LET at == {i \in CommonFlagsAt(argv) : argv[i] = flag}
    IN  IF at = {} THEN default ELSE argv[Max(at) + 1]
Remaining(argv) ==
    Picked(argv, {i \in DOMAIN argv : {i, i - 1} \cap CommonFlagsAt(argv) = {}})

\* _take_repeated_flag and _take_single_flag scan again, each for one flag.
RepeatedFlag(argv, flag) == Picked(argv, {i + 1 : i \in FlagsAt(argv, {flag})})
LastOf(values) == IF values = <<>> THEN None ELSE Last(values)
SingleFlag(argv, flag) == LastOf(RepeatedFlag(argv, flag))

\* What McpCommand._add_server makes of its arguments.
SlashArguments(argv) ==
    [scope |-> CommonFlag(argv, "--scope", "project"),
     transport |-> CommonFlag(argv, "--transport", "stdio"),
     positional |-> Remaining(argv),
     env |-> RepeatedFlag(argv, "--env"), header |-> RepeatedFlag(argv, "--header"),
     clientId |-> SingleFlag(argv, "--client-id"),
     port |-> SingleFlag(argv, "--callback-port"),
     secret |-> SingleFlag(argv, "--client-secret")]

\* What the signature of mcp_add declares of the same arguments, given as
\* options with a value, <<flag, value>>, and positional arguments, <<value>>.
CommandLineArguments(items) ==
    LET values(flag) ==
            LET given == SelectSeq(items, LAMBDA x : Len(x) = 2 /\ x[1] = flag)
            IN  [k \in DOMAIN given |-> given[k][2]]
        last(flag, default) == IF values(flag) = <<>> THEN default ELSE Last(values(flag))
        positional == SelectSeq(items, LAMBDA x : Len(x) = 1)
    IN  [scope |-> last("--scope", "project"), transport |-> last("--transport", "stdio"),
         positional |-> [k \in DOMAIN positional |-> positional[k][1]],
         env |-> values("--env"), header |-> values("--header"),
         clientId |-> last("--client-id", None), port |-> last("--callback-port", None),
         secret |-> last("--client-secret", None)]

\* The key of "K=1", and none of what has no sign or nothing before it.
KeyOf(item) == CASE item \in {"K=1", "K=2"} -> "K" [] item = "L=1" -> "L" [] OTHER -> None
\* _parse_env_pairs, _parse_header_pairs: the last value of a key is kept.
Malformed(items) == \E i \in DOMAIN items : KeyOf(items[i]) = None
Pairs(items) ==
    [k \in {KeyOf(items[i]) : i \in DOMAIN items} |->
        items[Max({i \in DOMAIN items : KeyOf(items[i]) = k})]]

\* _build_oauth_config; int(callback_port_raw) is why a port may be refused.
Oauth(given) == [clientId |-> given.clientId, port |-> given.port]

\* The rest of _add_server and of mcp_add: nothing is added, or this.
Refused(given) ==
    \/ Len(given.positional) < 2
    \/ Malformed(given.env) \/ Malformed(given.header)
    \/ given.port = "no number"
    \/ given.transport \notin Config!Transports
    \/ given.scope \notin {"project", "user"}
Definition(given) ==
    LET stdio == given.transport = "stdio"
    IN  [name |-> given.positional[1], scope |-> given.scope, type |-> given.transport,
         target |-> given.positional[2],
         args |-> IF stdio THEN SubSeq(given.positional, 3, Len(given.positional)) ELSE <<>>,
         env |-> IF stdio THEN Pairs(given.env) ELSE Pairs(<<>>),
         headers |-> IF stdio THEN Pairs(<<>>) ELSE Pairs(given.header),
         oauth |-> IF stdio THEN [clientId |-> None, port |-> None] ELSE Oauth(given),
         secret |-> IF stdio THEN None ELSE given.secret]

-----------------------------------------------------------------------------
(* What the subcommands do to the files, of the chat and of the shell.     *)

NoFiles == [user |-> Config!MissingFile, project |-> Config!MissingFile, secrets |-> {}]
Configured(files) == DOMAIN Config!AllConfigs(files.user, files.project, {})
Enabled(files) ==
    DOMAIN Config!AllConfigs(files.user, files.project, Config!DisabledServers(files.user))

\* add-json: what does not validate is refused; a secret is kept of a remote server.
AddJson(files, op) ==
    LET type == Config!ParseServerConfig(op.raw)
    IN  IF type = Config!Invalid THEN files
        ELSE [files EXCEPT ![op.scope] = Config!AddServer(@, op.name, op.raw),
                           !.secrets = IF op.secret /\ type \in {"sse", "http"}
                                       THEN @ \cup {op.name} ELSE @]

RemoveJson(files, op) == [files EXCEPT ![op.scope] = Config!RemoveServer(@, op.name)]

Named(files, name) == IF name = "all" THEN Configured(files) ELSE {name}
\* mcp_enable, mcp_disable, _set_enabled: "all" is every server that is configured.
SetEnabled(files, name, enabled) ==
    [files EXCEPT !.user =
        FoldSet(LAMBDA n, f : Config!SetDisabled(f, n, ~enabled), @, Named(files, name))]

\* A subcommand.
Command(files, op) ==
    CASE op.kind = "add" -> AddJson(files, op)
      [] op.kind = "remove" -> RemoveJson(files, op)
      [] op.kind = "enable" -> SetEnabled(files, op.name, TRUE)
      [] op.kind = "disable" -> SetEnabled(files, op.name, FALSE)
      [] op.kind = "reset" -> [files EXCEPT !.user = Config!ResetChoices(@)]
Files(ops) == FoldLeft(Command, NoFiles, ops)

-----------------------------------------------------------------------------
(* Variables in a definition.                                              *)

Opening == <<"$", "{">>
Closing == "}"
Default == ":-"
Unset == <<"unset">>

\* Where the reference ends that begins at i, [^}]+ being at least one; or 0.
EndOfReference(text, i) ==
    LET closings == {j \in DOMAIN text : j > i + 1 /\ text[j] = Closing}
    IN  IF IsPrefix(Opening, SubSeq(text, i, Len(text))) /\ closings # {} /\ Min(closings) > i + 2
        THEN Min(closings) ELSE 0

\* _replace: the name ends at the first ":-"; without a value and a default the
\* reference is kept.
Replaced(content, env) ==
    LET cuts == {i \in DOMAIN content : content[i] = Default}
        name == IF cuts = {} THEN content ELSE SubSeq(content, 1, Min(cuts) - 1)
        default == IF cuts = {} THEN <<>> ELSE SubSeq(content, Min(cuts) + 1, Len(content))
        value == IF name \in DOMAIN env THEN env[name] ELSE Unset
    IN  IF value # Unset THEN value
        ELSE IF default # <<>> THEN default
        ELSE Opening \o content \o <<Closing>>

\* expand_env_vars
ExpandEnvVars(text, env) ==
    LET from[i \in 1 .. (Len(text) + 1)] ==
            IF i > Len(text) THEN <<>>
            ELSE LET end == EndOfReference(text, i)
                 IN  IF end = 0 THEN <<text[i]>> \o from[i + 1]
                     ELSE Replaced(SubSeq(text, i + 2, end - 1), env) \o from[end + 1]
    IN  from[1]

-----------------------------------------------------------------------------
(* Tokens and secrets: KeyringTokenStorage, a keyring with files behind it.*)

EmptyStorage == [keyring |-> [k \in {} |-> None], files |-> [k \in {} |-> None]]
With(f, k, v) == [x \in DOMAIN f \cup {k} |-> IF x = k THEN v ELSE f[x]]
Less(f, k) == [x \in DOMAIN f \ {k} |-> f[x]]

\* _write, _delete, _read, when the keyring works and when it does not.
Write(storage, works, k, v) ==
    IF works THEN [storage EXCEPT !.keyring = With(@, k, v)]
    ELSE [storage EXCEPT !.files = With(@, k, v)]
Delete(storage, works, k) ==
    [keyring |-> IF works THEN Less(storage.keyring, k) ELSE storage.keyring,
     files |-> Less(storage.files, k)]
Read(storage, works, k) ==
    IF works /\ k \in DOMAIN storage.keyring THEN storage.keyring[k]
    ELSE IF k \in DOMAIN storage.files THEN storage.files[k] ELSE None

\* set_tokens, set_client_info, save_mcp_client_secret and invalidate.
Stored(storage, op) ==
    CASE op.kind = "tokens" ->
             Write(Write(storage, op.works, "latest", op.value), op.works, "tokens", op.value)
      [] op.kind = "client" -> Write(storage, op.works, "client", op.value)
      [] op.kind = "secret" -> Write(storage, op.works, "secret", op.value)
      [] op.kind = "invalidate" ->
             Delete(Delete(storage, op.works, "tokens"), op.works, "client")
Storage(ops) == FoldLeft(Stored, EmptyStorage, ops)

\* get_tokens, get_client_info and get_mcp_client_secret; refresh_tokens_with_lock
\* reads the tokens under its lock and gives back what it finds.
Get(ops, works, k) == Read(Storage(ops), works, k)

-----------------------------------------------------------------------------
(* Properties of one input.                                                *)

\* However options and positional arguments are mixed, /mcp add, which scans them
\* once for the positional ones and once for each option, and mcp add, which
\* declares them, add the same server or both refuse to; as long as no value is
\* itself the name of an option.
ArgumentsAreTaken(items) ==
    LET slash == SlashArguments(FlattenSeq(items))
        shell == CommandLineArguments(items)
    IN  /\ Refused(slash) <=> Refused(shell)
        /\ ~Refused(shell) => Definition(slash) = Definition(shell)

\* After any commands: a server is in the file where it was last added and not
\* removed since, its definition being what validated; no command on one file
\* touches the definitions of the other; and all configured servers are enabled
\* after "enable all" and none after "disable all".
CommandsDoWhatTheySay(ops) ==
    LET files == Files(ops)
        valid(op) == Config!ParseServerConfig(op.raw) # Config!Invalid
        edits(n, s) == {i \in DOMAIN ops :
                           /\ ops[i].name = n /\ ops[i].scope = s
                           /\ ops[i].kind = "remove" \/ (ops[i].kind = "add" /\ valid(ops[i]))}
        last == ops[Len(ops)]
    IN  /\ \A n \in Servers, s \in {"user", "project"} :
               n \in DOMAIN files[s].servers
                   <=> edits(n, s) # {} /\ ops[Max(edits(n, s))].kind = "add"
        /\ last.name = "all" =>
               Enabled(files) = IF last.kind = "enable" THEN Configured(files) ELSE {}
        /\ last.kind = "enable" /\ last.name \in Configured(files) => last.name \in Enabled(files)
        /\ last.kind = "disable" => last.name \notin Enabled(files)
        /\ last.kind = "reset" => Enabled(files) = Configured(files)

\* Each reference of a definition is replaced by the value of its variable, else by
\* its default, else kept; what is put in is not expanded again and the text between
\* is left alone.  A piece is a text, or a name and a default.
ReferencesAreExpanded(pieces, env) ==
    LET written(p) == IF p.kind = "text" THEN p.text
                      ELSE Opening \o p.name
                           \o (IF p.default = Unset THEN <<>> ELSE <<Default>> \o p.default)
                           \o <<Closing>>
        meant(p) == IF p.kind = "text" THEN p.text
                    ELSE IF env[p.name] # Unset THEN env[p.name]
                    ELSE IF p.default \notin {Unset, <<>>} THEN p.default
                    ELSE written(p)
    IN  ExpandEnvVars(FlattenSeq([i \in DOMAIN pieces |-> written(pieces[i])]), env)
            = FlattenSeq([i \in DOMAIN pieces |-> meant(pieces[i])])

Concerning(ops, k) ==
    {i \in DOMAIN ops : \/ ops[i].kind = k
                        \/ ops[i].kind = "invalidate" /\ k \in {"tokens", "client"}}

\* What was stored last is read back, and after invalidate no tokens are, also when
\* the keyring begins to work in between, what was in files being there still.  Only
\* a keyring that stops working, and may start again, brings back what it had or
\* hides what it has; even then what is read was stored under the same name.
WhatIsStoredIsRead(ops, works) ==
    LET last(k) == ops[Max(Concerning(ops, k))]
        Failed(k) == \E i \in Concerning(ops, k) :
                        /\ ops[i].works
                        /\ ~works \/ \E j \in Concerning(ops, k) : i < j /\ ~ops[j].works
    IN  \A k \in {"tokens", "client", "secret"} :
            /\ Get(ops, works, k) = (IF Concerning(ops, k) = {} \/ last(k).kind = "invalidate"
                                     THEN None ELSE last(k).value)
               \/ Failed(k)
            /\ Get(ops, works, k) \in
                   {None} \cup {ops[i].value : i \in {j \in DOMAIN ops : ops[j].kind = k}}
=============================================================================
