------------------------------ MODULE McpConfig ------------------------------
(***************************************************************************)
(* The definitions of MCP servers: services/mcp/config.py, which merges    *)
(* and edits two JSON files, utils/claude_desktop.py, which imports from a *)
(* third, and utils/mcp/naming.py, which names the servers' tools.         *)
(*                                                                         *)
(* Pure operators from files to files.  A JSON file is missing, broken     *)
(* (it does not parse) or a record of the keys the operators touch; rest   *)
(* stands for all others, which settings.json shares with the permissions. *)
(***************************************************************************)
EXTENDS Naturals, FiniteSets, Sequences, SequencesExt

CONSTANTS Servers,    \* names of servers
          MaxName     \* bound: characters of a name

ASSUME McpConfigAssumption == MaxName \in Nat

-----------------------------------------------------------------------------
(* Definitions of servers.                                                 *)

Transports == {"stdio", "sse", "http"}

\* What a file may say of a server: its type, and whether it has the fields
\* that the type requires.  "absent" is no type at all, "other" any unknown.
RawConfig == [type : Transports \cup {"absent", "other"}, complete : BOOLEAN]

Invalid == "invalid"

\* _parse_server_config: an unknown type is passed to the stdio schema, whose
\* type is the literal "stdio", so that it fails to validate as well.
ParseServerConfig(raw) ==
    LET type == IF raw.type = "absent" THEN "stdio" ELSE raw.type
    IN  IF type \in Transports /\ raw.complete THEN type ELSE Invalid

-----------------------------------------------------------------------------
(* Files.                                                                  *)

NoServers == [n \in {} |-> Invalid]
Json(servers, disabled, rest) ==
    [state |-> "ok", servers |-> servers, disabled |-> disabled, rest |-> rest]
EmptyJson == Json(NoServers, {}, FALSE)
MissingFile == [EmptyJson EXCEPT !.state = "missing"]
BrokenFile == [EmptyJson EXCEPT !.state = "broken"]

\* _load_json: a file that is missing or does not parse reads as {}.
LoadJson(f) == IF f.state = "ok" THEN f ELSE EmptyJson

\* _load_mcp_json_configs and _load_settings_json_mcp_configs: definitions
\* that do not validate are left out.
ServerConfigs(f) ==
    LET raw == LoadJson(f).servers
    IN  [n \in {s \in DOMAIN raw : ParseServerConfig(raw[s]) # Invalid} |->
            ParseServerConfig(raw[n])]

\* _load_disabled_servers.
DisabledServers(settings) == LoadJson(settings).disabled

Scope(user, project, n) == IF n \in DOMAIN project THEN "project" ELSE "user"

\* get_all_configs(): the project's definition hides the user's, and disabled
\* servers are excluded.  With include_disabled, disabled is {}.
AllConfigs(settings, mcpJson, disabled) ==
    LET user == ServerConfigs(settings)
        project == ServerConfigs(mcpJson)
        scope(n) == Scope(user, project, n)
    IN  [n \in (DOMAIN user \cup DOMAIN project) \ disabled |->
            [scope |-> scope(n),
             config |-> IF scope(n) = "project" THEN project[n] ELSE user[n]]]

\* _add_to_mcp_json, _add_to_settings_json: read, change one entry, write.
AddServer(f, n, raw) ==
    [LoadJson(f) EXCEPT !.servers =
        [s \in DOMAIN @ \cup {n} |-> IF s = n THEN raw ELSE @[s]]]


\* _remove_from_mcp_json, _remove_from_settings_json.
RemoveServer(f, n) ==
    [LoadJson(f) EXCEPT !.servers = [s \in DOMAIN @ \ {n} |-> @[s]]]

\* set_mcp_server_disabled.
SetDisabled(f, n, disabled) ==
    [LoadJson(f) EXCEPT !.disabled = IF disabled THEN @ \cup {n} ELSE @ \ {n}]

\* reset_project_mcp_choices.
ResetChoices(f) == [LoadJson(f) EXCEPT !.disabled = {}]

\* import_claude_desktop_mcp_servers: what validates is added, entry by entry.
Imported(f, desktop) ==
    LET new == {n \in DOMAIN LoadJson(desktop).servers :
                    ParseServerConfig(desktop.servers[n]) # Invalid}
    IN  [LoadJson(f) EXCEPT !.servers =
            [s \in DOMAIN @ \cup new |->
                IF s \in new THEN desktop.servers[s] ELSE @[s]]]

-----------------------------------------------------------------------------
(* Names of tools.                                                         *)

Letter == "x"
Under == "_"
Dash == "-"
Special == "."
Chars == {Letter, Under, Dash, Special}
Names == UNION {[1 .. k -> Chars] : k \in 0 .. MaxName}

\* Mutant: runs of underscores are kept.
InnerUnder(r, i) ==
    /\ \E j \in 1 .. (i - 1) : r[j] # Under
    /\ \E j \in (i + 1) .. Len(r) : r[j] # Under
\* An underscore survives collapsing and stripping when it is the first of its
\* run and neither edge of the name.
KeptUnder(r, i) == InnerUnder(r, i) /\ r[i - 1] # Under

\* normalize_name_for_mcp.
NormalName(name) ==
    LET r == [i \in DOMAIN name |-> IF name[i] = Special THEN Under ELSE name[i]]
        kept == {i \in DOMAIN r : r[i] # Under \/ KeptUnder(r, i)}
    IN  [k \in 1 .. Cardinality(kept) |-> r[SetToSortSeq(kept, <)[k]]]

\* build_mcp_tool_name, behind the fixed prefix "mcp__".
BuildToolName(server, tool) ==
    NormalName(server) \o <<Under, Under>> \o NormalName(tool)

NoName == <<<<>>, <<>>>>

\* parse_mcp_tool_name: split at the first double underscore.
ParseToolName(full) ==
    LET cuts == {i \in 1 .. (Len(full) - 1) : full[i] = Under /\ full[i + 1] = Under}
        cut == CHOOSE i \in cuts : \A j \in cuts : i <= j
        server == SubSeq(full, 1, cut - 1)
        tool == SubSeq(full, cut + 2, Len(full))
    IN  IF cuts = {} \/ server = <<>> \/ tool = <<>> THEN NoName
        ELSE <<server, tool>>

FirstOfName(infos, i) == ~\E j \in 1 .. (i - 1) :
    BuildToolName(infos[j][1], infos[j][2]) = BuildToolName(infos[i][1], infos[i][2])

\* create_mcp_tools_from_discovery: of tools with one name the first is kept.
CreateTools(infos) ==
    LET kept == {i \in DOMAIN infos : FirstOfName(infos, i)}
    IN  [k \in 1 .. Cardinality(kept) |-> infos[SetToSortSeq(kept, <)[k]]]

-----------------------------------------------------------------------------
(* Properties of one input.                                                *)

\* Adding and removing a server and disabling it change the entries they name
\* and nothing else of a file that can be read: not the other servers, not the
\* disabled ones, not the permissions that share settings.json.
EditsAreLocal(f, n, raw) ==
    /\ \A g \in {AddServer(f, n, raw), RemoveServer(f, n)} :
           /\ g.rest = f.rest /\ g.disabled = f.disabled
           /\ \A s \in Servers \ {n} :
                  /\ s \in DOMAIN g.servers <=> s \in DOMAIN f.servers
                  /\ s \in DOMAIN g.servers => g.servers[s] = f.servers[s]
    /\ n \notin DOMAIN RemoveServer(f, n).servers
    /\ RemoveServer(AddServer(f, n, raw), n) = RemoveServer(f, n)
    /\ \A d \in BOOLEAN : SetDisabled(SetDisabled(f, n, d), n, n \in f.disabled) = f
    /\ ResetChoices(f).servers = f.servers

\* What a server's name resolves to after it was added to the project: the new
\* definition when it validates; one that does not never hides the user's; and
\* taking it away again brings back what the user has under that name.
AddedIsFound(user, project, n, raw) ==
    LET added == AllConfigs(user, AddServer(project, n, raw), {})
        removed == AllConfigs(user, RemoveServer(project, n), {})
        users == ServerConfigs(user)
        usersOwn(all) == IF n \in DOMAIN users
                         THEN n \in DOMAIN all /\ all[n] = [scope |-> "user", config |-> users[n]]
                         ELSE n \notin DOMAIN all
    IN  /\ IF ParseServerConfig(raw) # Invalid
           THEN n \in DOMAIN added /\
                added[n] = [scope |-> "project", config |-> ParseServerConfig(raw)]
           ELSE usersOwn(added)
        /\ usersOwn(removed)
        /\ DOMAIN AllConfigs(user, project, {n}) = DOMAIN AllConfigs(user, project, {}) \ {n}

\* naming.py: build_mcp_tool_name is the "Inverse of parse_mcp_tool_name", up to
\* normalisation, whatever underscores the names begin, end or are full of.
ParseInvertsBuild(s, t) ==
    ParseToolName(BuildToolName(s, t)) =
        IF NormalName(s) = <<>> \/ NormalName(t) = <<>> THEN NoName
        ELSE <<NormalName(s), NormalName(t)>>

\* Of the tools that the servers offer each name reaches one, and it goes on
\* reaching that one when more servers connect behind it.
NamesAreStable(infos) ==
    LET name(t) == BuildToolName(t[1], t[2])
        tools == CreateTools(infos)
    IN  /\ \A i, j \in DOMAIN tools : name(tools[i]) = name(tools[j]) => i = j
        /\ \A i \in DOMAIN infos : \E j \in DOMAIN tools : name(tools[j]) = name(infos[i])
        /\ \A k \in 0 .. Len(infos) :
               IsPrefix(CreateTools(SubSeq(infos, 1, k)), tools)
=============================================================================
