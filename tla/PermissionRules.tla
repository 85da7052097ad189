-------------------------- MODULE PermissionRules --------------------------
(***************************************************************************)
(* Permission rules as text and on disk: utils/permissions/rule_parser.py, *)
(* which writes "Tool(content)" and reads it back, and update.py and       *)
(* loader.py, which apply a change of the rules to the context and to the  *)
(* settings file.                                                          *)
(*                                                                         *)
(* A text is a sequence of characters: only parentheses, the backslash and *)
(* the star mean something.  The text of a rule begins with its tool, of   *)
(* which there are two, and one of them is an old name of the other.       *)
(***************************************************************************)
EXTENDS Naturals, Sequences, FiniteSets, FiniteSetsExt, SequencesExt

Open == "("
Close == ")"
Back == "\\"
Star == "*"
Plain == "x"
Old == "o"
Symbols == {Open, Close, Back, Star, Plain}

-----------------------------------------------------------------------------
(* rule_parser.py.                                                         *)

\* s.replace(a + b, by): from left to right, what was replaced is not read again.
ReplacePair(s, a, b, by) ==
    LET from[i \in 1 .. (Len(s) + 1)] ==
            IF i > Len(s) THEN <<>>
            ELSE IF i < Len(s) /\ s[i] = a /\ s[i + 1] = b THEN by \o from[i + 2]
            ELSE <<s[i]>> \o from[i + 1]
    IN  IF s = <<>> THEN <<>> ELSE from[1]

\* s.replace(c, by)
ReplaceSymbol(s, c, by) ==
    FoldLeft(LAMBDA t, x : t \o (IF x = c THEN by ELSE <<x>>), <<>>, s)

\* Mutant: the backslashes are escaped last.
EscapeLast(s) ==
    ReplaceSymbol(ReplaceSymbol(ReplaceSymbol(s, Open, <<Back, Open>>), Close, <<Back, Close>>),
                  Back, <<Back, Back>>)
\* escape_rule_content: "Order matters: backslashes first, then parentheses."
Escape(s) ==
    ReplaceSymbol(ReplaceSymbol(ReplaceSymbol(s, Back, <<Back, Back>>), Open, <<Back, Open>>),
                  Close, <<Back, Close>>)

\* unescape_rule_content
Unescape(s) ==
    ReplacePair(ReplacePair(ReplacePair(s, Back, Open, <<Open>>), Back, Close, <<Close>>),
                Back, Back, <<Back>>)

\* The places of an unescaped c: behind an even number of backslashes.
Unescaped(s, c) ==
    LET backs[i \in 0 .. Len(s)] ==
            IF i = 0 THEN 0 ELSE IF s[i] = Back THEN backs[i - 1] + 1 ELSE 0
    IN  {i \in DOMAIN s : s[i] = c /\ backs[i - 1] % 2 = 0}

NoContent == <<>>
Rule(tool, content) == [tool |-> tool, content |-> content]

\* normalize_legacy_tool_name
Today(tool) == IF tool = <<Old>> THEN <<Plain>> ELSE tool

\* permission_rule_value_to_string
RuleToString(rule) ==
    IF rule.content = NoContent THEN rule.tool
    ELSE rule.tool \o <<Open>> \o Escape(rule.content) \o <<Close>>

\* permission_rule_value_from_string
RuleFromString(s) ==
    LET opens == Unescaped(s, Open)
        closes == Unescaped(s, Close)
        open == CHOOSE i \in opens : \A j \in opens : i <= j
        raw == SubSeq(s, open + 1, Len(s) - 1)
    IN  IF \/ opens = {} \/ Len(s) \notin closes
           \/ open = 1 \/ open >= Len(s)
        THEN Rule(Today(s), NoContent)
        ELSE Rule(Today(SubSeq(s, 1, open - 1)),
                  IF raw \in {<<>>, <<Star>>} THEN NoContent ELSE Unescape(raw))

\* normalize_entry
Normalized(s) == RuleToString(RuleFromString(s))

-----------------------------------------------------------------------------
(* A context and a settings file: per behaviour a sequence of rules as      *)
(* text, and the mode.  The directories are a sequence of names.            *)

Behaviors == {"allow", "deny", "ask"}

\* The behaviour and rules of an update, which are rules, not texts.
Strings(update) == [i \in DOMAIN update.rules |-> RuleToString(update.rules[i])]

\* apply_permission_update, for the rules of one destination.
Apply(rules, update) ==
    LET old == rules[update.behavior]
        new == CASE update.type = "add" -> old \o Strings(update)
                 [] update.type = "replace" -> Strings(update)
                 [] update.type = "remove" ->
                      SelectSeq(old, LAMBDA r : r \notin ToSet(Strings(update)))
    IN  [rules EXCEPT ![update.behavior] = new]

Normal(entries) == {Normalized(entries[i]) : i \in DOMAIN entries}

\* persist_permission_update and add_permission_rules_to_settings: what is there
\* in other words is not added again.  Persisting a removal raises a TypeError,
\* as it parses rules that are no texts: <<>> stands for that.
Persist(file, update) ==
    LET old == file[update.behavior]
        fresh == SelectSeq(Strings(update), LAMBDA r : r \notin Normal(old))
    IN  CASE update.type = "add" -> <<[file EXCEPT ![update.behavior] = old \o fresh]>>
          [] update.type = "replace" -> <<[file EXCEPT ![update.behavior] = Strings(update)]>>
          [] update.type = "remove" -> IF update.rules = <<>> THEN <<file>> ELSE <<>>

\* delete_permission_rule_from_settings: all entries that say the same.
Delete(file, behavior, rule) ==
    [file EXCEPT ![behavior] = SelectSeq(@, LAMBDA r : Normalized(r) # RuleToString(rule))]

\* _settings_json_to_rules: what the file means to the next session.
Meaning(file) == [b \in Behaviors |-> {RuleFromString(file[b][i]) : i \in DOMAIN file[b]}]
\* A context that was loaded from the file: its rules in their normal form.
Loaded(file) == [b \in Behaviors |-> [i \in DOMAIN file[b] |-> Normalized(file[b][i])]]

-----------------------------------------------------------------------------
(* The rules of all settings files, and the contexts they are put into.    *)

DiskSources == {"userSettings", "projectSettings", "localSettings"}
Destinations == DiskSources \cup {"session", "cliArg"}
\* _get_enabled_sources
EnabledSources == <<"policySettings", "flagSettings", "userSettings", "projectSettings", "localSettings">>

\* get_permission_rules_for_source
RulesForSource(files, source) ==
    LET of(b) == [i \in DOMAIN files[source][b] |->
                     [source |-> source, behavior |-> b, value |-> RuleFromString(files[source][b][i])]]
    IN  of("allow") \o of("deny") \o of("ask")

\* load_all_permission_rules_from_disk
LoadAll(files, managedOnly) ==
    IF managedOnly THEN RulesForSource(files, "policySettings")
    ELSE FoldLeft(LAMBDA all, s : all \o RulesForSource(files, s), <<>>, EnabledSources)

\* The updates, of one type, that put rules into a context: one for each source
\* and behaviour.  A source that is no destination raises a ValueError: <<>>.
ApplyGrouped(context, rules, type) ==
    LET keys == {<<rules[i].source, rules[i].behavior>> : i \in DOMAIN rules}
        of(k) == SelectSeq(rules, LAMBDA r : <<r.source, r.behavior>> = k)
        update(k) == [type |-> type, behavior |-> k[2],
                      rules |-> [i \in DOMAIN of(k) |-> of(k)[i].value]]
    IN  IF \E k \in keys : k[1] \notin Destinations THEN <<>>
        ELSE <<FoldSet(LAMBDA k, c : [c EXCEPT ![k[1]] = Apply(@, update(k))], context, keys)>>

\* apply_permission_rules_to_context
ApplyRulesToContext(context, rules) == ApplyGrouped(context, rules, "add")

\* sync_permission_rules_from_disk
SyncRulesFromDisk(context, rules) ==
    LET cleared == [s \in DOMAIN context |->
                       IF s \in DiskSources THEN [b \in Behaviors |-> <<>>] ELSE context[s]]
    IN  ApplyGrouped(cleared, rules, "replace")

-----------------------------------------------------------------------------
(* Properties of one input.                                                *)

\* A rule that is written to a settings file is read back as that rule, whatever
\* its content, with its tool as it is called today; a text that a user has put
\* there reads the same once rewritten.
RulesReadBack(tool, content, text) ==
    /\ content \notin {<<>>, <<Star>>} =>
           RuleFromString(RuleToString(Rule(tool, content))) = Rule(Today(tool), content)
    /\ RuleFromString(Normalized(text)) = RuleFromString(text)
    /\ Normalized(Normalized(text)) = Normalized(text)

\* A change that is persisted means the same to the next session as it does to
\* this one; a rule that is there is not added again, and deleting undoes an
\* addition, in whatever spelling the rule stands in the file.
PersistedIsApplied(file, update) ==
    LET saved == Persist(file, update)
    IN  /\ saved # <<>> => Meaning(saved[1]) = Meaning(Apply(Loaded(file), update))
        /\ update.type = "add" =>
               /\ Persist(saved[1], update) = saved
               /\ (\A i \in DOMAIN update.rules :
                       update.rules[i] \in Meaning(file)[update.behavior]) => saved = <<file>>
               /\ \A i \in DOMAIN update.rules :
                      LET gone == Delete(saved[1], update.behavior, update.rules[i])
                      IN  /\ update.rules[i] \notin Meaning(gone)[update.behavior]
                          /\ \A b \in Behaviors :
                                 Meaning(saved[1])[b] \subseteq Meaning(gone)[b] \cup {update.rules[i]}

\* Once a context is synchronised, what it has of a settings file means what the
\* file does, what it had of an older one is gone, and the rules of the session
\* and of the command line are kept; doing it again changes nothing, a context
\* that was only given the rules at its start has the same ones, and where only
\* managed rules count no other file has any.
SyncedIsOnDisk(context, files, managedOnly) ==
    LET rules == LoadAll(files, managedOnly)
        synced == SyncRulesFromDisk(context, rules)
        empty == [s \in Destinations |-> [b \in Behaviors |-> <<>>]]
    IN  /\ (synced = <<>>) <=> \E b \in Behaviors : files["policySettings"][b] # <<>>
                                    \/ (~managedOnly /\ files["flagSettings"][b] # <<>>)
        /\ synced # <<>> =>
               /\ \A s \in DiskSources : Meaning(synced[1][s]) =
                      IF managedOnly THEN [b \in Behaviors |-> {}] ELSE Meaning(files[s])
               /\ \A s \in Destinations \ DiskSources : synced[1][s] = context[s]
               /\ SyncRulesFromDisk(synced[1], rules) = synced
               /\ SyncRulesFromDisk(empty, rules) = ApplyRulesToContext(empty, rules)
=============================================================================
