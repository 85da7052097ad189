---------------------------- MODULE Permissions -----------------------------
(***************************************************************************)
(* The permission context of the main conversation: how it is loaded       *)
(* (utils/permissions/setup.py, loader.py), how the mode moves             *)
(* (transition_permission_mode), how a tool call is decided (pipeline.py)  *)
(* and what the answers of the permission dialog do to it (chat_app.py,    *)
(* hooks/tool_permission).                                                 *)
(*                                                                         *)
(* The engine hands its context to the dialog and waits.  Shift+Tab still  *)
(* works then.  A move of the mode that strips or restores rules puts a    *)
(* copy in force and leaves the dialog with the old context, and that one  *)
(* comes back into force, old mode and all, if the answer adds a rule.     *)
(*                                                                         *)
(* A rule list is a set here: order and repetition decide nothing.  No     *)
(* caller passes a tool-specific check, a denial state or the headless     *)
(* flag, and nothing sets the auto-mode or bypass-available flags, so that *)
(* the steps of the pipeline that need one of them never apply.            *)
(***************************************************************************)
EXTENDS Naturals, FiniteSets

CONSTANTS Tools,
          EditTools,        \* accepted in acceptEdits mode: Edit, Write
          SafeTools,        \* SAFE_YOLO_ALLOWLISTED_TOOLS
          DangerousTools,   \* those with a list of dangerous patterns: Bash, Agent
          MaxRules          \* bound: rules in the settings files

NoTool == "none"
NoRun == <<NoTool, FALSE>>

ASSUME PermissionsAssumption ==
    /\ EditTools \subseteq Tools
    /\ SafeTools \subseteq Tools
    /\ DangerousTools \subseteq Tools
    /\ MaxRules \in Nat
    /\ NoTool \notin Tools

Modes == {"default", "auto", "bypassPermissions", "dontAsk", "acceptEdits", "plan"}
Behaviors == {"allow", "deny", "ask"}
DiskSources == {"policySettings", "userSettings"}
Sources == DiskSources \cup {"cliArg", "session"}

\* A rule as it is written: the tool alone, "Tool(*)", or with a content such as
\* "Tool(python:*)".
Rules == Tools \X {"whole", "star", "narrow"}

VARIABLES
    settings,    \* the settings files: source, behavior and written form of each rule
    managed,     \* allowManagedPermissionRulesOnly of the policy file
    mode,
    allow,       \* always_allow_rules, by source
    stripped,    \* stripped_dangerous_rules, by source
    deny, ask,   \* always_deny_rules, always_ask_rules
    dialog,      \* the tool the permission dialog asks about
    outdated,    \* the context the dialog holds, once another is in force: none or one
    chosen,      \* history: the mode the user chose last
    granted,     \* history: tools the user allowed for the session
    ran          \* history: the last tool that ran, and whether it was asked about

fileVars == <<settings, managed>>
ruleVars == <<allow, stripped, deny, ask>>
dialogVars == <<dialog, outdated>>
contextVars == <<fileVars, mode, ruleVars, dialogVars, chosen, granted, ran>>

Setting == [source : DiskSources, behavior : Behaviors, rule : Rules]

\* The part of a ToolPermissionContext that moves, and the one in force.
Contexts == [mode : Modes, allow : [Sources -> SUBSET Rules],
             stripped : [Sources -> SUBSET Rules]]
Context == [mode |-> mode, allow |-> allow, stripped |-> stripped]

ContextTypeOK ==
    /\ settings \subseteq Setting
    /\ managed \in BOOLEAN
    /\ mode \in Modes
    /\ allow \in [Sources -> SUBSET Rules]
    /\ stripped \in [Sources -> SUBSET Rules]
    /\ deny \subseteq Rules /\ ask \subseteq Rules
    /\ dialog \in Tools \cup {NoTool}
    /\ outdated \subseteq Contexts
    /\ chosen \in Modes
    /\ granted \subseteq Tools
    /\ ran \in (Tools \X BOOLEAN) \cup {NoRun}

-----------------------------------------------------------------------------
(* Loading.                                                                *)

\* permission_rule_value_from_string, then _to_string: "Tool(*)" loses its star.
Normal(rule) == IF rule[2] = "star" THEN <<rule[1], "whole">> ELSE rule

\* load_all_permission_rules_from_disk: what one source contributes.
Loaded(behavior, source) ==
    {Normal(r.rule) : r \in {r \in settings :
        /\ r.behavior = behavior /\ r.source = source
        /\ managed => source = "policySettings"}}

\* on_mount hands the allow list of the settings file in once more, as if it came
\* from the command line.
Passed == {Normal(r.rule) : r \in {r \in settings :
              r.behavior = "allow" /\ r.source = "userSettings"}}

AllowAtStart ==
    [s \in Sources |-> CASE s \in DiskSources -> Loaded("allow", s)
                         [] s = "cliArg" -> Passed
                         [] s = "session" -> {}]

\* DANGEROUS_BASH_PATTERNS, DANGEROUS_AGENT_PATTERNS.
DangerousPatterns == DangerousTools \X {"star", "narrow"}

\* _strip_dangerous_permissions: what goes, and what stays.
Dangerous(rules) == [s \in Sources |-> rules[s] \cap DangerousPatterns]
Harmless(rules) == [s \in Sources |-> rules[s] \ DangerousPatterns]
Nothing == [s \in Sources |-> {}]

InitContext ==
    /\ settings \in {S \in UNION {SUBSET {a, b} : a, b \in Setting} :
                        Cardinality(S) <= MaxRules}
    /\ managed \in BOOLEAN
    /\ mode \in Modes
    /\ allow = IF mode = "auto" THEN Harmless(AllowAtStart) ELSE AllowAtStart
    /\ stripped = IF mode = "auto" THEN Dangerous(AllowAtStart) ELSE Nothing
    /\ deny = UNION {Loaded("deny", s) : s \in DiskSources}
    /\ ask = UNION {Loaded("ask", s) : s \in DiskSources}
    /\ dialog = NoTool /\ outdated = {}
    /\ chosen = mode /\ granted = {} /\ ran = NoRun

-----------------------------------------------------------------------------
(* The mode.                                                               *)

\* Mutant: leaving auto mode forgets what entering it has stripped.
NotRestored(rules) == rules
\* _restore_dangerous_permissions.
Restored(rules) == [s \in Sources |-> rules[s] \cup stripped[s]]

\* transition_permission_mode.
Transition(new) ==
    /\ mode' = new
    /\ \/ /\ new = "auto" /\ mode # "auto"
          /\ allow' = Harmless(allow)
          /\ stripped' = Dangerous(allow)
       \/ /\ new # "auto" /\ mode = "auto"
          /\ allow' = Restored(allow)
          /\ stripped' = Nothing
       \/ /\ (new = "auto") = (mode = "auto")
          /\ UNCHANGED <<allow, stripped>>

\* action_cycle_permission_mode.
Cycle == <<"default", "auto", "bypassPermissions", "dontAsk", "acceptEdits", "plan">>
Follows(new) == \E i \in 1 .. 6 : Cycle[i] = mode /\ Cycle[(i % 6) + 1] = new

\* Shift+Tab, also before the permission dialog; or the dialog of /permissions.
SetMode(new) ==
    /\ dialog # NoTool => Follows(new)
    /\ Transition(new)
    /\ chosen' = new
    /\ outdated' = IF /\ dialog # NoTool /\ outdated = {}
                     /\ (new = "auto") # (mode = "auto")
                   THEN {Context} ELSE outdated
    /\ UNCHANGED <<fileVars, deny, ask, dialog, granted, ran>>

-----------------------------------------------------------------------------
(* A tool call.                                                            *)

\* _tool_matches_rule: only a rule without content covers the tool.
Covers(rules, t) == <<t, "whole">> \in rules
AllowedByRule(t) == \E s \in Sources : Covers(allow[s], t)

\* Mutant: the bypass is looked at before the rules.
BypassFirst(t) ==
    IF mode = "bypassPermissions" THEN "allow"
    ELSE IF Covers(deny, t) THEN "deny" ELSE "ask"

\* has_permissions_to_use_tool.
Decision(t) ==
    IF Covers(deny, t) THEN "deny"
    ELSE IF Covers(ask, t) THEN "ask"
    ELSE IF \/ mode = "bypassPermissions"
            \/ AllowedByRule(t)
            \/ mode = "acceptEdits" /\ t \in EditTools THEN "allow"
    ELSE IF mode = "dontAsk" THEN "deny"
    ELSE IF mode = "auto" /\ t \in SafeTools THEN "allow"
    ELSE "ask"

\* The engine reaches a tool call: it is refused, runs, or waits for the dialog.
CallTool(t) ==
    /\ dialog = NoTool
    /\ \/ /\ Decision(t) = "allow"
          /\ ran' = <<t, FALSE>>
          /\ UNCHANGED dialog
       \/ /\ Decision(t) = "ask"
          /\ dialog' = t
          /\ UNCHANGED ran
    /\ UNCHANGED <<fileVars, mode, ruleVars, outdated, chosen, granted>>

\* Mutant: the rule is made for the content of this one call.
RuleForCall(t) == <<t, "narrow">>
SessionRule(t) == <<t, "whole">>

\* handle_user_allow: run it, once or with a rule for the session.
AllowOnce ==
    /\ dialog # NoTool
    /\ ran' = <<dialog, TRUE>>
    /\ dialog' = NoTool /\ outdated' = {}
    /\ UNCHANGED <<fileVars, mode, ruleVars, chosen, granted>>

\* Mutant: the rules come back, under the mode now in force.
RulesInHand == IF outdated = {} THEN {Context} ELSE {[c EXCEPT !.mode = mode] : c \in outdated}
\* The context the request was made with.
InHand == IF outdated = {} THEN {Context} ELSE outdated

\* persist_permissions: the rule goes into a copy of it, and that is put in force.
AllowSession ==
    /\ dialog # NoTool
    /\ ran' = <<dialog, TRUE>>
    /\ granted' = granted \cup {dialog}
    /\ \E c \in InHand :
          /\ mode' = c.mode
          /\ allow' = [c.allow EXCEPT !["session"] = @ \cup {SessionRule(dialog)}]
          /\ stripped' = c.stripped
    /\ dialog' = NoTool /\ outdated' = {}
    /\ UNCHANGED <<fileVars, deny, ask, chosen>>

\* "Mode Auto" and "Mode Bypass" move the mode and run the tool.
AllowByMode ==
    /\ dialog # NoTool
    /\ \E new \in {"auto", "bypassPermissions"} : Transition(new) /\ chosen' = new
    /\ ran' = <<dialog, TRUE>>
    /\ dialog' = NoTool /\ outdated' = {}
    /\ UNCHANGED <<fileVars, deny, ask, granted>>

Refuse ==
    /\ dialog # NoTool
    /\ dialog' = NoTool /\ outdated' = {}
    /\ UNCHANGED <<fileVars, mode, ruleVars, chosen, granted, ran>>

-----------------------------------------------------------------------------
AnswerDialog == AllowOnce \/ AllowSession \/ AllowByMode \/ Refuse

ChangeContext ==
    \/ \E new \in Modes : SetMode(new)
    \/ \E t \in Tools : CallTool(t)
    \/ AnswerDialog

ContextSpec == InitContext /\ [][ChangeContext]_contextVars

-----------------------------------------------------------------------------
(* Safety.                                                                 *)

\* The rules of a context are those that were loaded and those granted since, each
\* in force or set aside, and the dangerous ones are set aside in auto mode only.
Kept(c) ==
    /\ \A s \in Sources :
          c.allow[s] \cup c.stripped[s] =
              AllowAtStart[s] \cup
              (IF s = "session" THEN {<<t, "whole">> : t \in granted} ELSE {})
    /\ c.mode # "auto" => c.stripped = Nothing
    /\ c.mode = "auto" => \A s \in Sources : c.allow[s] \cap DangerousPatterns = {}

\* However the mode moves, also before an open dialog whose answer brings an older
\* context back, no allow rule is lost, none is invented, and none with a dangerous
\* pattern is in force in auto mode.
RulesKept == Kept(Context)

\* No mode and no grant lifts a rule of the settings: a tool that is denied never
\* runs, and one with an ask rule runs only when the dialog said so.
RulesRespected ==
    /\ ~Covers(deny, ran[1])
    /\ Covers(ask, ran[1]) => ran[2]

\* A grant lasts: through every later mode the user is asked again about a tool
\* allowed for the session only where an ask rule demands it.
GrantLasts == dialog \in granted => Covers(ask, dialog)

-----------------------------------------------------------------------------
(* What the source says and the code does not do.                          *)

\* get_system_section: "Tools are executed in a user-selected permission mode."
ModeIsChosen == mode = chosen
=============================================================================
