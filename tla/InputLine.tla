------------------------------ MODULE InputLine ------------------------------
(***************************************************************************)
(* The input line of the chat and the view above it                        *)
(* (components/ui/chat_app.py): the history of what was entered, the       *)
(* commands that are suggested, and the view that follows the output.      *)
(*                                                                         *)
(* Pure operators over sequences of keys and events.  A text is a model    *)
(* value; of a typed prefix only the names that begin with it are known.   *)
(***************************************************************************)
EXTENDS Naturals, Sequences, FiniteSets, SequencesExt

Names == INSTANCE Registries

-----------------------------------------------------------------------------
(* The history.                                                            *)

Empty == ""
\* Where no entry is shown: _history_index is None.
NoEntry == 0

FreshLine == [value |-> Empty, atStart |-> TRUE, history |-> <<>>, index |-> NoEntry]

Shown(line, index) ==
    [line EXCEPT !.index = index, !.atStart = TRUE,
                 !.value = IF index = NoEntry THEN Empty ELSE line.history[index]]

\* _handle_history_navigation, which on_key asks when the cursor is at the start.
Up(line) ==
    IF ~line.atStart \/ line.history = <<>> THEN line
    ELSE IF line.index = NoEntry THEN Shown(line, Len(line.history))
    ELSE Shown(line, Max({1, line.index - 1}))
Down(line) ==
    IF ~line.atStart \/ line.index = NoEntry THEN line
    ELSE IF line.index < Len(line.history) THEN Shown(line, line.index + 1)
    ELSE Shown(line, NoEntry)

\* _record_input_history
Recorded(history, value) ==
    IF value = Empty \/ (history # <<>> /\ Last(history) = value) THEN history
    ELSE Append(history, value)

\* A key; "type" stands for any that changes the text, which leaves the index.
Press(line, key) ==
    CASE key.kind = "up" -> Up(line)
      [] key.kind = "down" -> Down(line)
      [] key.kind = "home" -> [line EXCEPT !.atStart = TRUE]
      [] key.kind = "type" -> [line EXCEPT !.value = key.value, !.atStart = FALSE]
      [] key.kind = "enter" -> [FreshLine EXCEPT !.history = Recorded(line.history, line.value)]
Line(keys) == FoldLeft(Press, FreshLine, keys)

-----------------------------------------------------------------------------
(* Suggestions.                                                            *)

\* The names that on_input answers itself and offers.
Inline == <<"exit", "quit", "q", "version", "model">>
Builtin(name) == Names!Entry(name, {}, 0, TRUE)

\* The first of an entry's name and aliases that begins with what is typed.
Matched(entry, matching) ==
    IF entry.name \in matching THEN {entry.name}
    ELSE IF entry.aliases \cap matching = {} THEN {}
    ELSE {CHOOSE n \in entry.aliases \cap matching : TRUE}

Offered(suggestions, entry, matching) ==
    LET taken == {suggestions[i].label : i \in DOMAIN suggestions}
        new == SetToSeq(Matched(entry, matching) \ taken)
    IN  suggestions \o [i \in DOMAIN new |-> [label |-> new[i], entry |-> entry]]

InOrder(entries, order) ==
    LET listed == SelectSeq(order, LAMBDA n : n \in DOMAIN entries)
    IN  [i \in DOMAIN listed |-> entries[listed[i]]]

\* _get_command_suggestions: what is answered inline, then commands, then skills that
\* users may invoke, each sorted by name.
Suggestions(commands, skills, order, matching) ==
    LET invocable == SelectSeq(InOrder(skills.entries, order), LAMBDA s : s.invocable)
        entries == [i \in DOMAIN Inline |-> Builtin(Inline[i])]
                       \o InOrder(commands.entries, order) \o invocable
    IN  FoldLeft(LAMBDA s, e : Offered(s, e, matching), <<>>, entries)

\* What entering /name runs: _handle_slash_command.
Runs(commands, skills, name) ==
    IF name \in ToSet(Inline) THEN Builtin(name)
    ELSE Names!HandleSlash(skills, commands, name).entry

-----------------------------------------------------------------------------
(* The view.                                                               *)

\* follow is _auto_follow_output, pending _scroll_sync_pending with its force flag,
\* near is _is_near_bottom(); moved says whether the last event moved the view.
View == [follow |-> TRUE, pending |-> "none", near |-> TRUE, moved |-> FALSE]

\* _scroll_chat_to_end
Requested(view, force) ==
    LET following == [view EXCEPT !.follow = @ \/ force]
    IN  IF (following.follow \/ view.near) /\ view.pending = "none"
        THEN [following EXCEPT !.pending = IF force THEN "forced" ELSE "asked"]
        ELSE following

\* _scroll_chat_to_end_after_refresh looks again.
Refreshed(view) ==
    LET follow == view.follow \/ view.pending = "forced"
        moves == follow \/ view.near
    IN  [follow |-> follow, pending |-> "none", near |-> view.near \/ moves, moved |-> moves]

\* An event, after which the view is near its end or not: output makes it longer.
Seen(view, event) ==
    LET still == [view EXCEPT !.moved = FALSE]
    IN  CASE event.kind = "output" -> Requested([still EXCEPT !.near = @ /\ event.near], FALSE)
          [] event.kind = "forced" -> Requested([still EXCEPT !.near = @ /\ event.near], TRUE)
          [] event.kind = "page up" -> [still EXCEPT !.follow = FALSE, !.near = event.near]
          [] event.kind = "page down" -> [still EXCEPT !.follow = event.near, !.near = event.near]
          [] event.kind = "refresh" -> IF view.pending = "none" THEN still ELSE Refreshed(still)
Viewed(events) == FoldLeft(Seen, View, events)

-----------------------------------------------------------------------------
(* Properties of one input.                                                *)

\* What was entered is in the history in its order, but for what repeats the entry
\* before it; and from an empty line Up shows the entries from the newest to the
\* oldest and Down the same way back to an empty line.
HistoryIsWalked(keys) ==
    LET line == Line(keys)
        fresh == [line EXCEPT !.value = Empty, !.atStart = TRUE, !.index = NoEntry]
        steps(l, k, by(_)) == FoldLeft(LAMBDA m, i : by(m), l, [i \in 1 .. k |-> i])
        entered == [i \in {j \in DOMAIN keys : keys[j].kind = "enter"} |->
                        Line(SubSeq(keys, 1, i - 1)).value]
        n == Len(line.history)
    IN  /\ ToSet(line.history) = {entered[i] : i \in DOMAIN entered} \ {Empty}
        /\ \A i \in DOMAIN entered : entered[i] # Empty =>
               Last(Line(SubSeq(keys, 1, i)).history) = entered[i]
        /\ \A i \in 1 .. (n - 1) : line.history[i] # line.history[i + 1]
        /\ \A k \in 1 .. (n + 1) :
               LET up == steps(fresh, k, Up)
               IN  n > 0 => /\ up.value = line.history[Max({1, n + 1 - k})]
                            /\ k <= n => steps(up, k, Down) = fresh
        /\ line.index \in 0 .. n

\* As long as no alias is the name of another, each name is suggested once, and entering it runs what it was
\* suggested for, or a skill of that name; every command or skill that has a name
\* with the prefix is offered, unless that name is.
SuggestionsRun(commands, skills, order, matching) ==
    LET suggestions == Suggestions(commands, skills, order, matching)
        labels == {suggestions[i].label : i \in DOMAIN suggestions}
        runs(s) == Runs(commands, skills, s.label)
        all == {commands.entries[n] : n \in DOMAIN commands.entries}
                   \cup {s \in {skills.entries[n] : n \in DOMAIN skills.entries} : s.invocable}
    IN  /\ \A i, j \in DOMAIN suggestions : suggestions[i].label = suggestions[j].label => i = j
        /\ \A i \in DOMAIN suggestions :
               \/ runs(suggestions[i]) = suggestions[i].entry
               \/ runs(suggestions[i]) = Names!FindSkill(skills, suggestions[i].label)
        /\ \A e \in all : ({e.name} \cup e.aliases) \cap matching # {} =>
               ({e.name} \cup e.aliases) \cap labels # {}

\* Output does not take the view from a user who has paged up, also when the scroll
\* was asked for before: it moves only for one who is near its end or follows, or
\* when it was forced after the last page up or was already being so.
PagingUpHolds(events) ==
    LET last == Max({0} \cup {i \in DOMAIN events : events[i].kind = "page up"})
        before == Viewed(SubSeq(events, 1, last))
        after == SubSeq(events, last + 1, Len(events))
        near == \E i \in 0 .. Len(after) - 1 : Viewed(SubSeq(events, 1, last + i)).near
    IN  last > 0 /\ Viewed(events).moved =>
            \/ near
            \/ before.pending = "forced"
            \/ \E i \in DOMAIN after :
                   after[i].kind = "forced" \/ (after[i].kind = "page down" /\ after[i].near)
=============================================================================
