----------------------------- MODULE Compaction -----------------------------
(***************************************************************************)
(* Compaction of a conversation: compact_conversation of                   *)
(* services/compact/compact.py, which asks a model for a summary and drops *)
(* the oldest rounds while the prompt is too long, and the circuit breaker *)
(* of auto_compact.py.                                                     *)
(*                                                                         *)
(* A message has a kind ("prompt", "reply" with tool calls, "results" of   *)
(* them, "head" for the marker that stands for a dropped start), the id of *)
(* the API round (0 for none) and its size in tokens.                      *)
(***************************************************************************)
EXTENDS Naturals, Sequences, FiniteSets, SequencesExt

Message(kind, id, size) == [kind |-> kind, id |-> id, size |-> size]
IsAssistant(msg) == msg.kind = "reply"

\* rough_token_count
Tokens(messages) ==
    LET total[k \in 0 .. Len(messages)] ==
            IF k = 0 THEN 0 ELSE total[k - 1] + messages[k].size
    IN  total[Len(messages)]

-----------------------------------------------------------------------------
(* Rounds.                                                                 *)

\* The last assistant id before message i, 0 for none.
LastId(messages, i) ==
    LET before == {j \in 1 .. (i - 1) : IsAssistant(messages[j]) /\ messages[j].id # 0}
    IN  IF before = {} THEN 0 ELSE messages[CHOOSE j \in before : \A k \in before : k <= j].id

\* group_messages_by_api_round: where the groups begin.
GroupStarts(messages) ==
    {i \in DOMAIN messages :
        \/ i = 1
        \/ /\ IsAssistant(messages[i]) /\ messages[i].id # 0
           /\ messages[i].id # LastId(messages, i)}

AtLeast(a, b) == IF a < b THEN b ELSE a
AtMost(a, b) == IF a < b THEN a ELSE b

\* The number of groups to drop for an overage: one at least, all but one at most.
GroupsToDrop(groups, overage, average) ==
    AtMost(AtLeast(overage \div average, 1), groups - 1)

\* The messages from the group behind the first drop, never beginning with a reply.
WithHead(kept) ==
    IF kept # <<>> /\ IsAssistant(Head(kept)) THEN <<Message("head", 0, 0)>> \o kept ELSE kept
FromGroup(messages, starts, drop) ==
    LET first == CHOOSE i \in starts : Cardinality({j \in starts : j < i}) = drop
    IN  WithHead(SubSeq(messages, first, Len(messages)))

\* _truncate_head_for_ptl_retry: <<>> for None.
TruncateHead(messages, overage) ==
    LET starts == GroupStarts(messages)
        groups == Cardinality(starts)
        average == AtLeast(Tokens(messages) \div groups, 1)
    IN  IF groups <= 1 THEN <<>>
        ELSE FromGroup(messages, starts, GroupsToDrop(groups, overage, average))

-----------------------------------------------------------------------------
(* compact_conversation.                                                   *)

\* An answer of the model: "summary", "empty", "exception", or "too long" with
\* the overage that it states, 0 for none.
Overage(answer, messages) == IF answer.over > 0 THEN answer.over ELSE Tokens(messages) \div 5

Failure(messages, why) == [success |-> FALSE, messages |-> messages, why |-> why]
Summary(text) ==
    [success |-> TRUE, why |-> text, messages |-> <<Message("prompt", 0, 1), Message("prompt", 0, 1)>>]

\* Mutant: a failed attempt gives back what is left to summarise.
FailWithRest(messages, working, why) == Failure(working, why)
FailWith(messages, working, why) == Failure(messages, why)

\* The loop over attempts 0 .. retries, as the state after k of them: the
\* messages of the next request, the text received last and, once the loop is
\* left, the result.
Attempts(messages, answers, retries) ==
    LET after(k, s) ==
            LET a == answers[k]
                cut == TruncateHead(s.working, Overage(a, messages))
            IN  CASE s.left -> s
                  [] ~s.left /\ a.kind = "exception" ->
                       IF k > retries
                       THEN [s EXCEPT !.left = TRUE,
                                      !.result = <<FailWith(messages, s.working, "exception")>>]
                       ELSE s
                  [] ~s.left /\ a.kind = "too long" ->
                       IF cut = <<>>
                       THEN [s EXCEPT !.left = TRUE,
                                      !.result = <<FailWith(messages, s.working, "too large")>>]
                       ELSE [s EXCEPT !.working = cut, !.text = "too long"]
                  [] OTHER -> [s EXCEPT !.left = TRUE, !.text = a.kind]
        state[k \in 0 .. (retries + 1)] ==
            IF k = 0
            THEN [working |-> messages, text |-> "empty", left |-> FALSE, result |-> <<>>]
            ELSE after(k, state[k - 1])
    IN  state

\* What the model is asked to summarise, in the first attempt and after each.
Requests(messages, answers, retries) ==
    LET state == Attempts(messages, answers, retries)
    IN  [k \in 1 .. (retries + 2) |-> state[k - 1].working]

CompactConversation(messages, answers, retries) ==
    LET end == Attempts(messages, answers, retries)[retries + 1]
    IN  IF messages = <<>> THEN Failure(<<>>, "no messages")
        ELSE IF end.result # <<>> THEN end.result[1]
        ELSE IF end.text = "empty" THEN FailWith(messages, end.working, "empty")
        ELSE Summary(end.text)

-----------------------------------------------------------------------------
(* auto_compact_if_needed.                                                 *)

MaxFailures == 3     \* MAX_CONSECUTIVE_FAILURES

\* calculate_compact_state, for a window from which 33,000 tokens are reserved.
ShouldCompact(usage, window, reserved) == usage >= window - reserved

\* consecutive_failures after an attempt, which may fail or raise.
AfterAttempt(failures, outcome) == IF outcome = "success" THEN 0 ELSE failures + 1

\* A history of turns, each over the threshold or not and with the outcome that
\* an attempt would have, or a reset: the failures counted after each.
Failures(turns) ==
    LET n[k \in 0 .. Len(turns)] ==
            CASE k = 0 -> 0
              [] k > 0 /\ turns[k] = "reset" -> 0
              [] OTHER -> IF n[k - 1] >= MaxFailures \/ turns[k] = "below" THEN n[k - 1]
                          ELSE AfterAttempt(n[k - 1], turns[k])
    IN  n
Attempted(turns) ==
    {k \in DOMAIN turns :
        turns[k] \in {"success", "failure"} /\ Failures(turns)[k - 1] < MaxFailures}

-----------------------------------------------------------------------------
(* Properties.                                                             *)

\* Each request is a tail of the history that holds its last round whole, never
\* a tool result without its call, with something in front of a reply, and
\* shorter than the request before it if it differs.
RequestsAreTails(messages, requests) ==
    LET body(w) == IF w # <<>> /\ Head(w).kind = "head" THEN Tail(w) ELSE w
    IN  \A k \in DOMAIN requests :
            LET w == requests[k]
            IN  /\ IsSuffix(body(w), messages)
                /\ w # messages => body(w) # <<>> /\ ~IsAssistant(Head(w))
                /\ \A i \in DOMAIN w : w[i].kind = "results" => i > 1 /\ IsAssistant(w[i - 1])
                /\ k > 1 /\ w # requests[k - 1] => Len(body(w)) < Len(body(requests[k - 1]))

\* Whatever the model answers, a compaction that fails gives the history back as
\* it was, and asks only about tails of it in which every result has its call.
CompactsOrKeeps(messages, answers, retries) ==
    /\ RequestsAreTails(messages, Requests(messages, answers, retries))
    /\ LET result == CompactConversation(messages, answers, retries)
       IN  result.success \/ result.messages = messages

\* The breaker: after three failures in a row nothing is attempted until a reset,
\* and before that every turn over the threshold is.
BreakerOpens(turns) ==
    \A k \in DOMAIN turns :
        LET failed(j) == turns[j] = "failure" /\ j \in Attempted(turns)
            open == \E a, b, c \in 1 .. (k - 1) :
                /\ a < b /\ b < c /\ failed(a) /\ failed(b) /\ failed(c)
                /\ \A j \in a .. (k - 1) : turns[j] # "reset" /\ (j <= c => turns[j] # "success")
        IN  turns[k] \in {"success", "failure"} => (k \in Attempted(turns) <=> ~open)
=============================================================================
