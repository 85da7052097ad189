--------------------------- MODULE ModelRequests ---------------------------
(***************************************************************************)
(* The decisions about requests to the model that leave no state behind:   *)
(* the attempts of a request, the client that it is sent with, and the     *)
(* compaction of a conversation.  Each action takes an input of ApiRetry   *)
(* or of Compaction, from all there are within the bounds, and the         *)
(* invariants say what must be true of that input.                         *)
(***************************************************************************)
EXTENDS Integers, Sequences, FiniteSets, SequencesExt

Retry == INSTANCE ApiRetry
Compact == INSTANCE Compaction

CONSTANTS MaxRetries,    \* bound: retries of a request
          MaxMessages,   \* bound: messages of a conversation
          MaxTurns       \* bound: turns of a history

ASSUME ModelRequestsAssumption == {MaxRetries, MaxMessages, MaxTurns} \subseteq Nat

VARIABLE input    \* what is decided about

SeqsUpTo(S, n) == UNION {[1 .. k -> S] : k \in 0 .. n}

NoInput == input = [part |-> "none"]
Idle == input.part = "none"

-----------------------------------------------------------------------------
(* services/api.                                                           *)

Answers ==
    {Retry!Ok}
    \cup {Retry!Answer(s, FALSE, Retry!NoOverflow) :
              s \in {"connection", "exception", "400", "401", "429", "529"}}
    \cup {Retry!Answer(s, TRUE, Retry!NoOverflow) : s \in {"401", "500"}}
    \cup {Retry!Answer("400", FALSE, room) : room \in {"enough", "too little"}}

\* A request is sent and its attempts get these answers.
Request ==
    /\ Idle
    /\ \E retries \in 0 .. MaxRetries : \E answers \in [1 .. (retries + 1) -> Answers] :
           input' = [part |-> "request", answers |-> answers, retries |-> retries]

ClientConfigs == [bedrock : BOOLEAN, vertex : {FALSE}, header : BOOLEAN]

\* Calls of get_client one after the other.
Calls ==
    /\ Idle
    /\ \E calls \in SeqsUpTo([config : SeqsUpTo(ClientConfigs, 1), env : ClientConfigs], 2) :
           /\ calls # <<>>
           /\ input' = [part |-> "clients", calls |-> calls]

-----------------------------------------------------------------------------
(* services/compact.                                                       *)

\* Rounds of a prompt or the results, and a reply, of one id or none.
Conversations ==
    {[i \in 1 .. n |->
        Compact!Message(IF i = 1 THEN "prompt"
                        ELSE IF i % 2 = 0 THEN "reply" ELSE "results",
                        IF i % 2 = 0 THEN ids[i \div 2] ELSE 0, sizes[(i % 2) + 1])] :
        n \in 1 .. MaxMessages, ids \in [1 .. (MaxMessages \div 2) -> 0 .. 2],
        sizes \in [1 .. 2 -> 1 .. 2]}

ModelAnswers ==
    {[kind |-> k, over |-> 0] : k \in {"summary", "empty", "exception", "too long"}}
    \cup {[kind |-> "too long", over |-> n] : n \in 2 .. 3}

\* A conversation is compacted with these answers of the model.
CompactOnce ==
    /\ Idle
    /\ \E messages \in Conversations, retries \in 0 .. MaxRetries - 1 :
       \E answers \in [1 .. (retries + 1) -> ModelAnswers] :
           input' = [part |-> "compact", messages |-> messages, answers |-> answers,
                     retries |-> retries]

\* A history of turns with automatic compaction.
AutoCompact ==
    /\ Idle
    /\ \E turns \in [1 .. MaxTurns -> {"below", "success", "failure", "reset"}] :
           input' = [part |-> "breaker", turns |-> turns]

-----------------------------------------------------------------------------
(* Properties.                                                             *)

\* retry_with_backoff raises no error that may pass while it has retries left,
\* but for those it is said to, and never makes more attempts than allowed; and
\* get_client gives a call without a config the client of the last with one.
RequestsAreRetried ==
    /\ input.part = "request" => Retry!RetriesWhatMayPass(input.answers, input.retries)
    /\ input.part = "clients" => Retry!SubAgentsShareClient(input.calls)

\* compact_conversation gives back the whole history when it fails and asks the
\* model only about tails of it in which every tool result follows its call; the
\* circuit breaker opens after three failures in a row and before that stops none.
CompactsOrKeeps ==
    /\ input.part = "compact" =>
           Compact!CompactsOrKeeps(input.messages, input.answers, input.retries)
    /\ input.part = "breaker" => Compact!BreakerOpens(input.turns)
=============================================================================
