------------------------------ MODULE ApiRetry ------------------------------
(***************************************************************************)
(* The API client of services/api: retry_with_backoff of retry.py, which   *)
(* decides after each failed attempt whether to raise, wait or try again   *)
(* at once, and the choice of provider and headers of client.py.           *)
(*                                                                         *)
(* A call is the sequence of answers that its attempts would get.          *)
(***************************************************************************)
EXTENDS Naturals, Sequences, FiniteSets

-----------------------------------------------------------------------------
(* Answers.                                                                *)

\* status: "ok", an HTTP status class, "connection" for APIConnectionError,
\* "own" for a RetryableError, "exception" for any other.
\* overloaded: the message contains "overloaded_error".
\* room: what a context overflow leaves for the output, for a 400 that is one.
Answer(status, overloaded, room) ==
    [status |-> status, overloaded |-> overloaded, room |-> room]

NoOverflow == "no overflow"
Statuses == {"400", "401", "403", "404", "408", "429", "500", "529"}
Ok == Answer("ok", FALSE, NoOverflow)

\* _is_529_overloaded
Overloaded(e) == e.status \in Statuses /\ (e.status = "529" \/ e.overloaded)
\* _parse_context_overflow
Overflow(e) == e.status = "400" /\ e.room # NoOverflow
\* _should_retry
ShouldRetry(e) ==
    \/ e.status \in {"connection", "own", "408", "429", "500", "529"}
    \/ Overloaded(e) \/ Overflow(e)

-----------------------------------------------------------------------------
(* retry_with_backoff.                                                     *)

MaxOverloads == 3    \* _MAX_529_RETRIES

\* Mutant: an answer of another kind does not end a streak of overloads.
StreakKept(answers, k, before) == IF Overloaded(answers[k]) THEN before + 1 ELSE before
Streak(answers, k, before) == IF Overloaded(answers[k]) THEN before + 1 ELSE 0

\* consecutive_529 after each attempt
Overloads(answers) ==
    LET n[k \in 0 .. Len(answers)] ==
            IF k = 0 THEN 0 ELSE Streak(answers, k, n[k - 1])
    IN  n

\* What an attempt leads to: a result, an error that is raised, another
\* attempt at once, or one after a delay.
Verdict(e, overloads, attempt, retries) ==
    CASE e.status = "ok" -> "result"
      [] e.status # "ok" /\ Overloaded(e) /\ overloads >= MaxOverloads -> "FallbackTriggeredError"
      [] OTHER ->
         CASE attempt > retries \/ ~ShouldRetry(e) -> "original"
           [] OTHER ->
              CASE Overflow(e) -> IF e.room = "too little" THEN "ContextOverflowError" ELSE "again"
                [] e.status \in {"401", "403"} -> "AuthenticationError"
                [] e.status = "429" -> "RateLimitError"
                [] OTHER -> "wait"

GoesOnAfter == {"again", "wait"}

\* The attempt that ends the call, and how.
RetryOutcome(answers, retries) ==
    LET verdict(k) == Verdict(answers[k], Overloads(answers)[k], k, retries)
        last == CHOOSE k \in DOMAIN answers :
                    /\ verdict(k) \notin GoesOnAfter
                    /\ \A j \in 1 .. (k - 1) : verdict(j) \in GoesOnAfter
    IN  [attempts |-> last, verdict |-> verdict(last),
         waits |-> Cardinality({j \in 1 .. (last - 1) : verdict(j) = "wait"})]

\* _compute_delay without its jitter: a server that says when to come back is obeyed.
Delay(base, limit, attempt, retryAfter) ==
    LET d == base * 2 ^ (attempt - 1)
    IN  IF retryAfter # <<>> THEN retryAfter[1] ELSE IF d < limit THEN d ELSE limit

-----------------------------------------------------------------------------
(* client.py.                                                              *)

\* _detect_provider
Provider(config, env) ==
    IF config.bedrock \/ env.bedrock THEN "bedrock"
    ELSE IF config.vertex \/ env.vertex THEN "vertex" ELSE "direct"

\* _build_default_headers: of a header that may be set twice, the config's wins.
HeaderOf(config, env) ==
    IF config.header THEN "config" ELSE IF env.header THEN "environment" ELSE "default"

NoConfig == [bedrock |-> FALSE, vertex |-> FALSE, header |-> FALSE]
Client(config, env) == [provider |-> Provider(config, env), header |-> HeaderOf(config, env)]

\* get_client: without a config the client there is, with one a new client for all.
GetClient(cached, config, env) ==
    IF config = <<>> /\ cached # <<>> THEN cached[1]
    ELSE Client(IF config = <<>> THEN NoConfig ELSE config[1], env)

\* The clients that a sequence of calls gets, each in the environment of its time.
Clients(calls) ==
    LET c[k \in 1 .. Len(calls)] ==
            GetClient(IF k = 1 THEN <<>> ELSE <<c[k - 1]>>, calls[k].config, calls[k].env)
    IN  c

-----------------------------------------------------------------------------
(* Properties of a call.                                                   *)

\* The call ends with the first answer that is final; errors that may pass are
\* not raised while retries are left, but for a rate limit, an overflow that
\* leaves no room, a refused login behind an overload and the third overload in a row.
RetriesWhatMayPass(answers, retries) ==
    LET r == RetryOutcome(answers, retries)
        e == answers[r.attempts]
        tail == {k \in 1 .. r.attempts : k > r.attempts - MaxOverloads}
    IN  /\ r.attempts <= retries + 1
        /\ r.verdict = "result" <=> e.status = "ok"
        /\ r.verdict = "FallbackTriggeredError" <=>
               r.attempts >= MaxOverloads /\ \A k \in tail : Overloaded(answers[k])
        /\ r.verdict = "original" /\ ShouldRetry(e) => r.attempts = retries + 1
        /\ \A k \in 1 .. (r.attempts - 1) :
               /\ ShouldRetry(answers[k]) /\ answers[k].status \notin {"401", "403", "429"}
               /\ Overflow(answers[k]) => answers[k].room = "enough"
        /\ r.waits = Cardinality({k \in 1 .. (r.attempts - 1) : ~Overflow(answers[k])})

\* A call without a config, as a sub-agent's, gets the client of the last call
\* with one, whatever the environment has become.  Each call with a config
\* replaces the client, unlike what get_client says of itself.
SubAgentsShareClient(calls) ==
    \A k \in DOMAIN calls :
        LET given == {j \in 1 .. k : calls[j].config # <<>>}
            last == CHOOSE j \in given : \A i \in given : i <= j
        IN  Clients(calls)[k] =
                IF given = {} THEN Client(NoConfig, calls[1].env)
                ELSE Client(calls[last].config[1], calls[last].env)
=============================================================================
