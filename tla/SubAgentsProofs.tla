--------------------------- MODULE SubAgentsProofs ---------------------------
(***************************************************************************)
(* Requests to the model, compaction and sub-agents, for answers, calls,   *)
(* histories, turns, files, operations and events of any number: what      *)
(* ModelRequests and SubAgents say of them (RequestsAreRetried,            *)
(* CompactsOrKeeps, SubAgentsAreSetUp) follows from what the inputs look   *)
(* like.  The theorems are with those of AgentTasks, next to the actions   *)
(* that take the other inputs.                                             *)
(***************************************************************************)
EXTENDS SubAgents, Selections, SequencesExt, FiniteSetTheorems, WellFoundedInduction, TLAPS

-----------------------------------------------------------------------------
(* The requests.  The operators of ApiRetry are defined by recursion, which *)
(* is a choice among the functions that satisfy an equation: there is one   *)
(* that does, since one can be built step by step, so that the chosen one   *)
(* satisfies it as well.  Both take induction, which is had from the least  *)
(* element of a set of natural numbers.                                     *)

\* A set of natural numbers has a least element.
LEMMA Least ==
  ASSUME NEW S \in SUBSET Nat, S # {}
  PROVE  \E m \in S : \A n \in S : m <= n
<1> DEFINE R == {ss \in Nat \X Nat : ss[1] < ss[2]}
<1>1. IsWellFoundedOn(R, Nat)
  BY NatLessThanWellFounded DEF OpToRel
<1> HIDE DEF R
<1>2. PICK m \in S : \A n \in S : <<n, m>> \notin R
  BY <1>1, WFMin
<1>3. ASSUME NEW n \in S PROVE m <= n
  <2>1. n \in Nat /\ m \in Nat /\ <<n, m>> \in Nat \X Nat
    OBVIOUS
  <2>2. ~(n < m)
    BY <1>2, <2>1 DEF R
  <2> QED
    BY <2>1, <2>2
<1> QED
  BY <1>3

LEMMA SetInduction ==
  ASSUME NEW S \in SUBSET Nat, 0 \in S, \A n \in S : n + 1 \in S
  PROVE  S = Nat
<1> SUFFICES ASSUME Nat \ S # {} PROVE FALSE
  OBVIOUS
<1>1. PICK m \in Nat \ S : \A n \in Nat \ S : m <= n
  BY Least
<1>2. m # 0 /\ m - 1 \in Nat /\ m - 1 \in S
  BY <1>1
<1>3. m - 1 + 1 \in S
  BY <1>2
<1> QED
  BY <1>1, <1>2, <1>3

\* f takes the steps to the numbers up to L one after the other.
IsRecursive(f, S, start, L, step) ==
    /\ f \in [0 .. L -> S]
    /\ f[0] = start
    /\ \A k \in 1 .. L : f[k] = step[k][f[k - 1]]

\* There is a function that does.
LEMMA Recursion ==
  ASSUME NEW S, NEW start \in S, NEW L \in Nat, NEW step \in [1 .. L -> [S -> S]]
  PROVE  \E f : IsRecursive(f, S, start, L, step)
<1> DEFINE Solves(f, m) == /\ f \in [0 .. m -> S] /\ f[0] = start
                           /\ \A k \in 1 .. m : k <= L => f[k] = step[k][f[k - 1]]
           M == {m \in Nat : \E f : Solves(f, m)}
<1>1. 0 \in M
  <2>1. Solves([k \in 0 .. 0 |-> start], 0)
    OBVIOUS
  <2> HIDE DEF Solves
  <2> QED
    BY <2>1
<1>2. ASSUME NEW m \in M PROVE m + 1 \in M
  <2>1. PICK f : Solves(f, m)
    OBVIOUS
  <2> DEFINE g == [k \in 0 .. (m + 1) |->
                     IF k <= m THEN f[k] ELSE IF m + 1 <= L THEN step[m + 1][f[m]] ELSE start]
  <2>2. m \in 0 .. m /\ (m + 1 <= L => m + 1 \in 1 .. L)
    OBVIOUS
  <2>9. f[m] \in S
    BY <2>1, <2>2
  <2>8. m + 1 <= L => step[m + 1][f[m]] \in S
    BY <2>2, <2>9
  <2>3. g \in [0 .. (m + 1) -> S] /\ g[0] = start
    <3>1. ASSUME NEW k \in 0 .. (m + 1) PROVE g[k] \in S
      <4>1. CASE k <= m
        BY <2>1, <4>1
      <4>2. CASE ~(k <= m)
        BY <2>8, <4>2
      <4> QED
        BY <4>1, <4>2
    <3> QED
      BY <2>1, <3>1
  <2>6. (\A k \in 0 .. m : g[k] = f[k]) /\ (m + 1 <= L => g[m + 1] = step[m + 1][f[m]])
    OBVIOUS
  <2> HIDE DEF g
  <2>4. ASSUME NEW k \in 1 .. (m + 1), k <= L PROVE g[k] = step[k][g[k - 1]]
    <3>1. k - 1 \in 0 .. m /\ (k \in 1 .. m \/ k = m + 1)
      OBVIOUS
    <3>2. CASE k \in 1 .. m
      <4>1. g[k] = f[k] /\ g[k - 1] = f[k - 1]
        BY <2>6, <3>1, <3>2
      <4>2. f[k] = step[k][f[k - 1]]
        BY <2>1, <2>4, <3>2
      <4> QED
        BY <4>1, <4>2
    <3>3. CASE k = m + 1
      <4>1. g[k - 1] = f[m] /\ g[k] = step[k][f[m]]
        BY <2>4, <2>6, <3>1, <3>3
      <4> QED
        BY <4>1
    <3> QED
      BY <3>1, <3>2, <3>3
  <2>5. Solves(g, m + 1)
    BY <2>3, <2>4
  <2>7. m + 1 \in Nat
    OBVIOUS
  <2> HIDE DEF Solves
  <2> QED
    BY <2>5, <2>7
<1>3. L \in M
  <2> HIDE DEF M
  <2>1. M \in SUBSET Nat
    BY DEF M
  <2> QED
    BY <1>1, <1>2, <2>1, SetInduction
<1>4. PICK f : Solves(f, L)
  BY <1>3
<1>5. \A k \in 1 .. L : k <= L
  OBVIOUS
<1>6. f \in [0 .. L -> S] /\ f[0] = start /\ \A k \in 1 .. L : f[k] = step[k][f[k - 1]]
  BY <1>4, <1>5
<1> QED
  BY <1>6 DEF IsRecursive

\* What holds at first and from each number to the next holds of all.
LEMMA Stays ==
  ASSUME NEW S, NEW L \in Nat, NEW f, f[0] \in S,
         \A k \in 1 .. L : f[k - 1] \in S => f[k] \in S
  PROVE  \A k \in 0 .. L : f[k] \in S
<1> DEFINE M == {k \in Nat : k <= L => f[k] \in S}
<1>1. 0 \in M
  OBVIOUS
<1>2. ASSUME NEW k \in M PROVE k + 1 \in M
  <2>1. ASSUME k + 1 <= L PROVE f[k + 1] \in S
    <3>1. k + 1 \in 1 .. L /\ (k + 1) - 1 = k /\ f[k] \in S
      BY <2>1
    <3> QED
      BY <3>1
  <2> QED
    BY <2>1
<1>3. M = Nat
  <2> HIDE DEF M
  <2>1. M \in SUBSET Nat
    BY DEF M
  <2> QED
    BY <1>1, <1>2, <2>1, SetInduction
<1> QED
  BY <1>3

\* consecutive_529: one more with each overload, nothing with any other answer.
LEMMA OverloadsCount ==
  ASSUME NEW answers, Len(answers) \in Nat
  PROVE  LET n == Retry!Overloads(answers)
         IN  /\ n[0] = 0
             /\ \A k \in 1 .. Len(answers) :
                   n[k] = IF Retry!Overloaded(answers[k]) THEN n[k - 1] + 1 ELSE 0
             /\ \A k \in 0 .. Len(answers) : n[k] \in Nat
<1> DEFINE L == Len(answers)
           Eq(n) == n = [k \in 0 .. L |-> IF k = 0 THEN 0 ELSE Retry!Streak(answers, k, n[k - 1])]
           n == Retry!Overloads(answers)
           step == [k \in 1 .. L |-> [b \in Nat |-> Retry!Streak(answers, k, b)]]
<1>1. \A k \in 1 .. L, b \in Nat : Retry!Streak(answers, k, b) \in Nat
  BY DEF Retry!Streak
<1>2. step \in [1 .. L -> [Nat -> Nat]]
  BY <1>1
<1>3. PICK f : IsRecursive(f, Nat, 0, L, step)
  <2>1. L \in Nat /\ 0 \in Nat
    OBVIOUS
  <2> HIDE DEF step, L
  <2> QED
    BY <1>2, <2>1, Recursion, Zenon
<1>4. f \in [0 .. L -> Nat] /\ f[0] = 0 /\ \A k \in 1 .. L : f[k] = step[k][f[k - 1]]
  BY <1>3 DEF IsRecursive
<1>5. Eq(f)
  <2>1. ASSUME NEW k \in 1 .. L PROVE f[k] = Retry!Streak(answers, k, f[k - 1])
    <3>1. k - 1 \in 0 .. L
      OBVIOUS
    <3> QED
      BY <1>4, <3>1
  <2>2. f = [k \in 0 .. L |-> f[k]]
    BY <1>4
  <2>3. \A k \in 0 .. L : f[k] = IF k = 0 THEN 0 ELSE Retry!Streak(answers, k, f[k - 1])
    BY <1>4, <2>1
  <2> QED
    BY <2>2, <2>3
<1>6. Eq(n)
  <2> HIDE DEF Eq
  <2>1. n = CHOOSE g : Eq(g)
    BY DEF Retry!Overloads, Eq
  <2> HIDE DEF n
  <2> QED
    BY <1>5, <2>1
<1>7. n[0] = 0 /\ \A k \in 1 .. L : n[k] = Retry!Streak(answers, k, n[k - 1])
  BY <1>6
<1>8. \A k \in 0 .. L : n[k] \in Nat
  <2> HIDE DEF n
  <2>1. \A k \in 1 .. L : n[k - 1] \in Nat => n[k] \in Nat
    BY <1>1, <1>7
  <2>2. n[0] \in Nat /\ L \in Nat
    BY <1>7
  <2> HIDE DEF L
  <2> QED
    BY <2>1, <2>2, Stays
<1> HIDE DEF n
<1> QED
  BY <1>7, <1>8 DEF n, Retry!Streak

Rooms == {Retry!NoOverflow, "enough", "too little"}

\* What the verdict on one attempt says of its answer.
LEMMA VerdictMeans ==
  ASSUME NEW e, e.overloaded \in BOOLEAN, e.room \in Rooms, NEW n \in Nat,
         NEW attempt \in Nat, NEW retries \in Nat
  PROVE  LET v == Retry!Verdict(e, n, attempt, retries)
         IN  /\ attempt > retries => v \notin Retry!GoesOnAfter
             /\ v = "result" <=> e.status = "ok"
             /\ v = "FallbackTriggeredError" <=> Retry!Overloaded(e) /\ n >= 3
             /\ v = "original" /\ attempt <= retries => ~Retry!ShouldRetry(e)
             /\ v \in Retry!GoesOnAfter =>
                   /\ Retry!ShouldRetry(e) /\ e.status \notin {"401", "403", "429"}
                   /\ Retry!Overflow(e) => e.room = "enough"
                   /\ v = "wait" <=> ~Retry!Overflow(e)
<1> DEFINE v == Retry!Verdict(e, n, attempt, retries)
           over == Retry!Overloaded(e)
           full == Retry!Overflow(e)
           may == Retry!ShouldRetry(e)
<1>1. (over => e.status # "ok") /\ (full => e.status = "400" /\ e.room \in {"enough", "too little"})
  BY DEF Retry!Overloaded, Retry!Overflow, Retry!Statuses, Rooms
<1>2. v = CASE e.status = "ok" -> "result"
            [] e.status # "ok" /\ over /\ n >= 3 -> "FallbackTriggeredError"
            [] OTHER ->
               CASE attempt > retries \/ ~may -> "original"
                 [] OTHER ->
                    CASE full -> IF e.room = "too little" THEN "ContextOverflowError" ELSE "again"
                      [] e.status \in {"401", "403"} -> "AuthenticationError"
                      [] e.status = "429" -> "RateLimitError"
                      [] OTHER -> "wait"
  BY DEF Retry!Verdict, Retry!MaxOverloads
<1> HIDE DEF v, over, full, may
<1>3. CASE e.status = "ok"
  <2>1. v = "result"
    BY <1>2, <1>3
  <2> QED
    BY <1>1, <1>3, <2>1 DEF v, over, Retry!GoesOnAfter
<1>4. CASE e.status # "ok" /\ over /\ n >= 3
  <2>1. v = "FallbackTriggeredError"
    BY <1>2, <1>4
  <2> QED
    BY <1>4, <2>1 DEF v, over, Retry!GoesOnAfter
<1>5. CASE e.status # "ok" /\ ~(over /\ n >= 3) /\ (attempt > retries \/ ~may)
  <2>1. v = "original"
    BY <1>2, <1>5
  <2> QED
    BY <1>5, <2>1 DEF v, over, may, Retry!GoesOnAfter
<1>6. CASE e.status # "ok" /\ ~(over /\ n >= 3) /\ ~(attempt > retries \/ ~may)
  <2>1. v = CASE full -> IF e.room = "too little" THEN "ContextOverflowError" ELSE "again"
              [] e.status \in {"401", "403"} -> "AuthenticationError"
              [] e.status = "429" -> "RateLimitError"
              [] OTHER -> "wait"
    BY <1>2, <1>6
  <2>2. \/ full /\ e.room = "too little" /\ v = "ContextOverflowError"
        \/ full /\ e.room = "enough" /\ v = "again"
        \/ ~full /\ e.status \in {"401", "403"} /\ v = "AuthenticationError"
        \/ ~full /\ e.status = "429" /\ v = "RateLimitError"
        \/ ~full /\ e.status \notin {"401", "403", "429"} /\ v = "wait"
    BY <1>1, <2>1
  <2> QED
    BY <1>1, <1>6, <2>2 DEF v, over, may, full, Retry!GoesOnAfter
<1> QED
  BY <1>3, <1>4, <1>5, <1>6

\* retry.py: whatever a request is answered, an error that may pass is not raised
\* while retries are left, and the third overload in a row is.
LEMMA RequestIsRetried ==
  ASSUME NEW retries \in Nat, NEW answers, DOMAIN answers = 1 .. (retries + 1),
         Len(answers) = retries + 1,
         \A k \in DOMAIN answers : answers[k].overloaded \in BOOLEAN /\ answers[k].room \in Rooms
  PROVE  Retry!RetriesWhatMayPass(answers, retries)
<1> DEFINE L == retries + 1
           n == Retry!Overloads(answers)
           v(k) == Retry!Verdict(answers[k], n[k], k, retries)
           Ends(k) == v(k) \notin Retry!GoesOnAfter /\ \A j \in 1 .. (k - 1) : v(j) \in Retry!GoesOnAfter
           last == CHOOSE k \in 1 .. L : Ends(k)
           over(k) == Retry!Overloaded(answers[k])
<1>1. /\ L \in Nat /\ n[0] = 0
      /\ \A k \in 1 .. L : n[k] = IF over(k) THEN n[k - 1] + 1 ELSE 0
      /\ \A k \in 0 .. L : n[k] \in Nat
  <2>1. L \in Nat /\ Len(answers) \in Nat /\ Len(answers) = L
    OBVIOUS
  <2> HIDE DEF L
  <2> QED
    BY <2>1, OverloadsCount
<1> HIDE DEF n
<1>2. ASSUME NEW k \in 1 .. L
      PROVE  /\ k > retries => v(k) \notin Retry!GoesOnAfter
             /\ v(k) = "result" <=> answers[k].status = "ok"
             /\ v(k) = "FallbackTriggeredError" <=> over(k) /\ n[k] >= 3
             /\ v(k) = "original" /\ k <= retries => ~Retry!ShouldRetry(answers[k])
             /\ v(k) \in Retry!GoesOnAfter =>
                   /\ Retry!ShouldRetry(answers[k]) /\ answers[k].status \notin {"401", "403", "429"}
                   /\ Retry!Overflow(answers[k]) => answers[k].room = "enough"
                   /\ v(k) = "wait" <=> ~Retry!Overflow(answers[k])
  <2>1. k \in DOMAIN answers /\ k \in Nat /\ n[k] \in Nat
    BY <1>1
  <2> QED
    BY <2>1, VerdictMeans
<1>3. ASSUME NEW k \in 1 .. L
      PROVE  over(k) /\ n[k] >= 3 <=> k >= 3 /\ \A j \in {i \in 1 .. k : i > k - 3} : over(j)
  <2>1. CASE k < 3
    <3>1. n[k] < 3
      <4>1. CASE k = 1
        BY <1>1, <4>1
      <4>2. CASE k = 2
        BY <1>1, <4>2
      <4> QED
        BY <2>1, <4>1, <4>2
    <3>2. n[k] \in Nat
      BY <1>1
    <3> QED
      BY <2>1, <3>1, <3>2
  <2>2. CASE k >= 3
    <3>1. /\ k - 1 \in 1 .. L /\ k - 2 \in 1 .. L /\ k - 3 \in 0 .. L
          /\ (k - 1) - 1 = k - 2 /\ (k - 2) - 1 = k - 3
          /\ {i \in 1 .. k : i > k - 3} = {k, k - 1, k - 2}
      BY <2>2
    <3>2. /\ n[k] = IF over(k) THEN n[k - 1] + 1 ELSE 0
          /\ n[k - 1] = IF over(k - 1) THEN n[k - 2] + 1 ELSE 0
          /\ n[k - 2] = IF over(k - 2) THEN n[k - 3] + 1 ELSE 0
          /\ n[k - 3] \in Nat
      BY <1>1, <3>1
    <3>3. n[k] >= 3 <=> over(k) /\ over(k - 1) /\ over(k - 2)
      <4> DEFINE a == n[k]  b == n[k - 1]  c == n[k - 2]  d == n[k - 3]
      <4> HIDE DEF a, b, c, d, over
      <4>1. /\ a = IF over(k) THEN b + 1 ELSE 0
            /\ b = IF over(k - 1) THEN c + 1 ELSE 0
            /\ c = IF over(k - 2) THEN d + 1 ELSE 0
            /\ d \in Nat
        BY <3>2 DEF a, b, c, d
      <4>2. a >= 3 <=> over(k) /\ over(k - 1) /\ over(k - 2)
        BY <4>1
      <4> QED
        BY <4>2 DEF a
    <3> HIDE DEF over
    <3> QED
      BY <2>2, <3>1, <3>3
  <2> QED
    BY <2>1, <2>2
<1>4. \E k \in 1 .. L : Ends(k)
  <2> DEFINE E == {k \in 1 .. L : v(k) \notin Retry!GoesOnAfter}
  <2>1. L \in E
    BY <1>2
  <2>2. PICK k \in E : \A j \in E : k <= j
    <3> HIDE DEF v
    <3>1. E \in SUBSET Nat /\ E # {}
      BY <2>1
    <3> HIDE DEF E
    <3> QED
      BY <3>1, Least
  <2>3. ASSUME NEW j \in 1 .. (k - 1) PROVE v(j) \in Retry!GoesOnAfter
    <3>1. j \in 1 .. L /\ ~(k <= j)
      OBVIOUS
    <3> HIDE DEF v
    <3> QED
      BY <2>2, <3>1
  <2> HIDE DEF v
  <2> QED
    BY <2>3
<1>5. last \in 1 .. L /\ Ends(last)
  <2> HIDE DEF Ends
  <2> QED
    BY <1>4
<1> DEFINE r == Retry!RetryOutcome(answers, retries)
<1>6. /\ r.attempts = last /\ r.verdict = v(last)
      /\ r.waits = Retry!Cardinality({j \in 1 .. (last - 1) : v(j) = "wait"})
  BY DEF Retry!RetryOutcome, n
<1> HIDE DEF r, last, v
<1>7. last <= L /\ last \in Nat /\ \A j \in 1 .. (last - 1) : j \in 1 .. L
  BY <1>5
<1>8. {j \in 1 .. (last - 1) : v(j) = "wait"} = {j \in 1 .. (last - 1) : ~Retry!Overflow(answers[j])}
  <2>1. \A j \in 1 .. (last - 1) : v(j) = "wait" <=> ~Retry!Overflow(answers[j])
    BY <1>2, <1>5, <1>7 DEF Retry!GoesOnAfter
  <2> QED
    BY <2>1
<1>9. r.verdict = "original" /\ Retry!ShouldRetry(answers[last]) => last = retries + 1
  <2>1. r.verdict = "original" /\ Retry!ShouldRetry(answers[last]) => ~(last <= retries)
    BY <1>2, <1>5, <1>6
  <2> QED
    BY <1>7, <2>1
<1>10. r.verdict = "result" <=> answers[last].status = "ok"
  BY <1>2, <1>5, <1>6
<1>11. r.verdict = "FallbackTriggeredError" <=>
           last >= 3 /\ \A k \in {i \in 1 .. last : i > last - 3} : over(k)
  BY <1>2, <1>3, <1>5, <1>6
<1>12. \A k \in 1 .. (last - 1) :
          /\ Retry!ShouldRetry(answers[k]) /\ answers[k].status \notin {"401", "403", "429"}
          /\ Retry!Overflow(answers[k]) => answers[k].room = "enough"
  BY <1>2, <1>5, <1>7
<1> QED
  BY <1>6, <1>7, <1>8, <1>9, <1>10, <1>11, <1>12 DEF Retry!RetriesWhatMayPass, Retry!MaxOverloads, r

\* client.py: a call without a config gets the client of the last one with a config.
LEMMA ClientIsShared ==
  ASSUME NEW calls, Len(calls) \in Nat, DOMAIN calls = 1 .. Len(calls)
  PROVE  Retry!SubAgentsShareClient(calls)
<1> DEFINE L == Len(calls)
           given(k) == {j \in 1 .. k : calls[j].config # <<>>}
           last(G) == CHOOSE j \in G : \A i \in G : i <= j
           of(G) == IF G = {} THEN Retry!Client(Retry!NoConfig, calls[1].env)
                    ELSE Retry!Client(calls[last(G)].config[1], calls[last(G)].env)
           want(k) == of(given(k))
           got(k, before) == Retry!GetClient(before, calls[k].config, calls[k].env)
           Eq(c) == c = [k \in 1 .. L |-> got(k, IF k = 1 THEN <<>> ELSE <<c[k - 1]>>)]
           clients == Retry!Clients(calls)
<1>1. ASSUME NEW k \in 1 .. L
      PROVE  want(k) = got(k, IF k = 1 THEN <<>> ELSE <<want(k - 1)>>)
  <2>1. CASE calls[k].config # <<>>
    <3>1. k \in given(k) /\ \A i \in given(k) : i <= k
      BY <2>1
    <3>2. last(given(k)) = k
      <4>1. last(given(k)) \in given(k) /\ \A i \in given(k) : i <= last(given(k))
        BY <3>1
      <4> QED
        BY <3>1, <4>1
    <3> DEFINE old == IF k = 1 THEN <<>> ELSE <<want(k - 1)>>
    <3>3. want(k) = Retry!Client(calls[k].config[1], calls[k].env)
      BY <3>1, <3>2
    <3> HIDE DEF old, want
    <3>4. got(k, old) = Retry!Client(calls[k].config[1], calls[k].env)
      BY <2>1 DEF Retry!GetClient
    <3> QED
      BY <3>3, <3>4 DEF old
  <2>2. CASE calls[k].config = <<>> /\ k = 1
    <3>1. given(k) = {}
      BY <2>2
    <3> QED
      BY <2>2, <3>1 DEF Retry!GetClient
  <2>3. CASE calls[k].config = <<>> /\ k # 1
    <3>1. given(k) = given(k - 1)
      BY <2>3
    <3> HIDE DEF of, given
    <3>2. want(k) = want(k - 1)
      BY <3>1
    <3> DEFINE old == want(k - 1)
    <3> HIDE DEF old
    <3>3. got(k, <<old>>) = old
      BY <2>3 DEF Retry!GetClient
    <3> QED
      BY <2>3, <3>2, <3>3 DEF old
  <2> QED
    BY <2>1, <2>2, <2>3
<1> HIDE DEF want, got
<1>2. \E c : Eq(c)
  <2> DEFINE c == [k \in 1 .. L |-> want(k)]
  <2>1. ASSUME NEW k \in 1 .. L PROVE c[k] = got(k, IF k = 1 THEN <<>> ELSE <<c[k - 1]>>)
    <3>1. k = 1 \/ (k # 1 /\ k - 1 \in 1 .. L)
      OBVIOUS
    <3> QED
      BY <1>1, <3>1
  <2>2. Eq(c)
    BY <2>1
  <2> HIDE DEF Eq, c
  <2> QED
    BY <2>2
<1>3. Eq(clients)
  <2>1. clients = CHOOSE c : Eq(c)
    BY DEF Retry!Clients, got
  <2> HIDE DEF Eq, clients
  <2> QED
    BY <1>2, <2>1
<1>4. \A k \in 1 .. L : clients[k] = got(k, IF k = 1 THEN <<>> ELSE <<clients[k - 1]>>)
  BY <1>3
<1>5. \A k \in 1 .. L : clients[k] = want(k)
  <2> DEFINE M == {k \in Nat : k \in 1 .. L => clients[k] = want(k)}
  <2> HIDE DEF clients, L
  <2>1. 0 \in M
    OBVIOUS
  <2>2. ASSUME NEW k \in M PROVE k + 1 \in M
    <3>1. CASE k = 0
      <4>1. ASSUME 1 \in 1 .. L PROVE clients[1] = want(1)
        BY <1>1, <1>4, <4>1
      <4> QED
        BY <3>1, <4>1
    <3>2. CASE k # 0
      <4>1. ASSUME k + 1 \in 1 .. L PROVE clients[k + 1] = want(k + 1)
        <5>1. k \in 1 .. L /\ (k + 1) - 1 = k /\ k + 1 # 1
          BY <3>2, <4>1 DEF L
        <5>2. clients[k] = want(k)
          BY <5>1
        <5>3. clients[k + 1] = got(k + 1, <<clients[k]>>) /\ want(k + 1) = got(k + 1, <<want(k)>>)
          BY <1>1, <1>4, <4>1, <5>1
        <5> QED
          BY <5>2, <5>3
      <4> QED
        BY <4>1
    <3> QED
      BY <3>1, <3>2
  <2>3. M = Nat
    <3> HIDE DEF M
    <3>1. M \in SUBSET Nat
      BY DEF M
    <3> QED
      BY <2>1, <2>2, <3>1, SetInduction
  <2> QED
    BY <2>3 DEF L
<1> QED
  BY <1>5 DEF Retry!SubAgentsShareClient, want, of

-----------------------------------------------------------------------------
(* The circuit breaker.                                                    *)

\* consecutive_failures: a natural number that follows its equation.
LEMMA FailuresCount ==
  ASSUME NEW turns, Len(turns) \in Nat
  PROVE  LET n == Compact!Failures(turns)
         IN  /\ n[0] = 0
             /\ \A k \in 1 .. Len(turns) :
                   /\ n[k - 1] \in Nat /\ n[k] \in Nat
                   /\ n[k] = IF turns[k] = "reset" THEN 0
                             ELSE IF n[k - 1] >= 3 \/ turns[k] = "below" THEN n[k - 1]
                             ELSE IF turns[k] = "success" THEN 0 ELSE n[k - 1] + 1
<1> DEFINE L == Len(turns)
           n == Compact!Failures(turns)
           next(k, b) == IF turns[k] = "reset" THEN 0
                         ELSE IF b >= 3 \/ turns[k] = "below" THEN b
                         ELSE IF turns[k] = "success" THEN 0 ELSE b + 1
           step == [k \in 1 .. L |-> [b \in Nat |-> next(k, b)]]
           Eq(g) == g = [k \in 0 .. L |->
                           CASE k = 0 -> 0
                             [] k > 0 /\ turns[k] = "reset" -> 0
                             [] OTHER -> IF g[k - 1] >= Compact!MaxFailures \/ turns[k] = "below"
                                         THEN g[k - 1]
                                         ELSE Compact!AfterAttempt(g[k - 1], turns[k])]
<1>1. step \in [1 .. L -> [Nat -> Nat]]
  OBVIOUS
<1>2. PICK f : IsRecursive(f, Nat, 0, L, step)
  <2>1. 0 \in Nat /\ L \in Nat
    OBVIOUS
  <2> HIDE DEF step, L
  <2> QED
    BY <1>1, <2>1, Recursion, Zenon
<1>3. /\ f \in [0 .. L -> Nat] /\ f[0] = 0
      /\ \A k \in 1 .. L : f[k] = step[k][f[k - 1]]
  BY <1>2 DEF IsRecursive
<1>4. \A k \in 1 .. L : k - 1 \in 0 .. L /\ k \in 0 .. L /\ k > 0 /\ k # 0
  OBVIOUS
<1>5. \A k \in 1 .. L : f[k - 1] \in Nat /\ f[k] = next(k, f[k - 1])
  BY <1>3, <1>4
<1>6. Eq(f)
  <2>1. \A k \in 0 .. L : k = 0 \/ k \in 1 .. L
    OBVIOUS
  <2>2. f = [k \in 0 .. L |-> f[k]]
    BY <1>3
  <2> HIDE DEF L, step
  <2> QED
    BY <1>3, <1>4, <1>5, <2>1, <2>2 DEF Compact!MaxFailures, Compact!AfterAttempt
<1>7. n = CHOOSE g : Eq(g)
  BY DEF Compact!Failures
<1>8. Eq(n)
  <2> HIDE DEF Eq, n
  <2> QED
    BY <1>6, <1>7
<1>9. n[0] = 0 /\ \A k \in 1 .. L : n[k] = next(k, n[k - 1])
  <2> HIDE DEF n
  <2> QED
    BY <1>4, <1>8 DEF Compact!MaxFailures, Compact!AfterAttempt
<1>10. \A k \in 0 .. L : n[k] \in Nat
  <2> HIDE DEF n
  <2>1. \A k \in 1 .. L : n[k - 1] \in Nat => n[k] \in Nat
    BY <1>9
  <2>2. n[0] \in Nat /\ L \in Nat
    BY <1>9
  <2> HIDE DEF L
  <2> QED
    BY <2>1, <2>2, Stays
<1> HIDE DEF n
<1> QED
  BY <1>4, <1>9, <1>10 DEF n

\* auto_compact.py: an attempt is made exactly while there were not three failures
\* in a row since the last reset.
LEMMA BreakerHolds ==
  ASSUME NEW turns, Len(turns) \in Nat, DOMAIN turns = 1 .. Len(turns),
         \A k \in DOMAIN turns : turns[k] \in {"below", "success", "failure", "reset"}
  PROVE  Compact!BreakerOpens(turns)
<1> DEFINE L == Len(turns)
           n == Compact!Failures(turns)
           failed(j) == turns[j] = "failure" /\ j \in Compact!Attempted(turns)
           One(k) == \E a \in 1 .. k :
               failed(a) /\ \A j \in a .. k : turns[j] \notin {"reset", "success"}
           Two(k) == \E a, b \in 1 .. k :
               /\ a < b /\ failed(a) /\ failed(b)
               /\ \A j \in a .. k : turns[j] \notin {"reset", "success"}
           Open(k) == \E a, b, c \in 1 .. k :
               /\ a < b /\ b < c /\ failed(a) /\ failed(b) /\ failed(c)
               /\ \A j \in a .. k : turns[j] # "reset" /\ (j <= c => turns[j] # "success")
           Counts(k) ==
               /\ n[k] \in 0 .. 3
               /\ n[k] = 3 <=> Open(k)
               /\ n[k] < 3 => (n[k] = 2 <=> Two(k)) /\ (n[k] >= 1 <=> One(k))
<1>1. /\ n[0] = 0
      /\ \A k \in 1 .. L :
            /\ n[k - 1] \in Nat /\ n[k] \in Nat
            /\ n[k] = IF turns[k] = "reset" THEN 0
                      ELSE IF n[k - 1] >= 3 \/ turns[k] = "below" THEN n[k - 1]
                      ELSE IF turns[k] = "success" THEN 0 ELSE n[k - 1] + 1
  BY FailuresCount
<1>2. \A j \in 1 .. L : j \in Compact!Attempted(turns)
                        <=> turns[j] \in {"success", "failure"} /\ n[j - 1] < 3
  BY DEF Compact!Attempted, Compact!MaxFailures
<1> HIDE DEF n
<1>3. \A j \in 1 .. L : failed(j) <=> turns[j] = "failure" /\ n[j - 1] < 3
  BY <1>2
<1> HIDE DEF failed
<1>4. ASSUME NEW k \in 0 .. L, Counts(k), k + 1 <= L PROVE Counts(k + 1)
  <2> DEFINE e == k + 1
  <2>1. /\ e \in 1 .. L /\ e - 1 = k /\ k \in Nat
        /\ \A j \in 1 .. e : j = e \/ j \in 1 .. k
        /\ \A a \in 1 .. e : e \in a .. e
        /\ \A a \in 1 .. e : \A j \in a .. e : j = e \/ j \in a .. k
        /\ \A a \in 1 .. k : a \in 1 .. e /\ a < e /\ ~(e < a) /\ ~(e <= a)
        /\ \A a \in 1 .. k : \A j \in a .. k : j \in a .. e /\ j <= k /\ j < e /\ j <= e
    <3>1. k \in Nat /\ L \in Nat /\ k + 1 <= L
      BY <1>4
    <3> HIDE DEF L, Counts
    <3> QED
      BY <3>1
  <2>2. /\ n[k] \in 0 .. 3 /\ n[e] \in Nat /\ (n[k] < 3 <=> n[k] # 3)
        /\ n[e] = IF turns[e] = "reset" THEN 0
                  ELSE IF n[k] >= 3 \/ turns[e] = "below" THEN n[k]
                  ELSE IF turns[e] = "success" THEN 0 ELSE n[k] + 1
    BY <1>1, <1>4, <2>1
  <2>3. failed(e) <=> turns[e] = "failure" /\ n[k] < 3
    BY <1>3, <2>1
  <2>4. turns[e] \in {"below", "success", "failure", "reset"}
    BY <2>1
  <2>5. CASE turns[e] = "reset"
    <3>1. ~One(e) /\ ~Two(e) /\ ~Open(e)
      BY <2>1, <2>5
    <3>2. n[e] = 0
      BY <2>2, <2>5
    <3> QED
      BY <3>1, <3>2
  <2>6. CASE turns[e] # "reset" /\ n[k] = 3
    <3>1. Open(k)
      BY <1>4, <2>6
    <3>2. Open(e)
      <4>0. PICK a \in 1 .. k, b \in 1 .. k, c \in 1 .. k :
               /\ a < b /\ b < c /\ failed(a) /\ failed(b) /\ failed(c)
               /\ \A j \in a .. k : turns[j] # "reset" /\ (j <= c => turns[j] # "success")
        BY <3>1
      <4>1. \A j \in a .. e : turns[j] # "reset" /\ (j <= c => turns[j] # "success")
        BY <2>1, <2>6, <4>0
      <4>2. a \in 1 .. e /\ b \in 1 .. e /\ c \in 1 .. e
        BY <2>1
      <4> QED
        BY <4>0, <4>1, <4>2
    <3>3. n[e] = 3
      BY <2>2, <2>6
    <3> QED
      BY <3>2, <3>3
  <2>7. CASE turns[e] = "below" /\ n[k] < 3
    <3>1. n[e] = n[k] /\ ~failed(e)
      BY <2>2, <2>3, <2>7
    <3>2. One(e) <=> One(k)
      BY <2>1, <2>7, <3>1
    <3>3. Two(e) <=> Two(k)
      BY <2>1, <2>7, <3>1
    <3>4. Open(e) => Open(k)
      BY <2>1, <3>1
    <3>5. ~Open(k)
      BY <1>4, <2>7
    <3>6. (n[k] = 2 <=> Two(k)) /\ (n[k] >= 1 <=> One(k))
      BY <1>4, <2>7
    <3> HIDE DEF One, Two, Open
    <3> QED
      BY <2>2, <2>7, <3>1, <3>2, <3>3, <3>4, <3>5, <3>6
  <2>8. CASE turns[e] = "success" /\ n[k] < 3
    <3>1. n[e] = 0 /\ ~failed(e)
      BY <2>2, <2>3, <2>8
    <3>2. ~One(e) /\ ~Two(e)
      BY <2>1, <2>8
    <3>3. Open(e) => Open(k)
      BY <2>1, <3>1
    <3>4. ~Open(k)
      BY <1>4, <2>8
    <3> HIDE DEF One, Two, Open
    <3> QED
      BY <3>1, <3>2, <3>3, <3>4
  <2>9. CASE turns[e] = "failure" /\ n[k] < 3
    <3>1. n[e] = n[k] + 1 /\ failed(e)
      BY <2>2, <2>3, <2>9
    <3>2. One(e)
      BY <2>1, <2>9, <3>1
    <3>3. Two(e) <=> One(k)
      <4>1. ASSUME One(k) PROVE Two(e)
        <5>1. PICK a \in 1 .. k : failed(a) /\ \A j \in a .. k : turns[j] \notin {"reset", "success"}
          BY <4>1
        <5>2. \A j \in a .. e : turns[j] \notin {"reset", "success"}
          BY <2>1, <2>9, <5>1
        <5>3. a < e /\ a \in 1 .. e /\ e \in 1 .. e
          BY <2>1
        <5> QED
          BY <3>1, <5>1, <5>2, <5>3
      <4>2. ASSUME Two(e) PROVE One(k)
        <5>1. PICK a \in 1 .. e, b \in 1 .. e :
                 /\ a < b /\ failed(a) /\ failed(b)
                 /\ \A j \in a .. e : turns[j] \notin {"reset", "success"}
          BY <4>2
        <5>2. a \in 1 .. k
          BY <5>1
        <5> QED
          BY <2>1, <5>1, <5>2
      <4> QED
        BY <4>1, <4>2
    <3>4. ~Open(k)
      BY <1>4, <2>9
    <3>5. Open(e) <=> Two(k)
      <4>1. ASSUME Two(k) PROVE Open(e)
        <5>1. PICK a \in 1 .. k, b \in 1 .. k :
                 /\ a < b /\ failed(a) /\ failed(b)
                 /\ \A j \in a .. k : turns[j] \notin {"reset", "success"}
          BY <4>1
        <5>2. \A j \in a .. e : turns[j] # "reset" /\ (j <= e => turns[j] # "success")
          BY <2>1, <2>9, <5>1
        <5>3. b < e /\ a \in 1 .. e /\ b \in 1 .. e /\ e \in 1 .. e
          BY <2>1
        <5> QED
          BY <3>1, <5>1, <5>2, <5>3
      <4>2. ASSUME Open(e) PROVE Two(k)
        <5>1. PICK a \in 1 .. e, b \in 1 .. e, c \in 1 .. e :
                 /\ a < b /\ b < c /\ failed(a) /\ failed(b) /\ failed(c)
                 /\ \A j \in a .. e : turns[j] # "reset" /\ (j <= c => turns[j] # "success")
          BY <4>2
        <5>2. a \in 1 .. k /\ b \in 1 .. k
          BY <5>1
        <5>3. CASE c = e
          <6>1. \A j \in a .. k : turns[j] \notin {"reset", "success"}
            BY <2>1, <5>1, <5>2, <5>3
          <6> QED
            BY <5>1, <5>2, <6>1
        <5>4. CASE c \in 1 .. k
          <6>1. \A j \in a .. k : turns[j] # "reset" /\ (j <= c => turns[j] # "success")
            BY <2>1, <5>1, <5>2
          <6>2. Open(k)
            BY <5>1, <5>2, <5>4, <6>1
          <6> QED
            BY <3>4, <6>2
        <5> QED
          BY <2>1, <5>3, <5>4
      <4> QED
        BY <4>1, <4>2
    <3>6. (n[k] = 2 <=> Two(k)) /\ (n[k] >= 1 <=> One(k))
      BY <1>4, <2>9
    <3> HIDE DEF One, Two, Open
    <3> QED
      BY <2>2, <2>9, <3>1, <3>2, <3>3, <3>5, <3>6
  <2> QED
    BY <2>2, <2>4, <2>5, <2>6, <2>7, <2>8, <2>9
<1>5. \A k \in 0 .. L : Counts(k)
  <2> DEFINE M == {k \in Nat : k <= L => Counts(k)}
  <2>1. 0 \in M
    <3>1. n[0] = 0 /\ ~Open(0) /\ ~One(0) /\ ~Two(0)
      BY <1>1
    <3> QED
      BY <3>1
  <2> HIDE DEF Counts
  <2>2. ASSUME NEW k \in M PROVE k + 1 \in M
    <3>1. ASSUME k + 1 <= L PROVE Counts(k + 1)
      <4>1. k \in 0 .. L /\ Counts(k)
        BY <3>1
      <4> QED
        BY <1>4, <3>1, <4>1
    <3> QED
      BY <3>1
  <2>3. M = Nat
    <3> HIDE DEF M
    <3>1. M \in SUBSET Nat
      BY DEF M
    <3> QED
      BY <2>1, <2>2, <3>1, SetInduction
  <2> QED
    BY <2>3
<1>6. ASSUME NEW k \in 1 .. L, turns[k] \in {"success", "failure"}
      PROVE  k \in Compact!Attempted(turns) <=> ~Open(k - 1)
  <2>0. k - 1 \in 0 .. L
    OBVIOUS
  <2>1. Counts(k - 1)
    <3> HIDE DEF Counts
    <3> QED
      BY <1>5, <2>0
  <2>2. n[k - 1] \in 0 .. 3 /\ (n[k - 1] = 3 <=> Open(k - 1))
    BY <2>1
  <2> HIDE DEF Open
  <2> QED
    BY <1>2, <1>6, <2>2
<1> QED
  BY <1>6 DEF Compact!BreakerOpens, failed

-----------------------------------------------------------------------------
(* Compaction.                                                             *)

\* rough_token_count adds up.
LEMMA TokensCount ==
  ASSUME NEW w, Len(w) \in Nat, \A k \in 1 .. Len(w) : w[k].size \in Nat
  PROVE  Compact!Tokens(w) \in Nat
<1> DEFINE L == Len(w)
           step == [k \in 1 .. L |-> [b \in Nat |-> b + w[k].size]]
           Eq(g) == g = [k \in 0 .. L |-> IF k = 0 THEN 0 ELSE g[k - 1] + w[k].size]
           total == CHOOSE g : Eq(g)
<1>1. step \in [1 .. L -> [Nat -> Nat]]
  OBVIOUS
<1>2. PICK f : IsRecursive(f, Nat, 0, L, step)
  <2>1. 0 \in Nat /\ L \in Nat
    OBVIOUS
  <2> HIDE DEF step, L
  <2> QED
    BY <1>1, <2>1, Recursion, Zenon
<1>3. /\ f \in [0 .. L -> Nat] /\ f[0] = 0
      /\ \A k \in 1 .. L : f[k] = step[k][f[k - 1]]
  BY <1>2 DEF IsRecursive
<1>4. \A k \in 1 .. L : k - 1 \in 0 .. L /\ k \in 0 .. L /\ k # 0
  OBVIOUS
<1>5. \A k \in 1 .. L : f[k] = f[k - 1] + w[k].size
  BY <1>3, <1>4
<1>6. Eq(f)
  <2>1. \A k \in 0 .. L : k = 0 \/ k \in 1 .. L
    OBVIOUS
  <2>2. f = [k \in 0 .. L |-> f[k]]
    BY <1>3
  <2> HIDE DEF L, step
  <2> QED
    BY <1>3, <1>4, <1>5, <2>1, <2>2
<1>7. Eq(total)
  <2> HIDE DEF Eq
  <2> QED
    BY <1>6
<1> HIDE DEF total
<1>8. total[0] = 0 /\ \A k \in 1 .. L : total[k] = total[k - 1] + w[k].size
  BY <1>4, <1>7
<1>9. \A k \in 0 .. L : total[k] \in Nat
  <2>1. \A k \in 1 .. L : total[k - 1] \in Nat => total[k] \in Nat
    BY <1>8
  <2>2. total[0] \in Nat /\ L \in Nat
    BY <1>8
  <2> HIDE DEF L
  <2> QED
    BY <2>1, <2>2, Stays
<1> QED
  BY <1>9 DEF Compact!Tokens, total

LEMMA SameCardinality == \A T : Compact!Cardinality(T) = Cardinality(T)
  BY DEF Compact!Cardinality, Cardinality

Rank(T, i) == Cardinality({j \in T : j < i})

\* A set of positions has one with any smaller number of them in front of it.
LEMMA Ranked ==
  ASSUME NEW L \in Nat, NEW T \in SUBSET (1 .. L), NEW d \in Nat, d < Cardinality(T)
  PROVE  \E i \in T : Rank(T, i) = d
<1> DEFINE B(k) == {j \in T : j < k}
           M == {k \in 1 .. (L + 1) : Cardinality(B(k)) > d}
<1>0. \A j \in T : j \in Nat /\ 1 <= j /\ j < L + 1
  OBVIOUS
<1> HIDE DEF M
<1>1. IsFiniteSet(T)
  <2>1. IsFiniteSet(1 .. L)
    BY FS_Interval
  <2> QED
    BY <2>1, FS_Subset
<1>2. \A k : IsFiniteSet(B(k)) /\ Cardinality(B(k)) \in Nat
  BY <1>1, FS_Subset, FS_CardinalityType
<1>3. L + 1 \in M
  <2>1. B(L + 1) = T
    BY <1>0
  <2> HIDE DEF B
  <2> QED
    BY <2>1 DEF M
<1>4. PICK k \in M : \A m \in M : k <= m
  <2>1. M \subseteq 1 .. (L + 1)
    BY DEF M
  <2>2. 1 .. (L + 1) \subseteq Nat
    OBVIOUS
  <2>3. M \in SUBSET Nat /\ M # {}
    BY <1>3, <2>1, <2>2
  <2> QED
    BY <2>3, Least
<1>11. k \in 1 .. (L + 1) /\ Cardinality(B(k)) > d
  BY <1>4 DEF M
<1>5. k # 1
  <2>1. B(1) = {}
    <3>1. \A j \in T : ~(j < 1)
      BY <1>0
    <3> QED
      BY <3>1
  <2>2. Cardinality(B(1)) = 0
    BY <2>1, FS_EmptySet
  <2> HIDE DEF B
  <2> QED
    BY <1>11, <2>2
<1>6. k - 1 \in 1 .. (L + 1) /\ k - 1 \notin M
  <2>1. k - 1 \in 1 .. (L + 1) /\ ~(k <= k - 1)
    BY <1>11, <1>5
  <2> QED
    BY <1>4, <2>1
<1>7. Cardinality(B(k - 1)) <= d
  <2> HIDE DEF B
  <2> QED
    BY <1>2, <1>6 DEF M
<1>8. k - 1 \in T
  <2>1. ASSUME k - 1 \notin T PROVE B(k) = B(k - 1)
    <3>1. \A j \in T : j < k <=> j < k - 1
      BY <1>0, <1>11, <2>1
    <3> QED
      BY <3>1
  <2> HIDE DEF B
  <2> QED
    BY <1>2, <1>11, <1>7, <2>1
<1>9. Cardinality(B(k)) = Cardinality(B(k - 1)) + 1
  <2>1. B(k) = B(k - 1) \cup {k - 1}
    <3>1. \A j \in T : j < k <=> j < k - 1 \/ j = k - 1
      BY <1>0, <1>11
    <3> QED
      BY <1>8, <3>1
  <2>2. k - 1 \notin B(k - 1)
    <3>1. ~(k - 1 < k - 1)
      BY <1>11
    <3> QED
      BY <3>1
  <2> HIDE DEF B
  <2> QED
    BY <1>2, <2>1, <2>2, FS_AddElement
<1>10. Cardinality(B(k - 1)) = d
  <2> HIDE DEF B
  <2> QED
    BY <1>2, <1>11, <1>7, <1>9
<1> QED
  BY <1>8, <1>10 DEF Rank

\* What is left of a conversation from its message s on, a reply.
HeadMark == Compact!Message("head", 0, 0)
From(messages, s) == <<HeadMark>> \o SubSeq(messages, s, Len(messages))
Replies(messages) == {s \in 1 .. Len(messages) : Compact!IsAssistant(messages[s])}
Works(messages) == {messages} \cup {From(messages, s) : s \in Replies(messages)}

LEMMA FromFacts ==
  ASSUME NEW M, NEW messages \in Seq(M), NEW s \in 1 .. Len(messages)
  PROVE  LET w == From(messages, s)
             L == Len(messages)
         IN  /\ w \in Seq(M \cup {HeadMark})
             /\ Len(w) = L - s + 2 /\ Len(w) \in Nat
             /\ w[1] = HeadMark /\ Head(w) = HeadMark
             /\ Tail(w) = SubSeq(messages, s, L)
             /\ \A i \in 2 .. Len(w) : w[i] = messages[s + i - 2] /\ s + i - 2 \in s .. L
             /\ \A i \in 2 .. Len(w) :
                   SubSeq(w, i, Len(w)) = SubSeq(messages, s + i - 2, L)
<1> DEFINE w == From(messages, s)
           L == Len(messages)
           t == SubSeq(messages, s, L)
<1>1. L \in Nat /\ s \in Nat /\ 1 <= s /\ s <= L
  OBVIOUS
<1>2. t \in Seq(M) /\ Len(t) = L - s + 1 /\ \A i \in 1 .. Len(t) : t[i] = messages[s + i - 1]
  BY <1>1
<1>3. t \in Seq(M \cup {HeadMark}) /\ <<HeadMark>> \in Seq(M \cup {HeadMark}) /\ w = <<HeadMark>> \o t
  BY <1>2 DEF From
<1> HIDE DEF t, w, L, HeadMark
<1>4. /\ w \in Seq(M \cup {HeadMark}) /\ Len(w) = Len(t) + 1
      /\ w[1] = HeadMark /\ \A i \in 2 .. Len(w) : w[i] = t[i - 1]
  BY <1>3
<1>5. Len(w) = L - s + 2 /\ Len(w) \in Nat /\ Len(w) > 0
  BY <1>1, <1>2, <1>4
<1>6. Head(w) = HeadMark /\ Tail(w) = t
  <2>1. w # <<>>
    BY <1>4, <1>5
  <2>2. Head(w) = w[1]
    BY <1>4, <2>1
  <2>3. Tail(w) \in Seq(M \cup {HeadMark}) /\ Len(Tail(w)) = Len(t)
        /\ \A i \in 1 .. Len(t) : Tail(w)[i] = w[i + 1]
    BY <1>2, <1>4, <1>5, <2>1
  <2>4. \A i \in 1 .. Len(t) : Tail(w)[i] = t[i]
    BY <1>2, <1>4, <1>5, <2>3
  <2>5. Tail(w) = t
    BY <1>3, <2>3, <2>4
  <2> QED
    BY <1>4, <2>2, <2>5
<1>7. \A i \in 2 .. Len(w) : w[i] = messages[s + i - 2] /\ s + i - 2 \in s .. L
  <2> SUFFICES ASSUME NEW i \in 2 .. Len(w)
               PROVE  w[i] = messages[s + i - 2] /\ s + i - 2 \in s .. L
    OBVIOUS
  <2>1. i - 1 \in 1 .. Len(t) /\ s + (i - 1) - 1 = s + i - 2 /\ s + i - 2 \in s .. L
    BY <1>1, <1>2, <1>5
  <2> QED
    BY <1>2, <1>4, <2>1
<1>8. ASSUME NEW i \in 2 .. Len(w)
      PROVE  SubSeq(w, i, Len(w)) = SubSeq(messages, s + i - 2, L)
  <2> DEFINE a == SubSeq(w, i, Len(w))
             b == SubSeq(messages, s + i - 2, L)
  <2>1. /\ a \in Seq(M \cup {HeadMark}) /\ Len(a) = Len(w) - i + 1
        /\ \A j \in 1 .. Len(a) : a[j] = w[i + j - 1]
    BY <1>4, <1>5
  <2>2. /\ b \in Seq(M) /\ Len(b) = L - (s + i - 2) + 1
        /\ \A j \in 1 .. Len(b) : b[j] = messages[s + i - 2 + j - 1]
    <3>1. L = Len(messages) /\ s + i - 2 \in 1 .. L
      BY <1>1, <1>7 DEF L
    <3> DEFINE p == s + i - 2
    <3> HIDE DEF p
    <3>2. LET c == SubSeq(messages, p, L)
          IN  p \in 1 .. L => /\ c \in Seq(M) /\ Len(c) = L - p + 1
                              /\ \A j \in 1 .. Len(c) : c[j] = messages[p + j - 1]
      BY <1>1, <3>1
    <3> QED
      BY <3>1, <3>2 DEF p
  <2> HIDE DEF a, b
  <2>3. Len(a) = Len(b) /\ Len(a) \in Nat
    BY <1>1, <1>5, <2>1, <2>2
  <2>4. \A j \in 1 .. Len(a) : a[j] = b[j]
    <3> SUFFICES ASSUME NEW j \in 1 .. Len(a) PROVE a[j] = b[j]
      OBVIOUS
    <3>1. i + j - 1 \in 2 .. Len(w) /\ s + (i + j - 1) - 2 = s + i - 2 + j - 1
      BY <1>1, <1>5, <2>1
    <3>2. w[i + j - 1] = messages[s + (i + j - 1) - 2]
      BY <1>7, <3>1
    <3> QED
      BY <2>1, <2>2, <2>3, <3>1, <3>2
  <2>5. b \in Seq(M \cup {HeadMark})
    BY <2>2
  <2>6. a = b
    BY <2>1, <2>3, <2>4, <2>5
  <2> QED
    BY <2>6 DEF a, b
<1> QED
  BY <1>4, <1>5, <1>6, <1>7, <1>8 DEF w, L, t

\* A prompt that is too long is cut to a shorter end of the conversation that begins
\* with a reply, or left as it is behind the mark of an earlier cut.
LEMMA TruncateCuts ==
  ASSUME NEW M, NEW messages \in Seq(M), messages # <<>>,
         \A k \in 1 .. Len(messages) : messages[k].size \in Nat,
         NEW w \in Works(messages), NEW overage \in Nat
  PROVE  LET cut == Compact!TruncateHead(w, overage)
         IN  \/ cut = <<>>
             \/ \E s \in Replies(messages) :
                    /\ cut = From(messages, s)
                    /\ \/ w = messages /\ s > 1
                       \/ \E t \in Replies(messages) : w = From(messages, t) /\ t <= s
<1> DEFINE L == Len(messages)
           W == Len(w)
           M1 == M \cup {HeadMark}
           starts == Compact!GroupStarts(w)
           n == Compact!Cardinality(starts)
           average == Compact!AtLeast(Compact!Tokens(w) \div n, 1)
           drop == Compact!GroupsToDrop(n, overage, average)
           first == CHOOSE i \in starts : Compact!Cardinality({j \in starts : j < i}) = drop
           kept == SubSeq(w, first, W)
           cut == Compact!TruncateHead(w, overage)
<1>1. /\ w \in Seq(M1) /\ W \in Nat /\ W >= 1
      /\ \A k \in 1 .. W : w[k].size \in Nat
  <2>1. CASE w = messages
    <3>1. messages \in Seq(M1)
      OBVIOUS
    <3>2. Len(messages) \in Nat /\ Len(messages) # 0
      OBVIOUS
    <3> QED
      BY <2>1, <3>1, <3>2
  <2>2. ASSUME NEW t \in Replies(messages), w = From(messages, t)
        PROVE  w \in Seq(M1) /\ W \in Nat /\ W >= 1 /\ \A k \in 1 .. W : w[k].size \in Nat
    <3>1. t \in 1 .. Len(messages)
      BY DEF Replies
    <3>2. /\ w \in Seq(M1) /\ W = L - t + 2 /\ W \in Nat /\ w[1] = HeadMark
          /\ \A i \in 2 .. W : w[i] = messages[t + i - 2] /\ t + i - 2 \in t .. L
      BY <2>2, <3>1, FromFacts
    <3>3. W >= 1 /\ L \in Nat
      BY <3>1, <3>2
    <3>4. w[1].size \in Nat
      BY <3>2 DEF HeadMark, Compact!Message
    <3> HIDE DEF W
    <3>5. ASSUME NEW k \in 1 .. W PROVE w[k].size \in Nat
      <4>1. CASE k = 1
        BY <3>4, <4>1
      <4>2. CASE k # 1
        <5>1. k \in 2 .. W
          BY <4>2
        <5>2. w[k] = messages[t + k - 2] /\ t + k - 2 \in 1 .. Len(messages)
          BY <3>1, <3>2, <5>1
        <5> QED
          BY <5>2
      <4> QED
        BY <4>1, <4>2
    <3> QED
      BY <3>2, <3>3, <3>5
  <2> QED
    BY <2>1, <2>2 DEF Works
<1>2. starts \in SUBSET (1 .. W) /\ 1 \in starts
      /\ \A i \in starts : i = 1 \/ Compact!IsAssistant(w[i])
  <2>1. DOMAIN w = 1 .. W /\ 1 \in 1 .. W
    BY <1>1
  <2> HIDE DEF W
  <2> QED
    BY <2>1 DEF Compact!GroupStarts
<1>3. n = Cardinality(starts) /\ n \in Nat
  <2>1. IsFiniteSet(1 .. W)
    BY <1>1, FS_Interval
  <2> HIDE DEF starts
  <2>2. IsFiniteSet(starts)
    BY <1>2, <2>1, FS_Subset
  <2> QED
    BY <2>2, SameCardinality, FS_CardinalityType
<1> HIDE DEF starts, n, W
<1>4. cut = IF n <= 1 THEN <<>> ELSE Compact!WithHead(kept)
  BY DEF Compact!TruncateHead, Compact!FromGroup, starts, n, W
<1> HIDE DEF cut
<1>5. CASE n <= 1
  BY <1>4, <1>5 DEF cut
<1>6. CASE ~(n <= 1)
  <2>1. Compact!Tokens(w) \in Nat
    BY <1>1, TokensCount DEF W
  <2> DEFINE tokens == Compact!Tokens(w)
  <2> HIDE DEF tokens
  <2>2. average \in Nat /\ average >= 1
    <3>1. tokens \in Nat /\ average = Compact!AtLeast(tokens \div n, 1)
      BY <2>1 DEF tokens
    <3>2. tokens \div n \in Nat
      BY <1>3, <1>6, <3>1
    <3> QED
      BY <3>1, <3>2 DEF Compact!AtLeast
  <2> HIDE DEF average
  <2>3. drop \in Nat /\ drop >= 1 /\ drop < n
    <3>1. overage \div average \in Nat
      BY <2>2
    <3> QED
      BY <1>3, <1>6, <3>1 DEF Compact!GroupsToDrop, Compact!AtMost, Compact!AtLeast
  <2> HIDE DEF drop
  <2>4. first \in starts /\ Compact!Cardinality({j \in starts : j < first}) = drop
    <3>0. W \in Nat /\ starts \in SUBSET (1 .. W) /\ drop \in Nat /\ drop < Cardinality(starts)
      BY <1>1, <1>2, <1>3, <2>3
    <3>1. \E i \in starts : Rank(starts, i) = drop
      BY <3>0, Ranked, Zenon
    <3>2. \E i \in starts : Compact!Cardinality({j \in starts : j < i}) = drop
      BY <3>1, SameCardinality, Zenon DEF Rank
    <3> QED
      BY <3>2
  <2> HIDE DEF first
  <2>5. first # 1
    <3>1. ASSUME first = 1 PROVE {j \in starts : j < first} = {}
      <4>1. \A j \in 1 .. W : ~(j < 1)
        BY <1>1
      <4>2. \A j \in starts : ~(j < 1)
        BY <1>2, <4>1
      <4> QED
        BY <3>1, <4>2
    <3>2. Compact!Cardinality({}) = 0
      BY FS_EmptySet, SameCardinality
    <3> DEFINE before == {j \in starts : j < first}
    <3>3. Compact!Cardinality(before) = drop /\ (first = 1 => before = {})
      BY <2>4, <3>1
    <3> HIDE DEF before
    <3>4. first = 1 => drop = 0
      BY <3>2, <3>3, Zenon
    <3> QED
      BY <2>3, <3>4
  <2>6. first \in 2 .. W /\ Compact!IsAssistant(w[first])
    BY <1>1, <1>2, <2>4, <2>5
  <2>7. kept \in Seq(M1) /\ kept # <<>> /\ Head(kept) = w[first]
    <3> DEFINE k == kept
    <3>1. k \in Seq(M1) /\ Len(k) = W - first + 1 /\ \A j \in 1 .. Len(k) : k[j] = w[first + j - 1]
      BY <1>1, <2>6 DEF W
    <3> HIDE DEF k
    <3>2. Len(k) \in Nat /\ Len(k) >= 1 /\ first + 1 - 1 = first
      BY <1>1, <2>6, <3>1
    <3>3. k # <<>> /\ Head(k) = k[1] /\ k[1] = w[first]
      BY <3>1, <3>2
    <3> QED
      BY <3>1, <3>3 DEF k
  <2>8. cut = <<HeadMark>> \o kept
    BY <1>4, <1>6, <2>6, <2>7 DEF Compact!WithHead, HeadMark
  <2>9. CASE w = messages
    <3>1. cut = From(messages, first) /\ first \in Replies(messages) /\ first > 1
      BY <1>1, <2>6, <2>8, <2>9 DEF From, Replies, W
    <3> QED
      BY <2>9, <3>1 DEF cut
  <2>10. ASSUME NEW t \in Replies(messages), w = From(messages, t)
         PROVE  \E s \in Replies(messages) : cut = From(messages, s) /\ t <= s
    <3>1. t \in 1 .. L
      BY DEF Replies
    <3> DEFINE s == t + first - 2
    <3>2. /\ w[first] = messages[s] /\ s \in t .. L
          /\ kept = SubSeq(messages, s, L)
      BY <2>6, <2>10, <3>1, FromFacts DEF W
    <3>3. s \in 1 .. L /\ t <= s
      BY <3>1, <3>2
    <3> HIDE DEF s
    <3>4. s \in Replies(messages) /\ cut = From(messages, s)
      BY <2>6, <2>8, <3>2, <3>3 DEF Replies, From
    <3> QED
      BY <3>3, <3>4
  <2> QED
    BY <2>9, <2>10 DEF Works, cut
<1> QED
  BY <1>5, <1>6

LEMMA SuffixFacts ==
  ASSUME NEW M, NEW messages \in Seq(M), NEW s \in 1 .. Len(messages)
  PROVE  Compact!IsSuffix(SubSeq(messages, s, Len(messages)), messages)
<1> DEFINE L == Len(messages)
           t == SubSeq(messages, s, L)
           a == Compact!Reverse(t)
           b == Compact!Reverse(messages)
<1>1. L \in Nat /\ s \in Nat /\ 1 <= s /\ s <= L
  OBVIOUS
<1>2. t \in Seq(M) /\ Len(t) = L - s + 1 /\ \A i \in 1 .. Len(t) : t[i] = messages[s + i - 1]
  BY <1>1
<1> DEFINE N == Len(t)
<1>3. N \in Nat /\ N <= L /\ N = L - s + 1
  BY <1>1, <1>2
<1>4. a = [i \in 1 .. N |-> t[(N - i) + 1]] /\ b = [i \in 1 .. L |-> messages[(L - i) + 1]]
  BY DEF Compact!Reverse
<1>5. \A i \in 1 .. N : (N - i) + 1 \in 1 .. N /\ s + ((N - i) + 1) - 1 = (L - i) + 1 /\ i \in 1 .. L
  BY <1>1, <1>3
<1> HIDE DEF t, a, b
<1>6. \A i \in 1 .. N : a[i] = b[i]
  <2> HIDE DEF L, N
  <2> QED
    BY <1>2, <1>4, <1>5 DEF N
<1>7. a \in Seq(M) /\ Len(a) = N /\ b \in Seq(M) /\ Len(b) = L
  <2>1. \A i \in 1 .. L : (L - i) + 1 \in 1 .. L
    BY <1>1
  <2>2. b \in [1 .. L -> M]
    BY <1>4, <2>1
  <2>3. a \in [1 .. N -> M]
    <3>1. \A i \in 1 .. N : t[i] \in M
      BY <1>2
    <3> QED
      BY <1>4, <1>5, <3>1
  <2>4. N \in Nat /\ L \in Nat
    BY <1>1, <1>3
  <2> HIDE DEF L, N
  <2>5. a \in Seq(M) /\ Len(a) = N
    BY <2>3, <2>4
  <2>6. b \in Seq(M) /\ Len(b) = L
    BY <2>2, <2>4
  <2> QED
    BY <2>5, <2>6
<1>8. SubSeq(a, 1, N) = SubSeq(b, 1, N)
  <2> DEFINE c == SubSeq(a, 1, N)
             d == SubSeq(b, 1, N)
  <2>1. c \in Seq(M) /\ Len(c) = N /\ \A i \in 1 .. N : c[i] = a[i]
    BY <1>3, <1>7
  <2>2. d \in Seq(M) /\ Len(d) = N /\ \A i \in 1 .. N : d[i] = b[i]
    BY <1>3, <1>7
  <2> HIDE DEF c, d, N
  <2>3. \A i \in 1 .. N : c[i] = d[i]
    BY <1>6, <2>1, <2>2
  <2>4. c \in [1 .. N -> M] /\ d \in [1 .. N -> M]
    BY <2>1, <2>2
  <2>5. c = [i \in 1 .. N |-> c[i]] /\ d = [i \in 1 .. N |-> d[i]]
    BY <2>4
  <2>6. c = d
    BY <2>3, <2>5, Zenon
  <2> QED
    BY <2>6 DEF c, d
<1> QED
  BY <1>3, <1>7, <1>8 DEF Compact!IsSuffix, Compact!IsPrefix, t, a, b

LEMMA Fifth == \A n \in Nat : n \div 5 \in Nat
  OBVIOUS

\* What the attempts leave: of the conversation, the last text and the result.
Outcomes(messages) ==
    {<<>>} \cup {<<Compact!Failure(messages, why)>> : why \in {"exception", "too large"}}
States(messages, texts) ==
    [working : Works(messages), text : texts, left : BOOLEAN, result : Outcomes(messages)]

\* The working messages are cut further with each attempt or stay.
OnlyCuts(messages, answers, retries) ==
    LET state == Compact!Attempts(messages, answers, retries)
    IN  /\ state[0].working = messages
        /\ \A k \in 0 .. (retries + 1) :
               state[k].working \in Works(messages) /\ state[k].result \in Outcomes(messages)
        /\ \A k \in 1 .. (retries + 1) :
               \/ state[k].working = state[k - 1].working
               \/ \E s \in Replies(messages) :
                     /\ state[k].working = From(messages, s)
                     /\ \/ state[k - 1].working = messages /\ s > 1
                        \/ \E t \in Replies(messages) :
                               state[k - 1].working = From(messages, t) /\ t <= s

\* compact_conversation cuts what it works on and keeps the history for its failures.
LEMMA AttemptsCut ==
  ASSUME NEW M, NEW messages \in Seq(M), messages # <<>>,
         \A k \in 1 .. Len(messages) : messages[k].size \in Nat,
         NEW retries \in Nat, NEW answers,
         \A k \in 1 .. (retries + 1) : answers[k].over \in Nat
  PROVE  OnlyCuts(messages, answers, retries)
<1> DEFINE L == retries + 1
           cut(k, s) == Compact!TruncateHead(s.working, Compact!Overage(answers[k], messages))
           after(k, s) ==
               CASE s.left -> s
                 [] ~s.left /\ answers[k].kind = "exception" ->
                      IF k > retries
                      THEN [s EXCEPT !.left = TRUE,
                               !.result = <<Compact!FailWith(messages, s.working, "exception")>>]
                      ELSE s
                 [] ~s.left /\ answers[k].kind = "too long" ->
                      IF cut(k, s) = <<>>
                      THEN [s EXCEPT !.left = TRUE,
                               !.result = <<Compact!FailWith(messages, s.working, "too large")>>]
                      ELSE [s EXCEPT !.working = cut(k, s), !.text = "too long"]
                 [] OTHER -> [s EXCEPT !.left = TRUE, !.text = answers[k].kind]
           start == [working |-> messages, text |-> "empty", left |-> FALSE, result |-> <<>>]
           texts == {"empty", "too long"} \cup {answers[k].kind : k \in 1 .. L}
           S == States(messages, texts)
           Cut(v, w) ==
               \/ w = v
               \/ \E s \in Replies(messages) :
                     /\ w = From(messages, s)
                     /\ \/ v = messages /\ s > 1
                        \/ \E t \in Replies(messages) : v = From(messages, t) /\ t <= s
           Eq(g) == g = [k \in 0 .. L |-> IF k = 0 THEN start ELSE after(k, g[k - 1])]
           state == CHOOSE g : Eq(g)
<1>1. Compact!Attempts(messages, answers, retries) = state
  BY DEF Compact!Attempts
<1>2. start \in S /\ L \in Nat
  BY DEF States, Works, Outcomes
<1>3. ASSUME NEW k \in 1 .. L, NEW s \in S
      PROVE  after(k, s) \in S /\ Cut(s.working, after(k, s).working)
  <2> DEFINE c == cut(k, s)
             v == s.working
  <2>1. /\ s.working \in Works(messages) /\ s.text \in texts /\ s.left \in BOOLEAN
        /\ s.result \in Outcomes(messages)
        /\ s = [working |-> s.working, text |-> s.text, left |-> s.left, result |-> s.result]
    BY DEF States
  <2>2. c = <<>> \/ (c \in Works(messages) /\ Cut(v, c))
    <3>1. Compact!Overage(answers[k], messages) \in Nat
      <4>1. Len(messages) \in Nat /\ answers[k].over \in Nat
        <5> HIDE DEF after, S, cut, Cut
        <5> QED
          BY <1>2
      <4> DEFINE tokens == Compact!Tokens(messages)
      <4>2. tokens \in Nat
        BY <4>1, TokensCount
      <4> HIDE DEF tokens
      <4>3. tokens \div 5 \in Nat
        <5> HIDE DEF after, S, cut, Cut
        <5> QED
          BY <4>2, Fifth
      <4> QED
        BY <4>1, <4>3 DEF Compact!Overage, tokens
    <3> DEFINE over == Compact!Overage(answers[k], messages)
    <3> HIDE DEF over
    <3>2. over \in Nat
      BY <3>1 DEF over
    <3>3. v \in Works(messages)
      BY <2>1
    <3> HIDE DEF v
    <3> DEFINE d == Compact!TruncateHead(v, over)
    <3>4. \/ d = <<>>
          \/ \E i \in Replies(messages) :
                /\ d = From(messages, i)
                /\ \/ v = messages /\ i > 1
                   \/ \E t \in Replies(messages) : v = From(messages, t) /\ t <= i
      BY <3>2, <3>3, TruncateCuts
    <3>5. c = d
      BY DEF over, v
    <3> HIDE DEF c, d
    <3> QED
      BY <3>4, <3>5 DEF Works
  <2> HIDE DEF cut
  <2>3. CASE s.left
    BY <2>1, <2>3
  <2>4. CASE ~s.left /\ answers[k].kind = "exception"
    <3>1. <<Compact!FailWith(messages, s.working, "exception")>> \in Outcomes(messages)
      BY DEF Outcomes, Compact!FailWith
    <3> DEFINE r == <<Compact!FailWith(messages, s.working, "exception")>>
    <3> HIDE DEF r
    <3>2. after(k, s) = IF k > retries THEN [s EXCEPT !.left = TRUE, !.result = r] ELSE s
      BY <2>4 DEF r
    <3> HIDE DEF after
    <3> QED
      BY <2>1, <3>1, <3>2 DEF States, r
  <2>5. CASE ~s.left /\ answers[k].kind = "too long"
    <3>1. <<Compact!FailWith(messages, s.working, "too large")>> \in Outcomes(messages)
      BY DEF Outcomes, Compact!FailWith
    <3> DEFINE r == <<Compact!FailWith(messages, s.working, "too large")>>
    <3> HIDE DEF r
    <3>2. after(k, s) = IF c = <<>> THEN [s EXCEPT !.left = TRUE, !.result = r]
                        ELSE [s EXCEPT !.working = c, !.text = "too long"]
      BY <2>5 DEF r
    <3>3. r \in Outcomes(messages)
      BY <3>1 DEF r
    <3> HIDE DEF after, c
    <3>4. CASE c = <<>>
      BY <2>1, <3>2, <3>3, <3>4 DEF States
    <3>5. CASE c # <<>>
      <4>1. /\ after(k, s).working = c /\ after(k, s).text = "too long"
            /\ after(k, s).left = s.left /\ after(k, s).result = s.result
            /\ after(k, s) \in S
        BY <2>1, <2>2, <3>2, <3>5 DEF States
      <4> QED
        BY <2>2, <3>5, <4>1
    <3> QED
      BY <3>4, <3>5
  <2>6. CASE ~s.left /\ answers[k].kind \notin {"exception", "too long"}
    <3>1. after(k, s) = [s EXCEPT !.left = TRUE, !.text = answers[k].kind]
      BY <2>6
    <3>2. answers[k].kind \in texts
      OBVIOUS
    <3> HIDE DEF after, texts
    <3> QED
      BY <2>1, <3>1, <3>2 DEF States
  <2> HIDE DEF after, Cut
  <2> QED
    BY <2>1, <2>3, <2>4, <2>5, <2>6
<1> HIDE DEF after, start, S, Cut
<1>4. state[0] = start /\ \A k \in 1 .. L : state[k] = after(k, state[k - 1])
  <2> DEFINE step == [k \in 1 .. L |-> [s \in S |-> after(k, s)]]
  <2>1. step \in [1 .. L -> [S -> S]]
    BY <1>3
  <2>2. PICK f : IsRecursive(f, S, start, L, step)
    <3> HIDE DEF step, L
    <3> QED
      BY <1>2, <2>1, Recursion, Zenon
  <2>3. f \in [0 .. L -> S] /\ f[0] = start /\ \A k \in 1 .. L : f[k] = step[k][f[k - 1]]
    BY <2>2 DEF IsRecursive
  <2>4. \A k \in 1 .. L : k - 1 \in 0 .. L /\ k \in 0 .. L /\ k # 0
    BY <1>2
  <2>5. \A k \in 1 .. L : f[k] = after(k, f[k - 1])
    BY <2>3, <2>4
  <2>6. Eq(f)
    <3>1. \A k \in 0 .. L : k = 0 \/ k \in 1 .. L
      BY <1>2
    <3>2. f = [k \in 0 .. L |-> f[k]]
      BY <2>3
    <3> HIDE DEF L, step
    <3> QED
      BY <2>3, <2>4, <2>5, <3>1, <3>2
  <2>7. Eq(state)
    <3> HIDE DEF Eq
    <3> QED
      BY <2>6
  <2>8. 0 \in 0 .. L
    BY <1>2
  <2> HIDE DEF state, L
  <2> QED
    BY <2>4, <2>7, <2>8
<1> HIDE DEF state
<1>5. \A k \in 0 .. L : state[k] \in S
  <2>1. \A k \in 1 .. L : state[k - 1] \in S => state[k] \in S
    BY <1>3, <1>4
  <2>2. state[0] \in S
    BY <1>2, <1>4
  <2> HIDE DEF L
  <2> QED
    BY <1>2, <2>1, <2>2, Stays
<1>6. \A k \in 1 .. L : Cut(state[k - 1].working, state[k].working)
  <2>1. \A k \in 1 .. L : k - 1 \in 0 .. L
    BY <1>2
  <2> QED
    BY <1>3, <1>4, <1>5, <2>1
<1>7. \A k \in 0 .. L : state[k].working \in Works(messages) /\ state[k].result \in Outcomes(messages)
  BY <1>5 DEF S, States
<1>8. state[0].working = messages
  BY <1>4 DEF start
<1> QED
  BY <1>1, <1>6, <1>7, <1>8 DEF Cut, OnlyCuts

\* Results follow their calls, and nothing is marked as cut.
Whole(messages) ==
    \A k \in 1 .. Len(messages) :
        /\ messages[k].size \in Nat /\ messages[k].kind # "head"
        /\ messages[k].kind = "results" => k > 1 /\ Compact!IsAssistant(messages[k - 1])

\* What is sent to be summarised, without the mark.
Body(w) == IF w # <<>> /\ Head(w).kind = "head" THEN Tail(w) ELSE w

\* compact.py, for every history, every sequence of answers and any number of retries:
\* only ends of the history are sent, and one that could not be summarised is kept.
LEMMA CompactionKeeps ==
  ASSUME NEW M, NEW messages \in Seq(M), messages # <<>>, Whole(messages),
         NEW retries \in Nat, NEW answers,
         \A k \in 1 .. (retries + 1) : answers[k].over \in Nat
  PROVE  Compact!CompactsOrKeeps(messages, answers, retries)
<1> DEFINE L == Len(messages)
           state == Compact!Attempts(messages, answers, retries)
           requests == Compact!Requests(messages, answers, retries)
           result == Compact!CompactConversation(messages, answers, retries)
           Fits(w) ==
               /\ Compact!IsSuffix(Body(w), messages)
               /\ w # messages => Body(w) # <<>> /\ ~Compact!IsAssistant(Head(w))
               /\ \A i \in DOMAIN w : w[i].kind = "results" => i > 1 /\ Compact!IsAssistant(w[i - 1])
           Cut(v, w) ==
               \/ w = v
               \/ \E s \in Replies(messages) :
                     /\ w = From(messages, s)
                     /\ \/ v = messages /\ s > 1
                        \/ \E t \in Replies(messages) : v = From(messages, t) /\ t <= s
<1>1. L \in Nat /\ L >= 1 /\ DOMAIN messages = 1 .. L
  <2>1. L \in Nat /\ L # 0
    OBVIOUS
  <2> QED
    BY <2>1
<1>2. \A k \in 1 .. L : messages[k].size \in Nat
  BY DEF Whole
<1>3. /\ state[0].working = messages
      /\ \A k \in 0 .. (retries + 1) :
             state[k].working \in Works(messages) /\ state[k].result \in Outcomes(messages)
      /\ \A k \in 1 .. (retries + 1) : Cut(state[k - 1].working, state[k].working)
  <2>1. OnlyCuts(messages, answers, retries)
    BY <1>2, AttemptsCut
  <2> QED
    BY <2>1 DEF OnlyCuts
<1> HIDE DEF state
<1>4. Body(messages) = messages
  <2>1. Head(messages) = messages[1] /\ messages[1].kind # "head"
    BY <1>1 DEF Whole
  <2> QED
    BY <2>1 DEF Body
<1>5. ASSUME NEW s \in Replies(messages)
      PROVE  /\ Body(From(messages, s)) = SubSeq(messages, s, L)
             /\ Len(Body(From(messages, s))) = L - s + 1
             /\ Fits(From(messages, s))
  <2> DEFINE w == From(messages, s)
             W == Len(w)
  <2>1. s \in 1 .. L /\ Compact!IsAssistant(messages[s])
    BY DEF Replies
  <2>2. /\ w \in Seq(M \cup {HeadMark}) /\ W = L - s + 2 /\ W \in Nat
        /\ w[1] = HeadMark /\ Head(w) = HeadMark
        /\ Tail(w) = SubSeq(messages, s, L)
        /\ \A i \in 2 .. W : w[i] = messages[s + i - 2] /\ s + i - 2 \in s .. L
    BY <2>1, FromFacts
  <2>3. HeadMark.kind = "head"
    BY DEF HeadMark, Compact!Message
  <2>4. W >= 2 /\ DOMAIN w = 1 .. W /\ w # <<>>
    <3>1. W >= 2
      BY <1>1, <2>1, <2>2
    <3> HIDE DEF w
    <3> QED
      BY <2>2, <3>1
  <2> HIDE DEF w
  <2>5. Body(w) = SubSeq(messages, s, L)
    BY <2>2, <2>3, <2>4 DEF Body
  <2> HIDE DEF L
  <2>6. Len(SubSeq(messages, s, L)) = L - s + 1 /\ L - s + 1 >= 1
    BY <1>1, <2>1 DEF L
  <2>7. Compact!IsSuffix(Body(w), messages)
    BY <2>1, <2>5, SuffixFacts DEF L
  <2>8. Body(w) # <<>> /\ ~Compact!IsAssistant(Head(w))
    <3>1. Len(<<>>) = 0
      OBVIOUS
    <3> DEFINE b == Body(w)
    <3> HIDE DEF b
    <3>3. Len(b) >= 1
      BY <2>5, <2>6 DEF b
    <3>4. b # <<>>
      BY <3>1, <3>3
    <3>2. Body(w) # <<>>
      BY <3>4 DEF b
    <3> QED
      BY <2>2, <2>3, <3>2 DEF Compact!IsAssistant
  <2>9. ASSUME NEW i \in DOMAIN w, w[i].kind = "results"
        PROVE  i > 1 /\ Compact!IsAssistant(w[i - 1])
    <3>1. i \in 1 .. W
      BY <2>4
    <3> HIDE DEF W
    <3>2. i # 1
      BY <2>2, <2>3, <2>9
    <3>3. i \in 2 .. W
      BY <2>2, <3>1, <3>2
    <3>4. w[i] = messages[s + i - 2] /\ s + i - 2 \in s .. L
      BY <2>2, <3>3
    <3>5. i # 2
      <4>1. ASSUME i = 2 PROVE s + i - 2 = s
        BY <2>1, <4>1
      <4> QED
        BY <2>1, <2>9, <3>4, <4>1 DEF Compact!IsAssistant
    <3>6. i - 1 \in 2 .. W /\ s + (i - 1) - 2 = (s + i - 2) - 1 /\ s + i - 2 \in 1 .. L
      <4>1. i \in Nat /\ s \in Nat /\ L \in Nat /\ s >= 1
        BY <1>1, <2>1, <3>3
      <4>2. i - 1 \in 2 .. W
        BY <2>2, <3>3, <3>5
      <4>3. s + (i - 1) - 2 = (s + i - 2) - 1
        BY <4>1
      <4>4. s + i - 2 \in 1 .. L
        BY <3>4, <4>1
      <4> QED
        BY <4>2, <4>3, <4>4
    <3>7. w[i - 1] = messages[(s + i - 2) - 1]
      BY <2>2, <3>6
    <3>8. messages[s + i - 2].kind = "results"
      BY <2>9, <3>4
    <3> DEFINE p == s + i - 2
    <3> HIDE DEF p
    <3>9. p \in 1 .. L /\ messages[p].kind = "results"
      BY <3>6, <3>8 DEF p
    <3>10. Compact!IsAssistant(messages[p - 1])
      BY <3>9 DEF Whole, L
    <3>11. w[i - 1] = messages[p - 1]
      <4>1. p = s + i - 2
        BY DEF p
      <4> QED
        BY <3>7, <4>1
    <3>12. i > 1
      BY <3>3
    <3> QED
      BY <3>10, <3>11, <3>12
  <2> QED
    BY <2>5, <2>6, <2>7, <2>8, <2>9 DEF w
<1>6. Fits(messages)
  <2>1. Compact!IsSuffix(messages, messages)
    BY DEF Compact!IsSuffix, Compact!IsPrefix
  <2>2. \A i \in DOMAIN messages :
           messages[i].kind = "results" => i > 1 /\ Compact!IsAssistant(messages[i - 1])
    BY <1>1 DEF Whole
  <2> QED
    BY <1>4, <2>1, <2>2
<1>7. \A w \in Works(messages) : Fits(w)
  BY <1>5, <1>6 DEF Works
<1>8. ASSUME NEW v, NEW w, Cut(v, w), w # v PROVE Len(Body(w)) < Len(Body(v))
  <2>1. PICK s \in Replies(messages) :
           /\ w = From(messages, s)
           /\ \/ v = messages /\ s > 1
              \/ \E t \in Replies(messages) : v = From(messages, t) /\ t <= s
    BY <1>8
  <2>2. s \in 1 .. L /\ Len(Body(w)) = L - s + 1
    BY <1>5, <2>1 DEF Replies
  <2>3. CASE v = messages /\ s > 1
    <3>1. Len(Body(v)) = L
      BY <1>4, <2>3
    <3> QED
      BY <1>1, <2>2, <2>3, <3>1
  <2>4. CASE \E t \in Replies(messages) : v = From(messages, t) /\ t <= s
    <3>1. PICK t \in Replies(messages) : v = From(messages, t) /\ t <= s
      BY <2>4
    <3>2. t \in 1 .. L /\ Len(Body(v)) = L - t + 1
      BY <1>5, <3>1 DEF Replies
    <3>3. t # s
      BY <1>8, <2>1, <3>1
    <3> HIDE DEF L
    <3> QED
      BY <1>1, <2>2, <3>1, <3>2, <3>3
  <2> QED
    BY <2>1, <2>3, <2>4
<1> HIDE DEF Fits, Cut
<1>9. requests = [k \in 1 .. (retries + 2) |-> state[k - 1].working]
  BY DEF Compact!Requests, state
<1>10. ASSUME NEW k \in DOMAIN requests
       PROVE  /\ Fits(requests[k])
              /\ k > 1 /\ requests[k] # requests[k - 1] =>
                    Len(Body(requests[k])) < Len(Body(requests[k - 1]))
  <2>1. k \in 1 .. (retries + 2) /\ k - 1 \in 0 .. (retries + 1)
    BY <1>9
  <2>2. requests[k] = state[k - 1].working
    BY <1>9, <2>1
  <2>3. Fits(requests[k])
    BY <1>3, <1>7, <2>1, <2>2
  <2>4. ASSUME k > 1
        PROVE  k - 1 \in 1 .. (retries + 1) /\ requests[k - 1] = state[(k - 1) - 1].working
    BY <1>9, <2>1, <2>4
  <2>5. k > 1 => Cut(requests[k - 1], requests[k])
    BY <1>3, <2>2, <2>4
  <2> HIDE DEF requests
  <2> QED
    BY <1>8, <2>3, <2>5
<1>11. Compact!RequestsAreTails(messages, requests)
  <2> HIDE DEF requests
  <2> QED
    BY <1>10 DEF Compact!RequestsAreTails, Fits, Body
<1>12. result.success \/ result.messages = messages
  <2>1. retries + 1 \in 0 .. (retries + 1)
    OBVIOUS
  <2> DEFINE end == state[retries + 1]
  <2>2. end.result \in Outcomes(messages)
    BY <1>3, <2>1
  <2> HIDE DEF end
  <2>3. result = IF end.result # <<>> THEN end.result[1]
                 ELSE IF end.text = "empty"
                      THEN Compact!FailWith(messages, end.working, "empty")
                      ELSE Compact!Summary(end.text)
    BY DEF Compact!CompactConversation, end, state
  <2> HIDE DEF result
  <2>4. CASE end.result # <<>>
    <3>1. PICK why : end.result = <<Compact!Failure(messages, why)>>
      BY <2>2, <2>4 DEF Outcomes
    <3>2. result = Compact!Failure(messages, why)
      BY <2>3, <2>4, <3>1
    <3> QED
      BY <3>2 DEF Compact!Failure
  <2>5. CASE end.result = <<>>
    BY <2>3, <2>5 DEF Compact!FailWith, Compact!Failure, Compact!Summary
  <2> QED
    BY <2>4, <2>5
<1> QED
  BY <1>11, <1>12 DEF Compact!CompactsOrKeeps

-----------------------------------------------------------------------------
(* Parts of a sequence.  What Selections picks by recursion is, element by *)
(* element, what is at the places in their order; two such selections are  *)
(* one if an order runs through the places of both.  The folds and the     *)
(* flattening of the community modules are taken apart the same way.       *)

\* at lists the n elements of T in their order.
Enumerates(at, n, T) ==
    /\ at \in [1 .. n -> T]
    /\ \A i, j \in 1 .. n : i < j => at[i] < at[j]
    /\ \A t \in T : \E i \in 1 .. n : at[i] = t

\* A set of numbers is listed in one way.
LEMMA EnumerationsAgree ==
  ASSUME NEW T \in SUBSET Nat, NEW n \in Nat, NEW m \in Nat, NEW a, NEW b,
         Enumerates(a, n, T), Enumerates(b, m, T)
  PROVE  n = m /\ \A i \in 1 .. n : a[i] = b[i]
<1>0. ASSUME NEW x \in Nat, NEW y \in Nat, NEW f, NEW g, Enumerates(f, x, T), Enumerates(g, y, T),
             NEW i \in 1 .. x, i <= y, \A j \in 1 .. x : j < i => f[j] = g[j]
      PROVE  ~(f[i] < g[i])
  <2>1. SUFFICES ASSUME f[i] < g[i] PROVE FALSE
    OBVIOUS
  <2>2. i \in 1 .. y /\ f[i] \in T
    BY <1>0 DEF Enumerates
  <2>3. PICK j \in 1 .. y : g[j] = f[i]
    BY <1>0, <2>2 DEF Enumerates
  <2>4. f[i] \in Nat /\ g[i] \in Nat /\ g[j] \in Nat
    BY <1>0, <2>2, <2>3 DEF Enumerates
  <2>5. CASE j < i
    <3>1. j \in 1 .. x /\ f[j] = g[j]
      BY <1>0, <2>5
    <3>2. f[j] < f[i]
      BY <1>0, <2>5, <3>1 DEF Enumerates
    <3> QED
      BY <2>3, <2>4, <3>1, <3>2
  <2>6. CASE i < j
    <3>1. g[i] < g[j]
      BY <1>0, <2>2, <2>3, <2>6 DEF Enumerates
    <3> QED
      BY <2>1, <2>3, <2>4, <3>1
  <2>7. CASE i = j
    BY <2>1, <2>3, <2>4, <2>7
  <2> QED
    BY <2>2, <2>5, <2>6, <2>7
<1>1. ASSUME NEW i \in 1 .. n, i <= m PROVE a[i] = b[i]
  <2> DEFINE D == {k \in 1 .. n : k <= m /\ a[k] # b[k]}
  <2>1. SUFFICES ASSUME D # {} PROVE FALSE
    BY <1>1
  <2>2. D \in SUBSET Nat
    OBVIOUS
  <2>3. PICK k \in D : \A j \in D : k <= j
    BY <2>1, <2>2, Least
  <2>4. k \in 1 .. n /\ k \in 1 .. m /\ k <= m /\ k <= n /\ a[k] # b[k]
    BY <2>3
  <2>5. (\A j \in 1 .. n : j < k => a[j] = b[j]) /\ (\A j \in 1 .. m : j < k => b[j] = a[j])
    BY <2>3, <2>4
  <2>6. ~(a[k] < b[k]) /\ ~(b[k] < a[k])
    BY <1>0, <2>4, <2>5
  <2>7. a[k] \in Nat /\ b[k] \in Nat
    BY <2>4 DEF Enumerates
  <2> QED
    BY <2>4, <2>6, <2>7
<1>2. ASSUME NEW x \in Nat, NEW y \in Nat, NEW f, NEW g, Enumerates(f, x, T), Enumerates(g, y, T),
             \A j \in 1 .. x : j <= y => f[j] = g[j]
      PROVE  ~(x < y)
  <2>1. SUFFICES ASSUME x < y PROVE FALSE
    OBVIOUS
  <2>2. x + 1 \in 1 .. y /\ g[x + 1] \in T
    BY <1>2, <2>1 DEF Enumerates
  <2>3. PICK j \in 1 .. x : f[j] = g[x + 1]
    BY <1>2, <2>2 DEF Enumerates
  <2>4. j \in 1 .. y /\ j <= y /\ j < x + 1
    BY <2>1
  <2>5. g[j] < g[x + 1] /\ g[j] \in Nat
    BY <1>2, <2>2, <2>4 DEF Enumerates
  <2> QED
    BY <1>2, <2>3, <2>4, <2>5
<1>3. \A i \in 1 .. m : i <= n => b[i] = a[i]
  <2>1. \A i \in 1 .. m : i <= n => i \in 1 .. n /\ i <= m
    OBVIOUS
  <2> QED
    BY <1>1, <2>1
<1>4. ~(n < m) /\ ~(m < n)
  BY <1>1, <1>2, <1>3
<1> QED
  BY <1>1, <1>4

\* A list of a set is as long as the set is large.
LEMMA EnumerationCounts ==
  ASSUME NEW T \in SUBSET Nat, NEW n \in Nat, NEW a, Enumerates(a, n, T)
  PROVE  IsFiniteSet(T) /\ Cardinality(T) = n
<1>1. a \in Bijection(1 .. n, T)
  <2>1. \A i, j \in 1 .. n : a[i] = a[j] => i = j
    <3>1. ASSUME NEW i \in 1 .. n, NEW j \in 1 .. n, a[i] = a[j] PROVE i = j
      <4>2. a[i] \in Nat /\ a[j] \in Nat
        BY DEF Enumerates
      <4>1. ~(i < j) /\ ~(j < i)
        BY <3>1, <4>2 DEF Enumerates
      <4> QED
        BY <4>1
    <3> QED
      BY <3>1
  <2> QED
    BY <2>1 DEF Enumerates, Bijection, Injection, Surjection, IsInjective
<1>2. IsFiniteSet(1 .. n) /\ Cardinality(1 .. n) = n
  BY FS_Interval
<1>3. ExistsBijection(1 .. n, T)
  BY <1>1 DEF ExistsBijection
<1> QED
  BY <1>2, <1>3, FS_Bijection

\* f has what is picked of the first elements of s, for each number of them.
Picks(f, V, s, T) ==
    /\ f \in [0 .. Len(s) -> Seq(V)]
    /\ f[0] = <<>> /\ f[Len(s)] = Picked(s, T)
    /\ \A k \in 1 .. Len(s) : f[k] = IF k \in T THEN Append(f[k - 1], s[k]) ELSE f[k - 1]

\* What is picked is picked element by element.
LEMMA PickedSteps ==
  ASSUME NEW V, NEW s \in Seq(V), NEW T
  PROVE  \E f : Picks(f, V, s, T)
<1> DEFINE L == Len(s)
           step == [k \in 1 .. L |-> [r \in Seq(V) |-> IF k \in T THEN Append(r, s[k]) ELSE r]]
           Eq(g) == g = [i \in 0 .. L |-> IF i = 0 THEN <<>>
                           ELSE IF i \in T THEN Append(g[i - 1], s[i]) ELSE g[i - 1]]
           taken == CHOOSE g : Eq(g)
<1>0. L \in Nat /\ <<>> \in Seq(V)
  OBVIOUS
<1>1. step \in [1 .. L -> [Seq(V) -> Seq(V)]]
  OBVIOUS
<1>2. PICK f : IsRecursive(f, Seq(V), <<>>, L, step)
  <2> HIDE DEF step, L
  <2> QED
    BY <1>0, <1>1, Recursion, Zenon
<1>3. /\ f \in [0 .. L -> Seq(V)] /\ f[0] = <<>>
      /\ \A k \in 1 .. L : f[k] = step[k][f[k - 1]]
  BY <1>2 DEF IsRecursive
<1>4. \A k \in 1 .. L : k - 1 \in 0 .. L /\ k \in 0 .. L /\ k # 0
  OBVIOUS
<1>5. \A k \in 1 .. L : f[k] = IF k \in T THEN Append(f[k - 1], s[k]) ELSE f[k - 1]
  <2>1. \A k \in 1 .. L : f[k - 1] \in Seq(V)
    BY <1>3, <1>4
  <2> QED
    BY <1>3, <2>1
<1>6. Eq(f)
  <2>1. \A k \in 0 .. L : k = 0 \/ k \in 1 .. L
    OBVIOUS
  <2>2. f = [k \in 0 .. L |-> f[k]]
    BY <1>3
  <2> HIDE DEF L, step
  <2> QED
    BY <1>3, <1>4, <1>5, <2>1, <2>2, Zenon
<1>7. Eq(taken)
  <2> HIDE DEF Eq
  <2> QED
    BY <1>6
<1>8. Picked(s, T) = taken[L]
  BY Zenon DEF Picked
<1> HIDE DEF taken
<1>9. \A k \in 0 .. L : k # 0 => k \in 1 .. L
  OBVIOUS
<1>10. taken[0] = <<>> /\ \A k \in 1 .. L : taken[k] = IF k \in T THEN Append(taken[k - 1], s[k]) ELSE taken[k - 1]
  <2>1. 0 \in 0 .. L
    OBVIOUS
  <2> HIDE DEF L
  <2> QED
    BY <1>4, <1>7, <2>1
<1>11. \A k \in 0 .. L : taken[k] \in Seq(V)
  <2>1. ASSUME NEW k \in 1 .. L, taken[k - 1] \in Seq(V) PROVE taken[k] \in Seq(V)
    <3>1. s[k] \in V
      OBVIOUS
    <3>2. Append(taken[k - 1], s[k]) \in Seq(V)
      BY <2>1, <3>1
    <3> QED
      BY <1>10, <2>1, <3>2
  <2>2. taken[0] \in Seq(V)
    BY <1>10
  <2> HIDE DEF L
  <2> QED
    BY <1>0, <2>1, <2>2, Stays
<1>12. taken \in [0 .. L -> Seq(V)]
  <2> HIDE DEF L
  <2>1. taken = [k \in 0 .. L |-> taken[k]]
    BY <1>7
  <2> QED
    BY <1>11, <2>1
<1>13. Picks(taken, V, s, T)
  <2> HIDE DEF L
  <2> QED
    BY <1>8, <1>10, <1>12 DEF Picks, L
<1> QED
  BY <1>13

\* What is picked is what is at these places, in their order.
LEMMA PickedAt ==
  ASSUME NEW V, NEW s \in Seq(V), NEW T \in SUBSET (1 .. Len(s))
  PROVE  /\ Picked(s, T) \in Seq(V)
         /\ \E at : /\ Enumerates(at, Len(Picked(s, T)), T)
                    /\ \A i \in 1 .. Len(Picked(s, T)) : Picked(s, T)[i] = s[at[i]]
<1> DEFINE L == Len(s)
           Upto(k) == {t \in T : t <= k}
           Lists(r, k) == \E at : /\ Enumerates(at, Len(r), Upto(k))
                                  /\ \A i \in 1 .. Len(r) : r[i] = s[at[i]]
<1>0. PICK f : Picks(f, V, s, T)
  BY PickedSteps, Zenon
<1>1. /\ f \in [0 .. L -> Seq(V)]
      /\ f[0] = <<>> /\ f[L] = Picked(s, T)
      /\ \A k \in 1 .. L : f[k] = IF k \in T THEN Append(f[k - 1], s[k]) ELSE f[k - 1]
  BY <1>0 DEF Picks
<1>2. L \in Nat
  OBVIOUS
<1>3. Lists(f[0], 0)
  <2>1. Upto(0) = {} /\ Len(f[0]) = 0
    <3>1. \A t \in T : ~(t <= 0)
      OBVIOUS
    <3> QED
      BY <1>1, <3>1
  <2>2. Enumerates(<<>>, 0, {})
    BY DEF Enumerates
  <2>3. Enumerates(<<>>, Len(f[0]), Upto(0))
    <3> HIDE DEF Upto
    <3> QED
      BY <2>1, <2>2
  <2>4. \A i \in 1 .. Len(f[0]) : f[0][i] = s[<<>>[i]]
    BY <2>1
  <2> QED
    BY <2>3, <2>4
<1>4. ASSUME NEW k \in 1 .. L, Lists(f[k - 1], k - 1) PROVE Lists(f[k], k)
  <2>0. k - 1 \in 0 .. L /\ f[k - 1] \in Seq(V) /\ Len(f[k - 1]) \in Nat
    BY <1>1
  <2>1. PICK at : /\ Enumerates(at, Len(f[k - 1]), Upto(k - 1))
                  /\ \A i \in 1 .. Len(f[k - 1]) : f[k - 1][i] = s[at[i]]
    BY <1>4
  <2> DEFINE n == Len(f[k - 1])
  <2>2. CASE k \notin T
    <3>1. Upto(k) = Upto(k - 1)
      <4>1. \A t \in T : t <= k <=> t <= k - 1
        BY <2>2
      <4> QED
        BY <4>1
    <3>2. f[k] = f[k - 1]
      BY <1>1, <2>2
    <3> HIDE DEF Upto
    <3> QED
      BY <2>1, <3>1, <3>2
  <2>3. CASE k \in T
    <3>1. Upto(k) = Upto(k - 1) \cup {k}
      <4>1. \A t \in T : t <= k <=> t <= k - 1 \/ t = k
        BY <2>3
      <4> QED
        BY <2>3, <4>1
    <3>2. f[k] = Append(f[k - 1], s[k])
      BY <1>1, <2>3
    <3>3. Len(f[k]) = n + 1 /\ f[k][n + 1] = s[k] /\ \A i \in 1 .. n : f[k][i] = f[k - 1][i]
      BY <2>0, <3>2
    <3> DEFINE a == [i \in 1 .. (n + 1) |-> IF i = n + 1 THEN k ELSE at[i]]
    <3>9. \A t \in Upto(k - 1) : t \in Nat /\ t < k
      OBVIOUS
    <3>10. n \in Nat
      BY <2>0
    <3> HIDE DEF Upto, n
    <3>4. \A i \in 1 .. n : i \in 1 .. (n + 1) /\ i # n + 1 /\ a[i] = at[i] /\ at[i] \in Upto(k - 1)
      <4>1. \A i \in 1 .. n : i \in 1 .. (n + 1) /\ i # n + 1
        BY <3>10
      <4>2. at \in [1 .. n -> Upto(k - 1)]
        BY <2>1 DEF Enumerates, n
      <4> QED
        BY <4>1, <4>2
    <3>11. n + 1 \in 1 .. (n + 1) /\ a[n + 1] = k
      BY <3>10
    <3>12. \A i \in 1 .. (n + 1) : i \in 1 .. n \/ i = n + 1
      BY <3>10
    <3> HIDE DEF a
    <3>5. a \in [1 .. (n + 1) -> Upto(k)]
      <4>1. a = [i \in 1 .. (n + 1) |-> a[i]]
        BY DEF a
      <4>2. \A i \in 1 .. (n + 1) : a[i] \in Upto(k)
        BY <3>1, <3>4, <3>11, <3>12
      <4> QED
        BY <4>1, <4>2
    <3>6. ASSUME NEW i \in 1 .. (n + 1), NEW j \in 1 .. (n + 1), i < j PROVE a[i] < a[j]
      <4>1. i \in 1 .. n
        BY <3>6, <3>10
      <4>2. CASE j \in 1 .. n
        BY <2>1, <3>4, <3>6, <4>1, <4>2 DEF Enumerates, n
      <4>3. CASE j = n + 1
        BY <3>4, <3>9, <3>11, <4>1, <4>3
      <4> QED
        BY <3>12, <4>2, <4>3
    <3>7. ASSUME NEW t \in Upto(k) PROVE \E i \in 1 .. (n + 1) : a[i] = t
      <4>1. CASE t \in Upto(k - 1)
        <5>1. PICK i \in 1 .. n : at[i] = t
          BY <2>1, <4>1 DEF Enumerates, n
        <5> QED
          BY <3>4, <5>1
      <4>2. CASE t = k
        BY <3>11, <4>2
      <4> QED
        BY <3>1, <4>1, <4>2
    <3>8. Enumerates(a, Len(f[k]), Upto(k))
      BY <3>3, <3>5, <3>6, <3>7 DEF Enumerates, n
    <3>13. \A i \in 1 .. Len(f[k]) : f[k][i] = s[a[i]]
      <4>1. \A i \in 1 .. n : f[k][i] = s[at[i]]
        BY <2>1, <3>3 DEF n
      <4>2. Len(f[k]) = n + 1 /\ f[k][n + 1] = s[k]
        BY <3>3 DEF n
      <4> QED
        BY <3>4, <3>11, <3>12, <4>1, <4>2
    <3> QED
      BY <3>8, <3>13
  <2> QED
    BY <2>2, <2>3
<1>5. \A k \in 0 .. L : Lists(f[k], k)
  <2> DEFINE g == [k \in 0 .. L |-> <<f[k], k>>]
             S == {x \in Seq(V) \X (0 .. L) : Lists(x[1], x[2])}
  <2>1. \A k \in 0 .. L : g[k] \in S <=> Lists(f[k], k)
    BY <1>1
  <2>2. 0 \in 0 .. L /\ \A k \in 1 .. L : k - 1 \in 0 .. L /\ k \in 0 .. L
    OBVIOUS
  <2> HIDE DEF Lists, g, S, L
  <2>3. g[0] \in S /\ \A k \in 1 .. L : g[k - 1] \in S => g[k] \in S
    BY <1>3, <1>4, <2>1, <2>2
  <2> QED
    BY <1>2, <2>1, <2>3, Stays
<1>6. Upto(L) = T
  <2>1. \A t \in T : t <= L
    OBVIOUS
  <2> QED
    BY <2>1
<1>7. L \in 0 .. L
  OBVIOUS
<1>8. Lists(Picked(s, T), L)
  <2> HIDE DEF Lists, L
  <2> QED
    BY <1>1, <1>5, <1>7
<1>9. Picked(s, T) \in Seq(V)
  BY <1>1, <1>7
<1> QED
  BY <1>6, <1>8, <1>9

\* m goes through the places T of s and U of t in one order, and finds the same.
Matches(m, s, T, t, U) ==
    /\ m \in [T -> U]
    /\ \A i, j \in T : i < j => m[i] < m[j]
    /\ \A u \in U : \E i \in T : m[i] = u
    /\ \A i \in T : t[m[i]] = s[i]

\* Two sequences have the same selection if one order runs through both.
LEMMA PickedAgree ==
  ASSUME NEW V, NEW s \in Seq(V), NEW t \in Seq(V),
         NEW T \in SUBSET (1 .. Len(s)), NEW U \in SUBSET (1 .. Len(t)), NEW m,
         Matches(m, s, T, t, U)
  PROVE  Picked(s, T) = Picked(t, U)
<1>0. /\ m \in [T -> U]
      /\ \A i, j \in T : i < j => m[i] < m[j]
      /\ \A u \in U : \E i \in T : m[i] = u
      /\ \A i \in T : t[m[i]] = s[i]
  BY DEF Matches
<1> DEFINE p == Picked(s, T)
           q == Picked(t, U)
<1>1. p \in Seq(V) /\ q \in Seq(V)
  BY PickedAt
<1>2. PICK a : Enumerates(a, Len(p), T) /\ \A i \in 1 .. Len(p) : p[i] = s[a[i]]
  BY PickedAt
<1>3. PICK b : Enumerates(b, Len(q), U) /\ \A i \in 1 .. Len(q) : q[i] = t[b[i]]
  BY PickedAt
<1> HIDE DEF p, q
<1> DEFINE n == Len(p)
           c == [i \in 1 .. n |-> m[a[i]]]
<1>4. n \in Nat /\ Len(q) \in Nat
  BY <1>1
<1> HIDE DEF n
<1>5. Enumerates(c, n, U)
  <2>0. a \in [1 .. n -> T] /\ \A i \in 1 .. n : a[i] \in T /\ c[i] = m[a[i]]
    BY <1>2 DEF Enumerates, n
  <2>1. c \in [1 .. n -> U]
    BY <1>0, <2>0
  <2>2. ASSUME NEW i \in 1 .. n, NEW j \in 1 .. n, i < j PROVE c[i] < c[j]
    <3>1. a[i] < a[j]
      BY <1>2, <2>2 DEF Enumerates, n
    <3> QED
      BY <1>0, <2>0, <3>1
  <2>3. ASSUME NEW u \in U PROVE \E i \in 1 .. n : c[i] = u
    <3>1. PICK k \in T : m[k] = u
      BY <1>0
    <3>2. PICK i \in 1 .. n : a[i] = k
      BY <1>2 DEF Enumerates, n
    <3> QED
      BY <2>0, <3>1, <3>2
  <2> HIDE DEF c
  <2> QED
    BY <2>1, <2>2, <2>3 DEF Enumerates
<1>6. U \in SUBSET Nat
  OBVIOUS
<1>7. n = Len(q) /\ \A i \in 1 .. n : c[i] = b[i]
  <2> HIDE DEF c
  <2> QED
    BY <1>3, <1>4, <1>5, <1>6, EnumerationsAgree
<1>8. \A i \in 1 .. n : p[i] = q[i]
  <2>1. ASSUME NEW i \in 1 .. n PROVE p[i] = q[i]
    <3>1. p[i] = s[a[i]] /\ a[i] \in T
      BY <1>2 DEF Enumerates, n
    <3>2. q[i] = t[b[i]] /\ b[i] = m[a[i]]
      BY <1>3, <1>7
    <3> QED
      BY <1>0, <3>1, <3>2
  <2> QED
    BY <2>1
<1>9. p = [i \in 1 .. n |-> p[i]] /\ q = [i \in 1 .. n |-> q[i]]
  BY <1>1, <1>7 DEF n
<1>10. p = q
  BY <1>8, <1>9, Zenon
<1> QED
  BY <1>10 DEF p, q

\* As many are picked as there are places.
LEMMA PickedCount ==
  ASSUME NEW V, NEW s \in Seq(V), NEW T \in SUBSET (1 .. Len(s))
  PROVE  /\ Picked(s, T) \in Seq(V) /\ Len(Picked(s, T)) = Cardinality(T)
         /\ IsFiniteSet(T)
<1>1. PICK at : Enumerates(at, Len(Picked(s, T)), T)
  BY PickedAt
<1>2. Picked(s, T) \in Seq(V) /\ T \in SUBSET Nat
  BY PickedAt
<1>3. Len(Picked(s, T)) \in Nat
  BY <1>2
<1> QED
  BY <1>1, <1>2, <1>3, EnumerationCounts

\* f has the first sequences of s as one, for each number of them.
Flattens(f, V, s) ==
    /\ f \in [0 .. Len(s) -> Seq(V)]
    /\ f[0] = <<>> /\ f[Len(s)] = FlattenSeq(s)
    /\ \A k \in 1 .. Len(s) : f[k] = f[k - 1] \o s[k]

\* Sequences are strung together one after the other.
LEMMA FlattenSteps ==
  ASSUME NEW V, NEW s \in Seq(Seq(V))
  PROVE  \E f : Flattens(f, V, s)
<1> DEFINE L == Len(s)
           step == [k \in 1 .. L |-> [r \in Seq(V) |-> r \o s[k]]]
           Eq(g) == g = [i \in 1 .. L |-> IF i = 1 THEN s[i] ELSE g[i - 1] \o s[i]]
           flatten == CHOOSE g : Eq(g)
<1>0. L \in Nat /\ <<>> \in Seq(V) /\ \A k \in 1 .. L : s[k] \in Seq(V)
  OBVIOUS
<1>1. step \in [1 .. L -> [Seq(V) -> Seq(V)]]
  <2>1. \A k \in 1 .. L : \A r \in Seq(V) : r \o s[k] \in Seq(V)
    BY <1>0
  <2> QED
    BY <2>1
<1>2. PICK f : IsRecursive(f, Seq(V), <<>>, L, step)
  <2> HIDE DEF step, L
  <2> QED
    BY <1>0, <1>1, Recursion, Zenon
<1>3. /\ f \in [0 .. L -> Seq(V)] /\ f[0] = <<>>
      /\ \A k \in 1 .. L : f[k] = step[k][f[k - 1]]
  BY <1>2 DEF IsRecursive
<1>4. \A k \in 1 .. L : k - 1 \in 0 .. L /\ k \in 0 .. L /\ (k # 1 => k - 1 \in 1 .. L)
  OBVIOUS
<1>5. \A k \in 1 .. L : f[k] = f[k - 1] \o s[k] /\ f[k - 1] \in Seq(V)
  BY <1>3, <1>4
<1> HIDE DEF step
<1> DEFINE h == [i \in 1 .. L |-> f[i]]
<1>6. Eq(h)
  <2>1. ASSUME NEW i \in 1 .. L PROVE h[i] = IF i = 1 THEN s[i] ELSE h[i - 1] \o s[i]
    <3>1. CASE i = 1
      <4>0. i - 1 = 0
        BY <3>1
      <4>1. f[i] = f[i - 1] \o s[i]
        BY <1>5
      <4>2. <<>> \o s[i] = s[i]
        BY <1>0
      <4> QED
        BY <1>3, <3>1, <4>0, <4>1, <4>2
    <3>2. CASE i # 1
      BY <1>4, <1>5, <3>2
    <3> QED
      BY <3>1, <3>2
  <2>2. h = [i \in 1 .. L |-> h[i]]
    OBVIOUS
  <2> HIDE DEF h, L
  <2> QED
    BY <2>1, <2>2, Zenon
<1>7. Eq(flatten)
  <2> HIDE DEF Eq, h
  <2> QED
    BY <1>6
<1>8. ASSUME L # 0 PROVE FlattenSeq(s) = flatten[L]
  BY <1>8, Zenon DEF FlattenSeq
<1>9. ASSUME L = 0 PROVE FlattenSeq(s) = <<>>
  <2>1. s = <<>>
    BY <1>9
  <2> QED
    BY <1>9, <2>1, Zenon DEF FlattenSeq
<1> HIDE DEF flatten
<1>10. \A k \in 1 .. L : flatten[k] = IF k = 1 THEN s[k] ELSE flatten[k - 1] \o s[k]
  <2> HIDE DEF L
  <2> QED
    BY <1>7
<1>11. \A k \in 0 .. L : k # 0 => flatten[k] = f[k]
  <2> DEFINE S == {k \in 0 .. L : k # 0 => flatten[k] = f[k]}
             g == [k \in 0 .. L |-> k]
  <2>1. g[0] \in S
    BY <1>0
  <2>2. ASSUME NEW k \in 1 .. L, g[k - 1] \in S PROVE g[k] \in S
    <3>1. k # 1 => flatten[k - 1] = f[k - 1]
      BY <1>4, <2>2
    <3>2. k = 1 => f[k] = s[k]
      <4>1. ASSUME k = 1 PROVE f[k] = s[k]
        <5>0. k - 1 = 0
          BY <4>1
        <5>1. f[k] = f[k - 1] \o s[k]
          BY <1>5
        <5>2. <<>> \o s[k] = s[k]
          BY <1>0
        <5> QED
          BY <1>3, <5>0, <5>1, <5>2
      <4> QED
        BY <4>1
    <3>3. flatten[k] = f[k]
      BY <1>5, <1>10, <3>1, <3>2
    <3> QED
      BY <1>4, <3>3
  <2>3. \A k \in 0 .. L : g[k] \in S => (k # 0 => flatten[k] = f[k])
    OBVIOUS
  <2> HIDE DEF g, S, L
  <2> QED
    BY <1>0, <2>1, <2>2, <2>3, Stays
<1>12. f[L] = FlattenSeq(s)
  <2>1. L \in 0 .. L
    BY <1>0
  <2> HIDE DEF L
  <2> QED
    BY <1>3, <1>8, <1>9, <1>11, <2>1
<1>13. Flattens(f, V, s)
  BY <1>3, <1>5, <1>12 DEF Flattens
<1> QED
  BY <1>13

LEMMA OneElement ==
  ASSUME NEW V, NEW y \in Seq(V), Len(y) = 1
  PROVE  y = <<y[1]>> /\ y[1] \in V
<1>1. 1 \in 1 .. Len(y)
  OBVIOUS
<1> QED
  BY <1>1

\* A sequence of sequences with one element or none comes to those with one.
LEMMA FlattenAt ==
  ASSUME NEW V, NEW s \in Seq(Seq(V)), \A k \in 1 .. Len(s) : Len(s[k]) \in {0, 1}
  PROVE  /\ FlattenSeq(s) \in Seq(V)
         /\ \E at : /\ Enumerates(at, Len(FlattenSeq(s)), {k \in 1 .. Len(s) : Len(s[k]) = 1})
                    /\ \A i \in 1 .. Len(FlattenSeq(s)) : FlattenSeq(s)[i] = s[at[i]][1]
<1> DEFINE L == Len(s)
           T == {k \in 1 .. L : Len(s[k]) = 1}
           h == [k \in 1 .. L |-> s[k][1]]
           W == V \cup {h[k] : k \in 1 .. L}
<1>0. L \in Nat /\ \A k \in 1 .. L : s[k] \in Seq(V)
  OBVIOUS
<1>1. h \in Seq(W) /\ Len(h) = L
  <2>1. h \in [1 .. L -> W]
    OBVIOUS
  <2> HIDE DEF h, W, L
  <2> QED
    BY <1>0, <2>1
<1>11. PICK f : Flattens(f, V, s)
  BY FlattenSteps, Zenon
<1>2. /\ f \in [0 .. L -> Seq(V)] /\ f[0] = <<>> /\ f[L] = FlattenSeq(s)
      /\ \A k \in 1 .. L : f[k] = f[k - 1] \o s[k]
  BY <1>11 DEF Flattens
<1>12. PICK g : Picks(g, W, h, T)
  <2> HIDE DEF h, W, T, L
  <2> QED
    BY <1>1, PickedSteps, Zenon
<1>3. /\ g \in [0 .. L -> Seq(W)] /\ g[0] = <<>> /\ g[L] = Picked(h, T)
      /\ \A k \in 1 .. L : g[k] = IF k \in T THEN Append(g[k - 1], h[k]) ELSE g[k - 1]
  <2> HIDE DEF h, W, T, L
  <2> QED
    BY <1>1, <1>12 DEF Picks
<1>4. ASSUME NEW k \in 1 .. L, f[k - 1] = g[k - 1] PROVE f[k] = g[k]
  <2>1. k - 1 \in 0 .. L /\ s[k] \in Seq(V)
    BY <1>0
  <2>2. f[k - 1] \in Seq(V) /\ f[k] = f[k - 1] \o s[k]
    BY <1>2, <2>1
  <2>3. CASE k \in T
    <3>1. Len(s[k]) = 1 /\ h[k] = s[k][1]
      BY <2>3
    <3> DEFINE x == f[k - 1]
               y == s[k]
    <3> HIDE DEF x, y
    <3>2. x \in Seq(V) /\ y \in Seq(V) /\ Len(y) = 1
      BY <2>1, <2>2, <3>1 DEF x, y
    <3>5. y = <<y[1]>> /\ y[1] \in V
      BY <3>2, OneElement
    <3>6. ASSUME NEW z \in V PROVE x \o <<z>> = Append(x, z)
      BY <3>2
    <3>3. x \o y = Append(x, y[1])
      BY <3>5, <3>6
    <3>4. g[k] = Append(g[k - 1], h[k])
      BY <1>3, <2>3
    <3> QED
      BY <1>4, <2>2, <3>1, <3>3, <3>4 DEF x, y
  <2>4. CASE k \notin T
    <3>1. Len(s[k]) = 0
      BY <2>4
    <3>2. s[k] = <<>>
      BY <2>1, <3>1
    <3>3. f[k - 1] \o <<>> = f[k - 1]
      BY <2>2
    <3>4. g[k] = g[k - 1]
      BY <1>3, <2>4
    <3> QED
      BY <1>4, <2>2, <3>2, <3>3, <3>4
  <2> QED
    BY <2>3, <2>4
<1>5. \A k \in 0 .. L : f[k] = g[k]
  <2> DEFINE S == {k \in 0 .. L : f[k] = g[k]}
             n == [k \in 0 .. L |-> k]
  <2>1. (\A k \in 0 .. L : n[k] \in S <=> f[k] = g[k]) /\ 0 \in 0 .. L
    BY <1>0
  <2>2. \A k \in 1 .. L : k - 1 \in 0 .. L /\ k \in 0 .. L
    OBVIOUS
  <2> HIDE DEF S, n, L
  <2>3. n[0] \in S /\ \A k \in 1 .. L : n[k - 1] \in S => n[k] \in S
    BY <1>2, <1>3, <1>4, <2>1, <2>2
  <2> QED
    BY <1>0, <2>1, <2>3, Stays
<1>6. FlattenSeq(s) = Picked(h, T) /\ FlattenSeq(s) \in Seq(V)
  <2>1. L \in 0 .. L
    BY <1>0
  <2> HIDE DEF L
  <2> QED
    BY <1>2, <1>3, <1>5, <2>1
<1>7. T \in SUBSET (1 .. Len(h))
  BY <1>1
<1>8. PICK at : /\ Enumerates(at, Len(Picked(h, T)), T)
                /\ \A i \in 1 .. Len(Picked(h, T)) : Picked(h, T)[i] = h[at[i]]
  <2> HIDE DEF h, W, T
  <2> QED
    BY <1>1, <1>7, PickedAt
<1>9. \A i \in 1 .. Len(Picked(h, T)) : at[i] \in 1 .. L /\ h[at[i]] = s[at[i]][1]
  <2>1. \A i \in 1 .. Len(Picked(h, T)) : at[i] \in T
    BY <1>8 DEF Enumerates
  <2> QED
    BY <2>1
<1> HIDE DEF h
<1>10. /\ Enumerates(at, Len(FlattenSeq(s)), T)
       /\ \A i \in 1 .. Len(FlattenSeq(s)) : FlattenSeq(s)[i] = s[at[i]][1]
  <2> HIDE DEF T, L
  <2> QED
    BY <1>6, <1>8, <1>9
<1> QED
  BY <1>6, <1>10

\* FoldLeft is defined by recursion over sets of positions, from the greatest one down.

Greatest(T) == CHOOSE x \in T : \A y \in T : x >= y

\* A set of positions has a greatest one.
LEMMA GreatestIs ==
  ASSUME NEW L \in Nat, NEW T \in SUBSET (1 .. L), T # {}
  PROVE  Greatest(T) \in T /\ \A y \in T : Greatest(T) >= y
<1> DEFINE S == {L - x : x \in T}
<1>1. S \in SUBSET Nat /\ S # {}
  <2>1. \A x \in T : L - x \in Nat
    OBVIOUS
  <2> QED
    BY <2>1
<1>2. PICK m \in S : \A n \in S : m <= n
  BY <1>1, Least
<1>3. PICK x \in T : m = L - x
  BY <1>2
<1>4. \A y \in T : L - y \in S
  OBVIOUS
<1>5. \A y \in T : x >= y
  <2>1. ASSUME NEW y \in T PROVE x >= y
    <3>1. m <= L - y
      BY <1>2, <1>4
    <3>2. x \in Nat /\ y \in Nat
      OBVIOUS
    <3> QED
      BY <1>3, <3>1, <3>2
  <2> QED
    BY <2>1
<1> QED
  BY <1>5 DEF Greatest

LEMMA GreatestOf ==
  ASSUME NEW L \in Nat, NEW T \in SUBSET (1 .. L), NEW m \in T, \A y \in T : y <= m
  PROVE  Greatest(T) = m
<1>1. Greatest(T) \in T /\ Greatest(T) >= m
  BY GreatestIs
<1>2. Greatest(T) <= m /\ m \in Nat /\ Greatest(T) \in Nat
  <2>1. \A y \in T : y \in Nat
    OBVIOUS
  <2> QED
    BY <1>1, <2>1
<1> QED
  BY <1>1, <1>2

\* h folds the steps over each set of positions up to L.
IsFold(h, V, start, L, step) ==
    /\ h \in [SUBSET (1 .. L) -> V]
    /\ \A T \in SUBSET (1 .. L) :
           h[T] = IF T = {} THEN start ELSE step[Greatest(T)][h[T \ {Greatest(T)}]]

\* There is a fold.
LEMMA FoldExists ==
  ASSUME NEW V, NEW start \in V, NEW L \in Nat, NEW step \in [1 .. L -> [V -> V]]
  PROVE  \E h : IsFold(h, V, start, L, step)
<1> DEFINE M == {m \in Nat : m <= L => \E h : IsFold(h, V, start, m, step)}
<1>1. 0 \in M
  <2> DEFINE h == [T \in SUBSET (1 .. 0) |-> start]
  <2>1. \A T \in SUBSET (1 .. 0) : T = {}
    OBVIOUS
  <2>2. IsFold(h, V, start, 0, step)
    BY <2>1 DEF IsFold
  <2> HIDE DEF h
  <2> QED
    BY <2>2
<1>2. ASSUME NEW m \in M PROVE m + 1 \in M
  <2>0. m \in Nat /\ m + 1 \in Nat
    OBVIOUS
  <2>1. SUFFICES ASSUME m + 1 <= L PROVE \E h : IsFold(h, V, start, m + 1, step)
    BY <2>0
  <2>2. PICK h : IsFold(h, V, start, m, step)
    BY <2>0, <2>1
  <2> DEFINE g == [T \in SUBSET (1 .. (m + 1)) |->
                     IF m + 1 \in T THEN step[m + 1][h[T \ {m + 1}]] ELSE h[T]]
  <2> HIDE DEF M
  <2>3. ASSUME NEW T \in SUBSET (1 .. (m + 1)), m + 1 \notin T
        PROVE  /\ T \in SUBSET (1 .. m) /\ g[T] = h[T] /\ g[T] \in V
               /\ g[T] = IF T = {} THEN start ELSE step[Greatest(T)][g[T \ {Greatest(T)}]]
    <3>1. T \in SUBSET (1 .. m)
      BY <2>0, <2>3
    <3>2. g[T] = h[T]
      BY <2>3
    <3>3. h[T] \in V
      BY <2>2, <3>1 DEF IsFold
    <3>4. T \ {Greatest(T)} \in SUBSET (1 .. (m + 1)) /\ m + 1 \notin T \ {Greatest(T)}
      BY <2>3
    <3>5. g[T \ {Greatest(T)}] = h[T \ {Greatest(T)}]
      BY <3>4
    <3> HIDE DEF g
    <3> QED
      BY <2>2, <3>1, <3>2, <3>3, <3>5 DEF IsFold
  <2>4. ASSUME NEW T \in SUBSET (1 .. (m + 1)), m + 1 \in T
        PROVE  /\ g[T] \in V
               /\ g[T] = IF T = {} THEN start ELSE step[Greatest(T)][g[T \ {Greatest(T)}]]
    <3>1. Greatest(T) = m + 1
      <4>1. \A y \in T : y <= m + 1
        BY <2>0
      <4> QED
        BY <2>0, <2>4, <4>1, GreatestOf
    <3>2. T \ {m + 1} \in SUBSET (1 .. (m + 1)) /\ m + 1 \notin T \ {m + 1}
      OBVIOUS
    <3>3. g[T \ {m + 1}] = h[T \ {m + 1}] /\ g[T \ {m + 1}] \in V
      BY <2>3, <3>2
    <3>4. g[T] = step[m + 1][h[T \ {m + 1}]]
      BY <2>4
    <3>5. m + 1 \in 1 .. L
      BY <2>0, <2>1
    <3> HIDE DEF g
    <3>6. g[T] \in V
      BY <3>3, <3>4, <3>5
    <3> QED
      BY <2>4, <3>1, <3>3, <3>4, <3>6
  <2>5. IsFold(g, V, start, m + 1, step)
    <3>1. g = [T \in SUBSET (1 .. (m + 1)) |-> g[T]]
      OBVIOUS
    <3> HIDE DEF g
    <3>2. \A T \in SUBSET (1 .. (m + 1)) :
             g[T] \in V /\ g[T] = IF T = {} THEN start ELSE step[Greatest(T)][g[T \ {Greatest(T)}]]
      BY <2>3, <2>4
    <3>3. g \in [SUBSET (1 .. (m + 1)) -> V]
      BY <3>1, <3>2
    <3> QED
      BY <3>2, <3>3 DEF IsFold
  <2> HIDE DEF g
  <2> QED
    BY <2>5
<1>3. L \in M
  <2>1. M \in SUBSET Nat
    OBVIOUS
  <2> HIDE DEF M
  <2> QED
    BY <1>1, <1>2, <2>1, SetInduction
<1> QED
  BY <1>3

\* The sets of positions that a fold over a whole sequence goes through.
LEMMA Segments ==
  ASSUME NEW L \in Nat, NEW k \in 1 .. L
  PROVE  /\ 1 .. k \in SUBSET (1 .. L) /\ 1 .. k # {} /\ Greatest(1 .. k) = k
         /\ (1 .. k) \ {k} = 1 .. (k - 1) /\ 1 .. (k - 1) \in SUBSET (1 .. L)
<1>1. 1 .. k \in SUBSET (1 .. L) /\ k \in 1 .. k /\ k - 1 \in Nat
  OBVIOUS
<1>2. Greatest(1 .. k) = k
  <2>1. \A y \in 1 .. k : y <= k
    OBVIOUS
  <2> QED
    BY <1>1, <2>1, GreatestOf
<1>3. (1 .. k) \ {k} = 1 .. (k - 1)
  <2>1. \A i : i \in 1 .. k /\ i # k <=> i \in 1 .. (k - 1)
    OBVIOUS
  <2> QED
    BY <2>1
<1> QED
  BY <1>1, <1>2, <1>3

\* Recursions with the same steps go the same way.
LEMMA RecursionsAgree ==
  ASSUME NEW V, NEW start \in V, NEW L \in Nat, NEW M \in Nat, M <= L, NEW step, NEW other,
         NEW f, NEW g, IsRecursive(f, V, start, L, step), IsRecursive(g, V, start, M, other),
         \A k \in 1 .. M : \A v \in V : step[k][v] = other[k][v]
  PROVE  \A k \in 0 .. M : f[k] = g[k]
<1> DEFINE S == {k \in 0 .. M : f[k] = g[k]}
           n == [k \in 0 .. M |-> k]
<1>1. (\A k \in 0 .. M : n[k] \in S <=> f[k] = g[k]) /\ 0 \in 0 .. M
  OBVIOUS
<1>2. \A k \in 1 .. M : k - 1 \in 0 .. M /\ k \in 0 .. M /\ k \in 1 .. L
  OBVIOUS
<1>3. ASSUME NEW k \in 1 .. M, f[k - 1] = g[k - 1] PROVE f[k] = g[k]
  <2>1. g[k - 1] \in V
    BY <1>2 DEF IsRecursive
  <2>2. f[k] = step[k][f[k - 1]] /\ g[k] = other[k][g[k - 1]]
    BY <1>2 DEF IsRecursive
  <2> QED
    BY <1>3, <2>1, <2>2
<1> HIDE DEF S, n
<1>4. n[0] \in S
  BY <1>1 DEF IsRecursive
<1>5. \A k \in 1 .. M : n[k - 1] \in S => n[k] \in S
  BY <1>1, <1>2, <1>3
<1> QED
  BY <1>1, <1>4, <1>5, Stays

-----------------------------------------------------------------------------
(* How a sub-agent gets its tools and its conversation.                    *)

\* agent_tool_utils.py: whatever a definition asks for, the tools are of those left to it.
LEMMA ToolsKept ==
  ASSUME NEW tools, NEW disallowed, NEW available, NEW async \in BOOLEAN, NEW planMode \in BOOLEAN
  PROVE  Setup!SubAgentsKeepToTheirTools(tools, disallowed, available, async, planMode)
<1> DEFINE got == Setup!ResolveAgentTools(tools, disallowed, available, async, planMode)
<1>1. ASSUME NEW t \in got
      PROVE  /\ t \in available /\ t \notin disallowed
             /\ Setup!ToolAllowed(t, async, planMode)
             /\ tools # <<>> /\ tools[1] # {"*"} => t \in tools[1] \ {"Agent"}
  BY <1>1 DEF Setup!ResolveAgentTools
<1>2. ASSUME NEW t, Setup!ToolAllowed(t, async, planMode)
      PROVE  /\ t # "Agent"
             /\ async => t \in Setup!AsyncAllowed \cup Setup!McpTools \cup
                                  (IF planMode THEN {"ExitPlanMode"} ELSE {})
  BY <1>2 DEF Setup!ToolAllowed, Setup!Denied, Setup!AsyncAllowed, Setup!TeammateAllowed,
              Setup!McpTools
<1> HIDE DEF got
<1>3. /\ got \subseteq available \ disallowed /\ "Agent" \notin got
      /\ async => got \subseteq Setup!AsyncAllowed \cup Setup!McpTools \cup
                                  (IF planMode THEN {"ExitPlanMode"} ELSE {})
      /\ tools # <<>> /\ tools[1] # {"*"} => got \subseteq tools[1]
  BY <1>1, <1>2
<1> QED
  BY <1>3, Zenon DEF Setup!SubAgentsKeepToTheirTools, got

\* An instance has its own copies of the operators of the library.
LEMMA SetupPicks == \A s, T : Setup!Picked(s, T) = Picked(s, T)
  BY DEF Setup!Picked, Picked

LEMMA SetupCardinality == \A T : Setup!Cardinality(T) = Cardinality(T)
  BY DEF Setup!Cardinality, Cardinality

\* What an inherited conversation may look like: results are of earlier calls, and
\* a call is made once.
Orderly(context) ==
    /\ \A i \in DOMAIN context : context[i].uses = {} \/ context[i].results = {}
    /\ \A i \in DOMAIN context : \A x \in context[i].results :
           \E j \in DOMAIN context : j < i /\ x \in context[j].uses
    /\ \A i, j \in DOMAIN context : j < i => context[i].uses \cap context[j].uses = {}

\* A result comes after its call, so a reply that is kept, as all its calls have results,
\* is followed by them, and messages with results are all kept.
LEMMA CallsAnswered ==
  ASSUME NEW M, NEW context \in Seq(M), Orderly(context), NEW calls
  PROVE  Setup!InheritedCallsAreAnswered(context, Setup!Reply(calls))
<1> DEFINE L == Len(context)
           answered == UNION {context[i].results : i \in DOMAIN context}
           T == {i \in DOMAIN context : ~Setup!HasIncomplete(context[i], answered)}
           kept == Setup!FilterIncomplete(context)
           reply == Setup!Reply(calls)
           prompt == Setup!ForkedMessages(reply)
           all == kept \o prompt
           n == Len(kept)
<1>1. L \in Nat /\ DOMAIN context = 1 .. L
  OBVIOUS
<1>2. T \in SUBSET (1 .. Len(context)) /\ \A i \in DOMAIN context : i \in T <=> context[i].uses \subseteq answered
  BY <1>1 DEF Setup!HasIncomplete
<1>3. kept = Picked(context, T)
  BY SetupPicks, Zenon DEF Setup!FilterIncomplete, Setup!Selected
<1> HIDE DEF T, kept, L
<1>4. kept \in Seq(M) /\ n \in Nat
  BY <1>2, <1>3, PickedAt
<1>5. PICK at : Enumerates(at, n, T) /\ \A i \in 1 .. n : kept[i] = context[at[i]]
  BY <1>2, <1>3, PickedAt
<1> HIDE DEF n
<1>6. \A i \in 1 .. n : at[i] \in T /\ at[i] \in 1 .. L
  <2>1. at \in [1 .. n -> T]
    BY <1>5 DEF Enumerates
  <2>2. T \subseteq 1 .. L
    BY <1>2 DEF L
  <2> QED
    BY <2>1, <2>2
<1>7. ASSUME NEW i \in 1 .. n, NEW x \in kept[i].uses
      PROVE  \E j \in 1 .. n : i <= j /\ x \in kept[j].results
  <2>1. kept[i] = context[at[i]] /\ at[i] \in DOMAIN context /\ context[at[i]].uses \subseteq answered
    BY <1>1, <1>2, <1>5, <1>6
  <2>2. PICK q \in DOMAIN context : x \in context[q].results
    BY <1>7, <2>1
  <2>3. context[q].uses = {} /\ q \in T
    BY <1>2, <2>2 DEF Orderly
  <2>4. PICK j \in 1 .. n : at[j] = q
    BY <1>5, <2>3 DEF Enumerates
  <2>5. x \in kept[j].results
    BY <1>5, <2>2, <2>4
  <2>6. PICK p \in DOMAIN context : p < q /\ x \in context[p].uses
    BY <2>2 DEF Orderly
  <2>7. ~(p < at[i]) /\ ~(at[i] < p)
    <3>1. x \in context[at[i]].uses \cap context[p].uses
      BY <1>7, <2>1, <2>6
    <3> QED
      BY <2>1, <2>6, <3>1 DEF Orderly
  <2>8. at[i] < at[j]
    BY <1>1, <1>6, <2>1, <2>4, <2>6, <2>7
  <2>9. ~(j < i)
    <3>1. SUFFICES ASSUME j < i PROVE FALSE
      OBVIOUS
    <3>2. at[j] < at[i] /\ at[i] \in Nat /\ at[j] \in Nat
      BY <1>5, <1>6, <3>1 DEF Enumerates
    <3> QED
      BY <2>8, <3>2
  <2> QED
    BY <2>5, <2>9
<1>8. \/ prompt = <<Setup!UserMessage({})>>
      \/ prompt = <<reply, Setup!UserMessage(reply.uses)>>
  BY DEF Setup!ForkedMessages
<1>9. \E N : kept \in Seq(N) /\ prompt \in Seq(N)
  <2> DEFINE N == M \cup {Setup!UserMessage({}), reply, Setup!UserMessage(reply.uses)}
  <2>1. kept \in Seq(N)
    BY <1>4
  <2>2. Setup!UserMessage({}) \in N /\ reply \in N /\ Setup!UserMessage(reply.uses) \in N
    OBVIOUS
  <2> HIDE DEF prompt, reply, N
  <2>3. CASE prompt = <<Setup!UserMessage({})>>
    BY <2>1, <2>2, <2>3
  <2>4. CASE prompt = <<reply, Setup!UserMessage(reply.uses)>>
    BY <2>1, <2>2, <2>4
  <2> QED
    BY <1>8, <2>3, <2>4
<1>10. PICK N : kept \in Seq(N) /\ prompt \in Seq(N)
  BY <1>9
<1> HIDE DEF prompt, reply
<1>11. /\ Len(all) = n + Len(prompt) /\ Len(prompt) \in {1, 2} /\ DOMAIN all = 1 .. Len(all)
       /\ \A i \in 1 .. n : all[i] = kept[i]
       /\ \A i \in 1 .. Len(prompt) : all[n + i] = prompt[i]
  BY <1>8, <1>10 DEF n
<1> HIDE DEF all
<1>12. ASSUME NEW i \in DOMAIN all, NEW x \in all[i].uses
       PROVE  \E j \in i .. Len(all) : x \in all[j].results
  <2>1. CASE i \in 1 .. n
    <3>1. x \in kept[i].uses
      BY <1>11, <1>12, <2>1
    <3>2. PICK j \in 1 .. n : i <= j /\ x \in kept[j].results
      BY <1>7, <2>1, <3>1
    <3>3. j \in i .. Len(all) /\ all[j] = kept[j]
      BY <1>4, <1>11, <2>1, <3>2
    <3> QED
      BY <3>2, <3>3
  <2>2. CASE i \notin 1 .. n
    <3>1. \E k \in 1 .. Len(prompt) : i = n + k
      <4>1. i - n \in 1 .. Len(prompt) /\ i = n + (i - n)
        BY <1>4, <1>11, <2>2
      <4> QED
        BY <4>1
    <3>2. PICK k \in 1 .. Len(prompt) : i = n + k
      BY <3>1
    <3>3. x \in prompt[k].uses
      BY <1>11, <1>12, <3>2
    <3>4. \A r : Setup!UserMessage(r).uses = {} /\ Setup!UserMessage(r).results = r
      BY DEF Setup!UserMessage
    <3>5. Len(prompt) = 2 /\ k = 1 /\ prompt[1] = reply /\ prompt[2].results = reply.uses
      <4>1. CASE prompt = <<Setup!UserMessage({})>>
        BY <3>3, <3>4, <4>1
      <4>2. CASE prompt = <<reply, Setup!UserMessage(reply.uses)>>
        BY <3>3, <3>4, <4>2
      <4> QED
        BY <1>8, <4>1, <4>2
    <3>6. n + 2 \in i .. Len(all) /\ all[n + 2] = prompt[2]
      BY <1>4, <1>11, <3>2, <3>5
    <3> QED
      BY <3>3, <3>5, <3>6
  <2> QED
    BY <2>1, <2>2
<1>13. all[Len(all)].role = "user"
  <2>1. all[Len(all)] = prompt[Len(prompt)]
    <3>1. \A k \in {1, 2} : k \in 1 .. k
      OBVIOUS
    <3> QED
      BY <1>11, <3>1
  <2>2. \A r : Setup!UserMessage(r).role = "user"
    BY DEF Setup!UserMessage
  <2>3. prompt[Len(prompt)].role = "user"
    <3>1. CASE prompt = <<Setup!UserMessage({})>>
      BY <2>2, <3>1
    <3>2. CASE prompt = <<reply, Setup!UserMessage(reply.uses)>>
      BY <2>2, <3>2
    <3> QED
      BY <1>8, <3>1, <3>2
  <2> QED
    BY <2>1, <2>3
<1> DEFINE D == {i \in DOMAIN context : ~(context[i].uses \subseteq answered)}
<1>14. n = L - Cardinality(D)
  <2>1. D = (1 .. L) \ T
    BY <1>1, <1>2
  <2>2. IsFiniteSet(1 .. L) /\ Cardinality(1 .. L) = L
    BY <1>1, FS_Interval
  <2>3. T \subseteq 1 .. L /\ IsFiniteSet(T) /\ n = Cardinality(T)
    BY <1>2, <1>3, PickedCount DEF L, n
  <2> HIDE DEF D
  <2>4. Cardinality(D) = Cardinality(1 .. L) - Cardinality((1 .. L) \cap T)
    BY <2>1, <2>2, FS_Difference
  <2>5. (1 .. L) \cap T = T
    BY <2>3
  <2>6. Cardinality(D) = L - n
    BY <2>2, <2>3, <2>4, <2>5, Zenon
  <2> QED
    BY <1>1, <1>4, <2>6
<1>15. Setup!InitialMessages(context, Setup!ForkedMessages(Setup!Reply(calls))) = all
  BY DEF Setup!InitialMessages, all, kept, prompt, reply
<1> DEFINE AllAnswered(m) ==
             \A i \in DOMAIN m : m[i].uses \subseteq UNION {m[j].results : j \in i .. Len(m)}
<1>16. AllAnswered(all)
  BY <1>12
<1> HIDE DEF AllAnswered
<1>17. Len(kept) = Len(context) - Setup!Cardinality(D)
  BY <1>14, SetupCardinality, Zenon DEF n, L
<1>18. /\ AllAnswered(Setup!InitialMessages(context, Setup!ForkedMessages(reply)))
       /\ Setup!InitialMessages(context, Setup!ForkedMessages(reply))[Len(Setup!InitialMessages(context, Setup!ForkedMessages(reply)))].role = "user"
  BY <1>13, <1>15, <1>16, Zenon DEF reply
<1> QED
  BY <1>17, <1>18, Zenon DEF Setup!InheritedCallsAreAnswered, AllAnswered, kept, reply

-----------------------------------------------------------------------------
(* Who is in a team.  Each operation keeps, in their order, the members    *)
(* that it does not name (MembersKept).                                    *)

\* team_helpers.py: the file after each operation.
TeamStates(ids, names, modes) ==
    [exists : BOOLEAN, members : Seq([id : ids, name : names, mode : modes])]
TeamKinds == {"create", "cleanup", "add", "remove", "remove_member", "mode", "active"}
TeamOpOf(op, ids, names, modes) ==
    /\ op.kind \in TeamKinds
    /\ op.kind = "add" => op.id \in ids /\ op.name \in names
    /\ op.kind = "mode" => op.mode \in modes
TeamSteps(ops, V) == [k \in 1 .. Len(ops) |-> [t \in V |-> Team!Changed(t, ops[k])]]

LEMMA TeamMax == \A T : Team!Max(T) = Greatest(T)
  BY DEF Team!Max, Greatest

\* A team is what one operation after the other makes of it.
LEMMA TeamFolds ==
  ASSUME NEW V, Team!NoTeam \in V, NEW ops, Len(ops) \in Nat, DOMAIN ops = 1 .. Len(ops),
         \A k \in 1 .. Len(ops) : \A t \in V : Team!Changed(t, ops[k]) \in V
  PROVE  \E f : /\ IsRecursive(f, V, Team!NoTeam, Len(ops), TeamSteps(ops, V))
                /\ Team!TeamAfter(ops) = f[Len(ops)]
<1> DEFINE L == Len(ops)
           step == TeamSteps(ops, V)
           Eq(g) == g = [T \in SUBSET (DOMAIN ops) |->
                           IF T = {} THEN Team!NoTeam
                           ELSE Team!Changed(g[T \ {Team!Max(T)}], ops[Team!Max(T)])]
           h == CHOOSE g : Eq(g)
           f == [k \in 0 .. L |-> h[1 .. k]]
<1>1. step \in [1 .. L -> [V -> V]] /\ \A k \in 1 .. L : \A v \in V : step[k][v] = Team!Changed(v, ops[k])
  BY DEF TeamSteps
<1> HIDE DEF step
<1>2. PICK g : IsFold(g, V, Team!NoTeam, L, step)
  <2> HIDE DEF L
  <2> QED
    BY <1>1, FoldExists, Zenon DEF L
<1>3. Eq(g)
  <2>1. ASSUME NEW T \in SUBSET (1 .. L)
        PROVE  g[T] = IF T = {} THEN Team!NoTeam
                      ELSE Team!Changed(g[T \ {Team!Max(T)}], ops[Team!Max(T)])
    <3>1. T # {} => Greatest(T) \in 1 .. L
      BY GreatestIs
    <3>2. g[T \ {Greatest(T)}] \in V
      BY <1>2 DEF IsFold
    <3> HIDE DEF L
    <3> QED
      BY <1>1, <1>2, <3>1, <3>2, TeamMax DEF IsFold
  <2>2. g = [T \in SUBSET (DOMAIN ops) |-> g[T]]
    BY <1>2 DEF IsFold
  <2> QED
    BY <2>1, <2>2, Zenon
<1>4. Eq(h)
  <2> HIDE DEF Eq
  <2> QED
    BY <1>3
<1>5. Team!TeamAfter(ops) = h[DOMAIN ops]
  BY Zenon DEF Team!TeamAfter, Team!FoldLeft, Team!MapThenFoldSet
<1> HIDE DEF h
<1>6. h[{}] = Team!NoTeam
  BY <1>4
<1>7. ASSUME NEW k \in 1 .. L PROVE h[1 .. k] = Team!Changed(h[1 .. (k - 1)], ops[k])
  <2>1. /\ 1 .. k \in SUBSET (DOMAIN ops) /\ 1 .. k # {} /\ Team!Max(1 .. k) = k
        /\ (1 .. k) \ {k} = 1 .. (k - 1)
    BY Segments, TeamMax
  <2> DEFINE W == 1 .. k
  <2>2. h[W] = Team!Changed(h[W \ {Team!Max(W)}], ops[Team!Max(W)])
    <3> HIDE DEF W
    <3>1. W \in SUBSET (DOMAIN ops) /\ W # {}
      BY <2>1 DEF W
    <3> QED
      BY <1>4, <3>1
  <2> HIDE DEF W
  <2>3. Team!Max(W) = k /\ W \ {k} = 1 .. (k - 1)
    BY <2>1 DEF W
  <2> QED
    BY <2>2, <2>3, Zenon DEF W
<1>8. f[0] = Team!NoTeam /\ \A k \in 1 .. L : f[k] = Team!Changed(f[k - 1], ops[k])
  <2>1. 1 .. 0 = {} /\ 0 \in 0 .. L /\ f[0] = h[1 .. 0]
    OBVIOUS
  <2>2. ASSUME NEW k \in 1 .. L PROVE f[k] = h[1 .. k] /\ f[k - 1] = h[1 .. (k - 1)]
    <3>1. k \in 0 .. L /\ k - 1 \in 0 .. L
      OBVIOUS
    <3> QED
      BY <3>1
  <2> HIDE DEF f
  <2>3. f[0] = Team!NoTeam
    BY <1>6, <2>1
  <2>4. \A k \in 1 .. L : f[k] = Team!Changed(f[k - 1], ops[k])
    BY <1>7, <2>2
  <2> QED
    BY <2>3, <2>4
<1>9. Team!TeamAfter(ops) = f[L]
  BY <1>5
<1>10. f = [k \in 0 .. L |-> f[k]] /\ \A k \in 1 .. L : k - 1 \in 0 .. L /\ k \in 0 .. L
  OBVIOUS
<1> HIDE DEF f
<1>11. \A k \in 0 .. L : f[k] \in V
  <2> HIDE DEF L
  <2>1. f[0] \in V /\ L \in Nat
    BY <1>8 DEF L
  <2>2. \A k \in 1 .. L : f[k - 1] \in V => f[k] \in V
    BY <1>8 DEF L
  <2> QED
    BY <2>1, <2>2, Stays
<1>12. IsRecursive(f, V, Team!NoTeam, L, step)
  <2>1. f \in [0 .. L -> V]
    BY <1>10, <1>11
  <2>2. \A k \in 1 .. L : f[k] = step[k][f[k - 1]]
    BY <1>1, <1>8, <1>10, <1>11
  <2> QED
    BY <1>8, <2>1, <2>2 DEF IsRecursive
<1> QED
  BY <1>9, <1>12 DEF step

LEMMA TeamFirsts ==
  ASSUME NEW I \in SUBSET Nat, I # {}
  PROVE  Team!Min(I) \in I /\ \A j \in I : Team!Min(I) <= j
<1>1. PICK m \in I : \A j \in I : m <= j
  BY Least
<1> QED
  BY <1>1 DEF Team!Min

\* What each operation does.
LEMMA TeamChanged ==
  ASSUME NEW team, NEW op
  PROVE  /\ op.kind = "create" => Team!Changed(team, op) = Team!Team(<<>>)
         /\ op.kind = "cleanup" => Team!Changed(team, op) = Team!NoTeam
         /\ op.kind \notin {"create", "cleanup"} /\ ~team.exists => Team!Changed(team, op) = team
         /\ op.kind \notin {"create", "cleanup"} /\ team.exists =>
                Team!Changed(team, op) = Team!ChangedMembers(team, op)
         /\ op.kind = "add" =>
                Team!ChangedMembers(team, op) =
                    Team!AddTeammate(team, [id |-> op.id, name |-> op.name, mode |-> "none"])
         /\ op.kind = "remove" =>
                Team!ChangedMembers(team, op) = Team!RemoveTeammate(team, op.id, op.name)
         /\ op.kind = "remove_member" =>
                Team!ChangedMembers(team, op) = Team!RemoveMember(team, op.id)
         /\ op.kind = "mode" =>
                Team!ChangedMembers(team, op) = Team!SetMode(team, op.name, op.mode)
         /\ op.kind = "active" => Team!ChangedMembers(team, op) = team
<1>1. /\ op.kind = "create" => Team!Changed(team, op) = Team!Team(<<>>)
      /\ op.kind = "cleanup" => Team!Changed(team, op) = Team!NoTeam
      /\ op.kind \notin {"create", "cleanup"} /\ ~team.exists => Team!Changed(team, op) = team
      /\ op.kind \notin {"create", "cleanup"} /\ team.exists =>
                Team!Changed(team, op) = Team!ChangedMembers(team, op)
  BY DEF Team!Changed
<1>2. ASSUME op.kind = "add"
      PROVE  Team!ChangedMembers(team, op) =
                    Team!AddTeammate(team, [id |-> op.id, name |-> op.name, mode |-> "none"])
  BY <1>2, Zenon DEF Team!ChangedMembers
<1>3. ASSUME op.kind = "remove"
      PROVE  Team!ChangedMembers(team, op) = Team!RemoveTeammate(team, op.id, op.name)
  BY <1>3, Zenon DEF Team!ChangedMembers
<1>4. ASSUME op.kind = "remove_member"
      PROVE  Team!ChangedMembers(team, op) = Team!RemoveMember(team, op.id)
  BY <1>4, Zenon DEF Team!ChangedMembers
<1>5. ASSUME op.kind = "mode"
      PROVE  Team!ChangedMembers(team, op) = Team!SetMode(team, op.name, op.mode)
  BY <1>5, Zenon DEF Team!ChangedMembers
<1>6. ASSUME op.kind = "active" PROVE Team!ChangedMembers(team, op) = team
  BY <1>6, Zenon DEF Team!ChangedMembers
<1> QED
  BY <1>1, <1>2, <1>3, <1>4, <1>5, <1>6, Zenon

LEMMA TeamPicks == \A s, T : Team!Picked(s, T) = Picked(s, T)
  BY DEF Team!Picked, Picked

LEMMA Concatenated ==
  ASSUME NEW V, NEW a \in Seq(V), NEW b \in Seq(V)
  PROVE  /\ a \o b \in Seq(V) /\ Len(a \o b) = Len(a) + Len(b)
         /\ \A i \in 1 .. Len(a) : (a \o b)[i] = a[i]
         /\ \A i \in 1 .. Len(b) : (a \o b)[Len(a) + i] = b[i]
  OBVIOUS

\* An element is removed.
LEMMA RemoveOne ==
  ASSUME NEW V, NEW s \in Seq(V), NEW i \in 1 .. Len(s)
  PROVE  /\ Team!RemoveAt(s, i) \in Seq(V) /\ Len(Team!RemoveAt(s, i)) = Len(s) - 1
         /\ \A j \in 1 .. (Len(s) - 1) :
                Team!RemoveAt(s, i)[j] = IF j < i THEN s[j] ELSE s[j + 1]
<1> DEFINE a == SubSeq(s, 1, i - 1)
           b == SubSeq(s, i + 1, Len(s))
<1>1. Len(s) \in Nat /\ i \in Nat /\ 1 <= i /\ i <= Len(s)
  OBVIOUS
<1>2. a \in Seq(V) /\ Len(a) = i - 1 /\ \A j \in 1 .. (i - 1) : a[j] = s[j]
  BY <1>1
<1>3. b \in Seq(V) /\ Len(b) = Len(s) - i /\ \A j \in 1 .. (Len(s) - i) : b[j] = s[i + j]
  BY <1>1
<1>4. Team!RemoveAt(s, i) = a \o b
  BY DEF Team!RemoveAt
<1> HIDE DEF a, b
<1>5. a \o b \in Seq(V) /\ Len(a \o b) = Len(a) + Len(b)
  BY <1>2, <1>3, Concatenated
<1>6. ASSUME NEW j \in 1 .. (Len(s) - 1)
      PROVE  (a \o b)[j] = IF j < i THEN s[j] ELSE s[j + 1]
  <2>1. CASE j < i
    <3>1. j \in 1 .. Len(a) /\ j \in 1 .. (i - 1)
      BY <1>1, <1>2, <2>1
    <3>2. (a \o b)[j] = a[j]
      BY <1>2, <1>3, <3>1
    <3> QED
      BY <1>2, <2>1, <3>1, <3>2
  <2>2. CASE ~(j < i)
    <3>1. j - Len(a) \in 1 .. Len(b) /\ j - Len(a) \in 1 .. (Len(s) - i) /\ j \notin 1 .. Len(a)
          /\ i + (j - Len(a)) = j + 1 /\ j \in 1 .. (Len(a) + Len(b))
      BY <1>1, <1>2, <1>3, <2>2
    <3>2. (a \o b)[j] = b[j - Len(a)]
      BY <1>2, <1>3, <3>1
    <3> QED
      BY <1>3, <2>2, <3>1, <3>2
  <2> QED
    BY <2>1, <2>2
<1> QED
  BY <1>1, <1>2, <1>3, <1>4, <1>5, <1>6

\* Whom an operation names, and where the others are.
Named(op, m) == m.id = op.id \/ m.name = op.name
Others(op, s) == {i \in DOMAIN s : ~Named(op, s[i])}
Members(ids, names, modes) == [id : ids, name : names, mode : modes]

\* Others stay when one of the named comes,
LEMMA OthersOfMore ==
  ASSUME NEW M, NEW s \in Seq(M), NEW x \in M, NEW op, Named(op, x)
  PROVE  Picked(Append(s, x), Others(op, Append(s, x))) = Picked(s, Others(op, s))
<1> DEFINE t == Append(s, x)
           T == Others(op, s)
           U == Others(op, t)
           m == [i \in T |-> i]
<1>1. /\ t \in Seq(M) /\ Len(s) \in Nat /\ Len(t) = Len(s) + 1 /\ t[Len(s) + 1] = x
      /\ \A i \in 1 .. Len(s) : t[i] = s[i]
  OBVIOUS
<1>2. DOMAIN s = 1 .. Len(s) /\ DOMAIN t = 1 .. Len(t)
  BY <1>1
<1> HIDE DEF t
<1>3. \A i : i \in T <=> i \in 1 .. Len(s) /\ ~Named(op, s[i])
  BY <1>2 DEF Others
<1>4. \A i : i \in U <=> i \in 1 .. Len(t) /\ ~Named(op, t[i])
  BY <1>2 DEF Others
<1>5. \A i \in 1 .. Len(t) : i \in 1 .. Len(s) \/ i = Len(s) + 1
  BY <1>1
<1>6. \A i \in 1 .. Len(s) : i \in 1 .. Len(t)
  BY <1>1
<1>7. \A i : i \in U <=> i \in T
  BY <1>1, <1>3, <1>4, <1>5, <1>6
<1>8. \A i \in T : m[i] = i /\ i \in 1 .. Len(s)
  BY <1>3
<1>9. m \in [T -> U]
  BY <1>7
<1> HIDE DEF T, U, m
<1>10. T \in SUBSET (1 .. Len(s)) /\ U \in SUBSET (1 .. Len(t))
  BY <1>3, <1>4
<1>11. \A i, j \in T : i < j => m[i] < m[j]
  BY <1>8
<1>12. \A u \in U : \E i \in T : m[i] = u
  BY <1>7, <1>8
<1>13. \A i \in T : t[m[i]] = s[i]
  BY <1>1, <1>8
<1>14. Matches(m, s, T, t, U)
  BY <1>9, <1>11, <1>12, <1>13 DEF Matches
<1>15. Picked(s, T) = Picked(t, U)
  BY <1>1, <1>10, <1>14, PickedAgree
<1> QED
  BY <1>15 DEF t, T, U

\* when all of them go,
LEMMA OthersOfOthers ==
  ASSUME NEW M, NEW s \in Seq(M), NEW op
  PROVE  LET p == Picked(s, Others(op, s))
         IN  /\ p \in Seq(M) /\ Picked(p, Others(op, p)) = p
             /\ \A i \in DOMAIN p : ~Named(op, p[i])
<1> DEFINE T == Others(op, s)
           p == Picked(s, T)
           U == Others(op, p)
<1>1. T \in SUBSET (1 .. Len(s)) /\ \A i \in T : ~Named(op, s[i])
  BY DEF Others
<1> HIDE DEF T
<1>2. p \in Seq(M)
  BY <1>1, PickedAt
<1>3. PICK at : Enumerates(at, Len(p), T) /\ \A i \in 1 .. Len(p) : p[i] = s[at[i]]
  BY <1>1, PickedAt
<1> HIDE DEF p
<1>4. /\ at \in [1 .. Len(p) -> T]
      /\ \A i, j \in 1 .. Len(p) : i < j => at[i] < at[j]
      /\ \A t \in T : \E i \in 1 .. Len(p) : at[i] = t
  BY <1>3 DEF Enumerates
<1>5. \A i \in 1 .. Len(p) : ~Named(op, p[i]) /\ s[at[i]] = p[i]
  BY <1>1, <1>3, <1>4
<1>6. U = 1 .. Len(p) /\ DOMAIN p = 1 .. Len(p)
  BY <1>2, <1>5 DEF Others
<1>7. U \in SUBSET (1 .. Len(p)) /\ at \in [U -> T]
  BY <1>4, <1>6
<1>8. (\A i, j \in U : i < j => at[i] < at[j]) /\ (\A t \in T : \E i \in U : at[i] = t)
      /\ \A i \in U : s[at[i]] = p[i]
  BY <1>4, <1>5, <1>6
<1> HIDE DEF U
<1>9. Picked(p, U) = Picked(s, T)
  <2>1. Matches(at, p, U, s, T)
    BY <1>7, <1>8 DEF Matches
  <2> QED
    BY <1>1, <1>2, <1>7, <2>1, PickedAgree
<1>10. p \in Seq(M) /\ Picked(p, Others(op, p)) = p /\ \A i \in DOMAIN p : ~Named(op, p[i])
  BY <1>2, <1>5, <1>6, <1>9 DEF p, U
<1> QED
  BY <1>10 DEF p, T

\* when one of them goes,
LEMMA OthersOfOneLess ==
  ASSUME NEW M, NEW s \in Seq(M), NEW op, NEW i \in 1 .. Len(s), Named(op, s[i])
  PROVE  LET r == Team!RemoveAt(s, i)
         IN  Picked(r, Others(op, r)) = Picked(s, Others(op, s))
<1> DEFINE r == Team!RemoveAt(s, i)
           T == Others(op, s)
           U == Others(op, r)
           m == [j \in T |-> IF j < i THEN j ELSE j - 1]
<1>1. /\ r \in Seq(M) /\ Len(r) = Len(s) - 1
      /\ \A j \in 1 .. (Len(s) - 1) : r[j] = IF j < i THEN s[j] ELSE s[j + 1]
  BY RemoveOne
<1>2. Len(s) \in Nat /\ DOMAIN s = 1 .. Len(s) /\ DOMAIN r = 1 .. Len(r)
  BY <1>1
<1> HIDE DEF r
<1>3. \A j : j \in T <=> j \in 1 .. Len(s) /\ ~Named(op, s[j])
  BY <1>2 DEF Others
<1>4. \A j : j \in U <=> j \in 1 .. Len(r) /\ ~Named(op, r[j])
  BY <1>2 DEF Others
<1>5. i \notin T
  BY <1>3
<1>6. \A j \in T : m[j] = IF j < i THEN j ELSE j - 1
  OBVIOUS
<1> HIDE DEF T, U, m
<1>7. ASSUME NEW j \in T PROVE m[j] \in U /\ r[m[j]] = s[j] /\ j \in 1 .. Len(s) /\ j # i
  <2>1. j \in 1 .. Len(s) /\ j # i /\ ~Named(op, s[j])
    BY <1>3, <1>5
  <2>2. CASE j < i
    <3>1. m[j] = j /\ j \in 1 .. (Len(s) - 1)
      BY <1>2, <1>6, <2>1, <2>2
    <3>2. r[j] = s[j]
      BY <1>1, <2>2, <3>1
    <3> QED
      BY <1>1, <1>4, <2>1, <3>1, <3>2
  <2>3. CASE ~(j < i)
    <3>1. m[j] = j - 1 /\ j - 1 \in 1 .. (Len(s) - 1) /\ ~(j - 1 < i) /\ (j - 1) + 1 = j
      BY <1>2, <1>6, <2>1, <2>3
    <3>2. r[j - 1] = s[j]
      BY <1>1, <3>1
    <3>3. j - 1 \in 1 .. Len(r)
      BY <1>1, <3>1
    <3> QED
      BY <1>4, <2>1, <3>1, <3>2, <3>3
  <2> QED
    BY <2>2, <2>3
<1>8. \A j, k \in T : j < k => m[j] < m[k]
  BY <1>6, <1>7
<1>9. ASSUME NEW u \in U PROVE \E j \in T : m[j] = u
  <2>1. u \in 1 .. (Len(s) - 1) /\ ~Named(op, r[u])
    BY <1>1, <1>4
  <2>2. CASE u < i
    <3>1. u \in 1 .. Len(s) /\ r[u] = s[u]
      BY <1>1, <1>2, <2>1, <2>2
    <3>2. u \in T
      BY <1>3, <2>1, <3>1
    <3> QED
      BY <1>6, <2>2, <3>2
  <2>3. CASE ~(u < i)
    <3>1. u + 1 \in 1 .. Len(s) /\ ~(u + 1 < i) /\ (u + 1) - 1 = u
      BY <1>2, <2>1, <2>3
    <3>2. r[u] = s[u + 1]
      BY <1>1, <2>1, <2>3
    <3>3. u + 1 \in T
      BY <1>3, <2>1, <3>1, <3>2
    <3> QED
      BY <1>6, <3>1, <3>3
  <2> QED
    BY <2>2, <2>3
<1>10. m \in [T -> U]
  <2>1. m = [j \in T |-> m[j]]
    BY DEF m
  <2> QED
    BY <1>7, <2>1
<1>11. T \in SUBSET (1 .. Len(s)) /\ U \in SUBSET (1 .. Len(r))
  BY <1>3, <1>4
<1>12. \A j \in T : r[m[j]] = s[j]
  BY <1>7
<1>13. Picked(s, T) = Picked(r, U)
  <2>1. Matches(m, s, T, r, U)
    BY <1>8, <1>9, <1>10, <1>12 DEF Matches
  <2> QED
    BY <1>1, <1>11, <2>1, PickedAgree
<1> QED
  BY <1>13 DEF r, T, U

\* and when one of them changes.
LEMMA OthersOfAlike ==
  ASSUME NEW M, NEW s \in Seq(M), NEW t \in Seq(M), NEW op, Len(t) = Len(s),
         \A i \in 1 .. Len(s) : /\ Named(op, t[i]) <=> Named(op, s[i])
                                /\ ~Named(op, s[i]) => t[i] = s[i]
  PROVE  Picked(t, Others(op, t)) = Picked(s, Others(op, s))
<1> DEFINE T == Others(op, s)
           m == [j \in T |-> j]
<1>1. DOMAIN s = 1 .. Len(s) /\ DOMAIN t = 1 .. Len(s) /\ Len(s) \in Nat
  OBVIOUS
<1>2. T \in SUBSET (1 .. Len(s)) /\ T = Others(op, t) /\ \A i \in T : t[i] = s[i]
  BY <1>1 DEF Others
<1> HIDE DEF T
<1>3. m \in [T -> T] /\ \A i \in T : m[i] = i
  OBVIOUS
<1> HIDE DEF m
<1>4. \A i, j \in T : i < j => m[i] < m[j]
  BY <1>3
<1>5. (\A u \in T : \E i \in T : m[i] = u) /\ \A i \in T : t[m[i]] = s[i]
  BY <1>2, <1>3
<1>6. T \in SUBSET (1 .. Len(t))
  BY <1>2
<1>7. Picked(s, T) = Picked(t, T)
  <2>1. Matches(m, s, T, t, T)
    BY <1>3, <1>4, <1>5 DEF Matches
  <2> QED
    BY <1>2, <1>6, <2>1, PickedAgree
<1> QED
  BY <1>2, <1>7 DEF T

\* The first of some places, or 0.
FirstPlace(I) == IF I # {} THEN Team!Min(I) ELSE 0
WithId(s, id) == {i \in 1 .. Len(s) : s[i].id = id}
WithName(s, name) == {i \in 1 .. Len(s) : s[i].name = name}

\* team_helpers.py: what an operation may do to the members of a team that is there.
MembersKept(op, s, t) ==
    /\ Picked(t, Others(op, t)) = Picked(s, Others(op, s))
    /\ op.kind = "remove" => \A i \in DOMAIN t : ~Named(op, t[i])
    /\ op.kind = "remove_member" =>
           /\ \A i \in DOMAIN s : s[i].id # op.id => \E j \in 1 .. Len(t) : t[j] = s[i]
           /\ Len(t) = Len(s) - IF \E i \in DOMAIN s : s[i].id = op.id THEN 1 ELSE 0
    /\ op.kind \in {"mode", "active"} =>
           /\ Len(t) = Len(s)
           /\ \A i \in 1 .. Len(s) : t[i].id = s[i].id /\ t[i].name = s[i].name
           /\ op.kind = "active" => t = s
    /\ op.kind = "mode" /\ (\E i \in DOMAIN s : s[i].name = op.name) =>
           t[FirstPlace(WithName(t, op.name))].mode = op.mode

\* So they stay with each operation on a member.
LEMMA MemberAdded ==
  ASSUME NEW ids, NEW names, NEW modes, NEW s \in Seq(Members(ids, names, modes)),
         "none" \in modes, NEW op, op.kind = "add", op.id \in ids, op.name \in names
  PROVE  LET t == Append(s, [id |-> op.id, name |-> op.name, mode |-> "none"])
         IN  t \in Seq(Members(ids, names, modes)) /\ MembersKept(op, s, t)
<1> DEFINE x == [id |-> op.id, name |-> op.name, mode |-> "none"]
           M == Members(ids, names, modes)
<1>1. x \in M /\ Named(op, x)
  BY DEF Members, Named
<1> HIDE DEF M, x
<1>2. Append(s, x) \in Seq(M) /\ Picked(Append(s, x), Others(op, Append(s, x))) = Picked(s, Others(op, s))
  BY <1>1, OthersOfMore DEF M
<1>3. MembersKept(op, s, Append(s, x))
  BY <1>2 DEF MembersKept
<1> QED
  BY <1>2, <1>3 DEF x, M

LEMMA MembersRemoved ==
  ASSUME NEW ids, NEW names, NEW modes, NEW s \in Seq(Members(ids, names, modes)),
         NEW op, op.kind = "remove"
  PROVE  LET t == Picked(s, Others(op, s))
         IN  t \in Seq(Members(ids, names, modes)) /\ MembersKept(op, s, t)
<1> DEFINE M == Members(ids, names, modes)
           t == Picked(s, Others(op, s))
<1>1. t \in Seq(M) /\ Picked(t, Others(op, t)) = t /\ \A i \in DOMAIN t : ~Named(op, t[i])
  <2> HIDE DEF M
  <2> QED
    BY OthersOfOthers, Zenon DEF M
<1>2. MembersKept(op, s, t)
  <2>1. Picked(t, Others(op, t)) = Picked(s, Others(op, s))
    BY <1>1
  <2> HIDE DEF t
  <2> QED
    BY <1>1, <2>1 DEF MembersKept
<1> QED
  BY <1>1, <1>2, Zenon

\* The first place of a set of them, or 0.
LEMMA FirstPlaces ==
  ASSUME NEW I \in SUBSET Nat
  PROVE  /\ I = {} => FirstPlace(I) = 0
         /\ I # {} => FirstPlace(I) \in I
<1>1. I # {} => Team!Min(I) \in I
  BY TeamFirsts
<1> QED
  BY <1>1, Zenon DEF FirstPlace

LEMMA MemberRemoved ==
  ASSUME NEW ids, NEW names, NEW modes, NEW s \in Seq(Members(ids, names, modes)),
         NEW op, op.kind = "remove_member"
  PROVE  LET i == FirstPlace(WithId(s, op.id))
             t == IF i = 0 THEN s ELSE Team!RemoveAt(s, i)
         IN  t \in Seq(Members(ids, names, modes)) /\ MembersKept(op, s, t)
<1> DEFINE M == Members(ids, names, modes)
           I == WithId(s, op.id)
           i == FirstPlace(I)
           r == Team!RemoveAt(s, i)
<1>0. Len(s) \in Nat /\ DOMAIN s = 1 .. Len(s)
  OBVIOUS
<1>1. I \in SUBSET Nat /\ 0 \notin I /\ \A j : j \in I <=> j \in DOMAIN s /\ s[j].id = op.id
  BY <1>0 DEF WithId
<1> HIDE DEF I, M
<1>2. CASE I = {}
  <2>1. i = 0 /\ ~\E j \in DOMAIN s : s[j].id = op.id
    BY <1>1, <1>2, FirstPlaces
  <2>3. (IF \E j \in DOMAIN s : s[j].id = op.id THEN 1 ELSE 0) = 0
    BY <2>1
  <2> DEFINE e == IF \E j \in DOMAIN s : s[j].id = op.id THEN 1 ELSE 0
             n == Len(s)
  <2>4. n = n - e
    <3>1. e = 0 /\ n \in Nat
      BY <1>0, <2>3
    <3> HIDE DEF e, n
    <3> QED
      BY <3>1
  <2>2. MembersKept(op, s, s)
    BY <1>0, <2>4 DEF MembersKept
  <2> QED
    BY <2>1, <2>2 DEF I, M
<1>3. CASE I # {}
  <2>1. i \in I /\ i # 0
    BY <1>1, <1>3, FirstPlaces
  <2>2. i \in 1 .. Len(s) /\ s[i].id = op.id
    BY <1>0, <1>1, <2>1
  <2> HIDE DEF i
  <2>3. /\ r \in Seq(M) /\ Len(r) = Len(s) - 1
        /\ \A j \in 1 .. (Len(s) - 1) : r[j] = IF j < i THEN s[j] ELSE s[j + 1]
    BY <2>2, RemoveOne DEF M
  <2>4. Picked(r, Others(op, r)) = Picked(s, Others(op, s))
    <3>1. Named(op, s[i])
      BY <2>2 DEF Named
    <3>2. s \in Seq(M)
      BY DEF M
    <3> QED
      BY <2>2, <3>1, <3>2, OthersOfOneLess
  <2> HIDE DEF r
  <2>5. ASSUME NEW j \in DOMAIN s, s[j].id # op.id PROVE \E k \in 1 .. Len(r) : r[k] = s[j]
    <3>1. j \in 1 .. Len(s) /\ j # i
      BY <1>0, <2>2, <2>5
    <3>2. CASE j < i
      <4>1. j \in 1 .. (Len(s) - 1) /\ j \in 1 .. Len(r)
        BY <1>0, <2>2, <2>3, <3>1, <3>2
      <4> QED
        BY <2>3, <3>2, <4>1
    <3>3. CASE ~(j < i)
      <4>1. j - 1 \in 1 .. (Len(s) - 1) /\ j - 1 \in 1 .. Len(r) /\ ~(j - 1 < i) /\ (j - 1) + 1 = j
        BY <1>0, <2>2, <2>3, <3>1, <3>3
      <4>2. r[j - 1] = s[j]
        BY <2>3, <4>1
      <4> QED
        BY <4>1, <4>2
    <3> QED
      BY <3>2, <3>3
  <2>6. Len(r) = Len(s) - IF \E j \in DOMAIN s : s[j].id = op.id THEN 1 ELSE 0
    <3>1. \E j \in DOMAIN s : s[j].id = op.id
      BY <1>0, <2>2
    <3> QED
      BY <2>3, <3>1
  <2>7. MembersKept(op, s, r)
    BY <2>4, <2>5, <2>6 DEF MembersKept
  <2> QED
    BY <2>1, <2>3, <2>7 DEF I, M, i, r
<1> QED
  BY <1>2, <1>3

LEMMA ModeSet ==
  ASSUME NEW ids, NEW names, NEW modes, NEW s \in Seq(Members(ids, names, modes)),
         NEW op, op.kind = "mode", op.mode \in modes
  PROVE  LET i == FirstPlace(WithName(s, op.name))
             t == IF i = 0 THEN s ELSE [s EXCEPT ![i].mode = op.mode]
         IN  t \in Seq(Members(ids, names, modes)) /\ MembersKept(op, s, t)
<1> DEFINE M == Members(ids, names, modes)
           I == WithName(s, op.name)
           i == FirstPlace(I)
           t == [s EXCEPT ![i].mode = op.mode]
<1>0. Len(s) \in Nat /\ DOMAIN s = 1 .. Len(s) /\ \A j \in DOMAIN s : s[j] \in M
  OBVIOUS
<1>1. I \in SUBSET Nat /\ 0 \notin I /\ \A j : j \in I <=> j \in DOMAIN s /\ s[j].name = op.name
  BY <1>0 DEF WithName
<1> HIDE DEF I
<1>2. CASE I = {}
  <2>1. i = 0 /\ ~\E j \in DOMAIN s : s[j].name = op.name
    BY <1>1, <1>2, FirstPlaces
  <2>2. MembersKept(op, s, s)
    BY <1>0, <2>1 DEF MembersKept
  <2> QED
    BY <2>1, <2>2 DEF I
<1>3. CASE I # {}
  <2>1. i \in I /\ i # 0
    BY <1>1, <1>3, FirstPlaces
  <2>2. i \in DOMAIN s /\ s[i].name = op.name
    BY <1>1, <2>1
  <2> HIDE DEF i
  <2>3. /\ DOMAIN t = DOMAIN s
        /\ \A j \in DOMAIN s : j # i => t[j] = s[j]
        /\ t[i] = [s[i] EXCEPT !.mode = op.mode]
    BY <2>2
  <2>4. t[i] \in M /\ t[i].id = s[i].id /\ t[i].name = s[i].name /\ t[i].mode = op.mode
    BY <1>0, <2>2, <2>3 DEF Members
  <2>5. t = [j \in 1 .. Len(s) |-> t[j]]
    BY <1>0
  <2> HIDE DEF t, M
  <2>6. t \in Seq(M) /\ Len(t) = Len(s)
    <3>1. \A j \in 1 .. Len(s) : t[j] \in M
      BY <1>0, <2>3, <2>4
    <3> DEFINE n == Len(s)
    <3>2. n \in Nat /\ t = [j \in 1 .. n |-> t[j]] /\ \A j \in 1 .. n : t[j] \in M
      BY <1>0, <2>5, <3>1
    <3> HIDE DEF n
    <3>3. t \in [1 .. n -> M]
      BY <3>2
    <3> QED
      BY <3>2, <3>3 DEF n
  <2>7. \A j \in 1 .. Len(s) : t[j].id = s[j].id /\ t[j].name = s[j].name
    BY <1>0, <2>3, <2>4
  <2>8. Picked(t, Others(op, t)) = Picked(s, Others(op, s))
    <3>1. \A j \in 1 .. Len(s) : /\ Named(op, t[j]) <=> Named(op, s[j])
                                 /\ ~Named(op, s[j]) => t[j] = s[j]
      BY <1>0, <2>2, <2>3, <2>7 DEF Named
    <3> QED
      BY <2>6, <3>1, OthersOfAlike DEF M
  <2>9. WithName(t, op.name) = I
    BY <2>6, <2>7 DEF WithName, I
  <2>10. t[FirstPlace(WithName(t, op.name))].mode = op.mode
    BY <2>4, <2>9 DEF i
  <2>11. MembersKept(op, s, t)
    BY <2>6, <2>7, <2>8, <2>10 DEF MembersKept
  <2> QED
    BY <2>1, <2>6, <2>11 DEF I, M, i, t
<1> QED
  BY <1>2, <1>3

LEMMA NothingDone ==
  ASSUME NEW op, op.kind = "active", NEW M, NEW s \in Seq(M)
  PROVE  MembersKept(op, s, s)
  BY DEF MembersKept

\* Each operation leaves a team of members, and keeps those whom it does not name.
LEMMA TeamStep ==
  ASSUME NEW ids, NEW names, NEW modes, "none" \in modes, Team!Nobody \notin ids, Team!Nobody \notin names,
         NEW team \in TeamStates(ids, names, modes), NEW op, TeamOpOf(op, ids, names, modes)
  PROVE  /\ Team!Changed(team, op) \in TeamStates(ids, names, modes)
         /\ team.exists /\ op.kind \notin {"create", "cleanup"} =>
                MembersKept(op, team.members, Team!Changed(team, op).members)
<1> DEFINE M == Members(ids, names, modes)
           S == [exists : BOOLEAN, members : Seq(M)]
           s == team.members
           after == Team!Changed(team, op)
<1>0. team \in S /\ S = TeamStates(ids, names, modes)
  BY DEF TeamStates, Members
<1> HIDE DEF M
<1>1. s \in Seq(M) /\ team.exists \in BOOLEAN
  BY <1>0
<1> HIDE DEF s
<1>2. ASSUME NEW t \in Seq(M) PROVE [team EXCEPT !.members = t] \in S /\ [team EXCEPT !.members = t].members = t
  BY <1>0
<1>3. CASE op.kind \in {"create", "cleanup"}
  <2>1. after \in S
    <3>1. Team!Team(<<>>) \in S /\ Team!NoTeam \in S
      BY DEF Team!Team, Team!NoTeam
    <3> HIDE DEF S
    <3> QED
      BY <1>3, <3>1, TeamChanged
  <2> QED
    BY <1>0, <1>3, <2>1
<1>4. CASE op.kind \notin {"create", "cleanup"} /\ ~team.exists
  <2>1. after = team
    BY <1>4, TeamChanged
  <2> QED
    BY <1>0, <1>4, <2>1
<1>5. CASE op.kind \notin {"create", "cleanup"} /\ team.exists
  <2>1. after = Team!ChangedMembers(team, op)
    BY <1>5, TeamChanged
  <2> DEFINE Done == after \in S /\ MembersKept(op, s, after.members)
  <2>2. ASSUME op.kind = "add" PROVE Done
    <3> DEFINE x == [id |-> op.id, name |-> op.name, mode |-> "none"]
    <3>1. op.id \in ids /\ op.name \in names
      BY <2>2 DEF TeamOpOf
    <3>2. Append(s, x) \in Seq(M) /\ MembersKept(op, s, Append(s, x))
      BY <1>1, <2>2, <3>1, MemberAdded DEF M
    <3>3. after = [team EXCEPT !.members = Append(s, x)]
      <4>1. after = Team!AddTeammate(team, x)
        BY <2>1, <2>2, TeamChanged
      <4> QED
        BY <4>1 DEF Team!AddTeammate, s
    <3> HIDE DEF x, after, S
    <3> QED
      BY <1>2, <3>2, <3>3
  <2>3. ASSUME op.kind = "remove" PROVE Done
    <3> DEFINE t == Picked(s, Others(op, s))
    <3>1. t \in Seq(M) /\ MembersKept(op, s, t)
      BY <1>1, <2>3, MembersRemoved DEF M
    <3>2. after = [team EXCEPT !.members = t]
      <4>1. after = Team!RemoveTeammate(team, op.id, op.name)
        BY <2>1, <2>3, TeamChanged
      <4> DEFINE T == {i \in DOMAIN s : ~(\/ op.id # Team!Nobody /\ s[i].id = op.id
                                          \/ op.name # Team!Nobody /\ s[i].name = op.name)}
      <4>2. Team!RemoveTeammate(team, op.id, op.name) = [team EXCEPT !.members = Team!Picked(s, T)]
        BY Zenon DEF Team!RemoveTeammate, Team!Keeping, Team!Selected, s
      <4>3. T = Others(op, s)
        <5>1. \A i \in DOMAIN s : s[i] \in M
          BY <1>1
        <5>2. \A x \in M : x.id # Team!Nobody /\ x.name # Team!Nobody
          BY DEF M, Members
        <5> QED
          BY <5>1, <5>2 DEF Others, Named
      <4> HIDE DEF T, after
      <4> QED
        BY <4>1, <4>2, <4>3, TeamPicks
    <3> HIDE DEF t, after, S
    <3> QED
      BY <1>2, <3>1, <3>2
  <2>4. ASSUME op.kind = "remove_member" PROVE Done
    <3> DEFINE i == FirstPlace(WithId(s, op.id))
               t == IF i = 0 THEN s ELSE Team!RemoveAt(s, i)
    <3>1. t \in Seq(M) /\ MembersKept(op, s, t)
      BY <1>1, <2>4, MemberRemoved DEF M
    <3>2. after = IF i = 0 THEN team ELSE [team EXCEPT !.members = t]
      <4>1. after = Team!RemoveMember(team, op.id)
        BY <2>1, <2>4, TeamChanged
      <4>2. Team!RemoveMember(team, op.id) =
               IF i = 0 THEN team ELSE [team EXCEPT !.members = Team!RemoveAt(s, i)]
        BY Zenon DEF Team!RemoveMember, Team!FirstOf, Team!SelectInSeq, FirstPlace, WithId, s
      <4> HIDE DEF i, after
      <4> QED
        BY <4>1, <4>2
    <3>3. i = 0 => t = s
      OBVIOUS
    <3> HIDE DEF i, t, after
    <3>4. CASE i = 0
      BY <1>0, <3>1, <3>2, <3>3, <3>4 DEF s
    <3>5. CASE i # 0
      <4> HIDE DEF S
      <4> QED
        BY <1>2, <3>1, <3>2, <3>5
    <3> QED
      BY <3>4, <3>5
  <2>5. ASSUME op.kind = "mode" PROVE Done
    <3> DEFINE i == FirstPlace(WithName(s, op.name))
               t == IF i = 0 THEN s ELSE [s EXCEPT ![i].mode = op.mode]
    <3>0. op.mode \in modes
      BY <2>5 DEF TeamOpOf
    <3>1. t \in Seq(M) /\ MembersKept(op, s, t)
      BY <1>1, <2>5, <3>0, ModeSet DEF M
    <3>2. after = IF i = 0 THEN team ELSE [team EXCEPT !.members = t]
      <4>1. after = Team!SetMode(team, op.name, op.mode)
        BY <2>1, <2>5, TeamChanged
      <4>2. Team!SetMode(team, op.name, op.mode) =
               IF i = 0 THEN team ELSE [team EXCEPT !.members[i].mode = op.mode]
        BY Zenon DEF Team!SetMode, Team!FirstOf, Team!SelectInSeq, FirstPlace, WithName, s
      <4>3. [team EXCEPT !.members[i].mode = op.mode] = [team EXCEPT !.members = [s EXCEPT ![i].mode = op.mode]]
        BY DEF s
      <4> HIDE DEF i, after
      <4> QED
        BY <4>1, <4>2, <4>3
    <3>3. i = 0 => t = s
      OBVIOUS
    <3> HIDE DEF i, t, after
    <3>4. CASE i = 0
      BY <1>0, <3>1, <3>2, <3>3, <3>4 DEF s
    <3>5. CASE i # 0
      <4> HIDE DEF S
      <4> QED
        BY <1>2, <3>1, <3>2, <3>5
    <3> QED
      BY <3>4, <3>5
  <2>6. ASSUME op.kind = "active" PROVE Done
    <3>1. after = team
      BY <2>1, <2>6, TeamChanged
    <3>2. MembersKept(op, s, s)
      BY <1>1, <2>6, NothingDone
    <3> QED
      BY <1>0, <3>1, <3>2 DEF s
  <2>8. op.kind \in {"create", "cleanup", "add", "remove", "remove_member", "mode", "active"}
    BY DEF TeamOpOf, TeamKinds
  <2>7. Done
    <3> HIDE DEF Done
    <3> QED
      BY <1>5, <2>2, <2>3, <2>4, <2>5, <2>6, <2>8
  <2> QED
    BY <1>0, <1>5, <2>7 DEF s
<1> QED
  BY <1>3, <1>4, <1>5

\* The beginning of a sequence.
LEMMA PartOf ==
  ASSUME NEW V, NEW s \in Seq(V), NEW n \in Nat, n <= Len(s)
  PROVE  /\ SubSeq(s, 1, n) \in Seq(V) /\ Len(SubSeq(s, 1, n)) = n
         /\ \A k \in 1 .. n : SubSeq(s, 1, n)[k] = s[k]
<1>1. Len(s) \in Nat /\ \A k \in 1 .. n : k \in 1 .. Len(s)
  OBVIOUS
<1>2. SubSeq(s, 1, n) \in Seq(V)
  BY <1>1
<1>3. Len(SubSeq(s, 1, n)) = n
  BY <1>1
<1>4. \A k \in 1 .. n : SubSeq(s, 1, n)[k] = s[k]
  BY <1>1
<1> QED
  BY <1>2, <1>3, <1>4

\* The last operation changes what the ones before it have left.
LEMMA LastChange ==
  ASSUME NEW ids, NEW names, NEW modes, "none" \in modes, Team!Nobody \notin ids, Team!Nobody \notin names,
         NEW O, NEW ops \in Seq(O), ops # <<>>, \A op \in O : TeamOpOf(op, ids, names, modes)
  PROVE  /\ Team!TeamAfter(Team!Front(ops)) \in TeamStates(ids, names, modes)
         /\ Team!TeamAfter(ops) = Team!Changed(Team!TeamAfter(Team!Front(ops)), Team!Last(ops))
<1> DEFINE V == TeamStates(ids, names, modes)
           front == Team!Front(ops)
           L == Len(ops)
<1>1. /\ L \in Nat \ {0} /\ DOMAIN ops = 1 .. L /\ Team!Last(ops) = ops[L]
      /\ \A k \in 1 .. L : ops[k] \in O
  BY DEF Team!Last
<1>2. Len(front) = L - 1 /\ DOMAIN front = 1 .. (L - 1) /\ \A k \in 1 .. (L - 1) : front[k] = ops[k]
  <2>1. L - 1 \in Nat /\ L - 1 <= L
    BY <1>1
  <2>2. front = SubSeq(ops, 1, L - 1)
    BY DEF Team!Front
  <2> HIDE DEF front
  <2>3. front \in Seq(O) /\ Len(front) = L - 1 /\ \A k \in 1 .. (L - 1) : front[k] = ops[k]
    BY <2>1, <2>2, PartOf
  <2>4. DOMAIN front = 1 .. Len(front)
    BY <2>3
  <2> QED
    BY <2>3, <2>4
<1>3. Team!NoTeam \in V
  BY DEF Team!NoTeam, TeamStates
<1>4. \A k \in 1 .. L : \A t \in V : Team!Changed(t, ops[k]) \in V
  BY <1>1, TeamStep
<1> HIDE DEF V, front
<1>9. \A k \in 1 .. (L - 1) : k \in 1 .. L
  BY <1>1
<1>5. \A k \in 1 .. Len(front) : \A t \in V : Team!Changed(t, front[k]) \in V
  BY <1>2, <1>4, <1>9
<1>6. PICK f : /\ IsRecursive(f, V, Team!NoTeam, L, TeamSteps(ops, V))
               /\ Team!TeamAfter(ops) = f[L]
  <2>1. Len(ops) \in Nat /\ DOMAIN ops = 1 .. Len(ops)
    OBVIOUS
  <2> QED
    BY <1>3, <1>4, <2>1, TeamFolds, Zenon
<1>7. PICK g : /\ IsRecursive(g, V, Team!NoTeam, Len(front), TeamSteps(front, V))
               /\ Team!TeamAfter(front) = g[Len(front)]
  <2>1. Len(front) \in Nat /\ DOMAIN front = 1 .. Len(front)
    BY <1>1, <1>2
  <2> QED
    BY <1>3, <1>5, <2>1, TeamFolds, Zenon
<1>8. \A k \in 1 .. (L - 1) : \A v \in V : TeamSteps(ops, V)[k][v] = TeamSteps(front, V)[k][v]
  BY <1>2, <1>9 DEF TeamSteps
<1>10. L - 1 \in Nat /\ L - 1 <= L /\ L \in Nat /\ L - 1 \in 0 .. (L - 1) /\ L \in 1 .. L
  BY <1>1
<1>11. f[L - 1] = g[L - 1]
  <2>1. IsRecursive(g, V, Team!NoTeam, L - 1, TeamSteps(front, V))
    BY <1>2, <1>7
  <2> HIDE DEF L
  <2> QED
    BY <1>3, <1>6, <1>8, <1>10, <2>1, RecursionsAgree
<1>12. Team!TeamAfter(front) = g[L - 1] /\ g[L - 1] \in V
  BY <1>2, <1>7, <1>10 DEF IsRecursive
<1>13. f[L] = Team!Changed(f[L - 1], ops[L])
  <2>1. f[L] = TeamSteps(ops, V)[L][f[L - 1]]
    BY <1>6, <1>10 DEF IsRecursive
  <2> QED
    BY <1>10, <1>11, <1>12, <2>1 DEF TeamSteps
<1> QED
  BY <1>1, <1>6, <1>11, <1>12, <1>13 DEF V, front

\* A team keeps the others of every history of operations.
LEMMA TeamKept ==
  ASSUME NEW ids, NEW names, NEW modes, "none" \in modes, Team!Nobody \notin ids, Team!Nobody \notin names,
         NEW O, NEW ops \in Seq(O), ops # <<>>, \A op \in O : TeamOpOf(op, ids, names, modes)
  PROVE  Team!OthersAreKept(ops)
<1> DEFINE before == Team!TeamAfter(Team!Front(ops))
           after == Team!TeamAfter(ops)
           op == Team!Last(ops)
           s == before.members
           t == after.members
           M == Members(ids, names, modes)
<1>1. op \in O
  <2>1. Len(ops) \in 1 .. Len(ops)
    OBVIOUS
  <2> QED
    BY <2>1 DEF Team!Last
<1>2. before \in TeamStates(ids, names, modes) /\ after = Team!Changed(before, op)
  BY LastChange, Zenon
<1> HIDE DEF before, after, op
<1>3. after \in TeamStates(ids, names, modes)
      /\ (before.exists /\ op.kind \notin {"create", "cleanup"} => MembersKept(op, s, t))
  BY <1>1, <1>2, TeamStep
<1>4. s \in Seq(M) /\ t \in Seq(M)
  BY <1>2, <1>3 DEF TeamStates, Members
<1> HIDE DEF s, t, M
<1>5. /\ DOMAIN s = 1 .. Len(s) /\ DOMAIN t = 1 .. Len(t)
      /\ Len(s) = Len(t) => DOMAIN s = DOMAIN t
  BY <1>4
<1> DEFINE others(y) == Team!Selected(y.members, LAMBDA m : ~(m.id = op.id \/ m.name = op.name))
<1>6. others(before) = Picked(s, Others(op, s)) /\ others(after) = Picked(t, Others(op, t))
  BY TeamPicks, Zenon DEF Team!Selected, Others, Named, s, t
<1>7. ASSUME before.exists, op.kind \notin {"create", "cleanup"}
      PROVE  /\ others(after) = others(before)
             /\ op.kind = "remove" => \A i \in DOMAIN t : ~(t[i].id = op.id \/ t[i].name = op.name)
             /\ op.kind = "remove_member" =>
                   /\ \A i \in DOMAIN s : s[i].id # op.id => Team!Contains(t, s[i])
                   /\ Len(t) = Len(s) - IF \E i \in DOMAIN s : s[i].id = op.id THEN 1 ELSE 0
             /\ op.kind \in {"mode", "active"} =>
                   /\ [i \in DOMAIN t |-> <<t[i].id, t[i].name>>] = [i \in DOMAIN s |-> <<s[i].id, s[i].name>>]
                   /\ op.kind = "active" => [i \in DOMAIN t |-> t[i].mode] = [i \in DOMAIN s |-> s[i].mode]
             /\ op.kind = "mode" /\ (\E i \in DOMAIN s : s[i].name = op.name) =>
                   t[FirstPlace(WithName(t, op.name))].mode = op.mode
  <2>1. MembersKept(op, s, t)
    BY <1>3, <1>7
  <2>2. others(after) = others(before)
    BY <1>6, <2>1 DEF MembersKept
  <2> HIDE DEF others
  <2>3. op.kind = "remove" => \A i \in DOMAIN t : ~(t[i].id = op.id \/ t[i].name = op.name)
    BY <2>1 DEF MembersKept, Named
  <2>4. op.kind = "remove_member" =>
           /\ \A i \in DOMAIN s : s[i].id # op.id => Team!Contains(t, s[i])
           /\ Len(t) = Len(s) - IF \E i \in DOMAIN s : s[i].id = op.id THEN 1 ELSE 0
    BY <2>1, Zenon DEF MembersKept, Team!Contains
  <2>5. ASSUME op.kind \in {"mode", "active"}
        PROVE  /\ [i \in DOMAIN t |-> <<t[i].id, t[i].name>>] = [i \in DOMAIN s |-> <<s[i].id, s[i].name>>]
               /\ op.kind = "active" => [i \in DOMAIN t |-> t[i].mode] = [i \in DOMAIN s |-> s[i].mode]
    <3>1. /\ DOMAIN s = DOMAIN t
          /\ \A i \in DOMAIN s : t[i].id = s[i].id /\ t[i].name = s[i].name
          /\ op.kind = "active" => t = s
      BY <1>5, <2>1, <2>5 DEF MembersKept
    <3> QED
      BY <3>1
  <2>6. op.kind = "mode" /\ (\E i \in DOMAIN s : s[i].name = op.name) =>
           t[FirstPlace(WithName(t, op.name))].mode = op.mode
    BY <2>1 DEF MembersKept
  <2> QED
    BY <2>2, <2>3, <2>4, <2>5, <2>6
<1>8. Team!FirstOf(after, LAMBDA m : m.name = op.name) = FirstPlace(WithName(t, op.name))
  BY Zenon DEF Team!FirstOf, Team!SelectInSeq, FirstPlace, WithName, t
<1> HIDE DEF others
<1> QED
  BY <1>7, <1>8, Zenon DEF Team!OthersAreKept, before, after, op, s, t, others

-----------------------------------------------------------------------------
(* What a run comes to.  Its messages tell of its events up to the abort   *)
(* (Hears), so that the last answer is that of the last event that says    *)
(* something, and the tools counted are those asked for.                   *)

\* run_agent.py: what the events of an agent's loop are.
EventTypes == {"text", "tool_use", "tool_result", "thinking", "error", "raised", "result", "usage", "stop"}
Spoken == {"text", "tool_use", "tool_result", "thinking"}
EventsWith(C) == [type : EventTypes, content : C]
MessagesWith(C) == [type : {"assistant", "error", "result"},
                block : [type : EventTypes \cup {"none"}, content : C]]

\* Again for the operators of this instance.
LEMMA ResultsPicks == \A s, T : Results!Picked(s, T) = Picked(s, T)
  BY DEF Results!Picked, Picked

LEMMA ResultsFlatten == \A s : Results!FlattenSeq(s) = FlattenSeq(s)
  BY DEF Results!FlattenSeq, FlattenSeq

LEMMA ResultsCardinality == \A T : Results!Cardinality(T) = Cardinality(T)
  BY DEF Results!Cardinality, Cardinality

LEMMA ResultsMax == \A T : Results!Max(T) = Greatest(T)
  BY DEF Results!Max, Greatest

\* Message m tells of event e.
Tells(m, e) ==
    /\ m.type = "assistant" <=> e.type \in Spoken
    /\ e.type \in Spoken => m.block.content = e.content
    /\ e.type \in Spoken => (m.block.type = "tool_use" <=> e.type = "tool_use")
    /\ e.type \in Spoken =>
           (m.block.type = "text" <=>
                e.type = "text" \/ (e.type = "thinking" /\ e.content = Results!Empty))

\* An event that the agent speaks with comes to a message that tells of it.
LEMMA MessageIs ==
  ASSUME NEW C, Results!Empty \in C, NEW e \in EventsWith(C)
  PROVE  /\ Results!MessageOf(e) \in Seq(MessagesWith(C)) /\ Len(Results!MessageOf(e)) \in {0, 1}
         /\ e.type \in Spoken => Len(Results!MessageOf(e)) = 1
         /\ Len(Results!MessageOf(e)) = 1 =>
                Tells(Results!MessageOf(e)[1], e)
<1> DEFINE x == Results!MessageOf(e)
           b == Results!EventToContent(e)
<1>0. e.type \in EventTypes /\ e.content \in C /\ e \in [type : EventTypes, content : C]
  BY DEF EventsWith
<1>1. CASE e.type \in Spoken
  <2>1. x = <<Results!Message("assistant", b)>>
    <3>1. e.type \in {"text", "tool_use", "tool_result", "thinking"}
      BY <1>1 DEF Spoken
    <3>2. e.type \notin {"error", "raised"} /\ e.type # "result" /\ e.type \notin {"usage", "stop"}
      BY <1>1 DEF Spoken
    <3> HIDE DEF b
    <3> QED
      BY <3>1, <3>2, Zenon DEF Results!MessageOf, b
  <2>2. /\ b.content = e.content /\ b \in [type : EventTypes \cup {"none"}, content : C]
        /\ b.type = "tool_use" <=> e.type = "tool_use"
        /\ b.type = "text" <=> e.type = "text" \/ (e.type = "thinking" /\ e.content = Results!Empty)
    <3>1. CASE e.type \in {"text", "thinking"} /\ e.content = Results!Empty
      <4>1. b = [type |-> "text", content |-> e.content]
        BY <3>1 DEF Results!EventToContent, Results!Event
      <4> HIDE DEF b
      <4> QED
        BY <1>0, <3>1, <4>1 DEF EventTypes
    <3>2. CASE ~(e.type \in {"text", "thinking"} /\ e.content = Results!Empty)
      <4>1. b = e
        BY <3>2 DEF Results!EventToContent
      <4>2. e \in [type : EventTypes \cup {"none"}, content : C]
        BY <1>0
      <4>3. ~(e.type = "thinking" /\ e.content = Results!Empty)
        BY <3>2
      <4>4. e.content = e.content /\ (e.type = "text" <=> e.type = "text" \/ (e.type = "thinking" /\ e.content = Results!Empty))
        BY <4>3, Zenon
      <4> HIDE DEF b
      <4> QED
        BY <4>1, <4>2, <4>4, Zenon
    <3> QED
      BY <3>1, <3>2
  <2> HIDE DEF b, x
  <2>3. x = <<[type |-> "assistant", block |-> b]>> /\ [type |-> "assistant", block |-> b] \in MessagesWith(C)
    BY <2>1, <2>2 DEF Results!Message, MessagesWith
  <2>4. x \in Seq(MessagesWith(C)) /\ Len(x) = 1 /\ x[1].type = "assistant" /\ x[1].block = b
    BY <2>3
  <2> QED
    BY <1>1, <2>2, <2>4 DEF x, Tells
<1>2. CASE e.type \notin Spoken
  <2>1. \/ x = <<Results!Message("error", Results!NoBlock)>>
        \/ x = <<Results!Message("result", Results!NoBlock)>>
        \/ x = <<>>
    <3>1. e.type \in {"error", "raised", "result", "usage", "stop"}
          /\ e.type \notin {"text", "tool_use", "tool_result", "thinking"}
      BY <1>0, <1>2 DEF EventTypes, Spoken
    <3>2. CASE e.type \in {"error", "raised"}
      <4>1. e.type # "result" /\ e.type \notin {"usage", "stop"}
        BY <3>2
      <4> QED
        BY <3>1, <3>2, <4>1, Zenon DEF Results!MessageOf
    <3>3. CASE e.type = "result"
      <4>1. e.type \notin {"error", "raised"} /\ e.type \notin {"usage", "stop"}
        BY <3>3
      <4> QED
        BY <3>1, <3>3, <4>1, Zenon DEF Results!MessageOf
    <3>4. CASE e.type \in {"usage", "stop"}
      <4>1. e.type \notin {"error", "raised"} /\ e.type # "result"
        BY <3>4
      <4> QED
        BY <3>1, <3>4, <4>1, Zenon DEF Results!MessageOf
    <3> QED
      BY <3>1, <3>2, <3>3, <3>4
  <2>2. ASSUME NEW t \in {"error", "result"}
        PROVE  Results!Message(t, Results!NoBlock) \in MessagesWith(C) /\ Results!Message(t, Results!NoBlock).type = t
    BY DEF Results!Message, Results!NoBlock, Results!Event, MessagesWith
  <2> HIDE DEF x
  <2> DEFINE Fits(y) == y \in Seq(MessagesWith(C)) /\ Len(y) \in {0, 1} /\ (Len(y) = 1 => y[1].type # "assistant")
  <2>4. ASSUME NEW t \in {"error", "result"} PROVE Fits(<<Results!Message(t, Results!NoBlock)>>)
    <3> DEFINE m == Results!Message(t, Results!NoBlock)
    <3>1. m \in MessagesWith(C) /\ m.type # "assistant"
      BY <2>2
    <3> HIDE DEF m
    <3>2. Fits(<<m>>)
      BY <3>1
    <3> QED
      BY <3>2 DEF m
  <2>5. Fits(<<>>)
    OBVIOUS
  <2> HIDE DEF Fits
  <2>6. Fits(x)
    BY <2>1, <2>4, <2>5
  <2>3. x \in Seq(MessagesWith(C)) /\ Len(x) \in {0, 1} /\ (Len(x) = 1 => x[1].type # "assistant")
    BY <2>6 DEF Fits
  <2> QED
    BY <1>2, <2>3 DEF x, Tells
<1> QED
  BY <1>1, <1>2

\* The last of what is picked is at the greatest place.
LEMMA LastPicked ==
  ASSUME NEW V, NEW s \in Seq(V), NEW T \in SUBSET (1 .. Len(s))
  PROVE  /\ Picked(s, T) = <<>> <=> T = {}
         /\ \A g \in T : (\A t \in T : t <= g) => Picked(s, T)[Len(Picked(s, T))] = s[g]
<1> DEFINE p == Picked(s, T)
           n == Len(p)
<1>1. p \in Seq(V)
  BY PickedAt
<1>2. PICK at : Enumerates(at, Len(p), T) /\ \A i \in 1 .. Len(p) : p[i] = s[at[i]]
  BY PickedAt
<1> HIDE DEF p
<1>3. n \in Nat
  BY <1>1
<1>4. /\ at \in [1 .. n -> T] /\ \A i, j \in 1 .. n : i < j => at[i] < at[j]
      /\ \A t \in T : \E i \in 1 .. n : at[i] = t
  BY <1>2 DEF Enumerates
<1>5. p = <<>> <=> n = 0
  BY <1>1
<1> HIDE DEF n
<1>6. n = 0 <=> T = {}
  <2>1. n = 0 => 1 .. n = {}
    BY <1>3
  <2>2. n # 0 => n \in 1 .. n
    BY <1>3
  <2> QED
    BY <1>4, <2>1, <2>2
<1>7. ASSUME NEW g \in T, \A t \in T : t <= g PROVE p[n] = s[g]
  <2>1. PICK i \in 1 .. n : at[i] = g
    BY <1>4
  <2>2. n \in 1 .. n /\ i <= n
    BY <1>3
  <2>6. at[n] \in T /\ \A t \in T : t \in Nat
    BY <1>4, <2>2
  <2>3. at[n] \in T /\ at[n] <= g /\ at[n] \in Nat /\ g \in Nat
    BY <1>7, <2>6
  <2>4. ~(i < n)
    BY <1>4, <2>1, <2>2, <2>3
  <2>5. i = n
    BY <1>3, <2>2, <2>4
  <2> QED
    BY <1>2, <2>1, <2>2, <2>5 DEF n
<1> QED
  BY <1>5, <1>6, <1>7 DEF p, n

\* local_agent_task.py: the progress of an agent, as a fold over its messages.
ProgressSteps(messages, V) ==
    [k \in 1 .. Len(messages) |-> [t \in V |-> Results!UpdateProgress(t, messages[k])]]

\* Progress is what one message after the other makes of it.
LEMMA ProgressFolds ==
  ASSUME NEW V, Results!NoProgress \in V, NEW ops, Len(ops) \in Nat, DOMAIN ops = 1 .. Len(ops),
         \A k \in 1 .. Len(ops) : \A t \in V : Results!UpdateProgress(t, ops[k]) \in V
  PROVE  \E f : /\ IsRecursive(f, V, Results!NoProgress, Len(ops), ProgressSteps(ops, V))
                /\ Results!Progress(ops) = f[Len(ops)]
<1> DEFINE L == Len(ops)
           step == ProgressSteps(ops, V)
           Eq(g) == g = [T \in SUBSET (DOMAIN ops) |->
                           IF T = {} THEN Results!NoProgress
                           ELSE Results!UpdateProgress(g[T \ {Results!Max(T)}], ops[Results!Max(T)])]
           h == CHOOSE g : Eq(g)
           f == [k \in 0 .. L |-> h[1 .. k]]
<1>1. step \in [1 .. L -> [V -> V]] /\ \A k \in 1 .. L : \A v \in V : step[k][v] = Results!UpdateProgress(v, ops[k])
  BY DEF ProgressSteps
<1> HIDE DEF step
<1>2. PICK g : IsFold(g, V, Results!NoProgress, L, step)
  <2> HIDE DEF L
  <2> QED
    BY <1>1, FoldExists, Zenon DEF L
<1>3. Eq(g)
  <2>1. ASSUME NEW T \in SUBSET (1 .. L)
        PROVE  g[T] = IF T = {} THEN Results!NoProgress
                      ELSE Results!UpdateProgress(g[T \ {Results!Max(T)}], ops[Results!Max(T)])
    <3>1. T # {} => Greatest(T) \in 1 .. L
      BY GreatestIs
    <3>2. g[T \ {Greatest(T)}] \in V
      BY <1>2 DEF IsFold
    <3> HIDE DEF L
    <3> QED
      BY <1>1, <1>2, <3>1, <3>2, ResultsMax DEF IsFold
  <2>2. g = [T \in SUBSET (DOMAIN ops) |-> g[T]]
    BY <1>2 DEF IsFold
  <2> QED
    BY <2>1, <2>2, Zenon
<1>4. Eq(h)
  <2> HIDE DEF Eq
  <2> QED
    BY <1>3
<1>5. Results!Progress(ops) = h[DOMAIN ops]
  BY Zenon DEF Results!Progress, Results!FoldLeft, Results!MapThenFoldSet
<1> HIDE DEF h
<1>6. h[{}] = Results!NoProgress
  BY <1>4
<1>7. ASSUME NEW k \in 1 .. L PROVE h[1 .. k] = Results!UpdateProgress(h[1 .. (k - 1)], ops[k])
  <2>1. /\ 1 .. k \in SUBSET (DOMAIN ops) /\ 1 .. k # {} /\ Results!Max(1 .. k) = k
        /\ (1 .. k) \ {k} = 1 .. (k - 1)
    BY Segments, ResultsMax
  <2> DEFINE W == 1 .. k
  <2>2. h[W] = Results!UpdateProgress(h[W \ {Results!Max(W)}], ops[Results!Max(W)])
    <3> HIDE DEF W
    <3>1. W \in SUBSET (DOMAIN ops) /\ W # {}
      BY <2>1 DEF W
    <3> QED
      BY <1>4, <3>1
  <2> HIDE DEF W
  <2>3. Results!Max(W) = k /\ W \ {k} = 1 .. (k - 1)
    BY <2>1 DEF W
  <2> QED
    BY <2>2, <2>3, Zenon DEF W
<1>8. f[0] = Results!NoProgress /\ \A k \in 1 .. L : f[k] = Results!UpdateProgress(f[k - 1], ops[k])
  <2>1. 1 .. 0 = {} /\ 0 \in 0 .. L /\ f[0] = h[1 .. 0]
    OBVIOUS
  <2>2. ASSUME NEW k \in 1 .. L PROVE f[k] = h[1 .. k] /\ f[k - 1] = h[1 .. (k - 1)]
    <3>1. k \in 0 .. L /\ k - 1 \in 0 .. L
      OBVIOUS
    <3> QED
      BY <3>1
  <2> HIDE DEF f
  <2>3. f[0] = Results!NoProgress
    BY <1>6, <2>1
  <2>4. \A k \in 1 .. L : f[k] = Results!UpdateProgress(f[k - 1], ops[k])
    BY <1>7, <2>2
  <2> QED
    BY <2>3, <2>4
<1>9. Results!Progress(ops) = f[L]
  BY <1>5
<1>10. f = [k \in 0 .. L |-> f[k]] /\ \A k \in 1 .. L : k - 1 \in 0 .. L /\ k \in 0 .. L
  OBVIOUS
<1> HIDE DEF f
<1>11. \A k \in 0 .. L : f[k] \in V
  <2> HIDE DEF L
  <2>1. f[0] \in V /\ L \in Nat
    BY <1>8 DEF L
  <2>2. \A k \in 1 .. L : f[k - 1] \in V => f[k] \in V
    BY <1>8 DEF L
  <2> QED
    BY <2>1, <2>2, Stays
<1>12. IsRecursive(f, V, Results!NoProgress, L, step)
  <2>1. f \in [0 .. L -> V]
    BY <1>10, <1>11
  <2>2. \A k \in 1 .. L : f[k] = step[k][f[k - 1]]
    BY <1>1, <1>8, <1>10, <1>11
  <2> QED
    BY <1>8, <2>1, <2>2 DEF IsRecursive
<1> QED
  BY <1>9, <1>12 DEF step

\* The last of a sequence, up to so many.
AtMost(n, max) == IF n < max THEN n ELSE max
LastOf(s, max) == SubSeq(s, Len(s) - AtMost(Len(s), max) + 1, Len(s))

LEMMA AtMostIs ==
  ASSUME NEW n \in Nat, NEW max \in Nat
  PROVE  /\ AtMost(n, max) \in 0 .. n
         /\ max # 0 => AtMost(AtMost(n, max) + 1, max) = AtMost(n + 1, max)
         /\ max # 0 => AtMost(n + 1, max) \in 1 .. (AtMost(n, max) + 1)
  BY DEF AtMost

\* The last elements of a sequence, no more than max.
LEMMA LastOfIs ==
  ASSUME NEW V, NEW s \in Seq(V), NEW max \in Nat
  PROVE  /\ LastOf(s, max) \in Seq(V) /\ Len(LastOf(s, max)) = AtMost(Len(s), max)
         /\ \A i \in 1 .. AtMost(Len(s), max) :
                LastOf(s, max)[i] = s[Len(s) - AtMost(Len(s), max) + i]
<1> DEFINE n == Len(s)
           m == AtMost(n, max)
           a == n - m + 1
<1>0. n \in Nat
  OBVIOUS
<1>2. LastOf(s, max) = SubSeq(s, a, n)
  BY DEF LastOf
<1> HIDE DEF n
<1>9. m \in 0 .. n
  BY <1>0, AtMostIs
<1> HIDE DEF m
<1>3. m \in 0 .. n /\ a \in 1 .. (n + 1) /\ a + m = n + 1
  BY <1>0, <1>9
<1>1. n \in Nat /\ m \in 0 .. n /\ a \in 1 .. (n + 1) /\ n = Len(s)
  BY <1>0, <1>3 DEF n
<1>7. \A i \in 1 .. m : a + i - 1 = n - m + i
  BY <1>0, <1>3 DEF a
<1> HIDE DEF a
<1>4. SubSeq(s, a, n) \in Seq(V)
  BY <1>1
<1>5. Len(SubSeq(s, a, n)) = m
  BY <1>1, <1>3
<1>6. \A i \in 1 .. m : SubSeq(s, a, n)[i] = s[a + i - 1]
  BY <1>1, <1>3
<1>8. LastOf(s, max) \in Seq(V) /\ Len(LastOf(s, max)) = m
      /\ \A i \in 1 .. m : LastOf(s, max)[i] = s[n - m + i]
  BY <1>1, <1>2, <1>4, <1>5, <1>6, <1>7
<1> QED
  BY <1>8 DEF n, m

\* Sequences that have the same elements are the same.
LEMMA SameElements ==
  ASSUME NEW V, NEW s \in Seq(V), NEW t \in Seq(V), Len(s) = Len(t), \A i \in 1 .. Len(s) : s[i] = t[i]
  PROVE  s = t
<1> DEFINE n == Len(s)
<1>1. s = [i \in 1 .. n |-> s[i]] /\ t = [i \in 1 .. n |-> t[i]] /\ \A i \in 1 .. n : s[i] = t[i]
  OBVIOUS
<1> HIDE DEF n
<1> QED
  BY <1>1, Zenon

\* One more at the end of the last of s makes the last of one more.
LEMMA LastOfMore ==
  ASSUME NEW V, NEW s \in Seq(V), NEW x \in V, NEW max \in Nat, max # 0
  PROVE  LastOf(Append(LastOf(s, max), x), max) = LastOf(Append(s, x), max)
<1> DEFINE n == Len(s)
           m == AtMost(n, max)
           r == LastOf(s, max)
           rx == Append(r, x)
           sx == Append(s, x)
           k == AtMost(n + 1, max)
<1>0. r \in Seq(V) /\ Len(r) = m /\ \A i \in 1 .. m : r[i] = s[n - m + i]
  <2> HIDE DEF r
  <2> QED
    BY LastOfIs, Zenon DEF r
<1>9. n \in Nat
  OBVIOUS
<1>10. m \in 0 .. n /\ k = AtMost(m + 1, max) /\ k \in 1 .. (m + 1)
  <2> HIDE DEF n
  <2> QED
    BY <1>9, AtMostIs
<1> HIDE DEF r, m
<1>1. r \in Seq(V) /\ m \in 0 .. n /\ Len(r) = m /\ n \in Nat /\ \A i \in 1 .. m : r[i] = s[n - m + i]
  BY <1>0, <1>9, <1>10
<1>2. /\ rx \in Seq(V) /\ Len(rx) = m + 1 /\ rx[m + 1] = x /\ \A i \in 1 .. m : rx[i] = r[i]
      /\ sx \in Seq(V) /\ Len(sx) = n + 1 /\ sx[n + 1] = x /\ \A i \in 1 .. n : sx[i] = s[i]
  BY <1>1
<1>8. n + 1 \in Nat /\ k \in 1 .. (m + 1) /\ m <= n
  BY <1>1, <1>10
<1> HIDE DEF rx, sx
<1>4. /\ LastOf(sx, max) \in Seq(V) /\ Len(LastOf(sx, max)) = k
      /\ \A i \in 1 .. k : LastOf(sx, max)[i] = sx[n + 1 - k + i]
  <2>1. k = AtMost(Len(sx), max)
    BY <1>2
  <2> HIDE DEF k
  <2>2. /\ LastOf(sx, max) \in Seq(V) /\ Len(LastOf(sx, max)) = k
        /\ \A i \in 1 .. k : LastOf(sx, max)[i] = sx[Len(sx) - k + i]
    BY <1>2, <2>1, LastOfIs
  <2>3. Len(sx) = n + 1
    BY <1>2
  <2> QED
    BY <2>2, <2>3
<1>5. /\ LastOf(rx, max) \in Seq(V) /\ Len(LastOf(rx, max)) = k
      /\ \A i \in 1 .. k : LastOf(rx, max)[i] = rx[m + 1 - k + i]
  <2>1. k = AtMost(Len(rx), max)
    BY <1>2, <1>10
  <2> HIDE DEF k
  <2>2. /\ LastOf(rx, max) \in Seq(V) /\ Len(LastOf(rx, max)) = k
        /\ \A i \in 1 .. k : LastOf(rx, max)[i] = rx[Len(rx) - k + i]
    BY <1>2, <2>1, LastOfIs
  <2>3. Len(rx) = m + 1 /\ m \in Nat
    BY <1>1, <1>2
  <2> QED
    BY <2>2, <2>3
<1> HIDE DEF k, m, n
<1>6. ASSUME NEW i \in 1 .. k PROVE rx[m + 1 - k + i] = sx[n + 1 - k + i]
  <2> DEFINE p == m + 1 - k + i
             q == n + 1 - k + i
  <2>1. m \in Nat /\ n \in Nat /\ k \in Nat /\ p \in 1 .. (m + 1) /\ q = n - m + p
    BY <1>1, <1>8
  <2>2. CASE p = m + 1
    <3>1. q = n + 1
      BY <2>1, <2>2
    <3> HIDE DEF p, q
    <3>2. rx[p] = sx[q]
      BY <1>2, <2>2, <3>1
    <3> QED
      BY <3>2 DEF p, q
  <2>3. CASE p # m + 1
    <3>1. p \in 1 .. m /\ q \in 1 .. n
      BY <1>8, <2>1, <2>3
    <3> HIDE DEF p, q
    <3>2. rx[p] = r[p] /\ r[p] = s[n - m + p] /\ sx[q] = s[q]
      BY <1>1, <1>2, <3>1
    <3>3. rx[p] = sx[q]
      BY <2>1, <3>2
    <3> QED
      BY <3>3 DEF p, q
  <2> QED
    BY <2>2, <2>3
<1>7. \A i \in 1 .. k : LastOf(rx, max)[i] = LastOf(sx, max)[i]
  BY <1>4, <1>5, <1>6
<1> QED
  BY <1>4, <1>5, <1>7, SameElements DEF rx, sx, r

\* The messages tell of the first n events, each of that at its place.
Hears(at, messages, events, n) ==
    /\ at \in [1 .. Len(messages) -> 1 .. n]
    /\ \A i, j \in 1 .. Len(messages) : i < j => at[i] < at[j]
    /\ \A k \in 1 .. n : events[k].type \in Spoken => \E i \in 1 .. Len(messages) : at[i] = k
    /\ \A i \in 1 .. Len(messages) : Tells(messages[i], events[at[i]])

\* The messages of a run tell of what came before it was aborted, in order.
LEMMA RunMessages ==
  ASSUME NEW C, Results!Empty \in C, NEW events \in Seq(EventsWith(C)),
         NEW abort \in 1 .. (Len(events) + 1)
  PROVE  /\ Results!RunAgent(events, abort) \in Seq(MessagesWith(C))
         /\ \E at : Hears(at, Results!RunAgent(events, abort), events, abort - 1)
<1> DEFINE n == abort - 1
           V == MessagesWith(C)
           s == [i \in 1 .. n |-> Results!MessageOf(events[i])]
           messages == FlattenSeq(s)
           T == {k \in 1 .. Len(s) : Len(s[k]) = 1}
<1>1. n \in Nat /\ \A k \in 1 .. n : k \in 1 .. Len(events) /\ events[k] \in EventsWith(C)
  OBVIOUS
<1>2. Results!RunAgent(events, abort) = messages
  BY ResultsFlatten DEF Results!RunAgent
<1>3. \A k \in 1 .. n : s[k] = Results!MessageOf(events[k])
  OBVIOUS
<1>11. s = [i \in 1 .. n |-> s[i]]
  OBVIOUS
<1> HIDE DEF n, V, s
<1>4. ASSUME NEW k \in 1 .. n
      PROVE  /\ s[k] \in Seq(V) /\ Len(s[k]) \in {0, 1}
             /\ events[k].type \in Spoken => Len(s[k]) = 1
             /\ Len(s[k]) = 1 => Tells(s[k][1], events[k])
  <2>1. events[k] \in EventsWith(C) /\ s[k] = Results!MessageOf(events[k])
    BY <1>1, <1>3
  <2> QED
    BY <2>1, MessageIs DEF V
<1>5. s \in Seq(Seq(V)) /\ Len(s) = n
  <2>1. s \in [1 .. n -> Seq(V)]
    BY <1>4, <1>11
  <2> QED
    BY <1>1, <2>1
<1>6. \A k \in 1 .. Len(s) : Len(s[k]) \in {0, 1}
  BY <1>4, <1>5
<1>7. messages \in Seq(V)
  BY <1>5, <1>6, FlattenAt
<1>8. PICK at : /\ Enumerates(at, Len(messages), T)
                /\ \A i \in 1 .. Len(messages) : messages[i] = s[at[i]][1]
  BY <1>5, <1>6, FlattenAt
<1> HIDE DEF messages
<1>9. \A k : k \in T <=> k \in 1 .. n /\ Len(s[k]) = 1
  BY <1>5
<1> HIDE DEF T
<1>10. Hears(at, messages, events, n)
  <2>1. at \in [1 .. Len(messages) -> T] /\ \A i, j \in 1 .. Len(messages) : i < j => at[i] < at[j]
    BY <1>8 DEF Enumerates
  <2>2. at \in [1 .. Len(messages) -> 1 .. n]
    BY <1>9, <2>1
  <2>3. \A k \in 1 .. n : events[k].type \in Spoken => \E i \in 1 .. Len(messages) : at[i] = k
    BY <1>4, <1>8, <1>9 DEF Enumerates
  <2>4. ASSUME NEW i \in 1 .. Len(messages) PROVE Tells(messages[i], events[at[i]])
    <3>1. at[i] \in 1 .. n /\ Len(s[at[i]]) = 1 /\ messages[i] = s[at[i]][1]
      BY <1>8, <1>9, <2>1
    <3> QED
      BY <1>4, <3>1
  <2> QED
    BY <2>1, <2>2, <2>3, <2>4 DEF Hears
<1> QED
  BY <1>2, <1>7, <1>10 DEF n, V

\* What answers of a message, and what asks for a tool.
Answer(m) == m.type = "assistant" /\ m.block.type = "text" /\ m.block.content # Results!Empty
Ask(m) == m.type = "assistant" /\ m.block.type = "tool_use"
Says(e) == e.type = "text" /\ e.content # Results!Empty

\* Where messages answer, and where events say something and ask for a tool.
Answering(messages) == {i \in 1 .. Len(messages) : Answer(messages[i])}
Saying(heard) == {k \in DOMAIN heard : Says(heard[k])}
Calling(heard) == {k \in DOMAIN heard : heard[k].type = "tool_use"}

\* A message answers, or asks for a tool, if its event does.
LEMMA TellsAlike ==
  ASSUME NEW m, NEW e, Tells(m, e)
  PROVE  /\ Answer(m) <=> Says(e)
         /\ Ask(m) <=> e.type = "tool_use"
         /\ Answer(m) \/ Ask(m) => m.block.content = e.content
         /\ m.type = "assistant" /\ m.block.type = "text" =>
                \/ Says(e)
                \/ e.type \in {"text", "thinking"} /\ e.content = Results!Empty
  BY DEF Tells, Answer, Ask, Says, Spoken

LEMMA ResultsGreatest ==
  ASSUME NEW S \in SUBSET Nat, NEW m \in S, \A i \in S : i <= m
  PROVE  Results!Greatest(S) = m
<1>1. \A i \in S : (\A j \in S : j <= i) => i = m
  <2>1. ASSUME NEW i \in S, \A j \in S : j <= i PROVE i = m
    <3>1. i \in Nat /\ m \in Nat /\ i <= m /\ m <= i
      BY <2>1
    <3> QED
      BY <3>1
  <2> QED
    BY <2>1
<1> QED
  BY <1>1 DEF Results!Greatest

LEMMA GreatestAt ==
  ASSUME NEW L \in Nat, NEW S \in SUBSET (1 .. L), S # {}
  PROVE  Results!Greatest(S) \in S /\ \A i \in S : i <= Results!Greatest(S)
<1> DEFINE g == Greatest(S)
<1>1. g \in S /\ \A i \in S : g >= i
  BY GreatestIs
<1> HIDE DEF g
<1>2. S \in SUBSET Nat
  OBVIOUS
<1>3. \A i \in S : i <= g
  <2>1. ASSUME NEW i \in S PROVE i <= g
    <3>1. i \in Nat /\ g \in Nat /\ g >= i
      BY <1>1, <1>2
    <3> QED
      BY <3>1
  <2> QED
    BY <2>1
<1>4. Results!Greatest(S) = g
  BY <1>1, <1>2, <1>3, ResultsGreatest
<1> QED
  BY <1>1, <1>3, <1>4

LastAgrees(messages, heard) ==
    LET S == Answering(messages)
        texts == Picked(heard, Saying(heard))
    IN  /\ S = {} <=> texts = <<>>
        /\ S # {} => /\ Results!Greatest(S) \in S
                     /\ messages[Results!Greatest(S)].block.content = texts[Len(texts)].content

\* The last message that answers tells of the last event that says something.
LEMMA LastAnswer ==
  ASSUME NEW C, NEW messages \in Seq(MessagesWith(C)), NEW events \in Seq(EventsWith(C)), NEW n \in Nat, n <= Len(events),
         NEW at, Hears(at, messages, events, n), NEW heard \in Seq(EventsWith(C)), Len(heard) = n,
         \A k \in 1 .. n : heard[k] = events[k]
  PROVE  LastAgrees(messages, heard)
<1> DEFINE S == Answering(messages)
           T == Saying(heard)
           texts == Picked(heard, T)
<1>1. DOMAIN heard = 1 .. n
  OBVIOUS
<1>2. \A k : k \in T <=> k \in 1 .. n /\ Says(events[k])
  BY <1>1 DEF Saying
<1>3. \A i : i \in S <=> i \in 1 .. Len(messages) /\ Answer(messages[i])
  BY DEF Answering
<1>4. T \in SUBSET (1 .. Len(heard)) /\ S \in SUBSET (1 .. Len(messages)) /\ Len(messages) \in Nat
  BY <1>1 DEF Saying, Answering
<1> HIDE DEF S, T
<1>5. /\ texts = <<>> <=> T = {}
      /\ \A g \in T : (\A t \in T : t <= g) => texts[Len(texts)] = heard[g]
  BY <1>4, LastPicked
<1> HIDE DEF texts
<1>6. \A i \in S : at[i] \in T /\ messages[i].block.content = events[at[i]].content
  BY <1>2, <1>3, TellsAlike DEF Hears
<1>7. ASSUME NEW k \in T PROVE \E i \in S : at[i] = k
  <2>1. events[k].type \in Spoken /\ Says(events[k]) /\ k \in 1 .. n
    BY <1>2 DEF Says, Spoken
  <2>2. PICK i \in 1 .. Len(messages) : at[i] = k
    BY <2>1 DEF Hears
  <2>3. Answer(messages[i])
    BY <2>1, <2>2, TellsAlike DEF Hears
  <2> QED
    BY <1>3, <2>2, <2>3
<1>8. S = {} <=> T = {}
  BY <1>6, <1>7
<1>9. ASSUME S # {}
      PROVE  /\ Results!Greatest(S) \in S
             /\ messages[Results!Greatest(S)].block.content = texts[Len(texts)].content
  <2> DEFINE g == Results!Greatest(S)
  <2>1. g \in S /\ \A i \in S : i <= g
    BY <1>4, <1>9, GreatestAt
  <2> HIDE DEF g
  <2>2. at[g] \in T /\ messages[g].block.content = events[at[g]].content
    BY <1>6, <2>1
  <2>3. ASSUME NEW t \in T PROVE t <= at[g]
    <3>1. PICK i \in S : at[i] = t
      BY <1>7
    <3>2. i \in 1 .. Len(messages) /\ g \in 1 .. Len(messages) /\ i <= g
      BY <1>3, <2>1
    <3>3. at[i] \in 1 .. n /\ at[g] \in 1 .. n
      BY <3>2 DEF Hears
    <3>4. CASE i = g
      BY <3>1, <3>3, <3>4
    <3>5. CASE i < g
      <4>1. at[i] < at[g]
        BY <3>2, <3>5 DEF Hears
      <4> QED
        BY <3>1, <3>3, <4>1
    <3> QED
      BY <3>2, <3>4, <3>5
  <2>4. texts[Len(texts)] = heard[at[g]]
    BY <1>5, <2>2, <2>3
  <2>5. heard[at[g]] = events[at[g]]
    BY <1>2, <2>2
  <2>6. messages[g].block.content = texts[Len(texts)].content
    BY <2>2, <2>4, <2>5
  <2> QED
    BY <2>1, <2>6 DEF g
<1> QED
  BY <1>5, <1>8, <1>9 DEF S, T, texts, LastAgrees

\* Where tools are asked for, and the contents of messages.
Asking(messages) == {i \in 1 .. Len(messages) : Ask(messages[i])}
Contents(messages) == [i \in 1 .. Len(messages) |-> messages[i].block.content]

\* p has what is at these places of s.
IsPicked(p, at, s, T) ==
    Enumerates(at, Len(p), T) /\ \A i \in 1 .. Len(p) : p[i] = s[at[i]]

\* PickedAt in one predicate.
LEMMA PickedIs ==
  ASSUME NEW V, NEW s \in Seq(V), NEW T \in SUBSET (1 .. Len(s))
  PROVE  \E at : IsPicked(Picked(s, T), at, s, T)
<1> DEFINE p == Picked(s, T)
<1>1. PICK at : Enumerates(at, Len(p), T) /\ \A i \in 1 .. Len(p) : p[i] = s[at[i]]
  BY PickedAt
<1> HIDE DEF p
<1>2. IsPicked(p, at, s, T)
  BY <1>1 DEF IsPicked
<1> QED
  BY <1>2 DEF p

AsksAgree(C, messages, heard) ==
    LET calls == Picked(heard, Calling(heard))
        u == Picked(Contents(messages), Asking(messages))
    IN  /\ calls \in Seq(EventsWith(C)) /\ u \in Seq(C) /\ Len(u) = Len(calls)
        /\ Cardinality(Asking(messages)) = Len(calls)
        /\ \A i \in 1 .. Len(calls) : u[i] = calls[i].content

\* The messages that ask for tools tell of the events that do, one by one.
LEMMA CallsAgree ==
  ASSUME NEW C, NEW messages \in Seq(MessagesWith(C)), NEW events \in Seq(EventsWith(C)), NEW n \in Nat, n <= Len(events),
         NEW at, Hears(at, messages, events, n), NEW heard \in Seq(EventsWith(C)), Len(heard) = n,
         \A k \in 1 .. n : heard[k] = events[k]
  PROVE  AsksAgree(C, messages, heard)
<1> DEFINE T == Calling(heard)
           calls == Picked(heard, T)
           U == Asking(messages)
           c == Contents(messages)
           u == Picked(c, U)
           said == [k \in 1 .. n |-> heard[k].content]
           m == [i \in U |-> at[i]]
<1>1. DOMAIN heard = 1 .. n /\ Len(messages) \in Nat
  OBVIOUS
<1>2. \A k : k \in T <=> k \in 1 .. n /\ events[k].type = "tool_use"
  BY <1>1 DEF Calling
<1>3. \A i : i \in U <=> i \in 1 .. Len(messages) /\ Ask(messages[i])
  BY DEF Asking
<1>4. T \in SUBSET (1 .. Len(heard)) /\ U \in SUBSET (1 .. Len(messages))
  BY <1>1 DEF Asking, Calling
<1>5. c \in Seq(C) /\ Len(c) = Len(messages) /\ \A i \in 1 .. Len(messages) : c[i] = messages[i].block.content
  <2>1. \A i \in 1 .. Len(messages) : messages[i] \in MessagesWith(C)
    OBVIOUS
  <2>2. \A i \in 1 .. Len(messages) : messages[i].block.content \in C
    BY <2>1 DEF MessagesWith
  <2>3. c \in [1 .. Len(messages) -> C]
    BY <2>2 DEF Contents
  <2>4. \A i \in 1 .. Len(messages) : c[i] = messages[i].block.content
    BY DEF Contents
  <2> HIDE DEF c
  <2> QED
    BY <1>1, <2>3, <2>4
<1>6. said \in Seq(C) /\ Len(said) = n /\ \A k \in 1 .. n : said[k] = heard[k].content
  <2>1. \A k \in 1 .. n : heard[k] \in EventsWith(C)
    OBVIOUS
  <2>2. \A k \in 1 .. n : heard[k].content \in C
    BY <2>1 DEF EventsWith
  <2>3. said \in [1 .. n -> C] /\ \A k \in 1 .. n : said[k] = heard[k].content
    BY <2>2
  <2> HIDE DEF said
  <2> QED
    BY <2>3
<1> HIDE DEF T, U, c, said
<1>7. ASSUME NEW i \in U PROVE at[i] \in T /\ said[at[i]] = c[i] /\ i \in 1 .. Len(messages)
  <2>1. i \in 1 .. Len(messages) /\ Ask(messages[i])
    BY <1>3
  <2>2. at[i] \in 1 .. n /\ Tells(messages[i], events[at[i]])
    BY <2>1 DEF Hears
  <2>3. events[at[i]].type = "tool_use" /\ messages[i].block.content = events[at[i]].content
    BY <2>1, <2>2, TellsAlike
  <2> QED
    BY <1>2, <1>5, <1>6, <2>1, <2>2, <2>3
<1>8. ASSUME NEW k \in T PROVE \E i \in U : at[i] = k
  <2>1. k \in 1 .. n /\ events[k].type = "tool_use" /\ events[k].type \in Spoken
    BY <1>2 DEF Spoken
  <2>2. PICK i \in 1 .. Len(messages) : at[i] = k
    BY <2>1 DEF Hears
  <2>3. Ask(messages[i])
    BY <2>1, <2>2, TellsAlike DEF Hears
  <2> QED
    BY <1>3, <2>2, <2>3
<1>9. m \in [U -> T] /\ \A i \in U : m[i] = at[i]
  BY <1>7
<1> HIDE DEF m
<1>10. Matches(m, c, U, said, T)
  <2>1. \A i, j \in U : i < j => m[i] < m[j]
    BY <1>7, <1>9 DEF Hears
  <2>2. (\A k \in T : \E i \in U : m[i] = k) /\ \A i \in U : said[m[i]] = c[i]
    BY <1>7, <1>8, <1>9
  <2> QED
    BY <1>9, <2>1, <2>2 DEF Matches
<1>11. U \in SUBSET (1 .. Len(c)) /\ T \in SUBSET (1 .. Len(said))
  BY <1>4, <1>5, <1>6
<1>20. c \in Seq(C) /\ said \in Seq(C)
  BY <1>5, <1>6
<1>12. u = Picked(said, T)
  <2>1. c \in Seq(C)
    BY <1>5
  <2>2. said \in Seq(C)
    BY <1>6
  <2>3. U \in SUBSET (1 .. Len(c))
    BY <1>11
  <2>4. T \in SUBSET (1 .. Len(said))
    BY <1>11
  <2> HIDE DEF u, calls
  <2>5. Picked(c, U) = Picked(said, T)
    BY <1>10, <2>1, <2>2, <2>3, <2>4, PickedAgree, ZenonT(30)
  <2> QED
    BY <2>5 DEF u
<1>13. u \in Seq(C) /\ Len(u) = Cardinality(U)
  BY <1>5, <1>11, PickedCount
<1>14. calls \in Seq(EventsWith(C)) /\ Len(calls) = Cardinality(T)
  BY <1>4, PickedCount
<1>15. Len(Picked(said, T)) = Cardinality(T)
  <2>1. said \in Seq(C)
    BY <1>6
  <2>2. T \in SUBSET (1 .. Len(said))
    BY <1>11
  <2> QED
    BY <2>1, <2>2, PickedCount, Zenon
<1>22. PICK a : IsPicked(calls, a, heard, T)
  BY <1>4, PickedIs, Zenon
<1>16. Enumerates(a, Len(calls), T) /\ \A i \in 1 .. Len(calls) : calls[i] = heard[a[i]]
  BY <1>22 DEF IsPicked
<1>21. PICK b : IsPicked(Picked(said, T), b, said, T)
  BY <1>11, <1>20, PickedIs, Zenon
<1>17. Enumerates(b, Len(Picked(said, T)), T)
       /\ \A i \in 1 .. Len(Picked(said, T)) : Picked(said, T)[i] = said[b[i]]
  BY <1>21 DEF IsPicked
<1>18. Len(u) = Len(calls) /\ Cardinality(U) = Len(calls)
  BY <1>12, <1>13, <1>14, <1>15
<1>19. \A i \in 1 .. Len(calls) : u[i] = calls[i].content
  <2> DEFINE k == Len(calls)
  <2>1. k \in Nat /\ T \in SUBSET Nat
    BY <1>4, <1>14
  <2>2. Enumerates(a, k, T) /\ Enumerates(b, k, T)
    BY <1>12, <1>16, <1>17, <1>18
  <2>3. \A i \in 1 .. k : u[i] = said[b[i]] /\ calls[i] = heard[a[i]]
    BY <1>12, <1>16, <1>17, <1>18
  <2> HIDE DEF k, calls, u
  <2>4. \A i \in 1 .. k : a[i] = b[i]
    BY <2>1, <2>2, EnumerationsAgree
  <2>5. \A i \in 1 .. k : b[i] \in T
    BY <2>2 DEF Enumerates
  <2>6. \A i \in 1 .. k : u[i] = calls[i].content
    BY <1>2, <1>6, <2>3, <2>4, <2>5
  <2> QED
    BY <2>6 DEF k
<1> QED
  BY <1>13, <1>14, <1>18, <1>19 DEF T, U, c, AsksAgree

\* One message on, the recent activities are the last of one more.
LEMMA Updated ==
  ASSUME NEW C, NEW m \in MessagesWith(C), Ask(m) => m.block.content # Results!Empty,
         NEW t \in [uses : Nat, recent : Seq(C)]
  PROVE  Results!UpdateProgress(t, m) =
             IF Ask(m) THEN [uses |-> t.uses + 1,
                             recent |-> LastOf(Append(t.recent, m.block.content), Results!MaxRecent)]
             ELSE t
<1>1. ASSUME Ask(m) PROVE Results!LastToolUseName(m) = m.block.content /\ m.block.content # Results!Empty
  BY <1>1 DEF Ask, Results!LastToolUseName
<1>2. ASSUME ~Ask(m) PROVE Results!LastToolUseName(m) = Results!Empty
  BY <1>2 DEF Ask, Results!LastToolUseName
<1>3. CASE Ask(m)
  <2>1. Results!LastToolUseName(m) # Results!Empty
    BY <1>1, <1>3
  <2> QED
    BY <1>3, <2>1, Zenon DEF Results!UpdateProgress, LastOf, AtMost
<1>4. CASE ~Ask(m)
  BY <1>2, <1>4, Zenon DEF Results!UpdateProgress
<1> QED
  BY <1>3, <1>4

\* The progress counts the calls and has the last of them.
LEMMA ProgressIs ==
  ASSUME NEW C, NEW messages \in Seq(MessagesWith(C)),
         \A i \in 1 .. Len(messages) : Ask(messages[i]) => messages[i].block.content # Results!Empty
  PROVE  /\ Results!Progress(messages).uses = Len(Picked(Contents(messages), Asking(messages)))
         /\ Results!Progress(messages).recent =
                LastOf(Picked(Contents(messages), Asking(messages)), Results!MaxRecent)
<1> DEFINE L == Len(messages)
           V == [uses : Nat, recent : Seq(C)]
           c == Contents(messages)
           U == Asking(messages)
           u == Picked(c, U)
           step == ProgressSteps(messages, V)
           max == Results!MaxRecent
<1>0. max \in Nat /\ max # 0
  BY DEF Results!MaxRecent
<1> HIDE DEF max
<1>1. L \in Nat /\ DOMAIN messages = 1 .. L /\ \A i \in 1 .. L : messages[i] \in MessagesWith(C)
  OBVIOUS
<1>2. ASSUME NEW i \in 1 .. L
      PROVE  c[i] = messages[i].block.content /\ c[i] \in C /\ (i \in U <=> Ask(messages[i]))
  BY <1>1 DEF Contents, Asking, MessagesWith
<1>3. c \in Seq(C) /\ Len(c) = L
  <2>1. c = [i \in 1 .. L |-> c[i]]
    BY DEF Contents
  <2> HIDE DEF c, L
  <2>2. c \in [1 .. L -> C]
    BY <1>2, <2>1
  <2> QED
    BY <1>1, <2>2
<1>4. ASSUME NEW i \in 1 .. L, NEW t \in V
      PROVE  /\ Results!UpdateProgress(t, messages[i]) \in V
             /\ i \notin U => Results!UpdateProgress(t, messages[i]) = t
             /\ i \in U => /\ Results!UpdateProgress(t, messages[i]).uses = t.uses + 1
                           /\ Results!UpdateProgress(t, messages[i]).recent = LastOf(Append(t.recent, c[i]), max)
  <2>1. messages[i] \in MessagesWith(C) /\ (Ask(messages[i]) => messages[i].block.content # Results!Empty)
    BY <1>1
  <2>2. t.uses \in Nat /\ t.recent \in Seq(C) /\ c[i] \in C /\ c[i] = messages[i].block.content
    BY <1>2
  <2>3. LastOf(Append(t.recent, c[i]), max) \in Seq(C)
    <3> DEFINE y == Append(t.recent, c[i])
    <3>1. y \in Seq(C)
      BY <2>2
    <3> HIDE DEF y
    <3>2. LastOf(y, max) \in Seq(C)
      BY <1>0, <3>1, LastOfIs, Zenon
    <3> QED
      BY <3>2 DEF y
  <2>4. Results!UpdateProgress(t, messages[i]) =
             IF Ask(messages[i]) THEN [uses |-> t.uses + 1, recent |-> LastOf(Append(t.recent, c[i]), max)] ELSE t
    BY <2>1, <2>2, Updated DEF max
  <2> QED
    BY <1>2, <2>2, <2>3, <2>4
<1>5. Results!NoProgress \in V /\ Results!NoProgress.uses = 0 /\ Results!NoProgress.recent = <<>>
  BY DEF Results!NoProgress
<1> HIDE DEF V
<1>6. PICK f : /\ IsRecursive(f, V, Results!NoProgress, L, ProgressSteps(messages, V))
               /\ Results!Progress(messages) = f[L]
  BY <1>1, <1>4, <1>5, ProgressFolds, Zenon
<1> HIDE DEF c, U, L
<1>7. PICK g : Picks(g, C, c, U)
  BY <1>3, PickedSteps, Zenon
<1>8. /\ f[0] = Results!NoProgress /\ f \in [0 .. L -> V]
      /\ \A k \in 1 .. L : f[k] = Results!UpdateProgress(f[k - 1], messages[k])
  <2>1. /\ f[0] = Results!NoProgress /\ f \in [0 .. L -> V]
        /\ \A k \in 1 .. L : f[k] = ProgressSteps(messages, V)[k][f[k - 1]]
    BY <1>6 DEF IsRecursive
  <2>2. \A k \in 1 .. L : f[k - 1] \in V
    <3>1. \A k \in 1 .. L : k - 1 \in 0 .. L
      BY <1>1
    <3> QED
      BY <2>1, <3>1
  <2> QED
    BY <2>1, <2>2 DEF ProgressSteps, L
<1>9. /\ g \in [0 .. L -> Seq(C)] /\ g[0] = <<>> /\ g[L] = u
      /\ \A k \in 1 .. L : g[k] = IF k \in U THEN Append(g[k - 1], c[k]) ELSE g[k - 1]
  BY <1>3, <1>7 DEF Picks
<1> HIDE DEF u
<1> DEFINE Alike(k) == f[k].uses = Len(g[k]) /\ f[k].recent = LastOf(g[k], max)
<1>10. \A k \in 1 .. L : k - 1 \in 0 .. L /\ k \in 0 .. L
  BY <1>1
<1>11. Alike(0)
  <2>1. LastOf(<<>>, max) = <<>>
    BY <1>0 DEF LastOf, AtMost
  <2> QED
    BY <1>5, <1>8, <1>9, <2>1
<1>12. ASSUME NEW k \in 1 .. L, Alike(k - 1) PROVE Alike(k)
  <2> DEFINE p == f[k - 1]
             q == g[k - 1]
  <2>1. p \in V /\ q \in Seq(C) /\ c[k] \in C
    BY <1>2, <1>8, <1>9, <1>10
  <2>2. p.uses = Len(q) /\ p.recent = LastOf(q, max)
    BY <1>12
  <2>3. f[k] = Results!UpdateProgress(p, messages[k]) /\ g[k] = IF k \in U THEN Append(q, c[k]) ELSE q
    BY <1>8, <1>9
  <2> HIDE DEF p, q
  <2>4. CASE k \in U
    <3>1. f[k].uses = p.uses + 1 /\ f[k].recent = LastOf(Append(p.recent, c[k]), max)
      BY <1>4, <2>1, <2>3, <2>4
    <3>2. g[k] = Append(q, c[k]) /\ Len(Append(q, c[k])) = Len(q) + 1
      BY <2>1, <2>3, <2>4
    <3>3. LastOf(Append(LastOf(q, max), c[k]), max) = LastOf(Append(q, c[k]), max)
      BY <1>0, <2>1, LastOfMore
    <3> QED
      BY <2>2, <3>1, <3>2, <3>3
  <2>5. CASE k \notin U
    <3>1. f[k] = p /\ g[k] = q
      BY <1>4, <2>1, <2>3, <2>5
    <3> QED
      BY <2>2, <3>1
  <2> QED
    BY <2>4, <2>5
<1>13. \A k \in 0 .. L : Alike(k)
  <2> DEFINE S == {k \in 0 .. L : Alike(k)}
             h == [k \in 0 .. L |-> k]
  <2>1. (\A k \in 0 .. L : h[k] \in S <=> Alike(k)) /\ 0 \in 0 .. L
    BY <1>1
  <2> HIDE DEF S, h, Alike
  <2>2. h[0] \in S /\ \A k \in 1 .. L : h[k - 1] \in S => h[k] \in S
    BY <1>10, <1>11, <1>12, <2>1
  <2> QED
    BY <1>1, <2>1, <2>2, Stays
<1>14. Alike(L)
  <2>1. L \in 0 .. L
    BY <1>1
  <2> HIDE DEF Alike
  <2> QED
    BY <1>13, <2>1
<1> QED
  BY <1>6, <1>9, <1>14 DEF u, c, U, max

LEMMA ReverseIs ==
  ASSUME NEW V, NEW s \in Seq(V)
  PROVE  /\ Results!Reverse(s) \in Seq(V) /\ Len(Results!Reverse(s)) = Len(s)
         /\ \A i \in 1 .. Len(s) : Results!Reverse(s)[i] = s[Len(s) - i + 1]
<1> DEFINE n == Len(s)
           r == Results!Reverse(s)
<1>1. n \in Nat /\ \A i \in 1 .. n : n - i + 1 \in 1 .. n
  OBVIOUS
<1>2. r = [i \in 1 .. n |-> s[n - i + 1]]
  BY DEF Results!Reverse
<1>3. \A i \in 1 .. n : s[n - i + 1] \in V
  BY <1>1
<1> HIDE DEF n, r
<1>4. r \in [1 .. n -> V] /\ \A i \in 1 .. n : r[i] = s[n - i + 1]
  BY <1>2, <1>3
<1>5. r \in Seq(V) /\ Len(r) = n
  BY <1>1, <1>4
<1> QED
  BY <1>4, <1>5 DEF n, r

\* What a run comes to tells of its events.
LEMMA AnswersKept ==
  ASSUME NEW C, Results!Empty \in C, NEW events \in Seq(EventsWith(C)), NEW abort \in 1 .. (Len(events) + 1),
         \A k \in 1 .. Len(events) : events[k].type = "tool_use" => events[k].content # Results!Empty
  PROVE  Results!AnswersAreOfTheRun(events, abort)
<1> DEFINE n == abort - 1
           messages == Results!RunAgent(events, abort)
           heard == SubSeq(events, 1, n)
           calls == Picked(heard, Calling(heard))
           texts == Picked(heard, Saying(heard))
           U == Asking(messages)
           S == Answering(messages)
           u == Picked(Contents(messages), U)
           done == Results!FinalizeAgentTool(messages)
           progress == Results!Progress(messages)
           max == Results!MaxRecent
           blank == \E e \in Results!ToSet(heard) : e.type \in {"text", "thinking"} /\ e.content = Results!Empty
<1>1. n \in Nat /\ n <= Len(events)
  OBVIOUS
<1> HIDE DEF n
<1>2. messages \in Seq(MessagesWith(C))
  BY RunMessages
<1>3. PICK at : Hears(at, messages, events, n)
  BY RunMessages DEF n
<1> HIDE DEF messages
<1>4. heard \in Seq(EventsWith(C)) /\ Len(heard) = n /\ \A k \in 1 .. n : heard[k] = events[k]
  BY <1>1, PartOf
<1> HIDE DEF heard
<1>5. DOMAIN heard = 1 .. n /\ DOMAIN messages = 1 .. Len(messages)
  BY <1>2, <1>4
<1>6. /\ S = {} <=> texts = <<>>
      /\ S # {} => /\ Results!Greatest(S) \in S
                   /\ messages[Results!Greatest(S)].block.content = texts[Len(texts)].content
  <2>1. LastAgrees(messages, heard)
    BY <1>1, <1>2, <1>3, <1>4, LastAnswer
  <2> QED
    BY <2>1 DEF LastAgrees
<1>7. /\ calls \in Seq(EventsWith(C)) /\ u \in Seq(C) /\ Len(u) = Len(calls)
      /\ Cardinality(U) = Len(calls)
      /\ \A i \in 1 .. Len(calls) : u[i] = calls[i].content
  <2>1. AsksAgree(C, messages, heard)
    BY <1>1, <1>2, <1>3, <1>4, CallsAgree
  <2> QED
    BY <2>1 DEF AsksAgree
<1>8. progress.uses = Len(u) /\ progress.recent = LastOf(u, max)
  <2>1. ASSUME NEW i \in 1 .. Len(messages), Ask(messages[i])
        PROVE  messages[i].block.content # Results!Empty
    <3>1. at[i] \in 1 .. n /\ Tells(messages[i], events[at[i]])
      BY <1>3 DEF Hears
    <3>2. events[at[i]].type = "tool_use" /\ messages[i].block.content = events[at[i]].content
      BY <2>1, <3>1, TellsAlike
    <3>3. at[i] \in 1 .. Len(events)
      BY <1>1, <3>1
    <3> QED
      BY <3>2, <3>3
  <2> QED
    BY <1>2, <2>1, ProgressIs, Zenon
<1> HIDE DEF calls, texts, U, S, u, progress
<1>9. /\ S = {i \in Results!Texts(messages) : messages[i].block.content # Results!Empty}
      /\ U = Results!Uses(messages)
  BY <1>5 DEF S, U, Asking, Answering, Answer, Ask, Results!Texts, Results!Uses, Results!Assistants
<1>10. Results!ExtractPartialResult(messages) = IF texts = <<>> THEN Results!Empty ELSE texts[Len(texts)].content
  <2> DEFINE spoken == {i \in Results!Texts(messages) : messages[i].block.content # Results!Empty}
  <2>1. Results!ExtractPartialResult(messages) =
           IF spoken = {} THEN Results!Empty ELSE messages[Results!Greatest(spoken)].block.content
    BY Zenon DEF Results!ExtractPartialResult
  <2>2. spoken = S
    BY <1>9
  <2> HIDE DEF spoken
  <2> QED
    BY <1>6, <2>1, <2>2, Zenon
<1>11. done.status = "completed" <=> Results!Assistants(messages) # {}
  BY DEF Results!FinalizeAgentTool
<1>12. ASSUME Results!Assistants(messages) # {}
       PROVE  /\ done.uses = Results!Cardinality(U)
              /\ done.content = IF Results!Texts(messages) = {} THEN <<>>
                                ELSE <<messages[Results!Greatest(Results!Texts(messages))].block.content>>
  BY <1>9, <1>12 DEF Results!FinalizeAgentTool, Results!CountToolUses
<1>13. S \subseteq Results!Texts(messages) /\ Results!Texts(messages) \subseteq Results!Assistants(messages)
  BY <1>9 DEF Results!Texts
<1> HIDE DEF done
<1>14. ASSUME ~blank PROVE Results!Texts(messages) = S
  <2>1. ASSUME NEW i \in Results!Texts(messages) PROVE i \in S
    <3>1. i \in 1 .. Len(messages) /\ messages[i].type = "assistant" /\ messages[i].block.type = "text"
      BY <1>5 DEF Results!Texts, Results!Assistants
    <3>2. at[i] \in 1 .. n /\ Tells(messages[i], events[at[i]])
      BY <1>3, <3>1 DEF Hears
    <3>3. \/ Says(events[at[i]])
          \/ events[at[i]].type \in {"text", "thinking"} /\ events[at[i]].content = Results!Empty
      BY <3>1, <3>2, TellsAlike
    <3>4. events[at[i]] \in Results!ToSet(heard)
      BY <1>4, <1>5, <3>2 DEF Results!ToSet
    <3>5. Says(events[at[i]])
      BY <1>14, <3>3, <3>4
    <3>6. Answer(messages[i])
      BY <3>2, <3>5, TellsAlike
    <3> QED
      BY <3>1, <3>6 DEF S, Answering
  <2> QED
    BY <1>13, <2>1
<1> HIDE DEF blank
<1>15. ASSUME done.status = "completed", ~blank
       PROVE  done.content = IF texts = <<>> THEN <<>> ELSE <<texts[Len(texts)].content>>
  <2>1. Results!Texts(messages) = S
    BY <1>14, <1>15
  <2>2. done.content = IF S = {} THEN <<>> ELSE <<messages[Results!Greatest(S)].block.content>>
    BY <1>11, <1>12, <1>15, <2>1
  <2> QED
    BY <1>6, <2>2, Zenon
<1>16. ASSUME texts # <<>> PROVE done.status = "completed" /\ done.content # <<>>
  <2>1. S # {}
    BY <1>6, <1>16
  <2>2. Results!Assistants(messages) # {} /\ Results!Texts(messages) # {}
    BY <1>13, <2>1
  <2>3. Results!Assistants(messages) # {} => done.content # <<>>
    <3> DEFINE x == <<messages[Results!Greatest(Results!Texts(messages))].block.content>>
    <3>1. Results!Assistants(messages) # {} => done.content = x
      BY <1>12, <2>2
    <3>2. x # <<>>
      OBVIOUS
    <3> HIDE DEF x
    <3> QED
      BY <3>1, <3>2
  <2> QED
    BY <1>11, <2>2, <2>3
<1>17. ASSUME done.status = "completed" PROVE done.uses = Len(calls) /\ progress.uses = done.uses
  BY <1>7, <1>8, <1>11, <1>12, <1>17, ResultsCardinality
<1> DEFINE contents == [i \in DOMAIN calls |-> calls[i].content]
           m == AtMost(Len(calls), max)
<1>18. contents = u
  <2>1. DOMAIN calls = 1 .. Len(calls)
    BY <1>7
  <2> DEFINE k == Len(calls)
  <2>2. u = [i \in 1 .. Len(u) |-> u[i]]
    BY <1>7
  <2>3. u = [i \in 1 .. k |-> u[i]] /\ contents = [i \in 1 .. k |-> calls[i].content]
    BY <1>7, <2>1, <2>2
  <2> HIDE DEF k, contents
  <2>4. \A i \in 1 .. k : u[i] = calls[i].content
    BY <1>7 DEF k
  <2> QED
    BY <2>3, <2>4, Zenon
<1>19. max \in Nat
  BY DEF Results!MaxRecent
<1>20. /\ LastOf(u, max) \in Seq(C) /\ Len(LastOf(u, max)) = AtMost(Len(u), max)
       /\ \A i \in 1 .. AtMost(Len(u), max) : LastOf(u, max)[i] = u[Len(u) - AtMost(Len(u), max) + i]
  BY <1>7, <1>19, LastOfIs, Zenon
<1>21. Len(progress.recent) = IF Len(calls) < Results!MaxRecent THEN Len(calls) ELSE Results!MaxRecent
  BY <1>7, <1>8, <1>20 DEF AtMost
<1>22. Results!IsSuffix(progress.recent, contents)
  <2> DEFINE r == LastOf(u, max)
             k == AtMost(Len(u), max)
             w == Len(u)
             R == Results!Reverse(r)
             W == Results!Reverse(u)
  <2>1. w \in Nat /\ k \in 0 .. w
    BY <1>7, <1>19, AtMostIs
  <2>6. u \in Seq(C) /\ Len(u) = w /\ r \in Seq(C) /\ Len(r) = k /\ \A i \in 1 .. k : r[i] = u[w - k + i]
    BY <1>7, <1>20
  <2> HIDE DEF k, w, r
  <2>2. R \in Seq(C) /\ Len(R) = k /\ \A i \in 1 .. k : R[i] = r[k - i + 1]
    BY <2>1, <2>6, ReverseIs
  <2>3. W \in Seq(C) /\ Len(W) = w /\ \A i \in 1 .. w : W[i] = u[w - i + 1]
    BY <2>1, <2>6, ReverseIs
  <2> HIDE DEF R, W
  <2>4. \A i \in 1 .. k : R[i] = W[i]
    <3>1. ASSUME NEW i \in 1 .. k PROVE R[i] = W[i]
      <4>1. k - i + 1 \in 1 .. k /\ i \in 1 .. w /\ w - k + (k - i + 1) = w - i + 1
        BY <2>1
      <4>2. r[k - i + 1] = u[w - i + 1]
        BY <2>6, <4>1
      <4> QED
        BY <2>2, <2>3, <4>1, <4>2
    <3> QED
      BY <3>1
  <2>5. SubSeq(R, 1, k) = SubSeq(W, 1, k)
    <3>1. SubSeq(R, 1, k) \in Seq(C) /\ Len(SubSeq(R, 1, k)) = k /\ \A i \in 1 .. k : SubSeq(R, 1, k)[i] = R[i]
      BY <2>1, <2>2, PartOf
    <3>2. SubSeq(W, 1, k) \in Seq(C) /\ Len(SubSeq(W, 1, k)) = k /\ \A i \in 1 .. k : SubSeq(W, 1, k)[i] = W[i]
      BY <2>1, <2>3, PartOf
    <3> DEFINE x == SubSeq(R, 1, k)
               y == SubSeq(W, 1, k)
    <3>3. x \in Seq(C) /\ y \in Seq(C) /\ Len(x) = k /\ Len(y) = k /\ \A i \in 1 .. k : x[i] = y[i]
      BY <2>4, <3>1, <3>2
    <3> HIDE DEF x, y
    <3>4. x = y
      BY <3>3, SameElements
    <3> QED
      BY <3>4 DEF x, y
  <2>7. Results!IsPrefix(R, W)
    BY <2>1, <2>2, <2>3, <2>5 DEF Results!IsPrefix
  <2>8. progress.recent = r /\ contents = u
    BY <1>8, <1>18 DEF r
  <2> HIDE DEF contents
  <2> QED
    BY <2>7, <2>8 DEF Results!IsSuffix, R, W
<1> HIDE DEF contents
<1>23. calls = Results!Selected(heard, LAMBDA e : e.type = "tool_use")
  BY ResultsPicks, Zenon DEF Results!Selected, calls, Calling
<1>24. texts = Results!Selected(heard, LAMBDA e : e.type = "text" /\ e.content # Results!Empty)
  BY ResultsPicks, Zenon DEF Results!Selected, texts, Saying, Says
<1>25. Results!Last(texts) = texts[Len(texts)]
  BY DEF Results!Last
<1> QED
  BY <1>10, <1>15, <1>16, <1>17, <1>21, <1>22, <1>23, <1>24, <1>25, Zenon
  DEF Results!AnswersAreOfTheRun, messages, heard, done, progress, blank, contents, n

-----------------------------------------------------------------------------
(* The definitions of agents: the built-in ones, and one of each file that *)
(* can be read, in the order of the files.                                 *)

\* A sequence of a finite set has each of its elements.
LEMMA SeqOfSet ==
  ASSUME NEW S, IsFiniteSet(S)
  PROVE  \A x \in S : \E k \in 1 .. Setup!Cardinality(S) : Setup!SetToSeq(S)[k] = x
<1> DEFINE n == Cardinality(S)
           Lists(f) == f \in [1 .. n -> S] /\ Setup!IsInjective(f)
           q == CHOOSE f : f \in [1 .. n -> S] /\ Setup!IsInjective(f)
<1>1. n \in Nat
  BY FS_CardinalityType
<1>2. ExistsBijection(1 .. n, S)
  BY FS_CardinalityType
<1>3. PICK f : f \in Bijection(1 .. n, S)
  BY <1>2 DEF ExistsBijection
<1>4. Lists(f)
  BY <1>3 DEF Bijection, Injection, IsInjective, Setup!IsInjective
<1>5. Lists(q)
  <2> HIDE DEF n
  <2> QED
    BY <1>4
<1>6. Setup!SetToSeq(S) = q /\ Setup!Cardinality(S) = n
  BY SetupCardinality, Zenon DEF Setup!SetToSeq
<1> HIDE DEF q, n
<1>7. q \in Injection(1 .. n, S)
  BY <1>5 DEF Injection, IsInjective, Setup!IsInjective
<1>8. IsFiniteSet(1 .. n) /\ Cardinality(1 .. n) = n /\ Cardinality(S) = n
  BY <1>1, FS_Interval DEF n
<1>9. q \in Surjection(1 .. n, S)
  BY <1>7, <1>8, FS_Injection
<1>10. \A x \in S : \E k \in 1 .. n : q[k] = x
  BY <1>9 DEF Surjection
<1> QED
  BY <1>6, <1>10

\* agents has b built-in ones and behind them those of the files at the n
\* places that at lists.
IsAllAgents(agents, b, n, at, files) ==
    /\ DOMAIN agents = 1 .. (b + n)
    /\ \A k \in 1 .. b : agents[k].file = 0
    /\ \A j \in 1 .. n : agents[b + j].file = at[j]
    /\ \A t \in Setup!BuiltInTypes : \E k \in 1 .. b : agents[k].type = t

Parsed(files) == {i \in DOMAIN files : Setup!AgentOf(files[i], i) # <<>> /\ ~Setup!Breaks(files)}

\* A file gives one agent or none.
LEMMA AgentOfFile ==
  ASSUME NEW file, NEW i
  PROVE  \/ Setup!AgentOf(file, i) = <<>>
         \/ \E t, o : Setup!AgentOf(file, i) =
                        <<[type |-> t, source |-> "projectSettings", file |-> i, option |-> o]>>
<1>1. CASE file.text = "unreadable"
  BY <1>1, Zenon DEF Setup!AgentOf
<1>2. CASE file.text # "unreadable"
  <2>1. Setup!AgentOf(file, i) = Setup!ParseAgentFromMarkdown(file, i)
    BY <1>2, Zenon DEF Setup!AgentOf
  <2>2. CASE file.name \in {"missing", "malformed"} \/ file.description # "text"
    BY <2>1, <2>2, Zenon DEF Setup!ParseAgentFromMarkdown
  <2>3. CASE ~(file.name \in {"missing", "malformed"} \/ file.description # "text")
    BY <2>1, <2>3, Zenon DEF Setup!ParseAgentFromMarkdown
  <2> QED
    BY <2>2, <2>3
<1> QED
  BY <1>1, <1>2

\* The built-in agents, each with a number.
LEMMA BuiltInKnown ==
  /\ Setup!Cardinality(Setup!BuiltInTypes) \in Nat
  /\ \A t \in Setup!BuiltInTypes : \E k \in 1 .. Setup!Cardinality(Setup!BuiltInTypes) :
         Setup!SetToSeq(Setup!BuiltInTypes)[k] = t
<1>1. IsFiniteSet(Setup!BuiltInTypes)
  <2>1. ASSUME NEW a, NEW b, NEW c, NEW d PROVE IsFiniteSet({a, b, c, d})
    <3>1. IsFiniteSet({})
      BY FS_EmptySet
    <3>2. IsFiniteSet({} \cup {a})
      BY <3>1, FS_AddElement
    <3>3. IsFiniteSet(({} \cup {a}) \cup {b})
      BY <3>2, FS_AddElement
    <3>4. IsFiniteSet((({} \cup {a}) \cup {b}) \cup {c})
      BY <3>3, FS_AddElement
    <3>5. IsFiniteSet(((({} \cup {a}) \cup {b}) \cup {c}) \cup {d})
      BY <3>4, FS_AddElement
    <3>6. {a, b, c, d} = ((({} \cup {a}) \cup {b}) \cup {c}) \cup {d}
      OBVIOUS
    <3> QED
      BY <3>5, <3>6
  <2> QED
    BY <2>1, Zenon DEF Setup!BuiltInTypes
<1>2. Setup!Cardinality(Setup!BuiltInTypes) = Cardinality(Setup!BuiltInTypes)
  BY SetupCardinality, Zenon
<1> QED
  BY <1>1, <1>2, FS_CardinalityType, SeqOfSet

\* All agents: the built-in ones, then those of the files.
LEMMA AllAgentsKnown ==
  ASSUME NEW C, NEW files \in Seq(C)
  PROVE  \E b \in Nat, n \in Nat : \E at :
            /\ Enumerates(at, n, Parsed(files))
            /\ IsAllAgents(Setup!AllAgents(files), b, n, at, files)
<1> DEFINE L == Len(files)
           s == [i \in DOMAIN files |-> Setup!AgentOf(files[i], i)]
           V == UNION {{s[i][j] : j \in 1 .. Len(s[i])} : i \in 1 .. L}
           types == Setup!SetToSeq(Setup!BuiltInTypes)
           b == Setup!Cardinality(Setup!BuiltInTypes)
           builtIn == [k \in 1 .. b |-> [type |-> types[k], source |-> "built-in", file |-> 0, option |-> Setup!None]]
           W == {builtIn[k] : k \in 1 .. b}
           T == {i \in DOMAIN files : Setup!AgentOf(files[i], i) # <<>>}
<1>1. L \in Nat /\ DOMAIN files = 1 .. L
  OBVIOUS
<1>2. \A i \in 1 .. L : s[i] = Setup!AgentOf(files[i], i)
  BY <1>1
<1>3. ASSUME NEW i \in 1 .. L
      PROVE  /\ i \in T <=> s[i] # <<>>
             /\ s[i] = <<>> \/ \E t, o : s[i] = <<[type |-> t, source |-> "projectSettings", file |-> i, option |-> o]>>
  BY <1>1, <1>2, AgentOfFile
<1> HIDE DEF s, L
<1>4. ASSUME NEW i \in 1 .. L
      PROVE  /\ s[i] \in Seq(V) /\ Len(s[i]) \in {0, 1}
             /\ i \in T <=> Len(s[i]) = 1
             /\ i \in T => s[i][1].file = i
  <2>1. CASE s[i] = <<>>
    BY <1>3, <2>1
  <2>2. ASSUME NEW t, NEW o, s[i] = <<[type |-> t, source |-> "projectSettings", file |-> i, option |-> o]>>
        PROVE  /\ s[i] \in Seq(V) /\ Len(s[i]) = 1 /\ i \in T /\ s[i][1].file = i
    <3> DEFINE x == [type |-> t, source |-> "projectSettings", file |-> i, option |-> o]
    <3>1. x.file = i
      OBVIOUS
    <3> HIDE DEF x
    <3>2. s[i] = <<x>>
      BY <2>2 DEF x
    <3>3. Len(s[i]) = 1 /\ s[i][1] = x /\ s[i] # <<>>
      BY <3>2
    <3>4. x \in V
      <4>1. 1 \in 1 .. Len(s[i])
        BY <3>3
      <4> QED
        BY <3>3, <4>1
    <3> HIDE DEF V
    <3>5. s[i] \in Seq(V)
      BY <3>2, <3>4
    <3>6. i \in T
      BY <1>3, <3>3
    <3> QED
      BY <3>1, <3>3, <3>5, <3>6
  <2> QED
    BY <1>3, <2>1, <2>2
<1>5. s \in Seq(Seq(V)) /\ Len(s) = L
  <2>1. s = [i \in 1 .. L |-> s[i]]
    BY <1>1 DEF s
  <2> HIDE DEF V
  <2>2. s \in [1 .. L -> Seq(V)]
    BY <1>4, <2>1
  <2> QED
    BY <1>1, <2>2
<1>6. T = {k \in 1 .. Len(s) : Len(s[k]) = 1}
  <2>1. T \subseteq 1 .. L
    BY <1>1
  <2> HIDE DEF T
  <2> QED
    BY <1>4, <1>5, <2>1
<1> HIDE DEF V, T
<1> DEFINE p == FlattenSeq(s)
           n == Len(p)
<1>7. p \in Seq(V)
  BY <1>4, <1>5, FlattenAt
<1>8. PICK at : Enumerates(at, n, T) /\ \A i \in 1 .. n : p[i] = s[at[i]][1]
  <2>1. \A k \in 1 .. Len(s) : Len(s[k]) \in {0, 1}
    BY <1>4, <1>5
  <2>2. \E at : /\ Enumerates(at, Len(FlattenSeq(s)), {k \in 1 .. Len(s) : Len(s[k]) = 1})
                /\ \A i \in 1 .. Len(FlattenSeq(s)) : FlattenSeq(s)[i] = s[at[i]][1]
    BY <1>5, <2>1, FlattenAt
  <2> QED
    BY <1>6, <2>2
<1>9. /\ Setup!Breaks(files) => Setup!AllAgents(files) = builtIn
      /\ ~Setup!Breaks(files) => Setup!AllAgents(files) = builtIn \o p
  <2>1. Setup!FlattenSeq(s) = p
    BY DEF Setup!FlattenSeq, FlattenSeq
  <2>2. Setup!BuiltInAgents = builtIn
    BY DEF Setup!BuiltInAgents
  <2> HIDE DEF p, builtIn
  <2> QED
    BY <2>1, <2>2 DEF Setup!AllAgents, s
<1>10. b \in Nat /\ \A t \in Setup!BuiltInTypes : \E k \in 1 .. b : types[k] = t
  BY BuiltInKnown
<1> HIDE DEF b, types
<1>11. \A k \in 1 .. b : builtIn[k].file = 0 /\ builtIn[k].type = types[k]
  OBVIOUS
<1>12. builtIn \in Seq(W) /\ Len(builtIn) = b
  <2>1. builtIn \in [1 .. b -> W]
    OBVIOUS
  <2> HIDE DEF builtIn, W
  <2> QED
    BY <1>10, <2>1
<1> DEFINE all == builtIn \o p
<1> HIDE DEF builtIn, W, p
<1>13. n \in Nat
  BY <1>7
<1>14. /\ DOMAIN all = 1 .. (b + n)
       /\ \A k \in 1 .. b : all[k] = builtIn[k]
       /\ \A j \in 1 .. n : all[b + j] = p[j]
  BY <1>7, <1>10, <1>12, <1>13
<1> HIDE DEF all, n
<1>15. \A j \in 1 .. n : at[j] \in T /\ at[j] \in 1 .. L
  BY <1>5, <1>6, <1>8 DEF Enumerates
<1>16. \A j \in 1 .. n : all[b + j].file = at[j]
  BY <1>4, <1>8, <1>14, <1>15
<1>17. \A k \in 1 .. b : all[k].file = 0
  BY <1>11, <1>14
<1>18. \A t \in Setup!BuiltInTypes : \E k \in 1 .. b : all[k].type = t
  BY <1>10, <1>11, <1>14
<1>19. IsAllAgents(all, b, n, at, files)
  BY <1>14, <1>16, <1>17, <1>18 DEF IsAllAgents
<1>20. CASE Setup!Breaks(files)
  <2> DEFINE none == [j \in 1 .. 0 |-> 0]
  <2>1. Parsed(files) = {}
    BY <1>20 DEF Parsed
  <2>2. Enumerates(none, 0, Parsed(files))
    BY <2>1 DEF Enumerates
  <2>3. DOMAIN builtIn = 1 .. (b + 0)
    BY <1>10, <1>12
  <2>4. \A t \in Setup!BuiltInTypes : \E k \in 1 .. b : builtIn[k].type = t
    BY <1>10, <1>11
  <2> HIDE DEF none
  <2>5. IsAllAgents(builtIn, b, 0, none, files)
    BY <1>11, <2>3, <2>4 DEF IsAllAgents
  <2> QED
    BY <1>9, <1>10, <1>20, <2>2, <2>5
<1>21. CASE ~Setup!Breaks(files)
  <2>1. Parsed(files) = T
    BY <1>21 DEF Parsed, T
  <2> QED
    BY <1>8, <1>9, <1>10, <1>13, <1>19, <1>21, <2>1 DEF all
<1> QED
  BY <1>20, <1>21

\* Each file is accounted for, and each type has one active agent.
LEMMA AgentsKept ==
  ASSUME NEW files \in Seq(AgentFiles)
  PROVE  Setup!AgentsAccountedFor(files)
<1> DEFINE all == Setup!AllAgents(files)
           T == Parsed(files)
           active == Setup!ActiveAgents(all)
<1>0. PICK b \in Nat, n \in Nat : \E at : Enumerates(at, n, T) /\ IsAllAgents(all, b, n, at, files)
  BY AllAgentsKnown
<1>1. PICK at : Enumerates(at, n, T) /\ IsAllAgents(all, b, n, at, files)
  BY <1>0
<1>2. T \in SUBSET (1 .. Len(files)) /\ DOMAIN files = 1 .. Len(files) /\ Len(files) \in Nat
  BY DEF Parsed
<1> HIDE DEF all, T
<1> DEFINE N == b + n
<1>3. /\ DOMAIN all = 1 .. N /\ N \in Nat
      /\ \A k \in 1 .. b : k \in 1 .. N /\ all[k].file = 0
      /\ \A j \in 1 .. n : b + j \in 1 .. N /\ all[b + j].file = at[j]
      /\ \A t \in Setup!BuiltInTypes : \E k \in 1 .. b : all[k].type = t
  BY <1>1 DEF IsAllAgents
<1>4. \A j \in 1 .. n : at[j] \in T /\ at[j] \in 1 .. Len(files)
  BY <1>1, <1>2 DEF Enumerates
<1>5. \A k \in 1 .. N : k \in 1 .. b \/ \E j \in 1 .. n : k = b + j
  <2>1. ASSUME NEW k \in 1 .. N, k \notin 1 .. b PROVE k - b \in 1 .. n /\ k = b + (k - b)
    BY <2>1
  <2> QED
    BY <2>1
<1> HIDE DEF N
\* An agent is of a file exactly if the file gives one.
<1>6. ASSUME NEW i \in 1 .. Len(files) PROVE (\E k \in 1 .. N : all[k].file = i) <=> i \in T
  <2>1. ASSUME i \in T PROVE \E k \in 1 .. N : all[k].file = i
    <3>1. PICK j \in 1 .. n : at[j] = i
      BY <1>1, <2>1 DEF Enumerates
    <3> QED
      BY <1>3, <3>1
  <2>2. ASSUME NEW k \in 1 .. N, all[k].file = i PROVE i \in T
    <3>1. k \notin 1 .. b
      BY <1>3, <2>2
    <3>2. PICK j \in 1 .. n : k = b + j
      BY <1>5, <3>1
    <3> QED
      BY <1>3, <1>4, <2>2, <3>2
  <2> QED
    BY <2>1, <2>2
<1>7. \A i \in 1 .. Len(files) : i \in T <=> Setup!AgentOf(files[i], i) # <<>> /\ ~Setup!Breaks(files)
  BY <1>2 DEF T, Parsed
<1> DEFINE IsAgent(i) == \E k \in DOMAIN all : all[k].file = i
           Names(i) == files[i].text = "read" /\ files[i].name # "missing"
           broken == Setup!Breaks(files)
<1>7a. \A i \in 1 .. Len(files) : IsAgent(i) <=> i \in T
  BY <1>3, <1>6
<1>7b. \A i \in 1 .. Len(files) : IsAgent(i) \in BOOLEAN
  OBVIOUS
\* A file that is not read, or does not name an agent, gives none.
<1>7c. ASSUME NEW i \in 1 .. Len(files), i \in T PROVE Names(i) /\ ~broken
  <2>1. Setup!AgentOf(files[i], i) # <<>> /\ ~broken
    BY <1>7, <1>7c
  <2>2. files[i].text # "unreadable"
    BY <2>1, Zenon DEF Setup!AgentOf
  <2>3. files[i].text # "undecodable"
    BY <1>2, <2>1 DEF Setup!Breaks
  <2>4. Setup!ParseAgentFromMarkdown(files[i], i) # <<>>
    BY <2>1, <2>2, Zenon DEF Setup!AgentOf
  <2>5. files[i].name # "missing"
    BY <2>4, Zenon DEF Setup!ParseAgentFromMarkdown
  <2>6. files[i] \in AgentFiles
    BY <1>2
  <2>7. files[i].text \in {"read", "unreadable", "undecodable"}
    BY <2>6 DEF AgentFiles
  <2> QED
    BY <2>1, <2>2, <2>3, <2>5, <2>7
<1>7d. \A i \in 1 .. Len(files) :
          i \in Setup!FailedFiles(files) <=> Names(i) /\ ~broken /\ i \notin T
  <2>1. CASE broken
    BY <2>1 DEF Setup!FailedFiles, Setup!Unknown
  <2>2. CASE ~broken
    <3>1. \A i \in 1 .. Len(files) : i \in Setup!FailedFiles(files) <=> Names(i) /\ Setup!AgentOf(files[i], i) = <<>>
      BY <1>2, <2>2 DEF Setup!FailedFiles
    <3> QED
      BY <1>7, <2>2, <3>1
  <2> QED
    BY <2>1, <2>2
<1>8. \A i \in DOMAIN files :
         /\ IsAgent(i) => Names(i) /\ ~broken
         /\ i \in Setup!FailedFiles(files) => Names(i) /\ ~broken
         /\ Names(i) /\ ~broken => (i \in Setup!FailedFiles(files)) # IsAgent(i)
  <2> HIDE DEF IsAgent, Names, broken
  <2> QED
    BY <1>2, <1>7a, <1>7b, <1>7c, <1>7d
<1>9. broken => Setup!FailedFiles(files) = {Setup!Unknown}
  BY DEF Setup!FailedFiles
\* The active agents are the first of their types.
<1>10. \A a : a \in active <=> \E i \in 1 .. N : a = all[i] /\ Setup!FirstOfType(all, i)
  BY <1>3 DEF Setup!ActiveAgents
<1> HIDE DEF active
<1>11. ASSUME NEW i \in 1 .. N, NEW j \in 1 .. N, Setup!FirstOfType(all, i), all[j].type = all[i].type PROVE ~(j < i)
  <2>1. j < i => j \in 1 .. (i - 1)
    BY <1>3
  <2> QED
    BY <1>11, <2>1 DEF Setup!FirstOfType
<1>12. \A a \in active, b2 \in active : a.type = b2.type => a = b2
  <2>1. ASSUME NEW a \in active, NEW c \in active, a.type = c.type PROVE a = c
    <3>1. PICK i \in 1 .. N : a = all[i] /\ Setup!FirstOfType(all, i)
      BY <1>10
    <3>2. PICK j \in 1 .. N : c = all[j] /\ Setup!FirstOfType(all, j)
      BY <1>10
    <3>3. ~(i < j) /\ ~(j < i)
      BY <1>11, <2>1, <3>1, <3>2
    <3>4. i = j
      BY <1>3, <3>3
    <3> QED
      BY <3>1, <3>2, <3>4
  <2> QED
    BY <2>1
<1>13. ASSUME NEW i \in 1 .. N, NEW k \in 1 .. N, i <= k PROVE all[i].file <= all[k].file
  <2>1. all[k].file \in Nat
    <3>1. CASE k \in 1 .. b
      BY <1>3, <3>1
    <3>2. ASSUME NEW j \in 1 .. n, k = b + j PROVE all[k].file \in Nat
      <4>1. all[k].file = at[j] /\ at[j] \in 1 .. Len(files)
        BY <1>3, <1>4, <3>2
      <4> QED
        BY <1>2, <4>1
    <3> QED
      BY <1>5, <3>1, <3>2
  <2>2. CASE i \in 1 .. b
    BY <1>3, <2>1, <2>2
  <2>3. CASE i \notin 1 .. b
    <3>1. k \notin 1 .. b
      BY <1>3, <1>13, <2>3
    <3>2. PICK j \in 1 .. n : i = b + j
      BY <1>5, <2>3
    <3>3. PICK m \in 1 .. n : k = b + m
      BY <1>5, <3>1
    <3>4. j <= m
      BY <1>13, <3>2, <3>3
    <3>5. all[i].file = at[j] /\ all[k].file = at[m] /\ at[j] \in 1 .. Len(files) /\ at[m] \in 1 .. Len(files)
      BY <1>3, <1>4, <3>2, <3>3
    <3>6. j < m => at[j] < at[m]
      BY <1>1 DEF Enumerates
    <3>7. at[j] <= at[m]
      <4>1. CASE j = m
        BY <3>5, <4>1
      <4>2. CASE j < m
        BY <3>5, <3>6, <4>2
      <4> QED
        BY <3>4, <4>1, <4>2
    <3> QED
      BY <3>5, <3>7
  <2> QED
    BY <2>2, <2>3
<1>14. \A k \in DOMAIN all : \E a \in active : a.type = all[k].type /\ a.file <= all[k].file
  <2>1. ASSUME NEW k \in 1 .. N PROVE \E a \in active : a.type = all[k].type /\ a.file <= all[k].file
    <3> DEFINE D == {m \in 1 .. N : all[m].type = all[k].type}
    <3>1. D \in SUBSET Nat /\ D # {} /\ k \in D
      OBVIOUS
    <3>2. PICK i \in D : \A m \in D : i <= m
      BY <3>1, Least
    <3>3. i \in 1 .. N /\ all[i].type = all[k].type /\ i <= k
      BY <3>1, <3>2
    <3>4. Setup!FirstOfType(all, i)
      <4>1. ASSUME NEW j \in 1 .. (i - 1), all[j].type = all[i].type PROVE FALSE
        <5>1. j \in 1 .. N /\ j < i
          BY <1>3, <3>3
        <5>2. j \in D
          BY <3>3, <4>1, <5>1
        <5> QED
          BY <3>2, <3>3, <5>1, <5>2
      <4> QED
        BY <4>1 DEF Setup!FirstOfType
    <3>5. all[i].file <= all[k].file
      BY <1>13, <3>3
    <3> QED
      BY <1>10, <3>3, <3>4, <3>5
  <2> QED
    BY <1>3, <2>1
<1>15. \A a \in active : a.type \in Setup!BuiltInTypes => a.file = 0
  <2>1. ASSUME NEW a \in active, a.type \in Setup!BuiltInTypes PROVE a.file = 0
    <3>1. PICK i \in 1 .. N : a = all[i] /\ Setup!FirstOfType(all, i)
      BY <1>10
    <3>2. PICK k \in 1 .. b : all[k].type = a.type
      BY <1>3, <2>1
    <3>3. ~(k < i)
      BY <1>3, <1>11, <3>1, <3>2
    <3>4. i \in 1 .. b
      BY <1>3, <3>3
    <3> QED
      BY <1>3, <3>1, <3>4
  <2> QED
    BY <2>1
<1> QED
  BY <1>8, <1>9, <1>12, <1>14, <1>15, Zenon DEF Setup!AgentsAccountedFor, all, active

-----------------------------------------------------------------------------
(* The inputs: such requests, calls, conversations and histories.          *)

RequestInv ==
    /\ input.part = "request" =>
          /\ input.retries \in Nat
          /\ input.answers \in [1 .. (input.retries + 1) -> Answers]
    /\ input.part = "clients" =>
          /\ Len(input.calls) \in Nat
          /\ DOMAIN input.calls = 1 .. Len(input.calls)

LEMMA AnswersMade ==
  ASSUME NEW e \in Answers
  PROVE  e.overloaded \in BOOLEAN /\ e.room \in Rooms
<1>1. \E s, o, r : /\ e = [status |-> s, overloaded |-> o, room |-> r]
                   /\ o \in BOOLEAN /\ r \in Rooms
  BY DEF Answers, Retry!Answer, Retry!Ok, Retry!NoOverflow, Rooms
<1> QED
  BY <1>1

\* The parts whose answers are proved to be right.
Proved ==
    {"request", "clients", "compact", "breaker", "agents", "tools", "fork", "team", "run"}

AgentInput == LoadAgents \/ ResolveTools \/ Fork \/ ChangeTeam \/ RunAgent

\* An input of a sub-agent is of none of the other parts.
LEMMA AgentInputs ==
  ASSUME AgentInput
  PROVE  input'.part \in {"agents", "tools", "fork", "team", "run"}
<1>1. CASE LoadAgents
  BY <1>1 DEF LoadAgents
<1>2. CASE ResolveTools
  BY <1>2 DEF ResolveTools
<1>3. CASE Fork
  BY <1>3 DEF Fork
<1>4. CASE ChangeTeam
  BY <1>4 DEF ChangeTeam
<1>5. CASE RunAgent
  BY <1>5 DEF RunAgent
<1> QED
  BY <1>1, <1>2, <1>3, <1>4, <1>5 DEF AgentInput

\* The next input is one of these, or is about something else.
AnyInput ==
    Request \/ Calls \/ CompactOnce \/ AutoCompact \/ AgentInput \/ input'.part \notin Proved

LEMMA RequestStep == RequestInv /\ [AnyInput]_input => RequestInv'
<1>1. ASSUME Request PROVE RequestInv'
  <2>0. PICK retries \in 0 .. MaxRetries :
           \E answers \in [1 .. (retries + 1) -> Answers] :
               input' = [part |-> "request", answers |-> answers, retries |-> retries]
    BY <1>1 DEF Request
  <2>1. PICK answers \in [1 .. (retries + 1) -> Answers] :
           input' = [part |-> "request", answers |-> answers, retries |-> retries]
    BY <2>0
  <2>2. retries \in Nat
    OBVIOUS
  <2>3. input'.part = "request" /\ input'.answers = answers /\ input'.retries = retries
    BY <2>1
  <2> QED
    BY <2>2, <2>3 DEF RequestInv
<1>2. ASSUME Calls PROVE RequestInv'
  <2> DEFINE C == [config : SeqsUpTo(ClientConfigs, 1), env : ClientConfigs]
  <2>1. PICK calls \in SeqsUpTo(C, 2) : input' = [part |-> "clients", calls |-> calls]
    BY <1>2 DEF Calls
  <2>2. PICK k \in 0 .. 2 : calls \in [1 .. k -> C]
    BY <2>1 DEF SeqsUpTo
  <2> HIDE DEF C
  <2>3. k \in Nat /\ DOMAIN calls = 1 .. k
    BY <2>2
  <2>4. Len(calls) = k
    BY <2>2, <2>3
  <2>5. input'.part = "clients" /\ input'.calls = calls
    BY <2>1
  <2> QED
    BY <2>3, <2>4, <2>5 DEF RequestInv
<1>3. ASSUME CompactOnce \/ AutoCompact PROVE RequestInv'
  <2>1. input'.part \in {"compact", "breaker"}
    BY <1>3 DEF CompactOnce, AutoCompact
  <2> QED
    BY <2>1 DEF RequestInv
<1>4. ASSUME AgentInput PROVE RequestInv'
  BY <1>4, AgentInputs DEF RequestInv
<1> QED
  BY <1>1, <1>2, <1>3, <1>4 DEF AnyInput, RequestInv, Proved

LEMMA RequestMeans == RequestInv => RequestsAreRetried
<1>1. ASSUME RequestInv, input.part = "request"
      PROVE  Retry!RetriesWhatMayPass(input.answers, input.retries)
  <2>1. input.retries \in Nat /\ input.answers \in [1 .. (input.retries + 1) -> Answers]
    BY <1>1 DEF RequestInv
  <2> DEFINE a == input.answers
             r == input.retries
  <2> HIDE DEF a, r
  <2>2. r \in Nat /\ a \in [1 .. (r + 1) -> Answers]
    BY <2>1 DEF a, r
  <2>3. r + 1 \in Nat /\ DOMAIN a = 1 .. (r + 1) /\ a \in Seq(Answers)
    BY <2>2
  <2>4. Len(a) = r + 1
    BY <2>2, <2>3
  <2>5. \A k \in DOMAIN a : a[k].overloaded \in BOOLEAN /\ a[k].room \in Rooms
    BY <2>2, AnswersMade
  <2>6. Retry!RetriesWhatMayPass(a, r)
    BY <2>2, <2>3, <2>4, <2>5, RequestIsRetried
  <2> QED
    BY <2>6 DEF a, r
<1>2. ASSUME RequestInv, input.part = "clients"
      PROVE  Retry!SubAgentsShareClient(input.calls)
  BY <1>2, ClientIsShared DEF RequestInv
<1> QED
  BY <1>1, <1>2 DEF RequestsAreRetried

CompactInv ==
    /\ input.part = "compact" =>
          /\ \E M : input.messages \in Seq(M)
          /\ input.messages # <<>> /\ Whole(input.messages)
          /\ input.retries \in Nat
          /\ \A k \in 1 .. (input.retries + 1) : input.answers[k].over \in Nat
    /\ input.part = "breaker" =>
          /\ Len(input.turns) \in Nat /\ DOMAIN input.turns = 1 .. Len(input.turns)
          /\ \A k \in DOMAIN input.turns :
                 input.turns[k] \in {"below", "success", "failure", "reset"}

\* Decisions makes conversations in which results follow a reply.
LEMMA ConversationsAreWhole ==
  ASSUME NEW messages \in Conversations
  PROVE  /\ \E M : messages \in Seq(M)
         /\ messages # <<>> /\ Whole(messages)
<1>1. PICK n \in 1 .. MaxMessages, ids \in [1 .. (MaxMessages \div 2) -> 0 .. 2],
           sizes \in [1 .. 2 -> 1 .. 2] :
        messages =
          [i \in 1 .. n |->
             Compact!Message(IF i = 1 THEN "prompt"
                             ELSE IF i % 2 = 0 THEN "reply" ELSE "results",
                             IF i % 2 = 0 THEN ids[i \div 2] ELSE 0, sizes[(i % 2) + 1])]
  BY DEF Conversations
<1> DEFINE kind(i) == IF i = 1 THEN "prompt" ELSE IF i % 2 = 0 THEN "reply" ELSE "results"
           id(i) == IF i % 2 = 0 THEN ids[i \div 2] ELSE 0
           size(i) == sizes[(i % 2) + 1]
           M == {messages[i] : i \in 1 .. n}
<1>2. n \in Nat /\ n >= 1
  OBVIOUS
<1>3. messages = [i \in 1 .. n |-> Compact!Message(kind(i), id(i), size(i))]
  BY <1>1
<1> HIDE DEF kind, id, size
<1>4. DOMAIN messages = 1 .. n /\ messages \in Seq(M)
  <2>1. messages \in [1 .. n -> M]
    BY <1>3
  <2> HIDE DEF M
  <2> QED
    BY <1>2, <2>1
<1>5. Len(messages) = n
  BY <1>2, <1>4
<1>6. messages # <<>>
  BY <1>2, <1>5
<1>7. \A i \in 1 .. n : messages[i].kind = kind(i) /\ messages[i].size = size(i)
  BY <1>3 DEF Compact!Message
<1>8. ASSUME NEW i \in 1 .. n PROVE size(i) \in Nat
  <2>1. i % 2 \in {0, 1}
    BY <1>2
  <2>2. (i % 2) + 1 \in 1 .. 2
    BY <2>1
  <2> QED
    BY <2>2 DEF size
<1>9. ASSUME NEW i \in 1 .. n, kind(i) = "results"
      PROVE  i > 1 /\ i - 1 \in 1 .. n /\ (kind(i - 1) = "reply")
  <2>1. i # 1 /\ i % 2 # 0
    BY <1>9 DEF kind
  <2>2. i \in Nat /\ i > 1 /\ i - 1 \in 1 .. n
    BY <1>2, <2>1
  <2>3. (i - 1) % 2 = 0 /\ i - 1 # 1
    BY <2>1, <2>2
  <2> QED
    BY <2>2, <2>3 DEF kind
<1>10. \A i \in 1 .. n : kind(i) # "head"
  BY DEF kind
<1>11. Whole(messages)
  BY <1>5, <1>7, <1>8, <1>9, <1>10 DEF Whole, Compact!IsAssistant
<1> QED
  BY <1>4, <1>6, <1>11

LEMMA CompactStep == CompactInv /\ [AnyInput]_input => CompactInv'
<1>1. ASSUME CompactOnce PROVE CompactInv'
  <2>0. PICK messages \in Conversations, retries \in 0 .. MaxRetries - 1 :
           \E answers \in [1 .. (retries + 1) -> ModelAnswers] :
               input' = [part |-> "compact", messages |-> messages, answers |-> answers,
                         retries |-> retries]
    BY <1>1 DEF CompactOnce
  <2>1. PICK answers \in [1 .. (retries + 1) -> ModelAnswers] :
           input' = [part |-> "compact", messages |-> messages, answers |-> answers,
                     retries |-> retries]
    BY <2>0
  <2>2. retries \in Nat
    OBVIOUS
  <2>3. \A e \in ModelAnswers : e.over \in Nat
    <3> DEFINE kinds == {"summary", "empty", "exception", "too long"}
               long == "too long"
    <3>1. ModelAnswers = {[kind |-> k, over |-> 0] : k \in kinds}
                         \cup {[kind |-> long, over |-> n] : n \in 2 .. 3}
      BY Zenon DEF ModelAnswers
    <3> HIDE DEF kinds, long
    <3> QED
      BY <3>1
  <2>4. \A k \in 1 .. (retries + 1) : answers[k].over \in Nat
    BY <2>3
  <2>5. /\ input'.part = "compact" /\ input'.answers = answers /\ input'.retries = retries
        /\ input'.messages = messages
    BY <2>1
  <2>6. (\E M : messages \in Seq(M)) /\ messages # <<>> /\ Whole(messages)
    BY ConversationsAreWhole
  <2> QED
    BY <2>2, <2>4, <2>5, <2>6 DEF CompactInv
<1>2. ASSUME AutoCompact PROVE CompactInv'
  <2> DEFINE S == {"below", "success", "failure", "reset"}
  <2>1. PICK turns \in [1 .. MaxTurns -> S] : input' = [part |-> "breaker", turns |-> turns]
    BY <1>2 DEF AutoCompact
  <2>2. MaxTurns \in Nat
    BY ModelRequestsAssumption
  <2>3. DOMAIN turns = 1 .. MaxTurns /\ \A k \in DOMAIN turns : turns[k] \in S
    OBVIOUS
  <2> HIDE DEF S
  <2>4. Len(turns) = MaxTurns
    BY <2>2
  <2>5. input'.part = "breaker" /\ input'.turns = turns
    BY <2>1
  <2> QED
    BY <2>2, <2>3, <2>4, <2>5 DEF CompactInv, S
<1>3. ASSUME Request \/ Calls PROVE CompactInv'
  <2>1. input'.part \in {"request", "clients"}
    BY <1>3 DEF Request, Calls
  <2> QED
    BY <2>1 DEF CompactInv
<1>4. ASSUME AgentInput PROVE CompactInv'
  BY <1>4, AgentInputs DEF CompactInv
<1> QED
  BY <1>1, <1>2, <1>3, <1>4 DEF AnyInput, CompactInv, Proved

LEMMA CompactMeans == CompactInv => CompactsOrKeeps
<1>1. ASSUME CompactInv, input.part = "compact"
      PROVE  Compact!CompactsOrKeeps(input.messages, input.answers, input.retries)
  <2>1. PICK M : input.messages \in Seq(M)
    BY <1>1 DEF CompactInv
  <2>2. /\ input.messages # <<>> /\ Whole(input.messages)
        /\ input.retries \in Nat
        /\ \A k \in 1 .. (input.retries + 1) : input.answers[k].over \in Nat
    BY <1>1 DEF CompactInv
  <2> QED
    BY <2>1, <2>2, CompactionKeeps
<1>2. ASSUME CompactInv, input.part = "breaker"
      PROVE  Compact!BreakerOpens(input.turns)
  BY <1>2, BreakerHolds DEF CompactInv
<1> QED
  BY <1>1, <1>2 DEF CompactsOrKeeps

-----------------------------------------------------------------------------
(* The inputs of SubAgents.                                                *)

LEMMA UpToIsSeq == \A S, n : n \in Nat => \A s \in SeqsUpTo(S, n) : s \in Seq(S)
<1>1. SUFFICES ASSUME NEW S, NEW n \in Nat, NEW s \in SeqsUpTo(S, n) PROVE s \in Seq(S)
  OBVIOUS
<1>2. PICK k \in 0 .. n : s \in [1 .. k -> S]
  BY DEF SeqsUpTo
<1>3. k \in Nat
  OBVIOUS
<1> QED
  BY <1>2, <1>3

\* Contexts are conversations as CallsAnswered needs them.
LEMMA ContextsAreOrderly ==
  ASSUME NEW context \in Contexts
  PROVE  Orderly(context) /\ \E M : context \in Seq(M)
<1> DEFINE M == {Setup!Reply(u) : u \in SUBSET {"a", "b"}}
                \cup {Setup!UserMessage(r) : r \in SUBSET {"a", "b"}}
           Before(i) == UNION {context[j].uses : j \in 1 .. (i - 1)}
<1>1. context \in SeqsUpTo(M, 4)
  BY DEF Contexts
<1>2. \A i \in DOMAIN context :
         /\ context[i].results \subseteq Before(i)
         /\ context[i].uses \cap Before(i) = {}
  BY DEF Contexts
<1>3. \A m \in M : m.uses = {} \/ m.results = {}
  BY DEF Setup!Reply, Setup!UserMessage
<1> HIDE DEF M
<1>4. context \in Seq(M)
  BY <1>1, UpToIsSeq
<1>5. Len(context) \in Nat /\ DOMAIN context = 1 .. Len(context) /\ \A i \in DOMAIN context : context[i] \in M
  BY <1>4
<1>6. \A i, j \in DOMAIN context : j < i => context[j].uses \subseteq Before(i)
  BY <1>5
<1>7. \A i \in DOMAIN context : \A x \in Before(i) :
         \E j \in DOMAIN context : j < i /\ x \in context[j].uses
  <2>1. ASSUME NEW i \in DOMAIN context, NEW x \in Before(i)
        PROVE  \E j \in DOMAIN context : j < i /\ x \in context[j].uses
    <3>1. PICK j \in 1 .. (i - 1) : x \in context[j].uses
      OBVIOUS
    <3>2. j \in DOMAIN context /\ j < i
      BY <1>5
    <3> QED
      BY <3>1, <3>2
  <2> QED
    BY <2>1
<1> HIDE DEF Before
<1>8. Orderly(context)
  BY <1>2, <1>3, <1>5, <1>6, <1>7 DEF Orderly
<1> QED
  BY <1>4, <1>8

TeamIds == {"1", "2"}
TeamNames == {"a", "b"}
TeamModes == {"none", "plan"}

LEMMA TeamOpsMade == \A op \in TeamOps : TeamOpOf(op, TeamIds, TeamNames, TeamModes)
  BY DEF TeamOps, TeamOp, TeamOpOf, TeamKinds, TeamIds, TeamNames, TeamModes

RunContents ==
    {Results!Empty, "t", "u", "m", "Read", "Grep", "r", "n"}
    \cup {"Bash", "Edit", "Glob", "Write", "Skill", "Agent"}
ToolsNamed(events) ==
    \A k \in 1 .. Len(events) : events[k].type = "tool_use" => events[k].content # Results!Empty

\* Events of a run name the tools that they use.
LEMMA EventsMade ==
  ASSUME NEW first \in FirstEvents, NEW events \in SeqsUpTo(RunEvents, 3), NEW end \in Endings
  PROVE  /\ first \o Append(events, end) \in Seq(EventsWith(RunContents))
         /\ ToolsNamed(first \o Append(events, end))
<1> DEFINE V == {e \in EventsWith(RunContents) : e.type = "tool_use" => e.content # Results!Empty}
           Made(t, c) == Results!Event(t, c)
<1>10. ASSUME NEW t \in EventTypes, NEW c \in RunContents, t = "tool_use" => c # Results!Empty
       PROVE  Made(t, c) \in V
  <2>1. Made(t, c) = [type |-> t, content |-> c]
    BY DEF Results!Event
  <2>2. Made(t, c).type = t /\ Made(t, c).content = c
    BY <2>1
  <2>3. Made(t, c) \in EventsWith(RunContents)
    BY <2>1 DEF EventsWith
  <2> QED
    BY <1>10, <2>2, <2>3
<1>11. /\ {"text", "thinking", "tool_use", "tool_result", "usage", "result", "error", "raised"} \subseteq EventTypes
       /\ {"t", "u", "m", "Read", "Grep", "r", "n"} \subseteq RunContents
       /\ {"Bash", "Edit", "Glob", "Write", "Skill", "Agent"} \subseteq RunContents
       /\ Results!Empty \in RunContents
  BY DEF EventTypes, RunContents
<1>12. \A c \in {"Read", "Grep", "Bash", "Edit", "Glob", "Write", "Skill", "Agent"} : c # Results!Empty
  BY DEF Results!Empty
<1>13. "text" # "tool_use" /\ "thinking" # "tool_use" /\ "tool_result" # "tool_use" /\ "usage" # "tool_use"
       /\ "result" # "tool_use" /\ "error" # "tool_use" /\ "raised" # "tool_use"
  OBVIOUS
<1>14. ASSUME NEW k \in Nat, NEW f \in [1 .. k -> V] PROVE f \in Seq(V)
  <2> HIDE DEF V
  <2> QED
    OBVIOUS
<1>1. RunEvents \subseteq V
  <2>1. /\ Made("text", "t") \in V /\ Made("text", "u") \in V /\ Made("text", Results!Empty) \in V
        /\ Made("thinking", "m") \in V /\ Made("thinking", Results!Empty) \in V
        /\ Made("tool_result", "r") \in V /\ Made("usage", "n") \in V
    <3> HIDE DEF V
    <3> QED
      BY <1>10, <1>11, <1>13
  <2>2. Made("tool_use", "Read") \in V /\ Made("tool_use", "Grep") \in V
    <3> HIDE DEF V
    <3> QED
      BY <1>10, <1>11, <1>12
  <2> HIDE DEF V
  <2> QED
    BY <2>1, <2>2 DEF RunEvents
<1>2. Endings \subseteq V
  <2>1. \A t \in {"result", "error", "raised"} : Made(t, Results!Empty) \in V
    <3> HIDE DEF V
    <3> QED
      BY <1>10, <1>11, <1>13
  <2> HIDE DEF V
  <2> QED
    BY <2>1 DEF Endings
<1>3. first \in Seq(V)
  <2>1. CASE first = <<>>
    BY <2>1
  <2>2. CASE first = [i \in DOMAIN ManyTools |-> Results!Event("tool_use", ManyTools[i])]
    <3>1. \A i \in 1 .. 6 : ManyTools[i] \in {"Bash", "Edit", "Glob", "Write", "Skill", "Agent"}
      BY DEF ManyTools
    <3>2. \A c \in {"Bash", "Edit", "Glob", "Write", "Skill", "Agent"} : Results!Event("tool_use", c) \in V
      <4> HIDE DEF V
      <4> QED
        BY <1>10, <1>11, <1>12
    <3>3. DOMAIN ManyTools = 1 .. 6
      BY DEF ManyTools
    <3> HIDE DEF V
    <3>4. first \in [1 .. 6 -> V]
      BY <2>2, <3>1, <3>2, <3>3
    <3>5. 6 \in Nat
      OBVIOUS
    <3> QED
      BY <1>14, <3>4, <3>5
  <2> QED
    BY <2>1, <2>2 DEF FirstEvents
<1>4. V \subseteq EventsWith(RunContents)
  OBVIOUS
<1>5. \A e \in V : e.type = "tool_use" => e.content # Results!Empty
  OBVIOUS
<1> HIDE DEF V
<1>6. events \in Seq(V)
  <2>1. events \in Seq(RunEvents)
    BY UpToIsSeq
  <2> QED
    BY <1>1, <2>1
<1>7. first \o Append(events, end) \in Seq(V)
  BY <1>2, <1>3, <1>6
<1> DEFINE all == first \o Append(events, end)
<1> HIDE DEF all
<1>8. all \in Seq(V)
  BY <1>7 DEF all
<1>9. all \in Seq(EventsWith(RunContents)) /\ ToolsNamed(all)
  BY <1>4, <1>5, <1>8 DEF ToolsNamed
<1> QED
  BY <1>9 DEF all

SubAgentsInv ==
    /\ input.part = "agents" => input.files \in Seq(AgentFiles)
    /\ input.part = "tools" => input.async \in BOOLEAN /\ input.planMode \in BOOLEAN
    /\ input.part = "fork" =>
          /\ Orderly(input.context) /\ \E M : input.context \in Seq(M)
          /\ \E calls : input.reply = Setup!Reply(calls)
    /\ input.part = "team" => input.ops \in Seq(TeamOps) /\ input.ops # <<>>
    /\ input.part = "run" =>
          /\ input.events \in Seq(EventsWith(RunContents)) /\ ToolsNamed(input.events)
          /\ input.abort \in 1 .. (Len(input.events) + 1)

\* The next input is of the same kind.
LEMMA SubAgentsStep == SubAgentsInv /\ [AnyInput]_input => SubAgentsInv'
<1>1. ASSUME LoadAgents PROVE SubAgentsInv'
  <2>1. PICK files \in SeqsUpTo(AgentFiles, 3) : input' = [part |-> "agents", files |-> files]
    BY <1>1 DEF LoadAgents
  <2>2. input'.part = "agents" /\ input'.files = files
    BY <2>1
  <2>3. files \in Seq(AgentFiles)
    BY UpToIsSeq
  <2> QED
    BY <2>2, <2>3 DEF SubAgentsInv
<1>2. ASSUME ResolveTools PROVE SubAgentsInv'
  <2>1. input'.part = "tools" /\ input'.async \in BOOLEAN /\ input'.planMode \in BOOLEAN
    BY <1>2 DEF ResolveTools
  <2> QED
    BY <2>1 DEF SubAgentsInv
<1>3. ASSUME Fork PROVE SubAgentsInv'
  <2>1. PICK context \in Contexts, reply \in {Setup!Reply(u) : u \in SUBSET {"c", "d"}} :
           input' = [part |-> "fork", context |-> context, reply |-> reply]
    BY <1>3 DEF Fork
  <2>2. input'.part = "fork" /\ input'.context = context /\ input'.reply = reply
    BY <2>1
  <2>3. Orderly(context) /\ \E M : context \in Seq(M)
    BY ContextsAreOrderly
  <2>4. \E calls : reply = Setup!Reply(calls)
    OBVIOUS
  <2> QED
    BY <2>2, <2>3, <2>4 DEF SubAgentsInv
<1>4. ASSUME ChangeTeam PROVE SubAgentsInv'
  <2> DEFINE create == TeamOp("create", Team!Nobody, Team!Nobody, "none")
  <2>1. PICK ops \in SeqsUpTo(TeamOps, 4) : input' = [part |-> "team", ops |-> <<create>> \o ops]
    BY <1>4 DEF ChangeTeam
  <2>2. create \in TeamOps
    BY DEF TeamOps
  <2>3. ops \in Seq(TeamOps)
    BY UpToIsSeq
  <2> HIDE DEF create
  <2>4. <<create>> \o ops \in Seq(TeamOps) /\ <<create>> \o ops # <<>>
    BY <2>2, <2>3
  <2>5. input'.part = "team" /\ input'.ops = <<create>> \o ops
    BY <2>1
  <2> QED
    BY <2>4, <2>5 DEF SubAgentsInv
<1>5. ASSUME RunAgent PROVE SubAgentsInv'
  <2>1. PICK first \in FirstEvents, events \in SeqsUpTo(RunEvents, 3), end \in Endings :
           \E abort \in 1 .. (Len(first \o Append(events, end)) + 1) :
               input' = [part |-> "run", events |-> first \o Append(events, end), abort |-> abort]
    BY <1>5 DEF RunAgent
  <2> DEFINE all == first \o Append(events, end)
  <2>2. all \in Seq(EventsWith(RunContents)) /\ ToolsNamed(all)
    BY EventsMade
  <2> HIDE DEF all
  <2>3. PICK abort \in 1 .. (Len(all) + 1) : input' = [part |-> "run", events |-> all, abort |-> abort]
    BY <2>1 DEF all
  <2>4. input'.part = "run" /\ input'.events = all /\ input'.abort = abort
    BY <2>3
  <2> QED
    BY <2>2, <2>4 DEF SubAgentsInv
<1>6. ASSUME Request \/ Calls \/ CompactOnce \/ AutoCompact PROVE SubAgentsInv'
  <2>1. input'.part \in {"request", "clients", "compact", "breaker"}
    BY <1>6 DEF Request, Calls, CompactOnce, AutoCompact
  <2> QED
    BY <2>1 DEF SubAgentsInv
<1>7. ASSUME input'.part \notin Proved PROVE SubAgentsInv'
  BY <1>7 DEF SubAgentsInv, Proved
<1>8. ASSUME UNCHANGED input PROVE SubAgentsInv => SubAgentsInv'
  BY <1>8 DEF SubAgentsInv
<1> QED
  BY <1>1, <1>2, <1>3, <1>4, <1>5, <1>6, <1>7, <1>8 DEF AnyInput, AgentInput

\* What is true of such inputs is what SubAgents says.
LEMMA SubAgentsMean == SubAgentsInv => SubAgentsAreSetUp
<1> SUFFICES ASSUME SubAgentsInv PROVE SubAgentsAreSetUp
  OBVIOUS
<1>1. ASSUME input.part = "agents" PROVE Setup!AgentsAccountedFor(input.files)
  <2>1. input.files \in Seq(AgentFiles)
    BY <1>1 DEF SubAgentsInv
  <2> QED
    BY <2>1, AgentsKept
<1>2. ASSUME input.part = "tools"
      PROVE  Setup!SubAgentsKeepToTheirTools(input.tools, input.disallowed, input.available,
                                             input.async, input.planMode)
  <2>1. input.async \in BOOLEAN /\ input.planMode \in BOOLEAN
    BY <1>2 DEF SubAgentsInv
  <2> QED
    BY <2>1, ToolsKept
<1>3. ASSUME input.part = "fork" PROVE Setup!InheritedCallsAreAnswered(input.context, input.reply)
  <2>1. Orderly(input.context)
    BY <1>3 DEF SubAgentsInv
  <2>2. PICK M : input.context \in Seq(M)
    BY <1>3 DEF SubAgentsInv
  <2>3. PICK calls : input.reply = Setup!Reply(calls)
    BY <1>3 DEF SubAgentsInv
  <2>4. Setup!InheritedCallsAreAnswered(input.context, Setup!Reply(calls))
    BY <2>1, <2>2, CallsAnswered
  <2> QED
    BY <2>3, <2>4
<1>4. ASSUME input.part = "team" PROVE Team!OthersAreKept(input.ops)
  <2>1. input.ops \in Seq(TeamOps) /\ input.ops # <<>>
    BY <1>4 DEF SubAgentsInv
  <2>2. "none" \in TeamModes /\ Team!Nobody \notin TeamIds /\ Team!Nobody \notin TeamNames
    BY DEF TeamModes, TeamIds, TeamNames, Team!Nobody
  <2> QED
    BY <2>1, <2>2, TeamOpsMade, TeamKept
<1>5. ASSUME input.part = "run" PROVE Results!AnswersAreOfTheRun(input.events, input.abort)
  <2>1. /\ input.events \in Seq(EventsWith(RunContents))
        /\ \A k \in 1 .. Len(input.events) :
              input.events[k].type = "tool_use" => input.events[k].content # Results!Empty
        /\ input.abort \in 1 .. (Len(input.events) + 1)
    BY <1>5 DEF SubAgentsInv, ToolsNamed
  <2>2. Results!Empty \in RunContents
    BY DEF RunContents
  <2> QED
    BY <2>1, <2>2, AnswersKept
<1> QED
  BY <1>1, <1>2, <1>3, <1>4, <1>5 DEF SubAgentsAreSetUp
=============================================================================
