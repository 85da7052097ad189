-------------------------- MODULE ChatSessionProofs -------------------------
(***************************************************************************)
(* ChatSession, for any sets of commands and any bound on the number of    *)
(* turns: the turn discipline (IInv); every command is in one place        *)
(* (PlaceInv), from which the screen implements TurnService; the queue is  *)
(* first in, first out (OrderInv); a turn streams with its prompt in the   *)
(* history (HistInv).  At the end: the guard alone, driven by any callers. *)
(***************************************************************************)
EXTENDS ChatSessionRefinement, SequenceTheorems, TLAPS

Opening(a) == pc[a] \in {"mounting", "mounted"}
Reading(a) == pc[a] \in {"streaming", "failing"}

\* An actor in a turn holds the guard, alone, and only the worker of the
\* running generation reads the engine.
HoldersInv ==
    /\ \A a \in Actors : pc[a] \in TurnPCs => status = "running"
    /\ \A a, b \in Actors : pc[a] \in TurnPCs /\ pc[b] \in TurnPCs => a = b
    /\ \A a \in Actors : Reading(a) => a = generation
    /\ status = "running" => \E a \in Actors : pc[a] \in TurnPCs

\* The worker of a turn that is still being opened was not created yet.
WorkersInv ==
    /\ \A g \in Turns : g > generation => pc[g] = "idle"
    /\ \A a \in Actors : Opening(a) => generation \in Turns /\ pc[generation] = "idle"
    /\ pc[Pump] \in {"idle", "mounting", "mounted", "slash", "shown"}

\* Only workers that left their turn are ever cancelled.
CancelInv == \A g \in cancelled : pc[g] \in {"slash", "shown", "closing"}

\* The shared abort event belongs to the turn that is being read.
AbortInv ==
    /\ abortEvent # 0 => Reading(abortEvent)
    /\ \A g \in interrupted : pc[g] # "idle"
    /\ InterruptReachesTurn

\* The re-entrancy flag belongs to one actor that is inside the queue loop.
FlagInv ==
    /\ \A a \in looping : pc[a] \in {"slash", "shown", "mounting", "mounted"}
    /\ QueueFlagOwned

IInv == TypeOK /\ HoldersInv /\ WorkersInv /\ CancelInv /\ AbortInv /\ FlagInv

-----------------------------------------------------------------------------
USE ChatSessionAssumption DEF Actors, Turns, Pump

\* The initial state satisfies the invariant.
LEMMA InitIInv == Init => IInv
<1> SUFFICES ASSUME Init PROVE IInv
  OBVIOUS
<1> USE DEF Init
<1>1. TypeOK
  BY DEF TypeOK, PCs
<1>2. HoldersInv /\ WorkersInv /\ CancelInv
  BY DEF HoldersInv, TurnPCs, WorkersInv, CancelInv, Opening, Reading
<1>3. AbortInv /\ FlagInv
  BY DEF AbortInv, InterruptReachesTurn, FlagInv, QueueFlagOwned
<1> QED
  BY <1>1, <1>2, <1>3 DEF IInv

-----------------------------------------------------------------------------
(* Four kinds of step: a move outside any turn, the start of a turn, a     *)
(* move inside a turn and the end of a turn.                               *)

\* An actor that is in no turn moves to an await that is in no turn either.
QuietPCs == {"slash", "shown", "closing", "done"}

\* An actor moves outside the turns, between two places where it holds no guard,
\* and takes nothing but itself out of the queue loop.
LEMMA QuietMove ==
  ASSUME IInv, NEW a \in Actors, NEW p \in QuietPCs \cup {"idle"},
         pc' = [pc EXCEPT ![a] = p],
         pc[a] \in QuietPCs \/ a = Pump, pc[a] \notin TurnPCs,
         a = Pump => p \in {"idle", "slash", "shown"},
         a # Pump => p # "idle",
         cancelled' \in SUBSET cancelled, a \notin cancelled',
         status' = status, generation' = generation,
         isStreaming' = isStreaming, abortEvent' = abortEvent, interrupted' = interrupted,
         looping' \in SUBSET Actors, processing' \in BOOLEAN, FlagInv'
  PROVE  IInv'
<1>1. TypeOK'
  BY DEF IInv, TypeOK, PCs, QuietPCs
<1>2. HoldersInv'
  BY DEF IInv, TypeOK, HoldersInv, TurnPCs, Reading, QuietPCs
<1>3. WorkersInv'
  BY DEF IInv, TypeOK, WorkersInv, TurnPCs, Opening, QuietPCs
<1>4. CancelInv'
  BY DEF IInv, TypeOK, CancelInv
<1>5. AbortInv'
  BY DEF IInv, TypeOK, AbortInv, InterruptReachesTurn, TurnPCs, Reading, QuietPCs
<1> QED
  BY <1>1, <1>2, <1>3, <1>4, <1>5 DEF IInv

\* An actor outside any turn starts one while the guard is idle.
LEMMA StartMove ==
  ASSUME IInv, NEW a \in Actors, NEW c, BeginTurn(a, c), status = "idle",
         pc[a] \in QuietPCs \/ a = Pump, pc[a] \notin TurnPCs, a \notin cancelled,
         cancelled' = cancelled,
         isStreaming' = isStreaming, abortEvent' = abortEvent, interrupted' = interrupted,
         looping' \in SUBSET Actors, processing' \in BOOLEAN, FlagInv'
  PROVE  IInv'
<1> USE DEF BeginTurn
<1>1. TypeOK'
  BY DEF IInv, TypeOK, PCs
<1>2. HoldersInv'
  BY DEF IInv, TypeOK, HoldersInv, TurnPCs, Reading
<1>3. WorkersInv'
  BY DEF IInv, TypeOK, HoldersInv, WorkersInv, TurnPCs, Opening, QuietPCs
<1>4. CancelInv'
  BY DEF IInv, TypeOK, CancelInv
<1>5. AbortInv'
  BY DEF IInv, TypeOK, HoldersInv, AbortInv, InterruptReachesTurn, TurnPCs, Reading
<1> QED
  BY <1>1, <1>2, <1>3, <1>4, <1>5 DEF IInv

\* The finally clause of the worker that holds the guard.
LEMMA EndMove ==
  ASSUME IInv, NEW g \in Turns, Reading(g), EndTurn(g)
  PROVE  IInv'
<1> USE DEF EndTurn, EndReleases, queueVars
<1>1. g = generation /\ status = "running"
  BY DEF IInv, HoldersInv, Reading, TurnPCs
<1>2. TypeOK'
  <2>1. status' \in {"idle", "running"} /\ abortEvent' \in 0 .. MaxTurns
    BY <1>1
  <2>2. pc' \in [Actors -> PCs]
    BY DEF IInv, TypeOK, PCs
  <2> QED
    BY <2>1, <2>2 DEF IInv, TypeOK
<1>3. HoldersInv'
  BY <1>1 DEF IInv, TypeOK, HoldersInv, TurnPCs, Reading
<1>4. WorkersInv'
  BY <1>1 DEF IInv, TypeOK, WorkersInv, HoldersInv, TurnPCs, Opening, Reading
<1>5. CancelInv'
  BY <1>1 DEF IInv, TypeOK, CancelInv
<1>6. AbortInv'
  BY <1>1 DEF IInv, TypeOK, HoldersInv, AbortInv, InterruptReachesTurn, TurnPCs, Reading
<1>7. FlagInv'
  BY DEF IInv, TypeOK, FlagInv, QueueFlagOwned, Reading
<1> QED
  BY <1>2, <1>3, <1>4, <1>5, <1>6, <1>7 DEF IInv

-----------------------------------------------------------------------------
(* _process_queue_if_ready, and the actions.                               *)

\* _process_queue_if_ready, entered or resumed by an actor that holds no guard.
LEMMA ProcessQueueStep ==
  ASSUME IInv, NEW a \in Actors, ProcessQueue(a), pc[a] \in {"shown", "closing"},
         a \notin cancelled, UNCHANGED <<streamVars, cancelled>>
  PROVE  IInv'
<1> DEFINE q == Drained
           c == NextCommand(q)
<1> USE DEF streamVars, guardVars
<1>1. CASE processing /\ a \notin looping /\ Leave(a) /\ UNCHANGED <<guardVars, processing>>
  <2>1. FlagInv' /\ looping' \in SUBSET Actors /\ processing' \in BOOLEAN
    BY <1>1 DEF Leave, IInv, TypeOK, FlagInv, QueueFlagOwned
  <2> QED
    BY <1>1, <2>1, QuietMove DEF Leave, QuietPCs, TurnPCs
<1>2. CASE /\ ~processing \/ a \in looping
           /\ processing' = FALSE
           /\ Leave(a) /\ UNCHANGED guardVars
  <2>1. FlagInv' /\ looping' \in SUBSET Actors /\ processing' \in BOOLEAN
    BY <1>2 DEF Leave, IInv, TypeOK, FlagInv, QueueFlagOwned
  <2> QED
    BY <1>2, <2>1, QuietMove DEF Leave, QuietPCs, TurnPCs
<1>3. CASE /\ ~processing \/ a \in looping
           /\ processing' = TRUE
           /\ BeginSlash(a, c, TRUE)
  <2>1. FlagInv' /\ looping' \in SUBSET Actors /\ processing' \in BOOLEAN
    BY <1>3 DEF BeginSlash, IInv, TypeOK, FlagInv, QueueFlagOwned
  <2> QED
    BY <1>3, <2>1, QuietMove DEF BeginSlash, QuietPCs, TurnPCs
<1>4. CASE /\ ~processing \/ a \in looping
           /\ ~GuardActive
           /\ processing' = TRUE
           /\ BeginTurn(a, c)
           /\ looping' = looping \cup {a}
  <2>1. FlagInv' /\ looping' \in SUBSET Actors /\ processing' \in BOOLEAN
    BY <1>4 DEF BeginTurn, IInv, TypeOK, FlagInv, QueueFlagOwned
  <2> QED
    BY <1>4, <2>1, StartMove DEF GuardActive, QuietPCs, TurnPCs
<1> QED
  BY <1>1, <1>2, <1>3, <1>4 DEF ProcessQueue

\* on_input: queued, a turn of its own, or a slash command.
LEMMA SubmitStep ==
  ASSUME IInv, NEW c \in Inputs, Submit(c)
  PROVE  IInv'
<1> USE DEF Submit, streamVars, guardVars, actorVars, Busy, GuardActive
<1>1. CASE Busy /\ UNCHANGED <<guardVars, actorVars>>
  BY <1>1 DEF IInv, TypeOK, HoldersInv, WorkersInv, CancelInv, AbortInv, FlagInv,
              InterruptReachesTurn, QueueFlagOwned, Opening, Reading
<1>2. CASE ~Busy /\ BeginTurn(Pump, c) /\ UNCHANGED looping
  <2>1. FlagInv' /\ looping' \in SUBSET Actors /\ processing' \in BOOLEAN
    BY <1>2 DEF BeginTurn, IInv, TypeOK, FlagInv, QueueFlagOwned
  <2> QED
    BY <1>2, <2>1, StartMove DEF QuietPCs, TurnPCs, IInv, TypeOK
<1>3. CASE ~Busy /\ BeginSlash(Pump, c, FALSE)
  <2>1. FlagInv' /\ looping' \in SUBSET Actors /\ processing' \in BOOLEAN
    BY <1>3 DEF BeginSlash, IInv, TypeOK, FlagInv, QueueFlagOwned
  <2>2. Pump \notin cancelled
    BY DEF IInv, TypeOK
  <2>3. CASE c \in Clears
    <3>1. pc' = [pc EXCEPT ![Pump] = "shown"]
      BY <1>3, <2>3 DEF BeginSlash
    <3> QED
      BY <1>3, <2>1, <2>2, <3>1, QuietMove DEF BeginSlash, QuietPCs, TurnPCs
  <2>4. CASE c \notin Clears
    <3>1. pc' = [pc EXCEPT ![Pump] = "slash"]
      BY <1>3, <2>4 DEF BeginSlash
    <3> QED
      BY <1>3, <2>1, <2>2, <3>1, QuietMove DEF BeginSlash, QuietPCs, TurnPCs
  <2> QED
    BY <2>3, <2>4
<1> QED
  BY <1>1, <1>2, <1>3

\* Ctrl+C clears the shared flag and marks the running generation.
LEMMA CtrlCStep == IInv /\ CtrlC => IInv'
<1> SUFFICES ASSUME IInv, CtrlC PROVE IInv'
  OBVIOUS
<1> USE DEF CtrlC, AbortSet, guardVars, actorVars
<1>1. TypeOK'
  <2>1. interrupted' \in SUBSET Turns
    BY DEF IInv, TypeOK
  <2>2. isStreaming' \in BOOLEAN
    OBVIOUS
  <2> QED
    BY <2>1, <2>2 DEF IInv, TypeOK
<1>2. HoldersInv'
  BY DEF IInv, HoldersInv, Reading
<1>3. WorkersInv'
  BY DEF IInv, WorkersInv, Opening
<1>4. CancelInv' /\ FlagInv'
  BY DEF IInv, CancelInv, FlagInv, QueueFlagOwned
<1>5. AbortInv'
  BY DEF IInv, TypeOK, AbortInv, InterruptReachesTurn, Reading
<1> QED
  BY <1>1, <1>2, <1>3, <1>4, <1>5 DEF IInv

\* _begin_prompt_turn between its two mounts.
LEMMA AppendPromptStep ==
  ASSUME IInv, NEW a \in Actors, AppendPrompt(a)
  PROVE  IInv'
<1> USE DEF AppendPrompt, Resumes, guardVars, streamVars
<1>1. TypeOK'
  BY DEF IInv, TypeOK, PCs
<1>2. HoldersInv'
  BY DEF IInv, TypeOK, HoldersInv, TurnPCs, Reading
<1>3. WorkersInv' /\ CancelInv'
  BY DEF IInv, TypeOK, WorkersInv, CancelInv, Opening
<1>4. AbortInv'
  BY DEF IInv, TypeOK, AbortInv, InterruptReachesTurn, Reading
<1>5. FlagInv'
  BY DEF IInv, TypeOK, FlagInv, QueueFlagOwned
<1> QED
  BY <1>1, <1>2, <1>3, <1>4, <1>5 DEF IInv

\* The turn passes from the actor that opened it to its worker; the workers that
\* this cancels hold no guard.
LEMMA StartWorkerStep ==
  ASSUME IInv, NEW a \in Actors, StartWorker(a)
  PROVE  IInv'
<1> USE DEF StartWorker, Resumes, guardVars, queueVars
<1>1. /\ generation \in Turns
      /\ pc[generation] = "idle"
      /\ a # generation
      /\ status = "running"
  BY DEF IInv, HoldersInv, WorkersInv, Opening, TurnPCs
<1>2. TypeOK'
  BY <1>1 DEF IInv, TypeOK, PCs, LiveWorkers
<1>3. HoldersInv'
  BY <1>1 DEF IInv, TypeOK, HoldersInv, TurnPCs, Reading
<1>4. WorkersInv'
  <2>1. \A b \in Actors : ~Opening(b)'
    BY <1>1 DEF IInv, TypeOK, HoldersInv, TurnPCs, Opening
  <2> QED
    BY <1>1, <2>1 DEF IInv, TypeOK, WorkersInv
<1>5. CancelInv'
  <2> SUFFICES ASSUME NEW g \in cancelled' PROVE pc'[g] \in {"slash", "shown", "closing"}
    BY DEF CancelInv
  <2>1. CASE g \in cancelled
    BY <1>1, <2>1 DEF IInv, TypeOK, CancelInv
  <2>2. CASE g \in LiveWorkers \ {a}
    <3>1. g \in Turns /\ pc[g] \notin TurnPCs /\ g # generation
      BY <1>1, <2>2 DEF IInv, HoldersInv, LiveWorkers, TurnPCs
    <3> QED
      BY <1>1, <2>2, <3>1 DEF IInv, TypeOK, PCs, LiveWorkers, TurnPCs
  <2> QED
    BY <2>1, <2>2
<1>6. AbortInv'
  <2>1. generation \notin interrupted
    BY <1>1 DEF IInv, AbortInv
  <2>2. \A g \in Turns : pc'[g] = "streaming" => g = generation
    BY <1>1 DEF IInv, TypeOK, HoldersInv, TurnPCs
  <2>3. InterruptReachesTurn'
    BY <1>1, <2>1, <2>2 DEF InterruptReachesTurn
  <2>4. \A g \in interrupted : pc'[g] # "idle"
    BY <1>1 DEF IInv, TypeOK, AbortInv
  <2> QED
    BY <1>1, <2>3, <2>4 DEF IInv, TypeOK, AbortInv, Reading
<1>7. FlagInv'
  <2>1. generation \notin looping
    BY <1>1 DEF IInv, FlagInv
  <2>2. \A b \in looping' : pc'[b] \in {"slash", "shown", "mounting", "mounted"}
    BY <1>1, <2>1 DEF IInv, TypeOK, FlagInv
  <2>3. processing' <=> looping' # {}
    <3>1. CASE a \in looping
      BY <3>1 DEF IInv, FlagInv, QueueFlagOwned
    <3>2. CASE a \notin looping
      BY <3>2 DEF IInv, FlagInv, QueueFlagOwned
    <3> QED
      BY <3>1, <3>2
  <2>4. \A b, c \in looping' : b = c
    BY DEF IInv, FlagInv, QueueFlagOwned
  <2> QED
    BY <2>2, <2>3, <2>4 DEF FlagInv, QueueFlagOwned
<1> QED
  BY <1>2, <1>3, <1>4, <1>5, <1>6, <1>7 DEF IInv

\* A skill's prompt is there: a turn, or nothing.
LEMMA SkillReturnsStep ==
  ASSUME IInv, NEW a \in Actors, SkillReturns(a)
  PROVE  IInv'
<1> USE DEF SkillReturns, Resumes, streamVars, guardVars
<1>1. CASE ~GuardActive /\ BeginTurn(a, task[a]) /\ UNCHANGED <<looping, processing>>
  <2>1. FlagInv' /\ looping' \in SUBSET Actors /\ processing' \in BOOLEAN
    BY <1>1 DEF BeginTurn, IInv, TypeOK, FlagInv, QueueFlagOwned
  <2> QED
    BY <1>1, <2>1, StartMove DEF GuardActive, QuietPCs, TurnPCs
<1>2. CASE /\ Leave(a)
           /\ processing' = (processing /\ a \notin looping)
           /\ UNCHANGED guardVars
  <2>1. FlagInv' /\ looping' \in SUBSET Actors /\ processing' \in BOOLEAN
    BY <1>2 DEF Leave, IInv, TypeOK, FlagInv, QueueFlagOwned
  <2> QED
    BY <1>2, <2>1, QuietMove DEF Leave, QuietPCs, TurnPCs
<1> QED
  BY <1>1, <1>2

\* A compaction returns; the actor moves on to the output.
LEMMA CompactReturnsStep ==
  ASSUME IInv, NEW a \in Actors, CompactReturns(a)
  PROVE  IInv'
<1> USE DEF CompactReturns, Resumes, streamVars, guardVars, queueVars
<1>1. FlagInv' /\ looping' \in SUBSET Actors /\ processing' \in BOOLEAN
  BY DEF IInv, TypeOK, FlagInv, QueueFlagOwned
<1> QED
  BY <1>1, QuietMove DEF QuietPCs, TurnPCs

\* The worker goes from streaming to its except clause and keeps the guard.
LEMMA TurnFailsStep ==
  ASSUME IInv, NEW g \in Turns, TurnFails(g)
  PROVE  IInv'
<1> USE DEF TurnFails, Resumes, streamVars, guardVars, queueVars
<1>1. TypeOK'
  BY DEF IInv, TypeOK, PCs
<1>2. HoldersInv'
  BY DEF IInv, TypeOK, HoldersInv, TurnPCs, Reading
<1>3. WorkersInv' /\ CancelInv'
  BY DEF IInv, TypeOK, WorkersInv, CancelInv, Opening
<1>4. AbortInv'
  BY DEF IInv, TypeOK, AbortInv, InterruptReachesTurn, Reading
<1>5. FlagInv'
  BY DEF IInv, TypeOK, FlagInv, QueueFlagOwned
<1> QED
  BY <1>1, <1>2, <1>3, <1>4, <1>5 DEF IInv

\* A cancelled worker ends; it held no guard.
LEMMA UnwindStep ==
  ASSUME IInv, NEW g \in Turns, Unwind(g)
  PROVE  IInv'
<1> USE DEF Unwind, Leave, FlagAfterUnwind, streamVars, guardVars, queueVars
<1>1. pc[g] \in {"slash", "shown", "closing"}
  BY DEF IInv, CancelInv
<1>2. FlagInv' /\ looping' \in SUBSET Actors /\ processing' \in BOOLEAN
  BY <1>1 DEF IInv, TypeOK, FlagInv, QueueFlagOwned
<1> QED
  BY <1>1, <1>2, QuietMove DEF QuietPCs, TurnPCs

\* Steps that leave the actors, the guard and the flags alone.
LEMMA IdleStep ==
  ASSUME IInv, UNCHANGED <<status, generation, pc, looping, processing, streamVars, cancelled>>
  PROVE  IInv'
<1> USE DEF streamVars
<1>1. TypeOK' /\ HoldersInv'
  BY DEF IInv, TypeOK, HoldersInv, Reading
<1>2. WorkersInv' /\ CancelInv'
  BY DEF IInv, WorkersInv, CancelInv, Opening
<1>3. AbortInv' /\ FlagInv'
  BY DEF IInv, AbortInv, InterruptReachesTurn, Reading, FlagInv, QueueFlagOwned
<1> QED
  BY <1>1, <1>2, <1>3 DEF IInv

\* Every step preserves the invariant: one case per action.
LEMMA NextIInv == IInv /\ [Next]_vars => IInv'
<1> SUFFICES ASSUME IInv, [Next]_vars PROVE IInv'
  OBVIOUS
<1> USE DEF guardVars, queueVars, actorVars, streamVars
<1>1. ASSUME NEW c \in Inputs, Submit(c) PROVE IInv'
  BY <1>1, SubmitStep
<1>2. CASE CtrlC
  BY <1>2, CtrlCStep
<1>3. ASSUME NEW n \in Notes, Notify(n) PROVE IInv'
  BY <1>3, IdleStep DEF Notify
<1>4. ASSUME NEW a \in Actors, ActorStep(a) PROVE IInv'
  <2>1. CASE SlashReturns(a)
    BY <2>1, ProcessQueueStep DEF SlashReturns, Resumes
  <2> QED
    BY <1>4, <2>1, AppendPromptStep, StartWorkerStep, SkillReturnsStep, CompactReturnsStep
       DEF ActorStep
<1>5. ASSUME NEW g \in Turns, WorkerStep(g) PROVE IInv'
  <2>1. CASE TurnEnds(g)
    BY <2>1, EndMove DEF TurnEnds, Resumes, Reading
  <2>2. CASE FailureShown(g)
    BY <2>2, EndMove DEF FailureShown, Resumes, Reading
  <2>3. CASE TurnCloses(g)
    BY <2>3, ProcessQueueStep DEF TurnCloses, Resumes
  <2> QED
    BY <1>5, <2>1, <2>2, <2>3, TurnFailsStep, UnwindStep DEF WorkerStep
<1>6. ASSUME NEW g \in Turns, DrainMidTurn(g) PROVE IInv'
  BY <1>6, IdleStep DEF DrainMidTurn
<1>7. CASE UNCHANGED vars
  BY <1>7, IdleStep DEF vars
<1> QED
  BY <1>1, <1>2, <1>3, <1>4, <1>5, <1>6, <1>7 DEF Next, UserStep

-----------------------------------------------------------------------------
(* Where the commands are.  Every command is in one place: not sent yet,   *)
(* in the queue or the outbox, being prepared as a slash command, or the   *)
(* command of a turn.                                                      *)

Distinct(q) == \A i, j \in DOMAIN q : q[i] = q[j] => i = j

LEMMA AppendIn ==
  ASSUME NEW S, NEW q \in Seq(S), NEW c \in S
  PROVE  /\ Append(q, c) \in Seq(S)
         /\ InSeq(Append(q, c)) = InSeq(q) \cup {c}
         /\ Distinct(q) /\ c \notin InSeq(q) => Distinct(Append(q, c))
         /\ Len(Append(q, c)) = Len(q) + 1 /\ Append(q, c)[Len(q) + 1] = c
         /\ \A i \in 1 .. Len(q) : Append(q, c)[i] = q[i]
<1> DEFINE n == Len(q)
           r == Append(q, c)
<1>1. /\ n \in Nat /\ DOMAIN q = 1 .. n
      /\ r \in Seq(S) /\ Len(r) = n + 1 /\ DOMAIN r = 1 .. (n + 1)
      /\ \A i \in 1 .. n : r[i] = q[i]
      /\ r[n + 1] = c
  OBVIOUS
<1> HIDE DEF n, r
<1>2. \A i \in 1 .. (n + 1) : i \in 1 .. n \/ i = n + 1
  BY <1>1
<1>3. n + 1 \in 1 .. (n + 1) /\ \A i \in 1 .. n : i \in 1 .. (n + 1)
  BY <1>1
<1>4. InSeq(r) = InSeq(q) \cup {c}
  BY <1>1, <1>2, <1>3 DEF InSeq
<1>5. Distinct(q) /\ c \notin InSeq(q) => Distinct(r)
  BY <1>1, <1>2 DEF InSeq, Distinct
<1> QED
  BY <1>1, <1>4, <1>5 DEF n, r

LEMMA TailIn ==
  ASSUME NEW S, NEW q \in Seq(S), q # <<>>
  PROVE  /\ Head(q) \in S /\ Head(q) \in InSeq(q)
         /\ Tail(q) \in Seq(S)
         /\ Distinct(q) => Distinct(Tail(q)) /\ InSeq(Tail(q)) = InSeq(q) \ {Head(q)}
         /\ Len(Tail(q)) = Len(q) - 1
         /\ \A i \in 1 .. (Len(q) - 1) : Tail(q)[i] = q[i + 1]
<1> DEFINE n == Len(q)
           r == Tail(q)
<1>1. /\ n \in Nat /\ n >= 1 /\ DOMAIN q = 1 .. n /\ Head(q) = q[1] /\ Head(q) \in S
      /\ r \in Seq(S) /\ Len(r) = n - 1 /\ DOMAIN r = 1 .. (n - 1)
      /\ \A i \in 1 .. (n - 1) : r[i] = q[i + 1]
  OBVIOUS
<1> HIDE DEF n, r
<1>2. 1 \in 1 .. n /\ \A i \in 1 .. (n - 1) : i + 1 \in 1 .. n /\ i + 1 # 1
  BY <1>1
<1>3. \A i \in 1 .. n : i = 1 \/ (i - 1 \in 1 .. (n - 1) /\ i - 1 + 1 = i)
  BY <1>1
<1>4. \A i, j \in 1 .. (n - 1) : i + 1 = j + 1 => i = j
  BY <1>1
<1>5. ASSUME Distinct(q), NEW i \in 1 .. (n - 1), NEW j \in 1 .. (n - 1), r[i] = r[j]
      PROVE  i = j
  <2>1. i + 1 \in 1 .. n /\ j + 1 \in 1 .. n /\ q[i + 1] = q[j + 1]
    BY <1>1, <1>2, <1>5
  <2>2. i + 1 = j + 1
    BY <1>1, <1>5, <2>1 DEF Distinct
  <2> QED
    BY <1>4, <2>2
<1>6. Distinct(q) => InSeq(r) = InSeq(q) \ {q[1]}
  <2> SUFFICES ASSUME Distinct(q) PROVE InSeq(r) = InSeq(q) \ {q[1]}
    OBVIOUS
  <2>1. \A x \in InSeq(r) : x \in InSeq(q) /\ x # q[1]
    BY <1>1, <1>2 DEF InSeq, Distinct
  <2>2. ASSUME NEW x \in InSeq(q), x # q[1] PROVE x \in InSeq(r)
    <3>1. PICK i \in 1 .. n : q[i] = x
      BY <1>1 DEF InSeq
    <3>2. i - 1 \in 1 .. (n - 1) /\ r[i - 1] = x
      BY <1>1, <1>3, <2>2, <3>1
    <3> QED
      BY <1>1, <3>2 DEF InSeq
  <2> QED
    BY <2>1, <2>2
<1> QED
  BY <1>1, <1>2, <1>5, <1>6 DEF Distinct, InSeq, n, r

LEMMA ConcatIn ==
  ASSUME NEW S, NEW q \in Seq(S), NEW r \in Seq(S)
  PROVE  /\ q \o r \in Seq(S)
         /\ InSeq(q \o r) = InSeq(q) \cup InSeq(r)
         /\ Distinct(q) /\ Distinct(r) /\ InSeq(q) \cap InSeq(r) = {} => Distinct(q \o r)
         /\ Len(q \o r) = Len(q) + Len(r)
         /\ \A i \in 1 .. Len(q) : (q \o r)[i] = q[i]
         /\ \A i \in 1 .. Len(r) : (q \o r)[Len(q) + i] = r[i]
<1> DEFINE n == Len(q)
           m == Len(r)
           t == q \o r
<1>1. /\ n \in Nat /\ DOMAIN q = 1 .. n /\ m \in Nat /\ DOMAIN r = 1 .. m
      /\ t \in Seq(S) /\ Len(t) = n + m /\ DOMAIN t = 1 .. (n + m)
      /\ \A i \in 1 .. n : t[i] = q[i]
      /\ \A i \in 1 .. (n + m) : i > n => t[i] = r[i - n]
  OBVIOUS
<1> HIDE DEF n, m, t
<1>2. \A i \in 1 .. (n + m) : i \in 1 .. n \/ (i > n /\ i - n \in 1 .. m)
  BY <1>1
<1>3. /\ \A i \in 1 .. n : i \in 1 .. (n + m)
      /\ \A i \in 1 .. m : n + i \in 1 .. (n + m) /\ n + i > n /\ n + i - n = i
      /\ \A i, j \in 1 .. (n + m) : i - n = j - n => i = j
  BY <1>1
<1>4. \A i \in 1 .. m : t[n + i] = r[i]
  BY <1>1, <1>3
<1>5. InSeq(t) = InSeq(q) \cup InSeq(r)
  <2>1. \A x \in InSeq(t) : x \in InSeq(q) \/ x \in InSeq(r)
    BY <1>1, <1>2 DEF InSeq
  <2>2. \A x \in InSeq(q) : x \in InSeq(t)
    BY <1>1, <1>3 DEF InSeq
  <2>3. ASSUME NEW x \in InSeq(r) PROVE x \in InSeq(t)
    <3>1. PICK i \in 1 .. m : r[i] = x
      BY <1>1 DEF InSeq
    <3>2. n + i \in 1 .. (n + m) /\ t[n + i] = x
      BY <1>3, <1>4, <3>1
    <3> QED
      BY <1>1, <3>2 DEF InSeq
  <2> QED
    BY <2>1, <2>2, <2>3
<1>6. ASSUME Distinct(q), Distinct(r), InSeq(q) \cap InSeq(r) = {},
             NEW i \in 1 .. (n + m), NEW j \in 1 .. (n + m), t[i] = t[j]
      PROVE  i = j
  <2>1. CASE i \in 1 .. n /\ j \in 1 .. n
    BY <1>1, <1>6, <2>1 DEF Distinct
  <2>2. \A k \in 1 .. (n + m) : k \in 1 .. n => t[k] \in InSeq(q)
    BY <1>1 DEF InSeq
  <2>5. \A k \in 1 .. (n + m) : k \notin 1 .. n => t[k] \in InSeq(r)
    BY <1>1, <1>2 DEF InSeq
  <2>6. ~(t[i] \in InSeq(q) /\ t[i] \in InSeq(r))
    BY <1>6
  <2>3. (i \in 1 .. n) <=> (j \in 1 .. n)
    <3>1. CASE i \in 1 .. n /\ j \notin 1 .. n
      BY <1>6, <2>2, <2>5, <2>6, <3>1
    <3>2. CASE i \notin 1 .. n /\ j \in 1 .. n
      BY <1>6, <2>2, <2>5, <2>6, <3>2
    <3> QED
      BY <3>1, <3>2
  <2>4. CASE i \notin 1 .. n /\ j \notin 1 .. n
    <3>1. i - n \in 1 .. m /\ j - n \in 1 .. m /\ r[i - n] = r[j - n]
      BY <1>1, <1>2, <1>6, <2>4
    <3>2. i - n = j - n
      BY <1>1, <1>6, <3>1 DEF Distinct
    <3> QED
      BY <1>3, <3>2
  <2> QED
    BY <2>1, <2>3, <2>4
<1> QED
  BY <1>1, <1>4, <1>5, <1>6 DEF Distinct, n, m, t

-----------------------------------------------------------------------------
\* The queue and the outbox hold no command twice.
QueueInv ==
    /\ queue \in [next : Seq(Inputs), later : Seq(Notes)]
    /\ outbox \in Seq(Notes)
    /\ Distinct(queue.next) /\ Distinct(queue.later) /\ Distinct(outbox)
    /\ InSeq(queue.later) \cap InSeq(outbox) = {}

\* A slash command is prepared by one actor, and /clear by none.
PrepInv ==
    /\ task \in [Actors -> Commands \cup {NoCommand}]
    /\ \A a \in Actors : pc[a] = "slash" => task[a] \in Skills \cup Compactions
    /\ \A a, b \in Actors :
          pc[a] = "slash" /\ pc[b] = "slash" /\ task[a] = task[b] => a = b

\* Every generation has its command.
TurnsInv == turns \in Seq(Items) /\ Len(turns) = generation

\* A command is in one place.
Apart ==
    /\ unsent \cap Queued = {} /\ unsent \cap Preparing = {} /\ unsent \cap InSeq(turns) = {}
    /\ Queued \cap Preparing = {} /\ Queued \cap InSeq(turns) = {}
    /\ Preparing \cap InSeq(turns) = {}

PlaceInv ==
    /\ unsent \in SUBSET Commands
    /\ QueueInv /\ PrepInv /\ TurnsInv /\ Apart

\* The sets of commands the constants name, and how they overlap.
LEMMA Kinds ==
  /\ Items \subseteq Commands /\ Inputs \subseteq Commands /\ Notes \subseteq Commands
  /\ Skills \subseteq Inputs /\ Compactions \subseteq Inputs /\ Prompts \subseteq Inputs
  /\ Inputs \cap Notes = {} /\ Slashes \subseteq Inputs
  /\ (Compactions \cup Clears) \cap Items = {} /\ Slashes \cap Notes = {}
  /\ Skills \subseteq Items /\ Notes \subseteq Items /\ Skills \cap Notes = {}
  /\ \A c \in Inputs : c \notin Slashes => c \in Items
  /\ \A c \in Slashes : c \notin Clears => c \in Skills \cup Compactions
  BY DEF Items, Inputs, Commands, Slashes

LEMMA EmptyIn == InSeq(<<>>) = {} /\ Distinct(<<>>) /\ \A S : <<>> \in Seq(S)
  BY DEF InSeq, Distinct

\* An input is queued.
LEMMA EnqueueIn ==
  ASSUME QueueInv, NEW c \in Inputs, c \notin Queued,
         queue' = Enqueued(queue, c), outbox' = outbox
  PROVE  QueueInv' /\ Queued' = Queued \cup {c}
<1>1. /\ queue.next \in Seq(Inputs) /\ queue.later \in Seq(Notes)
      /\ queue'.next = Append(queue.next, c) /\ queue'.later = queue.later
      /\ queue' \in [next : Seq(Inputs), later : Seq(Notes)]
  BY AppendIn DEF QueueInv, Enqueued
<1>2. c \notin InSeq(queue.next)
  BY DEF Queued
<1>3. /\ InSeq(queue'.next) = InSeq(queue.next) \cup {c}
      /\ Distinct(queue.next) => Distinct(queue'.next)
  BY <1>1, <1>2, AppendIn
<1> QED
  BY <1>1, <1>3 DEF QueueInv, Queued

\* A notification is posted.
LEMMA PostIn ==
  ASSUME QueueInv, NEW n \in Notes, n \notin Queued,
         queue' = queue, outbox' = Append(outbox, n)
  PROVE  QueueInv' /\ Queued' = Queued \cup {n}
<1>1. n \notin InSeq(outbox) /\ n \notin InSeq(queue.later)
  BY DEF Queued
<1>2. /\ outbox' \in Seq(Notes)
      /\ InSeq(outbox') = InSeq(outbox) \cup {n}
      /\ Distinct(outbox) => Distinct(outbox')
  BY <1>1, AppendIn DEF QueueInv
<1> QED
  BY <1>1, <1>2 DEF QueueInv, Queued

\* The outbox goes into the queue.
LEMMA DrainedIn ==
  ASSUME QueueInv
  PROVE  /\ Drained \in [next : Seq(Inputs), later : Seq(Notes)]
         /\ Drained.next = queue.next
         /\ Distinct(Drained.later)
         /\ InSeq(Drained.later) = InSeq(queue.later) \cup InSeq(outbox)
<1>1. Drained = [queue EXCEPT !.later = queue.later \o outbox]
  BY DEF Drained
<1>2. queue.later \in Seq(Notes) /\ outbox \in Seq(Notes)
  BY DEF QueueInv
<1>3. Drained.next = queue.next /\ Drained.later = queue.later \o outbox
  BY <1>1 DEF QueueInv
<1>4. /\ queue.later \o outbox \in Seq(Notes)
      /\ InSeq(queue.later \o outbox) = InSeq(queue.later) \cup InSeq(outbox)
      /\ Distinct(queue.later \o outbox)
  BY <1>2, ConcatIn DEF QueueInv
<1>5. Drained \in [next : Seq(Inputs), later : Seq(Notes)]
  BY <1>1, <1>4 DEF QueueInv
<1> QED
  BY <1>3, <1>4, <1>5

\* The first command of the best priority leaves the queue.
LEMMA DequeueIn ==
  ASSUME QueueInv, ~NothingQueued(Drained),
         queue' = Dequeued(Drained), outbox' = <<>>
  PROVE  LET c == NextCommand(Drained)
         IN  /\ QueueInv' /\ Queued' = Queued \ {c} /\ c \in Queued
             /\ c \in Inputs \/ c \in Notes
<1> DEFINE q == Drained
           c == NextCommand(q)
<1>1. /\ q \in [next : Seq(Inputs), later : Seq(Notes)]
      /\ Distinct(q.next) /\ Distinct(q.later)
      /\ Queued = InSeq(q.next) \cup InSeq(q.later)
  BY DrainedIn DEF QueueInv, Queued
<1>2. ~NothingQueued(q) /\ queue' = Dequeued(q)
  OBVIOUS
<1> HIDE DEF q
<1>3. q.next \in Seq(Inputs) /\ q.later \in Seq(Notes)
  BY <1>1
<1>4. InSeq(q.next) \subseteq Inputs /\ InSeq(q.later) \subseteq Notes
  BY <1>3 DEF InSeq
<1>5. CASE q.next # <<>>
  <2>1. /\ c = Head(q.next) /\ queue'.next = Tail(q.next) /\ queue'.later = q.later
        /\ queue' = [q EXCEPT !.next = Tail(q.next)]
    BY <1>1, <1>2, <1>5 DEF NextCommand, Dequeued
  <2>2. /\ Head(q.next) \in Inputs /\ Head(q.next) \in InSeq(q.next)
        /\ Tail(q.next) \in Seq(Inputs) /\ Distinct(Tail(q.next))
        /\ InSeq(Tail(q.next)) = InSeq(q.next) \ {Head(q.next)}
    BY <1>1, <1>3, <1>5, TailIn
  <2>3. queue' \in [next : Seq(Inputs), later : Seq(Notes)]
    BY <1>1, <2>1, <2>2
  <2>4. QueueInv'
    BY <1>1, <2>1, <2>2, <2>3, EmptyIn DEF QueueInv
  <2>5. Queued' = Queued \ {c}
    BY <1>1, <1>4, <2>1, <2>2, EmptyIn, Kinds DEF Queued
  <2> QED
    BY <1>1, <2>1, <2>2, <2>4, <2>5 DEF q
<1>6. CASE q.next = <<>>
  <2>1. /\ c = Head(q.later) /\ queue'.next = q.next /\ queue'.later = Tail(q.later)
        /\ queue' = [q EXCEPT !.later = Tail(q.later)]
    BY <1>1, <1>2, <1>6 DEF NextCommand, Dequeued
  <2>2. /\ Head(q.later) \in Notes /\ Head(q.later) \in InSeq(q.later)
        /\ Tail(q.later) \in Seq(Notes) /\ Distinct(Tail(q.later))
        /\ InSeq(Tail(q.later)) = InSeq(q.later) \ {Head(q.later)}
    BY <1>1, <1>2, <1>3, <1>6, TailIn DEF NothingQueued
  <2>3. queue' \in [next : Seq(Inputs), later : Seq(Notes)]
    BY <1>1, <2>1, <2>2
  <2>4. QueueInv'
    BY <1>1, <2>1, <2>2, <2>3, EmptyIn DEF QueueInv
  <2>5. Queued' = Queued \ {c}
    BY <1>1, <1>4, <2>1, <2>2, EmptyIn, Kinds DEF Queued
  <2> QED
    BY <1>1, <2>1, <2>2, <2>4, <2>5 DEF q
<1> QED
  BY <1>5, <1>6

\* The running turn takes the notifications.
LEMMA AbsorbIn ==
  ASSUME QueueInv, queue' = [queue EXCEPT !.later = <<>>], outbox' = <<>>
  PROVE  /\ QueueInv'
         /\ Queued' = Queued \ InSeq(Drained.later)
         /\ InSeq(Drained.later) \subseteq Queued \cap Notes
<1>1. /\ queue'.next = queue.next /\ queue'.later = <<>>
      /\ queue' \in [next : Seq(Inputs), later : Seq(Notes)]
  BY EmptyIn DEF QueueInv
<1>2. /\ InSeq(queue.next) \subseteq Inputs
      /\ InSeq(queue.later) \cup InSeq(outbox) \subseteq Notes
  BY DEF QueueInv, InSeq
<1> QED
  BY <1>1, <1>2, DrainedIn, EmptyIn, Kinds DEF QueueInv, Queued

-----------------------------------------------------------------------------
(* Preparing: what an actor's move does to the slash commands.             *)

\* No actor begins or leaves a slash command.
LEMMA PrepKept ==
  ASSUME PrepInv, task' \in [Actors -> Commands \cup {NoCommand}],
         \A a \in Actors : (pc'[a] = "slash") <=> (pc[a] = "slash"),
         \A a \in Actors : pc[a] = "slash" => task'[a] = task[a]
  PROVE  PrepInv' /\ Preparing' = Preparing
<1>1. PrepInv'
  BY DEF PrepInv
<1>2. Preparing' = Preparing
  BY DEF Preparing
<1> QED
  BY <1>1, <1>2

\* An actor begins one.
LEMMA PrepAdded ==
  ASSUME PrepInv, NEW a \in Actors, NEW c \in Skills \cup Compactions, c \notin Preparing,
         pc \in [Actors -> PCs], pc[a] # "slash",
         pc' = [pc EXCEPT ![a] = "slash"], task' = [task EXCEPT ![a] = c]
  PROVE  PrepInv' /\ Preparing' = Preparing \cup {c}
<1>1. /\ pc'[a] = "slash" /\ task'[a] = c
      /\ \A b \in Actors : b # a => pc'[b] = pc[b] /\ task'[b] = task[b]
  BY DEF PrepInv
<1>2. \A b \in Actors : pc[b] = "slash" => task[b] # c
  BY DEF Preparing
<1>3. task' \in [Actors -> Commands \cup {NoCommand}]
  BY Kinds DEF PrepInv
<1>4. PrepInv'
  BY <1>1, <1>2, <1>3 DEF PrepInv
<1>5. Preparing' = Preparing \cup {c}
  <2>1. \A b \in Actors : pc'[b] = "slash" => task'[b] = c \/ (pc[b] = "slash" /\ task'[b] = task[b])
    BY <1>1
  <2>2. \A b \in Actors : pc[b] = "slash" => pc'[b] = "slash" /\ task'[b] = task[b]
    BY <1>1
  <2> QED
    BY <1>1, <2>1, <2>2 DEF Preparing
<1> QED
  BY <1>4, <1>5

\* An actor leaves its own.
LEMMA PrepRemoved ==
  ASSUME PrepInv, NEW a \in Actors, pc[a] = "slash", pc'[a] # "slash",
         task' \in [Actors -> Commands \cup {NoCommand}],
         \A b \in Actors : b # a => pc'[b] = pc[b] /\ task'[b] = task[b]
  PROVE  PrepInv' /\ Preparing' = Preparing \ {task[a]} /\ task[a] \in Preparing
<1>1. PrepInv'
  BY DEF PrepInv
<1>2. \A b \in Actors : pc'[b] = "slash" <=> (pc[b] = "slash" /\ b # a)
  OBVIOUS
<1>3. \A b \in Actors : pc'[b] = "slash" => task'[b] = task[b] /\ task[b] # task[a]
  BY <1>2 DEF PrepInv
<1>4. Preparing' \subseteq Preparing \ {task[a]}
  BY <1>2, <1>3 DEF Preparing
<1>5. ASSUME NEW x \in Preparing, x # task[a] PROVE x \in Preparing'
  <2>1. PICK b \in Actors : pc[b] = "slash" /\ task[b] = x
    BY DEF Preparing
  <2>2. b # a /\ pc'[b] = "slash" /\ task'[b] = x
    BY <1>2, <1>3, <1>5, <2>1
  <2> QED
    BY <2>2 DEF Preparing
<1> QED
  BY <1>1, <1>4, <1>5 DEF Preparing

-----------------------------------------------------------------------------
(* What a step does to the items, and the step of TurnService it is.       *)

Held == (Queued \cup Preparing) \cap Items
NotSent == unsent \cap Items

TurnsKept == UNCHANGED <<status, generation, turns>>

Stays == TurnsKept /\ NotSent' = NotSent /\ Held' = Held
Accepts(c) ==
    /\ TurnsKept /\ c \in NotSent
    /\ NotSent' = NotSent \ {c} /\ Held' = Held \cup {c}
Starts(c) ==
    /\ c \in NotSent \cup Held
    /\ NotSent' = NotSent \ {c} /\ Held' = Held \ {c}
    /\ status = "idle" /\ status' = "running"
    /\ generation' = generation + 1 /\ turns' = Append(turns, c)
Finishes ==
    /\ NotSent' = NotSent /\ Held' = Held
    /\ status = "running" /\ status' = "idle"
    /\ UNCHANGED <<generation, turns>>
Absorbs(S) ==
    /\ TurnsKept /\ status = "running"
    /\ S # {} /\ S \subseteq Held \cap Notes
    /\ NotSent' = NotSent /\ Held' = Held \ S
Drops(c) ==
    /\ TurnsKept /\ c \in Held \cap Skills
    /\ NotSent' = NotSent /\ Held' = Held \ {c}

\* The command of the running turn is one of the turns.
LEMMA RunningTurn ==
  ASSUME IInv, PlaceInv, status = "running"
  PROVE  /\ generation \in Turns /\ generation \in DOMAIN turns
         /\ turns[generation] \in InSeq(turns) /\ turns[generation] \in Items
<1>1. PICK a \in Actors : pc[a] \in TurnPCs
  BY DEF IInv, HoldersInv
<1>2. generation \in Turns
  <2>1. CASE Reading(a)
    <3>1. a = generation /\ pc[Pump] \notin {"streaming", "failing"}
      BY <2>1 DEF IInv, HoldersInv, WorkersInv
    <3> QED
      BY <2>1, <3>1 DEF Reading
  <2>2. CASE Opening(a)
    BY <2>2 DEF IInv, WorkersInv
  <2> QED
    BY <1>1, <2>1, <2>2 DEF TurnPCs, Reading, Opening
<1>3. generation \in DOMAIN turns
  BY <1>2 DEF PlaceInv, TurnsInv
<1> QED
  BY <1>2, <1>3 DEF PlaceInv, TurnsInv, InSeq

\* The mapped state in terms of the places.
ItemsPlaced ==
    /\ WaitingItems = Held
    /\ Gone = Items \ (NotSent \cup Held \cup InSeq(turns))
    /\ NotSent \cap Held = {} /\ NotSent \cap InSeq(turns) = {}
    /\ Held \cap InSeq(turns) = {} /\ CurrentItem \subseteq InSeq(turns)
    /\ Held \subseteq Items /\ NotSent \subseteq Items /\ InSeq(turns) \subseteq Items

LEMMA Mapped == IInv /\ PlaceInv => ItemsPlaced
<1> SUFFICES ASSUME IInv, PlaceInv PROVE ItemsPlaced
  OBVIOUS
<1>1. InSeq(turns) \subseteq Items
  BY DEF PlaceInv, TurnsInv, InSeq
<1>2. CurrentItem \subseteq InSeq(turns)
  BY RunningTurn DEF CurrentItem
<1> QED
  BY <1>1, <1>2 DEF PlaceInv, Apart, WaitingItems, Gone, Held, NotSent, ItemsPlaced

\* While no turn starts or ends, the turns map to the same items.
LEMMA TurnsKeptMaps ==
  ASSUME TurnsKept
  PROVE  CurrentItem' = CurrentItem /\ InSeq(turns)' = InSeq(turns) /\ Ended' = Ended
  BY DEF TurnsKept, CurrentItem, InSeq, Ended

AbstractStep == [Abstract!Next]_(Abstract!vars)
Placed == ItemsPlaced /\ ItemsPlaced'

\* A step that moves no item is a stutter.
LEMMA StaysMaps == ASSUME Placed, Stays PROVE AbstractStep
<1>1. WaitingItems' = WaitingItems /\ Gone' = Gone /\ CurrentItem' = CurrentItem /\ Ended' = Ended
  BY TurnsKeptMaps DEF Stays, Placed, ItemsPlaced
<1> QED
  BY <1>1 DEF AbstractStep, Abstract!vars

\* An item is queued, posted, or taken up by the handler of a skill.
LEMMA AcceptMaps == ASSUME NEW c, Placed, Accepts(c) PROVE AbstractStep
<1>1. CurrentItem' = CurrentItem /\ Ended' = Ended /\ InSeq(turns)' = InSeq(turns)
  BY TurnsKeptMaps DEF Accepts
<1>2. WaitingItems' = WaitingItems \cup {c} /\ Gone' = Gone
  BY <1>1 DEF Accepts, Placed, ItemsPlaced
<1>3. c \in Items /\ c \notin WaitingItems /\ c \notin InSeq(turns) /\ c \notin Gone
  BY DEF Accepts, Placed, ItemsPlaced
<1>4. c \notin CurrentItem /\ c \notin Ended
  BY <1>3 DEF Ended, Placed, ItemsPlaced
<1>5. Abstract!Accept(c)
  BY <1>1, <1>2, <1>3, <1>4 DEF Abstract!Accept
<1> QED
  BY <1>3, <1>5 DEF AbstractStep, Abstract!Next

\* A turn starts.
LEMMA StartMaps == ASSUME NEW c, Placed, TurnsInv, Starts(c) PROVE AbstractStep
<1>1. c \in Items /\ c \notin InSeq(turns) /\ c \notin Gone
  BY DEF Starts, Placed, ItemsPlaced
<1>2. InSeq(turns)' = InSeq(turns) \cup {c} /\ turns'[generation'] = c
  BY <1>1, AppendIn DEF Starts, TurnsInv
<1>3. CurrentItem = {} /\ CurrentItem' = {c}
  BY <1>2 DEF Starts, CurrentItem
<1>4. Ended = InSeq(turns) /\ Ended' = InSeq(turns)
  BY <1>1, <1>2, <1>3 DEF Ended
<1>5. WaitingItems' = WaitingItems \ {c} /\ Gone' = Gone
  BY <1>2 DEF Starts, Placed, ItemsPlaced
<1>6. Abstract!Start(c)
  BY <1>1, <1>3, <1>4, <1>5 DEF Abstract!Start
<1> QED
  BY <1>1, <1>6 DEF AbstractStep, Abstract!Next

\* The turn ends.
LEMMA FinishMaps == ASSUME Placed, Finishes PROVE AbstractStep
<1>1. CurrentItem # {} /\ CurrentItem' = {} /\ InSeq(turns)' = InSeq(turns)
  BY DEF Finishes, CurrentItem, InSeq
<1>2. Ended' = Ended \cup CurrentItem
  BY <1>1 DEF Ended, Placed, ItemsPlaced
<1>3. WaitingItems' = WaitingItems /\ Gone' = Gone
  BY <1>1 DEF Finishes, Placed, ItemsPlaced
<1>4. Abstract!Finish
  BY <1>1, <1>2, <1>3 DEF Abstract!Finish
<1> QED
  BY <1>4 DEF AbstractStep, Abstract!Next

\* The running turn absorbs notifications.
LEMMA AbsorbMaps == ASSUME NEW S, Placed, Absorbs(S) PROVE AbstractStep
<1>1. CurrentItem' = CurrentItem /\ Ended' = Ended /\ InSeq(turns)' = InSeq(turns)
  BY TurnsKeptMaps DEF Absorbs
<1>2. CurrentItem # {}
  BY DEF Absorbs, CurrentItem
<1>3. S \in SUBSET (WaitingItems \cap Notes) /\ S # {}
  BY DEF Absorbs, Placed, ItemsPlaced
<1>4. WaitingItems' = WaitingItems \ S /\ Gone' = Gone \cup S
  BY <1>1 DEF Absorbs, Placed, ItemsPlaced
<1>5. /\ (Gone \cap Notes)' = (Gone \cap Notes) \cup S
      /\ (Gone \cap Skills)' = Gone \cap Skills
  BY <1>3, <1>4, Kinds
<1>6. Abstract!Absorb(S)
  BY <1>1, <1>2, <1>3, <1>4, <1>5 DEF Abstract!Absorb
<1> QED
  BY <1>3, <1>6 DEF AbstractStep, Abstract!Next

\* A skill is dropped.
LEMMA DropMaps == ASSUME NEW c, Placed, Drops(c) PROVE AbstractStep
<1>1. CurrentItem' = CurrentItem /\ Ended' = Ended /\ InSeq(turns)' = InSeq(turns)
  BY TurnsKeptMaps DEF Drops
<1>2. c \in WaitingItems \cap Skills /\ c \notin Notes
  BY Kinds DEF Drops, Placed, ItemsPlaced
<1>3. WaitingItems' = WaitingItems \ {c} /\ Gone' = Gone \cup {c}
  BY <1>1 DEF Drops, Placed, ItemsPlaced
<1>4. Abstract!Drop(c)
  BY <1>1, <1>2, <1>3 DEF Abstract!Drop
<1> QED
  BY <1>2, <1>4 DEF AbstractStep, Abstract!Next

-----------------------------------------------------------------------------
(* Every action keeps every command in one place, and moves the items the  *)
(* way one of the kinds above says.                                        *)

ItemStep ==
    \/ Stays \/ Finishes
    \/ \E c : Accepts(c) \/ Starts(c) \/ Drops(c)
    \/ \E S : Absorbs(S)

\* A command leaves its place for a turn of its own.
LEMMA ToTurn ==
  ASSUME PlaceInv, QueueInv', PrepInv', NEW c \in Items,
         c \in unsent \cup Queued \cup Preparing,
         unsent' = unsent \ {c}, Queued' = Queued \ {c}, Preparing' = Preparing \ {c},
         status = "idle", status' = "running",
         generation' = generation + 1, turns' = Append(turns, c)
  PROVE  PlaceInv' /\ ItemStep
<1>1. /\ turns' \in Seq(Items) /\ Len(turns') = Len(turns) + 1
      /\ InSeq(turns)' = InSeq(turns) \cup {c}
  BY AppendIn DEF PlaceInv, TurnsInv
<1>2. PlaceInv'
  BY <1>1 DEF PlaceInv, TurnsInv, Apart
<1>3. Starts(c)
  BY DEF Starts, NotSent, Held
<1> QED
  BY <1>2, <1>3 DEF ItemStep

\* A command that was not sent is queued or taken up by its handler.
LEMMA Taken ==
  ASSUME PlaceInv, QueueInv', PrepInv', NEW c \in unsent, unsent' = unsent \ {c}, TurnsKept,
         \/ Queued' = Queued \cup {c} /\ Preparing' = Preparing
         \/ Queued' = Queued /\ Preparing' = Preparing \cup {c}
         \/ Queued' = Queued /\ Preparing' = Preparing /\ c \notin Items
  PROVE  PlaceInv' /\ ItemStep
<1>1. TurnsInv' /\ InSeq(turns)' = InSeq(turns)
  BY DEF PlaceInv, TurnsInv, TurnsKept, InSeq
<1>2. PlaceInv'
  BY <1>1 DEF PlaceInv, Apart
<1>3. CASE c \in Items
  <2>1. c \in NotSent /\ NotSent' = NotSent \ {c} /\ Held' = Held \cup {c}
    BY <1>3 DEF NotSent, Held
  <2> QED
    BY <1>2, <2>1 DEF ItemStep, Accepts
<1>4. CASE c \notin Items
  <2>1. NotSent' = NotSent /\ Held' = Held
    BY <1>4 DEF NotSent, Held
  <2> QED
    BY <1>2, <2>1 DEF ItemStep, Stays
<1> QED
  BY <1>2, <1>3, <1>4

\* A command goes from the queue to its handler, a handler ends without a turn,
\* or nothing moves.
LEMMA Handled ==
  ASSUME PlaceInv, QueueInv', PrepInv', unsent' = unsent, TurnsKept, NEW c,
         \/ Queued' = Queued /\ Preparing' = Preparing
         \/ c \in Queued /\ Queued' = Queued \ {c} /\ Preparing' = Preparing \cup {c}
         \/ c \in Queued /\ Queued' = Queued \ {c} /\ Preparing' = Preparing /\ c \notin Items
         \/ c \in Preparing /\ Queued' = Queued /\ Preparing' = Preparing \ {c}
            /\ (c \in Items => c \in Skills)
  PROVE  PlaceInv' /\ ItemStep
<1>1. TurnsInv' /\ InSeq(turns)' = InSeq(turns)
  BY DEF PlaceInv, TurnsInv, TurnsKept, InSeq
<1>2. PlaceInv'
  BY <1>1 DEF PlaceInv, Apart
<1>3. NotSent' = NotSent
  BY DEF NotSent
<1>4. CASE c \in Preparing /\ c \in Skills /\ Queued' = Queued /\ Preparing' = Preparing \ {c}
  <2>1. c \notin Queued /\ c \in Items
    BY <1>4, Kinds DEF PlaceInv, Apart
  <2>2. Drops(c)
    BY <1>3, <1>4, <2>1 DEF Drops, Held
  <2> QED
    BY <1>2, <2>2 DEF ItemStep
<1>5. CASE Held' = Held
  BY <1>2, <1>3, <1>5 DEF ItemStep, Stays
<1>6. CASE c \in Queued /\ Queued' = Queued \ {c} /\ Preparing' = Preparing \cup {c}
  BY <1>5, <1>6 DEF Held
<1> QED
  BY <1>4, <1>5, <1>6 DEF Held

\* The queue is left alone.
LEMMA SameQueue ==
  ASSUME QueueInv, UNCHANGED <<queue, outbox>>
  PROVE  QueueInv' /\ Queued' = Queued
  BY DEF QueueInv, Queued, InSeq, Distinct

\* The actors' moves, for the slash commands.
LEMMA LeaveTask ==
  ASSUME PrepInv, NEW a \in Actors, NEW c \in Commands \cup {NoCommand},
         task' = [task EXCEPT ![a] = c]
  PROVE  /\ task' \in [Actors -> Commands \cup {NoCommand}]
         /\ task'[a] = c
         /\ \A b \in Actors : b # a => task'[b] = task[b]
  BY DEF PrepInv

LEMMA MovePc ==
  ASSUME TypeOK, NEW a \in Actors, NEW p, pc' = [pc EXCEPT ![a] = p]
  PROVE  pc'[a] = p /\ \A b \in Actors : b # a => pc'[b] = pc[b]
  BY DEF TypeOK

LEMMA QuietPrep ==
  ASSUME TypeOK, PrepInv, NEW a \in Actors, NEW p, p # "slash", pc[a] # "slash",
         pc' = [pc EXCEPT ![a] = p],
         task' = task \/ (\E c \in Commands \cup {NoCommand} : task' = [task EXCEPT ![a] = c])
  PROVE  PrepInv' /\ Preparing' = Preparing
<1>1. /\ task' \in [Actors -> Commands \cup {NoCommand}]
      /\ \A b \in Actors : b # a => task'[b] = task[b]
  BY LeaveTask DEF PrepInv
<1> QED
  BY <1>1, MovePc, PrepKept

LEMMA LeftPrep ==
  ASSUME TypeOK, PrepInv, NEW a \in Actors, NEW p, p # "slash", pc[a] = "slash",
         pc' = [pc EXCEPT ![a] = p],
         task' = task \/ (\E c \in Commands \cup {NoCommand} : task' = [task EXCEPT ![a] = c])
  PROVE  PrepInv' /\ Preparing' = Preparing \ {task[a]} /\ task[a] \in Preparing
<1>1. /\ task' \in [Actors -> Commands \cup {NoCommand}]
      /\ \A b \in Actors : b # a => task'[b] = task[b]
  BY LeaveTask DEF PrepInv
<1> QED
  BY <1>1, MovePc, PrepRemoved

\* on_input.
LEMMA SubmitPlaces ==
  ASSUME IInv, PlaceInv, NEW c \in Inputs, Submit(c)
  PROVE  PlaceInv' /\ ItemStep
<1> USE DEF Submit, guardVars, actorVars
<1>1. /\ TypeOK /\ QueueInv /\ PrepInv /\ c \in unsent /\ unsent' = unsent \ {c} /\ c \in Commands
      /\ c \notin Queued /\ c \notin Preparing /\ Pump \in Actors /\ pc[Pump] # "slash"
      /\ outbox' = outbox
  BY Kinds DEF IInv, PlaceInv, Apart
<1>2. CASE /\ UNCHANGED <<guardVars, actorVars>>
           /\ queue' = Enqueued(queue, c)
  <2>1. PrepInv' /\ Preparing' = Preparing
    BY <1>1, <1>2, PrepKept DEF PrepInv
  <2>2. QueueInv' /\ Queued' = Queued \cup {c}
    BY <1>1, <1>2, EnqueueIn
  <2> QED
    BY <1>1, <1>2, <2>1, <2>2, Taken DEF TurnsKept
<1>3. CASE ~Busy /\ c \in Prompts /\ BeginTurn(Pump, c) /\ queue' = queue
  <2>1. QueueInv' /\ Queued' = Queued
    BY <1>1, <1>3, SameQueue
  <2>2. PICK p \in {"mounted", "mounting"} : pc' = [pc EXCEPT ![Pump] = p]
    BY <1>3 DEF BeginTurn
  <2>3. PrepInv' /\ Preparing' = Preparing
    BY <1>1, <1>3, <2>2, QuietPrep DEF BeginTurn
  <2>4. c \in Items
    BY <1>3 DEF Items
  <2>5. status = "idle"
    BY <1>1, <1>3 DEF Busy, GuardActive, TypeOK
  <2> QED
    BY <1>1, <1>3, <2>1, <2>3, <2>4, <2>5, ToTurn DEF BeginTurn
<1>4. CASE c \in Slashes /\ BeginSlash(Pump, c, FALSE) /\ queue' = queue
  <2>1. QueueInv' /\ Queued' = Queued
    BY <1>1, <1>4, SameQueue
  <2>2. CASE c \in Clears
    <3>1. PrepInv' /\ Preparing' = Preparing
      BY <1>1, <1>4, <2>2, QuietPrep DEF BeginSlash
    <3> QED
      BY <1>1, <1>4, <2>1, <2>2, <3>1, Kinds, Taken DEF BeginSlash, TurnsKept
  <2>3. CASE c \notin Clears
    <3>1. PrepInv' /\ Preparing' = Preparing \cup {c}
      BY <1>1, <1>4, <2>3, Kinds, PrepAdded DEF BeginSlash, TypeOK
    <3> QED
      BY <1>1, <1>4, <2>1, <3>1, Taken DEF BeginSlash, TurnsKept
  <2> QED
    BY <2>2, <2>3
<1> QED
  BY <1>2, <1>3, <1>4

\* enqueue_pending_notification.
LEMMA NotifyPlaces ==
  ASSUME PlaceInv, NEW n \in Notes, Notify(n)
  PROVE  PlaceInv' /\ ItemStep
<1> USE DEF Notify, guardVars, actorVars
<1>1. QueueInv' /\ Queued' = Queued \cup {n}
  BY PostIn DEF PlaceInv, Apart
<1>2. PrepInv' /\ Preparing' = Preparing
  BY PrepKept DEF PlaceInv, PrepInv
<1> QED
  BY <1>1, <1>2, Taken DEF TurnsKept

\* Steps that leave the queue and what is prepared alone.
LEMMA QuietPlaces ==
  ASSUME PlaceInv, UNCHANGED <<guardVars, queue, outbox, unsent>>,
         PrepInv', Preparing' = Preparing
  PROVE  PlaceInv' /\ ItemStep
<1>1. QueueInv' /\ Queued' = Queued
  BY SameQueue DEF PlaceInv
<1> QED
  BY <1>1, Handled DEF TurnsKept, guardVars

LEMMA AppendPromptPlaces ==
  ASSUME IInv, PlaceInv, NEW a \in Actors, AppendPrompt(a)
  PROVE  PlaceInv' /\ ItemStep
<1>1. PrepInv' /\ Preparing' = Preparing
  BY QuietPrep DEF AppendPrompt, Resumes, IInv, PlaceInv
<1> QED
  BY <1>1, QuietPlaces DEF AppendPrompt, queueVars

LEMMA StartWorkerPlaces ==
  ASSUME IInv, PlaceInv, NEW a \in Actors, StartWorker(a)
  PROVE  PlaceInv' /\ ItemStep
<1> USE DEF StartWorker, Resumes
<1>1. generation \in Actors /\ pc[generation] = "idle" /\ status = "running" /\ pc[a] = "mounted"
  BY DEF IInv, HoldersInv, WorkersInv, Opening, TurnPCs
<1>2. turns[generation] \in Commands
  BY <1>1, RunningTurn, Kinds
<1>3. task' \in [Actors -> Commands \cup {NoCommand}]
  BY <1>2 DEF PlaceInv, PrepInv
<1>4. \A b \in Actors : /\ (pc'[b] = "slash") <=> (pc[b] = "slash")
                        /\ pc[b] = "slash" => task'[b] = task[b]
  BY <1>1 DEF IInv, TypeOK, PlaceInv, PrepInv
<1>5. PrepInv' /\ Preparing' = Preparing
  BY <1>3, <1>4, PrepKept DEF PlaceInv
<1> QED
  BY <1>5, QuietPlaces DEF queueVars

\* A skill's prompt is there: a turn, or nothing.
LEMMA SkillReturnsPlaces ==
  ASSUME IInv, PlaceInv, NEW a \in Actors, SkillReturns(a)
  PROVE  PlaceInv' /\ ItemStep
<1> USE DEF SkillReturns, Resumes, queueVars
<1>1. /\ TypeOK /\ PrepInv /\ QueueInv' /\ Queued' = Queued
      /\ pc[a] = "slash" /\ unsent' = unsent /\ task[a] \in Skills
      /\ task[a] \in Items /\ task[a] \in Commands
  BY SameQueue, Kinds DEF IInv, PlaceInv
<1>2. task[a] \in Preparing /\ task[a] \notin Queued /\ task[a] \notin unsent
  BY <1>1 DEF PlaceInv, Apart, Preparing
<1>3. CASE ~GuardActive /\ BeginTurn(a, task[a])
  <2>1. PICK p \in {"mounted", "mounting"} : pc' = [pc EXCEPT ![a] = p]
    BY <1>3 DEF BeginTurn
  <2>2. PrepInv' /\ Preparing' = Preparing \ {task[a]}
    BY <1>1, <1>3, <2>1, LeftPrep DEF BeginTurn
  <2>3. status = "idle"
    BY <1>1, <1>3 DEF GuardActive, TypeOK
  <2> QED
    BY <1>1, <1>2, <1>3, <2>2, <2>3, ToTurn DEF BeginTurn
<1>4. CASE Leave(a) /\ UNCHANGED guardVars
  <2>1. PICK p \in {"idle", "done"} : pc' = [pc EXCEPT ![a] = p]
    BY <1>4 DEF Leave
  <2>2. PrepInv' /\ Preparing' = Preparing \ {task[a]}
    BY <1>1, <1>4, <2>1, LeftPrep DEF Leave
  <2> QED
    BY <1>1, <1>2, <1>4, <2>2, Handled DEF TurnsKept, guardVars
<1> QED
  BY <1>3, <1>4

\* A compaction returns.
LEMMA CompactReturnsPlaces ==
  ASSUME IInv, PlaceInv, NEW a \in Actors, CompactReturns(a)
  PROVE  PlaceInv' /\ ItemStep
<1> USE DEF CompactReturns, Resumes, queueVars
<1>1. PrepInv' /\ Preparing' = Preparing \ {task[a]} /\ task[a] \in Preparing
  BY LeftPrep DEF IInv, PlaceInv
<1>2. QueueInv' /\ Queued' = Queued /\ task[a] \notin Items
  BY SameQueue, Kinds DEF PlaceInv
<1> QED
  BY <1>1, <1>2, Handled DEF TurnsKept, guardVars

\* _process_queue_if_ready returns, or serves the next command.
LEMMA ProcessQueuePlaces ==
  ASSUME IInv, PlaceInv, NEW a \in Actors, pc[a] \in {"shown", "closing"},
         ProcessQueue(a), unsent' = unsent
  PROVE  PlaceInv' /\ ItemStep
<1> DEFINE c == NextCommand(Drained)
<1> USE DEF guardVars
<1>1. TypeOK /\ QueueInv /\ PrepInv /\ pc[a] # "slash"
  BY DEF IInv, PlaceInv
<1>2. CASE Leave(a) /\ UNCHANGED <<guardVars, queue, outbox>>
  <2>1. PICK p \in {"idle", "done"} : pc' = [pc EXCEPT ![a] = p]
    BY <1>2 DEF Leave
  <2>2. PrepInv' /\ Preparing' = Preparing
    BY <1>1, <1>2, <2>1, QuietPrep DEF Leave
  <2> QED
    BY <1>2, <2>2, QuietPlaces
<1>3. CASE /\ ~GuardActive /\ ~NothingQueued(Drained)
           /\ outbox' = <<>> /\ queue' = Dequeued(Drained)
           /\ \/ c \in Slashes /\ BeginSlash(a, c, TRUE)
              \/ c \notin Slashes /\ BeginTurn(a, c)
  <2>1. /\ QueueInv' /\ Queued' = Queued \ {c} /\ c \in Queued
        /\ c \in Inputs \/ c \in Notes
    BY <1>1, <1>3, DequeueIn
  <2>2. c \notin unsent /\ c \notin Preparing /\ c \in Commands
    BY <2>1, Kinds DEF PlaceInv, Apart
  <2> HIDE DEF c
  <2>3. CASE c \in Clears /\ BeginSlash(a, c, TRUE)
    <3>1. PrepInv' /\ Preparing' = Preparing
      BY <1>1, <2>2, <2>3, QuietPrep DEF BeginSlash
    <3> QED
      BY <2>1, <2>3, <3>1, Kinds, Handled DEF BeginSlash, TurnsKept
  <2>4. CASE c \in Slashes /\ c \notin Clears /\ BeginSlash(a, c, TRUE)
    <3>1. PrepInv' /\ Preparing' = Preparing \cup {c}
      BY <1>1, <2>2, <2>4, Kinds, PrepAdded DEF BeginSlash, TypeOK
    <3> QED
      BY <2>1, <2>4, <3>1, Handled DEF BeginSlash, TurnsKept
  <2>5. CASE c \notin Slashes /\ BeginTurn(a, c)
    <3>1. PICK p \in {"mounted", "mounting"} : pc' = [pc EXCEPT ![a] = p]
      BY <2>5 DEF BeginTurn
    <3>2. PrepInv' /\ Preparing' = Preparing
      BY <1>1, <2>2, <2>5, <3>1, QuietPrep DEF BeginTurn
    <3>3. status = "idle" /\ c \in Items
      BY <1>1, <1>3, <2>1, <2>5, Kinds DEF GuardActive, TypeOK
    <3> QED
      BY <2>1, <2>2, <2>5, <3>2, <3>3, ToTurn DEF BeginTurn
  <2> QED
    BY <1>3, <2>3, <2>4, <2>5
<1> QED
  BY <1>2, <1>3 DEF ProcessQueue

\* The running turn absorbs the notifications.
LEMMA DrainPlaces ==
  ASSUME IInv, PlaceInv, NEW g \in Turns, DrainMidTurn(g)
  PROVE  PlaceInv' /\ ItemStep
<1> DEFINE S == InSeq(Drained.later)
<1> USE DEF DrainMidTurn, guardVars, actorVars
<1>1. /\ QueueInv' /\ Queued' = Queued \ S /\ S \subseteq Queued \cap Notes
  BY AbsorbIn DEF PlaceInv
<1>2. S # {}
  <2>1. Drained.later \in Seq(Notes) /\ Drained.later # <<>>
    BY DrainedIn DEF PlaceInv
  <2> QED
    BY <2>1, TailIn
<1>3. PrepInv' /\ Preparing' = Preparing
  BY PrepKept DEF PlaceInv, PrepInv
<1>4. status = "running"
  BY DEF Resumes, IInv, HoldersInv, TurnPCs
<1>5. TurnsInv' /\ InSeq(turns)' = InSeq(turns)
  BY DEF PlaceInv, TurnsInv, InSeq
<1> HIDE DEF S
<1>6. PlaceInv'
  BY <1>1, <1>3, <1>5 DEF PlaceInv, Apart
<1>7. S \subseteq Held \cap Notes /\ Held' = Held \ S /\ NotSent' = NotSent
  BY <1>1, <1>3, Kinds DEF PlaceInv, Apart, Held, NotSent
<1>8. Absorbs(S)
  BY <1>2, <1>4, <1>7 DEF Absorbs, TurnsKept
<1> QED
  BY <1>6, <1>8 DEF ItemStep

\* The finally clause of the worker that holds the guard.
LEMMA EndPlaces ==
  ASSUME IInv, PlaceInv, NEW g \in Turns, Reading(g), EndTurn(g)
  PROVE  PlaceInv' /\ ItemStep
<1> USE DEF EndTurn, EndReleases, queueVars
<1>1. g = generation /\ status = "running" /\ pc[g] # "slash"
  BY DEF IInv, HoldersInv, Reading, TurnPCs
<1>2. PrepInv' /\ Preparing' = Preparing
  BY <1>1, QuietPrep DEF IInv, PlaceInv
<1>3. QueueInv' /\ Queued' = Queued
  BY SameQueue DEF PlaceInv
<1>4. TurnsInv' /\ InSeq(turns)' = InSeq(turns)
  BY DEF PlaceInv, TurnsInv, InSeq
<1>5. PlaceInv'
  BY <1>2, <1>3, <1>4 DEF PlaceInv, Apart
<1>6. Finishes
  BY <1>1, <1>2, <1>3 DEF Finishes, NotSent, Held
<1> QED
  BY <1>5, <1>6 DEF ItemStep

LEMMA TurnFailsPlaces ==
  ASSUME IInv, PlaceInv, NEW g \in Turns, TurnFails(g)
  PROVE  PlaceInv' /\ ItemStep
<1>1. PrepInv' /\ Preparing' = Preparing
  BY QuietPrep DEF TurnFails, Resumes, IInv, PlaceInv
<1> QED
  BY <1>1, QuietPlaces DEF TurnFails, queueVars

\* A cancelled worker takes the skill it was preparing with it.
LEMMA UnwindPlaces ==
  ASSUME IInv, PlaceInv, NEW g \in Turns, Unwind(g)
  PROVE  PlaceInv' /\ ItemStep
<1> USE DEF Unwind, Leave, guardVars, queueVars
<1>1. PICK p \in {"idle", "done"} : pc' = [pc EXCEPT ![g] = p]
  OBVIOUS
<1>2. CASE pc[g] # "slash"
  <2>1. PrepInv' /\ Preparing' = Preparing
    BY <1>1, <1>2, QuietPrep DEF IInv, PlaceInv
  <2> QED
    BY <2>1, QuietPlaces
<1>3. CASE pc[g] = "slash"
  <2>1. PrepInv' /\ Preparing' = Preparing \ {task[g]} /\ task[g] \in Preparing
    BY <1>1, <1>3, LeftPrep DEF IInv, PlaceInv
  <2>2. QueueInv' /\ Queued' = Queued /\ (task[g] \in Items => task[g] \in Skills)
    BY <1>3, SameQueue, Kinds DEF PlaceInv, PrepInv
  <2> QED
    BY <2>1, <2>2, Handled DEF TurnsKept
<1> QED
  BY <1>2, <1>3

LEMMA InitPlaces == Init => PlaceInv
<1> SUFFICES ASSUME Init PROVE PlaceInv
  OBVIOUS
<1>1. QueueInv /\ Queued = {}
  BY EmptyIn DEF Init, QueueInv, Queued
<1>2. PrepInv /\ Preparing = {}
  BY DEF Init, PrepInv, Preparing
<1>3. TurnsInv /\ InSeq(turns) = {}
  BY EmptyIn DEF Init, TurnsInv
<1> QED
  BY <1>1, <1>2, <1>3 DEF Init, PlaceInv, Apart

LEMMA NextPlaces == IInv /\ PlaceInv /\ [Next]_vars => PlaceInv' /\ ItemStep
<1> SUFFICES ASSUME IInv, PlaceInv, [Next]_vars PROVE PlaceInv' /\ ItemStep
  OBVIOUS
<1>1. ASSUME NEW a \in Actors, ActorStep(a) PROVE PlaceInv' /\ ItemStep
  <2>1. CASE SlashReturns(a)
    BY <2>1, ProcessQueuePlaces DEF SlashReturns, Resumes
  <2> QED
    BY <1>1, <2>1, AppendPromptPlaces, StartWorkerPlaces, SkillReturnsPlaces,
       CompactReturnsPlaces DEF ActorStep
<1>2. ASSUME NEW g \in Turns, WorkerStep(g) PROVE PlaceInv' /\ ItemStep
  <2>1. CASE TurnEnds(g)
    BY <2>1, EndPlaces DEF TurnEnds, Resumes, Reading
  <2>2. CASE FailureShown(g)
    BY <2>2, EndPlaces DEF FailureShown, Resumes, Reading
  <2>3. CASE TurnCloses(g)
    BY <2>3, ProcessQueuePlaces DEF TurnCloses, Resumes
  <2> QED
    BY <1>2, <2>1, <2>2, <2>3, TurnFailsPlaces, UnwindPlaces DEF WorkerStep
<1>3. CASE CtrlC \/ UNCHANGED vars
  <2>1. UNCHANGED <<guardVars, queue, outbox, unsent>> /\ UNCHANGED <<pc, task>>
    BY <1>3 DEF CtrlC, vars, queueVars, actorVars
  <2>2. PrepInv' /\ Preparing' = Preparing
    BY <2>1, PrepKept DEF PlaceInv, PrepInv
  <2> QED
    BY <2>1, <2>2, QuietPlaces
<1> QED
  BY <1>1, <1>2, <1>3, SubmitPlaces, NotifyPlaces, DrainPlaces DEF Next, UserStep

\* Whatever kind of step it is, TurnService makes it too.
LEMMA ItemStepMaps == Placed /\ TurnsInv /\ ItemStep => AbstractStep
  BY StaysMaps, AcceptMaps, StartMaps, FinishMaps, AbsorbMaps, DropMaps DEF ItemStep

LEMMA InitMaps == Init => Abstract!Init
<1> SUFFICES ASSUME Init PROVE Abstract!Init
  OBVIOUS
<1>1. InSeq(turns) = {} /\ Queued = {} /\ Preparing = {} /\ CurrentItem = {}
  BY EmptyIn DEF Init, Queued, Preparing, CurrentItem
<1>2. Gone = {}
  BY Kinds DEF Init, Gone
<1> QED
  BY <1>1, <1>2 DEF Abstract!Init, WaitingItems, Ended

-----------------------------------------------------------------------------
(* The inputs that wait are the last that were queued, in that order.      *)

OrderInv ==
    /\ accepted \in Seq(Inputs)
    /\ Len(queue.next) <= Len(accepted)
    /\ \A i \in 1 .. Len(queue.next) :
          queue.next[i] = accepted[Len(accepted) - Len(queue.next) + i]

\* An input goes to the end of both.
LEMMA EnqueueOrder ==
  ASSUME QueueInv, OrderInv, NEW c \in Inputs,
         queue' = Enqueued(queue, c), accepted' = Append(accepted, c)
  PROVE  OrderInv'
<1> DEFINE q == queue.next
           n == Len(q)
           m == Len(accepted)
<1>1. q \in Seq(Inputs) /\ queue'.next = Append(q, c) /\ accepted \in Seq(Inputs)
  BY DEF QueueInv, Enqueued, OrderInv
<1>2. /\ accepted' \in Seq(Inputs) /\ Len(accepted') = m + 1 /\ accepted'[m + 1] = c
      /\ \A i \in 1 .. m : accepted'[i] = accepted[i]
  BY <1>1, AppendIn
<1>3. /\ Len(queue'.next) = n + 1 /\ queue'.next[n + 1] = c
      /\ \A i \in 1 .. n : queue'.next[i] = q[i]
  BY <1>1, AppendIn
<1>4. /\ n \in Nat /\ m \in Nat /\ n <= m
      /\ \A i \in 1 .. n : q[i] = accepted[m - n + i]
  <2>1. n \in Nat /\ m \in Nat /\ n <= m
    BY <1>1 DEF OrderInv
  <2>2. \A i \in 1 .. n : q[i] = accepted[m - n + i]
    BY DEF OrderInv
  <2> QED
    BY <2>1, <2>2
<1> HIDE DEF n, m
<1>5. ASSUME NEW i \in 1 .. (n + 1)
      PROVE  queue'.next[i] = accepted'[(m + 1) - (n + 1) + i]
  <2>1. CASE i = n + 1
    <3>1. (m + 1) - (n + 1) + i = m + 1
      BY <1>4, <2>1
    <3> QED
      BY <1>2, <1>3, <2>1, <3>1
  <2>2. CASE i \in 1 .. n
    <3>1. m - n + i \in 1 .. m /\ (m + 1) - (n + 1) + i = m - n + i
      BY <1>4, <2>2
    <3>2. q[i] = accepted[m - n + i]
      BY <1>4, <2>2
    <3> QED
      BY <1>2, <1>3, <2>2, <3>1, <3>2
  <2>3. i = n + 1 \/ i \in 1 .. n
    BY <1>4
  <2> QED
    BY <2>1, <2>2, <2>3
<1>6. n + 1 <= m + 1
  BY <1>4
<1> QED
  BY <1>2, <1>3, <1>5, <1>6 DEF OrderInv

\* The first input leaves the queue, or a notification does.
LEMMA DequeueOrder ==
  ASSUME QueueInv, OrderInv, ~NothingQueued(Drained),
         queue' = Dequeued(Drained), accepted' = accepted
  PROVE  OrderInv'
<1> DEFINE q == queue.next
           n == Len(q)
           m == Len(accepted)
<1>1. /\ q \in Seq(Inputs) /\ accepted \in Seq(Inputs) /\ Drained.next = q
      /\ Drained \in [next : Seq(Inputs), later : Seq(Notes)]
  BY DrainedIn DEF QueueInv, OrderInv
<1>2. CASE q = <<>>
  <2>1. queue'.next = q
    BY <1>1, <1>2 DEF Dequeued
  <2> QED
    BY <2>1 DEF OrderInv
<1>3. CASE q # <<>>
  <2>1. queue'.next = Tail(q)
    BY <1>1, <1>3 DEF Dequeued
  <2>2. Len(queue'.next) = n - 1 /\ \A i \in 1 .. (n - 1) : queue'.next[i] = q[i + 1]
    BY <1>1, <1>3, <2>1, TailIn
  <2>3. /\ n \in Nat /\ m \in Nat /\ n <= m
        /\ \A i \in 1 .. n : q[i] = accepted[m - n + i]
    <3>1. n \in Nat /\ m \in Nat /\ n <= m
      BY <1>1 DEF OrderInv
    <3>2. \A i \in 1 .. n : q[i] = accepted[m - n + i]
      BY DEF OrderInv
    <3> QED
      BY <3>1, <3>2
  <2>5. Len(accepted') = m
    OBVIOUS
  <2> HIDE DEF n, m
  <2>4. ASSUME NEW i \in 1 .. (n - 1)
        PROVE  queue'.next[i] = accepted[m - (n - 1) + i]
    <3>1. i + 1 \in 1 .. n /\ m - (n - 1) + i = m - n + (i + 1)
      BY <2>3
    <3>2. q[i + 1] = accepted[m - n + (i + 1)]
      BY <2>3, <3>1
    <3> QED
      BY <2>2, <3>1, <3>2
  <2>6. n - 1 <= m
    BY <2>3
  <2> QED
    BY <1>1, <2>2, <2>4, <2>5, <2>6 DEF OrderInv
<1> QED
  BY <1>2, <1>3

LEMMA NextOrder == PlaceInv /\ OrderInv /\ [Next]_vars => OrderInv'
<1> SUFFICES ASSUME PlaceInv, OrderInv, [Next]_vars PROVE OrderInv'
  OBVIOUS
<1>1. CASE queue'.next = queue.next /\ accepted' = accepted
  BY <1>1 DEF OrderInv
<1>2. ASSUME NEW a \in Actors, ProcessQueue(a), accepted' = accepted PROVE OrderInv'
  BY <1>1, <1>2, DequeueOrder DEF ProcessQueue, PlaceInv
<1>3. ASSUME NEW c \in Inputs, Submit(c) PROVE OrderInv'
  BY <1>1, <1>3, EnqueueOrder DEF Submit, PlaceInv
<1>4. ASSUME NEW a \in Actors, ActorStep(a) PROVE OrderInv'
  BY <1>1, <1>2, <1>4 DEF ActorStep, AppendPrompt, StartWorker, SkillReturns, CompactReturns,
     SlashReturns, queueVars
<1>5. ASSUME NEW g \in Turns, WorkerStep(g) PROVE OrderInv'
  BY <1>1, <1>2, <1>5 DEF WorkerStep, TurnEnds, TurnFails, FailureShown, TurnCloses, Unwind,
     EndTurn, queueVars
<1>6. ASSUME NEW g \in Turns, DrainMidTurn(g) PROVE OrderInv'
  <2>1. queue'.next = queue.next
    BY <1>6 DEF DrainMidTurn, PlaceInv, QueueInv
  <2> QED
    BY <1>1, <1>6, <2>1 DEF DrainMidTurn
<1>7. ASSUME NEW n \in Notes, Notify(n) PROVE OrderInv'
  BY <1>1, <1>7 DEF Notify
<1>8. CASE CtrlC \/ UNCHANGED vars
  BY <1>1, <1>8 DEF CtrlC, vars, queueVars
<1> QED
  BY <1>3, <1>4, <1>5, <1>6, <1>7, <1>8 DEF Next, UserStep

LEMMA OrderMeans == PlaceInv /\ OrderInv => QueueInOrder
<1> SUFFICES ASSUME PlaceInv, OrderInv PROVE QueueInOrder
  OBVIOUS
<1> DEFINE q == queue.next
           n == Len(q)
           m == Len(accepted)
           first == m - n + 1
           r == SubSeq(accepted, first, m)
<1>1. q \in Seq(Inputs) /\ accepted \in Seq(Inputs) /\ n \in Nat /\ m \in Nat /\ n <= m
  BY DEF PlaceInv, QueueInv, OrderInv
<1>2. \A i \in 1 .. n : q[i] = accepted[m - n + i]
  BY DEF OrderInv
<1>3. \A i \in 1 .. m : accepted[i] \in Inputs
  BY <1>1
<1> HIDE DEF n, m
<1>4. /\ first \in Int /\ m \in Int /\ m - first + 1 = n
      /\ (IF first <= m THEN m - first + 1 ELSE 0) = n
      /\ \A i \in first .. m : i \in 1 .. m
      /\ \A i \in 1 .. n : first + i - 1 = m - n + i
  BY <1>1
<1> HIDE DEF first
<1>5. /\ r \in Seq(Inputs) /\ Len(r) = n
      /\ \A i \in 1 .. n : r[i] = accepted[first + i - 1]
  BY <1>3, <1>4, SubSeqProperties
<1>6. \A i \in 1 .. n : q[i] = r[i]
  BY <1>2, <1>4, <1>5
<1> HIDE DEF r
<1>7. q = r
  BY <1>1, <1>5, <1>6, SeqEqual DEF n
<1> QED
  BY <1>1, <1>7 DEF QueueInOrder, r, first, n, m

-----------------------------------------------------------------------------
(* The prompt of the running turn is in the history from the await behind  *)
(* its append on, until the worker stops reading.                          *)

Entries == [role : {"user", "assistant"}, about : SUBSET Commands]

HistInv ==
    /\ conversation \in Seq(Entries)
    /\ \A a \in Actors : Opening(a) => task[a] = turns[generation]
    /\ \A a \in Actors : pc[a] \in {"mounted", "streaming"} =>
          turns[generation] \in Remembered(conversation)

\* What is appended to the history leaves what was remembered in it.
LEMMA RememberedConcat ==
  ASSUME NEW s \in Seq(Entries), NEW r \in Seq(Entries)
  PROVE  /\ s \o r \in Seq(Entries)
         /\ Remembered(s) \subseteq Remembered(s \o r)
<1>1. s \o r \in Seq(Entries) /\ InSeq(s \o r) = InSeq(s) \cup InSeq(r)
  BY ConcatIn
<1>2. \A t : Remembered(t) = UNION {e.about : e \in InSeq(t)}
  BY DEF Remembered, InSeq
<1>3. {e.about : e \in InSeq(s)} \subseteq {e.about : e \in InSeq(s \o r)}
  BY <1>1
<1> QED
  BY <1>1, <1>2, <1>3

LEMMA RememberedAppend ==
  ASSUME NEW s \in Seq(Entries), NEW e \in Entries
  PROVE  /\ Append(s, e) \in Seq(Entries)
         /\ Remembered(s) \subseteq Remembered(Append(s, e))
         /\ e.about \subseteq Remembered(Append(s, e))
<1>1. Append(s, e) \in Seq(Entries) /\ InSeq(Append(s, e)) = InSeq(s) \cup {e}
  BY AppendIn
<1>2. \A t : Remembered(t) = UNION {f.about : f \in InSeq(t)}
  BY DEF Remembered, InSeq
<1>3. /\ {f.about : f \in InSeq(s)} \subseteq {f.about : f \in InSeq(Append(s, e))}
      /\ e.about \in {f.about : f \in InSeq(Append(s, e))}
  BY <1>1
<1> QED
  BY <1>1, <1>2, <1>3

\* The user message of a turn.
LEMMA WithPromptRemembers ==
  ASSUME HistInv, NEW c \in Commands
  PROVE  /\ WithPrompt(c) \in Seq(Entries)
         /\ Remembered(conversation) \subseteq Remembered(WithPrompt(c))
         /\ c \in Remembered(WithPrompt(c))
<1> DEFINE e == [role |-> "user", about |-> {c}]
<1>1. e \in Entries /\ e.about = {c} /\ conversation \in Seq(Entries)
  BY DEF Entries, HistInv
<1> HIDE DEF e
<1>2. /\ Append(conversation, e) \in Seq(Entries)
      /\ Remembered(conversation) \subseteq Remembered(Append(conversation, e))
      /\ e.about \subseteq Remembered(Append(conversation, e))
  BY <1>1, RememberedAppend
<1> QED
  BY <1>1, <1>2 DEF WithPrompt, e

\* While the guard is idle the history may lose anything.
LEMMA HistIdle ==
  ASSUME IInv', status' = "idle", conversation' \in Seq(Entries)
  PROVE  HistInv'
  BY DEF HistInv, IInv, HoldersInv, TurnPCs, Opening

\* The turn goes on, if it does, with the history it had or a longer one.
LEMMA HistKept ==
  ASSUME HistInv, TurnsKept, conversation' \in Seq(Entries),
         Remembered(conversation) \subseteq Remembered(conversation'),
         \A a \in Actors : pc'[a] \in {"mounting", "mounted", "streaming"}
                             => pc'[a] = pc[a] /\ task'[a] = task[a]
  PROVE  HistInv'
  BY DEF HistInv, TurnsKept, Opening

\* A turn starts: its actor is the only holder.
LEMMA HistBegin ==
  ASSUME IInv, IInv', PlaceInv, HistInv, NEW a \in Actors, NEW c \in Items, BeginTurn(a, c)
  PROVE  HistInv'
<1> USE DEF BeginTurn
<1>1. pc'[a] \in TurnPCs /\ task'[a] = c /\ (pc'[a] = "mounted" => c \in Notes)
      /\ pc'[a] # "streaming"
  BY DEF IInv, TypeOK, PlaceInv, PrepInv, TurnPCs
<1>2. \A b \in Actors : pc'[b] \in TurnPCs => b = a
  BY <1>1 DEF IInv, HoldersInv
<1>3. turns'[generation'] = c
  BY AppendIn DEF PlaceInv, TurnsInv
<1>4. /\ conversation' \in Seq(Entries)
      /\ c \in Notes => c \in Remembered(conversation')
  <2>1. c \in Commands /\ conversation \in Seq(Entries)
    BY Kinds DEF HistInv
  <2>2. WithPrompt(c) \in Seq(Entries) /\ c \in Remembered(WithPrompt(c))
    BY <2>1, WithPromptRemembers
  <2> QED
    BY <2>1, <2>2
<1> QED
  BY <1>1, <1>2, <1>3, <1>4 DEF HistInv, Opening, TurnPCs

\* Steps that leave the history alone, and in which no actor goes on with a turn
\* from another await or with another command.
LEMMA HistSame ==
  ASSUME HistInv, TurnsKept, conversation' = conversation,
         \A a \in Actors : pc'[a] \in {"mounting", "mounted", "streaming"}
                             => pc'[a] = pc[a] /\ task'[a] = task[a]
  PROVE  HistInv'
  BY HistKept DEF HistInv

\* An actor moves to an await outside any turn.
LEMMA HistMove ==
  ASSUME IInv, PlaceInv, HistInv, TurnsKept, conversation' = conversation, NEW a \in Actors,
         NEW p \in {"idle", "slash", "shown", "failing", "closing", "done"},
         pc' = [pc EXCEPT ![a] = p],
         task' = task \/ (\E c \in Commands \cup {NoCommand} : task' = [task EXCEPT ![a] = c])
  PROVE  HistInv'
<1>1. \A b \in Actors : b # a => pc'[b] = pc[b] /\ task'[b] = task[b]
  BY MovePc, LeaveTask DEF IInv, PlaceInv, PrepInv
<1>2. pc'[a] = p
  BY DEF IInv, TypeOK
<1> QED
  BY <1>1, <1>2, HistSame

LEMMA ProcessQueueHist ==
  ASSUME IInv, IInv', PlaceInv, HistInv, NEW a \in Actors, ProcessQueue(a)
  PROVE  HistInv'
<1> DEFINE c == NextCommand(Drained)
<1>1. CASE Leave(a) /\ UNCHANGED <<guardVars, conversation>>
  <2>1. PICK p \in {"idle", "done"} : pc' = [pc EXCEPT ![a] = p]
    BY <1>1 DEF Leave
  <2> QED
    BY <1>1, <2>1, HistMove DEF Leave, TurnsKept, guardVars
<1>2. CASE ~GuardActive /\ BeginSlash(a, c, TRUE)
  <2>1. conversation' \in Seq(Entries) /\ status' = "idle"
    BY <1>2, EmptyIn DEF BeginSlash, GuardActive, IInv, TypeOK, HistInv, guardVars
  <2> QED
    BY <2>1, HistIdle
<1>3. CASE /\ ~GuardActive /\ ~NothingQueued(Drained)
           /\ outbox' = <<>> /\ queue' = Dequeued(Drained)
           /\ c \notin Slashes /\ BeginTurn(a, c)
  <2>1. c \in Items
    BY <1>3, DequeueIn, Kinds DEF PlaceInv
  <2> QED
    BY <1>3, <2>1, HistBegin
<1> QED
  BY <1>1, <1>2, <1>3 DEF ProcessQueue

LEMMA SubmitHist ==
  ASSUME IInv, IInv', PlaceInv, HistInv, NEW c \in Inputs, Submit(c)
  PROVE  HistInv'
<1> USE DEF Submit, guardVars, actorVars
<1>1. CASE UNCHANGED <<guardVars, actorVars, conversation>>
  BY <1>1, HistSame DEF TurnsKept
<1>2. CASE ~Busy /\ c \in Prompts /\ BeginTurn(Pump, c)
  BY <1>2, HistBegin DEF Items
<1>3. CASE ~Busy /\ BeginSlash(Pump, c, FALSE)
  <2>1. conversation' \in Seq(Entries) /\ status' = "idle"
    BY <1>3, EmptyIn DEF BeginSlash, Busy, GuardActive, IInv, TypeOK, HistInv
  <2> QED
    BY <2>1, HistIdle
<1> QED
  BY <1>1, <1>2, <1>3

LEMMA AppendPromptHist ==
  ASSUME IInv, PlaceInv, HistInv, NEW a \in Actors, AppendPrompt(a)
  PROVE  HistInv'
<1> USE DEF AppendPrompt, Resumes, guardVars
<1>1. /\ pc[a] = "mounting" /\ pc'[a] = "mounted"
      /\ \A b \in Actors : b # a => pc'[b] = pc[b]
  BY DEF IInv, TypeOK
<1>2. task[a] = turns[generation] /\ turns[generation] \in Commands
  <2>1. status = "running"
    BY DEF IInv, HoldersInv, TurnPCs
  <2> QED
    BY <1>1, <2>1, RunningTurn, Kinds DEF HistInv, Opening
<1>3. /\ conversation' \in Seq(Entries)
      /\ Remembered(conversation) \subseteq Remembered(conversation')
      /\ task[a] \in Remembered(conversation')
  BY <1>2, WithPromptRemembers
<1> QED
  BY <1>1, <1>2, <1>3 DEF HistInv, Opening

\* The worker takes over a turn whose prompt is in the history.
LEMMA StartWorkerHist ==
  ASSUME IInv, IInv', HistInv, NEW a \in Actors, StartWorker(a)
  PROVE  HistInv'
<1> USE DEF StartWorker, Resumes, guardVars, historyVars
<1>1. turns[generation] \in Remembered(conversation)
  BY DEF HistInv
<1>2. generation \in Turns /\ a # generation
  BY DEF IInv, WorkersInv, Opening
<1>3. pc'[generation'] = "streaming"
  BY <1>2 DEF IInv, TypeOK
<1>4. \A b \in Actors : ~Opening(b)'
  BY <1>2, <1>3 DEF IInv, HoldersInv, TurnPCs, Opening
<1> QED
  BY <1>1, <1>4 DEF HistInv

LEMMA SkillReturnsHist ==
  ASSUME IInv, IInv', PlaceInv, HistInv, NEW a \in Actors, SkillReturns(a)
  PROVE  HistInv'
<1> USE DEF SkillReturns, Resumes, guardVars
<1>1. CASE BeginTurn(a, task[a])
  BY <1>1, Kinds, HistBegin
<1>2. CASE Leave(a) /\ UNCHANGED <<guardVars, conversation>>
  <2>1. PICK p \in {"idle", "done"} : pc' = [pc EXCEPT ![a] = p]
    BY <1>2 DEF Leave
  <2> QED
    BY <1>2, <2>1, HistMove DEF Leave, TurnsKept
<1> QED
  BY <1>1, <1>2

LEMMA DrainHist ==
  ASSUME PlaceInv, HistInv, NEW g \in Turns, DrainMidTurn(g)
  PROVE  HistInv'
<1> DEFINE notes == Drained.later
           reply == << [role |-> "assistant", about |-> {}] >>
           asUser == [i \in DOMAIN notes |-> [role |-> "user", about |-> {notes[i]}]]
<1> USE DEF DrainMidTurn, guardVars, actorVars
<1>1. notes \in Seq(Notes)
  BY DrainedIn DEF PlaceInv
<1>2. reply \in Seq(Entries)
  BY DEF Entries
<1>3. asUser \in Seq(Entries)
  <2>1. \A i \in 1 .. Len(notes) : [role |-> "user", about |-> {notes[i]}] \in Entries
    BY <1>1, Kinds DEF Entries
  <2>2. DOMAIN notes = 1 .. Len(notes) /\ Len(notes) \in Nat
    BY <1>1
  <2>3. asUser \in [1 .. Len(notes) -> Entries]
    BY <2>1, <2>2
  <2> QED
    BY <2>2, <2>3, SeqDef
<1>4. conversation' = (conversation \o reply) \o asUser
  OBVIOUS
<1> HIDE DEF reply, asUser
<1>5. /\ conversation \o reply \in Seq(Entries)
      /\ Remembered(conversation) \subseteq Remembered(conversation \o reply)
  BY <1>2, RememberedConcat DEF HistInv
<1>6. /\ conversation' \in Seq(Entries)
      /\ Remembered(conversation \o reply) \subseteq Remembered(conversation')
  BY <1>3, <1>4, <1>5, RememberedConcat
<1> QED
  BY <1>5, <1>6, HistKept DEF TurnsKept

\* The end of a turn may take the prompt with it: nobody reads on.
LEMMA EndHist ==
  ASSUME IInv, IInv', NEW g \in Turns, Reading(g), EndTurn(g), conversation' \in Seq(Entries)
  PROVE  HistInv'
<1>1. status' = "idle"
  BY DEF EndTurn, EndReleases, IInv, HoldersInv, Reading, TurnPCs
<1> QED
  BY <1>1, HistIdle

LEMMA WorkerHist ==
  ASSUME IInv, IInv', PlaceInv, HistInv, NEW g \in Turns, WorkerStep(g)
  PROVE  HistInv'
<1>1. CASE TurnEnds(g)
  <2>1. [role |-> "assistant", about |-> {}] \in Entries
    BY DEF Entries
  <2>2. conversation' \in Seq(Entries)
    BY <1>1, <2>1, RememberedAppend DEF TurnEnds, HistInv
  <2> QED
    BY <1>1, <2>2, EndHist DEF TurnEnds, Resumes, Reading
<1>2. CASE FailureShown(g)
  <2>1. conversation' \in Seq(Entries)
    BY <1>2 DEF FailureShown, DropTrailingUser, HistInv
  <2> QED
    BY <1>2, <2>1, EndHist DEF FailureShown, Resumes, Reading
<1>3. CASE TurnFails(g)
  BY <1>3, HistMove DEF TurnFails, TurnsKept, guardVars, historyVars
<1>4. CASE TurnCloses(g)
  BY <1>4, ProcessQueueHist DEF TurnCloses
<1>5. CASE Unwind(g)
  <2>1. PICK p \in {"idle", "done"} : pc' = [pc EXCEPT ![g] = p]
    BY <1>5 DEF Unwind, Leave
  <2> QED
    BY <1>5, <2>1, HistMove DEF Unwind, Leave, TurnsKept, guardVars, historyVars
<1> QED
  BY <1>1, <1>2, <1>3, <1>4, <1>5 DEF WorkerStep

LEMMA NextHist == IInv /\ IInv' /\ PlaceInv /\ HistInv /\ [Next]_vars => HistInv'
<1> SUFFICES ASSUME IInv, IInv', PlaceInv, HistInv, [Next]_vars PROVE HistInv'
  OBVIOUS
<1>1. ASSUME NEW a \in Actors, ActorStep(a) PROVE HistInv'
  <2>1. CASE CompactReturns(a)
    BY <2>1, HistMove DEF CompactReturns, TurnsKept, guardVars
  <2>2. CASE SlashReturns(a)
    BY <2>2, ProcessQueueHist DEF SlashReturns
  <2> QED
    BY <1>1, <2>1, <2>2, AppendPromptHist, StartWorkerHist, SkillReturnsHist DEF ActorStep
<1>2. ASSUME NEW n \in Notes, Notify(n) PROVE HistInv'
  BY <1>2, HistSame DEF Notify, TurnsKept, guardVars, actorVars, historyVars
<1>3. CASE CtrlC \/ UNCHANGED vars
  BY <1>3, HistSame DEF CtrlC, vars, TurnsKept, guardVars, actorVars, historyVars
<1> QED
  BY <1>1, <1>2, <1>3, SubmitHist, DrainHist, WorkerHist DEF Next, UserStep

\* A worker that streams is the worker of the running generation.
LEMMA HistMeans == IInv /\ HistInv => PromptInHistory
  BY DEF IInv, HoldersInv, HistInv, PromptInHistory, Reading

-----------------------------------------------------------------------------
\* The turn discipline: the inductive invariant holds in every reachable state.
THEOREM Discipline == Spec => []IInv
  BY InitIInv, NextIInv, PTL DEF Spec

\* The control state keeps its types.
THEOREM TypeCorrect == Spec => []TypeOK
<1>1. IInv => TypeOK
  BY DEF IInv
<1> QED
  BY <1>1, Discipline, PTL

\* The three parts of the turn discipline follow from the inductive invariant,
\* for any commands and any number of turns: one turn at a time, no leaked guard,
\* no live turn cancelled by the worker that another one starts.
THEOREM TurnDisciplineHolds == Spec => []TurnDiscipline
<1>1. IInv => SingleTurn
  BY DEF IInv, HoldersInv, SingleTurn, Holders, TurnPCs, Reading
<1>2. IInv => GuardHasHolder
  BY DEF IInv, HoldersInv, GuardHasHolder, Holders
<1>3. IInv => CancelSparesTurns
  BY DEF IInv, CancelInv, CancelSparesTurns, TurnPCs
<1>4. IInv => TurnDiscipline
  BY <1>1, <1>2, <1>3 DEF TurnDiscipline
<1> QED
  BY <1>4, Discipline, PTL

\* Ctrl+C always finds the abort event and the flag of the turn that streams.
THEOREM InterruptReachesTurnHolds == Spec => []InterruptReachesTurn
<1>1. IInv => InterruptReachesTurn
  BY DEF IInv, AbortInv
<1> QED
  BY <1>1, Discipline, PTL

\* The re-entrancy flag of the queue loop is never leaked.
THEOREM QueueFlagOwnedHolds == Spec => []QueueFlagOwned
<1>1. IInv => QueueFlagOwned
  BY DEF IInv, FlagInv
<1> QED
  BY <1>1, Discipline, PTL

\* Every command is in one place: not sent, in the queue or the outbox, with the
\* handler of a slash command, or the command of a turn; and in each only once.
THEOREM Places == Spec => [](IInv /\ PlaceInv)
<1>1. Init => IInv /\ PlaceInv
  BY InitIInv, InitPlaces
<1>2. IInv /\ PlaceInv /\ [Next]_vars => (IInv /\ PlaceInv)'
  BY NextIInv, NextPlaces
<1> QED
  BY <1>1, <1>2, PTL DEF Spec

\* The screen implements TurnService: an accepted prompt or notification is
\* served once, one at a time, and only a skill can be lost on the way.
THEOREM ImplementsTurnServiceHolds == Spec => ImplementsTurnService
<1>1. IInv /\ PlaceInv /\ [Next]_vars /\ (IInv /\ PlaceInv)' => AbstractStep
  <2>1. IInv /\ PlaceInv => ItemsPlaced
    BY Mapped
  <2>2. (IInv /\ PlaceInv)' => ItemsPlaced'
    BY <2>1, PTL
  <2> QED
    BY <2>1, <2>2, NextPlaces, ItemStepMaps DEF Placed, PlaceInv
<1>2. IInv /\ PlaceInv /\ [Next]_vars /\ (IInv /\ PlaceInv)'
      => [Abstract!Next]_(Abstract!vars)
  BY <1>1 DEF AbstractStep
<1> QED
  BY <1>2, InitMaps, Places, PTL DEF Spec, ImplementsTurnService, Abstract!Spec

\* The inputs that wait are the last that were queued, in the order they were
\* typed, whatever the finishing workers and the notifications do to the queue.
THEOREM QueueInOrderHolds == Spec => []QueueInOrder
<1>1. Init => OrderInv
  BY EmptyIn DEF Init, OrderInv
<1>2. PlaceInv /\ OrderInv /\ [Next]_vars => OrderInv'
  BY NextOrder
<1>3. PlaceInv /\ OrderInv => QueueInOrder
  BY OrderMeans
<1> QED
  BY <1>1, <1>2, <1>3, Places, PTL DEF Spec

\* A turn streams only with its own prompt in the history, although /clear and
\* the repair after a failure take messages out of it.
THEOREM PromptInHistoryHolds == Spec => []PromptInHistory
<1>1. Init => HistInv
  BY EmptyIn DEF Init, HistInv, Opening
<1>2. IInv /\ IInv' /\ PlaceInv /\ HistInv /\ [Next]_vars => HistInv'
  BY NextHist
<1>3. IInv /\ HistInv => PromptInHistory
  BY HistMeans
<1> QED
  BY <1>1, <1>2, <1>3, Places, PTL DEF Spec

-----------------------------------------------------------------------------
(* The guard alone, driven by callers that keep the generation they got.   *)

Guard(Callers, MaxGeneration, held) == INSTANCE QueryGuard

\* No generation was handed out twice, and none comes from the future.
Fresh(C, held) == \A c \in C : held[c] <= generation
Unshared(C, held) == \A c, d \in C : c # d /\ held[c] # 0 => held[c] # held[d]
Owned(C, held) == status = "running" => \E c \in C : held[c] = generation
Started == status = "running" => generation > 0

GuardInv(C, M, held) ==
    /\ Guard(C, M, held)!TypeOK
    /\ Fresh(C, held) /\ Unshared(C, held) /\ Owned(C, held) /\ Started

\* Every method of the guard preserves the invariant.
LEMMA GuardStep ==
  ASSUME NEW C, NEW M, NEW VARIABLE held,
         GuardInv(C, M, held), [Guard(C, M, held)!Next]_(Guard(C, M, held)!vars)
  PROVE  GuardInv(C, M, held)'
<1> USE DEF GuardInv, Guard!TypeOK, Guard!Status, Fresh, Unshared, Owned, Started
<1>1. CASE Guard(C, M, held)!Reserve
  BY <1>1 DEF Guard!Reserve
<1>2. CASE Guard(C, M, held)!CancelReservation
  BY <1>2 DEF Guard!CancelReservation
<1>3. CASE Guard(C, M, held)!ForceEnd
  BY <1>3 DEF Guard!ForceEnd, Guard!NextGeneration
<1>4. ASSUME NEW c \in C, Guard(C, M, held)!TryStart(c) PROVE GuardInv(C, M, held)'
  BY <1>4 DEF Guard!TryStart, Guard!NextGeneration
<1>5. ASSUME NEW c \in C, Guard(C, M, held)!End(c) PROVE GuardInv(C, M, held)'
  BY <1>5 DEF Guard!End, Guard!EndsTurn
<1>6. CASE UNCHANGED Guard(C, M, held)!vars
  BY <1>6 DEF Guard!vars
<1> QED
  BY <1>1, <1>2, <1>3, <1>4, <1>5, <1>6 DEF Guard!Next

\* Whatever callers reserve, start, end late or force: the guard keeps its types,
\* and the generations that are held are distinct and not of the future.
THEOREM GuardInvariant ==
  ASSUME NEW C, NEW M, NEW VARIABLE held
  PROVE  Guard(C, M, held)!Spec => []GuardInv(C, M, held)
<1>1. Guard(C, M, held)!Init => GuardInv(C, M, held)
  BY DEF Guard!Init, GuardInv, Guard!TypeOK, Guard!Status, Fresh, Unshared, Owned, Started
<1>2. GuardInv(C, M, held) /\ [Guard(C, M, held)!Next]_(Guard(C, M, held)!vars)
      => GuardInv(C, M, held)'
  BY GuardStep
<1> QED
  BY <1>1, <1>2, PTL DEF Guard!Spec

\* query_guard.py: a running turn is owned by exactly one caller, whatever the
\* interleaving of reservations, starts, late ends and forced ends.
THEOREM OneOwnerHolds ==
  ASSUME NEW C, NEW M, NEW VARIABLE held
  PROVE  Guard(C, M, held)!Spec => []Guard(C, M, held)!OneOwner
<1>1. GuardInv(C, M, held) => Guard(C, M, held)!OneOwner
  BY DEF GuardInv, Guard!TypeOK, Unshared, Owned, Started, Guard!OneOwner
<1> QED
  BY <1>1, GuardInvariant, PTL

\* query_guard.py: a late end() never releases the turn that replaced the one it
\* belongs to.
THEOREM OnlyOwnerReleasesHolds ==
  ASSUME NEW C, NEW M, NEW VARIABLE held
  PROVE  Guard(C, M, held)!Spec => Guard(C, M, held)!OnlyOwnerReleases
<1>1. GuardInv(C, M, held) /\ [Guard(C, M, held)!Next]_(Guard(C, M, held)!vars) =>
        [status = "running" /\ <<status, generation>>' # <<status, generation>>
            => Guard(C, M, held)!OwnerReleases]_(Guard(C, M, held)!vars)
  <2> SUFFICES ASSUME GuardInv(C, M, held), Guard(C, M, held)!Next, status = "running",
                      <<status, generation>>' # <<status, generation>>
               PROVE  Guard(C, M, held)!OwnerReleases
    OBVIOUS
  <2> USE DEF GuardInv, Guard!TypeOK, Guard!OwnerReleases
  <2>1. CASE Guard(C, M, held)!Reserve \/ Guard(C, M, held)!CancelReservation
    BY <2>1 DEF Guard!Reserve, Guard!CancelReservation
  <2>2. CASE Guard(C, M, held)!ForceEnd
    BY <2>2 DEF Guard!ForceEnd, Guard!NextGeneration
  <2>3. ASSUME NEW c \in C, Guard(C, M, held)!TryStart(c) PROVE FALSE
    BY <2>3 DEF Guard!TryStart
  <2>4. ASSUME NEW c \in C, Guard(C, M, held)!End(c) PROVE Guard(C, M, held)!OwnerReleases
    BY <2>4 DEF Guard!End, Guard!EndsTurn
  <2> QED
    BY <2>1, <2>2, <2>3, <2>4 DEF Guard!Next
<1> QED
  BY <1>1, GuardInvariant, PTL DEF Guard!Spec, Guard!OnlyOwnerReleases
=============================================================================
