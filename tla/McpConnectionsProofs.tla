------------------------ MODULE McpConnectionsProofs -------------------------
(***************************************************************************)
(* What McpConnections says of its safety, for any servers and bounds.     *)
(***************************************************************************)
EXTENDS McpConnections, TLAPS

USE McpConnectionsAssumption

-----------------------------------------------------------------------------
(* The steps of the coroutines: behind the first there is none that holds  *)
(* the lock, and each connection that starts was owed to a command, to a   *)
(* call or to the start.                                                   *)

Steps == {"connect", "opening", "disconnect", "closing", "tools", "discover", "list",
          "call", "answer", "call again", "last answer"}
Later == {"connect", "tools", "discover", "call again"}
Connecting == {"connect", "tools", "call", "answer"}

PlanOK ==
    /\ plan \in [Coroutines -> Seq(Steps)]
    /\ \A c \in Coroutines :
           /\ Len(plan[c]) <= 3
           /\ \A i \in 2 .. Len(plan[c]) : plan[c][i] \in Later

Owes(p, i) == IF i \in DOMAIN p /\ p[i] \in Connecting THEN 1 ELSE 0
Owed(p) == Owes(p, 1) + Owes(p, 2) + Owes(p, 3)

Bounded ==
    /\ round \in Nat /\ commands \in 0 .. MaxCommands /\ calls \in 0 .. MaxCalls
    /\ round + Owed(plan[Pump]) + Owed(plan[Background]) + Owed(plan[Turn])
           <= 1 + 2 * commands + calls

Control == PlanOK /\ Bounded /\ LockOwned /\ lock \in Coroutines \cup {Free}

Others(c) == \A d \in Coroutines \ {c} : plan'[d] = plan[d]
Waits(c) == At(c, "opening") \/ At(c, "closing")

LEMMA PlanShape ==
  ASSUME NEW c \in Coroutines, PlanOK, plan[c] # <<>>
  PROVE  /\ plan \in [Coroutines -> Seq(Steps)] /\ plan[c] \in Seq(Steps)
         /\ Len(plan[c]) \in Nat /\ Len(plan[c]) >= 1 /\ Len(plan[c]) <= 3 /\ DOMAIN plan[c] = 1 .. Len(plan[c])
         /\ Tail(plan[c]) \in Seq(Steps) /\ Len(Tail(plan[c])) = Len(plan[c]) - 1
         /\ \A i \in 1 .. Len(Tail(plan[c])) : Tail(plan[c])[i] = plan[c][i + 1]
         /\ Head(plan[c]) = plan[c][1] /\ Head(plan[c]) \in Steps
<1>1. plan \in [Coroutines -> Seq(Steps)] /\ Len(plan[c]) <= 3
  BY DEF PlanOK
<1>2. plan[c] \in Seq(Steps)
  BY <1>1
<1>3. \A s \in Seq(Steps) : s # <<>> => Len(s) \in Nat /\ Len(s) >= 1
  OBVIOUS
<1>4. Len(plan[c]) \in Nat /\ Len(plan[c]) >= 1
  BY <1>2, <1>3
<1>5. Len(plan[c]) <= 3
  BY <1>1
<1> QED
  BY <1>1, <1>2, <1>4, <1>5

LEMMA DoneStep ==
  ASSUME NEW c \in Coroutines, PlanOK, plan[c] # <<>>, Done(c)
  PROVE  /\ PlanOK' /\ Others(c) /\ ~Waits(c)'
         /\ Owed(plan'[c]) = Owed(plan[c]) - Owes(plan[c], 1)
<1>1. plan' = [plan EXCEPT ![c] = Tail(plan[c])]
  BY DEF Done
<1>2. /\ plan \in [Coroutines -> Seq(Steps)] /\ plan[c] \in Seq(Steps)
      /\ Len(plan[c]) \in Nat /\ Len(plan[c]) >= 1 /\ Len(plan[c]) <= 3 /\ DOMAIN plan[c] = 1 .. Len(plan[c])
      /\ Tail(plan[c]) \in Seq(Steps) /\ Len(Tail(plan[c])) = Len(plan[c]) - 1
      /\ \A i \in 1 .. Len(Tail(plan[c])) : Tail(plan[c])[i] = plan[c][i + 1]
  BY PlanShape
<1>3. Others(c) /\ plan'[c] = Tail(plan[c]) /\ plan' \in [Coroutines -> Seq(Steps)]
  BY <1>1, <1>2 DEF Others
<1>4. \A i \in 1 .. Len(plan'[c]) : plan'[c][i] \in Later
  BY <1>1, <1>2, <1>3 DEF PlanOK
<1>5. PlanOK'
  BY <1>1, <1>2, <1>3, <1>4 DEF PlanOK, Others
<1>6. ~Waits(c)'
  <2>1. SUFFICES ASSUME plan'[c] # <<>> PROVE Head(plan'[c]) \in Later
    BY DEF Waits, At, Later
  <2>2. /\ Len(plan'[c]) \in Nat /\ Len(plan'[c]) >= 1
        /\ Head(plan'[c]) = plan'[c][1]
    BY <1>2, <1>3, <2>1
  <2> QED
    BY <1>4, <2>2
<1>7. Owed(plan'[c]) = Owed(plan[c]) - Owes(plan[c], 1)
  <2>1. /\ Owes(plan'[c], 1) = Owes(plan[c], 2) /\ Owes(plan'[c], 2) = Owes(plan[c], 3)
        /\ Owes(plan'[c], 3) = 0
    BY <1>2, <1>3 DEF Owes
  <2>2. \A i \in 1 .. 3 : Owes(plan[c], i) \in 0 .. 1
    BY DEF Owes
  <2> QED
    BY <2>1, <2>2 DEF Owed
<1> QED
  BY <1>3, <1>5, <1>6, <1>7

LEMMA GoesOnStep ==
  ASSUME NEW c \in Coroutines, PlanOK, plan[c] # <<>>, NEW step \in Steps, GoesOn(c, step)
  PROVE  /\ PlanOK' /\ Others(c) /\ plan'[c] # <<>> /\ Head(plan'[c]) = step
         /\ Owed(plan'[c]) = Owed(plan[c]) - Owes(plan[c], 1)
                             + (IF step \in Connecting THEN 1 ELSE 0)
<1> DEFINE p == <<step>> \o Tail(plan[c])
<1>1. plan' = [plan EXCEPT ![c] = p]
  BY DEF GoesOn
<1>2. /\ plan \in [Coroutines -> Seq(Steps)] /\ plan[c] \in Seq(Steps)
      /\ Len(plan[c]) \in Nat /\ Len(plan[c]) >= 1 /\ Len(plan[c]) <= 3 /\ DOMAIN plan[c] = 1 .. Len(plan[c])
      /\ Tail(plan[c]) \in Seq(Steps) /\ Len(Tail(plan[c])) = Len(plan[c]) - 1
      /\ \A i \in 1 .. Len(Tail(plan[c])) : Tail(plan[c])[i] = plan[c][i + 1]
  BY PlanShape
<1>3. /\ p \in Seq(Steps) /\ Len(p) = Len(plan[c]) /\ p # <<>> /\ Head(p) = step /\ p[1] = step
      /\ \A i \in 2 .. Len(p) : p[i] = plan[c][i]
      /\ DOMAIN p = 1 .. Len(p)
  BY <1>2
<1> HIDE DEF p
<1>4. Others(c) /\ plan'[c] = p /\ plan' \in [Coroutines -> Seq(Steps)]
  BY <1>1, <1>2, <1>3 DEF Others
<1>5. PlanOK'
  BY <1>2, <1>3, <1>4 DEF PlanOK, Others
<1>6. Owed(plan'[c]) = Owed(plan[c]) - Owes(plan[c], 1) + (IF step \in Connecting THEN 1 ELSE 0)
  <2>1. /\ Owes(p, 1) = IF step \in Connecting THEN 1 ELSE 0
        /\ Owes(p, 2) = Owes(plan[c], 2) /\ Owes(p, 3) = Owes(plan[c], 3)
    BY <1>2, <1>3 DEF Owes
  <2>2. \A i \in 1 .. 3 : Owes(plan[c], i) \in 0 .. 1
    BY DEF Owes
  <2> QED
    BY <1>4, <2>1, <2>2 DEF Owed
<1> QED
  BY <1>3, <1>4, <1>5, <1>6

\* A coroutine takes up another list of steps.
LEMMA Replaced ==
  ASSUME NEW c \in Coroutines, PlanOK, NEW p \in Seq(Steps), Len(p) <= 3,
         \A i \in 2 .. Len(p) : p[i] \in Later, plan' = [plan EXCEPT ![c] = p]
  PROVE  PlanOK' /\ Others(c) /\ plan'[c] = p
<1>1. plan \in [Coroutines -> Seq(Steps)]
  BY DEF PlanOK
<1>2. Others(c) /\ plan'[c] = p /\ plan' \in [Coroutines -> Seq(Steps)]
  BY <1>1 DEF Others
<1> QED
  BY <1>2 DEF PlanOK, Others

\* What the coroutines owe together changes by what one of them does.
LEMMA OwedTogether ==
  ASSUME NEW c \in Coroutines, PlanOK, Others(c), NEW k \in Int,
         PlanOK', Owed(plan'[c]) <= Owed(plan[c]) + k
  PROVE  Owed(plan'[Pump]) + Owed(plan'[Background]) + Owed(plan'[Turn])
         <= Owed(plan[Pump]) + Owed(plan[Background]) + Owed(plan[Turn]) + k
<1>1. \A p : Owed(p) \in Int
  BY DEF Owed, Owes
<1>2. Owed(plan'[Pump]) \in Int /\ Owed(plan'[Background]) \in Int /\ Owed(plan'[Turn]) \in Int
  BY <1>1
<1>3. Owed(plan[Pump]) \in Int /\ Owed(plan[Background]) \in Int /\ Owed(plan[Turn]) \in Int
  BY <1>1
<1>4. Pump # Background /\ Pump # Turn /\ Turn # Background
  BY DEF Pump, Background, Turn
<1>5. CASE c = Pump
  BY <1>2, <1>3, <1>4, <1>5 DEF Others, Coroutines
<1>6. CASE c = Background
  BY <1>2, <1>3, <1>4, <1>6 DEF Others, Coroutines
<1>7. CASE c = Turn
  BY <1>2, <1>3, <1>4, <1>7 DEF Others, Coroutines
<1> QED
  BY <1>5, <1>6, <1>7 DEF Coroutines

\* A step of one coroutine that owes no more behind it keeps the bound.
LEMMA BoundKept ==
  ASSUME NEW c \in Coroutines, NEW k \in Int, PlanOK, PlanOK', Others(c), Bounded,
         Owed(plan'[c]) <= Owed(plan[c]) + k,
         round' \in Nat, commands' \in 0 .. MaxCommands, calls' \in 0 .. MaxCalls,
         round' + k + 2 * commands + calls <= round + 2 * commands' + calls'
  PROVE  Bounded'
<1>1. \A p : Owed(p) \in Int
  BY DEF Owed, Owes
<1>2. Owed(plan'[Pump]) \in Int /\ Owed(plan'[Background]) \in Int /\ Owed(plan'[Turn]) \in Int
  BY <1>1
<1>3. Owed(plan[Pump]) \in Int /\ Owed(plan[Background]) \in Int /\ Owed(plan[Turn]) \in Int
  BY <1>1
<1>4. Owed(plan'[Pump]) + Owed(plan'[Background]) + Owed(plan'[Turn])
      <= Owed(plan[Pump]) + Owed(plan[Background]) + Owed(plan[Turn]) + k
  BY OwedTogether
<1>5. /\ round \in Int /\ commands \in Int /\ calls \in Int
      /\ round + Owed(plan[Pump]) + Owed(plan[Background]) + Owed(plan[Turn])
             <= 1 + 2 * commands + calls
  BY DEF Bounded
<1>6. PICK r \in Int, m \in Int, n \in Int : r = round' /\ m = commands' /\ n = calls'
  OBVIOUS
<1> DEFINE o == Owed(plan[Pump]) + Owed(plan[Background]) + Owed(plan[Turn])
           p == Owed(plan'[Pump]) + Owed(plan'[Background]) + Owed(plan'[Turn])
<1>7. o \in Int /\ p \in Int
  BY <1>2, <1>3
<1>8. round + o <= 1 + 2 * commands + calls
  BY <1>2, <1>3, <1>5
<1>9. p <= o + k
  BY <1>4
<1> HIDE DEF o, p
<1>10. r + p <= 1 + 2 * m + n
  <2>1. r + k + 2 * commands + calls <= round + 2 * m + n
    BY <1>6
  <2> QED
    BY <1>5, <1>7, <1>8, <1>9, <2>1
<1>11. round' + Owed(plan'[Pump]) + Owed(plan'[Background]) + Owed(plan'[Turn])
           <= 1 + 2 * commands' + calls'
  BY <1>2, <1>6, <1>10 DEF p
<1> QED
  BY <1>11 DEF Bounded

\* The lock follows the one coroutine that waits.
LEMMA LockFollows ==
  ASSUME NEW c \in Coroutines, LockOwned, Others(c),
         \/ lock' = lock /\ ~Waits(c) /\ ~Waits(c)'
         \/ lock' = Free /\ Waits(c) /\ ~Waits(c)'
         \/ lock = Free /\ lock' = c /\ Waits(c)'
         \/ lock' = lock /\ Waits(c) /\ Waits(c)'
  PROVE  LockOwned'
<1>1. \A d \in Coroutines \ {c} : Waits(d)' <=> Waits(d)
  BY DEF Others, Waits, At
<1>2. Free \notin Coroutines
  BY DEF Free, Coroutines, Pump, Background, Turn
<1> QED
  BY <1>1, <1>2 DEF LockOwned, Waits

\* Lists of steps that a coroutine takes up.
LEMMA TwoSteps ==
  ASSUME NEW a \in Steps, NEW b \in Later
  PROVE  /\ <<a, b>> \in Seq(Steps) /\ Len(<<a, b>>) <= 3 /\ Head(<<a, b>>) = a
         /\ \A i \in 2 .. Len(<<a, b>>) : <<a, b>>[i] \in Later
<1>1. b \in Steps
  BY DEF Steps, Later
<1>2. Len(<<a, b>>) = 2 /\ <<a, b>>[2] = b /\ \A i \in 2 .. 2 : i = 2
  OBVIOUS
<1> QED
  BY <1>1, <1>2

LEMMA ThreeSteps ==
  ASSUME NEW a \in Steps, NEW b \in Later, NEW d \in Later
  PROVE  /\ <<a, b, d>> \in Seq(Steps) /\ Len(<<a, b, d>>) <= 3 /\ Head(<<a, b, d>>) = a
         /\ \A i \in 2 .. Len(<<a, b, d>>) : <<a, b, d>>[i] \in Later
<1>1. b \in Steps /\ d \in Steps
  BY DEF Steps, Later
<1>2. /\ Len(<<a, b, d>>) = 3 /\ <<a, b, d>>[2] = b /\ <<a, b, d>>[3] = d
      /\ \A i \in 2 .. 3 : i = 2 \/ i = 3
  OBVIOUS
<1> QED
  BY <1>1, <1>2

LEMMA OwesBit == \A p, i : Owes(p, i) \in 0 .. 1 /\ Owed(p) \in Nat
  BY DEF Owes, Owed

-----------------------------------------------------------------------------
(* Each kind of move keeps the control invariant.                          *)

LEMMA DoneKeeps ==
  ASSUME NEW c \in Coroutines, Control, plan[c] # <<>>, Done(c),
         UNCHANGED <<round, commands, calls>>,
         \/ lock' = lock /\ ~Waits(c)
         \/ lock' = Free /\ Waits(c)
  PROVE  Control'
<1>1. /\ PlanOK' /\ Others(c) /\ ~Waits(c)'
      /\ Owed(plan'[c]) = Owed(plan[c]) - Owes(plan[c], 1)
  BY DoneStep DEF Control
<1>2. Owed(plan'[c]) <= Owed(plan[c]) + 0
  BY <1>1, OwesBit
<1>3. Bounded'
  <2>1. /\ round' \in Nat /\ commands' \in 0 .. MaxCommands /\ calls' \in 0 .. MaxCalls
        /\ round' + 0 + 2 * commands + calls <= round + 2 * commands' + calls'
    BY DEF Control, Bounded
  <2> QED
    BY <1>1, <1>2, <2>1, BoundKept DEF Control
<1>4. LockOwned'
  BY <1>1, LockFollows DEF Control
<1> QED
  BY <1>1, <1>3, <1>4 DEF Control

LEMMA GoesOnKeeps ==
  ASSUME NEW c \in Coroutines, Control, plan[c] # <<>>, NEW step \in Steps, GoesOn(c, step),
         UNCHANGED <<commands, calls>>,
         \/ round' = round /\ (step \in Connecting => Head(plan[c]) \in Connecting)
         \/ round' = round + 1 /\ step \notin Connecting /\ Head(plan[c]) \in Connecting,
         \/ lock' = lock /\ ~Waits(c) /\ step \notin {"opening", "closing"}
         \/ lock = Free /\ lock' = c /\ step \in {"opening", "closing"}
  PROVE  Control'
<1>1. /\ PlanOK' /\ Others(c) /\ plan'[c] # <<>> /\ Head(plan'[c]) = step
      /\ Owed(plan'[c]) = Owed(plan[c]) - Owes(plan[c], 1)
                          + (IF step \in Connecting THEN 1 ELSE 0)
  BY GoesOnStep DEF Control
<1>2. Head(plan[c]) \in Connecting => Owes(plan[c], 1) = 1
  <2>1. Head(plan[c]) = plan[c][1] /\ 1 \in DOMAIN plan[c]
    BY PlanShape DEF Control
  <2> QED
    BY <2>1 DEF Owes
<1>3. /\ round \in Nat /\ commands \in 0 .. MaxCommands /\ calls \in 0 .. MaxCalls
      /\ commands \in Nat /\ calls \in Nat
  BY DEF Control, Bounded
<1>4. Bounded'
  <2>1. CASE round' = round /\ (step \in Connecting => Head(plan[c]) \in Connecting)
    <3>1. Owed(plan'[c]) <= Owed(plan[c]) + 0
      BY <1>1, <1>2, <2>1, OwesBit
    <3>2. /\ round' \in Nat /\ commands' \in 0 .. MaxCommands /\ calls' \in 0 .. MaxCalls
          /\ round' + 0 + 2 * commands + calls <= round + 2 * commands' + calls'
      BY <1>3, <2>1
    <3> QED
      BY <1>1, <3>1, <3>2, BoundKept DEF Control
  <2>2. CASE round' = round + 1 /\ step \notin Connecting /\ Head(plan[c]) \in Connecting
    <3>1. Owed(plan'[c]) <= Owed(plan[c]) + (-1)
      BY <1>1, <1>2, <2>2, OwesBit
    <3>2. /\ round' \in Nat /\ commands' \in 0 .. MaxCommands /\ calls' \in 0 .. MaxCalls
          /\ round' + (-1) + 2 * commands + calls <= round + 2 * commands' + calls'
      BY <1>3, <2>2
    <3>3. -1 \in Int
      OBVIOUS
    <3> QED
      BY <1>1, <3>1, <3>2, <3>3, BoundKept DEF Control
  <2> QED
    BY <2>1, <2>2
<1>5. Waits(c)' <=> step \in {"opening", "closing"}
  BY <1>1 DEF Waits, At
<1>6. LockOwned'
  BY <1>1, <1>5, LockFollows DEF Control
<1> QED
  BY <1>1, <1>4, <1>6 DEF Control

LEMMA ReplacedKeeps ==
  ASSUME NEW c \in Coroutines, Control, NEW p \in Seq(Steps), Len(p) <= 3,
         \A i \in 2 .. Len(p) : p[i] \in Later, plan' = [plan EXCEPT ![c] = p],
         NEW k \in Nat, Owed(p) <= Owed(plan[c]) + k, round' = round,
         commands' \in 0 .. MaxCommands, calls' \in 0 .. MaxCalls,
         k + 2 * commands + calls <= 2 * commands' + calls',
         p = <<>> \/ Head(p) \notin {"opening", "closing"},
         \/ lock' = lock /\ ~Waits(c)
         \/ lock' = IF lock = c THEN Free ELSE lock
  PROVE  Control'
<1>1. PlanOK' /\ Others(c) /\ plan'[c] = p
  BY Replaced DEF Control
<1>2. /\ round \in Nat /\ round' \in Nat /\ commands \in Nat /\ calls \in Nat
      /\ commands \in 0 .. MaxCommands /\ calls \in 0 .. MaxCalls
  BY DEF Control, Bounded
<1>3. round' + k + 2 * commands + calls <= round + 2 * commands' + calls'
  <2>1. PICK m \in Int, n \in Int : m = commands' /\ n = calls'
    OBVIOUS
  <2>2. k + 2 * commands + calls <= 2 * m + n
    BY <2>1
  <2>3. round + k + 2 * commands + calls <= round + 2 * m + n
    BY <1>2, <2>2
  <2> QED
    BY <2>1, <2>3
<1>4. k \in Int /\ Owed(plan'[c]) <= Owed(plan[c]) + k
  BY <1>1
<1>5. Bounded'
  BY <1>1, <1>2, <1>3, <1>4, BoundKept DEF Control
<1>6. ~Waits(c)'
  BY <1>1 DEF Waits, At
<1>7. lock = c <=> Waits(c)
  BY DEF Control, LockOwned, Waits
<1>8. LockOwned'
  BY <1>1, <1>6, <1>7, LockFollows DEF Control
<1> QED
  BY <1>1, <1>5, <1>8 DEF Control

-----------------------------------------------------------------------------
(* The control invariant holds.                                            *)

LEMMA ControlInit == Init => Control
<1> SUFFICES ASSUME Init PROVE Control
  OBVIOUS
<1>1. /\ plan = [c \in Coroutines |-> IF c = Background THEN <<"tools">> ELSE <<>>]
      /\ round = 0 /\ lock = Free /\ commands = 0 /\ calls = 0
  BY DEF Init
<1>2. /\ Pump \in Coroutines /\ Background \in Coroutines /\ Turn \in Coroutines
      /\ Pump # Background /\ Turn # Background /\ Free \notin Coroutines
  BY DEF Coroutines, Pump, Background, Turn, Free
<1>3. PlanOK
  <2>1. <<"tools">> \in Seq(Steps) /\ <<>> \in Seq(Steps)
    BY DEF Steps
  <2>2. plan \in [Coroutines -> Seq(Steps)]
    BY <1>1, <2>1
  <2>3. ASSUME NEW c \in Coroutines
        PROVE  Len(plan[c]) <= 3 /\ \A i \in 2 .. Len(plan[c]) : plan[c][i] \in Later
    <3>1. CASE plan[c] = <<"tools">>
      BY <3>1
    <3>2. CASE plan[c] = <<>>
      BY <3>2
    <3> QED
      BY <1>1, <3>1, <3>2
  <2> QED
    BY <2>2, <2>3 DEF PlanOK
<1>4. Owed(<<>>) = 0 /\ Owed(<<"tools">>) = 1
  BY DEF Owed, Owes, Connecting
<1>5. Bounded
  BY <1>1, <1>2, <1>4 DEF Bounded
<1>6. LockOwned
  BY <1>1, <1>2 DEF LockOwned, At
<1> QED
  BY <1>1, <1>3, <1>5, <1>6 DEF Control

LEMMA ControlStep ==
  ASSUME Control, [Next]_vars
  PROVE  Control'
<1> USE DEF manager, files, tooling, bounds
<1>0. /\ Free \notin Coroutines /\ Pump \in Coroutines /\ Turn \in Coroutines
      /\ Background \in Coroutines
  BY DEF Coroutines, Pump, Background, Turn, Free
<1>1. ASSUME NEW c \in Coroutines, NEW step, At(c, step)
      PROVE  plan[c] # <<>> /\ Head(plan[c]) = step
  BY <1>1 DEF At
<1>2. \A c \in Coroutines : Waits(c) <=> lock = c
  BY DEF Control, LockOwned, Waits
<1>3. ASSUME NEW c \in Coroutines, ConnectAll(c) PROVE Control'
  <2>1. /\ plan[c] # <<>> /\ Head(plan[c]) = "connect" /\ lock = Free
        /\ UNCHANGED <<commands, calls>>
    BY <1>3, <1>1 DEF ConnectAll
  <2>2. CASE connected
    <3>1. Done(c) /\ UNCHANGED <<round, lock>>
      BY <1>3, <2>2 DEF ConnectAll
    <3> QED
      BY <1>0, <1>2, <2>1, <3>1, DoneKeeps
  <2>3. CASE ~connected
    <3>1. GoesOn(c, "opening") /\ round' = round + 1 /\ lock' = c
      BY <1>3, <2>3 DEF ConnectAll
    <3>2. "opening" \in Steps /\ "opening" \notin Connecting /\ "connect" \in Connecting
      BY DEF Steps, Connecting
    <3> QED
      BY <2>1, <3>1, <3>2, GoesOnKeeps
  <2> QED
    BY <2>2, <2>3
<1>4. ASSUME NEW c \in Coroutines, AllReady(c) PROVE Control'
  <2>1. plan[c] # <<>> /\ Waits(c) /\ Done(c) /\ lock' = Free /\ UNCHANGED <<round, commands, calls>>
    BY <1>4, <1>1 DEF AllReady, Waits
  <2> QED
    BY <2>1, DoneKeeps
<1>5. ASSUME NEW c \in Coroutines, DisconnectAll(c) PROVE Control'
  <2>1. /\ plan[c] # <<>> /\ Head(plan[c]) = "disconnect" /\ lock = Free
        /\ UNCHANGED <<round, commands, calls>>
    BY <1>5, <1>1 DEF DisconnectAll
  <2>2. CASE connected
    <3>1. GoesOn(c, "closing") /\ lock' = c
      BY <1>5, <2>2 DEF DisconnectAll
    <3>2. "closing" \in Steps /\ "closing" \notin Connecting
      BY DEF Steps, Connecting
    <3> QED
      BY <2>1, <3>1, <3>2, GoesOnKeeps
  <2>3. CASE ~connected
    <3>1. Done(c) /\ UNCHANGED lock
      BY <1>5, <2>3 DEF DisconnectAll
    <3> QED
      BY <1>0, <1>2, <2>1, <3>1, DoneKeeps
  <2> QED
    BY <2>2, <2>3
<1>6. ASSUME NEW c \in Coroutines, AllClosed(c) PROVE Control'
  <2>1. plan[c] # <<>> /\ Waits(c) /\ Done(c) /\ lock' = Free /\ UNCHANGED <<round, commands, calls>>
    BY <1>6, <1>1 DEF AllClosed, Waits
  <2> QED
    BY <2>1, DoneKeeps
<1>7. ASSUME NEW c \in Coroutines, NEW step, At(c, step), step \notin {"opening", "closing"}
      PROVE  ~Waits(c)
  BY <1>7 DEF Waits, At
<1>8. ASSUME NEW c \in Coroutines, RefreshTools(c) PROVE Control'
  <2>1. /\ plan[c] # <<>> /\ Head(plan[c]) = "tools" /\ ~Waits(c)
        /\ UNCHANGED <<round, lock, commands, calls>>
    BY <1>8, <1>1, <1>7 DEF RefreshTools
  <2>2. CASE Done(c)
    BY <2>1, <2>2, DoneKeeps
  <2>3. ASSUME NEW p \in {<<"discover">>, <<"connect", "discover">>},
               plan' = [plan EXCEPT ![c] = p]
        PROVE  Control'
    <3>1. /\ p \in Seq(Steps) /\ Len(p) <= 3 /\ Head(p) \notin {"opening", "closing"}
          /\ \A i \in 2 .. Len(p) : p[i] \in Later
      <4>1. CASE p = <<"discover">>
        BY <4>1 DEF Steps, Later
      <4>2. CASE p = <<"connect", "discover">>
        <5>1. "connect" \in Steps /\ "discover" \in Later
          BY DEF Steps, Later
        <5> QED
          BY <4>2, <5>1, TwoSteps
      <4> QED
        BY <2>3, <4>1, <4>2
    <3>2. Owed(p) <= 1
      BY <2>3 DEF Owed, Owes, Connecting
    <3>3. Owed(plan[c]) >= 1
      <4>1. plan[c][1] = "tools" /\ 1 \in DOMAIN plan[c]
        BY <2>1, PlanShape DEF Control
      <4>2. Owes(plan[c], 1) = 1
        BY <4>1 DEF Owes, Connecting
      <4> QED
        BY <4>2, OwesBit DEF Owed
    <3>4. Owed(p) <= Owed(plan[c]) + 0
      BY <3>2, <3>3, OwesBit
    <3>5. /\ commands' \in 0 .. MaxCommands /\ calls' \in 0 .. MaxCalls
          /\ 0 + 2 * commands + calls <= 2 * commands' + calls'
      BY <2>1 DEF Control, Bounded
    <3> HIDE DEF manager, files, tooling, bounds
    <3> QED
      BY <2>1, <2>3, <3>1, <3>4, <3>5, ReplacedKeeps
  <2> QED
    BY <1>8, <2>2, <2>3 DEF RefreshTools
<1>9. ASSUME NEW c \in Coroutines, Discover(c) PROVE Control'
  <2>1. /\ plan[c] # <<>> /\ ~Waits(c) /\ GoesOn(c, "list")
        /\ UNCHANGED <<round, lock, commands, calls>>
    BY <1>9, <1>1, <1>7 DEF Discover
  <2>2. "list" \in Steps /\ "list" \notin Connecting
    BY DEF Steps, Connecting
  <2> QED
    BY <2>1, <2>2, GoesOnKeeps
<1>10. ASSUME NEW c \in Coroutines, ListTools(c) PROVE Control'
  <2>1. /\ plan[c] # <<>> /\ ~Waits(c) /\ Done(c) /\ UNCHANGED <<round, lock, commands, calls>>
    BY <1>10, <1>1, <1>7 DEF ListTools
  <2> QED
    BY <2>1, DoneKeeps
<1>11. ASSUME NEW c \in Coroutines, NEW p \in Seq(Steps), NEW k \in Nat,
              plan' = [plan EXCEPT ![c] = p], Len(p) <= 3, Owed(p) <= k,
              \A i \in 2 .. Len(p) : p[i] \in Later,
              p = <<>> \/ Head(p) \notin {"opening", "closing"}, UNCHANGED round,
              commands' \in 0 .. MaxCommands, calls' \in 0 .. MaxCalls,
              k + 2 * commands + calls <= 2 * commands' + calls',
              \/ lock' = lock /\ ~Waits(c)
              \/ lock' = IF lock = c THEN Free ELSE lock
       PROVE  Control'
  <2>1. Owed(p) \in Nat /\ Owed(plan[c]) \in Nat /\ Owed(p) <= k
    BY <1>11, OwesBit
  <2>2. Owed(p) <= Owed(plan[c]) + k
    BY <2>1
  <2> HIDE DEF manager, files, tooling, bounds
  <2> QED
    BY <1>11, <2>2, ReplacedKeeps
<1>12. ASSUME NEW c \in Coroutines, Unwinds(c) PROVE Control'
  <2>1. /\ plan' = [plan EXCEPT ![c] = <<>>] /\ UNCHANGED <<round, commands, calls>>
        /\ lock' = IF lock = c THEN Free ELSE lock
    BY <1>12 DEF Unwinds, LockAfterCancel
  <2>2. /\ <<>> \in Seq(Steps) /\ Len(<<>>) <= 3 /\ Owed(<<>>) <= 0
        /\ \A i \in 2 .. Len(<<>>) : <<>>[i] \in Later
    BY DEF Owed, Owes
  <2>3. /\ commands' \in 0 .. MaxCommands /\ calls' \in 0 .. MaxCalls
        /\ 0 + 2 * commands + calls <= 2 * commands' + calls'
    BY <2>1 DEF Control, Bounded
  <2> HIDE DEF manager, files, tooling, bounds
  <2> QED
    BY <1>11, <2>1, <2>2, <2>3
<1>13. ASSUME NEW p \in {<<"connect", "tools">>, <<"disconnect", "tools">>, Reconnected}, Command(p)
       PROVE  Control'
  <2>1. /\ plan' = [plan EXCEPT ![Pump] = p] /\ plan[Pump] = <<>>
        /\ UNCHANGED <<round, lock, calls>> /\ commands' = commands + 1 /\ commands < MaxCommands
    BY <1>13 DEF Command
  <2>2. /\ p \in Seq(Steps) /\ Len(p) <= 3 /\ Head(p) \notin {"opening", "closing"}
        /\ \A i \in 2 .. Len(p) : p[i] \in Later
    <3>1. /\ "connect" \in Steps /\ "disconnect" \in Steps
          /\ "connect" \in Later /\ "tools" \in Later
      BY DEF Steps, Later
    <3>2. CASE p = <<"connect", "tools">>
      BY <3>1, <3>2, TwoSteps
    <3>3. CASE p = <<"disconnect", "tools">>
      BY <3>1, <3>3, TwoSteps
    <3>4. CASE p = <<"disconnect", "connect", "tools">>
      BY <3>1, <3>4, ThreeSteps
    <3> QED
      BY <1>13, <3>2, <3>3, <3>4 DEF Reconnected
  <2>3. Owed(p) <= 2
    BY <1>13 DEF Owed, Owes, Connecting, Reconnected
  <2>4. ~Waits(Pump)
    BY <2>1 DEF Waits, At
  <2>5. /\ commands' \in 0 .. MaxCommands /\ calls' \in 0 .. MaxCalls
        /\ 2 + 2 * commands + calls <= 2 * commands' + calls'
    <3>1. /\ commands \in 0 .. MaxCommands /\ calls \in 0 .. MaxCalls
          /\ commands \in Nat /\ calls \in Nat
      BY DEF Control, Bounded
    <3>2. 2 + 2 * commands + calls <= 2 * (commands + 1) + calls
      BY <3>1
    <3>3. commands + 1 \in 0 .. MaxCommands
      BY <2>1, <3>1
    <3> QED
      BY <2>1, <3>1, <3>2, <3>3
  <2> HIDE DEF manager, files, tooling, bounds
  <2> QED
    BY <1>0, <1>11, <2>1, <2>2, <2>3, <2>4, <2>5
<1>14. CASE Commands
  BY <1>13, <1>14
     DEF Commands, ConnectCommand, DisconnectCommand, ReconnectCommand, ResetChoicesCommand,
         SetEnabledCommand, SetAllEnabledCommand, AddCommand, RemoveCommand
<1>15. CASE CallTool
  <2>1. /\ plan' = [plan EXCEPT ![Turn] = <<"call">>] /\ plan[Turn] = <<>>
        /\ UNCHANGED <<round, lock, commands>> /\ calls' = calls + 1 /\ calls < MaxCalls
    BY <1>15 DEF CallTool
  <2>2. /\ <<"call">> \in Seq(Steps) /\ Len(<<"call">>) <= 3
        /\ Head(<<"call">>) \notin {"opening", "closing"}
        /\ \A i \in 2 .. Len(<<"call">>) : <<"call">>[i] \in Later
    BY DEF Steps
  <2>3. Owed(<<"call">>) <= 1
    BY DEF Owed, Owes, Connecting
  <2>4. ~Waits(Turn)
    BY <2>1 DEF Waits, At
  <2>5. /\ commands' \in 0 .. MaxCommands /\ calls' \in 0 .. MaxCalls
        /\ 1 + 2 * commands + calls <= 2 * commands' + calls'
    <3>1. /\ commands \in 0 .. MaxCommands /\ calls \in 0 .. MaxCalls
          /\ commands \in Nat /\ calls \in Nat
      BY DEF Control, Bounded
    <3>2. 1 + 2 * commands + calls <= 2 * commands + (calls + 1)
      BY <3>1
    <3>3. calls + 1 \in 0 .. MaxCalls
      BY <2>1, <3>1
    <3> QED
      BY <2>1, <3>1, <3>2, <3>3
  <2> HIDE DEF manager, files, tooling, bounds
  <2> QED
    BY <1>0, <1>11, <2>1, <2>2, <2>3, <2>4, <2>5
<1>16. ASSUME NEW step \in {"call", "call again"}, LookUp(step) PROVE Control'
  <2>1. /\ plan[Turn] # <<>> /\ Head(plan[Turn]) = step /\ ~Waits(Turn)
        /\ UNCHANGED <<round, lock, commands, calls>>
    BY <1>0, <1>1, <1>7, <1>16 DEF LookUp
  <2>2. CASE Done(Turn)
    BY <1>0, <2>1, <2>2, DoneKeeps
  <2>3. CASE GoesOn(Turn, IF step = "call" THEN "answer" ELSE "last answer")
    <3> DEFINE next == IF step = "call" THEN "answer" ELSE "last answer"
    <3>1. /\ next \in Steps /\ next \notin {"opening", "closing"}
          /\ next \in Connecting => step \in Connecting
      BY <1>16 DEF Steps, Connecting
    <3> QED
      BY <1>0, <2>1, <2>3, <3>1, GoesOnKeeps
  <2> QED
    BY <1>16, <2>2, <2>3 DEF LookUp
<1>17. ASSUME NEW step, step = "answer" \/ step = "last answer", Answer(step)
       PROVE  Control'
  <2>1. /\ plan[Turn] # <<>> /\ Head(plan[Turn]) = step /\ ~Waits(Turn)
        /\ UNCHANGED <<round, lock, commands, calls>>
    BY <1>0, <1>1, <1>7, <1>17 DEF Answer
  <2>2. CASE Done(Turn)
    BY <1>0, <2>1, <2>2, DoneKeeps
  <2>3. ASSUME NEW again, again = <<"disconnect", "connect", "call again">>, step = "answer",
               plan' = [plan EXCEPT ![Turn] = again]
        PROVE  Control'
    <3>1. /\ again \in Seq(Steps) /\ Len(again) <= 3 /\ Head(again) \notin {"opening", "closing"}
          /\ \A i \in 2 .. Len(again) : again[i] \in Later
      <4>1. "disconnect" \in Steps /\ "connect" \in Later /\ "call again" \in Later
        BY DEF Steps, Later
      <4> QED
        BY <2>3, <4>1, ThreeSteps
    <3>2. Owed(again) <= 1
      <4>1. Owed(<<"disconnect", "connect", "call again">>) <= 1
        BY DEF Owed, Owes, Connecting
      <4> QED
        BY <2>3, <4>1
    <3>3. Owed(plan[Turn]) >= 1
      <4>1. Head(plan[Turn]) = plan[Turn][1] /\ 1 \in DOMAIN plan[Turn]
        BY <1>0, <2>1, PlanShape DEF Control
      <4>2. plan[Turn][1] = "answer"
        BY <2>1, <2>3, <4>1
      <4>3. Owes(plan[Turn], 1) = 1
        BY <4>1, <4>2 DEF Owes, Connecting
      <4> QED
        BY <4>3, OwesBit DEF Owed
    <3>4. Owed(again) <= Owed(plan[Turn]) + 0
      BY <3>2, <3>3, OwesBit
    <3>5. /\ commands' \in 0 .. MaxCommands /\ calls' \in 0 .. MaxCalls
          /\ 0 + 2 * commands + calls <= 2 * commands' + calls'
      BY <2>1 DEF Control, Bounded
    <3> HIDE DEF manager, files, tooling, bounds
    <3> QED
      BY <1>0, <2>1, <3>1, <3>4, <3>5, <2>3, ReplacedKeeps
  <2> QED
    BY <1>17, <2>2, <2>3 DEF Answer
<1>18. ASSUME NEW t \in Tasks, Opens(t) \/ Closes(t) \/ Ends(t) PROVE Control'
  <2>1. UNCHANGED <<plan, lock, round, bounds>>
    BY <1>18 DEF Opens, Closes, Ends
  <2> QED
    BY <2>1 DEF Control, PlanOK, Bounded, LockOwned, At
<1>19. CASE UNCHANGED vars
  BY <1>19 DEF vars, Control, PlanOK, Bounded, LockOwned, At
<1> HIDE DEF manager, files, tooling, bounds
<1> QED
  BY <1>3, <1>4, <1>5, <1>6, <1>8, <1>9, <1>10, <1>12, <1>14, <1>15, <1>16, <1>17, <1>18, <1>19
     DEF Next, Progress, TimesOut, RefreshCancelled, Calls

-----------------------------------------------------------------------------
(* The tools that are offered and discovered are of servers.               *)

Tooling ==
    /\ pool \subseteq Servers /\ timed \subseteq Coroutines
    /\ asked \in [Coroutines -> SUBSET Servers]
    /\ cache = None \/ \E S \in SUBSET Servers : cache = Some(S)

LEMMA ToolingStep ==
  ASSUME Tooling, [Next]_vars
  PROVE  Tooling'
<1> USE DEF manager, files, tooling, bounds
<1>1. ASSUME NEW c \in Coroutines, RefreshTools(c) PROVE Tooling'
  <2>1. UNCHANGED <<cache, asked>> /\ timed' \subseteq Coroutines
    BY <1>1 DEF RefreshTools, Tooling
  <2>2. pool' \subseteq Servers
    <3>1. CASE cache = None
      BY <1>1, <3>1 DEF RefreshTools, Tooling
    <3>2. CASE cache # None
      <4>1. PICK S \in SUBSET Servers : cache = <<S>>
        BY <3>2 DEF Tooling, Some
      <4> QED
        BY <1>1, <3>2, <4>1 DEF RefreshTools
    <3> QED
      BY <3>1, <3>2
  <2> QED
    BY <2>1, <2>2 DEF Tooling
<1>2. ASSUME NEW c \in Coroutines, Discover(c) PROVE Tooling'
  <2>1. SessionsOpen \subseteq Servers
    BY DEF SessionsOpen
  <2> QED
    BY <1>2, <2>1 DEF Discover, Tooling
<1>3. ASSUME NEW c \in Coroutines, ListTools(c) PROVE Tooling'
  <2>1. PICK answered \in SUBSET asked[c] : cache' = Some(answered) /\ pool' = answered
    BY <1>3 DEF ListTools
  <2>2. answered \in SUBSET Servers
    BY <2>1 DEF Tooling
  <2> QED
    BY <1>3, <2>1, <2>2 DEF ListTools, Tooling
<1>4. ASSUME NEW c \in Coroutines, TimesOut(c) \/ RefreshCancelled(c) PROVE Tooling'
  BY <1>4 DEF TimesOut, RefreshCancelled, Unwinds, Tooling
<1>5. CASE UNCHANGED <<pool, timed, asked>> /\ (cache' = cache \/ cache' = None)
  BY <1>5 DEF Tooling
<1>6. ASSUME NEW c \in Coroutines, ConnectAll(c) \/ AllReady(c) \/ DisconnectAll(c) \/ AllClosed(c)
      PROVE  Tooling'
  BY <1>5, <1>6 DEF ConnectAll, AllReady, DisconnectAll, AllClosed, Forgets
<1>7. ASSUME NEW t \in Tasks, Opens(t) \/ Closes(t) \/ Ends(t) PROVE Tooling'
  BY <1>5, <1>7 DEF Opens, Closes, Ends
<1>8. CASE Commands \/ CallTool \/ Calls \/ UNCHANGED vars
  BY <1>5, <1>8
     DEF Commands, ConnectCommand, DisconnectCommand, ReconnectCommand, ResetChoicesCommand,
         SetEnabledCommand, SetAllEnabledCommand, AddCommand, RemoveCommand, Command,
         CallTool, Calls, LookUp, Answer, vars
<1> HIDE DEF manager, files, tooling, bounds
<1> QED
  BY <1>1, <1>2, <1>3, <1>4, <1>6, <1>7, <1>8 DEF Next, Progress

-----------------------------------------------------------------------------
(* The tasks.  A round is only begun when no session is counted on; its    *)
(* tasks are new, so that nothing that holds of older ones is disturbed.   *)

SessionTypes ==
    /\ connected \in BOOLEAN
    /\ table \in [Servers -> {Absent, Failed, NeedsAuth} \cup {Connected(r) : r \in Rounds}]
    /\ current \in [Servers -> Rounds \cup {0}] /\ round \in Rounds \cup {0}
    /\ tasks \in [Tasks -> {"none", "opening", "up", "parked", "closing", "gone"}]
    /\ cancelled \subseteq Tasks

Fresh == \A t \in Tasks : t[2] > round => tasks[t] = "none"
NoneAhead ==
    /\ \A n \in Servers : current[n] <= round
    /\ \A t \in cancelled : t[2] <= round
SettledIfConnected == connected => AllSettled

OpenOrClosing ==
    \A n \in Servers :
        table[n].status = "connected" => tasks[<<n, table[n].round>>] \in {"up", "closing"}

Sessions ==
    SessionTypes /\ Fresh /\ NoneAhead /\ SettledIfConnected /\ ReadyWhenCancelled /\ OpenOrClosing

LEMMA RoundsAreNumbers == Rounds \subseteq Nat
  BY DEF Rounds

LEMMA CurrentTasksAreTasks ==
  ASSUME SessionTypes, NoneAhead
  PROVE  CurrentTasks \subseteq Tasks /\ \A t \in CurrentTasks : t[2] <= round
  BY DEF SessionTypes, NoneAhead, CurrentTasks, Tasks

\* What a coroutine still owes leaves a round for it.
LEMMA RoundLeft ==
  ASSUME NEW c \in Coroutines, Control, At(c, "connect")
  PROVE  round \in Nat /\ round + 1 \in Rounds
<1>1. plan[c] # <<>> /\ Head(plan[c]) = "connect"
  BY DEF At
<1>2. Head(plan[c]) = plan[c][1] /\ 1 \in DOMAIN plan[c]
  BY <1>1, PlanShape DEF Control
<1>3. Owes(plan[c], 1) = 1
  BY <1>1, <1>2 DEF Owes, Connecting
<1>4. Owed(plan[c]) >= 1
  BY <1>3, OwesBit DEF Owed
<1>5. \A d \in Coroutines : Owed(plan[d]) \in Nat
  BY OwesBit
<1>6. 1 <= Owed(plan[Pump]) + Owed(plan[Background]) + Owed(plan[Turn])
  BY <1>4, <1>5 DEF Coroutines
<1>7. /\ round \in Nat /\ commands \in 0 .. MaxCommands /\ calls \in 0 .. MaxCalls
      /\ round + Owed(plan[Pump]) + Owed(plan[Background]) + Owed(plan[Turn])
             <= 1 + 2 * commands + calls
      /\ Owed(plan[Pump]) \in Nat /\ Owed(plan[Background]) \in Nat /\ Owed(plan[Turn]) \in Nat
  BY <1>5 DEF Control, Bounded, Coroutines
<1>8. MaxCommands \in Nat /\ MaxCalls \in Nat
  BY DEF McpConnectionsAssumption
<1>9. commands \in Nat /\ calls \in Nat /\ commands <= MaxCommands /\ calls <= MaxCalls
  BY <1>7, <1>8
<1>10. round + 1 <= 1 + 2 * MaxCommands + MaxCalls
  BY <1>6, <1>7, <1>8, <1>9
<1> QED
  BY <1>7, <1>8, <1>10 DEF Rounds

LEMMA SessionsInit == Init => Sessions
<1> SUFFICES ASSUME Init PROVE Sessions
  OBVIOUS
<1>1. SessionTypes
  BY DEF Init, SessionTypes
<1>2. Fresh /\ NoneAhead /\ ReadyWhenCancelled
  BY DEF Init, Fresh, NoneAhead, ReadyWhenCancelled
<1>3. SettledIfConnected /\ OpenOrClosing
  BY DEF Init, SettledIfConnected, OpenOrClosing, Absent
<1> QED
  BY <1>1, <1>2, <1>3 DEF Sessions

\* connect_all starts its tasks.
LEMMA StartKeeps ==
  ASSUME NEW c \in Coroutines, Control, Sessions, ConnectAll(c), ~connected
  PROVE  Sessions'
<1>1. round \in Nat /\ round + 1 \in Rounds
  BY RoundLeft DEF ConnectAll
<1>2. PICK started :
         /\ round' = round + 1
         /\ current' = [n \in Servers |-> IF n \in started THEN round' ELSE current[n]]
         /\ tasks' = [t \in Tasks |-> IF t[1] \in started /\ t[2] = round'
                                      THEN "opening" ELSE tasks[t]]
         /\ UNCHANGED <<connected, table, cancelled>>
  BY DEF ConnectAll
<1>3. SessionTypes'
  BY <1>1, <1>2 DEF Sessions, SessionTypes
<1>4. \A t \in Tasks : t[2] \in Nat
  BY RoundsAreNumbers DEF Tasks
<1>5. \A t \in Tasks : t[2] <= round => tasks'[t] = tasks[t]
  BY <1>1, <1>2, <1>4
<1>6. Fresh'
  BY <1>1, <1>2, <1>4 DEF Fresh, Sessions
<1>7. NoneAhead'
  <2>1. \A n \in Servers : current[n] \in Nat /\ current[n] <= round
    <3>1. \A n \in Servers : current[n] \in Rounds \cup {0}
      BY DEF Sessions, SessionTypes
    <3>2. \A n \in Servers : current[n] <= round
      BY DEF Sessions, NoneAhead
    <3>3. ASSUME NEW n \in Servers PROVE current[n] \in Nat
      <4>1. CASE current[n] \in Rounds
        BY <4>1, RoundsAreNumbers
      <4>2. CASE current[n] = 0
        BY <4>2
      <4> QED
        BY <3>1, <4>1, <4>2
    <3> QED
      BY <3>2, <3>3
  <2>2. \A t \in cancelled : t[2] \in Nat /\ t[2] <= round
    BY <1>4 DEF Sessions, SessionTypes, NoneAhead
  <2>3. \A n \in Servers : current'[n] <= round + 1
    BY <1>1, <1>2, <2>1
  <2> QED
    BY <1>1, <1>2, <2>2, <2>3 DEF NoneAhead
<1>8. SettledIfConnected'
  BY <1>2 DEF SettledIfConnected
<1>9. ReadyWhenCancelled'
  BY <1>2, <1>5 DEF ReadyWhenCancelled, Sessions, SessionTypes, NoneAhead
<1>10. OpenOrClosing'
  <2> SUFFICES ASSUME NEW n \in Servers, table[n].status = "connected"
               PROVE  tasks'[<<n, table[n].round>>] \in {"up", "closing"}
    BY <1>2 DEF OpenOrClosing
  <2>1. PICK r \in Rounds : table[n] = Connected(r)
    BY DEF Sessions, SessionTypes, Absent, Failed, NeedsAuth
  <2>2. <<n, r>> \in Tasks /\ table[n].round = r /\ tasks[<<n, r>>] \in {"up", "closing"}
    BY <2>1 DEF Tasks, Connected, Sessions, OpenOrClosing
  <2>3. r <= round
    BY <1>1, <1>4, <2>2 DEF Sessions, Fresh
  <2> QED
    BY <1>5, <2>2, <2>3
<1> QED
  BY <1>3, <1>6, <1>7, <1>8, <1>9, <1>10 DEF Sessions

\* A task opens its session or is told that there is none.
LEMMA OpensKeeps ==
  ASSUME NEW t \in Tasks, Sessions, Opens(t)
  PROVE  Sessions'
<1>1. PICK n \in Servers, r \in Rounds : t = <<n, r>> /\ t[1] = n /\ t[2] = r
  BY DEF Tasks
<1>2. /\ tasks[t] = "opening"
      /\ \/ tasks' = [tasks EXCEPT ![t] = "up"] /\ table' = [table EXCEPT ![n] = Connected(r)]
         \/ tasks' = [tasks EXCEPT ![t] = "parked"] /\ table' = [table EXCEPT ![n] = Failed]
      /\ UNCHANGED <<connected, current, round, cancelled>>
  BY <1>1 DEF Opens
<1>3. SessionTypes
  BY DEF Sessions
<1>4. SessionTypes'
  BY <1>2, <1>3 DEF SessionTypes
<1>5. /\ \A u \in Tasks : tasks'[u] = "opening" => tasks[u] = "opening"
      /\ \A u \in Tasks : u # t => tasks'[u] = tasks[u]
      /\ tasks'[t] # "opening"
  BY <1>2, <1>3 DEF SessionTypes
<1>6. Fresh' /\ NoneAhead'
  BY <1>2, <1>5 DEF Sessions, Fresh, NoneAhead
<1>7. SettledIfConnected'
  <2>1. CurrentTasks' = CurrentTasks
    BY <1>2 DEF CurrentTasks
  <2>2. CurrentTasks \subseteq Tasks
    BY CurrentTasksAreTasks DEF Sessions
  <2> QED
    BY <1>2, <1>5, <2>1, <2>2 DEF Sessions, SettledIfConnected, AllSettled
<1>8. ReadyWhenCancelled'
  BY <1>2, <1>3, <1>5 DEF Sessions, ReadyWhenCancelled, SessionTypes
<1>9. OpenOrClosing'
  <2> SUFFICES ASSUME NEW m \in Servers, table'[m].status = "connected"
               PROVE  tasks'[<<m, table'[m].round>>] \in {"up", "closing"}
    BY DEF OpenOrClosing
  <2>1. CASE m = n
    <3>1. table'[n] = Connected(r) /\ tasks'[t] = "up"
      BY <1>1, <1>2, <1>3, <2>1 DEF SessionTypes, Failed
    <3> QED
      BY <1>1, <2>1, <3>1 DEF Connected
  <2>2. CASE m # n
    <3>1. table'[m] = table[m]
      BY <1>2, <1>3, <2>2 DEF SessionTypes
    <3>2. PICK q \in Rounds : table[m] = Connected(q)
      BY <1>3, <3>1 DEF SessionTypes, Absent, Failed, NeedsAuth
    <3>3. <<m, q>> \in Tasks /\ <<m, q>> # t /\ table[m].round = q
      BY <1>1, <2>2, <3>2 DEF Tasks, Connected
    <3> QED
      BY <1>5, <3>1, <3>3 DEF Sessions, OpenOrClosing
  <2> QED
    BY <2>1, <2>2
<1> QED
  BY <1>4, <1>6, <1>7, <1>8, <1>9 DEF Sessions

\* A cancelled task ends and takes the server's entry with it.
LEMMA EndsKeeps ==
  ASSUME NEW t \in Tasks, Sessions, Ends(t)
  PROVE  Sessions'
<1>1. PICK n \in Servers, r \in Rounds : t = <<n, r>> /\ t[1] = n
  BY DEF Tasks
<1>2. /\ tasks[t] = "closing" /\ tasks' = [tasks EXCEPT ![t] = "gone"]
      /\ table' = [table EXCEPT ![n] = Absent]
      /\ UNCHANGED <<connected, current, round, cancelled>>
  BY <1>1 DEF Ends, EntryAfterEnd
<1>3. SessionTypes
  BY DEF Sessions
<1>4. SessionTypes'
  BY <1>2, <1>3 DEF SessionTypes
<1>5. /\ \A u \in Tasks : tasks'[u] = "opening" => tasks[u] = "opening"
      /\ \A u \in Tasks : u # t => tasks'[u] = tasks[u]
  BY <1>2, <1>3 DEF SessionTypes
<1>6. Fresh' /\ NoneAhead'
  BY <1>2, <1>5 DEF Sessions, Fresh, NoneAhead
<1>7. SettledIfConnected'
  <2>1. CurrentTasks' = CurrentTasks
    BY <1>2 DEF CurrentTasks
  <2>2. CurrentTasks \subseteq Tasks
    BY CurrentTasksAreTasks DEF Sessions
  <2> QED
    BY <1>2, <1>5, <2>1, <2>2 DEF Sessions, SettledIfConnected, AllSettled
<1>8. ReadyWhenCancelled'
  BY <1>2, <1>3, <1>5 DEF Sessions, ReadyWhenCancelled, SessionTypes
<1>9. OpenOrClosing'
  <2> SUFFICES ASSUME NEW m \in Servers, table'[m].status = "connected"
               PROVE  tasks'[<<m, table'[m].round>>] \in {"up", "closing"}
    BY DEF OpenOrClosing
  <2>1. m # n
    BY <1>2, <1>3 DEF SessionTypes, Absent
  <2>2. table'[m] = table[m]
    BY <1>2, <1>3, <2>1 DEF SessionTypes
  <2>3. PICK q \in Rounds : table[m] = Connected(q)
    BY <1>3, <2>2 DEF SessionTypes, Absent, Failed, NeedsAuth
  <2>4. <<m, q>> \in Tasks /\ <<m, q>> # t /\ table[m].round = q
    BY <1>1, <2>1, <2>3 DEF Tasks, Connected
  <2> QED
    BY <1>5, <2>2, <2>4 DEF Sessions, OpenOrClosing
<1> QED
  BY <1>4, <1>6, <1>7, <1>8, <1>9 DEF Sessions

\* A cancelled task begins to close its session.
LEMMA ClosesKeeps ==
  ASSUME NEW t \in Tasks, Sessions, Closes(t)
  PROVE  Sessions'
<1>1. /\ tasks[t] \in {"up", "parked"} /\ tasks' = [tasks EXCEPT ![t] = "closing"]
      /\ UNCHANGED <<connected, current, round, cancelled, table>>
  BY DEF Closes
<1>2. SessionTypes
  BY DEF Sessions
<1>3. SessionTypes'
  BY <1>1, <1>2 DEF SessionTypes
<1>4. /\ \A u \in Tasks : tasks'[u] = "opening" => tasks[u] = "opening"
      /\ \A u \in Tasks : u # t => tasks'[u] = tasks[u]
      /\ tasks'[t] = "closing"
  BY <1>1, <1>2 DEF SessionTypes
<1>5. Fresh' /\ NoneAhead'
  BY <1>1, <1>4 DEF Sessions, Fresh, NoneAhead
<1>6. SettledIfConnected'
  <2>1. CurrentTasks' = CurrentTasks
    BY <1>1 DEF CurrentTasks
  <2>2. CurrentTasks \subseteq Tasks
    BY CurrentTasksAreTasks DEF Sessions
  <2> QED
    BY <1>1, <1>4, <2>1, <2>2 DEF Sessions, SettledIfConnected, AllSettled
<1>7. ReadyWhenCancelled'
  BY <1>1, <1>2, <1>4 DEF Sessions, ReadyWhenCancelled, SessionTypes
<1>8. OpenOrClosing'
  <2> SUFFICES ASSUME NEW m \in Servers, table[m].status = "connected"
               PROVE  tasks'[<<m, table[m].round>>] \in {"up", "closing"}
    BY <1>1 DEF OpenOrClosing
  <2>1. PICK q \in Rounds : table[m] = Connected(q)
    BY <1>2 DEF SessionTypes, Absent, Failed, NeedsAuth
  <2>2. <<m, q>> \in Tasks /\ table[m].round = q
    BY <2>1 DEF Tasks, Connected
  <2> QED
    BY <1>4, <2>2 DEF Sessions, OpenOrClosing
<1> QED
  BY <1>3, <1>5, <1>6, <1>7, <1>8 DEF Sessions

\* A session is lost: its entry says so, and no task has changed.
LEMMA EntryLost ==
  ASSUME Sessions, UNCHANGED <<connected, current, round, tasks, cancelled>>, NEW n,
         table' = table \/ table' = [table EXCEPT ![n] = NeedsAuth]
  PROVE  Sessions'
<1>1. SessionTypes'
  BY DEF Sessions, SessionTypes
<1>2. Fresh' /\ NoneAhead' /\ ReadyWhenCancelled'
  BY DEF Sessions, Fresh, NoneAhead, ReadyWhenCancelled
<1>3. SettledIfConnected'
  BY DEF Sessions, SettledIfConnected, AllSettled, CurrentTasks
<1>4. OpenOrClosing'
  BY DEF Sessions, SessionTypes, OpenOrClosing, NeedsAuth
<1> QED
  BY <1>1, <1>2, <1>3, <1>4 DEF Sessions

LEMMA SessionsStep ==
  ASSUME Control, Sessions, [Next]_vars
  PROVE  Sessions'
<1> USE DEF manager, files, tooling, bounds
<1>1. ASSUME NEW c \in Coroutines, ConnectAll(c) PROVE Sessions'
  <2>1. CASE connected
    BY <1>1, <2>1, EntryLost DEF ConnectAll
  <2>2. CASE ~connected
    BY <1>1, <2>2, StartKeeps
  <2> QED
    BY <2>1, <2>2
<1>2. ASSUME NEW c \in Coroutines, AllReady(c) PROVE Sessions'
  <2>1. AllSettled /\ connected' = TRUE /\ UNCHANGED <<table, current, round, tasks, cancelled>>
    BY <1>2 DEF AllReady
  <2>2. SettledIfConnected'
    BY <2>1 DEF SettledIfConnected, AllSettled, CurrentTasks
  <2> QED
    BY <2>1, <2>2 DEF Sessions, SessionTypes, Fresh, NoneAhead, ReadyWhenCancelled, OpenOrClosing
<1>3. ASSUME NEW c \in Coroutines, DisconnectAll(c) PROVE Sessions'
  <2>1. UNCHANGED <<connected, table, current, round, tasks>>
    BY <1>3 DEF DisconnectAll
  <2>2. \/ cancelled' = cancelled
        \/ connected /\ cancelled' = cancelled \cup CurrentTasks
    BY <1>3 DEF DisconnectAll
  <2>3. CurrentTasks \subseteq Tasks /\ \A t \in CurrentTasks : t[2] <= round
    BY CurrentTasksAreTasks DEF Sessions
  <2>4. connected => \A t \in CurrentTasks : tasks[t] # "opening"
    BY DEF Sessions, SettledIfConnected, AllSettled
  <2>5. SessionTypes'
    BY <2>1, <2>2, <2>3 DEF Sessions, SessionTypes
  <2>6. NoneAhead' /\ ReadyWhenCancelled'
    BY <2>1, <2>2, <2>3, <2>4 DEF Sessions, NoneAhead, ReadyWhenCancelled
  <2>7. Fresh' /\ SettledIfConnected' /\ OpenOrClosing'
    BY <2>1 DEF Sessions, Fresh, SettledIfConnected, AllSettled, CurrentTasks, OpenOrClosing
  <2> QED
    BY <2>5, <2>6, <2>7 DEF Sessions
<1>4. ASSUME NEW c \in Coroutines, AllClosed(c) PROVE Sessions'
  <2>1. /\ table' = [n \in Servers |-> Absent] /\ current' = [n \in Servers |-> 0]
        /\ connected' = FALSE /\ UNCHANGED <<round, tasks, cancelled>>
    BY <1>4 DEF AllClosed
  <2>2. SessionTypes'
    BY <2>1 DEF Sessions, SessionTypes
  <2>3. NoneAhead'
    <3>1. round \in Nat
      BY RoundsAreNumbers DEF Sessions, SessionTypes
    <3> QED
      BY <2>1, <3>1 DEF Sessions, NoneAhead
  <2>4. Fresh' /\ SettledIfConnected' /\ ReadyWhenCancelled' /\ OpenOrClosing'
    BY <2>1 DEF Sessions, Fresh, SettledIfConnected, ReadyWhenCancelled, OpenOrClosing, Absent
  <2> QED
    BY <2>2, <2>3, <2>4 DEF Sessions
<1>5. CASE UNCHANGED manager
  BY <1>5, EntryLost
<1>6. CASE UNCHANGED <<connected, current, round, tasks, cancelled, table>>
  BY <1>6, EntryLost
<1>7. ASSUME NEW c \in Coroutines,
             \/ RefreshTools(c) \/ Discover(c) \/ ListTools(c)
             \/ TimesOut(c) \/ RefreshCancelled(c)
      PROVE  Sessions'
  BY <1>6, <1>7 DEF RefreshTools, Discover, ListTools, TimesOut, RefreshCancelled, Unwinds
<1>8. CASE Commands \/ CallTool \/ UNCHANGED vars
  BY <1>6, <1>8
     DEF Commands, ConnectCommand, DisconnectCommand, ReconnectCommand, ResetChoicesCommand,
         SetEnabledCommand, SetAllEnabledCommand, AddCommand, RemoveCommand, Command,
         CallTool, vars
<1>9. CASE Calls
  <2>1. ASSUME NEW step, LookUp(step) PROVE Sessions'
    BY <1>6, <2>1 DEF LookUp
  <2>2. ASSUME NEW step, Answer(step) PROVE Sessions'
    <3>1. /\ UNCHANGED <<connected, current, round, tasks, cancelled>>
          /\ table' = table \/ table' = [table EXCEPT ![target[1]] = NeedsAuth]
      BY <2>2 DEF Answer
    <3> QED
      BY <3>1, EntryLost
  <2> QED
    BY <1>9, <2>1, <2>2 DEF Calls
<1>10. ASSUME NEW t \in Tasks, Opens(t) \/ Closes(t) \/ Ends(t) PROVE Sessions'
  BY <1>10, OpensKeeps, ClosesKeeps, EndsKeeps
<1> HIDE DEF manager, files, tooling, bounds
<1> QED
  BY <1>1, <1>2, <1>3, <1>4, <1>7, <1>8, <1>9, <1>10 DEF Next, Progress

-----------------------------------------------------------------------------
(* Who waits while tasks end: a refresh, which alone may be given up, never  *)
(* disconnects; so a task that is cancelled and not yet gone is one that a  *)
(* coroutine with the lock waits for.                                      *)

Refreshes == {<<"connect", "discover">>, <<"opening", "discover">>, <<"discover">>, <<"list">>}
Refreshing ==
    /\ \A c \in timed : plan[c] \in Refreshes
    /\ plan[Background] \in Refreshes \cup {<<"tools">>, <<>>}

Ending ==
    \A t \in Tasks :
        (t \in cancelled /\ tasks[t] # "gone") \/ tasks[t] = "closing"
            => t \in CurrentTasks /\ \E c \in Coroutines : At(c, "closing")

LEMMA RefreshStep ==
  ASSUME NEW p \in Refreshes \cup {<<"tools">>}
  PROVE  /\ p # <<>> /\ Head(p) \in {"tools", "connect", "opening", "discover", "list"}
         /\ Head(p) \in {"connect", "opening"} => Tail(p) = <<"discover">>
         /\ Head(p) \in {"discover", "list", "tools"} => Tail(p) = <<>>
<1>1. CASE p = <<"connect", "discover">>
  BY <1>1
<1>2. CASE p = <<"opening", "discover">>
  BY <1>2
<1>3. CASE p = <<"discover">>
  BY <1>3
<1>4. CASE p = <<"list">>
  BY <1>4
<1>5. CASE p = <<"tools">>
  BY <1>5
<1> QED
  BY <1>1, <1>2, <1>3, <1>4, <1>5 DEF Refreshes

LEMMA Behind ==
  /\ <<"opening">> \o <<"discover">> = <<"opening", "discover">>
  /\ <<"list">> \o <<>> = <<"list">>
<1>1. <<"opening">> \o <<"discover">> = <<"opening", "discover">>
  <2> DEFINE S == {"opening", "discover"}
             x == <<"opening">>  y == <<"discover">>  z == <<"opening", "discover">>
  <2>1. x \in Seq(S) /\ y \in Seq(S) /\ z \in Seq(S)
    OBVIOUS
  <2>2. /\ Len(x) = 1 /\ Len(y) = 1 /\ Len(z) = 2
        /\ x[1] = "opening" /\ y[1] = "discover" /\ z[1] = "opening" /\ z[2] = "discover"
    OBVIOUS
  <2> HIDE DEF x, y, z
  <2>3. /\ x \o y \in Seq(S) /\ Len(x \o y) = 2
        /\ (x \o y)[1] = x[1] /\ (x \o y)[2] = y[1]
    BY <2>1, <2>2
  <2>4. \A i \in 1 .. 2 : (x \o y)[i] = z[i]
    BY <2>2, <2>3
  <2>5. x \o y = z
    BY <2>1, <2>2, <2>3, <2>4
  <2> QED
    BY <2>5 DEF x, y, z
<1>2. \A s \in Seq({"list"}) : s \o <<>> = s
  OBVIOUS
<1>3. <<"list">> \in Seq({"list"})
  OBVIOUS
<1> QED
  BY <1>1, <1>2, <1>3

\* What a coroutine's move does to the refreshes.
LEMMA RefreshMoves ==
  ASSUME NEW c \in Coroutines, Control, Tooling, Refreshing, NEW p,
         plan' = [plan EXCEPT ![c] = p], timed' \subseteq timed \cup {c},
         c \in timed' => p \in Refreshes,
         c = Background => p \in Refreshes \cup {<<"tools">>, <<>>}
  PROVE  Refreshing'
<1>1. \A d \in Coroutines : plan'[d] = IF d = c THEN p ELSE plan[d]
  BY DEF Control, PlanOK
<1>2. \A d \in timed' : plan'[d] \in Refreshes
  BY <1>1 DEF Refreshing, Tooling
<1>3. Background \in Coroutines
  BY DEF Coroutines
<1> QED
  BY <1>1, <1>2, <1>3 DEF Refreshing

LEMMA RefreshingStep ==
  ASSUME Control, Tooling, Refreshing, [Next]_vars
  PROVE  Refreshing'
<1> USE DEF manager, files, tooling, bounds
<1>0. Pump # Background /\ Turn # Background /\ Coroutines = {Pump, Background, Turn}
  BY DEF Pump, Background, Turn, Coroutines
<1>1. ASSUME NEW c \in Coroutines, timed' = timed, plan[c] # <<>>,
             \/ Done(c) /\ Head(plan[c]) \in {"connect", "opening"}
             \/ Done(c) /\ Head(plan[c]) \in {"tools", "disconnect", "closing"}
             \/ GoesOn(c, "opening") /\ Head(plan[c]) = "connect"
             \/ GoesOn(c, "closing") /\ Head(plan[c]) = "disconnect"
             \/ GoesOn(c, "list") /\ Head(plan[c]) = "discover"
      PROVE  Refreshing'
  <2>1. CASE c \in timed \/ c = Background
    <3>1. plan[c] \in Refreshes \cup {<<"tools">>} /\ (c \in timed => plan[c] \in Refreshes)
      BY <1>1, <2>1 DEF Refreshing
    <3>2. /\ Head(plan[c]) \in {"tools", "connect", "opening", "discover", "list"}
          /\ Head(plan[c]) \in {"connect", "opening"} => Tail(plan[c]) = <<"discover">>
          /\ Head(plan[c]) \in {"discover", "list", "tools"} => Tail(plan[c]) = <<>>
      BY <3>1, RefreshStep
    <3>3. c \in timed => Head(plan[c]) # "tools"
      BY <3>1 DEF Refreshes
    <3>4. CASE Head(plan[c]) = "tools"
      <4>1. plan' = [plan EXCEPT ![c] = <<>>]
        BY <1>1, <3>2, <3>4 DEF Done
      <4> QED
        BY <1>1, <3>3, <3>4, <4>1, RefreshMoves
    <3>5. CASE Head(plan[c]) = "connect"
      <4>1. PICK p \in {<<"discover">>, <<"opening", "discover">>} : plan' = [plan EXCEPT ![c] = p]
        <5>1. CASE Done(c)
          BY <3>2, <3>5, <5>1 DEF Done
        <5>2. CASE GoesOn(c, "opening")
          <6>1. Tail(plan[c]) = <<"discover">>
            BY <3>2, <3>5
          <6> QED
            BY <5>2, <6>1, Behind DEF GoesOn
        <5> QED
          BY <1>1, <3>5, <5>1, <5>2
      <4>2. p \in Refreshes
        BY DEF Refreshes
      <4> QED
        BY <1>1, <4>1, <4>2, RefreshMoves
    <3>6. CASE Head(plan[c]) = "opening"
      <4>1. plan' = [plan EXCEPT ![c] = <<"discover">>] /\ <<"discover">> \in Refreshes
        BY <1>1, <3>2, <3>6 DEF Done, Refreshes
      <4> QED
        BY <1>1, <4>1, RefreshMoves
    <3>7. CASE Head(plan[c]) = "discover"
      <4>1. Tail(plan[c]) = <<>> /\ <<"list">> \in Refreshes
        BY <3>2, <3>7 DEF Refreshes
      <4>2. plan' = [plan EXCEPT ![c] = <<"list">>]
        BY <1>1, <3>7, <4>1, Behind DEF GoesOn
      <4> QED
        BY <1>1, <4>1, <4>2, RefreshMoves
    <3> QED
      BY <1>1, <3>2, <3>4, <3>5, <3>6, <3>7
  <2>2. CASE c \notin timed /\ c # Background
    <3>1. PICK p : plan' = [plan EXCEPT ![c] = p]
      BY <1>1 DEF Done, GoesOn
    <3> QED
      BY <1>1, <2>2, <3>1, RefreshMoves
  <2> QED
    BY <2>1, <2>2
<1>2. ASSUME NEW c \in Coroutines,
             ConnectAll(c) \/ AllReady(c) \/ DisconnectAll(c) \/ AllClosed(c) \/ Discover(c)
      PROVE  Refreshing'
  BY <1>1, <1>2 DEF ConnectAll, AllReady, DisconnectAll, AllClosed, Discover, At
<1>3. ASSUME NEW c \in Coroutines, RefreshTools(c) PROVE Refreshing'
  <2>1. CASE cache # None
    BY <1>1, <1>3, <2>1 DEF RefreshTools, At
  <2>2. CASE cache = None
    <3>1. PICK p \in {<<"discover">>, <<"connect", "discover">>} :
              plan' = [plan EXCEPT ![c] = p] /\ timed' = timed \cup {c}
      BY <1>3, <2>2 DEF RefreshTools
    <3>2. p \in Refreshes
      BY DEF Refreshes
    <3> QED
      BY <3>1, <3>2, RefreshMoves
  <2> QED
    BY <2>1, <2>2
<1>4. ASSUME NEW c \in Coroutines, ListTools(c) PROVE Refreshing'
  <2>1. plan' = [plan EXCEPT ![c] = Tail(plan[c])] /\ timed' = timed \ {c}
    BY <1>4 DEF ListTools, Done
  <2>2. c = Background => Tail(plan[c]) = <<>>
    <3> SUFFICES ASSUME c = Background PROVE Tail(plan[c]) = <<>>
      OBVIOUS
    <3>1. plan[c] # <<>> /\ Head(plan[c]) = "list"
      BY <1>4 DEF ListTools, At
    <3>2. plan[c] \in Refreshes \cup {<<"tools">>}
      BY <3>1 DEF Refreshing
    <3> QED
      BY <3>1, <3>2, RefreshStep
  <2> QED
    BY <2>1, <2>2, RefreshMoves
<1>5. ASSUME NEW c \in Coroutines, TimesOut(c) \/ RefreshCancelled(c) PROVE Refreshing'
  <2>1. plan' = [plan EXCEPT ![c] = <<>>] /\ timed' = timed \ {c}
    BY <1>5 DEF TimesOut, RefreshCancelled, Unwinds
  <2> QED
    BY <2>1, RefreshMoves
<1>6. ASSUME NEW c \in {Pump, Turn}, NEW p, plan' = [plan EXCEPT ![c] = p], timed' = timed,
             c \notin timed
      PROVE  Refreshing'
  <2>1. c \in Coroutines /\ c # Background
    BY <1>0
  <2> QED
    BY <1>6, <2>1, RefreshMoves
<1>7. CASE Commands
  <2>1. plan[Pump] = <<>> /\ timed' = timed /\ \E p : plan' = [plan EXCEPT ![Pump] = p]
    BY <1>7
       DEF Commands, ConnectCommand, DisconnectCommand, ReconnectCommand, ResetChoicesCommand,
           SetEnabledCommand, SetAllEnabledCommand, AddCommand, RemoveCommand, Command
  <2>2. Pump \notin timed
    BY <2>1, RefreshStep DEF Refreshing
  <2> QED
    BY <1>6, <2>1, <2>2
<1>8. CASE CallTool
  <2>1. plan[Turn] = <<>> /\ timed' = timed /\ \E p : plan' = [plan EXCEPT ![Turn] = p]
    BY <1>8 DEF CallTool
  <2>2. Turn \notin timed
    BY <2>1, RefreshStep DEF Refreshing
  <2> QED
    BY <1>6, <2>1, <2>2
<1>9. CASE Calls
  <2>1. PICK step \in {"call", "answer", "call again", "last answer"} : At(Turn, step) /\ timed' = timed
    BY <1>9 DEF Calls, LookUp, Answer
  <2>2. Turn \notin timed
    BY <2>1, RefreshStep DEF Refreshing, At
  <2>3. \E p : plan' = [plan EXCEPT ![Turn] = p]
    BY <1>9 DEF Calls, LookUp, Answer, Done, GoesOn
  <2> QED
    BY <1>6, <2>1, <2>2, <2>3
<1>10. CASE UNCHANGED <<plan, timed>>
  BY <1>10 DEF Refreshing
<1>11. ASSUME NEW t \in Tasks, Opens(t) \/ Closes(t) \/ Ends(t) PROVE Refreshing'
  BY <1>10, <1>11 DEF Opens, Closes, Ends
<1>12. CASE UNCHANGED vars
  BY <1>10, <1>12 DEF vars
<1> HIDE DEF manager, files, tooling, bounds
<1> QED
  BY <1>2, <1>3, <1>4, <1>5, <1>7, <1>8, <1>9, <1>11, <1>12 DEF Next, Progress

\* Tasks stay as they are, and who waits for them to close goes on waiting.
LEMMA EndingKept ==
  ASSUME Ending, UNCHANGED <<tasks, cancelled, current>>,
         \A c \in Coroutines : At(c, "closing") => At(c, "closing")'
  PROVE  Ending'
<1>1. CurrentTasks' = CurrentTasks
  BY DEF CurrentTasks
<1> QED
  BY <1>1 DEF Ending

LEMMA OthersWait ==
  ASSUME NEW c \in Coroutines, Control, ~At(c, "closing"), NEW p, plan' = [plan EXCEPT ![c] = p]
  PROVE  \A d \in Coroutines : At(d, "closing") => At(d, "closing")'
  BY DEF Control, PlanOK, At

LEMMA EndingStep ==
  ASSUME Control, Sessions, Refreshing, Ending, [Next]_vars
  PROVE  Ending'
<1> USE DEF manager, files, tooling, bounds
<1>0. /\ Free \notin Coroutines /\ Pump \in Coroutines /\ Turn \in Coroutines
      /\ CurrentTasks \subseteq Tasks
  BY CurrentTasksAreTasks DEF Free, Coroutines, Pump, Background, Turn, Sessions
<1>1. lock = Free => \A t \in Tasks : tasks[t] # "closing" /\ (t \in cancelled => tasks[t] = "gone")
  BY <1>0 DEF Control, LockOwned, Ending
<1>2. ASSUME NEW c \in Coroutines, ~At(c, "closing"), UNCHANGED <<tasks, cancelled, current>>,
             NEW p, plan' = [plan EXCEPT ![c] = p]
      PROVE  Ending'
  BY <1>2, OthersWait, EndingKept
<1>3. ASSUME NEW c \in Coroutines, ConnectAll(c) PROVE Ending'
  <2>1. CASE connected
    BY <1>2, <1>3, <2>1 DEF ConnectAll, Done, At
  <2>2. CASE ~connected
    <3>1. PICK started :
             /\ round' = round + 1 /\ UNCHANGED cancelled
             /\ tasks' = [t \in Tasks |-> IF t[1] \in started /\ t[2] = round'
                                          THEN "opening" ELSE tasks[t]]
      BY <1>3, <2>2 DEF ConnectAll
    <3>2. round \in Nat /\ lock = Free
      BY <1>3 DEF ConnectAll, Control, Bounded
    <3>3. \A t \in cancelled : t[2] <= round /\ t \in Tasks
      BY DEF Sessions, NoneAhead, SessionTypes
    <3>4. \A t \in Tasks : t[2] \in Nat
      BY RoundsAreNumbers DEF Tasks
    <3>5. \A t \in cancelled : t[2] # round'
      BY <3>1, <3>2, <3>3, <3>4
    <3>6. \A t \in Tasks : tasks'[t] # "closing" /\ (t \in cancelled => tasks'[t] = "gone")
      BY <1>1, <3>1, <3>2, <3>5
    <3> QED
      BY <3>1, <3>6 DEF Ending
  <2> QED
    BY <2>1, <2>2
<1>4. ASSUME NEW c \in Coroutines, AllReady(c) \/ Discover(c) \/ ListTools(c) PROVE Ending'
  <2>1. ~At(c, "closing") /\ UNCHANGED <<tasks, cancelled, current>>
    BY <1>4 DEF AllReady, Discover, ListTools, At
  <2>2. \E p : plan' = [plan EXCEPT ![c] = p]
    BY <1>4 DEF AllReady, Discover, ListTools, Done, GoesOn
  <2> QED
    BY <1>2, <2>1, <2>2
<1>5. ASSUME NEW c \in Coroutines, RefreshTools(c) PROVE Ending'
  <2>1. ~At(c, "closing") /\ UNCHANGED <<tasks, cancelled, current>>
    BY <1>5 DEF RefreshTools, At
  <2>2. \E p : plan' = [plan EXCEPT ![c] = p]
    BY <1>5 DEF RefreshTools, Done
  <2> QED
    BY <1>2, <2>1, <2>2
<1>6. ASSUME NEW c \in Coroutines, DisconnectAll(c) PROVE Ending'
  <2>1. CASE ~connected
    BY <1>2, <1>6, <2>1 DEF DisconnectAll, Done, At
  <2>2. CASE connected
    <3>1. /\ UNCHANGED <<tasks, current>> /\ cancelled' = cancelled \cup CurrentTasks
          /\ lock = Free /\ plan[c] # <<>> /\ GoesOn(c, "closing")
      BY <1>6, <2>2 DEF DisconnectAll, At
    <3>2. At(c, "closing")'
      BY <3>1, GoesOnStep DEF Control, At, Steps
    <3>3. CurrentTasks' = CurrentTasks
      BY <3>1 DEF CurrentTasks
    <3> QED
      BY <1>1, <3>1, <3>2, <3>3 DEF Ending
  <2> QED
    BY <2>1, <2>2
<1>7. ASSUME NEW c \in Coroutines, AllClosed(c) PROVE Ending'
  <2>1. UNCHANGED <<tasks, cancelled>> /\ \A t \in CurrentTasks : tasks[t] = "gone"
    BY <1>7 DEF AllClosed
  <2>2. \A t \in Tasks : tasks[t] # "closing" /\ (t \in cancelled => tasks[t] = "gone")
    BY <2>1 DEF Ending
  <2> QED
    BY <2>1, <2>2 DEF Ending
<1>8. ASSUME NEW c \in Coroutines, TimesOut(c) \/ RefreshCancelled(c) PROVE Ending'
  <2>1. plan' = [plan EXCEPT ![c] = <<>>] /\ UNCHANGED <<tasks, cancelled, current>>
    BY <1>8 DEF TimesOut, RefreshCancelled, Unwinds
  <2>2. plan[c] \in Refreshes \cup {<<"tools">>}
    BY <1>8 DEF TimesOut, RefreshCancelled, Refreshing
  <2>3. ~At(c, "closing")
    BY <2>2, RefreshStep DEF At
  <2> QED
    BY <1>2, <2>1, <2>3
<1>9. CASE Commands \/ CallTool
  <2>1. PICK c \in {Pump, Turn} :
            /\ plan[c] = <<>> /\ UNCHANGED <<tasks, cancelled, current>>
            /\ \E p : plan' = [plan EXCEPT ![c] = p]
    BY <1>9
       DEF Commands, ConnectCommand, DisconnectCommand, ReconnectCommand, ResetChoicesCommand,
           SetEnabledCommand, SetAllEnabledCommand, AddCommand, RemoveCommand, Command, CallTool
  <2>2. ~At(c, "closing")
    BY <2>1 DEF At
  <2> QED
    BY <1>0, <1>2, <2>1, <2>2
<1>10. CASE Calls
  <2>1. ~At(Turn, "closing") /\ UNCHANGED <<tasks, cancelled, current>>
    BY <1>10 DEF Calls, LookUp, Answer, At
  <2>2. \E p : plan' = [plan EXCEPT ![Turn] = p]
    BY <1>10 DEF Calls, LookUp, Answer, Done, GoesOn
  <2> QED
    BY <1>0, <1>2, <2>1, <2>2
<1>11. ASSUME NEW t \in Tasks, Opens(t) \/ Closes(t) \/ Ends(t) PROVE Ending'
  <2>1. /\ UNCHANGED <<plan, cancelled, current>>
        /\ \/ tasks[t] = "opening" /\ \E s \in {"up", "parked"} : tasks' = [tasks EXCEPT ![t] = s]
           \/ t \in cancelled /\ tasks[t] \in {"up", "parked"} /\ tasks' = [tasks EXCEPT ![t] = "closing"]
           \/ tasks[t] = "closing" /\ tasks' = [tasks EXCEPT ![t] = "gone"]
    BY <1>11 DEF Opens, Closes, Ends
  <2>2. tasks[t] = "opening" => t \notin cancelled
    BY DEF Sessions, ReadyWhenCancelled
  <2>3. \A u \in Tasks : (u \in cancelled /\ tasks'[u] # "gone") \/ tasks'[u] = "closing"
                         => (u \in cancelled /\ tasks[u] # "gone") \/ tasks[u] = "closing"
    BY <2>1, <2>2 DEF Sessions, SessionTypes
  <2>4. CurrentTasks' = CurrentTasks /\ \A c \in Coroutines : At(c, "closing") <=> At(c, "closing")'
    BY <2>1 DEF CurrentTasks, At
  <2> QED
    BY <2>1, <2>3, <2>4 DEF Ending
<1>12. CASE UNCHANGED vars
  BY <1>12, EndingKept DEF vars, At
<1> HIDE DEF manager, files, tooling, bounds
<1> QED
  BY <1>3, <1>4, <1>5, <1>6, <1>7, <1>8, <1>9, <1>10, <1>11, <1>12 DEF Next, Progress

-----------------------------------------------------------------------------
(* The properties.                                                         *)

IInv == Control /\ Sessions /\ Tooling /\ Refreshing /\ Ending

\* The invariant of the manager and its callers, for any servers and bounds.
THEOREM ConnectionsInvariant == Spec => []IInv
<1>1. Init => IInv
  <2>1. Init => Tooling
    BY DEF Init, Tooling, None
  <2>2. Init => Refreshing /\ Ending
    BY DEF Init, Refreshing, Ending, Background, Coroutines
  <2> QED
    BY <2>1, <2>2, ControlInit, SessionsInit DEF IInv
<1>2. IInv /\ [Next]_vars => IInv'
  BY ControlStep, SessionsStep, ToolingStep, RefreshingStep, EndingStep DEF IInv
<1> QED
  BY <1>1, <1>2, PTL DEF Spec

\* The bound on the rounds of connecting is never reached in the middle of a
\* command: all state keeps its type.
THEOREM TypeCorrect == Spec => []TypeOK
<1>1. IInv => TypeOK
  BY DEF IInv, Control, Sessions, SessionTypes, Tooling, TypeOK
<1> QED
  BY <1>1, ConnectionsInvariant, PTL

\* The lock is held by the one coroutine that waits for tasks, and never by one
\* that was cancelled.
THEOREM LockOwnedHolds == Spec => []LockOwned
<1>1. IInv => LockOwned
  BY DEF IInv, Control
<1> QED
  BY <1>1, ConnectionsInvariant, PTL

\* No task is cancelled while it opens its session, so that the clean-up of each
\* cancelled task is entered, whoever has given up waiting for it.
THEOREM ReadyWhenCancelledHolds == Spec => []ReadyWhenCancelled
<1>1. IInv => ReadyWhenCancelled
  BY DEF IInv, Sessions
<1> QED
  BY <1>1, ConnectionsInvariant, PTL

\* What the table shows as connected is open or being closed by a disconnect_all
\* that still waits, whichever rounds its tasks are of.
THEOREM TableIsLiveHolds == Spec => []TableIsLive
<1>1. IInv => TableIsLive
  <2> SUFFICES ASSUME IInv, NEW n \in Servers, table[n].status = "connected"
               PROVE  LET t == <<n, table[n].round>> IN tasks[t] = "up" \/ BeingClosed(t)
    BY DEF TableIsLive
  <2> DEFINE t == <<n, table[n].round>>
  <2>1. tasks[t] \in {"up", "closing"}
    BY DEF IInv, Sessions, OpenOrClosing
  <2>2. PICK r \in Rounds : table[n] = Connected(r)
    BY DEF IInv, Sessions, SessionTypes, Absent, Failed, NeedsAuth
  <2>3. t \in Tasks
    BY <2>2 DEF Tasks, Connected
  <2> QED
    BY <2>1, <2>3 DEF IInv, Ending, BeingClosed
<1> QED
  BY <1>1, ConnectionsInvariant, PTL
=============================================================================
