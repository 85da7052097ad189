---------------------------- MODULE TurnService -----------------------------
(***************************************************************************)
(* What the chat screen promises about the items that become turns, with   *)
(* no guard, queue, worker or await in sight: an accepted item is served   *)
(* once, items are served one at a time, an item may be absorbed by the    *)
(* turn that is running, and only a fragile item may be dropped.           *)
(***************************************************************************)
CONSTANTS Items,        \* what can become a turn
          Absorbable,   \* the items a running turn may take in
          Fragile       \* the items that may be dropped unserved

VARIABLES waiting, current, served, dropped

vars == <<waiting, current, served, dropped>>

Init == waiting = {} /\ current = {} /\ served = {} /\ dropped = {}

Accept(i) ==
    /\ i \notin waiting \cup current \cup served \cup dropped
    /\ waiting' = waiting \cup {i}
    /\ UNCHANGED <<current, served, dropped>>

\* A new item may also start at once, before those that wait.
Start(i) ==
    /\ current = {}
    /\ i \notin served \cup dropped
    /\ current' = {i}
    /\ waiting' = waiting \ {i}
    /\ UNCHANGED <<served, dropped>>

Finish ==
    /\ current # {}
    /\ current' = {}
    /\ served' = served \cup current
    /\ UNCHANGED <<waiting, dropped>>

Absorb(S) ==
    /\ current # {}
    /\ S # {}
    /\ waiting' = waiting \ S
    /\ served' = served \cup S
    /\ UNCHANGED <<current, dropped>>

Drop(i) ==
    /\ waiting' = waiting \ {i}
    /\ dropped' = dropped \cup {i}
    /\ UNCHANGED <<current, served>>

Next ==
    \/ \E i \in Items : Accept(i) \/ Start(i)
    \/ Finish
    \/ \E S \in SUBSET (waiting \cap Absorbable) : Absorb(S)
    \/ \E i \in waiting \cap Fragile : Drop(i)

Spec == Init /\ [][Next]_vars
=============================================================================
