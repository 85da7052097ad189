----------------------------- MODULE QueryGuard -----------------------------
(***************************************************************************)
(* utils/query_guard.py: the guard that admits one query turn at a time.   *)
(* The guard is passive.  It is driven by callers that reserve it, cancel  *)
(* their reservation, start a turn (and keep the generation they got back) *)
(* and end the turn with the generation they kept, possibly long after     *)
(* force_end gave the guard to somebody else.                              *)
(***************************************************************************)
EXTENDS Naturals

CONSTANTS Callers,        \* the coroutines that hold a reference to the guard
          MaxGeneration   \* bound on the number of generations

VARIABLES status,         \* QueryGuard._status
          generation,     \* QueryGuard._generation
          held            \* the generation each caller still has to end; 0: none

vars == <<status, generation, held>>

Status == {"idle", "dispatching", "running"}

TypeOK ==
    /\ status \in Status
    /\ generation \in Nat
    /\ held \in [Callers -> Nat]

Init ==
    /\ status = "idle"
    /\ generation = 0
    /\ held = [c \in Callers |-> 0]

-----------------------------------------------------------------------------
(* One action per method.  A call that returns False or None changes       *)
(* nothing, so it is a stuttering step and needs no disjunct.              *)

Reserve ==
    /\ status = "idle"
    /\ status' = "dispatching"
    /\ UNCHANGED <<generation, held>>

CancelReservation ==
    /\ status = "dispatching"
    /\ status' = "idle"
    /\ UNCHANGED <<generation, held>>

\* force_end and try_start hand out a generation that was never in use.
NextGeneration == generation + 1

\* try_start succeeds from "idle" and from anybody's reservation.
TryStart(c) ==
    /\ held[c] = 0
    /\ status # "running"
    /\ generation < MaxGeneration
    /\ status' = "running"
    /\ generation' = NextGeneration
    /\ held' = [held EXCEPT ![c] = NextGeneration]

\* The condition under which end(g) returns True.
EndsTurn(g) == generation = g /\ status = "running"

\* end(generation): the caller gives up its generation whatever the answer.
End(c) ==
    /\ held[c] # 0
    /\ held' = [held EXCEPT ![c] = 0]
    /\ status' = IF EndsTurn(held[c]) THEN "idle" ELSE status
    /\ UNCHANGED generation

ForceEnd ==
    /\ status # "idle"
    /\ generation < MaxGeneration
    /\ status' = "idle"
    /\ generation' = NextGeneration
    /\ UNCHANGED held

Next ==
    \/ Reserve
    \/ CancelReservation
    \/ ForceEnd
    \/ \E c \in Callers : TryStart(c) \/ End(c)

Spec == Init /\ [][Next]_vars

-----------------------------------------------------------------------------
(* A running turn has exactly one owner: one caller, and only one, holds   *)
(* the generation whose end() will release the guard.  Generations that    *)
(* force_end made stale are held by nobody twice and match nothing.        *)
OneOwner ==
    status = "running" =>
        \E c \in Callers :
            /\ held[c] = generation
            /\ \A d \in Callers \ {c} : held[d] # generation

\* Only the owner of the running turn, or force_end, takes the guard away
\* from that turn: no start supersedes it, and an end() that arrives late,
\* with the generation of a turn that was forced out, never releases it.
OwnerReleases ==
    \/ status' = "idle" /\ generation' > generation
    \/ \E c \in Callers : held[c] = generation /\ held'[c] = 0

OnlyOwnerReleases ==
    [][status = "running" /\ <<status, generation>>' # <<status, generation>>
          => OwnerReleases]_vars

=============================================================================
