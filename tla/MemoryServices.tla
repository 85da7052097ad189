--------------------------- MODULE MemoryServices ---------------------------
(***************************************************************************)
(* The service that consolidates the memory directory: services/auto_dream,*)
(* at most once a day.  The processes of the user share nothing but a lock *)
(* file, whose content is the holder and whose mtime is the time of the    *)
(* last consolidation; a step here is one call of the file system.  Ages   *)
(* are 0 (less than an hour), 1 (less than a day), 2 (a day or more) and 3 *)
(* for a file that is not there.                                           *)
(*                                                                         *)
(* The program starts this service nowhere as yet: what is said here is of *)
(* processes that run it, as often or as rarely as they like.              *)
(***************************************************************************)
EXTENDS Naturals, FiniteSets

CONSTANTS Processes,   \* the processes of the user
          Mortal       \* those that may die

ASSUME MemoryServicesAssumption == Mortal \subseteq Processes

VARIABLES
    holder, age,      \* .consolidate-lock: its content and age
    pc, prior,        \* per process: where it is in run(), the age it found
    since,            \* per process: how long it has the lock
    rewound           \* history: a rollback rewound the file under another one

vars == <<holder, age, pc, prior, since, rewound>>

Nobody == "nobody"
Day == 2
NoFile == 3
Ages == 0 .. NoFile

TypeOK ==
    /\ holder \in Processes \cup {Nobody} /\ age \in Ages
    /\ pc \in [Processes -> {"idle", "due", "free", "truncated", "written", "working",
                             "rewinding", "dead"}]
    /\ prior \in [Processes -> Ages] /\ since \in [Processes -> 0 .. Day]
    /\ rewound \in BOOLEAN

Init ==
    /\ holder = Nobody /\ age = NoFile
    /\ pc = [p \in Processes |-> "idle"]
    /\ prior = [p \in Processes |-> NoFile]
    /\ since = [p \in Processes |-> 0]
    /\ rewound = FALSE

-----------------------------------------------------------------------------
(* Consolidation.                                                          *)

At(p, here, there) == pc[p] = here /\ pc' = [pc EXCEPT ![p] = there]
Lock(h, a) == holder' = h /\ age' = a

\* run: a day has passed.  The scan throttle of ten minutes only puts the check off.
TimeGate(p) ==
    /\ age >= Day
    /\ At(p, "idle", "due")
    /\ UNCHANGED <<holder, age, prior, since, rewound>>

\* The lock of a living process is respected for an hour.
Held(h, a) == a = 0 /\ h # Nobody /\ pc[h] # "dead"

\* try_acquire_consolidation_lock: stat and read the file.
Look(p) ==
    /\ At(p, "due", IF Held(holder, age) THEN "idle" ELSE "free")
    /\ prior' = [prior EXCEPT ![p] = age]
    /\ UNCHANGED <<holder, age, since, rewound>>

\* write_text: open, then write.
Truncate(p) ==
    /\ At(p, "free", "truncated")
    /\ Lock(Nobody, 0)
    /\ UNCHANGED <<prior, since, rewound>>
\* What is written to a file that was unlinked meanwhile is lost.
WritePid(p) ==
    /\ At(p, "truncated", "written")
    /\ IF age = NoFile THEN UNCHANGED <<holder, age>> ELSE Lock(p, 0)
    /\ since' = [since EXCEPT ![p] = 0]
    /\ UNCHANGED <<prior, rewound>>

\* Mutant: the loser of a race puts back the mtime that it found.
RestoredByLoser(p) == IF age = NoFile THEN NoFile ELSE prior[p]
LeftByLoser(p) == age
\* The re-read: another pid, no content (int("") raises) and no file all bail out.
Verify(p) ==
    /\ At(p, "written", IF holder = p THEN "working" ELSE "idle")
    /\ age' = IF holder = p THEN age ELSE LeftByLoser(p)
    /\ UNCHANGED <<holder, prior, since, rewound>>

Finish(p) ==
    /\ At(p, "working", "idle")
    /\ UNCHANGED <<holder, age, prior, since, rewound>>

\* Another process that has found the lock free, or has it.
Others(p) == {q \in Processes \ {p} : pc[q] \in {"free", "truncated", "written", "working"}}

\* rollback_consolidation_lock after an exception: unlink, or truncate and utime.
Fail(p) ==
    /\ At(p, "working", IF prior[p] = NoFile THEN "idle" ELSE "rewinding")
    /\ Lock(Nobody, IF prior[p] = NoFile THEN NoFile ELSE 0)
    /\ rewound' = (rewound \/ (prior[p] = NoFile /\ Others(p) # {}))
    /\ UNCHANGED <<prior, since>>
SetTime(p) ==
    /\ At(p, "rewinding", "idle")
    /\ age' = IF age = NoFile THEN NoFile ELSE prior[p]
    /\ rewound' = (rewound \/ Others(p) # {})
    /\ UNCHANGED <<holder, prior, since>>

Die(p) ==
    /\ pc[p] # "dead"
    /\ pc' = [pc EXCEPT ![p] = "dead"]
    /\ UNCHANGED <<holder, age, prior, since, rewound>>

Older(a) == IF a < Day THEN a + 1 ELSE a

\* An hour, or the rest of the day, passes for the file and for those that have
\* the lock; writing the file and reading it again takes less.
Tick ==
    /\ age < Day
    /\ \A p \in Processes : pc[p] \notin {"truncated", "written", "rewinding"}
    /\ age' = Older(age)
    /\ prior' = [p \in Processes |-> Older(prior[p])]
    /\ since' = [p \in Processes |-> IF pc[p] = "working" THEN Older(since[p]) ELSE 0]
    /\ UNCHANGED <<holder, pc, rewound>>

Step(p) ==
    \/ TimeGate(p) \/ Look(p) \/ Truncate(p) \/ WritePid(p) \/ Verify(p)
    \/ Finish(p) \/ Fail(p) \/ SetTime(p)

-----------------------------------------------------------------------------
Next ==
    \/ \E p \in Processes : Step(p)
    \/ \E p \in Mortal : Die(p)
    \/ Tick

Spec == Init /\ [][Next]_vars

-----------------------------------------------------------------------------
(* Properties.                                                             *)

\* For the first day of a consolidation no process finds that one is due, as long
\* as no rollback of another has rewound the file: what overlaps with it has found
\* the lock free before, in the race that the re-read does not settle.
WorkClosesGate ==
    \A p \in Processes : pc[p] = "working" /\ since[p] < Day /\ ~rewound => age < Day
=============================================================================
