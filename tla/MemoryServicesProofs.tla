------------------------ MODULE MemoryServicesProofs -------------------------
(***************************************************************************)
(* What MemoryServices says of its safety, for any processes.              *)
(***************************************************************************)
EXTENDS MemoryServices, TLAPS

USE MemoryServicesAssumption

PCs == {"idle", "due", "free", "truncated", "written", "working", "rewinding", "dead"}

-----------------------------------------------------------------------------
(* Consolidation: a process that has written its pid found the file new,   *)
(* and as long as nothing is rewound the file is no older than its work.   *)

LockTypes ==
    /\ holder \in Processes \cup {Nobody} /\ age \in Ages
    /\ pc \in [Processes -> PCs]
    /\ prior \in [Processes -> Ages] /\ since \in [Processes -> 0 .. Day]
    /\ rewound \in BOOLEAN

YoungerThanWork ==
    ~rewound => \A p \in Processes :
        /\ pc[p] \in {"truncated", "written"} => age = 0
        /\ pc[p] = "working" => age <= since[p]

Inv == LockTypes /\ YoungerThanWork

LEMMA LockInit == Init => Inv
<1> SUFFICES ASSUME Init PROVE LockTypes /\ YoungerThanWork
  BY DEF Inv
<1>1. /\ holder = Nobody /\ age = 3 /\ rewound = FALSE
      /\ pc = [q \in Processes |-> "idle"]
      /\ prior = [q \in Processes |-> 3] /\ since = [q \in Processes |-> 0]
  BY DEF Init, NoFile
<1>2. 0 \in 0 .. Day /\ 3 \in Ages
  BY DEF Day, Ages, NoFile
<1>3. LockTypes
  BY <1>1, <1>2 DEF LockTypes, PCs
<1>4. YoungerThanWork
  BY <1>1 DEF YoungerThanWork
<1> QED
  BY <1>3, <1>4

LEMMA LockStep ==
  ASSUME Inv, [Next]_vars
  PROVE  Inv'
<1> USE DEF Day, NoFile, Ages
<1>0. /\ LockTypes /\ YoungerThanWork /\ age \in 0 .. 3
      /\ \A p \in Processes : prior[p] \in 0 .. 3 /\ since[p] \in 0 .. 2
  BY DEF Inv, LockTypes
<1>1. ASSUME NEW p \in Processes, TimeGate(p) \/ Look(p) PROVE Inv'
  <2>1. /\ UNCHANGED <<holder, age, since, rewound>> /\ prior' \in [Processes -> Ages]
        /\ \/ pc' = [pc EXCEPT ![p] = "due"] \/ pc' = [pc EXCEPT ![p] = "idle"]
           \/ pc' = [pc EXCEPT ![p] = "free"]
    BY <1>0, <1>1 DEF TimeGate, Look, At, LockTypes
  <2>2. LockTypes'
    BY <1>0, <2>1 DEF LockTypes, PCs
  <2>3. YoungerThanWork'
    BY <1>0, <2>1 DEF YoungerThanWork, LockTypes
  <2> QED
    BY <2>2, <2>3 DEF Inv
<1>2. ASSUME NEW p \in Processes, Truncate(p) PROVE Inv'
  <2>1. /\ age' = 0 /\ holder' = Nobody /\ UNCHANGED <<prior, since, rewound>>
        /\ pc' = [pc EXCEPT ![p] = "truncated"]
    BY <1>2 DEF Truncate, At, Lock
  <2>2. LockTypes'
    BY <1>0, <2>1 DEF LockTypes, PCs
  <2>3. YoungerThanWork'
    BY <1>0, <2>1 DEF YoungerThanWork, LockTypes
  <2> QED
    BY <2>2, <2>3 DEF Inv
<1>3. ASSUME NEW p \in Processes, WritePid(p) PROVE Inv'
  <2>1. /\ UNCHANGED <<holder, age>> \/ (holder' = p /\ age' = 0)
        /\ since' = [since EXCEPT ![p] = 0] /\ UNCHANGED <<prior, rewound>>
        /\ pc[p] = "truncated" /\ pc' = [pc EXCEPT ![p] = "written"]
    <3>1. /\ since' = [since EXCEPT ![p] = 0] /\ prior' = prior /\ rewound' = rewound
          /\ At(p, "truncated", "written")
      BY <1>3 DEF WritePid
    <3>2. UNCHANGED <<holder, age>> \/ (holder' = p /\ age' = 0)
      <4>1. CASE age = NoFile
        BY <1>3, <4>1 DEF WritePid
      <4>2. CASE age # NoFile
        BY <1>3, <4>2 DEF WritePid, Lock
      <4> QED
        BY <4>1, <4>2
    <3>3. pc[p] = "truncated" /\ pc' = [pc EXCEPT ![p] = "written"]
      BY <3>1 DEF At
    <3> QED
      BY <3>1, <3>2, <3>3
  <2>2. LockTypes'
    BY <1>0, <2>1 DEF LockTypes, PCs
  <2>3. YoungerThanWork'
    <3> SUFFICES ASSUME ~rewound, NEW q \in Processes
                 PROVE  /\ pc'[q] \in {"truncated", "written"} => age' = 0
                        /\ pc'[q] = "working" => age' <= since'[q]
      BY <2>1 DEF YoungerThanWork
    <3>1. age = 0 /\ age' = 0
      BY <1>0, <2>1 DEF YoungerThanWork
    <3>2. since'[q] \in 0 .. 2
      BY <2>2 DEF LockTypes
    <3> QED
      BY <3>1, <3>2
  <2> QED
    BY <2>2, <2>3 DEF Inv
<1>4. ASSUME NEW p \in Processes, Verify(p) PROVE Inv'
  <2>1. /\ UNCHANGED <<holder, age, prior, since, rewound>> /\ pc[p] = "written"
        /\ \/ pc' = [pc EXCEPT ![p] = "working"] \/ pc' = [pc EXCEPT ![p] = "idle"]
    BY <1>4 DEF Verify, At, LeftByLoser
  <2>2. LockTypes'
    BY <1>0, <2>1 DEF LockTypes, PCs
  <2>3. YoungerThanWork'
    BY <1>0, <2>1 DEF YoungerThanWork, LockTypes
  <2> QED
    BY <2>2, <2>3 DEF Inv
<1>5. ASSUME NEW p \in Processes, Finish(p) \/ Die(p) PROVE Inv'
  <2>1. /\ UNCHANGED <<holder, age, prior, since, rewound>>
        /\ \/ pc' = [pc EXCEPT ![p] = "idle"] \/ pc' = [pc EXCEPT ![p] = "dead"]
    BY <1>5 DEF Finish, Die, At
  <2>2. LockTypes'
    BY <1>0, <2>1 DEF LockTypes, PCs
  <2>3. YoungerThanWork'
    BY <1>0, <2>1 DEF YoungerThanWork, LockTypes
  <2> QED
    BY <2>2, <2>3 DEF Inv
<1>6. ASSUME NEW p \in Processes, Fail(p) \/ SetTime(p) PROVE Inv'
  <2>1. /\ age' \in Ages /\ holder' \in Processes \cup {Nobody} /\ UNCHANGED <<prior, since>>
        /\ pc[p] \in {"working", "rewinding"}
        /\ \/ pc' = [pc EXCEPT ![p] = "idle"] \/ pc' = [pc EXCEPT ![p] = "rewinding"]
        /\ rewound' \in BOOLEAN
    <3>1. CASE Fail(p)
      <4>1. /\ Lock(Nobody, IF prior[p] = 3 THEN 3 ELSE 0)
            /\ At(p, "working", IF prior[p] = 3 THEN "idle" ELSE "rewinding")
            /\ UNCHANGED <<prior, since>>
            /\ rewound' = (rewound \/ (prior[p] = 3 /\ Others(p) # {}))
        BY <3>1 DEF Fail
      <4>2. holder' = Nobody /\ age' \in {0, 3}
        BY <4>1 DEF Lock
      <4>3. /\ pc[p] = "working"
            /\ \/ pc' = [pc EXCEPT ![p] = "idle"] \/ pc' = [pc EXCEPT ![p] = "rewinding"]
        BY <4>1 DEF At
      <4>4. rewound' \in BOOLEAN
        BY <1>0, <4>1 DEF LockTypes
      <4> QED
        BY <4>1, <4>2, <4>3, <4>4
    <3>2. CASE SetTime(p)
      <4>1. /\ age' = IF age = 3 THEN 3 ELSE prior[p]
            /\ At(p, "rewinding", "idle") /\ UNCHANGED <<holder, prior, since>>
            /\ rewound' = (rewound \/ Others(p) # {})
        BY <3>2 DEF SetTime
      <4>2. prior[p] \in 0 .. 3
        BY <1>0
      <4>3. age' \in Ages
        BY <4>1, <4>2
      <4> QED
        BY <1>0, <4>1, <4>3 DEF At, LockTypes
    <3> QED
      BY <1>6, <3>1, <3>2
  <2>2. ~rewound' => ~rewound /\ (Others(p) = {} \/ age' = 0)
    BY <1>6 DEF Fail, SetTime, Lock
  <2>3. LockTypes'
    BY <1>0, <2>1 DEF LockTypes, PCs
  <2>4. YoungerThanWork'
    <3> SUFFICES ASSUME ~rewound', NEW q \in Processes,
                        pc'[q] \in {"truncated", "written", "working"}
                 PROVE  age' = 0 /\ since'[q] \in 0 .. 2
      BY DEF YoungerThanWork
    <3>1. q # p /\ pc'[q] = pc[q]
      BY <1>0, <2>1 DEF LockTypes
    <3>2. q \in Others(p)
      BY <3>1 DEF Others
    <3> QED
      BY <2>2, <2>3, <3>2 DEF LockTypes
  <2> QED
    BY <2>3, <2>4 DEF Inv
<1>7. CASE Tick
  <2>1. /\ age \in 0 .. 1 /\ age' = age + 1 /\ UNCHANGED <<holder, pc, rewound>>
        /\ \A p \in Processes : pc[p] \notin {"truncated", "written"}
        /\ prior' \in [Processes -> Ages]
        /\ since' = [p \in Processes |-> IF pc[p] = "working" THEN Older(since[p]) ELSE 0]
    BY <1>0, <1>7 DEF Tick, Older
  <2>2. \A p \in Processes : Older(since[p]) \in 0 .. 2 /\ (age <= since[p] => age + 1 <= Older(since[p]))
    BY <1>0, <2>1 DEF Older
  <2>3. LockTypes'
    BY <1>0, <2>1, <2>2 DEF LockTypes
  <2>4. YoungerThanWork'
    BY <1>0, <2>1, <2>2 DEF YoungerThanWork
  <2> QED
    BY <2>3, <2>4 DEF Inv
<1>8. CASE UNCHANGED vars
  BY <1>0, <1>8 DEF vars, Inv, LockTypes, YoungerThanWork
<1> QED
  BY <1>1, <1>2, <1>3, <1>4, <1>5, <1>6, <1>7, <1>8
     DEF Next, Step

-----------------------------------------------------------------------------
(* The theorems.                                                           *)

\* Every reachable state satisfies the invariant: a file is no older than the work
\* it stands for, unless it was rewound.
THEOREM MemoryInvariant == Spec => []Inv
  BY LockInit, LockStep, PTL DEF Spec

\* The lock file and its processes keep their types.
THEOREM TypeCorrect == Spec => []TypeOK
<1>1. Inv => TypeOK
  BY DEF Inv, LockTypes, TypeOK, PCs
<1> QED
  BY <1>1, MemoryInvariant, PTL

\* consolidation_lock.py: while a consolidation is less than a day old and nobody
\* has rewound the file, no process finds a day has passed.
THEOREM WorkClosesGateHolds == Spec => []WorkClosesGate
<1>1. Inv => WorkClosesGate
  <2> SUFFICES ASSUME Inv, NEW p \in Processes,
                      pc[p] = "working", since[p] < Day, ~rewound
               PROVE  age < Day
    BY DEF WorkClosesGate
  <2>1. age \in 0 .. 3 /\ since[p] \in 0 .. 2 /\ age <= since[p]
    BY DEF Inv, LockTypes, YoungerThanWork, Ages, NoFile, Day
  <2> QED
    BY <2>1 DEF Day
<1> QED
  BY <1>1, MemoryInvariant, PTL
=============================================================================
