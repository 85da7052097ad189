---------------------------- MODULE MailboxProofs ----------------------------
(***************************************************************************)
(* What Mailbox says of its safety, for any senders, bounds and faults.    *)
(***************************************************************************)
EXTENDS Mailbox, TLAPS

USE MailboxAssumption

InLock == {"locked", "writing"}

Types ==
    /\ faulty \in BOOLEAN /\ exists \in BOOLEAN /\ torn \in BOOLEAN
    /\ inbox \in Seq(Entry)
    /\ lock \in Procs \cup {NoProc}
    /\ pc \in [Procs -> PCs]
    /\ buffer \in [Procs -> Seq(Entry)]
    /\ count \in [Senders -> 0 .. MaxSends]
    /\ sent \subseteq Ids
    /\ current \in Ids \cup {NoId}
    /\ delivered \in Seq(Ids)

\* A sender that is sending has begun a message; the owner that is marking has one.
Begun ==
    /\ \A s \in Senders : pc[s] \notin {"idle", "dead"} => Message(s) \in Ids
    /\ pc[Owner] # "idle" => current \in Ids
    /\ pc[Owner] = "idle" => current = NoId

\* The lock is held by the one process that is between its read and its write.
Exclusive == \A p \in Procs : lock = p <=> pc[p] \in InLock

MutexInv == Types /\ Begun /\ Exclusive

-----------------------------------------------------------------------------
(* Lemmas about the operators.                                             *)

LEMMA NamesDiffer == Owner # NoProc /\ NoProc \notin Procs /\ Owner \notin Senders /\ NoId \notin Ids
<1>1. Owner # NoProc
  BY DEF Owner, NoProc
<1>2. NoProc \notin Procs /\ Owner \notin Senders
  BY <1>1 DEF Procs, MailboxAssumption
<1>3. NoId \notin Ids
  BY <1>2 DEF NoId, Ids
<1> QED
  BY <1>1, <1>2, <1>3

\* What read_mailbox returns is a list of messages.
LEMMA ReadsEntries == Types => ReadMailbox \in Seq(Entry)
  BY DEF Types, ReadMailbox

\* Marking changes no message but its flag.
LEMMA MarkedKeeps ==
  ASSUME NEW messages \in Seq(Entry), NEW id
  PROVE  /\ Marked(messages, id) \in Seq(Entry)
         /\ IdsOf(Marked(messages, id)) = IdsOf(messages)
         /\ \A i \in DOMAIN Marked(messages, id) :
                Marked(messages, id)[i].read =>
                    \/ Marked(messages, id)[i].id = id
                    \/ i \in DOMAIN messages /\ messages[i].read
                       /\ Marked(messages, id)[i].id = messages[i].id
<1> DEFINE marked == Marked(messages, id)
<1>1. /\ DOMAIN messages = 1 .. Len(messages) /\ Len(messages) \in Nat
      /\ \A i \in 1 .. Len(messages) : messages[i] \in Entry
  OBVIOUS
<1>2. \A i \in 1 .. Len(messages) :
         /\ marked[i] \in Entry /\ marked[i].id = messages[i].id
         /\ marked[i].read => messages[i].id = id \/ messages[i].read
  BY <1>1 DEF Marked, Entry
<1>3. marked \in Seq(Entry) /\ DOMAIN marked = 1 .. Len(messages)
  <2>1. marked = [i \in 1 .. Len(messages) |-> marked[i]]
    BY <1>1 DEF Marked
  <2> QED
    BY <1>1, <1>2, <2>1
<1>4. IdsOf(marked) = IdsOf(messages)
  BY <1>1, <1>2, <1>3 DEF IdsOf
<1> QED
  BY <1>1, <1>2, <1>3, <1>4

\* Appending a new message keeps the others.
LEMMA AppendKeeps ==
  ASSUME NEW messages \in Seq(Entry), NEW id \in Ids
  PROVE  LET longer == Append(messages, [id |-> id, read |-> FALSE])
         IN  /\ longer \in Seq(Entry)
             /\ IdsOf(longer) = IdsOf(messages) \cup {id}
             /\ \A i \in DOMAIN longer :
                    longer[i].read =>
                        i \in DOMAIN messages /\ messages[i].read /\ longer[i].id = messages[i].id
<1> DEFINE new == [id |-> id, read |-> FALSE]
           longer == Append(messages, new)
<1>1. new \in Entry /\ new.id = id /\ ~new.read
  BY DEF Entry
<1>2. /\ longer \in Seq(Entry) /\ Len(messages) \in Nat
      /\ DOMAIN messages = 1 .. Len(messages)
      /\ DOMAIN longer = 1 .. (Len(messages) + 1)
      /\ \A i \in 1 .. Len(messages) : longer[i] = messages[i]
      /\ longer[Len(messages) + 1] = new
  BY <1>1
<1>3. IdsOf(longer) = IdsOf(messages) \cup {id}
  <2>1. \A x : x \in IdsOf(longer) <=> \E i \in 1 .. (Len(messages) + 1) : x = longer[i].id
    BY <1>2 DEF IdsOf
  <2>2. \A x : x \in IdsOf(messages) <=> \E i \in 1 .. Len(messages) : x = messages[i].id
    BY <1>2 DEF IdsOf
  <2>3. \A i \in 1 .. (Len(messages) + 1) : i \in 1 .. Len(messages) \/ i = Len(messages) + 1
    BY <1>2
  <2>4. Len(messages) + 1 \in 1 .. (Len(messages) + 1)
        /\ \A i \in 1 .. Len(messages) : i \in 1 .. (Len(messages) + 1)
    BY <1>2
  <2>5. \A i \in 1 .. Len(messages) : longer[i].id = messages[i].id
    BY <1>2
  <2>6. longer[Len(messages) + 1].id = id
    BY <1>1, <1>2
  <2> HIDE DEF longer, new
  <2>7. \A x : x \in IdsOf(longer) <=> x \in IdsOf(messages) \cup {id}
    BY <2>1, <2>2, <2>3, <2>4, <2>5, <2>6
  <2> QED
    BY <2>7
<1>4. \A i \in DOMAIN longer :
          longer[i].read =>
              i \in DOMAIN messages /\ messages[i].read /\ longer[i].id = messages[i].id
  BY <1>1, <1>2
<1> QED
  BY <1>2, <1>3, <1>4

-----------------------------------------------------------------------------
(* Types and mutual exclusion.                                             *)

LEMMA MutexInit == Init => MutexInv
<1> SUFFICES ASSUME Init PROVE Types /\ Begun /\ Exclusive
  BY DEF MutexInv
<1>1. /\ faulty = ~exists /\ exists \in BOOLEAN /\ torn = FALSE /\ inbox = <<>>
      /\ lock = NoProc /\ pc = [p \in Procs |-> "idle"] /\ buffer = [p \in Procs |-> <<>>]
      /\ count = [s \in Senders |-> 0] /\ sent = {} /\ current = NoId /\ delivered = <<>>
  BY DEF Init
<1>2. Owner \in Procs /\ \A s \in Senders : s \in Procs
  BY DEF Procs
<1>3. Types
  <2>1. 0 \in 0 .. MaxSends /\ <<>> \in Seq(Entry) /\ <<>> \in Seq(Ids)
    BY DEF MailboxAssumption
  <2> QED
    BY <1>1, <2>1 DEF Types, PCs
<1>4. Begun /\ Exclusive
  BY <1>1, <1>2, NamesDiffer DEF Begun, Exclusive, InLock
<1> QED
  BY <1>3, <1>4

\* What a process does to the lock and its own counter, and to nobody else's.
LockMoves(p) ==
    \/ /\ pc[p] \notin InLock /\ lock' = lock
       /\ \E at \in PCs \ InLock : pc' = [pc EXCEPT ![p] = at]
    \/ /\ lock = NoProc /\ lock' = p /\ pc' = [pc EXCEPT ![p] = "locked"]
    \/ /\ pc[p] = "locked" /\ lock' = lock /\ pc' = [pc EXCEPT ![p] = "writing"]
    \/ /\ pc[p] \in InLock /\ lock' = NoProc
       /\ \E at \in PCs \ InLock : pc' = [pc EXCEPT ![p] = at]

LEMMA MovesKeepExclusion ==
  ASSUME MutexInv, NEW p \in Procs, LockMoves(p)
  PROVE  Exclusive' /\ lock' \in Procs \cup {NoProc} /\ pc' \in [Procs -> PCs]
<1>1. /\ pc \in [Procs -> PCs] /\ lock \in Procs \cup {NoProc}
      /\ \A q \in Procs : lock = q <=> pc[q] \in InLock
      /\ InLock \subseteq PCs /\ \A q \in Procs : q # NoProc
  BY NamesDiffer DEF MutexInv, Types, Exclusive, InLock, PCs
<1>2. CASE /\ pc[p] \notin InLock /\ lock' = lock
           /\ \E at \in PCs \ InLock : pc' = [pc EXCEPT ![p] = at]
  BY <1>1, <1>2 DEF Exclusive
<1>3. CASE lock = NoProc /\ lock' = p /\ pc' = [pc EXCEPT ![p] = "locked"]
  <2>1. "locked" \in InLock
    BY DEF InLock
  <2> QED
    BY <1>1, <1>3, <2>1 DEF Exclusive
<1>4. CASE pc[p] = "locked" /\ lock' = lock /\ pc' = [pc EXCEPT ![p] = "writing"]
  <2>1. "locked" \in InLock /\ "writing" \in InLock
    BY DEF InLock
  <2> QED
    BY <1>1, <1>4, <2>1 DEF Exclusive
<1>5. CASE /\ pc[p] \in InLock /\ lock' = NoProc
           /\ \E at \in PCs \ InLock : pc' = [pc EXCEPT ![p] = at]
  BY <1>1, <1>5 DEF Exclusive
<1> QED
  BY <1>2, <1>3, <1>4, <1>5 DEF LockMoves

LEMMA FileMoves ==
  ASSUME NEW p \in Procs, MutexInv
  PROVE  /\ \A messages : Locked(p, messages) => LockMoves(p)
         /\ Truncate(p) => LockMoves(p)
         /\ WriteBack(p) => LockMoves(p)
         /\ GiveUp(p) => LockMoves(p)
<1> USE DEF InLock, PCs, Goto
<1>1. ASSUME NEW messages, Locked(p, messages) PROVE LockMoves(p)
  BY <1>1 DEF Locked, LockFree, LockMoves
<1>2. ASSUME Truncate(p) PROVE LockMoves(p)
  BY <1>2 DEF Truncate, LockMoves
<1>3. ASSUME WriteBack(p) PROVE LockMoves(p)
  BY <1>3 DEF WriteBack, LockMoves
<1>4. ASSUME GiveUp(p) PROVE LockMoves(p)
  BY <1>4 DEF GiveUp, LockMoves
<1> QED
  BY <1>1, <1>2, <1>3, <1>4

LEMMA NextMoves ==
  ASSUME MutexInv, Next
  PROVE  \E p \in Procs : LockMoves(p)
<1> USE DEF InLock, PCs, Goto
<1>1. Owner \in Procs /\ \A s \in Senders : s \in Procs
  BY DEF Procs
<1>2. ASSUME NEW s \in Senders, SendBegins(s) PROVE LockMoves(s)
  <2>1. /\ pc[s] = "idle" /\ lock' = lock
        /\ \/ pc' = [pc EXCEPT ![s] = "locking"] \/ pc' = [pc EXCEPT ![s] = "creating"]
    BY <1>2 DEF SendBegins
  <2> QED
    BY <2>1 DEF LockMoves
<1>3. ASSUME NEW s \in Senders, SendCreates(s) PROVE LockMoves(s)
  <2>1. /\ pc[s] \in {"creating", "created"} /\ lock' = lock
        /\ \/ pc' = [pc EXCEPT ![s] = "locking"] \/ pc' = [pc EXCEPT ![s] = "created"]
    BY <1>3 DEF SendCreates
  <2> QED
    BY <2>1 DEF LockMoves
<1>4. ASSUME NEW s \in Senders, SendLocks(s) \/ SendTruncates(s) \/ SendReturns(s)
      PROVE  LockMoves(s)
  BY <1>1, <1>4, FileMoves DEF SendLocks, SendTruncates, SendReturns
<1>5. ASSUME NEW s \in Senders, Crash(s) PROVE LockMoves(s)
  <2>1. /\ pc' = [pc EXCEPT ![s] = "dead"] /\ (lock = s <=> pc[s] \in InLock)
        /\ lock' = IF lock = s THEN NoProc ELSE lock
    BY <1>1, <1>5 DEF Crash, MutexInv, Exclusive
  <2> QED
    BY <2>1 DEF LockMoves
<1>6. ASSUME Poll PROVE LockMoves(Owner)
  BY <1>6 DEF Poll, LockMoves
<1>7. ASSUME MarkLocks \/ MarkTruncates PROVE LockMoves(Owner)
  BY <1>1, <1>7, FileMoves DEF MarkLocks, MarkTruncates
<1>8. ASSUME Deliver PROVE LockMoves(Owner)
  <2>1. CASE NothingToMark
    BY <2>1 DEF NothingToMark, LockMoves
  <2> QED
    BY <1>1, <1>8, <2>1, FileMoves DEF Deliver
<1> QED
  BY <1>1, <1>2, <1>3, <1>4, <1>5, <1>6, <1>7, <1>8 DEF Next, SenderStep, OwnerStep

\* The messages that a process is about to write are messages of the inbox's type.
LEMMA NextTypes ==
  ASSUME MutexInv, Next
  PROVE  Types'
<1>1. Types /\ Begun /\ Owner \in Procs /\ \A s \in Senders : s \in Procs
  BY DEF MutexInv, Procs
<1>2. lock' \in Procs \cup {NoProc} /\ pc' \in [Procs -> PCs]
  BY NextMoves, MovesKeepExclusion
<1>3. ASSUME NEW s \in Senders, SendBegins(s) \/ SendCreates(s) PROVE Types'
  <2>1. /\ UNCHANGED <<buffer, sent, current, delivered, faulty>>
        /\ exists' \in BOOLEAN /\ torn' \in BOOLEAN /\ (inbox' = inbox \/ inbox' = <<>>)
        /\ count' = count \/ (count[s] < MaxSends /\ count' = [count EXCEPT ![s] = @ + 1])
    <3>1. CASE SendBegins(s)
      BY <1>1, <3>1 DEF SendBegins, fileVars, Types
    <3>2. CASE SendCreates(s)
      <4>1. /\ UNCHANGED <<buffer, count, sent, current, delivered, faulty>>
            /\ exists' = TRUE \/ exists' = exists
            /\ torn' \in BOOLEAN /\ (inbox' = inbox \/ inbox' = <<>>)
        BY <3>2 DEF SendCreates
      <4> QED
        BY <1>1, <4>1 DEF Types
    <3> QED
      BY <1>3, <3>1, <3>2
  <2>2. inbox' \in Seq(Entry)
    <3>1. <<>> \in Seq(Entry) /\ inbox \in Seq(Entry)
      BY <1>1 DEF Types
    <3> QED
      BY <2>1, <3>1
  <2>3. count' \in [Senders -> 0 .. MaxSends]
    <3>1. count \in [Senders -> 0 .. MaxSends] /\ MaxSends \in Nat
      BY <1>1 DEF Types, MailboxAssumption
    <3>2. count[s] < MaxSends => count[s] + 1 \in 0 .. MaxSends
      BY <3>1
    <3> QED
      BY <2>1, <3>1, <3>2
  <2> QED
    BY <1>1, <1>2, <2>1, <2>2, <2>3 DEF Types
<1>4. ASSUME NEW s \in Senders, SendLocks(s) PROVE Types'
  <2>1. pc[s] = "locking" /\ UNCHANGED <<fileVars, faulty, count, sent, current, delivered>>
        /\ buffer' = [buffer EXCEPT ![s] =
                         Append(ReadMailbox, [id |-> Message(s), read |-> FALSE])]
    BY <1>4 DEF SendLocks, Locked
  <2>2. Message(s) \in Ids
    BY <1>1, <2>1 DEF Begun
  <2>3. Append(ReadMailbox, [id |-> Message(s), read |-> FALSE]) \in Seq(Entry)
    BY <1>1, <2>2, ReadsEntries, AppendKeeps
  <2> QED
    BY <1>1, <1>2, <2>1, <2>3 DEF Types, fileVars
<1>5. ASSUME NEW p \in Procs, Truncate(p), UNCHANGED <<count, sent, current, delivered>>
      PROVE  Types'
  BY <1>1, <1>2, <1>5 DEF Truncate, Types
<1>6. ASSUME NEW s \in Senders, SendReturns(s) PROVE Types'
  <2>1. Message(s) \in Ids
    BY <1>1, <1>6 DEF SendReturns, WriteBack, GiveUp, Begun
  <2>2. /\ UNCHANGED <<exists, buffer, count, current, delivered>>
        /\ torn' \in BOOLEAN /\ faulty' \in BOOLEAN /\ inbox' \in Seq(Entry)
        /\ sent' = sent \cup {Message(s)}
    <3>1. CASE WriteBack(s)
      BY <1>1, <1>6, <3>1 DEF SendReturns, WriteBack, Types
    <3>2. CASE GiveUp(s)
      BY <1>1, <1>6, <3>2 DEF SendReturns, GiveUp, Types, fileVars
    <3> QED
      BY <1>6, <3>1, <3>2 DEF SendReturns
  <2> QED
    BY <1>1, <1>2, <2>1, <2>2 DEF Types
<1>7. ASSUME NEW s \in Senders, Crash(s) PROVE Types'
  BY <1>1, <1>2, <1>7 DEF Crash, Types, fileVars
<1>8. ASSUME Poll PROVE Types'
  <2>1. PICK i \in DOMAIN ReadMailbox : current' = ReadMailbox[i].id
    BY <1>8 DEF Poll
  <2>2. ReadMailbox[i] \in Entry
    BY <1>1, <2>1, ReadsEntries
  <2> QED
    BY <1>1, <1>2, <1>8, <2>1, <2>2 DEF Poll, Types, fileVars, Entry
<1>9. ASSUME MarkLocks PROVE Types'
  <2>1. UNCHANGED <<fileVars, faulty, count, sent, current, delivered>>
        /\ buffer' = [buffer EXCEPT ![Owner] = Marked(ReadMailbox, current)]
    BY <1>9 DEF MarkLocks, Locked
  <2>2. Marked(ReadMailbox, current) \in Seq(Entry)
    BY <1>1, ReadsEntries, MarkedKeeps
  <2> QED
    BY <1>1, <1>2, <2>1, <2>2 DEF Types, fileVars
<1>10. ASSUME Deliver PROVE Types'
  <2>1. current \in Ids
    BY <1>1, <1>10 DEF Deliver, WriteBack, GiveUp, NothingToMark, Begun
  <2>2. /\ UNCHANGED <<exists, buffer, count, sent>> /\ current' = NoId
        /\ torn' \in BOOLEAN /\ faulty' \in BOOLEAN /\ inbox' \in Seq(Entry)
        /\ delivered' = Append(delivered, current)
    <3>1. CASE WriteBack(Owner)
      BY <1>1, <1>10, <3>1 DEF Deliver, WriteBack, Types
    <3>2. CASE GiveUp(Owner)
      BY <1>1, <1>10, <3>2 DEF Deliver, GiveUp, Types, fileVars
    <3>3. CASE NothingToMark
      BY <1>1, <1>10, <3>3 DEF Deliver, NothingToMark, Types, fileVars
    <3> QED
      BY <1>10, <3>1, <3>2, <3>3 DEF Deliver
  <2> QED
    BY <1>1, <1>2, <2>1, <2>2 DEF Types
<1> QED
  BY <1>1, <1>3, <1>4, <1>5, <1>6, <1>7, <1>8, <1>9, <1>10
     DEF Next, SenderStep, OwnerStep, SendTruncates, MarkTruncates

LEMMA NextBegun ==
  ASSUME MutexInv, Next
  PROVE  Begun'
<1> USE DEF Goto
<1>1. /\ Types /\ Begun /\ pc \in [Procs -> PCs] /\ count \in [Senders -> 0 .. MaxSends]
      /\ Owner \in Procs /\ \A s \in Senders : s \in Procs /\ s # Owner
  BY NamesDiffer DEF MutexInv, Procs, Types
<1>2. ASSUME NEW s \in Senders, SendBegins(s) PROVE Begun'
  <2>1. /\ pc[s] = "idle" /\ count[s] < MaxSends /\ UNCHANGED current
        /\ count' = [count EXCEPT ![s] = @ + 1]
        /\ \E at \in PCs : pc' = [pc EXCEPT ![s] = at]
    BY <1>2 DEF SendBegins, PCs
  <2>2. ASSUME NEW q \in Senders, pc'[q] \notin {"idle", "dead"} PROVE Message(q)' \in Ids
    <3>1. CASE q = s
      <4>1. count'[s] \in 1 .. MaxSends
        BY <1>1, <2>1 DEF MailboxAssumption
      <4> QED
        BY <3>1, <4>1 DEF Message, Ids
    <3>2. CASE q # s
      BY <1>1, <2>1, <2>2, <3>2 DEF Begun, Message
    <3> QED
      BY <3>1, <3>2
  <2> QED
    BY <1>1, <2>1, <2>2 DEF Begun
<1>3. ASSUME NEW s \in Senders, SenderStep(s) \/ Crash(s) PROVE Begun'
  <2>1. /\ pc[s] \notin {"idle", "dead"} /\ UNCHANGED <<count, current>>
        /\ \E at \in PCs : pc' = [pc EXCEPT ![s] = at]
    <3>1. CASE SendCreates(s)
      BY <3>1 DEF SendCreates, PCs
    <3>2. CASE SendLocks(s) \/ SendTruncates(s)
      BY <3>2 DEF SendLocks, SendTruncates, Locked, Truncate, PCs
    <3>3. CASE SendReturns(s)
      BY <3>3 DEF SendReturns, WriteBack, GiveUp, PCs
    <3>4. CASE Crash(s)
      BY <3>4 DEF Crash, PCs
    <3> QED
      BY <1>3, <3>1, <3>2, <3>3, <3>4 DEF SenderStep
  <2>2. \A q \in Senders : pc'[q] \notin {"idle", "dead"} => pc[q] \notin {"idle", "dead"}
    BY <1>1, <2>1
  <2>3. pc'[Owner] = pc[Owner]
    BY <1>1, <2>1
  <2> QED
    BY <1>1, <2>1, <2>2, <2>3 DEF Begun, Message
<1>4. ASSUME OwnerStep PROVE Begun'
  <2>1. /\ UNCHANGED count
        /\ \A q \in Senders : pc'[q] = pc[q]
        /\ \/ pc'[Owner] = "idle" /\ current' = NoId
           \/ pc'[Owner] # "idle" /\ current' \in Ids
    <3>1. CASE Poll
      <4>1. PICK i \in DOMAIN ReadMailbox : current' = ReadMailbox[i].id
        BY <3>1 DEF Poll
      <4>2. ReadMailbox[i] \in Entry
        BY <1>1, <4>1, ReadsEntries
      <4> QED
        BY <1>1, <3>1, <4>1, <4>2 DEF Poll, Entry
    <3>2. CASE MarkLocks \/ MarkTruncates
      BY <1>1, <3>2 DEF MarkLocks, MarkTruncates, Locked, Truncate, Begun
    <3>3. CASE Deliver
      BY <1>1, <3>3 DEF Deliver, WriteBack, GiveUp, NothingToMark
    <3> QED
      BY <1>4, <3>1, <3>2, <3>3 DEF OwnerStep
  <2> QED
    BY <1>1, <2>1 DEF Begun, Message
<1> QED
  BY <1>2, <1>3, <1>4 DEF Next

LEMMA MutexStep ==
  ASSUME MutexInv, [Next]_vars
  PROVE  MutexInv'
<1>1. CASE Next
  BY <1>1, NextMoves, MovesKeepExclusion, NextTypes, NextBegun DEF MutexInv
<1>2. CASE UNCHANGED vars
  BY <1>2 DEF vars, fileVars, MutexInv, Types, Begun, Message, Exclusive
<1> QED
  BY <1>1, <1>2

-----------------------------------------------------------------------------
(* Nothing is lost: without a fault the file is torn only while the holder *)
(* of the lock writes, and what it writes holds everything that was sent.  *)

NothingLost ==
    ~faulty =>
        /\ exists
        /\ \A p \in Procs : pc[p] \notin {"creating", "created", "dead"}
        /\ torn <=> \E p \in Procs : pc[p] = "writing"
        /\ ~torn => sent \subseteq IdsOf(inbox)
        /\ \A p \in Procs : pc[p] \in InLock => sent \subseteq IdsOf(buffer[p])
        /\ \A s \in Senders : pc[s] \in InLock => Message(s) \in IdsOf(buffer[s])

LEMMA LostInit == Init => NothingLost
<1> SUFFICES ASSUME Init, ~faulty PROVE NothingLost
  BY DEF NothingLost
<1>1. exists /\ torn = FALSE /\ sent = {} /\ \A p \in Procs : pc[p] = "idle"
  BY DEF Init
<1>2. \A s \in Senders : s \in Procs
  BY DEF Procs
<1> QED
  BY <1>1, <1>2 DEF NothingLost, InLock

\* A step that leaves the file and the lock alone, and sends nothing.
LEMMA LostQuiet ==
  ASSUME MutexInv, NothingLost, NEW p \in Procs, NEW at \in {"idle", "locking"},
         pc[p] \notin InLock, pc' = [pc EXCEPT ![p] = at], faulty' = faulty,
         UNCHANGED <<fileVars, buffer, sent>>,
         \A s \in Senders : s # p => count'[s] = count[s]
  PROVE  NothingLost'
<1> SUFFICES ASSUME ~faulty' PROVE NothingLost'
  BY DEF NothingLost
<1>1. /\ exists /\ \A q \in Procs : pc[q] \notin {"creating", "created", "dead"}
      /\ torn <=> \E q \in Procs : pc[q] = "writing"
      /\ ~torn => sent \subseteq IdsOf(inbox)
      /\ \A q \in Procs : pc[q] \in InLock => sent \subseteq IdsOf(buffer[q])
      /\ \A s \in Senders : pc[s] \in InLock => Message(s) \in IdsOf(buffer[s])
  BY DEF NothingLost
<1>2. /\ pc \in [Procs -> PCs] /\ at \notin InLock /\ at \notin {"creating", "created", "dead"}
      /\ \A s \in Senders : s \in Procs
  BY DEF MutexInv, Types, InLock, Procs
<1>3. /\ \A q \in Procs : pc'[q] \in InLock => q # p /\ pc[q] \in InLock
      /\ \A q \in Procs : pc'[q] = "writing" <=> pc[q] = "writing"
      /\ \A q \in Procs : pc'[q] \notin {"creating", "created", "dead"}
  BY <1>1, <1>2 DEF InLock
<1>4. \A s \in Senders : pc'[s] \in InLock => Message(s)' = Message(s)
  BY <1>2, <1>3 DEF Message
<1> QED
  BY <1>1, <1>2, <1>3, <1>4 DEF NothingLost, fileVars

\* Whoever takes the lock reads everything that was sent.
LEMMA LostLocked ==
  ASSUME MutexInv, NothingLost, NEW p \in Procs, NEW messages,
         Locked(p, messages), UNCHANGED <<count, sent>>,
         IdsOf(ReadMailbox) \subseteq IdsOf(messages),
         p \in Senders => Message(p) \in IdsOf(messages)
  PROVE  NothingLost'
<1> SUFFICES ASSUME ~faulty' PROVE NothingLost'
  BY DEF NothingLost
<1>1. /\ lock = NoProc /\ pc' = [pc EXCEPT ![p] = "locked"]
      /\ buffer' = [buffer EXCEPT ![p] = messages]
      /\ UNCHANGED <<exists, torn, inbox, faulty>>
  BY DEF Locked, LockFree, Goto, fileVars
<1>2. /\ exists /\ \A q \in Procs : pc[q] \notin {"creating", "created", "dead"}
      /\ torn <=> \E q \in Procs : pc[q] = "writing"
      /\ ~torn => sent \subseteq IdsOf(inbox)
  BY <1>1 DEF NothingLost
<1>3. /\ pc \in [Procs -> PCs] /\ buffer \in [Procs -> Seq(Entry)]
      /\ \A s \in Senders : s \in Procs
      /\ \A q \in Procs : pc[q] \notin InLock
  BY <1>1, NamesDiffer DEF MutexInv, Types, Exclusive, Procs
<1>4. ~torn /\ ReadMailbox = inbox /\ sent \subseteq IdsOf(messages)
  BY <1>2, <1>3 DEF InLock, ReadMailbox
<1>5. /\ pc'[p] = "locked" /\ buffer'[p] = messages
      /\ \A q \in Procs : q # p => pc'[q] = pc[q]
  BY <1>1, <1>3
<1>6. \A q \in Procs : pc'[q] \in InLock => q = p
  BY <1>3, <1>5
<1>7. \A s \in Senders : Message(s)' = Message(s)
  BY DEF Message
<1>8. /\ \A q \in Procs : pc'[q] \notin {"creating", "created", "dead", "writing"}
  BY <1>2, <1>3, <1>5 DEF InLock
<1> QED
  BY <1>1, <1>2, <1>3, <1>4, <1>5, <1>6, <1>7, <1>8 DEF NothingLost

LEMMA LostTruncate ==
  ASSUME MutexInv, NothingLost, NEW p \in Procs, Truncate(p), UNCHANGED <<count, sent>>
  PROVE  NothingLost'
<1> SUFFICES ASSUME ~faulty' PROVE NothingLost'
  BY DEF NothingLost
<1>1. /\ pc[p] = "locked" /\ pc' = [pc EXCEPT ![p] = "writing"] /\ exists' = TRUE /\ torn' = TRUE
      /\ UNCHANGED <<buffer, faulty, sent>> /\ pc \in [Procs -> PCs]
      /\ \A s \in Senders : s \in Procs
  BY DEF Truncate, Goto, MutexInv, Types, Procs
<1>2. /\ \A q \in Procs : pc[q] \notin {"creating", "created", "dead"}
      /\ \A q \in Procs : pc[q] \in InLock => sent \subseteq IdsOf(buffer[q])
      /\ \A s \in Senders : pc[s] \in InLock => Message(s) \in IdsOf(buffer[s])
  BY <1>1 DEF NothingLost
<1>3. /\ pc'[p] = "writing"
      /\ \A q \in Procs : pc'[q] \in InLock => pc[q] \in InLock
      /\ \A q \in Procs : pc'[q] \notin {"creating", "created", "dead"}
  BY <1>1, <1>2 DEF InLock
<1>4. \A s \in Senders : Message(s)' = Message(s)
  BY DEF Message
<1> QED
  BY <1>1, <1>2, <1>3, <1>4 DEF NothingLost

\* The lock is released, with the file written or left alone.
LEMMA LostReleased ==
  ASSUME MutexInv, NothingLost, NEW p \in Procs, pc[p] \in InLock,
         pc' = [pc EXCEPT ![p] = "idle"], UNCHANGED <<exists, buffer, count, faulty>>,
         \/ pc[p] = "writing" /\ torn' = FALSE /\ inbox' = buffer[p]
         \/ pc[p] = "locked" /\ UNCHANGED <<torn, inbox>>,
         \/ sent' = sent
         \/ p \in Senders /\ pc[p] = "writing" /\ sent' = sent \cup {Message(p)}
  PROVE  NothingLost'
<1> SUFFICES ASSUME ~faulty' PROVE NothingLost'
  BY DEF NothingLost
<1>1. /\ exists /\ \A q \in Procs : pc[q] \notin {"creating", "created", "dead"}
      /\ torn <=> \E q \in Procs : pc[q] = "writing"
      /\ ~torn => sent \subseteq IdsOf(inbox)
      /\ sent \subseteq IdsOf(buffer[p])
      /\ p \in Senders => Message(p) \in IdsOf(buffer[p])
  BY DEF NothingLost
<1>2. /\ pc \in [Procs -> PCs] /\ \A s \in Senders : s \in Procs
      /\ \A q \in Procs : pc[q] \in InLock => q = p
  BY DEF MutexInv, Types, Exclusive, Procs
<1>3. /\ pc'[p] = "idle" /\ \A q \in Procs : q # p => pc'[q] = pc[q]
  BY <1>2
<1>4. /\ \A q \in Procs : pc'[q] \notin InLock
      /\ \A q \in Procs : pc'[q] \notin {"creating", "created", "dead", "writing"}
  BY <1>1, <1>2, <1>3 DEF InLock
<1>5. ~torn' /\ sent' \subseteq IdsOf(inbox')
  <2>1. CASE pc[p] = "writing"
    BY <1>1, <2>1
  <2>2. CASE pc[p] = "locked"
    <3>1. \A q \in Procs : pc[q] # "writing"
      BY <1>2, <2>2 DEF InLock
    <3> QED
      BY <1>1, <2>2, <3>1
  <2> QED
    BY <2>1, <2>2 DEF InLock
<1>6. IdsOf(inbox)' = IdsOf(inbox')
  BY DEF IdsOf
<1> QED
  BY <1>1, <1>2, <1>4, <1>5, <1>6 DEF NothingLost

LEMMA LostStep ==
  ASSUME MutexInv, NothingLost, [Next]_vars
  PROVE  NothingLost'
<1> USE DEF Goto
<1>1. /\ Types /\ Begun /\ Owner \in Procs /\ Owner \notin Senders
      /\ \A s \in Senders : s \in Procs /\ s # Owner
  BY NamesDiffer DEF MutexInv, Procs
<1>2. ASSUME faulty' PROVE NothingLost'
  BY <1>2 DEF NothingLost
<1>3. ASSUME NEW s \in Senders, SendBegins(s) PROVE NothingLost'
  <2>1. CASE exists
    <3>1. /\ pc[s] = "idle" /\ pc' = [pc EXCEPT ![s] = "locking"]
          /\ UNCHANGED <<fileVars, buffer, sent, faulty>>
          /\ \A q \in Senders : q # s => count'[q] = count[q]
      BY <1>1, <1>3, <2>1 DEF SendBegins, Types
    <3> QED
      BY <1>1, <3>1, LostQuiet DEF InLock
  <2>2. CASE ~exists
    BY <1>3, <2>2 DEF SendBegins, NothingLost
  <2> QED
    BY <2>1, <2>2
<1>4. ASSUME NEW s \in Senders, SendCreates(s) PROVE NothingLost'
  BY <1>1, <1>4 DEF SendCreates, NothingLost
<1>5. ASSUME NEW s \in Senders, SendLocks(s) PROVE NothingLost'
  <2>1. Locked(s, Append(ReadMailbox, [id |-> Message(s), read |-> FALSE]))
        /\ pc[s] = "locking" /\ UNCHANGED <<count, sent>>
    BY <1>5 DEF SendLocks, Locked
  <2>2. Message(s) \in Ids
    BY <1>1, <2>1 DEF Begun
  <2>3. IdsOf(Append(ReadMailbox, [id |-> Message(s), read |-> FALSE]))
            = IdsOf(ReadMailbox) \cup {Message(s)}
    BY <1>1, <2>2, ReadsEntries, AppendKeeps
  <2> QED
    BY <1>1, <2>1, <2>3, LostLocked
<1>6. ASSUME NEW s \in Senders, SendTruncates(s) PROVE NothingLost'
  BY <1>1, <1>6, LostTruncate DEF SendTruncates
<1>7. ASSUME NEW s \in Senders, SendReturns(s) PROVE NothingLost'
  <2>1. CASE WriteBack(s)
    <3>1. /\ pc[s] = "writing" /\ torn' = FALSE /\ inbox' = buffer[s]
          /\ pc' = [pc EXCEPT ![s] = "idle"] /\ UNCHANGED <<exists, buffer, count, faulty>>
          /\ sent' = sent \cup {Message(s)}
      BY <1>7, <2>1 DEF SendReturns, WriteBack
    <3> QED
      BY <1>1, <3>1, LostReleased DEF InLock
  <2> QED
    BY <1>2, <1>7, <2>1 DEF SendReturns, GiveUp
<1>8. ASSUME NEW s \in Senders, Crash(s) PROVE NothingLost'
  BY <1>2, <1>8 DEF Crash
<1>9. ASSUME Poll PROVE NothingLost'
  <2>1. /\ pc[Owner] = "idle" /\ pc' = [pc EXCEPT ![Owner] = "locking"]
        /\ UNCHANGED <<fileVars, buffer, sent, faulty, count>>
    BY <1>9 DEF Poll
  <2> QED
    BY <1>1, <2>1, LostQuiet DEF InLock
<1>10. ASSUME MarkLocks PROVE NothingLost'
  <2>1. IdsOf(Marked(ReadMailbox, current)) = IdsOf(ReadMailbox)
    BY <1>1, ReadsEntries, MarkedKeeps
  <2> QED
    BY <1>1, <1>10, <2>1, LostLocked DEF MarkLocks
<1>11. ASSUME MarkTruncates PROVE NothingLost'
  BY <1>1, <1>11, LostTruncate DEF MarkTruncates
<1>12. ASSUME Deliver PROVE NothingLost'
  <2>1. CASE WriteBack(Owner)
    <3>1. /\ pc[Owner] = "writing" /\ torn' = FALSE /\ inbox' = buffer[Owner]
          /\ pc' = [pc EXCEPT ![Owner] = "idle"]
          /\ UNCHANGED <<exists, buffer, count, faulty, sent>>
      BY <1>12, <2>1 DEF Deliver, WriteBack
    <3> QED
      BY <1>1, <3>1, LostReleased DEF InLock
  <2>2. CASE NothingToMark
    <3>1. /\ pc[Owner] = "locked" /\ pc' = [pc EXCEPT ![Owner] = "idle"]
          /\ UNCHANGED <<exists, torn, inbox, buffer, count, faulty, sent>>
      BY <1>12, <2>2 DEF Deliver, NothingToMark, fileVars
    <3> QED
      BY <1>1, <3>1, LostReleased DEF InLock
  <2> QED
    BY <1>2, <1>12, <2>1, <2>2 DEF Deliver, GiveUp
<1>13. CASE UNCHANGED vars
  BY <1>13 DEF vars, fileVars, NothingLost, Message
<1> QED
  BY <1>3, <1>4, <1>5, <1>6, <1>7, <1>8, <1>9, <1>10, <1>11, <1>12, <1>13
     DEF Next, SenderStep, OwnerStep

-----------------------------------------------------------------------------
(* What is marked as read was, or is about to be, handed to the agent.     *)

ReadOnes(messages) == {messages[i].id : i \in {j \in DOMAIN messages : messages[j].read}}
Handed == {current} \cup {delivered[k] : k \in DOMAIN delivered}

ReadInv ==
    /\ ReadOnes(inbox) \subseteq Handed
    /\ \A p \in Procs : ReadOnes(buffer[p]) \subseteq Handed

LEMMA ReadInit == Init => ReadInv
<1>1. ReadOnes(<<>>) = {}
  BY DEF ReadOnes
<1> QED
  BY <1>1 DEF Init, ReadInv

\* What was handed over stays so.
LEMMA HandedGrows ==
  ASSUME MutexInv, [Next]_vars
  PROVE  \A id \in Ids : id \in Handed => id \in Handed'
<1>1. Types /\ Begun /\ delivered \in Seq(Ids)
  BY DEF MutexInv, Types
<1>2. CASE UNCHANGED <<current, delivered>>
  BY <1>2 DEF Handed
<1>3. CASE Poll
  <2>1. delivered' = delivered /\ current = NoId
    BY <1>1, <1>3 DEF Poll, Begun
  <2> QED
    BY <2>1, NamesDiffer DEF Handed
<1>4. CASE Deliver
  <2>1. delivered' = Append(delivered, current)
    BY <1>4 DEF Deliver
  <2>2. current \in Ids
    BY <1>1, <1>4 DEF Deliver, WriteBack, GiveUp, NothingToMark, Begun
  <2>3. /\ Len(delivered) \in Nat /\ DOMAIN delivered = 1 .. Len(delivered)
        /\ DOMAIN delivered' = 1 .. (Len(delivered) + 1)
        /\ \A k \in 1 .. Len(delivered) : delivered'[k] = delivered[k]
        /\ delivered'[Len(delivered) + 1] = current
    BY <1>1, <2>1, <2>2
  <2>4. /\ \A k \in DOMAIN delivered : k \in DOMAIN delivered'
        /\ Len(delivered) + 1 \in DOMAIN delivered'
    BY <2>3
  <2> QED
    BY <2>3, <2>4 DEF Handed
<1> QED
  BY <1>2, <1>3, <1>4
     DEF Next, SenderStep, OwnerStep, SendBegins, SendCreates, SendLocks, SendTruncates,
         SendReturns, Crash, MarkLocks, MarkTruncates, vars

LEMMA ReadStep ==
  ASSUME MutexInv, ReadInv, [Next]_vars
  PROVE  ReadInv'
<1>1. /\ Types /\ Begun /\ Owner \in Procs /\ \A s \in Senders : s \in Procs
      /\ buffer \in [Procs -> Seq(Entry)] /\ inbox \in Seq(Entry)
  BY DEF MutexInv, Types, Procs
<1>2. ASSUME NEW messages \in Seq(Entry) PROVE ReadOnes(messages) \subseteq Ids
  <2>1. \A i \in DOMAIN messages : messages[i] \in Entry
    OBVIOUS
  <2>2. \A e \in Entry : e.id \in Ids
    BY DEF Entry
  <2> QED
    BY <2>1, <2>2 DEF ReadOnes
<1>3. /\ ReadOnes(inbox) \subseteq Handed'
      /\ \A p \in Procs : ReadOnes(buffer[p]) \subseteq Handed'
  BY <1>1, <1>2, HandedGrows DEF ReadInv
<1>4. ReadOnes(<<>>) = {}
  BY DEF ReadOnes
<1>5. ASSUME NEW p \in Procs, NEW messages, buffer' = [buffer EXCEPT ![p] = messages],
             inbox' = inbox, ReadOnes(messages) \subseteq Handed'
      PROVE  ReadInv'
  <2>1. \A q \in Procs : buffer'[q] = buffer[q] \/ buffer'[q] = messages
    BY <1>1, <1>5
  <2> QED
    BY <1>3, <1>5, <2>1 DEF ReadInv
<1>6. ASSUME buffer' = buffer,
             \/ inbox' = inbox \/ inbox' = <<>> \/ \E p \in Procs : inbox' = buffer[p]
      PROVE  ReadInv'
  BY <1>3, <1>4, <1>6 DEF ReadInv
<1>7. ASSUME NEW s \in Senders, SendLocks(s) PROVE ReadInv'
  <2> DEFINE messages == Append(ReadMailbox, [id |-> Message(s), read |-> FALSE])
  <2>1. pc[s] = "locking" /\ inbox' = inbox /\ buffer' = [buffer EXCEPT ![s] = messages]
    BY <1>7 DEF SendLocks, Locked, fileVars
  <2>2. Message(s) \in Ids
    BY <1>1, <2>1 DEF Begun
  <2>3. ReadOnes(messages) \subseteq ReadOnes(ReadMailbox)
    BY <1>1, <2>2, ReadsEntries, AppendKeeps DEF ReadOnes
  <2>4. ReadOnes(ReadMailbox) \subseteq Handed'
    BY <1>3, <1>4 DEF ReadMailbox
  <2> QED
    BY <1>1, <1>5, <2>1, <2>3, <2>4
<1>8. ASSUME MarkLocks PROVE ReadInv'
  <2> DEFINE messages == Marked(ReadMailbox, current)
  <2>1. inbox' = inbox /\ current' = current /\ buffer' = [buffer EXCEPT ![Owner] = messages]
    BY <1>8 DEF MarkLocks, Locked, fileVars
  <2>2. ReadOnes(messages) \subseteq ReadOnes(ReadMailbox) \cup {current}
    <3>1. ReadMailbox \in Seq(Entry)
      BY <1>1, ReadsEntries
    <3>2. \A i \in DOMAIN messages :
              messages[i].read =>
                  \/ messages[i].id = current
                  \/ i \in DOMAIN ReadMailbox /\ ReadMailbox[i].read
                     /\ messages[i].id = ReadMailbox[i].id
      BY <3>1, MarkedKeeps
    <3> HIDE DEF messages
    <3> QED
      BY <3>2 DEF ReadOnes
  <2>3. ReadOnes(ReadMailbox) \cup {current} \subseteq Handed'
    BY <1>3, <1>4, <2>1 DEF ReadMailbox, Handed
  <2> QED
    BY <1>1, <1>5, <2>1, <2>2, <2>3
<1>9. CASE /\ buffer' = buffer
           /\ \/ inbox' = inbox \/ inbox' = <<>> \/ \E p \in Procs : inbox' = buffer[p]
  BY <1>6, <1>9
<1> QED
  BY <1>1, <1>7, <1>8, <1>9
     DEF Next, SenderStep, OwnerStep, SendBegins, SendCreates, SendTruncates, SendReturns,
         Crash, Poll, MarkTruncates, Deliver, Truncate, WriteBack, GiveUp, NothingToMark,
         vars, fileVars

-----------------------------------------------------------------------------
(* DeliveredInOrder.  The read and the write of one process are not one    *)
(* step, the file may be emptied between them by a process that creates    *)
(* it, and a mark may be lost; so the invariant speaks of every list that  *)
(* can still become the inbox: what a reader sees now, and what the holder *)
(* of the lock is about to write.  In each the messages of a sender        *)
(* ascend, an unread one is not behind a delivered one or the current one, *)
(* and the message a sender is still to store is in none.                  *)

NotStored == {"creating", "created", "locking"}
Known(id) == /\ id[2] <= count[id[1]]
             /\ pc[id[1]] \in NotStored => id[2] # count[id[1]]

\* a is delivered before b; only after a fault can it be the same message.
Before(a, b) == a[1] = b[1] => a[2] < b[2] \/ (faulty /\ a[2] = b[2])
NotBehind(a, b) == a[1] = b[1] => a[2] <= b[2]

Ascending(messages) ==
    \A i, j \in DOMAIN messages :
        i < j /\ messages[i].id[1] = messages[j].id[1] => messages[i].id[2] < messages[j].id[2]

Orderly(messages) ==
    /\ Ascending(messages)
    /\ \A i \in DOMAIN messages :
          /\ Known(messages[i].id)
          /\ ~messages[i].read =>
                 /\ \A k \in DOMAIN delivered : Before(delivered[k], messages[i].id)
                 /\ NotBehind(current, messages[i].id)

NewEntry(s) == [id |-> Message(s), read |-> FALSE]

DeliveryInv ==
    /\ current # NoId => Known(current) /\ \A k \in DOMAIN delivered : Before(delivered[k], current)
    /\ \A k \in DOMAIN delivered : Known(delivered[k])
    /\ DeliveredInOrder

OrderInv ==
    /\ Orderly(ReadMailbox)
    /\ \A p \in Procs : pc[p] \in InLock => Orderly(buffer[p])
    /\ \A s \in Senders : pc[s] \in InLock =>
           ReadMailbox = <<>> \/ buffer[s] = Append(ReadMailbox, NewEntry(s))
    /\ pc[Owner] = "locked" /\ buffer[Owner] = <<>> => ReadMailbox = <<>>
    /\ pc[Owner] \in InLock =>
           \A i \in DOMAIN buffer[Owner] : ~buffer[Owner][i].read => buffer[Owner][i].id # current
    /\ DeliveryInv

LEMMA OrderInit == Init => OrderInv
<1> SUFFICES ASSUME Init PROVE OrderInv
  OBVIOUS
<1>1. /\ inbox = <<>> /\ delivered = <<>> /\ current = NoId
      /\ \A p \in Procs : pc[p] = "idle"
  BY DEF Init
<1>2. ReadMailbox = <<>> /\ Owner \in Procs /\ \A s \in Senders : s \in Procs
  BY <1>1 DEF ReadMailbox, Procs
<1> QED
  BY <1>1, <1>2 DEF OrderInv, Orderly, Ascending, InLock, DeliveryInv, DeliveredInOrder

\* A process moves on, and a counter with it only when a message is begun.
LEMMA KnownKept ==
  ASSUME MutexInv, [Next]_vars, NEW id \in Ids, Known(id)
  PROVE  Known(id)'
<1>0. /\ pc \in [Procs -> PCs] /\ count \in [Senders -> 0 .. MaxSends]
      /\ id[1] \in Senders /\ id[2] \in Nat /\ \A s \in Senders : s \in Procs /\ s # Owner
      /\ count[id[1]] \in Nat
  <2>1. pc \in [Procs -> PCs] /\ count \in [Senders -> 0 .. MaxSends] /\ MaxSends \in Nat
    BY DEF MutexInv, Types, MailboxAssumption
  <2> QED
    BY <2>1, NamesDiffer DEF Ids, Procs
<1> USE DEF Known, Goto, NotStored
<1>1. ASSUME NEW s \in Senders, SendBegins(s) PROVE Known(id)'
  <2>1. count' = [count EXCEPT ![s] = @ + 1]
        /\ \E at \in PCs : pc' = [pc EXCEPT ![s] = at]
    BY <1>1 DEF SendBegins, PCs
  <2>2. CASE id[1] = s
    BY <1>0, <2>1, <2>2
  <2>3. CASE id[1] # s
    BY <1>0, <2>1, <2>3
  <2> QED
    BY <2>2, <2>3
<1>2. ASSUME NEW s \in Senders, SenderStep(s) \/ Crash(s) PROVE Known(id)'
  <2>1. /\ UNCHANGED count
        /\ \E at \in PCs : pc' = [pc EXCEPT ![s] = at] /\ (at \in NotStored => pc[s] \in NotStored)
    <3>1. CASE SendCreates(s)
      BY <3>1 DEF SendCreates, PCs
    <3>2. CASE SendLocks(s) \/ SendTruncates(s)
      BY <3>2 DEF SendLocks, SendTruncates, Locked, Truncate, PCs
    <3>3. CASE SendReturns(s)
      BY <3>3 DEF SendReturns, WriteBack, GiveUp, PCs
    <3>4. CASE Crash(s)
      BY <3>4 DEF Crash, PCs
    <3> QED
      BY <1>2, <3>1, <3>2, <3>3, <3>4 DEF SenderStep
  <2> QED
    BY <1>0, <2>1
<1>3. ASSUME OwnerStep PROVE Known(id)'
  <2>1. UNCHANGED count /\ \A s \in Senders : pc'[s] = pc[s]
    BY <1>0, <1>3 DEF OwnerStep, Poll, MarkLocks, MarkTruncates, Deliver, Locked, Truncate,
                      WriteBack, GiveUp, NothingToMark
  <2> QED
    BY <1>0, <2>1
<1> QED
  BY <1>1, <1>2, <1>3 DEF Next, vars

LEMMA FaultStays ==
  ASSUME [Next]_vars, faulty
  PROVE  faulty'
  BY DEF Next, SenderStep, OwnerStep, SendBegins, SendCreates, SendLocks, SendTruncates,
         SendReturns, Crash, Poll, MarkLocks, MarkTruncates, Deliver, Locked, Truncate,
         WriteBack, GiveUp, NothingToMark, vars

\* The ids of a list.
LEMMA EntryIds ==
  ASSUME NEW messages \in Seq(Entry), NEW i \in DOMAIN messages
  PROVE  /\ messages[i].id \in Ids /\ messages[i].id[1] \in Senders /\ messages[i].id[2] \in Nat
         /\ messages[i].read \in BOOLEAN
<1>1. messages[i] \in Entry
  OBVIOUS
<1> QED
  BY <1>1 DEF Entry, Ids

\* A list stays orderly while nothing is polled and nothing is delivered.
LEMMA OrderlyKept ==
  ASSUME MutexInv, [Next]_vars, UNCHANGED <<current, delivered>>,
         NEW messages \in Seq(Entry), Orderly(messages)
  PROVE  Orderly(messages)'
<1>1. \A i \in DOMAIN messages : Known(messages[i].id)'
  BY KnownKept, EntryIds DEF Orderly
<1>2. \A a, b : Before(a, b) => Before(a, b)'
  BY FaultStays DEF Before
<1> QED
  BY <1>1, <1>2 DEF Orderly, Ascending, NotBehind

\* What was delivered stays in order while nothing is polled and nothing is delivered.
LEMMA DeliveryKept ==
  ASSUME MutexInv, DeliveryInv, [Next]_vars, UNCHANGED <<current, delivered>>
  PROVE  DeliveryInv'
<1>1. delivered \in Seq(Ids) /\ current \in Ids \cup {NoId}
  BY DEF MutexInv, Types
<1>2. (current # NoId => Known(current) /\ \A k \in DOMAIN delivered : Before(delivered[k], current))'
  <2>1. ASSUME NEW id \in Ids, id = current PROVE Known(current)'
    <3>1. Known(id)' /\ current' = id
      BY <1>1, <2>1, NamesDiffer, KnownKept DEF DeliveryInv
    <3> QED
      BY <3>1 DEF Known
  <2>2. current # NoId => \A k \in DOMAIN delivered : Before(delivered[k], current)'
    BY FaultStays DEF DeliveryInv, Before
  <2> QED
    BY <1>1, <2>1, <2>2
<1>3. (\A k \in DOMAIN delivered : Known(delivered[k]))'
  <2>1. ASSUME NEW k \in DOMAIN delivered PROVE Known(delivered[k])'
    <3>1. ASSUME NEW id \in Ids, id = delivered[k] PROVE Known(delivered[k])'
      <4>1. Known(id)' /\ delivered'[k] = id
        BY <3>1, KnownKept DEF DeliveryInv
      <4> QED
        BY <4>1 DEF Known
    <3>2. delivered[k] \in Ids
      BY <1>1
    <3> QED
      BY <3>1, <3>2
  <2> QED
    BY <2>1
<1>4. DeliveredInOrder'
  BY FaultStays DEF DeliveryInv, DeliveredInOrder
<1> QED
  BY <1>2, <1>3, <1>4 DEF DeliveryInv

\* The file is left or emptied, and nobody takes the lock.
LEMMA OrderShared ==
  ASSUME MutexInv, OrderInv, [Next]_vars, UNCHANGED <<current, delivered, buffer>>,
         ReadMailbox' = ReadMailbox \/ ReadMailbox' = <<>>,
         \A p \in Procs : pc'[p] \in InLock => pc[p] \in InLock,
         pc'[Owner] = "locked" => pc[Owner] = "locked",
         \A s \in Senders : pc[s] \in InLock => count'[s] = count[s]
  PROVE  OrderInv'
<1>1. /\ Types /\ Begun /\ Owner \in Procs /\ (\A s \in Senders : s \in Procs)
      /\ ReadMailbox \in Seq(Entry) /\ (\A p \in Procs : buffer[p] \in Seq(Entry))
      /\ delivered \in Seq(Ids) /\ current \in Ids \cup {NoId}
  BY ReadsEntries DEF MutexInv, Types, Procs
<1>2. /\ Orderly(ReadMailbox)'
  <2>1. CASE ReadMailbox' = ReadMailbox
    <3>1. \A messages \in Seq(Entry) : Orderly(messages) => Orderly(messages)'
      BY OrderlyKept
    <3>2. ASSUME NEW messages, messages = ReadMailbox PROVE Orderly(ReadMailbox)'
      <4>1. Orderly(messages)' /\ ReadMailbox' = messages
        BY <1>1, <2>1, <3>1, <3>2 DEF OrderInv
      <4> QED
        BY <4>1 DEF Orderly, Ascending
    <3> QED
      BY <3>2
  <2>2. CASE ReadMailbox' = <<>>
    BY <2>2 DEF Orderly, Ascending
  <2> QED
    BY <2>1, <2>2
<1>3. ASSUME NEW p \in Procs, pc'[p] \in InLock PROVE Orderly(buffer[p])'
  <2>1. ASSUME NEW messages, messages = buffer[p] PROVE Orderly(buffer[p])'
    <3>1. Orderly(messages)' /\ buffer'[p] = messages
      BY <1>1, <1>3, <2>1, OrderlyKept DEF OrderInv
    <3> QED
      BY <3>1 DEF Orderly, Ascending
  <2> QED
    BY <2>1
<1>4. ASSUME NEW s \in Senders, pc'[s] \in InLock
      PROVE  (ReadMailbox = <<>> \/ buffer[s] = Append(ReadMailbox, NewEntry(s)))'
  <2>1. NewEntry(s)' = NewEntry(s)
    BY <1>1, <1>4 DEF NewEntry, Message
  <2>2. ReadMailbox = <<>> \/ buffer[s] = Append(ReadMailbox, NewEntry(s))
    BY <1>1, <1>4 DEF OrderInv
  <2> QED
    BY <2>1, <2>2
<1>5. (pc[Owner] = "locked" /\ buffer[Owner] = <<>> => ReadMailbox = <<>>)'
  BY DEF OrderInv
<1>6. (pc[Owner] \in InLock => \A i \in DOMAIN buffer[Owner] :
           ~buffer[Owner][i].read => buffer[Owner][i].id # current)'
  BY <1>1 DEF OrderInv
<1> QED
  BY <1>2, <1>3, <1>4, <1>5, <1>6, DeliveryKept DEF OrderInv

\* A process takes the lock; what it will write is orderly.
LEMMA OrderLocks ==
  ASSUME MutexInv, OrderInv, [Next]_vars, NEW p \in Procs, NEW messages \in Seq(Entry),
         Locked(p, messages), UNCHANGED <<count, current, delivered>>,
         Orderly(messages)',
         p \in Senders => messages = Append(ReadMailbox, NewEntry(p)),
         p = Owner => /\ messages = <<>> => ReadMailbox = <<>>
                      /\ \A i \in DOMAIN messages : ~messages[i].read => messages[i].id # current
  PROVE  OrderInv'
<1>1. /\ pc \in [Procs -> PCs] /\ buffer \in [Procs -> Seq(Entry)] /\ ReadMailbox \in Seq(Entry)
      /\ Owner \in Procs /\ Owner \notin Senders /\ \A s \in Senders : s \in Procs
      /\ \A q \in Procs : pc[q] \notin InLock
  BY ReadsEntries, NamesDiffer DEF MutexInv, Types, Exclusive, Locked, LockFree, Procs
<1>2. /\ buffer' = [buffer EXCEPT ![p] = messages] /\ pc' = [pc EXCEPT ![p] = "locked"]
      /\ ReadMailbox' = ReadMailbox
  BY DEF Locked, Goto, fileVars, ReadMailbox
<1>3. /\ buffer'[p] = messages /\ \A q \in Procs : pc'[q] \in InLock => q = p
  BY <1>1, <1>2
<1>4. Orderly(ReadMailbox)'
  <2>1. ASSUME NEW list, list = ReadMailbox PROVE Orderly(ReadMailbox)'
    <3>1. Orderly(list)' /\ ReadMailbox' = list
      BY <1>1, <1>2, <2>1, OrderlyKept DEF OrderInv
    <3> QED
      BY <3>1 DEF Orderly, Ascending
  <2> QED
    BY <2>1
<1>5. \A q \in Procs : pc'[q] \in InLock => Orderly(buffer[q])'
  <2>1. Orderly(buffer[p])'
    BY <1>3 DEF Orderly, Ascending
  <2> QED
    BY <1>3, <2>1
<1>6. \A s \in Senders : NewEntry(s)' = NewEntry(s)
  BY DEF NewEntry, Message
<1>7. \A s \in Senders : pc'[s] \in InLock =>
         ReadMailbox' = <<>> \/ buffer'[s] = Append(ReadMailbox', NewEntry(s)')
  BY <1>1, <1>2, <1>3, <1>6
<1>8. /\ pc'[Owner] = "locked" /\ buffer'[Owner] = <<>> => ReadMailbox' = <<>>
      /\ pc'[Owner] \in InLock => \A i \in DOMAIN buffer'[Owner] :
             ~buffer'[Owner][i].read => buffer'[Owner][i].id # current'
  BY <1>1, <1>2, <1>3 DEF InLock
<1>9. DeliveryInv'
  BY DeliveryKept DEF OrderInv
<1> QED
  BY <1>4, <1>5, <1>7, <1>8, <1>9 DEF OrderInv

\* A sender appends its new message to what it reads under the lock.
LEMMA OrderSendLocks ==
  ASSUME MutexInv, OrderInv, [Next]_vars, NEW s \in Senders, SendLocks(s)
  PROVE  OrderInv'
<1>1. /\ pc \in [Procs -> PCs] /\ ReadMailbox \in Seq(Entry) /\ delivered \in Seq(Ids)
      /\ count \in [Senders -> 0 .. MaxSends] /\ count[s] \in Nat
      /\ s \in Procs /\ s # Owner /\ pc[s] = "locking" /\ Message(s) \in Ids
      /\ UNCHANGED <<count, current, delivered, faulty>>
      /\ Locked(s, Append(ReadMailbox, NewEntry(s))) /\ pc' = [pc EXCEPT ![s] = "locked"]
  <2>1. pc[s] = "locking" /\ s \in Procs
    BY DEF SendLocks, Locked, Procs
  <2>2. count \in [Senders -> 0 .. MaxSends] /\ MaxSends \in Nat
    BY DEF MutexInv, Types, MailboxAssumption
  <2>3. /\ pc \in [Procs -> PCs] /\ ReadMailbox \in Seq(Entry) /\ delivered \in Seq(Ids)
        /\ s # Owner /\ Message(s) \in Ids
    BY <2>1, ReadsEntries, NamesDiffer DEF MutexInv, Types, Begun
  <2>4. Locked(s, Append(ReadMailbox, NewEntry(s))) /\ UNCHANGED <<count, current, delivered>>
    BY DEF SendLocks, NewEntry
  <2>5. faulty' = faulty /\ pc' = [pc EXCEPT ![s] = "locked"]
    BY <2>4 DEF Locked, Goto
  <2>6. count[s] \in Nat
    BY <2>2
  <2> QED
    BY <2>1, <2>2, <2>3, <2>4, <2>5, <2>6
<1>2. SUFFICES ASSUME NEW messages, messages = Append(ReadMailbox, NewEntry(s))
               PROVE  OrderInv'
  OBVIOUS
<1>3. /\ NewEntry(s) \in Entry /\ NewEntry(s).id = <<s, count[s]>> /\ ~NewEntry(s).read
  BY <1>1 DEF NewEntry, Entry, Message
<1>4. PICK n \in Nat :
         /\ n = Len(ReadMailbox) /\ DOMAIN ReadMailbox = 1 .. n /\ DOMAIN messages = 1 .. (n + 1)
         /\ messages \in Seq(Entry)
         /\ \A i \in 1 .. n : messages[i] = ReadMailbox[i]
         /\ messages[n + 1] = NewEntry(s)
  BY <1>1, <1>2, <1>3
<1>5. \A i \in 1 .. (n + 1) : i \in 1 .. n \/ i = n + 1
  BY <1>4
<1>6. \A i \in 1 .. n :
         /\ messages[i].id \in Ids /\ messages[i].id[1] \in Senders /\ messages[i].id[2] \in Nat
         /\ Known(messages[i].id) /\ Known(messages[i].id)'
         /\ messages[i].id[1] = s => messages[i].id[2] < count[s]
  <2>1. ASSUME NEW i \in 1 .. n
        PROVE  /\ messages[i].id \in Ids /\ messages[i].id[1] \in Senders
               /\ messages[i].id[2] \in Nat /\ Known(messages[i].id)
    BY <1>1, <1>4, EntryIds DEF OrderInv, Orderly
  <2>2. \A i \in 1 .. n : Known(messages[i].id)'
    BY <2>1, KnownKept
  <2>3. ASSUME NEW i \in 1 .. n, messages[i].id[1] = s PROVE messages[i].id[2] < count[s]
    BY <1>1, <2>1, <2>3 DEF Known, NotStored
  <2> QED
    BY <2>1, <2>2, <2>3
<1>7. Ascending(messages)
  <2> SUFFICES ASSUME NEW i \in 1 .. (n + 1), NEW j \in 1 .. (n + 1), i < j,
                      messages[i].id[1] = messages[j].id[1]
               PROVE  messages[i].id[2] < messages[j].id[2]
    BY <1>4 DEF Ascending
  <2>1. i \in 1 .. n
    BY <1>4
  <2>2. CASE j \in 1 .. n
    BY <1>1, <1>4, <2>1, <2>2 DEF OrderInv, Orderly, Ascending
  <2>3. CASE j = n + 1
    BY <1>3, <1>4, <1>6, <2>1, <2>3
  <2> QED
    BY <1>5, <2>2, <2>3
<1>8. /\ Known(messages[n + 1].id)'
      /\ \A k \in DOMAIN delivered : Before(delivered[k], messages[n + 1].id)
      /\ NotBehind(current, messages[n + 1].id)
  <2>2. ASSUME NEW k \in DOMAIN delivered PROVE Before(delivered[k], <<s, count[s]>>)
    <3>1. Known(delivered[k]) /\ delivered[k] \in Ids
      BY <1>1 DEF OrderInv, DeliveryInv
    <3> QED
      BY <1>1, <3>1 DEF Known, NotStored, Before, Ids
  <2>3. NotBehind(current, <<s, count[s]>>)
    <3>1. CASE current = NoId
      BY <1>1, <3>1 DEF NotBehind, NoId
    <3>2. CASE current # NoId
      BY <3>2 DEF OrderInv, DeliveryInv, Known, NotBehind
    <3> QED
      BY <3>1, <3>2
  <2>4. messages[n + 1].id = <<s, count[s]>>
    BY <1>3, <1>4
  <2>1. ASSUME NEW id, id = <<s, count[s]>> PROVE Known(id)'
    BY <1>1, <2>1 DEF Known, NotStored
  <2> QED
    BY <2>1, <2>2, <2>3, <2>4
<1>9. Orderly(messages)'
  <2>1. Ascending(messages)'
    BY <1>7 DEF Ascending
  <2>2. ASSUME NEW i \in 1 .. (n + 1)
        PROVE  /\ Known(messages[i].id)'
               /\ ~messages[i].read =>
                      /\ \A k \in DOMAIN delivered : Before(delivered[k], messages[i].id)
                      /\ NotBehind(current, messages[i].id)
    <3>1. CASE i \in 1 .. n
      BY <1>4, <1>6, <3>1 DEF OrderInv, Orderly
    <3>2. CASE i = n + 1
      BY <1>8, <3>2
    <3> QED
      BY <1>5, <3>1, <3>2
  <2> QED
    BY <1>1, <1>4, <2>1, <2>2 DEF Orderly, Before, NotBehind
<1> QED
  BY <1>1, <1>2, <1>4, <1>9, OrderLocks

\* The owner marks its message in what it reads under the lock.
LEMMA OrderMarkLocks ==
  ASSUME MutexInv, OrderInv, [Next]_vars, MarkLocks
  PROVE  OrderInv'
<1>1. /\ ReadMailbox \in Seq(Entry) /\ Owner \in Procs /\ Owner \notin Senders
      /\ UNCHANGED <<count, current, delivered, faulty>>
      /\ Locked(Owner, Marked(ReadMailbox, current))
  BY ReadsEntries, NamesDiffer DEF MutexInv, Procs, MarkLocks, Locked
<1>2. SUFFICES ASSUME NEW messages, messages = Marked(ReadMailbox, current)
               PROVE  OrderInv'
  OBVIOUS
<1>3. /\ messages \in Seq(Entry) /\ DOMAIN messages = DOMAIN ReadMailbox
      /\ \A i \in DOMAIN messages :
             /\ messages[i].id = ReadMailbox[i].id
             /\ ~messages[i].read => ~ReadMailbox[i].read /\ messages[i].id # current
  <2>1. messages \in Seq(Entry)
    BY <1>1, <1>2, MarkedKeeps
  <2>2. DOMAIN messages = DOMAIN ReadMailbox
    BY <1>2 DEF Marked
  <2>3. \A i \in DOMAIN ReadMailbox : ReadMailbox[i] \in Entry
    BY <1>1
  <2>4. ASSUME NEW i \in DOMAIN ReadMailbox
        PROVE  /\ messages[i].id = ReadMailbox[i].id
               /\ ~messages[i].read => ~ReadMailbox[i].read /\ messages[i].id # current
    BY <1>2, <2>3 DEF Marked, Entry
  <2> QED
    BY <2>1, <2>2, <2>4
<1>4. Orderly(messages)
  BY <1>3 DEF OrderInv, Orderly, Ascending
<1>5. Orderly(messages)'
  BY <1>1, <1>3, <1>4, OrderlyKept
<1>6. messages = <<>> => ReadMailbox = <<>>
  BY <1>1, <1>3
<1> QED
  BY <1>1, <1>2, <1>3, <1>5, <1>6, OrderLocks

\* The holder of the lock writes what it has read and changed.
LEMMA OrderWritten ==
  ASSUME MutexInv, OrderInv, [Next]_vars, NEW s \in Senders, WriteBack(s),
         UNCHANGED <<current, delivered>>
  PROVE  OrderInv'
<1>1. /\ buffer \in [Procs -> Seq(Entry)] /\ Owner \in Procs /\ pc \in [Procs -> PCs]
      /\ s \in Procs /\ (\A q \in Senders : q \in Procs)
      /\ pc[s] \in InLock /\ \A q \in Procs : pc[q] \in InLock => q = s
  BY DEF MutexInv, Types, Exclusive, Procs, WriteBack, InLock
<1>2. /\ pc' = [pc EXCEPT ![s] = "idle"] /\ buffer' = buffer
      /\ ReadMailbox' = buffer[s] \/ ReadMailbox' = <<>>
  BY DEF WriteBack, Goto, ReadMailbox
<1>3. \A q \in Procs : pc'[q] \notin InLock
  BY <1>1, <1>2 DEF InLock
<1>4. Orderly(ReadMailbox)'
  <2>1. CASE ReadMailbox' = buffer[s]
    <3>1. ASSUME NEW list, list = buffer[s] PROVE Orderly(ReadMailbox)'
      <4>1. Orderly(list)' /\ ReadMailbox' = list
        BY <1>1, <2>1, <3>1, OrderlyKept DEF OrderInv
      <4> QED
        BY <4>1 DEF Orderly, Ascending
    <3> QED
      BY <3>1
  <2>2. CASE ReadMailbox' = <<>>
    BY <2>2 DEF Orderly, Ascending
  <2> QED
    BY <1>2, <2>1, <2>2
<1>5. DeliveryInv'
  BY DeliveryKept DEF OrderInv
<1>6. pc'[Owner] # "locked"
  BY <1>1, <1>3 DEF InLock
<1> QED
  BY <1>1, <1>3, <1>4, <1>5, <1>6 DEF OrderInv

\* The owner takes the first unread message of what it sees.
LEMMA OrderPoll ==
  ASSUME MutexInv, OrderInv, [Next]_vars, Poll
  PROVE  OrderInv'
<1>1. /\ buffer \in [Procs -> Seq(Entry)] /\ ReadMailbox \in Seq(Entry) /\ delivered \in Seq(Ids)
      /\ Owner \in Procs /\ Owner \notin Senders /\ (\A s \in Senders : s \in Procs)
      /\ pc \in [Procs -> PCs] /\ pc[Owner] = "idle" /\ pc' = [pc EXCEPT ![Owner] = "locking"]
      /\ UNCHANGED <<fileVars, buffer, count, delivered, faulty>>
  BY ReadsEntries, NamesDiffer DEF MutexInv, Types, Procs, Poll, Goto
<1>2. ReadMailbox' = ReadMailbox
  BY <1>1 DEF fileVars, ReadMailbox
<1>3. PICK i \in DOMAIN ReadMailbox : FirstUnread(ReadMailbox, i) /\ current' = ReadMailbox[i].id
  BY DEF Poll
<1>4. /\ current' \in Ids /\ current'[1] \in Senders /\ current'[2] \in Nat
      /\ Known(current') /\ \A k \in DOMAIN delivered : Before(delivered[k], current')
      /\ ReadMailbox # <<>>
  BY <1>1, <1>3, EntryIds DEF OrderInv, Orderly, FirstUnread
<1>5. \A id \in Ids : Known(id) => Known(id)'
  BY KnownKept
<1>6. ASSUME NEW j \in DOMAIN ReadMailbox, ~ReadMailbox[j].read
      PROVE  NotBehind(current', ReadMailbox[j].id)
  <2>1. i \in Nat /\ j \in Nat /\ ~(j < i)
    <3>1. i \in 1 .. Len(ReadMailbox) /\ j \in 1 .. Len(ReadMailbox) /\ Len(ReadMailbox) \in Nat
      BY <1>1
    <3> QED
      BY <1>3, <1>6, <3>1 DEF FirstUnread
  <2>2. CASE i = j
    BY <1>3, <1>4, <2>2 DEF NotBehind
  <2>3. CASE i < j
    BY <1>1, <1>3, <1>4, <2>3, EntryIds DEF OrderInv, Orderly, Ascending, NotBehind
  <2> QED
    BY <2>1, <2>2, <2>3
<1>7. ASSUME NEW list \in Seq(Entry), Orderly(list),
             \A j \in DOMAIN list : ~list[j].read => NotBehind(current', list[j].id)
      PROVE  Orderly(list)'
  <2>1. \A j \in DOMAIN list : Known(list[j].id)'
    BY <1>5, <1>7, EntryIds DEF Orderly
  <2> QED
    BY <1>1, <1>7, <2>1 DEF Orderly, Ascending, Before, NotBehind
<1>8. Orderly(ReadMailbox)'
  <2>1. ASSUME NEW list, list = ReadMailbox PROVE Orderly(ReadMailbox)'
    <3>1. Orderly(list)' /\ ReadMailbox' = list
      BY <1>1, <1>2, <1>6, <1>7, <2>1 DEF OrderInv
    <3> QED
      BY <3>1 DEF Orderly, Ascending
  <2> QED
    BY <2>1
<1>9. /\ pc'[Owner] = "locking" /\ pc'[Owner] \notin InLock
      /\ \A s \in Senders : pc'[s] = pc[s] /\ NewEntry(s)' = NewEntry(s)
  BY <1>1 DEF InLock, NewEntry, Message
<1>10. ASSUME NEW p \in Procs, pc'[p] \in InLock PROVE Orderly(buffer[p])'
  <2>1. p \in Senders /\ pc[p] \in InLock /\ buffer[p] = Append(ReadMailbox, NewEntry(p))
        /\ buffer[p] \in Seq(Entry)
    BY <1>1, <1>4, <1>9, <1>10 DEF Procs, OrderInv
  <2>2. SUFFICES ASSUME NEW list, list = buffer[p] PROVE Orderly(buffer[p])'
    OBVIOUS
  <2>3. /\ Len(ReadMailbox) \in Nat /\ DOMAIN ReadMailbox = 1 .. Len(ReadMailbox)
        /\ DOMAIN list = 1 .. (Len(ReadMailbox) + 1)
        /\ \A j \in 1 .. Len(ReadMailbox) : list[j] = ReadMailbox[j]
        /\ list[Len(ReadMailbox) + 1] = NewEntry(p)
    BY <1>1, <2>1, <2>2
  <2>4. NotBehind(current', NewEntry(p).id)
    BY <1>4 DEF NotBehind, Known, NewEntry, Message
  <2>5. ASSUME NEW j \in DOMAIN list, ~list[j].read PROVE NotBehind(current', list[j].id)
    <3>1. CASE j \in 1 .. Len(ReadMailbox)
      BY <1>6, <2>3, <2>5, <3>1
    <3>2. CASE j = Len(ReadMailbox) + 1
      BY <2>3, <2>4, <3>2
    <3> QED
      BY <2>3, <3>1, <3>2
  <2>6. Orderly(list)' /\ buffer'[p] = list
    BY <1>1, <1>7, <2>1, <2>2, <2>5 DEF OrderInv
  <2> QED
    BY <2>6 DEF Orderly, Ascending
<1>11. DeliveryInv'
  <2>1. ASSUME NEW id, id = current' PROVE Known(current)'
    <3>1. Known(id)'
      BY <1>4, <1>5, <2>1
    <3> QED
      BY <2>1, <3>1 DEF Known
  <2>2. \A k \in DOMAIN delivered : Before(delivered[k], current)'
    BY <1>1, <1>4 DEF Before
  <2>3. ASSUME NEW k \in DOMAIN delivered PROVE Known(delivered[k])'
    <3>1. ASSUME NEW id, id = delivered[k] PROVE Known(delivered[k])'
      <4>1. Known(id)' /\ delivered'[k] = id
        BY <1>1, <1>5, <3>1 DEF OrderInv, DeliveryInv
      <4> QED
        BY <4>1 DEF Known
    <3> QED
      BY <3>1
  <2>4. DeliveredInOrder'
    BY <1>1 DEF OrderInv, DeliveryInv, DeliveredInOrder
  <2> QED
    BY <1>1, <2>1, <2>2, <2>3, <2>4 DEF DeliveryInv
<1>12. \A s \in Senders : pc'[s] \in InLock =>
          ReadMailbox' = <<>> \/ buffer'[s] = Append(ReadMailbox', NewEntry(s)')
  BY <1>1, <1>2, <1>9 DEF OrderInv
<1> QED
  BY <1>8, <1>9, <1>10, <1>11, <1>12 DEF OrderInv

\* The current message goes to the agent; it is marked in what is written, or there
\* is nothing to mark, or its mark is given up, which is a fault.
LEMMA OrderDeliver ==
  ASSUME MutexInv, OrderInv, [Next]_vars, Deliver
  PROVE  OrderInv'
<1>1. /\ buffer \in [Procs -> Seq(Entry)] /\ ReadMailbox \in Seq(Entry) /\ delivered \in Seq(Ids)
      /\ Owner \in Procs /\ Owner \notin Senders /\ (\A s \in Senders : s \in Procs)
      /\ pc \in [Procs -> PCs] /\ pc[Owner] # "idle" /\ pc' = [pc EXCEPT ![Owner] = "idle"]
      /\ UNCHANGED <<buffer, count>> /\ current \in Ids /\ current # NoId
      /\ current' = NoId /\ delivered' = Append(delivered, current)
      /\ \A p, q \in Procs : pc[p] \in InLock /\ pc[q] \in InLock => p = q
  <2>1. /\ buffer \in [Procs -> Seq(Entry)] /\ delivered \in Seq(Ids) /\ pc \in [Procs -> PCs]
        /\ \A p, q \in Procs : pc[p] \in InLock /\ pc[q] \in InLock => p = q
    BY DEF MutexInv, Types, Exclusive
  <2>2. /\ pc[Owner] # "idle" /\ pc' = [pc EXCEPT ![Owner] = "idle"] /\ UNCHANGED <<buffer, count>>
        /\ current' = NoId /\ delivered' = Append(delivered, current)
    BY DEF Deliver, WriteBack, GiveUp, NothingToMark, Goto
  <2>3. current \in Ids /\ ReadMailbox \in Seq(Entry)
    BY <2>2, ReadsEntries DEF MutexInv, Begun
  <2> QED
    BY <2>1, <2>2, <2>3, NamesDiffer DEF Procs
<1>2. PICK n \in Nat :
        /\ DOMAIN delivered = 1 .. n /\ DOMAIN delivered' = 1 .. (n + 1)
        /\ \A k \in 1 .. n : delivered'[k] = delivered[k] /\ delivered[k] \in Ids
        /\ delivered'[n + 1] = current
        /\ \A k \in 1 .. (n + 1) : k \in 1 .. n \/ k = n + 1
  <2>1. /\ Len(delivered) \in Nat
        /\ DOMAIN delivered = 1 .. Len(delivered) /\ DOMAIN delivered' = 1 .. (Len(delivered) + 1)
        /\ \A k \in 1 .. Len(delivered) : delivered'[k] = delivered[k] /\ delivered[k] \in Ids
        /\ delivered'[Len(delivered) + 1] = current
    BY <1>1
  <2>2. \A k \in 1 .. (Len(delivered) + 1) : k \in 1 .. Len(delivered) \/ k = Len(delivered) + 1
    BY <2>1
  <2> QED
    BY <2>1, <2>2
<1>3. \A id \in Ids : Known(id) => Known(id)'
  BY KnownKept
<1>4. ASSUME NEW list \in Seq(Entry), Orderly(list),
             faulty' \/ \A j \in DOMAIN list : ~list[j].read => list[j].id # current
      PROVE  Orderly(list)'
  <2>1. \A j \in DOMAIN list : Known(list[j].id)'
    BY <1>3, <1>4, EntryIds DEF Orderly
  <2>2. \A j \in DOMAIN list : list[j].id[1] # Owner
    BY <1>1, EntryIds
  <2>3. ASSUME NEW j \in DOMAIN list, ~list[j].read, NEW k \in 1 .. (n + 1)
        PROVE  Before(delivered[k], list[j].id)'
    <3>1. CASE k \in 1 .. n
      <4>1. Before(delivered[k], list[j].id)
        BY <1>2, <1>4, <2>3, <3>1 DEF Orderly
      <4> QED
        BY <1>2, <3>1, <4>1, FaultStays DEF Before
    <3>2. CASE k = n + 1
      <4>1. NotBehind(current, list[j].id) /\ list[j].id \in Ids
        BY <1>4, <2>3, EntryIds DEF Orderly
      <4>2. ASSUME current[1] = list[j].id[1], current[2] = list[j].id[2] PROVE faulty'
        <5>1. \A a, b \in Ids : a[1] = b[1] /\ a[2] = b[2] => a = b
          BY DEF Ids
        <5>2. current = list[j].id
          BY <1>1, <4>1, <4>2, <5>1
        <5> QED
          BY <1>4, <2>3, <5>2
      <4>3. current[2] \in Nat /\ list[j].id[2] \in Nat
        BY <1>1, <4>1 DEF Ids
      <4> QED
        BY <1>2, <3>2, <4>1, <4>2, <4>3 DEF Before, NotBehind
    <3> QED
      BY <1>2, <3>1, <3>2
  <2>4. Ascending(list)'
    BY <1>4 DEF Orderly, Ascending
  <2>5. \A j \in DOMAIN list : NotBehind(current, list[j].id)'
    BY <1>1, <2>2 DEF NotBehind, NoId
  <2> QED
    BY <1>2, <2>1, <2>3, <2>4, <2>5 DEF Orderly
<1>5. DeliveryInv'
  <2>1. ASSUME NEW k \in 1 .. (n + 1) PROVE Known(delivered[k])'
    <3>1. SUFFICES ASSUME NEW id, id = delivered'[k] PROVE Known(delivered[k])'
      OBVIOUS
    <3>2. id \in Ids /\ Known(id)
      BY <1>1, <1>2, <3>1 DEF OrderInv, DeliveryInv
    <3>3. Known(id)'
      BY <1>3, <3>2
    <3> QED
      BY <3>1, <3>3 DEF Known
  <2>2. ASSUME NEW i \in 1 .. (n + 1), NEW j \in 1 .. (n + 1), i < j,
               delivered'[i][1] = delivered'[j][1]
        PROVE  \/ delivered'[i][2] < delivered'[j][2]
               \/ faulty' /\ delivered'[i][2] = delivered'[j][2]
    <3>1. i \in 1 .. n
      BY <1>2, <2>2
    <3>2. CASE j \in 1 .. n
      BY <1>2, <2>2, <3>1, <3>2, FaultStays DEF OrderInv, DeliveryInv, DeliveredInOrder
    <3>3. CASE j = n + 1
      BY <1>1, <1>2, <2>2, <3>1, <3>3, FaultStays DEF OrderInv, DeliveryInv, Before
    <3> QED
      BY <1>2, <3>2, <3>3
  <2>3. DeliveredInOrder'
    BY <1>2, <2>2 DEF DeliveredInOrder
  <2> QED
    BY <1>1, <1>2, <2>1, <2>3 DEF DeliveryInv
<1>6. /\ pc'[Owner] = "idle" /\ pc'[Owner] \notin InLock /\ pc'[Owner] # "locked"
      /\ \A s \in Senders : pc'[s] = pc[s] /\ NewEntry(s)' = NewEntry(s)
  BY <1>1 DEF InLock, NewEntry, Message
<1>7. CASE WriteBack(Owner) \/ NothingToMark
  <2>1. pc[Owner] \in InLock
    BY <1>7 DEF WriteBack, NothingToMark, InLock
  <2>2. \A p \in Procs : pc'[p] \notin InLock
    BY <1>1, <1>6, <2>1
  <2>3. \/ ReadMailbox' = <<>>
        \/ ReadMailbox' = buffer[Owner]
    <3>1. CASE WriteBack(Owner)
      BY <3>1 DEF WriteBack, ReadMailbox
    <3>2. CASE NothingToMark
      BY <3>2 DEF NothingToMark, ReadMailbox, fileVars, OrderInv
    <3> QED
      BY <1>7, <3>1, <3>2
  <2>4. Orderly(ReadMailbox)'
    <3>1. CASE ReadMailbox' = <<>>
      BY <3>1 DEF Orderly, Ascending
    <3>2. CASE ReadMailbox' = buffer[Owner]
      <4>1. SUFFICES ASSUME NEW list, list = buffer[Owner] PROVE Orderly(ReadMailbox)'
        OBVIOUS
      <4>2. Orderly(list)'
        BY <1>1, <1>4, <2>1, <4>1 DEF OrderInv
      <4> QED
        BY <3>2, <4>1, <4>2 DEF Orderly, Ascending
    <3> QED
      BY <2>3, <3>1, <3>2
  <2> QED
    BY <1>1, <1>5, <1>6, <2>2, <2>4 DEF OrderInv
<1>8. CASE GiveUp(Owner)
  <2>1. faulty' /\ ReadMailbox' = ReadMailbox
    BY <1>8 DEF GiveUp, fileVars, ReadMailbox
  <2>2. Orderly(ReadMailbox)'
    <3>1. SUFFICES ASSUME NEW list, list = ReadMailbox PROVE Orderly(ReadMailbox)'
      OBVIOUS
    <3>2. Orderly(list)'
      BY <1>1, <1>4, <2>1, <3>1 DEF OrderInv
    <3> QED
      BY <2>1, <3>1, <3>2 DEF Orderly, Ascending
  <2>3. ASSUME NEW p \in Procs, pc'[p] \in InLock PROVE Orderly(buffer[p])'
    <3>1. SUFFICES ASSUME NEW list, list = buffer[p] PROVE Orderly(buffer[p])'
      OBVIOUS
    <3>2. pc[p] \in InLock
      BY <1>1, <1>6, <2>3
    <3>3. Orderly(list)'
      BY <1>1, <1>4, <2>1, <3>1, <3>2 DEF OrderInv
    <3> QED
      BY <1>1, <3>1, <3>3 DEF Orderly, Ascending
  <2>4. \A s \in Senders : pc'[s] \in InLock =>
            ReadMailbox' = <<>> \/ buffer'[s] = Append(ReadMailbox', NewEntry(s)')
    BY <1>1, <1>6, <2>1 DEF OrderInv
  <2> QED
    BY <1>5, <1>6, <2>2, <2>3, <2>4 DEF OrderInv
<1> QED
  BY <1>7, <1>8 DEF Deliver

LEMMA OrderStep ==
  ASSUME MutexInv, OrderInv, [Next]_vars
  PROVE  OrderInv'
<1> USE DEF Goto
<1>1. /\ pc \in [Procs -> PCs] /\ count \in [Senders -> 0 .. MaxSends]
      /\ Owner \in Procs /\ (\A s \in Senders : s \in Procs /\ s # Owner)
      /\ \A p, q \in Procs : pc[p] \in InLock /\ pc[q] \in InLock => p = q
  BY NamesDiffer DEF MutexInv, Types, Procs, Exclusive
<1>2. ASSUME NEW s \in Senders, SendBegins(s) PROVE OrderInv'
  <2>1. /\ UNCHANGED <<current, delivered, buffer>> /\ pc[s] = "idle"
        /\ pc' = [pc EXCEPT ![s] = "locking"] \/ pc' = [pc EXCEPT ![s] = "creating"]
        /\ count' = [count EXCEPT ![s] = @ + 1] /\ ReadMailbox' = ReadMailbox
    BY <1>2 DEF SendBegins, fileVars, ReadMailbox
  <2>2. /\ \A p \in Procs : pc'[p] \in InLock => pc[p] \in InLock
        /\ pc'[Owner] = "locked" => pc[Owner] = "locked"
        /\ \A q \in Senders : pc[q] \in InLock => count'[q] = count[q]
    BY <1>1, <2>1 DEF InLock
  <2> QED
    BY <2>1, <2>2, OrderShared
<1>3. ASSUME NEW s \in Senders, SendCreates(s) \/ SendTruncates(s) \/ Crash(s)
                                \/ (GiveUp(s) /\ SendReturns(s))
      PROVE  OrderInv'
  <2>1. /\ UNCHANGED <<current, delivered, buffer, count>>
        /\ ReadMailbox' = ReadMailbox \/ ReadMailbox' = <<>>
        /\ \E at \in {"created", "locking", "writing", "idle", "dead"} :
               pc' = [pc EXCEPT ![s] = at] /\ (at = "writing" => pc[s] = "locked")
    <3>1. CASE SendCreates(s)
      BY <3>1 DEF SendCreates, ReadMailbox
    <3>2. CASE SendTruncates(s)
      BY <3>2 DEF SendTruncates, Truncate, ReadMailbox
    <3>3. CASE GiveUp(s) /\ SendReturns(s)
      BY <3>3 DEF SendReturns, GiveUp, ReadMailbox, fileVars
    <3>4. CASE Crash(s)
      BY <3>4 DEF Crash, ReadMailbox, fileVars
    <3> QED
      BY <1>3, <3>1, <3>2, <3>3, <3>4
  <2>2. /\ \A p \in Procs : pc'[p] \in InLock => pc[p] \in InLock
        /\ pc'[Owner] = "locked" => pc[Owner] = "locked"
    BY <1>1, <2>1 DEF InLock
  <2> QED
    BY <2>1, <2>2, OrderShared
<1>4. ASSUME NEW s \in Senders, WriteBack(s), SendReturns(s) PROVE OrderInv'
  BY <1>4, OrderWritten DEF SendReturns
<1>5. CASE MarkTruncates
  <2>1. /\ UNCHANGED <<current, delivered, buffer, count>> /\ ReadMailbox' = <<>>
        /\ pc' = [pc EXCEPT ![Owner] = "writing"] /\ pc[Owner] = "locked"
    BY <1>5 DEF MarkTruncates, Truncate, ReadMailbox
  <2>2. /\ \A p \in Procs : pc'[p] \in InLock => pc[p] \in InLock
        /\ pc'[Owner] = "locked" => pc[Owner] = "locked"
    BY <1>1, <2>1 DEF InLock
  <2> QED
    BY <2>1, <2>2, OrderShared
<1>6. CASE UNCHANGED vars
  BY <1>6, OrderShared DEF vars, fileVars, ReadMailbox
<1>7. ASSUME NEW s \in Senders, SendReturns(s) PROVE OrderInv'
  <2>1. WriteBack(s) \/ GiveUp(s)
    BY <1>7 DEF SendReturns
  <2> QED
    BY <1>3, <1>4, <1>7, <2>1
<1>8. CASE OwnerStep
  BY <1>5, <1>8, OrderMarkLocks, OrderPoll, OrderDeliver DEF OwnerStep
<1>9. ASSUME NEW s \in Senders, SenderStep(s) PROVE OrderInv'
  <2>1. CASE SendLocks(s)
    BY <2>1, OrderSendLocks
  <2>2. CASE SendCreates(s) \/ SendTruncates(s)
    BY <1>3, <2>2
  <2> QED
    BY <1>7, <1>9, <2>1, <2>2 DEF SenderStep
<1> QED
  BY <1>2, <1>3, <1>6, <1>8, <1>9 DEF Next

-----------------------------------------------------------------------------
(* The invariant and the theorems.                                         *)

Inv == MutexInv /\ NothingLost /\ ReadInv /\ OrderInv

\* Every reachable state satisfies the four invariants.
THEOREM MailboxInvariant == Spec => []Inv
<1>1. Init => Inv
  BY MutexInit, LostInit, ReadInit, OrderInit DEF Inv
<1>2. Inv /\ [Next]_vars => Inv'
  BY MutexStep, LostStep, ReadStep, OrderStep DEF Inv
<1> QED
  BY <1>1, <1>2, PTL DEF Spec

\* The inbox, its lock and its processes keep their types.
THEOREM TypeCorrect == Spec => []TypeOK
<1>1. Inv => TypeOK
  BY DEF Inv, MutexInv, Types, TypeOK
<1> QED
  BY <1>1, MailboxInvariant, PTL

\* mailbox.py: at most one process is between its read under the file lock and the end
\* of its write.
AtMostOneWriter == \A p, q \in Procs : pc[p] \in InLock /\ pc[q] \in InLock => p = q

THEOREM AtMostOneWriterHolds == Spec => []AtMostOneWriter
<1>1. Inv => AtMostOneWriter
  BY DEF Inv, MutexInv, Exclusive, AtMostOneWriter
<1> QED
  BY <1>1, MailboxInvariant, PTL

\* mailbox.py: without a fault, a message that was reported as sent is in the inbox or
\* in what the holder of the lock is writing.
THEOREM SentIsStoredHolds == Spec => []SentIsStored
<1>1. Inv => SentIsStored
  <2> SUFFICES ASSUME Inv, ~faulty PROVE sent \subseteq Stored
    BY DEF SentIsStored
  <2>1. /\ exists
        /\ torn <=> \E p \in Procs : pc[p] = "writing"
        /\ ~torn => sent \subseteq IdsOf(inbox)
        /\ \A p \in Procs : pc[p] \in InLock => sent \subseteq IdsOf(buffer[p])
        /\ \A p \in Procs : lock = p <=> pc[p] \in InLock
        /\ lock \in Procs \cup {NoProc}
    BY DEF Inv, NothingLost, MutexInv, Exclusive, Types
  <2>2. CASE torn
    <3>1. PICK p \in Procs : pc[p] = "writing"
      BY <2>1, <2>2
    <3>2. lock = p /\ lock # NoProc /\ sent \subseteq IdsOf(buffer[p])
      BY <2>1, <3>1, NamesDiffer DEF InLock
    <3> QED
      BY <2>2, <3>2 DEF Stored
  <2>3. CASE ~torn
    BY <2>1, <2>3 DEF Stored, ReadMailbox
  <2> QED
    BY <2>2, <2>3
<1> QED
  BY <1>1, MailboxInvariant, PTL

\* in_process_runner.py: a message is marked as read only for the agent that gets it.
THEOREM ReadIsDeliveredHolds == Spec => []ReadIsDelivered
<1>1. Inv => ReadIsDelivered
  BY DEF Inv, ReadInv, ReadOnes, Handed, ReadIsDelivered
<1> QED
  BY <1>1, MailboxInvariant, PTL

\* mailbox.py and in_process_runner.py: the messages of one sender reach the agent in
\* the order they were sent, with lost locks, dying senders and an inbox that is created
\* while others write; a message is repeated only after a fault, and at once.
THEOREM DeliveredInOrderHolds == Spec => []DeliveredInOrder
<1>1. Inv => DeliveredInOrder
  BY DEF Inv, OrderInv, DeliveryInv
<1> QED
  BY <1>1, MailboxInvariant, PTL
=============================================================================
