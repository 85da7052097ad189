------------------------------- MODULE Mailbox -------------------------------
(***************************************************************************)
(* A teammate's inbox: the JSON file and file lock of                      *)
(* utils/swarm/mailbox.py, written by other processes (SendMessage) and    *)
(* polled by its owner (in_process_runner.py).                             *)
(*                                                                         *)
(* Each process is a sequence of file operations; between two of them any  *)
(* other process may run.  write_text is two operations: opening truncates *)
(* the file, and the content follows.  A reader who meets the file between *)
(* the two finds no JSON in it, which read_mailbox takes for an empty      *)
(* inbox.                                                                  *)
(***************************************************************************)
EXTENDS Naturals, Sequences, FiniteSets

CONSTANTS Senders,    \* processes that send to this inbox
          MaxSends,   \* bound: messages per sender
          MaxPolls,   \* bound: messages handed to the owner's agent
          Faults      \* what may go wrong, see FaultKinds

\* There is no inbox file at first; a wait for the lock times out; a sender
\* dies between two operations.
FaultKinds == {"missing", "timeout", "crash"}

Owner == "owner"
NoProc == "none"

ASSUME MailboxAssumption ==
    /\ MaxSends \in Nat /\ MaxPolls \in Nat
    /\ Faults \subseteq FaultKinds
    /\ Senders \cap {Owner, NoProc} = {}

Procs == Senders \cup {Owner}

\* from_ and timestamp identify a message; a sender's messages are numbered.
Ids == Senders \X (1 .. MaxSends)
NoId == <<Owner, 0>>
Entry == [id : Ids, read : BOOLEAN]

VARIABLES
    faulty,      \* history: something of Faults has happened
    exists,      \* the inbox file is there
    torn,        \* it has been truncated and not yet written
    inbox,       \* its content, when it is there and not torn
    lock,        \* the process that holds the file lock
    pc,          \* per process: the next file operation
    buffer,      \* per process: the messages it has read under the lock
    count,       \* per sender: messages begun
    sent,        \* history: the messages reported as sent
    current,     \* the message the owner is about to hand to its agent
    delivered    \* history: the messages handed to the owner's agent, in order

fileVars == <<exists, torn, inbox>>
vars == <<fileVars, lock, pc, buffer, count, sent, current, delivered, faulty>>

PCs == {"idle", "creating", "created", "locking", "locked", "writing", "dead"}

TypeOK ==
    /\ faulty \in BOOLEAN
    /\ exists \in BOOLEAN /\ torn \in BOOLEAN
    /\ inbox \in Seq(Entry)
    /\ lock \in Procs \cup {NoProc}
    /\ pc \in [Procs -> PCs]
    /\ buffer \in [Procs -> Seq(Entry)]
    /\ count \in [Senders -> 0 .. MaxSends]
    /\ sent \subseteq Ids
    /\ current \in Ids \cup {NoId}
    /\ delivered \in Seq(Ids)

Init ==
    /\ exists \in (IF "missing" \in Faults THEN BOOLEAN ELSE {TRUE})
    /\ faulty = ~exists
    /\ torn = FALSE /\ inbox = <<>>
    /\ lock = NoProc
    /\ pc = [p \in Procs |-> "idle"]
    /\ buffer = [p \in Procs |-> <<>>]
    /\ count = [s \in Senders |-> 0]
    /\ sent = {}
    /\ current = NoId
    /\ delivered = <<>>

-----------------------------------------------------------------------------
(* File operations.                                                        *)

\* read_mailbox: a missing or unparsable file is an empty inbox.
ReadMailbox == IF exists /\ ~torn THEN inbox ELSE <<>>

Goto(p, at) == pc' = [pc EXCEPT ![p] = at]

\* Mutant: the file lock is not taken.
NoLock(p) == TRUE
LockFree(p) == lock = NoProc

\* "with lock", the read behind it, and what is to be written.
Locked(p, messages) ==
    /\ pc[p] = "locking"
    /\ LockFree(p)
    /\ lock' = p
    /\ buffer' = [buffer EXCEPT ![p] = messages]
    /\ Goto(p, "locked")
    /\ UNCHANGED <<fileVars, faulty>>

\* write_text opens the file.
Truncate(p) ==
    /\ pc[p] = "locked"
    /\ exists' = TRUE /\ torn' = TRUE
    /\ Goto(p, "writing")
    /\ UNCHANGED <<inbox, lock, buffer, faulty>>

\* write_text writes and closes it; the lock is released.
WriteBack(p) ==
    /\ pc[p] = "writing"
    /\ torn' = FALSE
    /\ inbox' = buffer[p]
    /\ lock' = NoProc
    /\ Goto(p, "idle")
    /\ UNCHANGED <<exists, buffer, faulty>>

\* The lock is not released in time; the exception is logged and swallowed.
GiveUp(p) ==
    /\ "timeout" \in Faults
    /\ pc[p] = "locking" /\ ~LockFree(p)
    /\ Goto(p, "idle")
    /\ faulty' = TRUE
    /\ UNCHANGED <<fileVars, lock, buffer>>

-----------------------------------------------------------------------------
(* write_to_mailbox, called by a sender.                                   *)

Message(s) == <<s, count[s]>>

\* The existence check comes before the lock.
SendBegins(s) ==
    /\ pc[s] = "idle"
    /\ count[s] < MaxSends
    /\ count' = [count EXCEPT ![s] = @ + 1]
    /\ Goto(s, IF exists THEN "locking" ELSE "creating")
    /\ UNCHANGED <<fileVars, lock, buffer, sent, current, delivered, faulty>>

\* The missing file is created, empty, without the lock: opened, then written.
SendCreates(s) ==
    /\ \/ /\ pc[s] = "creating"
          /\ exists' = TRUE /\ torn' = TRUE
          /\ Goto(s, "created")
          /\ UNCHANGED inbox
       \/ /\ pc[s] = "created"
          /\ torn' = FALSE /\ inbox' = <<>>
          /\ Goto(s, "locking")
          /\ UNCHANGED exists
    /\ UNCHANGED <<lock, buffer, count, sent, current, delivered, faulty>>

SendLocks(s) ==
    /\ Locked(s, Append(ReadMailbox, [id |-> Message(s), read |-> FALSE]))
    /\ UNCHANGED <<count, sent, current, delivered>>

SendTruncates(s) == Truncate(s) /\ UNCHANGED <<count, sent, current, delivered>>

\* SendMessage then answers "Message sent", also when the lock timed out.
SendReturns(s) ==
    /\ WriteBack(s) \/ GiveUp(s)
    /\ sent' = sent \cup {Message(s)}
    /\ UNCHANGED <<count, current, delivered>>

\* The sender's process dies; the operating system releases its lock.
Crash(s) ==
    /\ "crash" \in Faults
    /\ pc[s] \notin {"idle", "dead"}
    /\ Goto(s, "dead")
    /\ faulty' = TRUE
    /\ lock' = IF lock = s THEN NoProc ELSE lock
    /\ UNCHANGED <<fileVars, buffer, count, sent, current, delivered>>

-----------------------------------------------------------------------------
(* The owner: wait_for_next_prompt_or_shutdown and _mark_read.             *)

\* Mutant: the newest unread message first.
NewestUnread(messages, i) ==
    ~messages[i].read /\ \A j \in DOMAIN messages : i < j => messages[j].read
FirstUnread(messages, i) ==
    ~messages[i].read /\ \A j \in DOMAIN messages : j < i => messages[j].read

\* A poll, without the lock.
Poll ==
    /\ pc[Owner] = "idle" /\ Len(delivered) < MaxPolls
    /\ \E i \in DOMAIN ReadMailbox :
           FirstUnread(ReadMailbox, i) /\ current' = ReadMailbox[i].id
    /\ Goto(Owner, "locking")
    /\ UNCHANGED <<fileVars, lock, buffer, count, sent, delivered, faulty>>

\* Mutant: every message is marked.
AllMarked(messages, id) == [i \in DOMAIN messages |-> [messages[i] EXCEPT !.read = TRUE]]
Marked(messages, id) ==
    [i \in DOMAIN messages |->
        IF messages[i].id = id THEN [messages[i] EXCEPT !.read = TRUE] ELSE messages[i]]

MarkLocks ==
    /\ Locked(Owner, Marked(ReadMailbox, current))
    /\ UNCHANGED <<count, sent, current, delivered>>

MarkTruncates ==
    /\ buffer[Owner] # <<>>
    /\ Truncate(Owner)
    /\ UNCHANGED <<count, sent, current, delivered>>

\* An inbox that reads as empty is left alone.
NothingToMark ==
    /\ pc[Owner] = "locked" /\ buffer[Owner] = <<>>
    /\ lock' = NoProc
    /\ Goto(Owner, "idle")
    /\ UNCHANGED <<fileVars, buffer, faulty>>

\* Marked or not, the message becomes the agent's next prompt.
Deliver ==
    /\ WriteBack(Owner) \/ GiveUp(Owner) \/ NothingToMark
    /\ delivered' = Append(delivered, current)
    /\ current' = NoId
    /\ UNCHANGED <<count, sent>>

-----------------------------------------------------------------------------
SenderStep(s) ==
    \/ SendCreates(s)
    \/ SendLocks(s)
    \/ SendTruncates(s)
    \/ SendReturns(s)

OwnerStep == Poll \/ MarkLocks \/ MarkTruncates \/ Deliver

Next ==
    \/ \E s \in Senders : SendBegins(s) \/ SenderStep(s) \/ Crash(s)
    \/ OwnerStep

Spec == Init /\ [][Next]_vars

\* A call that has begun goes on, and the owner keeps polling.  FileLock polls
\* too: whoever waits for the lock gets it if it is free again and again.
FairSpec ==
    /\ Spec
    /\ \A s \in Senders : WF_vars(SenderStep(s))
    /\ WF_vars(OwnerStep)

-----------------------------------------------------------------------------
(* Safety.                                                                 *)

IdsOf(messages) == {messages[i].id : i \in DOMAIN messages}

\* What the inbox holds, or will hold when the write under way is through.
Stored == IF torn /\ lock # NoProc THEN IdsOf(buffer[lock]) ELSE IdsOf(ReadMailbox)

\* A message that was reported as sent is in the inbox, whoever polls and writes
\* at the same time.
SentIsStored == ~faulty => sent \subseteq Stored

\* The messages of one sender reach the agent in the order they were sent, also
\* when things go wrong; a message is repeated only after a fault, and at once.
DeliveredInOrder ==
    \A i, j \in DOMAIN delivered :
        i < j /\ delivered[i][1] = delivered[j][1] =>
            \/ delivered[i][2] < delivered[j][2]
            \/ faulty /\ delivered[i][2] = delivered[j][2]

\* A message is marked as read only for the agent that gets it.
ReadIsDelivered ==
    \A i \in DOMAIN inbox : inbox[i].read =>
        \/ inbox[i].id = current
        \/ \E k \in DOMAIN delivered : delivered[k] = inbox[i].id

-----------------------------------------------------------------------------
(* Liveness, under FairSpec.                                               *)

\* A message that was sent reaches the agent, unless something went wrong.
SentIsDelivered ==
    \A id \in Ids :
        id \in sent ~> faulty \/ \E k \in DOMAIN delivered : delivered[k] = id
=============================================================================
