------------------------------ MODULE Teammates ------------------------------
(***************************************************************************)
(* utils/swarm/in_process_runner.py, spawn_in_process.py and               *)
(* tools/send_message_tool: teammates that run as coroutines of one        *)
(* process, each with turns, a mailbox under its name and a queue of       *)
(* messages on its task.  No handler lets another coroutine run before it  *)
(* is done, so that each is one step; how a mailbox is read and written    *)
(* between processes is the subject of Mailbox.                            *)
(***************************************************************************)
EXTENDS Naturals, Sequences, FiniteSets, SequencesExt

CONSTANTS Names,         \* display names of teammates, in lower case
          MaxTasks,      \* bound: teammates that are spawned
          MaxMessages    \* bound: messages that are sent

ASSUME TeammatesAssumption == MaxTasks \in Nat /\ MaxMessages \in Nat

Tasks == 1 .. MaxTasks    \* in the order of their registration
Ids == 1 .. MaxMessages
Kinds == {"plain", "shutdown", "protocol"}
NoName == "no name"

VARIABLES
    name,       \* the description of each task
    status,     \* its status
    stored,     \* whether it is in the store of tasks
    aborted,    \* whether the abort event of its loop is set
    pc,         \* where its loop is
    pending,    \* the messages queued on it
    prompts,    \* the messages that each prompt after the first was made of
    inbox,      \* the mailbox of each name
    sent,       \* how many messages were sent
    notices     \* what the lead has been told

taskVars == <<name, status, stored, aborted>>
mailVars == <<inbox, sent>>
vars == <<taskVars, pc, pending, prompts, mailVars, notices>>

Init ==
    /\ name = [t \in Tasks |-> NoName]
    /\ status = [t \in Tasks |-> "unborn"]
    /\ stored = [t \in Tasks |-> FALSE]
    /\ aborted = [t \in Tasks |-> FALSE]
    /\ pc = [t \in Tasks |-> "ended"]
    /\ pending = [t \in Tasks |-> <<>>]
    /\ prompts = [t \in Tasks |-> <<>>]
    /\ inbox = [n \in Names |-> <<>>]
    /\ sent = 0
    /\ notices = {}

Running(t) == stored[t] /\ status[t] = "running"

-----------------------------------------------------------------------------
(* A teammate comes and goes.                                              *)

\* spawn_in_process_teammate and start_in_process_teammate
Spawn(t, n) ==
    /\ status[t] = "unborn"
    /\ \A s \in Tasks : s < t => status[s] # "unborn"
    /\ name' = [name EXCEPT ![t] = n]
    /\ status' = [status EXCEPT ![t] = "running"]
    /\ stored' = [stored EXCEPT ![t] = TRUE]
    /\ pc' = [pc EXCEPT ![t] = "turn"]
    /\ UNCHANGED <<aborted, pending, prompts, mailVars, notices>>

\* kill_async_agent
StopTask(t) ==
    /\ Running(t)
    /\ aborted' = [aborted EXCEPT ![t] = TRUE]
    /\ status' = [status EXCEPT ![t] = "killed"]
    /\ UNCHANGED <<name, stored, pc, pending, prompts, mailVars, notices>>

\* kill_in_process_teammate
Kill(t) ==
    /\ stored[t]
    /\ stored' = [stored EXCEPT ![t] = FALSE]
    /\ aborted' = [aborted EXCEPT ![t] = @ \/ status[t] = "running"]
    /\ status' = [status EXCEPT ![t] = IF @ = "running" THEN "killed" ELSE @]
    /\ UNCHANGED <<name, pc, pending, prompts, mailVars, notices>>

-----------------------------------------------------------------------------
(* Messages are sent.                                                      *)

Mail(id, kind) == [id |-> id, kind |-> kind, read |-> FALSE]

\* _find_task_by_name: the first that runs, or none
Targets(n) ==
    {t \in Tasks : name[t] = n /\ Running(t) /\ \A s \in Tasks : s < t /\ name[s] = n => ~Running(s)}

\* SendMessage to a name, by an agent of this process: the text is queued on the
\* task and written to the mailbox.
SendDirect(n, kind) ==
    /\ sent < MaxMessages
    /\ sent' = sent + 1
    /\ pending' = [t \in Tasks |-> IF t \in Targets(n) THEN Append(pending[t], sent + 1) ELSE pending[t]]
    /\ inbox' = [inbox EXCEPT ![n] = Append(@, Mail(sent + 1, kind))]
    /\ UNCHANGED <<taskVars, pc, prompts, notices>>

\* SendMessage to everybody: one copy for each running task, in its name's mailbox.
Broadcast(kind) ==
    /\ sent < MaxMessages
    /\ sent' = sent + 1
    /\ inbox' = [n \in Names |->
                    inbox[n] \o [i \in 1 .. Cardinality({t \in Tasks : Running(t) /\ name[t] = n}) |->
                                    Mail(sent + 1, kind)]]
    /\ UNCHANGED <<taskVars, pc, pending, prompts, notices>>

\* Another process of the team writes to the mailbox.
SendFromOutside(n, kind) ==
    /\ sent < MaxMessages
    /\ sent' = sent + 1
    /\ inbox' = [inbox EXCEPT ![n] = Append(@, Mail(sent + 1, kind))]
    /\ UNCHANGED <<taskVars, pc, pending, prompts, notices>>

-----------------------------------------------------------------------------
(* The loop of a teammate.                                                 *)

\* What a poll acts on: any message but one of a protocol it does not know.
Acts(m) == ~m.read /\ m.kind # "protocol"
\* Mutant: a message that is not acted on ends the look through the mailbox.
FirstOnly(box) == LET i == SelectInSeq(box, LAMBDA m: ~m.read) IN IF i > 0 /\ Acts(box[i]) THEN i ELSE 0
FirstToAct(box) == SelectInSeq(box, Acts)

\* _mark_read: the messages of one sender and one time, copies included
\* Mutant: the message is taken and stays unread.
NotMarked(box, id) == box
MarkRead(box, id) == [i \in DOMAIN box |-> IF box[i].id = id THEN [box[i] EXCEPT !.read = TRUE] ELSE box[i]]

\* The loop is left; a task that still runs is completed.
Finish(t) ==
    /\ pc' = [pc EXCEPT ![t] = "ended"]
    /\ status' = [status EXCEPT ![t] = IF Running(t) THEN "completed" ELSE @]
    /\ UNCHANGED <<pending, prompts>>

\* The next turn starts with a prompt made of these messages.
NextTurn(t, way, ids) ==
    /\ pc' = [pc EXCEPT ![t] = "turn"]
    /\ prompts' = [prompts EXCEPT ![t] = Append(@, [way |-> way, ids |-> ids])]
    /\ status' = status

\* One pass of wait_for_next_prompt_or_shutdown: the abort event, then the mailbox,
\* then the queue of the task.
Poll(t) ==
    LET box == inbox[name[t]]
        i == FirstToAct(box)
    IN  \/ aborted[t] /\ Finish(t) /\ inbox' = inbox
        \/ /\ ~aborted[t] /\ i > 0
           /\ inbox' = [inbox EXCEPT ![name[t]] = MarkRead(box, box[i].id)]
           /\ \/ box[i].kind = "shutdown" /\ Finish(t)
              \/ box[i].kind = "plain" /\ NextTurn(t, "mail", <<box[i].id>>) /\ pending' = pending
        \/ /\ ~aborted[t] /\ i = 0 /\ stored[t] /\ pending[t] # <<>>
           /\ NextTurn(t, "queue", pending[t])
           /\ pending' = [pending EXCEPT ![t] = <<>>]
           /\ inbox' = inbox
        \/ /\ ~aborted[t] /\ i = 0 /\ (~stored[t] \/ pending[t] = <<>>)
           /\ pc' = [pc EXCEPT ![t] = "waiting"]
           /\ UNCHANGED <<inbox, status, pending, prompts>>

\* A turn ends: unless the teammate was killed meanwhile, the lead is told and the
\* mailbox is looked at.
TurnSucceeds(t) ==
    /\ pc[t] = "turn"
    /\ \/ aborted[t] /\ Finish(t) /\ UNCHANGED <<inbox, notices>>
       \/ ~aborted[t] /\ Poll(t) /\ notices' = notices \cup {[from |-> name[t], reason |-> "available"]}
    /\ UNCHANGED <<name, stored, aborted, sent>>

\* The agent raises: the task fails, the lead is told and the loop is left.
TurnFails(t) ==
    /\ pc[t] = "turn"
    /\ pc' = [pc EXCEPT ![t] = "ended"]
    /\ status' = [status EXCEPT ![t] = IF Running(t) THEN "failed" ELSE @]
    /\ notices' = notices \cup {[from |-> name[t], reason |-> "failed"]}
    /\ UNCHANGED <<name, stored, aborted, pending, prompts, mailVars>>

\* The interval between two polls is over.
Wake(t) ==
    /\ pc[t] = "waiting"
    /\ Poll(t)
    /\ UNCHANGED <<name, stored, aborted, sent, notices>>

-----------------------------------------------------------------------------
(* Specification.  A turn ends sooner or later and a sleep is over; nothing *)
(* else needs to happen.                                                   *)

Next ==
    \/ \E t \in Tasks :
          StopTask(t) \/ Kill(t) \/ TurnSucceeds(t) \/ TurnFails(t) \/ Wake(t)
    \/ \E t \in Tasks, n \in Names : Spawn(t, n)
    \/ \E kind \in Kinds :
          \/ Broadcast(kind)
          \/ \E n \in Names : SendDirect(n, kind) \/ SendFromOutside(n, kind)

Spec == Init /\ [][Next]_vars
FairSpec ==
    /\ Spec
    /\ \A t \in Tasks : WF_vars(TurnSucceeds(t) \/ TurnFails(t)) /\ WF_vars(Wake(t))

-----------------------------------------------------------------------------
(* Properties.                                                             *)

\* How many prompts under a name a message was part of, of those that came this way.
Prompted(n, id, way) ==
    Cardinality({p \in Tasks \X Ids :
                    LET t == p[1]  k == p[2]
                    IN  /\ name[t] = n /\ k \in DOMAIN prompts[t]
                        /\ prompts[t][k].way = way /\ id \in Range(prompts[t][k].ids)})

\* in_process_runner.py: a message in a mailbox is the prompt of one turn at most,
\* whoever reads the mailbox under that name, however often it was killed and spawned
\* again and however many copies a broadcast wrote; the same message in the queue of
\* a task is part of one prompt at most.
MailPromptsOnce ==
    \A n \in Names, id \in Ids, way \in {"mail", "queue"} : Prompted(n, id, way) <= 1

\* in_process_runner.py:125: a prompt or a request to shut down is acted on while
\* anyone lives under the name, whatever else lies unread in the mailbox before it.
Unread(n, id) == \E i \in DOMAIN inbox[n] : inbox[n][i].id = id /\ Acts(inbox[n][i])
Lives(n) == \E t \in Tasks : name[t] = n /\ pc[t] # "ended"
MailIsActedOn ==
    \A n \in Names, id \in Ids : Unread(n, id) ~> ~Unread(n, id) \/ ~Lives(n)
=============================================================================
