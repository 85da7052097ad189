--------------------------- MODULE TeammatesProofs ---------------------------
(***************************************************************************)
(* Teammates, for any names and any bounds: a message is the prompt of one *)
(* turn at most.                                                           *)
(***************************************************************************)
EXTENDS Teammates, FiniteSetTheorems, SequenceTheorems, WellFoundedInduction, TLAPS

USE TeammatesAssumption DEF Tasks, Ids

Mails == [id : Ids, kind : Kinds, read : BOOLEAN]
Ways == {"mail", "queue"}
Prompts == [way : Ways, ids : Seq(Ids)]
Statuses == {"unborn", "running", "completed", "failed", "killed"}

Types ==
    /\ name \in [Tasks -> Names \cup {NoName}]
    /\ status \in [Tasks -> Statuses]
    /\ stored \in [Tasks -> BOOLEAN] /\ aborted \in [Tasks -> BOOLEAN]
    /\ pc \in [Tasks -> {"turn", "waiting", "ended"}]
    /\ pending \in [Tasks -> Seq(Ids)]
    /\ prompts \in [Tasks -> Seq(Prompts)]
    /\ inbox \in [Names -> Seq(Mails)]
    /\ sent \in 0 .. MaxMessages

\* A task that was not spawned does nothing, any other one has its name.
BornInv ==
    \A t \in Tasks :
        IF status[t] = "unborn" THEN pc[t] = "ended" /\ prompts[t] = <<>>
                                ELSE name[t] \in Names

\* Prompt k of task t was made of message id, which came this way.
MadeOf(t, k, way, id) ==
    k \in DOMAIN prompts[t] /\ prompts[t][k].way = way /\ id \in Range(prompts[t][k].ids)

\* Nothing has a number that was not given out.
SentInv ==
    /\ \A n \in Names : \A i \in DOMAIN inbox[n] : inbox[n][i].id <= sent
    /\ \A t \in Tasks, id \in Ids : id \in Range(pending[t]) => id <= sent
    /\ \A t \in Tasks, k \in Nat, way \in Ways, id \in Ids : MadeOf(t, k, way, id) => id <= sent

\* A message that was a prompt is read in every copy in the mailbox, so that it is
\* not taken again; it is the prompt of one turn under the name.
MailInv ==
    /\ \A t \in Tasks, k \in Nat, id \in Ids :
          MadeOf(t, k, "mail", id) =>
              \A i \in DOMAIN inbox[name[t]] :
                  inbox[name[t]][i].id = id => inbox[name[t]][i].read
    /\ \A t, u \in Tasks, k, l \in Nat, id \in Ids :
          MadeOf(t, k, "mail", id) /\ MadeOf(u, l, "mail", id) /\ name[t] = name[u]
              => t = u /\ k = l

\* A message is queued on one task, and there until it is part of a prompt.
QueueInv ==
    /\ \A t, u \in Tasks, id \in Ids :
          id \in Range(pending[t]) /\ id \in Range(pending[u]) => t = u
    /\ \A t, u \in Tasks, k \in Nat, id \in Ids :
          id \in Range(pending[t]) => ~MadeOf(u, k, "queue", id)
    /\ \A t, u \in Tasks, k, l \in Nat, id \in Ids :
          MadeOf(t, k, "queue", id) /\ MadeOf(u, l, "queue", id) => t = u /\ k = l

Inv == Types /\ BornInv /\ SentInv /\ MailInv /\ QueueInv

-----------------------------------------------------------------------------
(* Sequences.                                                              *)

LEMMA AppendRange ==
  ASSUME NEW S, NEW q \in Seq(S), NEW x \in S
  PROVE  /\ Append(q, x) \in Seq(S)
         /\ DOMAIN Append(q, x) = DOMAIN q \cup {Len(q) + 1} /\ Len(q) + 1 \notin DOMAIN q
         /\ \A i \in DOMAIN q : Append(q, x)[i] = q[i]
         /\ Append(q, x)[Len(q) + 1] = x
         /\ Range(Append(q, x)) = Range(q) \cup {x}
<1> DEFINE r == Append(q, x)
           n == Len(q)
<1>1. /\ n \in Nat /\ DOMAIN q = 1 .. n /\ r \in Seq(S) /\ DOMAIN r = 1 .. (n + 1)
      /\ \A i \in 1 .. n : r[i] = q[i]
      /\ r[n + 1] = x
  OBVIOUS
<1> HIDE DEF r, n
<1>2. 1 .. (n + 1) = (1 .. n) \cup {n + 1} /\ n + 1 \notin 1 .. n
  BY <1>1
<1>3. Range(r) = Range(q) \cup {x}
  BY <1>1, <1>2 DEF Range
<1> QED
  BY <1>1, <1>2, <1>3 DEF r, n

\* A set of natural numbers has a least element.
LEMMA Least ==
  ASSUME NEW S \in SUBSET Nat, S # {}
  PROVE  \E m \in S : \A n \in S : m <= n
<1> DEFINE R == {ss \in Nat \X Nat : ss[1] < ss[2]}
<1>1. IsWellFoundedOn(R, Nat)
  BY NatLessThanWellFounded DEF OpToRel
<1> HIDE DEF R
<1>2. PICK m \in S : \A n \in S : <<n, m>> \notin R
  BY <1>1, WFMin
<1>3. ASSUME NEW n \in S PROVE m <= n
  <2>1. n \in Nat /\ m \in Nat /\ <<n, m>> \in Nat \X Nat
    OBVIOUS
  <2>2. ~(n < m)
    BY <1>2, <2>1 DEF R
  <2> QED
    BY <2>1, <2>2
<1> QED
  BY <1>3

LEMMA FirstToActActs ==
  ASSUME NEW box \in Seq(Mails), FirstToAct(box) > 0
  PROVE  FirstToAct(box) \in DOMAIN box /\ Acts(box[FirstToAct(box)])
<1> DEFINE I == {i \in 1 .. Len(box) : Acts(box[i])}
<1>1. FirstToAct(box) = IF I # {} THEN CHOOSE x \in I : \A y \in I : x <= y ELSE 0
  BY DEF FirstToAct, SelectInSeq, Min
<1>2. I # {} /\ I \in SUBSET Nat
  BY <1>1
<1>3. \E x \in I : \A y \in I : x <= y
  BY <1>2, Least
<1>4. FirstToAct(box) \in I
  BY <1>1, <1>2, <1>3
<1> QED
  BY <1>4

-----------------------------------------------------------------------------
(* What a step may do, by the part of the state that it touches.           *)

\* The messages of the mailboxes stay, and what is read stays so.
BoxesKept ==
    \A n \in Names :
        /\ DOMAIN inbox'[n] = DOMAIN inbox[n]
        /\ \A i \in DOMAIN inbox[n] :
              /\ inbox'[n][i].id = inbox[n][i].id
              /\ inbox[n][i].read => inbox'[n][i].read

\* A task moves or is stopped; no message moves.
LEMMA QuietStep ==
  ASSUME Inv, Types', UNCHANGED <<name, pending, prompts, sent>>, BoxesKept,
         \A t \in Tasks : /\ status'[t] = "unborn" <=> status[t] = "unborn"
                          /\ status[t] = "unborn" => pc'[t] = "ended"
  PROVE  Inv'
<1>1. BornInv'
  BY DEF Inv, BornInv
<1>2. SentInv'
  BY DEF Inv, SentInv, MadeOf, BoxesKept
<1>3. QueueInv'
  BY DEF Inv, QueueInv, MadeOf
<1>4. MailInv'
  <2>1. ASSUME NEW t \in Tasks, NEW k \in Nat, NEW id \in Ids, MadeOf(t, k, "mail", id),
               NEW i \in DOMAIN inbox'[name[t]], inbox'[name[t]][i].id = id
        PROVE  inbox'[name[t]][i].read
    <3>1. name[t] \in Names
      BY <2>1 DEF Inv, BornInv, MadeOf
    <3> QED
      BY <2>1, <3>1 DEF Inv, MailInv, BoxesKept
  <2>2. \A t, u \in Tasks, k, l \in Nat, id \in Ids :
           MadeOf(t, k, "mail", id)' /\ MadeOf(u, l, "mail", id)' /\ name'[t] = name'[u]
              => t = u /\ k = l
    BY DEF Inv, MailInv, MadeOf
  <2>3. \A t \in Tasks, k \in Nat, id \in Ids :
           MadeOf(t, k, "mail", id)' <=> MadeOf(t, k, "mail", id)
    BY DEF MadeOf
  <2>4. \A t \in Tasks, k \in Nat, id \in Ids :
           MadeOf(t, k, "mail", id)' =>
              \A i \in DOMAIN inbox'[name'[t]] :
                  inbox'[name'[t]][i].id = id => inbox'[name'[t]][i].read
    BY <2>1, <2>3
  <2> QED
    BY <2>2, <2>4 DEF MailInv
<1> QED
  BY <1>1, <1>2, <1>3, <1>4 DEF Inv

\* A task gets its name; there are no prompts of it yet.
LEMMA SpawnStep ==
  ASSUME Inv, NEW t \in Tasks, NEW n \in Names, Spawn(t, n)
  PROVE  Inv'
<1> USE DEF Spawn, mailVars
<1>1. Types'
  BY DEF Inv, Types, Statuses
<1>2. /\ prompts[t] = <<>> /\ name'[t] = n
      /\ \A u \in Tasks : u # t => name'[u] = name[u] /\ status'[u] = status[u] /\ pc'[u] = pc[u]
      /\ status'[t] = "running" /\ pc'[t] = "turn"
  BY DEF Inv, Types, BornInv
<1>3. BornInv'
  BY <1>2 DEF Inv, BornInv
<1>4. \A k \in Nat, way \in Ways, id \in Ids : ~MadeOf(t, k, way, id)
  BY <1>2 DEF MadeOf
<1>5. \A u \in Tasks, k \in Nat, way \in Ways, id \in Ids :
         MadeOf(u, k, way, id)' <=> MadeOf(u, k, way, id)
  BY DEF MadeOf
<1>6. SentInv'
  BY <1>5 DEF Inv, SentInv
<1>7. QueueInv'
  BY DEF Inv, QueueInv, MadeOf
<1>8. MailInv'
  <2>1. \A u \in Tasks, k \in Nat, id \in Ids :
           /\ MadeOf(u, k, "mail", id)' <=> MadeOf(u, k, "mail", id)
           /\ MadeOf(u, k, "mail", id) => u # t
    BY <1>4, <1>5 DEF Ways
  <2>2. \A u \in Tasks, k \in Nat, id \in Ids :
           MadeOf(u, k, "mail", id)' =>
              \A i \in DOMAIN inbox'[name'[u]] :
                  inbox'[name'[u]][i].id = id => inbox'[name'[u]][i].read
    BY <1>2, <2>1 DEF Inv, MailInv
  <2>3. \A u, v \in Tasks, k, l \in Nat, id \in Ids :
           MadeOf(u, k, "mail", id)' /\ MadeOf(v, l, "mail", id)' /\ name'[u] = name'[v]
              => u = v /\ k = l
    BY <1>2, <2>1 DEF Inv, MailInv
  <2> QED
    BY <2>2, <2>3 DEF MailInv
<1> QED
  BY <1>1, <1>3, <1>6, <1>7, <1>8 DEF Inv

\* A message gets the next number and is put into mailboxes, and on one task at most.
LEMMA SendStep ==
  ASSUME Inv, Types', UNCHANGED <<taskVars, pc, prompts>>, sent' = sent + 1,
         \A n \in Names : \A i \in DOMAIN inbox'[n] :
             \/ inbox'[n][i].id = sent + 1
             \/ \E j \in DOMAIN inbox[n] : inbox'[n][i] = inbox[n][j],
         \A t \in Tasks : Range(pending'[t]) \subseteq Range(pending[t]) \cup {sent + 1},
         \A t, u \in Tasks :
             sent + 1 \in Range(pending'[t]) /\ sent + 1 \in Range(pending'[u]) => t = u
  PROVE  Inv'
<1> USE DEF taskVars
<1>1. sent \in Nat /\ \A id \in Ids : id <= sent => id # sent + 1 /\ id <= sent + 1
  BY DEF Inv, Types
<1>2. \A u \in Tasks, k \in Nat, way \in Ways, id \in Ids :
         MadeOf(u, k, way, id)' <=> MadeOf(u, k, way, id)
  BY DEF MadeOf
<1>3. BornInv'
  BY DEF Inv, BornInv
<1>4. \A t \in Tasks, id \in Ids :
         id \in Range(pending'[t]) => id = sent + 1 \/ id \in Range(pending[t])
  OBVIOUS
<1>5. SentInv'
  <2>1. ASSUME NEW n \in Names, NEW i \in DOMAIN inbox[n]
        PROVE  inbox[n][i].id \in Ids /\ inbox[n][i].id <= sent
    <3>1. inbox[n] \in Seq(Mails)
      BY DEF Inv, Types
    <3>2. inbox[n][i] \in Mails
      BY <3>1
    <3> QED
      BY <3>2 DEF Inv, SentInv, Mails
  <2>2. \A n \in Names : \A i \in DOMAIN inbox'[n] : inbox'[n][i].id <= sent'
    BY <1>1, <2>1
  <2>3. \A t \in Tasks, id \in Ids : id \in Range(pending'[t]) => id <= sent'
    BY <1>1, <1>4 DEF Inv, SentInv
  <2>4. \A t \in Tasks, k \in Nat, way \in Ways, id \in Ids : MadeOf(t, k, way, id)' => id <= sent'
    BY <1>1, <1>2 DEF Inv, SentInv
  <2> QED
    BY <2>2, <2>3, <2>4 DEF SentInv
<1>6. MailInv'
  <2>1. ASSUME NEW t \in Tasks, NEW k \in Nat, NEW id \in Ids, MadeOf(t, k, "mail", id),
               NEW i \in DOMAIN inbox'[name[t]], inbox'[name[t]][i].id = id
        PROVE  inbox'[name[t]][i].read
    <3>1. name[t] \in Names
      BY <2>1 DEF Inv, BornInv, MadeOf
    <3>2. id # sent + 1
      BY <1>1, <2>1 DEF Inv, SentInv, Ways
    <3>3. PICK j \in DOMAIN inbox[name[t]] : inbox'[name[t]][i] = inbox[name[t]][j]
      BY <2>1, <3>1, <3>2
    <3> QED
      BY <2>1, <3>3 DEF Inv, MailInv
  <2>2. \A u \in Tasks, k \in Nat, id \in Ids :
           MadeOf(u, k, "mail", id)' <=> MadeOf(u, k, "mail", id)
    BY <1>2 DEF Ways
  <2>3. \A t, u \in Tasks, k, l \in Nat, id \in Ids :
           MadeOf(t, k, "mail", id)' /\ MadeOf(u, l, "mail", id)' /\ name'[t] = name'[u]
              => t = u /\ k = l
    BY <2>2 DEF Inv, MailInv
  <2> QED
    BY <2>1, <2>2, <2>3 DEF MailInv
<1>7. QueueInv'
  <2>1. \A u \in Tasks, k \in Nat, id \in Ids : MadeOf(u, k, "queue", id) => id # sent + 1
    BY <1>1 DEF Inv, SentInv, Ways
  <2>2. \A t, u \in Tasks, id \in Ids :
           id \in Range(pending'[t]) /\ id \in Range(pending'[u]) => t = u
    BY <1>4 DEF Inv, QueueInv
  <2>3. \A t, u \in Tasks, k \in Nat, id \in Ids :
           id \in Range(pending'[t]) => ~MadeOf(u, k, "queue", id)
    BY <1>4, <2>1 DEF Inv, QueueInv
  <2> QED
    BY <1>2, <2>2, <2>3 DEF Inv, QueueInv, Ways
<1> QED
  BY <1>3, <1>5, <1>6, <1>7 DEF Inv

\* A prompt is made of these messages.
LEMMA NextTurnMakes ==
  ASSUME Types, NEW t \in Tasks, NEW w \in Ways, NEW ids \in Seq(Ids), NextTurn(t, w, ids)
  PROVE  /\ prompts' \in [Tasks -> Seq(Prompts)]
         /\ pc' = [pc EXCEPT ![t] = "turn"]
         /\ \A u \in Tasks, k \in Nat, way \in Ways, id \in Ids :
               MadeOf(u, k, way, id)' <=>
                   \/ MadeOf(u, k, way, id)
                   \/ u = t /\ k = Len(prompts[t]) + 1 /\ way = w /\ id \in Range(ids)
<1> DEFINE p == [way |-> w, ids |-> ids]
           q == prompts[t]
<1>1. p \in Prompts /\ p.way = w /\ p.ids = ids /\ q \in Seq(Prompts)
  BY DEF Prompts, Types
<1>2. prompts' = [prompts EXCEPT ![t] = Append(q, p)] /\ pc' = [pc EXCEPT ![t] = "turn"]
  BY DEF NextTurn
<1> HIDE DEF p
<1>3. /\ Append(q, p) \in Seq(Prompts)
      /\ DOMAIN Append(q, p) = DOMAIN q \cup {Len(q) + 1} /\ Len(q) + 1 \notin DOMAIN q
      /\ \A i \in DOMAIN q : Append(q, p)[i] = q[i]
      /\ Append(q, p)[Len(q) + 1] = p
  BY <1>1, AppendRange
<1>4. prompts' \in [Tasks -> Seq(Prompts)]
  BY <1>2, <1>3 DEF Types
<1>5. prompts'[t] = Append(q, p) /\ \A u \in Tasks : u # t => prompts'[u] = prompts[u]
  BY <1>2 DEF Types
<1>6. ASSUME NEW u \in Tasks, NEW k \in Nat, NEW way \in Ways, NEW id \in Ids
      PROVE  MadeOf(u, k, way, id)' <=>
                 \/ MadeOf(u, k, way, id)
                 \/ u = t /\ k = Len(q) + 1 /\ way = w /\ id \in Range(ids)
  <2>1. CASE u # t
    BY <1>5, <2>1 DEF MadeOf
  <2>2. CASE u = t /\ k = Len(q) + 1
    BY <1>1, <1>3, <1>5, <2>2 DEF MadeOf
  <2>3. CASE u = t /\ k # Len(q) + 1
    BY <1>3, <1>5, <2>3 DEF MadeOf
  <2> QED
    BY <2>1, <2>2, <2>3
<1> QED
  BY <1>2, <1>4, <1>6

\* _mark_read: the copies of one message in one mailbox.
LEMMA MarkReadMarks ==
  ASSUME Types, NEW n \in Names, NEW id \in Ids,
         inbox' = [inbox EXCEPT ![n] = MarkRead(inbox[n], id)]
  PROVE  /\ inbox' \in [Names -> Seq(Mails)]
         /\ BoxesKept
         /\ \A i \in DOMAIN inbox'[n] : inbox'[n][i].id = id => inbox'[n][i].read
<1> DEFINE box == inbox[n]
           new == MarkRead(box, id)
<1>1. box \in Seq(Mails) /\ DOMAIN box = 1 .. Len(box) /\ Len(box) \in Nat
  BY DEF Types
<1>2. \A i \in DOMAIN box : box[i] \in Mails
  BY <1>1
<1>3. DOMAIN new = DOMAIN box
  BY DEF MarkRead
<1>4. ASSUME NEW i \in DOMAIN box
      PROVE  /\ new[i] \in Mails /\ new[i].id = box[i].id
             /\ box[i].read => new[i].read
             /\ box[i].id = id => new[i].read
  <2>1. new[i] = IF box[i].id = id THEN [box[i] EXCEPT !.read = TRUE] ELSE box[i]
    BY DEF MarkRead
  <2> QED
    BY <1>2, <2>1 DEF Mails
<1>5. new \in Seq(Mails)
  <2>1. new \in [1 .. Len(box) -> Mails]
    BY <1>1, <1>3, <1>4 DEF MarkRead
  <2> QED
    BY <1>1, <2>1, SeqDef
<1> HIDE DEF new
<1>6. inbox'[n] = new /\ \A m \in Names : m # n => inbox'[m] = inbox[m]
  BY DEF Types, new
<1>7. inbox' \in [Names -> Seq(Mails)]
  BY <1>5 DEF Types, new
<1>8. BoxesKept
  BY <1>3, <1>4, <1>6 DEF BoxesKept
<1> QED
  BY <1>3, <1>4, <1>6, <1>7, <1>8

\* The next prompt is a message of the mailbox that nobody under the name has taken.
LEMMA MailPromptStep ==
  ASSUME Inv, NEW t \in Tasks, pc[t] # "ended", NEW i \in DOMAIN inbox[name[t]],
         ~inbox[name[t]][i].read,
         NextTurn(t, "mail", <<inbox[name[t]][i].id>>),
         inbox' = [inbox EXCEPT ![name[t]] = MarkRead(inbox[name[t]], inbox[name[t]][i].id)],
         UNCHANGED <<name, stored, aborted, pending, sent>>
  PROVE  Inv'
<1> DEFINE n == name[t]
           new == inbox[n][i].id
<1>1. n \in Names /\ status[t] # "unborn"
  BY DEF Inv, BornInv
<1>2. inbox[n][i] \in Mails
  BY <1>1 DEF Inv, Types
<1>3. new \in Ids /\ new <= sent /\ <<new>> \in Seq(Ids) /\ Range(<<new>>) = {new}
  BY <1>1, <1>2 DEF Inv, SentInv, Mails, Range
<1>4. ~inbox[n][i].read /\ inbox[n][i].id = new
  OBVIOUS
<1> HIDE DEF new
<1>5. /\ inbox' \in [Names -> Seq(Mails)] /\ BoxesKept
      /\ \A j \in DOMAIN inbox'[n] : inbox'[n][j].id = new => inbox'[n][j].read
  BY <1>1, <1>3, MarkReadMarks DEF Inv, new
<1>6. /\ prompts' \in [Tasks -> Seq(Prompts)]
      /\ pc' = [pc EXCEPT ![t] = "turn"]
      /\ \A u \in Tasks, k \in Nat, way \in Ways, id \in Ids :
            MadeOf(u, k, way, id)' <=>
                \/ MadeOf(u, k, way, id)
                \/ u = t /\ k = Len(prompts[t]) + 1 /\ way = "mail" /\ id \in {new}
  <2> DEFINE ids == <<new>>
  <2>1. NextTurn(t, "mail", ids) /\ ids \in Seq(Ids) /\ Range(ids) = {new} /\ "mail" \in Ways
    BY <1>3 DEF new, Ways
  <2> HIDE DEF ids
  <2>2. /\ prompts' \in [Tasks -> Seq(Prompts)]
        /\ pc' = [pc EXCEPT ![t] = "turn"]
        /\ \A u \in Tasks, k \in Nat, way \in Ways, id \in Ids :
              MadeOf(u, k, way, id)' <=>
                  \/ MadeOf(u, k, way, id)
                  \/ u = t /\ k = Len(prompts[t]) + 1 /\ way = "mail" /\ id \in Range(ids)
    BY <2>1, NextTurnMakes DEF Inv
  <2> QED
    BY <2>1, <2>2
<1>7. status' = status
  BY DEF NextTurn
<1>8. Types'
  BY <1>5, <1>6, <1>7 DEF Inv, Types
<1>9. BornInv'
  <2>1. \A u \in Tasks : u # t => prompts'[u] = prompts[u] /\ pc'[u] = pc[u]
    BY <1>6 DEF NextTurn, Inv, Types
  <2> QED
    BY <1>1, <1>7, <2>1 DEF Inv, BornInv
<1>10. SentInv'
  <2>1. \A m \in Names : \A j \in DOMAIN inbox'[m] : inbox'[m][j].id <= sent'
    BY <1>5 DEF Inv, SentInv, BoxesKept
  <2>2. \A u \in Tasks, k \in Nat, way \in Ways, id \in Ids : MadeOf(u, k, way, id)' => id <= sent'
    BY <1>3, <1>6 DEF Inv, SentInv
  <2> QED
    BY <2>1, <2>2 DEF Inv, SentInv
<1>11. QueueInv'
  <2>1. \A u \in Tasks, k \in Nat, id \in Ids :
           MadeOf(u, k, "queue", id)' <=> MadeOf(u, k, "queue", id)
    BY <1>6 DEF Ways
  <2> QED
    BY <2>1 DEF Inv, QueueInv
<1>12. MailInv'
  <2>1. \A u \in Tasks, k \in Nat, id \in Ids :
           MadeOf(u, k, "mail", id)' <=>
               MadeOf(u, k, "mail", id) \/ (u = t /\ k = Len(prompts[t]) + 1 /\ id = new)
    BY <1>6 DEF Ways
  <2>2. \A u \in Tasks, k \in Nat : name[u] = n => ~MadeOf(u, k, "mail", new)
    BY <1>3, <1>4 DEF Inv, MailInv
  <2>3. ASSUME NEW u \in Tasks, NEW k \in Nat, NEW id \in Ids, MadeOf(u, k, "mail", id)',
               NEW j \in DOMAIN inbox'[name[u]], inbox'[name[u]][j].id = id
        PROVE  inbox'[name[u]][j].read
    <3>1. CASE u = t /\ id = new
      BY <1>5, <2>3, <3>1
    <3>2. CASE MadeOf(u, k, "mail", id)
      <4>1. name[u] \in Names
        BY <3>2 DEF Inv, BornInv, MadeOf
      <4> QED
        BY <1>5, <2>3, <3>2, <4>1 DEF Inv, MailInv, BoxesKept
    <3> QED
      BY <2>1, <2>3, <3>1, <3>2
  <2>4. \A u, v \in Tasks, k, l \in Nat, id \in Ids :
           MadeOf(u, k, "mail", id)' /\ MadeOf(v, l, "mail", id)' /\ name'[u] = name'[v]
              => u = v /\ k = l
    BY <1>3, <2>1, <2>2 DEF Inv, MailInv
  <2> QED
    BY <2>3, <2>4 DEF MailInv
<1> QED
  BY <1>8, <1>9, <1>10, <1>11, <1>12 DEF Inv

\* The next prompt is what was queued on the task, and the queue is emptied.
LEMMA QueuePromptStep ==
  ASSUME Inv, NEW t \in Tasks, pc[t] # "ended",
         NextTurn(t, "queue", pending[t]), pending' = [pending EXCEPT ![t] = <<>>],
         UNCHANGED <<name, stored, aborted, inbox, sent>>
  PROVE  Inv'
<1>1. status[t] # "unborn" /\ pending[t] \in Seq(Ids) /\ status' = status
  BY DEF Inv, BornInv, Types, NextTurn
<1>2. /\ prompts' \in [Tasks -> Seq(Prompts)]
      /\ pc' = [pc EXCEPT ![t] = "turn"]
      /\ \A u \in Tasks, k \in Nat, way \in Ways, id \in Ids :
            MadeOf(u, k, way, id)' <=>
                \/ MadeOf(u, k, way, id)
                \/ u = t /\ k = Len(prompts[t]) + 1 /\ way = "queue" /\ id \in Range(pending[t])
  BY <1>1, NextTurnMakes DEF Inv, Ways
<1>3. /\ Range(pending'[t]) = {} /\ pending' \in [Tasks -> Seq(Ids)]
      /\ \A u \in Tasks : u # t => pending'[u] = pending[u]
  BY DEF Inv, Types, Range
<1>4. Types'
  BY <1>1, <1>2, <1>3 DEF Inv, Types
<1>5. BornInv'
  <2>1. \A u \in Tasks : u # t => prompts'[u] = prompts[u] /\ pc'[u] = pc[u]
    BY <1>2 DEF NextTurn, Inv, Types
  <2> QED
    BY <1>1, <2>1 DEF Inv, BornInv
<1>6. SentInv'
  <2>1. \A u \in Tasks, k \in Nat, way \in Ways, id \in Ids : MadeOf(u, k, way, id)' => id <= sent'
    BY <1>2 DEF Inv, SentInv
  <2>2. \A u \in Tasks, id \in Ids : id \in Range(pending'[u]) => id <= sent'
    BY <1>3 DEF Inv, SentInv
  <2> QED
    BY <2>1, <2>2 DEF Inv, SentInv
<1>7. MailInv'
  <2>1. \A u \in Tasks, k \in Nat, id \in Ids :
           MadeOf(u, k, "mail", id)' <=> MadeOf(u, k, "mail", id)
    BY <1>2 DEF Ways
  <2>2. \A u \in Tasks, k \in Nat, id \in Ids :
           MadeOf(u, k, "mail", id)' =>
              \A i \in DOMAIN inbox'[name'[u]] :
                  inbox'[name'[u]][i].id = id => inbox'[name'[u]][i].read
    BY <2>1 DEF Inv, MailInv
  <2>3. \A u, v \in Tasks, k, l \in Nat, id \in Ids :
           MadeOf(u, k, "mail", id)' /\ MadeOf(v, l, "mail", id)' /\ name'[u] = name'[v]
              => u = v /\ k = l
    BY <2>1 DEF Inv, MailInv
  <2> QED
    BY <2>2, <2>3 DEF MailInv
<1>8. QueueInv'
  <2>1. \A u \in Tasks, k \in Nat, id \in Ids :
           MadeOf(u, k, "queue", id)' <=>
               \/ MadeOf(u, k, "queue", id)
               \/ u = t /\ k = Len(prompts[t]) + 1 /\ id \in Range(pending[t])
    BY <1>2 DEF Ways
  <2>2. \A u \in Tasks, id \in Ids : id \in Range(pending'[u]) => u # t /\ id \in Range(pending[u])
    BY <1>3
  <2>3. \A u, v \in Tasks, id \in Ids :
           id \in Range(pending'[u]) /\ id \in Range(pending'[v]) => u = v
    BY <2>2 DEF Inv, QueueInv
  <2>4. \A u, v \in Tasks, k \in Nat, id \in Ids :
           id \in Range(pending'[u]) => ~MadeOf(v, k, "queue", id)'
    BY <2>1, <2>2 DEF Inv, QueueInv
  <2>5. \A u, v \in Tasks, k, l \in Nat, id \in Ids :
           MadeOf(u, k, "queue", id)' /\ MadeOf(v, l, "queue", id)' => u = v /\ k = l
    BY <2>1 DEF Inv, QueueInv
  <2> QED
    BY <2>3, <2>4, <2>5 DEF QueueInv
<1> QED
  BY <1>4, <1>5, <1>6, <1>7, <1>8 DEF Inv

-----------------------------------------------------------------------------
(* The actions.                                                            *)

LEMMA SameBoxes ==
  ASSUME UNCHANGED inbox
  PROVE  BoxesKept
BY DEF BoxesKept

LEMMA FinishTypes ==
  ASSUME Inv, NEW t \in Tasks, pc[t] # "ended", Finish(t)
  PROVE  /\ pc' \in [Tasks -> {"turn", "waiting", "ended"}]
         /\ status' \in [Tasks -> Statuses]
         /\ UNCHANGED <<pending, prompts>>
         /\ \A u \in Tasks : /\ status'[u] = "unborn" <=> status[u] = "unborn"
                             /\ status[u] = "unborn" => pc'[u] = "ended"
BY DEF Inv, Types, BornInv, Finish, Running, Statuses

LEMMA StopTaskStep ==
  ASSUME Inv, NEW t \in Tasks, StopTask(t)
  PROVE  Inv'
<1>1. Types' /\ UNCHANGED <<name, pending, prompts, sent, inbox>>
  BY DEF Inv, Types, StopTask, Statuses, mailVars
<1>2. \A u \in Tasks : /\ status'[u] = "unborn" <=> status[u] = "unborn"
                       /\ status[u] = "unborn" => pc'[u] = "ended"
  BY DEF Inv, Types, BornInv, StopTask, Running
<1> QED
  BY <1>1, <1>2, SameBoxes, QuietStep

LEMMA KillStep ==
  ASSUME Inv, NEW t \in Tasks, Kill(t)
  PROVE  Inv'
<1>1. UNCHANGED <<name, pc, pending, prompts, sent, inbox>>
  BY DEF Kill, mailVars
<1>2. stored' \in [Tasks -> BOOLEAN] /\ aborted' \in [Tasks -> BOOLEAN]
  BY Zenon DEF Inv, Types, Kill
<1>3. status' \in [Tasks -> Statuses]
  BY DEF Inv, Types, Kill, Statuses
<1>4. Types'
  BY <1>1, <1>2, <1>3 DEF Inv, Types
<1>5. \A u \in Tasks : /\ status'[u] = "unborn" <=> status[u] = "unborn"
                       /\ status[u] = "unborn" => pc'[u] = "ended"
  BY DEF Inv, Types, BornInv, Kill
<1> QED
  BY <1>1, <1>4, <1>5, SameBoxes, QuietStep

LEMMA TurnFailsStep ==
  ASSUME Inv, NEW t \in Tasks, TurnFails(t)
  PROVE  Inv'
<1>1. Types' /\ UNCHANGED <<name, pending, prompts, sent, inbox>>
  BY DEF Inv, Types, TurnFails, Statuses, mailVars
<1>2. \A u \in Tasks : /\ status'[u] = "unborn" <=> status[u] = "unborn"
                       /\ status[u] = "unborn" => pc'[u] = "ended"
  BY DEF Inv, Types, BornInv, TurnFails, Running
<1> QED
  BY <1>1, <1>2, SameBoxes, QuietStep

LEMMA AbortedStep ==
  ASSUME Inv, NEW t \in Tasks, pc[t] # "ended", Finish(t),
         UNCHANGED <<name, stored, aborted, inbox, sent>>
  PROVE  Inv'
<1>1. Types'
  BY FinishTypes DEF Inv, Types
<1> QED
  BY <1>1, FinishTypes, SameBoxes, QuietStep

\* One pass of wait_for_next_prompt_or_shutdown.
LEMMA PollStep ==
  ASSUME Inv, NEW t \in Tasks, pc[t] # "ended", Poll(t),
         UNCHANGED <<name, stored, aborted, sent>>
  PROVE  Inv'
<1> DEFINE box == inbox[name[t]]
           i == FirstToAct(box)
<1>1. name[t] \in Names /\ box \in Seq(Mails) /\ status[t] # "unborn"
  BY DEF Inv, Types, BornInv
<1>2. CASE Finish(t) /\ inbox' = inbox
  BY <1>2, AbortedStep
<1>3. CASE /\ i > 0 /\ Finish(t)
           /\ inbox' = [inbox EXCEPT ![name[t]] = MarkRead(box, box[i].id)]
  <2>1. i \in DOMAIN box
    BY <1>1, <1>3, FirstToActActs
  <2>2. box[i] \in Mails
    BY <1>1, <2>1
  <2> DEFINE new == box[i].id
  <2>3. new \in Ids /\ inbox' = [inbox EXCEPT ![name[t]] = MarkRead(inbox[name[t]], new)]
    BY <1>3, <2>2 DEF Mails
  <2> HIDE DEF new
  <2>4. inbox' \in [Names -> Seq(Mails)] /\ BoxesKept
    BY <1>1, <2>3, MarkReadMarks DEF Inv
  <2>5. Types'
    BY <1>3, <2>4, FinishTypes DEF Inv, Types
  <2> QED
    BY <1>3, <2>4, <2>5, FinishTypes, QuietStep
<1>4. CASE /\ i > 0 /\ NextTurn(t, "mail", <<box[i].id>>) /\ pending' = pending
           /\ inbox' = [inbox EXCEPT ![name[t]] = MarkRead(box, box[i].id)]
  <2>1. i \in DOMAIN box /\ ~box[i].read
    BY <1>1, <1>4, FirstToActActs DEF Acts
  <2> HIDE DEF i
  <2> QED
    BY <1>4, <2>1, MailPromptStep
<1>5. CASE /\ NextTurn(t, "queue", pending[t])
           /\ pending' = [pending EXCEPT ![t] = <<>>]
           /\ inbox' = inbox
  BY <1>5, QueuePromptStep
<1>6. CASE /\ pc' = [pc EXCEPT ![t] = "waiting"]
           /\ UNCHANGED <<inbox, status, pending, prompts>>
  <2>1. Types'
    BY <1>6 DEF Inv, Types
  <2>2. \A u \in Tasks : status[u] = "unborn" => pc'[u] = "ended"
    BY <1>1, <1>6 DEF Inv, Types, BornInv
  <2> QED
    BY <1>6, <2>1, <2>2, SameBoxes, QuietStep
<1> QED
  BY <1>2, <1>3, <1>4, <1>5, <1>6 DEF Poll

LEMMA TurnSucceedsStep ==
  ASSUME Inv, NEW t \in Tasks, TurnSucceeds(t)
  PROVE  Inv'
<1>1. pc[t] # "ended" /\ UNCHANGED <<name, stored, aborted, sent>>
  BY DEF TurnSucceeds
<1>2. CASE Finish(t) /\ UNCHANGED inbox
  BY <1>1, <1>2, AbortedStep
<1>3. CASE Poll(t)
  BY <1>1, <1>3, PollStep
<1> QED
  BY <1>2, <1>3 DEF TurnSucceeds

LEMMA WakeStep ==
  ASSUME Inv, NEW t \in Tasks, Wake(t)
  PROVE  Inv'
BY PollStep DEF Wake

\* A new message at the end of one mailbox.
LEMMA OneMailed ==
  ASSUME Inv, NEW n \in Names, NEW kind \in Kinds, sent < MaxMessages,
         inbox' = [inbox EXCEPT ![n] = Append(@, Mail(sent + 1, kind))]
  PROVE  /\ inbox' \in [Names -> Seq(Mails)]
         /\ \A m \in Names : \A i \in DOMAIN inbox'[m] :
               \/ inbox'[m][i].id = sent + 1
               \/ \E j \in DOMAIN inbox[m] : inbox'[m][i] = inbox[m][j]
<1> DEFINE mail == Mail(sent + 1, kind)
           box == inbox[n]
<1>1. mail \in Mails /\ mail.id = sent + 1 /\ box \in Seq(Mails)
  <2>1. sent + 1 \in Ids /\ FALSE \in BOOLEAN /\ box \in Seq(Mails)
    BY DEF Inv, Types
  <2> QED
    BY <2>1 DEF Mail, Mails
<1> HIDE DEF mail
<1>2. /\ Append(box, mail) \in Seq(Mails)
      /\ DOMAIN Append(box, mail) = DOMAIN box \cup {Len(box) + 1}
      /\ \A i \in DOMAIN box : Append(box, mail)[i] = box[i]
      /\ Append(box, mail)[Len(box) + 1] = mail
  BY <1>1, AppendRange
<1>3. inbox' = [inbox EXCEPT ![n] = Append(box, mail)]
  BY DEF mail
<1>4. inbox'[n] = Append(box, mail) /\ \A m \in Names : m # n => inbox'[m] = inbox[m]
  BY <1>3 DEF Inv, Types
<1>5. inbox' \in [Names -> Seq(Mails)]
  BY <1>2, <1>3 DEF Inv, Types
<1> QED
  BY <1>1, <1>2, <1>4, <1>5

LEMMA SendDirectStep ==
  ASSUME Inv, NEW n \in Names, NEW kind \in Kinds, SendDirect(n, kind)
  PROVE  Inv'
<1> DEFINE new == sent + 1
<1>1. /\ sent < MaxMessages /\ sent' = new /\ UNCHANGED <<taskVars, pc, prompts>>
      /\ inbox' = [inbox EXCEPT ![n] = Append(@, Mail(sent + 1, kind))]
      /\ pending' = [t \in Tasks |-> IF t \in Targets(n) THEN Append(pending[t], new) ELSE pending[t]]
      /\ new \in Ids /\ new = sent + 1
  BY DEF SendDirect, Inv, Types
<1>2. \A t, u \in Targets(n) : t = u
  BY DEF Targets
<1> HIDE DEF new
<1>3. ASSUME NEW t \in Tasks
      PROVE  /\ pending'[t] \in Seq(Ids)
             /\ Range(pending'[t]) = IF t \in Targets(n) THEN Range(pending[t]) \cup {new}
                                                         ELSE Range(pending[t])
  <2>1. pending[t] \in Seq(Ids)
    BY DEF Inv, Types
  <2>2. Append(pending[t], new) \in Seq(Ids) /\ Range(Append(pending[t], new)) = Range(pending[t]) \cup {new}
    BY <1>1, <2>1, AppendRange
  <2> QED
    BY <1>1, <2>1, <2>2
<1>4. \A t \in Tasks : new \notin Range(pending[t])
  BY <1>1 DEF Inv, Types, SentInv
<1>5. pending' \in [Tasks -> Seq(Ids)]
  BY <1>1, <1>3
<1>6. Types'
  <2>1. inbox' \in [Names -> Seq(Mails)]
    BY <1>1, OneMailed
  <2>2. sent' \in 0 .. MaxMessages
    BY <1>1 DEF Inv, Types
  <2> QED
    BY <1>1, <1>5, <2>1, <2>2 DEF Inv, Types, taskVars
<1>7. \A t \in Tasks : Range(pending'[t]) \subseteq Range(pending[t]) \cup {sent + 1}
  BY <1>1, <1>3
<1>8. \A t, u \in Tasks :
         sent + 1 \in Range(pending'[t]) /\ sent + 1 \in Range(pending'[u]) => t = u
  BY <1>1, <1>2, <1>3, <1>4
<1> QED
  BY <1>1, <1>6, <1>7, <1>8, OneMailed, SendStep

LEMMA SendFromOutsideStep ==
  ASSUME Inv, NEW n \in Names, NEW kind \in Kinds, SendFromOutside(n, kind)
  PROVE  Inv'
<1>1. /\ sent < MaxMessages /\ sent' = sent + 1 /\ UNCHANGED <<taskVars, pc, pending, prompts>>
      /\ inbox' = [inbox EXCEPT ![n] = Append(@, Mail(sent + 1, kind))]
      /\ sent + 1 \in Ids
  BY DEF SendFromOutside, Inv, Types
<1>2. \A t \in Tasks : sent + 1 \notin Range(pending[t])
  BY <1>1 DEF Inv, Types, SentInv
<1>3. Types'
  <2>1. inbox' \in [Names -> Seq(Mails)]
    BY <1>1, OneMailed
  <2>2. sent' \in 0 .. MaxMessages
    BY <1>1 DEF Inv, Types
  <2> QED
    BY <1>1, <2>1, <2>2 DEF Inv, Types, taskVars
<1> QED
  BY <1>1, <1>2, <1>3, OneMailed, SendStep

LEMMA BroadcastStep ==
  ASSUME Inv, NEW kind \in Kinds, Broadcast(kind)
  PROVE  Inv'
<1> DEFINE mail == Mail(sent + 1, kind)
           copies(n) == Cardinality({t \in Tasks : Running(t) /\ name[t] = n})
           more(n) == [i \in 1 .. copies(n) |-> mail]
<1>1. /\ sent < MaxMessages /\ sent' = sent + 1 /\ UNCHANGED <<taskVars, pc, pending, prompts>>
      /\ inbox' = [n \in Names |-> inbox[n] \o more(n)]
      /\ sent + 1 \in Ids /\ mail \in Mails /\ mail.id = sent + 1
  BY DEF Broadcast, Inv, Types, Mail, Mails
<1>2. \A t \in Tasks : sent + 1 \notin Range(pending[t])
  BY <1>1 DEF Inv, Types, SentInv
<1> HIDE DEF mail
<1>3. ASSUME NEW n \in Names
      PROVE  /\ inbox'[n] \in Seq(Mails)
             /\ \A i \in DOMAIN inbox'[n] :
                   \/ inbox'[n][i].id = sent + 1
                   \/ \E j \in DOMAIN inbox[n] : inbox'[n][i] = inbox[n][j]
  <2> DEFINE c == copies(n)
             m == more(n)
             box == inbox[n]
  <2>1. c \in Nat
    <3>1. IsFiniteSet(Tasks)
      BY FS_Interval
    <3>2. IsFiniteSet({t \in Tasks : Running(t) /\ name[t] = n})
      BY <3>1, FS_Subset
    <3> QED
      BY <3>2, FS_CardinalityType
  <2>2. inbox'[n] = box \o m /\ m = [i \in 1 .. c |-> mail]
    BY <1>1
  <2> HIDE DEF c, m
  <2>3. m \in Seq(Mails) /\ Len(m) = c /\ \A i \in 1 .. c : m[i] = mail
    BY <1>1, <2>1, <2>2
  <2>4. box \in Seq(Mails) /\ Len(box) \in Nat /\ DOMAIN box = 1 .. Len(box)
    BY DEF Inv, Types
  <2>5. /\ box \o m \in Seq(Mails)
        /\ DOMAIN (box \o m) = 1 .. (Len(box) + c)
        /\ \A i \in 1 .. (Len(box) + c) :
              (box \o m)[i] = IF i <= Len(box) THEN box[i] ELSE m[i - Len(box)]
    BY <2>1, <2>3, <2>4
  <2>6. ASSUME NEW i \in DOMAIN (box \o m)
        PROVE  (box \o m)[i].id = sent + 1 \/ \E j \in DOMAIN box : (box \o m)[i] = box[j]
    <3>1. CASE i <= Len(box)
      BY <2>4, <2>5, <3>1
    <3>2. CASE i > Len(box)
      <4>1. i - Len(box) \in 1 .. c
        BY <2>1, <2>4, <2>5, <3>2
      <4>2. (box \o m)[i] = m[i - Len(box)]
        BY <2>1, <2>4, <2>5, <3>2
      <4> QED
        BY <1>1, <2>3, <4>1, <4>2
    <3> QED
      BY <2>1, <2>4, <2>5, <3>1, <3>2
  <2> QED
    BY <2>2, <2>5, <2>6
<1> HIDE DEF more
<1>4. inbox' \in [Names -> Seq(Mails)]
  BY <1>1, <1>3
<1>5. Types'
  BY <1>1, <1>4 DEF Inv, Types, taskVars
<1> QED
  BY <1>1, <1>2, <1>3, <1>5, SendStep

-----------------------------------------------------------------------------
(* The theorems.                                                           *)

LEMMA InitInv == Init => Inv
BY DEF Init, Inv, Types, BornInv, SentInv, MailInv, QueueInv, MadeOf, Statuses, Range

LEMMA NextInv == Inv /\ [Next]_vars => Inv'
<1> SUFFICES ASSUME Inv, [Next]_vars
             PROVE  Inv'
  OBVIOUS
<1>1. ASSUME NEW t \in Tasks,
             StopTask(t) \/ Kill(t) \/ TurnSucceeds(t) \/ TurnFails(t) \/ Wake(t)
      PROVE  Inv'
  BY <1>1, StopTaskStep, KillStep, TurnSucceedsStep, TurnFailsStep, WakeStep
<1>2. ASSUME NEW t \in Tasks, NEW n \in Names, Spawn(t, n)
      PROVE  Inv'
  BY <1>2, SpawnStep
<1>3. ASSUME NEW kind \in Kinds, Broadcast(kind)
      PROVE  Inv'
  BY <1>3, BroadcastStep
<1>4. ASSUME NEW kind \in Kinds, NEW n \in Names, SendDirect(n, kind) \/ SendFromOutside(n, kind)
      PROVE  Inv'
  BY <1>4, SendDirectStep, SendFromOutsideStep
<1>5. CASE UNCHANGED vars
  <2>1. UNCHANGED <<name, status, stored, aborted, pc, pending, prompts, inbox, sent>>
    BY <1>5 DEF vars, taskVars, mailVars
  <2>2. Types' /\ (\A t \in Tasks : status[t] = "unborn" => pc'[t] = "ended")
    BY <2>1 DEF Inv, Types, BornInv
  <2> QED
    BY <2>1, <2>2, SameBoxes, QuietStep
<1> QED
  BY <1>1, <1>2, <1>3, <1>4, <1>5 DEF Next

\* Whatever is sent, by whom and how often a teammate is killed and spawned again:
\* the types, the names of the tasks that were spawned, and where each message is.
THEOREM Invariant == Spec => []Inv
<1>1. Init => Inv
  BY InitInv
<1>2. Inv /\ [Next]_vars => Inv'
  BY NextInv
<1> QED
  BY <1>1, <1>2, PTL DEF Spec

LEMMA AtMostOne ==
  ASSUME NEW S, \A p, q \in S : p = q
  PROVE  Cardinality(S) <= 1
<1>1. CASE S = {}
  BY <1>1, FS_EmptySet
<1>2. CASE S # {}
  <2>1. PICK p : p \in S
    BY <1>2
  <2>2. S = {p}
    BY <2>1
  <2> QED
    BY <2>2, FS_Singleton
<1> QED
  BY <1>1, <1>2

\* in_process_runner.py: a message in a mailbox is the prompt of one turn at most,
\* whoever reads the mailbox under that name, and one queued on a task is part of one
\* prompt at most.
THEOREM MailPromptsOnceHolds == Spec => []MailPromptsOnce
<1>1. Inv => MailPromptsOnce
  <2> SUFFICES ASSUME Inv, NEW n \in Names, NEW id \in Ids, NEW way \in {"mail", "queue"}
               PROVE  Prompted(n, id, way) <= 1
    BY DEF MailPromptsOnce
  <2> DEFINE S == {p \in Tasks \X Ids :
                      LET t == p[1]  k == p[2]
                      IN  /\ name[t] = n /\ k \in DOMAIN prompts[t]
                          /\ prompts[t][k].way = way /\ id \in Range(prompts[t][k].ids)}
  <2>1. \A p \in S : /\ p = <<p[1], p[2]>> /\ p[1] \in Tasks /\ p[2] \in Nat
                     /\ name[p[1]] = n /\ MadeOf(p[1], p[2], way, id)
    BY DEF MadeOf
  <2>2. ASSUME NEW p \in S, NEW q \in S
        PROVE  p = q
    <3>1. p[1] = q[1] /\ p[2] = q[2]
      <4>1. CASE way = "mail"
        BY <2>1, <4>1 DEF Inv, MailInv
      <4>2. CASE way = "queue"
        BY <2>1, <4>2 DEF Inv, QueueInv
      <4> QED
        BY <4>1, <4>2
    <3> QED
      BY <2>1, <3>1
  <2>3. Cardinality(S) <= 1
    BY <2>2, AtMostOne
  <2> QED
    BY <2>3 DEF Prompted
<1> QED
  BY <1>1, Invariant, PTL
=============================================================================
