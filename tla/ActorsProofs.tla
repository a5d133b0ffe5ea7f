---------------------------- MODULE ActorsProofs ----------------------------
(***************************************************************************)
(* Messages, deaths and what processes see of each other: the order of      *)
(* delivery, the death notices, and that the Context implements module      *)
(* Actors.                                                                  *)
(***************************************************************************)
EXTENDS SchedulerProofs

-----------------------------------------------------------------------------
(* The order of messages, over the values of queue_ (q), the messages of a  *)
(* slot (c) and the number of queueSend() calls (n).                        *)

IsMessage(q, i) == q[i].kind = "message"

\* The messages in queue_ have the stamps of different calls, in order.
QueueOrder(q, n) ==
  /\ \A i \in Indices(q) : IsMessage(q, i) => /\ q[i].message.to = q[i].pid
                                              /\ q[i].message.stamp < n
  /\ \A i, j \in Indices(q) : IsMessage(q, i) /\ IsMessage(q, j) /\ i < j
                                => q[i].message.stamp < q[j].message.stamp

\* So do the messages in the slot of r, and they are older than all of queue_.
BoxOrder(c, r, q, n) ==
  /\ \A i \in Indices(c) : c[i].to = r /\ c[i].stamp < n
  /\ \A i, j \in Indices(c) : i < j => c[i].stamp < c[j].stamp
  /\ \A i \in Indices(c) : \A j \in Indices(q) :
       IsMessage(q, j) => c[i].stamp < q[j].message.stamp

\* push_back() and pop_front(), in terms of the positions: t is s with e at its
\* end.
Appended(t, s, e) ==
  /\ Len(s) \in Nat
  /\ Indices(t) = Indices(s) \cup {Len(s) + 1} /\ t[Len(s) + 1] = e
  /\ \A i \in Indices(s) : t[i] = s[i] /\ i \in Nat /\ i < Len(s) + 1

LEMMA AppendIndices ==
  ASSUME NEW S, NEW s \in Seq(S), NEW e \in S
  PROVE  Appended(Append(s, e), s, e)
<1> DEFINE t == Append(s, e)
<1>1. Len(s) \in Nat
  BY LenProperties
<1>2. /\ Len(t) = Len(s) + 1 /\ t[Len(s) + 1] = e
      /\ \A i \in 1..Len(s) : t[i] = s[i]
  BY AppendProperties
<1> HIDE DEF t
<1>3. Indices(t) = Indices(s) \cup {Len(s) + 1}
  BY <1>1, <1>2 DEF Indices
<1>4. Appended(t, s, e)
  BY <1>1, <1>2, <1>3 DEF Appended, Indices
<1> QED BY <1>4 DEF t

LEMMA TailIndices ==
  ASSUME NEW S, NEW s \in Seq(S), s # <<>>
  PROVE  /\ 1 \in Indices(s) /\ Head(s) = s[1]
         /\ \A i \in Indices(Tail(s)) :
              i \in Nat /\ 1 < i + 1 /\ i + 1 \in Indices(s) /\ Tail(s)[i] = s[i + 1]
         /\ \A i \in Indices(s) :
              i = 1 \/ (i - 1 \in Indices(Tail(s)) /\ s[i] = Tail(s)[i - 1])
<1> DEFINE t == Tail(s)
<1>1. /\ Len(s) \in Nat \ {0} /\ Head(s) = s[1] /\ Len(t) = Len(s) - 1
      /\ \A i \in 1..(Len(s) - 1) : t[i] = s[i + 1]
  BY HeadTailIndices
<1> HIDE DEF t
<1>2. 1 \in Indices(s)
  BY <1>1 DEF Indices
<1>3. \A i \in Indices(t) : i \in Nat /\ 1 < i + 1 /\ i + 1 \in Indices(s)
                            /\ t[i] = s[i + 1]
  BY <1>1 DEF Indices
<1>4. ASSUME NEW i \in Indices(s), i # 1
      PROVE  i - 1 \in Indices(t) /\ s[i] = t[i - 1]
  <2>1. i - 1 \in 1..(Len(s) - 1) /\ (i - 1) + 1 = i
    BY <1>1, <1>4 DEF Indices
  <2>2. t[i - 1] = s[(i - 1) + 1]
    BY <1>1, <2>1
  <2> QED BY <1>1, <2>1, <2>2 DEF Indices
<1> QED BY <1>1, <1>2, <1>3, <1>4 DEF t

\* What an item of queue_ is.
LEMMA ItemFields ==
  ASSUME NEW i \in Items
  PROVE  /\ i.pid \in Pids /\ i.kind \in {"message", "resume"}
         /\ i.kind = "message" => i.message \in Messages /\ i.message.stamp \in Nat
BY DEF Items, Messages

\* A resume at the end of queue_ is no message.
LEMMA AppendResumeOrder ==
  ASSUME NEW q \in Seq(Items), NEW n \in Nat, QueueOrder(q, n),
         NEW p \in Pids, NEW k \in Nat
  PROVE  LET new == Append(q, ResumeItem(p, k)) IN
         /\ QueueOrder(new, n)
         /\ \A c, r : BoxOrder(c, r, q, n) => BoxOrder(c, r, new, n)
<1> DEFINE e == ResumeItem(p, k)
           new == Append(q, e)
<1>1. e \in Items /\ e.kind # "message"
  BY ItemTypes DEF ResumeItem, PidOrNone
<1> HIDE DEF e
<1>2. Appended(new, q, e)
  BY <1>1, AppendIndices
<1> HIDE DEF new
<1>3. \A i \in Indices(new) : IsMessage(new, i) =>
        i \in Indices(q) /\ IsMessage(q, i) /\ new[i] = q[i]
  BY <1>1, <1>2 DEF IsMessage, Appended
<1>4. QueueOrder(new, n)
  BY <1>3 DEF QueueOrder
<1>5. \A c, r : BoxOrder(c, r, q, n) => BoxOrder(c, r, new, n)
  BY <1>3 DEF BoxOrder
<1> QED BY <1>4, <1>5 DEF new, e

\* queueSend(): the new message is the youngest of all.
LEMMA AppendMessageOrder ==
  ASSUME NEW q \in Seq(Items), NEW n \in Nat, QueueOrder(q, n),
         NEW to \in Pids, NEW body \in PidOrNone
  PROVE  LET new == Append(q, MessageItem(Message(to, body, n))) IN
         /\ QueueOrder(new, n + 1)
         /\ \A r : \A c \in Seq(Messages) :
              BoxOrder(c, r, q, n) => BoxOrder(c, r, new, n + 1)
<1> DEFINE e == MessageItem(Message(to, body, n))
           new == Append(q, e)
<1>1. /\ e \in Items /\ e.kind = "message" /\ e.pid = to
      /\ e.message.to = to /\ e.message.stamp = n
  BY ItemTypes DEF MessageItem, Message
<1> HIDE DEF e
<1>2. Appended(new, q, e)
  BY <1>1, AppendIndices
<1> HIDE DEF new
<1> USE DEF Appended
<1>3. \A i \in Indices(q) : IsMessage(q, i) => q[i].message.stamp \in Nat
  <2>1. \A i \in Indices(q) : q[i] \in Items
    BY ElementOfSeq DEF Indices
  <2> QED BY <2>1, ItemFields DEF IsMessage
<1>4. QueueOrder(new, n + 1)
  <2>1. ASSUME NEW i \in Indices(new), IsMessage(new, i)
        PROVE  new[i].message.to = new[i].pid /\ new[i].message.stamp < n + 1
    <3>1. CASE i \in Indices(q)
      BY <1>2, <1>3, <2>1, <3>1 DEF QueueOrder, IsMessage
    <3>2. CASE i = Len(q) + 1
      BY <1>1, <1>2, <3>2
    <3> QED BY <1>2, <3>1, <3>2
  <2>2. ASSUME NEW i \in Indices(new), NEW j \in Indices(new),
               IsMessage(new, i), IsMessage(new, j), i < j
        PROVE  new[i].message.stamp < new[j].message.stamp
    <3>1. i \in Indices(q)
      BY <1>2, <2>2
    <3>2. CASE j \in Indices(q)
      BY <1>2, <2>2, <3>1, <3>2 DEF QueueOrder, IsMessage
    <3>3. CASE j = Len(q) + 1
      BY <1>1, <1>2, <2>2, <3>1, <3>3 DEF QueueOrder, IsMessage
    <3> QED BY <1>2, <3>2, <3>3
  <2> QED BY <2>1, <2>2 DEF QueueOrder
<1>5. ASSUME NEW r, NEW c \in Seq(Messages), BoxOrder(c, r, q, n)
      PROVE  BoxOrder(c, r, new, n + 1)
  <2>1. \A i \in Indices(c) : c[i].stamp \in Nat /\ c[i].stamp < n
    <3>1. \A i \in Indices(c) : c[i] \in Messages
      BY ElementOfSeq DEF Indices
    <3> QED BY <1>5, <3>1 DEF BoxOrder, Messages
  <2>2. \A i \in Indices(c) : c[i].stamp < n + 1
    BY <2>1
  <2>3. \A i \in Indices(c) : \A j \in Indices(new) :
          IsMessage(new, j) => c[i].stamp < new[j].message.stamp
    BY <1>1, <1>2, <1>5, <2>1 DEF BoxOrder, IsMessage
  <2> QED BY <1>5, <2>2, <2>3 DEF BoxOrder
<1> QED BY <1>4, <1>5 DEF new, e

\* The front of queue_ is taken off.
LEMMA TailOrder ==
  ASSUME NEW q \in Seq(Items), q # <<>>, NEW n, QueueOrder(q, n)
  PROVE  /\ QueueOrder(Tail(q), n)
         /\ \A c, r : BoxOrder(c, r, q, n) => BoxOrder(c, r, Tail(q), n)
<1>1. \A i \in Indices(Tail(q)) :
        i \in Nat /\ i + 1 \in Indices(q) /\ Tail(q)[i] = q[i + 1]
  BY TailIndices
<1>2. \A i, j \in Indices(Tail(q)) : i < j => i + 1 < j + 1
  BY <1>1
<1>3. QueueOrder(Tail(q), n)
  BY <1>1, <1>2 DEF QueueOrder, IsMessage
<1>4. \A c, r : BoxOrder(c, r, q, n) => BoxOrder(c, r, Tail(q), n)
  BY <1>1 DEF BoxOrder, IsMessage
<1> QED BY <1>3, <1>4

\* The message at the front of queue_ goes to the end of its receiver's slot.
LEMMA DeliverOrder ==
  ASSUME NEW q \in Seq(Items), q # <<>>, NEW n, QueueOrder(q, n),
         Head(q).kind = "message",
         NEW c \in Seq(Messages), BoxOrder(c, Head(q).pid, q, n)
  PROVE  BoxOrder(Append(c, Head(q).message), Head(q).pid, Tail(q), n)
<1> DEFINE m == Head(q).message
           r == Head(q).pid
           new == Append(c, m)
<1>1. /\ 1 \in Indices(q) /\ Head(q) = q[1]
      /\ \A i \in Indices(Tail(q)) :
           1 < i + 1 /\ i + 1 \in Indices(q) /\ Tail(q)[i] = q[i + 1]
  BY TailIndices
<1>2. Head(q) \in Items
  BY <1>1, ElementOfSeq DEF Indices
<1>3. m \in Messages
  BY <1>2, ItemFields
<1>4. m.to = r /\ m.stamp < n /\ \A i \in Indices(c) : c[i].stamp < m.stamp
  BY <1>1 DEF QueueOrder, BoxOrder, IsMessage
<1> HIDE DEF m
<1>5. Appended(new, c, m)
  BY <1>3, AppendIndices
<1> HIDE DEF new
<1> USE DEF Appended
<1>6. BoxOrder(c, r, Tail(q), n)
  BY TailOrder
<1>7. \A j \in Indices(Tail(q)) :
        IsMessage(Tail(q), j) => m.stamp < Tail(q)[j].message.stamp
  BY <1>1 DEF QueueOrder, IsMessage, m
<1> HIDE DEF r
<1>8. \A i, j \in Indices(new) : i < j => new[i].stamp < new[j].stamp
  <2>1. \A i, j \in Indices(new) : i < j => i \in Indices(c)
    BY <1>5
  <2> QED BY <1>4, <1>5, <1>6, <2>1 DEF BoxOrder
<1>9. BoxOrder(new, r, Tail(q), n)
  BY <1>4, <1>5, <1>6, <1>7, <1>8 DEF BoxOrder
<1> QED BY <1>9 DEF new, m, r

\* The oldest message of a slot is received.
LEMMA TakeOrder ==
  ASSUME NEW c \in Seq(Messages), c # <<>>, NEW r, NEW q, NEW n,
         BoxOrder(c, r, q, n)
  PROVE  BoxOrder(Tail(c), r, q, n)
<1>1. \A i \in Indices(Tail(c)) :
        i \in Nat /\ i + 1 \in Indices(c) /\ Tail(c)[i] = c[i + 1]
  BY TailIndices
<1>2. \A i, j \in Indices(Tail(c)) : i < j => i + 1 < j + 1
  BY <1>1
<1> QED BY <1>1, <1>2 DEF BoxOrder

-----------------------------------------------------------------------------
(* What a step does to the mail and to the processes: every action of the    *)
(* Context is one of the few kinds of ActorStep.                             *)

\* The messages of a slot are the same, whatever its promise does.
SameBox(new, old) ==
  Contents(new) = Contents(old) /\ (WellFormed(old) => WellFormed(new))
SameBoxes == \A r \in Pids : SameBox(mq'[r], mq[r])

\* No message is sent, moved or received; queue_ may gain or lose a resume.
NoMail ==
  /\ SameBoxes /\ UNCHANGED <<sends, noticed>>
  /\ \/ queue' = queue
     \/ \E p \in Pids : Spawned(p) /\ queue' = Append(queue, ResumeItem(p, resumes[p]))
     \/ queue # <<>> /\ Head(queue).kind = "resume" /\ queue' = Tail(queue)

\* queueSend() to a pid that was given out.
Sent(to, body) ==
  /\ to \in Pids /\ Spawned(to) /\ body \in PidOrNone
  /\ QueueSend(to, body) /\ SameBoxes /\ noticed' = noticed

\* The message at the front of queue_ is dropped, because its receiver is dead,
Dropped ==
  /\ queue # <<>> /\ Head(queue).kind = "message" /\ queue' = Tail(queue)
  /\ ~InTable(processes, Head(queue).pid)
  /\ SameBoxes /\ UNCHANGED <<sends, noticed>>

\* or pushed onto the slot of its receiver.
Moved ==
  LET r == Head(queue).pid IN
  /\ queue # <<>> /\ Head(queue).kind = "message" /\ queue' = Tail(queue)
  /\ InTable(processes, r)
  /\ Contents(mq'[r]) = Append(Contents(mq[r]), Head(queue).message)
  /\ WellFormed(mq'[r])
  /\ \A s \in Pids \ {r} : SameBox(mq'[s], mq[s])
  /\ UNCHANGED <<sends, noticed>>

\* p receives the oldest message of its slot.
Taken(p) ==
  /\ Contents(mq[p]) # <<>> /\ Contents(mq'[p]) = Tail(Contents(mq[p]))
  /\ WellFormed(mq'[p])
  /\ \A s \in Pids \ {p} : SameBox(mq'[s], mq[s])
  /\ noticed' = noticed \cup ({Head(Contents(mq[p])).body} \ {NoPid})
  /\ UNCHANGED <<queue, sends>>

\* Nobody is created and nobody dies.
SameTable ==
  /\ freed' = freed
  /\ \A q \in Pids : /\ InTable(processes', q) <=> InTable(processes, q)
                     /\ q = dying' \/ InDoom(toDestroy', q)
                          <=> q = dying \/ InDoom(toDestroy, q)

\* The loop works on the mail; at most, a process is woken or suspended.
Quiet ==
  /\ NoMail \/ Dropped \/ Moved
  /\ SameTable /\ UNCHANGED linkVars
  /\ \/ running' \in {running, NoPid}
     \/ running = NoPid /\ running' \in Pids /\ InTable(processes, running')

Creates ==
  \E kill, back \in SUBSET Pids : \E notify \in PidOrNone :
    /\ Construct(kill, notify, back)
    /\ notify \in Pids => Spawned(notify)

\* What the running process does.
Links == \E p, b \in Pids : Link(p, b)
Sends ==
  /\ \E to \in Pids : Sent(to, NoPid)
  /\ running \in Pids /\ SameTable /\ UNCHANGED <<linkVars, running>>
Takes ==
  /\ running \in Pids /\ Taken(running)
  /\ SameTable /\ UNCHANGED <<linkVars, running>>

\* b dies, unless it is dead: killed, at its end, or after one it is linked to.
Dies(b) ==
  /\ NoMail /\ MovesOut(b) /\ UNCHANGED <<dying, freed, linkVars>>
  /\ \/ running \in Pids /\ running' = running
     \/ running = b /\ running' = NoPid
     \/ /\ running = NoPid /\ running' = NoPid
        /\ dying \in Pids /\ b \in killOnDie[dying]

ActorStep ==
  \/ Quiet \/ Creates \/ Links \/ Sends \/ Takes
  \/ (\E b \in Pids : Dies(b))
  \/ FinishDestroy

\* Messages are delivered in the order of the queueSend() calls.
MailInv ==
  /\ QueueOrder(queue, sends)
  /\ \A r \in Pids : /\ WellFormed(mq[r])
                     /\ BoxOrder(Contents(mq[r]), r, queue, sends)

\* Every pid that queue_, a slot, a death notice or a throttled send() names has
\* been given out.
Addressed ==
  /\ \A i \in Indices(queue) : Spawned(queue[i].pid)
  /\ \A r \in Pids : Contents(mq[r]) # <<>> => Spawned(r)
  /\ \A p \in Pids : notifyOnDie[p] \in Pids => Spawned(notifyOnDie[p])
  /\ \A p \in Pids : sending[p] \in Pids => Spawned(sending[p])

LEMMA BornIsSpawned == \A p \in Pids : Born(p) <=> Spawned(p)
BY DEF Born, Live, Doomed, Spawned, Known, InTable, InDoom, Indices

\* A step that only changes promises leaves the messages where they are.
LEMMA PromiseOnly ==
  ASSUME NEW boxes \in [Pids -> Queues(Messages, Handlers)], NEW b, NEW x,
         NEW r \in Pids
  PROVE  SameBox([boxes EXCEPT ![b].p_ = x][r], boxes[r])
<1>1. boxes[r] \in Queues(Messages, Handlers)
  OBVIOUS
<1>2. CASE r = b
  <2>1. [boxes EXCEPT ![b].p_ = x][r] = [boxes[r] EXCEPT !.p_ = x]
    BY <1>2
  <2>2. /\ [boxes[r] EXCEPT !.p_ = x].stackStorage = boxes[r].stackStorage
        /\ [boxes[r] EXCEPT !.p_ = x].others = boxes[r].others
    BY <1>1 DEF Queues
  <2> QED BY <2>1, <2>2 DEF SameBox, Contents, WellFormed
<1>3. CASE r # b
  BY <1>3 DEF SameBox
<1> QED BY <1>2, <1>3

LEMMA BoxesFrame ==
  ASSUME mq' = mq PROVE SameBoxes
BY DEF SameBoxes, SameBox

LEMMA ResumeBoxes ==
  ASSUME NEW boxes \in [Pids -> Queues(Messages, Handlers)], NEW t, NEW hs,
         NEW bad, BeginResume(t, boxes, hs, bad), NEW r \in Pids
  PROVE  SameBox(mq'[r], boxes[r])
<1>1. CASE waiting[t] = "future"
  <2>1. mq' = [boxes EXCEPT ![sending[t]].p_ = Process(boxes[sending[t]].p_)]
    BY <1>1 DEF BeginResume
  <2> QED BY <2>1, PromiseOnly
<1>2. CASE waiting[t] # "future"
  BY <1>2 DEF BeginResume, SameBox
<1> QED BY <1>1, <1>2

\* get_optional() takes the oldest message.
LEMMA TakeMessageTakes ==
  ASSUME TypeOK, NEW p \in Pids, WellFormed(mq[p]), Size(mq[p]) > 0,
         TakeMessage(p), UNCHANGED <<queue, sends>>
  PROVE  Taken(p)
<1>1. mq[p] \in Queues(Messages, Handlers) /\ mq \in [Pids -> Queues(Messages, Handlers)]
  BY DEF TypeOK
<1>2. /\ Contents(mq[p]) # <<>> /\ Oldest(mq[p]) = Head(Contents(mq[p]))
      /\ Contents(Pop(mq[p])) = Tail(Contents(mq[p])) /\ WellFormed(Pop(mq[p]))
  BY <1>1, PopContents
<1>3. mq'[p] = Pop(mq[p]) /\ \A s \in Pids \ {p} : mq'[s] = mq[s]
  BY <1>1 DEF TakeMessage
<1>4. noticed' = noticed \cup ({Oldest(mq[p]).body} \ {NoPid})
  BY DEF TakeMessage
<1> QED BY <1>2, <1>3, <1>4 DEF Taken, SameBox

LEMMA TableIsSame ==
  ASSUME UNCHANGED <<processes, toDestroy, dying, freed>> PROVE SameTable
BY DEF SameTable

\* A step that leaves queue_, the slots and the table alone.
LEMMA NothingHappens ==
  ASSUME UNCHANGED <<mailVars, processes, toDestroy, dying, freed, linkVars>>,
         running' \in {running, NoPid}
  PROVE  Quiet
<1>1. NoMail
  BY BoxesFrame DEF NoMail, mailVars
<1> QED BY <1>1, TableIsSame DEF Quiet

LEMMA ProcessStepActs ==
  ASSUME SchedulerInv, MailInv, Addressed, NEW p \in Pids, ProcessStep(p)
  PROVE  ActorStep
<1> USE DEF tableVars, loopVars, memVars
<1>1. /\ TypeOK /\ Table /\ running = p /\ running \in Pids /\ Spawned(p)
  <2>1. running = p /\ p # NoPid
    BY ProcessStepFrame, PidFields DEF SchedulerInv
  <2> QED BY <2>1 DEF SchedulerInv, LoopInv, Exists, Spawned, Known
<1>2. ASSUME NEW kill \in SUBSET Pids, NEW back \in SUBSET Pids,
             NEW notify \in PidOrNone, Construct(kill, notify, back),
             notify \in Pids => Spawned(notify)
      PROVE  ActorStep
  BY <1>2 DEF Creates, ActorStep
<1>3. CASE Spawn(p)
  BY <1>2, <1>3, PidFields DEF Spawn, PidOrNone
<1>4. CASE SpawnLink(p)
  BY <1>2, <1>4, PidFields DEF SpawnLink, PidOrNone
<1>5. CASE SpawnLinkNotify(p)
  BY <1>1, <1>2, <1>5, PidFields DEF SpawnLinkNotify, PidOrNone
<1>6. ASSUME NEW b \in Pids, SpawnCtorLink(p, b) PROVE ActorStep
  BY <1>2, <1>6, PidFields DEF SpawnCtorLink, PidOrNone
<1>7. ASSUME Ends(p, processes, tombstones)
             \/ Ends(p, NextPidProcesses, NextPidTombstones),
             UNCHANGED <<dying, freed, linkVars, mailVars>>
      PROVE  ActorStep
  <2>1. MovesOut(p) /\ running' = NoPid
    BY <1>1, <1>7, CoroutineEnds DEF Ends
  <2>2. NoMail
    BY <1>7, BoxesFrame DEF NoMail, mailVars
  <2> QED BY <1>1, <1>7, <2>1, <2>2 DEF Dies, ActorStep
<1>8. ASSUME NEW b \in Pids, SpawnThrows(p, b) PROVE ActorStep
  BY <1>7, <1>8 DEF SpawnThrows
<1>9. CASE Finish(p)
  BY <1>7, <1>9 DEF Finish
<1>10. ASSUME NEW b \in Pids, Link(p, b) PROVE ActorStep
  BY <1>10 DEF Links, ActorStep
<1>11. ASSUME NEW b \in Pids, QueueKill(p, b) PROVE ActorStep
  <2>1. MovesOut(b) /\ UNCHANGED <<running, dying, freed, linkVars, mailVars>>
    BY <1>1, <1>11, EndsTable DEF QueueKill
  <2>2. NoMail
    BY <2>1, BoxesFrame DEF NoMail, mailVars
  <2> QED BY <1>1, <2>1, <2>2 DEF Dies, ActorStep
<1>12. ASSUME NEW b \in Pids, Spawned(b), QueueSend(b, NoPid),
              UNCHANGED <<loopVars, tableVars, linkVars, mq, noticed, memVars>>
       PROVE  ActorStep
  <2>1. Sent(b, NoPid)
    BY <1>12, BoxesFrame DEF Sent, PidOrNone
  <2> QED BY <1>1, <1>12, <2>1, TableIsSame DEF Sends, ActorStep
<1>13. ASSUME NEW b \in Pids, Send(p, b) PROVE ActorStep
  <2>1. Spawned(b)
    BY <1>13, BornIsSpawned DEF Send
  <2> QED BY <1>12, <1>13, <2>1 DEF Send
<1>14. CASE ThrottledSend(p)
  <2>1. sending[p] \in Pids /\ Spawned(sending[p])
    BY <1>1, <1>14 DEF ThrottledSend, InCanQueue, TypeOK, PidOrNone, Addressed
  <2> QED BY <1>12, <1>14, <2>1 DEF ThrottledSend
<1>15. ASSUME running' \in {running, NoPid}, SameBoxes,
              queue' = queue \/ queue' = Append(queue, ResumeItem(p, resumes[p])),
              UNCHANGED <<dying, tableVars, linkVars, sends, noticed, freed>>
       PROVE  ActorStep
  BY <1>1, <1>15, TableIsSame DEF NoMail, Quiet, ActorStep
<1>16. ASSUME NEW b \in Pids, SendThrottled(p, b) PROVE ActorStep
  BY <1>15, <1>16, BoxesFrame DEF SendThrottled, Park
<1>17. ASSUME NEW w \in Waits[p.idx], Suspend(p, w) PROVE ActorStep
  BY <1>15, <1>17, BoxesFrame DEF Suspend, Park
<1>18. CASE CanQueueNull(p)
  BY <1>18, NothingHappens DEF CanQueueNull, ActorStep
<1>19. CASE WaitForRoom(p)
  <2>1. PICK b, x : mq' = [mq EXCEPT ![b].p_ = x]
    BY <1>19 DEF WaitForRoom
  <2>2. SameBoxes
    BY <1>1, <2>1, PromiseOnly DEF SameBoxes, TypeOK
  <2> QED BY <1>15, <1>19, <2>2 DEF WaitForRoom, Park
<1>20. ASSUME Size(mq[p]) > 0, TakeMessage(p),
              UNCHANGED <<queue, sends, running, dying, tableVars, linkVars, freed>>
       PROVE  ActorStep
  <2>1. Taken(p)
    BY <1>1, <1>20, TakeMessageTakes DEF MailInv
  <2> QED BY <1>1, <1>20, <2>1, TableIsSame DEF Takes, ActorStep
<1>21. CASE Receive(p)
  BY <1>20, <1>21 DEF Receive
<1>22. CASE AwaitResume(p)
  <2>1. UNCHANGED <<queue, sends, dying, linkVars, freed>>
    BY <1>22 DEF AwaitResume
  <2>2. \/ Ends(p, processes, tombstones) /\ UNCHANGED <<mq, noticed>>
        \/ /\ UNCHANGED <<running, tableVars>>
           /\ \/ UNCHANGED <<mq, noticed>>
              \/ Size(mq[p]) # 0 /\ TakeMessage(p)
    BY <1>22 DEF AwaitResume
  <2>3. Size(mq[p]) \in Nat
    BY <1>1, LenProperties DEF TypeOK, Queues, Size
  <2>4. CASE Ends(p, processes, tombstones) /\ UNCHANGED <<mq, noticed>>
    BY <1>7, <2>1, <2>4 DEF mailVars
  <2>5. CASE UNCHANGED <<running, tableVars, mq, noticed>>
    BY <2>1, <2>5, NothingHappens DEF ActorStep, mailVars
  <2>6. CASE UNCHANGED <<running, tableVars>> /\ Size(mq[p]) # 0 /\ TakeMessage(p)
    BY <1>20, <2>1, <2>3, <2>6
  <2> QED BY <2>2, <2>4, <2>5, <2>6
<1> QED BY <1>3, <1>4, <1>5, <1>6, <1>8, <1>9, <1>10, <1>11, <1>13, <1>14,
           <1>16, <1>17, <1>18, <1>19, <1>21, <1>22 DEF ProcessStep

\* The message at the front of queue_ reaches its receiver's slot, or is dropped.
LEMMA MessageMoves ==
  ASSUME SchedulerInv, MailInv, ProcessMessage
  PROVE  Moved \/ Dropped
<1> DEFINE i == Head(queue)
           r == i.pid
           boxes == IF Accepts(i)
                    THEN [mq EXCEPT ![Proc(r)] = Push(@, i.message)] ELSE mq
<1>1. /\ TypeOK /\ queue # <<>> /\ i.kind = "message" /\ queue' = Tail(queue)
      /\ UNCHANGED <<sends, noticed>>
  BY DEF ProcessMessage, SchedulerInv
<1>2. /\ i \in Items /\ r \in Pids /\ i.message \in Messages
  BY <1>1, HeadItem, ItemFields
<1>3. \/ BeginResume(Proc(r), boxes, ready, {})
      \/ NoResume(boxes, ready, {})
  BY DEF ProcessMessage
<1> HIDE DEF i
<1>4. mq \in [Pids -> Queues(Messages, Handlers)] /\ WellFormed(mq[r])
  BY <1>1, <1>2 DEF TypeOK, MailInv
<1>5. processes \in Seq(PidOrNone) /\ (InTable(processes, r) <=> Found(processes, r))
  BY <1>1, <1>2, InTableIsFound DEF SchedulerInv, Table, TableInv, Owned, TypeOK
<1>6. ASSUME boxes \in [Pids -> Queues(Messages, Handlers)], NEW s \in Pids
      PROVE  SameBox(mq'[s], boxes[s])
  <2> HIDE DEF boxes
  <2>1. CASE BeginResume(Proc(r), boxes, ready, {})
    BY <1>6, <2>1, ResumeBoxes
  <2>2. CASE NoResume(boxes, ready, {})
    BY <2>2 DEF NoResume, SameBox
  <2> QED BY <1>3, <2>1, <2>2
<1>7. CASE Found(processes, r)
  <2>1. Proc(r) = r
    BY <1>2, <1>5, <1>7, FoundIsSelf DEF SchedulerInv, Table, TableInv, Owned, Proc
  <2>2. boxes = [mq EXCEPT ![r] = Push(@, i.message)]
    BY <1>7, <2>1 DEF Accepts
  <2>3. /\ Push(mq[r], i.message) \in Queues(Messages, Handlers)
        /\ Contents(Push(mq[r], i.message)) = Append(Contents(mq[r]), i.message)
        /\ WellFormed(Push(mq[r], i.message))
    <3>1. mq[r] \in Queues(Messages, Handlers)
      BY <1>2, <1>4
    <3> HIDE DEF r
    <3>2. Push(mq[r], i.message) \in Queues(Messages, Handlers)
      BY <1>2, <3>1, QueueTypes
    <3> QED BY <1>2, <1>4, <3>1, <3>2, PushAppends
  <2>4. /\ boxes \in [Pids -> Queues(Messages, Handlers)]
        /\ boxes[r] = Push(mq[r], i.message)
        /\ \A s \in Pids \ {r} : boxes[s] = mq[s]
    BY <1>2, <1>4, <2>2, <2>3
  <2> HIDE DEF boxes, r
  <2>5. SameBox(mq'[r], boxes[r]) /\ \A s \in Pids \ {r} : SameBox(mq'[s], mq[s])
    BY <1>2, <1>6, <2>4
  <2>6. /\ Contents(mq'[r]) = Append(Contents(mq[r]), i.message)
        /\ WellFormed(mq'[r])
    BY <2>3, <2>4, <2>5 DEF SameBox
  <2>7. Moved
    BY <1>1, <1>5, <1>7, <2>5, <2>6 DEF Moved, i, r
  <2> QED BY <2>7
<1>8. CASE ~Found(processes, r)
  <2>1. boxes = mq
    BY <1>8 DEF Accepts
  <2>2. SameBoxes
    BY <1>4, <1>6, <2>1 DEF SameBoxes
  <2> QED BY <1>1, <1>5, <1>8, <2>2 DEF Dropped, i
<1> QED BY <1>7, <1>8

\* resume() touches no message.
LEMMA WakesQuietly ==
  ASSUME SchedulerInv, running = NoPid, NEW t \in Pids, InTable(processes, t),
         NEW hs, NEW bad,
         BeginResume(t, mq, hs, bad) \/ NoResume(mq, hs, bad),
         \/ queue' = queue
         \/ queue # <<>> /\ Head(queue).kind = "resume" /\ queue' = Tail(queue),
         UNCHANGED <<dying, tableVars, linkVars, sends, noticed, freed>>
  PROVE  Quiet
<1>1. SameBoxes
  <2>1. mq \in [Pids -> Queues(Messages, Handlers)]
    BY DEF SchedulerInv, TypeOK
  <2> QED BY <2>1, BoxesFrame, ResumeBoxes DEF SameBoxes, NoResume
<1>2. NoMail
  BY <1>1 DEF NoMail
<1>3. running' \in {running, t}
  BY DEF BeginResume, NoResume
<1> QED BY <1>2, <1>3, TableIsSame DEF Quiet, tableVars

LEMMA LoopStepActs ==
  ASSUME SchedulerInv, LinkInv, MailInv, LoopStep
  PROVE  ActorStep
<1> USE DEF tableVars, loopVars, memVars, rest
<1>0. TypeOK /\ Table
  BY DEF SchedulerInv
<1>1. CASE Exit \/ RunOne \/ HandlerCrashes \/ EndPoll \/ DestroyDone
  BY <1>1, NothingHappens
  DEF Exit, RunOne, HandlerCrashes, EndPoll, DestroyDone, ActorStep
<1>2. ASSUME NEW p \in Pids, TimerExpires(p) PROVE ActorStep
  BY <1>2, NothingHappens DEF TimerExpires, ActorStep
<1>3. CASE ProcessMessage
  <2>1. /\ at = "top" /\ queue # <<>>
        /\ UNCHANGED <<dying, tableVars, linkVars, freed>>
    BY <1>3 DEF ProcessMessage
  <2>2. running = NoPid /\ Head(queue).pid \in Pids
    BY <1>0, <2>1, HeadItem DEF SchedulerInv, LoopInv
  <2>3. \/ Found(processes, Head(queue).pid) /\ running' = Proc(Head(queue).pid)
        \/ running' = running
    BY <1>3 DEF ProcessMessage, Accepts, BeginResume, NoResume
  <2>4. running' = NoPid \/ (running' \in Pids /\ InTable(processes, running'))
    BY <1>0, <2>2, <2>3, ProcInTable
  <2>5. Quiet
    BY <1>3, <2>1, <2>2, <2>4, MessageMoves, TableIsSame DEF Quiet
  <2> QED BY <2>5 DEF ActorStep
<1>4. CASE ProcessResume
  <2> DEFINE i == Head(queue)
  <2>1. /\ at = "top" /\ queue # <<>> /\ i.kind = "resume" /\ queue' = Tail(queue)
        /\ UNCHANGED <<dying, tableVars, linkVars, sends, noticed, freed>>
    BY <1>4 DEF ProcessResume
  <2>2. running = NoPid /\ i.pid \in Pids
    BY <1>0, <2>1, HeadItem DEF SchedulerInv, LoopInv
  <2>3. \/ Found(processes, i.pid) /\ BeginResume(Proc(i.pid), mq, ready, {})
        \/ NoResume(mq, ready, {})
    BY <1>4 DEF ProcessResume
  <2> HIDE DEF i
  <2>4. CASE Found(processes, i.pid) /\ BeginResume(Proc(i.pid), mq, ready, {})
    <3>1. Proc(i.pid) \in Pids /\ InTable(processes, Proc(i.pid))
      BY <1>0, <2>2, <2>4, ProcInTable
    <3> QED BY <2>1, <2>2, <2>4, <3>1, WakesQuietly DEF ActorStep, i
  <2>5. CASE NoResume(mq, ready, {})
    <3>1. running' = running /\ mq' = mq
      BY <2>5 DEF NoResume
    <3>2. NoMail
      BY <2>1, <3>1, BoxesFrame DEF NoMail, i
    <3> QED BY <2>1, <3>1, <3>2, TableIsSame DEF Quiet, ActorStep
  <2> QED BY <2>3, <2>4, <2>5
<1>5. CASE RunAborted
  BY <1>5, NothingHappens DEF RunAborted, NoResume, mailVars, ActorStep
<1>6. ASSUME NEW t \in Pids, NEW hs, NEW bad, running = NoPid,
             (Live(t) /\ BeginResume(t, mq, hs, bad)) \/ NoResume(mq, hs, bad),
             UNCHANGED <<dying, tableVars, linkVars, queue, sends, noticed, freed>>
      PROVE  ActorStep
  <2>1. CASE Live(t) /\ BeginResume(t, mq, hs, bad)
    <3>1. InTable(processes, t)
      BY <2>1 DEF Live, InTable, Indices
    <3> QED BY <1>6, <2>1, <3>1, WakesQuietly DEF ActorStep
  <2>2. CASE NoResume(mq, hs, bad)
    BY <1>6, <2>2, NothingHappens DEF NoResume, mailVars, ActorStep
  <2> QED BY <1>6, <2>1, <2>2
<1>7. CASE RunTimer \/ RunContinuation
  <2> DEFINE t == Head(ready).pid
  <2>1. /\ running = NoPid /\ ready # <<>>
        /\ UNCHANGED <<dying, tableVars, linkVars, queue, sends, noticed, freed>>
    BY <1>7 DEF RunTimer, RunContinuation, RunsHandler
  <2>2. t \in Pids
    BY <1>0, <2>1, HeadHandler
  <2>3. \/ Live(t) /\ BeginResume(t, mq, Tail(ready), {})
        \/ NoResume(mq, Tail(ready), ReadsFreed(t))
    BY <1>7 DEF RunTimer, RunContinuation, Continues
  <2> HIDE DEF t
  <2> QED BY <1>6, <2>1, <2>2, <2>3
<1>8. ASSUME NEW q \in Pids, RunReused(q) PROVE ActorStep
  BY <1>6, <1>8 DEF RunReused, RunsHandler
<1>9. CASE DestroyNext
  <2>1. /\ dying = NoPid /\ toDestroy # <<>> /\ dying' = Head(toDestroy)
        /\ toDestroy' = Tail(toDestroy)
        /\ UNCHANGED <<running, processes, linkVars, mailVars, freed>>
    BY <1>9 DEF DestroyNext
  <2>2. \A q \in Pids : InDoom(toDestroy, q)
                          <=> InDoom(Tail(toDestroy), q) \/ q = Head(toDestroy)
    BY <1>0, <2>1, DestroyNextInv DEF Table, TypeOK
  <2>3. SameTable
    BY <2>1, <2>2, PidFields DEF SameTable
  <2>4. NoMail
    BY <2>1, BoxesFrame DEF NoMail, mailVars
  <2> QED BY <2>1, <2>3, <2>4 DEF Quiet, ActorStep
<1>10. ASSUME NEW q \in Pids, KillLinked(q) PROVE ActorStep
  <2>1. /\ dying # NoPid /\ q \in kills /\ AddToDestroy(q, processes, tombstones)
        /\ UNCHANGED <<running, dying, freed, linkVars, mailVars>>
    BY <1>10 DEF KillLinked
  <2>2. dying \in Pids /\ running = NoPid /\ q \in killOnDie[dying]
    BY <1>0, <2>1 DEF TypeOK, PidOrNone, SchedulerInv, LoopInv, LinkInv
  <2>3. MovesOut(q)
    BY <1>0, <2>1, EndsTable
  <2>4. NoMail
    BY <2>1, BoxesFrame DEF NoMail, mailVars
  <2> QED BY <2>1, <2>2, <2>3, <2>4 DEF Dies, ActorStep
<1>11. CASE FinishDestroy
  BY <1>11 DEF ActorStep
<1> QED BY <1>1, <1>2, <1>3, <1>4, <1>5, <1>7, <1>8, <1>9, <1>10, <1>11
        DEF LoopStep

LEMMA StepActs ==
  ASSUME SchedulerInv, LinkInv, MailInv, Addressed, [Next]_vars
  PROVE  ActorStep
<1> USE DEF vars, loopVars, tableVars, memVars, rest
<1>1. CASE MainSpawn
  BY <1>1, PidFields DEF MainSpawn, Creates, ActorStep, PidOrNone
<1>2. CASE Run \/ Terminated \/ UNCHANGED vars
  BY <1>2, NothingHappens DEF Run, Terminated, ActorStep
<1> QED BY <1>1, <1>2, ProcessStepActs, LoopStepActs DEF Next

-----------------------------------------------------------------------------
(* The order of delivery is kept. *)

LEMMA ContentsType ==
  ASSUME NEW q \in Queues(Messages, Handlers)
  PROVE  Contents(q) \in Seq(Messages)
<1>1. q.stackStorage \in Seq(Messages) /\ q.others \in Seq(Messages)
  BY DEF Queues
<1> QED BY <1>1, ConcatProperties DEF Contents

LEMMA MailTypes ==
  ASSUME TypeOK
  PROVE  /\ queue \in Seq(Items) /\ sends \in Nat /\ resumes \in [Pids -> Nat]
         /\ \A r \in Pids : /\ mq[r] \in Queues(Messages, Handlers)
                            /\ Contents(mq[r]) \in Seq(Messages)
BY ContentsType DEF TypeOK

LEMMA NoMailOrder ==
  ASSUME TypeOK, MailInv, NoMail
  PROVE  MailInv'
<1>1. /\ queue \in Seq(Items) /\ sends \in Nat /\ resumes \in [Pids -> Nat]
  BY MailTypes
<1>2. QueueOrder(queue, sends) /\ sends' = sends
  BY DEF MailInv, NoMail
<1>3. /\ QueueOrder(queue', sends)
      /\ \A c, r : BoxOrder(c, r, queue, sends) => BoxOrder(c, r, queue', sends)
  <2>1. CASE queue' = queue
    BY <1>2, <2>1
  <2>2. ASSUME NEW p \in Pids, queue' = Append(queue, ResumeItem(p, resumes[p]))
        PROVE  /\ QueueOrder(queue', sends)
               /\ \A c, r : BoxOrder(c, r, queue, sends) => BoxOrder(c, r, queue', sends)
    <3>1. resumes[p] \in Nat
      BY <1>1
    <3> QED BY <1>1, <1>2, <2>2, <3>1, AppendResumeOrder
  <2>3. CASE queue # <<>> /\ queue' = Tail(queue)
    BY <1>1, <1>2, <2>3, TailOrder
  <2> QED BY <2>1, <2>2, <2>3 DEF NoMail
<1> QED BY <1>2, <1>3 DEF MailInv, NoMail, SameBoxes, SameBox

LEMMA SentOrder ==
  ASSUME TypeOK, MailInv, NEW to, NEW body, Sent(to, body)
  PROVE  MailInv'
<1>1. queue \in Seq(Items) /\ sends \in Nat /\ QueueOrder(queue, sends)
  BY MailTypes DEF MailInv
<1>2. /\ queue' = Append(queue, MessageItem(Message(to, body, sends)))
      /\ sends' = sends + 1 /\ to \in Pids /\ body \in PidOrNone
  BY DEF Sent, QueueSend
<1>3. /\ QueueOrder(queue', sends')
      /\ \A r : \A c \in Seq(Messages) :
           BoxOrder(c, r, queue, sends) => BoxOrder(c, r, queue', sends')
  BY <1>1, <1>2, AppendMessageOrder
<1>4. ASSUME NEW r \in Pids
      PROVE  WellFormed(mq'[r]) /\ BoxOrder(Contents(mq'[r]), r, queue', sends')
  <2>1. /\ Contents(mq'[r]) = Contents(mq[r]) /\ WellFormed(mq'[r])
        /\ Contents(mq[r]) \in Seq(Messages)
        /\ BoxOrder(Contents(mq[r]), r, queue, sends)
    BY MailTypes DEF Sent, SameBoxes, SameBox, MailInv
  <2> QED BY <1>3, <2>1
<1> QED BY <1>3, <1>4 DEF MailInv

LEMMA DroppedOrder ==
  ASSUME TypeOK, MailInv, Dropped
  PROVE  MailInv'
<1>1. queue \in Seq(Items) /\ QueueOrder(queue, sends)
  BY MailTypes DEF MailInv
<1>2. /\ QueueOrder(queue', sends)
      /\ \A c, r : BoxOrder(c, r, queue, sends) => BoxOrder(c, r, queue', sends)
  BY <1>1, TailOrder DEF Dropped
<1> QED BY <1>2 DEF MailInv, Dropped, SameBoxes, SameBox

LEMMA MovedOrder ==
  ASSUME TypeOK, MailInv, Moved
  PROVE  MailInv'
<1> DEFINE r == Head(queue).pid
<1>1. /\ queue \in Seq(Items) /\ QueueOrder(queue, sends) /\ queue # <<>>
      /\ Head(queue).kind = "message" /\ queue' = Tail(queue) /\ sends' = sends
  BY MailTypes DEF MailInv, Moved
<1>2. r \in Pids
  BY <1>1, HeadItem
<1>3. /\ QueueOrder(queue', sends)
      /\ \A c, s : BoxOrder(c, s, queue, sends) => BoxOrder(c, s, queue', sends)
  BY <1>1, TailOrder
<1>4. Contents(mq[r]) \in Seq(Messages) /\ BoxOrder(Contents(mq[r]), r, queue, sends)
  BY <1>2, MailTypes DEF MailInv
<1>5. BoxOrder(Contents(mq'[r]), r, queue', sends) /\ WellFormed(mq'[r])
  <2>1. BoxOrder(Append(Contents(mq[r]), Head(queue).message), r, Tail(queue), sends)
    BY <1>1, <1>4, DeliverOrder
  <2> QED BY <1>1, <2>1 DEF Moved
<1>6. ASSUME NEW s \in Pids, s # r
      PROVE  BoxOrder(Contents(mq'[s]), s, queue', sends) /\ WellFormed(mq'[s])
  BY <1>3, <1>6 DEF Moved, SameBox, MailInv
<1> HIDE DEF r
<1> QED BY <1>1, <1>3, <1>5, <1>6 DEF MailInv

LEMMA TakenOrder ==
  ASSUME TypeOK, MailInv, NEW p \in Pids, Taken(p)
  PROVE  MailInv'
<1>1. /\ Contents(mq[p]) \in Seq(Messages) /\ Contents(mq[p]) # <<>>
      /\ BoxOrder(Contents(mq[p]), p, queue, sends)
  BY MailTypes DEF MailInv, Taken
<1>2. BoxOrder(Contents(mq'[p]), p, queue, sends) /\ WellFormed(mq'[p])
  BY <1>1, TakeOrder DEF Taken
<1>3. ASSUME NEW s \in Pids, s # p
      PROVE  BoxOrder(Contents(mq'[s]), s, queue, sends) /\ WellFormed(mq'[s])
  BY <1>3 DEF Taken, SameBox, MailInv
<1> QED BY <1>2, <1>3 DEF MailInv, Taken

\* spawnArgs() gives the new process an empty slot and queues its first resume.
LEMMA ConstructedMail ==
  ASSUME TypeOK, NEW kill, NEW notify, NEW back, Constructed(kill, notify, back)
  PROVE  /\ NextPid \in Pids /\ queue' = Append(queue, ResumeItem(NextPid, 0))
         /\ Contents(mq'[NextPid]) = <<>> /\ WellFormed(mq'[NextPid])
         /\ \A r \in Pids \ {NextPid} : SameBox(mq'[r], mq[r])
<1> DEFINE n == NextPid
<1>1. /\ n \in Pids /\ queue' = Append(queue, ResumeItem(n, 0))
      /\ mq' = [mq EXCEPT ![n] = NewQueue]
  BY DEF Constructed
<1> HIDE DEF n
<1>2. mq'[n] = NewQueue /\ \A r \in Pids \ {n} : mq'[r] = mq[r]
  BY <1>1 DEF TypeOK
<1>3. Contents(NewQueue) = <<>> /\ WellFormed(NewQueue)
  BY DEF Contents, NewQueue, WellFormed
<1> QED BY <1>1, <1>2, <1>3 DEF SameBox, n

LEMMA ConstructMail ==
  ASSUME TypeOK, NEW kill, NEW notify, NEW back, Construct(kill, notify, back)
  PROVE  /\ NextPid \in Pids /\ queue' = Append(queue, ResumeItem(NextPid, 0))
         /\ UNCHANGED <<sends, noticed, running>>
         /\ Contents(mq'[NextPid]) = <<>> /\ WellFormed(mq'[NextPid])
         /\ \A r \in Pids \ {NextPid} : SameBox(mq'[r], mq[r])
<1>1. Constructed(kill, notify, back) /\ UNCHANGED <<sends, noticed, running>>
  BY DEF Construct, loopVars
<1> QED BY <1>1, ConstructedMail

LEMMA ConstructedOrder ==
  ASSUME TypeOK, MailInv, NEW kill, NEW notify, NEW back,
         Constructed(kill, notify, back), sends' = sends
  PROVE  MailInv'
<1> DEFINE n == NextPid
<1>1. /\ n \in Pids /\ queue' = Append(queue, ResumeItem(n, 0))
      /\ Contents(mq'[n]) = <<>> /\ WellFormed(mq'[n])
      /\ \A r \in Pids \ {n} : SameBox(mq'[r], mq[r])
  BY ConstructedMail
<1> HIDE DEF n
<1>2. queue \in Seq(Items) /\ sends \in Nat /\ QueueOrder(queue, sends)
  BY MailTypes DEF MailInv
<1>3. /\ QueueOrder(queue', sends)
      /\ \A c, r : BoxOrder(c, r, queue, sends) => BoxOrder(c, r, queue', sends)
  BY <1>1, <1>2, AppendResumeOrder
<1>4. BoxOrder(<<>>, n, queue', sends)
  BY DEF BoxOrder, Indices
<1> QED BY <1>1, <1>3, <1>4 DEF MailInv, SameBox

\* destroy() sends the death notice, if one is asked for.
LEMMA FinishSends ==
  ASSUME TypeOK, Addressed, FinishDestroy
  PROVE  /\ dying \in Pids
         /\ \/ notifyOnDie[dying] = NoPid /\ NoMail
            \/ notifyOnDie[dying] \in Pids /\ Sent(notifyOnDie[dying], dying)
<1>1. dying \in Pids /\ notifyOnDie[dying] \in PidOrNone
  BY DEF FinishDestroy, TypeOK, PidOrNone
<1>2. SameBoxes
  BY PromiseOnly DEF FinishDestroy, SameBoxes, TypeOK
<1>3. CASE notifyOnDie[dying] = NoPid
  BY <1>1, <1>2, <1>3 DEF FinishDestroy, Notifies, NoMail
<1>4. CASE notifyOnDie[dying] \in Pids
  BY <1>1, <1>2, <1>4, PidFields DEF FinishDestroy, Notifies, Sent, Addressed, PidOrNone
<1> QED BY <1>1, <1>3, <1>4 DEF PidOrNone

LEMMA MailNext ==
  ASSUME TypeOK, MailInv, Addressed, ActorStep
  PROVE  MailInv'
<1>1. CASE Quiet
  BY <1>1, NoMailOrder, DroppedOrder, MovedOrder DEF Quiet
<1>2. CASE Creates
  BY <1>2, ConstructedOrder DEF Creates, Construct
<1>3. CASE Links
  <2>1. UNCHANGED mailVars
    BY <1>3 DEF Links, Link
  <2> QED BY <2>1, BoxesFrame, NoMailOrder DEF NoMail, mailVars
<1>4. CASE Sends
  BY <1>4, SentOrder DEF Sends
<1>5. CASE Takes
  BY <1>5, TakenOrder DEF Takes
<1>6. ASSUME NEW b \in Pids, Dies(b) PROVE MailInv'
  BY <1>6, NoMailOrder DEF Dies
<1>7. CASE FinishDestroy
  BY <1>7, FinishSends, NoMailOrder, SentOrder
<1> QED BY <1>1, <1>2, <1>3, <1>4, <1>5, <1>6, <1>7 DEF ActorStep

-----------------------------------------------------------------------------
(* Whoever is named by a message has been spawned. *)

\* sendThrottled() is given an address that was taken from a process.
LEMMA SendingSteps ==
  ASSUME TypeOK, [Next]_vars, NEW r \in Pids
  PROVE  sending'[r] \in {sending[r], NoPid} \/ Spawned(sending'[r])
<1> DEFINE Goal == sending'[r] \in {sending[r], NoPid} \/ Spawned(sending'[r])
<1> USE DEF vars, procVars, rest
<1>0. sending \in [Pids -> PidOrNone]
  BY DEF TypeOK
<1>1. ASSUME NEW kill, NEW notify, NEW back, Construct(kill, notify, back)
      PROVE  Goal
  BY <1>0, <1>1 DEF Construct, Constructed
<1>2. ASSUME NEW p \in Pids, ProcessStep(p) PROVE Goal
  <2>1. CASE Spawn(p) \/ SpawnLink(p) \/ SpawnLinkNotify(p)
    BY <1>1, <2>1 DEF Spawn, SpawnLink, SpawnLinkNotify
  <2>2. ASSUME NEW b \in Pids, SpawnCtorLink(p, b) PROVE Goal
    BY <1>1, <2>2 DEF SpawnCtorLink
  <2>3. ASSUME NEW b \in Pids, \/ SpawnThrows(p, b) \/ Link(p, b)
                               \/ QueueKill(p, b) \/ Send(p, b)
        PROVE  Goal
    BY <2>3 DEF SpawnThrows, Link, QueueKill, Send
  <2>4. ASSUME NEW b \in Pids, SendThrottled(p, b) PROVE Goal
    BY <1>0, <2>4, BornIsSpawned DEF SendThrottled
  <2>5. CASE CanQueueNull(p) \/ WaitForRoom(p) \/ Receive(p)
    BY <2>5 DEF CanQueueNull, WaitForRoom, Receive
  <2>6. CASE ThrottledSend(p)
    BY <1>0, <2>6 DEF ThrottledSend
  <2>7. CASE AwaitResume(p) \/ Finish(p)
    BY <2>7 DEF AwaitResume, Finish
  <2>8. ASSUME NEW w \in Waits[p.idx], Suspend(p, w) PROVE Goal
    BY <2>8 DEF Suspend
  <2> QED BY <1>2, <2>1, <2>2, <2>3, <2>4, <2>5, <2>6, <2>7, <2>8 DEF ProcessStep
<1>3. CASE LoopStep
  <2>1. CASE Exit \/ ProcessMessage \/ ProcessResume \/ RunOne
    BY <2>1 DEF Exit, ProcessMessage, ProcessResume, RunOne
  <2>2. CASE RunAborted \/ RunTimer \/ RunContinuation \/ HandlerCrashes
    BY <2>2 DEF RunAborted, RunTimer, RunContinuation, HandlerCrashes
  <2>3. ASSUME NEW p \in Pids, TimerExpires(p) \/ RunReused(p) \/ KillLinked(p)
        PROVE  Goal
    BY <2>3 DEF TimerExpires, RunReused, KillLinked
  <2>4. CASE EndPoll \/ DestroyNext \/ FinishDestroy \/ DestroyDone
    BY <2>4 DEF EndPoll, DestroyNext, FinishDestroy, DestroyDone
  <2> QED BY <1>3, <2>1, <2>2, <2>3, <2>4 DEF LoopStep
<1>4. CASE MainSpawn
  BY <1>1, <1>4 DEF MainSpawn
<1>5. CASE Run \/ Terminated \/ UNCHANGED vars
  BY <1>5 DEF Run, Terminated
<1> QED BY <1>2, <1>3, <1>4, <1>5 DEF Next

\* p is spawned when the step has been taken, and what the step has put in
\* queue_ is for such processes.
NowSpawned(p) == Known(processes', toDestroy', dying', freed', p)
QueueNames ==
  \A i \in Indices(queue') :
    (\E j \in Indices(queue) : queue'[i] = queue[j]) \/ NowSpawned(queue'[i].pid)

LEMMA QueueAppends ==
  ASSUME TypeOK, NEW e \in Items, NowSpawned(e.pid), queue' = Append(queue, e)
  PROVE  QueueNames
<1>1. Appended(queue', queue, e)
  BY MailTypes, AppendIndices
<1> QED BY <1>1 DEF Appended, QueueNames

LEMMA QueueShrinks ==
  ASSUME TypeOK, queue # <<>>, queue' = Tail(queue)
  PROVE  QueueNames
<1>1. \A i \in Indices(queue') : i + 1 \in Indices(queue) /\ queue'[i] = queue[i + 1]
  BY MailTypes, TailIndices
<1> QED BY <1>1 DEF QueueNames

LEMMA NoMailAddressed ==
  ASSUME TypeOK, NoMail, \A p \in Pids : Spawned(p) => NowSpawned(p)
  PROVE  QueueNames /\ \A r \in Pids : Contents(mq'[r]) = Contents(mq[r])
<1>1. QueueNames
  <2>1. CASE queue' = queue
    BY <2>1 DEF QueueNames
  <2>2. ASSUME NEW p \in Pids, Spawned(p),
               queue' = Append(queue, ResumeItem(p, resumes[p]))
        PROVE  QueueNames
    <3>1. /\ ResumeItem(p, resumes[p]) \in Items
          /\ ResumeItem(p, resumes[p]).pid = p
      BY MailTypes, ItemTypes DEF PidOrNone, ResumeItem
    <3> QED BY <2>2, <3>1, QueueAppends
  <2>3. CASE queue # <<>> /\ queue' = Tail(queue)
    BY <2>3, QueueShrinks
  <2> QED BY <2>1, <2>2, <2>3 DEF NoMail
<1> QED BY <1>1 DEF NoMail, SameBoxes, SameBox

LEMMA SentAddressed ==
  ASSUME TypeOK, NEW to, NEW body, Sent(to, body),
         \A p \in Pids : Spawned(p) => NowSpawned(p)
  PROVE  QueueNames /\ \A r \in Pids : Contents(mq'[r]) = Contents(mq[r])
<1> DEFINE e == MessageItem(Message(to, body, sends))
<1>1. /\ queue' = Append(queue, e) /\ to \in Pids /\ body \in PidOrNone
      /\ Spawned(to)
  BY DEF Sent, QueueSend
<1>2. e \in Items /\ e.pid = to
  BY <1>1, MailTypes, ItemTypes DEF MessageItem, Message
<1> HIDE DEF e
<1>3. QueueNames
  BY <1>1, <1>2, QueueAppends
<1> QED BY <1>3 DEF Sent, SameBoxes, SameBox

\* What every step does to the names in queue_, in the slots and in the notices.
Names ==
  /\ QueueNames
  /\ \A r \in Pids : Contents(mq'[r]) # <<>> => Contents(mq[r]) # <<>> \/ Spawned(r)
  /\ \A p \in Pids : \/ notifyOnDie'[p] = notifyOnDie[p]
                     \/ notifyOnDie'[p] = NoPid
                     \/ notifyOnDie'[p] \in Pids /\ Spawned(notifyOnDie'[p])

LEMMA ConstructedNames ==
  ASSUME TypeOK, Table, NEW kill, NEW notify \in PidOrNone, NEW back,
         Constructed(kill, notify, back), UNCHANGED <<toDestroy, dying, freed>>,
         notify \in Pids => Spawned(notify)
  PROVE  Names
<1> DEFINE n == NextPid
<1>1. /\ n \in Pids /\ queue' = Append(queue, ResumeItem(n, 0))
      /\ Contents(mq'[n]) = <<>>
      /\ \A r \in Pids \ {n} : SameBox(mq'[r], mq[r])
  BY ConstructedMail
<1>2. InTable(processes', n)
  BY ConstructedFresh
<1>3. notifyOnDie' = [notifyOnDie EXCEPT ![n] = notify]
  BY DEF Constructed
<1> HIDE DEF n
<1>4. ResumeItem(n, 0) \in Items /\ ResumeItem(n, 0).pid = n
  BY <1>1, ItemTypes DEF PidOrNone, ResumeItem
<1>5. QueueNames
  BY <1>1, <1>2, <1>4, QueueAppends DEF NowSpawned, Known
<1>6. \A r \in Pids : Contents(mq'[r]) # <<>> => Contents(mq[r]) # <<>>
  BY <1>1 DEF SameBox
<1>7. \A p \in Pids : \/ notifyOnDie'[p] = notifyOnDie[p]
                      \/ notifyOnDie'[p] = NoPid
                      \/ notifyOnDie'[p] \in Pids /\ Spawned(notifyOnDie'[p])
  BY <1>3 DEF TypeOK, PidOrNone
<1> QED BY <1>5, <1>6, <1>7 DEF Names

LEMMA StepNames ==
  ASSUME SchedulerInv, Addressed, [Next]_vars, ActorStep
  PROVE  Names
<1>0. TypeOK /\ Table /\ \A p \in Pids : Spawned(p) => NowSpawned(p)
  BY SpawnedStays DEF SchedulerInv, Spawned, NowSpawned
<1>1. ASSUME NoMail, notifyOnDie' = notifyOnDie PROVE Names
  BY <1>0, <1>1, NoMailAddressed DEF Names
<1>2. ASSUME NEW to, NEW body, Sent(to, body), notifyOnDie' = notifyOnDie
      PROVE  Names
  BY <1>0, <1>2, SentAddressed DEF Names
<1>3. CASE Quiet
  <2>1. notifyOnDie' = notifyOnDie
    BY <1>3 DEF Quiet, linkVars
  <2>2. CASE Dropped
    <3>1. QueueNames
      BY <1>0, <2>2, QueueShrinks DEF Dropped
    <3> QED BY <2>1, <2>2, <3>1 DEF Names, Dropped, SameBoxes, SameBox
  <2>3. CASE Moved
    <3>1. QueueNames
      BY <1>0, <2>3, QueueShrinks DEF Moved
    <3>2. \A r \in Pids : Contents(mq'[r]) = Contents(mq[r]) \/ Spawned(r)
      BY <2>3 DEF Moved, SameBox, Spawned, Known
    <3> QED BY <2>1, <3>1, <3>2 DEF Names
  <2> QED BY <1>1, <1>3, <2>1, <2>2, <2>3 DEF Quiet
<1>4. CASE Creates
  <2>1. PICK kill \in SUBSET Pids, back \in SUBSET Pids, notify \in PidOrNone :
          /\ Construct(kill, notify, back)
          /\ notify \in Pids => Spawned(notify)
    BY <1>4 DEF Creates
  <2> QED BY <1>0, <2>1, ConstructedNames DEF Construct, loopVars, memVars
<1>5. CASE Links
  <2>1. UNCHANGED <<mailVars, notifyOnDie>>
    BY <1>5 DEF Links, Link
  <2> QED BY <1>1, <2>1, BoxesFrame DEF NoMail, mailVars
<1>6. CASE Sends
  BY <1>2, <1>6 DEF Sends, linkVars
<1>7. CASE Takes
  <2>1. /\ running \in Pids /\ queue' = queue /\ notifyOnDie' = notifyOnDie
        /\ Contents(mq[running]) # <<>>
        /\ \A s \in Pids \ {running} : Contents(mq'[s]) = Contents(mq[s])
    BY <1>7 DEF Takes, Taken, SameBox, linkVars
  <2>2. QueueNames
    BY <2>1 DEF QueueNames
  <2> QED BY <2>1, <2>2 DEF Names
<1>8. ASSUME NEW b \in Pids, Dies(b) PROVE Names
  BY <1>1, <1>8 DEF Dies, linkVars
<1>9. CASE FinishDestroy
  <2>1. notifyOnDie' = notifyOnDie
    BY <1>9 DEF FinishDestroy, linkVars
  <2> QED BY <1>0, <1>1, <1>2, <1>9, <2>1, FinishSends
<1> QED BY <1>3, <1>4, <1>5, <1>6, <1>7, <1>8, <1>9 DEF ActorStep

LEMMA NamesKept ==
  ASSUME TypeOK, TypeOK', Addressed, Names,
         \A p \in Pids : Spawned(p) => NowSpawned(p),
         \A r \in Pids : sending'[r] \in {sending[r], NoPid} \/ Spawned(sending'[r])
  PROVE  Addressed'
<1>1. \A p \in Pids : p # NoPid
  BY PidFields
<1>2. ASSUME NEW i \in Indices(queue') PROVE NowSpawned(queue'[i].pid)
  <2>1. \A j \in Indices(queue) : queue[j].pid \in Pids
    <3>1. \A j \in Indices(queue) : queue[j] \in Items
      BY MailTypes, ElementOfSeq DEF Indices
    <3> QED BY <3>1, ItemFields
  <2> QED BY <2>1 DEF Names, QueueNames, Addressed
<1>3. \A r \in Pids : Contents(mq'[r]) # <<>> => NowSpawned(r)
  BY DEF Names, Addressed
<1>4. \A p \in Pids : notifyOnDie'[p] \in Pids => NowSpawned(notifyOnDie'[p])
  BY <1>1 DEF Names, Addressed
<1>5. \A p \in Pids : sending'[p] \in Pids => NowSpawned(sending'[p])
  BY <1>1 DEF Addressed
<1> QED BY <1>2, <1>3, <1>4, <1>5 DEF Addressed, Spawned, NowSpawned

LEMMA AddressedNext ==
  ASSUME SchedulerInv, Addressed, [Next]_vars, ActorStep
  PROVE  Addressed'
<1>1. \A p \in Pids : Spawned(p) => NowSpawned(p)
  BY SpawnedStays DEF Spawned, NowSpawned
<1>2. Names /\ TypeOK /\ TypeOK'
  BY StepNames, TypeStep DEF SchedulerInv
<1> QED BY <1>1, <1>2, SendingSteps, NamesKept

ActorsInv == SchedulerInv /\ LinkInv /\ MailInv /\ Addressed

LEMMA ActorsInit == Init => ActorsInv
<1> SUFFICES ASSUME Init PROVE ActorsInv
  OBVIOUS
<1>1. SchedulerInv /\ LinkInv
  BY TypeInit, TableInit, LoopInit, LinkInit DEF SchedulerInv
<1>2. /\ queue = <<>> /\ sends = 0 /\ Indices(queue) = {}
      /\ \A r \in Pids : mq[r] = NewQueue /\ notifyOnDie[r] = NoPid
                          /\ sending[r] = NoPid
  BY DEF Init, Indices
<1>3. Contents(NewQueue) = <<>> /\ WellFormed(NewQueue) /\ Indices(<<>>) = {}
  BY DEF Contents, NewQueue, WellFormed, Indices
<1>4. MailInv
  BY <1>2, <1>3 DEF MailInv, QueueOrder, BoxOrder
<1>5. Addressed
  BY <1>2, <1>3, PidFields DEF Addressed
<1> QED BY <1>1, <1>4, <1>5 DEF ActorsInv

LEMMA ActorsNext ==
  ASSUME ActorsInv, [Next]_vars
  PROVE  ActorsInv' /\ ActorStep
<1>1. SchedulerInv' /\ LinkInv'
  BY TypeStep, TableStep, LoopNext, LinkNext DEF SchedulerInv, ActorsInv
<1>2. ActorStep
  BY StepActs DEF ActorsInv
<1>3. MailInv' /\ Addressed'
  BY <1>2, MailNext, AddressedNext DEF ActorsInv, SchedulerInv
<1> QED BY <1>1, <1>2, <1>3 DEF ActorsInv

LEMMA ActorsCorrect == Spec => []ActorsInv
BY ActorsInit, ActorsNext, PTL DEF Spec

\* Messages reach a process in the order of the send() calls, whichever processes
\* sent them, and no message reaches a process that was given the index of its
\* receiver later: queue_ and every slot are first in, first out, and a message
\* in a slot is older than all of queue_.
THEOREM DeliveryIsFifo == Spec => []FifoDelivery
<1>1. ActorsInv => FifoDelivery
  BY DEF ActorsInv, MailInv, QueueOrder, BoxOrder, IsMessage, FifoDelivery,
         InFlight
<1> QED BY <1>1, ActorsCorrect, PTL

-----------------------------------------------------------------------------
(* The Context implements Actors: what the abstract mailbox of r holds, over  *)
(* the messages of its slot (c) and queue_ (q).                               *)

Mail(c, q, r) ==
  {Envelope(c[i]) : i \in Indices(c)}
  \cup {Envelope(q[i].message) :
         i \in {j \in Indices(q) : q[j].kind = "message" /\ q[j].pid = r}}

LEMMA InMail ==
  ASSUME NEW c, NEW q, NEW r, NEW x
  PROVE  x \in Mail(c, q, r) <=>
           \/ \E i \in Indices(c) : x = Envelope(c[i])
           \/ \E i \in Indices(q) : /\ IsMessage(q, i) /\ q[i].pid = r
                                    /\ x = Envelope(q[i].message)
BY DEF Mail, IsMessage

LEMMA AppendResumeMail ==
  ASSUME NEW q \in Seq(Items), NEW p \in Pids, NEW k \in Nat, NEW c, NEW r
  PROVE  Mail(c, Append(q, ResumeItem(p, k)), r) = Mail(c, q, r)
<1> DEFINE e == ResumeItem(p, k)
           new == Append(q, e)
<1>1. e \in Items /\ e.kind # "message"
  BY ItemTypes DEF ResumeItem, PidOrNone
<1> HIDE DEF e
<1>2. Appended(new, q, e)
  BY <1>1, AppendIndices
<1> HIDE DEF new
<1>3. \A x : x \in Mail(c, new, r) <=> x \in Mail(c, q, r)
  BY <1>1, <1>2, InMail DEF IsMessage, Appended
<1> QED BY <1>3 DEF new, e

LEMMA AppendMessageMail ==
  ASSUME NEW q \in Seq(Items), NEW n \in Nat, NEW to \in Pids,
         NEW body \in PidOrNone, NEW c, NEW r
  PROVE  Mail(c, Append(q, MessageItem(Message(to, body, n))), r)
           = IF r = to THEN Mail(c, q, r) \cup {[body |-> body, stamp |-> n]}
                       ELSE Mail(c, q, r)
<1> DEFINE e == MessageItem(Message(to, body, n))
           new == Append(q, e)
           m == [body |-> body, stamp |-> n]
<1>1. /\ e \in Items /\ e.kind = "message" /\ e.pid = to
      /\ Envelope(e.message) = m
  BY ItemTypes DEF MessageItem, Message, Envelope
<1> HIDE DEF e, m
<1>2. Appended(new, q, e)
  BY <1>1, AppendIndices
<1> HIDE DEF new
<1>3. \A x : x \in Mail(c, new, r) <=> x \in Mail(c, q, r) \/ (r = to /\ x = m)
  BY <1>1, <1>2, InMail DEF IsMessage, Appended
<1> QED BY <1>3 DEF new, e, m

LEMMA TailMail ==
  ASSUME NEW q \in Seq(Items), q # <<>>, NEW c, NEW r,
         Head(q).kind = "resume" \/ Head(q).pid # r
  PROVE  Mail(c, Tail(q), r) = Mail(c, q, r)
<1>1. /\ 1 \in Indices(q) /\ Head(q) = q[1]
      /\ \A i \in Indices(Tail(q)) : i + 1 \in Indices(q) /\ Tail(q)[i] = q[i + 1]
      /\ \A i \in Indices(q) :
           i = 1 \/ (i - 1 \in Indices(Tail(q)) /\ q[i] = Tail(q)[i - 1])
  BY TailIndices
<1>2. ~(IsMessage(q, 1) /\ q[1].pid = r)
  BY <1>1 DEF IsMessage
<1>3. ASSUME NEW x
      PROVE  (\E i \in Indices(q) : IsMessage(q, i) /\ q[i].pid = r
                                   /\ x = Envelope(q[i].message))
               <=> \E i \in Indices(Tail(q)) :
                     /\ IsMessage(Tail(q), i) /\ Tail(q)[i].pid = r
                     /\ x = Envelope(Tail(q)[i].message)
  BY <1>1, <1>2 DEF IsMessage
<1> QED BY <1>3 DEF Mail, IsMessage

LEMMA DeliverMail ==
  ASSUME NEW q \in Seq(Items), q # <<>>, Head(q).kind = "message",
         NEW c \in Seq(Messages)
  PROVE  Mail(Append(c, Head(q).message), Tail(q), Head(q).pid)
           = Mail(c, q, Head(q).pid)
<1> DEFINE m == Head(q).message
           r == Head(q).pid
           new == Append(c, m)
<1>1. /\ 1 \in Indices(q) /\ Head(q) = q[1]
      /\ \A i \in Indices(Tail(q)) : i + 1 \in Indices(q) /\ Tail(q)[i] = q[i + 1]
      /\ \A i \in Indices(q) :
           i = 1 \/ (i - 1 \in Indices(Tail(q)) /\ q[i] = Tail(q)[i - 1])
  BY TailIndices
<1>2. m \in Messages
  <2>1. Head(q) \in Items
    BY <1>1, ElementOfSeq DEF Indices
  <2> QED BY <2>1, ItemFields
<1>3. IsMessage(q, 1) /\ q[1].pid = r /\ q[1].message = m
  BY <1>1 DEF IsMessage
<1> HIDE DEF m, r
<1>4. Appended(new, c, m)
  BY <1>2, AppendIndices
<1> HIDE DEF new
<1>5. ASSUME NEW x
      PROVE  x \in Mail(new, Tail(q), r) <=> x \in Mail(c, q, r)
  <2>1. (\E i \in Indices(new) : x = Envelope(new[i]))
          <=> (\E i \in Indices(c) : x = Envelope(c[i])) \/ x = Envelope(m)
    BY <1>4 DEF Appended
  <2>2. (\E i \in Indices(q) : IsMessage(q, i) /\ q[i].pid = r
                               /\ x = Envelope(q[i].message))
          <=> \/ x = Envelope(m)
              \/ \E i \in Indices(Tail(q)) :
                   /\ IsMessage(Tail(q), i) /\ Tail(q)[i].pid = r
                   /\ x = Envelope(Tail(q)[i].message)
    BY <1>1, <1>3 DEF IsMessage
  <2> QED BY <2>1, <2>2 DEF Mail, IsMessage
<1> QED BY <1>5 DEF new, m, r

LEMMA TakeMail ==
  ASSUME NEW c \in Seq(Messages), c # <<>>, NEW q \in Seq(Items), NEW r, NEW n,
         BoxOrder(c, r, q, n), QueueOrder(q, n)
  PROVE  /\ Envelope(Head(c)) \in Mail(c, q, r)
         /\ \A x \in Mail(c, q, r) : Envelope(Head(c)).stamp <= x.stamp
         /\ Mail(Tail(c), q, r) = Mail(c, q, r) \ {Envelope(Head(c))}
<1> DEFINE m == Envelope(Head(c))
<1>1. /\ 1 \in Indices(c) /\ Head(c) = c[1]
      /\ \A i \in Indices(Tail(c)) :
           1 < i + 1 /\ i + 1 \in Indices(c) /\ Tail(c)[i] = c[i + 1]
      /\ \A i \in Indices(c) :
           i = 1 \/ (i - 1 \in Indices(Tail(c)) /\ c[i] = Tail(c)[i - 1])
  BY TailIndices
<1>2. m = Envelope(c[1]) /\ m.stamp = c[1].stamp /\ m.stamp \in Nat
  <2>1. c[1] \in Messages
    BY <1>1, ElementOfSeq DEF Indices
  <2> QED BY <1>1, <2>1 DEF Envelope, Messages
<1>3. \A i \in Indices(Tail(c)) : m.stamp < Envelope(Tail(c)[i]).stamp
  BY <1>1, <1>2 DEF BoxOrder, Envelope
<1>4. \A i \in Indices(q) :
        IsMessage(q, i) => m.stamp < Envelope(q[i].message).stamp
  BY <1>1, <1>2 DEF BoxOrder, Envelope
<1> HIDE DEF m
<1>5. ASSUME NEW x
      PROVE  x \in Mail(c, q, r) <=> x \in Mail(Tail(c), q, r) \/ x = m
  <2>1. (\E i \in Indices(c) : x = Envelope(c[i]))
          <=> (\E i \in Indices(Tail(c)) : x = Envelope(Tail(c)[i])) \/ x = m
    BY <1>1, <1>2
  <2> QED BY <2>1 DEF Mail
<1>6. ASSUME NEW x \in Mail(Tail(c), q, r)
      PROVE  m.stamp < x.stamp
  BY <1>3, <1>4 DEF Mail, IsMessage
<1>7. ASSUME NEW x \in Mail(Tail(c), q, r)
      PROVE  x.stamp \in Nat
  <2>1. \A i \in Indices(Tail(c)) : Envelope(Tail(c)[i]).stamp \in Nat
    <3>1. \A i \in Indices(c) : c[i] \in Messages
      BY ElementOfSeq DEF Indices
    <3> QED BY <1>1, <3>1 DEF Envelope, Messages
  <2>2. \A i \in Indices(q) : IsMessage(q, i) =>
                               Envelope(q[i].message).stamp \in Nat
    <3>1. \A i \in Indices(q) : q[i] \in Items
      BY ElementOfSeq DEF Indices
    <3> QED BY <3>1, ItemFields DEF Envelope, IsMessage
  <2> QED BY <2>1, <2>2 DEF Mail, IsMessage
<1>8. m \notin Mail(Tail(c), q, r)
  BY <1>2, <1>6
<1>9. \A x \in Mail(c, q, r) : m.stamp <= x.stamp
  BY <1>2, <1>5, <1>6, <1>7
<1>10. Mail(Tail(c), q, r) = Mail(c, q, r) \ {m}
  BY <1>5, <1>8
<1> QED BY <1>5, <1>9, <1>10 DEF m

\* The mail of p before and after a step.
MailNow(p) == Mail(Contents(mq[p]), queue, p)
MailThen(p) == Mail(Contents(mq'[p]), queue', p)

LEMMA NoMailMail ==
  ASSUME TypeOK, NoMail, NEW p \in Pids
  PROVE  MailThen(p) = MailNow(p)
<1>1. queue \in Seq(Items) /\ Contents(mq'[p]) = Contents(mq[p])
  BY MailTypes DEF NoMail, SameBoxes, SameBox
<1>2. CASE queue' = queue
  BY <1>1, <1>2 DEF MailThen, MailNow
<1>3. ASSUME NEW s \in Pids, queue' = Append(queue, ResumeItem(s, resumes[s]))
      PROVE  MailThen(p) = MailNow(p)
  <2>1. resumes[s] \in Nat
    BY MailTypes
  <2> QED BY <1>1, <1>3, <2>1, AppendResumeMail DEF MailThen, MailNow
<1>4. CASE queue # <<>> /\ Head(queue).kind = "resume" /\ queue' = Tail(queue)
  BY <1>1, <1>4, TailMail DEF MailThen, MailNow
<1> QED BY <1>2, <1>3, <1>4 DEF NoMail

LEMMA SentMail ==
  ASSUME TypeOK, NEW to, NEW body, Sent(to, body), NEW p \in Pids
  PROVE  MailThen(p) = IF p = to
                       THEN MailNow(p) \cup {[body |-> body, stamp |-> sends]}
                       ELSE MailNow(p)
<1>1. /\ queue \in Seq(Items) /\ sends \in Nat
      /\ Contents(mq'[p]) = Contents(mq[p]) /\ to \in Pids /\ body \in PidOrNone
      /\ queue' = Append(queue, MessageItem(Message(to, body, sends)))
  BY MailTypes DEF Sent, QueueSend, SameBoxes, SameBox
<1> DEFINE c == Contents(mq[p])
           new == Append(queue, MessageItem(Message(to, body, sends)))
<1>2. Mail(c, new, p) = IF p = to
                        THEN Mail(c, queue, p) \cup {[body |-> body, stamp |-> sends]}
                        ELSE Mail(c, queue, p)
  <2> HIDE DEF c
  <2> QED BY <1>1, AppendMessageMail
<1>3. MailThen(p) = Mail(c, new, p) /\ MailNow(p) = Mail(c, queue, p)
  BY <1>1 DEF MailThen, MailNow
<1> HIDE DEF c, new
<1> QED BY <1>2, <1>3

LEMMA DroppedMail ==
  ASSUME TypeOK, Dropped, NEW p \in Pids, InTable(processes, p)
  PROVE  MailThen(p) = MailNow(p)
<1>1. /\ queue \in Seq(Items) /\ queue # <<>> /\ queue' = Tail(queue)
      /\ Contents(mq'[p]) = Contents(mq[p]) /\ Head(queue).pid # p
  BY MailTypes DEF Dropped, SameBoxes, SameBox
<1> QED BY <1>1, TailMail DEF MailThen, MailNow

LEMMA MovedMail ==
  ASSUME TypeOK, Moved, NEW p \in Pids
  PROVE  MailThen(p) = MailNow(p)
<1>1. /\ queue \in Seq(Items) /\ queue # <<>> /\ Head(queue).kind = "message"
      /\ queue' = Tail(queue) /\ Contents(mq[p]) \in Seq(Messages)
  BY MailTypes DEF Moved
<1>2. CASE p = Head(queue).pid
  <2>1. Contents(mq'[p]) = Append(Contents(mq[p]), Head(queue).message)
    BY <1>2 DEF Moved
  <2> QED BY <1>1, <1>2, <2>1, DeliverMail DEF MailThen, MailNow
<1>3. CASE p # Head(queue).pid
  <2>1. Contents(mq'[p]) = Contents(mq[p])
    BY <1>3 DEF Moved, SameBox
  <2> QED BY <1>1, <1>3, <2>1, TailMail DEF MailThen, MailNow
<1> QED BY <1>2, <1>3

LEMMA TakenMail ==
  ASSUME TypeOK, MailInv, NEW p \in Pids, Taken(p)
  PROVE  /\ \E m \in MailNow(p) :
              /\ \A other \in MailNow(p) : m.stamp <= other.stamp
              /\ MailThen(p) = MailNow(p) \ {m}
              /\ noticed' = noticed \cup ({m.body} \ {NoPid})
         /\ \A s \in Pids \ {p} : MailThen(s) = MailNow(s)
<1>1. /\ queue \in Seq(Items) /\ Contents(mq[p]) \in Seq(Messages)
      /\ Contents(mq[p]) # <<>> /\ queue' = queue
      /\ Contents(mq'[p]) = Tail(Contents(mq[p]))
      /\ \A s \in Pids \ {p} : Contents(mq'[s]) = Contents(mq[s])
      /\ QueueOrder(queue, sends) /\ BoxOrder(Contents(mq[p]), p, queue, sends)
  BY MailTypes DEF Taken, SameBox, MailInv
<1> DEFINE m == Envelope(Head(Contents(mq[p])))
<1>2. /\ m \in MailNow(p)
      /\ \A other \in MailNow(p) : m.stamp <= other.stamp
      /\ MailThen(p) = MailNow(p) \ {m}
  BY <1>1, TakeMail DEF MailThen, MailNow
<1>3. noticed' = noticed \cup ({m.body} \ {NoPid})
  BY DEF Taken, Envelope
<1> HIDE DEF m
<1> QED BY <1>1, <1>2, <1>3 DEF MailThen, MailNow

LEMMA CreatedMail ==
  ASSUME TypeOK, Table, Addressed, NEW kill, NEW notify, NEW back,
         Construct(kill, notify, back)
  PROVE  /\ MailThen(NextPid) = {}
         /\ \A s \in Pids \ {NextPid} : MailThen(s) = MailNow(s)
<1> DEFINE n == NextPid
<1>1. /\ n \in Pids /\ queue' = Append(queue, ResumeItem(n, 0))
      /\ Contents(mq'[n]) = <<>>
      /\ \A r \in Pids \ {n} : SameBox(mq'[r], mq[r])
  BY ConstructMail
<1>2. ~Spawned(n)
  BY ConstructFresh DEF Spawned
<1> HIDE DEF n
<1>3. queue \in Seq(Items)
  BY MailTypes
<1>4. \A c, r : Mail(c, queue', r) = Mail(c, queue, r)
  BY <1>1, <1>3, AppendResumeMail
<1>5. Mail(<<>>, queue, n) = {}
  <2>1. Indices(<<>>) = {} /\ \A i \in Indices(queue) : queue[i].pid # n
    BY <1>2 DEF Indices, Addressed
  <2> QED BY <2>1 DEF Mail
<1> QED BY <1>1, <1>4, <1>5 DEF MailThen, MailNow, SameBox, n

\* The state and the mailbox of an actor, before and after a step.
LEMMA ActorIs ==
  ASSUME NEW p
  PROVE  /\ Live(p) <=> InTable(processes, p)
         /\ Doomed(p) <=> p = dying \/ InDoom(toDestroy, p)
         /\ Live(p)' <=> InTable(processes', p)
         /\ Doomed(p)' <=> p = dying' \/ InDoom(toDestroy', p)
         /\ MailboxOf(p) = IF InTable(processes, p) THEN MailNow(p) ELSE {}
         /\ MailboxOf(p)' = IF InTable(processes', p) THEN MailThen(p) ELSE {}
<1>1. /\ Live(p) <=> InTable(processes, p)
      /\ Doomed(p) <=> p = dying \/ InDoom(toDestroy, p)
  BY DEF Live, Doomed, InTable, InDoom, Indices
<1>2. /\ Live(p)' <=> InTable(processes', p)
      /\ Doomed(p)' <=> p = dying' \/ InDoom(toDestroy', p)
  BY DEF Live, Doomed, InTable, InDoom, Indices
<1>3. MailboxOf(p) = IF InTable(processes, p) THEN MailNow(p) ELSE {}
  BY <1>1 DEF MailboxOf, MailNow, Mail, InFlight
<1>4. MailboxOf(p)' = IF InTable(processes', p) THEN MailThen(p) ELSE {}
  BY <1>2 DEF MailboxOf, MailThen, Mail, InFlight
<1> QED BY <1>1, <1>2, <1>3, <1>4

LEMMA StateIs ==
  ASSUME NEW p
  PROVE  /\ StateOf(p) = IF InTable(processes, p) THEN "alive"
                         ELSE IF p = dying \/ InDoom(toDestroy, p) THEN "dead"
                         ELSE IF p \in freed THEN "buried" ELSE "unborn"
         /\ StateOf(p)' = IF InTable(processes', p) THEN "alive"
                          ELSE IF p = dying' \/ InDoom(toDestroy', p) THEN "dead"
                          ELSE IF p \in freed' THEN "buried" ELSE "unborn"
BY ActorIs DEF StateOf

\* Nothing an actor can see has changed.
LEMMA SameActors ==
  ASSUME SameTable, \A p \in Pids : InTable(processes, p) => MailThen(p) = MailNow(p)
  PROVE  \A p \in Pids : StateOf(p)' = StateOf(p) /\ MailboxOf(p)' = MailboxOf(p)
BY ActorIs, StateIs DEF SameTable

-----------------------------------------------------------------------------
(* Every step of the Context is a step of Actors, or none. *)

AbstractStep == [Abstract!Next]_(Abstract!vars)

\* How the steps of Actors read in terms of the Context.
LEMMA StutterStep ==
  ASSUME \A p \in Pids : StateOf(p)' = StateOf(p) /\ MailboxOf(p)' = MailboxOf(p),
         UNCHANGED <<killOnDie, notifyOnDie, running, sends>>
  PROVE  AbstractStep
BY DEF AbstractStep, Abstract!vars

LEMMA SuspendStep ==
  ASSUME \A p \in Pids : StateOf(p)' = StateOf(p) /\ MailboxOf(p)' = MailboxOf(p),
         running # NoPid, running' = NoPid,
         UNCHANGED <<killOnDie, notifyOnDie, sends>>
  PROVE  AbstractStep
BY DEF AbstractStep, Abstract!Next, Abstract!Suspend

LEMMA WakeStep ==
  ASSUME \A p \in Pids : StateOf(p)' = StateOf(p) /\ MailboxOf(p)' = MailboxOf(p),
         running = NoPid, running' \in Pids, StateOf(running') = "alive",
         UNCHANGED <<killOnDie, notifyOnDie, sends>>
  PROVE  AbstractStep
<1>1. Abstract!Wake(running')
  BY DEF Abstract!Wake, Abstract!Alive
<1> QED BY <1>1 DEF AbstractStep, Abstract!Next

LEMMA QuietRefines ==
  ASSUME ActorsInv, Quiet
  PROVE  AbstractStep
<1>1. TypeOK
  BY DEF ActorsInv, SchedulerInv
<1>2. \A p \in Pids : InTable(processes, p) => MailThen(p) = MailNow(p)
  BY <1>1, NoMailMail, DroppedMail, MovedMail DEF Quiet
<1>3. \A p \in Pids : StateOf(p)' = StateOf(p) /\ MailboxOf(p)' = MailboxOf(p)
  BY <1>2, SameActors DEF Quiet
<1>4. UNCHANGED <<killOnDie, notifyOnDie, sends>>
  BY DEF Quiet, NoMail, Dropped, Moved, linkVars
<1>5. CASE running' = running
  BY <1>3, <1>4, <1>5, StutterStep
<1>6. CASE running' # running /\ running' = NoPid
  BY <1>3, <1>4, <1>6, SuspendStep
<1>7. CASE running = NoPid /\ running' \in Pids /\ InTable(processes, running')
  <2>1. StateOf(running') = "alive"
    BY <1>7, StateIs
  <2> QED BY <1>3, <1>4, <1>7, <2>1, WakeStep
<1> QED BY <1>5, <1>6, <1>7 DEF Quiet

LEMMA LinkRefines ==
  ASSUME ActorsInv, Links
  PROVE  AbstractStep
<1>1. PICK p \in Pids, b \in Pids : Link(p, b)
  BY DEF Links
<1>2. /\ running = p /\ Found(processes, b)
      /\ killOnDie' = [q \in Pids |-> killOnDie[q] \cup LinksTo(q, p, b)]
      /\ UNCHANGED <<running, processes, toDestroy, dying, freed, notifyOnDie,
                     mailVars>>
  BY <1>1 DEF Link, Calls, InUserCode, loopVars, tableVars, memVars
<1>3. StateOf(b) = "alive"
  <2>1. InTable(processes, b)
    BY <1>2, InTableIsFound
    DEF ActorsInv, SchedulerInv, TypeOK, Table, TableInv, Owned
  <2> QED BY <2>1, StateIs
<1>4. \A q \in Pids : StateOf(q)' = StateOf(q) /\ MailboxOf(q)' = MailboxOf(q)
  BY <1>2, SameActors, TableIsSame DEF MailThen, MailNow, mailVars
<1>5. killOnDie' = [c \in Pids |-> IF c = p THEN killOnDie[c] \cup {b}
                                  ELSE IF c = b THEN killOnDie[c] \cup {p}
                                  ELSE killOnDie[c]]
  BY <1>2 DEF LinksTo
<1>6. Abstract!Link(p, b)
  BY <1>2, <1>3, <1>4, <1>5 DEF Abstract!Link, Abstract!Alive, mailVars
<1> QED BY <1>6 DEF AbstractStep, Abstract!Next

LEMMA TakesRefines ==
  ASSUME ActorsInv, Takes
  PROVE  AbstractStep
<1>0. PICK p \in Pids : running = p
  BY DEF Takes
<1>1. /\ SameTable
      /\ UNCHANGED <<killOnDie, notifyOnDie, running, sends>>
  BY DEF Takes, Taken, linkVars
<1>2. PICK m \in MailNow(p) : /\ \A other \in MailNow(p) : m.stamp <= other.stamp
                              /\ MailThen(p) = MailNow(p) \ {m}
  BY <1>0, TakenMail DEF Takes, ActorsInv, SchedulerInv
<1>3. \A s \in Pids \ {p} : MailThen(s) = MailNow(s)
  BY <1>0, TakenMail DEF Takes, ActorsInv, SchedulerInv
<1>4. \A s \in Pids : /\ StateOf(s)' = StateOf(s)
                      /\ s # p => MailboxOf(s)' = MailboxOf(s)
  BY <1>1, <1>3, ActorIs, StateIs DEF SameTable
<1>5. CASE InTable(processes, p)
  <2>1. MailboxOf(p) = MailNow(p) /\ MailboxOf(p)' = MailThen(p)
    BY <1>1, <1>5, ActorIs DEF SameTable
  <2>2. Abstract!Receive(p)
    BY <1>0, <1>1, <1>2, <1>4, <2>1 DEF Abstract!Receive
  <2> QED BY <1>1, <2>2 DEF AbstractStep, Abstract!Next
<1>6. CASE ~InTable(processes, p)
  <2>1. MailboxOf(p)' = MailboxOf(p)
    BY <1>1, <1>6, ActorIs DEF SameTable
  <2> QED BY <1>1, <1>4, <2>1, StutterStep
<1> QED BY <1>5, <1>6

\* A message for the actor b.
LEMMA PostedIs ==
  ASSUME TypeOK, NEW b, NEW body, Sent(b, body),
         \A p \in Pids : InTable(processes', p) <=> InTable(processes, p)
  PROVE  [p \in Pids |-> MailboxOf(p)]' = Abstract!Posted(b, body)
<1> DEFINE m == [body |-> body, stamp |-> sends]
<1>1. b \in Pids
  BY DEF Sent
<1>2. \A p \in Pids : MailThen(p) = IF p = b THEN MailNow(p) \cup {m} ELSE MailNow(p)
  BY SentMail
<1> HIDE DEF m
<1>3. \A p \in Pids : p # b \/ ~InTable(processes, b)
                        => MailboxOf(p)' = MailboxOf(p)
  BY <1>2, ActorIs
<1>4. CASE InTable(processes, b)
  <2>1. MailboxOf(b)' = MailboxOf(b) \cup {m} /\ StateOf(b) = "alive"
    BY <1>1, <1>2, <1>4, ActorIs, StateIs
  <2> QED BY <1>1, <1>3, <2>1 DEF Abstract!Posted, Abstract!Alive, Abstract!Stamped, m
<1>5. CASE ~InTable(processes, b)
  <2>1. StateOf(b) # "alive"
    BY <1>5, StateIs
  <2> QED BY <1>1, <1>3, <1>5, <2>1 DEF Abstract!Posted, Abstract!Alive
<1> QED BY <1>4, <1>5

LEMMA SendsRefines ==
  ASSUME ActorsInv, Sends
  PROVE  AbstractStep
<1>1. PICK b \in Pids : Sent(b, NoPid)
  BY DEF Sends
<1>2. /\ running # NoPid /\ SameTable /\ sends' = sends + 1
      /\ UNCHANGED <<killOnDie, notifyOnDie, running>>
  BY <1>1, PidFields DEF Sends, linkVars, Sent, QueueSend
<1>3. [p \in Pids |-> MailboxOf(p)]' = Abstract!Posted(b, NoPid)
  BY <1>1, <1>2, PostedIs DEF SameTable, ActorsInv, SchedulerInv
<1>4. \A p \in Pids : StateOf(p)' = StateOf(p)
  BY <1>2, StateIs DEF SameTable
<1>5. Abstract!Send(b)
  BY <1>2, <1>3, <1>4 DEF Abstract!Send
<1> QED BY <1>5 DEF AbstractStep, Abstract!Next

LEMMA CreatesRefines ==
  ASSUME ActorsInv, ActorsInv', Creates
  PROVE  AbstractStep
<1>1. PICK kill \in SUBSET Pids, back \in SUBSET Pids, notify \in PidOrNone :
        Construct(kill, notify, back)
  BY DEF Creates
<1>2. PICK n \in Pids : n = NextPid
  BY <1>1 DEF Construct, Constructed
<1>3. TypeOK /\ Table /\ Addressed /\ TypeOK'
  BY DEF ActorsInv, SchedulerInv
<1>4. /\ UNCHANGED <<toDestroy, dying, freed>>
      /\ ~Known(processes, toDestroy, dying, freed, n)
      /\ \A q \in Pids : InTable(processes', q) <=> InTable(processes, q) \/ q = n
  BY <1>1, <1>2, <1>3, ConstructFresh
<1>5. MailThen(n) = {} /\ \A s \in Pids \ {n} : MailThen(s) = MailNow(s)
  BY <1>1, <1>2, <1>3, CreatedMail
<1>6. /\ UNCHANGED <<running, sends>>
      /\ killOnDie' = [q \in Pids |-> IF q = n THEN kill
                                      ELSE IF q \in back THEN killOnDie[q] \cup {n}
                                      ELSE killOnDie[q]]
      /\ notifyOnDie' = [notifyOnDie EXCEPT ![n] = notify]
  BY <1>1, <1>2 DEF Construct, Constructed, loopVars
<1>7. /\ killOnDie' \in [Pids -> SUBSET Pids]
      /\ notifyOnDie' \in [Pids -> Pids \cup {NoPid}]
      /\ notifyOnDie \in [Pids -> PidOrNone]
  BY <1>3 DEF TypeOK, PidOrNone
<1>8. \A a \in Pids \ {n} : /\ killOnDie'[a] \in {killOnDie[a], killOnDie[a] \cup {n}}
                             /\ notifyOnDie'[a] = notifyOnDie[a]
  BY <1>6, <1>7
<1>9. /\ StateOf(n) = "unborn" /\ StateOf(n)' = "alive" /\ MailboxOf(n)' = {}
      /\ \A s \in Pids \ {n} : /\ StateOf(s)' = StateOf(s)
                                /\ MailboxOf(s)' = MailboxOf(s)
  BY <1>4, <1>5, ActorIs, StateIs DEF Known
<1>10. Abstract!Create(n)
  BY <1>6, <1>7, <1>8, <1>9 DEF Abstract!Create
<1> QED BY <1>10 DEF AbstractStep, Abstract!Next

LEMMA DiesRefines ==
  ASSUME ActorsInv, NEW b \in Pids, Dies(b)
  PROVE  AbstractStep
<1>1. /\ TypeOK /\ Table /\ MovesOut(b)
      /\ UNCHANGED <<dying, freed, killOnDie, notifyOnDie, sends>>
  BY DEF Dies, linkVars, NoMail, ActorsInv, SchedulerInv
<1>2. \A p \in Pids : MailThen(p) = MailNow(p)
  BY <1>1, NoMailMail DEF Dies
<1>3. CASE InTable(processes, b)
  <2>1. /\ StateOf(b) = "alive" /\ StateOf(b)' = "dead" /\ MailboxOf(b)' = {}
        /\ \A s \in Pids \ {b} : /\ StateOf(s)' = StateOf(s)
                                  /\ MailboxOf(s)' = MailboxOf(s)
    BY <1>1, <1>2, <1>3, ActorIs, StateIs DEF MovesOut
  <2>2. Abstract!Die(b)
    BY <2>1 DEF Abstract!Die, Abstract!Alive
  <2>3. CASE running \in Pids /\ running' = running
    <3>1. Abstract!Kill(b)
      BY <1>1, <2>2, <2>3, PidFields DEF Abstract!Kill
    <3> QED BY <3>1 DEF AbstractStep, Abstract!Next
  <2>4. CASE running = b /\ running' = NoPid
    <3>1. Abstract!End(b)
      BY <1>1, <2>2, <2>4 DEF Abstract!End
    <3> QED BY <3>1 DEF AbstractStep, Abstract!Next
  <2>5. CASE /\ running = NoPid /\ running' = NoPid
             /\ dying \in Pids /\ b \in killOnDie[dying]
    <3>1. PICK a \in Pids : a = dying
      BY <2>5
    <3>2. StateOf(a) = "dead"
      BY <1>1, <3>1, StateIs DEF Table, TableInv, Owned
    <3>3. Abstract!Follow(b)
      BY <1>1, <2>2, <2>5, <3>1, <3>2 DEF Abstract!Follow
    <3> QED BY <3>3 DEF AbstractStep, Abstract!Next
  <2> QED BY <2>3, <2>4, <2>5 DEF Dies
<1>4. CASE ~InTable(processes, b)
  <2>1. \A s \in Pids : StateOf(s)' = StateOf(s) /\ MailboxOf(s)' = MailboxOf(s)
    BY <1>1, <1>2, <1>4, ActorIs, StateIs DEF MovesOut
  <2>2. running' = running \/ (running # NoPid /\ running' = NoPid)
    BY PidFields DEF Dies
  <2> QED BY <1>1, <2>1, <2>2, StutterStep, SuspendStep
<1> QED BY <1>3, <1>4

LEMMA FinishRefines ==
  ASSUME ActorsInv, FinishDestroy
  PROVE  AbstractStep
<1>1. TypeOK /\ Table /\ LoopInv /\ LinkInv /\ Addressed
  BY DEF ActorsInv, SchedulerInv
<1>2. PICK a \in Pids : a = dying
  BY <1>1, FinishSends
<1>3. /\ a = dying /\ kills = {} /\ dying' = NoPid /\ freed' = freed \cup {a}
      /\ UNCHANGED <<running, processes, toDestroy, killOnDie, notifyOnDie>>
  BY <1>2 DEF FinishDestroy, linkVars, tableVars
<1>4. running = NoPid
  BY <1>1, <1>3, PidFields DEF LoopInv
<1>5. ~InTable(processes, a) /\ ~InDoom(toDestroy, a)
  BY <1>1, <1>3 DEF Table, TableInv, Owned
<1>6. /\ StateOf(a) = "dead" /\ StateOf(a)' = "buried"
      /\ \A s \in Pids \ {a} : StateOf(s)' = StateOf(s)
  BY <1>3, <1>5, StateIs, PidFields
<1>7. \A b \in killOnDie[a] : StateOf(b) # "alive"
  <2>1. \A b \in killOnDie[a] : ~InTable(processes, b)
    BY <1>1, <1>3, PidFields DEF LinkInv
  <2> QED BY <2>1, StateIs
<1>8. killOnDie[a] \subseteq Pids
  BY <1>1 DEF TypeOK
<1>9. CASE notifyOnDie[a] = NoPid /\ NoMail
  <2>1. \A s \in Pids : MailboxOf(s)' = MailboxOf(s)
    BY <1>1, <1>3, <1>9, NoMailMail, ActorIs
  <2>2. sends' = sends
    BY <1>9 DEF NoMail
  <2>3. Abstract!Bury(a)
    BY <1>3, <1>4, <1>6, <1>7, <1>8, <1>9, <2>1, <2>2
    DEF Abstract!Bury, Abstract!Alive
  <2> QED BY <2>3 DEF AbstractStep, Abstract!Next
<1>10. CASE notifyOnDie[a] \in Pids /\ Sent(notifyOnDie[a], a)
  <2>1. [p \in Pids |-> MailboxOf(p)]' = Abstract!Posted(notifyOnDie[a], a)
    BY <1>1, <1>3, <1>10, PostedIs
  <2>2. sends' = sends + 1 /\ notifyOnDie[a] # NoPid
    BY <1>10, PidFields DEF Sent, QueueSend
  <2>3. Abstract!Bury(a)
    BY <1>3, <1>4, <1>6, <1>7, <1>8, <1>10, <2>1, <2>2
    DEF Abstract!Bury, Abstract!Alive
  <2> QED BY <2>3 DEF AbstractStep, Abstract!Next
<1> QED BY <1>1, <1>3, <1>9, <1>10, FinishSends

\* Whatever the scheduler does, the processes of a program behave as the actors of
\* module Actors: messages are neither lost, duplicated nor reordered between
\* queueSend() and recv(), deaths follow links and are announced after them, no
\* dead process is woken and no name is used twice.
THEOREM ContextImplementsActors == Spec => ImplementsActors
<1>1. Init => Abstract!Init
  <2> SUFFICES ASSUME Init PROVE Abstract!Init
    OBVIOUS
  <2>1. \A p \in Pids : StateOf(p) = "unborn" /\ MailboxOf(p) = {}
    BY PidFields DEF Init, StateOf, MailboxOf, Live, Doomed
  <2> QED BY <2>1 DEF Init, Abstract!Init
<1>2. ActorsInv /\ [Next]_vars => [Abstract!Next]_(Abstract!vars)
  <2> SUFFICES ASSUME ActorsInv, [Next]_vars PROVE AbstractStep
    BY DEF AbstractStep
  <2>1. ActorsInv' /\ ActorStep
    BY ActorsNext
  <2> QED BY <2>1, QuietRefines, CreatesRefines, LinkRefines, SendsRefines,
             TakesRefines, DiesRefines, FinishRefines DEF ActorStep
<1> QED BY <1>1, <1>2, ActorsCorrect, PTL DEF Spec, ImplementsActors, Abstract!Spec

-----------------------------------------------------------------------------
(* Death notices *)

\* A notice that is on its way is for the process that asked for it, and tells of
\* a process that has been deleted and of whose death nobody has heard; there is
\* no second one; and until its receiver is dead, it is on its way or received.
NoticeInv ==
  /\ \A r \in Pids : \A x \in MailNow(r) : x.body # NoPid =>
       /\ x.body \in freed /\ x.body \notin noticed /\ notifyOnDie[x.body] = r
       /\ \A y \in MailNow(r) : y.body = x.body => y = x
  /\ noticed \subseteq freed
  /\ \A p \in freed : \A r \in Pids :
       notifyOnDie[p] = r /\ InTable(processes, r) =>
         p \in noticed \/ \E x \in MailNow(r) : x.body = p

\* The mail of a process that is not alive can only be dropped.
LEMMA DroppedShrinks ==
  ASSUME TypeOK, Dropped, NEW p \in Pids
  PROVE  MailThen(p) \subseteq MailNow(p)
<1>1. /\ queue \in Seq(Items) /\ queue # <<>> /\ queue' = Tail(queue)
      /\ Contents(mq'[p]) = Contents(mq[p])
  BY MailTypes DEF Dropped, SameBoxes, SameBox
<1>2. \A i \in Indices(queue') : i + 1 \in Indices(queue) /\ queue'[i] = queue[i + 1]
  BY <1>1, TailIndices
<1>3. ASSUME NEW x \in MailThen(p)
      PROVE  x \in MailNow(p)
  <2>1. \/ \E i \in Indices(Contents(mq[p])) : x = Envelope(Contents(mq[p])[i])
        \/ \E i \in Indices(queue') : /\ IsMessage(queue', i) /\ queue'[i].pid = p
                                      /\ x = Envelope(queue'[i].message)
    <3>1. x \in Mail(Contents(mq[p]), queue', p)
      BY <1>1, <1>3 DEF MailThen
    <3> QED BY <3>1, InMail
  <2>2. \/ \E i \in Indices(Contents(mq[p])) : x = Envelope(Contents(mq[p])[i])
        \/ \E i \in Indices(queue) : /\ IsMessage(queue, i) /\ queue[i].pid = p
                                     /\ x = Envelope(queue[i].message)
    BY <1>2, <2>1 DEF IsMessage
  <2> QED BY <2>2, InMail DEF MailNow
<1> QED BY <1>3

\* Steps that send and receive nothing, and create and delete nobody.
LEMMA NoticeFrame ==
  ASSUME TypeOK, NoticeInv, UNCHANGED <<noticed, freed, notifyOnDie>>,
         \A r \in Pids : /\ MailThen(r) \subseteq MailNow(r)
                         /\ InTable(processes', r) => InTable(processes, r)
                         /\ InTable(processes, r) => MailThen(r) = MailNow(r)
  PROVE  NoticeInv'
<1>1. \A r \in Pids : MailNow(r)' = MailThen(r)
  BY DEF MailNow, MailThen
<1> QED BY <1>1 DEF NoticeInv

LEMMA NoticeNext ==
  ASSUME ActorsInv, NoticeInv, ActorStep
  PROVE  NoticeInv'
<1>0. TypeOK /\ Table /\ MailInv /\ Addressed /\ LinkInv /\ freed \subseteq Pids
  BY DEF ActorsInv, SchedulerInv, TypeOK
<1>1. \A r \in Pids : MailNow(r)' = MailThen(r)
  BY DEF MailNow, MailThen
<1>2. CASE Quiet
  <2>1. \A r \in Pids : /\ MailThen(r) \subseteq MailNow(r)
                        /\ InTable(processes, r) => MailThen(r) = MailNow(r)
    BY <1>0, <1>2, NoMailMail, DroppedMail, DroppedShrinks, MovedMail DEF Quiet
  <2>2. UNCHANGED <<noticed, freed, notifyOnDie>>
        /\ \A r \in Pids : InTable(processes', r) => InTable(processes, r)
    BY <1>2 DEF Quiet, NoMail, Dropped, Moved, SameTable, linkVars
  <2> QED BY <1>0, <2>1, <2>2, NoticeFrame
<1>3. CASE Creates
  <2>1. PICK kill \in SUBSET Pids, back \in SUBSET Pids, notify \in PidOrNone :
          /\ Construct(kill, notify, back)
          /\ notify \in Pids => Spawned(notify)
    BY <1>3 DEF Creates
  <2>2. PICK n \in Pids : n = NextPid
    BY <2>1 DEF Construct, Constructed
  <2>3. /\ freed' = freed /\ n \notin freed /\ ~Spawned(n)
        /\ \A q \in Pids : InTable(processes', q) <=> InTable(processes, q) \/ q = n
    BY <1>0, <2>1, <2>2, ConstructFresh DEF Known, Spawned
  <2>4. MailThen(n) = {} /\ \A s \in Pids \ {n} : MailThen(s) = MailNow(s)
    BY <1>0, <2>1, <2>2, CreatedMail
  <2>5. noticed' = noticed /\ \A p \in Pids \ {n} : notifyOnDie'[p] = notifyOnDie[p]
    BY <1>0, <2>1, <2>2 DEF Construct, Constructed, TypeOK
  <2>6. \A p \in freed : notifyOnDie[p] # n
    BY <1>0, <2>2, <2>3 DEF Addressed
  <2> QED BY <1>0, <1>1, <2>3, <2>4, <2>5, <2>6 DEF NoticeInv
<1>4. CASE Links
  <2>1. UNCHANGED <<mailVars, processes, freed, notifyOnDie>>
    BY <1>4 DEF Links, Link, tableVars, memVars
  <2> QED BY <1>0, <2>1, NoticeFrame DEF MailThen, MailNow, mailVars
<1>5. CASE Sends
  <2>1. PICK to \in Pids : Sent(to, NoPid)
    BY <1>5 DEF Sends
  <2>2. /\ UNCHANGED <<noticed, freed, notifyOnDie>>
        /\ \A r \in Pids : InTable(processes', r) <=> InTable(processes, r)
    BY <1>5, <2>1 DEF Sends, Sent, SameTable, linkVars
  <2>3. PICK m : m.body = NoPid /\ \A r \in Pids :
          MailThen(r) = IF r = to THEN MailNow(r) \cup {m} ELSE MailNow(r)
    BY <1>0, <2>1, SentMail
  <2> QED BY <1>1, <2>2, <2>3 DEF NoticeInv
<1>6. CASE Takes
  <2>1. PICK p \in Pids : running = p
    BY <1>6 DEF Takes
  <2>2. PICK m \in MailNow(p) : /\ MailThen(p) = MailNow(p) \ {m}
                                /\ noticed' = noticed \cup ({m.body} \ {NoPid})
    BY <1>0, <1>6, <2>1, TakenMail DEF Takes
  <2>3. \A s \in Pids \ {p} : MailThen(s) = MailNow(s)
    BY <1>0, <1>6, <2>1, TakenMail DEF Takes
  <2>4. /\ UNCHANGED <<freed, notifyOnDie>>
        /\ \A r \in Pids : InTable(processes', r) <=> InTable(processes, r)
    BY <1>6 DEF Takes, SameTable, linkVars
  <2>5. noticed' \subseteq freed
    BY <2>2, <2>4 DEF NoticeInv
  <2>6. ASSUME NEW r \in Pids, NEW x \in MailThen(r), x.body # NoPid
        PROVE  /\ x.body \in freed /\ x.body \notin noticed' /\ notifyOnDie[x.body] = r
               /\ \A y \in MailThen(r) : y.body = x.body => y = x
    <3>1. x \in MailNow(r) /\ MailThen(r) \subseteq MailNow(r) /\ (r = p => x # m)
      BY <2>2, <2>3, <2>6
    <3>2. x.body # m.body
      BY <2>2, <2>6, <3>1 DEF NoticeInv
    <3> QED BY <2>2, <2>6, <3>1, <3>2 DEF NoticeInv
  <2>7. ASSUME NEW q \in freed, NEW r \in Pids, notifyOnDie[q] = r,
               InTable(processes, r)
        PROVE  q \in noticed' \/ \E x \in MailThen(r) : x.body = q
    BY <1>0, <2>2, <2>3, <2>7, PidFields DEF NoticeInv
  <2> QED BY <1>1, <2>4, <2>5, <2>6, <2>7 DEF NoticeInv
<1>7. ASSUME NEW b \in Pids, Dies(b) PROVE NoticeInv'
  <2>1. /\ UNCHANGED <<noticed, freed, notifyOnDie>> /\ NoMail
        /\ \A r \in Pids : InTable(processes', r) => InTable(processes, r)
    BY <1>7 DEF Dies, NoMail, MovesOut, linkVars
  <2> QED BY <1>0, <2>1, NoMailMail, NoticeFrame
<1>8. CASE FinishDestroy
  <2>1. PICK a \in Pids : a = dying
    BY <1>0, <1>8, FinishSends
  <2>2. /\ UNCHANGED <<noticed, processes, notifyOnDie>> /\ freed' = freed \cup {a}
    BY <1>8, <2>1 DEF FinishDestroy, linkVars, tableVars
  <2>3. a \notin freed
    BY <1>0, <2>1 DEF Table, TableInv, Owned
  <2>4. CASE notifyOnDie[a] = NoPid /\ NoMail
    <3>1. \A r \in Pids : MailThen(r) = MailNow(r) /\ notifyOnDie[a] # r
      BY <1>0, <2>4, NoMailMail, PidFields
    <3> QED BY <1>1, <2>2, <3>1 DEF NoticeInv
  <2>5. CASE notifyOnDie[a] \in Pids /\ Sent(notifyOnDie[a], a)
    <3>1. PICK m : m.body = a /\ \A r \in Pids :
            MailThen(r) = IF r = notifyOnDie[a] THEN MailNow(r) \cup {m} ELSE MailNow(r)
      BY <1>0, <2>5, SentMail
    <3>2. a \notin noticed /\ \A r \in Pids : \A x \in MailNow(r) : x.body # a
      BY <2>3, PidFields DEF NoticeInv
    <3> QED BY <1>1, <2>2, <2>5, <3>1, <3>2 DEF NoticeInv
  <2> QED BY <1>0, <1>8, <2>1, <2>4, <2>5, FinishSends
<1> QED BY <1>2, <1>3, <1>4, <1>5, <1>6, <1>7, <1>8 DEF ActorStep

\* Whoever asked for it hears of a death exactly once, unless he dies first: the
\* notice of a deleted process is in queue_, in the slot, or has been received.
THEOREM DeathIsAnnouncedOnce == Spec => []DeathNoticeOnce
<1> DEFINE Inv == ActorsInv /\ NoticeInv
<1>1. Init => Inv
  <2>1. Init => NoticeInv
    <3> SUFFICES ASSUME Init PROVE NoticeInv
      OBVIOUS
    <3>1. freed = {} /\ noticed = {} /\ queue = <<>> /\ Indices(queue) = {}
      BY DEF Init, Indices
    <3>2. \A r \in Pids : Indices(Contents(mq[r])) = {}
      BY DEF Init, Contents, NewQueue, Indices
    <3>3. \A r \in Pids : MailNow(r) = {}
      BY <3>1, <3>2 DEF MailNow, Mail
    <3> QED BY <3>1, <3>3 DEF NoticeInv
  <2> QED BY <2>1, ActorsInit
<1>2. Inv /\ [Next]_vars => Inv'
  BY ActorsNext, NoticeNext
<1>3. Inv => DeathNoticeOnce
  <2> SUFFICES ASSUME Inv, NEW p \in freed, NEW r, r = notifyOnDie[p],
                      r # NoPid, Live(r)
               PROVE  Cardinality({i \in InFlight(r) : queue[i].message.body = p})
                      + Cardinality({i \in Indices(Contents(mq[r])) :
                                       Contents(mq[r])[i].body = p})
                      + Cardinality({p} \cap noticed) = 1
    BY DEF DeathNoticeOnce
  <2> DEFINE c == Contents(mq[r])
             A == {i \in InFlight(r) : queue[i].message.body = p}
             B == {i \in Indices(c) : c[i].body = p}
             C == {p} \cap noticed
  <2>1. p \in Pids /\ r \in Pids /\ InTable(processes, r) /\ p # NoPid
    BY PidFields, ActorIs DEF ActorsInv, SchedulerInv, TypeOK, PidOrNone
  <2>2. /\ \A i \in Indices(c) : Envelope(c[i]) \in MailNow(r)
        /\ \A i \in InFlight(r) : Envelope(queue[i].message) \in MailNow(r)
    BY DEF MailNow, Mail, InFlight
  <2>3. /\ QueueOrder(queue, sends) /\ BoxOrder(c, r, queue, sends)
    BY <2>1 DEF ActorsInv, MailInv
  <2>4. /\ Indices(queue) \subseteq Int /\ Indices(c) \subseteq Int
        /\ \A i \in Indices(c) : c[i].stamp \in Nat
        /\ \A i \in InFlight(r) : queue[i].message.stamp \in Nat
    <3>1. queue \in Seq(Items) /\ c \in Seq(Messages)
      BY <2>1, MailTypes DEF ActorsInv, SchedulerInv
    <3>2. \A i \in Indices(c) : c[i] \in Messages
      BY <3>1, ElementOfSeq DEF Indices
    <3>3. \A i \in Indices(queue) : queue[i] \in Items
      BY <3>1, ElementOfSeq DEF Indices
    <3>4. \A i \in InFlight(r) : queue[i].message.stamp \in Nat
      BY <3>3, ItemFields DEF InFlight
    <3> QED BY <3>1, <3>2, <3>4, LenProperties DEF Indices, Messages
  <2>5. ASSUME NEW m1, NEW m2, Envelope(m1) \in MailNow(r),
               Envelope(m2) \in MailNow(r), m1.body = p, m2.body = p
        PROVE  m1.stamp = m2.stamp /\ p \notin noticed
    BY <2>1, <2>5 DEF NoticeInv, Envelope
  <2>6. \A i, j \in A : i = j
    BY <2>2, <2>3, <2>4, <2>5 DEF InFlight, QueueOrder, IsMessage
  <2>7. \A i, j \in B : i = j
    BY <2>2, <2>3, <2>4, <2>5 DEF BoxOrder
  <2>8. \A i \in A, j \in B : FALSE
    BY <2>2, <2>3, <2>4, <2>5 DEF InFlight, BoxOrder, IsMessage
  <2>9. p \in noticed => A = {} /\ B = {}
    BY <2>2, <2>5
  <2>10. p \in noticed \/ A # {} \/ B # {}
    <3>1. p \in noticed \/ \E x \in MailNow(r) : x.body = p
      BY <2>1 DEF NoticeInv
    <3> QED BY <3>1 DEF MailNow, Mail, InFlight, Envelope
  <2> HIDE DEF A, B
  <2>11. \/ (\E a : A = {a}) /\ B = {} /\ C = {}
         \/ A = {} /\ (\E b : B = {b}) /\ C = {}
         \/ A = {} /\ B = {} /\ C = {p}
    <3>1. CASE p \in noticed
      BY <2>9, <3>1
    <3>2. ASSUME p \notin noticed, NEW a \in A
          PROVE  A = {a} /\ B = {} /\ C = {}
      BY <2>6, <2>8, <3>2
    <3>3. ASSUME p \notin noticed, A = {}, NEW b \in B
          PROVE  B = {b} /\ C = {}
      BY <2>7, <3>3
    <3> QED BY <2>10, <3>1, <3>2, <3>3
  <2> HIDE DEF C
  <2>12. Cardinality({}) = 0 /\ \A x : Cardinality({x}) = 1
    BY FS_EmptySet, FS_Singleton
  <2>13. Cardinality(A) + Cardinality(B) + Cardinality(C) = 1
    <3>1. CASE (\E a : A = {a}) /\ B = {} /\ C = {}
      <4>1. Cardinality(A) = 1 /\ Cardinality(B) = 0 /\ Cardinality(C) = 0
        BY <2>12, <3>1
      <4> QED BY <4>1
    <3>2. CASE A = {} /\ (\E b : B = {b}) /\ C = {}
      <4>1. Cardinality(A) = 0 /\ Cardinality(B) = 1 /\ Cardinality(C) = 0
        BY <2>12, <3>2
      <4> QED BY <4>1
    <3>3. CASE A = {} /\ B = {} /\ C = {p}
      <4>1. Cardinality(A) = 0 /\ Cardinality(B) = 0 /\ Cardinality(C) = 1
        BY <2>12, <3>3
      <4> QED BY <4>1
    <3> QED BY <2>11, <3>1, <3>2, <3>3
  <2> QED BY <2>13 DEF A, B, C
<1> HIDE DEF Inv
<1> QED BY <1>1, <1>2, <1>3, PTL DEF Spec
=============================================================================
