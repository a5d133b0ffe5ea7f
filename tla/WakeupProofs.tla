---------------------------- MODULE WakeupProofs ----------------------------
(***************************************************************************)
(* Who is resumed, by what and when: the resumes in queue_, the timers and  *)
(* the continuations of throttled senders.                                  *)
(***************************************************************************)
EXTENDS ActorsProofs

-----------------------------------------------------------------------------
(* What a step does to what processes wait for and to the items of queue_.   *)

\* Nobody starts or stops running; a timer may expire or go with its process, a
\* message may be queued.
Keeps ==
  /\ UNCHANGED <<running, waiting, resumes>> /\ timers' \subseteq timers
  /\ \A p \in timers \ timers' : p = dying \/ TimerExpires(p)
  /\ \/ queue' = queue
     \/ \E to \in Pids : \E body \in PidOrNone : QueueSend(to, body)

\* The running process goes on with what it waited for.
RunsOn(p) ==
  /\ running = p /\ waiting' = [waiting EXCEPT ![p] = "none"]
  /\ UNCHANGED <<running, resumes, timers, queue>>

\* The running process stops: it waits on w, is done or has crashed.
Stops(p, w) ==
  /\ running = p /\ w # "start"
  /\ Park(p, w) /\ resumes' = resumes
  /\ queue' = IF w = "yield" THEN Append(queue, ResumeItem(p, resumes[p]))
                             ELSE queue
  /\ timers' = IF SleepFor(w) THEN timers \cup {p} ELSE timers

\* The loop resumes t; if it does so for an item of queue_ the item is gone.
Starts(t) ==
  /\ running = NoPid /\ running' = t /\ InTable(processes, t)
  /\ resumes' = [resumes EXCEPT ![t] = @ + 1]
  /\ waiting' = [waiting EXCEPT ![t] = IF @ \in RecvWaits THEN @ ELSE "none"]
  /\ timers' = timers \ {t}
  /\ \/ queue' = queue
     \/ /\ queue # <<>> /\ queue' = Tail(queue)
        /\ Head(queue).kind = "resume"
             => Head(queue).pid = t /\ Head(queue).resume = resumes[t]

\* The item at the front of queue_ resumes nobody.
Drops ==
  /\ queue # <<>> /\ queue' = Tail(queue)
  /\ LET i == Head(queue) IN
       i.kind = "resume" /\ InTable(processes, i.pid)
         => i.resume # resumes[i.pid]
  /\ UNCHANGED <<running, waiting, resumes, timers>>

QueueStep ==
  \/ Keeps \/ Drops \/ Creates
  \/ \E p \in Pids : RunsOn(p) \/ Starts(p) \/ (\E w : Stops(p, w))

LEMMA ProcessStepWakes ==
  ASSUME ActorsInv, NEW p \in Pids, ProcessStep(p)
  PROVE  QueueStep
<1> USE DEF loopVars, ioVars, procVars, mailVars
<1>0. /\ TypeOK /\ running = p /\ NoPid \in PidOrNone
      /\ waiting = [waiting EXCEPT ![p] = waiting[p]]
  <2>1. TypeOK
    BY DEF ActorsInv, SchedulerInv
  <2> QED BY <2>1, ProcessStepFrame DEF TypeOK, PidOrNone
<1>1. ASSUME Keeps \/ RunsOn(p) \/ (\E w : Stops(p, w)) PROVE QueueStep
  BY <1>1 DEF QueueStep
<1>2. CASE Spawn(p) \/ SpawnLink(p) \/ SpawnLinkNotify(p)
           \/ \E b \in Pids : SpawnCtorLink(p, b)
  <2>1. Spawned(p) /\ p \in PidOrNone
    BY <1>0, PidFields
    DEF ActorsInv, SchedulerInv, LoopInv, Exists, Spawned, Known, PidOrNone
  <2>2. ASSUME NEW kill \in SUBSET Pids, NEW back \in SUBSET Pids,
               NEW notify \in {NoPid, p}, Construct(kill, notify, back)
        PROVE  QueueStep
    BY <1>0, <2>1, <2>2, PidFields DEF Creates, QueueStep
  <2>3. CASE Spawn(p)
    BY <2>2, <2>3 DEF Spawn
  <2>4. CASE SpawnLink(p)
    BY <2>2, <2>4 DEF SpawnLink
  <2>5. CASE SpawnLinkNotify(p)
    BY <2>2, <2>5 DEF SpawnLinkNotify
  <2>6. ASSUME NEW b \in Pids, SpawnCtorLink(p, b) PROVE QueueStep
    BY <2>2, <2>6 DEF SpawnCtorLink
  <2> QED BY <1>2, <2>3, <2>4, <2>5, <2>6
<1>3. ASSUME NEW procs, NEW tombs, Ends(p, procs, tombs),
             UNCHANGED <<resumes, queue, timers>>
      PROVE  QueueStep
  <2>1. Stops(p, "done")
    BY <1>0, <1>3 DEF Ends, Stops, Park, SleepFor
  <2> QED BY <1>1, <2>1
<1>4. ASSUME NEW b \in Pids, SpawnThrows(p, b) PROVE QueueStep
  BY <1>3, <1>4 DEF SpawnThrows
<1>5. ASSUME NEW b \in Pids, Link(p, b) \/ QueueKill(p, b) \/ Send(p, b)
      PROVE  QueueStep
  <2>1. Keeps
    BY <1>0, <1>5 DEF Link, QueueKill, Send, Keeps
  <2> QED BY <1>1, <2>1
<1>6. ASSUME NEW b \in Pids, SendThrottled(p, b) PROVE QueueStep
  <2>1. Stops(p, "yield") \/ Keeps
    BY <1>0, <1>6 DEF SendThrottled, Stops, Keeps, SleepFor
  <2> QED BY <1>1, <2>1
<1>7. CASE CanQueueNull(p)
  <2>1. Stops(p, "none")
    BY <1>0, <1>7 DEF CanQueueNull, InCanQueue, Stops, Park, SleepFor
  <2> QED BY <1>1, <2>1
<1>8. CASE WaitForRoom(p)
  <2>1. Stops(p, "future")
    BY <1>0, <1>8 DEF WaitForRoom, Stops, SleepFor
  <2> QED BY <1>1, <2>1
<1>9. CASE ThrottledSend(p)
  <2>1. sending[p] \in Pids
    BY <1>0, <1>9 DEF ThrottledSend, InCanQueue, TypeOK, PidOrNone
  <2>2. Keeps
    BY <1>0, <1>9, <2>1 DEF ThrottledSend, Keeps
  <2> QED BY <1>1, <2>2
<1>10. CASE Receive(p)
  <2>1. Keeps
    BY <1>10 DEF Receive, Keeps
  <2> QED BY <1>1, <2>1
<1>11. CASE AwaitResume(p)
  <2>1. CASE Ends(p, processes, tombstones)
    BY <1>3, <1>11, <2>1 DEF AwaitResume
  <2>2. CASE ~Ends(p, processes, tombstones)
    <3>1. RunsOn(p)
      BY <1>11, <2>2 DEF AwaitResume, RunsOn
    <3> QED BY <1>1, <3>1
  <2> QED BY <2>1, <2>2
<1>12. ASSUME NEW w \in Waits[p.idx], Suspend(p, w) PROVE QueueStep
  <2>1. w # "start"
    <3>1. p.idx \in 1..MaxProcs
      BY PidFields
    <3> QED BY <3>1, ProgramAssumption
  <2>2. Stops(p, w)
    BY <1>0, <1>12, <2>1 DEF Suspend, Stops
  <2> QED BY <1>1, <2>2
<1>13. CASE Finish(p)
  BY <1>3, <1>13 DEF Finish
<1> QED BY <1>2, <1>4, <1>5, <1>6, <1>7, <1>8, <1>9, <1>10, <1>11, <1>12,
           <1>13 DEF ProcessStep

\* resume() of a process in the table, called by the loop.
LEMMA ResumeStarts ==
  ASSUME TypeOK, running = NoPid, NEW t \in Pids, InTable(processes, t),
         NEW boxes, NEW hs, NEW bad, BeginResume(t, boxes, hs, bad),
         \/ queue' = queue
         \/ /\ queue # <<>> /\ queue' = Tail(queue)
            /\ Head(queue).kind = "resume"
                 => Head(queue).pid = t /\ Head(queue).resume = resumes[t]
  PROVE  Starts(t)
BY DEF Starts, BeginResume, Cancelled, TypeOK

LEMMA LoopStepWakes ==
  ASSUME ActorsInv, LoopStep
  PROVE  QueueStep
<1> USE DEF loopVars, ioVars, procVars, mailVars, rest
<1>0. TypeOK /\ SchedulerInv /\ LoopInv /\ processes \in Seq(PidOrNone)
  BY DEF ActorsInv, SchedulerInv, TypeOK
<1>1. ASSUME NEW q \in Pids
      PROVE  /\ InTable(processes, q) <=> Found(processes, q)
             /\ Found(processes, q) => Proc(q) = q
             /\ Live(q) => InTable(processes, q)
  BY <1>0, InTableIsFound, FoundIsSelf
  DEF SchedulerInv, Table, TableInv, Owned, Proc, Live, InTable, Indices
<1>2. ASSUME UNCHANGED <<running, waiting, resumes, queue, timers>>
      PROVE  QueueStep
  BY <1>2 DEF Keeps, QueueStep
<1>3. CASE Exit \/ RunOne \/ HandlerCrashes \/ EndPoll \/ DestroyDone
           \/ DestroyNext \/ RunAborted
  BY <1>2, <1>3 DEF Exit, RunOne, HandlerCrashes, EndPoll, DestroyDone,
    DestroyNext, RunAborted, NoResume
<1>4. ASSUME NEW p \in Pids, TimerExpires(p) \/ KillLinked(p) PROVE QueueStep
  <2>1. CASE KillLinked(p)
    BY <1>2, <2>1 DEF KillLinked
  <2>2. CASE TimerExpires(p)
    <3>1. /\ UNCHANGED <<running, waiting, resumes, queue>>
          /\ timers' = timers \ {p}
      BY <2>2 DEF TimerExpires
    <3> QED BY <2>2, <3>1 DEF Keeps, QueueStep
  <2> QED BY <1>4, <2>1, <2>2
<1>5. CASE ProcessMessage
  <2> DEFINE i == Head(queue)
             boxes == IF Accepts(i)
                      THEN [mq EXCEPT ![Proc(i.pid)] = Push(@, i.message)] ELSE mq
  <2>1. /\ queue # <<>> /\ i.kind = "message" /\ queue' = Tail(queue)
        /\ at = "top"
        /\ \/ Accepts(i) /\ BeginResume(Proc(i.pid), boxes, ready, {})
           \/ NoResume(boxes, ready, {})
    BY <1>5 DEF ProcessMessage
  <2>2. i.pid \in Pids /\ running = NoPid
    BY <1>0, <2>1, HeadItem DEF LoopInv
  <2> HIDE DEF i, boxes
  <2>3. CASE Accepts(i) /\ BeginResume(Proc(i.pid), boxes, ready, {})
    <3>1. Proc(i.pid) = i.pid /\ InTable(processes, i.pid)
      BY <1>1, <2>2, <2>3 DEF Accepts
    <3>2. Starts(i.pid)
      BY <1>0, <2>1, <2>2, <2>3, <3>1, ResumeStarts DEF i
    <3> QED BY <2>2, <3>2 DEF QueueStep
  <2>4. CASE NoResume(boxes, ready, {})
    BY <2>1, <2>4 DEF NoResume, Drops, QueueStep, i
  <2> QED BY <2>1, <2>3, <2>4
<1>6. CASE ProcessResume
  <2> DEFINE i == Head(queue)
  <2>1. /\ queue # <<>> /\ i.kind = "resume" /\ queue' = Tail(queue)
        /\ at = "top"
        /\ \/ /\ Found(processes, i.pid) /\ resumes[Proc(i.pid)] = i.resume
              /\ BeginResume(Proc(i.pid), mq, ready, {})
           \/ /\ ~(Found(processes, i.pid) /\ resumes[Proc(i.pid)] = i.resume)
              /\ NoResume(mq, ready, {})
    BY <1>6 DEF ProcessResume
  <2>2. i.pid \in Pids /\ running = NoPid
    BY <1>0, <2>1, HeadItem DEF LoopInv
  <2> HIDE DEF i
  <2>3. CASE /\ Found(processes, i.pid) /\ resumes[Proc(i.pid)] = i.resume
             /\ BeginResume(Proc(i.pid), mq, ready, {})
    <3>1. Proc(i.pid) = i.pid /\ InTable(processes, i.pid)
      BY <1>1, <2>2, <2>3
    <3>2. Starts(i.pid)
      BY <1>0, <2>1, <2>2, <2>3, <3>1, ResumeStarts DEF i
    <3> QED BY <2>2, <3>2 DEF QueueStep
  <2>4. CASE /\ ~(Found(processes, i.pid) /\ resumes[Proc(i.pid)] = i.resume)
             /\ NoResume(mq, ready, {})
    <3>1. InTable(processes, i.pid) => i.resume # resumes[i.pid]
      BY <1>1, <2>2, <2>4
    <3> QED BY <2>1, <2>4, <3>1 DEF NoResume, Drops, QueueStep, i
  <2> QED BY <2>1, <2>3, <2>4
<1>7. CASE RunTimer \/ RunContinuation
  <2> DEFINE t == Head(ready).pid
  <2>1. /\ ready # <<>> /\ running = NoPid /\ queue' = queue
        /\ \/ Live(t) /\ BeginResume(t, mq, Tail(ready), {})
           \/ NoResume(mq, Tail(ready), ReadsFreed(t))
    BY <1>7 DEF RunTimer, RunContinuation, RunsHandler, Continues
  <2>2. t \in Pids
    BY <1>0, <2>1, HeadHandler
  <2> HIDE DEF t
  <2>3. CASE Live(t) /\ BeginResume(t, mq, Tail(ready), {})
    <3>1. Starts(t)
      BY <1>0, <1>1, <2>1, <2>2, <2>3, ResumeStarts
    <3> QED BY <2>2, <3>1 DEF QueueStep
  <2>4. CASE NoResume(mq, Tail(ready), ReadsFreed(t))
    BY <1>2, <2>1, <2>4 DEF NoResume
  <2> QED BY <2>1, <2>3, <2>4
<1>8. ASSUME NEW q \in Pids, RunReused(q) PROVE QueueStep
  <2>1. /\ running = NoPid /\ queue' = queue /\ Live(q)
        /\ BeginResume(q, mq, Tail(ready), ReadsFreed(Head(ready).pid))
    BY <1>8 DEF RunReused, RunsHandler
  <2>2. Starts(q)
    BY <1>0, <1>1, <2>1, ResumeStarts
  <2> QED BY <2>2 DEF QueueStep
<1>9. CASE FinishDestroy
  <2>1. dying \in Pids
    BY <1>0, <1>9 DEF FinishDestroy, TypeOK, PidOrNone
  <2>2. queue' = queue
        \/ \E to \in Pids : \E body \in PidOrNone : QueueSend(to, body)
    <3>1. CASE Notifies(dying)
      <4>1. notifyOnDie[dying] \in Pids /\ dying \in PidOrNone
        BY <1>0, <2>1, <3>1 DEF Notifies, TypeOK, PidOrNone
      <4> QED BY <1>9, <3>1, <4>1 DEF FinishDestroy
    <3>2. CASE ~Notifies(dying)
      BY <1>9, <3>2 DEF FinishDestroy
    <3> QED BY <3>1, <3>2
  <2>3. Keeps
    BY <1>9, <2>2 DEF FinishDestroy, Keeps
  <2> QED BY <2>3 DEF QueueStep
<1> QED BY <1>3, <1>4, <1>5, <1>6, <1>7, <1>8, <1>9 DEF LoopStep

LEMMA StepWakes ==
  ASSUME ActorsInv, [Next]_vars
  PROVE  QueueStep
<1> USE DEF vars, loopVars, ioVars, procVars, mailVars, rest
<1>1. CASE MainSpawn
  BY <1>1, PidFields DEF MainSpawn, Creates, QueueStep, PidOrNone
<1>2. CASE Run \/ Terminated \/ UNCHANGED vars
  BY <1>2 DEF Run, Terminated, Keeps, QueueStep
<1> QED BY <1>1, <1>2, ProcessStepWakes, LoopStepWakes DEF Next

-----------------------------------------------------------------------------
(* The resumes in queue_ *)

Runnable == {"start", "yield"}

\* A wakeup for p that was issued when p had been resumed k times: if p has not
\* been resumed since, p still waits as it did then.
Token(p, k, ws) ==
  /\ Spawned(p) /\ k <= resumes[p]
  /\ k = resumes[p] => running # p /\ waiting[p] \in ws

\* ... in the next state.
NowToken(p, k, ws) ==
  /\ NowSpawned(p) /\ k <= resumes'[p]
  /\ k = resumes'[p] => running' # p /\ waiting'[p] \in ws

\* p waits for its turn.
InTurn(p) == InTable(processes, p) /\ running # p /\ waiting[p] \in Runnable

TurnsQueued ==
  \A p \in Pids : InTurn(p) =>
    \E i \in Indices(queue) : queue[i] = ResumeItem(p, resumes[p])

\* Every resume in queue_ is a wakeup, no two are the same, and a process that
\* waits for its turn has one.
ResumeInv ==
  /\ \A i \in Indices(queue) :
       queue[i].kind = "resume" => Token(queue[i].pid, queue[i].resume, Runnable)
  /\ \A i, j \in Indices(queue) :
       queue[i].kind = "resume" /\ queue[i] = queue[j] => i = j
  /\ TurnsQueued

\* A process that is made has a pid of its own and waits for its first turn.
LEMMA CreatesRunnable ==
  ASSUME ActorsInv, Creates
  PROVE  \E n \in Pids :
           /\ ~Spawned(n) /\ Spawned(n)'
           /\ \A q \in Pids : InTable(processes', q) => InTable(processes, q) \/ q = n
           /\ running' = running /\ timers' = timers
           /\ resumes' = [resumes EXCEPT ![n] = 0]
           /\ waiting' = [waiting EXCEPT ![n] = "start"]
           /\ queue' = Append(queue, ResumeItem(n, 0))
           /\ sending' = [sending EXCEPT ![n] = NoPid]
<1>1. PICK kill \in SUBSET Pids, back \in SUBSET Pids, notify \in PidOrNone :
        Construct(kill, notify, back)
  BY DEF Creates
<1>2. /\ NextPid \in Pids /\ ~Spawned(NextPid)
      /\ \A q \in Pids : InTable(processes', q)
                           <=> InTable(processes, q) \/ q = NextPid
  BY <1>1, ConstructFresh DEF ActorsInv, SchedulerInv, Spawned
<1>3. PICK n \in Pids : n = NextPid
  BY <1>2
<1>4. Spawned(n)'
  BY <1>2, <1>3 DEF Spawned, Known
<1>5. /\ running' = running /\ timers' = timers
      /\ resumes' = [resumes EXCEPT ![n] = 0]
      /\ waiting' = [waiting EXCEPT ![n] = "start"]
      /\ queue' = Append(queue, ResumeItem(n, 0))
      /\ sending' = [sending EXCEPT ![n] = NoPid]
  BY <1>1, <1>3 DEF Construct, Constructed, loopVars, ioVars
<1> QED BY <1>2, <1>3, <1>4, <1>5

\* Nobody else enters the table.
LEMMA TableShrinks ==
  ASSUME ActorsInv, [Next]_vars, ~Creates, NEW p \in Pids, InTable(processes', p)
  PROVE  InTable(processes, p)
<1>1. ActorStep
  BY ActorsNext
<1>2. CASE Quiet \/ Sends \/ Takes
  BY <1>2 DEF Quiet, Sends, Takes, SameTable
<1>3. CASE Links
  BY <1>3 DEF Links, Link, tableVars
<1>4. ASSUME NEW b \in Pids, Dies(b) PROVE InTable(processes, p)
  BY <1>4 DEF Dies, MovesOut
<1>5. CASE FinishDestroy
  BY <1>5 DEF FinishDestroy, tableVars
<1> QED BY <1>1, <1>2, <1>3, <1>4, <1>5 DEF ActorStep

\* A wakeup stays one: only the process itself can change what it waits for, and
\* to do that it has to be resumed.
LEMMA TokenStays ==
  ASSUME ActorsInv, [Next]_vars, NEW p \in Pids, NEW k \in Nat, NEW ws,
         Token(p, k, ws)
  PROVE  NowToken(p, k, ws)
<1>1. QueueStep /\ NowSpawned(p)
  BY StepWakes, SpawnedStays DEF ActorsInv, Token, Spawned, NowSpawned
<1>2. /\ resumes \in [Pids -> Nat] /\ Spawned(p) /\ k <= resumes[p]
      /\ k = resumes[p] => running # p /\ waiting[p] \in ws
      /\ waiting \in [Pids -> {"start", "none", "done", "yield", "recv",
                           "timedRecv", "sleep", "always", "future"}]
      /\ p # NoPid
  BY PidFields DEF ActorsInv, SchedulerInv, TypeOK, Token
<1>3. CASE Keeps \/ Drops
  BY <1>1, <1>2, <1>3 DEF Keeps, Drops, NowToken
<1>4. CASE Creates
  <2>1. PICK n \in Pids : /\ ~Spawned(n) /\ running' = running
                          /\ resumes' = [resumes EXCEPT ![n] = 0]
                          /\ waiting' = [waiting EXCEPT ![n] = "start"]
    BY <1>4, CreatesRunnable
  <2> QED BY <1>1, <1>2, <2>1 DEF NowToken
<1>5. ASSUME NEW q \in Pids, NEW w, RunsOn(q) \/ Stops(q, w)
      PROVE  NowToken(p, k, ws)
  BY <1>1, <1>2, <1>5 DEF RunsOn, Stops, Park, NowToken
<1>6. ASSUME NEW q \in Pids, Starts(q)
      PROVE  NowToken(p, k, ws)
  <2>1. CASE p = q
    BY <1>1, <1>2, <1>6, <2>1 DEF Starts, NowToken
  <2>2. CASE p # q
    BY <1>1, <1>2, <1>6, <2>2 DEF Starts, NowToken
  <2> QED BY <2>1, <2>2
<1> QED BY <1>1, <1>3, <1>4, <1>5, <1>6 DEF QueueStep

\* A resume is queued for a process that waits for its turn from now on, and no
\* resume like it is there.
NewResume(e) ==
  \E p \in Pids :
    /\ e = ResumeItem(p, resumes'[p]) /\ NowToken(p, e.resume, Runnable)
    /\ \A i \in Indices(queue) : queue[i] # e

LEMMA QueueSteps ==
  ASSUME ActorsInv, ResumeInv, [Next]_vars
  PROVE  \/ queue' = queue
         \/ queue # <<>> /\ queue' = Tail(queue)
         \/ \E e \in Items : /\ queue' = Append(queue, e)
                             /\ e.kind = "message" \/ NewResume(e)
<1> DEFINE Goal == \/ queue' = queue
                   \/ queue # <<>> /\ queue' = Tail(queue)
                   \/ \E e \in Items : /\ queue' = Append(queue, e)
                                       /\ e.kind = "message" \/ NewResume(e)
<1>0. /\ TypeOK /\ resumes \in [Pids -> Nat] /\ sends \in Nat
      /\ resumes' \in [Pids -> Nat] /\ DOMAIN waiting = Pids
      /\ \A p \in Pids : p # NoPid
  <2>1. TypeOK /\ TypeOK'
    BY TypeStep DEF ActorsInv, SchedulerInv
  <2> QED BY <2>1, PidFields DEF TypeOK
<1>1. ASSUME NEW p \in Pids, NEW k \in Nat
      PROVE  /\ ResumeItem(p, k) \in Items
             /\ ResumeItem(p, k).kind = "resume" /\ ResumeItem(p, k).pid = p
             /\ ResumeItem(p, k).resume = k
  BY ItemTypes DEF ResumeItem, PidOrNone
<1>2. CASE Keeps
  <2>1. ASSUME NEW to \in Pids, NEW body \in PidOrNone, QueueSend(to, body)
        PROVE  Goal
    <3>1. MessageItem(Message(to, body, sends)) \in Items
      BY <1>0, ItemTypes
    <3>2. MessageItem(Message(to, body, sends)).kind = "message"
      BY DEF MessageItem
    <3> QED BY <2>1, <3>1, <3>2 DEF QueueSend
  <2> QED BY <1>2, <2>1 DEF Keeps
<1>3. CASE Drops
  BY <1>3 DEF Drops
<1>4. CASE Creates
  <2>1. PICK n \in Pids : /\ ~Spawned(n) /\ Spawned(n)' /\ running' = running
                          /\ resumes' = [resumes EXCEPT ![n] = 0]
                          /\ waiting' = [waiting EXCEPT ![n] = "start"]
                          /\ queue' = Append(queue, ResumeItem(n, 0))
    BY <1>4, CreatesRunnable
  <2>2. resumes'[n] = 0 /\ waiting'[n] = "start"
    BY <1>0, <2>1
  <2>3. running # n
    BY <1>0, <2>1 DEF ActorsInv, SchedulerInv, LoopInv, Exists, Spawned, Known
  <2>4. NowToken(n, 0, Runnable)
    BY <2>1, <2>2, <2>3 DEF NowToken, Runnable, Spawned, NowSpawned
  <2>5. \A i \in Indices(queue) : queue[i] # ResumeItem(n, 0)
    BY <1>1, <2>1 DEF ResumeInv, Token
  <2>6. NewResume(ResumeItem(n, 0))
    BY <1>1, <2>2, <2>4, <2>5 DEF NewResume
  <2> QED BY <1>1, <2>1, <2>6
<1>5. ASSUME NEW p \in Pids, NEW w, Stops(p, w) PROVE Goal
  <2>1. CASE w = "yield"
    <3>1. /\ queue' = Append(queue, ResumeItem(p, resumes[p]))
          /\ running = p /\ running' = NoPid /\ resumes' = resumes
          /\ waiting' = [waiting EXCEPT ![p] = "yield"]
      BY <1>5, <2>1 DEF Stops, Park
    <3>2. Spawned(p)
      BY <1>0, <3>1 DEF ActorsInv, SchedulerInv, LoopInv, Exists, Spawned, Known
    <3>3. NowSpawned(p)
      BY <3>2, SpawnedStays DEF ActorsInv, Spawned, NowSpawned
    <3>4. resumes'[p] \in Nat /\ resumes'[p] <= resumes'[p] /\ waiting'[p] = "yield"
      BY <1>0, <3>1
    <3>5. NowToken(p, resumes[p], Runnable)
      BY <1>0, <3>1, <3>3, <3>4 DEF NowToken, Runnable
    <3>6. \A i \in Indices(queue) : queue[i] # ResumeItem(p, resumes[p])
      BY <1>0, <1>1, <3>1 DEF ResumeInv, Token
    <3>7. NewResume(ResumeItem(p, resumes[p]))
      BY <1>0, <1>1, <3>1, <3>4, <3>5, <3>6 DEF NewResume
    <3> QED BY <1>0, <1>1, <3>1, <3>7
  <2>2. CASE w # "yield"
    BY <1>5, <2>2 DEF Stops
  <2> QED BY <2>1, <2>2
<1>6. ASSUME NEW p \in Pids, RunsOn(p) \/ Starts(p) PROVE Goal
  BY <1>6 DEF RunsOn, Starts
<1> QED BY <1>2, <1>3, <1>4, <1>5, <1>6, StepWakes DEF QueueStep

\* The resumes of queue_ stay wakeups, and stay different.
LEMMA ResumesStayTokens ==
  ASSUME ActorsInv, ResumeInv, [Next]_vars
  PROVE  /\ \A i \in Indices(queue') : queue'[i].kind = "resume"
              => NowToken(queue'[i].pid, queue'[i].resume, Runnable)
         /\ \A i, j \in Indices(queue') :
              queue'[i].kind = "resume" /\ queue'[i] = queue'[j] => i = j
<1> DEFINE Wakes(i) == NowToken(i.pid, i.resume, Runnable)
           Goal == /\ \A i \in Indices(queue') : queue'[i].kind = "resume"
                        => Wakes(queue'[i])
                   /\ \A i, j \in Indices(queue') :
                        queue'[i].kind = "resume" /\ queue'[i] = queue'[j] => i = j
<1>0. queue \in Seq(Items)
  BY DEF ActorsInv, SchedulerInv, TypeOK
<1>1. ASSUME NEW i \in Indices(queue), queue[i].kind = "resume"
      PROVE  Wakes(queue[i])
  <2>1. queue[i] \in Items
    BY <1>0, ElementOfSeq DEF Indices
  <2>2. PICK p \in Pids, k \in Nat : queue[i].pid = p /\ queue[i].resume = k
    BY <2>1 DEF Items
  <2>3. Token(p, k, Runnable)
    BY <1>1, <2>2 DEF ResumeInv
  <2>4. NowToken(p, k, Runnable)
    BY <2>3, TokenStays
  <2> QED BY <2>2, <2>4
<1>2. ASSUME queue' = queue PROVE Goal
  <2> HIDE DEF Wakes
  <2> QED BY <1>1, <1>2 DEF ResumeInv
<1>3. ASSUME queue # <<>>, queue' = Tail(queue) PROVE Goal
  <2>1. \A i \in Indices(queue') :
          i \in Nat /\ i + 1 \in Indices(queue) /\ queue'[i] = queue[i + 1]
    BY <1>0, <1>3, TailIndices
  <2>2. \A i, j \in Indices(queue') : i + 1 = j + 1 => i = j
    BY <2>1
  <2> HIDE DEF Wakes
  <2> QED BY <1>1, <2>1, <2>2 DEF ResumeInv
<1>4. ASSUME NEW e \in Items, queue' = Append(queue, e),
             e.kind = "message" \/ NewResume(e)
      PROVE  Goal
  <2>1. Appended(queue', queue, e)
    BY <1>0, <1>4, AppendIndices
  <2>2. e.kind = "resume" => Wakes(e) /\ \A i \in Indices(queue) : queue[i] # e
    BY <1>4 DEF NewResume, ResumeItem
  <2> HIDE DEF Wakes
  <2> QED BY <1>1, <2>1, <2>2 DEF ResumeInv, Appended
<1>5. Goal
  BY <1>2, <1>3, <1>4, QueueSteps
<1> QED BY <1>5

\* A process that waits for its turn keeps its resume until it is resumed.
LEMMA TurnsStayQueued ==
  ASSUME ActorsInv, TurnsQueued, [Next]_vars, NEW p \in Pids,
         InTable(processes', p), running' # p, waiting'[p] \in Runnable
  PROVE  \E i \in Indices(queue') : queue'[i] = ResumeItem(p, resumes'[p])
<1> DEFINE Goal == \E i \in Indices(queue') : queue'[i] = ResumeItem(p, resumes'[p])
<1>0. /\ queue \in Seq(Items) /\ resumes \in [Pids -> Nat] /\ DOMAIN waiting = Pids
      /\ sends \in Nat
  BY DEF ActorsInv, SchedulerInv, TypeOK
<1>1. ASSUME NEW q \in Pids, NEW k
      PROVE  /\ k \in Nat => ResumeItem(q, k) \in Items
             /\ ResumeItem(q, k).kind = "resume" /\ ResumeItem(q, k).pid = q
             /\ ResumeItem(q, k).resume = k
  BY ItemTypes DEF ResumeItem, PidOrNone
<1>2. ~Creates => InTable(processes, p)
  BY TableShrinks
<1>3. InTurn(p) => \E i \in Indices(queue) : queue[i] = ResumeItem(p, resumes[p])
  BY DEF TurnsQueued
<1>4. ASSUME InTurn(p), resumes'[p] = resumes[p], queue' = queue PROVE Goal
  BY <1>3, <1>4
<1>5. ASSUME InTurn(p), resumes'[p] = resumes[p],
             NEW e \in Items, queue' = Append(queue, e)
      PROVE  Goal
  <2>1. Appended(queue', queue, e)
    BY <1>0, <1>5, AppendIndices
  <2> QED BY <1>3, <1>5, <2>1 DEF Appended
<1>6. ASSUME InTurn(p), resumes'[p] = resumes[p],
             queue # <<>>, queue' = Tail(queue), Head(queue) # ResumeItem(p, resumes[p])
      PROVE  Goal
  <2>1. /\ Head(queue) = queue[1]
        /\ \A i \in Indices(queue) :
             i = 1 \/ (i - 1 \in Indices(queue') /\ queue[i] = queue'[i - 1])
    BY <1>0, <1>6, TailIndices
  <2>2. PICK i \in Indices(queue) : queue[i] = ResumeItem(p, resumes[p])
    BY <1>3, <1>6
  <2>3. i - 1 \in Indices(queue') /\ queue'[i - 1] = ResumeItem(p, resumes[p])
    BY <1>6, <2>1, <2>2
  <2> QED BY <1>6, <2>3
<1>7. ASSUME Keeps, ~Creates PROVE Goal
  <2>1. InTurn(p) /\ resumes'[p] = resumes[p]
    BY <1>2, <1>7 DEF Keeps, InTurn
  <2>2. ASSUME NEW to \in Pids, NEW body \in PidOrNone, QueueSend(to, body)
        PROVE  Goal
    <3>1. MessageItem(Message(to, body, sends)) \in Items
      BY <1>0, ItemTypes
    <3> QED BY <1>5, <2>1, <2>2, <3>1 DEF QueueSend
  <2> QED BY <1>4, <1>7, <2>1, <2>2 DEF Keeps
<1>8. ASSUME Drops, ~Creates PROVE Goal
  <2>1. InTurn(p) /\ resumes'[p] = resumes[p] /\ queue # <<>> /\ queue' = Tail(queue)
    BY <1>2, <1>8 DEF Drops, InTurn
  <2>2. Head(queue) # ResumeItem(p, resumes[p])
    BY <1>1, <1>2, <1>8 DEF Drops
  <2> QED BY <1>6, <2>1, <2>2
<1>9. ASSUME Creates PROVE Goal
  <2>1. PICK n \in Pids :
          /\ \A q \in Pids : InTable(processes', q) => InTable(processes, q) \/ q = n
          /\ running' = running
          /\ resumes' = [resumes EXCEPT ![n] = 0]
          /\ waiting' = [waiting EXCEPT ![n] = "start"]
          /\ queue' = Append(queue, ResumeItem(n, 0))
    BY <1>9, CreatesRunnable
  <2>2. CASE p = n
    <3>1. Appended(queue', queue, ResumeItem(n, 0)) /\ resumes'[p] = 0
      BY <1>0, <1>1, <2>1, <2>2, AppendIndices
    <3> QED BY <2>2, <3>1 DEF Appended
  <2>3. CASE p # n
    <3>1. InTurn(p) /\ resumes'[p] = resumes[p]
      BY <1>0, <2>1, <2>3 DEF InTurn
    <3> QED BY <1>1, <1>5, <2>1, <3>1
  <2> QED BY <2>2, <2>3
<1>10. ASSUME NEW q \in Pids, RunsOn(q), ~Creates PROVE Goal
  <2>1. InTurn(p) /\ resumes'[p] = resumes[p] /\ queue' = queue
    BY <1>0, <1>2, <1>10 DEF RunsOn, InTurn
  <2> QED BY <1>4, <2>1
<1>11. ASSUME NEW q \in Pids, NEW w, Stops(q, w), ~Creates PROVE Goal
  <2>1. CASE p = q
    <3>1. /\ w = "yield" /\ queue' = Append(queue, ResumeItem(p, resumes[p]))
          /\ resumes'[p] = resumes[p]
      BY <1>0, <1>11, <2>1 DEF Stops, Park, Runnable
    <3>2. Appended(queue', queue, ResumeItem(p, resumes[p]))
      BY <1>0, <1>1, <3>1, AppendIndices
    <3> QED BY <3>1, <3>2 DEF Appended
  <2>2. CASE p # q
    <3>1. InTurn(p) /\ resumes'[p] = resumes[p]
      BY <1>0, <1>2, <1>11, <2>2 DEF Stops, Park, InTurn
    <3>2. queue' = queue \/ queue' = Append(queue, ResumeItem(q, resumes[q]))
      BY <1>11 DEF Stops
    <3>3. ResumeItem(q, resumes[q]) \in Items
      BY <1>0, <1>1
    <3> QED BY <1>4, <1>5, <3>1, <3>2, <3>3
  <2> QED BY <2>1, <2>2
<1>12. ASSUME NEW q \in Pids, Starts(q), ~Creates PROVE Goal
  <2>1. p # q
    BY <1>12 DEF Starts
  <2>2. InTurn(p) /\ resumes'[p] = resumes[p]
    BY <1>0, <1>2, <1>12, <2>1, PidFields DEF Starts, InTurn
  <2>3. CASE queue' = queue
    BY <1>4, <2>2, <2>3
  <2>4. CASE queue' # queue
    <3>1. /\ queue # <<>> /\ queue' = Tail(queue)
          /\ Head(queue).kind = "resume" => Head(queue).pid = q
      BY <1>12, <2>4 DEF Starts
    <3>2. Head(queue) # ResumeItem(p, resumes[p])
      BY <1>1, <2>1, <3>1
    <3> QED BY <1>6, <2>2, <3>1, <3>2
  <2> QED BY <2>3, <2>4
<1>13. Goal
  BY <1>7, <1>8, <1>9, <1>10, <1>11, <1>12, StepWakes DEF QueueStep
<1> QED BY <1>13

LEMMA TurnsNext ==
  ASSUME ActorsInv, TurnsQueued, [Next]_vars
  PROVE  TurnsQueued'
BY TurnsStayQueued DEF TurnsQueued, InTurn, Runnable

LEMMA ResumeNext ==
  ASSUME ActorsInv, ResumeInv, [Next]_vars
  PROVE  ResumeInv'
<1>1. \A i \in Indices(queue') : queue'[i].kind = "resume"
        => NowToken(queue'[i].pid, queue'[i].resume, Runnable)
  BY ResumesStayTokens
<1>2. (\A i \in Indices(queue) : queue[i].kind = "resume" =>
         Token(queue[i].pid, queue[i].resume, Runnable))'
  BY <1>1 DEF NowToken, Token, NowSpawned, Spawned, Runnable
<1>3. \A i, j \in Indices(queue') :
        queue'[i].kind = "resume" /\ queue'[i] = queue'[j] => i = j
  BY ResumesStayTokens
<1>4. TurnsQueued'
  BY TurnsNext DEF ResumeInv
<1> QED BY <1>2, <1>3, <1>4 DEF ResumeInv

LEMMA ResumeCorrect == Spec => [](ActorsInv /\ ResumeInv)
<1>1. Init => ResumeInv
  <2> SUFFICES ASSUME Init PROVE ResumeInv
    OBVIOUS
  <2>1. Indices(queue) = {} /\ Indices(processes) = {}
    BY DEF Init, Indices
  <2> QED BY <2>1 DEF ResumeInv, TurnsQueued, InTurn, InTable
<1> QED BY <1>1, ActorsInit, ActorsNext, ResumeNext, PTL DEF Spec

\* A process that was spawned or has yielded is resumed by exactly one item of
\* queue_: spawnArgs(), a yield and sendThrottled() each queue one, the count in it
\* is out of date as soon as the process is resumed, and a process is never
\* waiting for its turn with a count that an older item has.
THEOREM RunnableHasOneResume == Spec => []RunnableIsQueuedOnce
<1>1. ActorsInv /\ ResumeInv => RunnableIsQueuedOnce
  <2> SUFFICES ASSUME ActorsInv, ResumeInv, NEW p \in Pids,
                      SuspendedOn(p, "start") \/ SuspendedOn(p, "yield")
               PROVE  Cardinality(PendingResumes(p)) = 1
    BY DEF RunnableIsQueuedOnce
  <2>1. queue \in Seq(Items)
    BY DEF ActorsInv, SchedulerInv, TypeOK
  <2>2. InTurn(p)
    BY DEF SuspendedOn, InTurn, Live, InTable, Indices, Runnable
  <2>3. PICK i \in Indices(queue) : queue[i] = ResumeItem(p, resumes[p])
    BY <2>2 DEF ResumeInv, TurnsQueued
  <2>4. i \in PendingResumes(p)
    BY <2>3 DEF PendingResumes, ResumeItem
  <2>5. ASSUME NEW j \in PendingResumes(p) PROVE j = i
    <3>1. /\ j \in Indices(queue) /\ queue[j].kind = "resume" /\ queue[j].pid = p
          /\ queue[j].resume = resumes[p]
      BY DEF PendingResumes
    <3>2. queue[j] \in Items
      BY <2>1, <3>1, ElementOfSeq DEF Indices
    <3>3. queue[j] = ResumeItem(p, resumes[p])
      BY <3>1, <3>2 DEF Items, ResumeItem
    <3> QED BY <2>3, <3>1, <3>3 DEF ResumeInv
  <2>6. PendingResumes(p) = {i}
    BY <2>4, <2>5
  <2> QED BY <2>6, FS_Singleton
<1> QED BY <1>1, ResumeCorrect, PTL

-----------------------------------------------------------------------------
(* What a step does to the io_service and to the promises of the slots. *)

\* h is the continuation of some promise.
Registered(h) == \E b \in Pids : mq[b].p_.exec_ = h /\ h # NoExec

\* h is the continuation of a sender that has just found its receiver's slot full.
NewContinuation(h) ==
  \E p \in Pids : Stops(p, "future") /\ h = Continuation(p, resumes[p])

\* A step posts h.
Posted(h) == h.kind = "aborted" \/ Registered(h) \/ NewContinuation(h)

\* new is old with handlers posted after it.
Grows(new, old) ==
  \A i \in Indices(new) : (i \in Indices(old) /\ new[i] = old[i]) \/ Posted(new[i])

\* A promise keeps its continuation or drops it, or gets a new one.
Registers ==
  \A b \in Pids : \/ mq'[b].p_.exec_ \in {mq[b].p_.exec_, NoExec}
                  \/ NewContinuation(mq'[b].p_.exec_)

HandlerStep ==
  /\ Registers
  /\ \/ Grows(ready', ready)
     \/ ready # <<>> /\ at \in {"wait", "poll"} /\ Grows(ready', Tail(ready))
     \/ \E p \in Pids : TimerExpires(p)

LEMMA GrowsNot == \A s : Grows(s, s)
BY DEF Grows

LEMMA PostGrows ==
  ASSUME NEW s \in Seq(Handlers), NEW old, Grows(s, old), NEW t \in Seq(Handlers),
         \A i \in Indices(t) : Posted(t[i])
  PROVE  Grows(s \o t, old)
<1> DEFINE new == s \o t
<1>1. /\ Len(new) = Len(s) + Len(t) /\ Len(s) \in Nat /\ Len(t) \in Nat
      /\ \A i \in 1..(Len(s) + Len(t)) :
           new[i] = IF i <= Len(s) THEN s[i] ELSE t[i - Len(s)]
  BY ConcatProperties, LenProperties
<1> HIDE DEF new
<1>2. ASSUME NEW i \in Indices(new)
      PROVE  (i \in Indices(old) /\ new[i] = old[i]) \/ Posted(new[i])
  <2>1. CASE i <= Len(s)
    <3>1. i \in Indices(s) /\ new[i] = s[i]
      BY <1>1, <2>1 DEF Indices
    <3> QED BY <3>1 DEF Grows
  <2>2. CASE ~(i <= Len(s))
    <3>1. i - Len(s) \in Indices(t) /\ new[i] = t[i - Len(s)]
      BY <1>1, <2>2 DEF Indices
    <3> QED BY <3>1
  <2> QED BY <2>1, <2>2
<1> QED BY <1>2 DEF Grows, new

\* cancel() posts the aborted handler, if there is one.
LEMMA CancelPosted ==
  ASSUME NEW p \in Pids
  PROVE  /\ CancelPosts(p) \in Seq(Handlers)
         /\ \A i \in Indices(CancelPosts(p)) : Posted(CancelPosts(p)[i])
<1>1. CancelPosts(p) \in Seq(Handlers)
  BY HandlerTypes
<1>2. Indices(<<>>) = {} /\ Indices(<<AbortedHandler(p)>>) = {1}
  BY DEF Indices
<1>3. \A i \in Indices(CancelPosts(p)) : CancelPosts(p)[i] = AbortedHandler(p)
  BY <1>2 DEF CancelPosts
<1>4. AbortedHandler(p).kind = "aborted"
  BY DEF AbortedHandler
<1> QED BY <1>1, <1>3, <1>4 DEF Posted

\* setIfUnset() posts the continuation, if there is one.
LEMMA SetPosted ==
  ASSUME TypeOK, NEW b \in Pids, NEW t,
         t = <<>> \/ t = SetIfUnsetPosts(mq[b].p_)
  PROVE  t \in Seq(Handlers) /\ \A i \in Indices(t) : Posted(t[i])
<1> DEFINE e == mq[b].p_.exec_
<1>1. e \in Handlers \cup {NoExec}
  BY DEF TypeOK, Queues, Promises
<1>2. t = <<>> \/ (t = <<e>> /\ e # NoExec)
  BY DEF SetIfUnsetPosts, SetPosts
<1> HIDE DEF e
<1>3. Indices(<<>>) = {} /\ Indices(<<e>>) = {1} /\ <<e>>[1] = e
  BY DEF Indices
<1>4. CASE t = <<>>
  BY <1>3, <1>4
<1>5. CASE t = <<e>> /\ e # NoExec
  <2>1. t \in Seq(Handlers)
    BY <1>1, <1>5
  <2>2. Posted(e)
    BY <1>5 DEF Posted, Registered, e
  <2> QED BY <1>3, <1>5, <2>1, <2>2
<1> QED BY <1>2, <1>4, <1>5

\* The methods of a promise, and of its queue, keep the continuation or drop it.
LEMMA PromiseExec ==
  ASSUME NEW p \in Promises(Handlers), NEW h
  PROVE  /\ SetIfUnset(p).exec_ \in {p.exec_, NoExec}
         /\ Process(p).exec_ \in {p.exec_, NoExec}
         /\ SetContinuation(p, h).exec_ \in {h, NoExec}
BY DEF SetIfUnset, Set, Process, SetContinuation, Promises

LEMMA QueueExec ==
  ASSUME NEW q \in Queues(Messages, Handlers), NEW m \in Messages
  PROVE  /\ Push(q, m).p_ = q.p_
         /\ Pop(q).p_.exec_ \in {q.p_.exec_, NoExec}
         /\ NewQueue.p_.exec_ = NoExec
<1>1. Push(q, m).p_ = q.p_
  BY DEF Push, Queues
<1>2. Popped(q).p_ = q.p_ /\ Popped(q) \in Queues(Messages, Handlers)
  <2>1. Popped(q).p_ = q.p_
    BY DEF Popped, Queues
  <2> QED BY <2>1, QueueTypes
<1>3. Pop(q).p_ \in {q.p_, SetIfUnset(q.p_)}
  BY <1>2 DEF Pop, Queues
<1>4. q.p_ \in Promises(Handlers)
  BY DEF Queues
<1>5. SetIfUnset(q.p_).exec_ \in {q.p_.exec_, NoExec}
  BY <1>4, PromiseExec
<1> QED BY <1>1, <1>3, <1>5 DEF NewQueue, NewPromise

LEMMA OtherExec ==
  ASSUME NEW boxes \in [Pids -> Queues(Messages, Handlers)], NEW b, NEW x,
         NEW r \in Pids
  PROVE  [boxes EXCEPT ![b].p_ = x][r].p_ = IF r = b THEN x ELSE boxes[r].p_
<1>1. boxes[r] \in Queues(Messages, Handlers)
  OBVIOUS
<1>2. CASE r = b
  <2>1. [boxes EXCEPT ![b].p_ = x][r] = [boxes[r] EXCEPT !.p_ = x]
    BY <1>2
  <2>2. [boxes[r] EXCEPT !.p_ = x].p_ = x
    BY <1>1 DEF Queues
  <2> QED BY <1>2, <2>1, <2>2
<1>3. CASE r # b
  BY <1>3
<1> QED BY <1>2, <1>3

\* A step that leaves the io_service and the slots alone.
LEMMA HandlersFrame ==
  ASSUME UNCHANGED <<mq, ready>> PROVE HandlerStep
BY GrowsNot DEF HandlerStep, Registers

\* resume() cancels the timer and processes the promise the process waited on.
LEMMA ResumeHandlers ==
  ASSUME TypeOK, NEW t \in Pids,
         NEW boxes \in [Pids -> Queues(Messages, Handlers)],
         \A r \in Pids : boxes[r].p_ = mq[r].p_,
         NEW hs \in Seq(Handlers), NEW bad, BeginResume(t, boxes, hs, bad)
  PROVE  Registers /\ Grows(ready', hs)
<1>1. Grows(ready', hs)
  BY GrowsNot, CancelPosted, PostGrows DEF BeginResume
<1>2. ASSUME NEW r \in Pids
      PROVE  mq'[r].p_.exec_ \in {mq[r].p_.exec_, NoExec}
  <2>1. CASE waiting[t] = "future"
    <3>1. mq' = [boxes EXCEPT ![sending[t]].p_ = Process(boxes[sending[t]].p_)]
      BY <2>1 DEF BeginResume
    <3>2. mq'[r].p_ = IF r = sending[t] THEN Process(boxes[sending[t]].p_)
                      ELSE boxes[r].p_
      BY <3>1, OtherExec
    <3>3. mq[r].p_ \in Promises(Handlers)
      BY DEF TypeOK, Queues
    <3>4. Process(mq[r].p_).exec_ \in {mq[r].p_.exec_, NoExec}
      BY <3>3, PromiseExec
    <3>5. CASE r = sending[t]
      BY <3>2, <3>4, <3>5
    <3>6. CASE r # sending[t]
      BY <3>2, <3>6
    <3> QED BY <3>5, <3>6
  <2>2. CASE waiting[t] # "future"
    BY <2>2 DEF BeginResume
  <2> QED BY <2>1, <2>2
<1> QED BY <1>1, <1>2 DEF Registers

\* get_optional() may wake whoever waits for room.
LEMMA TakeMessageHandlers ==
  ASSUME TypeOK, NEW p \in Pids, TakeMessage(p)
  PROVE  HandlerStep
<1>1. /\ mq \in [Pids -> Queues(Messages, Handlers)]
      /\ mq[p] \in Queues(Messages, Handlers) /\ ready \in Seq(Handlers)
  BY DEF TypeOK
<1>2. \E m : m \in Messages
  <2>1. Message(p, p, 0) \in Messages
    BY DEF Message, Messages
  <2> QED BY <2>1
<1>3. Pop(mq[p]).p_.exec_ \in {mq[p].p_.exec_, NoExec}
  BY <1>1, <1>2, QueueExec
<1>4. Registers
  BY <1>1, <1>3 DEF TakeMessage, Registers
<1>5. PopPosts(mq[p]) = <<>> \/ PopPosts(mq[p]) = SetIfUnsetPosts(mq[p].p_)
  BY DEF PopPosts
<1>6. Grows(ready', ready)
  BY <1>1, <1>5, SetPosted, GrowsNot, PostGrows DEF TakeMessage
<1> QED BY <1>4, <1>6 DEF HandlerStep

LEMMA ProcessStepHandlers ==
  ASSUME ActorsInv, NEW p \in Pids, ProcessStep(p)
  PROVE  HandlerStep
<1> USE DEF ioVars, mailVars
<1>0. /\ TypeOK /\ running = p /\ mq \in [Pids -> Queues(Messages, Handlers)]
      /\ ready \in Seq(Handlers) /\ resumes \in [Pids -> Nat]
  <2>1. TypeOK
    BY DEF ActorsInv, SchedulerInv
  <2> QED BY <2>1, ProcessStepFrame DEF TypeOK
<1>1. ASSUME NEW kill, NEW notify, NEW back, Construct(kill, notify, back)
      PROVE  HandlerStep
  <2>1. /\ ready' = ready /\ mq' = [mq EXCEPT ![NextPid] = NewQueue]
    BY <1>1 DEF Construct, Constructed
  <2>2. NewQueue.p_.exec_ = NoExec
    BY DEF NewQueue, NewPromise
  <2>3. Registers
    BY <1>0, <2>1, <2>2 DEF Registers
  <2> QED BY <2>1, <2>3, GrowsNot DEF HandlerStep
<1>2. CASE Spawn(p) \/ SpawnLink(p) \/ SpawnLinkNotify(p)
  BY <1>1, <1>2 DEF Spawn, SpawnLink, SpawnLinkNotify
<1>3. ASSUME NEW b \in Pids, SpawnCtorLink(p, b) PROVE HandlerStep
  BY <1>1, <1>3 DEF SpawnCtorLink
<1>4. ASSUME NEW b \in Pids,
             \/ SpawnThrows(p, b) \/ Link(p, b) \/ QueueKill(p, b)
             \/ Send(p, b) \/ SendThrottled(p, b)
      PROVE  HandlerStep
  BY <1>4, HandlersFrame
  DEF SpawnThrows, Link, QueueKill, Send, SendThrottled
<1>5. CASE CanQueueNull(p) \/ ThrottledSend(p) \/ Finish(p)
  BY <1>5, HandlersFrame DEF CanQueueNull, ThrottledSend, Finish
<1>6. CASE WaitForRoom(p)
  <2> DEFINE b == Proc(sending[p])
             h == Continuation(p, resumes[p])
             t == SetContinuationPosts(mq[b].p_, h)
  <2>1. /\ sending[p] # NoPid /\ Found(processes, sending[p])
        /\ Park(p, "future") /\ UNCHANGED <<resumes, queue, timers>>
        /\ mq' = [mq EXCEPT ![b].p_ = SetContinuation(mq[b].p_, h)]
        /\ ready' = ready \o t
    BY <1>6 DEF WaitForRoom, InCanQueue, MustWait
  <2>2. b \in Pids
    <3>1. sending[p] \in Pids
      BY <1>0, <2>1 DEF TypeOK, PidOrNone
    <3> QED BY <1>0, <2>1, <3>1, ProcInTable
  <2>3. NewContinuation(h) /\ h \in Handlers
    <3>1. Stops(p, "future")
      BY <1>0, <2>1 DEF Stops, SleepFor
    <3> QED BY <1>0, <3>1, HandlerTypes DEF NewContinuation
  <2>4. t \in Seq(Handlers) /\ \A i \in Indices(t) : Posted(t[i])
    <3>1. t = <<>> \/ t = <<h>>
      BY DEF SetContinuationPosts
    <3> HIDE DEF t, h
    <3>2. Indices(<<>>) = {} /\ Indices(<<h>>) = {1} /\ <<h>>[1] = h
      BY DEF Indices
    <3>3. h \in Handlers
      BY <2>3
    <3>4. t \in Seq(Handlers)
      <4>1. <<>> \in Seq(Handlers) /\ <<h>> \in Seq(Handlers)
        BY <3>3
      <4> QED BY <3>1, <4>1
    <3>5. Posted(h)
      BY <2>3 DEF Posted
    <3> QED BY <3>1, <3>2, <3>4, <3>5
  <2>5. mq[b].p_ \in Promises(Handlers)
    BY <1>0, <2>2 DEF Queues
  <2> HIDE DEF b, h, t
  <2>6. SetContinuation(mq[b].p_, h).exec_ \in {h, NoExec}
    BY <2>5, PromiseExec
  <2>7. ASSUME NEW r \in Pids
        PROVE  mq'[r].p_ = IF r = b THEN SetContinuation(mq[b].p_, h) ELSE mq[r].p_
    BY <1>0, <2>1, OtherExec
  <2>8. Registers
    BY <2>3, <2>6, <2>7 DEF Registers
  <2>9. Grows(ready', ready)
    BY <1>0, <2>1, <2>4, GrowsNot, PostGrows
  <2> QED BY <2>8, <2>9 DEF HandlerStep
<1>7. CASE Receive(p)
  BY <1>0, <1>7, TakeMessageHandlers DEF Receive
<1>8. CASE AwaitResume(p)
  BY <1>0, <1>8, TakeMessageHandlers, HandlersFrame DEF AwaitResume
<1>9. ASSUME NEW w \in Waits[p.idx], Suspend(p, w) PROVE HandlerStep
  BY <1>9, HandlersFrame DEF Suspend
<1> QED BY <1>2, <1>3, <1>4, <1>5, <1>6, <1>7, <1>8, <1>9 DEF ProcessStep

LEMMA LoopStepHandlers ==
  ASSUME ActorsInv, LoopStep
  PROVE  HandlerStep
<1> USE DEF ioVars, mailVars, rest
<1>0. /\ TypeOK /\ mq \in [Pids -> Queues(Messages, Handlers)]
      /\ ready \in Seq(Handlers) /\ resumes \in [Pids -> Nat]
  BY DEF ActorsInv, SchedulerInv, TypeOK
<1>1. CASE Exit \/ RunOne \/ HandlerCrashes \/ EndPoll \/ DestroyDone \/ DestroyNext
  BY <1>1, HandlersFrame
  DEF Exit, RunOne, HandlerCrashes, EndPoll, DestroyDone, DestroyNext
<1>2. ASSUME NEW p \in Pids, KillLinked(p) PROVE HandlerStep
  BY <1>2, HandlersFrame DEF KillLinked
<1>3. ASSUME NEW p \in Pids, TimerExpires(p) PROVE HandlerStep
  <2>1. mq' = mq
    BY <1>3 DEF TimerExpires
  <2> QED BY <1>3, <2>1 DEF HandlerStep, Registers
<1>4. ASSUME NEW t \in Pids,
             NEW boxes \in [Pids -> Queues(Messages, Handlers)],
             \A r \in Pids : boxes[r].p_ = mq[r].p_,
             NEW hs \in Seq(Handlers), NEW bad,
             BeginResume(t, boxes, hs, bad) \/ NoResume(boxes, hs, bad)
      PROVE  Registers /\ Grows(ready', hs)
  <2>1. CASE BeginResume(t, boxes, hs, bad)
    BY <1>0, <1>4, <2>1, ResumeHandlers
  <2>2. CASE NoResume(boxes, hs, bad)
    BY <1>4, <2>2, GrowsNot DEF NoResume, Registers
  <2> QED BY <1>4, <2>1, <2>2
<1>5. CASE ProcessMessage
  <2> DEFINE i == Head(queue)
             t == Proc(i.pid)
             boxes == IF Accepts(i) THEN [mq EXCEPT ![t] = Push(@, i.message)] ELSE mq
  <2>1. /\ queue # <<>> /\ i.kind = "message"
        /\ \/ Accepts(i) /\ BeginResume(t, boxes, ready, {})
           \/ NoResume(boxes, ready, {})
    BY <1>5 DEF ProcessMessage
  <2>2. i \in Items /\ i.pid \in Pids /\ i.message \in Messages
    BY <1>0, <2>1, HeadItem, ItemFields
  <2>3. Accepts(i) => t \in Pids
    BY <1>0, <2>2, ProcInTable DEF Accepts
  <2> HIDE DEF i, t
  <2>4. /\ boxes \in [Pids -> Queues(Messages, Handlers)]
        /\ \A r \in Pids : boxes[r].p_ = mq[r].p_
    <3>1. CASE Accepts(i)
      <4>1. boxes = [mq EXCEPT ![t] = Push(@, i.message)] /\ t \in Pids
        BY <2>3, <3>1
      <4>2. mq[t] \in Queues(Messages, Handlers)
        BY <1>0, <4>1
      <4>3. /\ Push(mq[t], i.message).p_ = mq[t].p_
            /\ Push(mq[t], i.message) \in Queues(Messages, Handlers)
        BY <2>2, <4>2, QueueExec, QueueTypes
      <4> QED BY <1>0, <4>1, <4>3
    <3>2. CASE ~Accepts(i)
      BY <1>0, <3>2
    <3> QED BY <3>1, <3>2
  <2> HIDE DEF boxes
  <2>5. Registers /\ Grows(ready', ready)
    BY <1>0, <1>4, <2>1, <2>2, <2>3, <2>4
  <2> QED BY <2>5 DEF HandlerStep
<1>6. CASE ProcessResume
  <2> DEFINE i == Head(queue)
             t == Proc(i.pid)
  <2>1. /\ queue # <<>>
        /\ \/ Found(processes, i.pid) /\ BeginResume(t, mq, ready, {})
           \/ NoResume(mq, ready, {})
    BY <1>6 DEF ProcessResume
  <2>2. i.pid \in Pids
    BY <1>0, <2>1, HeadItem
  <2>3. Found(processes, i.pid) => t \in Pids
    BY <1>0, <2>2, ProcInTable
  <2> HIDE DEF i, t
  <2>4. Registers /\ Grows(ready', ready)
    BY <1>0, <1>4, <2>1, <2>2, <2>3
  <2> QED BY <2>4 DEF HandlerStep
<1>7. ASSUME ready # <<>>, at \in {"wait", "poll"}, NEW t \in Pids, NEW bad,
             BeginResume(t, mq, Tail(ready), bad) \/ NoResume(mq, Tail(ready), bad)
      PROVE  HandlerStep
  <2>1. Tail(ready) \in Seq(Handlers)
    BY <1>0, <1>7, HeadTailProperties
  <2>2. Registers /\ Grows(ready', Tail(ready))
    BY <1>0, <1>4, <1>7, <2>1
  <2> QED BY <1>7, <2>2 DEF HandlerStep
<1>8. CASE RunAborted \/ RunTimer \/ RunContinuation
  <2>1. /\ ready # <<>> /\ at \in {"wait", "poll"}
        /\ \E bad : \/ BeginResume(Head(ready).pid, mq, Tail(ready), bad)
                    \/ NoResume(mq, Tail(ready), bad)
    BY <1>8 DEF RunAborted, RunTimer, RunContinuation, RunsHandler
  <2>2. Head(ready).pid \in Pids
    BY <1>0, <2>1, HeadHandler
  <2> QED BY <1>7, <2>1, <2>2
<1>9. ASSUME NEW q \in Pids, RunReused(q) PROVE HandlerStep
  BY <1>7, <1>9 DEF RunReused, RunsHandler
<1>10. CASE FinishDestroy
  <2>1. dying \in Pids
    BY <1>0, <1>10 DEF FinishDestroy, TypeOK, PidOrNone
  <2>2. PICK d \in Pids : d = dying
    BY <2>1
  <2>3. /\ mq' = [mq EXCEPT ![d].p_ = SetIfUnset(mq[d].p_)]
        /\ ready' = (ready \o CancelPosts(d)) \o SetIfUnsetPosts(mq[d].p_)
    BY <1>10, <2>2 DEF FinishDestroy, DestroyPosts
  <2>4. mq[d].p_ \in Promises(Handlers)
    BY <1>0, <2>2 DEF Queues
  <2>5. SetIfUnset(mq[d].p_).exec_ \in {mq[d].p_.exec_, NoExec}
    BY <2>4, PromiseExec
  <2>6. ASSUME NEW r \in Pids
        PROVE  mq'[r].p_ = IF r = d THEN SetIfUnset(mq[d].p_) ELSE mq[r].p_
    BY <1>0, <2>3, OtherExec
  <2>7. Registers
    BY <2>5, <2>6 DEF Registers
  <2>8. /\ ready \o CancelPosts(d) \in Seq(Handlers)
        /\ Grows(ready \o CancelPosts(d), ready)
    BY <1>0, CancelPosted, GrowsNot, PostGrows, ConcatProperties
  <2>9. Grows(ready', ready)
    BY <1>0, <2>3, <2>8, SetPosted, PostGrows
  <2> QED BY <2>7, <2>9 DEF HandlerStep
<1> QED BY <1>1, <1>2, <1>3, <1>5, <1>6, <1>8, <1>9, <1>10 DEF LoopStep

LEMMA StepHandlers ==
  ASSUME ActorsInv, [Next]_vars
  PROVE  HandlerStep
<1> USE DEF vars, ioVars, mailVars, rest
<1>1. CASE MainSpawn
  <2>1. ready' = ready /\ mq' = [mq EXCEPT ![NextPid] = NewQueue]
    BY <1>1 DEF MainSpawn, Construct, Constructed
  <2>2. NewQueue.p_.exec_ = NoExec /\ DOMAIN mq = Pids
    BY DEF NewQueue, NewPromise, ActorsInv, SchedulerInv, TypeOK
  <2>3. Registers
    BY <2>1, <2>2 DEF Registers
  <2> QED BY <2>1, <2>3, GrowsNot DEF HandlerStep
<1>2. CASE Run \/ Terminated \/ UNCHANGED vars
  BY <1>2, HandlersFrame DEF Run, Terminated
<1> QED BY <1>1, <1>2, ProcessStepHandlers, LoopStepHandlers DEF Next

-----------------------------------------------------------------------------
(* Timers *)

\* The positions of the loop at which timer handlers may be ready.
Polling == {"wait", "poll", "crashed"}

\* A pending timer is that of a process which exists and sleeps.
Sleeps(p) ==
  /\ Spawned(p) /\ p \notin freed /\ running # p /\ SleepFor(waiting[p])

\* The handler of a timer that has expired is ready only until the poll() loop
\* ends, so it has run before anybody is deleted.
TimerInv ==
  /\ \A i \in Indices(ready) : ready[i].kind = "timer"
       => at \in Polling /\ dying = NoPid /\ ready[i].pid \notin freed
  /\ \A p \in timers : Sleeps(p)
  /\ \A b \in Pids : mq[b].p_.exec_ # NoExec
       => mq[b].p_.exec_.kind = "continuation"

\* The poll() loop ends when no handler is ready.
LEMMA PollingEnds ==
  ASSUME ActorsInv, [Next]_vars, at \in Polling, dying = NoPid
  PROVE  (at' \in Polling /\ dying' = NoPid) \/ ready' = <<>>
<1> USE DEF vars, loopVars, rest, Polling
<1>0. TypeOK /\ LoopInv
  BY DEF ActorsInv, SchedulerInv
<1>1. CASE MainSpawn \/ Run
  BY <1>1 DEF MainSpawn, Run
<1>2. ASSUME NEW p \in Pids, ProcessStep(p)
      PROVE  at' \in Polling /\ dying' = NoPid
  BY <1>0, <1>2, ProcessStepFrame
<1>3. CASE LoopStep
  <2>1. CASE Exit \/ ProcessMessage \/ ProcessResume \/ RunOne \/ DestroyDone
             \/ DestroyNext
    BY <2>1 DEF Exit, ProcessMessage, ProcessResume, RunOne, DestroyDone, DestroyNext
  <2>2. ASSUME NEW p \in Pids, TimerExpires(p) \/ RunReused(p)
        PROVE  at' \in Polling /\ dying' = NoPid
    BY <2>2 DEF TimerExpires, RunReused, RunsHandler
  <2>3. CASE RunAborted \/ RunTimer \/ RunContinuation \/ HandlerCrashes
    BY <2>3 DEF RunAborted, RunTimer, RunContinuation, RunsHandler, HandlerCrashes
  <2>4. CASE EndPoll
    BY <2>4 DEF EndPoll, Polled
  <2>5. ASSUME NEW q \in Pids, KillLinked(q) PROVE FALSE
    BY <2>5 DEF KillLinked
  <2>6. CASE FinishDestroy
    BY <2>6 DEF FinishDestroy
  <2> QED BY <1>3, <2>1, <2>2, <2>3, <2>4, <2>5, <2>6 DEF LoopStep
<1>4. CASE Terminated \/ UNCHANGED vars
  BY <1>4 DEF Terminated
<1> QED BY <1>1, <1>2, <1>3, <1>4 DEF Next

\* A process is only deleted in the destroy loop, with its timer cancelled.
LEMMA FreedSteps ==
  ASSUME ActorsInv, [Next]_vars
  PROVE  \/ freed' = freed
         \/ /\ dying \in Pids /\ freed' = freed \cup {dying}
            /\ timers' = timers \ {dying}
<1>0. TypeOK /\ LoopInv
  BY DEF ActorsInv, SchedulerInv
<1>1. CASE FinishDestroy
  BY <1>0, <1>1 DEF FinishDestroy, TypeOK, PidOrNone
<1>2. ASSUME NEW q \in Pids, KillLinked(q) PROVE freed' = freed
  BY <1>2 DEF KillLinked, memVars
<1>3. CASE DestroyNext
  BY <1>3 DEF DestroyNext, memVars
<1> QED BY <1>0, <1>1, <1>2, <1>3, DestroySteps

\* A pending timer is that of a sleeping process: resume() cancels it, and so does
\* the end of the process.
LEMMA SleepersStay ==
  ASSUME ActorsInv, [Next]_vars, \A p \in timers : Sleeps(p)
  PROVE  (\A p \in timers : Sleeps(p))'
<1> SUFFICES ASSUME NEW p \in timers'
             PROVE  /\ NowSpawned(p) /\ p \notin freed' /\ running' # p
                    /\ SleepFor(waiting'[p])
  BY DEF Sleeps, NowSpawned, Spawned, SleepFor
<1>0. /\ p \in Pids /\ p # NoPid /\ timers \in SUBSET Pids /\ DOMAIN waiting = Pids
  <2>1. TypeOK /\ TypeOK'
    BY TypeStep DEF ActorsInv, SchedulerInv
  <2> QED BY <2>1, PidFields DEF TypeOK
<1>1. ASSUME Spawned(p), p \notin freed PROVE NowSpawned(p) /\ p \notin freed'
  <2>1. NowSpawned(p)
    BY <1>0, <1>1, SpawnedStays DEF ActorsInv, Spawned, NowSpawned
  <2> QED BY <1>1, <2>1, FreedSteps
<1>2. CASE Keeps \/ Drops
  BY <1>1, <1>2 DEF Keeps, Drops, Sleeps
<1>3. CASE Creates
  <2>1. PICK n \in Pids : /\ ~Spawned(n) /\ running' = running /\ timers' = timers
                          /\ waiting' = [waiting EXCEPT ![n] = "start"]
    BY <1>3, CreatesRunnable
  <2> QED BY <1>0, <1>1, <2>1 DEF Sleeps
<1>4. ASSUME NEW q \in Pids, RunsOn(q)
      PROVE  /\ NowSpawned(p) /\ p \notin freed' /\ running' # p
             /\ SleepFor(waiting'[p])
  BY <1>0, <1>1, <1>4 DEF RunsOn, Sleeps
<1>5. ASSUME NEW q \in Pids, Starts(q)
      PROVE  /\ NowSpawned(p) /\ p \notin freed' /\ running' # p
             /\ SleepFor(waiting'[p])
  BY <1>0, <1>1, <1>5 DEF Starts, Sleeps
<1>6. ASSUME NEW q \in Pids, NEW w, Stops(q, w)
      PROVE  /\ NowSpawned(p) /\ p \notin freed' /\ running' # p
             /\ SleepFor(waiting'[p])
  <2>1. CASE p = q
    <3>1. running = p /\ running' = NoPid /\ waiting' = [waiting EXCEPT ![p] = w]
          /\ p \notin timers
      BY <1>6, <2>1 DEF Stops, Park, Sleeps
    <3>2. SleepFor(w)
      BY <1>6, <2>1, <3>1 DEF Stops
    <3>3. Spawned(p) /\ p \notin freed
      BY <1>0, <3>1
      DEF ActorsInv, SchedulerInv, LoopInv, Exists, Spawned, Known, Table,
          TableInv, Owned
    <3> QED BY <1>0, <1>1, <3>1, <3>2, <3>3
  <2>2. CASE p # q
    <3>1. p \in timers /\ running' # p /\ waiting'[p] = waiting[p]
      BY <1>0, <1>6, <2>2 DEF Stops, Park
    <3> QED BY <1>1, <3>1 DEF Sleeps
  <2> QED BY <2>1, <2>2
<1> QED BY <1>2, <1>3, <1>4, <1>5, <1>6, StepWakes DEF QueueStep

\* What a step posts is no timer's handler.
LEMMA PostedNoTimer ==
  ASSUME TimerInv, NEW h, Posted(h)
  PROVE  h.kind # "timer"
<1>1. NewContinuation(h) => h.kind = "continuation"
  BY DEF NewContinuation, Continuation
<1> QED BY <1>1 DEF Posted, Registered, TimerInv

LEMMA TimerNext ==
  ASSUME ActorsInv, TimerInv, [Next]_vars
  PROVE  TimerInv'
<1>0. ready \in Seq(Handlers) /\ HandlerStep
  BY StepHandlers DEF ActorsInv, SchedulerInv, TypeOK
<1>1. (\A p \in timers : Sleeps(p))'
  BY SleepersStay DEF TimerInv
<1>2. ASSUME NEW h, NewContinuation(h) PROVE h.kind = "continuation"
  BY <1>2 DEF NewContinuation, Continuation
<1>3. \A b \in Pids : mq'[b].p_.exec_ # NoExec
        => mq'[b].p_.exec_.kind = "continuation"
  BY <1>0, <1>2 DEF HandlerStep, Registers, TimerInv
<1>4. ASSUME NEW h, Posted(h) PROVE h.kind # "timer"
  BY <1>4, PostedNoTimer
<1>5. ASSUME NEW i \in Indices(ready'), ready'[i].kind = "timer"
      PROVE  at' \in Polling /\ dying' = NoPid /\ ready'[i].pid \notin freed'
  <2>1. ASSUME NEW j \in Indices(ready), ready'[i] = ready[j]
        PROVE  at' \in Polling /\ dying' = NoPid /\ ready'[i].pid \notin freed'
    <3>1. at \in Polling /\ dying = NoPid /\ ready'[i].pid \notin freed
      BY <1>5, <2>1 DEF TimerInv
    <3>2. ready' # <<>>
      BY DEF Indices
    <3>3. freed' = freed
      BY <3>1, FreedSteps, PidFields
    <3> QED BY <3>1, <3>2, <3>3, PollingEnds
  <2>2. CASE Grows(ready', ready)
    BY <1>4, <1>5, <2>1, <2>2 DEF Grows
  <2>3. CASE ready # <<>> /\ Grows(ready', Tail(ready))
    <3>1. \A j \in Indices(Tail(ready)) :
            j + 1 \in Indices(ready) /\ Tail(ready)[j] = ready[j + 1]
      BY <1>0, <2>3, TailIndices
    <3> QED BY <1>4, <1>5, <2>1, <2>3, <3>1 DEF Grows
  <2>4. ASSUME NEW p \in Pids, TimerExpires(p)
        PROVE  at' \in Polling /\ dying' = NoPid /\ ready'[i].pid \notin freed'
    <3>1. /\ at \in {"wait", "poll"} /\ at' = at /\ freed' = freed /\ p \in timers
          /\ dying' = NoPid /\ ready' = Append(ready, TimerHandler(p))
      BY <2>4 DEF TimerExpires, loopVars, memVars, ActorsInv, SchedulerInv, LoopInv
    <3>2. Appended(ready', ready, TimerHandler(p))
      BY <1>0, <3>1, HandlerTypes, AppendIndices
    <3>3. CASE i \in Indices(ready)
      BY <2>1, <3>2, <3>3 DEF Appended
    <3>4. CASE ready'[i] = TimerHandler(p)
      <4>1. ready'[i].pid = p
        BY <3>4 DEF TimerHandler
      <4>2. p \notin freed
        BY <3>1 DEF TimerInv, Sleeps
      <4> QED BY <3>1, <4>1, <4>2 DEF Polling
    <3> QED BY <3>2, <3>3, <3>4 DEF Appended
  <2> QED BY <1>0, <2>2, <2>3, <2>4 DEF HandlerStep
<1> QED BY <1>1, <1>3, <1>5 DEF TimerInv, Polling

LEMMA TimerCorrect == Spec => [](ActorsInv /\ TimerInv)
<1>1. Init => TimerInv
  <2> SUFFICES ASSUME Init PROVE TimerInv
    OBVIOUS
  <2>1. Indices(ready) = {} /\ timers = {} /\ \A b \in Pids : mq[b] = NewQueue
    BY DEF Init, Indices
  <2>2. NewQueue.p_.exec_ = NoExec
    BY DEF NewQueue, NewPromise
  <2> QED BY <2>1, <2>2 DEF TimerInv
<1> QED BY <1>1, ActorsInit, ActorsNext, TimerNext, PTL DEF Spec

\* The timer of a process is pending only while the process is in the sleep or the
\* timed receive that armed it: resume() cancels it whatever the reason.
THEOREM TimersBelongToWaits == Spec => []TimerBelongsToWait
<1>1. TimerInv => TimerBelongsToWait
  BY DEF TimerInv, Sleeps, TimerBelongsToWait
<1> QED BY <1>1, TimerCorrect, PTL

\* The handler of an expired timer never sees a deleted RunningProcess: what the
\* comment on the poll() loop of run() relies on.
THEOREM TimersOutlived == Spec => []TimerHandlersAlive
<1>1. TimerInv => TimerHandlersAlive
  BY DEF TimerInv, TimerHandlersAlive
<1> QED BY <1>1, TimerCorrect, PTL

-----------------------------------------------------------------------------
(* Continuations *)

Held(h) == Registered(h) \/ InReady(h)

\* A continuation wakes a sender that still waits for room, or nobody.
ContinuationInv ==
  \A h \in Handlers : Held(h) /\ h.kind = "continuation"
                        => Token(h.pid, h.resumes, {"future"})

\* Handlers do not come from nowhere.
LEMMA HeldSteps ==
  ASSUME ActorsInv, [Next]_vars, NEW h \in Handlers, Held(h)'
  PROVE  Held(h) \/ NewContinuation(h) \/ h.kind # "continuation"
<1>0. ready \in Seq(Handlers) /\ HandlerStep
  BY StepHandlers DEF ActorsInv, SchedulerInv, TypeOK
<1>1. CASE Registered(h)'
  <2>1. PICK b \in Pids : mq'[b].p_.exec_ = h /\ h # NoExec
    BY <1>1 DEF Registered
  <2> QED BY <1>0, <2>1 DEF HandlerStep, Registers, Held, Registered
<1>2. CASE InReady(h)'
  <2>1. PICK i \in Indices(ready') : ready'[i] = h
    BY <1>2 DEF InReady
  <2>2. ASSUME Posted(h) PROVE Held(h) \/ NewContinuation(h) \/ h.kind # "continuation"
    BY <2>2 DEF Posted, Held
  <2>3. CASE Grows(ready', ready)
    BY <2>1, <2>2, <2>3 DEF Grows, Held, InReady
  <2>4. CASE ready # <<>> /\ Grows(ready', Tail(ready))
    <3>1. \A j \in Indices(Tail(ready)) :
            j + 1 \in Indices(ready) /\ Tail(ready)[j] = ready[j + 1]
      BY <1>0, <2>4, TailIndices
    <3> QED BY <2>1, <2>2, <2>4, <3>1 DEF Grows, Held, InReady
  <2>5. ASSUME NEW p \in Pids, TimerExpires(p)
        PROVE  Held(h) \/ h.kind # "continuation"
    <3>1. Appended(ready', ready, TimerHandler(p))
      BY <1>0, <2>5, HandlerTypes, AppendIndices DEF TimerExpires
    <3>2. TimerHandler(p).kind # "continuation"
      BY DEF TimerHandler
    <3> QED BY <2>1, <3>1, <3>2 DEF Appended, Held, InReady
  <2> QED BY <1>0, <2>3, <2>4, <2>5 DEF HandlerStep
<1> QED BY <1>1, <1>2 DEF Held

LEMMA ContinuationNext ==
  ASSUME ActorsInv, ContinuationInv, [Next]_vars
  PROVE  ContinuationInv'
<1> SUFFICES ASSUME NEW h \in Handlers, Held(h)', h.kind = "continuation"
             PROVE  NowToken(h.pid, h.resumes, {"future"})
  BY DEF ContinuationInv, Token, NowToken, Spawned, NowSpawned
<1>1. PICK p \in Pids, k \in Nat : h.pid = p /\ h.resumes = k
  BY DEF Handlers
<1>2. CASE Held(h)
  <2>1. Token(p, k, {"future"})
    BY <1>1, <1>2 DEF ContinuationInv
  <2> QED BY <1>1, <2>1, TokenStays
<1>3. CASE NewContinuation(h)
  <2>1. PICK q \in Pids : Stops(q, "future") /\ h = Continuation(q, resumes[q])
    BY <1>3 DEF NewContinuation
  <2>2. q = p /\ resumes[q] = k
    BY <1>1, <2>1 DEF Continuation
  <2>3. /\ resumes \in [Pids -> Nat] /\ DOMAIN waiting = Pids /\ q # NoPid
    BY PidFields DEF ActorsInv, SchedulerInv, TypeOK
  <2>4. /\ running = q /\ running' # q /\ resumes'[q] = resumes[q]
        /\ waiting'[q] = "future" /\ resumes[q] <= resumes[q]
    BY <2>1, <2>3 DEF Stops, Park
  <2>5. Spawned(q)
    BY <2>3, <2>4 DEF ActorsInv, SchedulerInv, LoopInv, Exists, Spawned, Known
  <2>6. NowSpawned(q)
    BY <2>5, SpawnedStays DEF ActorsInv, Spawned, NowSpawned
  <2> QED BY <1>1, <2>2, <2>4, <2>6 DEF NowToken
<1> QED BY <1>2, <1>3, HeldSteps

-----------------------------------------------------------------------------
(* recv() *)

\* Why the loop resumes t.
ByMessage(t) ==
  /\ at = "top" /\ Head(queue).kind = "message" /\ WaitingFor(t)
  /\ Size(mq'[t]) > 0
ByResume(t) ==
  /\ at = "top" /\ queue # <<>> /\ Head(queue).kind = "resume"
  /\ Head(queue).pid = t /\ Head(queue).resume = resumes[t]
ByHandler(t) ==
  /\ ready # <<>> /\ Grows(ready', Tail(ready))
  /\ Head(ready).pid = t
  /\ \/ Head(ready).kind = "timer"
     \/ Head(ready).kind = "continuation" /\ Head(ready).resumes = resumes[t]

\* A slot with messages has a size.
LEMMA ContentsSize ==
  ASSUME NEW q \in Queues(Messages, Handlers), WellFormed(q), Contents(q) # <<>>
  PROVE  Size(q) > 0
<1>1. q.others \in Seq(Messages) /\ Len(q.others) \in Nat
  BY LenProperties DEF Queues
<1>2. q.stackStorage # <<>>
  BY DEF WellFormed, Contents
<1> QED BY <1>1, <1>2 DEF Size

LEMMA WakeReasons ==
  ASSUME ActorsInv, [Next]_vars, NEW t \in Pids, running # t, running' = t
  PROVE  ByMessage(t) \/ ByResume(t) \/ ByHandler(t) \/ ub' # {}
<1> DEFINE Goal == ByMessage(t) \/ ByResume(t) \/ ByHandler(t) \/ ub' # {}
<1> USE DEF vars, loopVars, rest
<1>0. /\ TypeOK /\ TypeOK' /\ SchedulerInv /\ LoopInv /\ MailInv /\ t # NoPid
      /\ ready \in Seq(Handlers) /\ mq \in [Pids -> Queues(Messages, Handlers)]
      /\ processes \in Seq(PidOrNone)
  BY TypeStep, PidFields DEF ActorsInv, SchedulerInv, TypeOK
<1>1. CASE MainSpawn \/ Run \/ Terminated \/ UNCHANGED vars
  BY <1>1 DEF MainSpawn, Construct, Constructed, Run, Terminated
<1>2. ASSUME NEW p \in Pids, ProcessStep(p) PROVE Goal
  BY <1>0, <1>2, ProcessStepFrame
<1>3. CASE Exit \/ RunOne \/ HandlerCrashes \/ EndPoll \/ DestroyDone \/ DestroyNext
           \/ RunAborted \/ FinishDestroy
  BY <1>3 DEF Exit, RunOne, HandlerCrashes, EndPoll, DestroyDone, DestroyNext,
    RunAborted, NoResume, FinishDestroy
<1>4. ASSUME NEW p \in Pids, TimerExpires(p) \/ KillLinked(p) PROVE Goal
  BY <1>4 DEF TimerExpires, KillLinked
<1>5. CASE ProcessMessage
  <2>1. /\ at = "top" /\ queue # <<>> /\ Head(queue).kind = "message"
        /\ Found(processes, Head(queue).pid) /\ t = Proc(Head(queue).pid)
        /\ WaitingFor(t)
    BY <1>5 DEF ProcessMessage, Accepts, BeginResume, NoResume
  <2>2. Head(queue).pid \in Pids
    BY <1>0, <2>1, HeadItem
  <2>3. Head(queue).pid = t /\ InTable(processes, t)
    BY <1>0, <2>1, <2>2, FoundIsSelf DEF SchedulerInv, Table, TableInv, Owned, Proc
  <2>4. Moved
    BY <1>0, <1>5, <2>3, MessageMoves DEF Dropped
  <2>5. /\ Contents(mq'[t]) = Append(Contents(mq[t]), Head(queue).message)
        /\ WellFormed(mq'[t])
    BY <2>3, <2>4 DEF Moved
  <2>6. Head(queue).message \in Messages /\ Contents(mq[t]) \in Seq(Messages)
    BY <1>0, <2>1, HeadItem, ItemFields, ContentsType
  <2>7. Contents(mq'[t]) # <<>>
    BY <2>5, <2>6, AppendProperties
  <2>8. mq'[t] \in Queues(Messages, Handlers)
    BY <1>0 DEF TypeOK
  <2> QED BY <2>1, <2>5, <2>7, <2>8, ContentsSize DEF ByMessage
<1>6. CASE ProcessResume
  <2>1. /\ at = "top" /\ queue # <<>> /\ Head(queue).kind = "resume"
        /\ Found(processes, Head(queue).pid) /\ t = Proc(Head(queue).pid)
        /\ resumes[t] = Head(queue).resume
    BY <1>6 DEF ProcessResume, BeginResume, NoResume
  <2>2. Head(queue).pid \in Pids
    BY <1>0, <2>1, HeadItem
  <2>3. Head(queue).pid = t
    BY <1>0, <2>1, <2>2, FoundIsSelf DEF SchedulerInv, Table, TableInv, Owned, Proc
  <2> QED BY <2>1, <2>3 DEF ByResume
<1>7. CASE RunTimer \/ RunContinuation
  <2>1. /\ ready # <<>> /\ t = Head(ready).pid
        /\ BeginResume(t, mq, Tail(ready), {})
        /\ \/ Head(ready).kind = "timer"
           \/ Head(ready).kind = "continuation" /\ Head(ready).resumes = resumes[t]
    BY <1>7 DEF RunTimer, RunContinuation, RunsHandler, Continues, BeginResume,
      NoResume
  <2>2. Grows(ready', Tail(ready))
    <3>1. Tail(ready) \in Seq(Handlers)
      BY <1>0, <2>1, HeadTailProperties
    <3> QED BY <1>0, <2>1, <3>1, ResumeHandlers
  <2> QED BY <2>1, <2>2 DEF ByHandler
<1>8. ASSUME NEW q \in Pids, RunReused(q) PROVE Goal
  <2>1. "freedProcess" \in ub'
    BY <1>8 DEF RunReused, BeginResume, ReadsFreed
  <2> QED BY <2>1
<1> QED BY <1>1, <1>2, <1>3, <1>4, <1>5, <1>6, <1>7, <1>8 DEF Next, LoopStep

\* t sleeps, and its timer has expired.
Rings(t) == t \notin timers /\ Sleeps(t)

\* As long as the program is defined: an expired timer has one handler and its
\* process still sleeps, and a receiver has something to receive.
ReceiveInv ==
  ub = {} =>
    /\ \A i \in Indices(ready) : ready[i].kind = "timer" => Rings(ready[i].pid)
    /\ \A i, j \in Indices(ready) :
         ready[i].kind = "timer" /\ ready[j].kind = "timer"
         /\ ready[i].pid = ready[j].pid => i = j
    /\ RecvResumesWithMessage

WakeInv == ResumeInv /\ TimerInv /\ ContinuationInv /\ ReceiveInv

\* Undefined behaviour is not forgotten.
LEMMA UndefinedStays ==
  ASSUME ActorsInv, [Next]_vars
  PROVE  ub \subseteq ub'
<1> USE DEF vars, memVars, rest
<1>1. CASE MainSpawn \/ Run \/ Terminated \/ UNCHANGED vars
  BY <1>1 DEF MainSpawn, Construct, Run, Terminated
<1>2. ASSUME NEW p \in Pids, ProcessStep(p) PROVE ub \subseteq ub'
  <2>1. CASE Spawn(p) \/ SpawnLink(p) \/ SpawnLinkNotify(p)
    BY <2>1 DEF Spawn, SpawnLink, SpawnLinkNotify, Construct
  <2>2. ASSUME NEW b \in Pids,
               \/ SpawnCtorLink(p, b) \/ SpawnThrows(p, b) \/ Link(p, b)
               \/ QueueKill(p, b) \/ Send(p, b) \/ SendThrottled(p, b)
        PROVE  ub \subseteq ub'
    BY <2>2 DEF SpawnCtorLink, Construct, SpawnThrows, Link, QueueKill, Send,
      SendThrottled
  <2>3. CASE \/ CanQueueNull(p) \/ WaitForRoom(p) \/ ThrottledSend(p)
             \/ Receive(p) \/ AwaitResume(p) \/ Finish(p)
    BY <2>3 DEF CanQueueNull, WaitForRoom, ThrottledSend, Receive, AwaitResume,
      Finish
  <2>4. ASSUME NEW w \in Waits[p.idx], Suspend(p, w) PROVE ub \subseteq ub'
    BY <2>4 DEF Suspend
  <2> QED BY <1>2, <2>1, <2>2, <2>3, <2>4 DEF ProcessStep
<1>3. CASE LoopStep
  <2>1. CASE \/ Exit \/ RunOne \/ HandlerCrashes \/ EndPoll \/ DestroyDone
             \/ DestroyNext \/ FinishDestroy
    BY <2>1 DEF Exit, RunOne, HandlerCrashes, EndPoll, DestroyDone, DestroyNext,
      FinishDestroy
  <2>2. CASE ProcessMessage \/ ProcessResume
    BY <2>2 DEF ProcessMessage, ProcessResume, BeginResume, NoResume
  <2>3. CASE RunAborted \/ RunTimer \/ RunContinuation
    BY <2>3 DEF RunAborted, RunTimer, RunContinuation, BeginResume, NoResume
  <2>4. ASSUME NEW q \in Pids, TimerExpires(q) \/ RunReused(q) \/ KillLinked(q)
        PROVE  ub \subseteq ub'
    BY <2>4 DEF TimerExpires, RunReused, KillLinked, BeginResume
  <2> QED BY <1>3, <2>1, <2>2, <2>3, <2>4 DEF LoopStep
<1> QED BY <1>1, <1>2, <1>3 DEF Next

\* A sleeper sleeps on until it is resumed, killed or not; its timer stays as it is
\* or goes.
LEMMA SleepStays ==
  ASSUME ActorsInv, [Next]_vars, NEW p \in Pids, Sleeps(p), p \notin freed',
         running' # p
  PROVE  Sleeps(p)' /\ (p \in timers' => p \in timers)
<1>0. p # NoPid /\ DOMAIN waiting = Pids
  BY PidFields DEF ActorsInv, SchedulerInv, TypeOK
<1>1. NowSpawned(p)
  BY SpawnedStays DEF ActorsInv, Sleeps, Spawned, NowSpawned
<1>2. ASSUME waiting'[p] = waiting[p], p \in timers' => p \in timers
      PROVE  Sleeps(p)' /\ (p \in timers' => p \in timers)
  BY <1>1, <1>2 DEF Sleeps, Spawned, NowSpawned, SleepFor
<1>3. CASE Keeps \/ Drops
  BY <1>2, <1>3 DEF Keeps, Drops
<1>4. CASE Creates
  <2>1. PICK n \in Pids : /\ ~Spawned(n) /\ timers' = timers
                          /\ waiting' = [waiting EXCEPT ![n] = "start"]
    BY <1>4, CreatesRunnable
  <2> QED BY <1>0, <1>2, <2>1 DEF Sleeps
<1>5. ASSUME NEW q \in Pids, NEW w, RunsOn(q) \/ Stops(q, w) \/ Starts(q)
      PROVE  waiting'[p] = waiting[p] /\ (p \in timers' => p \in timers)
  <2>1. p # q
    BY <1>5 DEF RunsOn, Stops, Starts, Sleeps
  <2> QED BY <1>0, <1>5, <2>1 DEF RunsOn, Stops, Park, Starts
<1> QED BY <1>2, <1>3, <1>4, <1>5, StepWakes DEF QueueStep

\* A process is not resumed while the handler of its timer stays in the io_service.
LEMMA RingingIsResumedByTimer ==
  ASSUME ActorsInv, WakeInv, ub = {}, ub' = {}, [Next]_vars,
         NEW i \in Indices(ready'), ready'[i].kind = "timer",
         \E j \in Indices(ready) : ready[j] = ready'[i]
  PROVE  running' # ready'[i].pid
<1>0. ready \in Seq(Handlers) /\ queue \in Seq(Items)
  BY DEF ActorsInv, SchedulerInv, TypeOK
<1>1. PICK j \in Indices(ready) : ready[j] = ready'[i]
  OBVIOUS
<1>2. ready[j] \in Handlers
  BY <1>0, ElementOfSeq DEF Indices
<1>3. PICK t \in Pids : t = ready[j].pid
  BY <1>2 DEF Handlers
<1>4. Rings(t)
  BY <1>1, <1>3 DEF WakeInv, ReceiveInv
<1>5. at \in Polling
  BY <1>1 DEF WakeInv, TimerInv
<1> SUFFICES ASSUME running' = t PROVE FALSE
  BY <1>1, <1>3
<1>6. running # t /\ SleepFor(waiting[t])
  BY <1>4 DEF Rings, Sleeps
<1>7. ByHandler(t)
  <2>1. ByMessage(t) \/ ByResume(t) \/ ByHandler(t)
    BY <1>6, WakeReasons
  <2> QED BY <1>5, <2>1 DEF ByMessage, ByResume, Polling
<1>8. ready # <<>> /\ Head(ready) \in Handlers /\ Grows(ready', Tail(ready))
  BY <1>7, HeadHandler DEF ByHandler, ActorsInv, SchedulerInv
<1>9. /\ 1 \in Indices(ready) /\ Head(ready) = ready[1]
      /\ \A k \in Indices(Tail(ready)) :
           k \in Nat /\ 1 < k + 1 /\ k + 1 \in Indices(ready)
           /\ Tail(ready)[k] = ready[k + 1]
  BY <1>0, <1>8, TailIndices
<1>10. CASE Head(ready).kind = "timer"
  <2>1. ~Posted(ready'[i])
    BY PostedNoTimer DEF WakeInv
  <2>2. i \in Indices(Tail(ready)) /\ ready'[i] = Tail(ready)[i]
    BY <1>8, <2>1 DEF Grows
  <2>3. i \in Nat /\ 1 < i + 1 /\ i + 1 \in Indices(ready) /\ ready[i + 1] = ready'[i]
    BY <1>9, <2>2
  <2>4. ready[1].pid = t /\ ready[i + 1].pid = t
    BY <1>1, <1>3, <1>7, <1>9, <2>3 DEF ByHandler
  <2>5. 1 = i + 1
    BY <1>9, <1>10, <2>3, <2>4 DEF WakeInv, ReceiveInv
  <2> QED BY <2>3, <2>5
<1>11. CASE Head(ready).kind = "continuation" /\ Head(ready).resumes = resumes[t]
  <2>1. Held(Head(ready))
    BY <1>9 DEF Held, InReady
  <2>2. Token(t, resumes[t], {"future"})
    BY <1>7, <1>8, <1>11, <2>1 DEF WakeInv, ContinuationInv, ByHandler
  <2> QED BY <1>6, <2>2 DEF Token, SleepFor
<1> QED BY <1>7, <1>10, <1>11 DEF ByHandler

\* The handlers of expired timers.
LEMMA RingingStays ==
  ASSUME ActorsInv, WakeInv, ub = {}, ub' = {}, [Next]_vars
  PROVE  /\ \A i \in Indices(ready') : ready'[i].kind = "timer" =>
              /\ ready'[i].pid \notin timers' /\ NowSpawned(ready'[i].pid)
              /\ ready'[i].pid \notin freed' /\ running' # ready'[i].pid
              /\ SleepFor(waiting'[ready'[i].pid])
         /\ \A i, j \in Indices(ready') :
              ready'[i].kind = "timer" /\ ready'[j].kind = "timer"
              /\ ready'[i].pid = ready'[j].pid => i = j
<1> DEFINE RingsOn(t) == /\ t \notin timers' /\ NowSpawned(t) /\ t \notin freed'
                         /\ running' # t /\ SleepFor(waiting'[t])
           Once == \A i, j \in Indices(ready') :
                     ready'[i].kind = "timer" /\ ready'[j].kind = "timer"
                     /\ ready'[i].pid = ready'[j].pid => i = j
           Goal == /\ \A i \in Indices(ready') :
                        ready'[i].kind = "timer" => RingsOn(ready'[i].pid)
                   /\ Once
<1>0. ready \in Seq(Handlers) /\ HandlerStep /\ timers \in SUBSET Pids
  BY StepHandlers DEF ActorsInv, SchedulerInv, TypeOK
<1>1. \A h : Posted(h) => h.kind # "timer"
  BY PostedNoTimer DEF WakeInv
<1>2. ASSUME NEW t \in Pids, Sleeps(t), t \notin freed', running' # t,
             t \in timers => t \notin timers'
      PROVE  RingsOn(t)
  <2>1. Sleeps(t)' /\ (t \in timers' => t \in timers)
    BY <1>2, SleepStays
  <2> QED BY <1>2, <2>1 DEF Sleeps, Spawned, NowSpawned, SleepFor
<1>3. ASSUME NEW i \in Indices(ready'), ready'[i].kind = "timer",
             NEW j \in Indices(ready), ready[j] = ready'[i]
      PROVE  RingsOn(ready'[i].pid)
  <2>1. ready[j] \in Handlers
    BY <1>0, ElementOfSeq DEF Indices
  <2>2. PICK t \in Pids : t = ready'[i].pid
    BY <1>3, <2>1 DEF Handlers
  <2>3. Rings(t)
    BY <1>3, <2>2 DEF WakeInv, ReceiveInv
  <2>4. running' # t
    BY <1>3, <2>2, RingingIsResumedByTimer
  <2>5. t \notin freed'
    BY <1>3, <2>2, TimerNext DEF WakeInv, TimerInv
  <2>6. RingsOn(t)
    BY <1>2, <2>3, <2>4, <2>5 DEF Rings
  <2> QED BY <2>2, <2>6
<1> HIDE DEF RingsOn
<1>4. ASSUME Grows(ready', ready) PROVE Goal
  <2>1. \A i \in Indices(ready') : ready'[i].kind = "timer"
          => i \in Indices(ready) /\ ready'[i] = ready[i]
    BY <1>1, <1>4 DEF Grows
  <2>2. \A i \in Indices(ready') : ready'[i].kind = "timer" => RingsOn(ready'[i].pid)
    BY <1>3, <2>1
  <2>3. Once
    BY <2>1 DEF WakeInv, ReceiveInv
  <2> QED BY <2>2, <2>3
<1>5. ASSUME ready # <<>>, Grows(ready', Tail(ready)) PROVE Goal
  <2>1. \A k \in Indices(Tail(ready)) :
          k \in Nat /\ k + 1 \in Indices(ready) /\ Tail(ready)[k] = ready[k + 1]
    BY <1>0, <1>5, TailIndices
  <2>2. \A i \in Indices(ready') : ready'[i].kind = "timer"
          => i \in Nat /\ i + 1 \in Indices(ready) /\ ready'[i] = ready[i + 1]
    BY <1>1, <1>5, <2>1 DEF Grows
  <2>3. \A i \in Indices(ready') : ready'[i].kind = "timer" => RingsOn(ready'[i].pid)
    BY <1>3, <2>2
  <2>4. \A i, j \in Nat : i + 1 = j + 1 => i = j
    OBVIOUS
  <2>5. Once
    BY <2>2, <2>4 DEF WakeInv, ReceiveInv
  <2> QED BY <2>3, <2>5
<1>6. ASSUME NEW p \in Pids, TimerExpires(p) PROVE Goal
  <2>1. /\ p \in timers /\ timers' = timers \ {p} /\ freed' = freed
        /\ running' = running /\ ready' = Append(ready, TimerHandler(p))
    BY <1>6 DEF TimerExpires, loopVars, memVars
  <2>2. Appended(ready', ready, TimerHandler(p))
    BY <1>0, <2>1, HandlerTypes, AppendIndices
  <2>3. TimerHandler(p).pid = p
    BY DEF TimerHandler
  <2>4. Sleeps(p)
    BY <2>1 DEF WakeInv, TimerInv
  <2>5. RingsOn(p)
    BY <1>2, <2>1, <2>4 DEF Sleeps
  <2>6. \A i \in Indices(ready) : ready[i].kind = "timer" => ready[i].pid # p
    BY <2>1 DEF WakeInv, ReceiveInv, Rings
  <2>7. \A i \in Indices(ready') : ready'[i].kind = "timer" => RingsOn(ready'[i].pid)
    BY <1>3, <2>2, <2>3, <2>5 DEF Appended
  <2>8. Once
    BY <2>2, <2>3, <2>6 DEF WakeInv, ReceiveInv, Appended
  <2> QED BY <2>7, <2>8
<1>7. Goal
  BY <1>0, <1>4, <1>5, <1>6 DEF HandlerStep
<1> QED BY <1>7 DEF RingsOn

\* While a process runs, the steps are its own.
LEMMA RunningSteps ==
  ASSUME ActorsInv, [Next]_vars, NEW p \in Pids, running = p
  PROVE  ProcessStep(p) \/ UNCHANGED vars
<1> USE DEF vars, loopVars, rest
<1>0. TypeOK /\ at \in {"destroy", "poll"} /\ dying = NoPid /\ p # NoPid
  BY PidFields DEF ActorsInv, SchedulerInv, LoopInv
<1>1. ~(MainSpawn \/ Run \/ Terminated)
  BY <1>0 DEF MainSpawn, Run, Terminated
<1>2. ~(Exit \/ ProcessMessage \/ ProcessResume \/ RunOne)
  BY <1>0 DEF Exit, ProcessMessage, ProcessResume, RunOne
<1>3. ~(RunAborted \/ RunTimer \/ RunContinuation \/ HandlerCrashes \/ EndPoll)
  BY <1>0 DEF RunAborted, RunTimer, RunContinuation, HandlerCrashes, EndPoll,
    RunsHandler
<1>4. ~(DestroyNext \/ FinishDestroy \/ DestroyDone)
  BY <1>0 DEF DestroyNext, FinishDestroy, DestroyDone
<1>5. \A q \in Pids : ~(TimerExpires(q) \/ RunReused(q) \/ KillLinked(q))
  BY <1>0 DEF TimerExpires, RunReused, RunsHandler, KillLinked
<1>6. \A q \in Pids : ProcessStep(q) => q = p
  BY <1>0, ProcessStepFrame
<1> QED BY <1>1, <1>2, <1>3, <1>4, <1>5, <1>6 DEF Next, LoopStep

\* The next step of a process that recv() has just resumed is await_resume().
LEMMA ReceiverSteps ==
  ASSUME NEW p \in Pids, ProcessStep(p), waiting[p] = "recv"
  PROVE  AwaitResume(p)
<1> USE DEF Calls, InUserCode
<1>1. ~(Spawn(p) \/ SpawnLink(p) \/ SpawnLinkNotify(p))
  BY DEF Spawn, SpawnLink, SpawnLinkNotify
<1>2. \A b \in Pids : ~(\/ SpawnCtorLink(p, b) \/ SpawnThrows(p, b)
                        \/ Link(p, b) \/ QueueKill(p, b)
                        \/ Send(p, b) \/ SendThrottled(p, b))
  BY DEF SpawnCtorLink, SpawnThrows, Link, QueueKill, Send, SendThrottled
<1>3. ~(CanQueueNull(p) \/ WaitForRoom(p) \/ ThrottledSend(p))
  BY DEF CanQueueNull, WaitForRoom, ThrottledSend, InCanQueue
<1>4. ~(Receive(p) \/ Finish(p)) /\ \A w \in Waits[p.idx] : ~Suspend(p, w)
  BY DEF Receive, Finish, Suspend
<1> QED BY <1>1, <1>2, <1>3, <1>4 DEF ProcessStep

\* recv() is resumed by a message: not by a resume in queue_, not by a timer and not
\* by a continuation, which all wait for something else.
LEMMA ReceivesNext ==
  ASSUME ActorsInv, WakeInv, ub = {}, ub' = {}, [Next]_vars
  PROVE  RecvResumesWithMessage'
<1> SUFFICES ASSUME NEW p \in Pids, running' = p, waiting'[p] = "recv"
             PROVE  Size(mq'[p]) > 0
  BY DEF RecvResumesWithMessage
<1>0. p # NoPid /\ DOMAIN waiting = Pids
  BY PidFields DEF ActorsInv, SchedulerInv, TypeOK
<1>1. CASE running = p
  <2>1. waiting[p] = "recv" => Size(mq[p]) > 0
    BY <1>1 DEF WakeInv, ReceiveInv, RecvResumesWithMessage
  <2>2. CASE UNCHANGED vars
    BY <2>1, <2>2 DEF vars, mailVars, procVars
  <2>3. CASE ProcessStep(p)
    <3>1. waiting[p] = "recv"
      <4>1. CASE Keeps \/ Drops
        BY <4>1 DEF Keeps, Drops
      <4>2. CASE Creates
        <5>1. PICK n \in Pids : waiting' = [waiting EXCEPT ![n] = "start"]
          BY <4>2, CreatesRunnable
        <5> QED BY <1>0, <5>1
      <4>3. ASSUME NEW q \in Pids, NEW w, RunsOn(q) \/ Stops(q, w) \/ Starts(q)
            PROVE  waiting[p] = "recv"
        BY <1>0, <1>1, <4>3 DEF RunsOn, Stops, Park, Starts
      <4> QED BY <4>1, <4>2, <4>3, StepWakes DEF QueueStep
    <3>2. AwaitResume(p)
      BY <2>3, <3>1, ReceiverSteps
    <3>3. running' = NoPid \/ waiting'[p] = "none"
      BY <1>0, <3>2 DEF AwaitResume, Ends
    <3> QED BY <1>0, <3>3
  <2> QED BY <1>1, <2>2, <2>3, RunningSteps
<1>2. CASE running # p
  <2>1. ByMessage(p) \/ ByResume(p) \/ ByHandler(p)
    BY <1>2, WakeReasons
  <2>2. waiting[p] = "recv"
    <3>1. CASE Keeps \/ Drops
      BY <1>2, <3>1 DEF Keeps, Drops
    <3>2. CASE Creates
      BY <1>2, <3>2, CreatesRunnable
    <3>3. ASSUME NEW q \in Pids, NEW w, RunsOn(q) \/ Stops(q, w)
          PROVE  FALSE
      BY <1>0, <1>2, <3>3 DEF RunsOn, Stops, Park
    <3>4. ASSUME NEW q \in Pids, Starts(q)
          PROVE  waiting[p] = "recv"
      BY <1>0, <3>4 DEF Starts
    <3> QED BY <3>1, <3>2, <3>3, <3>4, StepWakes DEF QueueStep
  <2>3. CASE ByResume(p)
    <3>1. 1 \in Indices(queue) /\ Head(queue) = queue[1]
      BY <2>3, TailIndices DEF ByResume, ActorsInv, SchedulerInv, TypeOK
    <3>2. Token(p, resumes[p], Runnable)
      BY <2>3, <3>1 DEF ByResume, WakeInv, ResumeInv
    <3> QED BY <2>2, <3>2 DEF Token, Runnable
  <2>4. CASE ByHandler(p)
    <3>1. /\ ready # <<>> /\ 1 \in Indices(ready) /\ Head(ready) = ready[1]
          /\ Head(ready) \in Handlers
      BY <2>4, TailIndices, HeadHandler DEF ByHandler, ActorsInv, SchedulerInv, TypeOK
    <3>2. CASE Head(ready).kind = "timer"
      <4>1. Rings(p)
        BY <2>4, <3>1, <3>2 DEF ByHandler, WakeInv, ReceiveInv
      <4> QED BY <2>2, <4>1 DEF Rings, Sleeps, SleepFor
    <3>3. CASE Head(ready).kind = "continuation" /\ Head(ready).resumes = resumes[p]
      <4>1. Held(Head(ready))
        BY <3>1 DEF Held, InReady
      <4>2. Token(p, resumes[p], {"future"})
        BY <2>4, <3>1, <3>3, <4>1 DEF WakeInv, ContinuationInv, ByHandler
      <4> QED BY <2>2, <4>2 DEF Token
    <3> QED BY <2>4, <3>2, <3>3 DEF ByHandler
  <2> QED BY <2>1, <2>3, <2>4 DEF ByMessage
<1> QED BY <1>1, <1>2

LEMMA ReceiveNext ==
  ASSUME ActorsInv, WakeInv, [Next]_vars
  PROVE  ReceiveInv'
<1> SUFFICES ASSUME ub' = {}
             PROVE  /\ (\A i \in Indices(ready) :
                          ready[i].kind = "timer" => Rings(ready[i].pid))'
                    /\ (\A i, j \in Indices(ready) :
                          ready[i].kind = "timer" /\ ready[j].kind = "timer"
                          /\ ready[i].pid = ready[j].pid => i = j)'
                    /\ RecvResumesWithMessage'
  BY DEF ReceiveInv
<1>1. ub = {}
  BY UndefinedStays
<1>2. (\A i \in Indices(ready) : ready[i].kind = "timer" => Rings(ready[i].pid))'
  BY <1>1, RingingStays DEF Rings, Sleeps, Spawned, NowSpawned, SleepFor
<1>3. (\A i, j \in Indices(ready) :
         ready[i].kind = "timer" /\ ready[j].kind = "timer"
         /\ ready[i].pid = ready[j].pid => i = j)'
  BY <1>1, RingingStays
<1> QED BY <1>1, <1>2, <1>3, ReceivesNext

LEMMA WakeupsCorrect == Spec => [](ActorsInv /\ WakeInv)
<1>1. Init => WakeInv
  <2> SUFFICES ASSUME Init PROVE WakeInv
    OBVIOUS
  <2>1. /\ Indices(queue) = {} /\ Indices(processes) = {} /\ Indices(ready) = {}
        /\ timers = {} /\ running = NoPid /\ \A b \in Pids : mq[b] = NewQueue
    BY DEF Init, Indices
  <2>2. NewQueue.p_.exec_ = NoExec
    BY DEF NewQueue, NewPromise
  <2>3. ResumeInv /\ TimerInv
    BY <2>1, <2>2 DEF ResumeInv, TurnsQueued, InTurn, InTable, TimerInv
  <2>4. ContinuationInv
    BY <2>1, <2>2 DEF ContinuationInv, Held, Registered, InReady
  <2>5. ReceiveInv
    BY <2>1, PidFields DEF ReceiveInv, RecvResumesWithMessage
  <2> QED BY <2>3, <2>4, <2>5 DEF WakeInv
<1>2. ActorsInv /\ WakeInv /\ [Next]_vars => WakeInv'
  BY ResumeNext, TimerNext, ContinuationNext, ReceiveNext DEF WakeInv
<1> QED BY <1>1, <1>2, ActorsInit, ActorsNext, PTL DEF Spec

\* recv() never throws "Message was not ready" in a program whose behaviour is
\* defined: of the four things that resume a process only a message resumes one
\* that is in recv().  (A continuation that reads a deleted process may resume
\* anybody: RunReused.)
THEOREM RecvHasMessage == Spec => [](ub = {} => RecvResumesWithMessage)
<1>1. WakeInv => (ub = {} => RecvResumesWithMessage)
  BY DEF WakeInv, ReceiveInv
<1> QED BY <1>1, WakeupsCorrect, PTL

-----------------------------------------------------------------------------
(* Back pressure: the promise of a full slot *)

\* The sender of continuation h waits for room in q.
FullBox(q, h) == ~q.p_.set_ /\ q.p_.exec_ = h /\ ShouldThrottle(q)
FullSlot(b, h) == b \notin freed /\ FullBox(mq[b], h)

Has(s, h) == \E i \in Indices(s) : s[i] = h

LEMMA HasConcat ==
  ASSUME NEW s \in Seq(Handlers), NEW t \in Seq(Handlers), NEW h,
         Has(s, h) \/ Has(t, h)
  PROVE  Has(s \o t, h)
<1> DEFINE new == s \o t
<1>1. /\ Len(new) = Len(s) + Len(t) /\ Len(s) \in Nat /\ Len(t) \in Nat
      /\ \A i \in 1..(Len(s) + Len(t)) :
           new[i] = IF i <= Len(s) THEN s[i] ELSE t[i - Len(s)]
  BY ConcatProperties, LenProperties
<1> HIDE DEF new
<1>2. CASE Has(s, h)
  <2>1. PICK i \in Indices(s) : s[i] = h
    BY <1>2 DEF Has
  <2>2. i \in Indices(new) /\ new[i] = h
    BY <1>1, <2>1 DEF Indices
  <2> QED BY <2>2 DEF Has, new
<1>3. CASE Has(t, h)
  <2>1. PICK i \in Indices(t) : t[i] = h
    BY <1>3 DEF Has
  <2>2. /\ Len(s) + i \in 1..(Len(s) + Len(t)) /\ ~(Len(s) + i <= Len(s))
        /\ (Len(s) + i) - Len(s) = i
    BY <1>1, <2>1 DEF Indices
  <2>3. Len(s) + i \in Indices(new) /\ new[Len(s) + i] = h
    BY <1>1, <2>1, <2>2 DEF Indices
  <2> QED BY <2>3 DEF Has, new
<1> QED BY <1>2, <1>3

LEMMA HasLast ==
  ASSUME NEW s \in Seq(Handlers), NEW h \in Handlers
  PROVE  Has(s \o <<h>>, h)
<1>1. <<h>> \in Seq(Handlers) /\ Has(<<h>>, h)
  BY DEF Has, Indices
<1> QED BY <1>1, HasConcat

\* pop() takes one message.
LEMMA PoppedSize ==
  ASSUME NEW q \in Queues(Messages, Handlers), Size(q) > 0
  PROVE  Size(Popped(q)) = Size(q) - 1 /\ Size(q) \in Nat /\ Size(Pop(q)) = Size(q) - 1
<1>1. /\ q.stackStorage # <<>> /\ q.others \in Seq(Messages)
      /\ q = [stackStorage |-> q.stackStorage, others |-> q.others, p_ |-> q.p_]
      /\ Size(q) = 1 + Len(q.others) /\ Len(q.others) \in Nat
  BY LenProperties DEF Size, Queues
<1>2. Size(Popped(q)) = Len(q.others)
  <2>1. CASE q.others = <<>>
    <3>1. Popped(q).stackStorage = <<>>
      BY <1>1, <2>1 DEF Popped
    <3> QED BY <2>1, <3>1 DEF Size
  <2>2. CASE q.others # <<>>
    <3>1. /\ Popped(q).stackStorage = <<Head(q.others)>>
          /\ Popped(q).others = Tail(q.others)
      BY <1>1, <2>2 DEF Popped
    <3>2. Len(Tail(q.others)) = Len(q.others) - 1
      BY <1>1, <2>2, HeadTailProperties
    <3> QED BY <1>1, <3>1, <3>2 DEF Size
  <2> QED BY <2>1, <2>2
<1>3. /\ Pop(q).stackStorage = Popped(q).stackStorage
      /\ Pop(q).others = Popped(q).others
  BY <1>1 DEF Pop, Popped
<1>4. Size(Pop(q)) = Size(Popped(q))
  BY <1>3 DEF Size
<1> QED BY <1>1, <1>2, <1>4

\* push() makes a queue longer by one.
LEMMA PushedSize ==
  ASSUME NEW q \in Queues(Messages, Handlers), WellFormed(q), NEW m \in Messages
  PROVE  Size(Push(q, m)) = Size(q) + 1 /\ Size(q) \in Nat
<1>1. /\ q.others \in Seq(Messages) /\ Len(q.others) \in Nat
      /\ q = [stackStorage |-> q.stackStorage, others |-> q.others, p_ |-> q.p_]
  BY LenProperties DEF Queues
<1>2. CASE q.stackStorage = <<>>
  <2>1. Push(q, m).stackStorage = <<m>> /\ Push(q, m).others = <<>>
    BY <1>1, <1>2 DEF Push, WellFormed
  <2> QED BY <1>2, <2>1 DEF Size
<1>3. CASE q.stackStorage # <<>>
  <2>1. /\ Push(q, m).stackStorage = q.stackStorage
        /\ Push(q, m).others = Append(q.others, m)
    BY <1>1, <1>3 DEF Push
  <2>2. Len(Append(q.others, m)) = Len(q.others) + 1
    BY <1>1, AppendProperties
  <2> QED BY <1>1, <1>3, <2>1, <2>2 DEF Size
<1> QED BY <1>2, <1>3

\* Messages that arrive and waiters that are resumed leave a full slot as it is.
LEMMA FullStaysFull ==
  ASSUME NEW q \in Queues(Messages, Handlers), WellFormed(q), NEW m \in Messages,
         NEW h, FullBox(q, h)
  PROVE  FullBox(Push(q, m), h) /\ FullBox([q EXCEPT !.p_ = Process(@)], h)
<1>1. /\ q.p_ \in Promises(Handlers)
      /\ q = [stackStorage |-> q.stackStorage, others |-> q.others, p_ |-> q.p_]
      /\ kThrottle \in Nat
  BY ThrottleAssumption DEF Queues
<1>2. Process(q.p_) = q.p_
  BY <1>1 DEF FullBox, Process, Promises
<1>3. [q EXCEPT !.p_ = Process(@)] = q
  BY <1>1, <1>2
<1>4. Push(q, m).p_ = q.p_
  BY QueueExec
<1>5. Size(Push(q, m)) >= kThrottle
  BY <1>1, PushedSize DEF FullBox, ShouldThrottle
<1> QED BY <1>3, <1>4, <1>5 DEF FullBox, ShouldThrottle

\* pop() leaves it full or posts the continuation.
LEMMA PopFull ==
  ASSUME NEW q \in Queues(Messages, Handlers), NEW h \in Handlers, FullBox(q, h)
  PROVE  FullBox(Pop(q), h) \/ PopPosts(q) = <<h>>
<1>1. /\ q.p_ \in Promises(Handlers) /\ Size(q) \in Nat
      /\ q = [stackStorage |-> q.stackStorage, others |-> q.others, p_ |-> q.p_]
      /\ kThrottle \in Nat \ {0} /\ Size(q) >= kThrottle /\ h # NoExec
  <2>1. Size(q) \in Nat
    <3>1. q.others \in Seq(Messages)
      BY DEF Queues
    <3> QED BY <3>1, LenProperties DEF Size
  <2> QED BY <2>1, ThrottleAssumption, NoExecAssumption
      DEF Queues, FullBox, ShouldThrottle
<1>2. Size(Popped(q)) = Size(q) - 1 /\ Size(Pop(q)) = Size(q) - 1
  BY <1>1, PoppedSize
<1>3. CASE CrossesThrottle(q)
  BY <1>1, <1>3 DEF PopPosts, SetIfUnsetPosts, SetPosts, FullBox
<1>4. CASE ~CrossesThrottle(q)
  <2>1. Size(Pop(q)) >= kThrottle
    BY <1>1, <1>2, <1>4 DEF CrossesThrottle
  <2>2. Pop(q).p_ = q.p_
    BY <1>1, <1>4 DEF Pop, Popped
  <2> QED BY <2>1, <2>2 DEF FullBox, ShouldThrottle
<1> QED BY <1>3, <1>4

\* resume() of anybody.
LEMMA ResumeFull ==
  ASSUME NEW boxes \in [Pids -> Queues(Messages, Handlers)], NEW b \in Pids,
         WellFormed(boxes[b]), NEW h, FullBox(boxes[b], h), NEW t, NEW hs, NEW bad,
         BeginResume(t, boxes, hs, bad) \/ NoResume(boxes, hs, bad)
  PROVE  FullBox(mq'[b], h)
<1> DEFINE s == sending[t]
<1>1. \/ mq' = boxes
      \/ mq' = [boxes EXCEPT ![s].p_ = Process(@)]
  BY DEF BeginResume, NoResume
<1>2. \E m : m \in Messages
  <2>1. Message(b, b, 0) \in Messages
    BY DEF Message, Messages
  <2> QED BY <2>1
<1>3. boxes[b] \in Queues(Messages, Handlers)
  OBVIOUS
<1>4. FullBox([boxes[b] EXCEPT !.p_ = Process(@)], h)
  BY <1>2, <1>3, FullStaysFull
<1> HIDE DEF s
<1>5. mq'[b] = boxes[b] \/ mq'[b] = [boxes[b] EXCEPT !.p_ = Process(@)]
  BY <1>1
<1> QED BY <1>4, <1>5

LEMMA TakeFull ==
  ASSUME TypeOK, NEW p \in Pids, TakeMessage(p), NEW b \in Pids, NEW h \in Handlers,
         FullBox(mq[b], h)
  PROVE  FullBox(mq'[b], h) \/ Has(ready', h)
<1>1. mq \in [Pids -> Queues(Messages, Handlers)] /\ ready \in Seq(Handlers)
  BY DEF TypeOK
<1>2. /\ mq' = [mq EXCEPT ![p] = Pop(mq[p])] /\ ready' = ready \o PopPosts(mq[p])
  BY DEF TakeMessage
<1>3. CASE p # b
  BY <1>1, <1>2, <1>3
<1>4. CASE p = b
  <2>1. mq'[b] = Pop(mq[b]) /\ mq[b] \in Queues(Messages, Handlers)
    BY <1>1, <1>2, <1>4
  <2>2. FullBox(Pop(mq[b]), h) \/ PopPosts(mq[b]) = <<h>>
    BY <2>1, PopFull
  <2> QED BY <1>1, <1>2, <1>4, <2>1, <2>2, HasLast
<1> QED BY <1>3, <1>4

\* A full slot is left only through its continuation, unless somebody else registers
\* with it.
LEMMA FullSlotStays ==
  ASSUME ActorsInv, [Next]_vars, NEW b \in Pids, Spawned(b), NEW h \in Handlers,
         FullSlot(b, h)
  PROVE  \/ FullSlot(b, h)' \/ Has(ready', h)
         \/ \E r \in Pids : WaitForRoom(r) /\ sending[r] = b
<1> DEFINE Goal == \/ FullSlot(b, h)' \/ Has(ready', h)
                   \/ \E r \in Pids : WaitForRoom(r) /\ sending[r] = b
<1> USE DEF vars, memVars, mailVars, rest
<1>0. /\ TypeOK /\ Table /\ MailInv /\ mq \in [Pids -> Queues(Messages, Handlers)]
      /\ ready \in Seq(Handlers) /\ FullBox(mq[b], h) /\ b \notin freed
      /\ WellFormed(mq[b])
  BY DEF ActorsInv, SchedulerInv, TypeOK, FullSlot, MailInv
<1>1. ASSUME mq'[b] = mq[b], freed' = freed PROVE Goal
  BY <1>0, <1>1 DEF FullSlot, FullBox
<1>2. ASSUME FullBox(mq'[b], h), freed' = freed PROVE Goal
  BY <1>0, <1>2 DEF FullSlot, FullBox
<1> SUFFICES Goal
  OBVIOUS
<1> HIDE DEF Goal
<1>3. ASSUME NEW kill, NEW notify, NEW back, Construct(kill, notify, back) PROVE Goal
  <2>1. NextPid # b
    BY <1>0, <1>3, ConstructFresh DEF Spawned
  <2>2. mq' = [mq EXCEPT ![NextPid] = NewQueue] /\ freed' = freed
    BY <1>3 DEF Construct, Constructed
  <2> QED BY <1>0, <1>1, <2>1, <2>2
<1>4. CASE MainSpawn \/ Run \/ Terminated \/ UNCHANGED vars
  <2>1. CASE MainSpawn
    BY <1>3, <2>1 DEF MainSpawn
  <2>2. CASE Run \/ Terminated \/ UNCHANGED vars
    BY <1>1, <2>2 DEF Run, Terminated
  <2> QED BY <1>4, <2>1, <2>2
<1>5. ASSUME NEW p \in Pids, ProcessStep(p) PROVE Goal
  <2>1. CASE Spawn(p) \/ SpawnLink(p) \/ SpawnLinkNotify(p)
    BY <1>3, <2>1 DEF Spawn, SpawnLink, SpawnLinkNotify
  <2>2. ASSUME NEW c \in Pids, SpawnCtorLink(p, c) PROVE Goal
    BY <1>3, <2>2 DEF SpawnCtorLink
  <2>3. ASSUME NEW c \in Pids,
               \/ SpawnThrows(p, c) \/ Link(p, c) \/ QueueKill(p, c)
               \/ Send(p, c) \/ SendThrottled(p, c)
        PROVE  Goal
    BY <1>1, <2>3 DEF SpawnThrows, Link, QueueKill, Send, SendThrottled
  <2>4. CASE CanQueueNull(p) \/ ThrottledSend(p) \/ Finish(p)
    BY <1>1, <2>4 DEF CanQueueNull, ThrottledSend, Finish
  <2>5. CASE WaitForRoom(p)
    <3>1. PICK x : /\ sending[p] # NoPid /\ Found(processes, sending[p])
                   /\ mq' = [mq EXCEPT ![Proc(sending[p])].p_ = x] /\ freed' = freed
      BY <2>5 DEF WaitForRoom, InCanQueue, MustWait
    <3>2. Proc(sending[p]) = sending[p]
      <4>1. sending[p] \in Pids /\ processes \in Seq(PidOrNone)
        BY <1>0, <3>1 DEF TypeOK, PidOrNone
      <4> QED BY <1>0, <3>1, <4>1, FoundIsSelf DEF Table, TableInv, Owned, Proc
    <3>3. CASE sending[p] = b
      BY <2>5, <3>3 DEF Goal
    <3>4. CASE sending[p] # b
      BY <1>0, <1>1, <3>1, <3>2, <3>4
    <3> QED BY <3>3, <3>4
  <2>6. ASSUME TakeMessage(p), freed' = freed PROVE Goal
    <3>1. FullBox(mq'[b], h) \/ Has(ready', h)
      BY <1>0, <2>6, TakeFull
    <3> QED BY <1>2, <2>6, <3>1 DEF Goal
  <2>7. CASE Receive(p) \/ AwaitResume(p)
    BY <1>1, <2>6, <2>7 DEF Receive, AwaitResume
  <2>8. ASSUME NEW w \in Waits[p.idx], Suspend(p, w) PROVE Goal
    BY <1>1, <2>8 DEF Suspend
  <2> QED BY <1>5, <2>1, <2>2, <2>3, <2>4, <2>5, <2>7, <2>8 DEF ProcessStep
<1>6. CASE Exit \/ RunOne \/ HandlerCrashes \/ EndPoll \/ DestroyDone \/ DestroyNext
  <2>1. mq' = mq /\ freed' = freed
    BY <1>6 DEF Exit, RunOne, HandlerCrashes, EndPoll, DestroyDone, DestroyNext
  <2> QED BY <1>1, <2>1
<1>7. ASSUME NEW p \in Pids, TimerExpires(p) \/ KillLinked(p) PROVE Goal
  BY <1>1, <1>7 DEF TimerExpires, KillLinked
<1>8. ASSUME NEW t, NEW hs, NEW bad,
             BeginResume(t, mq, hs, bad) \/ NoResume(mq, hs, bad), freed' = freed
      PROVE  Goal
  BY <1>0, <1>2, <1>8, ResumeFull
<1>9. CASE RunAborted \/ RunTimer \/ RunContinuation \/ ProcessResume
  <2>1. CASE RunAborted
    BY <1>8, <2>1 DEF RunAborted
  <2>2. CASE RunTimer
    BY <1>8, <2>2 DEF RunTimer
  <2>3. CASE RunContinuation
    BY <1>8, <2>3 DEF RunContinuation
  <2>4. CASE ProcessResume
    BY <1>8, <2>4 DEF ProcessResume
  <2> QED BY <1>9, <2>1, <2>2, <2>3, <2>4
<1>10. ASSUME NEW q \in Pids, RunReused(q) PROVE Goal
  BY <1>8, <1>10 DEF RunReused
<1>11. CASE ProcessMessage
  <2> DEFINE i == Head(queue)
             t == Proc(i.pid)
             boxes == IF Accepts(i) THEN [mq EXCEPT ![t] = Push(@, i.message)] ELSE mq
  <2>1. /\ queue # <<>> /\ i.kind = "message" /\ freed' = freed
        /\ BeginResume(t, boxes, ready, {}) \/ NoResume(boxes, ready, {})
    BY <1>11 DEF ProcessMessage
  <2>2. i.message \in Messages /\ i.pid \in Pids
    BY <1>0, <2>1, HeadItem, ItemFields
  <2>3. Accepts(i) => t \in Pids
    BY <1>0, <2>2, ProcInTable DEF Accepts
  <2> HIDE DEF i, t
  <2>4. /\ boxes \in [Pids -> Queues(Messages, Handlers)]
        /\ boxes[b] = mq[b] \/ boxes[b] = Push(mq[b], i.message)
    <3>1. CASE Accepts(i)
      <4>1. mq[t] \in Queues(Messages, Handlers)
        BY <1>0, <2>3, <3>1
      <4>2. Push(mq[t], i.message) \in Queues(Messages, Handlers)
        BY <2>2, <4>1, QueueTypes
      <4> QED BY <1>0, <3>1, <4>2
    <3>2. CASE ~Accepts(i)
      BY <1>0, <3>2
    <3> QED BY <3>1, <3>2
  <2>5. WellFormed(boxes[b]) /\ FullBox(boxes[b], h)
    BY <1>0, <2>2, <2>4, PushAppends, FullStaysFull
  <2> HIDE DEF boxes
  <2>6. FullBox(mq'[b], h)
    BY <2>1, <2>4, <2>5, ResumeFull
  <2>7. freed' = freed
    BY <2>1
  <2> QED BY <1>2, <2>6, <2>7
<1>12. CASE FinishDestroy
  <2>1. /\ dying \in Pids /\ freed' = freed \cup {dying}
        /\ mq' = [mq EXCEPT ![dying].p_ = SetIfUnset(@)]
        /\ ready' = (ready \o CancelPosts(dying)) \o DestroyPosts(mq[dying])
    BY <1>0, <1>12 DEF FinishDestroy, TypeOK, PidOrNone
  <2>2. CASE dying = b
    <3>1. DestroyPosts(mq[b]) = <<h>>
      BY <1>0, NoExecAssumption DEF DestroyPosts, SetIfUnsetPosts, SetPosts, FullBox
    <3>2. ready \o CancelPosts(dying) \in Seq(Handlers)
      BY <1>0, <2>1, CancelPosted, ConcatProperties
    <3> QED BY <2>1, <2>2, <3>1, <3>2, HasLast DEF Goal
  <2>3. CASE dying # b
    <3>1. mq'[b] = mq[b] /\ b \notin freed'
      BY <1>0, <2>1, <2>3
    <3> QED BY <1>0, <3>1 DEF Goal, FullSlot, FullBox
  <2> QED BY <2>2, <2>3
<1> QED BY <1>4, <1>5, <1>6, <1>7, <1>9, <1>10, <1>11, <1>12
        DEF Next, LoopStep, Goal

\* The io_service is running the handler h.
RunsNow(h) ==
  /\ ready # <<>> /\ Head(ready) = h
  /\ \/ RunAborted \/ RunTimer \/ RunContinuation
     \/ \E q \in Pids : RunReused(q)

\* A handler stays in the io_service until it is run.
LEMMA ReadyStays ==
  ASSUME ActorsInv, [Next]_vars, NEW h \in Handlers, Has(ready, h)
  PROVE  Has(ready', h) \/ RunsNow(h)
<1> DEFINE Goal == Has(ready', h) \/ RunsNow(h)
<1> USE DEF vars, ioVars, rest
<1>0. /\ TypeOK /\ ready \in Seq(Handlers) /\ SchedulerInv /\ processes \in Seq(PidOrNone)
      /\ mq \in [Pids -> Queues(Messages, Handlers)] /\ resumes \in [Pids -> Nat]
  BY DEF ActorsInv, SchedulerInv, TypeOK
<1>1. ASSUME NEW t \in Seq(Handlers), ready' = ready \o t PROVE Goal
  BY <1>0, <1>1, HasConcat
<1>2. ASSUME ready' = ready PROVE Goal
  BY <1>2
<1>3. ASSUME ready # <<>>, Head(ready) # h, NEW t \in Seq(Handlers),
             ready' = Tail(ready) \o t
      PROVE  Goal
  <2>1. PICK i \in Indices(ready) : ready[i] = h
    BY DEF Has
  <2>2. i - 1 \in Indices(Tail(ready)) /\ Tail(ready)[i - 1] = h
    BY <1>0, <1>3, <2>1, TailIndices
  <2>3. Has(Tail(ready), h) /\ Tail(ready) \in Seq(Handlers)
    BY <1>0, <1>3, <2>2, HeadTailProperties DEF Has
  <2> QED BY <1>3, <2>3, HasConcat
<1> SUFFICES Goal
  OBVIOUS
<1> HIDE DEF Goal
<1>4. \A p \in Pids : CancelPosts(p) \in Seq(Handlers)
  BY CancelPosted
<1>5. CASE MainSpawn \/ Run \/ Terminated \/ UNCHANGED vars
  BY <1>2, <1>5 DEF MainSpawn, Construct, Run, Terminated
<1>6. ASSUME NEW p \in Pids, ProcessStep(p) PROVE Goal
  <2>1. CASE Spawn(p) \/ SpawnLink(p) \/ SpawnLinkNotify(p)
    BY <1>2, <2>1 DEF Spawn, SpawnLink, SpawnLinkNotify, Construct
  <2>2. ASSUME NEW c \in Pids,
               \/ SpawnCtorLink(p, c) \/ SpawnThrows(p, c) \/ Link(p, c)
               \/ QueueKill(p, c) \/ Send(p, c) \/ SendThrottled(p, c)
        PROVE  Goal
    BY <1>2, <2>2
    DEF SpawnCtorLink, Construct, SpawnThrows, Link, QueueKill, Send, SendThrottled
  <2>3. CASE CanQueueNull(p) \/ ThrottledSend(p) \/ Finish(p)
    BY <1>2, <2>3 DEF CanQueueNull, ThrottledSend, Finish
  <2>4. CASE WaitForRoom(p)
    <3> DEFINE k == Continuation(p, resumes[p])
               t == SetContinuationPosts(mq[Proc(sending[p])].p_, k)
    <3>1. ready' = ready \o t
      BY <2>4 DEF WaitForRoom
    <3>2. k \in Handlers
      BY <1>0, HandlerTypes
    <3> HIDE DEF k
    <3>3. t \in Seq(Handlers)
      BY <3>2 DEF SetContinuationPosts
    <3> HIDE DEF t
    <3> QED BY <1>1, <3>1, <3>3
  <2>5. ASSUME TakeMessage(p) PROVE Goal
    <3>1. mq[p] \in Queues(Messages, Handlers) /\ ready' = ready \o PopPosts(mq[p])
      BY <1>0, <2>5 DEF TakeMessage
    <3>2. PopPosts(mq[p]) = <<>> \/ PopPosts(mq[p]) = SetIfUnsetPosts(mq[p].p_)
      BY DEF PopPosts
    <3>3. PopPosts(mq[p]) \in Seq(Handlers)
      BY <1>0, <3>2, SetPosted
    <3> QED BY <1>1, <3>1, <3>3
  <2>6. CASE Receive(p) \/ AwaitResume(p)
    BY <1>2, <2>5, <2>6 DEF Receive, AwaitResume
  <2>7. ASSUME NEW w \in Waits[p.idx], Suspend(p, w) PROVE Goal
    BY <1>2, <2>7 DEF Suspend
  <2> QED BY <1>6, <2>1, <2>2, <2>3, <2>4, <2>6, <2>7 DEF ProcessStep
<1>7. CASE Exit \/ RunOne \/ HandlerCrashes \/ EndPoll \/ DestroyDone \/ DestroyNext
  <2>1. ready' = ready
    BY <1>7 DEF Exit, RunOne, HandlerCrashes, EndPoll, DestroyDone, DestroyNext
  <2> QED BY <1>2, <2>1
<1>8. ASSUME NEW p \in Pids, KillLinked(p) PROVE Goal
  BY <1>2, <1>8 DEF KillLinked
<1>9. ASSUME NEW p \in Pids, TimerExpires(p) PROVE Goal
  <2>1. ready' = Append(ready, TimerHandler(p)) /\ TimerHandler(p) \in Handlers
    BY <1>9, HandlerTypes DEF TimerExpires
  <2>2. ready' = ready \o <<TimerHandler(p)>>
    BY <1>0, <2>1, AppendIsConcat
  <2>3. <<TimerHandler(p)>> \in Seq(Handlers)
    BY <2>1
  <2> QED BY <1>1, <2>2, <2>3
<1>10. CASE ProcessMessage
  <2>1. PICK boxes : \/ BeginResume(Proc(Head(queue).pid), boxes, ready, {})
                        /\ Found(processes, Head(queue).pid)
                     \/ NoResume(boxes, ready, {})
    BY <1>10 DEF ProcessMessage, Accepts
  <2>2. Head(queue).pid \in Pids
    BY <1>0, <1>10, HeadItem DEF ProcessMessage
  <2>3. Found(processes, Head(queue).pid) => Proc(Head(queue).pid) \in Pids
    BY <1>0, <2>2, ProcInTable
  <2> QED BY <1>1, <1>2, <1>4, <2>1, <2>3 DEF BeginResume, NoResume
<1>11. CASE ProcessResume
  <2>1. \/ BeginResume(Proc(Head(queue).pid), mq, ready, {})
           /\ Found(processes, Head(queue).pid)
        \/ NoResume(mq, ready, {})
    BY <1>11 DEF ProcessResume
  <2>2. Head(queue).pid \in Pids
    BY <1>0, <1>11, HeadItem DEF ProcessResume
  <2>3. Found(processes, Head(queue).pid) => Proc(Head(queue).pid) \in Pids
    BY <1>0, <2>2, ProcInTable
  <2> QED BY <1>1, <1>2, <1>4, <2>1, <2>3 DEF BeginResume, NoResume
<1>12. CASE RunAborted
  <2>1. ready # <<>> /\ ready' = Tail(ready)
    BY <1>12 DEF RunAborted, RunsHandler, NoResume
  <2>2. Tail(ready) = Tail(ready) \o <<>> /\ <<>> \in Seq(Handlers)
    BY <1>0, <2>1, HeadTailProperties, ConcatEmptySeq
  <2>3. Head(ready) # h => Goal
    BY <1>3, <2>1, <2>2
  <2> QED BY <1>12, <2>1, <2>3 DEF Goal, RunsNow
<1>13. CASE RunTimer
  <2>1. /\ ready # <<>>
        /\ ready' = Tail(ready) \o CancelPosts(Head(ready).pid) \/ ready' = Tail(ready)
    BY <1>13 DEF RunTimer, RunsHandler, NoResume, BeginResume
  <2>2. Tail(ready) = Tail(ready) \o <<>> /\ <<>> \in Seq(Handlers)
    BY <1>0, <2>1, HeadTailProperties, ConcatEmptySeq
  <2>3. CancelPosts(Head(ready).pid) \in Seq(Handlers)
    BY <1>0, <1>4, <2>1, HeadHandler
  <2>4. Head(ready) # h => Goal
    BY <1>3, <2>1, <2>2, <2>3
  <2> QED BY <1>13, <2>1, <2>4 DEF Goal, RunsNow
<1>14. CASE RunContinuation \/ \E q \in Pids : RunReused(q)
  <2>1. PICK t \in Pids : /\ ready # <<>>
                          /\ \/ ready' = Tail(ready) \o CancelPosts(t)
                             \/ ready' = Tail(ready)
    <3>1. CASE RunContinuation
      <4>1. /\ ready # <<>>
            /\ \/ ready' = Tail(ready) \o CancelPosts(Head(ready).pid)
               \/ ready' = Tail(ready)
        BY <3>1 DEF RunContinuation, RunsHandler, NoResume, BeginResume
      <4>2. Head(ready).pid \in Pids
        BY <1>0, <4>1, HeadHandler
      <4> QED BY <4>1, <4>2
    <3>2. ASSUME NEW q \in Pids, RunReused(q)
          PROVE  ready # <<>> /\ ready' = Tail(ready) \o CancelPosts(q)
      BY <3>2 DEF RunReused, RunsHandler, BeginResume
    <3> QED BY <1>14, <3>1, <3>2
  <2>2. Tail(ready) = Tail(ready) \o <<>> /\ <<>> \in Seq(Handlers)
    BY <1>0, <2>1, HeadTailProperties, ConcatEmptySeq
  <2>3. Head(ready) # h => Goal
    BY <1>3, <1>4, <2>1, <2>2
  <2> QED BY <1>14, <2>1, <2>3 DEF Goal, RunsNow
<1>15. CASE FinishDestroy
  <2>1. /\ dying \in Pids
        /\ ready' = (ready \o CancelPosts(dying)) \o DestroyPosts(mq[dying])
    BY <1>0, <1>15 DEF FinishDestroy, TypeOK, PidOrNone
  <2>2. CancelPosts(dying) \in Seq(Handlers) /\ DestroyPosts(mq[dying]) \in Seq(Handlers)
    BY <1>0, <1>4, <2>1, SetPosted DEF DestroyPosts
  <2>3. Has(ready \o CancelPosts(dying), h)
        /\ ready \o CancelPosts(dying) \in Seq(Handlers)
    BY <1>0, <2>2, HasConcat, ConcatProperties
  <2> QED BY <2>1, <2>2, <2>3, HasConcat DEF Goal
<1> QED BY <1>5, <1>6, <1>7, <1>8, <1>9, <1>10, <1>11, <1>12, <1>13, <1>14, <1>15
        DEF Next, LoopStep

-----------------------------------------------------------------------------
(* Back pressure: one sender *)

\* The receiver of a sendThrottled() in progress changes only when its sender runs,
\* or when its sender is made.
LEMMA SenderSteps ==
  ASSUME ActorsInv, [Next]_vars, NEW r \in Pids
  PROVE  \/ sending'[r] = sending[r]
         \/ /\ running = r
            /\ sending'[r] = NoPid \/ \E c \in Pids : SendThrottled(r, c)
         \/ sending'[r] = NoPid /\ waiting'[r] = "start"
<1> DEFINE Goal == \/ sending'[r] = sending[r]
                   \/ /\ running = r
                      /\ sending'[r] = NoPid \/ \E c \in Pids : SendThrottled(r, c)
                   \/ sending'[r] = NoPid /\ waiting'[r] = "start"
<1> USE DEF procVars, rest
<1>0. sending \in [Pids -> PidOrNone] /\ DOMAIN waiting = Pids /\ TypeOK
  BY DEF ActorsInv, SchedulerInv, TypeOK
<1>1. ASSUME sending' = sending PROVE Goal
  BY <1>1
<1>2. ASSUME NEW kill, NEW notify, NEW back, Construct(kill, notify, back) PROVE Goal
  BY <1>0, <1>2 DEF Construct, Constructed
<1> HIDE DEF Goal
<1>3. ASSUME MainSpawn PROVE Goal
  BY <1>2, <1>3 DEF MainSpawn
<1>4. ASSUME Run \/ Terminated \/ UNCHANGED vars PROVE Goal
  BY <1>1, <1>4 DEF Run, Terminated, vars
<1>5. ASSUME NEW p \in Pids, ProcessStep(p) PROVE Goal
  <2>1. CASE Spawn(p) \/ SpawnLink(p) \/ SpawnLinkNotify(p)
    BY <1>2, <2>1 DEF Spawn, SpawnLink, SpawnLinkNotify
  <2>2. ASSUME NEW c \in Pids, SpawnCtorLink(p, c) PROVE Goal
    BY <1>2, <2>2 DEF SpawnCtorLink
  <2>3. ASSUME NEW c \in Pids,
               SpawnThrows(p, c) \/ Link(p, c) \/ QueueKill(p, c) \/ Send(p, c)
        PROVE  sending' = sending
    BY <2>3 DEF SpawnThrows, Link, QueueKill, Send
  <2>4. ASSUME NEW c \in Pids, SendThrottled(p, c) PROVE Goal
    <3>1. running = p /\ sending' = [sending EXCEPT ![p] = c]
      BY <2>4 DEF SendThrottled, Calls, InUserCode
    <3> QED BY <1>0, <2>4, <3>1 DEF Goal
  <2>5. CASE ThrottledSend(p)
    BY <1>0, <2>5 DEF ThrottledSend, InCanQueue, Goal
  <2>6. CASE CanQueueNull(p) \/ WaitForRoom(p) \/ Receive(p) \/ AwaitResume(p)
             \/ Finish(p)
    BY <1>1, <2>6 DEF CanQueueNull, WaitForRoom, Receive, AwaitResume, Finish
  <2>7. ASSUME NEW w \in Waits[p.idx], Suspend(p, w) PROVE sending' = sending
    BY <2>7 DEF Suspend
  <2> QED BY <1>1, <1>5, <2>1, <2>2, <2>3, <2>4, <2>5, <2>6, <2>7 DEF ProcessStep
<1>6. ASSUME LoopStep PROVE Goal
  <2>1. CASE Exit \/ RunOne \/ HandlerCrashes \/ EndPoll \/ DestroyDone \/ DestroyNext
             \/ FinishDestroy
    BY <1>1, <2>1 DEF Exit, RunOne, HandlerCrashes, EndPoll, DestroyDone, DestroyNext,
      FinishDestroy
  <2>2. CASE ProcessMessage \/ ProcessResume \/ RunAborted \/ RunTimer
             \/ RunContinuation
    BY <1>1, <2>2 DEF ProcessMessage, ProcessResume, RunAborted, RunTimer, RunContinuation
  <2>3. ASSUME NEW p \in Pids, TimerExpires(p) \/ KillLinked(p) \/ RunReused(p)
        PROVE  sending' = sending
    BY <2>3 DEF TimerExpires, KillLinked, RunReused
  <2> QED BY <1>1, <1>6, <2>1, <2>2, <2>3 DEF LoopStep
<1>7. Goal
  BY <1>3, <1>4, <1>5, <1>6 DEF Next
<1> QED BY <1>7 DEF Goal

\* Only a sender that finds the slot full waits for a promise.
LEMMA FutureIsRoom ==
  ASSUME ActorsInv, NEW p \in Pids, ProcessStep(p), waiting[p] # "future",
         waiting'[p] = "future"
  PROVE  WaitForRoom(p)
<1> USE DEF procVars
<1>0. DOMAIN waiting = Pids
  BY DEF ActorsInv, SchedulerInv, TypeOK
<1>1. ASSUME NEW kill, NEW notify, NEW back, Construct(kill, notify, back) PROVE FALSE
  BY <1>0, <1>1 DEF Construct, Constructed
<1>2. ~(Spawn(p) \/ SpawnLink(p) \/ SpawnLinkNotify(p))
  BY <1>1 DEF Spawn, SpawnLink, SpawnLinkNotify
<1>3. ASSUME NEW c \in Pids PROVE ~SpawnCtorLink(p, c)
  BY <1>1 DEF SpawnCtorLink
<1>4. ASSUME NEW c \in Pids
      PROVE  ~(\/ SpawnThrows(p, c) \/ Link(p, c) \/ QueueKill(p, c) \/ Send(p, c)
               \/ SendThrottled(p, c))
  BY <1>0 DEF SpawnThrows, Link, QueueKill, Send, SendThrottled, Ends, Park
<1>5. ~(CanQueueNull(p) \/ ThrottledSend(p) \/ Receive(p) \/ AwaitResume(p) \/ Finish(p))
  BY <1>0 DEF CanQueueNull, ThrottledSend, Receive, AwaitResume, Finish, Ends
<1>6. ASSUME NEW w \in Waits[p.idx] PROVE ~Suspend(p, w)
  <2>1. w # "future"
    BY PidFields, ProgramAssumption
  <2> QED BY <1>0, <2>1 DEF Suspend, Park
<1> QED BY <1>2, <1>3, <1>4, <1>5, <1>6 DEF ProcessStep

\* p is in sendThrottled(), and has not died there.
InThrottledSend(p) ==
  sending[p] # NoPid /\ (InTable(processes, p) \/ running = p)

\* No two processes are in sendThrottled() to the same process at the same time.
SlotsHaveOneSender ==
  \A p, q \in Pids : InThrottledSend(p) /\ InThrottledSend(q)
                     /\ sending[p] = sending[q] => p = q

\* A sender waits for a promise in sendThrottled() only, and it is wakeable there.
Wakeable(p) ==
  LET h == Continuation(p, resumes[p]) IN
  Has(ready, h) \/ FullSlot(sending[p], h)

ThrottleInv ==
  \A p \in Pids : waiting[p] = "future" =>
    /\ running # p /\ sending[p] \in Pids
    /\ InTable(processes, p) => Wakeable(p)

\* A process that starts to wait for room is wakeable.
LEMMA WaitForRoomWakeable ==
  ASSUME ActorsInv, [Next]_vars, NEW p \in Pids, WaitForRoom(p)
  PROVE  /\ running' # p /\ sending'[p] \in Pids
         /\ Wakeable(p)'
<1> DEFINE b == sending[p]
           h == Continuation(p, resumes[p])
<1>0. /\ TypeOK /\ Table /\ mq \in [Pids -> Queues(Messages, Handlers)]
      /\ ready \in Seq(Handlers) /\ resumes \in [Pids -> Nat] /\ p # NoPid
  BY PidFields DEF ActorsInv, SchedulerInv, TypeOK
<1>1. /\ b # NoPid /\ Found(processes, b) /\ ShouldThrottle(mq[Proc(b)])
      /\ mq' = [mq EXCEPT ![Proc(b)].p_ = SetContinuation(mq[Proc(b)].p_, h)]
      /\ ready' = ready \o SetContinuationPosts(mq[Proc(b)].p_, h)
      /\ running' = NoPid /\ resumes' = resumes /\ sending' = sending /\ freed' = freed
  BY DEF WaitForRoom, InCanQueue, MustWait, Park, memVars
<1>2. b \in Pids /\ Proc(b) = b /\ InTable(processes, b)
  <2>1. /\ b \in Pids /\ processes \in Seq(PidOrNone)
        /\ \A i \in Indices(processes) : processes[i] # NoPid => processes[i].idx = i
    BY <1>0, <1>1 DEF TypeOK, PidOrNone, Table, TableInv, Owned
  <2> HIDE DEF b
  <2> QED BY <1>1, <2>1, FoundIsSelf DEF Proc
<1>3. b \notin freed
  BY <1>0, <1>2 DEF Table, TableInv, Owned
<1>4. h \in Handlers
  BY <1>0, HandlerTypes
<1>5. Continuation(p, resumes'[p]) = h /\ sending'[p] = b
  BY <1>1
<1> HIDE DEF b, h
<1>6. CASE mq[b].p_.set_
  <2>1. ready' = ready \o <<h>>
    BY <1>1, <1>2, <1>6 DEF SetContinuationPosts
  <2>2. Has(ready', h)
    BY <1>0, <1>4, <2>1, HasLast
  <2> QED BY <1>0, <1>1, <1>2, <1>5, <2>2 DEF Wakeable, Has
<1>7. CASE ~mq[b].p_.set_
  <2>1. /\ mq[b] \in Queues(Messages, Handlers) /\ mq[b].p_ \in Promises(Handlers)
        /\ mq'[b] = [mq[b] EXCEPT !.p_ = [mq[b].p_ EXCEPT !.exec_ = h]]
    BY <1>0, <1>1, <1>2, <1>7 DEF SetContinuation, Queues
  <2>2. /\ ~mq'[b].p_.set_ /\ mq'[b].p_.exec_ = h
        /\ mq'[b].stackStorage = mq[b].stackStorage /\ mq'[b].others = mq[b].others
    BY <1>7, <2>1 DEF Queues, Promises
  <2>3. ShouldThrottle(mq'[b])
    BY <1>1, <1>2, <2>2 DEF ShouldThrottle, Size
  <2>4. b \notin freed' /\ FullBox(mq'[b], h)
    BY <1>1, <1>3, <2>2, <2>3 DEF FullBox
  <2> QED BY <1>0, <1>1, <1>2, <1>5, <2>4 DEF Wakeable, FullSlot, FullBox
<1> QED BY <1>6, <1>7

\* Nobody but p changes what p waits for, how often it was resumed and whom it
\* sends to.
LEMMA WaiterStays ==
  ASSUME ActorsInv, [Next]_vars, NEW p \in Pids, running # p,
         waiting'[p] \notin RecvWaits \cup {"start", "none"}
  PROVE  /\ running' # p /\ waiting'[p] = waiting[p] /\ resumes'[p] = resumes[p]
         /\ sending'[p] = sending[p]
         /\ InTable(processes', p) => InTable(processes, p)
<1>0. /\ DOMAIN waiting = Pids /\ DOMAIN resumes = Pids /\ p # NoPid
  BY PidFields DEF ActorsInv, SchedulerInv, TypeOK
<1>1. sending'[p] = sending[p]
  BY SenderSteps
<1>2. /\ running' # p /\ waiting'[p] = waiting[p] /\ resumes'[p] = resumes[p]
  <2>1. CASE Keeps \/ Drops
    BY <2>1 DEF Keeps, Drops
  <2>2. CASE Creates
    <3>1. PICK n \in Pids : /\ running' = running
                            /\ resumes' = [resumes EXCEPT ![n] = 0]
                            /\ waiting' = [waiting EXCEPT ![n] = "start"]
      BY <2>2, CreatesRunnable
    <3>2. n # p
      BY <1>0, <3>1
    <3> QED BY <1>0, <3>1, <3>2
  <2>3. ASSUME NEW q \in Pids, NEW w, RunsOn(q) \/ Stops(q, w)
        PROVE  /\ running' # p /\ waiting'[p] = waiting[p] /\ resumes'[p] = resumes[p]
    BY <1>0, <2>3 DEF RunsOn, Stops, Park
  <2>4. ASSUME NEW q \in Pids, Starts(q)
        PROVE  /\ running' # p /\ waiting'[p] = waiting[p] /\ resumes'[p] = resumes[p]
    <3>1. q # p
      BY <1>0, <2>4 DEF Starts, RecvWaits
    <3> QED BY <1>0, <2>4, <3>1 DEF Starts
  <2> QED BY <2>1, <2>2, <2>3, <2>4, StepWakes DEF QueueStep
<1>3. ASSUME InTable(processes', p) PROVE InTable(processes, p)
  <2>1. CASE Creates
    <3>1. PICK n \in Pids :
            /\ \A q \in Pids : InTable(processes', q) => InTable(processes, q) \/ q = n
            /\ waiting' = [waiting EXCEPT ![n] = "start"]
      BY <2>1, CreatesRunnable
    <3> QED BY <1>0, <1>3, <3>1
  <2> QED BY <1>3, <2>1, TableShrinks
<1> QED BY <1>1, <1>2, <1>3

LEMMA ThrottleNext ==
  ASSUME ActorsInv, ThrottleInv, SlotsHaveOneSender, [Next]_vars
  PROVE  ThrottleInv'
<1> SUFFICES ASSUME NEW p \in Pids, waiting'[p] = "future"
             PROVE  /\ running' # p /\ sending'[p] \in Pids
                    /\ InTable(processes', p) => Wakeable(p)'
  BY DEF ThrottleInv
<1>1. CASE running = p
  <2>1. waiting[p] # "future"
    BY <1>1 DEF ThrottleInv
  <2>2. ~UNCHANGED vars
    BY <2>1 DEF vars, procVars
  <2>3. WaitForRoom(p)
    BY <1>1, <2>1, <2>2, RunningSteps, FutureIsRoom
  <2> QED BY <2>3, WaitForRoomWakeable
<1>2. CASE running # p
  <2>0. PICK b, h : b = sending[p] /\ h = Continuation(p, resumes[p])
    OBVIOUS
  <2>1. /\ running' # p /\ waiting[p] = "future" /\ resumes'[p] = resumes[p]
        /\ sending'[p] = b /\ b \in Pids
        /\ InTable(processes', p) => InTable(processes, p)
    BY <1>2, <2>0, WaiterStays DEF ThrottleInv, RecvWaits
  <2> SUFFICES ASSUME InTable(processes', p) PROVE Wakeable(p)'
    BY <2>1
  <2>2. InTable(processes, p) /\ (Has(ready, h) \/ FullSlot(b, h))
    BY <2>0, <2>1 DEF ThrottleInv, Wakeable
  <2>3. h \in Handlers /\ h.kind = "continuation" /\ h.pid = p
    BY <2>0, HandlerTypes DEF ActorsInv, SchedulerInv, TypeOK, Continuation
  <2>4. Continuation(p, resumes'[p]) = h
    BY <2>0, <2>1
  <2>5. ASSUME Has(ready', h) \/ FullSlot(b, h)' PROVE Wakeable(p)'
    BY <2>1, <2>4, <2>5 DEF Wakeable, Has, FullSlot
  <2>6. CASE Has(ready, h)
    <3>1. ASSUME RunsNow(h) PROVE FALSE
      <4>1. Live(p) /\ p \notin freed
        BY <2>2 DEF InTable, Indices, Live, ActorsInv, SchedulerInv, Table, TableInv,
          Owned
      <4>2. Continues(Head(ready))
        BY <2>0, <3>1, <4>1 DEF RunsNow, Continues, Continuation
      <4>3. /\ ~\E q \in Pids : RunReused(q)
            /\ ~(RunTimer \/ RunAborted)
        BY <2>3, <3>1, <4>1 DEF RunReused, RunTimer, RunAborted, RunsHandler, RunsNow
      <4>4. running' = p
        BY <2>3, <3>1, <4>2, <4>3 DEF RunsNow, RunContinuation, BeginResume
      <4> QED BY <2>1, <4>4
    <3> QED BY <2>3, <2>5, <2>6, <3>1, ReadyStays
  <2>7. CASE FullSlot(b, h)
    <3>1. Spawned(b)
      BY <2>0, <2>1 DEF ActorsInv, Addressed
    <3>2. ASSUME NEW r \in Pids, WaitForRoom(r), sending[r] = b PROVE FALSE
      <4>1. running = r /\ sending[r] # NoPid
        BY <3>2 DEF WaitForRoom, InCanQueue
      <4>2. r = p
        BY <2>0, <2>2, <3>2, <4>1 DEF SlotsHaveOneSender, InThrottledSend
      <4> QED BY <1>2, <4>1, <4>2
    <3>3. FullSlot(b, h)' \/ Has(ready', h)
      BY <2>1, <2>3, <2>7, <3>1, <3>2, FullSlotStays
    <3> QED BY <2>5, <3>3
  <2> QED BY <2>2, <2>6, <2>7
<1> QED BY <1>1, <1>2

LEMMA ThrottleInit == Init => ThrottleInv
BY DEF Init, ThrottleInv

\* A throttled sender is always wakeable, whatever else happens (its continuation is
\* overtaken by a message, its receiver is killed, its index is recycled), as long as
\* no slot has two senders at a time: EslangPromise has room for one continuation.
THEOREM ThrottledSendersAreWakeable ==
  Spec /\ []SlotsHaveOneSender => []ThrottledSenderIsRegistered
<1>1. ThrottleInv => ThrottledSenderIsRegistered
  BY DEF ThrottleInv, Wakeable, Has, FullSlot, FullBox, ThrottledSenderIsRegistered,
    SuspendedOn, InReady, Live, InTable, Indices
<1>2. ActorsInv /\ ThrottleInv /\ SlotsHaveOneSender /\ [Next]_vars => ThrottleInv'
  BY ThrottleNext
<1> QED BY <1>1, <1>2, ThrottleInit, ActorsInit, ActorsNext, PTL DEF Spec

\* At most one entry of processes_ runs code that calls sendThrottled().
OneSender ==
  \A i, j \in 1..MaxProcs :
    "sendThrottled" \in Ops[i] /\ "sendThrottled" \in Ops[j] => i = j

\* A sender runs the sender's code, and a process that runs on after its death, in
\* an entry that has been recycled, is not overtaken by the one that has it now.
SenderInv ==
  \A p \in Pids :
    /\ sending[p] # NoPid => "sendThrottled" \in Ops[p.idx]
    /\ running = p
         => \A q \in Pids : InTable(processes, q) /\ q.idx = p.idx /\ q # p
                              => sending[q] = NoPid

LEMMA SenderNext ==
  ASSUME ActorsInv, SenderInv, [Next]_vars
  PROVE  SenderInv'
<1>0. DOMAIN sending = Pids /\ processes \in Seq(PidOrNone)
  BY DEF ActorsInv, SchedulerInv, TypeOK
<1>1. ASSUME NEW p \in Pids, sending'[p] # NoPid PROVE "sendThrottled" \in Ops[p.idx]
  BY <1>1, SenderSteps DEF SenderInv, SendThrottled, Calls
<1>2. ASSUME NEW p \in Pids, running' = p, NEW q \in Pids, InTable(processes', q),
             q.idx = p.idx, q # p
      PROVE  sending'[q] = NoPid
  <2>1. CASE Creates
    <3>1. PICK n \in Pids :
            /\ \A r \in Pids : InTable(processes', r) => InTable(processes, r) \/ r = n
            /\ running' = running
            /\ sending' = [sending EXCEPT ![n] = NoPid]
      BY <2>1, CreatesRunnable
    <3>2. CASE q = n
      BY <1>0, <3>1, <3>2
    <3>3. CASE q # n
      BY <1>0, <1>2, <3>1, <3>3 DEF SenderInv
    <3> QED BY <3>2, <3>3
  <2>2. CASE ~Creates
    <3>1. InTable(processes, q)
      BY <1>2, <2>2, TableShrinks
    <3>2. CASE running = p
      BY <1>2, <3>1, <3>2, SenderSteps DEF SenderInv
    <3>3. CASE running # p
      <4>1. Starts(p)
        BY <1>2, <2>2, <3>3, StepWakes, PidFields
        DEF QueueStep, Keeps, Drops, RunsOn, Starts, Stops, Park
      <4>2. InTable(processes, p)
        BY <4>1 DEF Starts
      <4>3. p = q
        BY <1>0, <1>2, <3>1, <4>2, InTableAt
        DEF ActorsInv, SchedulerInv, Table, TableInv, Owned
      <4> QED BY <1>2, <4>3
    <3> QED BY <3>2, <3>3
  <2> QED BY <2>1, <2>2
<1> QED BY <1>1, <1>2 DEF SenderInv

LEMMA OneThrottledSender ==
  ASSUME ActorsInv, SenderInv, OneSender, NEW p \in Pids, NEW q \in Pids,
         InThrottledSend(p), InThrottledSend(q)
  PROVE  p = q
<1>1. p.idx = q.idx
  <2>1. "sendThrottled" \in Ops[p.idx] /\ "sendThrottled" \in Ops[q.idx]
    BY DEF SenderInv, InThrottledSend
  <2> QED BY <2>1, PidFields DEF OneSender
<1>2. CASE running = p \/ running = q
  BY <1>1, <1>2 DEF SenderInv, InThrottledSend
<1>3. CASE InTable(processes, p) /\ InTable(processes, q)
  <2>1. processes \in Seq(PidOrNone)
    BY DEF ActorsInv, SchedulerInv, TypeOK
  <2> QED BY <1>1, <1>3, <2>1, InTableAt
      DEF ActorsInv, SchedulerInv, Table, TableInv, Owned
<1> QED BY <1>2, <1>3 DEF InThrottledSend

\* The same of a program: where at most one entry of processes_ calls
\* sendThrottled(), a throttled sender always stays wakeable. Two such entries
\* are enough to break it (run two_senders).
THEOREM OneSenderIsWakeable ==
  ASSUME OneSender
  PROVE  Spec => []ThrottledSenderIsRegistered
<1>1. Init => SenderInv
  BY DEF Init, SenderInv
<1>2. ActorsInv /\ SenderInv /\ [Next]_vars => SenderInv'
  BY SenderNext
<1>3. ActorsInv /\ SenderInv => SlotsHaveOneSender
  BY OneThrottledSender DEF SlotsHaveOneSender
<1> QED BY <1>1, <1>2, <1>3, ActorsInit, ActorsNext, ThrottledSendersAreWakeable, PTL
        DEF Spec

-----------------------------------------------------------------------------
(* Back pressure: how much mail there can be *)

\* The messages in queue_, and those of a slot.
QueuedMail(q) == {Envelope(q[i].message) : i \in {j \in Indices(q) : IsMessage(q, j)}}
BoxMail(c) == {Envelope(c[i]) : i \in Indices(c)}

LEMMA QueuedMailSize ==
  ASSUME NEW q \in Seq(Items)
  PROVE  IsFiniteSet(QueuedMail(q)) /\ Cardinality(QueuedMail(q)) <= Len(q)
         /\ Cardinality(QueuedMail(q)) \in Nat
<1> DEFINE D == {j \in Indices(q) : IsMessage(q, j)}
           f == [i \in D |-> Envelope(q[i].message)]
<1>1. Len(q) \in Nat /\ IsFiniteSet(1..Len(q)) /\ Cardinality(1..Len(q)) = Len(q)
  <2>1. Len(q) \in Nat
    BY LenProperties
  <2>2. /\ IsFiniteSet(1..Len(q))
        /\ Cardinality(1..Len(q)) = IF 1 > Len(q) THEN 0 ELSE Len(q) - 1 + 1
    BY <2>1, FS_Interval
  <2> QED BY <2>1, <2>2
<1>2. D \in SUBSET (1..Len(q))
  BY DEF Indices
<1>3. IsFiniteSet(D) /\ Cardinality(D) <= Len(q)
  BY <1>1, <1>2, FS_Subset
<1>4. f \in Surjection(D, QueuedMail(q))
  BY DEF Surjection, QueuedMail
<1> HIDE DEF D, f
<1>5. IsFiniteSet(QueuedMail(q)) /\ Cardinality(QueuedMail(q)) <= Cardinality(D)
  BY <1>3, <1>4, FS_Surjection
<1>6. Cardinality(QueuedMail(q)) \in Nat /\ Cardinality(D) \in Nat
  BY <1>3, <1>5, FS_CardinalityType
<1> QED BY <1>1, <1>3, <1>5, <1>6

LEMMA BoxMailSize ==
  ASSUME NEW c \in Seq(Messages), NEW r, NEW q, NEW n, BoxOrder(c, r, q, n)
  PROVE  IsFiniteSet(BoxMail(c)) /\ Cardinality(BoxMail(c)) = Len(c)
<1> DEFINE f == [i \in Indices(c) |-> Envelope(c[i])]
<1>1. /\ Len(c) \in Nat /\ IsFiniteSet(Indices(c)) /\ Cardinality(Indices(c)) = Len(c)
  <2>1. Len(c) \in Nat
    BY LenProperties
  <2>2. /\ IsFiniteSet(1..Len(c))
        /\ Cardinality(1..Len(c)) = IF 1 > Len(c) THEN 0 ELSE Len(c) - 1 + 1
    BY <2>1, FS_Interval
  <2> QED BY <2>1, <2>2 DEF Indices
<1>2. f \in Surjection(Indices(c), BoxMail(c))
  BY DEF Surjection, BoxMail
<1>3. f \in Injection(Indices(c), BoxMail(c))
  <2>1. \A i \in Indices(c) : i \in Nat /\ f[i].stamp = c[i].stamp /\ c[i].stamp \in Nat
    <3>1. \A i \in Indices(c) : i \in Nat /\ c[i] \in Messages
      BY <1>1, ElementOfSeq DEF Indices
    <3> QED BY <3>1 DEF Envelope, Messages
  <2>2. \A i, j \in Indices(c) : i < j => c[i].stamp < c[j].stamp
    BY DEF BoxOrder
  <2>3. f \in [Indices(c) -> BoxMail(c)]
    BY <1>2 DEF Surjection
  <2> HIDE DEF f
  <2>4. ASSUME NEW i \in Indices(c), NEW j \in Indices(c), f[i] = f[j] PROVE i = j
    <3>1. c[i].stamp = c[j].stamp
      BY <2>1, <2>4
    <3> QED BY <2>1, <2>2, <3>1
  <2> QED BY <2>3, <2>4 DEF Injection, IsInjective
<1> HIDE DEF f
<1> QED BY <1>1, <1>2, <1>3, FS_Surjection

LEMMA MailParts ==
  ASSUME NEW c, NEW q, NEW r
  PROVE  /\ BoxMail(c) \subseteq Mail(c, q, r)
         /\ Mail(c, q, r) \subseteq BoxMail(c) \cup QueuedMail(q)
BY DEF Mail, BoxMail, QueuedMail, IsMessage

\* The mail of r is in its slot or in queue_.
LEMMA MailSize ==
  ASSUME NEW c \in Seq(Messages), NEW q \in Seq(Items), NEW r, NEW n,
         BoxOrder(c, r, q, n)
  PROVE  /\ IsFiniteSet(Mail(c, q, r)) /\ Cardinality(Mail(c, q, r)) \in Nat
         /\ Len(c) <= Cardinality(Mail(c, q, r))
         /\ Cardinality(Mail(c, q, r)) <= Len(c) + Cardinality(QueuedMail(q))
<1> DEFINE B == BoxMail(c)
           Q == QueuedMail(q)
           M == Mail(c, q, r)
<1>1. IsFiniteSet(B) /\ Cardinality(B) = Len(c) /\ IsFiniteSet(Q)
      /\ Cardinality(Q) \in Nat /\ Len(c) \in Nat
  BY BoxMailSize, QueuedMailSize, LenProperties
<1>2. B \in SUBSET M /\ M \in SUBSET (B \cup Q)
  BY MailParts
<1> HIDE DEF B, Q, M
<1>3. /\ IsFiniteSet(B \cup Q)
      /\ Cardinality(B \cup Q) = Cardinality(B) + Cardinality(Q) - Cardinality(B \cap Q)
  BY <1>1, FS_Union
<1>4. IsFiniteSet(B \cap Q)
  <2>1. B \cap Q \in SUBSET B
    OBVIOUS
  <2> QED BY <1>1, <2>1, FS_Subset
<1>5. IsFiniteSet(M) /\ Cardinality(M) <= Cardinality(B \cup Q)
  BY <1>2, <1>3, FS_Subset
<1>6. Cardinality(B) <= Cardinality(M)
  BY <1>2, <1>5, FS_Subset
<1>7. /\ Cardinality(B \cap Q) \in Nat
      /\ Cardinality(M) \in Nat
      /\ Cardinality(B \cup Q) \in Nat
  BY <1>3, <1>4, <1>5, FS_CardinalityType
<1> QED BY <1>1, <1>3, <1>5, <1>6, <1>7 DEF B, Q, M

\* What queue_ loses and gains.
LEMMA AppendResumeQueued ==
  ASSUME NEW q \in Seq(Items), NEW p \in Pids, NEW k \in Nat
  PROVE  QueuedMail(Append(q, ResumeItem(p, k))) \subseteq QueuedMail(q)
<1> DEFINE e == ResumeItem(p, k)
           new == Append(q, e)
<1>1. e \in Items /\ e.kind # "message"
  BY ItemTypes DEF ResumeItem, PidOrNone
<1> HIDE DEF e
<1>2. Appended(new, q, e)
  BY <1>1, AppendIndices
<1> HIDE DEF new
<1>3. \A i \in Indices(new) : IsMessage(new, i) => i \in Indices(q) /\ new[i] = q[i]
  BY <1>1, <1>2 DEF IsMessage, Appended
<1>4. QueuedMail(new) \subseteq QueuedMail(q)
  BY <1>3 DEF QueuedMail, IsMessage
<1> QED BY <1>4 DEF new, e

LEMMA TailQueued ==
  ASSUME NEW q \in Seq(Items), q # <<>>
  PROVE  QueuedMail(Tail(q)) \subseteq QueuedMail(q)
<1>1. \A i \in Indices(Tail(q)) : i + 1 \in Indices(q) /\ Tail(q)[i] = q[i + 1]
  BY TailIndices
<1>2. ASSUME NEW x \in QueuedMail(Tail(q)) PROVE x \in QueuedMail(q)
  <2>1. PICK i \in Indices(Tail(q)) :
          IsMessage(Tail(q), i) /\ x = Envelope(Tail(q)[i].message)
    BY DEF QueuedMail
  <2>2. i + 1 \in Indices(q) /\ IsMessage(q, i + 1) /\ x = Envelope(q[i + 1].message)
    BY <1>1, <2>1 DEF IsMessage
  <2> QED BY <2>2 DEF QueuedMail
<1> QED BY <1>2

LEMMA QueueLength ==
  ASSUME NEW q \in Queues(Messages, Handlers), WellFormed(q)
  PROVE  Size(q) = Len(Contents(q))
<1>1. q.stackStorage \in Seq(Messages) /\ q.others \in Seq(Messages)
  BY DEF Queues
<1>2. Len(Contents(q)) = Len(q.stackStorage) + Len(q.others)
  BY <1>1, ConcatProperties DEF Contents
<1>3. CASE q.stackStorage = <<>>
  BY <1>2, <1>3 DEF Size, WellFormed
<1>4. CASE q.stackStorage # <<>>
  <2>1. Size(q) > 0
    BY <1>1, <1>4, LenProperties DEF Size
  <2> QED BY <2>1, PopContents
<1> QED BY <1>3, <1>4

\* Nobody sends but through sendThrottled(): there is no send(), and no process asks
\* for a death notice.
ThrottledOnly ==
  \A i \in 1..MaxProcs : "send" \notin Ops[i] /\ "spawnLinkNotify" \notin Ops[i]

NoNotices == \A p \in Pids : notifyOnDie[p] = NoPid

LEMMA NoNoticesNext ==
  ASSUME ThrottledOnly, ActorsInv, NoNotices, [Next]_vars
  PROVE  NoNotices'
<1> USE DEF vars, linkVars, rest
<1>0. DOMAIN notifyOnDie = Pids
  BY DEF ActorsInv, SchedulerInv, TypeOK
<1>1. ASSUME NEW kill, NEW back, Construct(kill, NoPid, back) PROVE NoNotices'
  BY <1>0, <1>1 DEF Construct, Constructed, NoNotices
<1>2. ASSUME notifyOnDie' = notifyOnDie PROVE NoNotices'
  BY <1>2 DEF NoNotices
<1>3. CASE MainSpawn \/ Run \/ Terminated \/ UNCHANGED vars
  BY <1>1, <1>2, <1>3 DEF MainSpawn, Run, Terminated
<1>4. ASSUME NEW p \in Pids, ProcessStep(p) PROVE NoNotices'
  <2>1. ~SpawnLinkNotify(p)
    BY PidFields DEF SpawnLinkNotify, Calls, ThrottledOnly
  <2>2. CASE Spawn(p) \/ SpawnLink(p)
    BY <1>1, <2>2 DEF Spawn, SpawnLink
  <2>3. ASSUME NEW c \in Pids, SpawnCtorLink(p, c) PROVE NoNotices'
    BY <1>1, <2>3 DEF SpawnCtorLink
  <2>4. ASSUME NEW c \in Pids,
               \/ SpawnThrows(p, c) \/ Link(p, c) \/ QueueKill(p, c)
               \/ Send(p, c) \/ SendThrottled(p, c)
        PROVE  notifyOnDie' = notifyOnDie
    BY <2>4 DEF SpawnThrows, Link, QueueKill, Send, SendThrottled
  <2>5. ASSUME \/ CanQueueNull(p) \/ WaitForRoom(p) \/ ThrottledSend(p)
               \/ Receive(p) \/ AwaitResume(p) \/ Finish(p)
        PROVE  notifyOnDie' = notifyOnDie
    BY <2>5 DEF CanQueueNull, WaitForRoom, ThrottledSend, Receive, AwaitResume, Finish
  <2>6. ASSUME NEW w \in Waits[p.idx], Suspend(p, w) PROVE notifyOnDie' = notifyOnDie
    BY <2>6 DEF Suspend
  <2> QED BY <1>2, <1>4, <2>1, <2>2, <2>3, <2>4, <2>5, <2>6 DEF ProcessStep
<1>5. ASSUME LoopStep PROVE notifyOnDie' = notifyOnDie
  <2>1. CASE Exit \/ RunOne \/ HandlerCrashes \/ EndPoll \/ DestroyDone \/ DestroyNext
             \/ FinishDestroy
    BY <2>1 DEF Exit, RunOne, HandlerCrashes, EndPoll, DestroyDone, DestroyNext,
      FinishDestroy
  <2>2. CASE ProcessMessage \/ ProcessResume \/ RunAborted \/ RunTimer
             \/ RunContinuation
    BY <2>2 DEF ProcessMessage, ProcessResume, RunAborted, RunTimer, RunContinuation
  <2>3. ASSUME NEW p \in Pids, TimerExpires(p) \/ KillLinked(p) \/ RunReused(p)
        PROVE  notifyOnDie' = notifyOnDie
    BY <2>3 DEF TimerExpires, KillLinked, RunReused
  <2> QED BY <1>5, <2>1, <2>2, <2>3 DEF LoopStep
<1> QED BY <1>2, <1>3, <1>4, <1>5 DEF Next

\* Then every message is a throttled one.
LEMMA OnlyThrottledSends ==
  ASSUME ThrottledOnly, ActorsInv, NoNotices, [Next]_vars, sends' # sends
  PROVE  \E p \in Pids : ThrottledSend(p)
<1> USE DEF vars, mailVars, rest
<1>1. ~(MainSpawn \/ Run \/ Terminated \/ UNCHANGED vars)
  BY DEF MainSpawn, Construct, Run, Terminated
<1>2. ASSUME NEW p \in Pids, ProcessStep(p) PROVE ThrottledSend(p)
  <2>1. ~(Spawn(p) \/ SpawnLink(p) \/ SpawnLinkNotify(p))
    BY DEF Spawn, SpawnLink, SpawnLinkNotify, Construct
  <2>2. ASSUME NEW c \in Pids
        PROVE  ~(\/ SpawnCtorLink(p, c) \/ SpawnThrows(p, c) \/ Link(p, c)
                 \/ QueueKill(p, c) \/ SendThrottled(p, c) \/ Send(p, c))
    <3>1. ~Send(p, c)
      BY PidFields DEF Send, Calls, ThrottledOnly
    <3> QED BY <3>1
        DEF SpawnCtorLink, Construct, SpawnThrows, Link, QueueKill, SendThrottled
  <2>3. ~(CanQueueNull(p) \/ WaitForRoom(p) \/ Receive(p) \/ AwaitResume(p) \/ Finish(p))
    BY DEF CanQueueNull, WaitForRoom, Receive, AwaitResume, Finish
  <2>4. ASSUME NEW w \in Waits[p.idx] PROVE ~Suspend(p, w)
    BY DEF Suspend
  <2> QED BY <1>2, <2>1, <2>2, <2>3, <2>4 DEF ProcessStep
<1>3. ~LoopStep
  <2>1. ~(Exit \/ RunOne \/ HandlerCrashes \/ EndPoll \/ DestroyDone \/ DestroyNext)
    BY DEF Exit, RunOne, HandlerCrashes, EndPoll, DestroyDone, DestroyNext
  <2>2. ~FinishDestroy
    <3>1. dying \in PidOrNone
      BY DEF ActorsInv, SchedulerInv, TypeOK
    <3> QED BY <3>1 DEF FinishDestroy, Notifies, NoNotices, PidOrNone
  <2>3. ~(ProcessMessage \/ ProcessResume \/ RunAborted \/ RunTimer \/ RunContinuation)
    BY DEF ProcessMessage, ProcessResume, RunAborted, RunTimer, RunContinuation
  <2>4. ASSUME NEW p \in Pids PROVE ~(TimerExpires(p) \/ KillLinked(p) \/ RunReused(p))
    BY DEF TimerExpires, KillLinked, RunReused
  <2> QED BY <2>1, <2>2, <2>3, <2>4 DEF LoopStep
<1> QED BY <1>1, <1>2, <1>3 DEF Next

\* While a sender is in sendThrottled() nobody else is, so nothing is sent.
LEMMA NobodySends ==
  ASSUME OneSender, ThrottledOnly, ActorsInv, SenderInv, NoNotices, [Next]_vars,
         NEW p \in Pids, InThrottledSend(p), sending'[p] # NoPid
  PROVE  sends' = sends
<1> SUFFICES ASSUME sends' # sends PROVE FALSE
  OBVIOUS
<1>1. PICK r \in Pids : ThrottledSend(r)
  BY OnlyThrottledSends
<1>2. InThrottledSend(r) /\ sending' = [sending EXCEPT ![r] = NoPid]
  BY <1>1 DEF ThrottledSend, InCanQueue, InThrottledSend
<1>3. r = p
  BY <1>2, OneThrottledSender
<1>4. DOMAIN sending = Pids
  BY DEF ActorsInv, SchedulerInv, TypeOK
<1> QED BY <1>2, <1>3, <1>4

\* A step that sends nothing takes at most the front of queue_, or queues a resume.
LEMMA QueueWithoutSend ==
  ASSUME ActorsInv, [Next]_vars, sends' = sends
  PROVE  \/ queue' = queue
         \/ queue # <<>> /\ queue' = Tail(queue)
         \/ \E q \in Pids, k \in Nat : queue' = Append(queue, ResumeItem(q, k))
<1>0. sends \in Nat /\ resumes \in [Pids -> Nat]
  BY DEF ActorsInv, SchedulerInv, TypeOK
<1>1. CASE Keeps
  BY <1>0, <1>1 DEF Keeps, QueueSend
<1>2. CASE Drops
  BY <1>2 DEF Drops
<1>3. CASE Creates
  BY <1>3, CreatesRunnable
<1>4. ASSUME NEW p \in Pids, RunsOn(p) \/ Starts(p)
      PROVE  queue' = queue \/ (queue # <<>> /\ queue' = Tail(queue))
  BY <1>4 DEF RunsOn, Starts
<1>5. ASSUME NEW p \in Pids, NEW w, Stops(p, w)
      PROVE  queue' = queue \/ queue' = Append(queue, ResumeItem(p, resumes[p]))
  BY <1>5 DEF Stops
<1> QED BY <1>0, <1>1, <1>2, <1>3, <1>4, <1>5, StepWakes DEF QueueStep

LEMMA QueuedMailShrinks ==
  ASSUME ActorsInv, [Next]_vars, sends' = sends
  PROVE  /\ Cardinality(QueuedMail(queue')) <= Cardinality(QueuedMail(queue))
         /\ Cardinality(QueuedMail(queue)) \in Nat
         /\ Cardinality(QueuedMail(queue')) \in Nat
<1>0. queue \in Seq(Items) /\ queue' \in Seq(Items)
  BY TypeStep DEF ActorsInv, SchedulerInv, TypeOK
<1>1. QueuedMail(queue') \subseteq QueuedMail(queue)
  BY <1>0, QueueWithoutSend, TailQueued, AppendResumeQueued
<1>2. IsFiniteSet(QueuedMail(queue))
  BY <1>0, QueuedMailSize
<1> QED BY <1>0, <1>1, <1>2, QueuedMailSize, FS_Subset

\* The messages in queue_ come before the resume p waits for.
Behind(p) ==
  \A i, j \in Indices(queue) :
    IsMessage(queue, i) /\ queue[j] = ResumeItem(p, resumes[p]) => i < j

\* As long as the program is defined: the mail of a process stays within the bound,
\* a sender past its yield() has little mail ahead of it, and one in its yield()
\* comes after all of it.
BoundInv ==
  ub = {} =>
    /\ \A p \in Pids : InTable(processes, p)
         => Cardinality(MailNow(p)) <= kThrottle + QueueLimit
    /\ \A p \in Pids : InThrottledSend(p) /\ waiting[p] # "yield"
         => Cardinality(QueuedMail(queue)) <= QueueLimit
    /\ \A p \in Pids : InTable(processes, p) /\ sending[p] # NoPid /\ running # p
                       /\ waiting[p] = "yield" => Behind(p)

\* Where the resume is queued, there is no other.
LEMMA RunningIsBehind ==
  ASSUME ActorsInv, ResumeInv, NEW p \in Pids, running = p
  PROVE  Behind(p)
<1>1. ASSUME NEW j \in Indices(queue), queue[j] = ResumeItem(p, resumes[p])
      PROVE  FALSE
  <2>1. queue[j].kind = "resume" /\ queue[j].pid = p /\ queue[j].resume = resumes[p]
    BY <1>1 DEF ResumeItem
  <2> QED BY <2>1 DEF ResumeInv, Token
<1> QED BY <1>1 DEF Behind

LEMMA BehindStays ==
  ASSUME ActorsInv, [Next]_vars, sends' = sends, NEW p \in Pids, Behind(p),
         resumes'[p] = resumes[p]
  PROVE  Behind(p)'
<1>0. queue \in Seq(Items)
  BY DEF ActorsInv, SchedulerInv, TypeOK
<1>1. PICK e : e = ResumeItem(p, resumes[p])
  OBVIOUS
<1> SUFFICES ASSUME NEW i \in Indices(queue'), NEW j \in Indices(queue'),
                    IsMessage(queue', i), queue'[j] = e
             PROVE  i < j
  BY <1>1 DEF Behind
<1>2. \A k, l \in Indices(queue) : IsMessage(queue, k) /\ queue[l] = e => k < l
  BY <1>1 DEF Behind
<1>3. CASE queue' = queue
  BY <1>2, <1>3
<1>4. CASE queue # <<>> /\ queue' = Tail(queue)
  <2>1. /\ i \in Nat /\ j \in Nat /\ i + 1 \in Indices(queue) /\ j + 1 \in Indices(queue)
        /\ queue'[i] = queue[i + 1] /\ queue'[j] = queue[j + 1]
    BY <1>0, <1>4, TailIndices
  <2>2. i + 1 < j + 1
    BY <1>2, <2>1 DEF IsMessage
  <2> QED BY <2>1, <2>2
<1>5. ASSUME NEW q \in Pids, NEW k \in Nat, queue' = Append(queue, ResumeItem(q, k))
      PROVE  i < j
  <2>1. ResumeItem(q, k) \in Items /\ ResumeItem(q, k).kind # "message"
    BY ItemTypes DEF ResumeItem, PidOrNone
  <2>2. Appended(queue', queue, ResumeItem(q, k))
    BY <1>0, <1>5, <2>1, AppendIndices
  <2>3. i \in Indices(queue) /\ IsMessage(queue, i)
    BY <2>1, <2>2 DEF Appended, IsMessage
  <2>4. CASE j \in Indices(queue)
    BY <1>2, <2>2, <2>3, <2>4 DEF Appended
  <2>5. CASE j = Len(queue) + 1
    BY <2>2, <2>3, <2>5 DEF Appended
  <2> QED BY <2>2, <2>4, <2>5 DEF Appended
<1> QED BY <1>3, <1>4, <1>5, QueueWithoutSend

LEMMA BehindNext ==
  ASSUME OneSender, ThrottledOnly, ActorsInv, SenderInv, NoNotices, WakeInv, BoundInv,
         ub = {}, [Next]_vars, NEW p \in Pids, InTable(processes', p),
         sending'[p] # NoPid, running' # p, waiting'[p] = "yield"
  PROVE  Behind(p)'
<1>1. CASE running = p
  <2>1. sends' = sends
    <3> SUFFICES ASSUME sends' # sends PROVE FALSE
      OBVIOUS
    <3>1. PICK r \in Pids : ThrottledSend(r)
      BY OnlyThrottledSends
    <3>2. running' = running
      BY <3>1 DEF ThrottledSend, loopVars
    <3> QED BY <1>1, <3>2
  <2>2. resumes'[p] = resumes[p]
    <3>0. DOMAIN resumes = Pids /\ DOMAIN waiting = Pids
      BY DEF ActorsInv, SchedulerInv, TypeOK
    <3>1. CASE Keeps \/ Drops
      BY <3>1 DEF Keeps, Drops
    <3>2. CASE Creates
      BY <1>1, <3>2, CreatesRunnable
    <3>3. ASSUME NEW q \in Pids, NEW w, RunsOn(q) \/ Stops(q, w)
          PROVE  resumes' = resumes
      BY <3>3 DEF RunsOn, Stops
    <3>4. ASSUME NEW q \in Pids, Starts(q) PROVE FALSE
      BY <1>1, <3>4, PidFields DEF Starts
    <3> QED BY <3>1, <3>2, <3>3, <3>4, StepWakes DEF QueueStep
  <2>3. Behind(p)
    BY <1>1, RunningIsBehind DEF WakeInv
  <2> QED BY <2>1, <2>2, <2>3, BehindStays
<1>2. CASE running # p
  <2>1. /\ waiting[p] = "yield" /\ resumes'[p] = resumes[p] /\ sending'[p] = sending[p]
        /\ InTable(processes, p)
    BY <1>2, WaiterStays DEF RecvWaits
  <2>2. sends' = sends
    BY <2>1, NobodySends DEF InThrottledSend
  <2>3. Behind(p)
    BY <1>2, <2>1 DEF BoundInv
  <2> QED BY <2>1, <2>2, <2>3, BehindStays
<1> QED BY <1>1, <1>2

\* A process in a yield() is resumed by its turn only.
LEMMA YieldIsResumedByTurn ==
  ASSUME ActorsInv, WakeInv, [Next]_vars, ub' = {}, NEW p \in Pids, running # p,
         running' = p, waiting[p] = "yield"
  PROVE  ByResume(p)
<1>0. ub = {} /\ TypeOK
  BY UndefinedStays DEF ActorsInv, SchedulerInv
<1>1. ~ByMessage(p)
  BY DEF ByMessage, WaitingFor, RecvWaits
<1>2. ASSUME ByHandler(p) PROVE FALSE
  <2>1. /\ ready \in Seq(Handlers) /\ ready # <<>> /\ Head(ready).pid = p
        /\ 1 \in Indices(ready) /\ Head(ready) = ready[1] /\ ready[1] \in Handlers
    <3>1. ready \in Seq(Handlers) /\ ready # <<>> /\ Head(ready).pid = p
      BY <1>0, <1>2 DEF ByHandler, TypeOK
    <3>2. 1 \in Indices(ready) /\ Head(ready) = ready[1]
      BY <3>1, TailIndices
    <3> QED BY <3>1, <3>2, ElementOfSeq DEF Indices
  <2>2. CASE Head(ready).kind = "timer"
    <3>1. Rings(p)
      BY <1>0, <2>1, <2>2 DEF WakeInv, ReceiveInv
    <3> QED BY <3>1 DEF Rings, Sleeps, SleepFor
  <2>3. CASE Head(ready).kind = "continuation" /\ Head(ready).resumes = resumes[p]
    <3>1. Held(ready[1])
      BY <2>1 DEF Held, InReady
    <3>2. Token(p, resumes[p], {"future"})
      BY <2>1, <2>3, <3>1 DEF WakeInv, ContinuationInv
    <3> QED BY <3>2 DEF Token
  <2> QED BY <1>2, <2>2, <2>3 DEF ByHandler
<1> QED BY <1>1, <1>2, WakeReasons

\* By then queue_ holds no message.
LEMMA TurnAfterMail ==
  ASSUME ActorsInv, NEW p \in Pids, ByResume(p), Behind(p)
  PROVE  Cardinality(QueuedMail(queue)) = 0
<1>0. TypeOK /\ queue \in Seq(Items) /\ queue # <<>> /\ Head(queue) \in Items
  BY HeadItem DEF ByResume, ActorsInv, SchedulerInv, TypeOK
<1>1. Head(queue) = ResumeItem(p, resumes[p])
  BY <1>0 DEF ByResume, Items, ResumeItem
<1>2. 1 \in Indices(queue) /\ queue[1] = Head(queue)
  BY <1>0, TailIndices
<1>3. ASSUME NEW i \in Indices(queue), IsMessage(queue, i) PROVE FALSE
  <2>1. i < 1
    BY <1>1, <1>2, <1>3 DEF Behind
  <2> QED BY <2>1 DEF Indices
<1>4. QueuedMail(queue) = {}
  BY <1>3 DEF QueuedMail
<1> QED BY <1>4, FS_EmptySet

LEMMA QueuedNext ==
  ASSUME OneSender, ThrottledOnly, ActorsInv, SenderInv, NoNotices, WakeInv, BoundInv,
         ub' = {}, [Next]_vars, NEW p \in Pids, InThrottledSend(p)',
         waiting'[p] # "yield"
  PROVE  Cardinality(QueuedMail(queue')) <= QueueLimit
<1>0. /\ ub = {} /\ QueueLimit \in Nat /\ sending'[p] # NoPid
      /\ queue \in Seq(Items) /\ DOMAIN waiting = Pids /\ DOMAIN sending = Pids
      /\ Cardinality(QueuedMail(queue)) \in Nat
  <2>1. queue \in Seq(Items)
    BY DEF ActorsInv, SchedulerInv, TypeOK
  <2> QED BY <2>1, UndefinedStays, BoundsAssumption, QueuedMailSize
      DEF InThrottledSend, ActorsInv, SchedulerInv, TypeOK
<1>1. ASSUME sends' = sends, Cardinality(QueuedMail(queue)) <= QueueLimit
      PROVE  Cardinality(QueuedMail(queue')) <= QueueLimit
  BY <1>0, <1>1, QueuedMailShrinks
<1>2. CASE InThrottledSend(p) /\ waiting[p] # "yield"
  BY <1>0, <1>1, <1>2, NobodySends DEF BoundInv
<1>3. CASE InThrottledSend(p) /\ waiting[p] = "yield"
  <2>1. running # p
    <3> SUFFICES ASSUME running = p PROVE FALSE
      OBVIOUS
    <3>1. ProcessStep(p)
      <4>1. ~UNCHANGED vars
        BY <1>3 DEF vars, procVars
      <4> QED BY <4>1, RunningSteps
    <3>2. waiting[p] = "none" \/ waiting[p] \in RecvWaits
      BY <3>1 DEF ProcessStep, Spawn, SpawnLink, SpawnLinkNotify, SpawnCtorLink,
        SpawnThrows, Link, QueueKill, Send, SendThrottled, CanQueueNull, WaitForRoom,
        ThrottledSend, Receive, AwaitResume, Suspend, Finish, Calls, InUserCode,
        InCanQueue
    <3> QED BY <1>3, <3>2 DEF RecvWaits
  <2>2. Starts(p)
    <3>1. CASE Keeps \/ Drops
      BY <1>3, <3>1 DEF Keeps, Drops
    <3>2. CASE Creates
      <4>1. PICK n \in Pids : /\ waiting' = [waiting EXCEPT ![n] = "start"]
                              /\ sending' = [sending EXCEPT ![n] = NoPid]
        BY <3>2, CreatesRunnable
      <4> QED BY <1>0, <1>3, <4>1
    <3>3. ASSUME NEW q \in Pids, NEW w, RunsOn(q) \/ Stops(q, w) PROVE FALSE
      BY <1>0, <1>3, <2>1, <3>3 DEF RunsOn, Stops, Park
    <3>4. ASSUME NEW q \in Pids, Starts(q), q # p PROVE FALSE
      BY <1>0, <1>3, <3>4 DEF Starts
    <3> QED BY <3>1, <3>2, <3>3, <3>4, StepWakes DEF QueueStep
  <2>3. ByResume(p) /\ Behind(p)
    BY <1>0, <1>3, <2>1, <2>2, YieldIsResumedByTurn
    DEF Starts, BoundInv, InThrottledSend
  <2>4. Cardinality(QueuedMail(queue)) <= QueueLimit
    BY <1>0, <2>3, TurnAfterMail
  <2> QED BY <1>0, <1>1, <1>3, <2>4, NobodySends
<1>4. CASE ~InThrottledSend(p) /\ sending[p] = NoPid
  <2>1. PICK c \in Pids : SendThrottled(p, c)
    BY <1>0, <1>4, SenderSteps
  <2>2. Len(queue) <= QueueLimit /\ queue' = queue
    BY <1>0, <2>1 DEF SendThrottled, Park
  <2>3. Len(queue) \in Nat /\ Cardinality(QueuedMail(queue)) <= Len(queue)
    BY <1>0, LenProperties, QueuedMailSize
  <2> QED BY <1>0, <2>2, <2>3
<1>5. CASE ~InThrottledSend(p) /\ sending[p] # NoPid
  <2>1. running # p /\ ~InTable(processes, p)
    BY <1>5 DEF InThrottledSend
  <2>2. CASE Creates
    <3>1. PICK n \in Pids :
            /\ \A q \in Pids : InTable(processes', q) => InTable(processes, q) \/ q = n
            /\ running' = running /\ sending' = [sending EXCEPT ![n] = NoPid]
      BY <2>2, CreatesRunnable
    <3>2. InTable(processes', p)
      BY <2>1, <3>1 DEF InThrottledSend
    <3> QED BY <1>0, <2>1, <3>1, <3>2
  <2>3. CASE ~Creates
    <3>1. running' = p
      BY <2>1, <2>3, TableShrinks DEF InThrottledSend
    <3>2. Starts(p)
      BY <2>1, <2>3, <3>1, StepWakes, PidFields
      DEF QueueStep, Keeps, Drops, RunsOn, Starts, Stops, Park
    <3> QED BY <2>1, <3>2 DEF Starts
  <2> QED BY <2>2, <2>3
<1> QED BY <1>2, <1>3, <1>4, <1>5

\* A slot that is not full, and little mail ahead.
LEMMA ThrottledSendSize ==
  ASSUME ActorsInv, BoundInv, ub = {}, NEW p \in Pids, ThrottledSend(p),
         NEW b \in Pids, InTable(processes, b), SameBoxes
  PROVE  Cardinality(MailThen(b)) <= kThrottle + QueueLimit
<1>0. /\ TypeOK /\ queue \in Seq(Items) /\ mq[b] \in Queues(Messages, Handlers)
      /\ Contents(mq[b]) \in Seq(Messages) /\ sends \in Nat
      /\ BoxOrder(Contents(mq[b]), b, queue, sends) /\ WellFormed(mq[b])
      /\ kThrottle \in Nat /\ QueueLimit \in Nat
  BY MailTypes, ThrottleAssumption, BoundsAssumption
  DEF ActorsInv, SchedulerInv, MailInv
<1>1. /\ IsFiniteSet(MailNow(b)) /\ Cardinality(MailNow(b)) \in Nat
      /\ Cardinality(MailNow(b)) <= Len(Contents(mq[b])) + Cardinality(QueuedMail(queue))
  BY <1>0, MailSize DEF MailNow
<1>2. /\ running = p /\ waiting[p] = "none" /\ sending[p] # NoPid
      /\ ~MustWait(p) /\ QueueSend(sending[p], NoPid) /\ noticed' = noticed
  BY DEF ThrottledSend, InCanQueue
<1>3. sending[p] \in Pids
  BY <1>0, <1>2 DEF TypeOK, PidOrNone
<1>4. Sent(sending[p], NoPid)
  BY <1>2, <1>3 DEF Sent, ActorsInv, Addressed, PidOrNone
<1>5. MailThen(b) = IF b = sending[p]
                    THEN MailNow(b) \cup {[body |-> NoPid, stamp |-> sends]}
                    ELSE MailNow(b)
  BY <1>0, <1>4, SentMail
<1>6. CASE b # sending[p]
  BY <1>5, <1>6 DEF BoundInv
<1>7. CASE b = sending[p]
  <2>1. Found(processes, b) /\ Proc(b) = b
    <3>1. processes \in Seq(PidOrNone)
      BY <1>0 DEF TypeOK
    <3>2. b.idx \in Indices(processes) /\ processes[b.idx] = b
      BY <3>1, InTableAt DEF ActorsInv, SchedulerInv, Table, TableInv, Owned
    <3> QED BY <3>2, PidFields DEF Found, Proc, Indices
  <2>2. ~ShouldThrottle(mq[b])
    BY <1>2, <1>7, <2>1 DEF MustWait
  <2>3. Size(mq[b]) = Len(Contents(mq[b])) /\ Len(Contents(mq[b])) \in Nat
    BY <1>0, QueueLength, LenProperties
  <2>4. Len(Contents(mq[b])) < kThrottle
    BY <1>0, <2>2, <2>3 DEF ShouldThrottle
  <2>5. Cardinality(QueuedMail(queue)) <= QueueLimit
        /\ Cardinality(QueuedMail(queue)) \in Nat
    <3>1. InThrottledSend(p) /\ waiting[p] # "yield"
      BY <1>2 DEF InThrottledSend
    <3> QED BY <1>0, <3>1, QueuedMailSize DEF BoundInv
  <2>6. PICK x : MailThen(b) = MailNow(b) \cup {x}
    BY <1>5, <1>7
  <2>7. Cardinality(MailThen(b)) = IF x \in MailNow(b) THEN Cardinality(MailNow(b))
                                   ELSE Cardinality(MailNow(b)) + 1
    BY <1>1, <2>6, FS_AddElement
  <2> QED BY <1>0, <1>1, <2>3, <2>4, <2>5, <2>7
<1> QED BY <1>6, <1>7

LEMMA MailBoundNext ==
  ASSUME OneSender, ThrottledOnly, ActorsInv, SenderInv, NoNotices, BoundInv, ub = {},
         [Next]_vars, NEW b \in Pids, InTable(processes', b)
  PROVE  Cardinality(MailThen(b)) <= kThrottle + QueueLimit
<1>0. /\ TypeOK /\ Table /\ Addressed /\ MailInv /\ queue \in Seq(Items)
      /\ Contents(mq[b]) \in Seq(Messages)
      /\ BoxOrder(Contents(mq[b]), b, queue, sends)
      /\ kThrottle \in Nat /\ QueueLimit \in Nat
  <2>1. TypeOK /\ Table /\ Addressed /\ MailInv
    BY DEF ActorsInv, SchedulerInv
  <2>2. queue \in Seq(Items) /\ Contents(mq[b]) \in Seq(Messages)
    BY <2>1, MailTypes
  <2> QED BY <2>1, <2>2, ThrottleAssumption, BoundsAssumption DEF MailInv
<1>1. IsFiniteSet(MailNow(b)) /\ Cardinality(MailNow(b)) \in Nat
  BY <1>0, MailSize DEF MailNow
<1>2. ASSUME InTable(processes, b), MailThen(b) \subseteq MailNow(b)
      PROVE  Cardinality(MailThen(b)) <= kThrottle + QueueLimit
  <2>1. /\ Cardinality(MailThen(b)) <= Cardinality(MailNow(b))
        /\ IsFiniteSet(MailThen(b))
    BY <1>1, <1>2, FS_Subset
  <2>2. Cardinality(MailNow(b)) <= kThrottle + QueueLimit
    BY <1>2 DEF BoundInv
  <2>3. Cardinality(MailThen(b)) \in Nat
    BY <2>1, FS_CardinalityType
  <2> QED BY <1>0, <1>1, <2>1, <2>2, <2>3
<1>3. CASE Creates
  <2>1. PICK kill \in SUBSET Pids, back \in SUBSET Pids, notify \in PidOrNone :
          Construct(kill, notify, back)
    BY <1>3 DEF Creates
  <2>2. /\ MailThen(NextPid) = {}
        /\ \A s \in Pids \ {NextPid} : MailThen(s) = MailNow(s)
    BY <1>0, <2>1, CreatedMail
  <2>3. InTable(processes, b) \/ b = NextPid
    BY <1>0, <2>1, ConstructFresh
  <2>4. CASE b = NextPid
    <3>1. MailThen(b) = {} /\ Cardinality({}) = 0
      BY <2>2, <2>4, FS_EmptySet
    <3>2. Cardinality(MailThen(b)) = 0
      BY <3>1
    <3> QED BY <1>0, <3>2
  <2>5. CASE b # NextPid
    BY <1>2, <2>2, <2>3, <2>5
  <2> QED BY <2>4, <2>5
<1>4. CASE ~Creates
  <2>0. InTable(processes, b)
    BY <1>4, TableShrinks
  <2>1. ASSUME NoMail PROVE MailThen(b) = MailNow(b)
    BY <1>0, <2>1, NoMailMail
  <2>2. CASE Quiet
    BY <1>0, <1>2, <2>0, <2>1, <2>2, DroppedMail, MovedMail DEF Quiet
  <2>3. CASE Links
    <3>1. NoMail
      BY <1>0, <2>3, BoxesFrame DEF Links, Link, NoMail, mailVars
    <3> QED BY <1>2, <2>0, <2>1, <3>1
  <2>4. CASE Takes
    <3>1. PICK p \in Pids : Taken(p)
      BY <2>4 DEF Takes
    <3>2. MailThen(b) \subseteq MailNow(b)
      BY <1>0, <3>1, TakenMail
    <3> QED BY <1>2, <2>0, <3>2
  <2>5. ASSUME NEW d \in Pids, Dies(d) PROVE MailThen(b) = MailNow(b)
    BY <2>1, <2>5 DEF Dies
  <2>6. CASE FinishDestroy
    <3>1. NoMail
      BY <1>0, <2>6, FinishSends, PidFields DEF NoNotices
    <3> QED BY <1>2, <2>0, <2>1, <3>1
  <2>7. CASE Sends
    <3>1. sends' = sends + 1 /\ SameBoxes /\ sends \in Nat
      BY <1>0, <2>7, MailTypes DEF Sends, Sent, QueueSend
    <3>2. PICK p \in Pids : ThrottledSend(p)
      BY <3>1, OnlyThrottledSends
    <3> QED BY <2>0, <3>1, <3>2, ThrottledSendSize
  <2> QED BY <1>2, <1>4, <2>0, <2>2, <2>3, <2>4, <2>5, <2>6, <2>7, ActorsNext
      DEF ActorStep
<1> QED BY <1>3, <1>4

LEMMA BoundNext ==
  ASSUME OneSender, ThrottledOnly, ActorsInv, SenderInv, NoNotices, WakeInv, BoundInv,
         [Next]_vars
  PROVE  BoundInv'
<1> SUFFICES ASSUME ub' = {}
             PROVE  /\ \A p \in Pids : InTable(processes', p)
                         => Cardinality(MailThen(p)) <= kThrottle + QueueLimit
                    /\ \A p \in Pids : InThrottledSend(p)' /\ waiting'[p] # "yield"
                         => Cardinality(QueuedMail(queue')) <= QueueLimit
                    /\ \A p \in Pids : InTable(processes', p) /\ sending'[p] # NoPid
                                       /\ running' # p /\ waiting'[p] = "yield"
                                         => Behind(p)'
  BY DEF BoundInv, MailNow, MailThen, InThrottledSend, Behind
<1>1. ub = {}
  BY UndefinedStays
<1>2. \A p \in Pids : InTable(processes', p)
        => Cardinality(MailThen(p)) <= kThrottle + QueueLimit
  BY <1>1, MailBoundNext
<1>3. \A p \in Pids : InThrottledSend(p)' /\ waiting'[p] # "yield"
        => Cardinality(QueuedMail(queue')) <= QueueLimit
  BY QueuedNext
<1>4. \A p \in Pids : InTable(processes', p) /\ sending'[p] # NoPid
                      /\ running' # p /\ waiting'[p] = "yield" => Behind(p)'
  BY <1>1, BehindNext
<1> QED BY <1>2, <1>3, <1>4

LEMMA BoundInit == Init => BoundInv /\ NoNotices /\ SenderInv
<1> SUFFICES ASSUME Init PROVE BoundInv /\ NoNotices /\ SenderInv
  OBVIOUS
<1>1. /\ \A p \in Pids : ~InTable(processes, p) /\ ~InThrottledSend(p)
      /\ NoNotices
  BY PidFields DEF Init, InTable, Indices, InThrottledSend, NoNotices
<1> QED BY <1>1 DEF Init, BoundInv, SenderInv

\* Back pressure works: where one process sends, and only through sendThrottled(),
\* the slot of a receiver never holds more than kThrottle + QueueLimit messages, as
\* long as the program is defined. (A continuation that finds another process in the
\* memory of its own can resume a sender out of its yield() too early.)
THEOREM ThrottledSlotsAreBounded ==
  ASSUME OneSender, ThrottledOnly
  PROVE  Spec => [](ub = {} => BackPressureBound)
<1>1. ActorsInv /\ BoundInv => (ub = {} => BackPressureBound)
  <2> SUFFICES ASSUME ActorsInv, BoundInv, ub = {}, NEW p \in Pids, Live(p)
               PROVE  Size(mq[p]) <= kThrottle + QueueLimit
    BY DEF BackPressureBound
  <2>0. /\ queue \in Seq(Items) /\ mq[p] \in Queues(Messages, Handlers)
        /\ Contents(mq[p]) \in Seq(Messages) /\ WellFormed(mq[p])
        /\ BoxOrder(Contents(mq[p]), p, queue, sends)
        /\ kThrottle \in Nat /\ QueueLimit \in Nat
    BY MailTypes, ThrottleAssumption, BoundsAssumption
    DEF ActorsInv, SchedulerInv, MailInv
  <2>1. Cardinality(MailNow(p)) <= kThrottle + QueueLimit
    BY DEF BoundInv, Live, InTable, Indices
  <2>2. Len(Contents(mq[p])) <= Cardinality(MailNow(p)) /\ Cardinality(MailNow(p)) \in Nat
    BY <2>0, MailSize DEF MailNow
  <2>3. Size(mq[p]) = Len(Contents(mq[p])) /\ Len(Contents(mq[p])) \in Nat
    BY <2>0, QueueLength, LenProperties
  <2> QED BY <2>0, <2>1, <2>2, <2>3
<1>2. ActorsInv /\ SenderInv /\ NoNotices /\ WakeInv /\ BoundInv /\ [Next]_vars
        => SenderInv' /\ NoNotices' /\ BoundInv'
  BY SenderNext, NoNoticesNext, BoundNext
<1> QED BY <1>1, <1>2, BoundInit, WakeupsCorrect, PTL DEF Spec

-----------------------------------------------------------------------------
(* Whoever receives or sleeps is woken: what it waits for has not happened yet. *)

\* p is in the table, and not in its own code.
Suspended(p) == InTable(processes, p) /\ running # p

\* A process that waits for a message has none.
NoneOverlooked ==
  \A p \in Pids : Suspended(p) /\ waiting[p] \in RecvWaits => Contents(mq[p]) = <<>>

\* The timer of a process that sleeps is pending, or its handler is ready.
AlarmsSet ==
  \A p \in Pids : Suspended(p) /\ waiting[p] = "sleep"
    => p \in timers \/ Has(ready, TimerHandler(p))

\* Only processQueueItem() takes an item out of queue_.
LEMMA TailSteps ==
  ASSUME TypeOK, [Next]_vars, queue # <<>>, queue' = Tail(queue)
  PROVE  ProcessMessage \/ ProcessResume
<1> USE DEF vars, mailVars, rest
<1>0. PICK n \in Nat : Len(queue) = n /\ Len(queue') = n - 1 /\ queue \in Seq(Items)
  BY HeadTailProperties, LenProperties DEF TypeOK
<1>1. queue' # queue
  <2>1. n - 1 # n
    OBVIOUS
  <2> QED BY <1>0, <2>1
<1>2. ASSUME NEW e \in Items PROVE queue' # Append(queue, e)
  <2>1. Len(Append(queue, e)) = n + 1 /\ n + 1 # n - 1
    BY <1>0, AppendProperties
  <2> QED BY <1>0, <2>1
<1>3. ASSUME NEW p \in Pids, NEW k \in Nat PROVE queue' # Append(queue, ResumeItem(p, k))
  BY <1>2, ItemTypes DEF PidOrNone
<1>4. ASSUME NEW to \in Pids, NEW body \in PidOrNone PROVE ~QueueSend(to, body)
  BY <1>2, ItemTypes DEF QueueSend, TypeOK
<1>5. ASSUME NEW kill, NEW notify, NEW back PROVE ~Construct(kill, notify, back)
  BY <1>3 DEF Construct, Constructed
<1>6. ~(MainSpawn \/ Run \/ Terminated \/ UNCHANGED vars)
  BY <1>1, <1>5 DEF MainSpawn, Run, Terminated
<1>7. ASSUME NEW p \in Pids PROVE ~ProcessStep(p)
  <2>0. resumes[p] \in Nat /\ NoPid \in PidOrNone
    BY DEF TypeOK, PidOrNone
  <2>1. ~(Spawn(p) \/ SpawnLink(p) \/ SpawnLinkNotify(p))
    BY <1>5 DEF Spawn, SpawnLink, SpawnLinkNotify
  <2>2. \A c \in Pids : ~(SpawnCtorLink(p, c) \/ Send(p, c))
    BY <1>4, <1>5, <2>0 DEF SpawnCtorLink, Send
  <2>3. \A c \in Pids : ~(SpawnThrows(p, c) \/ Link(p, c) \/ QueueKill(p, c))
    BY <1>1 DEF SpawnThrows, Link, QueueKill
  <2>4. \A c \in Pids : ~SendThrottled(p, c)
    BY <1>1, <1>3, <2>0 DEF SendThrottled
  <2>5. ~(CanQueueNull(p) \/ WaitForRoom(p) \/ Finish(p))
    BY <1>1 DEF CanQueueNull, WaitForRoom, Finish
  <2>6. ~ThrottledSend(p)
    BY <1>4, <2>0 DEF ThrottledSend, InCanQueue, TypeOK, PidOrNone
  <2>7. ~(Receive(p) \/ AwaitResume(p))
    BY <1>1 DEF Receive, AwaitResume
  <2>8. \A w \in Waits[p.idx] : ~Suspend(p, w)
    BY <1>1, <1>3, <2>0 DEF Suspend
  <2> QED BY <2>1, <2>2, <2>3, <2>4, <2>5, <2>6, <2>7, <2>8 DEF ProcessStep
<1>8. ~(Exit \/ RunOne \/ HandlerCrashes \/ EndPoll \/ DestroyNext \/ DestroyDone)
  BY <1>1 DEF Exit, RunOne, HandlerCrashes, EndPoll, DestroyNext, DestroyDone
<1>9. ~(RunAborted \/ RunTimer \/ RunContinuation)
  BY <1>1 DEF RunAborted, RunTimer, RunContinuation
<1>10. \A q \in Pids : ~(TimerExpires(q) \/ RunReused(q) \/ KillLinked(q))
  BY <1>1 DEF TimerExpires, RunReused, KillLinked
<1>11. ~FinishDestroy
  <2>1. FinishDestroy /\ Notifies(dying)
          => notifyOnDie[dying] \in Pids /\ dying \in PidOrNone
    BY DEF FinishDestroy, Notifies, TypeOK, PidOrNone
  <2> QED BY <1>1, <1>4, <2>1 DEF FinishDestroy
<1> QED BY <1>6, <1>7, <1>8, <1>9, <1>10, <1>11 DEF Next, LoopStep

\* A message for a process that waits for one resumes it.
LEMMA MessageWakes ==
  ASSUME ActorsInv, ProcessMessage, NEW p \in Pids, WaitingFor(p), running' # p
  PROVE  Contents(mq'[p]) = Contents(mq[p])
<1> DEFINE i == Head(queue)
           t == Proc(i.pid)
           boxes == IF Accepts(i) THEN [mq EXCEPT ![t] = Push(@, i.message)] ELSE mq
<1>0. TypeOK /\ mq \in [Pids -> Queues(Messages, Handlers)]
  BY DEF ActorsInv, SchedulerInv, TypeOK
<1>1. /\ queue # <<>> /\ i.kind = "message"
      /\ IF Accepts(i) /\ WaitingFor(t)
         THEN BeginResume(t, boxes, ready, {}) ELSE NoResume(boxes, ready, {})
  BY DEF ProcessMessage
<1>2. i.message \in Messages /\ i.pid \in Pids
  BY <1>0, <1>1, HeadItem, ItemFields
<1>3. Accepts(i) => t \in Pids
  BY <1>0, <1>2, ProcInTable DEF Accepts
<1> HIDE DEF i, t
<1>4. ~(Accepts(i) /\ t = p)
  BY <1>1 DEF BeginResume
<1>5. boxes \in [Pids -> Queues(Messages, Handlers)] /\ boxes[p] = mq[p]
  <2>1. CASE Accepts(i)
    <3>1. mq[t] \in Queues(Messages, Handlers)
      BY <1>0, <1>3, <2>1
    <3>2. Push(mq[t], i.message) \in Queues(Messages, Handlers)
      BY <1>2, <3>1, QueueTypes
    <3> QED BY <1>0, <1>4, <2>1, <3>2
  <2>2. CASE ~Accepts(i)
    BY <1>0, <2>2
  <2> QED BY <2>1, <2>2
<1> HIDE DEF boxes
<1>6. mq' = boxes \/ \E b, x : mq' = [boxes EXCEPT ![b].p_ = x]
  BY <1>1 DEF BeginResume, NoResume
<1>7. ASSUME NEW b, NEW x, mq' = [boxes EXCEPT ![b].p_ = x]
      PROVE  Contents(mq'[p]) = Contents(boxes[p])
  BY <1>5, <1>7, PromiseOnly DEF SameBox
<1> QED BY <1>5, <1>6, <1>7

LEMMA ReceiverStaysEmpty ==
  ASSUME ActorsInv, [Next]_vars, NEW p \in Pids, InTable(processes, p), running # p,
         running' # p, WaitingFor(p)
  PROVE  Contents(mq'[p]) = Contents(mq[p])
<1> DEFINE Goal == Contents(mq'[p]) = Contents(mq[p])
<1>0. TypeOK /\ ActorStep
  BY ActorsNext DEF ActorsInv, SchedulerInv
<1>1. CASE ProcessMessage
  BY <1>1, MessageWakes
<1>2. ASSUME Moved PROVE Goal
  <2>1. ~ProcessResume
    BY <1>2 DEF Moved, ProcessResume
  <2> QED BY <1>0, <1>1, <1>2, <2>1, TailSteps DEF Moved
<1>3. ASSUME SameBoxes PROVE Goal
  BY <1>3 DEF SameBoxes, SameBox
<1>4. CASE Quiet
  BY <1>2, <1>3, <1>4 DEF Quiet, NoMail, Dropped
<1>5. CASE Creates
  <2>1. PICK kill, notify, back : Construct(kill, notify, back)
    BY <1>5 DEF Creates
  <2>2. NextPid # p
    BY <2>1, ConstructFresh DEF ActorsInv, SchedulerInv, Known
  <2>3. mq' = [mq EXCEPT ![NextPid] = NewQueue] /\ DOMAIN mq = Pids
    BY <1>0, <2>1 DEF Construct, Constructed, TypeOK
  <2> QED BY <2>2, <2>3
<1>6. CASE Links
  BY <1>6 DEF Links, Link, mailVars
<1>7. CASE Sends
  BY <1>3, <1>7 DEF Sends, Sent
<1>8. CASE Takes
  BY <1>8 DEF Takes, Taken, SameBox
<1>9. ASSUME NEW b \in Pids, Dies(b) PROVE Goal
  BY <1>3, <1>9 DEF Dies, NoMail
<1>10. CASE FinishDestroy
  <2>1. PICK x : mq' = [mq EXCEPT ![dying].p_ = x]
    BY <1>10 DEF FinishDestroy
  <2>2. mq \in [Pids -> Queues(Messages, Handlers)]
    BY <1>0 DEF TypeOK
  <2>3. SameBox(mq'[p], mq[p])
    BY <2>1, <2>2, PromiseOnly
  <2> QED BY <2>3 DEF SameBox
<1> QED BY <1>0, <1>4, <1>5, <1>6, <1>7, <1>8, <1>9, <1>10 DEF ActorStep

\* What a step does to the wait of p, seen from outside.
LEMMA WaitSteps ==
  ASSUME ActorsInv, [Next]_vars, NEW p \in Pids, running # p
  PROVE  \/ waiting'[p] = waiting[p] /\ (InTable(processes', p) => InTable(processes, p))
         \/ running' = p /\ waiting'[p] = "none"
         \/ waiting'[p] = "start" /\ ~Spawned(p)
<1>0. DOMAIN waiting = Pids /\ p # NoPid
  BY PidFields DEF ActorsInv, SchedulerInv, TypeOK
<1>1. CASE Creates
  <2>1. PICK n \in Pids :
          /\ ~Spawned(n)
          /\ \A q \in Pids : InTable(processes', q) => InTable(processes, q) \/ q = n
          /\ waiting' = [waiting EXCEPT ![n] = "start"]
    BY <1>1, CreatesRunnable
  <2> QED BY <1>0, <2>1
<1>2. CASE ~Creates
  <2>1. InTable(processes', p) => InTable(processes, p)
    BY <1>2, TableShrinks
  <2>2. CASE Keeps \/ Drops
    BY <2>1, <2>2 DEF Keeps, Drops
  <2>3. ASSUME NEW q \in Pids, NEW w, RunsOn(q) \/ Stops(q, w)
        PROVE  waiting'[p] = waiting[p]
    BY <1>0, <2>3 DEF RunsOn, Stops, Park
  <2>4. ASSUME NEW q \in Pids, Starts(q)
        PROVE  waiting'[p] = waiting[p] \/ (running' = p /\ waiting'[p] = "none")
    BY <1>0, <2>4 DEF Starts
  <2> QED BY <1>2, <2>1, <2>2, <2>3, <2>4, StepWakes DEF QueueStep
<1> QED BY <1>1, <1>2

LEMMA NoneOverlookedNext ==
  ASSUME ActorsInv, NoneOverlooked, [Next]_vars
  PROVE  NoneOverlooked'
<1> SUFFICES ASSUME NEW p \in Pids, InTable(processes', p), running' # p,
                    waiting'[p] \in RecvWaits
             PROVE  Contents(mq'[p]) = <<>>
  BY DEF NoneOverlooked, Suspended, RecvWaits
<1>0. /\ mq[p] \in Queues(Messages, Handlers) /\ WellFormed(mq[p])
      /\ Contents(mq[p]) \in Seq(Messages) /\ DOMAIN waiting = Pids
  BY MailTypes DEF ActorsInv, SchedulerInv, TypeOK, MailInv
<1>1. CASE running # p
  <2>1. waiting'[p] = waiting[p] /\ InTable(processes, p)
    BY <1>1, WaitSteps DEF RecvWaits
  <2> QED BY <1>1, <2>1, ReceiverStaysEmpty
       DEF NoneOverlooked, Suspended, WaitingFor
<1>2. CASE running = p
  <2>1. ProcessStep(p)
    BY <1>2, RunningSteps DEF vars, loopVars
  <2>2. PICK w \in Waits[p.idx] : Suspend(p, w)
    <3> USE DEF loopVars
    <3>1. ~(Spawn(p) \/ SpawnLink(p) \/ SpawnLinkNotify(p))
      BY <1>2 DEF Spawn, SpawnLink, SpawnLinkNotify, Construct
    <3>2. \A c \in Pids : ~(SpawnCtorLink(p, c) \/ Link(p, c) \/ QueueKill(p, c)
                            \/ Send(p, c))
      BY <1>2 DEF SpawnCtorLink, Construct, Link, QueueKill, Send
    <3>3. \A c \in Pids : ~SpawnThrows(p, c)
      BY <1>0 DEF SpawnThrows, Ends, RecvWaits
    <3>4. \A c \in Pids : ~SendThrottled(p, c)
      BY <1>0, <1>2 DEF SendThrottled, Park, RecvWaits
    <3>5. ~(WaitForRoom(p) \/ Finish(p))
      BY <1>0 DEF WaitForRoom, Park, Finish, Ends, RecvWaits
    <3>6. ~CanQueueNull(p)
      BY DEF CanQueueNull, InCanQueue, procVars, RecvWaits
    <3>7. ~(ThrottledSend(p) \/ Receive(p))
      BY <1>2 DEF ThrottledSend, Receive
    <3>8. ~AwaitResume(p)
      BY <1>0, <1>2 DEF AwaitResume, Ends, RecvWaits
    <3> QED BY <2>1, <3>1, <3>2, <3>3, <3>4, <3>5, <3>6, <3>7, <3>8 DEF ProcessStep
  <2>3. w = waiting'[p] /\ ~(Size(mq[p]) > 0) /\ mq' = mq
    BY <1>0, <2>2 DEF Suspend, Park, AwaitReady
  <2> QED BY <1>0, <2>3, ContentsSize
<1> QED BY <1>1, <1>2

LEMMA AlarmsNext ==
  ASSUME ActorsInv, AlarmsSet, [Next]_vars
  PROVE  AlarmsSet'
<1> SUFFICES ASSUME NEW p \in Pids, InTable(processes', p), running' # p,
                    waiting'[p] = "sleep"
             PROVE  p \in timers' \/ Has(ready', TimerHandler(p))
  BY DEF AlarmsSet, Suspended, Has, TimerHandler
<1> DEFINE Goal == p \in timers' \/ Has(ready', TimerHandler(p))
<1>0. /\ DOMAIN waiting = Pids /\ p # NoPid /\ ready \in Seq(Handlers)
  BY PidFields DEF ActorsInv, SchedulerInv, TypeOK
<1>1. CASE running = p
  <2>1. ~Creates
    BY <1>1, CreatesRunnable
  <2>2. PICK w : Stops(p, w)
    BY <1>0, <1>1, <2>1, StepWakes DEF QueueStep, Keeps, Drops, RunsOn, Starts, Stops
  <2>3. w = "sleep"
    BY <1>0, <2>2 DEF Stops, Park
  <2> QED BY <2>2, <2>3 DEF Stops, SleepFor
<1>2. CASE running # p
  <2>1. InTable(processes, p) /\ waiting[p] = "sleep"
    BY <1>2, WaiterStays DEF RecvWaits
  <2>2. Live(p) /\ p # dying
    BY <2>1 DEF InTable, Indices, Live, ActorsInv, SchedulerInv, Table, TableInv, Owned
  <2>3. CASE Has(ready, TimerHandler(p))
    <3>1. TimerHandler(p) \in Handlers /\ TimerHandler(p).kind = "timer"
          /\ TimerHandler(p).pid = p
      BY HandlerTypes DEF TimerHandler
    <3>2. ASSUME RunsNow(TimerHandler(p)) PROVE FALSE
      <4>1. RunTimer
        BY <3>1, <3>2 DEF RunsNow, RunAborted, RunContinuation, RunReused, RunsHandler
      <4> QED BY <2>2, <3>1, <3>2, <4>1 DEF RunsNow, RunTimer, BeginResume
    <3> QED BY <2>3, <3>1, <3>2, ReadyStays
  <2>4. CASE p \in timers
    <3>1. CASE Creates
      BY <2>4, <3>1, CreatesRunnable
    <3>2. CASE Keeps
      <4>1. CASE TimerExpires(p)
        <5>1. ready' = Append(ready, TimerHandler(p)) /\ TimerHandler(p) \in Handlers
          BY <4>1, HandlerTypes DEF TimerExpires
        <5> QED BY <1>0, <5>1, AppendIsConcat, HasLast
      <4> QED BY <2>2, <2>4, <3>2, <4>1 DEF Keeps
    <3>3. CASE Drops
      BY <2>4, <3>3 DEF Drops
    <3>4. ASSUME NEW q \in Pids, NEW w, RunsOn(q) \/ Stops(q, w) \/ Starts(q)
          PROVE  Goal
      BY <2>4, <3>4 DEF RunsOn, Stops, Starts
    <3> QED BY <3>1, <3>2, <3>3, <3>4, StepWakes DEF QueueStep
  <2> QED BY <1>2, <2>1, <2>3, <2>4 DEF AlarmsSet, Suspended
<1> QED BY <1>1, <1>2
=============================================================================
