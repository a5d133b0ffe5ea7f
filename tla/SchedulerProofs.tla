--------------------------- MODULE SchedulerProofs ---------------------------
(***************************************************************************)
(* The loop of Context::run(): what it runs, what it deletes and when it    *)
(* returns.                                                                 *)
(***************************************************************************)
EXTENDS ContextProofs, FiniteSetTheorems

Exists(procs, td, p) == InTable(procs, p) \/ InDoom(td, p)

\* A process runs only while nothing is being destroyed, and its object is in
\* the table or in toDestroy_; destroy() is only called from the destroy loop,
\* which leaves toDestroy_ empty.
LoopInv ==
  /\ running # NoPid => /\ at \in {"destroy", "poll"}
                        /\ dying = NoPid
                        /\ Exists(processes, toDestroy, running)
  /\ dying # NoPid => at \in {"destroy", "crashed"}
  /\ at \in {"main", "top", "wait", "exit"} => toDestroy = <<>>

\* A step only starts a process that is in the table.
RunsTheLiving ==
  running' # running => running' = NoPid \/ InTable(processes, running')

\* The item at the front of queue_ and the handler the io_service runs next.
LEMMA HeadItem ==
  ASSUME TypeOK, queue # <<>>
  PROVE  Head(queue) \in Items /\ Head(queue).pid \in Pids
<1>1. Head(queue) \in Items
  BY HeadTailProperties DEF TypeOK
<1> QED BY <1>1 DEF Items

LEMMA HeadHandler ==
  ASSUME TypeOK, ready # <<>>
  PROVE  Head(ready) \in Handlers /\ Head(ready).pid \in Pids
<1>1. Head(ready) \in Handlers
  BY HeadTailProperties DEF TypeOK
<1> QED BY <1>1 DEF Handlers

LEMMA LoopInit == Init => LoopInv
BY DEF Init, LoopInv

\* What all steps of a running process have in common.
LEMMA ProcessStepFrame ==
  ASSUME TypeOK, NEW p \in Pids, ProcessStep(p)
  PROVE  /\ running = p /\ running' \in {p, NoPid}
         /\ dying' = dying /\ kills' = kills /\ freed' = freed
         /\ at' = at \/ (at' = "crashed" /\ running' = NoPid)
         /\ timers' \subseteq timers \cup {p}
<1> DEFINE Goal == /\ running = p /\ running' \in {p, NoPid}
                   /\ dying' = dying /\ kills' = kills /\ freed' = freed
                   /\ at' = at \/ (at' = "crashed" /\ running' = NoPid)
                   /\ timers' \subseteq timers \cup {p}
<1> USE DEF loopVars, memVars, ioVars, InUserCode, Calls
<1>1. CASE Spawn(p) \/ SpawnLink(p) \/ SpawnLinkNotify(p)
  BY <1>1 DEF Spawn, SpawnLink, SpawnLinkNotify, Construct, Constructed
<1>2. ASSUME NEW b \in Pids, SpawnCtorLink(p, b) PROVE Goal
  BY <1>2 DEF SpawnCtorLink, Construct, Constructed
<1>3. ASSUME NEW b \in Pids, SpawnThrows(p, b) PROVE Goal
  BY <1>3 DEF SpawnThrows, Ends
<1>4. ASSUME NEW b \in Pids, Link(p, b) \/ QueueKill(p, b) \/ Send(p, b)
      PROVE  Goal
  BY <1>4 DEF Link, QueueKill, Send
<1>5. ASSUME NEW b \in Pids, SendThrottled(p, b) PROVE Goal
  BY <1>5 DEF SendThrottled, Park
<1>6. CASE CanQueueNull(p)
  BY <1>6 DEF CanQueueNull, InCanQueue
<1>7. CASE WaitForRoom(p)
  BY <1>7 DEF WaitForRoom, InCanQueue, Park
<1>8. CASE ThrottledSend(p)
  BY <1>8 DEF ThrottledSend, InCanQueue
<1>9. CASE Receive(p)
  BY <1>9 DEF Receive
<1>10. CASE AwaitResume(p)
  BY <1>10 DEF AwaitResume, Ends
<1>11. ASSUME NEW w \in Waits[p.idx], Suspend(p, w) PROVE Goal
  BY <1>11 DEF Suspend, Park
<1>12. CASE Finish(p)
  BY <1>12 DEF Finish, Ends
<1> QED BY <1>1, <1>2, <1>3, <1>4, <1>5, <1>6, <1>7, <1>8, <1>9, <1>10, <1>11,
           <1>12 DEF ProcessStep

LEMMA ProcessStepLoop ==
  ASSUME TypeOK, Table, LoopInv, NEW p \in Pids, ProcessStep(p)
  PROVE  LoopInv' /\ RunsTheLiving
<1>1. /\ running = p /\ running' \in {p, NoPid}
      /\ dying' = dying
      /\ at' = at \/ (at' = "crashed" /\ running' = NoPid)
  BY ProcessStepFrame
<1>2. /\ p # NoPid /\ at \in {"destroy", "poll"} /\ dying = NoPid
      /\ Exists(processes, toDestroy, p)
  BY <1>1, PidFields DEF LoopInv
<1>3. Exists(processes', toDestroy', p)
  <2>1. KeepsProcesses
    BY ProcessStepTable
  <2> QED BY <1>1, <1>2, <2>1 DEF KeepsProcesses, Exists
<1>4. RunsTheLiving
  BY <1>1 DEF RunsTheLiving
<1> QED BY <1>1, <1>2, <1>3, <1>4 DEF LoopInv

\* What findProc() finds, and what a handler may resume, is in the table.
LEMMA ProcInTable ==
  ASSUME TypeOK, NEW p \in Pids, Found(processes, p)
  PROVE  Proc(p) \in Pids /\ InTable(processes, Proc(p))
<1>1. processes \in Seq(PidOrNone)
  BY DEF TypeOK
<1> QED BY <1>1, FoundIsPid DEF InTable, Proc, Indices

LEMMA LoopStepLoop ==
  ASSUME TypeOK, Table, LoopInv, LoopStep
  PROVE  LoopInv' /\ RunsTheLiving
<1> USE DEF loopVars, tableVars, rest
<1>0. \A q \in Pids : q # NoPid
  BY PidFields
<1>1. CASE Exit
  BY <1>1 DEF Exit, LoopInv, RunsTheLiving
<1>2. ASSUME NEW t \in Pids, InTable(processes, t), running' = t, dying = NoPid,
             at' \in {"destroy", "poll"}, UNCHANGED <<dying, tableVars>>
      PROVE  LoopInv' /\ RunsTheLiving
  BY <1>0, <1>2 DEF LoopInv, RunsTheLiving, Exists
<1>3. ASSUME running = NoPid, running' = running, at' \in {"destroy", "poll"},
             UNCHANGED <<dying, tableVars>>, dying = NoPid
      PROVE  LoopInv' /\ RunsTheLiving
  BY <1>3 DEF LoopInv, RunsTheLiving
<1>4. CASE ProcessMessage
  <2> DEFINE i == Head(queue)
  <2>1. /\ at = "top" /\ at' = "destroy" /\ queue # <<>>
        /\ UNCHANGED <<dying, tableVars>>
    BY <1>4 DEF ProcessMessage
  <2>2. dying = NoPid /\ running = NoPid
    BY <2>1 DEF LoopInv
  <2>3. i.pid \in Pids
    BY <2>1, HeadItem
  <2>4. \/ Found(processes, i.pid) /\ running' = Proc(i.pid)
        \/ running' = running
    BY <1>4 DEF ProcessMessage, Accepts, BeginResume, NoResume
  <2> HIDE DEF i
  <2> QED BY <1>2, <1>3, <2>1, <2>2, <2>3, <2>4, ProcInTable
<1>5. CASE ProcessResume
  <2> DEFINE i == Head(queue)
  <2>1. /\ at = "top" /\ at' = "destroy" /\ queue # <<>>
        /\ UNCHANGED <<dying, tableVars>>
    BY <1>5 DEF ProcessResume
  <2>2. dying = NoPid /\ running = NoPid
    BY <2>1 DEF LoopInv
  <2>3. i.pid \in Pids
    BY <2>1, HeadItem
  <2>4. \/ Found(processes, i.pid) /\ running' = Proc(i.pid)
        \/ running' = running
    BY <1>5 DEF ProcessResume, BeginResume, NoResume
  <2> HIDE DEF i
  <2> QED BY <1>2, <1>3, <2>1, <2>2, <2>3, <2>4, ProcInTable
<1>6. CASE RunOne
  BY <1>6 DEF RunOne, LoopInv, RunsTheLiving
<1>7. ASSUME NEW p \in Pids, TimerExpires(p)
      PROVE  LoopInv' /\ RunsTheLiving
  BY <1>7 DEF TimerExpires, LoopInv, RunsTheLiving
<1>8. CASE RunAborted
  BY <1>3, <1>8 DEF RunAborted, RunsHandler, NoResume, LoopInv
<1>9. CASE RunTimer \/ RunContinuation
  <2> DEFINE t == Head(ready).pid
  <2>1. /\ at \in {"wait", "poll"} /\ at' = "poll" /\ running = NoPid
        /\ ready # <<>> /\ UNCHANGED <<dying, tableVars>>
    BY <1>9 DEF RunTimer, RunContinuation, RunsHandler
  <2>2. dying = NoPid
    BY <2>1 DEF LoopInv
  <2>3. t \in Pids
    BY <2>1, HeadHandler
  <2>4. (Live(t) /\ running' = t) \/ running' = running
    BY <1>9 DEF RunTimer, RunContinuation, Continues, BeginResume, NoResume
  <2>5. Live(t) => InTable(processes, t)
    BY DEF Live, InTable, Indices
  <2> HIDE DEF t
  <2> QED BY <1>2, <1>3, <2>1, <2>2, <2>3, <2>4, <2>5
<1>16. ASSUME NEW q \in Pids, RunReused(q)
       PROVE  LoopInv' /\ RunsTheLiving
  <2>1. /\ at \in {"wait", "poll"} /\ at' = "poll" /\ running = NoPid
        /\ UNCHANGED <<dying, tableVars>> /\ Live(q) /\ running' = q
    BY <1>16 DEF RunReused, RunsHandler, BeginResume
  <2>2. dying = NoPid /\ InTable(processes, q)
    BY <2>1 DEF LoopInv, Live, InTable, Indices
  <2> QED BY <1>2, <1>3, <2>1, <2>2
<1>10. CASE HandlerCrashes
  BY <1>10 DEF HandlerCrashes, LoopInv, RunsTheLiving
<1>11. CASE EndPoll
  BY <1>11 DEF EndPoll, LoopInv, RunsTheLiving
<1>12. CASE DestroyNext
  BY <1>12 DEF DestroyNext, LoopInv, RunsTheLiving
<1>13. ASSUME NEW q \in Pids, KillLinked(q)
       PROVE  LoopInv' /\ RunsTheLiving
  BY <1>13 DEF KillLinked, LoopInv, RunsTheLiving
<1>14. CASE FinishDestroy
  BY <1>14 DEF FinishDestroy, LoopInv, RunsTheLiving
<1>15. CASE DestroyDone
  BY <1>15 DEF DestroyDone, LoopInv, RunsTheLiving
<1> QED BY <1>1, <1>4, <1>5, <1>6, <1>7, <1>8, <1>9, <1>10, <1>11, <1>12,
           <1>13, <1>14, <1>15, <1>16 DEF LoopStep

LEMMA LoopNext ==
  ASSUME TypeOK, Table, LoopInv, [Next]_vars
  PROVE  LoopInv' /\ RunsTheLiving
<1> USE DEF vars, loopVars, memVars, tableVars, rest
<1>1. CASE MainSpawn
  BY <1>1 DEF MainSpawn, Construct, Constructed, LoopInv, RunsTheLiving
<1>2. CASE Run
  BY <1>2 DEF Run, LoopInv, RunsTheLiving
<1>3. ASSUME NEW p \in Pids, ProcessStep(p)
      PROVE  LoopInv' /\ RunsTheLiving
  BY <1>3, ProcessStepLoop
<1>4. CASE LoopStep
  BY <1>4, LoopStepLoop
<1>5. CASE Terminated \/ UNCHANGED vars
  BY <1>5 DEF Terminated, LoopInv, RunsTheLiving
<1> QED BY <1>1, <1>2, <1>3, <1>4, <1>5 DEF Next

SchedulerInv == TypeOK /\ Table /\ LoopInv

LEMMA SchedulerCorrect == Spec => []SchedulerInv
<1>1. Init => SchedulerInv
  BY TypeInit, TableInit, LoopInit DEF SchedulerInv
<1>2. SchedulerInv /\ [Next]_vars => SchedulerInv'
  BY TypeStep, TableStep, LoopNext DEF SchedulerInv
<1> QED BY <1>1, <1>2, PTL DEF Spec

\* resume() never executes a coroutine whose RunningProcess has been deleted,
\* although a process may kill itself: toDestroy_ is only emptied after it has
\* returned to the loop.
THEOREM RunningExists == Spec => []RunningIsNotFreed
<1>1. SchedulerInv => RunningIsNotFreed
  <2> SUFFICES ASSUME SchedulerInv PROVE running \notin freed
    BY DEF RunningIsNotFreed
  <2>1. freed \subseteq Pids
    BY DEF SchedulerInv, TypeOK
  <2>2. \A p \in freed : p # NoPid /\ ~Exists(processes, toDestroy, p)
    BY <2>1, PidFields
    DEF SchedulerInv, Table, TableInv, Owned, Exists
  <2> QED BY <2>2 DEF SchedulerInv, LoopInv
<1> QED BY <1>1, SchedulerCorrect, PTL

\* A killed process never runs again, whichever timers, queued resumes and
\* continuations are still on their way to it.
THEOREM KilledStayDead == Spec => KilledNeverRuns
<1> DEFINE Step == \A p \in Pids : Born(p) /\ Dead(p) /\ running # p
                                     => running' # p
<1>1. SchedulerInv /\ [Next]_vars => [Step]_vars
  <2> SUFFICES ASSUME SchedulerInv, [Next]_vars, NEW p \in Pids,
                      Dead(p), running # p
               PROVE  running' # p
    OBVIOUS
  <2>1. RunsTheLiving
    BY LoopNext DEF SchedulerInv
  <2>2. ~InTable(processes, p) /\ p # NoPid
    BY PidFields DEF Dead, Live, InTable, Indices
  <2> QED BY <2>1, <2>2 DEF RunsTheLiving
<1> QED BY <1>1, SchedulerCorrect, PTL DEF Spec, KilledNeverRuns

-----------------------------------------------------------------------------
(* Links *)

Spawned(p) == Known(processes, toDestroy, dying, freed, p)

\* Only destroy() deletes processes.
LEMMA DestroySteps ==
  ASSUME TypeOK, [Next]_vars
  PROVE  \/ UNCHANGED <<dying, kills, freed>>
         \/ DestroyNext \/ (\E q \in Pids : KillLinked(q)) \/ FinishDestroy
<1> USE DEF vars, loopVars, memVars, rest
<1>1. CASE MainSpawn \/ Run
  BY <1>1 DEF MainSpawn, Construct, Constructed, Run
<1>2. ASSUME NEW p \in Pids, ProcessStep(p)
      PROVE  UNCHANGED <<dying, kills, freed>>
  BY <1>2, ProcessStepFrame
<1>3. CASE LoopStep
  <2>1. CASE Exit \/ ProcessMessage \/ ProcessResume \/ RunOne
    BY <2>1 DEF Exit, ProcessMessage, ProcessResume, RunOne
  <2>2. CASE RunAborted \/ RunTimer \/ RunContinuation \/ HandlerCrashes
    BY <2>2 DEF RunAborted, RunTimer, RunContinuation, HandlerCrashes
  <2>3. ASSUME NEW p \in Pids, TimerExpires(p) \/ RunReused(p)
        PROVE  UNCHANGED <<dying, kills, freed>>
    BY <2>3 DEF TimerExpires, RunReused
  <2>4. CASE EndPoll \/ DestroyDone
    BY <2>4 DEF EndPoll, DestroyDone
  <2> QED BY <1>3, <2>1, <2>2, <2>3, <2>4 DEF LoopStep
<1>4. CASE Terminated \/ UNCHANGED vars
  BY <1>4 DEF Terminated
<1> QED BY <1>1, <1>2, <1>3, <1>4 DEF Next

\* A pid that has been given out stays so.
LEMMA SpawnedStays ==
  ASSUME SchedulerInv, [Next]_vars, NEW p \in Pids, Spawned(p)
  PROVE  Spawned(p)'
<1>1. KeepsProcesses
  BY TableStep DEF SchedulerInv
<1>2. p \in freed \/ p = dying => p \in freed' \/ p = dying'
  <2>1. CASE UNCHANGED <<dying, kills, freed>>
    BY <2>1
  <2>2. CASE DestroyNext
    BY <2>2, PidFields DEF DestroyNext, memVars
  <2>3. ASSUME NEW q \in Pids, KillLinked(q)
        PROVE  p \in freed \/ p = dying => p \in freed' \/ p = dying'
    BY <2>3 DEF KillLinked, memVars
  <2>4. CASE FinishDestroy
    BY <2>4 DEF FinishDestroy
  <2> QED BY <2>1, <2>2, <2>3, <2>4, DestroySteps DEF SchedulerInv
<1> QED BY <1>1, <1>2 DEF KeepsProcesses, Spawned, Known

\* A step adds links only to processes that exist, and only between them.
LinksTheExisting ==
  \A p \in Pids :
    /\ p \in freed \/ p = dying => killOnDie'[p] = killOnDie[p]
    /\ \A q \in killOnDie'[p] :
         q \in killOnDie[p] \/ Exists(processes', toDestroy', q)

LEMMA ConstructedLinks ==
  ASSUME TypeOK, Table, NEW kill \in SUBSET Pids, NEW notify,
         NEW back \in SUBSET Pids, Constructed(kill, notify, back),
         UNCHANGED <<toDestroy, dying, freed>>,
         \A q \in kill \cup back : Exists(processes, toDestroy, q)
  PROVE  LinksTheExisting
<1> DEFINE n == NextPid
<1>1. /\ n \in Pids /\ UNCHANGED <<toDestroy, dying, freed>>
      /\ ~Known(processes, toDestroy, dying, freed, n)
      /\ \A q \in Pids : InTable(processes', q) <=> InTable(processes, q) \/ q = n
  BY ConstructedFresh
<1>2. killOnDie' = [q \in Pids |-> IF q = n THEN kill
                                   ELSE IF q \in back THEN killOnDie[q] \cup {n}
                                   ELSE killOnDie[q]]
  BY DEF Constructed
<1> HIDE DEF n
<1>3. \A q \in back : q \notin freed /\ q # dying
  BY DEF Table, TableInv, Owned, Exists
<1>4. n \notin freed /\ n # dying
  BY <1>1 DEF Known
<1>5. \A q \in kill \cup {n} : Exists(processes', toDestroy', q)
  BY <1>1 DEF Exists
<1> QED BY <1>2, <1>3, <1>4, <1>5 DEF LinksTheExisting

LEMMA ConstructLinks ==
  ASSUME TypeOK, Table, NEW kill \in SUBSET Pids, NEW notify,
         NEW back \in SUBSET Pids, Construct(kill, notify, back),
         \A q \in kill \cup back : Exists(processes, toDestroy, q)
  PROVE  LinksTheExisting
BY ConstructedLinks DEF Construct, loopVars, memVars

\* Steps that do not touch the links.
LEMMA LinksFrame ==
  ASSUME killOnDie' = killOnDie PROVE LinksTheExisting
BY DEF LinksTheExisting

LEMMA ProcessStepLinks ==
  ASSUME SchedulerInv, NEW p \in Pids, ProcessStep(p)
  PROVE  LinksTheExisting
<1> USE DEF linkVars
<1>1. /\ TypeOK /\ Table /\ running = p /\ p # NoPid
      /\ Exists(processes, toDestroy, p)
  BY ProcessStepFrame, PidFields DEF SchedulerInv, LoopInv
<1>2. ASSUME NEW b \in Pids, Found(processes, b)
      PROVE  Exists(processes, toDestroy, b)
  <2>1. InTable(processes, b)
    BY <1>1, <1>2, InTableIsFound DEF TypeOK, Table, TableInv, Owned
  <2> QED BY <2>1 DEF Exists
<1>3. CASE Spawn(p)
  BY <1>1, <1>3, ConstructLinks DEF Spawn
<1>4. CASE SpawnLink(p)
  BY <1>1, <1>4, ConstructLinks DEF SpawnLink
<1>5. CASE SpawnLinkNotify(p)
  BY <1>1, <1>5, ConstructLinks DEF SpawnLinkNotify
<1>6. ASSUME NEW b \in Pids, SpawnCtorLink(p, b) PROVE LinksTheExisting
  BY <1>1, <1>2, <1>6, ConstructLinks DEF SpawnCtorLink
<1>7. ASSUME NEW b \in Pids, Link(p, b) PROVE LinksTheExisting
  <2>1. /\ Exists(processes, toDestroy, b)
        /\ killOnDie' = [q \in Pids |-> killOnDie[q] \cup LinksTo(q, p, b)]
        /\ UNCHANGED <<processes, toDestroy>>
    BY <1>2, <1>7 DEF Link, tableVars
  <2>2. \A q \in {p, b} : q \notin freed /\ q # dying
    BY <1>1, <2>1 DEF Table, TableInv, Owned, Exists
  <2>3. \A q \in Pids : LinksTo(q, p, b) \subseteq {p, b}
                         /\ (q \notin {p, b} => LinksTo(q, p, b) = {})
    BY DEF LinksTo
  <2>4. \A q \in Pids : q \in freed \/ q = dying => killOnDie'[q] = killOnDie[q]
    BY <2>1, <2>2, <2>3
  <2>5. \A q \in Pids : \A r \in killOnDie'[q] :
          r \in killOnDie[q] \/ Exists(processes', toDestroy', r)
    BY <1>1, <2>1, <2>3
  <2> QED BY <2>4, <2>5 DEF LinksTheExisting
<1>8. ASSUME NEW b \in Pids, \/ SpawnThrows(p, b) \/ QueueKill(p, b)
                             \/ Send(p, b) \/ SendThrottled(p, b)
      PROVE  LinksTheExisting
  BY <1>8, LinksFrame DEF SpawnThrows, QueueKill, Send, SendThrottled
<1>9. CASE \/ CanQueueNull(p) \/ WaitForRoom(p) \/ ThrottledSend(p)
           \/ Receive(p) \/ AwaitResume(p) \/ Finish(p)
  BY <1>9, LinksFrame DEF CanQueueNull, WaitForRoom, ThrottledSend, Receive,
                          AwaitResume, Finish
<1>10. ASSUME NEW w \in Waits[p.idx], Suspend(p, w) PROVE LinksTheExisting
  BY <1>10, LinksFrame DEF Suspend
<1> QED BY <1>3, <1>4, <1>5, <1>6, <1>7, <1>8, <1>9, <1>10 DEF ProcessStep

LEMMA LinkSteps ==
  ASSUME SchedulerInv, [Next]_vars
  PROVE  LinksTheExisting
<1> USE DEF vars, linkVars, rest
<1>1. CASE MainSpawn
  BY <1>1, ConstructLinks DEF MainSpawn, SchedulerInv
<1>2. ASSUME NEW p \in Pids, ProcessStep(p) PROVE LinksTheExisting
  BY <1>2, ProcessStepLinks
<1>3. CASE LoopStep
  <2>1. CASE Exit \/ ProcessMessage \/ ProcessResume \/ RunOne
    BY <2>1, LinksFrame DEF Exit, ProcessMessage, ProcessResume, RunOne
  <2>2. CASE RunAborted \/ RunTimer \/ RunContinuation \/ HandlerCrashes
    BY <2>2, LinksFrame
    DEF RunAborted, RunTimer, RunContinuation, HandlerCrashes
  <2>3. ASSUME NEW p \in Pids, TimerExpires(p) \/ RunReused(p) \/ KillLinked(p)
        PROVE  LinksTheExisting
    BY <2>3, LinksFrame DEF TimerExpires, RunReused, KillLinked
  <2>4. CASE EndPoll \/ DestroyNext \/ FinishDestroy \/ DestroyDone
    BY <2>4, LinksFrame DEF EndPoll, DestroyNext, FinishDestroy, DestroyDone
  <2> QED BY <1>3, <2>1, <2>2, <2>3, <2>4 DEF LoopStep
<1>4. CASE Run \/ Terminated \/ UNCHANGED vars
  BY <1>4, LinksFrame DEF Run, Terminated
<1> QED BY <1>1, <1>2, <1>3, <1>4 DEF Next

\* Nobody is linked to a pid that was never given out; who is linked to the
\* process being destroyed is still to be killed, or is dead; and who is linked
\* to a deleted process is dead.
LinkInv ==
  /\ \A p \in Pids : \A q \in killOnDie[p] : Spawned(q)
  /\ dying # NoPid =>
       /\ kills \subseteq killOnDie[dying]
       /\ \A q \in killOnDie[dying] : q \in kills \/ ~InTable(processes, q)
  /\ \A p \in freed : \A q \in killOnDie[p] : ~InTable(processes, q)

LEMMA LinkInit == Init => LinkInv
BY DEF Init, LinkInv

\* Steps that are not steps of destroy().
LEMMA LinkKept ==
  ASSUME TypeOK, TypeOK', LinkInv, LinksTheExisting, KeepsProcesses,
         UNCHANGED <<dying, kills, freed>>
  PROVE  LinkInv'
<1>1. \A p \in Pids : killOnDie[p] \subseteq Pids /\ killOnDie'[p] \subseteq Pids
  BY DEF TypeOK
<1>2. \A p \in Pids : \A q \in killOnDie'[p] : Spawned(q)'
  BY <1>1 DEF LinkInv, LinksTheExisting, KeepsProcesses, Exists, Spawned, Known
<1>3. \A p \in Pids : \A q \in killOnDie[p] :
        InTable(processes', q) => InTable(processes, q)
  BY <1>1 DEF KeepsProcesses, LinkInv, Spawned
<1> QED BY <1>2, <1>3 DEF LinkInv, LinksTheExisting, TypeOK, PidOrNone

LEMMA LinkNext ==
  ASSUME SchedulerInv, LinkInv, [Next]_vars
  PROVE  LinkInv'
<1>0. /\ TypeOK /\ TypeOK' /\ \A p \in Pids : p # NoPid
  BY TypeStep, PidFields DEF SchedulerInv
<1>1. LinksTheExisting /\ KeepsProcesses
  BY LinkSteps, TableStep DEF SchedulerInv
<1>2. \A p \in Pids : killOnDie[p] \subseteq Pids /\ killOnDie'[p] \subseteq Pids
  BY <1>0 DEF TypeOK
<1>3. \A p \in Pids : \A q \in killOnDie'[p] : Spawned(q)'
  <2>1. TAKE p \in Pids
  <2>2. TAKE q \in killOnDie'[p]
  <2>3. q \in Pids
    BY <1>2
  <2>4. CASE q \in killOnDie[p]
    BY <2>3, <2>4, SpawnedStays DEF LinkInv
  <2>5. CASE Exists(processes', toDestroy', q)
    BY <2>5 DEF Exists, Spawned, Known
  <2> QED BY <1>1, <2>4, <2>5 DEF LinksTheExisting
<1>4. \A p \in Pids : \A q \in killOnDie[p] :
        InTable(processes', q) => InTable(processes, q)
  BY <1>1, <1>2 DEF KeepsProcesses, LinkInv, Spawned
<1>5. CASE UNCHANGED <<dying, kills, freed>>
  BY <1>0, <1>1, <1>5, LinkKept
<1>6. CASE DestroyNext
  <2>1. /\ dying' = Head(toDestroy) /\ kills' = killOnDie[dying']
        /\ UNCHANGED <<killOnDie, freed, processes>>
    BY <1>6 DEF DestroyNext, linkVars, memVars
  <2> QED BY <1>3, <2>1 DEF LinkInv
<1>7. ASSUME NEW q \in Pids, KillLinked(q) PROVE LinkInv'
  <2>1. /\ dying # NoPid /\ kills' = kills \ {q}
        /\ AddToDestroy(q, processes, tombstones)
        /\ UNCHANGED <<dying, killOnDie, freed>>
    BY <1>7 DEF KillLinked, linkVars, memVars
  <2>2. MovesOut(q)
    BY <2>1, EndsTable DEF SchedulerInv
  <2>3. dying \in Pids /\ freed \subseteq Pids
    BY <1>0, <2>1 DEF TypeOK, PidOrNone
  <2>4. \A r \in killOnDie[dying] : r \in kills' \/ ~InTable(processes', r)
    BY <1>2, <1>4, <2>1, <2>2, <2>3 DEF LinkInv, MovesOut
  <2> QED BY <1>3, <1>4, <2>1, <2>3, <2>4 DEF LinkInv
<1>8. CASE FinishDestroy
  <2>1. /\ dying # NoPid /\ kills = {} /\ dying' = NoPid
        /\ freed' = freed \cup {dying} /\ UNCHANGED <<killOnDie, processes>>
    BY <1>8 DEF FinishDestroy, linkVars, tableVars
  <2> QED BY <1>3, <2>1 DEF LinkInv
<1> QED BY <1>5, <1>6, <1>7, <1>8, DestroySteps DEF SchedulerInv

LEMMA LinkCorrect == Spec => [](SchedulerInv /\ LinkInv)
<1>1. Init => SchedulerInv /\ LinkInv
  BY TypeInit, TableInit, LoopInit, LinkInit DEF SchedulerInv
<1>2. SchedulerInv /\ LinkInv /\ [Next]_vars => (SchedulerInv /\ LinkInv)'
  BY TypeStep, TableStep, LoopNext, LinkNext DEF SchedulerInv
<1> QED BY <1>1, <1>2, PTL DEF Spec

\* Nothing that was linked to a deleted process is alive, however long the
\* chains of links are: destroy() goes through killOnDie() before it deletes
\* the process, and a link to a process that is being destroyed is impossible.
THEOREM LinkedProcessesDie == Spec => []LinkedDieTogether
<1>1. SchedulerInv /\ LinkInv => LinkedDieTogether
  BY DEF LinkInv, LinkedDieTogether, Live, InTable, Indices
<1> QED BY <1>1, LinkCorrect, PTL

-----------------------------------------------------------------------------
(* The end of the loop *)

\* As many tombstones as entries: every entry is empty.
LEMMA TombstonesCoverTable ==
  ASSUME NEW procs \in Seq(PidOrNone), NEW tombs \in Seq(Pids),
         Len(procs) = Len(tombs),
         \A j \in Indices(tombs) : /\ tombs[j].idx \in Indices(procs)
                                   /\ procs[tombs[j].idx] = NoPid,
         \A j, k \in Indices(tombs) : tombs[j].idx = tombs[k].idx => j = k
  PROVE  \A i \in Indices(procs) : procs[i] = NoPid
<1> DEFINE n == Len(procs)
           f == [j \in 1..n |-> tombs[j].idx]
<1>1. n \in Nat /\ Indices(procs) = 1..n /\ Indices(tombs) = 1..n
  BY LenProperties DEF Indices
<1> HIDE DEF n
<1>2. f \in [1..n -> 1..n]
  BY <1>1
<1>3. \A j, k \in 1..n : f[j] = f[k] => j = k
  BY <1>1
<1>4. f \in Injection(1..n, 1..n)
  BY <1>2, <1>3, Zenon DEF Injection, IsInjective
<1>5. IsFiniteSet(1..n)
  BY <1>1, FS_Interval
<1>6. f \in Surjection(1..n, 1..n)
  BY <1>4, <1>5, FS_Injection
<1>7. \A i \in 1..n : \E j \in 1..n : f[j] = i
  BY <1>6, Zenon DEF Surjection
<1>8. \A j \in 1..n : procs[f[j]] = NoPid
  BY <1>1
<1>9. \A i \in 1..n : procs[i] = NoPid
  <2> HIDE DEF f
  <2> QED BY <1>7, <1>8, Zenon
<1> QED BY <1>1, <1>9

\* Nothing is in the table when run() has returned.
ExitInv == at = "exit" => \A p \in Pids : ~InTable(processes, p)

\* run() returns by its loop test only.
LEMMA OnlyExitExits ==
  ASSUME SchedulerInv, [Next]_vars, at' = "exit"
  PROVE  Exit \/ (at = "exit" /\ UNCHANGED processes)
<1> USE DEF SchedulerInv, loopVars, tableVars, vars
<1>1. CASE MainSpawn
  BY <1>1 DEF MainSpawn, Construct, Constructed
<1>2. CASE Run
  BY <1>2 DEF Run
<1>3. ASSUME NEW p \in Pids, ProcessStep(p)
      PROVE  Exit \/ (at = "exit" /\ UNCHANGED processes)
  BY <1>3, ProcessStepFrame, PidFields DEF LoopInv
<1>4. CASE LoopStep
  <2>1. CASE ProcessMessage \/ ProcessResume \/ RunOne \/ EndPoll \/ DestroyDone
    BY <2>1 DEF ProcessMessage, ProcessResume, RunOne, EndPoll, DestroyDone
  <2>2. CASE RunAborted \/ RunTimer \/ RunContinuation \/ HandlerCrashes
    BY <2>2 DEF RunAborted, RunTimer, RunContinuation, HandlerCrashes,
                RunsHandler
  <2>3. ASSUME NEW p \in Pids, TimerExpires(p)
        PROVE  Exit \/ (at = "exit" /\ UNCHANGED processes)
    BY <2>3 DEF TimerExpires
  <2>4. CASE DestroyNext \/ FinishDestroy
    BY <2>4 DEF DestroyNext, FinishDestroy
  <2>5. ASSUME NEW q \in Pids, KillLinked(q)
        PROVE  Exit \/ (at = "exit" /\ UNCHANGED processes)
    BY <2>5 DEF KillLinked, LoopInv
  <2>6. ASSUME NEW q \in Pids, RunReused(q)
        PROVE  Exit \/ (at = "exit" /\ UNCHANGED processes)
    BY <2>6 DEF RunReused, RunsHandler
  <2> QED BY <1>4, <2>1, <2>2, <2>3, <2>4, <2>5, <2>6 DEF LoopStep
<1>5. CASE Terminated \/ UNCHANGED vars
  BY <1>5 DEF Terminated
<1> QED BY <1>1, <1>2, <1>3, <1>4, <1>5 DEF Next

LEMMA ExitStep ==
  ASSUME SchedulerInv, ExitInv, [Next]_vars
  PROVE  ExitInv'
<1> SUFFICES ASSUME at' = "exit", NEW p \in Pids PROVE ~InTable(processes', p)
  BY DEF ExitInv
<1>1. CASE Exit
  <2>1. Len(processes) = Len(tombstones) /\ processes' = processes
    BY <1>1 DEF Exit, LoopContinues, rest, tableVars
  <2>2. processes \in Seq(PidOrNone) /\ tombstones \in Seq(Pids)
    BY DEF SchedulerInv, TypeOK
  <2>3. /\ \A j \in Indices(tombstones) :
             /\ tombstones[j].idx \in Indices(processes)
             /\ processes[tombstones[j].idx] = NoPid
        /\ \A j, k \in Indices(tombstones) :
             tombstones[j].idx = tombstones[k].idx => j = k
    BY DEF SchedulerInv, Table, TableInv, Fresh
  <2>4. \A i \in Indices(processes) : processes[i] = NoPid
    BY <2>1, <2>2, <2>3, TombstonesCoverTable
  <2> QED BY <2>1, <2>4, PidFields DEF InTable
<1>2. CASE at = "exit" /\ UNCHANGED processes
  BY <1>2 DEF ExitInv
<1> QED BY <1>1, <1>2, OnlyExitExits

\* When run() returns, every process that was ever constructed has been
\* deleted: the sizes of processes_ and tombstones_ can only agree when every
\* entry is empty, and toDestroy_ has been worked off.
THEOREM ExitLeavesNothing == Spec => []ExitMeansAllFreed
<1> DEFINE Inv == SchedulerInv /\ ExitInv
<1>1. Init => Inv
  BY TypeInit, TableInit, LoopInit DEF SchedulerInv, ExitInv, Init
<1>2. Inv /\ [Next]_vars => Inv'
  BY TypeStep, TableStep, LoopNext, ExitStep DEF SchedulerInv
<1>3. Inv => ExitMeansAllFreed
  <2> SUFFICES ASSUME Inv, at = "exit", NEW p \in Pids, Born(p)
               PROVE  p \in freed
    BY DEF ExitMeansAllFreed
  <2>1. ~Live(p)
    BY DEF ExitInv, InTable, Live, Indices
  <2>2. toDestroy = <<>> /\ dying = NoPid
    BY DEF SchedulerInv, LoopInv
  <2>3. ~Doomed(p)
    BY <2>2, PidFields DEF Doomed
  <2> QED BY <2>1, <2>3 DEF Born
<1> HIDE DEF Inv
<1> QED BY <1>1, <1>2, <1>3, PTL DEF Spec

-----------------------------------------------------------------------------
(* The loop test is exact when no constructor throws: then nextPid() never   *)
(* loses the entry it takes.                                                 *)

\* Every empty entry of the table has a tombstone.
Recorded(procs, tombs) ==
  \A i \in Indices(procs) :
    procs[i] = NoPid => \E j \in Indices(tombs) : tombs[j].idx = i

\* What changes the table: spawnArgs(), addtoDestroy(), a constructor that
\* throws.
LEMMA TableSteps ==
  ASSUME TypeOK, [Next]_vars
  PROVE  \/ UNCHANGED <<processes, tombstones>>
         \/ \E kill, notify, back : Construct(kill, notify, back)
         \/ \E p \in Pids : AddToDestroy(p, processes, tombstones)
         \/ \E p, b \in Pids : SpawnThrows(p, b)
<1> DEFINE Goal == \/ UNCHANGED <<processes, tombstones>>
                   \/ \E kill, notify, back : Construct(kill, notify, back)
                   \/ \E p \in Pids : AddToDestroy(p, processes, tombstones)
                   \/ \E p, b \in Pids : SpawnThrows(p, b)
<1> USE DEF vars, tableVars, rest
<1>1. CASE MainSpawn
  BY <1>1 DEF MainSpawn
<1>2. ASSUME NEW p \in Pids, ProcessStep(p) PROVE Goal
  <2>1. CASE Spawn(p) \/ SpawnLink(p) \/ SpawnLinkNotify(p)
    BY <2>1 DEF Spawn, SpawnLink, SpawnLinkNotify
  <2>2. ASSUME NEW b \in Pids, SpawnCtorLink(p, b) PROVE Goal
    BY <2>2 DEF SpawnCtorLink
  <2>3. ASSUME NEW b \in Pids, QueueKill(p, b) PROVE Goal
    BY <2>3 DEF QueueKill
  <2>4. ASSUME NEW b \in Pids, Link(p, b) \/ Send(p, b) \/ SendThrottled(p, b)
        PROVE  Goal
    BY <2>4 DEF Link, Send, SendThrottled
  <2>5. CASE CanQueueNull(p) \/ WaitForRoom(p) \/ ThrottledSend(p) \/ Receive(p)
    BY <2>5 DEF CanQueueNull, WaitForRoom, ThrottledSend, Receive
  <2>6. CASE AwaitResume(p) \/ Finish(p)
    BY <2>6 DEF AwaitResume, Finish, Ends
  <2>7. ASSUME NEW w \in Waits[p.idx], Suspend(p, w) PROVE Goal
    BY <2>7 DEF Suspend
  <2> QED BY <1>2, <2>1, <2>2, <2>3, <2>4, <2>5, <2>6, <2>7 DEF ProcessStep
<1>3. CASE LoopStep
  <2>1. CASE Exit \/ ProcessMessage \/ ProcessResume \/ RunOne
    BY <2>1 DEF Exit, ProcessMessage, ProcessResume, RunOne
  <2>2. CASE RunAborted \/ RunTimer \/ RunContinuation \/ HandlerCrashes
    BY <2>2 DEF RunAborted, RunTimer, RunContinuation, HandlerCrashes
  <2>3. ASSUME NEW p \in Pids, TimerExpires(p) \/ RunReused(p) \/ KillLinked(p)
        PROVE  Goal
    BY <2>3 DEF TimerExpires, RunReused, KillLinked
  <2>4. CASE EndPoll \/ DestroyNext \/ FinishDestroy \/ DestroyDone
    BY <2>4 DEF EndPoll, DestroyNext, FinishDestroy, DestroyDone
  <2> QED BY <1>3, <2>1, <2>2, <2>3, <2>4 DEF LoopStep
<1>4. CASE Run \/ Terminated \/ UNCHANGED vars
  BY <1>4 DEF Run, Terminated
<1> QED BY <1>1, <1>2, <1>3, <1>4 DEF Next

LEMMA ConstructRecorded ==
  ASSUME TypeOK, Table, Recorded(processes, tombstones),
         NEW kill, NEW notify, NEW back, Construct(kill, notify, back)
  PROVE  Recorded(processes', tombstones')
<1> DEFINE n == NextPid
           procs == NextPidProcesses
<1>1. /\ n \in Pids /\ processes' = [procs EXCEPT ![n.idx] = n]
      /\ tombstones' = NextPidTombstones
  BY DEF Construct, Constructed
<1>2. procs \in Seq(PidOrNone) /\ n.idx \in Indices(procs)
  BY NextPidTypes, AllocInv DEF Table
<1>3. /\ processes \in Seq(PidOrNone) /\ Len(processes) \in Nat
      /\ tombstones \in Seq(Pids)
  BY LenProperties DEF TypeOK
<1> HIDE DEF n, procs
<1>4. /\ Indices(processes') = Indices(procs) /\ processes'[n.idx] # NoPid
      /\ \A i \in Indices(procs) : i # n.idx => processes'[i] = procs[i]
  BY <1>1, <1>2, ExceptSeq, PidFields DEF Indices, PidOrNone
<1>5. CASE tombstones = <<>>
  <2>1. n.idx = Len(processes) + 1 /\ procs = Append(processes, NoPid)
    BY <1>5 DEF n, procs, NextPid, NextPidProcesses
  <2>2. /\ Indices(procs) = Indices(processes) \cup {n.idx}
        /\ \A i \in Indices(processes) : procs[i] = processes[i]
    <3>1. NoPid \in PidOrNone
      BY DEF PidOrNone
    <3> QED BY <1>3, <2>1, <3>1, AppendProperties DEF Indices
  <2>3. Indices(tombstones) = {}
    BY <1>5 DEF Indices
  <2> QED BY <1>4, <2>2, <2>3 DEF Recorded
<1>6. CASE tombstones # <<>>
  <2> DEFINE m == Len(tombstones)
  <2>1. /\ n.idx = tombstones[m].idx /\ procs = processes
        /\ tombstones' = SubSeq(tombstones, 1, m - 1)
    BY <1>1, <1>6 DEF n, procs, NextPid, NextPidProcesses, NextPidTombstones
  <2>2. /\ m \in Nat \ {0} /\ Len(tombstones') = m - 1
        /\ \A j \in 1..(m - 1) : tombstones'[j] = tombstones[j]
    BY <1>3, <1>6, <2>1, DropLast
  <2>3. /\ \A j \in Indices(tombstones) : j = m \/ j \in Indices(tombstones')
        /\ \A j \in Indices(tombstones') : tombstones'[j] = tombstones[j]
    BY <2>2 DEF Indices
  <2> HIDE DEF m
  <2>4. ASSUME NEW i \in Indices(processes'), processes'[i] = NoPid
        PROVE  \E j \in Indices(tombstones') : tombstones'[j].idx = i
    <3>1. i \in Indices(processes) /\ i # n.idx /\ processes[i] = NoPid
      BY <1>4, <2>1, <2>4
    <3>2. PICK j \in Indices(tombstones) : tombstones[j].idx = i
      BY <3>1 DEF Recorded
    <3> QED BY <2>1, <2>3, <3>1, <3>2
  <2> QED BY <2>4 DEF Recorded
<1> QED BY <1>5, <1>6

LEMMA AddToDestroyRecorded ==
  ASSUME TypeOK, Table, Recorded(processes, tombstones),
         NEW p \in Pids, AddToDestroy(p, processes, tombstones)
  PROVE  Recorded(processes', tombstones')
<1>1. CASE Found(processes, p)
  <2>1. /\ processes' = [processes EXCEPT ![p.idx] = NoPid]
        /\ tombstones' = Append(tombstones, p)
    BY <1>1 DEF AddToDestroy, MovedOut, Buried
  <2>2. processes \in Seq(PidOrNone) /\ tombstones \in Seq(Pids)
    BY DEF TypeOK
  <2>3. p.idx \in Indices(processes)
    BY <1>1, <2>2, FoundIsPid DEF Indices
  <2>4. /\ Indices(processes') = Indices(processes)
        /\ \A i \in Indices(processes) : i # p.idx => processes'[i] = processes[i]
    BY <2>1, <2>2, <2>3, ExceptSeq DEF Indices, PidOrNone
  <2>5. /\ Len(tombstones) \in Nat /\ Len(tombstones') = Len(tombstones) + 1
        /\ tombstones'[Len(tombstones) + 1] = p
        /\ \A j \in 1..Len(tombstones) : tombstones'[j] = tombstones[j]
    BY <2>1, <2>2, AppendProperties, LenProperties
  <2>6. /\ Len(tombstones) + 1 \in Indices(tombstones')
        /\ \A j \in Indices(tombstones) : /\ j \in Indices(tombstones')
                                          /\ tombstones'[j] = tombstones[j]
    BY <2>5 DEF Indices
  <2> QED BY <2>4, <2>5, <2>6 DEF Recorded
<1>2. CASE ~Found(processes, p)
  BY <1>2 DEF AddToDestroy
<1> QED BY <1>1, <1>2

\* When every entry is empty and has its tombstone, there are as many of one
\* as of the other.
LEMMA EmptyTableCovered ==
  ASSUME NEW procs \in Seq(PidOrNone), NEW tombs \in Seq(Pids),
         Recorded(procs, tombs), \A i \in Indices(procs) : procs[i] = NoPid,
         \A j \in Indices(tombs) : tombs[j].idx \in Indices(procs),
         \A j, k \in Indices(tombs) : tombs[j].idx = tombs[k].idx => j = k
  PROVE  Len(procs) = Len(tombs)
<1> DEFINE n == Len(procs)
           m == Len(tombs)
           f == [j \in 1..m |-> tombs[j].idx]
<1>1. /\ n \in Nat /\ m \in Nat
      /\ Indices(procs) = 1..n /\ Indices(tombs) = 1..m
  BY LenProperties DEF Indices
<1> HIDE DEF n, m
<1>2. f \in [1..m -> 1..n]
  BY <1>1
<1>3. \A j, k \in 1..m : f[j] = f[k] => j = k
  BY <1>1
<1>4. \A i \in 1..n : \E j \in 1..m : f[j] = i
  BY <1>1 DEF Recorded
<1>5. f \in Bijection(1..m, 1..n)
  BY <1>2, <1>3, <1>4, Zenon
  DEF Bijection, Injection, Surjection, IsInjective
<1>6. ExistsBijection(1..m, 1..n)
  BY <1>5, Zenon DEF ExistsBijection
<1>7. /\ IsFiniteSet(1..m) /\ IsFiniteSet(1..n)
      /\ Cardinality(1..m) = m /\ Cardinality(1..n) = n
  BY <1>1, FS_Interval
<1>8. Cardinality(1..m) = Cardinality(1..n)
  BY <1>6, <1>7, FS_Bijection
<1> QED BY <1>7, <1>8 DEF n, m

\* The loop of run() goes on exactly as long as a process is alive, in every
\* program whose constructors do not throw: then each empty entry of processes_
\* has exactly one tombstone.
THEOREM LoopRunsTheLiving ==
  ASSUME \A i \in 1..MaxProcs : "spawnThrows" \notin Ops[i]
  PROVE  Spec => []LoopTestIsExact
<1> DEFINE Inv == SchedulerInv /\ Recorded(processes, tombstones)
<1>1. Init => Inv
  <2>1. Init => Recorded(processes, tombstones)
    BY DEF Init, Recorded, Indices
  <2> QED BY <2>1, TypeInit, TableInit, LoopInit DEF SchedulerInv
<1>2. Inv /\ [Next]_vars => Inv'
  <2> SUFFICES ASSUME Inv, [Next]_vars PROVE Inv'
    OBVIOUS
  <2>1. SchedulerInv'
    BY TypeStep, TableStep, LoopNext DEF SchedulerInv
  <2>2. \A p, b \in Pids : ~SpawnThrows(p, b)
    BY PidFields DEF SpawnThrows, Calls
  <2>3. Recorded(processes', tombstones')
    BY <2>2, TableSteps, ConstructRecorded, AddToDestroyRecorded
    DEF SchedulerInv, Recorded
  <2> QED BY <2>1, <2>3 DEF Recorded
<1>3. Inv => LoopTestIsExact
  <2> SUFFICES ASSUME Inv
               PROVE  LoopContinues <=> \E p \in Pids : Live(p)
    BY DEF LoopTestIsExact
  <2>1. processes \in Seq(PidOrNone) /\ tombstones \in Seq(Pids)
    BY DEF SchedulerInv, TypeOK
  <2>2. /\ \A j \in Indices(tombstones) :
             /\ tombstones[j].idx \in Indices(processes)
             /\ processes[tombstones[j].idx] = NoPid
        /\ \A j, k \in Indices(tombstones) :
             tombstones[j].idx = tombstones[k].idx => j = k
    BY DEF SchedulerInv, Table, TableInv, Fresh
  <2>3. Len(processes) = Len(tombstones)
          <=> \A i \in Indices(processes) : processes[i] = NoPid
    BY <2>1, <2>2, TombstonesCoverTable, EmptyTableCovered
  <2>4. \A i \in Indices(processes) : processes[i] \in PidOrNone
    BY <2>1, ElementOfSeq DEF Indices
  <2>5. (\E p \in Pids : Live(p))
          <=> \E i \in Indices(processes) : processes[i] # NoPid
    BY <2>4, PidFields DEF Live, PidOrNone, Indices
  <2> QED BY <2>3, <2>5 DEF LoopContinues
<1> HIDE DEF Inv
<1> QED BY <1>1, <1>2, <1>3, PTL DEF Spec
=============================================================================
