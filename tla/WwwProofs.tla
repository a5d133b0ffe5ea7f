------------------------------ MODULE WwwProofs ------------------------------
(***************************************************************************)
(* Theorems about module WwwServer.  Most of its steps are steps of Context, *)
(* so that the invariants of the scheduler carry over; the others (a message *)
(* with an address in it, an accept handler that spawns a process, a read    *)
(* that completes, std::terminate) are shown to keep them here.              *)
(***************************************************************************)
EXTENDS WwwServer, WakeupProofs

Buffers == {"whole", "head", "piece", "last"}
Places == {"start", "recv", "spawn", "failed", "loop", "forwarded", "written",
           "parse", "respond", "response", "clear", "pieces", "piece", "unwind",
           "thrown"}
Members == {"eof_", "nextRead", "except_", "isWriting", "p_"}


Logs == [connections : Nat, chunks : Nat, requests : [Pids -> Nat],
         answers : [Pids -> Seq(Seq(Buffers))], terminated : BOOLEAN]

WwwTypes ==
  /\ role \in [Pids -> {"none", "server", "listener", "socket", "session"}]
  /\ pc \in [Pids -> Places] /\ peer \in [Pids -> PidOrNone]
  /\ sock \in [Pids -> SUBSET Members]
  /\ asks \in SUBSET Pids /\ batch \in [Pids -> Seq(Buffers)]
  /\ log \in Logs

\* p has the class r.
Is(p, r) == p \in Pids /\ role[p] = r

\* Where the coroutine of each class can be, and whom it knows there: a socket in its
\* loop the session that has this socket.
Cast(p) ==
  /\ role[p] = "none" => pc[p] = "start"
  /\ role[p] = "server" => /\ pc[p] \in {"start", "recv", "spawn"}
                           /\ pc[p] = "spawn" => Is(peer[p], "socket")
  /\ role[p] = "listener" => /\ pc[p] \in {"start", "failed"}
                             /\ Is(peer[p], "server")
  /\ role[p] = "socket" =>
       \/ pc[p] \in {"start", "recv"} /\ Is(peer[p], "server")
       \/ /\ pc[p] \in {"loop", "forwarded", "written", "thrown"}
          /\ peer[p] = NoPid \/ (Is(peer[p], "session") /\ peer[peer[p]] = p)
  /\ role[p] = "session" =>
       /\ pc[p] \notin {"spawn", "failed", "loop", "forwarded", "written"}
       /\ Is(peer[p], "socket")

\* Classes belong to pids that were given out; only sockets throttle, and only for
\* their sessions; nobody asks for death notices; the operations of the io_service
\* belong to processes that have not been deleted.
Holds(p) ==
  /\ role[p] # "none" => Spawned(p)
  /\ sending[p] # NoPid => /\ Is(p, "socket") /\ pc[p] = "forwarded"
                           /\ Is(sending[p], "session") /\ sending[p] = peer[p]
  /\ notifyOnDie[p] = NoPid
  /\ p \in asks => Spawned(p) /\ p \notin freed

\* m is in queue_ or in a slot.
Mailed(m) ==
  \/ \E i \in Indices(queue) : IsMessage(queue, i) /\ queue[i].message = m
  \/ \E r \in Pids : \E i \in Indices(Contents(mq[r])) : Contents(mq[r])[i] = m

\* What the messages carry: the server is told of sockets, a socket of its session.
Carries(m) ==
  /\ m.to \in Pids /\ role[m.to] # "none"
  /\ role[m.to] = "server" => Is(m.body, "socket")
  /\ role[m.to] = "socket" =>
       m.body = NoPid \/ (Is(m.body, "session") /\ peer[m.body] = m.to)

MailCarries == \A m \in Messages : Mailed(m) => Carries(m)

\* p is killed when a process of class r dies.
Tied(p, r) == \E q \in Pids : role[q] = r /\ p \in killOnDie[q]
Ties(p) ==
  /\ role[p] = "socket" => Tied(p, "listener")
  /\ role[p] = "session" => p \in killOnDie[peer[p]]
  /\ role[p] = "server" /\ pc[p] # "start" => Tied(p, "listener")

\* The header of a chunked answer and some of its pieces.
Begun(b) == /\ Len(b) >= 1 /\ b[1] = "head"
            /\ \A k \in 2..Len(b) : b[k] = "piece"

\* The answers a session has sent, and the one in its StreamBatcher.
Progress(p) ==
  LET a == log.answers[p] IN
  IF pc[p] \in {"respond", "response", "clear", "pieces", "piece", "unwind"}
  THEN log.requests[p] = Len(a) + 1 ELSE log.requests[p] = Len(a)
Batched(p) ==
  IF pc[p] = "clear" THEN Whole(batch[p])
  ELSE IF pc[p] \in {"pieces", "piece", "unwind"} THEN Begun(batch[p])
  ELSE batch[p] = <<>>
Answered(p) ==
  /\ role[p] # "session" =>
       log.requests[p] = 0 /\ log.answers[p] = <<>> /\ batch[p] = <<>>
  /\ Progress(p) /\ Batched(p)
  /\ LET a == log.answers[p] IN
     \A k \in 1..Len(a) : Whole(a[k]) \/ (k = Len(a) /\ pc[p] = "thrown")

WwwInv == /\ WwwTypes /\ MailCarries
          /\ \A p \in Pids : Cast(p) /\ Holds(p) /\ Ties(p) /\ Answered(p)

-----------------------------------------------------------------------------
(* The steps of the server, for the Context *)

\* No step of Context: nobody is created, nobody dies and no message moves.
Idles ==
  /\ TypeOK' /\ LoopInv'
  /\ NoMail /\ running' \in {running, NoPid}
  /\ UNCHANGED <<tableVars, linkVars, dying, kills, freed>>
  /\ \A r \in Pids : sending'[r] = sending[r]

\* p may be resumed by the io_service.
Recalls(p) == ready' \in {ready, Append(ready, Continuation(p, resumes[p]))}

\* p stops: as a listener, or as a socket that waits for its handlers.
Pauses(p, w) ==
  /\ running = p /\ w \in {"always", "timedRecv"}
  /\ w = "timedRecv" => Size(mq[p]) = 0
  /\ Park(p, w) /\ Recalls(p)
  /\ UNCHANGED <<at, dying, kills, tableVars, resumes, sending, linkVars,
                 mailVars, timers, stopped, memVars>>

\* An operation of p has completed.
Reports(p) ==
  /\ at \in {"wait", "poll"} /\ running = NoPid /\ at' = "poll"
  /\ Recalls(p)
  /\ UNCHANGED <<running, dying, kills, tableVars, procVars, linkVars, mailVars,
                 timers, stopped, memVars>>

\* Such steps, the end of the program, the wait for the clients, and a socket whose
\* session has no address.
Besides ==
  \/ \E p \in Pids : Reports(p) \/ \E w : Pauses(p, w)
  \/ Terminates /\ (running # NoPid => InUserCode(running))
  \/ RunOneWaits
  \/ running # NoPid /\ SendThrottled(running, NoPid)

\* send() to a process that was spawned.
Tells(to, body) ==
  /\ to \in Pids /\ Spawned(to) /\ body \in PidOrNone /\ Posts(to, body)

ServerStep ==
  \/ [Next]_vars
  \/ Besides
  \/ \E to, body \in PidOrNone : Tells(to, body)
  \/ \E p \in asks : Accept(p)

\* Whoever runs is in the table or in toDestroy_.
LEMMA RunningIsSpawned ==
  ASSUME SchedulerInv, running # NoPid
  PROVE  running \in Pids /\ Spawned(running) /\ running \notin freed
<1>1. running \in Pids /\ Exists(processes, toDestroy, running)
  BY DEF SchedulerInv, TypeOK, PidOrNone, LoopInv
<1> QED BY <1>1 DEF Exists, Spawned, Known, SchedulerInv, Table, TableInv, Owned

LEMMA HasAppend ==
  ASSUME NEW S, NEW s \in Seq(S), NEW e \in S
  PROVE  /\ Has(Append(s, e), e)
         /\ \A h : Has(s, h) => Has(Append(s, e), h)
<1>1. Appended(Append(s, e), s, e)
  BY AppendIndices
<1> QED BY <1>1 DEF Appended, Has

LEMMA RecallTypes ==
  ASSUME SchedulerInv, NEW p \in Pids, Recalls(p)
  PROVE  ready' \in Seq(Handlers) /\ \A h : Has(ready, h) => Has(ready', h)
<1>1. ready \in Seq(Handlers) /\ Continuation(p, resumes[p]) \in Handlers
  BY HandlerTypes DEF SchedulerInv, TypeOK
<1>2. CASE ready' = ready
  BY <1>1, <1>2
<1>3. CASE ready' = Append(ready, Continuation(p, resumes[p]))
  BY <1>1, <1>3, AppendProperties, HasAppend
<1> QED BY <1>2, <1>3 DEF Recalls

\* The running process is suspended without a call of the Context.
LEMMA PauseIdles ==
  ASSUME SchedulerInv, NEW p \in Pids, NEW w, Pauses(p, w)
  PROVE  Idles
<1> USE DEF SchedulerInv, tableVars, linkVars, mailVars, memVars, Pauses
<1>1. TypeOK'
  <2>1. ready' \in Seq(Handlers)
    BY RecallTypes
  <2> QED BY <2>1 DEF TypeOK, Park, PidOrNone
<1>2. LoopInv'
  BY DEF LoopInv, Park
<1>3. NoMail
  BY BoxesFrame DEF NoMail
<1> QED BY <1>1, <1>2, <1>3 DEF Idles, Park

\* An operation of the io_service completes and posts a continuation.
LEMMA ReportIdles ==
  ASSUME SchedulerInv, NEW p \in Pids, Reports(p)
  PROVE  Idles
<1> USE DEF SchedulerInv, tableVars, procVars, linkVars, mailVars, memVars, Reports
<1>1. ready' \in Seq(Handlers)
  BY RecallTypes
<1>2. TypeOK'
  BY <1>1 DEF TypeOK
<1>3. LoopInv'
  BY DEF LoopInv
<1>4. NoMail
  BY BoxesFrame DEF NoMail
<1> QED BY <1>2, <1>3, <1>4 DEF Idles

LEMMA TerminatesIdles ==
  ASSUME SchedulerInv, Terminates
  PROVE  Idles
<1> USE DEF SchedulerInv, tableVars, procVars, linkVars, mailVars, ioVars, memVars,
            Terminates
<1>1. TypeOK'
  BY DEF TypeOK, PidOrNone
<1>2. LoopInv'
  BY DEF LoopInv
<1>3. NoMail
  BY BoxesFrame DEF NoMail
<1> QED BY <1>1, <1>2, <1>3 DEF Idles

LEMMA RunOneWaitsIdles ==
  ASSUME SchedulerInv, RunOneWaits
  PROVE  Idles
<1> USE DEF SchedulerInv, tableVars, procVars, linkVars, mailVars, rest, RunOneWaits
<1>1. TypeOK'
  BY DEF TypeOK
<1>2. LoopInv'
  BY DEF LoopInv
<1>3. NoMail
  BY BoxesFrame DEF NoMail
<1> QED BY <1>1, <1>2, <1>3 DEF Idles

\* A socket whose session has no address for it.
LEMMA ForwardIdles ==
  ASSUME SchedulerInv, running # NoPid, SendThrottled(running, NoPid)
  PROVE  Idles
<1> DEFINE p == running
<1>0. /\ p \in Pids /\ Spawned(p) /\ InUserCode(p) /\ resumes[p] \in Nat
  BY RunningIsSpawned DEF SendThrottled, Calls, SchedulerInv, TypeOK
<1>1. /\ sending' = [sending EXCEPT ![p] = NoPid] /\ sending[p] = NoPid
      /\ \/ /\ Park(p, "yield")
            /\ queue' = Append(queue, ResumeItem(p, resumes[p]))
         \/ UNCHANGED <<running, waiting, queue>>
      /\ UNCHANGED <<at, dying, kills, tableVars, resumes, linkVars, mq, sends,
                     noticed, ioVars, memVars>>
  BY DEF SendThrottled, Calls, InUserCode
<1> HIDE DEF p
<1> USE DEF tableVars, linkVars, ioVars, memVars
<1>2. queue' \in Seq(Items)
  <2>1. ResumeItem(p, resumes[p]) \in Items
    BY <1>0, ItemTypes DEF PidOrNone
  <2>2. queue \in Seq(Items)
    BY DEF SchedulerInv, TypeOK
  <2>3. CASE queue' = Append(queue, ResumeItem(p, resumes[p]))
    BY <2>1, <2>2, <2>3, AppendProperties
  <2> QED BY <1>1, <2>2, <2>3
<1>3. TypeOK'
  BY <1>0, <1>1, <1>2 DEF SchedulerInv, TypeOK, Park, PidOrNone
<1>4. LoopInv'
  BY <1>1 DEF SchedulerInv, LoopInv, Park
<1>5. NoMail
  BY <1>0, <1>1, BoxesFrame DEF NoMail
<1>6. \A r \in Pids : sending'[r] = sending[r]
  BY <1>0, <1>1 DEF SchedulerInv, TypeOK
<1> QED BY <1>1, <1>3, <1>4, <1>5, <1>6 DEF Idles, Park

LEMMA BesidesIdles ==
  ASSUME SchedulerInv, Besides
  PROVE  Idles
BY PauseIdles, ReportIdles, TerminatesIdles, RunOneWaitsIdles, ForwardIdles
DEF Besides

LEMMA ProcessActs ==
  ASSUME ActorsInv, WwwInv, NEW p \in Pids, running = p, WwwStep(p)
  PROVE  ServerStep
<1>0. /\ SchedulerInv /\ p # NoPid /\ Spawned(p) /\ p \in PidOrNone
      /\ Cast(p) /\ peer[p] \in PidOrNone
      /\ \A q \in Pids : role[q] # "none" => Spawned(q)
  BY PidFields, RunningIsSpawned DEF ActorsInv, WwwInv, Holds, WwwTypes, PidOrNone
<1>1. ASSUME ProcessStep(p) PROVE ServerStep
  BY <1>1 DEF ServerStep, Next
<1>2. ASSUME NEW r, Is(peer[p], r), r # "none", NEW body \in PidOrNone,
             Posts(peer[p], body)
      PROVE  ServerStep
  BY <1>0, <1>2 DEF Is, Tells, ServerStep
<1>3. CASE WaitForMessage(p)
  BY <1>1, <1>3 DEF WaitForMessage, ProcessStep, Suspend
<1>4. CASE GetMessage(p)
  BY <1>1, <1>4 DEF GetMessage, ProcessStep
<1>5. CASE MakeListener(p)
  BY <1>1, <1>5 DEF MakeListener, ProcessStep
<1>6. CASE SpawnSession(p)
  <2>1. peer[p] \in Pids
    BY <1>0, <1>6 DEF SpawnSession, Runs, Cast, Is
  <2> QED BY <1>1, <1>6, <2>1 DEF SpawnSession, ProcessStep
<1>7. CASE Listen(p)
  <2>1. CASE Finish(p)
    BY <1>1, <2>1 DEF ProcessStep
  <2>2. CASE ~Finish(p)
    <3>1. Pauses(p, "always")
      BY <1>7, <2>2 DEF Listen, Runs, InUserCode, Pauses, Recalls, ioVars
    <3> QED BY <3>1 DEF Besides, ServerStep
  <2> QED BY <2>1, <2>2
<1>8. CASE ListenerThrows(p) \/ SocketEnds(p) \/ Throws(p)
  BY <1>1, <1>8 DEF ListenerThrows, SocketEnds, Throws, ProcessStep
<1>9. CASE Announce(p)
  <2>1. Is(peer[p], "server")
    BY <1>0, <1>9 DEF Announce, Runs, Cast
  <2> QED BY <1>0, <1>2, <1>9, <2>1 DEF Announce
<1>10. CASE Forward(p)
  <2>1. CASE peer[p] \in Pids
    BY <1>1, <1>10, <2>1 DEF Forward, ProcessStep
  <2>2. CASE peer[p] = NoPid
    BY <1>0, <1>10, <2>2 DEF Forward, Besides, ServerStep
  <2> QED BY <1>0, <2>1, <2>2 DEF PidOrNone
<1>11. CASE Forwarding(p)
  BY <1>1, <1>11 DEF Forwarding, ProcessStep
<1>12. CASE ReadOn(p) \/ WriteAwaited(p) \/ EndPieces(p)
  BY <1>12 DEF ReadOn, WriteAwaited, EndPieces, ServerStep
<1>13. CASE Write(p)
  BY <1>1, <1>13 DEF Write, ProcessStep
<1>14. CASE SocketWaits(p)
  <2>1. Pauses(p, "timedRecv")
    BY <1>14 DEF SocketWaits, MayTake, AtWrites, Runs, InUserCode, Pauses, Recalls
  <2> QED BY <2>1 DEF Besides, ServerStep
<1>15. CASE InitRecvSocket(p)
  <2>1. Is(peer[p], "socket")
    BY <1>0, <1>15 DEF InitRecvSocket, Runs, Cast
  <2>2. CASE Finish(p)
    BY <1>1, <2>2 DEF ProcessStep
  <2> QED BY <1>0, <1>2, <1>15, <2>1, <2>2 DEF InitRecvSocket
<1>16. CASE Parse(p) \/ Respond(p) \/ Piece(p)
  <2>1. CASE Finish(p)
    BY <1>1, <2>1 DEF ProcessStep
  <2> QED BY <1>16, <2>1 DEF Parse, Respond, Piece, ServerStep
<1>17. CASE GetResponse(p) \/ NextPiece(p)
  <2>1. CASE Suspend(p, "sleep")
    BY <1>1, <2>1 DEF ProcessStep, Suspend
  <2> QED BY <1>17, <2>1 DEF GetResponse, NextPiece, ServerStep
<1>18. CASE Clear(p)
  <2>1. Is(peer[p], "socket")
    BY <1>0, <1>18 DEF Clear, Runs, Cast
  <2>2. CASE Terminates
    BY <1>18, <2>2 DEF Clear, Runs, Besides, ServerStep
  <2>3. CASE Posts(peer[p], NoPid)
    BY <1>2, <2>1, <2>3 DEF PidOrNone
  <2> QED BY <1>18, <2>2, <2>3 DEF Clear, ServerStep
<1>19. CASE AwaitWrite(p)
  <2>1. CASE "p_" \notin sock[p]
    <3>1. Pauses(p, "always")
      BY <1>19, <2>1 DEF AwaitWrite, AtWrites, Runs, InUserCode, Pauses, Recalls,
                         ioVars
    <3> QED BY <3>1 DEF Besides, ServerStep
  <2> QED BY <1>19, <2>1 DEF AwaitWrite, ServerStep
<1> QED BY <1>3, <1>4, <1>5, <1>6, <1>7, <1>8, <1>9, <1>10, <1>11, <1>12, <1>13,
           <1>14, <1>15, <1>16, <1>17, <1>18, <1>19 DEF WwwStep

\* An operation of p completes, other than an accept.
Handles(p) ==
  \/ p \in asks /\ \/ AcceptFails(p)
                    \/ \E e \in {"nextRead", "eof_", "except_"} : ReadCompletes(p, e)
  \/ p \in Pids /\ \E es \in {{}, {"except_"}} : WriteCompletes(p, es)

LEMMA WwwActs ==
  ASSUME ActorsInv, WwwInv, [WwwNext]_allVars
  PROVE  ServerStep
<1>0. SchedulerInv /\ asks \subseteq Pids
  BY DEF ActorsInv, WwwInv, WwwTypes
<1>1. CASE MainSpawnsServer
  BY <1>1 DEF MainSpawnsServer, ServerStep, Next
<1>2. CASE running # NoPid /\ WwwStep(running)
  BY <1>0, <1>2, RunningIsSpawned, ProcessActs
<1>3. ASSUME NEW p, Handles(p) PROVE ServerStep
  <2>1. p \in Pids /\ Reports(p)
    BY <1>0, <1>3 DEF Handles, AcceptFails, ReadCompletes, WriteCompletes, Completes,
                      Leaves, Reports, Recalls
  <2> QED BY <2>1 DEF Besides, ServerStep
<1>4. CASE RunOneWaits
  BY <1>4 DEF Besides, ServerStep
<1>5. CASE DeleteProcess
  <2>1. running = NoPid
    BY <1>0, <1>5 DEF DeleteProcess, SchedulerInv, LoopInv
  <2> QED BY <1>5, <2>1 DEF DeleteProcess, Besides, ServerStep, Next, LoopStep
<1>6. CASE ContextStep \/ Terminated
  BY <1>6 DEF ContextStep, ServerStep, Next, LoopStep
<1>7. CASE UNCHANGED allVars
  BY <1>7 DEF allVars, ServerStep
<1> QED BY <1>1, <1>2, <1>3, <1>4, <1>5, <1>6, <1>7 DEF WwwNext, ServerStep, Handles

-----------------------------------------------------------------------------
(* They keep the invariants of the Context. *)

\* What every step does to the processes.
Stays ==
  /\ KeepsProcesses
  /\ \A p \in Pids : Spawned(p) => NowSpawned(p)

LEMMA IdlesKeeps ==
  ASSUME ActorsInv, Idles
  PROVE  ActorsInv' /\ Stays
<1> USE DEF tableVars, linkVars
<1>0. TypeOK /\ TypeOK' /\ Table /\ LoopInv' /\ LinkInv /\ MailInv /\ Addressed
  BY DEF ActorsInv, SchedulerInv, Idles
<1>1. Table' /\ KeepsProcesses
  BY <1>0, TableFrame DEF Idles
<1>2. Stays
  BY <1>1 DEF Stays, Spawned, NowSpawned, Idles
<1>3. LinkInv'
  BY <1>0, <1>1, LinksFrame, LinkKept DEF Idles
<1>4. MailInv'
  BY <1>0, NoMailOrder DEF Idles
<1>5. Names
  BY <1>0, <1>2, NoMailAddressed DEF Idles, Names, Stays
<1>6. Addressed'
  BY <1>0, <1>2, <1>5, NamesKept DEF Idles, Stays
<1> QED BY <1>0, <1>1, <1>2, <1>3, <1>4, <1>6 DEF ActorsInv, SchedulerInv

LEMMA TellsKeeps ==
  ASSUME ActorsInv, NEW to, NEW body, Tells(to, body)
  PROVE  ActorsInv' /\ Stays /\ Sent(to, body)
<1> USE DEF loopVars, tableVars, procVars, linkVars, ioVars, memVars
<1>0. TypeOK /\ Table /\ LoopInv /\ LinkInv /\ MailInv /\ Addressed
  BY DEF ActorsInv, SchedulerInv
<1>1. /\ to \in Pids /\ Spawned(to) /\ body \in PidOrNone /\ QueueSend(to, body)
      /\ UNCHANGED <<loopVars, tableVars, procVars, linkVars, mq, noticed, ioVars,
                     memVars>>
  BY DEF Tells, Posts
<1>2. Sent(to, body)
  BY <1>1, BoxesFrame DEF Sent
<1>3. TypeOK'
  <2>1. MessageItem(Message(to, body, sends)) \in Items
    BY <1>0, <1>1, ItemTypes DEF TypeOK
  <2>2. queue' \in Seq(Items) /\ sends' \in Nat
    BY <1>0, <1>1, <2>1, AppendProperties DEF TypeOK, QueueSend
  <2> QED BY <1>0, <1>1, <2>2 DEF TypeOK
<1>4. LoopInv'
  BY <1>0, <1>1 DEF LoopInv
<1>5. Table' /\ KeepsProcesses
  BY <1>0, <1>1, TableFrame
<1>6. Stays
  BY <1>1, <1>5 DEF Stays, Spawned, NowSpawned
<1>7. LinkInv'
  BY <1>0, <1>1, <1>3, <1>5, LinksFrame, LinkKept
<1>8. MailInv'
  BY <1>0, <1>2, SentOrder
<1>9. Names
  BY <1>0, <1>1, <1>2, <1>6, SentAddressed DEF Names, Stays
<1>10. Addressed'
  BY <1>0, <1>1, <1>3, <1>6, <1>9, NamesKept DEF Stays
<1> QED BY <1>2, <1>3, <1>4, <1>5, <1>6, <1>7, <1>8, <1>10
        DEF ActorsInv, SchedulerInv

LEMMA AcceptKeeps ==
  ASSUME ActorsInv, WwwInv, NEW p \in asks, Accept(p)
  PROVE  ActorsInv' /\ Stays
<1>0. TypeOK /\ Table /\ LoopInv /\ LinkInv /\ MailInv /\ Addressed
  BY DEF ActorsInv, SchedulerInv
<1>1. /\ at \in {"wait", "poll"} /\ running = NoPid /\ at' = "poll"
      /\ Constructed({}, NoPid, {p})
      /\ UNCHANGED <<running, dying, kills, toDestroy, sends, noticed, ioVars,
                     memVars>>
  BY DEF Accept, Completes, AcceptLinks
<1>2. p \in Pids /\ Exists(processes, toDestroy, p) /\ freed' = freed
  <2>1. p \in Pids /\ Spawned(p) /\ p \notin freed
    BY DEF WwwInv, WwwTypes, Holds
  <2>2. dying = NoPid
    BY <1>0, <1>1 DEF LoopInv
  <2> QED BY <1>1, <2>1, <2>2, PidFields DEF Spawned, Known, Exists, memVars
<1>3. {} \in SUBSET Pids /\ {p} \in SUBSET Pids /\ NoPid \in PidOrNone
      /\ NoPid \notin Pids
  BY <1>2, PidFields DEF PidOrNone
<1>4. TypeOK'
  BY <1>0, <1>1, <1>3, ConstructedTypes
<1>5. LoopInv'
  BY <1>0, <1>1 DEF LoopInv
<1>6. Table' /\ KeepsProcesses
  BY <1>0, <1>1, <1>2, ConstructedTable
<1>7. Stays
  <2>1. \A q \in Pids : InTable(processes, q) => InTable(processes', q)
    BY <1>0, <1>1, <1>2, ConstructedFresh
  <2> QED BY <1>1, <1>2, <1>6, <2>1 DEF Stays, Spawned, NowSpawned, Known
<1>8. LinksTheExisting
  BY <1>0, <1>1, <1>2, <1>3, ConstructedLinks
<1>9. LinkInv'
  BY <1>0, <1>1, <1>2, <1>4, <1>6, <1>8, LinkKept
<1>10. MailInv'
  BY <1>0, <1>1, ConstructedOrder
<1>11. Names
  BY <1>0, <1>1, <1>2, <1>3, ConstructedNames
<1>12. \A r \in Pids : sending'[r] \in {sending[r], NoPid}
  BY <1>0, <1>1 DEF Constructed, TypeOK
<1>13. Addressed'
  BY <1>0, <1>4, <1>7, <1>11, <1>12, NamesKept DEF Stays
<1> QED BY <1>4, <1>5, <1>6, <1>7, <1>9, <1>10, <1>13 DEF ActorsInv, SchedulerInv

LEMMA ServerKeeps ==
  ASSUME ActorsInv, WwwInv, ServerStep
  PROVE  ActorsInv' /\ Stays
<1>1. CASE [Next]_vars
  <2>1. ActorsInv'
    BY <1>1, ActorsNext
  <2>2. Stays
    BY <1>1, TableStep, SpawnedStays
    DEF ActorsInv, SchedulerInv, Stays, Spawned, NowSpawned
  <2> QED BY <2>1, <2>2
<1> QED BY <1>1, BesidesIdles, IdlesKeeps, TellsKeeps, AcceptKeeps
        DEF ServerStep, ActorsInv

-----------------------------------------------------------------------------
(* What the steps do to the classes, the links and the mail *)

\* A process of class r is spawned, by p or by the handler of p's accept: it
\* knows b, is killed with those in back and kills those in kill.
Enters(r, b, p, l, kill, back) ==
  /\ Becomes(r, b, p, l) /\ r # "none"
  /\ Constructed(kill, NoPid, back)
  /\ log' \in {log, [log EXCEPT !.connections = @ + 1]}
  /\ UNCHANGED <<toDestroy, dying, freed, sends, sock, asks, batch>>

Calm == UNCHANGED <<sending, linkVars, freed, sends>>

\* The messages of the server.
Talks(p) ==
  \/ Announce(p)
  \/ InitRecvSocket(p) /\ Posts(peer[p], p)
  \/ Clear(p) /\ Posts(peer[p], NoPid)
  \/ ThrottledSend(p) /\ UNCHANGED wwwVars

LEMMA ProcessEffects ==
  ASSUME NEW p \in Pids, WwwStep(p)
  PROVE  \/ Calm /\ role' = role
         \/ MakeListener(p) \/ (SpawnSession(p) /\ Found(processes, peer[p]))
         \/ Forward(p) \/ Talks(p)
<1> DEFINE Goal == \/ Calm /\ role' = role
                   \/ MakeListener(p) \/ (SpawnSession(p) /\ Found(processes, peer[p]))
                   \/ Forward(p) \/ Talks(p)
<1> USE DEF wwwVars, vars, procVars, linkVars, mailVars, memVars
<1>1. ASSUME Finish(p) \/ Receive(p) \/ AwaitResume(p) \/ WaitForRoom(p)
             \/ CanQueueNull(p) \/ UNCHANGED vars PROVE Calm
  BY <1>1 DEF Finish, Receive, AwaitResume, WaitForRoom, CanQueueNull, Calm
<1>2. ASSUME NEW w, Suspend(p, w) PROVE Calm
  BY <1>2 DEF Suspend, Calm
<1>3. CASE WaitForMessage(p) \/ GetMessage(p)
  BY <1>1, <1>2, <1>3 DEF WaitForMessage, GetMessage
<1>4. CASE SpawnSession(p) /\ ~Found(processes, peer[p])
  BY <1>4 DEF SpawnSession, SpawnThrows, Calm
<1>5. CASE Listen(p) \/ SocketWaits(p) \/ AwaitWrite(p)
  BY <1>1, <1>5 DEF Listen, SocketWaits, AwaitWrite, Calm
<1>6. CASE ListenerThrows(p) \/ SocketEnds(p) \/ Throws(p)
  BY <1>1, <1>6 DEF ListenerThrows, SocketEnds, Throws
<1>7. CASE Forwarding(p)
  BY <1>1, <1>7 DEF Forwarding, Talks
<1>8. CASE ReadOn(p) \/ WriteAwaited(p) \/ Respond(p) \/ Piece(p) \/ EndPieces(p)
  BY <1>1, <1>8 DEF ReadOn, WriteAwaited, Respond, Piece, EndPieces
<1>9. CASE Write(p)
  BY <1>1, <1>9 DEF Write
<1>10. CASE InitRecvSocket(p) \/ Announce(p)
  BY <1>1, <1>10 DEF InitRecvSocket, Talks
<1>11. CASE Parse(p) \/ GetResponse(p) \/ NextPiece(p)
  BY <1>1, <1>2, <1>11 DEF Parse, GetResponse, NextPiece
<1>12. CASE Clear(p)
  BY <1>1, <1>12 DEF Clear, Terminates, Calm, Talks
<1> QED BY <1>3, <1>4, <1>5, <1>6, <1>7, <1>8, <1>9, <1>10, <1>11, <1>12
        DEF WwwStep

\* Where processes of each class come from.
Hires ==
  \/ Enters("server", NoPid, NextPid, "start", {}, {})
  \/ \E p \in Pids : /\ running = p /\ role[p] = "server"
                     /\ Enters("listener", p, p, "recv", {p}, {p})
  \/ \E p \in Pids :
       /\ running = p /\ role[p] = "server" /\ pc[p] = "spawn"
       /\ Enters("session", peer[p], p, "recv", {peer[p]}, {peer[p]})
  \/ \E p \in asks : /\ role[p] = "listener"
                     /\ Enters("socket", peer[p], p, pc[p], {}, {p})

LEMMA SpawnsHire ==
  ASSUME \/ MainSpawnsServer
         \/ \E p \in Pids : \/ MakeListener(p)
                            \/ SpawnSession(p) /\ Found(processes, peer[p])
         \/ \E p \in asks : Accept(p)
  PROVE  Hires
<1> USE DEF loopVars, memVars, Runs, InUserCode, Construct, Enters
<1>1. CASE MainSpawnsServer
  BY <1>1 DEF MainSpawnsServer, MainSpawn, Hires
<1>2. ASSUME NEW p \in Pids, MakeListener(p) PROVE Hires
  BY <1>2 DEF MakeListener, SpawnLink, Hires
<1>3. ASSUME NEW p \in Pids, SpawnSession(p), Found(processes, peer[p]) PROVE Hires
  BY <1>3 DEF SpawnSession, SpawnCtorLink, Hires
<1>4. ASSUME NEW p \in asks, Accept(p) PROVE Hires
  BY <1>4 DEF Accept, Completes, AcceptLinks, Hires
<1> QED BY <1>1, <1>2, <1>3, <1>4

LEMMA WwwEffects ==
  ASSUME ActorsInv, WwwInv, [WwwNext]_allVars
  PROVE  \/ Calm /\ role' = role
         \/ Hires
         \/ \E p \in Pids : Forward(p) \/ Talks(p)
         \/ DeleteProcess /\ FinishDestroy /\ asks' = asks \ {dying}
            /\ UNCHANGED <<role, pc, peer, batch, log>>
<1> USE DEF wwwVars, vars, procVars, linkVars, mailVars, memVars, rest
<1>1. CASE MainSpawnsServer
  BY <1>1, SpawnsHire
<1>2. CASE running # NoPid /\ WwwStep(running)
  <2>1. running \in Pids
    BY <1>2, RunningIsSpawned DEF ActorsInv
  <2> QED BY <1>2, <2>1, ProcessEffects, SpawnsHire
<1>3. ASSUME NEW p \in asks, Accept(p) PROVE Hires
  BY <1>3, SpawnsHire
<1>4. ASSUME NEW p, Handles(p) PROVE Calm /\ role' = role
  BY <1>4 DEF Handles, AcceptFails, ReadCompletes, WriteCompletes, Calm
<1>5. CASE RunOneWaits
  BY <1>5 DEF RunOneWaits, Calm
<1>6. CASE DeleteProcess
  BY <1>6 DEF DeleteProcess, Terminates, Calm
<1>7. CASE ContextStep /\ UNCHANGED wwwVars
  <2>1. CASE Run \/ Exit \/ ProcessMessage \/ ProcessResume
    BY <1>7, <2>1 DEF Run, Exit, ProcessMessage, ProcessResume, Calm
  <2>2. CASE RunAborted \/ RunTimer \/ RunContinuation \/ HandlerCrashes
    BY <1>7, <2>2 DEF RunAborted, RunTimer, RunContinuation, HandlerCrashes, Calm
  <2>3. ASSUME NEW p \in Pids, TimerExpires(p) \/ KillLinked(p)
        PROVE  Calm
    BY <2>3 DEF TimerExpires, KillLinked, Calm
  <2>4. CASE EndPoll \/ DestroyNext \/ DestroyDone
    BY <1>7, <2>4 DEF EndPoll, DestroyNext, DestroyDone, Calm
  <2> QED BY <1>7, <2>1, <2>2, <2>3, <2>4 DEF ContextStep
<1>8. CASE (Terminated /\ UNCHANGED wwwVars) \/ UNCHANGED allVars
  BY <1>8 DEF Terminated, allVars, Calm
<1> QED BY <1>1, <1>2, <1>3, <1>4, <1>5, <1>6, <1>7, <1>8 DEF WwwNext, Handles

\* The new process has a pid nobody has had.
LEMMA EntersFresh ==
  ASSUME ActorsInv, WwwInv, NEW r, NEW b, NEW p, NEW l, NEW kill, NEW back,
         Enters(r, b, p, l, kill, back)
  PROVE  /\ NextPid \in Pids /\ role[NextPid] = "none"
         /\ NowSpawned(NextPid) /\ NextPid \notin freed /\ ~Spawned(NextPid)
<1>1. /\ NextPid \in Pids /\ ~Spawned(NextPid) /\ InTable(processes', NextPid)
  BY ConstructedFresh DEF ActorsInv, SchedulerInv, Enters, Spawned
<1> QED BY <1>1 DEF WwwInv, Holds, NowSpawned, Spawned, Known

LEMMA HiresEnters ==
  ASSUME Hires
  PROVE  \E r, b, p, l, kill, back : Enters(r, b, p, l, kill, back)
BY DEF Hires

\* Every step of the server.
Elsewhere ==
  \/ \E p \in Pids : Handles(p)
  \/ RunOneWaits \/ DeleteProcess
  \/ UNCHANGED wwwVars

LEMMA WwwCases ==
  ASSUME ActorsInv, WwwInv, [WwwNext]_allVars
  PROVE  \/ Hires
         \/ \E p \in Pids :
              /\ p = running /\ WwwStep(p)
              /\ ~MakeListener(p) /\ ~(SpawnSession(p) /\ Found(processes, peer[p]))
         \/ Elsewhere
<1>1. running # NoPid => running \in Pids
  BY RunningIsSpawned DEF ActorsInv
<1>2. asks \subseteq Pids
  BY DEF WwwInv, WwwTypes
<1> QED BY <1>1, <1>2, SpawnsHire DEF WwwNext, Elsewhere, Handles, allVars

\* The peers of a session and of a socket that sends stay; a socket hears of
\* another one by a message.
LEMMA PeerSteps ==
  ASSUME ActorsInv, WwwInv, [WwwNext]_allVars, NEW q \in Pids
  PROVE  /\ role[q] = "session" => peer'[q] = peer[q]
         /\ role[q] = "socket" => \/ peer'[q] = peer[q]
                                  \/ running = q /\ GetMessage(q)
         /\ sending[q] # NoPid => peer'[q] = peer[q] /\ pc'[q] = pc[q]
<1> USE DEF wwwVars
<1>0. /\ WwwTypes /\ Cast(q)
      /\ sending[q] # NoPid => role[q] = "socket" /\ pc[q] = "forwarded"
  BY DEF WwwInv, Holds, Is
<1>1. CASE Hires
  <2>1. PICK n : n = NextPid /\ n \in Pids /\ role[n] = "none"
    BY <1>1, HiresEnters, EntersFresh
  <2>2. PICK r, b, p, l : /\ p \in Pids /\ Becomes(r, b, p, l)
                          /\ role[p] \in {"none", "server"} \/ l = pc[p]
    <3>1. asks \subseteq Pids
      BY <1>0 DEF WwwTypes
    <3> QED BY <1>1, <2>1, <3>1 DEF Hires, Enters
  <2>3. peer' = [peer EXCEPT ![n] = b] /\ pc' = [pc EXCEPT ![n] = "start", ![p] = l]
    BY <2>1, <2>2 DEF Becomes
  <2>4. role[q] # "none" => peer'[q] = peer[q]
    BY <1>0, <2>1, <2>3 DEF WwwTypes
  <2>5. role[q] = "socket" => pc'[q] = pc[q]
    BY <1>0, <2>1, <2>2, <2>3 DEF WwwTypes
  <2> QED BY <1>0, <2>4, <2>5
<1>2. CASE Elsewhere
  BY <1>2 DEF Elsewhere, Handles, AcceptFails, ReadCompletes, WriteCompletes,
              RunOneWaits, DeleteProcess, Terminates
<1>3. ASSUME NEW p \in Pids, p = running, WwwStep(p),
             ~MakeListener(p), ~(SpawnSession(p) /\ Found(processes, peer[p])),
             ~GetMessage(p)
      PROVE  /\ peer' = peer
             /\ sending[q] # NoPid => pc'[q] = pc[q]
  <2>1. CASE UNCHANGED <<pc, peer>>
    BY <2>1
  <2>2. ASSUME InUserCode(p), peer' = peer, \E l : GoOn(p, l)
        PROVE  /\ peer' = peer
               /\ sending[q] # NoPid => pc'[q] = pc[q]
    BY <1>0, <2>2 DEF GoOn, WwwTypes, InUserCode
  <2>3. CASE Listen(p) \/ Announce(p) \/ Forward(p) \/ ReadOn(p)
    BY <2>1, <2>2, <2>3 DEF Listen, Announce, Forward, ReadOn, Runs
  <2>6. CASE AwaitWrite(p) \/ WriteAwaited(p) \/ Write(p)
    BY <1>0, <2>6 DEF AwaitWrite, AtWrites, WriteAwaited, Write, CheckExcept, GoOn, Runs,
                      WwwTypes
  <2>4. CASE InitRecvSocket(p) \/ Parse(p) \/ GetResponse(p) \/ Respond(p)
             \/ NextPiece(p)
    BY <2>1, <2>2, <2>4 DEF InitRecvSocket, Parse, GetResponse, Respond, NextPiece,
                            Runs
  <2>5. CASE Piece(p) \/ EndPieces(p) \/ Clear(p)
    BY <2>1, <2>2, <2>5 DEF Piece, EndPieces, Clear, Terminates, Runs
  <2> QED BY <1>3, <2>1, <2>3, <2>4, <2>5, <2>6
          DEF WwwStep, WaitForMessage, SpawnSession, ListenerThrows, SocketEnds,
              Throws, Forwarding, SocketWaits
<1>4. ASSUME NEW p \in Pids, p = running, GetMessage(p)
      PROVE  /\ role[q] = "session" => peer'[q] = peer[q]
             /\ q # p => peer'[q] = peer[q] /\ pc'[q] = pc[q]
             /\ sending[q] # NoPid => q # p
  BY <1>0, <1>4 DEF GetMessage, GoOn, WwwTypes
<1> QED BY <1>0, <1>1, <1>2, <1>3, <1>4, WwwCases

\* Classes do not change, and a session keeps its socket.
RolesStay ==
  \A p \in Pids : /\ role[p] # "none" => role'[p] = role[p]
                  /\ role[p] = "session" => peer'[p] = peer[p]

LEMMA RolesAreKept ==
  ASSUME ActorsInv, WwwInv, [WwwNext]_allVars
  PROVE  RolesStay
<1>0. \A p \in Pids : role[p] = "session" => peer'[p] = peer[p]
  BY PeerSteps
<1>1. CASE Hires
  <2>1. PICK r, b, p, l, kill, back : Enters(r, b, p, l, kill, back)
    BY <1>1, HiresEnters
  <2>2. role[NextPid] = "none"
    BY <2>1, EntersFresh
  <2>3. role' = [role EXCEPT ![NextPid] = r]
    BY <2>1 DEF Enters, Becomes
  <2> QED BY <1>0, <2>2, <2>3 DEF RolesStay, WwwInv, WwwTypes
<1>2. ASSUME NEW p \in Pids, Forward(p) \/ Talks(p) PROVE role' = role
  BY <1>2 DEF Forward, Talks, Announce, InitRecvSocket, Clear, Terminates, wwwVars
<1> QED BY <1>0, <1>1, <1>2, WwwEffects DEF RolesStay

\* The mail after a step is mail there was before, or new.
NowMailed(m) ==
  \/ \E i \in Indices(queue') : IsMessage(queue', i) /\ queue'[i].message = m
  \/ \E r \in Pids : \E i \in Indices(Contents(mq'[r])) : Contents(mq'[r])[i] = m
MailShrinks == \A m \in Messages : NowMailed(m) => Mailed(m)

LEMMA QueueMail ==
  ASSUME TypeOK, NEW m, NEW i \in Indices(queue'), IsMessage(queue', i),
         queue'[i].message = m,
         \/ queue' = queue
         \/ \E p \in Pids, n \in Nat : queue' = Append(queue, ResumeItem(p, n))
         \/ queue # <<>> /\ queue' = Tail(queue)
  PROVE  Mailed(m)
<1>0. queue \in Seq(Items)
  BY MailTypes
<1>1. CASE queue' = queue
  BY <1>1 DEF Mailed
<1>2. ASSUME NEW p \in Pids, NEW n \in Nat, queue' = Append(queue, ResumeItem(p, n))
      PROVE  Mailed(m)
  <2>1. ResumeItem(p, n) \in Items /\ ResumeItem(p, n).kind = "resume"
    BY ItemTypes DEF PidOrNone, ResumeItem
  <2>2. Appended(queue', queue, ResumeItem(p, n))
    BY <1>0, <1>2, <2>1, AppendIndices
  <2> QED BY <2>1, <2>2 DEF Appended, IsMessage, Mailed
<1>3. CASE queue # <<>> /\ queue' = Tail(queue)
  <2>1. i + 1 \in Indices(queue) /\ queue'[i] = queue[i + 1]
    BY <1>0, <1>3, TailIndices
  <2> QED BY <2>1 DEF IsMessage, Mailed
<1> QED BY <1>1, <1>2, <1>3

LEMMA NoMailShrinks ==
  ASSUME TypeOK, NoMail PROVE MailShrinks
<1> SUFFICES ASSUME NEW m \in Messages, NowMailed(m) PROVE Mailed(m)
  BY DEF MailShrinks
<1>1. \/ queue' = queue
      \/ \E p \in Pids, n \in Nat : queue' = Append(queue, ResumeItem(p, n))
      \/ queue # <<>> /\ queue' = Tail(queue)
  BY MailTypes DEF NoMail
<1>2. ASSUME NEW r \in Pids, NEW i \in Indices(Contents(mq'[r])),
             Contents(mq'[r])[i] = m
      PROVE  Mailed(m)
  BY <1>2 DEF NoMail, SameBoxes, SameBox, Mailed
<1> QED BY <1>1, <1>2, QueueMail DEF NowMailed

LEMMA DroppedMailShrinks ==
  ASSUME TypeOK, Dropped PROVE MailShrinks
<1> SUFFICES ASSUME NEW m \in Messages, NowMailed(m) PROVE Mailed(m)
  BY DEF MailShrinks
<1>1. ASSUME NEW r \in Pids, NEW i \in Indices(Contents(mq'[r])),
             Contents(mq'[r])[i] = m
      PROVE  Mailed(m)
  BY <1>1 DEF Dropped, SameBoxes, SameBox, Mailed
<1> QED BY <1>1, QueueMail DEF NowMailed, Dropped

LEMMA MovedMailShrinks ==
  ASSUME TypeOK, Moved PROVE MailShrinks
<1> SUFFICES ASSUME NEW m \in Messages, NowMailed(m) PROVE Mailed(m)
  BY DEF MailShrinks
<1> DEFINE h == Head(queue)
<1>1. /\ queue # <<>> /\ queue' = Tail(queue) /\ h.kind = "message"
      /\ Contents(mq'[h.pid]) = Append(Contents(mq[h.pid]), h.message)
      /\ \A t \in Pids \ {h.pid} : Contents(mq'[t]) = Contents(mq[t])
  BY DEF Moved, SameBox
<1>2. h.pid \in Pids /\ h.message \in Messages /\ 1 \in Indices(queue) /\ h = queue[1]
  BY <1>1, HeadItem, ItemFields, MailTypes, TailIndices
<1> HIDE DEF h
<1>3. Mailed(h.message)
  BY <1>1, <1>2 DEF Mailed, IsMessage
<1>4. ASSUME NEW r \in Pids, NEW i \in Indices(Contents(mq'[r])),
             Contents(mq'[r])[i] = m
      PROVE  Mailed(m)
  <2>1. CASE r = h.pid
    <3>1. Contents(mq[r]) \in Seq(Messages)
      BY MailTypes
    <3>2. Appended(Contents(mq'[r]), Contents(mq[r]), h.message)
      BY <1>1, <1>2, <2>1, <3>1, AppendIndices
    <3> QED BY <1>3, <1>4, <3>2 DEF Appended, Mailed
  <2>2. CASE r # h.pid
    BY <1>1, <1>4, <2>2 DEF Mailed
  <2> QED BY <2>1, <2>2
<1> QED BY <1>1, <1>4, QueueMail DEF NowMailed

LEMMA TakenMailShrinks ==
  ASSUME TypeOK, NEW p \in Pids, Taken(p) PROVE MailShrinks
<1> SUFFICES ASSUME NEW m \in Messages, NowMailed(m) PROVE Mailed(m)
  BY DEF MailShrinks
<1>1. ASSUME NEW r \in Pids, NEW i \in Indices(Contents(mq'[r])),
             Contents(mq'[r])[i] = m
      PROVE  Mailed(m)
  <2>1. CASE r = p
    <3>1. /\ Contents(mq[r]) \in Seq(Messages) /\ Contents(mq[r]) # <<>>
          /\ Contents(mq'[r]) = Tail(Contents(mq[r]))
      BY <2>1, MailTypes DEF Taken
    <3> DEFINE c == Contents(mq[r])
    <3>2. c \in Seq(Messages) /\ c # <<>> /\ i \in Indices(Tail(c)) /\ Tail(c)[i] = m
      BY <1>1, <3>1
    <3>3. (\E j \in Indices(c) : c[j] = m) => Mailed(m)
      BY DEF Mailed
    <3> HIDE DEF c
    <3>4. i + 1 \in Indices(c) /\ c[i + 1] = m
      BY <3>2, TailIndices
    <3> QED BY <3>3, <3>4
  <2>2. CASE r # p
    BY <1>1, <2>2 DEF Taken, SameBox, Mailed
  <2> QED BY <2>1, <2>2
<1>2. queue' = queue
  BY DEF Taken
<1> QED BY <1>1, <1>2, QueueMail DEF NowMailed

LEMMA ConstructedMailShrinks ==
  ASSUME TypeOK, NEW kill, NEW notify, NEW back, Constructed(kill, notify, back)
  PROVE  MailShrinks
<1> SUFFICES ASSUME NEW m \in Messages, NowMailed(m) PROVE Mailed(m)
  BY DEF MailShrinks
<1> DEFINE n == NextPid
<1>1. /\ n \in Pids /\ queue' = Append(queue, ResumeItem(n, 0))
      /\ Contents(mq'[n]) = <<>>
      /\ \A r \in Pids \ {n} : Contents(mq'[r]) = Contents(mq[r])
  BY ConstructedMail DEF SameBox
<1> HIDE DEF n
<1>2. ASSUME NEW r \in Pids, NEW i \in Indices(Contents(mq'[r])),
             Contents(mq'[r])[i] = m
      PROVE  Mailed(m)
  BY <1>1, <1>2 DEF Indices, Mailed
<1>3. \E p \in Pids, k \in Nat : queue' = Append(queue, ResumeItem(p, k))
  BY <1>1
<1> QED BY <1>2, <1>3, QueueMail DEF NowMailed

LEMMA SentMailGrows ==
  ASSUME TypeOK, NEW to, NEW body, Sent(to, body), NEW m, NowMailed(m)
  PROVE  Mailed(m) \/ m = Message(to, body, sends)
<1> DEFINE e == MessageItem(Message(to, body, sends))
<1>1. /\ queue' = Append(queue, e) /\ e \in Items
      /\ e.message = Message(to, body, sends)
  BY MailTypes, ItemTypes DEF Sent, QueueSend, MessageItem
<1> HIDE DEF e
<1>2. Appended(queue', queue, e)
  BY <1>1, MailTypes, AppendIndices
<1>3. ASSUME NEW r \in Pids, NEW i \in Indices(Contents(mq'[r])),
             Contents(mq'[r])[i] = m
      PROVE  Mailed(m)
  BY <1>3 DEF Sent, SameBoxes, SameBox, Mailed
<1>4. ASSUME NEW i \in Indices(queue'), IsMessage(queue', i), queue'[i].message = m
      PROVE  Mailed(m) \/ m = Message(to, body, sends)
  BY <1>1, <1>2, <1>4 DEF Appended, Mailed, IsMessage
<1> QED BY <1>3, <1>4 DEF NowMailed

\* Without a send() there is no new mail.
LEMMA ActorMailShrinks ==
  ASSUME ActorsInv, ActorStep, sends' = sends
  PROVE  MailShrinks
<1>0. TypeOK /\ Addressed /\ sends \in Nat
  BY MailTypes DEF ActorsInv, SchedulerInv
<1>1. ASSUME NEW to, NEW body, Sent(to, body) PROVE FALSE
  BY <1>0, <1>1 DEF Sent, QueueSend
<1>2. CASE Quiet
  BY <1>0, <1>2, NoMailShrinks, DroppedMailShrinks, MovedMailShrinks DEF Quiet
<1>3. CASE Creates
  BY <1>0, <1>3, ConstructedMailShrinks DEF Creates, Construct
<1>4. CASE Links
  <2>1. UNCHANGED mailVars
    BY <1>4 DEF Links, Link
  <2>2. NoMail
    BY <2>1, BoxesFrame DEF NoMail, mailVars
  <2> QED BY <1>0, <2>2, NoMailShrinks
<1>5. CASE Sends
  BY <1>1, <1>5 DEF Sends
<1>6. CASE Takes
  BY <1>0, <1>6, TakenMailShrinks DEF Takes
<1>7. ASSUME NEW b \in Pids, Dies(b) PROVE MailShrinks
  BY <1>0, <1>7, NoMailShrinks DEF Dies
<1>8. CASE FinishDestroy
  BY <1>0, <1>1, <1>8, FinishSends, NoMailShrinks
<1> QED BY <1>2, <1>3, <1>4, <1>5, <1>6, <1>7, <1>8 DEF ActorStep

LEMMA ServerMailShrinks ==
  ASSUME ActorsInv, ServerStep, sends' = sends
  PROVE  MailShrinks
<1>0. TypeOK
  BY DEF ActorsInv, SchedulerInv
<1>1. CASE [Next]_vars
  BY <1>1, ActorsNext, ActorMailShrinks
<1>2. ASSUME NEW to, NEW body, Tells(to, body) PROVE FALSE
  BY <1>0, <1>2, MailTypes DEF Tells, Posts, QueueSend
<1>3. ASSUME NEW p \in asks, Accept(p) PROVE MailShrinks
  BY <1>0, <1>3, ConstructedMailShrinks DEF Accept
<1>4. CASE Besides
  BY <1>0, <1>4, BesidesIdles, NoMailShrinks DEF Idles, ActorsInv
<1> QED BY <1>1, <1>2, <1>3, <1>4 DEF ServerStep

\* What the messages carry stays true: classes do not change, and what is sent is
\* right when it is sent.
LEMMA CarriesStays ==
  ASSUME RolesStay, NEW m \in Messages, Carries(m)
  PROVE  Carries(m)'
BY DEF RolesStay, Carries, Is

LEMMA TalksCarry ==
  ASSUME ActorsInv, WwwInv, NEW p \in Pids, Talks(p)
  PROVE  \E to, body : Sent(to, body) /\ Carries(Message(to, body, sends))
<1>0. /\ SchedulerInv /\ TypeOK /\ NoPid \in PidOrNone /\ p \in PidOrNone
      /\ \A q \in Pids : role[q] # "none" => Spawned(q)
      /\ Cast(p) /\ Holds(p)
  BY DEF ActorsInv, SchedulerInv, WwwInv, Holds, PidOrNone
<1>1. ASSUME NEW to \in Pids, NEW body \in PidOrNone, role[to] # "none",
             Posts(to, body)
      PROVE  Sent(to, body)
  BY <1>0, <1>1, BoxesFrame DEF Posts, Sent
<1>2. \A to, body : /\ Message(to, body, sends).to = to
                    /\ Message(to, body, sends).body = body
  BY DEF Message
<1>3. CASE Announce(p)
  <2>1. role[p] = "socket" /\ Is(peer[p], "server") /\ Posts(peer[p], p)
    BY <1>0, <1>3 DEF Announce, Runs, Cast
  <2> QED BY <1>0, <1>1, <1>2, <2>1 DEF Carries, Is
<1>4. CASE InitRecvSocket(p) /\ Posts(peer[p], p)
  <2>1. role[p] = "session" /\ Is(peer[p], "socket") /\ Posts(peer[p], p)
    BY <1>0, <1>4 DEF InitRecvSocket, Runs, Cast
  <2> QED BY <1>0, <1>1, <1>2, <2>1 DEF Carries, Is
<1>5. CASE Clear(p) /\ Posts(peer[p], NoPid)
  <2>1. Is(peer[p], "socket") /\ Posts(peer[p], NoPid)
    BY <1>0, <1>5 DEF Clear, Runs, Cast
  <2> QED BY <1>0, <1>1, <1>2, <2>1 DEF Carries, Is
<1>6. CASE ThrottledSend(p)
  <2>1. Is(sending[p], "session") /\ QueueSend(sending[p], NoPid)
        /\ UNCHANGED <<mq, noticed>>
    BY <1>0, <1>6 DEF ThrottledSend, InCanQueue, Holds
  <2>2. Sent(sending[p], NoPid)
    BY <1>0, <2>1, BoxesFrame DEF Sent, Is
  <2> QED BY <1>2, <2>1, <2>2 DEF Carries, Is
<1> QED BY <1>3, <1>4, <1>5, <1>6 DEF Talks

LEMMA MailCarriesNext ==
  ASSUME ActorsInv, WwwInv, [WwwNext]_allVars
  PROVE  MailCarries'
<1>0. RolesStay /\ ServerStep /\ TypeOK
  BY RolesAreKept, WwwActs DEF ActorsInv, SchedulerInv
<1> SUFFICES ASSUME NEW m \in Messages, NowMailed(m) PROVE Carries(m)'
  BY DEF MailCarries, NowMailed, Mailed
<1>1. ASSUME Mailed(m) PROVE Carries(m)'
  BY <1>0, <1>1, CarriesStays DEF WwwInv, MailCarries
<1>2. CASE sends' = sends
  BY <1>0, <1>1, <1>2, ServerMailShrinks DEF MailShrinks
<1>3. ASSUME NEW p \in Pids, Talks(p) PROVE Carries(m)'
  <2>1. PICK to, body : Sent(to, body) /\ Carries(Message(to, body, sends))
    BY <1>3, TalksCarry
  <2>2. Message(to, body, sends) = m => Carries(m)
    BY <2>1
  <2>3. Mailed(m) \/ m = Message(to, body, sends)
    BY <1>0, <2>1, SentMailGrows
  <2> QED BY <1>0, <1>1, <2>2, <2>3, CarriesStays
<1>4. ASSUME NEW p \in Pids, Forward(p) PROVE sends' = sends
  BY <1>4 DEF Forward, SendThrottled
<1>5. CASE FinishDestroy
  <2>1. dying \in Pids /\ notifyOnDie[dying] = NoPid
    BY <1>0, <1>5, PidFields DEF FinishDestroy, TypeOK, PidOrNone, WwwInv, Holds
  <2>2. sends' = sends
    BY <1>5, <2>1 DEF FinishDestroy, Notifies
  <2> QED BY <1>2, <2>2
<1>6. ASSUME Hires PROVE sends' = sends
  BY <1>6 DEF Hires, Enters
<1> QED BY <1>2, <1>3, <1>4, <1>5, <1>6, WwwEffects DEF Calm

-----------------------------------------------------------------------------
(* The invariant of the server is kept. *)

\* What process p receives next.
LEMMA NextMessage ==
  ASSUME ActorsInv, WwwInv, NEW p \in Pids, Size(mq[p]) > 0
  PROVE  /\ Carries(Oldest(mq[p])) /\ Oldest(mq[p]).to = p
         /\ Oldest(mq[p]).body \in PidOrNone
<1> DEFINE c == Contents(mq[p])
<1>1. mq[p] \in Queues(Messages, Handlers) /\ WellFormed(mq[p]) /\ c \in Seq(Messages)
  BY MailTypes DEF ActorsInv, SchedulerInv, TypeOK, MailInv
<1>2. c # <<>> /\ Oldest(mq[p]) = Head(c)
  BY <1>1, PopContents
<1>3. 1 \in Indices(c) /\ Head(c) = c[1] /\ c[1] \in Messages
  BY <1>1, <1>2, TailIndices, ElementOfSeq DEF Indices
<1>4. Mailed(c[1]) /\ c[1].to = p
  BY <1>3 DEF Mailed, ActorsInv, MailInv, BoxOrder
<1> HIDE DEF c
<1>5. c[1].body \in PidOrNone
  BY <1>3 DEF Messages, PidOrNone
<1> QED BY <1>2, <1>3, <1>4, <1>5 DEF WwwInv, MailCarries

LEMMA TypesFrame ==
  ASSUME WwwTypes, UNCHANGED wwwVars PROVE WwwTypes'
BY DEF WwwTypes, wwwVars

LEMMA EntersTypes ==
  ASSUME ActorsInv, WwwInv,
         NEW r \in {"server", "listener", "socket", "session"}, NEW b \in PidOrNone,
         NEW p, NEW l \in Places, NEW kill, NEW back,
         Enters(r, b, p, l, kill, back)
  PROVE  /\ role' \in [Pids -> {"none", "server", "listener", "socket", "session"}]
         /\ pc' \in [Pids -> Places] /\ peer' \in [Pids -> PidOrNone]
         /\ sock' = sock /\ asks' = asks /\ batch' = batch
<1>1. NextPid \in Pids
  BY EntersFresh
<1> QED BY <1>1 DEF Enters, Becomes, WwwInv, WwwTypes, Places

\* A session's counters and answers.
LEMMA LogTypes ==
  ASSUME WwwTypes, NEW p \in Pids
  PROVE  /\ log \in Logs
         /\ log.requests \in [Pids -> Nat] /\ log.requests[p] \in Nat
         /\ log.answers \in [Pids -> Seq(Seq(Buffers))]
         /\ log.answers[p] \in Seq(Seq(Buffers))
         /\ batch[p] \in Seq(Buffers)
BY DEF WwwTypes, Logs

\* A request is parsed.
LEMMA LogRequest ==
  ASSUME WwwTypes, NEW p \in Pids, log' = [log EXCEPT !.requests[p] = @ + 1]
  PROVE  /\ log' \in Logs /\ log'.answers = log.answers
         /\ log'.requests = [log.requests EXCEPT ![p] = log.requests[p] + 1]
<1>1. log \in Logs /\ log.requests \in [Pids -> Nat] /\ log.requests[p] \in Nat
  BY LogTypes
<1> DEFINE new == [log.requests EXCEPT ![p] = log.requests[p] + 1]
<1>2. log' = [log EXCEPT !.requests = new]
  OBVIOUS
<1>3. new \in [Pids -> Nat]
  BY <1>1
<1> HIDE DEF new
<1>4. log' \in Logs /\ log'.answers = log.answers /\ log'.requests = new
  BY <1>1, <1>2, <1>3 DEF Logs
<1> QED BY <1>4 DEF new

\* An answer is sent.
LEMMA LogAnswer ==
  ASSUME WwwTypes, NEW p \in Pids, log' = [log EXCEPT !.answers[p] = Append(@, batch[p])]
  PROVE  /\ log' \in Logs /\ log'.requests = log.requests
         /\ log'.answers = [log.answers EXCEPT ![p] = Append(log.answers[p], batch[p])]
<1>1. /\ log \in Logs /\ log.answers \in [Pids -> Seq(Seq(Buffers))]
      /\ log.answers[p] \in Seq(Seq(Buffers)) /\ batch[p] \in Seq(Buffers)
  BY LogTypes
<1> DEFINE a == Append(log.answers[p], batch[p])
           new == [log.answers EXCEPT ![p] = a]
<1>2. log' = [log EXCEPT !.answers = new]
  OBVIOUS
<1>3. a \in Seq(Seq(Buffers))
  BY <1>1, AppendProperties
<1> HIDE DEF a
<1>4. new \in [Pids -> Seq(Seq(Buffers))]
  BY <1>1, <1>3
<1> HIDE DEF new
<1>5. log' \in Logs /\ log'.requests = log.requests /\ log'.answers = new
  BY <1>1, <1>2, <1>4 DEF Logs
<1> QED BY <1>5 DEF new, a

\* A connection, a chunk, or std::terminate().
LEMMA LogCounts ==
  ASSUME WwwTypes, \/ log' = log
                   \/ log' = [log EXCEPT !.connections = @ + 1]
                   \/ log' = [log EXCEPT !.chunks = @ + 1]
                   \/ log' = [log EXCEPT !.terminated = TRUE]
  PROVE  /\ log' \in Logs
         /\ log'.requests = log.requests /\ log'.answers = log.answers
<1>1. log \in Logs
  BY DEF WwwTypes
<1>2. CASE log' = log
  BY <1>1, <1>2
<1>3. CASE log' = [log EXCEPT !.connections = @ + 1]
  <2>1. PICK k \in Nat : k = log.connections + 1
    BY <1>1 DEF Logs
  <2>2. log' = [log EXCEPT !.connections = k]
    BY <1>3, <2>1
  <2> QED BY <1>1, <2>2 DEF Logs
<1>4. CASE log' = [log EXCEPT !.chunks = @ + 1]
  <2>1. PICK k \in Nat : k = log.chunks + 1
    BY <1>1 DEF Logs
  <2>2. log' = [log EXCEPT !.chunks = k]
    BY <1>4, <2>1
  <2> QED BY <1>1, <2>2 DEF Logs
<1>5. CASE log' = [log EXCEPT !.terminated = TRUE]
  BY <1>1, <1>5 DEF Logs
<1> QED BY <1>2, <1>3, <1>4, <1>5

LEMMA ProcessTypes ==
  ASSUME ActorsInv, WwwInv, NEW p \in Pids, WwwStep(p),
         ~MakeListener(p), ~(SpawnSession(p) /\ Found(processes, peer[p]))
  PROVE  WwwTypes'
<1> USE DEF wwwVars, GoOn
<1>0. WwwTypes /\ Cast(p)
  BY DEF WwwInv
<1>1. ASSUME NEW l \in Places, pc' = [pc EXCEPT ![p] = l],
             UNCHANGED <<role, peer, sock, batch, log>>, asks' \subseteq asks \cup {p}
      PROVE  WwwTypes'
  BY <1>0, <1>1 DEF WwwTypes
<1>2. CASE UNCHANGED wwwVars
  BY <1>0, <1>2, TypesFrame
<1>3. CASE GetMessage(p)
  <2>1. Oldest(mq[p]).body \in PidOrNone
    BY <1>3, NextMessage DEF GetMessage
  <2>2. NextAt(p) \in Places
    BY <1>0, <1>3 DEF GetMessage, NextAt, Places, Cast, WwwTypes
  <2> QED BY <1>0, <1>3, <2>1, <2>2 DEF GetMessage, WwwTypes
<1>4. CASE Listen(p) \/ Announce(p) \/ Forward(p) \/ InitRecvSocket(p)
           \/ GetResponse(p) \/ NextPiece(p)
  <2>1. \/ UNCHANGED wwwVars
        \/ /\ \E l \in Places : pc' = [pc EXCEPT ![p] = l]
           /\ UNCHANGED <<role, peer, sock, batch, log>>
           /\ asks' \subseteq asks \cup {p}
    BY <1>4 DEF Listen, Announce, Forward, InitRecvSocket, GetResponse, NextPiece,
                Places
  <2> QED BY <1>1, <1>2, <2>1
<1>5. CASE ReadOn(p) \/ AwaitWrite(p) \/ WriteAwaited(p) \/ Write(p)
  <2>1. sock[p] \subseteq Members /\ "isWriting" \in Members
    BY <1>0 DEF WwwTypes, Members
  <2>2. PICK l \in Places, ms \in SUBSET Members :
          /\ pc' = [pc EXCEPT ![p] = l] /\ UNCHANGED <<role, peer, batch, log>>
          /\ sock' = sock \/ sock' = [sock EXCEPT ![p] = ms]
          /\ asks' \subseteq asks \cup {p}
    <3>1. {"loop", "thrown", "written"} \subseteq Places
      BY DEF Places
    <3>2. CASE ReadOn(p)
      BY <2>1, <3>1, <3>2 DEF ReadOn
    <3>3. CASE AwaitWrite(p) \/ WriteAwaited(p)
      BY <2>1, <3>1, <3>3 DEF AwaitWrite, WriteAwaited, CheckExcept
    <3>4. CASE Write(p)
      <4>1. PICK ms : ms = (sock[p] \ {"p_"}) \cup
                           IF Size(mq[p]) = 0 \/ "except_" \in sock[p] THEN {}
                           ELSE {"isWriting"}
        OBVIOUS
      <4>2. ms \in SUBSET Members
        BY <2>1, <4>1
      <4>3. /\ sock' = [sock EXCEPT ![p] = ms] /\ UNCHANGED <<role, peer, asks, batch, log>>
            /\ pc' = [pc EXCEPT ![p] = IF "except_" \in sock[p] THEN "thrown" ELSE "loop"]
        BY <3>4, <4>1 DEF Write, CheckExcept
      <4> QED BY <3>1, <4>2, <4>3
    <3> QED BY <1>5, <3>2, <3>3, <3>4
  <2>3. sock' \in [Pids -> SUBSET Members]
    BY <1>0, <2>2 DEF WwwTypes
  <2> QED BY <1>0, <2>2, <2>3 DEF WwwTypes
<1>6. CASE Parse(p)
  <2>1. "recv" \in Places /\ "respond" \in Places
    BY DEF Places
  <2>2. CASE log' = [log EXCEPT !.requests[p] = @ + 1] /\ GoOn(p, "respond")
    <3>1. log' \in Logs
      BY <1>0, <2>2, LogRequest
    <3> QED BY <1>0, <1>6, <2>1, <2>2, <3>1 DEF Parse, WwwTypes
  <2>3. CASE UNCHANGED log /\ (GoOn(p, "recv") \/ UNCHANGED pc)
    BY <1>0, <1>6, <2>1, <2>3 DEF Parse, WwwTypes
  <2> QED BY <1>6, <2>2, <2>3 DEF Parse
<1>7. CASE Respond(p) \/ Piece(p) \/ EndPieces(p)
  <2>1. /\ <<"whole">> \in Seq(Buffers) /\ <<"head">> \in Seq(Buffers)
        /\ \A e \in Buffers : Append(batch[p], e) \in Seq(Buffers)
    BY <1>0, LogTypes, AppendProperties DEF Buffers
  <2>2. PICK l \in Places, b \in Seq(Buffers) :
          /\ pc' = [pc EXCEPT ![p] = l] \/ pc' = pc
          /\ batch' = [batch EXCEPT ![p] = b] \/ batch' = batch
    <3>1. /\ {"clear", "pieces", "unwind"} \subseteq Places
          /\ {"piece", "last"} \subseteq Buffers
      BY DEF Places, Buffers
    <3>2. /\ Append(batch[p], "piece") \in Seq(Buffers)
          /\ Append(batch[p], "last") \in Seq(Buffers)
      BY <2>1, <3>1
    <3>3. CASE Respond(p)
      BY <2>1, <3>1, <3>3 DEF Respond
    <3>4. CASE Piece(p)
      BY <2>1, <3>1, <3>2, <3>4 DEF Piece
    <3>5. CASE EndPieces(p)
      BY <2>1, <3>1, <3>2, <3>5 DEF EndPieces
    <3> QED BY <1>7, <3>3, <3>4, <3>5
  <2>3. UNCHANGED <<role, peer, sock, asks, log>>
    BY <1>7 DEF Respond, Piece, EndPieces
  <2> QED BY <1>0, <2>2, <2>3 DEF WwwTypes
<1>8. CASE Clear(p)
  <2>1. CASE Terminates
    <3>1. log' \in Logs
      BY <1>0, <2>1, LogCounts DEF Terminates
    <3> QED BY <1>0, <2>1, <3>1 DEF Terminates, WwwTypes
  <2>2. CASE ~Terminates
    <3>1. /\ UNCHANGED <<role, peer, sock, asks>>
          /\ GoOn(p, IF pc[p] = "clear" THEN "recv" ELSE "thrown")
          /\ \/ UNCHANGED <<batch, log>>
             \/ /\ batch' = [batch EXCEPT ![p] = <<>>]
                /\ log' = [log EXCEPT !.answers[p] = Append(@, batch[p])]
      BY <1>8, <2>2 DEF Clear
    <3>2. log' \in Logs
      BY <1>0, <3>1, LogAnswer, LogCounts
    <3>3. pc' \in [Pids -> Places]
      BY <1>0, <3>1 DEF WwwTypes, Places
    <3>4. batch' \in [Pids -> Seq(Buffers)]
      <4>1. <<>> \in Seq(Buffers) /\ batch \in [Pids -> Seq(Buffers)]
        BY <1>0 DEF WwwTypes
      <4>2. \A b \in Seq(Buffers) : [batch EXCEPT ![p] = b] \in [Pids -> Seq(Buffers)]
        BY <4>1
      <4> QED BY <3>1, <4>1, <4>2
    <3> QED BY <1>0, <3>1, <3>2, <3>3, <3>4 DEF WwwTypes
  <2> QED BY <2>1, <2>2
<1> QED BY <1>2, <1>3, <1>4, <1>5, <1>6, <1>7, <1>8
        DEF WwwStep, WaitForMessage, SpawnSession, ListenerThrows, SocketEnds,
            Throws, Forwarding, SocketWaits

LEMMA HiresTypes ==
  ASSUME ActorsInv, WwwInv, Hires
  PROVE  WwwTypes'
<1>0. WwwTypes /\ NoPid \in PidOrNone
  BY DEF WwwInv, PidOrNone
<1>1. PICK r, b, p, l, kill, back :
        /\ r \in {"server", "listener", "socket", "session"} /\ b \in PidOrNone
        /\ l \in Places /\ Enters(r, b, p, l, kill, back)
  <2>1. {"start", "recv"} \subseteq Places
    BY DEF Places
  <2>2. \A q \in Pids : q \in PidOrNone /\ peer[q] \in PidOrNone /\ pc[q] \in Places
    BY <1>0 DEF WwwTypes, PidOrNone
  <2>3. \A q \in asks : q \in Pids
    BY <1>0 DEF WwwTypes
  <2> QED BY <1>0, <2>1, <2>2, <2>3 DEF Hires
<1>2. log' \in Logs
  BY <1>0, <1>1, LogCounts DEF Enters
<1> QED BY <1>0, <1>1, <1>2, EntersTypes DEF WwwTypes

LEMMA WwwTypesNext ==
  ASSUME ActorsInv, WwwInv, [WwwNext]_allVars
  PROVE  WwwTypes'
<1> USE DEF wwwVars
<1>0. WwwTypes /\ asks \subseteq Pids
  BY DEF WwwInv, WwwTypes
<1>1. CASE MainSpawnsServer
  BY <1>1, SpawnsHire, HiresTypes
<1>2. CASE running # NoPid /\ WwwStep(running)
  <2>1. running \in Pids
    BY <1>2, RunningIsSpawned DEF ActorsInv
  <2> QED BY <1>2, <2>1, SpawnsHire, HiresTypes, ProcessTypes
<1>3. ASSUME NEW p \in asks, Accept(p) PROVE WwwTypes'
  BY <1>3, SpawnsHire, HiresTypes
<1>4. ASSUME NEW p \in Pids, NEW ms \in SUBSET Members, Leaves(p, ms)
      PROVE  sock' \in [Pids -> SUBSET Members]
  <2>1. ms \cup {"p_"} \in SUBSET Members
    BY DEF Members
  <2> QED BY <1>0, <1>4, <2>1 DEF Leaves, WwwTypes
<1>5. ASSUME NEW p, Handles(p) PROVE WwwTypes'
  <2>1. CASE AcceptFails(p)
    BY <1>0, <2>1 DEF AcceptFails, WwwTypes
  <2>2. ASSUME NEW e \in {"nextRead", "eof_", "except_"}, p \in asks,
               ReadCompletes(p, e)
        PROVE  WwwTypes'
    <3>1. log' \in Logs
      BY <1>0, <2>2, LogCounts DEF ReadCompletes
    <3>2. p \in Pids /\ sock[p] \cup {e} \in SUBSET Members
      BY <1>0, <2>2 DEF WwwTypes, Members
    <3>3. sock' \in [Pids -> SUBSET Members]
      BY <1>4, <2>2, <3>2 DEF ReadCompletes
    <3> QED BY <1>0, <2>2, <3>1, <3>3 DEF ReadCompletes, WwwTypes
  <2>3. ASSUME NEW es \in {{}, {"except_"}}, p \in Pids, WriteCompletes(p, es)
        PROVE  WwwTypes'
    <3>1. (sock[p] \ {"isWriting"}) \cup es \in SUBSET Members
      BY <1>0, <2>3 DEF WwwTypes, Members
    <3>2. sock' \in [Pids -> SUBSET Members]
      BY <1>4, <2>3, <3>1 DEF WriteCompletes
    <3> QED BY <1>0, <2>3, <3>2 DEF WriteCompletes, WwwTypes
  <2> QED BY <1>5, <2>1, <2>2, <2>3 DEF Handles
<1>6. CASE RunOneWaits
  BY <1>0, <1>6, TypesFrame DEF RunOneWaits
<1>7. CASE DeleteProcess
  <2>1. log' \in Logs
    BY <1>0, <1>7, LogCounts DEF DeleteProcess, Terminates
  <2> QED BY <1>0, <1>7, <2>1 DEF DeleteProcess, Terminates, WwwTypes
<1>8. CASE UNCHANGED wwwVars
  BY <1>0, <1>8, TypesFrame
<1> QED BY <1>1, <1>2, <1>3, <1>5, <1>6, <1>7, <1>8 DEF WwwNext, Handles, allVars

\* A step that leaves p where it is.
LEMMA CastFrame ==
  ASSUME RolesStay, NEW p \in Pids, Cast(p), role'[p] = role[p], pc'[p] = pc[p],
         peer'[p] = peer[p]
  PROVE  Cast(p)'
BY DEF Cast, Is, RolesStay

LEMMA HiresCast ==
  ASSUME ActorsInv, WwwInv, RolesStay, Hires, NEW q \in Pids
  PROVE  Cast(q)'
<1> DEFINE n == NextPid
<1>0. /\ WwwTypes /\ Cast(q) /\ \A p \in Pids : Cast(p)
  BY DEF WwwInv
<1>1. /\ n \in Pids /\ role[n] = "none"
  BY HiresEnters, EntersFresh
<1> HIDE DEF n
<1>2. ASSUME NEW r, NEW b, NEW p \in Pids, NEW l, Becomes(r, b, p, l)
      PROVE  /\ role' = [role EXCEPT ![n] = r] /\ peer' = [peer EXCEPT ![n] = b]
             /\ pc' = [pc EXCEPT ![n] = "start", ![p] = l]
             /\ q \notin {n, p} => Cast(q)'
  <2>1. /\ role' = [role EXCEPT ![n] = r] /\ peer' = [peer EXCEPT ![n] = b]
        /\ pc' = [pc EXCEPT ![n] = "start", ![p] = l]
    BY <1>2 DEF Becomes, n
  <2> QED BY <1>0, <1>1, <2>1, CastFrame DEF WwwTypes
<1>3. CASE Enters("server", NoPid, NextPid, "start", {}, {})
  <2>1. Becomes("server", NoPid, n, "start")
    BY <1>3 DEF Enters, n
  <2> QED BY <1>0, <1>1, <1>2, <2>1 DEF Cast, WwwTypes
<1>4. ASSUME NEW p \in Pids, role[p] = "server",
             Enters("listener", p, p, "recv", {p}, {p})
      PROVE  Cast(q)'
  <2>1. Becomes("listener", p, p, "recv") /\ p # n
    BY <1>1, <1>4 DEF Enters
  <2> QED BY <1>0, <1>1, <1>2, <1>4, <2>1 DEF Cast, WwwTypes, Is
<1>5. ASSUME NEW p \in Pids, role[p] = "server", pc[p] = "spawn",
             Enters("session", peer[p], p, "recv", {peer[p]}, {peer[p]})
      PROVE  Cast(q)'
  <2>1. Becomes("session", peer[p], p, "recv") /\ p # n /\ Is(peer[p], "socket")
    BY <1>0, <1>1, <1>5 DEF Enters, Cast
  <2>2. Is(peer[p], "socket")' /\ peer'[n] = peer[p] /\ peer'[p] = peer[p]
    BY <1>0, <1>1, <1>2, <2>1 DEF Is, WwwTypes
  <2>3. CASE q = n
    BY <1>0, <1>1, <1>2, <2>1, <2>2, <2>3 DEF Cast, WwwTypes, Is
  <2>4. CASE q = p
    BY <1>0, <1>1, <1>2, <1>5, <2>1, <2>2, <2>4 DEF Cast, WwwTypes, Is
  <2> QED BY <1>2, <2>1, <2>3, <2>4
<1>6. ASSUME NEW p \in asks, role[p] = "listener",
             Enters("socket", peer[p], p, pc[p], {}, {p})
      PROVE  Cast(q)'
  <2>1. /\ p \in Pids /\ Becomes("socket", peer[p], p, pc[p]) /\ p # n
        /\ Is(peer[p], "server")
    BY <1>0, <1>1, <1>6 DEF Enters, Cast, WwwTypes
  <2>2. CASE q = n
    BY <1>0, <1>1, <1>2, <2>1, <2>2 DEF Cast, WwwTypes, Is
  <2>3. CASE q = p
    BY <1>0, <1>1, <1>2, <2>1, <2>3, CastFrame DEF WwwTypes
  <2> QED BY <1>2, <2>1, <2>2, <2>3
<1> QED BY <1>3, <1>4, <1>5, <1>6 DEF Hires

LEMMA ProcessCast ==
  ASSUME ActorsInv, WwwInv, RolesStay, NEW p \in Pids, WwwStep(p), NEW q \in Pids,
         ~MakeListener(p), ~(SpawnSession(p) /\ Found(processes, peer[p]))
  PROVE  Cast(q)'
<1> USE DEF wwwVars, GoOn
<1>0. WwwTypes /\ Cast(p) /\ Cast(q)
  BY DEF WwwInv
<1>1. ASSUME role' = role, q # p, NEW l, pc' = [pc EXCEPT ![p] = l],
             peer' = peer \/ \E b : peer' = [peer EXCEPT ![p] = b]
      PROVE  Cast(q)'
  BY <1>0, <1>1, CastFrame DEF WwwTypes
<1>2. CASE UNCHANGED <<role, pc, peer>>
  BY <1>0, <1>2, CastFrame
<1>3. ASSUME role' = role, peer' = peer, NEW l, pc' = [pc EXCEPT ![p] = l],
             \/ /\ role[p] = "session"
                /\ l \notin {"spawn", "failed", "loop", "forwarded", "written"}
             \/ role[p] = "listener" /\ l = "failed"
             \/ role[p] = "socket" /\ pc[p] = "start" /\ l = "recv"
             \/ /\ role[p] = "socket" /\ pc[p] \in {"loop", "forwarded", "written"}
                /\ l \in {"loop", "forwarded", "written", "thrown"}
      PROVE  Cast(q)'
  <2>1. CASE q = p
    BY <1>0, <1>3, <2>1 DEF Cast, WwwTypes, Is
  <2> QED BY <1>1, <1>3, <2>1
<1>4. CASE GetMessage(p)
  <2>0. PICK body : body = Oldest(mq[p]).body
    OBVIOUS
  <2>1. /\ role[p] = "server" => Is(body, "socket")
        /\ role[p] = "socket" =>
             body = NoPid \/ (Is(body, "session") /\ peer[body] = p)
    BY <1>4, <2>0, NextMessage DEF GetMessage, Carries
  <2>2. /\ role' = role /\ pc' = [pc EXCEPT ![p] = NextAt(p)] /\ pc[p] = "recv"
        /\ peer' = IF role[p] = "session" THEN peer ELSE [peer EXCEPT ![p] = body]
    BY <1>4, <2>0 DEF GetMessage
  <2>3. CASE q = p
    <3>1. role[p] \in {"server", "socket", "session"}
      BY <1>0, <2>2 DEF Cast, WwwTypes
    <3>2. CASE role[p] = "server"
      BY <1>0, <2>1, <2>2, <2>3, <3>2 DEF Cast, WwwTypes, Is, NextAt
    <3>3. CASE role[p] = "socket"
      <4>1. peer'[p] = body /\ pc'[p] = "loop" /\ role'[p] = "socket"
        BY <1>0, <2>2, <3>3 DEF WwwTypes, NextAt
      <4>2. body = NoPid \/ (Is(body, "session")' /\ peer'[body] = p)
        BY <2>1, <2>2, <3>3 DEF Is, RolesStay
      <4> QED BY <2>3, <4>1, <4>2 DEF Cast
    <3>4. CASE role[p] = "session"
      BY <1>0, <2>2, <2>3, <3>4 DEF Cast, WwwTypes, Is, NextAt
    <3> QED BY <3>1, <3>2, <3>3, <3>4
  <2> QED BY <1>1, <2>2, <2>3
<1>5. CASE Listen(p) \/ Announce(p) \/ ReadOn(p)
  BY <1>2, <1>3, <1>5 DEF Listen, Announce, ReadOn, Runs
<1>6. CASE Forward(p)
  BY <1>3, <1>6 DEF Forward, Runs
<1>7. CASE InitRecvSocket(p) \/ Parse(p) \/ GetResponse(p)
  BY <1>2, <1>3, <1>7 DEF InitRecvSocket, Parse, GetResponse, Runs
<1>8. CASE Respond(p) \/ NextPiece(p) \/ Piece(p) \/ EndPieces(p)
  BY <1>2, <1>3, <1>8 DEF Respond, NextPiece, Piece, EndPieces, Runs
<1>10. CASE AwaitWrite(p) \/ WriteAwaited(p) \/ Write(p)
  BY <1>3, <1>10 DEF AwaitWrite, AtWrites, WriteAwaited, Write, CheckExcept, Runs
<1>9. CASE Clear(p)
  <2>1. CASE Terminates
    BY <1>2, <2>1 DEF Terminates
  <2>2. role[p] = "session"
    BY <1>9 DEF Clear, Runs
  <2> QED BY <1>3, <1>9, <2>1, <2>2 DEF Clear
<1> QED BY <1>2, <1>4, <1>5, <1>6, <1>7, <1>8, <1>9, <1>10
        DEF WwwStep, WaitForMessage, SpawnSession, ListenerThrows, SocketEnds,
            Throws, Forwarding, SocketWaits

LEMMA CastNext ==
  ASSUME ActorsInv, WwwInv, [WwwNext]_allVars, NEW q \in Pids
  PROVE  Cast(q)'
<1>0. RolesStay /\ Cast(q)
  BY RolesAreKept DEF WwwInv
<1>1. CASE Elsewhere
  <2>1. UNCHANGED <<role, pc, peer>>
    BY <1>1 DEF Elsewhere, Handles, AcceptFails, ReadCompletes, WriteCompletes,
                RunOneWaits, DeleteProcess, Terminates, wwwVars
  <2> QED BY <1>0, <2>1, CastFrame
<1> QED BY <1>0, <1>1, WwwCases, HiresCast, ProcessCast

\* Only the running process starts an operation of the io_service.
LEMMA AsksSteps ==
  ASSUME ActorsInv, WwwInv, [WwwNext]_allVars
  PROVE  \A q \in asks' : q \in asks \/ (q = running /\ q \in Pids)
<1> USE DEF wwwVars
<1>1. CASE Hires
  BY <1>1, HiresEnters DEF Enters
<1>2. ASSUME NEW p \in Pids, p = running, WwwStep(p),
             ~MakeListener(p), ~(SpawnSession(p) /\ Found(processes, peer[p]))
      PROVE  asks' \subseteq asks \cup {p}
  <2>1. CASE WaitForMessage(p) \/ GetMessage(p) \/ SpawnSession(p)
    BY <1>2, <2>1 DEF WaitForMessage, GetMessage, SpawnSession
  <2>2. CASE Listen(p) \/ ListenerThrows(p) \/ Announce(p) \/ SocketEnds(p)
             \/ Forward(p) \/ Forwarding(p) \/ ReadOn(p) \/ AwaitWrite(p)
             \/ WriteAwaited(p) \/ Write(p) \/ SocketWaits(p)
    BY <2>2 DEF Listen, ListenerThrows, Announce, SocketEnds, Forward, Forwarding,
                ReadOn, AwaitWrite, WriteAwaited, Write, SocketWaits
  <2>3. CASE InitRecvSocket(p) \/ Parse(p) \/ GetResponse(p) \/ Respond(p)
             \/ NextPiece(p) \/ Piece(p) \/ EndPieces(p) \/ Clear(p)
             \/ Throws(p)
    BY <2>3 DEF InitRecvSocket, Parse, GetResponse, Respond, NextPiece, Piece,
                EndPieces, Clear, Terminates, Throws
  <2> QED BY <1>2, <2>1, <2>2, <2>3 DEF WwwStep
<1>3. CASE Elsewhere
  BY <1>3 DEF Elsewhere, Handles, AcceptFails, ReadCompletes, WriteCompletes,
              RunOneWaits, DeleteProcess, Terminates
<1> QED BY <1>1, <1>2, <1>3, WwwCases

LEMMA HoldsNext ==
  ASSUME ActorsInv, WwwInv, [WwwNext]_allVars, NEW q \in Pids
  PROVE  Holds(q)'
<1> DEFINE n == NextPid
<1>0. /\ RolesStay /\ Stays /\ Holds(q) /\ TypeOK /\ WwwTypes
  BY RolesAreKept, WwwActs, ServerKeeps DEF ActorsInv, SchedulerInv, WwwInv
<1> USE DEF procVars, linkVars
<1>1. ASSUME Hires
      PROVE  /\ n \in Pids /\ role[n] = "none" /\ NowSpawned(n)
             /\ \A p \in Pids \ {n} : role'[p] = role[p]
             /\ sending' = [sending EXCEPT ![n] = NoPid]
             /\ notifyOnDie' = [notifyOnDie EXCEPT ![n] = NoPid] /\ freed' = freed
  <2>1. PICK r, b, p, l, kill, back : Enters(r, b, p, l, kill, back)
    BY <1>1, HiresEnters
  <2>2. /\ n \in Pids /\ role[n] = "none" /\ NowSpawned(n)
    BY <2>1, EntersFresh
  <2> QED BY <1>0, <2>1, <2>2 DEF Enters, Constructed, Becomes, WwwTypes
<1>2. ASSUME NEW p \in Pids, Forward(p)
      PROVE  /\ sending' = [sending EXCEPT ![p] = peer[p]] /\ role' = role
             /\ role[p] = "socket" /\ (peer[p] = NoPid \/ Is(peer[p], "session"))
             /\ UNCHANGED <<notifyOnDie, freed>>
  BY <1>2 DEF Forward, Runs, SendThrottled, memVars, WwwInv, Cast
<1>3. ASSUME NEW p \in Pids, Talks(p)
      PROVE  /\ sending' = sending \/ sending' = [sending EXCEPT ![p] = NoPid]
             /\ role' = role /\ UNCHANGED <<notifyOnDie, freed>>
  BY <1>3 DEF Talks, Announce, InitRecvSocket, Clear, Terminates, Posts,
              ThrottledSend, memVars, wwwVars
<1>4. ASSUME FinishDestroy PROVE UNCHANGED <<sending, notifyOnDie>>
  BY <1>4 DEF FinishDestroy
<1> HIDE DEF n
<1>5. role'[q] # "none" => NowSpawned(q)
  <2>1. CASE role[q] # "none"
    BY <1>0, <2>1 DEF Stays, Holds
  <2>2. role'[q] = role[q] \/ (Hires /\ q = n)
    BY <1>1, <1>2, <1>3, WwwEffects
  <2> QED BY <1>1, <2>1, <2>2
<1>6. sending'[q] # NoPid => /\ Is(q, "socket")' /\ pc'[q] = "forwarded"
                             /\ Is(sending[q], "session")' /\ sending'[q] = peer'[q]
  <2>1. \/ sending'[q] = sending[q] \/ sending'[q] = NoPid
        \/ Forward(q)
    <3>1. sending \in [Pids -> PidOrNone]
      BY <1>0 DEF TypeOK
    <3>2. CASE Hires
      BY <1>1, <3>1, <3>2
    <3>3. ASSUME NEW p \in Pids, Forward(p)
          PROVE  sending'[q] = sending[q] \/ Forward(q)
      BY <1>2, <3>1, <3>3
    <3>4. ASSUME NEW p \in Pids, Talks(p)
          PROVE  sending'[q] = sending[q] \/ sending'[q] = NoPid
      BY <1>3, <3>1, <3>4
    <3> QED BY <1>4, <3>2, <3>3, <3>4, WwwEffects DEF Calm
  <2>2. CASE sending[q] # NoPid /\ sending'[q] = sending[q]
    <3>1. peer'[q] = peer[q] /\ pc'[q] = pc[q]
      BY <2>2, PeerSteps
    <3> QED BY <1>0, <2>2, <3>1 DEF Holds, Is, RolesStay
  <2>3. CASE Forward(q) /\ sending'[q] # NoPid
    <3>1. /\ sending'[q] = peer[q] /\ peer' = peer /\ pc'[q] = "forwarded"
          /\ role' = role /\ role[q] = "socket"
      BY <1>0, <1>2, <2>3 DEF Forward, GoOn, WwwTypes, TypeOK
    <3>2. Is(peer[q], "session")
      BY <1>2, <2>3, <3>1
    <3> QED BY <3>1, <3>2 DEF Is
  <2> QED BY <2>1, <2>2, <2>3
<1>7. notifyOnDie'[q] = NoPid
  BY <1>0, <1>1, <1>2, <1>3, <1>4, WwwEffects DEF TypeOK, Calm, Holds
<1>8. ASSUME q \in asks' PROVE NowSpawned(q) /\ q \notin freed'
  <2>1. Spawned(q) /\ q \notin freed
    BY <1>0, <1>8, AsksSteps, RunningIsSpawned, PidFields DEF ActorsInv, Holds
  <2>2. freed' = freed \/ (asks' = asks \ {dying} /\ freed' = freed \cup {dying})
    BY <1>1, <1>2, <1>3, WwwEffects DEF Calm, FinishDestroy
  <2> QED BY <1>0, <1>8, <2>1, <2>2 DEF Stays
<1>9. NowSpawned(q) <=> Spawned(q)'
  BY DEF NowSpawned, Spawned
<1> QED BY <1>5, <1>6, <1>7, <1>8, <1>9 DEF Holds

\* Apart from the steps that spawn, a step changes no link, no class and nobody's
\* socket; the server leaves "start" only when it spawns its listener.
LEMMA TieSteps ==
  ASSUME ActorsInv, WwwInv, [WwwNext]_allVars, NEW q \in Pids
  PROVE  \/ Hires
         \/ /\ killOnDie' = killOnDie /\ role' = role
            /\ role[q] = "session" => peer'[q] = peer[q]
            /\ role[q] = "server" /\ pc[q] = "start" => pc'[q] = "start"
<1> USE DEF wwwVars, linkVars
<1>0. WwwTypes
  BY DEF WwwInv
<1>1. Hires \/ (killOnDie' = killOnDie /\ role' = role)
  <2>1. ASSUME NEW p \in Pids, Forward(p) \/ Talks(p)
        PROVE  killOnDie' = killOnDie /\ role' = role
    BY <2>1 DEF Forward, SendThrottled, Talks, Announce, InitRecvSocket, Clear,
                Terminates, Posts, ThrottledSend
  <2>2. Calm => killOnDie' = killOnDie
    BY DEF Calm
  <2>3. FinishDestroy => killOnDie' = killOnDie
    BY DEF FinishDestroy
  <2> QED BY <2>1, <2>2, <2>3, WwwEffects
<1>2. CASE Elsewhere
  <2>1. UNCHANGED <<pc, peer>>
    BY <1>2 DEF Elsewhere, Handles, AcceptFails, ReadCompletes, WriteCompletes,
                RunOneWaits, DeleteProcess, Terminates
  <2> QED BY <1>1, <2>1
<1>3. ASSUME NEW p \in Pids, WwwStep(p),
             ~MakeListener(p), ~(SpawnSession(p) /\ Found(processes, peer[p]))
      PROVE  /\ role[q] = "session" => peer'[q] = peer[q]
             /\ role[q] = "server" /\ pc[q] = "start" => pc'[q] = "start"
  <2>1. CASE UNCHANGED <<pc, peer>>
    BY <2>1
  <2>2. CASE GetMessage(p)
    BY <1>0, <2>2 DEF GetMessage, GoOn, WwwTypes
  <2>3. ASSUME role[p] # "server", peer' = peer, \E l : GoOn(p, l)
        PROVE  /\ role[q] = "session" => peer'[q] = peer[q]
               /\ role[q] = "server" /\ pc[q] = "start" => pc'[q] = "start"
    BY <1>0, <2>3 DEF GoOn, WwwTypes
  <2>4. CASE Listen(p) \/ Announce(p) \/ Forward(p) \/ ReadOn(p)
    BY <2>1, <2>3, <2>4 DEF Listen, Announce, Forward, ReadOn, Runs
  <2>7. CASE AwaitWrite(p) \/ WriteAwaited(p) \/ Write(p)
    BY <2>3, <2>7 DEF AwaitWrite, AtWrites, WriteAwaited, Write, CheckExcept, Runs
  <2>5. CASE InitRecvSocket(p) \/ Parse(p) \/ GetResponse(p) \/ Respond(p)
             \/ NextPiece(p)
    BY <2>1, <2>3, <2>5 DEF InitRecvSocket, Parse, GetResponse, Respond, NextPiece,
                            Runs
  <2>6. CASE Piece(p) \/ EndPieces(p) \/ Clear(p)
    BY <2>1, <2>3, <2>6 DEF Piece, EndPieces, Clear, Terminates, Runs
  <2> QED BY <1>3, <2>1, <2>2, <2>4, <2>5, <2>6, <2>7
          DEF WwwStep, WaitForMessage, SpawnSession, ListenerThrows, SocketEnds,
              Throws, Forwarding, SocketWaits
<1> QED BY <1>1, <1>2, <1>3, WwwCases

LEMMA TiesNext ==
  ASSUME ActorsInv, WwwInv, [WwwNext]_allVars, NEW q \in Pids
  PROVE  Ties(q)'
<1> DEFINE n == NextPid
<1>0. /\ RolesStay /\ Ties(q) /\ TypeOK /\ WwwTypes /\ \A p \in Pids : Cast(p)
  BY RolesAreKept DEF ActorsInv, SchedulerInv, WwwInv
<1>1. ASSUME NEW r, Tied(q, r), r # "none",
             \A p \in Pids : role[p] # "none" => killOnDie[p] \subseteq killOnDie'[p]
      PROVE  Tied(q, r)'
  BY <1>0, <1>1 DEF Tied, RolesStay
<1>2. CASE Hires
  <2>1. n \in Pids /\ role[n] = "none"
    BY <1>2, HiresEnters, EntersFresh
  <2> HIDE DEF n
  <2>3. \A p \in Pids : role[p] # "none" => killOnDie[p] \subseteq killOnDie'[p]
    <3>1. PICK r, b, p, l, kill, back : p \in Pids /\ Enters(r, b, p, l, kill, back)
      <4>1. asks \subseteq Pids /\ NextPid \in Pids
        BY <1>0, <2>1 DEF WwwTypes, n
      <4> QED BY <1>2, <4>1 DEF Hires
    <3>2. killOnDie' = [s \in Pids |->
            IF s = n THEN kill ELSE IF s \in back THEN killOnDie[s] \cup {n}
            ELSE killOnDie[s]]
      BY <3>1 DEF Enters, Constructed, n
    <3> QED BY <2>1, <3>2
  <2>4. ASSUME q # n, role[q] = "server" /\ pc'[q] # "start" => pc[q] # "start",
               peer'[q] = peer[q]
        PROVE  Ties(q)'
    <3>1. PICK r, b, p, l, kill, back : Enters(r, b, p, l, kill, back)
      BY <1>2, HiresEnters
    <3>2. role'[q] = role[q]
      BY <1>0, <2>1, <2>4, <3>1 DEF Enters, Becomes, WwwTypes, n
    <3>3. role[q] = "session" => role[peer[q]] # "none" /\ peer[q] \in Pids
      BY <1>0 DEF Cast, Is
    <3> QED BY <1>0, <1>1, <2>3, <2>4, <3>2, <3>3 DEF Ties
  <2>5. CASE Enters("server", NoPid, NextPid, "start", {}, {})
    <3>1. Enters("server", NoPid, n, "start", {}, {})
      BY <2>5 DEF n
    <3>2. /\ role' = [role EXCEPT ![n] = "server"] /\ peer' = [peer EXCEPT ![n] = NoPid]
          /\ pc' = [pc EXCEPT ![n] = "start", ![n] = "start"]
      BY <3>1 DEF Enters, Becomes, Constructed, n
    <3>3. CASE q = n
      BY <1>0, <2>1, <3>2, <3>3 DEF Ties, WwwTypes
    <3>4. CASE q # n
      <4>1. peer'[q] = peer[q] /\ pc'[q] = pc[q]
        BY <1>0, <2>1, <3>2, <3>4 DEF WwwTypes
      <4> QED BY <2>4, <3>4, <4>1
    <3> QED BY <3>3, <3>4
  <2>6. ASSUME NEW p \in Pids, role[p] = "server",
               Enters("listener", p, p, "recv", {p}, {p})
        PROVE  Ties(q)'
    <3>0. /\ role' = [role EXCEPT ![n] = "listener"] /\ peer' = [peer EXCEPT ![n] = p]
          /\ pc' = [pc EXCEPT ![n] = "start", ![p] = "recv"] /\ p # n
          /\ killOnDie' = [s \in Pids |->
                IF s = n THEN {p} ELSE IF s \in {p} THEN killOnDie[s] \cup {n}
                ELSE killOnDie[s]]
      BY <2>1, <2>6 DEF Enters, Becomes, Constructed, n
    <3>1. /\ role' = [role EXCEPT ![n] = "listener"] /\ p # n
          /\ pc' = [pc EXCEPT ![n] = "start", ![p] = "recv"]
          /\ peer'[q] = peer[q] \/ q = n
          /\ p \in killOnDie'[n]
      BY <1>0, <2>1, <3>0 DEF WwwTypes
    <3>2. CASE q = p
      <4>1. Tied(p, "listener")'
        BY <1>0, <2>1, <3>1 DEF Tied, WwwTypes
      <4> QED BY <1>0, <2>1, <2>6, <3>1, <3>2, <4>1 DEF Ties, WwwTypes
    <3>3. CASE q = n
      BY <1>0, <2>1, <3>1, <3>3 DEF Ties, WwwTypes
    <3> QED BY <1>0, <2>1, <2>4, <3>1, <3>2, <3>3 DEF WwwTypes
  <2>7. ASSUME NEW p \in Pids, role[p] = "server", pc[p] = "spawn",
               Enters("session", peer[p], p, "recv", {peer[p]}, {peer[p]})
        PROVE  Ties(q)'
    <3>1. peer[p] \in Pids /\ role[peer[p]] = "socket"
      BY <1>0, <2>7 DEF Cast, Is
    <3>0. /\ role' = [role EXCEPT ![n] = "session"]
          /\ pc' = [pc EXCEPT ![n] = "start", ![p] = "recv"]
          /\ peer' = [peer EXCEPT ![n] = peer[p]]
          /\ killOnDie' = [s \in Pids |->
                IF s = n THEN {peer[p]} ELSE IF s \in {peer[p]} THEN killOnDie[s] \cup {n}
                ELSE killOnDie[s]]
      BY <2>7 DEF Enters, Becomes, Constructed, n
    <3>2. /\ role' = [role EXCEPT ![n] = "session"]
          /\ pc' = [pc EXCEPT ![n] = "start", ![p] = "recv"]
          /\ peer' = [peer EXCEPT ![n] = peer[p]]
          /\ n \in killOnDie'[peer[p]] /\ p # n
      BY <2>1, <2>7, <3>0, <3>1
    <3>3. CASE q = n
      BY <1>0, <2>1, <3>2, <3>3 DEF Ties, WwwTypes
    <3> QED BY <1>0, <2>1, <2>4, <2>7, <3>2, <3>3 DEF WwwTypes
  <2>8. ASSUME NEW p \in asks, role[p] = "listener",
               Enters("socket", peer[p], p, pc[p], {}, {p})
        PROVE  Ties(q)'
    <3>0. p \in Pids /\ p # n
      BY <1>0, <2>1, <2>8 DEF WwwTypes
    <3>01. /\ role' = [role EXCEPT ![n] = "socket"] /\ peer' = [peer EXCEPT ![n] = peer[p]]
          /\ pc' = [pc EXCEPT ![n] = "start", ![p] = pc[p]]
          /\ killOnDie' = [s \in Pids |->
                IF s = n THEN {} ELSE IF s \in {p} THEN killOnDie[s] \cup {n}
                ELSE killOnDie[s]]
      BY <2>8, <3>0 DEF Enters, Becomes, Constructed, n
    <3>1. /\ role' = [role EXCEPT ![n] = "socket"]
          /\ pc' = [pc EXCEPT ![n] = "start", ![p] = pc[p]]
          /\ peer'[q] = peer[q] \/ q = n
          /\ n \in killOnDie'[p]
      BY <1>0, <2>1, <3>0, <3>01 DEF WwwTypes
    <3>2. CASE q = n
      <4>1. role'[p] = "listener" /\ role'[n] = "socket"
        BY <1>0, <2>1, <2>8, <3>0, <3>1 DEF WwwTypes
      <4>2. Tied(q, "listener")'
        BY <3>0, <3>1, <3>2, <4>1 DEF Tied
      <4> QED BY <3>2, <4>1, <4>2 DEF Ties
    <3> QED BY <1>0, <2>1, <2>4, <3>0, <3>1, <3>2 DEF WwwTypes
  <2> QED BY <1>2, <2>5, <2>6, <2>7, <2>8 DEF Hires
<1>3. CASE /\ killOnDie' = killOnDie /\ role' = role
           /\ role[q] = "session" => peer'[q] = peer[q]
           /\ role[q] = "server" /\ pc[q] = "start" => pc'[q] = "start"
  <2>1. \A r : Tied(q, r)' <=> Tied(q, r)
    BY <1>3 DEF Tied
  <2> QED BY <1>0, <1>3, <2>1 DEF Ties
<1> QED BY <1>2, <1>3, TieSteps

\* A step that does nothing to the answers of q.
LEMMA AnsweredFrame ==
  ASSUME NEW q \in Pids, Answered(q), pc'[q] = pc[q], batch'[q] = batch[q],
         log'.requests[q] = log.requests[q], log'.answers[q] = log.answers[q],
         role[q] = "session" => role'[q] = "session"
  PROVE  Answered(q)'
BY DEF Answered, Progress, Batched

\* Where a session answers; a process that is not there goes on.
Busy == {"respond", "response", "clear", "pieces", "piece", "unwind"}

LEMMA AnsweredMoves ==
  ASSUME NEW q \in Pids, Answered(q), batch'[q] = batch[q],
         log'.requests[q] = log.requests[q], log'.answers[q] = log.answers[q],
         role[q] = "session" => role'[q] = "session",
         pc[q] \notin Busy \cup {"thrown"}, pc'[q] \notin Busy
  PROVE  Answered(q)'
BY DEF Answered, Progress, Batched, Busy

\* The pieces of an answer, one by one.
LEMMA BatchGrows ==
  ASSUME NEW b \in Seq(Buffers), Begun(b)
  PROVE  /\ b # <<>> /\ Begun(Append(b, "piece")) /\ Whole(Append(b, "last"))
<1>1. Len(b) \in Nat /\ Len(b) >= 1
  BY LenProperties DEF Begun
<1>2. ASSUME NEW e \in Buffers
      PROVE  /\ Len(Append(b, e)) = Len(b) + 1 /\ Append(b, e)[Len(b) + 1] = e
             /\ \A k \in 1..Len(b) : Append(b, e)[k] = b[k]
  BY AppendProperties
<1>3. Begun(Append(b, "piece"))
  <2>1. "piece" \in Buffers
    BY DEF Buffers
  <2>2. ASSUME NEW k \in 2..(Len(b) + 1) PROVE Append(b, "piece")[k] = "piece"
    <3>1. CASE k = Len(b) + 1
      BY <1>2, <2>1, <3>1
    <3>2. CASE k # Len(b) + 1
      <4>1. k \in 2..Len(b) /\ k \in 1..Len(b)
        BY <1>1, <3>2
      <4> QED BY <1>2, <2>1, <4>1 DEF Begun
    <3> QED BY <3>1, <3>2
  <2> QED BY <1>1, <1>2, <2>1, <2>2 DEF Begun
<1>4. Whole(Append(b, "last"))
  <2>1. "last" \in Buffers
    BY DEF Buffers
  <2>2. ASSUME NEW k \in 2..(Len(b) + 1 - 1) PROVE Append(b, "last")[k] = "piece"
    <3>1. k \in 2..Len(b) /\ k \in 1..Len(b)
      BY <1>1
    <3> QED BY <1>2, <2>1, <3>1 DEF Begun
  <2> QED BY <1>1, <1>2, <2>1, <2>2 DEF Whole, Begun
<1> QED BY <1>1, <1>3, <1>4

LEMMA ProcessAnswered ==
  ASSUME ActorsInv, WwwInv, NEW p \in Pids, WwwStep(p), NEW q \in Pids,
         ~MakeListener(p), ~(SpawnSession(p) /\ Found(processes, peer[p]))
  PROVE  Answered(q)'
<1> USE DEF wwwVars, GoOn
<1>0. WwwTypes /\ Cast(p) /\ Answered(p) /\ Answered(q)
  BY DEF WwwInv
<1> USE DEF Busy
<1>1. ASSUME NEW l, pc' = [pc EXCEPT ![p] = l], UNCHANGED <<role, batch, log>>,
             pc[p] \notin Busy \cup {"thrown"}, l \notin Busy
      PROVE  Answered(q)'
  <2>1. CASE q = p
    BY <1>0, <1>1, <2>1, AnsweredMoves DEF WwwTypes
  <2>2. CASE q # p
    BY <1>0, <1>1, <2>2, AnsweredFrame DEF WwwTypes
  <2> QED BY <2>1, <2>2
<1>2. CASE UNCHANGED <<role, pc, batch, log>>
  BY <1>0, <1>2, AnsweredFrame
<1>3. CASE GetMessage(p)
  <2>1. NextAt(p) \notin Busy
    BY <1>0, <1>3 DEF GetMessage, NextAt, Cast, WwwTypes
  <2> QED BY <1>1, <1>3, <2>1 DEF GetMessage
<1>4. CASE Listen(p) \/ Announce(p) \/ Forward(p) \/ ReadOn(p) \/ InitRecvSocket(p)
  BY <1>1, <1>2, <1>4 DEF Listen, Announce, Forward, ReadOn, InitRecvSocket, Runs
<1>12. CASE AwaitWrite(p) \/ WriteAwaited(p) \/ Write(p)
  BY <1>1, <1>12 DEF AwaitWrite, AtWrites, WriteAwaited, Write, CheckExcept, Runs
<1>5. ASSUME q # p, role' = role, NEW l, pc' = [pc EXCEPT ![p] = l],
             batch' = batch \/ \E b : batch' = [batch EXCEPT ![p] = b],
             \/ log' = log
             \/ log' = [log EXCEPT !.requests[p] = @ + 1]
             \/ log' = [log EXCEPT !.answers[p] = Append(@, batch[p])]
      PROVE  Answered(q)'
  <2>1. batch'[q] = batch[q] /\ pc'[q] = pc[q]
    BY <1>0, <1>5 DEF WwwTypes
  <2>2. log'.requests[q] = log.requests[q] /\ log'.answers[q] = log.answers[q]
    <3>1. log.requests \in [Pids -> Nat] /\ log.answers \in [Pids -> Seq(Seq(Buffers))]
      BY <1>0, LogTypes
    <3>2. CASE log' = [log EXCEPT !.requests[p] = @ + 1]
      BY <1>0, <1>5, <3>1, <3>2, LogRequest
    <3>3. CASE log' = [log EXCEPT !.answers[p] = Append(@, batch[p])]
      BY <1>0, <1>5, <3>1, <3>3, LogAnswer
    <3> QED BY <1>5, <3>2, <3>3
  <2> QED BY <1>0, <1>5, <2>1, <2>2, AnsweredFrame
<1>6. ASSUME Parse(p), pc' # pc PROVE Answered(q)'
  <2>1. /\ role[p] = "session" /\ pc[p] = "parse" /\ role' = role /\ batch' = batch
        /\ \/ pc' = [pc EXCEPT ![p] = "recv"] /\ log' = log
           \/ /\ pc' = [pc EXCEPT ![p] = "respond"]
              /\ log' = [log EXCEPT !.requests[p] = @ + 1]
    BY <1>6 DEF Parse, Runs
  <2>2. CASE log' = [log EXCEPT !.requests[p] = @ + 1]
             /\ pc' = [pc EXCEPT ![p] = "respond"]
    <3>1. log'.requests[p] = log.requests[p] + 1 /\ log'.answers[p] = log.answers[p]
      BY <1>0, <2>2, LogTypes, LogRequest
    <3>2. pc'[p] = "respond" /\ batch'[p] = batch[p]
      BY <1>0, <2>1, <2>2 DEF WwwTypes
    <3> QED BY <1>0, <1>5, <2>1, <2>2, <3>1, <3>2 DEF Answered, Progress, Batched
  <2>3. CASE log' = log /\ pc' = [pc EXCEPT ![p] = "recv"]
    BY <1>1, <2>1, <2>3
  <2> QED BY <2>1, <2>2, <2>3
<1>7. CASE Parse(p)
  <2>1. CASE pc' = pc
    <3>1. log' = log \/ pc' = [pc EXCEPT ![p] = "respond"]
      BY <1>7 DEF Parse
    <3>2. pc[p] = "parse" /\ UNCHANGED <<role, batch>>
      BY <1>7 DEF Parse, Runs
    <3>3. log' = log
      BY <1>0, <2>1, <3>1, <3>2 DEF WwwTypes
    <3> QED BY <1>2, <2>1, <3>2, <3>3
  <2> QED BY <1>6, <1>7, <2>1
<1>8. CASE GetResponse(p) \/ NextPiece(p)
  <2>1. /\ role[p] = "session" /\ UNCHANGED <<role, batch, log>>
        /\ \/ pc' = pc
           \/ pc[p] = "respond" /\ pc' = [pc EXCEPT ![p] = "response"]
           \/ pc[p] = "pieces" /\ pc' = [pc EXCEPT ![p] = "piece"]
    BY <1>8 DEF GetResponse, NextPiece, Runs
  <2>2. CASE q = p
    BY <1>0, <2>1, <2>2 DEF Answered, Progress, Batched, WwwTypes
  <2> QED BY <1>2, <1>5, <2>1, <2>2
<1>9. CASE Respond(p)
  <2>1. /\ role[p] = "session" /\ pc[p] = "response" /\ UNCHANGED <<role, log>>
        /\ \/ /\ pc' = [pc EXCEPT ![p] = "clear"]
              /\ batch' = [batch EXCEPT ![p] = <<"whole">>]
           \/ /\ pc' = [pc EXCEPT ![p] = "pieces"]
              /\ batch' = [batch EXCEPT ![p] = <<"head">>]
           \/ UNCHANGED <<pc, batch>>
    BY <1>9 DEF Respond, Runs
  <2>2. Whole(<<"whole">>) /\ Begun(<<"head">>)
    BY DEF Whole, Begun
  <2>3. CASE q = p
    <3>1. \/ pc'[p] = "clear" /\ Whole(batch'[p])
          \/ pc'[p] = "pieces" /\ Begun(batch'[p])
          \/ UNCHANGED <<pc, batch>>
      BY <1>0, <2>1, <2>2 DEF WwwTypes
    <3> QED BY <1>0, <2>1, <2>3, <3>1 DEF Answered, Progress, Batched
  <2> QED BY <1>2, <1>5, <2>1, <2>3
<1>10. CASE Piece(p) \/ EndPieces(p)
  <2>1. /\ role[p] = "session" /\ pc[p] \in {"piece", "pieces"}
        /\ UNCHANGED <<role, log>>
        /\ \/ /\ pc' = [pc EXCEPT ![p] = "pieces"]
              /\ batch' = [batch EXCEPT ![p] = Append(batch[p], "piece")]
           \/ /\ pc' = [pc EXCEPT ![p] = "clear"]
              /\ batch' = [batch EXCEPT ![p] = Append(batch[p], "last")]
           \/ /\ pc' = [pc EXCEPT ![p] = "unwind"] /\ batch' = batch
           \/ UNCHANGED <<pc, batch>>
    BY <1>10 DEF Piece, EndPieces, Runs
  <2>2. /\ Begun(batch[p]) /\ Begun(Append(batch[p], "piece"))
        /\ Whole(Append(batch[p], "last"))
    BY <1>0, <2>1, LogTypes, BatchGrows DEF Answered, Batched
  <2>3. CASE q = p
    <3>1. \/ pc'[p] = "clear" /\ Whole(batch'[p])
          \/ pc'[p] \in {"pieces", "unwind"} /\ Begun(batch'[p])
          \/ UNCHANGED <<pc, batch>>
      BY <1>0, <2>1, <2>2 DEF WwwTypes
    <3> QED BY <1>0, <1>2, <2>1, <2>3, <3>1 DEF Answered, Progress, Batched
  <2> QED BY <1>2, <1>5, <2>1, <2>3
<1>11. CASE Clear(p)
  <2>1. role[p] = "session" /\ pc[p] \in {"clear", "unwind"}
    BY <1>11 DEF Clear, Runs
  <2>2. CASE Terminates
    <3>1. log' = [log EXCEPT !.terminated = TRUE] /\ UNCHANGED <<role, pc, batch>>
      BY <2>2 DEF Terminates
    <3>2. log'.requests[q] = log.requests[q] /\ log'.answers[q] = log.answers[q]
      BY <1>0, <3>1, LogCounts
    <3> QED BY <1>0, <3>1, <3>2, AnsweredFrame
  <2>3. batch[p] # <<>>
    <3>1. Whole(batch[p]) => batch[p] # <<>>
      <4>1. Len(<<>>) = 0 /\ Len(<<"whole">>) = 1
        OBVIOUS
      <4>2. CASE batch[p] = <<"whole">>
        BY <4>1, <4>2
      <4>3. CASE Len(batch[p]) >= 2
        BY <4>1, <4>3
      <4> QED BY <4>2, <4>3 DEF Whole
    <3>2. Begun(batch[p]) => batch[p] # <<>>
      BY DEF Begun
    <3> QED BY <1>0, <2>1, <3>1, <3>2 DEF Answered, Batched
  <2>4. ASSUME ~Terminates
        PROVE  /\ pc' = [pc EXCEPT ![p] = IF pc[p] = "clear" THEN "recv" ELSE "thrown"]
               /\ batch' = [batch EXCEPT ![p] = <<>>] /\ role' = role
               /\ log' = [log EXCEPT !.answers[p] = Append(@, batch[p])]
    BY <1>11, <2>3, <2>4 DEF Clear, MustSend
  <2>5. ASSUME ~Terminates, q = p PROVE Answered(q)'
    <3> DEFINE a == log.answers[p]
    <3>1. /\ log'.answers[p] = Append(a, batch[p])
          /\ log'.requests[p] = log.requests[p] /\ a \in Seq(Seq(Buffers))
          /\ batch[p] \in Seq(Buffers)
      BY <1>0, <2>4, <2>5, LogTypes, LogAnswer
    <3>2. /\ batch'[p] = <<>> /\ role'[p] = "session"
          /\ pc'[p] = IF pc[p] = "clear" THEN "recv" ELSE "thrown"
      BY <1>0, <2>1, <2>4, <2>5 DEF WwwTypes
    <3> HIDE DEF a
    <3>3. /\ Len(a) \in Nat /\ Len(Append(a, batch[p])) = Len(a) + 1
          /\ Append(a, batch[p])[Len(a) + 1] = batch[p]
          /\ \A k \in 1..Len(a) : Append(a, batch[p])[k] = a[k]
      BY <3>1, AppendProperties, LenProperties
    <3>4. log.requests[p] = Len(a) + 1
      BY <1>0, <2>1 DEF Answered, Progress, a
    <3>5. \A k \in 1..Len(a) : Whole(a[k])
      BY <1>0, <2>1 DEF Answered, a
    <3>6. pc[p] = "clear" => Whole(batch[p])
      BY <1>0, <2>1 DEF Answered, Batched
    <3>7. \A k \in 1..(Len(a) + 1) :
            \/ Whole(Append(a, batch[p])[k])
            \/ k = Len(a) + 1 /\ pc'[p] = "thrown"
      BY <2>1, <3>2, <3>3, <3>5, <3>6
    <3> QED BY <2>5, <3>1, <3>2, <3>3, <3>4, <3>7 DEF Answered, Progress, Batched
  <2> QED BY <1>5, <2>2, <2>4, <2>5
<1> QED BY <1>2, <1>3, <1>4, <1>7, <1>8, <1>9, <1>10, <1>11, <1>12
        DEF WwwStep, WaitForMessage, SpawnSession, ListenerThrows, SocketEnds,
            Throws, Forwarding, SocketWaits

LEMMA AnsweredNext ==
  ASSUME ActorsInv, WwwInv, [WwwNext]_allVars, NEW q \in Pids
  PROVE  Answered(q)'
<1>0. WwwTypes /\ RolesStay /\ Answered(q) /\ asks \subseteq Pids
      /\ \A p \in Pids : Cast(p)
  BY RolesAreKept DEF WwwInv, WwwTypes
<1>1. CASE Hires
  <2> DEFINE n == NextPid
  <2>1. PICK r, b, p, l, kill, back :
          /\ Enters(r, b, p, l, kill, back)
          /\ \/ p = n /\ l = "start"
             \/ p \in Pids /\ role[p] \in {"server", "listener"}
                /\ l \in {"start", "recv", "failed"}
    BY <1>0, <1>1 DEF Hires, Cast
  <2>2. n \in Pids /\ role[n] = "none"
    BY <2>1, EntersFresh
  <2>3. /\ role' = [role EXCEPT ![n] = r] /\ batch' = batch
        /\ pc' = [pc EXCEPT ![n] = "start", ![p] = l]
        /\ log' \in {log, [log EXCEPT !.connections = @ + 1]}
    BY <2>1 DEF Enters, Becomes
  <2> HIDE DEF n
  <2>4. log'.requests[q] = log.requests[q] /\ log'.answers[q] = log.answers[q]
    BY <1>0, <2>3, LogCounts
  <2>5. role[q] = "session" => role'[q] = "session" /\ q # n /\ q # p
    BY <1>0, <2>1, <2>2 DEF RolesStay
  <2>6. CASE q \in {n, p}
    <3>1. /\ pc[q] \in {"start", "recv", "spawn", "failed"}
          /\ pc'[q] \in {"start", "recv", "failed"}
      BY <1>0, <2>1, <2>2, <2>3, <2>6 DEF Cast, WwwTypes
    <3> QED BY <1>0, <2>3, <2>4, <2>5, <3>1, AnsweredMoves DEF Busy
  <2>7. CASE q \notin {n, p}
    <3>1. pc'[q] = pc[q]
      BY <1>0, <2>1, <2>2, <2>3, <2>7 DEF WwwTypes
    <3> QED BY <1>0, <2>3, <2>4, <2>5, <3>1, AnsweredFrame
  <2> QED BY <2>6, <2>7
<1>2. CASE Elsewhere
  <2>1. UNCHANGED <<role, pc, batch>>
    BY <1>2 DEF Elsewhere, Handles, AcceptFails, ReadCompletes, WriteCompletes,
                RunOneWaits, DeleteProcess, Terminates, wwwVars
  <2>2. \/ log' = log \/ log' = [log EXCEPT !.chunks = @ + 1]
        \/ log' = [log EXCEPT !.terminated = TRUE]
    BY <1>2 DEF Elsewhere, Handles, AcceptFails, ReadCompletes, WriteCompletes,
                RunOneWaits, DeleteProcess, Terminates, wwwVars
  <2>3. log'.requests[q] = log.requests[q] /\ log'.answers[q] = log.answers[q]
    BY <1>0, <2>2, LogCounts
  <2> QED BY <1>0, <2>1, <2>3, AnsweredFrame
<1> QED BY <1>1, <1>2, WwwCases, ProcessAnswered

-----------------------------------------------------------------------------
(* The invariant, and what it says of the server *)

LEMMA WwwInitOK == WwwInit => ActorsInv /\ WwwInv
<1> SUFFICES ASSUME WwwInit PROVE ActorsInv /\ WwwInv
  OBVIOUS
<1>1. ActorsInv
  BY ActorsInit DEF WwwInit
<1>2. WwwTypes
  <2>1. /\ <<>> \in Seq(Buffers) /\ <<>> \in Seq(Seq(Buffers)) /\ "start" \in Places
    BY DEF Places
  <2>2. log \in Logs
    BY <2>1 DEF WwwInit, Logs
  <2> QED BY <2>1, <2>2 DEF WwwInit, WwwTypes, PidOrNone
<1>3. MailCarries
  <2>1. Indices(queue) = {} /\ \A r \in Pids : Indices(Contents(mq[r])) = {}
    BY DEF WwwInit, Init, Indices, NewQueue, Contents
  <2> QED BY <2>1 DEF MailCarries, Mailed
<1>4. ASSUME NEW p \in Pids PROVE Cast(p) /\ Holds(p) /\ Ties(p)
  <2>1. /\ role[p] = "none" /\ pc[p] = "start" /\ p \notin asks
        /\ sending[p] = NoPid /\ notifyOnDie[p] = NoPid
    BY DEF WwwInit, Init
  <2> QED BY <2>1 DEF Cast, Holds, Ties
<1>5. ASSUME NEW p \in Pids PROVE Answered(p)
  <2>1. /\ role[p] = "none" /\ pc[p] = "start" /\ batch[p] = <<>>
        /\ log.requests[p] = 0 /\ log.answers[p] = <<>>
    BY DEF WwwInit
  <2> QED BY <2>1 DEF Answered, Progress, Batched
<1> QED BY <1>1, <1>2, <1>3, <1>4, <1>5 DEF WwwInv

LEMMA WwwNextOK ==
  ActorsInv /\ WwwInv /\ [WwwNext]_allVars => (ActorsInv /\ WwwInv)'
<1> SUFFICES ASSUME ActorsInv, WwwInv, [WwwNext]_allVars
             PROVE  (ActorsInv /\ WwwInv)'
  OBVIOUS
<1>1. ActorsInv'
  BY WwwActs, ServerKeeps
<1>2. WwwTypes' /\ MailCarries'
  BY WwwTypesNext, MailCarriesNext
<1>3. ASSUME NEW p \in Pids
      PROVE  Cast(p)' /\ Holds(p)' /\ Ties(p)' /\ Answered(p)'
  BY CastNext, HoldsNext, TiesNext, AnsweredNext
<1> QED BY <1>1, <1>2, <1>3 DEF WwwInv

LEMMA WwwCorrect == WwwSpec => [](ActorsInv /\ WwwInv)
BY WwwInitOK, WwwNextOK, PTL DEF WwwSpec

\* Every request a session has parsed gets one answer of its own, whole unless
\* its handler threw: the StreamBatcher of one response never holds a buffer of
\* another one, whatever messages arrive while the handler sleeps (Www.cpp,
\* SessionRunner and StreamBatcher).
THEOREM RequestsAreAnswered == WwwSpec => []AnswersAreWhole
<1>1. ActorsInv /\ WwwInv => AnswersAreWhole
  <2> SUFFICES ASSUME WwwInv, NEW p \in Pids, role[p] = "session"
               PROVE  LET a == log.answers[p] IN
                      /\ Len(a) <= log.requests[p]
                      /\ pc[p] = "recv" => Len(a) = log.requests[p]
                      /\ \A k \in 1..Len(a) :
                           Whole(a[k]) \/ (k = Len(a) /\ pc[p] = "thrown")
    BY DEF AnswersAreWhole, Of
  <2>1. Answered(p) /\ Len(log.answers[p]) \in Nat
    BY LenProperties DEF WwwInv, WwwTypes
  <2> QED BY <2>1 DEF Answered, Progress
<1> QED BY <1>1, WwwCorrect, PTL

\* Between two turns of the loop who was killed has been deleted with all that
\* was linked to it, and who was spawned and not deleted is in the table.
LEMMA BetweenTurns ==
  ASSUME ActorsInv, at \in {"top", "wait"}, NEW p \in Pids, Spawned(p)
  PROVE  /\ Live(p) \/ p \in freed
         /\ \A q \in killOnDie[p] : Live(q) => Live(p)
<1>1. /\ toDestroy = <<>> /\ dying = NoPid /\ Indices(toDestroy) = {}
  BY DEF ActorsInv, SchedulerInv, LoopInv, Indices
<1>2. NoPid \notin Pids
  BY PidFields
<1>3. Live(p) \/ p \in freed
  BY <1>1, <1>2 DEF Spawned, Known, InTable, InDoom, Live, Indices
<1>4. \A q \in killOnDie[p] : p \in freed => ~Live(q)
  BY DEF ActorsInv, LinkInv, InTable, Live, Indices
<1> QED BY <1>3, <1>4

\* No connection is left behind: between two turns of Context::run() a socket
\* lives only with its listener, a session only with its socket and the server
\* only with the listener it has made, although each of them can die at any time
\* and an accept handler can spawn a socket while its listener waits in
\* toDestroy_ (Tcp.cpp, ListenerProcess; Www.cpp, Server and SessionRunner).
THEOREM ConnectionsAreKept == WwwSpec => []NothingIsLost
<1>1. ActorsInv /\ WwwInv => NothingIsLost
  <2> SUFFICES ASSUME ActorsInv, WwwInv, at \in {"top", "wait"},
                      NEW p \in Pids, Live(p)
               PROVE  /\ role[p] = "socket" => \E q \in Of("listener") : Live(q)
                      /\ role[p] = "session" => Live(peer[p])
                      /\ role[p] = "server" /\ pc[p] # "start" =>
                           \E q \in Of("listener") : Live(q)
    BY DEF NothingIsLost, Of
  <2>1. ASSUME NEW q \in Pids, role[q] # "none", p \in killOnDie[q]
        PROVE  Live(q)
    BY <2>1, BetweenTurns DEF WwwInv, Holds
  <2>2. ASSUME Tied(p, "listener") PROVE \E q \in Of("listener") : Live(q)
    BY <2>1, <2>2 DEF Tied, Of
  <2>3. ASSUME role[p] = "session" PROVE Live(peer[p])
    BY <2>1, <2>3 DEF WwwInv, Cast, Ties, Is
  <2> QED BY <2>2, <2>3 DEF WwwInv, Ties
<1> QED BY <1>1, WwwCorrect, PTL

-----------------------------------------------------------------------------
(* Nobody waits for what has happened already. *)

\* What p waits for has not happened yet, or the io_service or queue_ has it.
Awaits(p) ==
  /\ InTurn(p) => Has(queue, ResumeItem(p, resumes[p]))
  /\ Suspended(p) /\ waiting[p] \in RecvWaits => Contents(mq[p]) = <<>>
  /\ Suspended(p) /\ waiting[p] = "sleep"
       => p \in timers \/ Has(ready, TimerHandler(p))
  /\ waiting[p] = "future" => /\ running # p /\ sending[p] \in Pids
                              /\ InTable(processes, p) => Wakeable(p)

LEMMA AwaitsParts ==
  (\A p \in Pids : Awaits(p))
    <=> TurnsQueued /\ NoneOverlooked /\ AlarmsSet /\ ThrottleInv
BY DEF Awaits, TurnsQueued, NoneOverlooked, AlarmsSet, ThrottleInv, Has

\* A step that has nothing to do with p, or with whom p sends to.
Spares(p) ==
  /\ UNCHANGED <<waiting[p], resumes[p], sending[p], mq[p]>>
  /\ sending[p] \in Pids => mq'[sending[p]] = mq[sending[p]]
  /\ InTable(processes', p) => InTable(processes, p)
  /\ running' = p <=> running = p
  /\ timers' = timers /\ freed' = freed
  /\ \A h : Has(ready, h) => Has(ready', h)
  /\ \A e : Has(queue, e) => Has(queue', e)

LEMMA SparedAwaits ==
  ASSUME NEW p \in Pids, Awaits(p), Spares(p) PROVE Awaits(p)'
<1>1. PICK b, k : b = sending[p] /\ k = resumes[p]
  OBVIOUS
<1>2. /\ waiting'[p] = waiting[p] /\ resumes'[p] = k /\ sending'[p] = b /\ mq'[p] = mq[p]
      /\ b \in Pids => mq'[b] = mq[b]
  BY <1>1 DEF Spares
<1>3. InTurn(p)' => Has(queue', ResumeItem(p, k))
  BY <1>1, <1>2 DEF Awaits, Spares, InTurn, Runnable
<1>4. Suspended(p)' => Suspended(p)
  BY DEF Spares, Suspended
<1>5. Suspended(p)' /\ waiting'[p] = "sleep" =>
        p \in timers' \/ Has(ready', TimerHandler(p))
  BY <1>2, <1>4 DEF Awaits, Spares
<1>6. ASSUME waiting'[p] = "future", InTable(processes', p)
      PROVE  Has(ready', Continuation(p, k)) \/ FullSlot(b, Continuation(p, k))'
  BY <1>1, <1>2, <1>6 DEF Awaits, Spares, Wakeable, FullSlot
<1>7. waiting'[p] = "future" => running' # p /\ b \in Pids
  BY <1>1, <1>2 DEF Awaits, Spares
<1> QED BY <1>2, <1>3, <1>4, <1>5, <1>6, <1>7
        DEF Awaits, Has, Wakeable, RecvWaits, TimerHandler

\* The running process stops, ...
LEMMA PauseAwaits ==
  ASSUME ActorsInv, NEW p \in Pids, NEW w, Pauses(p, w), NEW q \in Pids, Awaits(q)
  PROVE  Awaits(q)'
<1> USE DEF tableVars, linkVars, mailVars, memVars
<1>0. /\ p # NoPid /\ DOMAIN waiting = Pids
      /\ mq[p] \in Queues(Messages, Handlers) /\ WellFormed(mq[p])
  BY PidFields DEF ActorsInv, SchedulerInv, TypeOK, MailInv
<1>1. CASE q # p
  <2>0. \A h : Has(ready, h) => Has(ready', h)
    BY RecallTypes DEF Pauses, ActorsInv
  <2>1. Spares(q)
    BY <1>0, <1>1, <2>0, PidFields DEF Spares, Pauses, Park
  <2> QED BY <2>1, SparedAwaits
<1>2. CASE q = p
  <2>1. /\ waiting'[q] = w /\ w \in {"always", "timedRecv"} /\ mq' = mq
        /\ w = "timedRecv" => Size(mq[q]) = 0
    BY <1>0, <1>2 DEF Pauses, Park
  <2>2. w = "timedRecv" => Contents(mq[q]) = <<>>
    BY <1>0, <1>2, <2>1, ContentsSize
  <2> QED BY <2>1, <2>2 DEF Awaits, InTurn, Runnable, RecvWaits
<1> QED BY <1>1, <1>2

\* ... the io_service has a handler more, ...
LEMMA ReportAwaits ==
  ASSUME ActorsInv, NEW p \in Pids, Reports(p), NEW q \in Pids, Awaits(q)
  PROVE  Awaits(q)'
<1> USE DEF tableVars, procVars, linkVars, mailVars, memVars
<1>1. \A h : Has(ready, h) => Has(ready', h)
  BY RecallTypes DEF Reports, ActorsInv
<1>2. Spares(q)
  BY <1>1 DEF Spares, Reports
<1> QED BY <1>2, SparedAwaits

\* ... std::terminate() is called, ...
LEMMA TerminatesAwaits ==
  ASSUME ActorsInv, Terminates, running # NoPid => InUserCode(running),
         NEW q \in Pids, Awaits(q)
  PROVE  Awaits(q)'
<1> USE DEF tableVars, procVars, linkVars, mailVars, ioVars, memVars
<1>1. CASE q = running
  <2>1. waiting'[q] = "none"
    BY <1>1, PidFields DEF Terminates, InUserCode
  <2> QED BY <2>1 DEF Awaits, InTurn, Runnable, RecvWaits
<1>2. CASE q # running
  <2>1. Spares(q)
    BY <1>2, PidFields DEF Spares, Terminates
  <2> QED BY <2>1, SparedAwaits
<1> QED BY <1>1, <1>2

\* ... a socket yields with nobody to send to, ...
LEMMA ForwardAwaits ==
  ASSUME ActorsInv, running # NoPid, SendThrottled(running, NoPid),
         NEW q \in Pids, Awaits(q)
  PROVE  Awaits(q)'
<1> USE DEF tableVars, linkVars, ioVars, memVars
<1>1. PICK p \in Pids : p = running /\ resumes[p] \in Nat
  BY RunningIsSpawned DEF ActorsInv, SchedulerInv, TypeOK
<1>2. /\ sending' = [sending EXCEPT ![p] = NoPid] /\ sending[p] = NoPid
      /\ waiting[p] = "none"
      /\ \/ /\ Park(p, "yield")
            /\ queue' = Append(queue, ResumeItem(p, resumes[p]))
         \/ UNCHANGED <<running, waiting, queue>>
      /\ UNCHANGED <<at, dying, kills, tableVars, resumes, linkVars, mq, sends,
                     noticed, ioVars, memVars>>
  BY <1>1 DEF SendThrottled, Calls, InUserCode
<1>3. /\ queue \in Seq(Items) /\ ResumeItem(p, resumes[p]) \in Items
      /\ DOMAIN waiting = Pids /\ DOMAIN sending = Pids /\ p # NoPid
  BY <1>1, ItemTypes, PidFields DEF ActorsInv, SchedulerInv, TypeOK, PidOrNone
<1>4. \A e : Has(queue, e) => Has(queue', e)
  <2>1. CASE queue' = Append(queue, ResumeItem(p, resumes[p]))
    BY <1>3, <2>1, HasAppend
  <2>2. CASE queue' = queue
    BY <2>2
  <2> QED BY <1>2, <2>1, <2>2
<1>5. sending'[q] = sending[q]
  BY <1>2, <1>3
<1>6. CASE UNCHANGED <<running, waiting, queue>>
  <2>1. Spares(q)
    BY <1>2, <1>5, <1>6 DEF Spares
  <2> QED BY <2>1, SparedAwaits
<1>7. CASE Park(p, "yield") /\ q # p
  <2>1. Spares(q)
    BY <1>1, <1>2, <1>3, <1>4, <1>5, <1>7, PidFields DEF Spares, Park
  <2> QED BY <2>1, SparedAwaits
<1>8. CASE /\ Park(p, "yield") /\ q = p
           /\ queue' = Append(queue, ResumeItem(p, resumes[p]))
  <2>1. waiting'[q] = "yield" /\ resumes'[q] = resumes[p]
    BY <1>2, <1>3, <1>8 DEF Park
  <2>2. Has(queue', ResumeItem(q, resumes'[q]))
    BY <1>3, <1>8, <2>1, HasAppend
  <2> QED BY <2>1, <2>2 DEF Awaits, RecvWaits, Has, ResumeItem
<1> QED BY <1>2, <1>6, <1>7, <1>8

LEMMA BesidesAwaits ==
  ASSUME ActorsInv, Besides, NEW q \in Pids, Awaits(q)
  PROVE  Awaits(q)'
<1>1. CASE RunOneWaits
  <2>1. Spares(q)
    BY <1>1 DEF RunOneWaits, rest, tableVars, procVars, linkVars, mailVars, Spares
  <2> QED BY <2>1, SparedAwaits
<1> QED BY <1>1, PauseAwaits, ReportAwaits, TerminatesAwaits, ForwardAwaits DEF Besides

\* ... a message is sent, ...
LEMMA TellsAwaits ==
  ASSUME ActorsInv, NEW to, NEW body, Tells(to, body), NEW q \in Pids, Awaits(q)
  PROVE  Awaits(q)'
<1> USE DEF loopVars, tableVars, procVars, linkVars, ioVars, memVars
<1>1. /\ queue \in Seq(Items) /\ MessageItem(Message(to, body, sends)) \in Items
  BY ItemTypes DEF Tells, ActorsInv, SchedulerInv, TypeOK
<1>2. \A e : Has(queue, e) => Has(queue', e)
  BY <1>1, HasAppend DEF Tells, Posts, QueueSend
<1>3. Spares(q)
  BY <1>2 DEF Spares, Tells, Posts
<1> QED BY <1>3, SparedAwaits

\* ... or a socket is spawned, which waits for its first turn.
LEMMA AcceptAwaits ==
  ASSUME ActorsInv, NEW p \in asks, Accept(p), NEW q \in Pids, Awaits(q)
  PROVE  Awaits(q)'
<1> USE DEF ioVars, memVars
<1>0. TypeOK /\ Table /\ Addressed /\ queue \in Seq(Items)
      /\ DOMAIN waiting = Pids /\ DOMAIN resumes = Pids /\ DOMAIN sending = Pids
      /\ DOMAIN mq = Pids
  BY DEF ActorsInv, SchedulerInv, TypeOK
<1>1. PICK n : n = NextPid
  OBVIOUS
<1>2. /\ n \in Pids /\ ~Spawned(n)
      /\ \A r \in Pids : InTable(processes', r) <=> InTable(processes, r) \/ r = n
  BY <1>0, <1>1, ConstructedFresh DEF Accept, Spawned
<1>3. /\ resumes' = [resumes EXCEPT ![n] = 0] /\ waiting' = [waiting EXCEPT ![n] = "start"]
      /\ sending' = [sending EXCEPT ![n] = NoPid] /\ mq' = [mq EXCEPT ![n] = NewQueue]
      /\ queue' = Append(queue, ResumeItem(n, 0))
      /\ UNCHANGED <<running, timers, ready, freed>>
  BY <1>1 DEF Accept, Constructed
<1>4. ResumeItem(n, 0) \in Items
  BY <1>2, ItemTypes DEF PidOrNone
<1>5. Has(queue', ResumeItem(n, 0)) /\ \A e : Has(queue, e) => Has(queue', e)
  BY <1>0, <1>3, <1>4, HasAppend
<1>6. CASE q = n
  <2>1. waiting'[q] = "start" /\ resumes'[q] = 0
    BY <1>0, <1>2, <1>3, <1>6
  <2> QED BY <1>5, <1>6, <2>1 DEF Awaits, RecvWaits, Has, ResumeItem
<1>7. CASE q # n
  <2>1. sending[q] # n
    BY <1>0, <1>2 DEF Addressed
  <2>2. Spares(q)
    BY <1>0, <1>2, <1>3, <1>5, <1>7, <2>1 DEF Spares
  <2> QED BY <2>2, SparedAwaits
<1> QED BY <1>6, <1>7

LEMMA AwaitsNext ==
  ASSUME ActorsInv, SlotsHaveOneSender, ServerStep, \A p \in Pids : Awaits(p)
  PROVE  \A p \in Pids : Awaits(p)'
<1>1. CASE [Next]_vars
  <2>1. TurnsQueued' /\ NoneOverlooked' /\ AlarmsSet' /\ ThrottleInv'
    BY <1>1, AwaitsParts, TurnsNext, NoneOverlookedNext, AlarmsNext, ThrottleNext
  <2>2. (\A p \in Pids : Awaits(p))'
    BY <2>1, AwaitsParts, PTL
  <2> QED BY <2>2
<1> QED BY <1>1, BesidesAwaits, TellsAwaits, AcceptAwaits DEF ServerStep

\* No session has two senders.
LEMMA SocketsAreApart ==
  ASSUME WwwInv PROVE SlotsHaveOneSender
<1> SUFFICES ASSUME NEW p \in Pids, NEW q \in Pids, sending[p] # NoPid,
                    sending[q] # NoPid, sending[p] = sending[q]
             PROVE  p = q
  BY DEF SlotsHaveOneSender, InThrottledSend
<1>1. /\ Is(sending[p], "session") /\ role[p] = "socket" /\ role[q] = "socket"
      /\ pc[p] = "forwarded" /\ pc[q] = "forwarded"
      /\ sending[p] = peer[p] /\ sending[q] = peer[q] /\ Cast(p) /\ Cast(q)
  BY DEF WwwInv, Holds, Is
<1>2. peer[peer[p]] = p /\ peer[peer[q]] = q
  BY <1>1, PidFields DEF Cast, Is
<1> QED BY <1>1, <1>2

-----------------------------------------------------------------------------
(* What the sockets and the sessions wait for *)

\* A process that waits for nothing runs, one that has ended is not in the table; a
\* session is in recv() only to read a chunk, and sleeps only in a handler; a socket
\* is in recv() only for its session, and never sleeps.
Poised(p) ==
  /\ waiting[p] = "none" => running = p \/ at = "crashed"
  /\ waiting[p] = "done" => ~InTable(processes, p)
  /\ role[p] = "session" =>
       /\ waiting[p] \in {"start", "none", "done", "recv", "sleep"}
       /\ waiting[p] = "recv" => pc[p] = "recv"
  /\ role[p] = "socket" =>
       waiting[p] # "sleep" /\ (waiting[p] = "recv" => pc[p] = "recv")

\* Only the running process acts.
LEMMA RunnerActs ==
  ASSUME ActorsInv, [WwwNext]_allVars, NEW p \in Pids, running = p
  PROVE  WwwStep(p) \/ UNCHANGED allVars
<1>0. at \in {"destroy", "poll"} /\ dying = NoPid /\ p # NoPid
  BY PidFields DEF ActorsInv, SchedulerInv, LoopInv
<1>1. ~(MainSpawnsServer \/ RunOneWaits \/ DeleteProcess \/ Terminated)
  BY <1>0 DEF MainSpawnsServer, MainSpawn, RunOneWaits, DeleteProcess, Terminated
<1>2. (\A q \in asks : ~Accept(q)) /\ \A q : ~Handles(q)
  BY <1>0 DEF Accept, Handles, AcceptFails, ReadCompletes, WriteCompletes, Completes
<1>3. ~ContextStep
  <2>1. ~(Run \/ Exit \/ ProcessMessage \/ ProcessResume \/ EndPoll)
    BY <1>0 DEF Run, Exit, ProcessMessage, ProcessResume, EndPoll
  <2>2. ~(RunAborted \/ RunTimer \/ RunContinuation \/ HandlerCrashes)
    BY <1>0 DEF RunAborted, RunTimer, RunContinuation, HandlerCrashes, RunsHandler
  <2>3. ~(DestroyNext \/ DestroyDone)
        /\ \A q \in Pids : ~(TimerExpires(q) \/ KillLinked(q))
    BY <1>0 DEF DestroyNext, DestroyDone, TimerExpires, KillLinked
  <2> QED BY <2>1, <2>2, <2>3 DEF ContextStep
<1> QED BY <1>1, <1>2, <1>3 DEF WwwNext, Handles

\* After a crash nothing runs.
LEMMA CrashIsFinal ==
  ASSUME ActorsInv, [WwwNext]_allVars, at = "crashed"
  PROVE  at' = "crashed"
<1> USE DEF allVars, vars, loopVars
<1>0. running = NoPid
  BY DEF ActorsInv, SchedulerInv, LoopInv
<1>1. ~(MainSpawnsServer \/ RunOneWaits)
  BY DEF MainSpawnsServer, MainSpawn, RunOneWaits
<1>2. (\A q \in asks : ~Accept(q)) /\ \A q : ~Handles(q)
  BY DEF Accept, Handles, AcceptFails, ReadCompletes, WriteCompletes, Completes
<1>3. DeleteProcess => at' = "crashed"
  BY DEF DeleteProcess, Terminates, FinishDestroy
<1>4. ContextStep => at' = "crashed"
  <2>1. ~(Run \/ Exit \/ ProcessMessage \/ ProcessResume \/ EndPoll)
    BY DEF Run, Exit, ProcessMessage, ProcessResume, EndPoll
  <2>2. ~(RunAborted \/ RunTimer \/ RunContinuation \/ HandlerCrashes)
    BY DEF RunAborted, RunTimer, RunContinuation, HandlerCrashes, RunsHandler
  <2>3. ~(DestroyNext \/ DestroyDone) /\ \A q \in Pids : ~TimerExpires(q)
    BY DEF DestroyNext, DestroyDone, TimerExpires
  <2>4. \A q \in Pids : KillLinked(q) => at' = at
    BY DEF KillLinked
  <2> QED BY <2>1, <2>2, <2>3, <2>4 DEF ContextStep
<1> QED BY <1>0, <1>1, <1>2, <1>3, <1>4 DEF WwwNext, Handles, Terminated

\* What a step of the running process leaves it waiting for.
Settles(p) ==
  \/ waiting'[p] = "none" /\ (running' = p \/ at' = "crashed")
  \/ waiting'[p] = "done" /\ ~InTable(processes', p)
  \/ waiting'[p] = "recv" /\ pc'[p] = "recv"
  \/ waiting'[p] = "sleep" /\ role[p] = "session"
  \/ waiting'[p] = "always" /\ (role[p] = "listener" \/ AwaitWrite(p))
  \/ waiting'[p] = "timedRecv" /\ SocketWaits(p)
  \/ waiting'[p] \in {"yield", "future"} /\ role[p] = "socket"

LEMMA RunnerSettles ==
  ASSUME ActorsInv, WwwInv, NEW p \in Pids, running = p, WwwStep(p)
  PROVE  Settles(p)
<1> USE DEF loopVars, tableVars, procVars, wwwVars, vars
<1>0. /\ TypeOK /\ Table /\ DOMAIN waiting = Pids /\ WwwTypes /\ p # NoPid
      /\ sending[p] # NoPid => role[p] = "socket"
  BY PidFields DEF ActorsInv, SchedulerInv, TypeOK, WwwInv, Holds, Is
<1>1. ASSUME Finish(p) PROVE Settles(p)
  <2>1. MovesOut(p) /\ waiting'[p] = "done"
    BY <1>0, <1>1, CoroutineEnds DEF Finish, Ends, memVars
  <2> QED BY <2>1 DEF MovesOut, Settles
<1>2. ASSUME InUserCode(p), waiting' = waiting, running' = running PROVE Settles(p)
  BY <1>2 DEF InUserCode, Settles
<1>3. ASSUME AwaitResume(p) PROVE Settles(p)
  <2>1. CASE Ends(p, processes, tombstones)
    <3>1. MovesOut(p) /\ waiting'[p] = "done"
      BY <1>0, <1>3, <2>1, CoroutineEnds DEF AwaitResume, Ends, memVars
    <3> QED BY <3>1 DEF MovesOut, Settles
  <2>2. CASE ~Ends(p, processes, tombstones)
    BY <1>0, <1>3, <2>2 DEF AwaitResume, Settles
  <2> QED BY <2>1, <2>2
<1>4. ASSUME Receive(p) PROVE Settles(p)
  BY <1>2, <1>4 DEF Receive, Calls
<1>5. ASSUME NEW w, Suspend(p, w) PROVE waiting'[p] = w
  BY <1>0, <1>5 DEF Suspend, Park
<1>6. ASSUME NEW to, NEW body, InUserCode(p), Posts(to, body) PROVE Settles(p)
  BY <1>2, <1>6 DEF Posts
<1>7. ASSUME Terminates, InUserCode(p) PROVE Settles(p)
  BY <1>7 DEF Terminates, InUserCode, Settles
<1>8. ASSUME InUserCode(p), UNCHANGED vars PROVE Settles(p)
  BY <1>2, <1>8
<1>9. ASSUME InUserCode(p), NEW kill, NEW notify, NEW back,
              Construct(kill, notify, back)
       PROVE  Settles(p)
  <2>1. p # NextPid
    BY <1>0, <1>9, ConstructFresh, RunningIsSpawned DEF ActorsInv, Spawned
  <2>2. waiting'[p] = waiting[p] /\ running' = running
    BY <1>0, <1>9, <2>1 DEF Construct, Constructed
  <2> QED BY <1>9, <2>2 DEF InUserCode, Settles
<1>10. CASE WaitForMessage(p) \/ GetMessage(p)
  BY <1>3, <1>4, <1>5, <1>10 DEF WaitForMessage, GetMessage, Settles
<1>11. CASE MakeListener(p)
  BY <1>11, <1>9 DEF MakeListener, Runs, SpawnLink
<1>12. CASE SpawnSession(p)
  <2>1. CASE SpawnCtorLink(p, peer[p])
    BY <1>9, <2>1 DEF SpawnCtorLink, Calls
  <2>2. CASE SpawnThrows(p, peer[p])
    <3>1. MovesOut(p) /\ waiting'[p] = "done"
      BY <1>0, <2>2, CoroutineEnds DEF SpawnThrows, Ends, memVars
    <3> QED BY <3>1 DEF MovesOut, Settles
  <2> QED BY <1>12, <2>1, <2>2 DEF SpawnSession
<1>13. CASE Listen(p)
  BY <1>0, <1>1, <1>13 DEF Listen, Runs, Park, Settles
<1>14. CASE ListenerThrows(p) \/ SocketEnds(p) \/ Throws(p)
  BY <1>1, <1>14 DEF ListenerThrows, SocketEnds, Throws
<1>15. CASE Announce(p)
  BY <1>6, <1>15 DEF Announce, Runs
<1>16. CASE Forward(p)
  BY <1>0, <1>2, <1>16 DEF Forward, Runs, SendThrottled, Park, Settles
<1>17. CASE Forwarding(p)
  <2>1. ASSUME WaitForRoom(p) PROVE Settles(p)
    BY <1>0, <2>1 DEF WaitForRoom, InCanQueue, Park, Settles
  <2>2. ASSUME ThrottledSend(p) PROVE Settles(p)
    BY <2>2 DEF ThrottledSend, InCanQueue, Settles
  <2>3. ASSUME CanQueueNull(p) PROVE Settles(p)
    BY <2>3 DEF CanQueueNull, InCanQueue, Settles
  <2> QED BY <1>17, <2>1, <2>2, <2>3 DEF Forwarding
<1>18. CASE ReadOn(p) \/ WriteAwaited(p) \/ Respond(p) \/ Piece(p) \/ EndPieces(p)
  BY <1>1, <1>8, <1>18 DEF ReadOn, WriteAwaited, Respond, Piece, EndPieces, Runs
<1>19. CASE Write(p)
  BY <1>3, <1>4, <1>19 DEF Write
<1>20. CASE SocketWaits(p) \/ AwaitWrite(p)
  BY <1>0, <1>8, <1>20 DEF SocketWaits, AwaitWrite, MayTake, AtWrites, Runs, Park, Settles
<1>21. CASE InitRecvSocket(p)
  BY <1>1, <1>6, <1>21 DEF InitRecvSocket, Runs
<1>22. CASE Parse(p)
  BY <1>1, <1>8, <1>22 DEF Parse, Runs
<1>23. CASE GetResponse(p) \/ NextPiece(p)
  BY <1>5, <1>8, <1>23 DEF GetResponse, NextPiece, Runs, Settles
<1>24. CASE Clear(p)
  <2>1. InUserCode(p)
    BY <1>24 DEF Clear, Runs
  <2> QED BY <1>6, <1>7, <1>8, <1>24, <2>1 DEF Clear
<1> QED BY <1>10, <1>11, <1>12, <1>13, <1>14, <1>15, <1>16, <1>17, <1>18, <1>19, <1>20,
           <1>21, <1>22, <1>23, <1>24 DEF WwwStep

\* What a step does to the wait of a process that is not running.
LEMMA OthersWait ==
  ASSUME ActorsInv, ServerStep, NEW q \in Pids, running # q
  PROVE  \/ waiting'[q] = waiting[q] /\ (InTable(processes', q) => InTable(processes, q))
         \/ running' = q /\ waiting'[q] = "none"
         \/ waiting'[q] = "start"
<1> DEFINE Same == /\ waiting'[q] = waiting[q]
                   /\ InTable(processes', q) => InTable(processes, q)
<1> USE DEF tableVars, procVars, rest
<1>0. TypeOK /\ Table /\ DOMAIN waiting = Pids
  BY DEF ActorsInv, SchedulerInv, TypeOK
<1>1. CASE [Next]_vars
  BY <1>1, WaitSteps
<1>2. CASE Besides
  <2>1. ASSUME NEW p \in Pids, Reports(p) PROVE Same
    BY <2>1 DEF Reports
  <2>2. ASSUME NEW p \in Pids, NEW w, Pauses(p, w) PROVE Same
    BY <1>0, <2>2 DEF Pauses, Park
  <2>3. CASE Terminates \/ RunOneWaits
    BY <2>3 DEF Terminates, RunOneWaits
  <2>4. CASE SendThrottled(running, NoPid)
    BY <1>0, <2>4 DEF SendThrottled, Park
  <2> QED BY <1>2, <2>1, <2>2, <2>3, <2>4 DEF Besides
<1>3. ASSUME NEW to, NEW body, Tells(to, body) PROVE Same
  BY <1>3 DEF Tells, Posts
<1>4. ASSUME NEW p \in asks, Accept(p) PROVE Same \/ waiting'[q] = "start"
  <2>1. /\ \A r \in Pids : InTable(processes', r) <=> InTable(processes, r) \/ r = NextPid
        /\ waiting' = [waiting EXCEPT ![NextPid] = "start"]
    BY <1>0, <1>4, ConstructedFresh DEF Accept, Constructed, memVars
  <2> QED BY <1>0, <2>1
<1> QED BY <1>1, <1>2, <1>3, <1>4 DEF ServerStep

\* A step that spawns nobody leaves who is not running where it is.
LEMMA OthersHere ==
  ASSUME ActorsInv, WwwInv, [WwwNext]_allVars, NEW q \in Pids, running # q, ~Hires
  PROVE  role' = role /\ pc'[q] = pc[q]
<1> USE DEF wwwVars
<1>0. WwwTypes
  BY DEF WwwInv
<1>1. CASE Elsewhere
  BY <1>1 DEF Elsewhere, Handles, AcceptFails, ReadCompletes, WriteCompletes,
              RunOneWaits, DeleteProcess, Terminates
<1>2. ASSUME NEW p \in Pids, p = running, WwwStep(p),
             ~MakeListener(p), ~(SpawnSession(p) /\ Found(processes, peer[p]))
      PROVE  role' = role /\ pc'[q] = pc[q]
  <2>1. CASE UNCHANGED <<role, pc>>
    BY <2>1
  <2>2. ASSUME role' = role, \E l : GoOn(p, l) PROVE role' = role /\ pc'[q] = pc[q]
    BY <1>0, <1>2, <2>2 DEF GoOn, WwwTypes
  <2>3. CASE GetMessage(p) \/ Listen(p) \/ Announce(p) \/ Forward(p) \/ ReadOn(p)
    BY <2>1, <2>2, <2>3 DEF GetMessage, Listen, Announce, Forward, ReadOn
  <2>6. CASE AwaitWrite(p) \/ WriteAwaited(p) \/ Write(p)
    BY <2>2, <2>6 DEF AwaitWrite, WriteAwaited, Write, CheckExcept
  <2>4. CASE InitRecvSocket(p) \/ Parse(p) \/ GetResponse(p) \/ Respond(p)
             \/ NextPiece(p)
    BY <2>1, <2>2, <2>4 DEF InitRecvSocket, Parse, GetResponse, Respond, NextPiece
  <2>5. CASE Piece(p) \/ EndPieces(p) \/ Clear(p)
    BY <2>1, <2>2, <2>5 DEF Piece, EndPieces, Clear, Terminates
  <2> QED BY <1>2, <2>1, <2>3, <2>4, <2>5, <2>6
          DEF WwwStep, WaitForMessage, SpawnSession, ListenerThrows, SocketEnds,
              Throws, Forwarding, SocketWaits
<1> QED BY <1>1, <1>2, WwwCases

\* ... and to its class and its coroutine.
LEMMA OthersStay ==
  ASSUME ActorsInv, WwwInv, [WwwNext]_allVars, NEW q \in Pids, running # q
  PROVE  \/ role'[q] = role[q] /\ (role[q] # "none" => pc'[q] = pc[q])
         \/ waiting'[q] = "start"
<1> USE DEF wwwVars
<1>0. WwwTypes /\ TypeOK /\ DOMAIN waiting = Pids /\ asks \subseteq Pids
  BY DEF WwwInv, WwwTypes, ActorsInv, SchedulerInv, TypeOK
<1>1. CASE Hires
  <2>1. PICK n : n = NextPid /\ n \in Pids /\ role[n] = "none"
    BY <1>1, HiresEnters, EntersFresh
  <2>2. PICK r, b, p, l, kill, back :
          /\ p \in Pids /\ Enters(r, b, p, l, kill, back)
          /\ p = n \/ p = running \/ l = pc[p]
    BY <1>0, <1>1, <2>1 DEF Hires
  <2>3. /\ role' = [role EXCEPT ![n] = r] /\ pc' = [pc EXCEPT ![n] = "start", ![p] = l]
        /\ waiting' = [waiting EXCEPT ![n] = "start"]
    BY <2>1, <2>2 DEF Enters, Becomes, Constructed
  <2>4. CASE q = n
    BY <1>0, <2>3, <2>4
  <2>5. CASE q # n
    BY <1>0, <2>1, <2>2, <2>3, <2>5 DEF WwwTypes
  <2> QED BY <2>4, <2>5
<1> QED BY <1>1, OthersHere

LEMMA PoisedNext ==
  ASSUME ActorsInv, WwwInv, [WwwNext]_allVars, NEW q \in Pids, Poised(q)
  PROVE  Poised(q)'
<1>0. RolesStay
  BY RolesAreKept
<1>1. CASE running = q
  <2>1. CASE UNCHANGED allVars
    BY <2>1 DEF allVars, vars, loopVars, tableVars, procVars, wwwVars, Poised
  <2>2. CASE WwwStep(q)
    <3>1. Settles(q)
      BY <1>1, <2>2, RunnerSettles
    <3>2. AwaitWrite(q) \/ SocketWaits(q) => role[q] = "socket"
      BY DEF AwaitWrite, SocketWaits, MayTake, AtWrites, Runs
    <3> QED BY <1>0, <3>1, <3>2 DEF Settles, RolesStay, Poised
  <2> QED BY <1>1, <2>1, <2>2, RunnerActs
<1>2. CASE running # q
  <2>1. CASE waiting'[q] = "start"
    BY <2>1 DEF Poised
  <2>2. CASE waiting'[q] # "start"
    <3>1. role'[q] = role[q] /\ (role[q] # "none" => pc'[q] = pc[q])
      BY <1>2, <2>2, OthersStay
    <3>2. CASE running' = q /\ waiting'[q] = "none"
      BY <3>2 DEF Poised
    <3>3. CASE /\ waiting'[q] = waiting[q]
               /\ InTable(processes', q) => InTable(processes, q)
      BY <1>2, <3>1, <3>3, CrashIsFinal DEF Poised
    <3> QED BY <1>2, <2>2, <3>2, <3>3, OthersWait, WwwActs
  <2> QED BY <2>1, <2>2
<1> QED BY <1>1, <1>2

-----------------------------------------------------------------------------
(* What the handlers leave to a socket *)

\* Only a socket in its loop has handlers.  p_ is set as soon as they leave an error,
\* and the continuation of a socket that waits is then in the io_service; a socket
\* that waits without it has nothing to forward, and waits for its write or for
\* buffers.
Heeds(p) ==
  /\ role[p] # "socket" \/ pc[p] \in {"start", "recv"} => sock[p] = {}
  /\ role[p] = "socket" /\ pc[p] \in {"start", "recv"} => p \notin asks
  /\ pc[p] # "thrown" /\ "except_" \in sock[p] => "p_" \in sock[p]
  /\ role[p] = "socket" /\ Suspended(p) /\ OnPromise(p) =>
       IF "p_" \in sock[p] THEN Has(ready, Continuation(p, resumes[p]))
       ELSE /\ sock[p] \subseteq {"isWriting"}
            /\ waiting[p] = "always" => "isWriting" \in sock[p]

\* A process that is suspended and stays so keeps its continuation.
LEMMA RecallStays ==
  ASSUME ActorsInv, WwwInv, ServerStep, NEW q \in Pids, running # q, running' # q,
         waiting'[q] \in {"timedRecv", "always"}, InTable(processes', q)
  PROVE  /\ InTable(processes, q) /\ UNCHANGED <<waiting[q], resumes[q]>>
         /\ Has(ready, Continuation(q, resumes[q])) =>
              Has(ready', Continuation(q, resumes[q]))
<1> DEFINE h == Continuation(q, resumes[q])
<1> USE DEF tableVars, procVars, ioVars, rest
<1>0. /\ TypeOK /\ Table /\ DOMAIN waiting = Pids /\ DOMAIN resumes = Pids
      /\ q # NoPid /\ resumes[q] \in Nat
  BY PidFields DEF ActorsInv, SchedulerInv, TypeOK
<1>1. InTable(processes, q) /\ waiting'[q] = waiting[q]
  BY OthersWait
<1>2. Live(q) /\ q \notin freed
  BY <1>0, <1>1 DEF InTable, Indices, Live, Table, TableInv, Owned
<1>3. h \in Handlers /\ h.kind = "continuation" /\ h.pid = q /\ h.resumes = resumes[q]
  BY <1>0, HandlerTypes DEF Continuation
<1> HIDE DEF h
<1>4. CASE [Next]_vars
  <2>1. resumes'[q] = resumes[q]
    <3>1. CASE Creates
      <4>1. PICK n \in Pids : ~Spawned(n) /\ resumes' = [resumes EXCEPT ![n] = 0]
        BY <1>4, <3>1, CreatesRunnable
      <4>2. n # q
        BY <1>1, <4>1 DEF Spawned, Known
      <4> QED BY <1>0, <4>1, <4>2
    <3>2. CASE Keeps \/ Drops
      BY <3>2 DEF Keeps, Drops
    <3>3. ASSUME NEW p \in Pids, NEW w, RunsOn(p) \/ Stops(p, w)
          PROVE  resumes'[q] = resumes[q]
      BY <3>3 DEF RunsOn, Stops
    <3>4. ASSUME NEW p \in Pids, Starts(p) PROVE resumes'[q] = resumes[q]
      BY <1>0, <3>4 DEF Starts
    <3> QED BY <1>4, <3>1, <3>2, <3>3, <3>4, StepWakes DEF QueueStep
  <2>2. ~RunsNow(h)
    <3> SUFFICES ASSUME RunsNow(h) PROVE FALSE
      OBVIOUS
    <3>1. RunContinuation \/ \E r \in Pids : RunReused(r)
      BY <1>3 DEF RunsNow, RunAborted, RunTimer, RunsHandler
    <3>2. CASE RunContinuation
      BY <1>2, <1>3, <3>2 DEF RunsNow, RunContinuation, Continues, BeginResume
    <3>3. ASSUME NEW r \in Pids, RunReused(r) PROVE FALSE
      BY <1>2, <1>3, <3>3 DEF RunsNow, RunReused
    <3> QED BY <3>1, <3>2, <3>3
  <2>3. Has(ready, h) => Has(ready', h)
    BY <1>3, <1>4, <2>2, ReadyStays
  <2> QED BY <1>1, <2>1, <2>3 DEF h
<1>5. CASE Besides
  <2>1. ASSUME NEW p \in Pids, Reports(p) \/ \E w : Pauses(p, w)
        PROVE  resumes' = resumes /\ (Has(ready, h) => Has(ready', h))
    BY <2>1, RecallTypes DEF Reports, Pauses, ActorsInv
  <2>2. CASE Terminates \/ RunOneWaits \/ SendThrottled(running, NoPid)
    <3>1. resumes' = resumes /\ ready' = ready
      BY <2>2 DEF Terminates, RunOneWaits, SendThrottled
    <3> QED BY <1>1, <3>1 DEF h
  <2> QED BY <1>1, <1>5, <2>1, <2>2 DEF Besides, h
<1>6. ASSUME NEW to, NEW body, Tells(to, body)
      PROVE  resumes' = resumes /\ ready' = ready
  BY <1>6 DEF Tells, Posts
<1>7. ASSUME NEW p \in asks, Accept(p)
      PROVE  resumes'[q] = resumes[q] /\ ready' = ready
  <2>2. NextPid # q
    BY <1>0, <1>1, <1>7, ConstructedFresh DEF Accept, Known, memVars
  <2>3. ready' = ready /\ resumes' = [resumes EXCEPT ![NextPid] = 0]
    BY <1>7 DEF Accept, Constructed
  <2> QED BY <1>0, <2>2, <2>3
<1> QED BY <1>1, <1>4, <1>5, <1>6, <1>7 DEF ServerStep, h

\* Whose steps change the members of a socket.
LEMMA MembersStay ==
  ASSUME NEW p \in Pids, WwwStep(p)
  PROVE  sock' = sock \/ ReadOn(p) \/ WriteAwaited(p) \/ Write(p)
<1> USE DEF wwwVars
<1>1. CASE WaitForMessage(p) \/ GetMessage(p) \/ MakeListener(p) \/ SpawnSession(p)
           \/ Listen(p) \/ ListenerThrows(p) \/ Announce(p) \/ SocketEnds(p)
  BY <1>1 DEF WaitForMessage, GetMessage, MakeListener, SpawnSession, Listen,
              ListenerThrows, Announce, SocketEnds
<1>2. CASE Forward(p) \/ Forwarding(p) \/ AwaitWrite(p) \/ SocketWaits(p)
  BY <1>2 DEF Forward, Forwarding, AwaitWrite, SocketWaits
<1>3. CASE InitRecvSocket(p) \/ Parse(p) \/ GetResponse(p) \/ Respond(p)
           \/ NextPiece(p) \/ Piece(p) \/ EndPieces(p) \/ Clear(p) \/ Throws(p)
  BY <1>3 DEF InitRecvSocket, Parse, GetResponse, Respond, NextPiece, Piece,
              EndPieces, Clear, Terminates, Throws
<1> QED BY <1>1, <1>2, <1>3 DEF WwwStep

\* A process that is not running: only its handlers, and its end, change its members.
LEMMA OthersKeep ==
  ASSUME ActorsInv, WwwInv, [WwwNext]_allVars, NEW q \in Pids, running # q
  PROVE  \/ /\ sock'[q] = sock[q] /\ (q \in asks' => q \in asks)
         \/ Handles(q)
         \/ sock'[q] = {} /\ (q \in asks' => q \in asks) /\ ~InTable(processes', q)
<1> USE DEF wwwVars
<1>0. WwwTypes /\ DOMAIN sock = Pids
  BY DEF WwwInv, WwwTypes
<1>1. q \in asks' => q \in asks
  BY AsksSteps
<1>2. CASE Hires
  BY <1>1, <1>2, HiresEnters DEF Enters
<1>3. ASSUME NEW p \in Pids, p = running, WwwStep(p) PROVE sock'[q] = sock[q]
  <2>1. CASE ReadOn(p) \/ WriteAwaited(p) \/ Write(p)
    BY <1>0, <1>3, <2>1 DEF ReadOn, WriteAwaited, Write
  <2> QED BY <1>3, <2>1, MembersStay
<1>4. ASSUME NEW p \in Pids, Handles(p) PROVE sock'[q] = sock[q] \/ Handles(q)
  <2>1. CASE p = q
    BY <1>4, <2>1
  <2>2. CASE p # q
    BY <1>0, <1>4, <2>2 DEF Handles, AcceptFails, ReadCompletes, WriteCompletes, Leaves
  <2> QED BY <2>1, <2>2
<1>5. CASE DeleteProcess
  <2>1. CASE Terminates
    BY <1>1, <2>1 DEF Terminates
  <2>2. CASE FinishDestroy /\ sock' = [sock EXCEPT ![dying] = {}]
    <3>1. CASE q = dying
      <4>1. sock'[q] = {} /\ ~InTable(processes, q) /\ processes' = processes
        BY <1>0, <2>2, <3>1
        DEF FinishDestroy, tableVars, ActorsInv, SchedulerInv, Table, TableInv, Owned
      <4> QED BY <1>1, <4>1
    <3>2. CASE q # dying
      BY <1>0, <1>1, <2>2, <3>2
    <3> QED BY <3>1, <3>2
  <2> QED BY <1>5, <2>1, <2>2 DEF DeleteProcess
<1>6. CASE RunOneWaits \/ UNCHANGED wwwVars
  BY <1>6 DEF RunOneWaits
<1> QED BY <1>1, <1>2, <1>3, <1>4, <1>5, <1>6, WwwCases DEF Elsewhere

\* The handlers of q, which is not running.
LEMMA HandlesHeeds ==
  ASSUME ActorsInv, WwwInv, NEW q \in Pids, Heeds(q), Handles(q)
  PROVE  Heeds(q)'
<1>0. /\ WwwTypes /\ DOMAIN sock = Pids /\ running # q /\ ready \in Seq(Handlers)
      /\ Continuation(q, resumes[q]) \in Handlers
  BY PidFields, HandlerTypes
  DEF WwwInv, WwwTypes, Handles, AcceptFails, ReadCompletes, WriteCompletes, Completes,
      ActorsInv, SchedulerInv, TypeOK
<1> USE DEF tableVars, procVars
<1>1. CASE AcceptFails(q)
  <2>1. role[q] = "listener" /\ UNCHANGED <<role, pc, sock>>
    BY <1>1 DEF AcceptFails, Completes
  <2> QED BY <2>1 DEF Heeds
<1>2. ASSUME NEW ms, Leaves(q, ms), role[q] = "socket", pc[q] \notin {"start", "recv"},
             UNCHANGED <<role, pc, processes, running, waiting, resumes>>
      PROVE  Heeds(q)'
  <2>1. sock'[q] = ms \cup {"p_"}
    BY <1>0, <1>2 DEF Leaves
  <2>2. ASSUME Suspended(q), OnPromise(q)
        PROVE  Has(ready', Continuation(q, resumes[q]))
    <3>1. CASE "p_" \in sock[q]
      BY <1>2, <2>2, <3>1 DEF Heeds, Leaves
    <3>2. CASE "p_" \notin sock[q]
      <4>1. ready' = Append(ready, Continuation(q, resumes[q]))
        BY <1>2, <2>2, <3>2 DEF Leaves
      <4> QED BY <1>0, <4>1, HasAppend
    <3> QED BY <3>1, <3>2
  <2>3. /\ role'[q] = role[q] /\ pc'[q] = pc[q]
        /\ Suspended(q)' => Suspended(q) /\ (OnPromise(q)' => OnPromise(q))
    BY <1>2 DEF Suspended, OnPromise
  <2>4. Has(ready', Continuation(q, resumes[q]))
          => Has(ready, Continuation(q, resumes[q]))'
    BY <1>2 DEF Has, Continuation
  <2> QED BY <1>2, <2>1, <2>2, <2>3, <2>4 DEF Heeds
<1>3. ASSUME NEW e, q \in asks, ReadCompletes(q, e) PROVE Heeds(q)'
  <2>1. role[q] = "socket" /\ pc[q] \notin {"start", "recv"}
    BY <1>3 DEF ReadCompletes, Completes, Heeds
  <2> QED BY <1>2, <1>3, <2>1 DEF ReadCompletes
<1>4. ASSUME NEW es, WriteCompletes(q, es) PROVE Heeds(q)'
  <2>1. role[q] = "socket" /\ pc[q] \notin {"start", "recv"}
    BY <1>4 DEF WriteCompletes, Heeds
  <2> QED BY <1>2, <1>4, <2>1 DEF WriteCompletes
<1> QED BY <1>1, <1>3, <1>4 DEF Handles

\* The others.
LEMMA OthersHeed ==
  ASSUME ActorsInv, WwwInv, [WwwNext]_allVars, NEW q \in Pids, running # q, Heeds(q),
         ~Handles(q)
  PROVE  Heeds(q)'
<1>0. /\ RolesStay /\ WwwTypes /\ TypeOK /\ DOMAIN waiting = Pids
  BY RolesAreKept DEF WwwInv, ActorsInv, SchedulerInv, TypeOK
<1>1. /\ sock'[q] = sock[q] \/ (sock'[q] = {} /\ ~InTable(processes', q))
      /\ q \in asks' => q \in asks
  BY OthersKeep
<1>2. CASE Hires /\ q = NextPid
  <2>1. PICK n : n = NextPid /\ n \in Pids /\ role[n] = "none" /\ ~Spawned(n)
    BY <1>2, HiresEnters, EntersFresh
  <2>2. PICK r, b, p, l, kill, back :
          /\ Enters(r, b, p, l, kill, back) /\ (p = n => l = "start")
    <3>1. \A p \in asks : Spawned(p)
      BY DEF WwwInv, WwwTypes, Holds
    <3> QED BY <1>2, <2>1, <3>1 DEF Hires
  <2>3. sock[q] = {} /\ q \notin asks /\ q = n
    BY <1>2, <2>1 DEF Heeds, WwwInv, Holds
  <2>4. waiting' = [waiting EXCEPT ![n] = "start"]
    BY <2>1, <2>2 DEF Enters, Constructed
  <2>5. ~OnPromise(q)' /\ sock'[q] = {} /\ q \notin asks'
    BY <1>0, <1>1, <2>1, <2>3, <2>4 DEF OnPromise
  <2> QED BY <2>5 DEF Heeds
<1>3. CASE ~(Hires /\ q = NextPid)
  <2>1. /\ role'[q] = role[q] /\ (role[q] # "none" => pc'[q] = pc[q])
    <3>1. CASE Hires
      <4>1. PICK n : n = NextPid /\ n \in Pids /\ role[n] = "none"
        BY <3>1, HiresEnters, EntersFresh
      <4>2. PICK r, b, p, l, kill, back :
              /\ p \in Pids /\ Enters(r, b, p, l, kill, back)
              /\ p = n \/ p = running \/ l = pc[p]
        <5>1. asks \subseteq Pids
          BY <1>0 DEF WwwTypes
        <5> QED BY <3>1, <4>1, <5>1 DEF Hires
      <4>3. /\ role' = [role EXCEPT ![n] = r]
            /\ pc' = [pc EXCEPT ![n] = "start", ![p] = l]
        BY <4>1, <4>2 DEF Enters, Becomes
      <4> QED BY <1>0, <1>3, <3>1, <4>1, <4>2, <4>3 DEF WwwTypes
    <3>2. CASE ~Hires
      BY <3>2, OthersHere
    <3> QED BY <3>1, <3>2
  <2>2. CASE role[q] # "socket"
    BY <1>1, <2>1, <2>2 DEF Heeds
  <2>3. CASE role[q] = "socket"
    <3>1. ASSUME Suspended(q)', OnPromise(q)'
          PROVE  /\ Suspended(q) /\ OnPromise(q) /\ sock'[q] = sock[q]
                 /\ waiting'[q] = waiting[q]
                 /\ Has(ready, Continuation(q, resumes[q]))
                      => Has(ready, Continuation(q, resumes[q]))'
      <4>1. running' # q /\ waiting'[q] \in {"timedRecv", "always"} /\ InTable(processes', q)
        BY <3>1 DEF Suspended, OnPromise
      <4>2. /\ InTable(processes, q) /\ UNCHANGED <<waiting[q], resumes[q]>>
            /\ Has(ready, Continuation(q, resumes[q])) =>
                 Has(ready', Continuation(q, resumes[q]))
        BY <4>1, WwwActs, RecallStays
      <4> QED BY <1>1, <4>1, <4>2 DEF Suspended, OnPromise, Has, Continuation
    <3>2. role'[q] = "socket" /\ pc'[q] = pc[q]
      BY <2>1, <2>3
    <3>3. /\ pc'[q] \in {"start", "recv"} => sock'[q] = {} /\ q \notin asks'
          /\ pc'[q] # "thrown" /\ "except_" \in sock'[q] => "p_" \in sock'[q]
      BY <1>1, <2>3, <3>2 DEF Heeds
    <3> QED BY <2>3, <3>1, <3>2, <3>3 DEF Heeds
  <2> QED BY <2>2, <2>3
<1> QED BY <1>2, <1>3

\* The running process.
LEMMA RunnerHeeds ==
  ASSUME ActorsInv, WwwInv, [WwwNext]_allVars, NEW q \in Pids, running = q, WwwStep(q),
         Heeds(q)
  PROVE  Heeds(q)'
<1> USE DEF wwwVars
<1>0. /\ WwwTypes /\ TypeOK /\ DOMAIN waiting = Pids /\ q # NoPid /\ Settles(q)
      /\ DOMAIN sock = Pids /\ DOMAIN pc = Pids
  BY RunnerSettles, PidFields DEF WwwInv, WwwTypes, ActorsInv, SchedulerInv, TypeOK
<1>1. role'[q] = role[q]
  <2>1. CASE Hires
    <3>1. PICK r, b, p, l, kill, back : Enters(r, b, p, l, kill, back)
      BY <2>1, HiresEnters
    <3>2. NextPid # q
      BY <1>0, <3>1, EntersFresh, RunningIsSpawned DEF ActorsInv
    <3> QED BY <1>0, <3>1, <3>2 DEF Enters, Becomes, WwwTypes
  <2> QED BY <2>1, TieSteps
<1>2. CASE role[q] # "socket"
  <2>1. sock' = sock
    BY <1>2, MembersStay DEF ReadOn, WriteAwaited, Write, Runs
  <2> QED BY <1>1, <1>2, <2>1 DEF Heeds
<1>3. CASE role[q] = "socket"
  <2>1. /\ pc'[q] \in {"start", "recv"} => sock'[q] = {} /\ q \notin asks'
        /\ pc'[q] # "thrown" /\ "except_" \in sock'[q] => "p_" \in sock'[q]
    <3>1. CASE UNCHANGED <<pc, sock, asks>>
      BY <1>3, <3>1 DEF Heeds
    <3>2. CASE GetMessage(q)
      <4>1. pc'[q] = "loop" /\ sock'[q] = {}
        BY <1>0, <1>3, <3>2 DEF GetMessage, GoOn, NextAt, Heeds
      <4> QED BY <4>1
    <3>3. CASE Announce(q)
      <4>1. pc[q] = "start" /\ sock' = sock /\ asks' = asks
        BY <3>3 DEF Announce, Runs
      <4> QED BY <1>3, <4>1 DEF Heeds
    <3>4. CASE Forward(q)
      <4>1. pc[q] = "loop" /\ pc'[q] = "forwarded" /\ sock' = sock
        BY <1>0, <3>4 DEF Forward, Runs, GoOn
      <4> QED BY <1>3, <4>1 DEF Heeds
    <3>5. CASE ReadOn(q)
      <4>1. /\ pc[q] = "forwarded" /\ pc'[q] = "loop"
            /\ sock'[q] = sock[q] \ {"nextRead"}
        BY <1>0, <3>5 DEF ReadOn, Runs, GoOn
      <4> QED BY <1>3, <4>1 DEF Heeds
    <3>6. CASE AwaitWrite(q)
      <4>1. pc[q] = "loop" /\ pc'[q] \in {"loop", "written", "thrown"} /\ sock' = sock
        BY <1>0, <3>6 DEF AwaitWrite, AtWrites, CheckExcept, Runs, GoOn
      <4> QED BY <1>3, <4>1 DEF Heeds
    <3>7. CASE WriteAwaited(q)
      <4>1. /\ pc'[q] = IF "except_" \in sock[q] THEN "thrown" ELSE "loop"
            /\ sock'[q] = sock[q] \ {"p_"}
        BY <1>0, <3>7 DEF WriteAwaited, CheckExcept, Runs, GoOn
      <4> QED BY <4>1
    <3>8. CASE Write(q)
      <4>1. /\ pc'[q] = IF "except_" \in sock[q] THEN "thrown" ELSE "loop"
            /\ sock'[q] \subseteq sock[q] \cup {"isWriting"}
        BY <1>0, <3>8 DEF Write, CheckExcept, GoOn
      <4> QED BY <4>1
    <3>9. CASE WaitForMessage(q) \/ SocketEnds(q) \/ Forwarding(q) \/ SocketWaits(q)
               \/ Throws(q)
      BY <3>1, <3>9 DEF WaitForMessage, SocketEnds, Forwarding, SocketWaits, Throws
    <3>10. ~(\/ MakeListener(q) \/ SpawnSession(q) \/ Listen(q) \/ ListenerThrows(q)
             \/ InitRecvSocket(q) \/ Parse(q) \/ GetResponse(q) \/ Respond(q)
             \/ NextPiece(q) \/ Piece(q) \/ EndPieces(q) \/ Clear(q))
      BY <1>3 DEF MakeListener, SpawnSession, Listen, ListenerThrows, InitRecvSocket,
                  Parse, GetResponse, Respond, NextPiece, Piece, EndPieces, Clear, Runs
    <3> QED BY <3>2, <3>3, <3>4, <3>5, <3>6, <3>7, <3>8, <3>9, <3>10 DEF WwwStep
  <2>2. ASSUME Suspended(q)', OnPromise(q)'
        PROVE  IF "p_" \in sock'[q] THEN Has(ready, Continuation(q, resumes[q]))'
               ELSE /\ sock'[q] \subseteq {"isWriting"}
                    /\ waiting'[q] = "always" => "isWriting" \in sock'[q]
    <3>1. SocketWaits(q) \/ (AwaitWrite(q) /\ waiting'[q] = "always")
      BY <1>0, <1>3, <2>2 DEF Settles, Suspended, OnPromise
    <3>2. AtWrites(q) /\ sock' = sock /\ resumes' = resumes
      BY <3>1 DEF SocketWaits, MayTake, AwaitWrite, vars, procVars
    <3>3. pc[q] = "loop" /\ sock[q] \cap {"eof_", "nextRead"} = {}
      BY <3>2 DEF AtWrites, Runs
    <3>4. "p_" \notin sock[q] => sock[q] \subseteq {"isWriting"}
      BY <1>0, <3>3 DEF Heeds, WwwTypes, Members
    <3>5. CASE SocketWaits(q)
      <4>1. waiting'[q] = "timedRecv"
        BY <1>0, <3>5 DEF SocketWaits, Park
      <4>2. ASSUME "p_" \in sock[q]
            PROVE  Has(ready, Continuation(q, resumes[q]))'
        <5>1. ready \in Seq(Handlers) /\ Continuation(q, resumes[q]) \in Handlers
          BY <1>0, HandlerTypes DEF TypeOK
        <5>2. ready' = Append(ready, Continuation(q, resumes[q]))
          BY <3>5, <4>2 DEF SocketWaits
        <5>3. Has(ready', Continuation(q, resumes[q]))
          BY <5>1, <5>2, HasAppend
        <5> QED BY <3>2, <5>3 DEF Has, Continuation
      <4> QED BY <3>2, <3>4, <4>1, <4>2
    <3>6. CASE AwaitWrite(q) /\ waiting'[q] = "always"
      <4>1. "isWriting" \in sock[q] /\ ("p_" \in sock[q] => waiting' = waiting)
        BY <3>6 DEF AwaitWrite, vars, procVars
      <4>2. "p_" \notin sock[q]
        BY <3>2, <3>6, <4>1 DEF AtWrites, Runs, InUserCode
      <4> QED BY <3>2, <3>4, <4>1, <4>2
    <3> QED BY <3>1, <3>5, <3>6
  <2> QED BY <1>1, <1>3, <2>1, <2>2 DEF Heeds
<1> QED BY <1>2, <1>3

LEMMA HeedsNext ==
  ASSUME ActorsInv, WwwInv, [WwwNext]_allVars, NEW q \in Pids, Heeds(q)
  PROVE  Heeds(q)'
<1>1. CASE UNCHANGED allVars
  BY <1>1 DEF allVars, vars, loopVars, tableVars, procVars, ioVars, wwwVars, Heeds,
              Suspended, OnPromise, Has, Continuation
<1> QED BY <1>1, RunnerActs, RunnerHeeds, HandlesHeeds, OthersHeed

-----------------------------------------------------------------------------
(* Idle means served. *)

\* The loop waits for the io_service only when there is nothing in queue_.
LEMMA WaitsEmpty ==
  ASSUME ActorsInv, WwwInv, [WwwNext]_allVars, at = "wait" => queue = <<>>, at' = "wait"
  PROVE  queue' = <<>>
<1> USE DEF allVars, vars, loopVars, mailVars, rest
<1>1. ASSUME at = "wait", queue' = queue PROVE queue' = <<>>
  BY <1>1
<1>2. ~MainSpawnsServer
  BY DEF MainSpawnsServer, MainSpawn, Construct
<1>3. CASE running # NoPid /\ WwwStep(running)
  <2>1. PICK p \in Pids : p = running /\ at \in {"poll", "destroy"}
    BY <1>3, RunningIsSpawned DEF ActorsInv, SchedulerInv, LoopInv
  <2>2. at' \in {at, "crashed", "poll"}
    <3>1. CASE [Next]_vars
      BY <2>1, <3>1, RunningSteps, ProcessStepFrame DEF ActorsInv, SchedulerInv
    <3>2. CASE Besides
      BY <2>1, <3>2 DEF Besides, Reports, Pauses, Terminates, RunOneWaits,
                        SendThrottled
    <3>3. ASSUME NEW to, NEW body, Tells(to, body) PROVE at' = at
      BY <3>3 DEF Tells, Posts
    <3>4. ASSUME NEW r \in asks, Accept(r) PROVE at' = "poll"
      BY <3>4 DEF Accept, Completes
    <3> QED BY <3>1, <3>2, <3>3, <3>4, WwwActs DEF ServerStep
  <2> QED BY <2>1, <2>2
<1>4. (\A q \in asks : ~Accept(q)) /\ \A q : ~Handles(q)
  BY DEF Accept, Handles, AcceptFails, ReadCompletes, WriteCompletes, Completes
<1>5. RunOneWaits => queue' = <<>>
  BY DEF RunOneWaits
<1>6. ~DeleteProcess
  BY DEF DeleteProcess, Terminates, FinishDestroy, ActorsInv, SchedulerInv, LoopInv
<1>7. CASE ContextStep
  <2>1. ~(Run \/ Exit \/ ProcessMessage \/ ProcessResume \/ EndPoll)
    BY DEF Run, Exit, ProcessMessage, ProcessResume, EndPoll
  <2>2. ~(RunAborted \/ RunTimer \/ RunContinuation \/ HandlerCrashes)
    BY DEF RunAborted, RunTimer, RunContinuation, HandlerCrashes, RunsHandler
  <2>3. ~(DestroyNext \/ DestroyDone)
    BY DEF DestroyNext, DestroyDone
  <2>4. \A q \in Pids : ~KillLinked(q)
    BY DEF KillLinked, ActorsInv, SchedulerInv, LoopInv
  <2>5. \A q \in Pids : TimerExpires(q) => at = "wait" /\ queue' = queue
    BY DEF TimerExpires
  <2> QED BY <1>1, <1>7, <2>1, <2>2, <2>3, <2>4, <2>5 DEF ContextStep
<1> QED BY <1>1, <1>2, <1>3, <1>4, <1>5, <1>6, <1>7 DEF WwwNext, Handles, Terminated

IdleInv ==
  /\ \A p \in Pids : Awaits(p) /\ Poised(p) /\ Heeds(p)
  /\ at = "wait" => queue = <<>>

LEMMA IdleInit == WwwInit => IdleInv
<1> SUFFICES ASSUME WwwInit PROVE IdleInv
  OBVIOUS
<1>1. Indices(processes) = {} /\ at = "main"
  BY DEF WwwInit, Init, Indices
<1>2. \A p \in Pids : waiting[p] = "start" /\ ~InTable(processes, p)
  BY <1>1 DEF WwwInit, Init, InTable
<1>3. \A p \in Pids : Heeds(p)
  BY <1>2 DEF WwwInit, Heeds, OnPromise
<1> QED BY <1>1, <1>2, <1>3 DEF IdleInv, Awaits, Poised, InTurn, Suspended

LEMMA IdleNext ==
  ASSUME ActorsInv, WwwInv, IdleInv, [WwwNext]_allVars
  PROVE  IdleInv'
<1>1. \A p \in Pids : Awaits(p)'
  BY WwwActs, SocketsAreApart, AwaitsNext DEF IdleInv
<1>2. \A p \in Pids : Poised(p)'
  BY PoisedNext DEF IdleInv
<1>3. \A p \in Pids : Heeds(p)'
  BY HeedsNext DEF IdleInv
<1>4. at' = "wait" => queue' = <<>>
  BY WaitsEmpty DEF IdleInv
<1> QED BY <1>1, <1>2, <1>3, <1>4 DEF IdleInv

\* When the loop waits for the clients only, a session in the table waits for data
\* and has none, ...
LEMMA IdleSession ==
  ASSUME ActorsInv, WwwInv, IdleInv, at = "wait", ready = <<>>, timers = {},
         NEW p \in Pids, role[p] = "session", Live(p)
  PROVE  /\ waiting[p] = "recv" /\ Size(mq[p]) = 0
         /\ Len(log.answers[p]) = log.requests[p]
<1>0. /\ InTable(processes, p) /\ running # p /\ Awaits(p) /\ Poised(p)
      /\ Indices(queue) = {} /\ Indices(ready) = {}
  BY PidFields DEF Live, InTable, Indices, IdleInv, ActorsInv, SchedulerInv, LoopInv
<1>1. ~Has(queue, ResumeItem(p, resumes[p])) /\ ~Has(ready, TimerHandler(p))
  BY <1>0 DEF Has
<1>2. waiting[p] \notin {"start", "none", "done", "sleep"}
  BY <1>0, <1>1 DEF Awaits, Poised, InTurn, Runnable, Suspended
<1>3. waiting[p] = "recv" /\ pc[p] = "recv"
  BY <1>0, <1>2 DEF Poised
<1>4. Size(mq[p]) = 0
  <2>1. /\ Contents(mq[p]) = <<>> /\ WellFormed(mq[p])
        /\ mq[p] \in Queues(Messages, Handlers)
    BY <1>0, <1>3, MailTypes
    DEF Awaits, Suspended, RecvWaits, ActorsInv, SchedulerInv, MailInv
  <2> QED BY <2>1, QueueLength
<1>5. Progress(p)
  BY DEF WwwInv, Answered
<1> QED BY <1>3, <1>4, <1>5 DEF Progress

\* ... and a socket waits for its handlers, which have left it nothing: what would
\* hold it back is a session with messages.
LEMMA IdleSocket ==
  ASSUME ActorsInv, WwwInv, IdleInv, at = "wait", ready = <<>>, timers = {},
         NEW p \in Pids, role[p] = "socket", Live(p)
  PROVE  /\ waiting[p] # "future" /\ sock[p] \subseteq {"isWriting"}
         /\ Size(mq[p]) > 0 => "isWriting" \in sock[p]
<1>0. /\ InTable(processes, p) /\ running # p /\ Awaits(p) /\ Poised(p) /\ Heeds(p)
      /\ Indices(queue) = {} /\ Indices(ready) = {} /\ kThrottle \in Nat \ {0}
  BY PidFields, ThrottleAssumption
  DEF Live, InTable, Indices, IdleInv, ActorsInv, SchedulerInv, LoopInv
<1>1. PICK b, h : b = sending[p] /\ h = Continuation(p, resumes[p])
  OBVIOUS
<1>2. ~Has(queue, ResumeItem(p, resumes[p])) /\ ~Has(ready, h)
  BY <1>0 DEF Has
<1>3. waiting[p] # "future"
  <2> SUFFICES ASSUME waiting[p] = "future" PROVE FALSE
    OBVIOUS
  <2>1. b \in Pids /\ b \notin freed /\ ShouldThrottle(mq[b])
    BY <1>0, <1>1, <1>2 DEF Awaits, Wakeable, FullSlot, FullBox
  <2>2. role[b] = "session" /\ Spawned(b)
    BY <1>1, <2>1, PidFields DEF WwwInv, Holds, Is
  <2>3. Live(b)
    BY <2>1, <2>2, BetweenTurns
  <2>4. Size(mq[b]) = 0
    BY <2>1, <2>2, <2>3, IdleSession
  <2> QED BY <1>0, <2>1, <2>4 DEF ShouldThrottle
<1>4. Suspended(p) /\ waiting[p] \in {"recv", "timedRecv", "always"}
  <2>1. waiting[p] \notin {"start", "yield", "none", "done", "sleep"}
    BY <1>0, <1>2 DEF Awaits, Poised, InTurn, Runnable
  <2>2. waiting[p] \in {"start", "none", "done", "yield", "recv",
                        "timedRecv", "sleep", "always", "future"}
    BY DEF ActorsInv, SchedulerInv, TypeOK
  <2> QED BY <1>0, <1>3, <2>1, <2>2 DEF Suspended
<1>5. CASE waiting[p] \in RecvWaits
  <2>1. /\ Contents(mq[p]) = <<>> /\ WellFormed(mq[p])
        /\ mq[p] \in Queues(Messages, Handlers)
    BY <1>0, <1>4, <1>5, MailTypes DEF Awaits, ActorsInv, SchedulerInv, MailInv
  <2>2. Size(mq[p]) = 0
    BY <2>1, QueueLength
  <2>3. sock[p] \subseteq {"isWriting"}
    BY <1>0, <1>1, <1>2, <1>4, <1>5 DEF Heeds, Poised, OnPromise, RecvWaits
  <2> QED BY <1>3, <2>2, <2>3
<1>6. CASE waiting[p] = "always"
  BY <1>0, <1>1, <1>2, <1>3, <1>4, <1>6 DEF Heeds, OnPromise
<1> QED BY <1>4, <1>5, <1>6 DEF RecvWaits

\* When Context::run() waits for the clients only, nothing is left to do: every session
\* has answered all it has parsed and waits in recv(), no socket is held back in
\* sendThrottled(), none has overlooked data, an end of file, an error or a p_ its
\* handlers have left it, and buffers stay in a slot only while the async_write before
\* them is in progress.  No wakeup is lost on the way: a message finds its receiver
\* waiting (processQueueItem), a sleep has its timer, a spawn or a yield its resume in
\* queue_, the promise of a full slot the continuation of the one socket that sends
\* to it, and a handler the continuation of a socket that waits for p_.
THEOREM IdleServerHasServed == WwwSpec => []IdleMeansServed
<1>1. ActorsInv /\ WwwInv /\ IdleInv => IdleMeansServed
  <2> SUFFICES ASSUME ActorsInv, WwwInv, IdleInv, at = "wait", ready = <<>>,
                      timers = {}, NEW p \in Pids, Live(p)
               PROVE  /\ role[p] = "session" =>
                           /\ Len(log.answers[p]) = log.requests[p]
                           /\ waiting[p] = "recv" /\ Size(mq[p]) = 0
                      /\ role[p] = "socket" =>
                           /\ waiting[p] # "future"
                           /\ sock[p] \subseteq {"isWriting"}
                           /\ Size(mq[p]) > 0 => "isWriting" \in sock[p]
    BY DEF IdleMeansServed, Of
  <2> QED BY IdleSession, IdleSocket
<1>2. ActorsInv /\ WwwInv /\ IdleInv /\ [WwwNext]_allVars => IdleInv'
  BY IdleNext
<1> QED BY <1>1, <1>2, IdleInit, WwwCorrect, PTL DEF WwwSpec

=============================================================================
