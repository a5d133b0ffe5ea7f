---------------------------- MODULE ContextProofs ----------------------------
(***************************************************************************)
(* Theorems about module Context, for every value of its constants.         *)
(***************************************************************************)
EXTENDS ContextProperties, MessageQueueProofs

\* Replacing an entry of a sequence, in range or not, keeps its type.
LEMMA ExceptInSeq ==
  ASSUME NEW S, NEW s \in Seq(S), NEW i, NEW v \in S
  PROVE  [s EXCEPT ![i] = v] \in Seq(S)
<1>1. CASE i \in 1..Len(s)
  BY <1>1, ExceptSeq
<1>2. CASE i \notin 1..Len(s)
  <2>1. [s EXCEPT ![i] = v] = s
    BY <1>2, LenProperties
  <2> QED BY <2>1
<1> QED BY <1>1, <1>2

LEMMA PidFields ==
  ASSUME NEW p \in Pids
  PROVE  p.idx \in 1..MaxProcs /\ p.ver \in 0..MaxVersion /\ p # NoPid
BY BoundsAssumption DEF Pids, NoPid

\* What findProc() finds is a process.
LEMMA FoundIsPid ==
  ASSUME NEW procs \in Seq(PidOrNone), NEW p \in Pids, Found(procs, p)
  PROVE  procs[p.idx] \in Pids /\ p.idx \in 1..Len(procs)
<1>1. p.idx \in Nat /\ p.idx >= 1 /\ Len(procs) \in Nat
  BY PidFields, LenProperties, BoundsAssumption
<1>2. p.idx \in 1..Len(procs)
  BY <1>1 DEF Found
<1>3. procs[p.idx] \in PidOrNone
  BY <1>2, ElementOfSeq
<1> QED BY <1>2, <1>3 DEF Found, PidOrNone

LEMMA NextPidTypes ==
  ASSUME TypeOK
  PROVE  /\ NextPidProcesses \in Seq(PidOrNone)
         /\ NextPidTombstones \in Seq(Pids)
<1>1. NextPidProcesses \in Seq(PidOrNone)
  BY AppendProperties DEF TypeOK, NextPidProcesses, PidOrNone
<1>2. NextPidTombstones \in Seq(Pids)
  <2>1. CASE tombstones = <<>>
    BY <2>1 DEF NextPidTombstones
  <2>2. CASE tombstones # <<>>
    <3>1. tombstones \in Seq(Pids) /\ Len(tombstones) \in Nat
      BY LenProperties DEF TypeOK
    <3>2. \A i \in 1..(Len(tombstones) - 1) : tombstones[i] \in Pids
      BY <3>1, ElementOfSeq
    <3>3. SubSeq(tombstones, 1, Len(tombstones) - 1) \in Seq(Pids)
      BY <3>1, <3>2, SubSeqProperties
    <3> QED BY <2>2, <3>3 DEF NextPidTombstones
  <2> QED BY <2>1, <2>2
<1> QED BY <1>1, <1>2

LEMMA AddToDestroyTypes ==
  ASSUME NEW p \in Pids, NEW procs \in Seq(PidOrNone), NEW tombs \in Seq(Pids),
         toDestroy \in Seq(Pids), AddToDestroy(p, procs, tombs)
  PROVE  /\ processes' \in Seq(PidOrNone)
         /\ tombstones' \in Seq(Pids) /\ toDestroy' \in Seq(Pids)
<1>1. [procs EXCEPT ![p.idx] = NoPid] \in Seq(PidOrNone)
  BY ExceptInSeq DEF PidOrNone
<1>2. Append(tombs, p) \in Seq(Pids) /\ Append(toDestroy, p) \in Seq(Pids)
  BY AppendProperties
<1> QED BY <1>1, <1>2 DEF AddToDestroy, MovedOut, Buried

LEMMA HandlerTypes ==
  ASSUME NEW p \in Pids, NEW n \in Nat
  PROVE  /\ Continuation(p, n) \in Handlers /\ TimerHandler(p) \in Handlers
         /\ CancelPosts(p) \in Seq(Handlers)
<1>1. Continuation(p, n) \in Handlers /\ TimerHandler(p) \in Handlers
  BY DEF Continuation, TimerHandler, Handlers
<1>2. AbortedHandler(p) \in Handlers
  BY DEF AbortedHandler, Handlers
<1>3. CancelPosts(p) \in Seq(Handlers)
  BY <1>2 DEF CancelPosts
<1> QED BY <1>1, <1>3

LEMMA ItemTypes ==
  ASSUME NEW p \in Pids, NEW n \in Nat, NEW body \in PidOrNone
  PROVE  /\ ResumeItem(p, n) \in Items
         /\ MessageItem(Message(p, body, n)) \in Items
BY DEF ResumeItem, MessageItem, Message, Items, Messages, NoMessage, PidOrNone

\* resume() up to the user code keeps the types.
LEMMA BeginResumeTypes ==
  ASSUME TypeOK, NEW t \in Pids,
         NEW boxes \in [Pids -> Queues(Messages, Handlers)],
         NEW handlers \in Seq(Handlers),
         NEW bad \in SUBSET {"nullProcess", "freedProcess", "freedPromise"},
         BeginResume(t, boxes, handlers, bad)
  PROVE  /\ running' \in PidOrNone /\ resumes' \in [Pids -> Nat]
         /\ waiting' \in [Pids -> {"start", "none", "done", "yield", "recv",
                                   "timedRecv", "sleep", "always", "future"}]
         /\ timers' \in SUBSET Pids /\ ready' \in Seq(Handlers)
         /\ mq' \in [Pids -> Queues(Messages, Handlers)]
         /\ ub' \in SUBSET {"nullProcess", "freedProcess", "freedPromise"}
<1>1. running' \in PidOrNone /\ resumes' \in [Pids -> Nat]
  BY DEF BeginResume, TypeOK, PidOrNone
<1>2. waiting' \in [Pids -> {"start", "none", "done", "yield", "recv",
                             "timedRecv", "sleep", "always", "future"}]
  BY DEF BeginResume, TypeOK
<1>3. timers' \in SUBSET Pids
  BY DEF BeginResume, TypeOK, Cancelled
<1>4. ready' \in Seq(Handlers)
  BY HandlerTypes, ConcatProperties DEF BeginResume
<1>5. mq' \in [Pids -> Queues(Messages, Handlers)]
  <2>1. CASE waiting[t] = "future" /\ sending[t] \in Pids
    <3>1. boxes[sending[t]] \in Queues(Messages, Handlers)
      BY <2>1
    <3>2. Process(boxes[sending[t]].p_) \in Promises(Handlers)
      BY <3>1, SetTypes DEF Queues
    <3>3. [boxes[sending[t]] EXCEPT !.p_ = Process(@)]
            \in Queues(Messages, Handlers)
      BY <3>1, <3>2 DEF Queues
    <3> QED BY <2>1, <3>3 DEF BeginResume
  <2>2. CASE waiting[t] # "future"
    BY <2>2 DEF BeginResume
  <2>3. CASE waiting[t] = "future" /\ sending[t] \notin Pids
    BY <2>3 DEF BeginResume
  <2> QED BY <2>1, <2>2, <2>3
<1>6. ub' \in SUBSET {"nullProcess", "freedProcess", "freedPromise"}
  BY DEF BeginResume, TypeOK
<1> QED BY <1>1, <1>2, <1>3, <1>4, <1>5, <1>6

\* Init has the types, and every step keeps them.
LEMMA TypeInit == Init => TypeOK
<1> SUFFICES ASSUME Init PROVE TypeOK
  OBVIOUS
<1>1. NewQueue \in Queues(Messages, Handlers)
  BY DEF NewQueue, NewPromise, Promises, Queues
<1>2. mq \in [Pids -> Queues(Messages, Handlers)]
  BY <1>1 DEF Init
<1>3. /\ resumes \in [Pids -> Nat] /\ sending \in [Pids -> PidOrNone]
      /\ waiting \in [Pids -> {"start", "none", "done", "yield", "recv",
                               "timedRecv", "sleep", "always", "future"}]
      /\ killOnDie \in [Pids -> SUBSET Pids]
      /\ notifyOnDie \in [Pids -> PidOrNone]
  BY DEF Init, PidOrNone
<1>4. /\ processes \in Seq(PidOrNone) /\ tombstones \in Seq(Pids)
      /\ toDestroy \in Seq(Pids) /\ queue \in Seq(Items)
      /\ ready \in Seq(Handlers)
  BY DEF Init
<1> QED BY <1>2, <1>3, <1>4 DEF Init, TypeOK, PidOrNone

\* spawnArgs(), wherever it is called from.
LEMMA ConstructedTypes ==
  ASSUME TypeOK, NEW kill \in SUBSET Pids, NEW notify \in PidOrNone,
         NEW back, Constructed(kill, notify, back),
         at' \in {at, "poll"},
         UNCHANGED <<running, dying, kills, toDestroy, sends, noticed, ioVars,
                     memVars>>
  PROVE  TypeOK'
<1> DEFINE n == NextPid
<1>1. n \in Pids
  BY DEF Constructed
<1> HIDE DEF n
<1>2. processes' \in Seq(PidOrNone) /\ tombstones' \in Seq(Pids)
  BY <1>1, NextPidTypes, ExceptInSeq DEF Constructed, PidOrNone, n
<1>3. /\ resumes' \in [Pids -> Nat] /\ sending' \in [Pids -> PidOrNone]
      /\ waiting' \in [Pids -> {"start", "none", "done", "yield", "recv",
                                "timedRecv", "sleep", "always", "future"}]
      /\ notifyOnDie' \in [Pids -> PidOrNone]
  BY <1>1 DEF Constructed, TypeOK, PidOrNone, n
<1>4. mq' \in [Pids -> Queues(Messages, Handlers)]
  <2>1. NewQueue \in Queues(Messages, Handlers)
    BY DEF NewQueue, NewPromise, Promises, Queues
  <2> QED BY <1>1, <2>1 DEF Constructed, TypeOK, n
<1>5. killOnDie' \in [Pids -> SUBSET Pids]
  BY <1>1 DEF Constructed, TypeOK, n
<1>6. queue' \in Seq(Items)
  BY <1>1, ItemTypes, AppendProperties DEF Constructed, TypeOK, n
<1> QED BY <1>2, <1>3, <1>4, <1>5, <1>6
        DEF Constructed, TypeOK, ioVars, memVars

LEMMA ConstructTypes ==
  ASSUME TypeOK, NEW kill \in SUBSET Pids, NEW notify \in PidOrNone,
         NEW back, Construct(kill, notify, back)
  PROVE  TypeOK'
BY ConstructedTypes DEF Construct, loopVars

LEMMA EndsTypes ==
  ASSUME TypeOK, NEW p \in Pids, NEW procs \in Seq(PidOrNone),
         NEW tombs \in Seq(Pids), Ends(p, procs, tombs)
  PROVE  /\ processes' \in Seq(PidOrNone) /\ tombstones' \in Seq(Pids)
         /\ toDestroy' \in Seq(Pids) /\ running' \in PidOrNone
         /\ waiting' \in [Pids -> {"start", "none", "done", "yield", "recv",
                                   "timedRecv", "sleep", "always", "future"}]
<1>1. /\ processes' \in Seq(PidOrNone) /\ tombstones' \in Seq(Pids)
      /\ toDestroy' \in Seq(Pids)
  BY AddToDestroyTypes DEF Ends, TypeOK
<1> QED BY <1>1 DEF Ends, TypeOK, PidOrNone

LEMMA TakeMessageTypes ==
  ASSUME TypeOK, NEW p \in Pids, Size(mq[p]) > 0, TakeMessage(p)
  PROVE  /\ mq' \in [Pids -> Queues(Messages, Handlers)]
         /\ ready' \in Seq(Handlers) /\ noticed' \in SUBSET Pids
<1>1. mq[p] \in Queues(Messages, Handlers)
  BY DEF TypeOK
<1>2. NoMessage.stamp = 0 /\ Messages # {}
  <2>1. Message(p, p, 0) \in Messages
    BY DEF Message, Messages
  <2> QED BY <2>1 DEF NoMessage
<1>3. Pop(mq[p]) \in Queues(Messages, Handlers) /\ PopPosts(mq[p]) \in Seq(Handlers)
  BY <1>1, <1>2, QueueTypes
<1>4. Oldest(mq[p]) \in Messages
  <2>1. mq[p].stackStorage \in Seq(Messages) /\ mq[p].stackStorage # <<>>
    BY <1>1 DEF Queues, Size
  <2>2. 1 \in 1..Len(mq[p].stackStorage)
    BY <2>1, EmptySeq
  <2> QED BY <2>1, <2>2, ElementOfSeq DEF Oldest
<1>5. Oldest(mq[p]).body \in PidOrNone
  BY <1>4 DEF Messages, PidOrNone
<1>6. mq' \in [Pids -> Queues(Messages, Handlers)]
  BY <1>3 DEF TakeMessage, TypeOK
<1>7. ready' \in Seq(Handlers)
  BY <1>3, ConcatProperties DEF TakeMessage, TypeOK
<1>8. noticed' \in SUBSET Pids
  BY <1>5 DEF TakeMessage, TypeOK, PidOrNone
<1> QED BY <1>6, <1>7, <1>8

LEMMA NoResumeTypes ==
  ASSUME TypeOK, NEW boxes \in [Pids -> Queues(Messages, Handlers)],
         NEW handlers \in Seq(Handlers),
         NEW bad \in SUBSET {"nullProcess", "freedProcess", "freedPromise"},
         NoResume(boxes, handlers, bad)
  PROVE  /\ running' \in PidOrNone /\ resumes' \in [Pids -> Nat]
         /\ waiting' \in [Pids -> {"start", "none", "done", "yield", "recv",
                                   "timedRecv", "sleep", "always", "future"}]
         /\ timers' \in SUBSET Pids /\ ready' \in Seq(Handlers)
         /\ mq' \in [Pids -> Queues(Messages, Handlers)]
         /\ ub' \in SUBSET {"nullProcess", "freedProcess", "freedPromise"}
BY DEF NoResume, TypeOK

\* A step of the running process keeps the types.
LEMMA ProcessStepTypes ==
  ASSUME TypeOK, NEW p \in Pids, ProcessStep(p)
  PROVE  TypeOK'
<1> USE DEF loopVars, tableVars, procVars, linkVars, mailVars, ioVars, memVars
<1>1. CASE Spawn(p) \/ SpawnLink(p) \/ SpawnLinkNotify(p)
  <2>1. {} \in SUBSET Pids /\ {p} \in SUBSET Pids /\ NoPid \in PidOrNone
        /\ p \in PidOrNone
    BY DEF PidOrNone
  <2> QED BY <1>1, <2>1, ConstructTypes DEF Spawn, SpawnLink, SpawnLinkNotify
<1>2. ASSUME NEW b \in Pids, SpawnCtorLink(p, b) PROVE TypeOK'
  <2>1. {b} \in SUBSET Pids /\ NoPid \in PidOrNone
    BY DEF PidOrNone
  <2> QED BY <1>2, <2>1, ConstructTypes DEF SpawnCtorLink
<1>3. ASSUME NEW b \in Pids, SpawnThrows(p, b) PROVE TypeOK'
  BY <1>3, EndsTypes, NextPidTypes DEF SpawnThrows, TypeOK
<1>4. ASSUME NEW b \in Pids, Link(p, b) PROVE TypeOK'
  <2>1. killOnDie' \in [Pids -> SUBSET Pids]
    BY <1>4 DEF Link, LinksTo, TypeOK
  <2> QED BY <1>4, <2>1 DEF Link, TypeOK
<1>5. ASSUME NEW b \in Pids, QueueKill(p, b) PROVE TypeOK'
  <2>1. /\ processes' \in Seq(PidOrNone)
        /\ tombstones' \in Seq(Pids) /\ toDestroy' \in Seq(Pids)
    BY <1>5, AddToDestroyTypes DEF QueueKill, TypeOK
  <2> QED BY <1>5, <2>1 DEF QueueKill, TypeOK
<1>6. ASSUME NEW b \in Pids, Send(p, b) PROVE TypeOK'
  <2>1. queue' \in Seq(Items) /\ sends' \in Nat
    BY <1>6, ItemTypes, AppendProperties DEF Send, QueueSend, TypeOK, PidOrNone
  <2> QED BY <1>6, <2>1 DEF Send, TypeOK
<1>7. ASSUME NEW b \in Pids, SendThrottled(p, b) PROVE TypeOK'
  <2>1. resumes[p] \in Nat
    BY DEF TypeOK
  <2>2. Append(queue, ResumeItem(p, resumes[p])) \in Seq(Items)
    BY <2>1, ItemTypes, AppendProperties DEF TypeOK, PidOrNone
  <2>3. sending' \in [Pids -> PidOrNone]
    BY <1>7 DEF SendThrottled, TypeOK, PidOrNone
  <2>4. /\ queue' \in Seq(Items) /\ running' \in PidOrNone
        /\ waiting' \in [Pids -> {"start", "none", "done", "yield", "recv",
                                  "timedRecv", "sleep", "always", "future"}]
    BY <1>7, <2>2 DEF SendThrottled, Park, TypeOK, PidOrNone
  <2> QED BY <1>7, <2>3, <2>4 DEF SendThrottled, TypeOK
<1>8. CASE CanQueueNull(p)
  BY <1>8 DEF CanQueueNull, TypeOK, PidOrNone
<1>9. CASE WaitForRoom(p)
  <2> DEFINE b == Proc(sending[p])
             h == Continuation(p, resumes[p])
  <2>1. b \in Pids
    <3>1. sending[p] \in Pids
      BY <1>9 DEF WaitForRoom, InCanQueue, TypeOK, PidOrNone
    <3> QED BY <1>9, <3>1, FoundIsPid DEF WaitForRoom, MustWait, Proc, TypeOK
  <2>2. h \in Handlers
    BY HandlerTypes DEF TypeOK
  <2>3. mq[b] \in Queues(Messages, Handlers) /\ mq[b].p_ \in Promises(Handlers)
    BY <2>1 DEF TypeOK, Queues
  <2>4. /\ SetContinuation(mq[b].p_, h) \in Promises(Handlers)
        /\ SetContinuationPosts(mq[b].p_, h) \in Seq(Handlers)
    BY <2>2, <2>3, PromiseTypes, PostTypes
  <2> HIDE DEF b, h
  <2>5. [mq[b] EXCEPT !.p_ = SetContinuation(@, h)]
          \in Queues(Messages, Handlers)
    BY <2>3, <2>4 DEF Queues
  <2>6. mq' \in [Pids -> Queues(Messages, Handlers)]
    BY <1>9, <2>5 DEF WaitForRoom, TypeOK, b, h
  <2>7. ready' \in Seq(Handlers)
    BY <1>9, <2>4, ConcatProperties DEF WaitForRoom, TypeOK, b, h
  <2>8. /\ running' \in PidOrNone
        /\ waiting' \in [Pids -> {"start", "none", "done", "yield", "recv",
                                  "timedRecv", "sleep", "always", "future"}]
    BY <1>9 DEF WaitForRoom, Park, TypeOK, PidOrNone
  <2> QED BY <1>9, <2>6, <2>7, <2>8 DEF WaitForRoom, TypeOK
<1>10. CASE ThrottledSend(p)
  <2>1. sending[p] \in Pids
    BY <1>10 DEF ThrottledSend, InCanQueue, TypeOK, PidOrNone
  <2>2. queue' \in Seq(Items) /\ sends' \in Nat
    BY <1>10, <2>1, ItemTypes, AppendProperties
       DEF ThrottledSend, QueueSend, TypeOK, PidOrNone
  <2>3. sending' \in [Pids -> PidOrNone]
    BY <1>10 DEF ThrottledSend, TypeOK, PidOrNone
  <2> QED BY <1>10, <2>2, <2>3 DEF ThrottledSend, TypeOK
<1>11. CASE Receive(p)
  BY <1>11, TakeMessageTypes DEF Receive, TypeOK
<1>12. CASE AwaitResume(p)
  <2>1. Size(mq[p]) \in Nat
    BY DEF TypeOK, Queues, Size
  <2>2. CASE Size(mq[p]) = 0 /\ waiting[p] = "recv"
    <3>1. Ends(p, processes, tombstones) /\ UNCHANGED <<mq, ready, noticed>>
      BY <1>12, <2>2 DEF AwaitResume
    <3> QED BY <1>12, <3>1, EndsTypes DEF AwaitResume, TypeOK
  <2>3. CASE ~(Size(mq[p]) = 0 /\ waiting[p] = "recv")
    <3>1. /\ mq' \in [Pids -> Queues(Messages, Handlers)]
          /\ ready' \in Seq(Handlers) /\ noticed' \in SUBSET Pids
      <4>1. CASE Size(mq[p]) = 0
        BY <1>12, <2>3, <4>1 DEF AwaitResume, TypeOK
      <4>2. CASE Size(mq[p]) # 0
        <5>1. Size(mq[p]) > 0 /\ TakeMessage(p)
          BY <1>12, <2>1, <2>3, <4>2 DEF AwaitResume
        <5> QED BY <5>1, TakeMessageTypes
      <4> QED BY <4>1, <4>2
    <3>2. waiting' \in [Pids -> {"start", "none", "done", "yield", "recv",
                                "timedRecv", "sleep", "always", "future"}]
      BY <1>12, <2>3 DEF AwaitResume, TypeOK
    <3>3. UNCHANGED <<running, tableVars>>
      BY <1>12, <2>3 DEF AwaitResume
    <3> QED BY <1>12, <3>1, <3>2, <3>3 DEF AwaitResume, TypeOK
  <2> QED BY <2>2, <2>3
<1>13. ASSUME NEW w \in Waits[p.idx], Suspend(p, w) PROVE TypeOK'
  <2>1. resumes[p] \in Nat
    BY DEF TypeOK
  <2>2. Append(queue, ResumeItem(p, resumes[p])) \in Seq(Items)
    BY <2>1, ItemTypes, AppendProperties DEF TypeOK, PidOrNone
  <2>3. w \in {"yield", "recv", "timedRecv", "sleep", "always"}
    BY PidFields, ProgramAssumption
  <2>4. waiting' \in [Pids -> {"start", "none", "done", "yield", "recv",
                              "timedRecv", "sleep", "always", "future"}]
    BY <1>13, <2>3 DEF Suspend, Park, TypeOK
  <2>5. queue' \in Seq(Items) /\ timers' \in SUBSET Pids /\ running' \in PidOrNone
    BY <1>13, <2>2 DEF Suspend, Park, TypeOK, PidOrNone
  <2> QED BY <1>13, <2>4, <2>5 DEF Suspend, TypeOK
<1>14. CASE Finish(p)
  BY <1>14, EndsTypes DEF Finish, TypeOK
<1> QED BY <1>1, <1>2, <1>3, <1>4, <1>5, <1>6, <1>7, <1>8, <1>9, <1>10, <1>11,
           <1>12, <1>13, <1>14 DEF ProcessStep

\* A step of the loop keeps the types.
LEMMA LoopStepTypes ==
  ASSUME TypeOK, LoopStep
  PROVE  TypeOK'
<1> USE DEF loopVars, tableVars, procVars, linkVars, mailVars, ioVars, memVars,
            rest
<1>1. CASE Exit
  BY <1>1 DEF Exit, TypeOK
<1>2. CASE ProcessMessage
  <2> DEFINE i == Head(queue)
             t == Proc(i.pid)
             boxes == IF Found(processes, i.pid)
                      THEN [mq EXCEPT ![t] = Push(@, i.message)] ELSE mq
  <2>1. i \in Items /\ Tail(queue) \in Seq(Items)
    BY <1>2, HeadTailProperties DEF ProcessMessage, TypeOK
  <2>2. i.pid \in Pids
    BY <2>1 DEF Items
  <2> HIDE DEF i
  <2>3. Found(processes, i.pid) => t \in Pids
    BY <2>2, FoundIsPid DEF Proc, TypeOK
  <2> SUFFICES boxes \in [Pids -> Queues(Messages, Handlers)]
    <3>1. TypeOK /\ ready \in Seq(Handlers)
      BY DEF TypeOK
    <3>2. /\ running' \in PidOrNone /\ resumes' \in [Pids -> Nat]
          /\ waiting' \in [Pids -> {"start", "none", "done", "yield", "recv",
                                    "timedRecv", "sleep", "always", "future"}]
          /\ timers' \in SUBSET Pids /\ ready' \in Seq(Handlers)
          /\ mq' \in [Pids -> Queues(Messages, Handlers)]
          /\ ub' \in SUBSET {"nullProcess", "freedProcess", "freedPromise"}
      <4>1. CASE Found(processes, i.pid) /\ WaitingFor(t)
        <5>1. BeginResume(t, boxes, ready, {})
          BY <1>2, <4>1 DEF ProcessMessage, Accepts, i
        <5> HIDE DEF boxes, t
        <5> QED BY <2>3, <3>1, <4>1, <5>1, BeginResumeTypes
      <4>2. CASE ~(Found(processes, i.pid) /\ WaitingFor(t))
        <5>1. NoResume(boxes, ready, {})
          BY <1>2, <4>2 DEF ProcessMessage, Accepts, i
        <5> HIDE DEF boxes, t
        <5> QED BY <3>1, <5>1, NoResumeTypes
      <4> QED BY <4>1, <4>2
    <3> QED BY <1>2, <2>1, <3>2 DEF ProcessMessage, TypeOK
  <2>4. i.kind = "message" /\ i.message \in Messages
    BY <1>2, <2>1 DEF ProcessMessage, Items, i
  <2>5. CASE Found(processes, i.pid)
    <3>1. mq[t] \in Queues(Messages, Handlers)
      BY <2>3, <2>5 DEF TypeOK
    <3>2. Push(mq[t], i.message) \in Queues(Messages, Handlers)
      BY <3>1, <2>4, QueueTypes
    <3> QED BY <2>5, <3>2 DEF TypeOK
  <2>6. CASE ~Found(processes, i.pid)
    BY <2>6 DEF TypeOK
  <2> QED BY <2>5, <2>6
<1>3. CASE ProcessResume
  <2> DEFINE i == Head(queue)
             t == Proc(i.pid)
  <2>1. i \in Items /\ Tail(queue) \in Seq(Items)
    BY <1>3, HeadTailProperties DEF ProcessResume, TypeOK
  <2>2. i.pid \in Pids
    BY <2>1 DEF Items
  <2> HIDE DEF i
  <2>3. Found(processes, i.pid) => t \in Pids
    BY <2>2, FoundIsPid DEF Proc, TypeOK
  <2>4. ready \in Seq(Handlers) /\ mq \in [Pids -> Queues(Messages, Handlers)]
    BY DEF TypeOK
  <2>5. /\ running' \in PidOrNone /\ resumes' \in [Pids -> Nat]
        /\ waiting' \in [Pids -> {"start", "none", "done", "yield", "recv",
                                  "timedRecv", "sleep", "always", "future"}]
        /\ timers' \in SUBSET Pids /\ ready' \in Seq(Handlers)
        /\ mq' \in [Pids -> Queues(Messages, Handlers)]
        /\ ub' \in SUBSET {"nullProcess", "freedProcess", "freedPromise"}
    <3>1. CASE Found(processes, i.pid) /\ resumes[t] = i.resume
      <4>1. BeginResume(t, mq, ready, {})
        BY <1>3, <3>1 DEF ProcessResume, i
      <4> HIDE DEF t
      <4> QED BY <2>3, <2>4, <3>1, <4>1, BeginResumeTypes
    <3>2. CASE ~(Found(processes, i.pid) /\ resumes[t] = i.resume)
      <4>1. NoResume(mq, ready, {})
        BY <1>3, <3>2 DEF ProcessResume, i
      <4> QED BY <2>4, <4>1, NoResumeTypes
    <3> QED BY <3>1, <3>2
  <2> QED BY <1>3, <2>1, <2>5 DEF ProcessResume, TypeOK
<1>4. CASE RunOne
  BY <1>4, ProgramAssumption DEF RunOne, TypeOK
<1>5. ASSUME NEW p \in Pids, TimerExpires(p) PROVE TypeOK'
  <2>1. ready' \in Seq(Handlers) /\ timers' \in SUBSET Pids
    BY <1>5, HandlerTypes, AppendProperties DEF TimerExpires, TypeOK
  <2> QED BY <1>5, <2>1 DEF TimerExpires, TypeOK
<1>6. ASSUME ready # <<>>
      PROVE  /\ Head(ready) \in Handlers /\ Head(ready).pid \in Pids
             /\ Tail(ready) \in Seq(Handlers)
             /\ mq \in [Pids -> Queues(Messages, Handlers)]
             /\ ReadsFreed(Head(ready).pid) \in
                   SUBSET {"nullProcess", "freedProcess", "freedPromise"}
  <2>1. Head(ready) \in Handlers /\ Tail(ready) \in Seq(Handlers)
    BY <1>6, HeadTailProperties DEF TypeOK
  <2> QED BY <2>1 DEF Handlers, ReadsFreed, TypeOK
<1>7. CASE RunAborted
  <2>1. ready # <<>> /\ NoResume(mq, Tail(ready), {})
    BY <1>7 DEF RunAborted, RunsHandler
  <2>2. {} \in SUBSET {"nullProcess", "freedProcess", "freedPromise"}
    OBVIOUS
  <2> QED BY <1>6, <1>7, <2>1, <2>2, NoResumeTypes
          DEF RunAborted, RunsHandler, TypeOK
<1>8. CASE RunTimer
  <2> DEFINE t == Head(ready).pid
  <2>1. ready # <<>>
    BY <1>8 DEF RunTimer, RunsHandler
  <2>2. CASE Live(t)
    <3>1. BeginResume(t, mq, Tail(ready), {})
      BY <1>8, <2>2 DEF RunTimer
    <3> QED BY <1>6, <1>8, <2>1, <3>1, BeginResumeTypes
            DEF RunTimer, RunsHandler, TypeOK
  <2>3. CASE ~Live(t)
    <3>1. NoResume(mq, Tail(ready), ReadsFreed(t))
      BY <1>8, <2>3 DEF RunTimer
    <3> QED BY <1>6, <1>8, <2>1, <3>1, NoResumeTypes
            DEF RunTimer, RunsHandler, TypeOK
  <2> QED BY <2>2, <2>3
<1>9. CASE RunContinuation
  <2> DEFINE h == Head(ready)
  <2>1. ready # <<>>
    BY <1>9 DEF RunContinuation, RunsHandler
  <2>2. CASE Continues(h)
    <3>1. BeginResume(h.pid, mq, Tail(ready), {})
      BY <1>9, <2>2 DEF RunContinuation
    <3> QED BY <1>6, <1>9, <2>1, <3>1, BeginResumeTypes
            DEF RunContinuation, RunsHandler, TypeOK
  <2>3. CASE ~Continues(h)
    <3>1. NoResume(mq, Tail(ready), ReadsFreed(h.pid))
      BY <1>9, <2>3 DEF RunContinuation
    <3> QED BY <1>6, <1>9, <2>1, <3>1, NoResumeTypes
            DEF RunContinuation, RunsHandler, TypeOK
  <2> QED BY <2>2, <2>3
<1>16. ASSUME NEW q \in Pids, RunReused(q) PROVE TypeOK'
  <2>1. ready # <<>> /\ BeginResume(q, mq, Tail(ready), ReadsFreed(Head(ready).pid))
    BY <1>16 DEF RunReused, RunsHandler
  <2> QED BY <1>6, <1>16, <2>1, BeginResumeTypes
          DEF RunReused, RunsHandler, TypeOK
<1>10. CASE HandlerCrashes
  BY <1>10 DEF HandlerCrashes, TypeOK
<1>11. CASE EndPoll
  BY <1>11, ProgramAssumption DEF EndPoll, TypeOK
<1>12. CASE DestroyNext
  <2>1. Head(toDestroy) \in Pids /\ Tail(toDestroy) \in Seq(Pids)
    BY <1>12, HeadTailProperties DEF DestroyNext, TypeOK
  <2> QED BY <1>12, <2>1 DEF DestroyNext, TypeOK, PidOrNone
<1>13. ASSUME NEW q \in Pids, KillLinked(q) PROVE TypeOK'
  <2>1. /\ processes' \in Seq(PidOrNone)
        /\ tombstones' \in Seq(Pids) /\ toDestroy' \in Seq(Pids)
    BY <1>13, AddToDestroyTypes DEF KillLinked, TypeOK
  <2> QED BY <1>13, <2>1 DEF KillLinked, TypeOK
<1>14. CASE FinishDestroy
  <2>1. dying \in Pids
    BY <1>14 DEF FinishDestroy, TypeOK, PidOrNone
  <2>2. mq[dying] \in Queues(Messages, Handlers)
    BY <2>1 DEF TypeOK
  <2>3. /\ SetIfUnset(mq[dying].p_) \in Promises(Handlers)
        /\ DestroyPosts(mq[dying]) \in Seq(Handlers)
    BY <2>2, SetTypes DEF Queues, DestroyPosts
  <2>4. [mq[dying] EXCEPT !.p_ = SetIfUnset(@)] \in Queues(Messages, Handlers)
    BY <2>2, <2>3 DEF Queues
  <2>5. mq' \in [Pids -> Queues(Messages, Handlers)]
    BY <1>14, <2>1, <2>4 DEF FinishDestroy, TypeOK
  <2>6. ready' \in Seq(Handlers)
    <3>1. ready \o CancelPosts(dying) \in Seq(Handlers)
      BY <2>1, HandlerTypes, ConcatProperties DEF TypeOK
    <3> QED BY <1>14, <2>3, <3>1, ConcatProperties DEF FinishDestroy
  <2>7. queue' \in Seq(Items) /\ sends' \in Nat
    <3>1. CASE Notifies(dying)
      <4>1. notifyOnDie[dying] \in Pids
        BY <2>1, <3>1 DEF Notifies, TypeOK, PidOrNone
      <4>2. QueueSend(notifyOnDie[dying], dying)
        BY <1>14, <3>1 DEF FinishDestroy
      <4> QED BY <2>1, <4>1, <4>2, ItemTypes, AppendProperties
              DEF QueueSend, TypeOK, PidOrNone
    <3>2. CASE ~Notifies(dying)
      BY <1>14, <3>2 DEF FinishDestroy, TypeOK
    <3> QED BY <3>1, <3>2
  <2>8. /\ timers' \in SUBSET Pids /\ freed' \in SUBSET Pids
        /\ dying' \in PidOrNone
    BY <1>14, <2>1 DEF FinishDestroy, TypeOK, PidOrNone
  <2> QED BY <1>14, <2>5, <2>6, <2>7, <2>8 DEF FinishDestroy, TypeOK
<1>15. CASE DestroyDone
  BY <1>15 DEF DestroyDone, TypeOK
<1> QED BY <1>1, <1>2, <1>3, <1>4, <1>5, <1>7, <1>8, <1>9, <1>10, <1>11, <1>12,
           <1>13, <1>14, <1>15, <1>16 DEF LoopStep

LEMMA TypeStep == TypeOK /\ [Next]_vars => TypeOK'
<1> SUFFICES ASSUME TypeOK, [Next]_vars PROVE TypeOK'
  OBVIOUS
<1> USE DEF loopVars, tableVars, procVars, linkVars, mailVars, ioVars, memVars,
            rest
<1>1. CASE MainSpawn
  <2>1. {} \in SUBSET Pids /\ NoPid \in PidOrNone
    BY DEF PidOrNone
  <2> QED BY <1>1, <2>1, ConstructTypes DEF MainSpawn
<1>2. CASE Run
  BY <1>2 DEF Run, TypeOK
<1>3. ASSUME NEW p \in Pids, ProcessStep(p) PROVE TypeOK'
  BY <1>3, ProcessStepTypes
<1>4. CASE LoopStep
  BY <1>4, LoopStepTypes
<1>5. CASE UNCHANGED vars
  BY <1>5 DEF vars, TypeOK
<1> QED BY <1>1, <1>2, <1>3, <1>4, <1>5 DEF Next, Terminated

\* The variables of the Context always have their types, whatever programs
\* the processes run and however many there are.
THEOREM TypeCorrect == Spec => []TypeOK
BY TypeInit, TypeStep, PTL DEF Spec

-----------------------------------------------------------------------------
(* The invariant of the table, over the values of processes_, tombstones_,  *)
(* toDestroy_, the process being destroyed and the ones deleted.            *)

InTable(procs, p) == \E i \in Indices(procs) : procs[i] = p
InDoom(td, p) == \E i \in Indices(td) : td[i] = p
Known(procs, td, dy, fr, p) ==
  InTable(procs, p) \/ p = dy \/ InDoom(td, p) \/ p \in fr

\* Each object has one owner (OwnedOnce, in terms of the values).
Owned(procs, td, dy, fr) ==
  /\ \A i \in Indices(procs) : procs[i] # NoPid => procs[i].idx = i
  /\ \A i, j \in Indices(td) : td[i] = td[j] => i = j
  /\ \A p \in Pids : /\ InTable(procs, p) => p # dy /\ ~InDoom(td, p)
                     /\ ~(p = dy /\ InDoom(td, p))
                     /\ p \in fr => /\ ~InTable(procs, p)
                                    /\ p # dy /\ ~InDoom(td, p)

\* A living process has the highest version its index has had; a tombstone
\* is at least as high, belongs to an empty entry, and is the only one there.
Fresh(procs, tombs, td, dy, fr) ==
  /\ \A p \in Pids : Known(procs, td, dy, fr, p) => p.idx \in Indices(procs)
  /\ \A p, q \in Pids :
       InTable(procs, p) /\ Known(procs, td, dy, fr, q) /\ q.idx = p.idx
         => q = p \/ q.ver < p.ver
  /\ \A j \in Indices(tombs) :
       /\ tombs[j].idx \in Indices(procs)
       /\ procs[tombs[j].idx] = NoPid
       /\ \A q \in Pids : Known(procs, td, dy, fr, q) /\ q.idx = tombs[j].idx
                            => q.ver <= tombs[j].ver
  /\ \A j, k \in Indices(tombs) : tombs[j].idx = tombs[k].idx => j = k

TableInv(procs, tombs, td, dy, fr) ==
  Owned(procs, td, dy, fr) /\ Fresh(procs, tombs, td, dy, fr)

\* pop_back().
LEMMA DropLast ==
  ASSUME NEW S, NEW s \in Seq(S), s # <<>>
  PROVE  /\ Len(s) \in Nat \ {0}
         /\ Len(SubSeq(s, 1, Len(s) - 1)) = Len(s) - 1
         /\ \A j \in 1..(Len(s) - 1) : SubSeq(s, 1, Len(s) - 1)[j] = s[j]
<1>1. Len(s) \in Nat \ {0}
  BY EmptySeq, Zenon
<1>2. PICK n \in Nat : n = Len(s) - 1
  BY <1>1
<1>3. \A j \in 1..n : s[j] \in S
  BY <1>1, <1>2, ElementOfSeq
<1>4. /\ Len(SubSeq(s, 1, n)) = IF 1 <= n THEN n - 1 + 1 ELSE 0
      /\ \A j \in 1..(n - 1 + 1) : SubSeq(s, 1, n)[j] = s[1 + j - 1]
  <2>1. 1 \in Int /\ n \in Int
    OBVIOUS
  <2> QED BY <1>3, <2>1, SubSeqProperties
<1>5. Len(SubSeq(s, 1, n)) = n
  BY <1>4
<1>6. \A j \in 1..n : SubSeq(s, 1, n)[j] = s[j]
  BY <1>4
<1> QED BY <1>1, <1>2, <1>5, <1>6

\* front() and pop_front().
LEMMA HeadTailIndices ==
  ASSUME NEW S, NEW s \in Seq(S), s # <<>>
  PROVE  /\ Len(s) \in Nat \ {0} /\ Head(s) = s[1] /\ Len(Tail(s)) = Len(s) - 1
         /\ \A i \in 1..(Len(s) - 1) : Tail(s)[i] = s[i + 1]
<1>1. Len(s) \in Nat \ {0}
  BY EmptySeq, Zenon
<1> QED BY <1>1, HeadTailProperties

\* With entries at their own index, a process is in the table exactly when
\* the entry of its index is the process.
LEMMA InTableAt ==
  ASSUME NEW procs \in Seq(PidOrNone), NEW p \in Pids,
         \A i \in Indices(procs) : procs[i] # NoPid => procs[i].idx = i
  PROVE  InTable(procs, p) <=> p.idx \in Indices(procs) /\ procs[p.idx] = p
BY PidFields DEF InTable, Indices

\* findProc() finds the process itself.
LEMMA FoundIsSelf ==
  ASSUME NEW procs \in Seq(PidOrNone), NEW p \in Pids, Found(procs, p),
         \A i \in Indices(procs) : procs[i] # NoPid => procs[i].idx = i
  PROVE  procs[p.idx] = p /\ p.idx \in Indices(procs) /\ InTable(procs, p)
<1>1. p.idx \in Indices(procs) /\ procs[p.idx] \in Pids
  BY FoundIsPid DEF Indices
<1>2. procs[p.idx].idx = p.idx /\ procs[p.idx].ver = p.ver
  BY <1>1, PidFields DEF Found
<1>3. procs[p.idx] = p
  BY <1>1, <1>2 DEF Pids
<1> QED BY <1>1, <1>3 DEF InTable

\* findProc() finds exactly the processes in the table.
LEMMA InTableIsFound ==
  ASSUME NEW procs \in Seq(PidOrNone), NEW p \in Pids,
         \A i \in Indices(procs) : procs[i] # NoPid => procs[i].idx = i
  PROVE  InTable(procs, p) <=> Found(procs, p)
<1>1. Found(procs, p) => InTable(procs, p)
  BY FoundIsSelf
<1>2. ASSUME InTable(procs, p) PROVE Found(procs, p)
  <2>1. p.idx \in 1..Len(procs) /\ procs[p.idx] = p
    BY <1>2, InTableAt DEF Indices
  <2>2. p.idx <= Len(procs)
    BY <2>1, LenProperties
  <2> QED BY <2>1, <2>2, PidFields DEF Found
<1> QED BY <1>1, <1>2

\* nextPid() gives an empty entry without a tombstone, and a version above
\* all that the index has had.
LEMMA AllocInv ==
  ASSUME TypeOK, NEW td, NEW dy, NEW fr,
         TableInv(processes, tombstones, td, dy, fr)
  PROVE  /\ TableInv(NextPidProcesses, NextPidTombstones, td, dy, fr)
         /\ NextPid.idx \in Indices(NextPidProcesses)
         /\ NextPidProcesses[NextPid.idx] = NoPid
         /\ \A j \in Indices(NextPidTombstones) :
              NextPidTombstones[j].idx # NextPid.idx
         /\ \A q \in Pids : Known(NextPidProcesses, td, dy, fr, q)
                             /\ q.idx = NextPid.idx => q.ver < NextPid.ver
<1>0. /\ processes \in Seq(PidOrNone) /\ Len(processes) \in Nat
      /\ tombstones \in Seq(Pids) /\ Len(tombstones) \in Nat
  BY LenProperties DEF TypeOK
<1>1. CASE tombstones = <<>>
  <2> DEFINE procs == Append(processes, NoPid)
  <2>1. /\ NextPidProcesses = procs /\ NextPidTombstones = <<>>
        /\ NextPid = [idx |-> Len(processes) + 1, ver |-> 0]
    BY <1>1 DEF NextPidProcesses, NextPidTombstones, NextPid
  <2>2. /\ procs \in Seq(PidOrNone) /\ Len(procs) = Len(processes) + 1
        /\ \A i \in 1..Len(processes) : procs[i] = processes[i]
        /\ procs[Len(processes) + 1] = NoPid
    BY <1>0, AppendProperties DEF PidOrNone
  <2> HIDE DEF procs
  <2>3. ASSUME NEW p \in Pids
        PROVE  InTable(procs, p) <=> InTable(processes, p)
    <3>1. Indices(procs) = Indices(processes) \cup {Len(processes) + 1}
      BY <1>0, <2>2 DEF Indices
    <3>2. procs[Len(processes) + 1] # p
      BY <2>2, PidFields
    <3> QED BY <2>2, <3>1, <3>2 DEF InTable, Indices
  <2>4. \A p \in Pids : Known(procs, td, dy, fr, p)
                          <=> Known(processes, td, dy, fr, p)
    BY <2>3 DEF Known
  <2>5. Owned(procs, td, dy, fr)
    <3>1. \A i \in Indices(procs) : procs[i] # NoPid => procs[i].idx = i
      BY <1>0, <2>2 DEF TableInv, Owned, Indices
    <3> QED BY <2>3, <3>1 DEF TableInv, Owned
  <2>6. \A p \in Pids : Known(procs, td, dy, fr, p) => p.idx \in Indices(processes)
    BY <2>4 DEF TableInv, Fresh
  <2>7. Fresh(procs, <<>>, td, dy, fr)
    <3>1. \A p \in Pids : Known(procs, td, dy, fr, p) => p.idx \in Indices(procs)
      BY <1>0, <2>2, <2>6 DEF Indices
    <3>2. \A p, q \in Pids :
            InTable(procs, p) /\ Known(procs, td, dy, fr, q) /\ q.idx = p.idx
              => q = p \/ q.ver < p.ver
      BY <2>3, <2>4 DEF TableInv, Fresh
    <3>3. Indices(<<>>) = {}
      BY DEF Indices
    <3> QED BY <3>1, <3>2, <3>3 DEF Fresh
  <2>8. \A q \in Pids : Known(procs, td, dy, fr, q) => q.idx # Len(processes) + 1
    BY <1>0, <2>6 DEF Indices
  <2>9. /\ NextPid.idx = Len(processes) + 1
        /\ Len(processes) + 1 \in Indices(procs)
        /\ Indices(NextPidTombstones) = {}
    BY <1>0, <2>1, <2>2 DEF Indices
  <2> QED BY <2>1, <2>2, <2>5, <2>7, <2>8, <2>9 DEF TableInv
<1>2. CASE tombstones # <<>>
  <2> DEFINE m == Len(tombstones)
             tombs == SubSeq(tombstones, 1, m - 1)
  <2>1. /\ NextPidProcesses = processes /\ NextPidTombstones = tombs
        /\ NextPid = [idx |-> tombstones[m].idx, ver |-> tombstones[m].ver + 1]
    BY <1>2 DEF NextPidProcesses, NextPidTombstones, NextPid
  <2>2. m \in Nat \ {0}
    BY <1>0, <1>2, EmptySeq
  <2>3. /\ Len(tombs) = m - 1
        /\ \A j \in 1..(m - 1) : tombs[j] = tombstones[j]
    BY <1>0, <1>2, DropLast
  <2>4. tombstones[m] \in Pids /\ tombstones[m].ver \in Nat
    <3>1. tombstones[m] \in Pids
      BY <1>0, <2>2, ElementOfSeq
    <3> QED BY <3>1, PidFields, BoundsAssumption
  <2> HIDE DEF tombs, m
  <2>5. Indices(tombs) = 1..(m - 1) /\ Indices(tombstones) = 1..m
    BY <2>3 DEF Indices, m
  <2>6. m \in Indices(tombstones) /\ Indices(tombs) \subseteq Indices(tombstones)
        /\ m \notin Indices(tombs)
    BY <2>2, <2>5
  <2>7. Fresh(processes, tombs, td, dy, fr)
    BY <2>3, <2>5, <2>6 DEF TableInv, Fresh
  <2>8. /\ tombstones[m].idx \in Indices(processes)
        /\ processes[tombstones[m].idx] = NoPid
        /\ \A q \in Pids : Known(processes, td, dy, fr, q)
                             /\ q.idx = tombstones[m].idx
                               => q.ver <= tombstones[m].ver
        /\ \A j \in Indices(tombs) : tombs[j].idx # tombstones[m].idx
    BY <2>3, <2>5, <2>6 DEF TableInv, Fresh
  <2>9. \A q \in Pids : q.ver <= tombstones[m].ver => q.ver < tombstones[m].ver + 1
    BY <2>4, PidFields, BoundsAssumption
  <2> QED BY <2>1, <2>7, <2>8, <2>9 DEF TableInv
<1> QED BY <1>1, <1>2

\* spawnArgs() stores the new RunningProcess in the entry nextPid() left empty.
LEMMA PlaceInv ==
  ASSUME NEW procs \in Seq(PidOrNone), NEW tombs \in Seq(Pids),
         NEW td, NEW dy, NEW fr, NEW n \in Pids,
         TableInv(procs, tombs, td, dy, fr),
         n.idx \in Indices(procs), procs[n.idx] = NoPid,
         \A j \in Indices(tombs) : tombs[j].idx # n.idx,
         \A q \in Pids : Known(procs, td, dy, fr, q) /\ q.idx = n.idx
                           => q.ver < n.ver
  PROVE  TableInv([procs EXCEPT ![n.idx] = n], tombs, td, dy, fr)
<1> DEFINE new == [procs EXCEPT ![n.idx] = n]
<1>1. /\ Indices(new) = Indices(procs) /\ new[n.idx] = n
      /\ \A i \in Indices(procs) : i # n.idx => new[i] = procs[i]
  BY ExceptSeq DEF Indices, PidOrNone
<1> HIDE DEF new
<1>2. \A p \in Pids : p # NoPid
  BY PidFields
<1>3. ~Known(procs, td, dy, fr, n)
  <2>1. ~(n.ver < n.ver)
    BY PidFields, BoundsAssumption
  <2> QED BY <2>1
<1>4. \A p \in Pids : InTable(new, p) <=> InTable(procs, p) \/ p = n
  BY <1>1, <1>2 DEF InTable
<1>5. \A p \in Pids : Known(new, td, dy, fr, p)
                        <=> Known(procs, td, dy, fr, p) \/ p = n
  BY <1>4 DEF Known
<1>6. Owned(new, td, dy, fr)
  <2>1. \A i \in Indices(new) : new[i] # NoPid => new[i].idx = i
    BY <1>1 DEF TableInv, Owned
  <2>2. n # dy /\ ~InDoom(td, n) /\ n \notin fr
    BY <1>3 DEF Known
  <2> QED BY <1>4, <2>1, <2>2 DEF TableInv, Owned
<1>7. Fresh(new, tombs, td, dy, fr)
  <2>1. \A p \in Pids : Known(new, td, dy, fr, p) => p.idx \in Indices(new)
    BY <1>1, <1>5 DEF TableInv, Fresh
  <2>2. ASSUME NEW p \in Pids, NEW q \in Pids, InTable(new, p),
               Known(new, td, dy, fr, q), q.idx = p.idx
        PROVE  q = p \/ q.ver < p.ver
    <3>1. CASE p = n
      BY <1>5, <2>2, <3>1
    <3>2. CASE p # n
      <4>1. InTable(procs, p)
        BY <1>4, <2>2, <3>2
      <4>2. p.idx # n.idx
        BY <1>2, <4>1, InTableAt DEF TableInv, Owned
      <4> QED BY <1>5, <2>2, <4>1, <4>2 DEF TableInv, Fresh
    <3> QED BY <3>1, <3>2
  <2>3. ASSUME NEW j \in Indices(tombs)
        PROVE  /\ tombs[j].idx \in Indices(new)
               /\ new[tombs[j].idx] = NoPid
               /\ \A q \in Pids : Known(new, td, dy, fr, q)
                                    /\ q.idx = tombs[j].idx
                                      => q.ver <= tombs[j].ver
    BY <1>1, <1>5 DEF TableInv, Fresh
  <2> QED BY <2>1, <2>2, <2>3 DEF TableInv, Fresh
<1> QED BY <1>6, <1>7 DEF TableInv, new

\* addtoDestroy() moves a process from its entry to toDestroy_ and its pid to
\* the tombstones.
LEMMA RemoveInv ==
  ASSUME NEW procs \in Seq(PidOrNone), NEW tombs \in Seq(Pids),
         NEW td \in Seq(Pids), NEW dy, NEW fr, NEW p \in Pids,
         TableInv(procs, tombs, td, dy, fr), Found(procs, p)
  PROVE  /\ TableInv([procs EXCEPT ![p.idx] = NoPid], Append(tombs, p),
                     Append(td, p), dy, fr)
         /\ \A q \in Pids : InTable([procs EXCEPT ![p.idx] = NoPid], q)
                              <=> InTable(procs, q) /\ q # p
         /\ \A q \in Pids : InDoom(Append(td, p), q) <=> InDoom(td, q) \/ q = p
<1> DEFINE new == [procs EXCEPT ![p.idx] = NoPid]
           doom == Append(td, p)
           grave == Append(tombs, p)
<1>0. procs[p.idx] = p /\ p.idx \in Indices(procs) /\ InTable(procs, p)
  BY FoundIsSelf DEF TableInv, Owned
<1>1. /\ Indices(new) = Indices(procs) /\ new[p.idx] = NoPid
      /\ \A i \in Indices(procs) : i # p.idx => new[i] = procs[i]
  BY <1>0, ExceptSeq DEF Indices, PidOrNone
<1>2. /\ Len(td) \in Nat /\ Indices(doom) = Indices(td) \cup {Len(td) + 1}
      /\ doom[Len(td) + 1] = p /\ Len(td) + 1 \notin Indices(td)
      /\ \A i \in Indices(td) : doom[i] = td[i]
  <2>1. doom = Append(td, p)
    OBVIOUS
  <2> HIDE DEF doom
  <2>2. Len(td) \in Nat /\ Len(td) + 1 \notin Indices(td)
    BY LenProperties DEF Indices
  <2>3. Len(doom) = Len(td) + 1 /\ doom[Len(td) + 1] = p
        /\ \A i \in 1..Len(td) : doom[i] = td[i]
    BY <2>1, AppendProperties
  <2> QED BY <2>2, <2>3 DEF Indices
<1>3. /\ Len(tombs) \in Nat /\ Indices(grave) = Indices(tombs) \cup {Len(tombs) + 1}
      /\ grave[Len(tombs) + 1] = p /\ Len(tombs) + 1 \notin Indices(tombs)
      /\ \A i \in Indices(tombs) : grave[i] = tombs[i]
  <2>1. grave = Append(tombs, p)
    OBVIOUS
  <2> HIDE DEF grave
  <2>2. Len(tombs) \in Nat /\ Len(tombs) + 1 \notin Indices(tombs)
    BY LenProperties DEF Indices
  <2>3. Len(grave) = Len(tombs) + 1 /\ grave[Len(tombs) + 1] = p
        /\ \A i \in 1..Len(tombs) : grave[i] = tombs[i]
    BY <2>1, AppendProperties
  <2> QED BY <2>2, <2>3 DEF Indices
<1> HIDE DEF new, doom, grave
<1>4. \A q \in Pids : q # NoPid
  BY PidFields
<1>5. \A q \in Pids : InTable(new, q) <=> InTable(procs, q) /\ q # p
  <2>1. TAKE q \in Pids
  <2>2. InTable(procs, q) <=> q.idx \in Indices(procs) /\ procs[q.idx] = q
    BY InTableAt DEF TableInv, Owned
  <2>3. \A i \in Indices(procs) : procs[i] = p => i = p.idx
    BY <1>4 DEF TableInv, Owned
  <2>4. CASE q = p
    BY <1>1, <1>4, <2>3, <2>4 DEF InTable
  <2>5. CASE q # p
    BY <1>0, <1>1, <1>4, <2>5 DEF InTable
  <2> QED BY <2>4, <2>5
<1>6. \A q \in Pids : InDoom(doom, q) <=> InDoom(td, q) \/ q = p
  BY <1>2 DEF InDoom
<1>7. \A q \in Pids : Known(new, doom, dy, fr, q) <=> Known(procs, td, dy, fr, q)
  BY <1>0, <1>5, <1>6 DEF Known
<1>8. p # dy /\ ~InDoom(td, p) /\ p \notin fr
  BY <1>0 DEF TableInv, Owned
<1>9. Owned(new, doom, dy, fr)
  <2>1. \A i \in Indices(new) : new[i] # NoPid => new[i].idx = i
    BY <1>1 DEF TableInv, Owned
  <2>2. \A i, j \in Indices(doom) : doom[i] = doom[j] => i = j
    BY <1>2, <1>8 DEF TableInv, Owned, InDoom
  <2> QED BY <1>5, <1>6, <1>8, <2>1, <2>2 DEF TableInv, Owned
<1>10. Fresh(new, grave, doom, dy, fr)
  <2>1. \A q \in Pids : Known(new, doom, dy, fr, q) => q.idx \in Indices(new)
    BY <1>1, <1>7 DEF TableInv, Fresh
  <2>2. \A a, b \in Pids :
          InTable(new, a) /\ Known(new, doom, dy, fr, b) /\ b.idx = a.idx
            => b = a \/ b.ver < a.ver
    BY <1>5, <1>7 DEF TableInv, Fresh
  <2>3. ASSUME NEW j \in Indices(tombs)
        PROVE  tombs[j].idx # p.idx
    BY <1>0, <1>4 DEF TableInv, Fresh
  <2>4. \A q \in Pids : Known(procs, td, dy, fr, q) /\ q.idx = p.idx
                          => q.ver <= p.ver
    <3>1. \A q \in Pids : q.ver \in Nat
      BY PidFields, BoundsAssumption
    <3>2. \A q \in Pids : Known(procs, td, dy, fr, q) /\ q.idx = p.idx
                          => q = p \/ q.ver < p.ver
      BY <1>0 DEF TableInv, Fresh
    <3> QED BY <3>1, <3>2
  <2>5. ASSUME NEW j \in Indices(grave)
        PROVE  /\ grave[j].idx \in Indices(new)
               /\ new[grave[j].idx] = NoPid
               /\ \A q \in Pids : Known(new, doom, dy, fr, q)
                                    /\ q.idx = grave[j].idx
                                      => q.ver <= grave[j].ver
    <3>1. CASE j \in Indices(tombs)
      BY <1>1, <1>3, <1>7, <2>3, <3>1 DEF TableInv, Fresh
    <3>2. CASE j = Len(tombs) + 1
      BY <1>0, <1>1, <1>3, <1>7, <2>4, <3>2
    <3> QED BY <1>3, <3>1, <3>2
  <2>6. \A j, k \in Indices(grave) : grave[j].idx = grave[k].idx => j = k
    BY <1>3, <2>3 DEF TableInv, Fresh
  <2> QED BY <2>1, <2>2, <2>5, <2>6 DEF Fresh
<1> QED BY <1>5, <1>6, <1>9, <1>10 DEF TableInv, new, doom, grave

\* destroy() takes the front of toDestroy_.
LEMMA DestroyNextInv ==
  ASSUME NEW procs, NEW tombs, NEW td \in Seq(Pids), NEW fr, td # <<>>,
         TableInv(procs, tombs, td, NoPid, fr)
  PROVE  /\ TableInv(procs, tombs, Tail(td), Head(td), fr)
         /\ \A q \in Pids : InDoom(td, q) <=> InDoom(Tail(td), q) \/ q = Head(td)
<1> DEFINE rst == Tail(td)
<1>1. /\ Len(td) \in Nat \ {0} /\ Head(td) = td[1] /\ Len(rst) = Len(td) - 1
      /\ \A i \in 1..(Len(td) - 1) : rst[i] = td[i + 1]
  BY HeadTailIndices
<1> HIDE DEF rst
<1>2. /\ 1 \in Indices(td) /\ \A i \in Indices(rst) : i + 1 \in Indices(td)
      /\ \A i \in Indices(td) : i = 1 \/ (i - 1 \in Indices(rst) /\ td[i] = rst[i - 1])
      /\ \A i \in Indices(rst) : i \in Nat /\ i + 1 # 1 /\ rst[i] = td[i + 1]
  <2>1. \A i \in Indices(td) : i = 1 \/ (i - 1 \in Indices(rst) /\ td[i] = rst[i - 1])
    <3>1. TAKE i \in Indices(td)
    <3>2. i = 1 \/ i - 1 \in 1..(Len(td) - 1)
      BY <1>1 DEF Indices
    <3>3. (i - 1) + 1 = i
      BY <1>1 DEF Indices
    <3>4. i - 1 \in 1..(Len(td) - 1) => rst[i - 1] = td[i]
      BY <1>1, <3>3
    <3> QED BY <1>1, <3>2, <3>4 DEF Indices
  <2> QED BY <1>1, <2>1 DEF Indices
<1>3. \A q \in Pids : InDoom(td, q) <=> InDoom(rst, q) \/ q = Head(td)
  BY <1>1, <1>2 DEF InDoom
<1>4. Head(td) \in Pids /\ \A p \in Pids : p # NoPid
  BY <1>1, ElementOfSeq, PidFields DEF Indices
<1>5. \A q \in Pids : Known(procs, rst, Head(td), fr, q)
                        <=> Known(procs, td, NoPid, fr, q)
  BY <1>3, <1>4 DEF Known
<1>6. ~InDoom(rst, Head(td))
  <2>1. \A i \in Indices(rst) : rst[i] # td[1]
    BY <1>2 DEF TableInv, Owned
  <2> QED BY <1>1, <2>1 DEF InDoom
<1>7. \A i, j \in Indices(rst) : rst[i] = rst[j] => i = j
  <2>1. \A i, j \in Nat : i + 1 = j + 1 => i = j
    OBVIOUS
  <2> QED BY <1>2, <2>1 DEF TableInv, Owned
<1>8. Owned(procs, rst, Head(td), fr)
  BY <1>3, <1>4, <1>6, <1>7 DEF TableInv, Owned
<1>9. Fresh(procs, tombs, rst, Head(td), fr)
  BY <1>5 DEF TableInv, Fresh
<1> QED BY <1>3, <1>8, <1>9 DEF TableInv, rst

\* The unique_ptr goes out of scope at the end of destroy().
LEMMA FreeInv ==
  ASSUME NEW procs, NEW tombs, NEW td, NEW dy \in Pids, NEW fr,
         TableInv(procs, tombs, td, dy, fr)
  PROVE  TableInv(procs, tombs, td, NoPid, fr \cup {dy})
<1>1. \A p \in Pids : p # NoPid
  BY PidFields
<1>2. \A q \in Pids : Known(procs, td, NoPid, fr \cup {dy}, q)
                        <=> Known(procs, td, dy, fr, q)
  BY <1>1 DEF Known
<1>3. Owned(procs, td, NoPid, fr \cup {dy})
  BY <1>1 DEF TableInv, Owned
<1>4. Fresh(procs, tombs, td, NoPid, fr \cup {dy})
  BY <1>2 DEF TableInv, Fresh
<1> QED BY <1>3, <1>4 DEF TableInv

\* nextPid() does not change which processes are in the table.
LEMMA NextPidInTable ==
  ASSUME TypeOK
  PROVE  \A p \in Pids : InTable(NextPidProcesses, p) <=> InTable(processes, p)
<1>1. CASE tombstones = <<>>
  <2>1. processes \in Seq(PidOrNone) /\ Len(processes) \in Nat
    BY LenProperties DEF TypeOK
  <2>2. NextPidProcesses = Append(processes, NoPid)
    BY <1>1 DEF NextPidProcesses
  <2>3. /\ Len(NextPidProcesses) = Len(processes) + 1
        /\ \A i \in 1..Len(processes) : NextPidProcesses[i] = processes[i]
        /\ NextPidProcesses[Len(processes) + 1] = NoPid
    BY <2>1, <2>2, AppendProperties DEF PidOrNone
  <2>4. Indices(NextPidProcesses) = Indices(processes) \cup {Len(processes) + 1}
    BY <2>1, <2>3 DEF Indices
  <2> QED BY <2>3, <2>4, PidFields DEF InTable, Indices
<1>2. CASE tombstones # <<>>
  BY <1>2 DEF NextPidProcesses
<1> QED BY <1>1, <1>2

-----------------------------------------------------------------------------
(* The table along the steps of the Context *)

Table == TableInv(processes, tombstones, toDestroy, dying, freed)

\* What a step does to the processes: no known pid comes back, and a process
\* is not deleted without being taken by destroy() first.
KeepsProcesses ==
  \A q \in Pids :
    /\ InTable(processes', q)
         => InTable(processes, q) \/ ~Known(processes, toDestroy, dying, freed, q)
    /\ InTable(processes, q) \/ InDoom(toDestroy, q)
         => InTable(processes', q) \/ InDoom(toDestroy', q) \/ q = dying'

LEMMA TableInit == Init => Table
<1> SUFFICES ASSUME Init PROVE Table
  OBVIOUS
<1>1. Indices(<<>>) = {}
  BY DEF Indices
<1>2. \A p \in Pids : ~Known(<<>>, <<>>, NoPid, {}, p)
  BY <1>1, PidFields DEF Known, InTable, InDoom
<1>3. Owned(<<>>, <<>>, NoPid, {})
  BY <1>1, PidFields DEF Owned, InTable, InDoom
<1>4. Fresh(<<>>, <<>>, <<>>, NoPid, {})
  BY <1>1, <1>2 DEF Fresh, Known
<1> QED BY <1>3, <1>4 DEF Init, Table, TableInv

\* Steps that do not touch the table.
LEMMA TableFrame ==
  ASSUME Table, UNCHANGED <<processes, tombstones, toDestroy, dying, freed>>
  PROVE  Table' /\ KeepsProcesses
BY DEF Table, KeepsProcesses

\* spawnArgs() puts a process in the table whose pid nobody has had, and
\* leaves the others where they are.
LEMMA ConstructedFresh ==
  ASSUME TypeOK, Table, NEW kill, NEW notify, NEW back,
         Constructed(kill, notify, back), UNCHANGED <<toDestroy, dying, freed>>
  PROVE  /\ NextPid \in Pids /\ UNCHANGED <<toDestroy, dying, freed>>
         /\ ~Known(processes, toDestroy, dying, freed, NextPid)
         /\ \A q \in Pids : InTable(processes', q)
                              <=> InTable(processes, q) \/ q = NextPid
<1> DEFINE n == NextPid
           procs == NextPidProcesses
<1>1. /\ n \in Pids /\ processes' = [procs EXCEPT ![n.idx] = n]
      /\ UNCHANGED <<toDestroy, dying, freed>>
  BY DEF Constructed
<1>2. procs \in Seq(PidOrNone)
  BY NextPidTypes
<1>3. /\ n.idx \in Indices(procs) /\ procs[n.idx] = NoPid
      /\ \A q \in Pids : Known(procs, toDestroy, dying, freed, q)
                          /\ q.idx = n.idx => q.ver < n.ver
  BY AllocInv DEF Table
<1>4. \A q \in Pids : InTable(procs, q) <=> InTable(processes, q)
  BY NextPidInTable
<1> HIDE DEF n, procs
<1>5. ~Known(procs, toDestroy, dying, freed, n)
  <2>1. ~(n.ver < n.ver)
    BY <1>1, PidFields, BoundsAssumption
  <2> QED BY <1>1, <1>3, <2>1
<1>6. \A q \in Pids : InTable(processes', q) <=> InTable(procs, q) \/ q = n
  <2>1. /\ Indices(processes') = Indices(procs) /\ processes'[n.idx] = n
        /\ \A i \in Indices(procs) : i # n.idx => processes'[i] = procs[i]
    BY <1>1, <1>2, <1>3, ExceptSeq DEF Indices, PidOrNone
  <2> QED BY <1>3, <2>1, PidFields DEF InTable
<1> QED BY <1>1, <1>4, <1>5, <1>6 DEF Known, n

LEMMA ConstructFresh ==
  ASSUME TypeOK, Table, NEW kill, NEW notify, NEW back,
         Construct(kill, notify, back)
  PROVE  /\ NextPid \in Pids /\ UNCHANGED <<toDestroy, dying, freed>>
         /\ ~Known(processes, toDestroy, dying, freed, NextPid)
         /\ \A q \in Pids : InTable(processes', q)
                              <=> InTable(processes, q) \/ q = NextPid
BY ConstructedFresh DEF Construct, loopVars, memVars

LEMMA ConstructedTable ==
  ASSUME TypeOK, Table, NEW kill, NEW notify, NEW back,
         Constructed(kill, notify, back), UNCHANGED <<toDestroy, dying, freed>>
  PROVE  Table' /\ KeepsProcesses
<1> DEFINE n == NextPid
           procs == NextPidProcesses
           tombs == NextPidTombstones
<1>1. /\ n \in Pids /\ processes' = [procs EXCEPT ![n.idx] = n]
      /\ tombstones' = tombs
      /\ toDestroy' = toDestroy /\ dying' = dying /\ freed' = freed
  BY DEF Constructed
<1>2. procs \in Seq(PidOrNone) /\ tombs \in Seq(Pids)
  BY NextPidTypes
<1>3. /\ TableInv(procs, tombs, toDestroy, dying, freed)
      /\ n.idx \in Indices(procs) /\ procs[n.idx] = NoPid
      /\ \A j \in Indices(tombs) : tombs[j].idx # n.idx
      /\ \A q \in Pids : Known(procs, toDestroy, dying, freed, q)
                          /\ q.idx = n.idx => q.ver < n.ver
  BY AllocInv DEF Table
<1> HIDE DEF n, procs, tombs
<1>4. TableInv(processes', tombs, toDestroy, dying, freed)
  BY <1>1, <1>2, <1>3, PlaceInv
<1>5. KeepsProcesses
  BY <1>1, ConstructedFresh DEF KeepsProcesses
<1> QED BY <1>1, <1>4, <1>5 DEF Table

LEMMA ConstructTable ==
  ASSUME TypeOK, Table, NEW kill, NEW notify, NEW back,
         Construct(kill, notify, back)
  PROVE  Table' /\ KeepsProcesses
BY ConstructedTable DEF Construct, loopVars, memVars

\* What addtoDestroy(p) does to the processes.
MovesOut(p) ==
  \A q \in Pids :
    /\ InTable(processes', q) <=> InTable(processes, q) /\ q # p
    /\ InDoom(toDestroy', q)
         <=> InDoom(toDestroy, q) \/ (q = p /\ InTable(processes, p))

\* addtoDestroy(), on the table as it is or as nextPid() left it.
LEMMA AddToDestroyTable ==
  ASSUME TypeOK, NEW p \in Pids,
         NEW procs \in Seq(PidOrNone), NEW tombs \in Seq(Pids),
         TableInv(procs, tombs, toDestroy, dying, freed),
         \A q \in Pids : InTable(procs, q) <=> InTable(processes, q),
         AddToDestroy(p, procs, tombs), UNCHANGED <<dying, freed>>
  PROVE  Table' /\ KeepsProcesses /\ MovesOut(p)
<1>0. InTable(procs, p) <=> Found(procs, p)
  BY InTableIsFound DEF TableInv, Owned
<1>1. CASE Found(procs, p)
  <2>1. /\ processes' = [procs EXCEPT ![p.idx] = NoPid]
        /\ tombstones' = Append(tombs, p) /\ toDestroy' = Append(toDestroy, p)
    BY <1>1 DEF AddToDestroy, MovedOut, Buried
  <2>2. toDestroy \in Seq(Pids)
    BY DEF TypeOK
  <2>3. /\ TableInv(processes', tombstones', toDestroy', dying, freed)
        /\ \A q \in Pids : InTable(processes', q) <=> InTable(procs, q) /\ q # p
        /\ \A q \in Pids : InDoom(toDestroy', q) <=> InDoom(toDestroy, q) \/ q = p
    BY <1>1, <2>1, <2>2, RemoveInv
  <2> QED BY <1>0, <1>1, <2>3 DEF Table, KeepsProcesses, MovesOut
<1>2. CASE ~Found(procs, p)
  BY <1>0, <1>2 DEF AddToDestroy, Table, KeepsProcesses, MovesOut
<1> QED BY <1>1, <1>2

LEMMA EndsTable ==
  ASSUME TypeOK, Table, NEW p \in Pids,
         AddToDestroy(p, processes, tombstones), UNCHANGED <<dying, freed>>
  PROVE  Table' /\ KeepsProcesses /\ MovesOut(p)
<1>1. processes \in Seq(PidOrNone) /\ tombstones \in Seq(Pids)
  BY DEF TypeOK
<1> QED BY <1>1, AddToDestroyTable DEF Table

\* A coroutine ends, in its own code or in the constructor of a process it
\* spawns.
LEMMA CoroutineEnds ==
  ASSUME TypeOK, Table, NEW p \in Pids, UNCHANGED <<dying, freed>>,
         \/ Ends(p, processes, tombstones)
         \/ Ends(p, NextPidProcesses, NextPidTombstones)
  PROVE  Table' /\ KeepsProcesses /\ MovesOut(p)
<1>1. CASE Ends(p, processes, tombstones)
  BY <1>1, EndsTable DEF Ends
<1>2. CASE Ends(p, NextPidProcesses, NextPidTombstones)
  <2>1. NextPidProcesses \in Seq(PidOrNone) /\ NextPidTombstones \in Seq(Pids)
    BY NextPidTypes
  <2>2. TableInv(NextPidProcesses, NextPidTombstones, toDestroy, dying, freed)
    BY AllocInv DEF Table
  <2> QED BY <1>2, <2>1, <2>2, NextPidInTable, AddToDestroyTable DEF Ends
<1> QED BY <1>1, <1>2

LEMMA ProcessStepTable ==
  ASSUME TypeOK, Table, NEW p \in Pids, ProcessStep(p)
  PROVE  Table' /\ KeepsProcesses
<1> USE DEF loopVars, memVars, tableVars
<1>1. CASE Spawn(p)
  BY <1>1, ConstructTable DEF Spawn
<1>2. CASE SpawnLink(p)
  BY <1>2, ConstructTable DEF SpawnLink
<1>3. CASE SpawnLinkNotify(p)
  BY <1>3, ConstructTable DEF SpawnLinkNotify
<1>4. ASSUME NEW b \in Pids, SpawnCtorLink(p, b)
      PROVE  Table' /\ KeepsProcesses
  BY <1>4, ConstructTable DEF SpawnCtorLink
<1>5. ASSUME NEW b \in Pids, SpawnThrows(p, b)
      PROVE  Table' /\ KeepsProcesses
  BY <1>5, CoroutineEnds DEF SpawnThrows
<1>6. ASSUME NEW b \in Pids, Link(p, b)
      PROVE  Table' /\ KeepsProcesses
  BY <1>6, TableFrame DEF Link
<1>7. ASSUME NEW b \in Pids, QueueKill(p, b)
      PROVE  Table' /\ KeepsProcesses
  BY <1>7, EndsTable DEF QueueKill
<1>8. ASSUME NEW b \in Pids, Send(p, b)
      PROVE  Table' /\ KeepsProcesses
  BY <1>8, TableFrame DEF Send
<1>9. ASSUME NEW b \in Pids, SendThrottled(p, b)
      PROVE  Table' /\ KeepsProcesses
  BY <1>9, TableFrame DEF SendThrottled
<1>10. CASE CanQueueNull(p)
  BY <1>10, TableFrame DEF CanQueueNull
<1>11. CASE WaitForRoom(p)
  BY <1>11, TableFrame DEF WaitForRoom
<1>12. CASE ThrottledSend(p)
  BY <1>12, TableFrame DEF ThrottledSend
<1>13. CASE Receive(p)
  BY <1>13, TableFrame DEF Receive
<1>14. CASE AwaitResume(p)
  <2>1. UNCHANGED <<dying, freed>>
    BY <1>14 DEF AwaitResume
  <2>2. CASE UNCHANGED tableVars
    BY <2>1, <2>2, TableFrame
  <2>3. CASE Ends(p, processes, tombstones)
    BY <2>1, <2>3, CoroutineEnds
  <2> QED BY <1>14, <2>2, <2>3 DEF AwaitResume
<1>15. ASSUME NEW w \in Waits[p.idx], Suspend(p, w)
       PROVE  Table' /\ KeepsProcesses
  BY <1>15, TableFrame DEF Suspend
<1>16. CASE Finish(p)
  BY <1>16, CoroutineEnds DEF Finish
<1> QED BY <1>1, <1>2, <1>3, <1>4, <1>5, <1>6, <1>7, <1>8, <1>9, <1>10, <1>11,
           <1>12, <1>13, <1>14, <1>15, <1>16 DEF ProcessStep

LEMMA LoopStepTable ==
  ASSUME TypeOK, Table, LoopStep
  PROVE  Table' /\ KeepsProcesses
<1> USE DEF loopVars, memVars, tableVars, rest
<1>1. CASE Exit
  BY <1>1, TableFrame DEF Exit
<1>2. CASE ProcessMessage
  BY <1>2, TableFrame DEF ProcessMessage
<1>3. CASE ProcessResume
  BY <1>3, TableFrame DEF ProcessResume
<1>4. CASE RunOne
  BY <1>4, TableFrame DEF RunOne
<1>5. ASSUME NEW p \in Pids, TimerExpires(p)
      PROVE  Table' /\ KeepsProcesses
  BY <1>5, TableFrame DEF TimerExpires
<1>6. CASE RunAborted
  BY <1>6, TableFrame DEF RunAborted
<1>7. CASE RunTimer
  BY <1>7, TableFrame DEF RunTimer
<1>8. CASE RunContinuation
  BY <1>8, TableFrame DEF RunContinuation
<1>15. ASSUME NEW q \in Pids, RunReused(q)
       PROVE  Table' /\ KeepsProcesses
  BY <1>15, TableFrame DEF RunReused
<1>9. CASE HandlerCrashes
  BY <1>9, TableFrame DEF HandlerCrashes
<1>10. CASE EndPoll
  BY <1>10, TableFrame DEF EndPoll
<1>11. CASE DestroyNext
  <2>1. toDestroy \in Seq(Pids) /\ toDestroy # <<>> /\ dying = NoPid
    BY <1>11 DEF DestroyNext, TypeOK
  <2>2. /\ processes' = processes /\ tombstones' = tombstones /\ freed' = freed
        /\ toDestroy' = Tail(toDestroy) /\ dying' = Head(toDestroy)
    BY <1>11 DEF DestroyNext
  <2> QED BY <2>1, <2>2, DestroyNextInv DEF Table, KeepsProcesses
<1>12. ASSUME NEW q \in Pids, KillLinked(q)
       PROVE  Table' /\ KeepsProcesses
  BY <1>12, EndsTable DEF KillLinked
<1>13. CASE FinishDestroy
  <2>1. dying \in Pids
    BY <1>13 DEF FinishDestroy, TypeOK, PidOrNone
  <2>2. /\ UNCHANGED <<processes, tombstones, toDestroy>>
        /\ dying' = NoPid /\ freed' = freed \cup {dying}
    BY <1>13 DEF FinishDestroy
  <2> QED BY <2>1, <2>2, FreeInv DEF Table, KeepsProcesses
<1>14. CASE DestroyDone
  BY <1>14, TableFrame DEF DestroyDone
<1> QED BY <1>1, <1>2, <1>3, <1>4, <1>5, <1>6, <1>7, <1>8, <1>9, <1>10, <1>11,
           <1>12, <1>13, <1>14, <1>15 DEF LoopStep

LEMMA TableStep ==
  ASSUME TypeOK, Table, [Next]_vars
  PROVE  Table' /\ KeepsProcesses
<1> USE DEF vars, loopVars, memVars, tableVars, rest
<1>1. CASE MainSpawn
  BY <1>1, ConstructTable DEF MainSpawn
<1>2. CASE Run
  BY <1>2, TableFrame DEF Run
<1>3. ASSUME NEW p \in Pids, ProcessStep(p)
      PROVE  Table' /\ KeepsProcesses
  BY <1>3, ProcessStepTable
<1>4. CASE LoopStep
  BY <1>4, LoopStepTable
<1>5. CASE Terminated \/ UNCHANGED vars
  BY <1>5, TableFrame DEF Terminated
<1> QED BY <1>1, <1>2, <1>3, <1>4, <1>5 DEF Next

LEMMA TableCorrect == Spec => [](TypeOK /\ Table)
<1>1. Init => TypeOK /\ Table
  BY TypeInit, TableInit
<1>2. TypeOK /\ Table /\ [Next]_vars => (TypeOK /\ Table)'
  BY TypeStep, TableStep
<1> QED BY <1>1, <1>2, PTL DEF Spec

\* Every RunningProcess has exactly one owner at any time: addtoDestroy() and
\* destroy() move the unique_ptr, and no entry of the table is overwritten.
THEOREM ProcessesOwnedOnce == Spec => []OwnedOnce
<1>1. TypeOK /\ Table => OwnedOnce
  <2> SUFFICES ASSUME TypeOK, Table PROVE OwnedOnce
    OBVIOUS
  <2>1. \A p \in Pids : /\ Live(p) <=> InTable(processes, p)
                        /\ Doomed(p) <=> p = dying \/ InDoom(toDestroy, p)
    BY DEF Live, Doomed, InTable, InDoom, Indices
  <2> QED BY <2>1 DEF Table, TableInv, Owned, OwnedOnce, InDoom
<1> QED BY <1>1, TableCorrect, PTL

\* A pid whose process has died never names a living process again: nextPid()
\* gives a recycled index a version it has not had.
THEOREM PidsAreFresh == Spec => PidsNeverReused
<1> DEFINE Step == \A p \in Pids : Born(p) /\ Dead(p) => Dead(p)'
<1>1. TypeOK /\ Table /\ [Next]_vars => [Step]_vars
  <2> SUFFICES ASSUME TypeOK, Table, [Next]_vars, NEW p \in Pids, Born(p), Dead(p)
               PROVE  Dead(p)'
    OBVIOUS
  <2>1. /\ Live(p) <=> InTable(processes, p)
        /\ Live(p)' <=> InTable(processes', p)
        /\ Born(p) => Known(processes, toDestroy, dying, freed, p)
    BY DEF Live, Born, Doomed, InTable, InDoom, Known, Indices
  <2>2. KeepsProcesses
    BY TableStep
  <2> QED BY <2>1, <2>2 DEF KeepsProcesses, Dead
<1> QED BY <1>1, TableCorrect, PTL DEF Spec, PidsNeverReused
=============================================================================
