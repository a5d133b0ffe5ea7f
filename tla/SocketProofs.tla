---------------------------- MODULE SocketProofs ----------------------------
(***************************************************************************)
(* Theorems about a connection, for every number of chunks and blocks,      *)
(* every throttle and every owner.                                          *)
(***************************************************************************)
EXTENDS SocketProcess, MessageQueueProofs, FiniteSetTheorems

-----------------------------------------------------------------------------
(* Types, more detailed than TypeOK: a BufferCollection of the model has two *)
(* Buffers, and a message is for the process that has its slot.              *)

Payloads(s) == IF s = "send_many_data" THEN {b \in Seq(Seq(Nat)) : Len(b) = 2}
                                       ELSE Seq(Nat)
AnyPayload == Seq(Nat) \cup Seq(Seq(Nat))
Calls == {m \in [slot : Slots, body : AnyPayload] : m.body \in Payloads(m.slot)}
Items ==
  {i \in [kind : {"message", "resume", "onReady"}, pid : Processes, slot : Slots,
          body : AnyPayload, resume : Nat] :
     /\ i.body \in Payloads(i.slot)
     /\ i.kind = "message" => i.pid = Receiver(i.slot)}

SocketPcs == {"start", "handshake", "init", "loop", "canQueue", "yield", "room",
              "check", "written", "buffers"}
OwnerPcs == {"start", "user", "canQueue", "yield", "room", "recv", "sleep"}

\* A completed operation is one of the socket; only reads have data.
ProperHandlers ==
  {h \in Handlers : /\ h.kind # "continuation" => h.pid = "socket"
                    /\ h.kind = "continuation" => h.resumes > 0
                    /\ h.outcome = "data" => h.kind = "read"}

Continuations == {h \in ProperHandlers : h.kind = "continuation"}

ControlTypes ==
  /\ program \in Programs
  /\ at \in {"top", "wait", "poll", "destroy", "crashed"}
  /\ running \in Processes \cup {Nobody}
  /\ life \in [Processes -> {"unborn", "alive", "dead", "freed"}]
  /\ pc \in [Processes -> SocketPcs \cup OwnerPcs]
  /\ pc["socket"] \in SocketPcs /\ pc["owner"] \in OwnerPcs
  /\ resumes \in [Processes -> Nat]

SlotsOK(b) ==
  /\ b = [s \in Slots |-> b[s]]
  /\ \A s \in Slots : /\ b[s] \in Queues(Payloads(s), Continuations)
                     /\ WellFormed(b[s])

DataTypes ==
  /\ queue \in Seq(Items)
  /\ ready \in Seq(ProperHandlers)
  /\ outgoing \in [Processes -> Calls]
  /\ SlotsOK(slots)
  /\ sock \in [eof_ : BOOLEAN, except_ : BOOLEAN, nextRead : Seq(Nat),
               isWriting : BOOLEAN, p_ : Promises(Continuations),
               hs : Promises(Continuations)]
  /\ net \in [reading : Nat, writing : Seq(Seq(Nat)), shaking : BOOLEAN,
              wire : Seq(Nat)]
  /\ log \in [fed : Nat, sent : Nat, received : Seq(Nat), taken : Seq(Nat)]

-----------------------------------------------------------------------------
(* Who is alive, who runs, and who has a token that will resume it *)

\* The loop resumes only the living, and destroys before it goes on.
Loop ==
  /\ running # Nobody => Alive(running) /\ at \in {"poll", "destroy"}
  /\ running # Nobody => resumes[running] > 0
  /\ at \in {"top", "wait"} => \A p \in Processes : life[p] # "dead"

\* The socket outlives its owner, and both are destroyed together.
Lives ==
  /\ life["socket"] # "unborn"
  /\ life["owner"] \in {"alive", "dead"} => life["socket"] \in {"alive", "dead"}

\* When the owner runs its own code, its socket is alive, or has died in the
\* poll() in which a timer resumed the owner.
Found ==
  /\ pc["owner"] = "sleep" => program.sleeps
  /\ running = "owner" /\ pc["owner"] \in {"start", "user", "recv"} =>
       \/ Alive("socket")
       \/ /\ program.sleeps /\ pc["owner"] # "start"
          /\ at = "poll" /\ life["socket"] = "dead"

Suspensions == {"start", "handshake", "init", "yield", "room", "written",
                "buffers", "recv", "sleep"}
Suspends ==
  at # "crashed" =>
    \A p \in Processes : Suspended(p) => pc[p] \in Suspensions

\* A token with number n of p: if p has not been resumed since then, it is
\* still suspended on an element of ws.
Token(p, n, ws) ==
  /\ n <= resumes[p]
  /\ n = resumes[p] /\ Alive(p) => running # p /\ pc[p] \in ws

HandlerToken(h) ==
  h # NoExec /\ h.kind = "continuation" =>
    Token(h.pid, h.resumes, {"handshake", "room", "written", "buffers"})

Tokens ==
  /\ \A i \in ToSet(queue) : i.kind = "resume" =>
       Token(i.pid, i.resume, {"start", "yield"})
  /\ \A h \in ToSet(ready) : HandlerToken(h)
  /\ HandlerToken(sock.p_.exec_) /\ HandlerToken(sock.hs.exec_)
  /\ \A s \in Slots : HandlerToken(slots[s].p_.exec_)

-----------------------------------------------------------------------------
(* The beginning of a connection *)

Early == {"start", "handshake", "init"}

\* At most one handler of a kind, and none.
Unique(s, kind) ==
  \A j, k \in 1..Len(s) : s[j].kind = kind /\ s[k].kind = kind => j = k
Absent(s, kind) == \A h \in ToSet(s) : h.kind # kind
NoReadHandler == Absent(ready, "read")
NoWriteHandler == Absent(ready, "write")

Beginning ==
  /\ pc["socket"] \in Early =>
       /\ net.reading = 0 /\ NoReadHandler /\ sock.nextRead = <<>>
       /\ log.fed = 0
       /\ ~sock.eof_ /\ ~sock.except_ /\ ~sock.isWriting
  /\ pc["socket"] \in {"start", "handshake"} =>
       /\ life["owner"] = "unborn"
       /\ Absent(queue, "onReady")
  /\ Unique(queue, "onReady")
  /\ life["owner"] # "unborn" => Absent(queue, "onReady")
  /\ life["owner"] = "unborn" =>
       /\ pc["socket"] \in Early /\ pc["owner"] = "start"
       /\ running = "socket" => pc["socket"] # "init"
       /\ resumes["owner"] = 0
       /\ Absent(queue, "message")
       /\ slots["recv"] = NewQueue /\ log.received = <<>>

-----------------------------------------------------------------------------
(* Reads *)

\* One read is pending, or complete and not handled, or in nextRead.
OneRead ==
  /\ net.reading \in 0..1
  /\ Unique(ready, "read")
  /\ net.reading = 1 \/ sock.nextRead # <<>> => NoReadHandler
  /\ sock.nextRead # <<>> => net.reading = 0 /\ program.throttled

\* What a sendThrottled() in progress sends.
Sending == {"canQueue", "yield", "room"}
Outgoing ==
  /\ pc["socket"] \in Sending =>
       /\ sock.nextRead # <<>>
       /\ outgoing["socket"] = [slot |-> "recv", body |-> sock.nextRead]
  /\ pc["owner"] \in Sending => outgoing["owner"].slot \in OutSlots

\* canQueue() lets a chunk pass: at most limit others are in queue_.
Passing == \/ pc["socket"] \in {"canQueue", "room"}
           \/ pc["socket"] = "yield" /\ running = "socket"
Yielded(i) == /\ queue[i].kind = "resume" /\ queue[i].pid = "socket"
              /\ queue[i].resume = resumes["socket"]
Bounded ==
  program.throttled =>
    /\ Passing => Cardinality(InFlight(Len(queue))) <= program.limit
    /\ pc["socket"] = "yield" =>
         \A i \in 1..Len(queue), j \in InFlight(Len(queue)) :
           Yielded(i) => j < i

-----------------------------------------------------------------------------
(* The coroutine of the socket and p_ *)

Noticed ==
  Alive("socket") =>
    /\ pc["socket"] \in {"loop", "check"} => running = "socket"
    /\ pc["socket"] = "check" => sock.nextRead = <<>>
    /\ pc["socket"] \in {"canQueue", "yield", "room", "check"} /\ sock.eof_
         => sock.p_.set_
    /\ pc["socket"] \in {"loop", "canQueue", "yield", "room", "check"}
       /\ sock.except_ => sock.p_.set_

Woken == Continuation("socket") \in ToSet(ready)
Wakes ==
  Suspended("socket") /\ pc["socket"] \in {"written", "buffers"} =>
    \/ Woken
    \/ /\ ~sock.p_.set_ /\ sock.p_.exec_ = Continuation("socket")
       /\ ~Actionable

-----------------------------------------------------------------------------
(* Writes *)

\* At most one write is pending or complete and not handled, while isWriting.
OneWrite ==
  /\ Len(net.writing) <= 1
  /\ Unique(ready, "write")
  /\ net.writing # <<>> => NoWriteHandler
  /\ ~sock.isWriting => net.writing = <<>> /\ NoWriteHandler
  /\ Alive("socket") /\ pc["socket"] = "buffers" => ~sock.isWriting

SocketInv ==
  /\ ControlTypes /\ DataTypes
  /\ Loop /\ Lives /\ Found /\ Suspends /\ Tokens
  /\ Beginning /\ OneRead /\ Outgoing /\ Bounded /\ ThrottledReadsBounded
  /\ Noticed /\ Wakes
  /\ OneWrite

-----------------------------------------------------------------------------
(* Types *)

\* The elements of a sequence.
LEMMA Elements ==
  ASSUME NEW S, NEW s \in Seq(S)
  PROVE  /\ ToSet(s) \subseteq S
         /\ \A k \in 1..Len(s) : s[k] \in ToSet(s)
         /\ \A e \in ToSet(s) : \E k \in 1..Len(s) : e = s[k]
         /\ \A e \in S : ToSet(Append(s, e)) = ToSet(s) \cup {e}
         /\ \A t \in Seq(S) : ToSet(s \o t) = ToSet(s) \cup ToSet(t)
<1>1. DOMAIN s = 1..Len(s) /\ Len(s) \in Nat
  BY LenProperties
<1>2. \A k \in 1..Len(s) : s[k] \in S
  BY ElementOfSeq
<1>3. ASSUME NEW e \in S PROVE ToSet(Append(s, e)) = ToSet(s) \cup {e}
  <2>1. /\ DOMAIN Append(s, e) = 1..(Len(s) + 1)
        /\ \A k \in 1..Len(s) : Append(s, e)[k] = s[k]
        /\ Append(s, e)[Len(s) + 1] = e
    BY <1>1, AppendProperties, LenProperties
  <2> QED BY <1>1, <2>1 DEF ToSet
<1>4. ASSUME NEW t \in Seq(S) PROVE ToSet(s \o t) = ToSet(s) \cup ToSet(t)
  <2>1. DOMAIN t = 1..Len(t) /\ Len(t) \in Nat
    BY LenProperties
  <2>2. /\ DOMAIN (s \o t) = 1..(Len(s) + Len(t))
        /\ \A k \in 1..Len(s) : (s \o t)[k] = s[k]
        /\ \A k \in 1..Len(t) : (s \o t)[Len(s) + k] = t[k]
    BY <1>1, <2>1, ConcatProperties, LenProperties
  <2>3. ToSet(s) \cup ToSet(t) \subseteq ToSet(s \o t)
    <3>1. ASSUME NEW k \in 1..Len(s) PROVE s[k] \in ToSet(s \o t)
      BY <1>1, <2>1, <2>2 DEF ToSet
    <3>2. ASSUME NEW k \in 1..Len(t) PROVE t[k] \in ToSet(s \o t)
      <4>1. Len(s) + k \in DOMAIN (s \o t)
        BY <1>1, <2>1, <2>2
      <4> QED BY <2>2, <4>1 DEF ToSet
    <3> QED BY <1>1, <2>1, <3>1, <3>2 DEF ToSet
  <2>4. ASSUME NEW k \in 1..(Len(s) + Len(t))
        PROVE  (s \o t)[k] \in ToSet(s) \cup ToSet(t)
    <3>1. CASE k <= Len(s)
      BY <1>1, <2>2, <3>1 DEF ToSet
    <3>2. CASE k > Len(s)
      <4>1. k - Len(s) \in 1..Len(t) /\ k = Len(s) + (k - Len(s))
        BY <1>1, <2>1, <3>2
      <4> QED BY <2>1, <2>2, <4>1 DEF ToSet
    <3> QED BY <1>1, <3>1, <3>2
  <2> QED BY <2>2, <2>3, <2>4 DEF ToSet
<1> QED BY <1>1, <1>2, <1>3, <1>4 DEF ToSet

\* The same for all items and all handlers.
LEMMA ElementsJoined ==
  /\ \A s \in Seq(Items), e \in Items : ToSet(Append(s, e)) = ToSet(s) \cup {e}
  /\ \A s \in Seq(ProperHandlers), e \in ProperHandlers :
       ToSet(Append(s, e)) = ToSet(s) \cup {e}
  /\ \A s, t \in Seq(ProperHandlers) : ToSet(s \o t) = ToSet(s) \cup ToSet(t)
BY Elements

LEMMA ElementsHead ==
  ASSUME NEW S, NEW s \in Seq(S), s # <<>>
  PROVE  /\ Head(s) \in ToSet(s) /\ Head(s) = s[1] /\ Len(s) > 0
         /\ Tail(s) \in Seq(S) /\ Len(Tail(s)) = Len(s) - 1
         /\ \A k \in 1..Len(Tail(s)) : Tail(s)[k] = s[k + 1]
         /\ ToSet(Tail(s)) \subseteq ToSet(s)
<1>1. /\ Len(s) \in Nat /\ Len(s) > 0 /\ DOMAIN s = 1..Len(s)
      /\ Head(s) = s[1] /\ Tail(s) \in Seq(S) /\ Len(Tail(s)) = Len(s) - 1
      /\ DOMAIN Tail(s) = 1..(Len(s) - 1)
  BY HeadTailProperties, LenProperties, EmptySeq
<1>2. \A k \in 1..Len(Tail(s)) : Tail(s)[k] = s[k + 1]
  BY <1>1
<1> QED BY <1>1, <1>2 DEF ToSet

\* An element that is not the first one is in the rest.
LEMMA NotFirst ==
  ASSUME NEW S, NEW s \in Seq(S), s # <<>>, NEW h \in ToSet(s), h # Head(s)
  PROVE  h \in ToSet(Tail(s)) /\ Tail(s) \in Seq(S)
<1>1. /\ Tail(s) \in Seq(S) /\ Len(s) \in Nat
      /\ Len(Tail(s)) = Len(s) - 1 /\ Head(s) = s[1]
      /\ \A k \in 1..Len(Tail(s)) : Tail(s)[k] = s[k + 1]
  BY ElementsHead, LenProperties
<1>2. PICK k \in 1..Len(s) : h = s[k]
  BY Elements
<1>3. k - 1 \in 1..Len(Tail(s)) /\ (k - 1) + 1 = k
  BY <1>1, <1>2
<1>4. Tail(s)[k - 1] = h
  BY <1>1, <1>2, <1>3
<1> QED BY <1>1, <1>3, <1>4, Elements

\* The front of queue_ and of the handlers.
LEMMA Fronts ==
  ASSUME DataTypes
  PROVE  /\ queue # <<>> => Head(queue) \in Items /\ Tail(queue) \in Seq(Items)
         /\ ready # <<>> => /\ Head(ready) \in ProperHandlers
                            /\ Tail(ready) \in Seq(ProperHandlers)
BY HeadTailProperties DEF DataTypes

LEMMA FrontOfQueue ==
  ASSUME DataTypes, queue # <<>>
  PROVE  /\ Head(queue) \in ToSet(queue)
         /\ Head(queue).pid \in Processes /\ Head(queue).slot \in Slots
         /\ Head(queue).body \in Payloads(Head(queue).slot)
         /\ Head(queue).resume \in Nat
         /\ Head(queue).kind = "message" =>
              Head(queue).pid = Receiver(Head(queue).slot)
BY Fronts, ElementsHead DEF Items, DataTypes

\* The owner is spawned once.
LEMMA FrontAnnounces ==
  ASSUME DataTypes, Beginning, queue # <<>>, Head(queue).kind = "onReady"
  PROVE  life["owner"] = "unborn" /\ pc["socket"] = "init"
<1>1. ~Absent(queue, "onReady")
  BY FrontOfQueue DEF Absent
<1> QED BY <1>1 DEF Beginning, Early

LEMMA FrontOfReady ==
  ASSUME DataTypes, ready # <<>>
  PROVE  /\ Head(ready) \in ToSet(ready) /\ Head(ready) # NoExec
         /\ Head(ready).pid \in Processes /\ Head(ready).resumes \in Nat
         /\ Head(ready).chunk \in Nat
         /\ Head(ready).outcome \in {"ok", "data", "eof", "error"}
         /\ Head(ready).kind # "continuation" => Head(ready).pid = "socket"
<1>1. Head(ready) # NoExec
  BY Fronts, NoExecAssumption DEF ProperHandlers
<1> QED BY <1>1, Fronts, ElementsHead DEF ProperHandlers, Handlers, DataTypes

\* What the loop of the socket does with what it has taken.
BuffersPost ==
  ready \o TakePosts("send_data") \o TakePosts("send_many_data")
Nothing == ~HasMessage("send_data") /\ ~HasMessage("send_many_data")

Many == Combine(Taken("send_many_data"))
Buff == IF HasMessage("send_data") THEN Taken("send_data") ELSE Many

LEMMA BuffersTaken ==
  ASSUME TakeBuffers
  PROVE  /\ InSocket("buffers")
         /\ UNCHANGED <<program, at, queue, resumes, outgoing>>
         /\ \/ /\ CheckExcept /\ Dies("socket") /\ ready' = BuffersPost
               /\ UNCHANGED <<pc, sock, net>>
            \/ /\ ~CheckExcept /\ Nothing /\ GoOn("socket", "loop")
               /\ ready' = BuffersPost /\ UNCHANGED <<life, sock, net>>
            \/ /\ ~CheckExcept /\ ~Nothing /\ GoOn("socket", "loop")
               /\ sock' = Writing(sock) /\ UNCHANGED life
               /\ \/ /\ net' = [net EXCEPT !.wire = @ \o Buff]
                     /\ ready' =
                          Append(BuffersPost, Completion("write", "ok", 0))
                  \/ /\ net' = [net EXCEPT !.writing = Append(@, Buff)]
                     /\ ready' = BuffersPost
         /\ log' = [log EXCEPT !.taken = @ \o Taken("send_data") \o Many]
BY Zenon DEF TakeBuffers, BuffersPost, Nothing, Many, Buff

\* resume() as far as control is concerned.
LEMMA ResumeControl ==
  ASSUME ControlTypes, NEW p \in Processes, NEW boxes,
         Resume(p, boxes) \/ NoResume(boxes)
  PROVE  /\ running' \in Processes \cup {Nobody}
         /\ life' \in [Processes -> {"unborn", "alive", "dead", "freed"}]
         /\ resumes' \in [Processes -> Nat]
<1>1. CASE NoResume(boxes)
  BY <1>1 DEF NoResume, ControlTypes
<1>2. CASE Resume(p, boxes)
  <2>1. \/ /\ Dies(p) /\ UNCHANGED resumes
        \/ /\ running' = p /\ UNCHANGED life
           /\ resumes' = [resumes EXCEPT ![p] = @ + 1]
    BY <1>2, Zenon DEF Resume
  <2> QED BY <2>1 DEF Dies, ControlTypes
<1> QED BY <1>1, <1>2

LEMMA ControlStep ==
  ASSUME ControlTypes, DataTypes, [Next]_vars
  PROVE  ControlTypes'
<1> USE FrontOfQueue, FrontOfReady DEF ControlTypes, SocketPcs, OwnerPcs, Processes
<1>1. CASE ProcessMessage
  <2>1. Head(queue).pid \in Processes
    BY <1>1 DEF ProcessMessage, TakesItem
  <2>2. PICK boxes : Resume(Head(queue).pid, boxes) \/ NoResume(boxes)
    BY <1>1, Zenon DEF ProcessMessage
  <2>3. /\ running' \in Processes \cup {Nobody}
        /\ life' \in [Processes -> {"unborn", "alive", "dead", "freed"}]
        /\ resumes' \in [Processes -> Nat]
    BY <2>1, <2>2, ResumeControl
  <2>4. UNCHANGED <<program, pc>> /\ at' = "destroy"
    BY <1>1, Zenon DEF ProcessMessage, TakesItem
  <2> QED BY <2>3, <2>4
<1>2. CASE ProcessResume
  <2>1. Head(queue).pid \in Processes
    BY <1>2 DEF ProcessResume, TakesItem
  <2>2. Resume(Head(queue).pid, slots) \/ NoResume(slots)
    BY <1>2, Zenon DEF ProcessResume
  <2>3. /\ running' \in Processes \cup {Nobody}
        /\ life' \in [Processes -> {"unborn", "alive", "dead", "freed"}]
        /\ resumes' \in [Processes -> Nat]
    BY <2>1, <2>2, ResumeControl
  <2>4. UNCHANGED <<program, pc>> /\ at' = "destroy"
    BY <1>2, Zenon DEF ProcessResume, TakesItem
  <2> QED BY <2>3, <2>4
<1>3. CASE ServerSpawnsOwner
  BY <1>3 DEF ServerSpawnsOwner, TakesItem
<1>4. CASE RunOne
  BY <1>4 DEF RunOne, procVars
<1>5. CASE RunContinuation
  <2>1. Head(ready).pid \in Processes
    BY <1>5 DEF RunContinuation, RunsHandler
  <2>2. Resume(Head(ready).pid, slots) \/ NoResume(slots)
    BY <1>5, Zenon DEF RunContinuation
  <2>3. /\ running' \in Processes \cup {Nobody}
        /\ life' \in [Processes -> {"unborn", "alive", "dead", "freed"}]
        /\ resumes' \in [Processes -> Nat]
    BY <2>1, <2>2, ResumeControl
  <2>4. UNCHANGED <<program, pc>> /\ at' = "poll"
    BY <1>5, Zenon DEF RunContinuation, RunsHandler
  <2> QED BY <2>3, <2>4
<1>6. CASE RunRead
  BY <1>6 DEF RunRead, RunsHandler, procVars
<1>7. CASE RunWrite
  BY <1>7 DEF RunWrite, RunsHandler, procVars
<1>8. CASE RunHandshake
  BY <1>8 DEF RunHandshake, RunsHandler, procVars
<1>9. CASE RunStaleHandler
  BY <1>9 DEF RunStaleHandler, procVars
<1>10. CASE EndPoll
  BY <1>10 DEF EndPoll, procVars
<1>11. CASE Destroy
  BY <1>11 DEF Destroy
<1>12. ASSUME NEW p \in Processes, CanQueueNull(p) PROVE ControlTypes'
  BY <1>12 DEF CanQueueNull, InCanQueue, procVars
<1>13. ASSUME NEW p \in Processes, WaitForRoom(p) PROVE ControlTypes'
  BY <1>13 DEF WaitForRoom, InCanQueue, Park
<1>14. ASSUME NEW p \in Processes, ThrottledSend(p) PROVE ControlTypes'
  BY <1>14 DEF ThrottledSend, InCanQueue, GoOn
<1>15. CASE Handshake
  BY <1>15 DEF Handshake, InSocket, Park
<1>16. CASE Announce
  BY <1>16 DEF Announce, InSocket, Park
<1>17. CASE Initialise
  BY <1>17 DEF Initialise, InSocket, GoOn
<1>18. CASE EndOfFile
  BY <1>18 DEF EndOfFile, InSocket, Dies
<1>19. CASE ForwardRead
  BY <1>19 DEF ForwardRead, InSocket, BeginSendThrottled, Park, GoOn
<1>20. CASE NothingToForward
  BY <1>20 DEF NothingToForward, InSocket, GoOn
<1>21. CASE AwaitWrite
  BY <1>21 DEF AwaitWrite, InSocket, ParkOnPromise, Park, GoOn
<1>22. CASE AwaitBuffers
  BY <1>22 DEF AwaitBuffers, InSocket, ParkOnPromise, Park, GoOn
<1>23. CASE WriteAwaited
  BY <1>23 DEF WriteAwaited, InSocket, Dies, GoOn
<1>24. CASE TakeBuffers
  BY <1>24, BuffersTaken DEF InSocket, Dies, GoOn
<1>25. CASE OwnerEnds
  BY <1>25 DEF OwnerEnds, InOwner, Dies
<1>26. CASE InitRecvSocket
  BY <1>26 DEF InitRecvSocket, InOwner, GoOn
<1>27. CASE AwaitChunk
  BY <1>27 DEF AwaitChunk, InOwner, Park, GoOn
<1>28. CASE TakeChunk
  BY <1>28 DEF TakeChunk, InOwner, GoOn
<1>29. ASSUME NEW call \in program.calls, OwnerSends(call) PROVE ControlTypes'
  BY <1>29 DEF OwnerSends, InOwner, BeginSendThrottled, Park, GoOn
<1>30. CASE ReadCompletes
  BY <1>30 DEF ReadCompletes, Completes, procVars
<1>31. CASE WriteCompletes
  BY <1>31 DEF WriteCompletes, Completes, procVars
<1>32. CASE HandshakeCompletes
  BY <1>32 DEF HandshakeCompletes, Completes, procVars
<1>33. CASE UNCHANGED vars
  BY <1>33 DEF vars, procVars
<1>34. CASE OwnerSleeps
  BY <1>34 DEF OwnerSleeps, InOwner, Park
<1>35. CASE TimerWakesOwner
  BY <1>35 DEF TimerWakesOwner
<1> QED BY <1>1, <1>2, <1>3, <1>4, <1>5, <1>6, <1>7, <1>8, <1>9, <1>10, <1>11,
  <1>12, <1>13, <1>14, <1>15, <1>16, <1>17, <1>18, <1>19, <1>20, <1>21, <1>22,
  <1>23, <1>24, <1>25, <1>26, <1>27, <1>28, <1>29, <1>30, <1>31, <1>32, <1>33,
  <1>34, <1>35
  DEF Next, Thread, Network

-----------------------------------------------------------------------------
(* Which steps change what *)

LEMMA ProgramStays ==
  ASSUME [Next]_vars
  PROVE  UNCHANGED program
BY Zenon DEF Next, Thread, Network, OwnerSleeps, TimerWakesOwner, vars, procVars,
  ProcessMessage, ProcessResume,
  ServerSpawnsOwner, RunOne, RunContinuation, RunRead, RunWrite, RunHandshake,
  RunStaleHandler, EndPoll, Destroy, CanQueueNull, WaitForRoom, ThrottledSend,
  Handshake, Announce, Initialise, EndOfFile, ForwardRead, NothingToForward,
  AwaitWrite, AwaitBuffers, WriteAwaited, TakeBuffers, OwnerEnds, InitRecvSocket,
  AwaitChunk, TakeChunk, OwnerSends, ReadCompletes, WriteCompletes,
  HandshakeCompletes, Completes

LEMMA QueueChanges ==
  ASSUME [Next]_vars
  PROVE  \/ UNCHANGED queue
         \/ ProcessMessage \/ ProcessResume \/ ServerSpawnsOwner \/ RunRead
         \/ Announce \/ ForwardRead \/ InitRecvSocket
         \/ \E p \in Processes : ThrottledSend(p)
         \/ \E call \in program.calls : OwnerSends(call)
BY BuffersTaken, Zenon DEF Next, Thread, Network, OwnerSleeps, TimerWakesOwner,
  vars, RunOne, procVars,
  RunContinuation, RunWrite, RunHandshake, RunStaleHandler, EndPoll, Destroy,
  CanQueueNull, WaitForRoom, Handshake, Initialise, EndOfFile, NothingToForward,
  AwaitWrite, AwaitBuffers, WriteAwaited, OwnerEnds, AwaitChunk, TakeChunk,
  ReadCompletes, Completes, WriteCompletes, HandshakeCompletes

LEMMA ReadyChanges ==
  ASSUME [Next]_vars
  PROVE  \/ UNCHANGED ready
         \/ RunContinuation \/ RunRead \/ RunWrite \/ RunHandshake
         \/ RunStaleHandler \/ Destroy \/ AwaitWrite \/ AwaitBuffers
         \/ TakeBuffers \/ TakeChunk \/ Network
         \/ \E p \in Processes : WaitForRoom(p)
BY Zenon DEF Next, Thread, OwnerSleeps, TimerWakesOwner, vars, ProcessMessage, ProcessResume,
  ServerSpawnsOwner, RunOne, procVars, EndPoll, CanQueueNull, ThrottledSend,
  Handshake, Announce, Initialise, EndOfFile, ForwardRead, NothingToForward,
  WriteAwaited, OwnerEnds, InitRecvSocket, AwaitChunk, OwnerSends

LEMMA OutgoingChanges ==
  ASSUME [Next]_vars
  PROVE  \/ UNCHANGED outgoing
         \/ ForwardRead
         \/ \E p \in Processes : ThrottledSend(p)
         \/ \E call \in program.calls : OwnerSends(call)
BY BuffersTaken, Zenon DEF Next, Thread, Network, OwnerSleeps, TimerWakesOwner,
  vars, ProcessMessage,
  ProcessResume, ServerSpawnsOwner, RunOne, procVars, RunContinuation, RunRead,
  RunWrite, RunHandshake, RunStaleHandler, EndPoll, Destroy, CanQueueNull,
  WaitForRoom, Handshake, Announce, Initialise, EndOfFile, NothingToForward,
  AwaitWrite, AwaitBuffers, WriteAwaited, OwnerEnds, InitRecvSocket, AwaitChunk,
  TakeChunk, ReadCompletes, Completes, WriteCompletes, HandshakeCompletes

LEMMA SlotsChanges ==
  ASSUME [Next]_vars
  PROVE  \/ UNCHANGED slots
         \/ ProcessMessage \/ ProcessResume \/ RunContinuation \/ Destroy
         \/ Initialise \/ TakeBuffers \/ TakeChunk
         \/ \E p \in Processes : WaitForRoom(p)
BY Zenon DEF Next, Thread, Network, OwnerSleeps, TimerWakesOwner, vars, ServerSpawnsOwner, RunOne, procVars,
  RunRead, RunWrite, RunHandshake, RunStaleHandler, EndPoll, CanQueueNull,
  ThrottledSend, Handshake, Announce, EndOfFile, ForwardRead, NothingToForward,
  AwaitWrite, AwaitBuffers, WriteAwaited, OwnerEnds, InitRecvSocket, AwaitChunk,
  OwnerSends, ReadCompletes, Completes, WriteCompletes, HandshakeCompletes

LEMMA SockChanges ==
  ASSUME [Next]_vars
  PROVE  \/ UNCHANGED sock
         \/ ProcessMessage \/ ProcessResume \/ RunContinuation \/ RunRead
         \/ RunWrite \/ RunHandshake \/ Handshake \/ AwaitWrite \/ AwaitBuffers
         \/ TakeBuffers
         \/ \E p \in Processes : ThrottledSend(p)
BY Zenon DEF Next, Thread, Network, OwnerSleeps, TimerWakesOwner, vars, ServerSpawnsOwner, RunOne, procVars,
  RunStaleHandler, EndPoll, Destroy, CanQueueNull, WaitForRoom, Announce,
  Initialise, EndOfFile, ForwardRead, NothingToForward, WriteAwaited, OwnerEnds,
  InitRecvSocket, AwaitChunk, TakeChunk, OwnerSends, ReadCompletes, Completes,
  WriteCompletes, HandshakeCompletes

LEMMA NetChanges ==
  ASSUME [Next]_vars
  PROVE  \/ UNCHANGED net
         \/ RunRead \/ Destroy \/ Handshake \/ Initialise \/ TakeBuffers
         \/ Network
         \/ \E p \in Processes : ThrottledSend(p)
BY Zenon DEF Next, Thread, OwnerSleeps, TimerWakesOwner, vars, ProcessMessage, ProcessResume,
  ServerSpawnsOwner, RunOne, procVars, RunContinuation, RunWrite, RunHandshake,
  RunStaleHandler, EndPoll, CanQueueNull, WaitForRoom, Announce, EndOfFile,
  ForwardRead, NothingToForward, AwaitWrite, AwaitBuffers, WriteAwaited,
  OwnerEnds, InitRecvSocket, AwaitChunk, TakeChunk, OwnerSends

LEMMA LogChanges ==
  ASSUME [Next]_vars
  PROVE  \/ UNCHANGED log
         \/ TakeBuffers \/ TakeChunk \/ ReadCompletes
         \/ \E call \in program.calls : OwnerSends(call)
BY Zenon DEF Next, Thread, Network, OwnerSleeps, TimerWakesOwner, vars, ProcessMessage, ProcessResume,
  ServerSpawnsOwner, RunOne, procVars, RunContinuation, RunRead, RunWrite,
  RunHandshake, RunStaleHandler, EndPoll, Destroy, CanQueueNull, WaitForRoom,
  ThrottledSend, Handshake, Announce, Initialise, EndOfFile, ForwardRead,
  NothingToForward, AwaitWrite, AwaitBuffers, WriteAwaited, OwnerEnds,
  InitRecvSocket, AwaitChunk, WriteCompletes, Completes, HandshakeCompletes

-----------------------------------------------------------------------------
(* The living and the running *)

LEMMA LivesStep ==
  ASSUME ControlTypes, DataTypes, Loop, Lives, Suspends, Beginning, [Next]_vars
  PROVE  Loop' /\ Lives' /\ Suspends'
<1> DEFINE Goal == Loop' /\ Lives' /\ Suspends'
<1> USE FrontOfQueue, FrontOfReady
    DEF ControlTypes, Loop, Lives, Suspends, Suspended, Alive, Processes, Nobody,
        Suspensions
<1>1. CASE ProcessMessage
  BY <1>1 DEF ProcessMessage, TakesItem, Resume, NoResume, Dies
<1>2. CASE ProcessResume
  BY <1>2 DEF ProcessResume, TakesItem, Resume, NoResume, Dies
<1>3. CASE ServerSpawnsOwner
  BY <1>3, FrontAnnounces DEF ServerSpawnsOwner, TakesItem, Beginning
<1>4. CASE RunOne
  BY <1>4 DEF RunOne, procVars
<1>5. CASE RunContinuation
  BY <1>5 DEF RunContinuation, RunsHandler, Resume, NoResume, Dies
<1>6. CASE RunRead
  BY <1>6 DEF RunRead, RunsHandler, procVars
<1>7. CASE RunWrite
  BY <1>7 DEF RunWrite, RunsHandler, procVars
<1>8. CASE RunHandshake
  BY <1>8 DEF RunHandshake, RunsHandler, procVars
<1>9. CASE RunStaleHandler
  BY <1>9 DEF RunStaleHandler, procVars
<1>10. CASE EndPoll
  BY <1>10 DEF EndPoll, procVars
<1>11. CASE Destroy
  BY <1>11 DEF Destroy, Destroyed
<1>12. ASSUME NEW p \in Processes, CanQueueNull(p) PROVE Goal
  BY <1>12 DEF CanQueueNull, InCanQueue, procVars
<1>13. ASSUME NEW p \in Processes, WaitForRoom(p) PROVE Goal
  BY <1>13 DEF WaitForRoom, InCanQueue, Park
<1>14. ASSUME NEW p \in Processes, ThrottledSend(p) PROVE Goal
  BY <1>14 DEF ThrottledSend, InCanQueue, GoOn
<1>15. CASE Handshake
  BY <1>15 DEF Handshake, InSocket, Park
<1>16. CASE Announce
  BY <1>16 DEF Announce, InSocket, Park
<1>17. CASE Initialise
  BY <1>17 DEF Initialise, InSocket, GoOn
<1>18. CASE EndOfFile
  BY <1>18 DEF EndOfFile, InSocket, Dies
<1>19. CASE ForwardRead
  BY <1>19 DEF ForwardRead, InSocket, BeginSendThrottled, Park, GoOn
<1>20. CASE NothingToForward
  BY <1>20 DEF NothingToForward, InSocket, GoOn
<1>21. CASE AwaitWrite
  BY <1>21 DEF AwaitWrite, InSocket, ParkOnPromise, Park, GoOn
<1>22. CASE AwaitBuffers
  BY <1>22 DEF AwaitBuffers, InSocket, ParkOnPromise, Park, GoOn
<1>23. CASE WriteAwaited
  BY <1>23 DEF WriteAwaited, InSocket, Dies, GoOn
<1>24. CASE TakeBuffers
  BY <1>24, BuffersTaken DEF InSocket, Dies, GoOn
<1>25. CASE OwnerEnds
  BY <1>25 DEF OwnerEnds, InOwner, Dies
<1>26. CASE InitRecvSocket
  BY <1>26 DEF InitRecvSocket, InOwner, GoOn
<1>27. CASE AwaitChunk
  BY <1>27 DEF AwaitChunk, InOwner, Park, GoOn
<1>28. CASE TakeChunk
  BY <1>28 DEF TakeChunk, InOwner, GoOn
<1>29. ASSUME NEW call \in program.calls, OwnerSends(call) PROVE Goal
  BY <1>29 DEF OwnerSends, InOwner, BeginSendThrottled, Park, GoOn
<1>30. CASE ReadCompletes
  BY <1>30 DEF ReadCompletes, Completes, procVars
<1>31. CASE WriteCompletes
  BY <1>31 DEF WriteCompletes, Completes, procVars
<1>32. CASE HandshakeCompletes
  BY <1>32 DEF HandshakeCompletes, Completes, procVars
<1>33. CASE UNCHANGED vars
  BY <1>33 DEF vars, procVars
<1>34. CASE OwnerSleeps
  BY <1>34 DEF OwnerSleeps, InOwner, Park
<1>35. CASE TimerWakesOwner
  BY <1>35 DEF TimerWakesOwner
<1> QED BY <1>1, <1>2, <1>3, <1>4, <1>5, <1>6, <1>7, <1>8, <1>9, <1>10, <1>11,
  <1>12, <1>13, <1>14, <1>15, <1>16, <1>17, <1>18, <1>19, <1>20, <1>21, <1>22,
  <1>23, <1>24, <1>25, <1>26, <1>27, <1>28, <1>29, <1>30, <1>31, <1>32, <1>33,
  <1>34, <1>35
  DEF Next, Thread, Network

-----------------------------------------------------------------------------
(* Types of the data *)

LEMMA NewItems ==
  /\ \A s \in Slots : \A b \in Payloads(s) : MessageItem(s, b) \in Items
  /\ \A p \in Processes : \A n \in Nat : ResumeItem(p, n) \in Items
  /\ ReadyItem \in Items
<1>1. <<>> \in Seq(Nat)
  OBVIOUS
<1>2. ASSUME NEW s \in Slots PROVE Receiver(s) \in Processes
                                   /\ Payloads(s) \subseteq AnyPayload
  BY DEF Receiver, Processes, Payloads, AnyPayload
<1>3. ASSUME NEW s \in Slots, NEW b \in Payloads(s)
      PROVE  MessageItem(s, b) \in Items
  BY <1>2 DEF MessageItem, Items
<1>4. "init" \in Slots /\ Payloads("init") = Seq(Nat)
  BY DEF Slots, Payloads
<1>5. ASSUME NEW p \in Processes, NEW n \in Nat
      PROVE  ResumeItem(p, n) \in Items
  BY <1>1, <1>4 DEF ResumeItem, Items, AnyPayload
<1>6. ReadyItem \in Items
  BY <1>1, <1>4 DEF ReadyItem, Items, AnyPayload, Processes
<1> QED BY <1>3, <1>5, <1>6

LEMMA NewHandlers ==
  ASSUME ControlTypes
  PROVE  /\ \A p \in Processes : resumes[p] > 0 =>
              Continuation(p) \in Continuations
         /\ \A op \in {"read", "write", "handshake"},
               outcome \in {"ok", "data", "eof", "error"}, n \in Nat :
              (outcome = "data" => op = "read")
                => Completion(op, outcome, n) \in ProperHandlers
BY DEF ControlTypes, Continuation, Completion, Continuations, ProperHandlers,
       Handlers, Processes

\* The chunk of nextRead and the arguments of the Tcp calls.
LEMMA Arguments ==
  ASSUME DataTypes, NEW call \in {"send", "sendMany", "sendThrottled",
                                  "sendManyThrottled"}
  PROVE  /\ OutSlot(call) \in OutSlots /\ OutSlot(call) \in Slots
         /\ Argument(call) \in Payloads(OutSlot(call))
         /\ Blocks(call) \in {1, 2}
<1>1. log.sent \in Nat
  BY DEF DataTypes
<1>2. /\ <<log.sent + 1>> \in Seq(Nat) /\ <<log.sent + 2>> \in Seq(Nat)
  BY <1>1
<1>3. << <<log.sent + 1>>, <<log.sent + 2>> >> \in Seq(Seq(Nat))
  BY <1>2
<1>4. Len(<< <<log.sent + 1>>, <<log.sent + 2>> >>) = 2
  OBVIOUS
<1>5. OutSlot(call) \in {"send_data", "send_many_data"}
  BY DEF OutSlot
<1> QED BY <1>2, <1>3, <1>4, <1>5
        DEF OutSlots, Slots, Argument, Payloads, Blocks

LEMMA ProgramTypes ==
  ASSUME ControlTypes
  PROVE  /\ program.throttled \in BOOLEAN /\ program.limit \in Nat
         /\ \A call \in program.calls :
              call \in {"send", "sendMany", "sendThrottled", "sendManyThrottled"}
BY SocketAssumption DEF ControlTypes

LEMMA QueueTyped ==
  ASSUME ControlTypes, DataTypes, [Next]_vars
  PROVE  queue' \in Seq(Items)
<1> USE NewItems
<1>0. /\ queue \in Seq(Items)
      /\ \A p \in {"socket", "owner"} : ResumeItem(p, resumes[p]) \in Items
  BY DEF DataTypes, ControlTypes, Processes
<1>1. CASE ProcessMessage \/ ProcessResume
  BY <1>1, Fronts DEF ProcessMessage, ProcessResume, TakesItem
<1>2. CASE ServerSpawnsOwner
  BY <1>2, Fronts DEF ServerSpawnsOwner, TakesItem, Processes
<1>3. CASE RunRead
  <2>1. <<Head(ready).chunk>> \in Payloads("recv") /\ "recv" \in Slots
    BY <1>3, FrontOfReady DEF RunRead, RunsHandler, Payloads, Slots
  <2>2. MessageItem("recv", <<Head(ready).chunk>>) \in Items
    BY <2>1
  <2>3. \/ queue' = queue
        \/ queue' = Append(queue, MessageItem("recv", <<Head(ready).chunk>>))
    BY <1>3, Zenon DEF RunRead
  <2> QED BY <1>0, <2>2, <2>3
<1>4. CASE Announce
  BY <1>4 DEF Announce, DataTypes
<1>5. CASE ForwardRead
  BY <1>5, <1>0 DEF ForwardRead, BeginSendThrottled
<1>6. CASE InitRecvSocket
  <2>1. <<>> \in Payloads("init") /\ "init" \in Slots
    BY DEF Payloads, Slots
  <2> QED BY <1>6, <2>1 DEF InitRecvSocket, DataTypes
<1>7. ASSUME NEW p \in Processes, ThrottledSend(p) PROVE queue' \in Seq(Items)
  BY <1>7 DEF ThrottledSend, DataTypes, Calls
<1>8. ASSUME NEW call \in program.calls, OwnerSends(call)
      PROVE  queue' \in Seq(Items)
  <2>1. /\ OutSlot(call) \in Slots /\ Argument(call) \in Payloads(OutSlot(call))
    BY Arguments, ProgramTypes
  <2> QED BY <1>8, <1>0, <2>1 DEF OwnerSends, BeginSendThrottled
<1>9. CASE UNCHANGED queue
  BY <1>9 DEF DataTypes
<1> QED BY <1>1, <1>2, <1>3, <1>4, <1>5, <1>6, <1>7, <1>8, <1>9, QueueChanges

LEMMA OutgoingTyped ==
  ASSUME ControlTypes, DataTypes, [Next]_vars
  PROVE  outgoing' \in [Processes -> Calls]
<1>1. CASE ForwardRead
  <2>1. [slot |-> "recv", body |-> sock.nextRead] \in Calls
    BY DEF DataTypes, Calls, Slots, Payloads, AnyPayload
  <2> QED BY <1>1, <2>1 DEF ForwardRead, BeginSendThrottled, DataTypes
<1>2. ASSUME NEW p \in Processes, ThrottledSend(p)
      PROVE  outgoing' \in [Processes -> Calls]
  <2>1. <<>> \in Seq(Nat)
    OBVIOUS
  <2>2. NoMessage \in Calls
    BY <2>1 DEF NoMessage, Calls, Slots, Payloads, AnyPayload
  <2> QED BY <1>2, <2>2 DEF ThrottledSend, DataTypes
<1>3. ASSUME NEW call \in program.calls, OwnerSends(call)
      PROVE  outgoing' \in [Processes -> Calls]
  <2>1. [slot |-> OutSlot(call), body |-> Argument(call)] \in Calls
    BY Arguments, ProgramTypes DEF Calls, Payloads, AnyPayload
  <2> QED BY <1>3, <2>1 DEF OwnerSends, BeginSendThrottled, DataTypes
<1>4. CASE UNCHANGED outgoing
  BY <1>4 DEF DataTypes
<1> QED BY <1>1, <1>2, <1>3, <1>4, OutgoingChanges

-----------------------------------------------------------------------------
(* The slots: their messages, and the promise of each *)

\* c is b with the promise x in slot s.
OnlyPromise(c, b, s, x) ==
  /\ c = [t \in Slots |-> c[t]]
  /\ \A t \in Slots : t # s => c[t] = b[t]
  /\ c[s] = [stackStorage |-> b[s].stackStorage, others |-> b[s].others,
             p_ |-> x]

LEMMA OnlyPromiseExcept ==
  ASSUME NEW b, SlotsOK(b), NEW s \in Slots, NEW x
  PROVE  OnlyPromise([b EXCEPT ![s].p_ = x], b, s, x)
<1>1. b[s] = [stackStorage |-> b[s].stackStorage, others |-> b[s].others,
              p_ |-> b[s].p_]
  BY DEF SlotsOK, Queues
<1> QED BY <1>1 DEF SlotsOK, OnlyPromise

LEMMA PromiseChanged ==
  ASSUME NEW b, SlotsOK(b), NEW s \in Slots, NEW x \in Promises(Continuations),
         NEW c, OnlyPromise(c, b, s, x)
  PROVE  /\ SlotsOK(c)
         /\ \A t \in Slots : /\ Contents(c[t]) = Contents(b[t])
                             /\ Size(c[t]) = Size(b[t])
                             /\ c[t].p_ = IF t = s THEN x ELSE b[t].p_
<1> DEFINE q == [stackStorage |-> b[s].stackStorage, others |-> b[s].others,
                 p_ |-> x]
<1>1. /\ b[s] = [stackStorage |-> b[s].stackStorage, others |-> b[s].others,
                 p_ |-> b[s].p_]
      /\ b[s].stackStorage \in {r \in Seq(Payloads(s)) : Len(r) <= 1}
      /\ b[s].others \in Seq(Payloads(s))
      /\ WellFormed(b[s])
  BY DEF SlotsOK, Queues
<1>2. /\ c = [t \in Slots |-> c[t]] /\ c[s] = q
      /\ \A t \in Slots : t # s => c[t] = b[t]
  BY <1>1 DEF SlotsOK, OnlyPromise
<1>3. q \in Queues(Payloads(s), Continuations) /\ WellFormed(q)
  BY <1>1 DEF Queues, WellFormed
<1>4. Contents(q) = Contents(b[s]) /\ Size(q) = Size(b[s])
  BY DEF Contents, Size
<1> HIDE DEF q
<1>5. SlotsOK(c)
  BY <1>2, <1>3 DEF SlotsOK
<1>6. ASSUME NEW t \in Slots
      PROVE  /\ Contents(c[t]) = Contents(b[t]) /\ Size(c[t]) = Size(b[t])
             /\ c[t].p_ = IF t = s THEN x ELSE b[t].p_
  BY <1>2, <1>4 DEF q
<1> QED BY <1>5, <1>6

LEMMA SlotChanged ==
  ASSUME NEW b, SlotsOK(b), NEW s \in Slots,
         NEW q \in Queues(Payloads(s), Continuations), WellFormed(q)
  PROVE  SlotsOK([b EXCEPT ![s] = q])
BY DEF SlotsOK

LEMMA SizeIsLen ==
  ASSUME NEW M, NEW H, NEW q \in Queues(M, H), WellFormed(q)
  PROVE  /\ Contents(q) \in Seq(M)
         /\ Size(q) = Len(Contents(q)) /\ Size(q) \in Nat
         /\ Size(q) > 0 <=> Contents(q) # <<>>
<1>1. /\ q.stackStorage \in Seq(M) /\ q.others \in Seq(M)
  BY DEF Queues
<1>2. Contents(q) \in Seq(M)
  BY <1>1, ConcatProperties DEF Contents
<1>3. CASE q.stackStorage = <<>>
  BY <1>1, <1>2, <1>3 DEF Size, Contents, WellFormed
<1>4. CASE q.stackStorage # <<>>
  <2>1. Size(q) > 0
    BY <1>1, <1>4 DEF Size
  <2> QED BY <1>2, <2>1, PopContents, QueueTypes
<1> QED BY <1>3, <1>4

\* pop(), also of a queue that is empty.
LEMMA PopTypes ==
  ASSUME NEW M, NEW H, NEW q \in Queues(M, H), WellFormed(q), NEW m \in M
  PROVE  /\ Pop(q) \in Queues(M, H) /\ WellFormed(Pop(q))
         /\ PopPosts(q) \in Seq(H)
<1>1. CASE q.stackStorage = <<>>
  <2>1. q.others = <<>>
    BY <1>1 DEF WellFormed
  <2>2. Popped(q).others = <<>>
    BY <2>1 DEF Popped, Queues
  <2>3. Pop(q).others = <<>>
    BY <2>2 DEF Pop, Popped, Queues
  <2> QED BY <2>3, QueueTypes DEF WellFormed
<1>2. CASE q.stackStorage # <<>>
  <2>1. Size(q) > 0
    BY <1>2 DEF Size, Queues
  <2> QED BY <2>1, PopContents, QueueTypes
<1> QED BY <1>1, <1>2

\* What get_optional() leaves, posts and returns.
LEMMA TakeTypes ==
  ASSUME DataTypes, NEW s \in Slots
  PROVE  /\ Remaining(s) \in Queues(Payloads(s), Continuations)
         /\ WellFormed(Remaining(s))
         /\ TakePosts(s) \in Seq(Continuations)
         /\ HasMessage(s) => /\ Contents(slots[s]) # <<>>
                             /\ Taken(s) = Head(Contents(slots[s]))
                             /\ Taken(s) \in Payloads(s)
                             /\ Contents(Remaining(s)) = Tail(Contents(slots[s]))
         /\ ~HasMessage(s) => /\ Taken(s) = <<>> /\ Contents(slots[s]) = <<>>
                              /\ Remaining(s) = slots[s]
<1>1. /\ slots[s] \in Queues(Payloads(s), Continuations)
      /\ WellFormed(slots[s])
  BY DEF DataTypes, SlotsOK
<1>2. CASE HasMessage(s)
  <2>1. Size(slots[s]) > 0
    BY <1>2 DEF HasMessage
  <2>2. /\ Contents(slots[s]) # <<>>
        /\ Oldest(slots[s]) = Head(Contents(slots[s]))
        /\ Contents(Pop(slots[s])) = Tail(Contents(slots[s]))
        /\ Contents(slots[s]) \in Seq(Payloads(s))
    BY <1>1, <2>1, PopContents, SizeIsLen
  <2>3. Head(Contents(slots[s])) \in Payloads(s)
    BY <2>2, HeadTailProperties
  <2> QED BY <1>1, <1>2, <2>2, <2>3, PopTypes DEF Remaining, TakePosts, Taken
<1>3. CASE ~HasMessage(s)
  <2>1. Contents(slots[s]) = <<>>
    BY <1>1, <1>3, SizeIsLen DEF HasMessage
  <2>2. <<>> \in Seq(Continuations)
    OBVIOUS
  <2> QED BY <1>1, <1>3, <2>1, <2>2 DEF Remaining, TakePosts, Taken
<1> QED BY <1>2, <1>3

\* A process that is resumed consumes the promise it waited on.
LEMMA ResumeSlots ==
  ASSUME ControlTypes, DataTypes, NEW p \in Processes, NEW boxes, SlotsOK(boxes),
         Resume(p, boxes) \/ NoResume(boxes)
  PROVE  /\ SlotsOK(slots')
         /\ \A t \in Slots :
              /\ Contents(slots'[t]) = Contents(boxes[t])
              /\ slots'[t].p_.exec_ \in {boxes[t].p_.exec_, NoExec}
<1> DEFINE s == outgoing[p].slot
<1>1. CASE slots' = boxes
  BY <1>1
<1>2. CASE slots' = [boxes EXCEPT ![s].p_ = Process(@)]
  <2>1. s \in Slots
    BY DEF DataTypes, Calls
  <2>2. boxes[s].p_ \in Promises(Continuations)
    BY <2>1 DEF SlotsOK, Queues
  <2>3. /\ Process(boxes[s].p_) \in Promises(Continuations)
        /\ Process(boxes[s].p_).exec_ \in {boxes[s].p_.exec_, NoExec}
    BY <2>2, SetTypes DEF Process, Promises
  <2>4. OnlyPromise(slots', boxes, s, Process(boxes[s].p_))
    BY <1>2, <2>1, OnlyPromiseExcept
  <2> DEFINE x == Process(boxes[s].p_)
  <2> HIDE DEF s, x
  <2>5. /\ SlotsOK(slots')
        /\ \A t \in Slots : /\ Contents(slots'[t]) = Contents(boxes[t])
                            /\ slots'[t].p_ = IF t = s THEN x ELSE boxes[t].p_
    BY <2>1, <2>3, <2>4, PromiseChanged DEF x
  <2> QED BY <2>3, <2>5 DEF x
<1> QED BY <1>1, <1>2 DEF Resume, NoResume

LEMMA MessageSlots ==
  ASSUME ControlTypes, DataTypes, ProcessMessage
  PROVE  LET i == Head(queue)
         IN /\ SlotsOK(slots')
            /\ i.slot \in Slots /\ i.pid = Receiver(i.slot)
            /\ \A t \in Slots :
                 /\ Contents(slots'[t]) =
                      IF t = i.slot /\ Alive(i.pid)
                      THEN Append(Contents(slots[t]), i.body)
                      ELSE Contents(slots[t])
                 /\ slots'[t].p_.exec_ \in {slots[t].p_.exec_, NoExec}
<1> DEFINE i == Head(queue)
           q == Push(slots[i.slot], i.body)
           boxes == [slots EXCEPT ![i.slot] = q]
<1>1. /\ i.slot \in Slots /\ i.pid = Receiver(i.slot) /\ i.pid \in Processes
      /\ i.body \in Payloads(i.slot)
  BY FrontOfQueue DEF ProcessMessage, TakesItem
<1>2. SlotsOK(slots)
  BY DEF DataTypes
<1>3. /\ slots[i.slot] \in Queues(Payloads(i.slot), Continuations)
      /\ WellFormed(slots[i.slot])
  BY <1>1, <1>2 DEF SlotsOK
<1>4. /\ q \in Queues(Payloads(i.slot), Continuations) /\ WellFormed(q)
      /\ Contents(q) = Append(Contents(slots[i.slot]), i.body)
  <2>1. q \in Queues(Payloads(i.slot), Continuations)
    BY <1>1, <1>3, QueueTypes, Zenon
  <2>2. WellFormed(q) /\ Contents(q) = Append(Contents(slots[i.slot]), i.body)
    BY <1>1, <1>3, PushAppends, Zenon
  <2> QED BY <2>1, <2>2
<1>5. q.p_ = slots[i.slot].p_
  BY <1>3 DEF Push, Queues
<1>6. /\ SlotsOK(boxes) /\ boxes[i.slot] = q
      /\ \A t \in Slots : t # i.slot => boxes[t] = slots[t]
  BY <1>1, <1>2, <1>4, SlotChanged DEF SlotsOK
<1>7. CASE ~Alive(i.pid)
  <2>1. slots' = slots
    BY <1>7, Zenon DEF ProcessMessage, NoResume
  <2> QED BY <1>1, <1>2, <1>7, <2>1
<1>8. CASE Alive(i.pid)
  <2>1. Resume(i.pid, boxes) \/ NoResume(boxes)
    BY <1>8 DEF ProcessMessage
  <2> HIDE DEF boxes, q
  <2>2. /\ SlotsOK(slots')
        /\ \A t \in Slots :
             /\ Contents(slots'[t]) = Contents(boxes[t])
             /\ slots'[t].p_.exec_ \in {boxes[t].p_.exec_, NoExec}
    BY <1>1, <1>6, <2>1, ResumeSlots
  <2> QED BY <1>1, <1>4, <1>5, <1>6, <1>8, <2>2
<1> QED BY <1>7, <1>8

\* The other ways to resume a process leave the messages alone.
LEMMA ResumedSlots ==
  ASSUME ControlTypes, DataTypes, ProcessResume \/ RunContinuation
  PROVE  /\ SlotsOK(slots')
         /\ \A t \in Slots :
              /\ Contents(slots'[t]) = Contents(slots[t])
              /\ slots'[t].p_.exec_ \in {slots[t].p_.exec_, NoExec}
<1>1. \E p \in Processes : Resume(p, slots) \/ NoResume(slots)
  <2>1. CASE ProcessResume
    BY <2>1, FrontOfQueue DEF ProcessResume, TakesItem
  <2>2. CASE RunContinuation
    BY <2>2, FrontOfReady DEF RunContinuation, RunsHandler
  <2> QED BY <2>1, <2>2
<1>2. SlotsOK(slots)
  BY DEF DataTypes
<1> QED BY <1>1, <1>2, ResumeSlots

\* Steps that change the promise of a slot, or take messages out.
LEMMA WaitSlots ==
  ASSUME ControlTypes, DataTypes, Loop, NEW p \in Processes, WaitForRoom(p)
  PROVE  /\ SlotsOK(slots')
         /\ \A t \in Slots :
              /\ Contents(slots'[t]) = Contents(slots[t])
              /\ slots'[t].p_.exec_ \in
                   {slots[t].p_.exec_, Continuation(p), NoExec}
<1> DEFINE s == outgoing[p].slot
           x == SetContinuation(slots[s].p_, Continuation(p))
<1>1. s \in Slots
  BY DEF DataTypes, Calls
<1>2. SlotsOK(slots) /\ slots[s].p_ \in Promises(Continuations)
  BY <1>1 DEF DataTypes, SlotsOK, Queues
<1>3. Continuation(p) \in Continuations
  BY NewHandlers DEF WaitForRoom, InCanQueue, Loop, Processes, Nobody
<1>4. /\ x \in Promises(Continuations)
      /\ x.exec_ \in {Continuation(p), NoExec}
  BY <1>2, <1>3, PromiseTypes DEF SetContinuation, Set, Promises
<1>5. OnlyPromise(slots', slots, s, x)
  <2>1. slots' = [slots EXCEPT ![s].p_ = x]
    BY <1>1 DEF WaitForRoom
  <2> HIDE DEF s, x
  <2> QED BY <1>1, <1>2, <2>1, OnlyPromiseExcept
<1> HIDE DEF s, x
<1>6. /\ SlotsOK(slots')
      /\ \A t \in Slots : /\ Contents(slots'[t]) = Contents(slots[t])
                          /\ slots'[t].p_ = IF t = s THEN x ELSE slots[t].p_
  BY <1>1, <1>2, <1>4, <1>5, PromiseChanged
<1> QED BY <1>4, <1>6

LEMMA TakeBuffersSlots ==
  ASSUME DataTypes, TakeBuffers
  PROVE  /\ SlotsOK(slots')
         /\ \A t \in Slots :
              slots'[t] = IF t \in OutSlots THEN Remaining(t) ELSE slots[t]
<1>1. slots' = [s \in Slots |->
                  IF s \in OutSlots THEN Remaining(s) ELSE slots[s]]
  BY Zenon DEF TakeBuffers
<1>2. ASSUME NEW t \in Slots
      PROVE  /\ slots'[t] = IF t \in OutSlots THEN Remaining(t) ELSE slots[t]
             /\ slots'[t] \in Queues(Payloads(t), Continuations)
             /\ WellFormed(slots'[t])
  BY <1>1, TakeTypes DEF SlotsOK, DataTypes
<1>3. slots' = [s \in Slots |-> slots'[s]]
  BY <1>1
<1> QED BY <1>2, <1>3 DEF SlotsOK

LEMMA TakeChunkSlots ==
  ASSUME DataTypes, TakeChunk
  PROVE  /\ SlotsOK(slots')
         /\ \A t \in Slots :
              slots'[t] = IF t = "recv" THEN Remaining(t) ELSE slots[t]
<1>1. slots' = [slots EXCEPT !["recv"] = Remaining("recv")] /\ "recv" \in Slots
  BY DEF TakeChunk, Slots
<1>2. SlotsOK(slots)
  BY DEF DataTypes
<1>3. SlotsOK(slots')
  BY <1>1, <1>2, TakeTypes, SlotChanged
<1>4. slots = [s \in Slots |-> slots[s]]
  BY <1>2 DEF SlotsOK
<1> QED BY <1>1, <1>3, <1>4

LEMMA InitialiseSlots ==
  ASSUME DataTypes, Initialise
  PROVE  /\ SlotsOK(slots')
         /\ \A t \in Slots :
              slots'[t] = IF t = "init" THEN Pop(slots[t]) ELSE slots[t]
<1>1. slots' = [slots EXCEPT !["init"] = Pop(slots["init"])] /\ "init" \in Slots
  BY DEF Initialise, Slots
<1>2. SlotsOK(slots) /\ <<>> \in Payloads("init")
  BY DEF DataTypes, Payloads
<1>3. /\ Pop(slots["init"]) \in Queues(Payloads("init"), Continuations)
      /\ WellFormed(Pop(slots["init"]))
  BY <1>1, <1>2, PopTypes DEF SlotsOK
<1>4. SlotsOK(slots')
  BY <1>1, <1>2, <1>3, SlotChanged
<1>5. slots = [s \in Slots |-> slots[s]]
  BY <1>2 DEF SlotsOK
<1> QED BY <1>1, <1>4, <1>5

LEMMA SlotsTyped ==
  ASSUME ControlTypes, DataTypes, Loop, [Next]_vars
  PROVE  SlotsOK(slots')
<1>1. CASE UNCHANGED slots
  BY <1>1 DEF DataTypes
<1>2. CASE Destroy
  <2>1. ASSUME NEW s \in Slots
        PROVE  /\ NewQueue \in Queues(Payloads(s), Continuations)
               /\ WellFormed(NewQueue)
    <3>1. <<>> \in Seq(Payloads(s)) /\ Len(<<>>) <= 1
      OBVIOUS
    <3> QED BY <3>1 DEF NewQueue, WellFormed, Queues, NewPromise, Promises
  <2>2. CASE slots' = [s \in Slots |-> NewQueue]
    BY <2>1, <2>2 DEF SlotsOK
  <2> QED BY <1>1, <1>2, <2>2 DEF Destroy
<1> QED BY <1>1, <1>2, MessageSlots, ResumedSlots, WaitSlots, TakeBuffersSlots,
           TakeChunkSlots, InitialiseSlots, SlotsChanges

-----------------------------------------------------------------------------
(* The members of the socket *)

Members == [eof_ : BOOLEAN, except_ : BOOLEAN, nextRead : Seq(Nat),
            isWriting : BOOLEAN, p_ : Promises(Continuations),
            hs : Promises(Continuations)]

LEMMA MembersChange ==
  ASSUME NEW s \in Members, NEW x \in Promises(Continuations)
  PROVE  /\ [s EXCEPT !.p_ = x] \in Members
         /\ [s EXCEPT !.hs = x] \in Members
         /\ [s EXCEPT !.p_ = x, !.except_ = TRUE] \in Members
         /\ [s EXCEPT !.isWriting = TRUE, !.p_ = x] \in Members
BY DEF Members

LEMMA FlagsChange ==
  ASSUME NEW s \in Members
  PROVE  /\ [s EXCEPT !.eof_ = TRUE] \in Members
         /\ [s EXCEPT !.isWriting = FALSE] \in Members
         /\ \A c \in Seq(Nat) : [s EXCEPT !.nextRead = c] \in Members
BY DEF Members

LEMMA MembersSet ==
  ASSUME NEW s \in Members
  PROVE  WithValue(s) \in Members /\ WithError(s) \in Members
<1>1. SetIfUnset(s.p_) \in Promises(Continuations)
  BY SetTypes DEF Members
<1> QED BY <1>1, MembersChange DEF WithValue, WithError

LEMMA ResumeSock ==
  ASSUME ControlTypes, DataTypes, NEW p \in Processes, NEW boxes,
         Resume(p, boxes) \/ NoResume(boxes)
  PROVE  sock' \in Members
<1>1. sock \in Members
  BY DEF DataTypes, Members
<1>2. /\ Process(sock.p_) \in Promises(Continuations)
      /\ Process(sock.hs) \in Promises(Continuations)
  BY <1>1, SetTypes DEF Members
<1>3. sock' \in {sock, [sock EXCEPT !.p_ = Process(@)],
                 [sock EXCEPT !.hs = Process(@)]}
  BY DEF Resume, NoResume
<1> QED BY <1>1, <1>2, <1>3, MembersChange

LEMMA SockTyped ==
  ASSUME ControlTypes, DataTypes, Loop, [Next]_vars
  PROVE  sock' \in Members
<1>1. sock \in Members
  BY DEF DataTypes, Members
<1>2. CASE ProcessMessage
  <2>1. \E p \in Processes : \E boxes : Resume(p, boxes) \/ NoResume(boxes)
    BY <1>2, FrontOfQueue DEF ProcessMessage, TakesItem
  <2> QED BY <2>1, ResumeSock
<1>3. CASE ProcessResume
  BY <1>3, FrontOfQueue, ResumeSock DEF ProcessResume, TakesItem
<1>4. CASE RunContinuation
  BY <1>4, FrontOfReady, ResumeSock DEF RunContinuation, RunsHandler
<1>5. CASE RunRead
  <2>1. <<Head(ready).chunk>> \in Seq(Nat)
    BY <1>5, FrontOfReady DEF RunRead, RunsHandler
  <2>2. sock' \in {sock, WithError(sock), WithValue([sock EXCEPT !.eof_ = TRUE]),
                   WithValue([sock EXCEPT !.nextRead = <<Head(ready).chunk>>])}
    BY <1>5 DEF RunRead
  <2> QED BY <1>1, <2>1, <2>2, FlagsChange, MembersSet
<1>6. CASE RunWrite
  BY <1>1, <1>6, FlagsChange, MembersSet DEF RunWrite, Written
<1>7. CASE RunHandshake
  <2>1. /\ SetException(sock.hs) \in Promises(Continuations)
        /\ SetIfUnset(sock.hs) \in Promises(Continuations)
    BY <1>1, SetTypes DEF Members
  <2> QED BY <1>1, <1>7, <2>1, MembersChange DEF RunHandshake
<1>8. ASSUME NEW p \in Processes, ThrottledSend(p) PROVE sock' \in Members
  <2>1. <<>> \in Seq(Nat)
    OBVIOUS
  <2> QED BY <1>1, <1>8, <2>1, FlagsChange DEF ThrottledSend
<1>9. CASE Handshake \/ AwaitWrite \/ AwaitBuffers
  <2>1. Continuation("socket") \in Continuations
    BY <1>9, NewHandlers
       DEF Handshake, AwaitWrite, AwaitBuffers, InSocket, Loop, Processes, Nobody
  <2>2. /\ SetContinuation(sock.p_, Continuation("socket"))
             \in Promises(Continuations)
        /\ SetContinuation(sock.hs, Continuation("socket"))
             \in Promises(Continuations)
    BY <1>1, <2>1, PromiseTypes DEF Members
  <2> QED BY <1>1, <1>9, <2>2, MembersChange
          DEF Handshake, AwaitWrite, AwaitBuffers, ParkOnPromise
<1>10. CASE TakeBuffers
  <2>1. NewPromise \in Promises(Continuations)
    BY DEF NewPromise, Promises
  <2> QED BY <1>1, <1>10, <2>1, BuffersTaken, MembersChange DEF Writing
<1>11. CASE UNCHANGED sock
  BY <1>1, <1>11
<1> QED BY <1>2, <1>3, <1>4, <1>5, <1>6, <1>7, <1>8, <1>9, <1>10, <1>11,
           SockChanges

-----------------------------------------------------------------------------
(* Handlers, the network and the log *)

LEMMA TakePostsTyped ==
  ASSUME DataTypes
  PROVE  /\ BuffersPost \in Seq(ProperHandlers)
         /\ ready \o TakePosts("recv") \in Seq(ProperHandlers)
<1>1. /\ ready \in Seq(ProperHandlers)
      /\ \A s \in {"send_data", "send_many_data", "recv"} :
           TakePosts(s) \in Seq(Continuations)
  BY TakeTypes DEF DataTypes, Slots, OutSlots
<1>2. Seq(Continuations) \subseteq Seq(ProperHandlers)
  BY DEF Continuations
<1> QED BY <1>1, <1>2, ConcatProperties DEF BuffersPost

LEMMA CompletesTyped ==
  ASSUME ControlTypes, DataTypes, Network
  PROVE  \E op \in {"read", "write", "handshake"},
            outcome \in {"ok", "data", "eof", "error"}, n \in Nat :
           /\ outcome = "data" => op = "read"
           /\ Completes(op, outcome, n)
           /\ op = "read" => ReadCompletes
           /\ op = "write" => WriteCompletes
           /\ op = "handshake" => HandshakeCompletes
<1>1. log.fed + 1 \in Nat /\ 0 \in Nat
  BY DEF DataTypes
<1>2. CASE ReadCompletes
  BY <1>1, <1>2, Zenon DEF ReadCompletes
<1>3. CASE WriteCompletes
  BY <1>1, <1>3, Zenon DEF WriteCompletes
<1>4. CASE HandshakeCompletes
  BY <1>1, <1>4, Zenon DEF HandshakeCompletes
<1> QED BY <1>2, <1>3, <1>4 DEF Network

LEMMA ReadyTyped ==
  ASSUME ControlTypes, DataTypes, Loop, [Next]_vars
  PROVE  ready' \in Seq(ProperHandlers)
<1>1. ready \in Seq(ProperHandlers)
  BY DEF DataTypes
<1>2. /\ sock.p_ \in Promises(Continuations)
      /\ sock.hs \in Promises(Continuations)
      /\ \A s \in Slots : slots[s].p_ \in Promises(Continuations)
  BY DEF DataTypes, SlotsOK, Queues
<1>0. Seq(Continuations) \subseteq Seq(ProperHandlers)
  BY DEF Continuations
<1>3. /\ SetPosts(sock.p_) \in Seq(ProperHandlers)
      /\ SetPosts(sock.hs) \in Seq(ProperHandlers)
      /\ \A s \in Slots : DestroyPosts(slots[s]) \in Seq(ProperHandlers)
  <2>1. ASSUME NEW x \in Promises(Continuations)
        PROVE  SetPosts(x) \in Seq(Continuations)
               /\ SetIfUnsetPosts(x) \in Seq(Continuations)
    BY DEF SetPosts, SetIfUnsetPosts, Promises
  <2> QED BY <1>0, <1>2, <2>1 DEF DestroyPosts
<1>4. CASE RunContinuation \/ RunStaleHandler
  BY <1>4, Fronts DEF RunContinuation, RunStaleHandler, RunsHandler
<1>5. CASE RunRead \/ RunWrite \/ RunHandshake
  <2>1. ready # <<>>
    BY <1>5 DEF RunRead, RunWrite, RunHandshake, RunsHandler
  <2>2. \/ ready' = Tail(ready) \o ChangePosts(sock.p_, sock'.p_)
        \/ ready' = Tail(ready) \o ChangePosts(sock.hs, sock'.hs)
    BY <1>5 DEF RunRead, RunWrite, RunHandshake
  <2>3. /\ ChangePosts(sock.p_, sock'.p_) \in Seq(ProperHandlers)
        /\ ChangePosts(sock.hs, sock'.hs) \in Seq(ProperHandlers)
    BY <1>3 DEF ChangePosts
  <2> QED BY <2>1, <2>2, <2>3, Fronts, ConcatProperties
<1>6. CASE Destroy
  <2>1. /\ DestroyPosts(slots["send_data"]) \in Seq(ProperHandlers)
        /\ DestroyPosts(slots["send_many_data"]) \in Seq(ProperHandlers)
        /\ DestroyPosts(slots["recv"]) \in Seq(ProperHandlers)
    BY <1>3 DEF Slots, OutSlots
  <2>2. ready \o DestroyPosts(slots["send_data"])
              \o DestroyPosts(slots["send_many_data"])
              \o DestroyPosts(slots["recv"]) \in Seq(ProperHandlers)
    BY <1>1, <2>1, ConcatProperties
  <2> QED BY <1>1, <1>6, <2>2 DEF Destroy
<1>7. CASE AwaitWrite \/ AwaitBuffers
  <2>1. Continuation("socket") \in Continuations
    BY <1>7, NewHandlers
       DEF AwaitWrite, AwaitBuffers, InSocket, Loop, Processes, Nobody
  <2>2. SetContinuationPosts(sock.p_, Continuation("socket"))
          \in Seq(ProperHandlers)
    BY <2>1, <1>0, <1>2, PostTypes
  <2> QED BY <1>1, <1>7, <2>2, ConcatProperties
          DEF AwaitWrite, AwaitBuffers, ParkOnPromise
<1>8. ASSUME NEW p \in Processes, WaitForRoom(p)
      PROVE  ready' \in Seq(ProperHandlers)
  <2>1. Continuation(p) \in Continuations
    BY <1>8, NewHandlers DEF WaitForRoom, InCanQueue, Loop, Processes, Nobody
  <2>2. outgoing[p].slot \in Slots
    BY DEF DataTypes, Calls
  <2>3. SetContinuationPosts(slots[outgoing[p].slot].p_, Continuation(p))
          \in Seq(ProperHandlers)
    BY <2>1, <2>2, <1>0, <1>2, PostTypes
  <2> QED BY <1>1, <1>8, <2>3, ConcatProperties DEF WaitForRoom
<1>9. CASE TakeBuffers
  <2>1. Completion("write", "ok", 0) \in ProperHandlers
    BY NewHandlers
  <2>2. Append(BuffersPost, Completion("write", "ok", 0)) \in Seq(ProperHandlers)
    BY <2>1, TakePostsTyped
  <2> QED BY <1>9, <2>2, BuffersTaken, TakePostsTyped
<1>10. CASE TakeChunk
  BY <1>10, TakePostsTyped DEF TakeChunk
<1>11. CASE Network
  <2>1. PICK op \in {"read", "write", "handshake"},
             outcome \in {"ok", "data", "eof", "error"}, n \in Nat :
          (outcome = "data" => op = "read") /\ Completes(op, outcome, n)
    BY <1>11, CompletesTyped
  <2>2. Completion(op, outcome, n) \in ProperHandlers
    BY <2>1, NewHandlers
  <2> QED BY <1>1, <2>1, <2>2 DEF Completes
<1>12. CASE UNCHANGED ready
  BY <1>1, <1>12
<1> QED BY <1>4, <1>5, <1>6, <1>7, <1>8, <1>9, <1>10, <1>11, <1>12, ReadyChanges

\* combine() of the two Buffers of a collection, and of none.
LEMMA CombineTwo ==
  ASSUME NEW seqs, Len(seqs) = 2
  PROVE  Combine(seqs) = seqs[1] \o seqs[2]
<1> DEFINE Joined(flatten) ==
             [i \in 1..Len(seqs) |->
                IF i = 1 THEN seqs[i] ELSE flatten[i-1] \o seqs[i]]
           g == [i \in 1..2 |-> IF i = 1 THEN seqs[1] ELSE seqs[1] \o seqs[2]]
           f == CHOOSE h : h = Joined(h)
<1>1. g = Joined(g)
  OBVIOUS
<1>2. f = Joined(f)
  BY <1>1
<1>3. Len(seqs) # 0
  OBVIOUS
<1>4. FlattenSeq(seqs) = f[Len(seqs)]
  BY ONLY <1>3, Zenon DEF FlattenSeq
<1> HIDE DEF f
<1>5. f[1] = seqs[1] /\ f[2] = f[1] \o seqs[2]
  BY <1>2
<1> QED BY <1>4, <1>5 DEF Combine

LEMMA CombineNone == Combine(<<>>) = <<>>
BY DEF Combine, FlattenSeq

LEMMA BlocksTyped ==
  ASSUME DataTypes
  PROVE  /\ Taken("send_data") \in Seq(Nat) /\ Taken("recv") \in Seq(Nat)
         /\ Many \in Seq(Nat) /\ Buff \in Seq(Nat)
<1>1. <<>> \in Seq(Nat)
  OBVIOUS
<1>2. /\ "send_data" \in Slots /\ "recv" \in Slots /\ "send_many_data" \in Slots
      /\ Payloads("send_data") = Seq(Nat) /\ Payloads("recv") = Seq(Nat)
      /\ Payloads("send_many_data") = {b \in Seq(Seq(Nat)) : Len(b) = 2}
  BY DEF Slots, OutSlots, Payloads
<1>3. Taken("send_data") \in Seq(Nat) /\ Taken("recv") \in Seq(Nat)
  BY <1>1, <1>2, TakeTypes
<1>4. Many \in Seq(Nat)
  <2>1. CASE HasMessage("send_many_data")
    <3>1. /\ Taken("send_many_data") \in Seq(Seq(Nat))
          /\ Len(Taken("send_many_data")) = 2
      BY <1>2, <2>1, TakeTypes
    <3>2. /\ Taken("send_many_data")[1] \in Seq(Nat)
          /\ Taken("send_many_data")[2] \in Seq(Nat)
      BY <3>1, ElementOfSeq
    <3>3. Many = Taken("send_many_data")[1] \o Taken("send_many_data")[2]
      BY <3>1, CombineTwo DEF Many
    <3> QED BY <3>2, <3>3, ConcatProperties
  <2>2. CASE ~HasMessage("send_many_data")
    BY <1>1, <1>2, <2>2, TakeTypes, CombineNone DEF Many
  <2> QED BY <2>1, <2>2
<1> QED BY <1>3, <1>4 DEF Buff

NetTypes == [reading : Nat, writing : Seq(Seq(Nat)), shaking : BOOLEAN,
             wire : Seq(Nat)]
LogTypes == [fed : Nat, sent : Nat, received : Seq(Nat), taken : Seq(Nat)]

\* What the peer gets of a write.
LEMMA SentTyped ==
  ASSUME NEW b \in Seq(Nat)
  PROVE  [i \in DOMAIN b |-> Garbage] \in Seq(Nat)
<1>1. DOMAIN b = 1..Len(b) /\ Len(b) \in Nat
  BY LenProperties
<1> QED BY <1>1 DEF Garbage

LEMMA NetTyped ==
  ASSUME ControlTypes, DataTypes, OneRead, [Next]_vars
  PROVE  net' \in NetTypes
<1>1. /\ net \in NetTypes /\ net.writing \in Seq(Seq(Nat)) /\ net.wire \in Seq(Nat)
      /\ net.reading \in Nat /\ net.reading + 1 \in Nat
  BY DEF DataTypes, NetTypes
<1>2. CASE RunRead
  BY <1>1, <1>2 DEF RunRead, NetTypes
<1>3. CASE Destroy
  <2>1. <<>> \in Seq(Seq(Nat))
    OBVIOUS
  <2>2. \/ UNCHANGED net
        \/ net' = [net EXCEPT !.reading = 0, !.writing = <<>>, !.shaking = FALSE]
    BY <1>3, Zenon DEF Destroy
  <2>3. ASSUME NEW w \in Seq(Seq(Nat))
        PROVE  [net EXCEPT !.reading = 0, !.writing = w, !.shaking = FALSE]
                 \in NetTypes
    BY <1>1 DEF NetTypes
  <2> QED BY <1>1, <2>1, <2>2, <2>3
<1>4. CASE Handshake \/ Initialise
  BY <1>1, <1>4 DEF Handshake, Initialise, NetTypes
<1>5. ASSUME NEW p \in Processes, ThrottledSend(p) PROVE net' \in NetTypes
  BY <1>1, <1>5 DEF ThrottledSend, NetTypes
<1>6. CASE TakeBuffers
  <2>1. net.wire \o Buff \in Seq(Nat) /\ Append(net.writing, Buff) \in Seq(Seq(Nat))
    BY <1>1, BlocksTyped, ConcatProperties
  <2> QED BY <1>1, <1>6, <2>1, BuffersTaken DEF NetTypes
<1>7. CASE ReadCompletes
  <2>1. net.reading - 1 \in Nat /\ net' = [net EXCEPT !.reading = @ - 1]
    BY <1>1, <1>7 DEF ReadCompletes
  <2> QED BY <1>1, <2>1 DEF NetTypes
<1>8. CASE HandshakeCompletes
  BY <1>1, <1>8 DEF HandshakeCompletes, NetTypes
<1>9. CASE WriteCompletes
  <2>1. Head(net.writing) \in Seq(Nat) /\ Tail(net.writing) \in Seq(Seq(Nat))
    BY <1>1, <1>9, HeadTailProperties DEF WriteCompletes
  <2>2. \A sent \in {Head(net.writing),
                     [i \in DOMAIN Head(net.writing) |-> Garbage]} :
          net.wire \o sent \in Seq(Nat)
    BY <1>1, <2>1, SentTyped, ConcatProperties
  <2> QED BY <1>1, <1>9, <2>1, <2>2 DEF WriteCompletes, NetTypes
<1>10. CASE UNCHANGED net
  BY <1>1, <1>10
<1> QED BY <1>2, <1>3, <1>4, <1>5, <1>6, <1>7, <1>8, <1>9, <1>10, NetChanges
        DEF Network

LEMMA LogTyped ==
  ASSUME ControlTypes, DataTypes, [Next]_vars
  PROVE  log' \in LogTypes
<1>1. /\ log \in LogTypes /\ log.fed \in Nat /\ log.sent \in Nat
      /\ log.received \in Seq(Nat) /\ log.taken \in Seq(Nat)
  BY DEF DataTypes, LogTypes
<1>2. CASE TakeBuffers
  <2>1. log.taken \o Taken("send_data") \o Many \in Seq(Nat)
    BY <1>1, BlocksTyped, ConcatProperties
  <2> QED BY <1>1, <1>2, <2>1, BuffersTaken DEF LogTypes
<1>3. CASE TakeChunk
  <2>1. log.received \o Taken("recv") \in Seq(Nat)
    BY <1>1, BlocksTyped, ConcatProperties
  <2> QED BY <1>1, <1>3, <2>1 DEF TakeChunk, LogTypes
<1>4. ASSUME NEW call \in program.calls, OwnerSends(call) PROVE log' \in LogTypes
  <2>1. log.sent + Blocks(call) \in Nat
    BY <1>1, Arguments, ProgramTypes
  <2> QED BY <1>1, <1>4, <2>1 DEF OwnerSends, LogTypes
<1>5. CASE ReadCompletes
  BY <1>1, <1>5 DEF ReadCompletes, LogTypes
<1>6. CASE UNCHANGED log
  BY <1>1, <1>6
<1> QED BY <1>2, <1>3, <1>4, <1>5, <1>6, LogChanges

LEMMA DataStep ==
  ASSUME ControlTypes, DataTypes, Loop, OneRead, [Next]_vars
  PROVE  DataTypes'
BY QueueTyped, ReadyTyped, OutgoingTyped, SlotsTyped, SockTyped, NetTyped,
   LogTyped DEF DataTypes, Members, NetTypes, LogTypes

-----------------------------------------------------------------------------
(* Tokens *)

\* Only the process itself changes what it waits for, and to do that it has to
\* be resumed.
LEMMA TokenStays ==
  ASSUME ControlTypes, DataTypes, Loop, Beginning, [Next]_vars,
         NEW r \in Processes, NEW n \in Nat, NEW ws,
         "start" \in ws \/ n > 0, Token(r, n, ws)
  PROVE  Token(r, n, ws)'
<1> USE FrontOfQueue, FrontOfReady
    DEF ControlTypes, Loop, Token, Alive, Processes, Nobody
<1>1. CASE ProcessMessage
  <2>1. /\ running = Nobody /\ UNCHANGED pc /\ Head(queue).pid \in Processes
        /\ \/ UNCHANGED <<running, life, resumes>>
           \/ running' = Nobody /\ life' = [life EXCEPT ![Head(queue).pid] = "dead"]
              /\ UNCHANGED resumes
           \/ running' = Head(queue).pid /\ UNCHANGED life
              /\ resumes' = [resumes EXCEPT ![Head(queue).pid] = @ + 1]
    BY <1>1 DEF ProcessMessage, TakesItem, Resume, NoResume, Dies
  <2> QED BY <2>1
<1>2. CASE ProcessResume
  BY <1>2 DEF ProcessResume, TakesItem, Resume, NoResume, Dies
<1>3. CASE ServerSpawnsOwner
  BY <1>3, FrontAnnounces DEF ServerSpawnsOwner, TakesItem, Beginning
<1>4. CASE RunOne
  BY <1>4 DEF RunOne, procVars
<1>5. CASE RunContinuation
  BY <1>5 DEF RunContinuation, RunsHandler, Resume, NoResume, Dies
<1>6. CASE RunRead
  BY <1>6 DEF RunRead, RunsHandler, procVars
<1>7. CASE RunWrite
  BY <1>7 DEF RunWrite, RunsHandler, procVars
<1>8. CASE RunHandshake
  BY <1>8 DEF RunHandshake, RunsHandler, procVars
<1>9. CASE RunStaleHandler
  BY <1>9 DEF RunStaleHandler, procVars
<1>10. CASE EndPoll
  BY <1>10 DEF EndPoll, procVars
<1>11. CASE Destroy
  BY <1>11 DEF Destroy
<1>12. ASSUME NEW p \in Processes, CanQueueNull(p) PROVE Token(r, n, ws)'
  BY <1>12 DEF CanQueueNull, InCanQueue, procVars
<1>13. ASSUME NEW p \in Processes, WaitForRoom(p) PROVE Token(r, n, ws)'
  BY <1>13 DEF WaitForRoom, InCanQueue, Park
<1>14. ASSUME NEW p \in Processes, ThrottledSend(p) PROVE Token(r, n, ws)'
  BY <1>14 DEF ThrottledSend, InCanQueue, GoOn
<1>15. CASE Handshake
  BY <1>15 DEF Handshake, InSocket, Park
<1>16. CASE Announce
  BY <1>16 DEF Announce, InSocket, Park
<1>17. CASE Initialise
  BY <1>17 DEF Initialise, InSocket, GoOn
<1>18. CASE EndOfFile
  BY <1>18 DEF EndOfFile, InSocket, Dies
<1>19. CASE ForwardRead
  BY <1>19 DEF ForwardRead, InSocket, BeginSendThrottled, Park, GoOn
<1>20. CASE NothingToForward
  BY <1>20 DEF NothingToForward, InSocket, GoOn
<1>21. CASE AwaitWrite
  BY <1>21 DEF AwaitWrite, InSocket, ParkOnPromise, Park, GoOn
<1>22. CASE AwaitBuffers
  BY <1>22 DEF AwaitBuffers, InSocket, ParkOnPromise, Park, GoOn
<1>23. CASE WriteAwaited
  BY <1>23 DEF WriteAwaited, InSocket, Dies, GoOn
<1>24. CASE TakeBuffers
  BY <1>24, BuffersTaken DEF InSocket, Dies, GoOn
<1>25. CASE OwnerEnds
  BY <1>25 DEF OwnerEnds, InOwner, Dies
<1>26. CASE InitRecvSocket
  BY <1>26 DEF InitRecvSocket, InOwner, GoOn
<1>27. CASE AwaitChunk
  BY <1>27 DEF AwaitChunk, InOwner, Park, GoOn
<1>28. CASE TakeChunk
  BY <1>28 DEF TakeChunk, InOwner, GoOn
<1>29. ASSUME NEW call \in program.calls, OwnerSends(call) PROVE Token(r, n, ws)'
  BY <1>29 DEF OwnerSends, InOwner, BeginSendThrottled, Park, GoOn
<1>30. CASE ReadCompletes
  BY <1>30 DEF ReadCompletes, Completes, procVars
<1>31. CASE WriteCompletes
  BY <1>31 DEF WriteCompletes, Completes, procVars
<1>32. CASE HandshakeCompletes
  BY <1>32 DEF HandshakeCompletes, Completes, procVars
<1>33. CASE UNCHANGED vars
  BY <1>33 DEF vars, procVars
<1>34. CASE OwnerSleeps
  BY <1>34 DEF OwnerSleeps, InOwner, Park
<1>35. CASE TimerWakesOwner
  BY <1>35 DEF TimerWakesOwner
<1> QED BY <1>1, <1>2, <1>3, <1>4, <1>5, <1>6, <1>7, <1>8, <1>9, <1>10, <1>11,
  <1>12, <1>13, <1>14, <1>15, <1>16, <1>17, <1>18, <1>19, <1>20, <1>21, <1>22,
  <1>23, <1>24, <1>25, <1>26, <1>27, <1>28, <1>29, <1>30, <1>31, <1>32, <1>33,
  <1>34, <1>35
  DEF Next, Thread, Network

\* The items of queue_ after a step.  Only a new process and one that yields are
\* given a resume.
LEMMA QueueElements ==
  ASSUME ControlTypes, DataTypes, [Next]_vars, NEW i \in ToSet(queue'),
         i \notin ToSet(queue)
  PROVE  \/ i.kind # "resume"
         \/ ServerSpawnsOwner /\ i = ResumeItem("owner", 0)
         \/ \E p \in Processes :
              /\ i = ResumeItem(p, resumes[p]) /\ running = p
              /\ running' = Nobody /\ pc'[p] = "yield"
              /\ UNCHANGED <<life, resumes>>
<1>1. queue \in Seq(Items) /\ queue' \in Seq(Items)
  BY QueueTyped DEF DataTypes
<1>2. ASSUME NEW e, queue' = Append(queue, e) PROVE i = e
  <2>1. e \in Items
    <3>1. queue'[Len(queue) + 1] = e /\ Len(queue') = Len(queue) + 1
      BY <1>1, <1>2
    <3> QED BY <1>1, <3>1, ElementOfSeq
  <2> QED BY <1>1, <1>2, <2>1, Elements
<1>3. ASSUME NEW e, queue # <<>>, queue' = Append(Tail(queue), e) PROVE i = e
  <2>1. Tail(queue) \in Seq(Items) /\ ToSet(Tail(queue)) \subseteq ToSet(queue)
    BY <1>1, <1>3, ElementsHead
  <2>2. e \in Items
    <3>1. queue'[Len(Tail(queue)) + 1] = e /\ Len(queue') = Len(Tail(queue)) + 1
      BY <2>1, <1>3
    <3> QED BY <1>1, <2>1, <3>1, ElementOfSeq
  <2>3. ToSet(Append(Tail(queue), e)) = ToSet(Tail(queue)) \cup {e}
    BY <2>1, <2>2, ElementsJoined, Zenon
  <2> QED BY <1>3, <2>1, <2>3
<1>4. queue' # queue /\ (queue # <<>> => queue' # Tail(queue))
  BY <1>1, ElementsHead
<1>5. CASE ProcessMessage \/ ProcessResume
  BY <1>4, <1>5 DEF ProcessMessage, ProcessResume, TakesItem
<1>6. CASE ServerSpawnsOwner
  BY <1>3, <1>6 DEF ServerSpawnsOwner, TakesItem
<1>7. CASE RunRead
  <2>1. queue' = Append(queue, MessageItem("recv", <<Head(ready).chunk>>))
    BY <1>4, <1>7, Zenon DEF RunRead
  <2>2. i = MessageItem("recv", <<Head(ready).chunk>>)
    BY <1>2, <2>1, Zenon
  <2> QED BY <2>2 DEF MessageItem
<1>8. CASE Announce
  BY <1>2, <1>8 DEF Announce, ReadyItem
<1>9. CASE ForwardRead
  BY <1>2, <1>4, <1>9
     DEF ForwardRead, BeginSendThrottled, Park, InSocket, ControlTypes, Processes
<1>10. CASE InitRecvSocket
  BY <1>2, <1>10 DEF InitRecvSocket, MessageItem
<1>11. ASSUME NEW p \in Processes, ThrottledSend(p) PROVE i.kind # "resume"
  BY <1>2, <1>11 DEF ThrottledSend, MessageItem
<1>12. ASSUME NEW call \in program.calls, OwnerSends(call)
       PROVE  \/ i.kind # "resume"
              \/ /\ i = ResumeItem("owner", resumes["owner"])
                 /\ running = "owner" /\ running' = Nobody
                 /\ pc'["owner"] = "yield" /\ UNCHANGED <<life, resumes>>
  BY <1>2, <1>4, <1>12
     DEF OwnerSends, BeginSendThrottled, Park, InOwner, ControlTypes, Processes,
         MessageItem
<1> QED BY <1>4, <1>5, <1>6, <1>7, <1>8, <1>9, <1>10, <1>11, <1>12, QueueChanges
        DEF Processes

\* p suspends with a continuation.
ParksOn(p) ==
  /\ running = p /\ running' = Nobody
  /\ pc'[p] \in {"handshake", "room", "written", "buffers"}
  /\ UNCHANGED <<life, resumes>>

\* The continuations that promises hold.
Registered ==
  {sock.p_.exec_, sock.hs.exec_} \cup {slots[s].p_.exec_ : s \in Slots}

\* What a promise posts.
LEMMA PostsRegistered ==
  ASSUME DataTypes, NEW x \in Promises(Continuations)
  PROVE  /\ SetPosts(x) \in Seq(ProperHandlers)
         /\ SetIfUnsetPosts(x) \in Seq(ProperHandlers)
         /\ \A h \in ToSet(SetPosts(x)) : h = x.exec_ /\ h # NoExec
         /\ \A h \in ToSet(SetIfUnsetPosts(x)) : h = x.exec_ /\ h # NoExec
<1>1. ToSet(<<>>) = {}
  BY DEF ToSet
<1>2. ToSet(<<x.exec_>>) = {x.exec_}
  BY DEF ToSet
<1>3. <<>> \in Seq(ProperHandlers)
  OBVIOUS
<1>4. x.exec_ # NoExec => <<x.exec_>> \in Seq(ProperHandlers)
  BY DEF Promises, Continuations
<1> QED BY <1>1, <1>2, <1>3, <1>4 DEF SetPosts, SetIfUnsetPosts

LEMMA TakePostsRegistered ==
  ASSUME DataTypes, NEW s \in Slots
  PROVE  /\ TakePosts(s) \in Seq(ProperHandlers)
         /\ \A h \in ToSet(TakePosts(s)) : h = slots[s].p_.exec_ /\ h # NoExec
<1>1. ToSet(<<>>) = {} /\ <<>> \in Seq(ProperHandlers)
  BY DEF ToSet
<1>2. slots[s].p_ \in Promises(Continuations)
  BY DEF DataTypes, SlotsOK, Queues
<1> QED BY <1>1, <1>2, PostsRegistered DEF TakePosts, PopPosts

\* The handlers after a step.
LEMMA ReadyElements ==
  ASSUME ControlTypes, DataTypes, Loop, [Next]_vars, NEW h \in ToSet(ready'),
         h \notin ToSet(ready)
  PROVE  \/ h \in Registered /\ h # NoExec
         \/ \E p \in Processes : h = Continuation(p) /\ ParksOn(p)
         \/ ReadCompletes /\ h.kind = "read"
         \/ WriteCompletes /\ h.kind = "write"
         \/ HandshakeCompletes /\ h.kind = "handshake"
         \/ TakeBuffers /\ h.kind = "write"
<1>1. ready \in Seq(ProperHandlers) /\ ready' \in Seq(ProperHandlers)
  BY ReadyTyped DEF DataTypes
<1>2. ready # <<>> => Tail(ready) \in Seq(ProperHandlers)
                      /\ ToSet(Tail(ready)) \subseteq ToSet(ready)
  BY <1>1, ElementsHead
<1>3. /\ sock.p_ \in Promises(Continuations)
      /\ sock.hs \in Promises(Continuations)
      /\ \A s \in Slots : slots[s].p_ \in Promises(Continuations)
  BY DEF DataTypes, SlotsOK, Queues
<1>4. /\ "send_data" \in Slots /\ "send_many_data" \in Slots /\ "recv" \in Slots
  BY DEF Slots, OutSlots
<1>5. ready' # ready /\ (ready # <<>> => ready' # Tail(ready))
  BY <1>2
<1>6. CASE RunContinuation \/ RunStaleHandler
  BY <1>5, <1>6 DEF RunContinuation, RunStaleHandler, RunsHandler
<1>7. CASE RunRead \/ RunWrite \/ RunHandshake
  <2>1. PICK x \in {sock.p_, sock.hs} :
          ready # <<>> /\ ready' = Tail(ready) \o SetPosts(x)
    <3>1. ready # <<>>
      BY <1>7 DEF RunRead, RunWrite, RunHandshake, RunsHandler
    <3>2. Tail(ready) \o <<>> = Tail(ready)
      BY <1>2, <3>1, ConcatEmptySeq
    <3> QED BY <1>5, <1>7, <3>1, <3>2
            DEF RunRead, RunWrite, RunHandshake, ChangePosts
  <2>2. x \in Promises(Continuations) /\ x.exec_ \in Registered
    BY <1>3 DEF Registered
  <2>3. SetPosts(x) \in Seq(ProperHandlers)
        /\ \A g \in ToSet(SetPosts(x)) : g = x.exec_ /\ g # NoExec
    BY <2>2, PostsRegistered
  <2>4. ToSet(ready') = ToSet(Tail(ready)) \cup ToSet(SetPosts(x))
    BY <1>2, <2>1, <2>3, ElementsJoined, Zenon
  <2> QED BY <1>2, <2>1, <2>2, <2>3, <2>4
<1>8. CASE Destroy
  <2> DEFINE a == DestroyPosts(slots["send_data"])
             b == DestroyPosts(slots["send_many_data"])
             c == DestroyPosts(slots["recv"])
  <2>1. ASSUME NEW s \in Slots
        PROVE  /\ DestroyPosts(slots[s]) \in Seq(ProperHandlers)
               /\ \A g \in ToSet(DestroyPosts(slots[s])) :
                    g \in Registered /\ g # NoExec
    BY <1>3, PostsRegistered DEF DestroyPosts, Registered
  <2>2. ready' = ready \o a \o b \o c
    BY <1>5, <1>8, Zenon DEF Destroy
  <2>3. /\ a \in Seq(ProperHandlers) /\ b \in Seq(ProperHandlers)
        /\ c \in Seq(ProperHandlers)
        /\ \A g \in ToSet(a) \cup ToSet(b) \cup ToSet(c) :
             g \in Registered /\ g # NoExec
    BY <1>4, <2>1
  <2> HIDE DEF a, b, c
  <2>4. ready \o a \in Seq(ProperHandlers) /\ ready \o a \o b \in Seq(ProperHandlers)
    BY <1>1, <2>3, ConcatProperties
  <2>5. ToSet(ready') = ToSet(ready) \cup ToSet(a) \cup ToSet(b) \cup ToSet(c)
    <3>1. ToSet(ready \o a) = ToSet(ready) \cup ToSet(a)
      BY <1>1, <2>3, Elements
    <3>2. ToSet(ready \o a \o b) = ToSet(ready \o a) \cup ToSet(b)
      BY <2>3, <2>4, ElementsJoined, Zenon
    <3>3. ToSet(ready \o a \o b \o c) = ToSet(ready \o a \o b) \cup ToSet(c)
      BY <2>3, <2>4, ElementsJoined, Zenon
    <3> QED BY <2>2, <3>1, <3>2, <3>3
  <2> QED BY <2>3, <2>5
<1>9. ASSUME NEW p \in Processes, NEW x \in Promises(Continuations),
             ready' = ready \o SetContinuationPosts(x, Continuation(p)),
             resumes[p] > 0
      PROVE  h = Continuation(p)
  <2>1. Continuation(p) \in ProperHandlers
    BY <1>9, NewHandlers DEF Continuations
  <2>2. /\ SetContinuationPosts(x, Continuation(p)) \in Seq(ProperHandlers)
        /\ ToSet(SetContinuationPosts(x, Continuation(p)))
             \subseteq {Continuation(p)}
    BY <2>1 DEF SetContinuationPosts, ToSet
  <2>3. ToSet(ready') =
          ToSet(ready) \cup ToSet(SetContinuationPosts(x, Continuation(p)))
    BY <1>1, <1>9, <2>2, Elements
  <2> QED BY <2>2, <2>3
<1>10. CASE AwaitWrite \/ AwaitBuffers
  <2>1. /\ "socket" \in Processes /\ resumes["socket"] > 0
        /\ ready' = ready \o SetContinuationPosts(sock.p_, Continuation("socket"))
        /\ ParksOn("socket")
    BY <1>5, <1>10
       DEF AwaitWrite, AwaitBuffers, ParkOnPromise, Park, InSocket, Loop, Nobody,
           Processes, ParksOn, ControlTypes
  <2> QED BY <1>3, <1>9, <2>1
<1>11. ASSUME NEW p \in Processes, WaitForRoom(p)
       PROVE  h = Continuation(p) /\ ParksOn(p)
  <2>1. /\ resumes[p] > 0 /\ outgoing[p].slot \in Slots /\ ParksOn(p)
    BY <1>11 DEF WaitForRoom, InCanQueue, Park, Loop, Nobody, Processes, ParksOn,
                 ControlTypes, DataTypes, Calls
  <2>2. ready' = ready \o SetContinuationPosts(slots[outgoing[p].slot].p_,
                                               Continuation(p))
    BY <1>11 DEF WaitForRoom
  <2> QED BY <1>3, <1>9, <2>1, <2>2
<1>12. CASE TakeBuffers
  <2> DEFINE a == TakePosts("send_data")
             b == TakePosts("send_many_data")
             w == Completion("write", "ok", 0)
  <2>1. /\ a \in Seq(ProperHandlers) /\ b \in Seq(ProperHandlers)
        /\ \A g \in ToSet(a) \cup ToSet(b) : g \in Registered /\ g # NoExec
    BY <1>4, TakePostsRegistered DEF Registered
  <2>2. w \in ProperHandlers
    BY NewHandlers
  <2> HIDE DEF a, b, w
  <2>3. ready \o a \in Seq(ProperHandlers) /\ ready \o a \o b \in Seq(ProperHandlers)
    BY <1>1, <2>1, ConcatProperties
  <2>4. ToSet(ready \o a \o b) = ToSet(ready) \cup ToSet(a) \cup ToSet(b)
    <3>1. ToSet(ready \o a) = ToSet(ready) \cup ToSet(a)
      BY <1>1, <2>1, Elements
    <3>2. ToSet(ready \o a \o b) = ToSet(ready \o a) \cup ToSet(b)
      BY <2>1, <2>3, ElementsJoined, Zenon
    <3> QED BY <3>1, <3>2
  <2>5. ToSet(Append(ready \o a \o b, w)) = ToSet(ready \o a \o b) \cup {w}
    BY <2>2, <2>3, ElementsJoined, Zenon
  <2>6. ready' \in {ready \o a \o b, Append(ready \o a \o b, w)}
    BY <1>12, BuffersTaken, Zenon DEF BuffersPost, a, b, w
  <2>7. w.kind = "write"
    BY DEF w, Completion
  <2> QED BY <1>12, <2>1, <2>4, <2>5, <2>6, <2>7
<1>13. CASE TakeChunk
  <2>1. /\ TakePosts("recv") \in Seq(ProperHandlers)
        /\ \A g \in ToSet(TakePosts("recv")) : g \in Registered /\ g # NoExec
    BY <1>4, TakePostsRegistered DEF Registered
  <2>2. ToSet(ready') = ToSet(ready) \cup ToSet(TakePosts("recv"))
    BY <1>1, <1>13, <2>1, Elements DEF TakeChunk
  <2> QED BY <2>1, <2>2
<1>14. CASE Network
  <2>1. PICK op \in {"read", "write", "handshake"},
             outcome \in {"ok", "data", "eof", "error"}, n \in Nat :
          /\ outcome = "data" => op = "read"
          /\ Completes(op, outcome, n)
          /\ op = "read" => ReadCompletes
          /\ op = "write" => WriteCompletes
          /\ op = "handshake" => HandshakeCompletes
    BY <1>14, CompletesTyped
  <2>2. Completion(op, outcome, n) \in ProperHandlers
    BY <2>1, NewHandlers
  <2>3. ToSet(ready') = ToSet(ready) \cup {Completion(op, outcome, n)}
    BY <1>1, <2>1, <2>2, Elements DEF Completes
  <2>4. h = Completion(op, outcome, n)
    BY <2>3
  <2> QED BY <2>1, <2>4 DEF Completion
<1> QED BY <1>5, <1>6, <1>7, <1>8, <1>10, <1>11, <1>12, <1>13, <1>14,
           ReadyChanges DEF Processes

\* What promises hold after a step.
LEMMA SetExec ==
  ASSUME NEW x \in Promises(Continuations)
  PROVE  /\ SetIfUnset(x).exec_ \in {x.exec_, NoExec}
         /\ SetException(x).exec_ \in {x.exec_, NoExec}
         /\ Process(x).exec_ \in {x.exec_, NoExec}
         /\ \A h : SetContinuation(x, h).exec_ \in {h, NoExec}
BY DEF SetIfUnset, SetException, Set, Process, SetContinuation, Promises

LEMMA SlotExecs ==
  ASSUME ControlTypes, DataTypes, Loop, [Next]_vars, NEW t \in Slots
  PROVE  \/ slots'[t].p_.exec_ \in {slots[t].p_.exec_, NoExec}
         \/ \E p \in Processes : /\ slots'[t].p_.exec_ = Continuation(p)
                                 /\ ParksOn(p)
<1>1. /\ slots[t] \in Queues(Payloads(t), Continuations)
      /\ slots[t].p_ \in Promises(Continuations)
  BY DEF DataTypes, SlotsOK, Queues
<1>2. /\ Pop(slots[t]).p_.exec_ \in {slots[t].p_.exec_, NoExec}
      /\ Remaining(t).p_.exec_ \in {slots[t].p_.exec_, NoExec}
  <2>1. Pop(slots[t]).p_ \in {slots[t].p_, SetIfUnset(slots[t].p_)}
    BY <1>1 DEF Pop, Popped, Queues
  <2> QED BY <1>1, <2>1, SetExec DEF Remaining
<1>3. CASE Destroy
  <2>1. slots' = slots \/ slots' = [s \in Slots |-> NewQueue]
    BY <1>3, Zenon DEF Destroy
  <2>2. NewQueue.p_.exec_ = NoExec
    BY DEF NewQueue, NewPromise
  <2> QED BY <2>1, <2>2
<1>4. ASSUME NEW p \in Processes, WaitForRoom(p) PROVE ParksOn(p)
  BY <1>4 DEF WaitForRoom, InCanQueue, Park, Loop, Nobody, Processes, ParksOn,
              ControlTypes
<1>5. CASE TakeBuffers
  BY <1>2, <1>5, TakeBuffersSlots
<1>6. CASE TakeChunk
  BY <1>2, <1>6, TakeChunkSlots
<1>7. CASE Initialise
  BY <1>2, <1>7, InitialiseSlots
<1>8. CASE ProcessMessage \/ ProcessResume \/ RunContinuation
  BY <1>8, MessageSlots, ResumedSlots
<1>9. CASE \E p \in Processes : WaitForRoom(p)
  BY <1>4, <1>9, WaitSlots
<1> QED BY <1>3, <1>5, <1>6, <1>7, <1>8, <1>9, SlotsChanges

LEMMA SockExecs ==
  ASSUME ControlTypes, DataTypes, Loop, [Next]_vars
  PROVE  /\ \/ sock'.p_.exec_ \in {sock.p_.exec_, NoExec}
            \/ sock'.p_.exec_ = Continuation("socket") /\ ParksOn("socket")
         /\ \/ sock'.hs.exec_ \in {sock.hs.exec_, NoExec}
            \/ sock'.hs.exec_ = Continuation("socket") /\ ParksOn("socket")
<1>1. /\ sock \in Members /\ sock.p_ \in Promises(Continuations)
      /\ sock.hs \in Promises(Continuations)
  BY DEF DataTypes, Members
<1> USE <1>1, SetExec DEF Members
<1>2. CASE ProcessMessage \/ ProcessResume \/ RunContinuation
  <2>1. sock' \in {sock, [sock EXCEPT !.p_ = Process(@)],
                   [sock EXCEPT !.hs = Process(@)]}
    BY <1>2 DEF ProcessMessage, ProcessResume, RunContinuation, Resume, NoResume
  <2> QED BY <2>1
<1>3. CASE RunRead
  <2>1. sock' \in {sock, WithError(sock), WithValue([sock EXCEPT !.eof_ = TRUE]),
                   WithValue([sock EXCEPT !.nextRead = <<Head(ready).chunk>>])}
    BY <1>3 DEF RunRead
  <2> QED BY <2>1 DEF WithError, WithValue
<1>4. CASE RunWrite
  BY <1>4 DEF RunWrite, Written, WithValue, WithError
<1>5. CASE RunHandshake
  BY <1>5 DEF RunHandshake
<1>6. CASE \E p \in Processes : ThrottledSend(p)
  BY <1>6 DEF ThrottledSend
<1>7. CASE Handshake \/ AwaitWrite \/ AwaitBuffers
  <2> DEFINE h == Continuation("socket")
  <2>1. \/ UNCHANGED sock
        \/ /\ sock' \in {[sock EXCEPT !.p_ = SetContinuation(@, h)],
                         [sock EXCEPT !.hs = SetContinuation(@, h)]}
           /\ ParksOn("socket")
    BY <1>7 DEF Handshake, AwaitWrite, AwaitBuffers, ParkOnPromise, Park, InSocket,
                ParksOn, ControlTypes, Processes
  <2> HIDE DEF h
  <2>2. \/ UNCHANGED sock
        \/ /\ sock'.p_.exec_ \in {sock.p_.exec_, NoExec, h}
           /\ sock'.hs.exec_ \in {sock.hs.exec_, NoExec, h}
           /\ ParksOn("socket")
    BY <2>1
  <2> QED BY <2>2 DEF h
<1>8. CASE TakeBuffers
  <2>1. sock' \in {sock, Writing(sock)}
    BY <1>8, BuffersTaken, Zenon
  <2>2. Writing(sock).p_ = NewPromise /\ Writing(sock).hs = sock.hs
    BY DEF Writing
  <2>3. NewPromise.exec_ = NoExec
    BY DEF NewPromise
  <2> QED BY <2>1, <2>2, <2>3
<1>9. CASE UNCHANGED sock
  BY <1>9
<1> QED BY <1>2, <1>3, <1>4, <1>5, <1>6, <1>7, <1>8, <1>9, SockChanges

LEMMA TokensStep ==
  ASSUME ControlTypes, DataTypes, Loop, Beginning, Tokens, [Next]_vars
  PROVE  Tokens'
<1>1. ASSUME NEW h \in Continuations, HandlerToken(h) PROVE HandlerToken(h)'
  BY <1>1, TokenStays DEF HandlerToken, Continuations, ProperHandlers, Handlers
<1>2. ASSUME NEW p \in Processes, ParksOn(p), NEW h, h = Continuation(p)
      PROVE  HandlerToken(h)'
  <2>1. /\ h.pid = p /\ h.resumes = resumes[p]
    BY <1>2 DEF Continuation
  <2>2. Token(p, resumes[p], {"handshake", "room", "written", "buffers"})'
    BY <1>2 DEF ParksOn, Token, Nobody, Processes, ControlTypes
  <2>3. resumes' = resumes
    BY <1>2 DEF ParksOn
  <2> QED BY <2>1, <2>2, <2>3 DEF HandlerToken
<1>3. ASSUME NEW h, h = NoExec PROVE HandlerToken(h)'
  BY <1>3 DEF HandlerToken
<1>4. \A h \in Registered : (h \in Continuations \/ h = NoExec) /\ HandlerToken(h)
  BY DEF Registered, Tokens, DataTypes, SlotsOK, Queues, Promises
<1>5. ASSUME NEW h \in ToSet(ready') PROVE HandlerToken(h)'
  <2>1. h \in ProperHandlers
    BY ReadyTyped, Elements
  <2>2. CASE h \in ToSet(ready)
    <3>1. HandlerToken(h)
      BY <2>2 DEF Tokens
    <3>2. CASE h.kind = "continuation"
      BY <1>1, <2>1, <3>1, <3>2 DEF Continuations
    <3>3. CASE h.kind # "continuation"
      BY <3>3 DEF HandlerToken
    <3> QED BY <3>2, <3>3
  <2>3. CASE h.kind \in {"read", "write", "handshake"}
    BY <2>3 DEF HandlerToken
  <2> QED BY <1>1, <1>2, <1>4, <2>2, <2>3, ReadyElements
<1>6. ASSUME NEW i \in ToSet(queue'), i.kind = "resume"
      PROVE  Token(i.pid, i.resume, {"start", "yield"})'
  <2>1. i \in Items /\ i.pid \in Processes /\ i.resume \in Nat
    BY QueueTyped, Elements DEF Items
  <2>2. CASE i \in ToSet(queue)
    BY <1>6, <2>1, <2>2, TokenStays DEF Tokens
  <2>3. CASE ServerSpawnsOwner /\ i = ResumeItem("owner", 0)
    BY <2>3, FrontAnnounces
       DEF ServerSpawnsOwner, TakesItem, ResumeItem, Token, Beginning, Loop,
           Nobody, Processes
  <2>4. ASSUME NEW p \in Processes, i = ResumeItem(p, resumes[p]),
               running' = Nobody, pc'[p] = "yield", UNCHANGED <<life, resumes>>
        PROVE  Token(i.pid, i.resume, {"start", "yield"})'
    BY <2>4 DEF ResumeItem, Token, Nobody, Processes, ControlTypes
  <2> QED BY <1>6, <2>2, <2>3, <2>4, QueueElements
<1>7. HandlerToken(sock.p_.exec_)' /\ HandlerToken(sock.hs.exec_)'
  <2>1. "socket" \in Processes
    BY DEF Processes
  <2>2. sock.p_.exec_ \in Registered /\ sock.hs.exec_ \in Registered
    BY DEF Registered
  <2>3. ASSUME NEW h, h = sock'.p_.exec_ \/ h = sock'.hs.exec_
        PROVE  HandlerToken(h)'
    BY <1>1, <1>2, <1>3, <1>4, <2>1, <2>2, <2>3, SockExecs
  <2> QED BY <2>3 DEF HandlerToken
<1>8. ASSUME NEW t \in Slots PROVE HandlerToken(slots[t].p_.exec_)'
  <2>1. slots[t].p_.exec_ \in Registered
    BY DEF Registered
  <2>2. ASSUME NEW h, h = slots'[t].p_.exec_ PROVE HandlerToken(h)'
    BY <1>1, <1>2, <1>3, <1>4, <2>1, <2>2, SlotExecs
  <2> QED BY <2>2 DEF HandlerToken
<1> QED BY <1>5, <1>6, <1>7, <1>8 DEF Tokens

-----------------------------------------------------------------------------
(* How a process is resumed, and that the owner finds its socket *)

LEMMA RunningChanges ==
  ASSUME [Next]_vars, running = Nobody
  PROVE  \/ running' = Nobody
         \/ ProcessMessage \/ ProcessResume \/ RunContinuation
         \/ TimerWakesOwner
<1>1. ASSUME NEW p \in Processes, running = p PROVE FALSE
  BY <1>1 DEF Processes, Nobody
<1>2. ASSUME NEW p \in Processes
      PROVE  ~CanQueueNull(p) /\ ~WaitForRoom(p) /\ ~ThrottledSend(p)
  BY <1>1, Zenon DEF CanQueueNull, WaitForRoom, ThrottledSend, InCanQueue
<1>3. running # "socket" /\ running # "owner"
  BY <1>1 DEF Processes
<1>4. /\ ~Handshake /\ ~Announce /\ ~Initialise /\ ~EndOfFile /\ ~ForwardRead
      /\ ~NothingToForward /\ ~AwaitWrite /\ ~AwaitBuffers /\ ~WriteAwaited
      /\ ~TakeBuffers
  BY <1>3, BuffersTaken, Zenon
     DEF Handshake, Announce, Initialise, EndOfFile, ForwardRead,
         NothingToForward, AwaitWrite, AwaitBuffers, WriteAwaited, InSocket
<1>5. /\ ~OwnerEnds /\ ~InitRecvSocket /\ ~AwaitChunk /\ ~TakeChunk
      /\ ~OwnerSleeps
      /\ \A call \in program.calls : ~OwnerSends(call)
  BY <1>3, Zenon
     DEF OwnerEnds, InitRecvSocket, AwaitChunk, TakeChunk, OwnerSends, OwnerSleeps,
         InOwner
<1>6. \/ ServerSpawnsOwner \/ RunOne \/ RunRead \/ RunWrite \/ RunHandshake
      \/ RunStaleHandler \/ EndPoll \/ Destroy \/ Network \/ UNCHANGED vars
      => UNCHANGED running
  BY Zenon
     DEF ServerSpawnsOwner, RunOne, RunRead, RunWrite, RunHandshake,
         RunStaleHandler, EndPoll, Destroy, Network, ReadCompletes,
         WriteCompletes, HandshakeCompletes, Completes, vars
<1> QED BY <1>2, <1>4, <1>5, <1>6, Zenon DEF Next, Thread

LEMMA ResumedBy ==
  ASSUME ControlTypes, DataTypes, Loop, Tokens, [Next]_vars,
         running = Nobody, running' # Nobody
  PROVE  /\ running' \in Processes /\ Alive(running')
         /\ \/ /\ ProcessMessage /\ IsWaiting(Head(queue).slot)
               /\ running' = Receiver(Head(queue).slot)
               /\ pc[running'] \in {"buffers", "init", "recv"}
               /\ UNCHANGED pc
            \/ /\ ProcessResume /\ pc[running'] \in {"start", "yield"}
               /\ Head(queue).pid = running'
               /\ Head(queue).resume = resumes[running']
               /\ UNCHANGED pc
            \/ /\ RunContinuation
               /\ pc[running'] \in {"handshake", "room", "written", "buffers"}
               /\ UNCHANGED pc
            \/ TimerWakesOwner /\ running' = "owner" /\ pc["owner"] = "sleep"
         /\ resumes' = [resumes EXCEPT ![running'] = @ + 1]
         /\ UNCHANGED life
<1>1. CASE ProcessMessage
  <2>1. /\ Head(queue).pid = Receiver(Head(queue).slot)
        /\ Head(queue).pid \in Processes /\ Head(queue).slot \in Slots
    BY <1>1, FrontOfQueue DEF ProcessMessage, TakesItem
  <2>2. /\ Alive(Head(queue).pid) /\ IsWaiting(Head(queue).slot)
        /\ running' = Head(queue).pid
        /\ resumes' = [resumes EXCEPT ![Head(queue).pid] = @ + 1]
        /\ UNCHANGED <<life, pc>>
    BY <1>1 DEF ProcessMessage, Resume, NoResume, Dies
  <2>3. pc[Receiver(Head(queue).slot)] \in {"buffers", "init", "recv"}
    BY <2>1, <2>2 DEF IsWaiting, Slots, OutSlots
  <2> QED BY <1>1, <2>1, <2>2, <2>3
<1>2. CASE ProcessResume
  <2>1. Head(queue) \in ToSet(queue) /\ Head(queue).kind = "resume"
        /\ Head(queue).pid \in Processes
    BY <1>2, FrontOfQueue DEF ProcessResume, TakesItem
  <2>2. /\ Alive(Head(queue).pid)
        /\ Head(queue).resume = resumes[Head(queue).pid]
        /\ running' = Head(queue).pid
        /\ resumes' = [resumes EXCEPT ![Head(queue).pid] = @ + 1]
        /\ UNCHANGED <<life, pc>>
    BY <1>2 DEF ProcessResume, Resume, NoResume, Dies
  <2> QED BY <1>2, <2>1, <2>2 DEF Tokens, Token
<1>3. CASE RunContinuation
  <2>1. Head(ready) \in ToSet(ready) /\ Head(ready).kind = "continuation"
        /\ Head(ready).pid \in Processes /\ Head(ready) # NoExec
    BY <1>3, FrontOfReady DEF RunContinuation, RunsHandler
  <2>2. /\ Alive(Head(ready).pid)
        /\ Head(ready).resumes = resumes[Head(ready).pid]
        /\ running' = Head(ready).pid
        /\ resumes' = [resumes EXCEPT ![Head(ready).pid] = @ + 1]
        /\ UNCHANGED <<life, pc>>
    BY <1>3 DEF RunContinuation, Resume, NoResume, Dies
  <2> QED BY <1>3, <2>1, <2>2 DEF Tokens, Token, HandlerToken
<1>4. CASE TimerWakesOwner
  BY <1>4 DEF TimerWakesOwner, Alive, Processes
<1> QED BY <1>1, <1>2, <1>3, <1>4, RunningChanges

LEMMA FoundStep ==
  ASSUME ControlTypes, DataTypes, Loop, Lives, Tokens, Outgoing, Found, [Next]_vars
  PROVE  Found'
<1>0. ASSUME running = Nobody, running' = "owner" PROVE Found'
  <2>0. UNCHANGED program
    BY ProgramStays
  <2>1. \/ /\ Alive("owner") /\ UNCHANGED <<life, pc>>
           /\ \/ ProcessMessage \/ ProcessResume
              \/ pc["owner"] \in {"handshake", "room", "written", "buffers"}
        \/ TimerWakesOwner
    BY <1>0, ResumedBy DEF Nobody
  <2>2. CASE /\ Alive("owner") /\ UNCHANGED <<life, pc>>
             /\ ProcessMessage \/ ProcessResume
    <3>1. at = "top"
      BY <2>2 DEF ProcessMessage, ProcessResume, TakesItem
    <3>2. Alive("socket")
      BY <2>2, <3>1 DEF Loop, Lives, Alive, Processes
    <3> QED BY <2>0, <2>2, <3>2 DEF Alive, Found
  <2>3. CASE TimerWakesOwner
    BY <2>0, <2>3 DEF TimerWakesOwner, Lives, Found, Alive, ControlTypes, Processes
  <2> QED BY <2>0, <2>1, <2>2, <2>3 DEF Found
<1> USE FrontOfQueue, FrontOfReady DEF ControlTypes, Loop, Found, Alive, Processes, Nobody
<1>1. CASE ProcessMessage
  BY <1>1, <1>0 DEF ProcessMessage, TakesItem, Resume, NoResume, Dies
<1>2. CASE ProcessResume
  BY <1>2, <1>0 DEF ProcessResume, TakesItem, Resume, NoResume, Dies
<1>3. CASE ServerSpawnsOwner
  BY <1>3 DEF ServerSpawnsOwner, TakesItem
<1>4. CASE RunOne
  BY <1>4 DEF RunOne, procVars
<1>5. CASE RunContinuation
  BY <1>5, <1>0 DEF RunContinuation, RunsHandler, Resume, NoResume, Dies
<1>6. CASE RunRead
  BY <1>6 DEF RunRead, RunsHandler, procVars
<1>7. CASE RunWrite
  BY <1>7 DEF RunWrite, RunsHandler, procVars
<1>8. CASE RunHandshake
  BY <1>8 DEF RunHandshake, RunsHandler, procVars
<1>9. CASE RunStaleHandler
  BY <1>9 DEF RunStaleHandler, procVars
<1>10. CASE EndPoll
  BY <1>10 DEF EndPoll, procVars
<1>11. CASE Destroy
  BY <1>11 DEF Destroy
<1>12. ASSUME NEW p \in Processes, CanQueueNull(p) PROVE Found'
  BY <1>12 DEF CanQueueNull, InCanQueue, procVars
<1>13. ASSUME NEW p \in Processes, WaitForRoom(p) PROVE Found'
  BY <1>13 DEF WaitForRoom, InCanQueue, Park
<1>14. ASSUME NEW p \in Processes, ThrottledSend(p) PROVE Found'
  BY <1>14 DEF ThrottledSend, InCanQueue, GoOn, Outgoing, Sending, Receiver,
    OutSlots
<1>15. CASE Handshake
  BY <1>15 DEF Handshake, InSocket, Park
<1>16. CASE Announce
  BY <1>16 DEF Announce, InSocket, Park
<1>17. CASE Initialise
  BY <1>17 DEF Initialise, InSocket, GoOn
<1>18. CASE EndOfFile
  BY <1>18 DEF EndOfFile, InSocket, Dies
<1>19. CASE ForwardRead
  BY <1>19 DEF ForwardRead, InSocket, BeginSendThrottled, Park, GoOn
<1>20. CASE NothingToForward
  BY <1>20 DEF NothingToForward, InSocket, GoOn
<1>21. CASE AwaitWrite
  BY <1>21 DEF AwaitWrite, InSocket, ParkOnPromise, Park, GoOn
<1>22. CASE AwaitBuffers
  BY <1>22 DEF AwaitBuffers, InSocket, ParkOnPromise, Park, GoOn
<1>23. CASE WriteAwaited
  BY <1>23 DEF WriteAwaited, InSocket, Dies, GoOn
<1>24. CASE TakeBuffers
  BY <1>24, BuffersTaken DEF InSocket, Dies, GoOn
<1>25. CASE OwnerEnds
  BY <1>25 DEF OwnerEnds, InOwner, Dies
<1>26. CASE InitRecvSocket
  BY <1>26 DEF InitRecvSocket, InOwner, GoOn
<1>27. CASE AwaitChunk
  BY <1>27 DEF AwaitChunk, InOwner, Park, GoOn
<1>28. CASE TakeChunk
  BY <1>28 DEF TakeChunk, InOwner, GoOn
<1>29. ASSUME NEW call \in program.calls, OwnerSends(call) PROVE Found'
  BY <1>29 DEF OwnerSends, InOwner, BeginSendThrottled, Park, GoOn
<1>30. CASE ReadCompletes
  BY <1>30 DEF ReadCompletes, Completes, procVars
<1>31. CASE WriteCompletes
  BY <1>31 DEF WriteCompletes, Completes, procVars
<1>32. CASE HandshakeCompletes
  BY <1>32 DEF HandshakeCompletes, Completes, procVars
<1>33. CASE UNCHANGED vars
  BY <1>33 DEF vars, procVars
<1>34. CASE OwnerSleeps
  BY <1>34 DEF OwnerSleeps, InOwner, Park
<1>35. CASE TimerWakesOwner
  BY <1>35, <1>0 DEF TimerWakesOwner
<1> QED BY <1>1, <1>2, <1>3, <1>4, <1>5, <1>6, <1>7, <1>8, <1>9, <1>10, <1>11,
  <1>12, <1>13, <1>14, <1>15, <1>16, <1>17, <1>18, <1>19, <1>20, <1>21, <1>22,
  <1>23, <1>24, <1>25, <1>26, <1>27, <1>28, <1>29, <1>30, <1>31, <1>32, <1>33,
  <1>34, <1>35
  DEF Next, Thread, Network

-----------------------------------------------------------------------------
(* The handlers of reads and of writes *)

LEMMA ProperContinuations ==
  /\ \A t \in Seq(Continuations) : t \in Seq(ProperHandlers)
  /\ \A t, u \in Seq(Continuations) : t \o u \in Seq(Continuations)
<1>1. Continuations \subseteq ProperHandlers
  BY DEF Continuations
<1> QED BY <1>1, SeqMonotonic, ConcatProperties

LEMMA Together ==
  \A s \in Seq(ProperHandlers), t, u \in Seq(Continuations) :
    (s \o t) \o u = s \o (t \o u)
BY ProperContinuations, ConcatAssociative

\* What a step adds to the handlers, and what it takes.
LEMMA ReadyForms ==
  ASSUME ControlTypes, DataTypes, Loop, [Next]_vars
  PROVE  \/ \E t \in Seq(Continuations) : ready' = ready \o t
         \/ /\ RunContinuation \/ RunRead \/ RunWrite \/ RunHandshake
               \/ RunStaleHandler
            /\ ready # <<>>
            /\ \E t \in Seq(Continuations) : ready' = Tail(ready) \o t
         \/ /\ TakeBuffers /\ sock' = Writing(sock) /\ ~Nothing /\ ~CheckExcept
            /\ net' = [net EXCEPT !.wire = @ \o Buff]
            /\ \E t \in Seq(Continuations) :
                 ready' = Append(ready \o t, Completion("write", "ok", 0))
         \/ /\ Network
            /\ \E op \in {"read", "write", "handshake"},
                  outcome \in {"ok", "data", "eof", "error"}, n \in Nat :
                 /\ outcome = "data" => op = "read"
                 /\ op = "read" => ReadCompletes
                 /\ op = "write" => WriteCompletes
                 /\ op = "handshake" => HandshakeCompletes
                 /\ Completion(op, outcome, n) \in ProperHandlers
                 /\ ready' = Append(ready, Completion(op, outcome, n))
<1>1. ready \in Seq(ProperHandlers) /\ <<>> \in Seq(Continuations)
  BY DEF DataTypes
<1>2. ready # <<>> => Tail(ready) \in Seq(ProperHandlers)
  BY <1>1, ElementsHead
<1>3. /\ sock.p_ \in Promises(Continuations)
      /\ sock.hs \in Promises(Continuations)
      /\ \A s \in Slots : slots[s].p_ \in Promises(Continuations)
  BY DEF DataTypes, SlotsOK, Queues
<1>4. /\ "send_data" \in Slots /\ "send_many_data" \in Slots /\ "recv" \in Slots
  BY DEF Slots, OutSlots
<1>5. ready \o <<>> = ready /\ (ready # <<>> => Tail(ready) \o <<>> = Tail(ready))
  BY <1>1, <1>2, ConcatEmptySeq
<1>6. CASE RunContinuation \/ RunStaleHandler
  <2>1. ready # <<>> /\ ready' = Tail(ready)
    BY <1>6 DEF RunContinuation, RunStaleHandler, RunsHandler
  <2> QED BY <1>1, <1>5, <1>6, <2>1
<1>7. CASE RunRead \/ RunWrite \/ RunHandshake
  <2>1. SetPosts(sock.p_) \in Seq(Continuations)
        /\ SetPosts(sock.hs) \in Seq(Continuations)
    BY <1>3 DEF Promises, SetPosts
  <2>2. /\ ready # <<>>
        /\ \E x \in {sock.p_, sock.hs} :
             ready' \in {Tail(ready) \o <<>>, Tail(ready) \o SetPosts(x)}
    BY <1>7 DEF RunRead, RunWrite, RunHandshake, RunsHandler, ChangePosts
  <2> QED BY <1>1, <1>7, <2>1, <2>2
<1>8. CASE Destroy
  <2> DEFINE a == DestroyPosts(slots["send_data"])
             b == DestroyPosts(slots["send_many_data"])
             c == DestroyPosts(slots["recv"])
  <2>1. /\ a \in Seq(Continuations) /\ b \in Seq(Continuations)
        /\ c \in Seq(Continuations)
    BY <1>3, <1>4, SetTypes DEF DestroyPosts
  <2>2. ready' = ready \/ ready' = ready \o a \o b \o c
    BY <1>8, Zenon DEF Destroy
  <2> HIDE DEF a, b, c
  <2>3. a \o b \in Seq(Continuations) /\ (a \o b) \o c \in Seq(Continuations)
    BY <2>1, ConcatProperties
  <2>4. ready \o a \o b = ready \o (a \o b)
    BY <1>1, <2>1, Together, Zenon
  <2>5. ready \o (a \o b) \o c = ready \o ((a \o b) \o c)
    BY <1>1, <2>1, <2>3, Together, Zenon
  <2> QED BY <1>1, <1>5, <2>2, <2>3, <2>4, <2>5
<1>9. ASSUME NEW p \in Processes, NEW x, resumes[p] > 0,
             ready' = ready \o SetContinuationPosts(x, Continuation(p))
      PROVE  \E t \in Seq(Continuations) : ready' = ready \o t
  <2>1. Continuation(p) \in Continuations
    BY <1>9, NewHandlers
  <2>2. SetContinuationPosts(x, Continuation(p)) \in Seq(Continuations)
    BY <2>1 DEF SetContinuationPosts
  <2> QED BY <1>9, <2>2
<1>10. CASE AwaitWrite \/ AwaitBuffers
  <2>1. \/ UNCHANGED ready
        \/ /\ "socket" \in Processes /\ resumes["socket"] > 0
           /\ ready' = ready \o SetContinuationPosts(sock.p_,
                                                     Continuation("socket"))
    BY <1>10 DEF AwaitWrite, AwaitBuffers, ParkOnPromise, InSocket, Loop, Nobody,
                 Processes
  <2> QED BY <1>1, <1>5, <1>9, <2>1
<1>11. ASSUME NEW p \in Processes, WaitForRoom(p)
       PROVE  \E t \in Seq(Continuations) : ready' = ready \o t
  <2>1. /\ resumes[p] > 0
        /\ ready' = ready \o SetContinuationPosts(slots[outgoing[p].slot].p_,
                                                  Continuation(p))
    BY <1>11 DEF WaitForRoom, InCanQueue, Loop, Nobody, Processes
  <2> QED BY <1>9, <2>1
<1>12. CASE TakeBuffers
  <2> DEFINE a == TakePosts("send_data")
             b == TakePosts("send_many_data")
             w == Completion("write", "ok", 0)
  <2>1. a \in Seq(Continuations) /\ b \in Seq(Continuations)
    BY <1>4, TakeTypes
  <2>2. \/ ready' = ready \o a \o b
        \/ /\ sock' = Writing(sock) /\ ~Nothing /\ ~CheckExcept
           /\ net' = [net EXCEPT !.wire = @ \o Buff]
           /\ ready' = Append(ready \o a \o b, w)
    BY <1>12, BuffersTaken, Zenon DEF BuffersPost
  <2> HIDE DEF a, b
  <2>3. a \o b \in Seq(Continuations)
    BY <2>1, ConcatProperties
  <2>4. ready \o a \o b = ready \o (a \o b)
    BY <1>1, <2>1, Together, Zenon
  <2>5. \/ ready' = ready \o (a \o b)
        \/ /\ sock' = Writing(sock) /\ ~Nothing /\ ~CheckExcept
           /\ net' = [net EXCEPT !.wire = @ \o Buff]
           /\ ready' = Append(ready \o (a \o b), w)
    BY <2>2, <2>4, Zenon
  <2> QED BY <1>12, <2>3, <2>5, Zenon
<1>13. CASE TakeChunk
  BY <1>4, <1>13, TakeTypes DEF TakeChunk
<1>14. CASE Network
  <2>1. PICK op \in {"read", "write", "handshake"},
             outcome \in {"ok", "data", "eof", "error"}, n \in Nat :
          /\ outcome = "data" => op = "read"
          /\ Completes(op, outcome, n)
          /\ op = "read" => ReadCompletes
          /\ op = "write" => WriteCompletes
          /\ op = "handshake" => HandshakeCompletes
    BY <1>14, CompletesTyped
  <2>2. Completion(op, outcome, n) \in ProperHandlers
    BY <2>1, NewHandlers
  <2>3. ready' = Append(ready, Completion(op, outcome, n))
    BY <2>1 DEF Completes
  <2> QED BY <1>14, <2>1, <2>2, <2>3
<1> QED BY <1>1, <1>5, <1>6, <1>7, <1>8, <1>10, <1>11, <1>12, <1>13, <1>14,
           ReadyChanges

\* Continuations change nothing for the other kinds of handlers.
LEMMA KindsJoined ==
  ASSUME NEW s \in Seq(ProperHandlers), NEW t \in Seq(Continuations),
         NEW kind \in {"read", "write"}
  PROVE  /\ s \o t \in Seq(ProperHandlers)
         /\ Absent(s, kind) => Absent(s \o t, kind)
         /\ Unique(s, kind) => Unique(s \o t, kind)
<1>1. t \in Seq(ProperHandlers)
  BY ProperContinuations
<1>2. ToSet(s \o t) = ToSet(s) \cup ToSet(t) /\ s \o t \in Seq(ProperHandlers)
  BY <1>1, ElementsJoined, ConcatProperties
<1>3. \A h \in ToSet(t) : h.kind = "continuation"
  BY Elements DEF Continuations
<1>4. Absent(s, kind) => Absent(s \o t, kind)
  BY <1>2, <1>3 DEF Absent
<1>5. /\ Len(s) \in Nat /\ Len(t) \in Nat /\ Len(s \o t) = Len(s) + Len(t)
      /\ \A k \in 1..Len(s) + Len(t) :
           (s \o t)[k] = IF k <= Len(s) THEN s[k] ELSE t[k - Len(s)]
  BY <1>1, ConcatProperties, LenProperties
<1>6. \A k \in 1..Len(t) : t[k] \in ToSet(t)
  BY Elements
<1>7. ASSUME NEW k \in 1..Len(s \o t), (s \o t)[k].kind = kind
      PROVE  k \in 1..Len(s) /\ s[k].kind = kind
  <2>1. CASE k > Len(s)
    <3>1. k - Len(s) \in 1..Len(t)
      BY <1>5, <2>1
    <3> QED BY <1>3, <1>5, <1>6, <1>7, <2>1, <3>1
  <2> QED BY <1>5, <1>7, <2>1
<1>8. Unique(s, kind) => Unique(s \o t, kind)
  BY <1>7 DEF Unique
<1> QED BY <1>2, <1>4, <1>8

LEMMA KindsAppended ==
  ASSUME NEW S, NEW s \in Seq(S), NEW h \in S, NEW kind
  PROVE  /\ h.kind # kind /\ Absent(s, kind) => Absent(Append(s, h), kind)
         /\ h.kind # kind /\ Unique(s, kind) => Unique(Append(s, h), kind)
         /\ Absent(s, kind) => Unique(Append(s, h), kind)
<1>1. ToSet(Append(s, h)) = ToSet(s) \cup {h}
  BY Elements
<1>2. /\ Len(s) \in Nat /\ Len(Append(s, h)) = Len(s) + 1
      /\ \A k \in 1..Len(s) : Append(s, h)[k] = s[k]
      /\ Append(s, h)[Len(s) + 1] = h
  BY AppendProperties, LenProperties
<1>3. \A k \in 1..Len(s) : s[k] \in ToSet(s)
  BY Elements
<1> QED BY <1>1, <1>2, <1>3 DEF Absent, Unique

LEMMA KindsTaken ==
  ASSUME NEW S, NEW s \in Seq(S), s # <<>>, NEW kind
  PROVE  /\ Tail(s) \in Seq(S)
         /\ Absent(s, kind) => Absent(Tail(s), kind)
         /\ Unique(s, kind) => Unique(Tail(s), kind)
         /\ Unique(s, kind) /\ Head(s).kind = kind => Absent(Tail(s), kind)
<1>1. /\ Head(s) = s[1] /\ Len(s) > 0 /\ Len(s) \in Nat
      /\ Tail(s) \in Seq(S) /\ Len(Tail(s)) = Len(s) - 1
      /\ \A k \in 1..Len(Tail(s)) : Tail(s)[k] = s[k + 1]
      /\ ToSet(Tail(s)) \subseteq ToSet(s)
  BY ElementsHead, LenProperties
<1>2. \A h \in ToSet(Tail(s)) : \E k \in 1..Len(Tail(s)) : h = Tail(s)[k]
  BY <1>1, Elements
<1>3. Unique(s, kind) => Unique(Tail(s), kind)
  <2> SUFFICES ASSUME Unique(s, kind), NEW j \in 1..Len(Tail(s)),
                      NEW k \in 1..Len(Tail(s)), Tail(s)[j].kind = kind,
                      Tail(s)[k].kind = kind
               PROVE  j = k
    BY DEF Unique
  <2>1. j + 1 \in 1..Len(s) /\ k + 1 \in 1..Len(s)
    BY <1>1
  <2>2. j + 1 = k + 1
    BY <1>1, <2>1 DEF Unique
  <2> QED BY <2>2
<1>4. Unique(s, kind) /\ Head(s).kind = kind => Absent(Tail(s), kind)
  <2> SUFFICES ASSUME Unique(s, kind), Head(s).kind = kind,
                      NEW k \in 1..Len(Tail(s)), Tail(s)[k].kind = kind
               PROVE  FALSE
    BY <1>2 DEF Absent
  <2>1. k + 1 \in 1..Len(s) /\ 1 \in 1..Len(s) /\ k + 1 # 1
    BY <1>1
  <2> QED BY <1>1, <2>1 DEF Unique
<1> QED BY <1>1, <1>3, <1>4 DEF Absent

LEMMA KindsStep ==
  ASSUME ControlTypes, DataTypes, Loop, [Next]_vars, NEW kind \in {"read", "write"},
         Unique(ready, kind),
         (kind = "read" /\ ReadCompletes) \/ (kind = "write" /\ WriteCompletes)
           \/ (kind = "write" /\ TakeBuffers) => Absent(ready, kind)
  PROVE  /\ Unique(ready', kind)
         /\ \/ kind = "read" /\ ReadCompletes
            \/ kind = "write" /\ WriteCompletes
            \/ /\ kind = "write" /\ TakeBuffers
               /\ net' = [net EXCEPT !.wire = @ \o Buff]
               /\ sock' = Writing(sock)
            \/ Absent(ready, kind) => Absent(ready', kind)
         /\ kind = "read" /\ RunRead => Absent(ready', kind)
         /\ kind = "write" /\ RunWrite => Absent(ready', kind)
<1>1. ready \in Seq(ProperHandlers)
  BY DEF DataTypes
<1>2. ASSUME NEW t \in Seq(Continuations), ready' = ready \o t
      PROVE  Unique(ready', kind) /\ (Absent(ready, kind) => Absent(ready', kind))
  BY <1>1, <1>2, KindsJoined
<1>3. ASSUME ready # <<>>, NEW t \in Seq(Continuations), ready' = Tail(ready) \o t
      PROVE  /\ Unique(ready', kind) /\ (Absent(ready, kind) => Absent(ready', kind))
             /\ Head(ready).kind = kind => Absent(ready', kind)
  <2>1. /\ Tail(ready) \in Seq(ProperHandlers) /\ Unique(Tail(ready), kind)
        /\ Absent(ready, kind) => Absent(Tail(ready), kind)
        /\ Head(ready).kind = kind => Absent(Tail(ready), kind)
    BY <1>1, <1>3, KindsTaken
  <2>2. /\ Unique(Tail(ready) \o t, kind)
        /\ Absent(Tail(ready), kind) => Absent(Tail(ready) \o t, kind)
    BY <2>1, KindsJoined
  <2> QED BY <1>3, <2>1, <2>2
<1>4. ASSUME NEW t \in Seq(Continuations), TakeBuffers,
             ready' = Append(ready \o t, Completion("write", "ok", 0))
      PROVE  /\ Unique(ready', kind)
             /\ kind = "read" /\ Absent(ready, kind) => Absent(ready', kind)
  <2> DEFINE w == Completion("write", "ok", 0)
             s == ready \o t
  <2>1. w \in ProperHandlers /\ w.kind = "write"
    BY NewHandlers DEF Completion
  <2>2. /\ s \in Seq(ProperHandlers) /\ Unique(s, kind)
        /\ Absent(ready, kind) => Absent(s, kind)
    BY <1>1, KindsJoined
  <2>3. /\ w.kind # kind /\ Absent(s, kind) => Absent(Append(s, w), kind)
        /\ w.kind # kind /\ Unique(s, kind) => Unique(Append(s, w), kind)
        /\ Absent(s, kind) => Unique(Append(s, w), kind)
    <3> HIDE DEF w, s
    <3> QED BY <2>1, <2>2, KindsAppended
  <2> QED BY <1>4, <2>1, <2>2, <2>3
<1>5. ASSUME NEW op \in {"read", "write", "handshake"},
             NEW outcome \in {"ok", "data", "eof", "error"}, NEW n \in Nat,
             op = "read" => ReadCompletes, op = "write" => WriteCompletes,
             Completion(op, outcome, n) \in ProperHandlers,
             ready' = Append(ready, Completion(op, outcome, n))
      PROVE  /\ Unique(ready', kind)
             /\ op # kind /\ Absent(ready, kind) => Absent(ready', kind)
  <2>1. Completion(op, outcome, n).kind = op
    BY DEF Completion
  <2> QED BY <1>1, <1>5, <2>1, KindsAppended
<1>6. ASSUME RunRead \/ RunWrite
      PROVE  /\ ready # <<>> /\ ChangePosts(sock.p_, sock'.p_) \in Seq(Continuations)
             /\ ready' = Tail(ready) \o ChangePosts(sock.p_, sock'.p_)
             /\ RunRead => Head(ready).kind = "read"
             /\ RunWrite => Head(ready).kind = "write"
  <2>1. sock.p_ \in Promises(Continuations)
    BY DEF DataTypes
  <2>2. ChangePosts(sock.p_, sock'.p_) \in Seq(Continuations)
    BY <2>1 DEF Promises, SetPosts, ChangePosts
  <2>3. RunRead => /\ ready # <<>> /\ Head(ready).kind = "read"
                   /\ ready' = Tail(ready) \o ChangePosts(sock.p_, sock'.p_)
    BY Zenon DEF RunRead, RunsHandler
  <2>4. RunWrite => /\ ready # <<>> /\ Head(ready).kind = "write"
                    /\ ready' = Tail(ready) \o ChangePosts(sock.p_, sock'.p_)
    BY Zenon DEF RunWrite, RunsHandler
  <2>5. ~(RunRead /\ RunWrite)
    BY <2>3, <2>4
  <2> QED BY <1>6, <2>2, <2>3, <2>4, <2>5
<1>7. /\ RunRead /\ kind = "read" => Absent(ready', kind)
      /\ RunWrite /\ kind = "write" => Absent(ready', kind)
  BY <1>3, <1>6
<1>8. CASE \E t \in Seq(Continuations) : ready' = ready \o t
  BY <1>2, <1>7, <1>8
<1>9. CASE ready # <<>> /\ \E t \in Seq(Continuations) : ready' = Tail(ready) \o t
  BY <1>3, <1>7, <1>9
<1>10. CASE /\ TakeBuffers /\ sock' = Writing(sock)
            /\ net' = [net EXCEPT !.wire = @ \o Buff]
            /\ \E t \in Seq(Continuations) :
                 ready' = Append(ready \o t, Completion("write", "ok", 0))
  BY <1>4, <1>7, <1>10
<1>11. CASE \E op \in {"read", "write", "handshake"},
               outcome \in {"ok", "data", "eof", "error"}, n \in Nat :
              /\ op = "read" => ReadCompletes
              /\ op = "write" => WriteCompletes
              /\ Completion(op, outcome, n) \in ProperHandlers
              /\ ready' = Append(ready, Completion(op, outcome, n))
  <2>1. PICK op \in {"read", "write", "handshake"},
             outcome \in {"ok", "data", "eof", "error"}, n \in Nat :
               /\ op = "read" => ReadCompletes
               /\ op = "write" => WriteCompletes
               /\ Completion(op, outcome, n) \in ProperHandlers
               /\ ready' = Append(ready, Completion(op, outcome, n))
    BY <1>11
  <2>2. /\ Unique(ready', kind)
        /\ op # kind /\ Absent(ready, kind) => Absent(ready', kind)
    BY <1>5, <2>1
  <2> QED BY <1>7, <2>1, <2>2
<1> QED BY <1>8, <1>9, <1>10, <1>11, ReadyForms, Zenon

-----------------------------------------------------------------------------
(* Which members a step changes *)

LEMMA SockFields ==
  ASSUME ControlTypes, DataTypes, [Next]_vars
  PROVE  /\ UNCHANGED sock.nextRead \/ RunRead \/ ThrottledSend("socket")
         /\ UNCHANGED sock.eof_ \/ RunRead
         /\ UNCHANGED sock.except_ \/ RunRead \/ RunWrite
         /\ UNCHANGED sock.isWriting \/ RunWrite \/ TakeBuffers
<1>1. sock \in Members
  BY DEF DataTypes, Members
<1>2. ASSUME NEW p, NEW boxes, Resume(p, boxes) \/ NoResume(boxes)
      PROVE  UNCHANGED <<sock.nextRead, sock.eof_, sock.except_, sock.isWriting>>
  BY <1>1, <1>2 DEF Resume, NoResume, Members
<1>3. CASE ProcessMessage
  BY <1>2, <1>3 DEF ProcessMessage
<1>4. CASE ProcessResume \/ RunContinuation
  BY <1>2, <1>4 DEF ProcessResume, RunContinuation
<1>5. CASE RunRead
  BY <1>1, <1>5 DEF RunRead, Members, WithValue, WithError
<1>6. CASE RunWrite
  BY <1>1, <1>6 DEF RunWrite, Members, WithValue, WithError, Written
<1>7. CASE RunHandshake \/ Handshake
  BY <1>1, <1>7 DEF RunHandshake, Handshake, Members
<1>8. CASE AwaitWrite \/ AwaitBuffers
  BY <1>1, <1>8 DEF AwaitWrite, AwaitBuffers, ParkOnPromise, Members
<1>9. CASE TakeBuffers
  <2>1. sock' = sock \/ sock' = Writing(sock)
    BY <1>9, BuffersTaken, Zenon
  <2> QED BY <1>1, <1>9, <2>1 DEF Writing, Members
<1>10. ASSUME NEW p \in Processes, ThrottledSend(p)
       PROVE  /\ UNCHANGED sock.nextRead \/ ThrottledSend("socket")
              /\ UNCHANGED <<sock.eof_, sock.except_, sock.isWriting>>
  BY <1>1, <1>10 DEF ThrottledSend, Members, Processes
<1> QED BY <1>3, <1>4, <1>5, <1>6, <1>7, <1>8, <1>9, <1>10, SockChanges

LEMMA NetFields ==
  ASSUME DataTypes, [Next]_vars
  PROVE  /\ \/ UNCHANGED net.reading \/ RunRead \/ Initialise \/ ReadCompletes
            \/ ThrottledSend("socket")
            \/ Destroy /\ net'.reading = 0
         /\ \/ UNCHANGED net.writing \/ WriteCompletes
            \/ /\ TakeBuffers /\ sock' = Writing(sock) /\ ~CheckExcept /\ ~Nothing
               /\ net'.writing = Append(net.writing, Buff)
               /\ ready' = BuffersPost
            \/ Destroy /\ net'.writing = <<>>
<1>1. net \in NetTypes
  BY DEF DataTypes, NetTypes
<1>2. CASE RunRead \/ Handshake \/ Initialise
  BY <1>1, <1>2 DEF RunRead, Handshake, Initialise, NetTypes
<1>3. CASE Destroy
  <2>1. net' = net \/ net' = [net EXCEPT !.reading = 0, !.writing = <<>>,
                                         !.shaking = FALSE]
    BY <1>3, Zenon DEF Destroy
  <2> QED BY <1>1, <1>3, <2>1 DEF NetTypes
<1>4. CASE TakeBuffers
  <2>1. \/ UNCHANGED net \/ net' = [net EXCEPT !.wire = @ \o Buff]
        \/ /\ net' = [net EXCEPT !.writing = Append(@, Buff)]
           /\ sock' = Writing(sock) /\ ~CheckExcept /\ ~Nothing
           /\ ready' = BuffersPost
    BY <1>4, BuffersTaken, Zenon
  <2> QED BY <1>1, <1>4, <2>1 DEF NetTypes
<1>5. CASE Network
  BY <1>1, <1>5 DEF Network, ReadCompletes, WriteCompletes, HandshakeCompletes,
                    NetTypes
<1>6. ASSUME NEW p \in Processes, ThrottledSend(p)
      PROVE  /\ UNCHANGED net.reading \/ ThrottledSend("socket")
             /\ UNCHANGED net.writing
  BY <1>1, <1>6 DEF ThrottledSend, NetTypes, Processes
<1>7. CASE UNCHANGED net
  BY <1>7
<1> QED BY <1>2, <1>3, <1>4, <1>5, <1>6, <1>7, NetChanges, Zenon

\* What the handler of a read does.
LEMMA ReadEffects ==
  ASSUME DataTypes, RunRead
  PROVE  /\ ready # <<>> /\ Head(ready).kind = "read" /\ Head(ready) \in ToSet(ready)
         /\ Head(ready).outcome \in {"ok", "data", "eof", "error"}
         /\ Head(ready).chunk \in Nat
         /\ net'.reading = IF Head(ready).outcome = "data" /\ ~program.throttled
                           THEN net.reading + 1 ELSE net.reading
         /\ sock'.nextRead = IF Head(ready).outcome = "data" /\ program.throttled
                             THEN <<Head(ready).chunk>> ELSE sock.nextRead
         /\ sock'.eof_ = (sock.eof_ \/ Head(ready).outcome = "eof")
         /\ sock'.except_ = (sock.except_ \/ Head(ready).outcome = "error")
         /\ sock'.isWriting = sock.isWriting
<1>1. sock \in Members /\ net \in NetTypes
  BY DEF DataTypes, Members, NetTypes
<1>2. ready # <<>> /\ Head(ready).kind = "read"
  BY DEF RunRead, RunsHandler
<1>3. /\ Head(ready) \in ToSet(ready) /\ Head(ready).chunk \in Nat
      /\ Head(ready).outcome \in {"ok", "data", "eof", "error"}
  BY <1>2, FrontOfReady
<1>4. net' = [net EXCEPT !.reading =
                IF Head(ready).outcome = "data" /\ ~program.throttled THEN @ + 1
                ELSE @]
  BY DEF RunRead, Rearms
<1>5. sock' = CASE Head(ready).outcome = "eof" ->
                     WithValue([sock EXCEPT !.eof_ = TRUE])
                [] Head(ready).outcome = "error" -> WithError(sock)
                [] Head(ready).outcome = "data" /\ program.throttled ->
                     WithValue([sock EXCEPT !.nextRead = <<Head(ready).chunk>>])
                [] OTHER -> sock
  BY DEF RunRead
<1>6. /\ sock'.nextRead = IF Head(ready).outcome = "data" /\ program.throttled
                          THEN <<Head(ready).chunk>> ELSE sock.nextRead
      /\ sock'.eof_ = (sock.eof_ \/ Head(ready).outcome = "eof")
      /\ sock'.except_ = (sock.except_ \/ Head(ready).outcome = "error")
      /\ sock'.isWriting = sock.isWriting
  BY <1>1, <1>3, <1>5 DEF WithValue, WithError, Members
<1> QED BY <1>1, <1>2, <1>3, <1>4, <1>6 DEF NetTypes

-----------------------------------------------------------------------------
(* Where the processes are *)

\* The steps of the coroutine of the socket that move it.
SocketMoves ==
  /\ running = "socket"
  /\ \/ Handshake \/ Announce \/ Initialise \/ ForwardRead \/ NothingToForward
     \/ AwaitWrite \/ AwaitBuffers \/ WriteAwaited \/ TakeBuffers
     \/ WaitForRoom("socket") \/ ThrottledSend("socket")

LEMMA SocketStays ==
  ASSUME ControlTypes, DataTypes, Loop, [Next]_vars
  PROVE  /\ Alive("socket")' => Alive("socket")
         /\ UNCHANGED pc["socket"] \/ (SocketMoves /\ Alive("socket"))
<1> DEFINE Goal == /\ Alive("socket")' => Alive("socket")
                   /\ \/ UNCHANGED pc["socket"]
                      \/ SocketMoves /\ Alive("socket")
<1>0. running = "socket" => Alive("socket")
  BY DEF Loop, Nobody
<1> USE <1>0, FrontOfQueue, FrontOfReady
    DEF ControlTypes, Alive, Processes, Nobody, SocketMoves
<1>1. CASE ProcessMessage
  BY <1>1 DEF ProcessMessage, TakesItem, Resume, NoResume, Dies
<1>2. CASE ProcessResume
  BY <1>2 DEF ProcessResume, TakesItem, Resume, NoResume, Dies
<1>3. CASE ServerSpawnsOwner
  BY <1>3 DEF ServerSpawnsOwner, TakesItem
<1>4. CASE RunOne
  BY <1>4 DEF RunOne, procVars
<1>5. CASE RunContinuation
  BY <1>5 DEF RunContinuation, RunsHandler, Resume, NoResume, Dies
<1>6. CASE RunRead
  BY <1>6 DEF RunRead, RunsHandler, procVars
<1>7. CASE RunWrite
  BY <1>7 DEF RunWrite, RunsHandler, procVars
<1>8. CASE RunHandshake
  BY <1>8 DEF RunHandshake, RunsHandler, procVars
<1>9. CASE RunStaleHandler
  BY <1>9 DEF RunStaleHandler, procVars
<1>10. CASE EndPoll
  BY <1>10 DEF EndPoll, procVars
<1>11. CASE Destroy
  BY <1>11 DEF Destroy, Destroyed
<1>12. ASSUME NEW p \in Processes, CanQueueNull(p) PROVE Goal
  BY <1>12 DEF CanQueueNull, InCanQueue, procVars
<1>13. ASSUME NEW p \in Processes, WaitForRoom(p) PROVE Goal
  BY <1>13 DEF WaitForRoom, InCanQueue, Park
<1>14. ASSUME NEW p \in Processes, ThrottledSend(p) PROVE Goal
  BY <1>14 DEF ThrottledSend, InCanQueue, GoOn
<1>15. CASE Handshake
  BY <1>15 DEF Handshake, InSocket, Park
<1>16. CASE Announce
  BY <1>16 DEF Announce, InSocket, Park
<1>17. CASE Initialise
  BY <1>17 DEF Initialise, InSocket, GoOn
<1>18. CASE EndOfFile
  BY <1>18 DEF EndOfFile, InSocket, Dies
<1>19. CASE ForwardRead
  BY <1>19 DEF ForwardRead, InSocket, BeginSendThrottled, Park, GoOn
<1>20. CASE NothingToForward
  BY <1>20 DEF NothingToForward, InSocket, GoOn
<1>21. CASE AwaitWrite
  BY <1>21 DEF AwaitWrite, InSocket, ParkOnPromise, Park, GoOn
<1>22. CASE AwaitBuffers
  BY <1>22 DEF AwaitBuffers, InSocket, ParkOnPromise, Park, GoOn
<1>23. CASE WriteAwaited
  BY <1>23 DEF WriteAwaited, InSocket, Dies, GoOn
<1>24. CASE TakeBuffers
  BY <1>24, BuffersTaken DEF InSocket, Dies, GoOn
<1>25. CASE OwnerEnds
  BY <1>25 DEF OwnerEnds, InOwner, Dies
<1>26. CASE InitRecvSocket
  BY <1>26 DEF InitRecvSocket, InOwner, GoOn
<1>27. CASE AwaitChunk
  BY <1>27 DEF AwaitChunk, InOwner, Park, GoOn
<1>28. CASE TakeChunk
  BY <1>28 DEF TakeChunk, InOwner, GoOn
<1>29. ASSUME NEW call \in program.calls, OwnerSends(call) PROVE Goal
  BY <1>29 DEF OwnerSends, InOwner, BeginSendThrottled, Park, GoOn
<1>30. CASE ReadCompletes
  BY <1>30 DEF ReadCompletes, Completes, procVars
<1>31. CASE WriteCompletes
  BY <1>31 DEF WriteCompletes, Completes, procVars
<1>32. CASE HandshakeCompletes
  BY <1>32 DEF HandshakeCompletes, Completes, procVars
<1>33. CASE UNCHANGED vars
  BY <1>33 DEF vars, procVars
<1>34. CASE OwnerSleeps
  BY <1>34 DEF OwnerSleeps, InOwner, Park
<1>35. CASE TimerWakesOwner
  BY <1>35 DEF TimerWakesOwner
<1> QED BY <1>1, <1>2, <1>3, <1>4, <1>5, <1>6, <1>7, <1>8, <1>9, <1>10, <1>11,
  <1>12, <1>13, <1>14, <1>15, <1>16, <1>17, <1>18, <1>19, <1>20, <1>21, <1>22,
  <1>23, <1>24, <1>25, <1>26, <1>27, <1>28, <1>29, <1>30, <1>31, <1>32, <1>33,
  <1>34, <1>35
  DEF Next, Thread, Network

-----------------------------------------------------------------------------
(* One read *)

LEMMA OneReadStep ==
  ASSUME ControlTypes, DataTypes, Loop, Beginning, OneRead, Outgoing, [Next]_vars
  PROVE  OneRead'
<1>0. /\ ReadCompletes => net.reading > 0 /\ NoReadHandler
      /\ net.reading \in Nat
  BY DEF ReadCompletes, OneRead
<1>1. /\ Unique(ready', "read")
      /\ ReadCompletes \/ (NoReadHandler => NoReadHandler')
      /\ RunRead => NoReadHandler'
  BY <1>0, KindsStep DEF OneRead, NoReadHandler
<1>2. CASE RunRead
  <2>1. ~NoReadHandler
    BY <1>2, ReadEffects DEF NoReadHandler, Absent
  <2>2. net.reading = 0 /\ sock.nextRead = <<>>
    BY <2>1 DEF OneRead
  <2> QED BY <1>1, <1>2, <2>2, ProgramStays, ReadEffects DEF OneRead
<1>3. CASE Initialise
  <2>1. net.reading = 0 /\ NoReadHandler /\ sock.nextRead = <<>>
    BY <1>3 DEF Initialise, InSocket, Beginning, Early
  <2>2. net'.reading = 1 /\ sock' = sock /\ ready' = ready
    BY <1>3, <2>1 DEF Initialise, DataTypes
  <2> QED BY <1>1, <2>1, <2>2 DEF OneRead, NoReadHandler
<1>4. CASE ThrottledSend("socket")
  <2>1. sock.nextRead # <<>>
    BY <1>4 DEF ThrottledSend, InCanQueue, Outgoing, Sending
  <2>2. net.reading = 0 /\ NoReadHandler
    BY <2>1 DEF OneRead
  <2>3. net'.reading = 1 /\ sock'.nextRead = <<>> /\ ready' = ready
    BY <1>4, <2>2 DEF ThrottledSend, DataTypes
  <2> QED BY <1>1, <2>2, <2>3 DEF OneRead, NoReadHandler
<1>5. CASE ReadCompletes
  <2>1. net.reading = 1 /\ sock.nextRead = <<>>
    BY <1>0, <1>5 DEF OneRead
  <2>2. net'.reading = 0 /\ sock' = sock
    BY <1>5, <2>1 DEF ReadCompletes, Completes, DataTypes
  <2> QED BY <1>1, <2>1, <2>2 DEF OneRead
<1>6. CASE /\ UNCHANGED net.reading \/ net'.reading = 0
           /\ UNCHANGED sock.nextRead /\ ~ReadCompletes
  BY <1>1, <1>6, ProgramStays DEF OneRead
<1> QED BY <1>2, <1>3, <1>4, <1>5, <1>6, SockFields, NetFields

LEMMA OutgoingStep ==
  ASSUME ControlTypes, DataTypes, Loop, OneRead, Outgoing, [Next]_vars
  PROVE  Outgoing'
<1>1. pc'["socket"] \in Sending =>
        /\ sock'.nextRead # <<>>
        /\ outgoing'["socket"] = [slot |-> "recv", body |-> sock'.nextRead]
  <2> SUFFICES ASSUME pc'["socket"] \in Sending
               PROVE  /\ sock'.nextRead # <<>>
                      /\ outgoing'["socket"] =
                           [slot |-> "recv", body |-> sock'.nextRead]
    OBVIOUS
  <2>1. CASE ForwardRead
    BY <2>1 DEF ForwardRead, BeginSendThrottled, DataTypes, Processes
  <2>2. CASE ~ForwardRead
    <3>1. pc["socket"] \in Sending /\ ~ThrottledSend("socket")
      <4> USE DEF Sending, ControlTypes, Processes
      <4>1. CASE UNCHANGED pc["socket"]
        BY <4>1 DEF ThrottledSend, GoOn
      <4>2. CASE SocketMoves
        <5>1. ~TakeBuffers
          BY BuffersTaken DEF GoOn, InSocket
        <5> QED
          BY <2>2, <4>2, <5>1 DEF SocketMoves, Handshake, Announce, Initialise,
            NothingToForward, AwaitWrite, AwaitBuffers, WriteAwaited, WaitForRoom,
            ThrottledSend, Park, GoOn, ParkOnPromise, InCanQueue, Dies, InSocket
      <4> QED BY <4>1, <4>2, SocketStays
    <3>2. sock.nextRead # <<>> /\ NoReadHandler
      BY <3>1 DEF Outgoing, OneRead
    <3>3. UNCHANGED sock.nextRead
      BY <3>1, <3>2, ReadEffects, SockFields DEF NoReadHandler, Absent
    <3>4. UNCHANGED outgoing["socket"]
      <4>1. ASSUME NEW p \in Processes, ThrottledSend(p)
            PROVE  UNCHANGED outgoing["socket"]
        BY <3>1, <4>1 DEF ThrottledSend, DataTypes, Processes
      <4>2. ASSUME NEW call \in program.calls, OwnerSends(call)
            PROVE  UNCHANGED outgoing["socket"]
        BY <4>2 DEF OwnerSends, BeginSendThrottled, DataTypes, Processes
      <4> QED BY <2>2, <4>1, <4>2, OutgoingChanges
    <3> QED BY <3>1, <3>2, <3>3, <3>4 DEF Outgoing
  <2> QED BY <2>1, <2>2
<1>2. pc'["owner"] \in Sending => outgoing'["owner"].slot \in OutSlots
  <2>0. outgoing \in [Processes -> Calls]
    BY DEF DataTypes
  <2>1. ASSUME NEW call \in program.calls, OwnerSends(call)
        PROVE  pc'["owner"] \in Sending => outgoing'["owner"].slot \in OutSlots
    <3>1. OutSlot(call) \in OutSlots
      BY Arguments, ProgramTypes
    <3> QED BY <2>0, <2>1, <3>1
            DEF OwnerSends, InOwner, BeginSendThrottled, Sending, Processes
  <2> USE <2>0, FrontOfQueue, FrontOfReady
      DEF ControlTypes, Processes, Nobody, Sending, Outgoing
  <2> QED
    <3>1. CASE ProcessMessage
      BY <3>1 DEF ProcessMessage, TakesItem, Resume, NoResume, Dies
    <3>2. CASE ProcessResume
      BY <3>2 DEF ProcessResume, TakesItem, Resume, NoResume, Dies
    <3>3. CASE ServerSpawnsOwner
      BY <3>3 DEF ServerSpawnsOwner, TakesItem
    <3>4. CASE RunOne
      BY <3>4 DEF RunOne, procVars
    <3>5. CASE RunContinuation
      BY <3>5 DEF RunContinuation, RunsHandler, Resume, NoResume, Dies
    <3>6. CASE RunRead
      BY <3>6 DEF RunRead, RunsHandler, procVars
    <3>7. CASE RunWrite
      BY <3>7 DEF RunWrite, RunsHandler, procVars
    <3>8. CASE RunHandshake
      BY <3>8 DEF RunHandshake, RunsHandler, procVars
    <3>9. CASE RunStaleHandler
      BY <3>9 DEF RunStaleHandler, procVars
    <3>10. CASE EndPoll
      BY <3>10 DEF EndPoll, procVars
    <3>11. CASE Destroy
      BY <3>11 DEF Destroy
    <3>12. ASSUME NEW p \in Processes, CanQueueNull(p) PROVE pc'["owner"] \in Sending => outgoing'["owner"].slot \in OutSlots
      BY <3>12 DEF CanQueueNull, InCanQueue, procVars
    <3>13. ASSUME NEW p \in Processes, WaitForRoom(p) PROVE pc'["owner"] \in Sending => outgoing'["owner"].slot \in OutSlots
      BY <3>13 DEF WaitForRoom, InCanQueue, Park
    <3>14. ASSUME NEW p \in Processes, ThrottledSend(p) PROVE pc'["owner"] \in Sending => outgoing'["owner"].slot \in OutSlots
      BY <3>14 DEF ThrottledSend, InCanQueue, GoOn
    <3>15. CASE Handshake
      BY <3>15 DEF Handshake, InSocket, Park
    <3>16. CASE Announce
      BY <3>16 DEF Announce, InSocket, Park
    <3>17. CASE Initialise
      BY <3>17 DEF Initialise, InSocket, GoOn
    <3>18. CASE EndOfFile
      BY <3>18 DEF EndOfFile, InSocket, Dies
    <3>19. CASE ForwardRead
      BY <3>19 DEF ForwardRead, InSocket, BeginSendThrottled, Park, GoOn
    <3>20. CASE NothingToForward
      BY <3>20 DEF NothingToForward, InSocket, GoOn
    <3>21. CASE AwaitWrite
      BY <3>21 DEF AwaitWrite, InSocket, ParkOnPromise, Park, GoOn
    <3>22. CASE AwaitBuffers
      BY <3>22 DEF AwaitBuffers, InSocket, ParkOnPromise, Park, GoOn
    <3>23. CASE WriteAwaited
      BY <3>23 DEF WriteAwaited, InSocket, Dies, GoOn
    <3>24. CASE TakeBuffers
      BY <3>24, BuffersTaken DEF InSocket, Dies, GoOn
    <3>25. CASE OwnerEnds
      BY <3>25 DEF OwnerEnds, InOwner, Dies
    <3>26. CASE InitRecvSocket
      BY <3>26 DEF InitRecvSocket, InOwner, GoOn
    <3>27. CASE AwaitChunk
      BY <3>27 DEF AwaitChunk, InOwner, Park, GoOn
    <3>28. CASE TakeChunk
      BY <3>28 DEF TakeChunk, InOwner, GoOn
    <3>29. ASSUME NEW call \in program.calls, OwnerSends(call) PROVE pc'["owner"] \in Sending => outgoing'["owner"].slot \in OutSlots
      BY <3>29, <2>1
    <3>30. CASE ReadCompletes
      BY <3>30 DEF ReadCompletes, Completes, procVars
    <3>31. CASE WriteCompletes
      BY <3>31 DEF WriteCompletes, Completes, procVars
    <3>32. CASE HandshakeCompletes
      BY <3>32 DEF HandshakeCompletes, Completes, procVars
    <3>33. CASE UNCHANGED vars
      BY <3>33 DEF vars, procVars
    <3>34. CASE OwnerSleeps
      BY <3>34 DEF OwnerSleeps, InOwner, Park
    <3>35. CASE TimerWakesOwner
      BY <3>35 DEF TimerWakesOwner
    <3> QED BY <3>1, <3>2, <3>3, <3>4, <3>5, <3>6, <3>7, <3>8, <3>9, <3>10, <3>11,
      <3>12, <3>13, <3>14, <3>15, <3>16, <3>17, <3>18, <3>19, <3>20, <3>21, <3>22,
      <3>23, <3>24, <3>25, <3>26, <3>27, <3>28, <3>29, <3>30, <3>31, <3>32, <3>33,
      <3>34, <3>35
      DEF Next, Thread, Network
<1> QED BY <1>1, <1>2 DEF Outgoing

-----------------------------------------------------------------------------
(* One write *)

LEMMA OneWriteStep ==
  ASSUME ControlTypes, DataTypes, Loop, OneWrite, [Next]_vars
  PROVE  OneWrite'
<1>0. net.writing \in Seq(Seq(Nat)) /\ net \in NetTypes /\ sock \in Members
  BY DEF DataTypes, NetTypes, Members
<1>1. TakeBuffers => ~sock.isWriting /\ net.writing = <<>> /\ NoWriteHandler
  BY BuffersTaken DEF InSocket, Loop, Nobody, OneWrite
<1>2. WriteCompletes => net.writing # <<>> /\ NoWriteHandler /\ sock.isWriting
  BY DEF WriteCompletes, OneWrite
<1>3. /\ Unique(ready', "write")
      /\ \/ WriteCompletes
         \/ /\ TakeBuffers /\ net' = [net EXCEPT !.wire = @ \o Buff]
            /\ sock' = Writing(sock)
         \/ NoWriteHandler => NoWriteHandler'
      /\ RunWrite => NoWriteHandler'
  BY <1>1, <1>2, KindsStep DEF OneWrite, NoWriteHandler
<1>4. Alive("socket")' /\ pc'["socket"] = "buffers" => ~sock'.isWriting
  <2> SUFFICES ASSUME Alive("socket")', pc'["socket"] = "buffers"
               PROVE  ~sock'.isWriting
    OBVIOUS
  <2>1. Alive("socket")
    BY SocketStays
  <2>2. CASE AwaitBuffers
    <3>1. ~TakeBuffers /\ ~RunWrite
      BY <2>2, BuffersTaken DEF AwaitBuffers, InSocket, RunWrite, RunsHandler, Nobody
    <3> QED BY <2>2, <3>1, SockFields DEF AwaitBuffers
  <2>3. CASE ~AwaitBuffers
    <3>1. pc["socket"] = "buffers" /\ (TakeBuffers => pc' = pc /\ sock' = sock)
      <4>1. TakeBuffers => pc["socket"] = "buffers" /\ pc' = pc /\ sock' = sock
        <5>1. TakeBuffers =>
                /\ pc["socket"] = "buffers"
                /\ \/ pc' = pc /\ sock' = sock
                   \/ pc' = [pc EXCEPT !["socket"] = "loop"]
          BY BuffersTaken, Zenon DEF InSocket, GoOn
        <5> QED BY <5>1 DEF ControlTypes, Processes
      <4>2. UNCHANGED pc["socket"] \/ SocketMoves
        BY SocketStays
      <4>3. ASSUME SocketMoves PROVE TakeBuffers
        BY <2>3, <4>3
           DEF SocketMoves, Handshake, Announce, Initialise, ForwardRead,
               NothingToForward, AwaitWrite, WriteAwaited, WaitForRoom,
               ThrottledSend, Park, GoOn, ParkOnPromise, InCanQueue, Dies,
               InSocket, BeginSendThrottled, ControlTypes, Processes, Loop,
               Nobody, Alive
      <4> QED BY <4>1, <4>2, <4>3
    <3>2. ~sock.isWriting
      BY <2>1, <3>1 DEF OneWrite
    <3>3. RunWrite => ~sock'.isWriting
      BY <1>0 DEF RunWrite, Members, WithError, WithValue, Written
    <3> QED BY <3>1, <3>2, <3>3, SockFields
  <2> QED BY <2>2, <2>3
<1>5. CASE RunWrite
  <2>1. ready # <<>> /\ Head(ready).kind = "write"
    BY <1>5 DEF RunWrite, RunsHandler
  <2>2. ~NoWriteHandler
    BY <2>1, FrontOfReady DEF NoWriteHandler, Absent
  <2>3. net.writing = <<>>
    BY <2>2 DEF OneWrite
  <2>4. net' = net
    BY <1>5 DEF RunWrite
  <2> QED BY <1>3, <1>4, <1>5, <2>3, <2>4 DEF OneWrite
<1>6. CASE WriteCompletes
  <2>1. Len(net.writing) = 1 /\ sock' = sock
    <3>1. Len(net.writing) \in Nat \ {0} /\ Len(net.writing) <= 1
      BY <1>0, <1>2, <1>6, EmptySeq DEF OneWrite
    <3>2. sock' = sock
      BY <1>6, Zenon DEF WriteCompletes, Completes
    <3>3. \A n \in Nat \ {0} : n <= 1 => n = 1
      OBVIOUS
    <3> QED BY <3>1, <3>2, <3>3, Zenon
  <2>2. Tail(net.writing) = <<>>
    <3>1. Tail(net.writing) \in Seq(Seq(Nat)) /\ Len(Tail(net.writing)) = 0
      BY <1>0, <1>2, <1>6, <2>1, HeadTailProperties
    <3> QED BY <3>1, EmptySeq
  <2>3. net'.writing = Tail(net.writing)
    BY <1>0, <1>6 DEF WriteCompletes, NetTypes
  <2> QED BY <1>2, <1>3, <1>4, <1>6, <2>1, <2>2, <2>3, EmptySeq DEF OneWrite
<1>7. CASE TakeBuffers
  <2>1. CASE sock' = Writing(sock)
    <3>1. sock'.isWriting
      BY <1>0, <2>1 DEF Writing, Members
    <3>2. \/ net'.writing = net.writing
          \/ /\ net'.writing = Append(net.writing, Buff)
             /\ NoWriteHandler'
      <4>1. \/ net' = [net EXCEPT !.wire = @ \o Buff]
            \/ /\ net' = [net EXCEPT !.writing = Append(@, Buff)]
               /\ ready' = BuffersPost
            \/ UNCHANGED net
        BY <1>7, BuffersTaken, Zenon
      <4>2. CASE net' = [net EXCEPT !.writing = Append(@, Buff)]
        <5>1. \A n \in NetTypes : \A b, w \in Seq(Nat) :
                [n EXCEPT !.writing = Append(@, b)] # [n EXCEPT !.wire = @ \o w]
          <6>1. ASSUME NEW n \in NetTypes, NEW b \in Seq(Nat), NEW w \in Seq(Nat)
                PROVE  Append(n.writing, b) # n.writing
            <7>1. Len(n.writing) \in Nat /\ Len(Append(n.writing, b)) = Len(n.writing) + 1
              BY DEF NetTypes
            <7> QED BY <7>1
          <6> QED BY <6>1 DEF NetTypes
        <5>2. Buff \in Seq(Nat)
          BY BlocksTyped
        <5>3. net' # [net EXCEPT !.wire = @ \o Buff]
          BY <1>0, <4>2, <5>1, <5>2
        <5>4. ~WriteCompletes
          BY <1>1, <1>2, <1>7
        <5>5. NoWriteHandler'
          BY <1>1, <1>3, <1>7, <5>3, <5>4
        <5> QED BY <1>0, <4>2, <5>5 DEF NetTypes
      <4> QED BY <1>0, <4>1, <4>2 DEF NetTypes
    <3>3. Buff \in Seq(Nat) /\ Len(<<>>) = 0
      BY BlocksTyped
    <3>4. Len(Append(<<>>, Buff)) = 1
      BY <3>3
    <3> QED BY <1>1, <1>3, <1>4, <1>7, <3>1, <3>2, <3>3, <3>4 DEF OneWrite
  <2>2. CASE sock' # Writing(sock)
    <3>1. sock' = sock /\ net' = net
      BY <1>7, <2>2, BuffersTaken, Zenon
    <3> QED BY <1>1, <1>2, <1>3, <1>4, <1>7, <2>2, <3>1 DEF OneWrite
  <2> QED BY <2>1, <2>2
<1>8. CASE ~RunWrite /\ ~WriteCompletes /\ ~TakeBuffers
  <2>1. UNCHANGED sock.isWriting /\ (NoWriteHandler => NoWriteHandler')
    BY <1>3, <1>8, SockFields
  <2>2. UNCHANGED net.writing \/ net'.writing = <<>>
    BY <1>8, NetFields
  <2> QED BY <1>3, <1>4, <2>1, <2>2 DEF OneWrite
<1> QED BY <1>5, <1>6, <1>7, <1>8

-----------------------------------------------------------------------------
(* The beginning of a connection *)

\* A message on its way to the owner has been read and not been throttled, or
\* it is sent by the socket; the other messages are sent by the owner.
Sends(s) ==
  \/ RunRead /\ s = "recv" /\ ~program.throttled
  \/ ThrottledSend("socket") /\ s = outgoing["socket"].slot
  \/ ThrottledSend("owner") /\ s = outgoing["owner"].slot
  \/ InitRecvSocket /\ s = "init"
  \/ \E call \in program.calls : OwnerSends(call) /\ s = OutSlot(call)

\* What a step adds to queue_, and what it takes.
LEMMA QueueForms ==
  ASSUME ControlTypes, DataTypes, [Next]_vars
  PROVE  \/ UNCHANGED queue
         \/ /\ ProcessMessage \/ ProcessResume
            /\ queue # <<>> /\ queue' = Tail(queue)
         \/ /\ ServerSpawnsOwner /\ queue # <<>>
            /\ queue' = Append(Tail(queue), ResumeItem("owner", 0))
         \/ \E i \in Items :
              /\ queue' = Append(queue, i)
              /\ \/ Announce /\ i = ReadyItem
                 \/ i.kind = "message" /\ Sends(i.slot)
                 \/ \E p \in Processes : /\ i = ResumeItem(p, resumes[p])
                                         /\ running = p /\ pc'[p] = "yield"
<1>0. /\ \A p \in Processes : ResumeItem(p, resumes[p]) \in Items
      /\ "socket" \in Processes /\ "owner" \in Processes
      /\ "recv" \in Slots /\ "init" \in Slots
  BY NewItems DEF ControlTypes, Processes, Slots
<1>1. CASE ProcessMessage \/ ProcessResume
  BY <1>1 DEF ProcessMessage, ProcessResume, TakesItem
<1>2. CASE ServerSpawnsOwner
  BY <1>2 DEF ServerSpawnsOwner, TakesItem
<1>3. CASE RunRead
  <2> DEFINE i == MessageItem("recv", <<Head(ready).chunk>>)
  <2>1. <<Head(ready).chunk>> \in Payloads("recv")
    BY <1>3, FrontOfReady DEF RunRead, RunsHandler, Payloads
  <2>2. i \in Items /\ i.kind = "message" /\ i.slot = "recv"
    BY <1>0, <2>1, NewItems DEF MessageItem
  <2>3. UNCHANGED queue \/ (queue' = Append(queue, i) /\ ~program.throttled)
    BY <1>3 DEF RunRead
  <2> HIDE DEF i
  <2> QED BY <1>3, <2>2, <2>3 DEF Sends
<1>4. CASE Announce
  BY <1>4, NewItems DEF Announce
<1>5. CASE ForwardRead
  BY <1>0, <1>5 DEF ForwardRead, InSocket, BeginSendThrottled, Park, ControlTypes
<1>6. CASE InitRecvSocket
  <2> DEFINE i == MessageItem("init", <<>>)
  <2>1. <<>> \in Payloads("init")
    BY DEF Payloads
  <2>2. i \in Items /\ i.kind = "message" /\ i.slot = "init"
    BY <1>0, <2>1, NewItems DEF MessageItem
  <2>3. queue' = Append(queue, i)
    BY <1>6 DEF InitRecvSocket
  <2> HIDE DEF i
  <2> QED BY <1>6, <2>2, <2>3 DEF Sends
<1>7. ASSUME NEW p \in Processes, ThrottledSend(p)
      PROVE  \E i \in Items : /\ queue' = Append(queue, i)
                              /\ i.kind = "message" /\ Sends(i.slot)
  <2> DEFINE i == MessageItem(outgoing[p].slot, outgoing[p].body)
  <2>1. i \in Items /\ i.kind = "message" /\ i.slot = outgoing[p].slot
    BY NewItems DEF MessageItem, DataTypes, Calls
  <2>2. queue' = Append(queue, i)
    BY <1>7 DEF ThrottledSend
  <2> HIDE DEF i
  <2> QED BY <1>7, <2>1, <2>2 DEF Sends, Processes
<1>8. ASSUME NEW call \in program.calls, OwnerSends(call)
      PROVE  \/ UNCHANGED queue
             \/ \E i \in Items :
                  /\ queue' = Append(queue, i)
                  /\ \/ i.kind = "message" /\ Sends(i.slot)
                     \/ \E p \in Processes : /\ i = ResumeItem(p, resumes[p])
                                             /\ running = p /\ pc'[p] = "yield"
  <2> DEFINE i == MessageItem(OutSlot(call), Argument(call))
  <2>1. i \in Items /\ i.kind = "message" /\ i.slot = OutSlot(call)
    BY Arguments, ProgramTypes, NewItems DEF MessageItem
  <2>2. \/ queue' = Append(queue, i)
        \/ UNCHANGED queue
        \/ /\ queue' = Append(queue, ResumeItem("owner", resumes["owner"]))
           /\ running = "owner" /\ pc'["owner"] = "yield"
    BY <1>0, <1>8
       DEF OwnerSends, InOwner, BeginSendThrottled, Park, ControlTypes
  <2>3. Sends(OutSlot(call))
    BY <1>8 DEF Sends
  <2> HIDE DEF i
  <2> QED BY <1>0, <2>1, <2>2, <2>3
<1>9. CASE UNCHANGED queue
  BY <1>9
<1> QED BY <1>1, <1>2, <1>3, <1>4, <1>5, <1>6, <1>7, <1>8, <1>9, QueueChanges

\* The kinds of the items.
LEMMA ItemKinds ==
  ASSUME ControlTypes, DataTypes, Beginning, [Next]_vars
  PROVE  /\ Unique(queue, "onReady") /\ (Announce => Absent(queue, "onReady"))
              => Unique(queue', "onReady")
         /\ Absent(queue, "onReady") /\ ~Announce => Absent(queue', "onReady")
         /\ ServerSpawnsOwner => Absent(queue', "onReady")
         /\ Absent(queue, "message") /\ (\A s \in Slots : ~Sends(s))
              => Absent(queue', "message")
<1>1. queue \in Seq(Items)
  BY DEF DataTypes
<1>2. ASSUME queue # <<>>
      PROVE  /\ Tail(queue) \in Seq(Items)
             /\ \A kind : /\ Absent(queue, kind) => Absent(Tail(queue), kind)
                          /\ Unique(queue, kind) => Unique(Tail(queue), kind)
                          /\ Unique(queue, kind) /\ Head(queue).kind = kind
                               => Absent(Tail(queue), kind)
  BY <1>1, <1>2, KindsTaken, HeadTailProperties
<1>3. ASSUME NEW s \in Seq(Items), NEW i \in Items, NEW kind
      PROVE  /\ i.kind # kind /\ Absent(s, kind) => Absent(Append(s, i), kind)
             /\ i.kind # kind /\ Unique(s, kind) => Unique(Append(s, i), kind)
             /\ Absent(s, kind) => Unique(Append(s, i), kind)
  BY KindsAppended
<1>4. CASE UNCHANGED queue /\ ~ServerSpawnsOwner
  BY <1>4
<1>5. CASE queue # <<>> /\ queue' = Tail(queue) /\ ~ServerSpawnsOwner
  BY <1>2, <1>5
<1>6. CASE /\ ServerSpawnsOwner /\ queue # <<>>
           /\ queue' = Append(Tail(queue), ResumeItem("owner", 0))
  <2>1. /\ ResumeItem("owner", 0) \in Items
        /\ ResumeItem("owner", 0).kind = "resume"
    BY NewItems DEF ResumeItem, Processes
  <2>2. Head(queue).kind = "onReady"
    BY <1>6 DEF ServerSpawnsOwner, TakesItem
  <2> HIDE DEF ServerSpawnsOwner
  <2> DEFINE i == ResumeItem("owner", 0)
             s == Tail(queue)
  <2>3. /\ s \in Seq(Items) /\ i \in Items /\ i.kind = "resume" /\ queue' = Append(s, i)
        /\ Unique(queue, "onReady") => Unique(s, "onReady") /\ Absent(s, "onReady")
        /\ Absent(queue, "onReady") => Absent(s, "onReady")
        /\ Absent(queue, "message") => Absent(s, "message")
    BY <1>2, <1>6, <2>1, <2>2
  <2> HIDE DEF i, s
  <2> QED BY <1>3, <2>3 DEF Beginning
<1>7. ASSUME NEW i \in Items, queue' = Append(queue, i), ~ServerSpawnsOwner,
             \/ Announce /\ i = ReadyItem
             \/ i.kind = "message" /\ Sends(i.slot)
             \/ \E p \in Processes : i = ResumeItem(p, resumes[p])
      PROVE  /\ Unique(queue, "onReady") /\ (Announce => Absent(queue, "onReady"))
                  => Unique(queue', "onReady")
             /\ Absent(queue, "onReady") /\ ~Announce => Absent(queue', "onReady")
             /\ Absent(queue, "message") /\ (\A s \in Slots : ~Sends(s))
                  => Absent(queue', "message")
  <2>1. i.slot \in Slots
    BY DEF Items
  <2>2. /\ i.kind = "onReady" => Announce
        /\ i.kind = "message" => Sends(i.slot)
    BY <1>7 DEF ReadyItem, ResumeItem
  <2> QED BY <1>1, <1>3, <1>7, <2>1, <2>2
<1>8. ServerSpawnsOwner => queue # <<>> /\ queue' = Append(Tail(queue), ResumeItem("owner", 0))
  BY DEF ServerSpawnsOwner, TakesItem
<1> QED BY <1>4, <1>5, <1>6, <1>7, <1>8, QueueForms

\* A process that is resumed is counted, and nothing else is.
LEMMA ResumesStay ==
  ASSUME ControlTypes, DataTypes, Loop, [Next]_vars,
         running # Nobody \/ running' = Nobody
  PROVE  UNCHANGED resumes
<1> USE FrontOfQueue, FrontOfReady
    DEF ControlTypes, Loop, Alive, Processes, Nobody
<1>1. CASE ProcessMessage
  BY <1>1 DEF ProcessMessage, TakesItem, Resume, NoResume, Dies
<1>2. CASE ProcessResume
  BY <1>2 DEF ProcessResume, TakesItem, Resume, NoResume, Dies
<1>3. CASE ServerSpawnsOwner
  BY <1>3 DEF ServerSpawnsOwner, TakesItem
<1>4. CASE RunOne
  BY <1>4 DEF RunOne, procVars
<1>5. CASE RunContinuation
  BY <1>5 DEF RunContinuation, RunsHandler, Resume, NoResume, Dies
<1>6. CASE RunRead
  BY <1>6 DEF RunRead, RunsHandler, procVars
<1>7. CASE RunWrite
  BY <1>7 DEF RunWrite, RunsHandler, procVars
<1>8. CASE RunHandshake
  BY <1>8 DEF RunHandshake, RunsHandler, procVars
<1>9. CASE RunStaleHandler
  BY <1>9 DEF RunStaleHandler, procVars
<1>10. CASE EndPoll
  BY <1>10 DEF EndPoll, procVars
<1>11. CASE Destroy
  BY <1>11 DEF Destroy
<1>12. ASSUME NEW p \in Processes, CanQueueNull(p) PROVE UNCHANGED resumes
  BY <1>12 DEF CanQueueNull, InCanQueue, procVars
<1>13. ASSUME NEW p \in Processes, WaitForRoom(p) PROVE UNCHANGED resumes
  BY <1>13 DEF WaitForRoom, InCanQueue, Park
<1>14. ASSUME NEW p \in Processes, ThrottledSend(p) PROVE UNCHANGED resumes
  BY <1>14 DEF ThrottledSend, InCanQueue, GoOn
<1>15. CASE Handshake
  BY <1>15 DEF Handshake, InSocket, Park
<1>16. CASE Announce
  BY <1>16 DEF Announce, InSocket, Park
<1>17. CASE Initialise
  BY <1>17 DEF Initialise, InSocket, GoOn
<1>18. CASE EndOfFile
  BY <1>18 DEF EndOfFile, InSocket, Dies
<1>19. CASE ForwardRead
  BY <1>19 DEF ForwardRead, InSocket, BeginSendThrottled, Park, GoOn
<1>20. CASE NothingToForward
  BY <1>20 DEF NothingToForward, InSocket, GoOn
<1>21. CASE AwaitWrite
  BY <1>21 DEF AwaitWrite, InSocket, ParkOnPromise, Park, GoOn
<1>22. CASE AwaitBuffers
  BY <1>22 DEF AwaitBuffers, InSocket, ParkOnPromise, Park, GoOn
<1>23. CASE WriteAwaited
  BY <1>23 DEF WriteAwaited, InSocket, Dies, GoOn
<1>24. CASE TakeBuffers
  BY <1>24, BuffersTaken DEF InSocket, Dies, GoOn
<1>25. CASE OwnerEnds
  BY <1>25 DEF OwnerEnds, InOwner, Dies
<1>26. CASE InitRecvSocket
  BY <1>26 DEF InitRecvSocket, InOwner, GoOn
<1>27. CASE AwaitChunk
  BY <1>27 DEF AwaitChunk, InOwner, Park, GoOn
<1>28. CASE TakeChunk
  BY <1>28 DEF TakeChunk, InOwner, GoOn
<1>29. ASSUME NEW call \in program.calls, OwnerSends(call) PROVE UNCHANGED resumes
  BY <1>29 DEF OwnerSends, InOwner, BeginSendThrottled, Park, GoOn
<1>30. CASE ReadCompletes
  BY <1>30 DEF ReadCompletes, Completes, procVars
<1>31. CASE WriteCompletes
  BY <1>31 DEF WriteCompletes, Completes, procVars
<1>32. CASE HandshakeCompletes
  BY <1>32 DEF HandshakeCompletes, Completes, procVars
<1>33. CASE UNCHANGED vars
  BY <1>33 DEF vars, procVars
<1>34. CASE OwnerSleeps
  BY <1>34 DEF OwnerSleeps, InOwner, Park
<1>35. CASE TimerWakesOwner
  BY <1>35 DEF TimerWakesOwner
<1> QED BY <1>1, <1>2, <1>3, <1>4, <1>5, <1>6, <1>7, <1>8, <1>9, <1>10, <1>11,
  <1>12, <1>13, <1>14, <1>15, <1>16, <1>17, <1>18, <1>19, <1>20, <1>21, <1>22,
  <1>23, <1>24, <1>25, <1>26, <1>27, <1>28, <1>29, <1>30, <1>31, <1>32, <1>33,
  <1>34, <1>35
  DEF Next, Thread, Network

LEMMA OwnerStays ==
  ASSUME ControlTypes, DataTypes, Loop, [Next]_vars
  PROVE  /\ life'["owner"] = "unborn" => life["owner"] = "unborn"
         /\ life["owner"] = "unborn" => life'["owner"] = "unborn" \/ ServerSpawnsOwner
         /\ running # "owner" => UNCHANGED pc["owner"] \/ Alive("owner")
         /\ Alive("owner")' => Alive("owner") \/ ServerSpawnsOwner
<1> DEFINE Goal ==
      /\ life'["owner"] = "unborn" => life["owner"] = "unborn"
      /\ life["owner"] = "unborn" => life'["owner"] = "unborn" \/ ServerSpawnsOwner
      /\ running # "owner" => UNCHANGED pc["owner"] \/ Alive("owner")
      /\ Alive("owner")' => Alive("owner") \/ ServerSpawnsOwner
<1> USE FrontOfQueue, FrontOfReady
    DEF ControlTypes, Alive, Processes, Nobody
<1>1. CASE ProcessMessage
  BY <1>1 DEF ProcessMessage, TakesItem, Resume, NoResume, Dies, Receiver
<1>2. CASE ProcessResume
  BY <1>2 DEF ProcessResume, TakesItem, Resume, NoResume, Dies
<1>3. CASE ServerSpawnsOwner
  BY <1>3 DEF ServerSpawnsOwner, TakesItem
<1>4. CASE RunOne
  BY <1>4 DEF RunOne, procVars
<1>5. CASE RunContinuation
  BY <1>5 DEF RunContinuation, RunsHandler, Resume, NoResume, Dies
<1>6. CASE RunRead
  BY <1>6 DEF RunRead, RunsHandler, procVars
<1>7. CASE RunWrite
  BY <1>7 DEF RunWrite, RunsHandler, procVars
<1>8. CASE RunHandshake
  BY <1>8 DEF RunHandshake, RunsHandler, procVars
<1>9. CASE RunStaleHandler
  BY <1>9 DEF RunStaleHandler, procVars
<1>10. CASE EndPoll
  BY <1>10 DEF EndPoll, procVars
<1>11. CASE Destroy
  BY <1>11 DEF Destroy, Destroyed
<1>12. ASSUME NEW p \in Processes, CanQueueNull(p) PROVE Goal
  BY <1>12 DEF CanQueueNull, InCanQueue, procVars
<1>13. ASSUME NEW p \in Processes, WaitForRoom(p) PROVE Goal
  BY <1>13 DEF WaitForRoom, InCanQueue, Park
<1>14. ASSUME NEW p \in Processes, ThrottledSend(p) PROVE Goal
  BY <1>14 DEF ThrottledSend, InCanQueue, GoOn
<1>15. CASE Handshake
  BY <1>15 DEF Handshake, InSocket, Park
<1>16. CASE Announce
  BY <1>16 DEF Announce, InSocket, Park
<1>17. CASE Initialise
  BY <1>17 DEF Initialise, InSocket, GoOn
<1>18. CASE EndOfFile
  BY <1>18 DEF EndOfFile, InSocket, Dies
<1>19. CASE ForwardRead
  BY <1>19 DEF ForwardRead, InSocket, BeginSendThrottled, Park, GoOn
<1>20. CASE NothingToForward
  BY <1>20 DEF NothingToForward, InSocket, GoOn
<1>21. CASE AwaitWrite
  BY <1>21 DEF AwaitWrite, InSocket, ParkOnPromise, Park, GoOn
<1>22. CASE AwaitBuffers
  BY <1>22 DEF AwaitBuffers, InSocket, ParkOnPromise, Park, GoOn
<1>23. CASE WriteAwaited
  BY <1>23 DEF WriteAwaited, InSocket, Dies, GoOn
<1>24. CASE TakeBuffers
  BY <1>24, BuffersTaken DEF InSocket, Dies, GoOn
<1>25. CASE OwnerEnds
  BY <1>25 DEF OwnerEnds, InOwner, Dies, Loop
<1>26. CASE InitRecvSocket
  BY <1>26 DEF InitRecvSocket, InOwner, GoOn
<1>27. CASE AwaitChunk
  BY <1>27 DEF AwaitChunk, InOwner, Park, GoOn
<1>28. CASE TakeChunk
  BY <1>28 DEF TakeChunk, InOwner, GoOn
<1>29. ASSUME NEW call \in program.calls, OwnerSends(call) PROVE Goal
  BY <1>29 DEF OwnerSends, InOwner, BeginSendThrottled, Park, GoOn
<1>30. CASE ReadCompletes
  BY <1>30 DEF ReadCompletes, Completes, procVars
<1>31. CASE WriteCompletes
  BY <1>31 DEF WriteCompletes, Completes, procVars
<1>32. CASE HandshakeCompletes
  BY <1>32 DEF HandshakeCompletes, Completes, procVars
<1>33. CASE UNCHANGED vars
  BY <1>33 DEF vars, procVars
<1>34. CASE OwnerSleeps
  BY <1>34 DEF OwnerSleeps, InOwner, Park
<1>35. CASE TimerWakesOwner
  BY <1>35 DEF TimerWakesOwner
<1> QED BY <1>1, <1>2, <1>3, <1>4, <1>5, <1>6, <1>7, <1>8, <1>9, <1>10, <1>11,
  <1>12, <1>13, <1>14, <1>15, <1>16, <1>17, <1>18, <1>19, <1>20, <1>21, <1>22,
  <1>23, <1>24, <1>25, <1>26, <1>27, <1>28, <1>29, <1>30, <1>31, <1>32, <1>33,
  <1>34, <1>35
  DEF Next, Thread, Network

\* The socket is not held back before it has an owner.
LEMMA EarlySteps ==
  ASSUME ControlTypes, DataTypes, Loop, Beginning, OneWrite, [Next]_vars,
         pc["socket"] \in Early
  PROVE  /\ ~RunRead /\ ~RunWrite /\ ~ReadCompletes /\ ~TakeBuffers
         /\ ~ThrottledSend("socket") /\ ~WaitForRoom("socket")
         /\ pc'["socket"] \in Early \/ Initialise
<1>1. ~RunRead
  BY ReadEffects DEF Beginning, NoReadHandler, Absent
<1>2. ~RunWrite
  <2>1. RunWrite => ready # <<>> /\ Head(ready).kind = "write"
    BY DEF RunWrite, RunsHandler
  <2>2. NoWriteHandler
    BY DEF Beginning, OneWrite
  <2> QED BY <2>1, <2>2, FrontOfReady DEF NoWriteHandler, Absent
<1>3. ~ReadCompletes
  BY DEF ReadCompletes, Beginning
<1>4. ~TakeBuffers
  BY BuffersTaken DEF InSocket, Early
<1>5. ~ThrottledSend("socket") /\ ~WaitForRoom("socket")
  BY DEF ThrottledSend, WaitForRoom, InCanQueue, Early
<1>6. SocketMoves => pc'["socket"] \in Early \/ Initialise
  BY <1>4, <1>5 DEF SocketMoves, Early, Handshake, Announce, ForwardRead,
     NothingToForward, AwaitWrite, AwaitBuffers, WriteAwaited, InSocket, Park,
     ControlTypes, Processes
<1> QED BY <1>1, <1>2, <1>3, <1>4, <1>5, <1>6, SocketStays

LEMMA BeginningStep ==
  ASSUME ControlTypes, DataTypes, Loop, Tokens, Beginning, OneWrite, [Next]_vars
  PROVE  Beginning'
<1>1. pc'["socket"] \in Early => pc["socket"] \in Early
  <2>1. SocketMoves => pc'["socket"] \notin Early \/ pc["socket"] \in Early
    <3>1. TakeBuffers => pc["socket"] = "buffers" /\
                         pc' \in {pc, [pc EXCEPT !["socket"] = "loop"]}
      BY BuffersTaken, Zenon DEF InSocket, GoOn
    <3> QED
      BY <3>1 DEF SocketMoves, Early, Handshake, Announce, Initialise, ForwardRead,
         NothingToForward, AwaitWrite, AwaitBuffers, WriteAwaited, WaitForRoom,
         ThrottledSend, InSocket, InCanQueue, Park, GoOn, ParkOnPromise, Dies,
         BeginSendThrottled, ControlTypes, Processes
  <2> QED BY <2>1, SocketStays
<1>2. pc'["socket"] \in Early =>
        /\ net'.reading = 0 /\ NoReadHandler' /\ sock'.nextRead = <<>>
        /\ log'.fed = 0
        /\ ~sock'.eof_ /\ ~sock'.except_ /\ ~sock'.isWriting
  <2> SUFFICES ASSUME pc'["socket"] \in Early
               PROVE  /\ net'.reading = 0 /\ NoReadHandler' /\ sock'.nextRead = <<>>
                      /\ log'.fed = 0
                      /\ ~sock'.eof_ /\ ~sock'.except_ /\ ~sock'.isWriting
    OBVIOUS
  <2>0. Initialise => pc'["socket"] = "loop"
    BY DEF Initialise, GoOn, ControlTypes, Processes
  <2>1. /\ pc["socket"] \in Early /\ ~RunRead /\ ~RunWrite /\ ~ReadCompletes
        /\ ~TakeBuffers /\ ~ThrottledSend("socket") /\ ~Initialise
    BY <1>1, <2>0, EarlySteps DEF Early
  <2>2. /\ net.reading = 0 /\ NoReadHandler /\ sock.nextRead = <<>>
        /\ log.fed = 0
        /\ ~sock.eof_ /\ ~sock.except_ /\ ~sock.isWriting
    BY <2>1 DEF Beginning
  <2>3. net'.reading = 0
    BY <2>1, <2>2, NetFields
  <2>4. /\ sock'.nextRead = <<>>
        /\ ~sock'.eof_ /\ ~sock'.except_ /\ ~sock'.isWriting
    BY <2>1, <2>2, SockFields
  <2>5. NoReadHandler'
    <3>1. Unique(ready, "read")
      BY <2>2, Elements DEF NoReadHandler, Absent, Unique, DataTypes
    <3> QED BY <2>1, <2>2, <3>1, KindsStep DEF NoReadHandler
  <2>6. log'.fed = 0
    <3>1. log'.fed = log.fed
      <4>1. CASE TakeChunk
        BY <4>1 DEF TakeChunk, DataTypes
      <4>2. ASSUME NEW call \in program.calls, OwnerSends(call)
            PROVE  log'.fed = log.fed
        BY <4>2 DEF OwnerSends, DataTypes
      <4> QED BY <2>1, <4>1, <4>2, LogChanges
    <3> QED BY <2>2, <3>1
  <2> QED BY <2>3, <2>4, <2>5, <2>6
<1>3. pc'["socket"] \in {"start", "handshake"} =>
        life'["owner"] = "unborn" /\ Absent(queue', "onReady")
  <2> SUFFICES ASSUME pc'["socket"] \in {"start", "handshake"}
               PROVE  life'["owner"] = "unborn" /\ Absent(queue', "onReady")
    OBVIOUS
  <2>1. /\ pc["socket"] \in {"start", "handshake"} /\ ~Announce
    <3>1. ~Announce
      BY DEF Announce, Park, ControlTypes, Processes
    <3>2. SocketMoves => pc["socket"] \in {"start", "handshake"}
      <4>1. pc["socket"] \in Early
        BY <1>1 DEF Early
      <4> QED BY <3>1, <4>1, EarlySteps DEF SocketMoves, Early, Handshake,
         Initialise, ForwardRead, NothingToForward, AwaitWrite, AwaitBuffers,
         WriteAwaited, InSocket, GoOn, ControlTypes, Processes
    <3> QED BY <3>1, <3>2, SocketStays
  <2>2. life["owner"] = "unborn" /\ Absent(queue, "onReady")
    BY <2>1 DEF Beginning
  <2>3. ~ServerSpawnsOwner
    BY <2>2, FrontOfQueue DEF ServerSpawnsOwner, TakesItem, Absent
  <2> QED BY <2>1, <2>2, <2>3, OwnerStays, ItemKinds
<1>4. Unique(queue', "onReady")
  <2>1. Announce => Absent(queue, "onReady")
    BY DEF Announce, InSocket, Beginning
  <2> QED BY <2>1, ItemKinds DEF Beginning
<1>5. life'["owner"] # "unborn" => Absent(queue', "onReady")
  <2> SUFFICES ASSUME life'["owner"] # "unborn"
               PROVE  Absent(queue', "onReady")
    OBVIOUS
  <2>1. Announce => life["owner"] = "unborn"
    BY DEF Announce, InSocket, Beginning
  <2>2. CASE ServerSpawnsOwner
    BY <2>2, ItemKinds
  <2>3. CASE ~ServerSpawnsOwner
    <3>1. life["owner"] # "unborn" /\ ~Announce
      BY <2>1, <2>3, OwnerStays
    <3> QED BY <3>1, ItemKinds DEF Beginning
  <2> QED BY <2>2, <2>3
<1>6. ASSUME life'["owner"] = "unborn"
      PROVE  /\ pc'["socket"] \in Early /\ pc'["owner"] = "start"
             /\ running' = "socket" => pc'["socket"] # "init"
             /\ resumes'["owner"] = 0
             /\ Absent(queue', "message")
             /\ slots'["recv"] = NewQueue /\ log'.received = <<>>
  <2>1. /\ life["owner"] = "unborn" /\ pc["socket"] \in Early
        /\ pc["owner"] = "start" /\ resumes["owner"] = 0
        /\ running = "socket" => pc["socket"] # "init"
        /\ Absent(queue, "message")
        /\ slots["recv"] = NewQueue /\ log.received = <<>>
    BY <1>6, OwnerStays DEF Beginning
  <2>2. running # "owner"
    BY <2>1 DEF Loop, Alive, Nobody
  <2>3. /\ ~RunRead /\ ~RunWrite /\ ~ReadCompletes /\ ~TakeBuffers
        /\ ~ThrottledSend("socket") /\ ~WaitForRoom("socket") /\ ~Initialise
        /\ pc'["socket"] \in Early
    BY <2>1, EarlySteps DEF Initialise, InSocket
  <2>4. /\ ~ThrottledSend("owner") /\ ~WaitForRoom("owner") /\ ~TakeChunk
        /\ ~InitRecvSocket
        /\ \A call \in program.calls : ~OwnerSends(call)
    BY <2>2 DEF ThrottledSend, WaitForRoom, InCanQueue, TakeChunk, InitRecvSocket,
                OwnerSends, InOwner
  <2>5. Absent(queue', "message")
    BY <2>1, <2>3, <2>4, ItemKinds DEF Sends
  <2>6. ~ProcessMessage
    BY <2>1, FrontOfQueue DEF ProcessMessage, TakesItem, Absent
  <2>7. log'.received = <<>>
    BY <2>1, <2>3, <2>4, LogChanges
  <2>8. slots'["recv"] = NewQueue
    <3>1. "recv" \in Slots
      BY DEF Slots
    <3>2. CASE Destroy
      <4>1. slots' = slots \/ slots' = [s \in Slots |-> NewQueue]
        BY <3>2, Zenon DEF Destroy
      <4> QED BY <2>1, <3>1, <4>1
    <3>3. ASSUME NEW p \in Processes, Alive(p), Resume(p, slots)
          PROVE  slots' = slots
      BY <2>1, <3>3 DEF Resume, Alive, Processes, Early
    <3>4. CASE ProcessResume
      <4>1. Head(queue).pid \in Processes
        BY <3>4, FrontOfQueue DEF ProcessResume, TakesItem
      <4> QED BY <2>1, <3>3, <3>4, <4>1 DEF ProcessResume, NoResume
    <3>5. CASE RunContinuation
      <4>1. Head(ready).pid \in Processes
        BY <3>5, FrontOfReady DEF RunContinuation, RunsHandler
      <4> QED BY <2>1, <3>3, <3>5, <4>1 DEF RunContinuation, NoResume
    <3> QED BY <2>1, <2>3, <2>4, <2>6, <3>2, <3>4, <3>5, SlotsChanges DEF Processes
  <2>9. running' = "socket" => pc'["socket"] # "init"
    <3>1. CASE running = "socket" /\ running' = "socket"
      <4>1. ~Announce /\ ~Handshake
        BY <3>1 DEF Announce, Handshake, Park, Nobody
      <4>2. SocketMoves => FALSE
        BY <2>1, <2>3, <4>1 DEF SocketMoves, Early, ForwardRead, NothingToForward,
           AwaitWrite, AwaitBuffers, WriteAwaited, InSocket
      <4> QED BY <2>1, <3>1, <4>2, SocketStays
    <3>2. CASE running = Nobody /\ running' = "socket"
      <4>1. /\ UNCHANGED pc
            /\ \/ ProcessMessage
               \/ pc["socket"] \in {"start", "yield"}
               \/ pc["socket"] \in {"handshake", "room", "written", "buffers"}
        BY <3>2, ResumedBy DEF Nobody
      <4> QED BY <2>6, <4>1
    <3> QED BY <2>2, <3>1, <3>2 DEF ControlTypes, Processes
  <2>10. resumes'["owner"] = 0
    <3>1. running = Nobody /\ running' # Nobody => running' # "owner"
      BY <2>1, ResumedBy DEF Alive
    <3>2. running = Nobody /\ running' # Nobody => UNCHANGED resumes["owner"]
      BY <3>1, ResumedBy DEF ControlTypes, Processes
    <3>3. running # Nobody \/ running' = Nobody => UNCHANGED resumes
      BY ResumesStay
    <3> QED BY <2>1, <3>2, <3>3
  <2>11. ~Alive("owner")
    BY <2>1 DEF Alive
  <2> QED BY <2>1, <2>2, <2>3, <2>5, <2>7, <2>8, <2>9, <2>10, <2>11, OwnerStays
<1> QED BY <1>2, <1>3, <1>4, <1>5, <1>6 DEF Beginning

-----------------------------------------------------------------------------
(* The coroutine of the socket and p_ *)

\* The socket suspends on p_, or it stays suspended on it.
LEMMA SuspendedOnPromise ==
  ASSUME ControlTypes, DataTypes, Loop, [Next]_vars,
         Suspended("socket")', pc'["socket"] \in {"written", "buffers"}
  PROVE  \/ (AwaitWrite \/ AwaitBuffers) /\ ParkOnPromise(pc'["socket"])
         \/ /\ Suspended("socket")
            /\ UNCHANGED <<pc["socket"], resumes["socket"]>>
<1> DEFINE Goal == \/ /\ AwaitWrite \/ AwaitBuffers
                      /\ ParkOnPromise(pc'["socket"])
                   \/ /\ Suspended("socket")
                      /\ UNCHANGED <<pc["socket"], resumes["socket"]>>
<1> USE FrontOfQueue, FrontOfReady
    DEF ControlTypes, Alive, Processes, Nobody, Suspended, Loop
<1>1. CASE ProcessMessage
  BY <1>1 DEF ProcessMessage, TakesItem, Resume, NoResume, Dies
<1>2. CASE ProcessResume
  BY <1>2 DEF ProcessResume, TakesItem, Resume, NoResume, Dies
<1>3. CASE ServerSpawnsOwner
  BY <1>3 DEF ServerSpawnsOwner, TakesItem
<1>4. CASE RunOne
  BY <1>4 DEF RunOne, procVars
<1>5. CASE RunContinuation
  BY <1>5 DEF RunContinuation, RunsHandler, Resume, NoResume, Dies
<1>6. CASE RunRead
  BY <1>6 DEF RunRead, RunsHandler, procVars
<1>7. CASE RunWrite
  BY <1>7 DEF RunWrite, RunsHandler, procVars
<1>8. CASE RunHandshake
  BY <1>8 DEF RunHandshake, RunsHandler, procVars
<1>9. CASE RunStaleHandler
  BY <1>9 DEF RunStaleHandler, procVars
<1>10. CASE EndPoll
  BY <1>10 DEF EndPoll, procVars
<1>11. CASE Destroy
  BY <1>11 DEF Destroy, Destroyed
<1>12. ASSUME NEW p \in Processes, CanQueueNull(p) PROVE Goal
  BY <1>12 DEF CanQueueNull, InCanQueue, procVars
<1>13. ASSUME NEW p \in Processes, WaitForRoom(p) PROVE Goal
  BY <1>13 DEF WaitForRoom, InCanQueue, Park
<1>14. ASSUME NEW p \in Processes, ThrottledSend(p) PROVE Goal
  BY <1>14 DEF ThrottledSend, InCanQueue, GoOn
<1>15. CASE Handshake
  BY <1>15 DEF Handshake, InSocket, Park
<1>16. CASE Announce
  BY <1>16 DEF Announce, InSocket, Park
<1>17. CASE Initialise
  BY <1>17 DEF Initialise, InSocket, GoOn
<1>18. CASE EndOfFile
  BY <1>18 DEF EndOfFile, InSocket, Dies
<1>19. CASE ForwardRead
  BY <1>19 DEF ForwardRead, InSocket, BeginSendThrottled, Park, GoOn
<1>20. CASE NothingToForward
  BY <1>20 DEF NothingToForward, InSocket, GoOn
<1>21. CASE AwaitWrite
  BY <1>21 DEF AwaitWrite, InSocket, ParkOnPromise, Park, GoOn
<1>22. CASE AwaitBuffers
  BY <1>22 DEF AwaitBuffers, InSocket, ParkOnPromise, Park, GoOn
<1>23. CASE WriteAwaited
  BY <1>23 DEF WriteAwaited, InSocket, Dies, GoOn
<1>24. CASE TakeBuffers
  BY <1>24, BuffersTaken DEF InSocket, Dies, GoOn
<1>25. CASE OwnerEnds
  BY <1>25 DEF OwnerEnds, InOwner, Dies
<1>26. CASE InitRecvSocket
  BY <1>26 DEF InitRecvSocket, InOwner, GoOn
<1>27. CASE AwaitChunk
  BY <1>27 DEF AwaitChunk, InOwner, Park, GoOn
<1>28. CASE TakeChunk
  BY <1>28 DEF TakeChunk, InOwner, GoOn
<1>29. ASSUME NEW call \in program.calls, OwnerSends(call) PROVE Goal
  BY <1>29 DEF OwnerSends, InOwner, BeginSendThrottled, Park, GoOn
<1>30. CASE ReadCompletes
  BY <1>30 DEF ReadCompletes, Completes, procVars
<1>31. CASE WriteCompletes
  BY <1>31 DEF WriteCompletes, Completes, procVars
<1>32. CASE HandshakeCompletes
  BY <1>32 DEF HandshakeCompletes, Completes, procVars
<1>33. CASE UNCHANGED vars
  BY <1>33 DEF vars, procVars
<1>34. CASE OwnerSleeps
  BY <1>34 DEF OwnerSleeps, InOwner, Park
<1>35. CASE TimerWakesOwner
  BY <1>35 DEF TimerWakesOwner
<1> QED BY <1>1, <1>2, <1>3, <1>4, <1>5, <1>6, <1>7, <1>8, <1>9, <1>10, <1>11,
  <1>12, <1>13, <1>14, <1>15, <1>16, <1>17, <1>18, <1>19, <1>20, <1>21, <1>22,
  <1>23, <1>24, <1>25, <1>26, <1>27, <1>28, <1>29, <1>30, <1>31, <1>32, <1>33,
  <1>34, <1>35
  DEF Next, Thread, Network

\* p_ changes only while the socket runs, and when an operation completes.
LEMMA PromiseStays ==
  ASSUME ControlTypes, DataTypes, Loop, [Next]_vars
  PROVE  \/ UNCHANGED sock.p_ \/ RunRead \/ RunWrite
         \/ AwaitWrite \/ AwaitBuffers \/ TakeBuffers
         \/ /\ running = Nobody /\ running' = "socket"
            /\ pc["socket"] \in {"written", "buffers"}
<1>0. sock \in Members
  BY DEF DataTypes, Members
<1>1. ASSUME NEW p \in Processes, NEW boxes, running = Nobody,
             Resume(p, boxes) \/ NoResume(boxes)
      PROVE  \/ UNCHANGED sock.p_
             \/ /\ running' = "socket"
                /\ pc["socket"] \in {"written", "buffers"}
  <2>1. CASE Resume(p, boxes) /\ pc[p] \in {"written", "buffers"}
    BY <2>1 DEF Resume, ControlTypes, OwnerPcs, Processes
  <2>2. CASE Resume(p, boxes) /\ pc[p] \notin {"written", "buffers"}
    BY <1>0, <2>2 DEF Resume, Members
  <2>3. CASE NoResume(boxes)
    BY <2>3 DEF NoResume
  <2> QED BY <1>1, <2>1, <2>2, <2>3
<1>2. CASE ProcessMessage
  <2>1. Head(queue).pid \in Processes /\ running = Nobody
    BY <1>2, FrontOfQueue DEF ProcessMessage, TakesItem, Loop, Nobody
  <2> QED BY <1>1, <1>2, <2>1 DEF ProcessMessage
<1>3. CASE ProcessResume
  <2>1. Head(queue).pid \in Processes /\ running = Nobody
    BY <1>3, FrontOfQueue DEF ProcessResume, TakesItem, Loop, Nobody
  <2> QED BY <1>1, <1>3, <2>1 DEF ProcessResume
<1>4. CASE RunContinuation
  <2>1. Head(ready).pid \in Processes /\ running = Nobody
    BY <1>4, FrontOfReady DEF RunContinuation, RunsHandler
  <2> QED BY <1>1, <1>4, <2>1 DEF RunContinuation
<1>5. CASE RunHandshake \/ Handshake
  BY <1>0, <1>5 DEF RunHandshake, Handshake, Members
<1>6. ASSUME NEW p \in Processes, ThrottledSend(p) PROVE UNCHANGED sock.p_
  BY <1>0, <1>6 DEF ThrottledSend, Members
<1> QED BY <1>2, <1>3, <1>4, <1>5, <1>6, SockChanges

\* What the handlers of the operations do to p_.
LEMMA PromiseEffects ==
  ASSUME DataTypes, RunRead \/ RunWrite
  PROVE  /\ \/ UNCHANGED sock.p_
            \/ sock'.p_ = SetIfUnset(sock.p_)
         /\ RunWrite \/ sock'.eof_ # sock.eof_ \/ sock'.except_ # sock.except_
              \/ sock'.nextRead # sock.nextRead
              => sock'.p_ = SetIfUnset(sock.p_)
         /\ ready' = Tail(ready) \o ChangePosts(sock.p_, sock'.p_)
         /\ running = Nobody /\ UNCHANGED <<running, life, pc, resumes, slots>>
<1>0. sock \in Members
  BY DEF DataTypes, Members
<1>1. CASE RunRead
  <2>1. sock' = CASE Head(ready).outcome = "eof" ->
                       WithValue([sock EXCEPT !.eof_ = TRUE])
                  [] Head(ready).outcome = "error" -> WithError(sock)
                  [] Head(ready).outcome = "data" /\ program.throttled ->
                       WithValue([sock EXCEPT !.nextRead = <<Head(ready).chunk>>])
                  [] OTHER -> sock
    BY <1>1 DEF RunRead
  <2>2. sock' = sock \/ sock'.p_ = SetIfUnset(sock.p_)
    BY <1>0, <2>1 DEF WithValue, WithError, Members
  <2>3. ~RunWrite
    BY <1>1 DEF RunRead, RunWrite, RunsHandler
  <2> QED BY <1>1, <2>2, <2>3 DEF RunRead, RunsHandler, procVars
<1>2. CASE RunWrite
  <2>1. sock'.p_ = SetIfUnset(sock.p_)
    BY <1>0, <1>2 DEF RunWrite, WithValue, WithError, Written, Members
  <2> QED BY <1>2, <2>1 DEF RunWrite, RunsHandler, procVars
<1> QED BY <1>1, <1>2

\* A socket that runs stops only when it suspends, dies or calls canQueue().
LEMMA RunningStays ==
  ASSUME ControlTypes, DataTypes, Loop, [Next]_vars, running = "socket",
         Alive("socket")', ~SocketMoves, pc["socket"] \in {"loop", "check"}
  PROVE  running' = "socket"
<1> USE FrontOfQueue, FrontOfReady
    DEF ControlTypes, Alive, Processes, Nobody, Loop
<1>1. CASE ProcessMessage
  BY <1>1 DEF ProcessMessage, TakesItem, Resume, NoResume, Dies
<1>2. CASE ProcessResume
  BY <1>2 DEF ProcessResume, TakesItem, Resume, NoResume, Dies
<1>3. CASE ServerSpawnsOwner
  BY <1>3 DEF ServerSpawnsOwner, TakesItem
<1>4. CASE RunOne
  BY <1>4 DEF RunOne, procVars
<1>5. CASE RunContinuation
  BY <1>5 DEF RunContinuation, RunsHandler, Resume, NoResume, Dies
<1>6. CASE RunRead
  BY <1>6 DEF RunRead, RunsHandler, procVars
<1>7. CASE RunWrite
  BY <1>7 DEF RunWrite, RunsHandler, procVars
<1>8. CASE RunHandshake
  BY <1>8 DEF RunHandshake, RunsHandler, procVars
<1>9. CASE RunStaleHandler
  BY <1>9 DEF RunStaleHandler, procVars
<1>10. CASE EndPoll
  BY <1>10 DEF EndPoll, procVars
<1>11. CASE Destroy
  BY <1>11 DEF Destroy
<1>12. ASSUME NEW p \in Processes, CanQueueNull(p) PROVE running' = "socket"
  BY <1>12 DEF CanQueueNull, InCanQueue, procVars
<1>13. ASSUME NEW p \in Processes, WaitForRoom(p) PROVE running' = "socket"
  BY <1>13 DEF WaitForRoom, InCanQueue, Park
<1>14. ASSUME NEW p \in Processes, ThrottledSend(p) PROVE running' = "socket"
  BY <1>14 DEF ThrottledSend, InCanQueue, GoOn
<1>15. CASE Handshake
  BY <1>15 DEF Handshake, InSocket, Park, SocketMoves
<1>16. CASE Announce
  BY <1>16 DEF Announce, InSocket, Park, SocketMoves
<1>17. CASE Initialise
  BY <1>17 DEF Initialise, InSocket, GoOn, SocketMoves
<1>18. CASE EndOfFile
  BY <1>18 DEF EndOfFile, InSocket, Dies
<1>19. CASE ForwardRead
  BY <1>19 DEF ForwardRead, InSocket, BeginSendThrottled, Park, GoOn,
    SocketMoves
<1>20. CASE NothingToForward
  BY <1>20 DEF NothingToForward, InSocket, GoOn, SocketMoves
<1>21. CASE AwaitWrite
  BY <1>21 DEF AwaitWrite, InSocket, ParkOnPromise, Park, GoOn, SocketMoves
<1>22. CASE AwaitBuffers
  BY <1>22 DEF AwaitBuffers, InSocket, ParkOnPromise, Park, GoOn, SocketMoves
<1>23. CASE WriteAwaited
  BY <1>23 DEF WriteAwaited, InSocket, Dies, GoOn, SocketMoves
<1>24. CASE TakeBuffers
  BY <1>24, BuffersTaken DEF InSocket, Dies, GoOn, SocketMoves
<1>25. CASE OwnerEnds
  BY <1>25 DEF OwnerEnds, InOwner, Dies
<1>26. CASE InitRecvSocket
  BY <1>26 DEF InitRecvSocket, InOwner, GoOn
<1>27. CASE AwaitChunk
  BY <1>27 DEF AwaitChunk, InOwner, Park, GoOn
<1>28. CASE TakeChunk
  BY <1>28 DEF TakeChunk, InOwner, GoOn
<1>29. ASSUME NEW call \in program.calls, OwnerSends(call) PROVE running' = "socket"
  BY <1>29 DEF OwnerSends, InOwner, BeginSendThrottled, Park, GoOn
<1>30. CASE ReadCompletes
  BY <1>30 DEF ReadCompletes, Completes, procVars
<1>31. CASE WriteCompletes
  BY <1>31 DEF WriteCompletes, Completes, procVars
<1>32. CASE HandshakeCompletes
  BY <1>32 DEF HandshakeCompletes, Completes, procVars
<1>33. CASE UNCHANGED vars
  BY <1>33 DEF vars, procVars
<1>34. CASE OwnerSleeps
  BY <1>34 DEF OwnerSleeps, InOwner, Park
<1>35. CASE TimerWakesOwner
  BY <1>35 DEF TimerWakesOwner
<1> QED BY <1>1, <1>2, <1>3, <1>4, <1>5, <1>6, <1>7, <1>8, <1>9, <1>10, <1>11,
  <1>12, <1>13, <1>14, <1>15, <1>16, <1>17, <1>18, <1>19, <1>20, <1>21, <1>22,
  <1>23, <1>24, <1>25, <1>26, <1>27, <1>28, <1>29, <1>30, <1>31, <1>32, <1>33,
  <1>34, <1>35
  DEF Next, Thread, Network

LEMMA NoticedStep ==
  ASSUME ControlTypes, DataTypes, Loop, Tokens, Beginning, OneWrite, Noticed,
         [Next]_vars
  PROVE  Noticed'
<1> SUFFICES ASSUME Alive("socket")' PROVE Noticed'
  BY DEF Noticed
<1>0. Alive("socket") /\ sock \in Members
  BY SocketStays DEF DataTypes, Members
<1>1. CASE SocketMoves
  <2> USE <1>0 DEF Noticed, ControlTypes, Processes, Nobody
  <2>1. CASE Handshake
    BY <2>1 DEF Handshake, Park
  <2>2. CASE Announce
    BY <2>2 DEF Announce, Park
  <2>3. CASE Initialise
    BY <2>3 DEF Initialise, InSocket, GoOn, Beginning, Early
  <2>4. CASE ForwardRead
    BY <2>4 DEF ForwardRead, InSocket, BeginSendThrottled, Park, GoOn
  <2>5. CASE NothingToForward
    BY <2>5 DEF NothingToForward, InSocket, GoOn
  <2>6. CASE AwaitWrite
    BY <2>6 DEF AwaitWrite, InSocket, ParkOnPromise, Park, GoOn
  <2>7. CASE AwaitBuffers
    BY <2>7 DEF AwaitBuffers, InSocket, ParkOnPromise, Park, GoOn
  <2>8. CASE WriteAwaited
    BY <2>8 DEF WriteAwaited, InSocket, CheckExcept, GoOn, Dies, Alive
  <2>9. CASE TakeBuffers
    <3>1. CASE life' = [life EXCEPT !["socket"] = "dead"]
      BY <3>1 DEF Alive
    <3>2. /\ ~sock.except_ /\ running = "socket"
          /\ pc' = [pc EXCEPT !["socket"] = "loop"] /\ UNCHANGED running
      BY <2>9, <3>1, BuffersTaken DEF InSocket, GoOn, Dies, CheckExcept, Alive
    <3>3. ~sock'.except_
      BY <2>9, <3>2, SockFields DEF RunRead, RunWrite, RunsHandler
    <3> QED BY <3>2, <3>3
  <2>10. CASE WaitForRoom("socket")
    BY <2>10 DEF WaitForRoom, InCanQueue, Park
  <2>11. CASE ThrottledSend("socket")
    BY <2>11 DEF ThrottledSend, InCanQueue, GoOn, Members
  <2> QED BY <1>1, <2>1, <2>2, <2>3, <2>4, <2>5, <2>6, <2>7, <2>8, <2>9, <2>10,
             <2>11 DEF SocketMoves
<1>2. CASE ~SocketMoves
  <2>1. UNCHANGED pc["socket"]
    BY <1>2, SocketStays
  <2>2. ~AwaitWrite /\ ~AwaitBuffers /\ ~TakeBuffers /\ ~ThrottledSend("socket")
    BY <1>2, BuffersTaken
       DEF SocketMoves, AwaitWrite, AwaitBuffers, ThrottledSend, InCanQueue,
           InSocket
  <2>3. pc["socket"] \in {"loop", "check"} => running' = "socket"
    BY <1>0, <1>2, RunningStays DEF Noticed
  <2>4. pc["socket"] = "check" => sock'.nextRead = <<>>
    <3>1. pc["socket"] = "check" => ~RunRead
      BY <1>0 DEF Noticed, RunRead, RunsHandler, Nobody
    <3> QED BY <1>0, <2>2, <3>1, SockFields DEF Noticed
  <2>5. /\ pc["socket"] \in {"canQueue", "yield", "room", "check"} /\ sock'.eof_
             => sock'.p_.set_
        /\ pc["socket"] \in {"loop", "canQueue", "yield", "room", "check"}
           /\ sock'.except_ => sock'.p_.set_
    <3>1. CASE RunRead \/ RunWrite
      <4>1. SetIfUnset(sock.p_).set_ /\ sock'.eof_ \in BOOLEAN /\ sock'.except_ \in BOOLEAN
        BY <1>0, SockTyped DEF SetIfUnset, Set, Members, Promises
      <4> QED BY <1>0, <3>1, <4>1, PromiseEffects DEF Noticed, Members
    <3>2. CASE ~RunRead /\ ~RunWrite
      BY <1>0, <2>2, <3>2, PromiseStays, SockFields DEF Noticed
    <3> QED BY <3>1, <3>2
  <2> QED BY <2>1, <2>3, <2>4, <2>5 DEF Noticed
<1> QED BY <1>1, <1>2

\* The continuation of the socket stays ready until it resumes the socket.
LEMMA WokenStays ==
  ASSUME ControlTypes, DataTypes, Loop, [Next]_vars, Woken,
         Suspended("socket"), Suspended("socket")',
         UNCHANGED <<pc["socket"], resumes["socket"]>>,
         pc["socket"] \in {"written", "buffers"}
  PROVE  Woken'
<1> DEFINE h == Continuation("socket")
<1>1. /\ Continuation("socket")' = h /\ h \in ToSet(ready)
      /\ h.kind = "continuation" /\ h.pid = "socket"
      /\ h.resumes = resumes["socket"]
  BY DEF Continuation, Woken
<1>2. ready \in Seq(ProperHandlers) /\ h \in ProperHandlers
  BY <1>1, Elements DEF DataTypes
<1> HIDE DEF h
<1>3. CASE \E t \in Seq(Continuations) : ready' = ready \o t
  <2>1. PICK t \in Seq(Continuations) : ready' = ready \o t
    BY <1>3
  <2>2. t \in Seq(ProperHandlers)
    BY ProperContinuations
  <2>3. ToSet(ready') = ToSet(ready) \cup ToSet(t)
    BY <1>2, <2>1, <2>2, Elements
  <2> QED BY <1>1, <2>3 DEF Woken
<1>4. CASE /\ RunContinuation \/ RunRead \/ RunWrite \/ RunHandshake
              \/ RunStaleHandler
           /\ ready # <<>>
           /\ \E t \in Seq(Continuations) : ready' = Tail(ready) \o t
  <2>1. PICK t \in Seq(Continuations) : ready' = Tail(ready) \o t
    BY <1>4
  <2>2. t \in Seq(ProperHandlers) /\ Tail(ready) \in Seq(ProperHandlers)
    BY <1>2, <1>4, ProperContinuations, ElementsHead
  <2>3. ToSet(ready') = ToSet(Tail(ready)) \cup ToSet(t)
    BY <2>1, <2>2, ElementsJoined, Zenon
  <2>4. Head(ready) # h
    <3> SUFFICES ASSUME Head(ready) = h PROVE FALSE
      OBVIOUS
    <3>1. CASE RunContinuation
      BY <1>1, <3>1 DEF RunContinuation, Resume, Suspended
    <3>2. CASE RunStaleHandler
      BY <1>1, <3>2 DEF RunStaleHandler, Suspended, Alive
    <3>3. CASE RunRead \/ RunWrite \/ RunHandshake
      BY <1>1, <3>3 DEF RunRead, RunWrite, RunHandshake, RunsHandler
    <3> QED BY <1>4, <3>1, <3>2, <3>3
  <2>5. h \in ToSet(Tail(ready))
    <3>1. PICK k \in 1..Len(ready) : h = ready[k]
      BY <1>1, <1>2, Elements
    <3>2. /\ Head(ready) = ready[1] /\ Len(ready) \in Nat
          /\ Len(Tail(ready)) = Len(ready) - 1
          /\ \A j \in 1..Len(Tail(ready)) : Tail(ready)[j] = ready[j + 1]
      BY <1>2, <1>4, ElementsHead, LenProperties
    <3>3. k - 1 \in 1..Len(Tail(ready)) /\ (k - 1) + 1 = k
      BY <2>4, <3>1, <3>2
    <3>4. Tail(ready)[k - 1] = h
      BY <3>1, <3>2, <3>3
    <3> QED BY <2>2, <3>3, <3>4, Elements
  <2> QED BY <1>1, <2>3, <2>5 DEF Woken
<1>5. ~TakeBuffers
  BY BuffersTaken DEF InSocket, Suspended
<1>6. CASE \E g \in ProperHandlers : ready' = Append(ready, g)
  <2>1. PICK g \in ProperHandlers : ready' = Append(ready, g)
    BY <1>6
  <2>2. ToSet(ready') = ToSet(ready) \cup {g}
    BY <1>2, <2>1, Elements
  <2> QED BY <1>1, <2>2 DEF Woken
<1> QED BY <1>3, <1>4, <1>5, <1>6, ReadyForms

\* A message for a socket that waits for one resumes it.
LEMMA MessagesStay ==
  ASSUME ControlTypes, DataTypes, Loop, [Next]_vars,
         Suspended("socket"), Suspended("socket")', pc["socket"] = "buffers",
         NEW s \in OutSlots, HasMessage(s)'
  PROVE  HasMessage(s)
<1>0. s \in Slots /\ "recv" \notin OutSlots /\ "init" \notin OutSlots
  BY DEF Slots, OutSlots
<1>1. /\ HasMessage(s) <=> Contents(slots[s]) # <<>>
      /\ HasMessage(s)' <=> Contents(slots'[s]) # <<>>
  <2>1. SlotsOK(slots) /\ SlotsOK(slots')
    BY SlotsTyped DEF DataTypes
  <2> QED BY <1>0, <2>1, SizeIsLen DEF HasMessage, SlotsOK
<1>2. running # "socket" /\ running' # "socket"
  BY DEF Suspended
<1>3. CASE ProcessMessage
  <2>1. ~(s = Head(queue).slot /\ Alive(Head(queue).pid))
    <3> SUFFICES ASSUME s = Head(queue).slot, Alive(Head(queue).pid) PROVE FALSE
      OBVIOUS
    <3>1. /\ IsWaiting(Head(queue).slot) /\ Head(queue).pid = "socket"
      BY <1>3, MessageSlots DEF IsWaiting, Receiver, OutSlots
    <3> QED BY <1>2, <1>3, <3>1 DEF ProcessMessage, Resume
  <2> QED BY <1>0, <1>1, <1>3, <2>1, MessageSlots
<1>4. CASE ProcessResume \/ RunContinuation
  BY <1>0, <1>1, <1>4, ResumedSlots
<1>5. CASE Destroy
  <2>1. slots' = slots \/ slots' = [t \in Slots |-> NewQueue]
    BY <1>5, Zenon DEF Destroy
  <2>2. Size(NewQueue) = 0
    BY DEF Size, NewQueue
  <2> QED BY <1>0, <2>1, <2>2 DEF HasMessage
<1>6. ~Initialise /\ ~TakeBuffers
  BY <1>2, BuffersTaken DEF Initialise, InSocket
<1>7. CASE TakeChunk
  BY <1>0, <1>7, TakeChunkSlots DEF HasMessage
<1>8. ASSUME NEW p \in Processes, WaitForRoom(p) PROVE HasMessage(s)
  BY <1>0, <1>1, <1>8, WaitSlots
<1>9. CASE UNCHANGED slots
  BY <1>9 DEF HasMessage
<1> QED BY <1>3, <1>4, <1>5, <1>6, <1>7, <1>8, <1>9, SlotsChanges

LEMMA WakesStep ==
  ASSUME ControlTypes, DataTypes, Loop, Noticed, Wakes, [Next]_vars
  PROVE  Wakes'
<1> SUFFICES ASSUME Suspended("socket")', pc'["socket"] \in {"written", "buffers"}
             PROVE  \/ Woken'
                    \/ /\ ~sock'.p_.set_
                       /\ sock'.p_.exec_ = Continuation("socket")'
                       /\ ~Actionable'
  BY DEF Wakes
<1>0. /\ sock \in Members /\ sock.p_ \in Promises(Continuations)
      /\ ready \in Seq(ProperHandlers)
  BY DEF DataTypes, Members
<1>1. CASE (AwaitWrite \/ AwaitBuffers) /\ ParkOnPromise(pc'["socket"])
  <2> DEFINE h == Continuation("socket")
  <2>1. /\ InSocket("check") /\ Alive("socket") /\ resumes["socket"] > 0
        /\ UNCHANGED <<slots, resumes>>
    BY <1>1 DEF AwaitWrite, AwaitBuffers, InSocket, Loop, Nobody
  <2>2. Continuation("socket")' = h /\ h \in Continuations
    BY <2>1, NewHandlers DEF Continuation, Processes
  <2>3. /\ sock' = [sock EXCEPT !.p_ = SetContinuation(@, h)]
        /\ ready' = ready \o SetContinuationPosts(sock.p_, h)
    BY <1>1 DEF ParkOnPromise
  <2> HIDE DEF h
  <2>4. CASE sock.p_.set_
    <3>1. <<h>> \in Seq(ProperHandlers) /\ h \in ToSet(<<h>>)
      BY <2>2 DEF Continuations, ToSet
    <3>2. ready' = ready \o <<h>>
      BY <2>3, <2>4 DEF SetContinuationPosts
    <3>3. ToSet(ready') = ToSet(ready) \cup ToSet(<<h>>)
      BY <1>0, <3>1, <3>2, ElementsJoined, Zenon
    <3> QED BY <2>2, <3>1, <3>3 DEF Woken
  <2>5. CASE ~sock.p_.set_
    <3>1. ~sock.eof_ /\ ~sock.except_ /\ sock.nextRead = <<>>
      BY <2>1, <2>5 DEF Noticed, InSocket
    <3>2. /\ ~sock'.p_.set_ /\ sock'.p_.exec_ = h
          /\ ~sock'.eof_ /\ ~sock'.except_ /\ sock'.nextRead = <<>>
          /\ sock'.isWriting = sock.isWriting
      BY <1>0, <2>3, <2>5, <3>1 DEF SetContinuation, Members, Promises
    <3>3. pc'["socket"] = "written" => sock.isWriting
      BY <1>1 DEF AwaitWrite, AwaitBuffers, ParkOnPromise, Park, GoOn,
                  ControlTypes, Processes
    <3>4. pc'["socket"] = "buffers" => \A s \in OutSlots : ~HasMessage(s)
      <4>1. running' = Nobody
        BY <1>1 DEF ParkOnPromise, Park
      <4> QED
        BY <1>1, <2>1, <4>1 DEF AwaitWrite, AwaitBuffers, ParkOnPromise, Park,
           GoOn, InSocket, Nobody, ControlTypes, Processes, HasMessage
    <3>5. \A s \in OutSlots : HasMessage(s)' = HasMessage(s)
      BY <2>1 DEF HasMessage
    <3> QED BY <2>2, <3>1, <3>2, <3>3, <3>4, <3>5 DEF Actionable
  <2> QED BY <2>4, <2>5
<1>2. CASE /\ Suspended("socket")
           /\ UNCHANGED <<pc["socket"], resumes["socket"]>>
  <2> DEFINE h == Continuation("socket")
  <2>1. Continuation("socket")' = h
    BY <1>2 DEF Continuation
  <2>2. CASE Woken
    BY <1>2, <2>2, WokenStays
  <2>3. CASE ~Woken
    <3>1. ~sock.p_.set_ /\ sock.p_.exec_ = h /\ ~Actionable
      BY <1>2, <2>3 DEF Wakes
    <3>2. /\ running # "socket" /\ running' # "socket"
          /\ ~AwaitWrite /\ ~AwaitBuffers /\ ~TakeBuffers
          /\ ~ThrottledSend("socket")
      BY <1>2, BuffersTaken DEF Suspended, AwaitWrite, AwaitBuffers, InSocket,
        ThrottledSend, InCanQueue
    <3> HIDE DEF h
    <3>3. ASSUME RunRead \/ RunWrite, sock'.p_ = SetIfUnset(sock.p_)
          PROVE  Woken'
      <4>1. h # NoExec /\ h \in ProperHandlers
        <5>1. h \in Handlers
          BY DEF h, Continuation, Handlers, ControlTypes, Processes
        <5>2. h # NoExec
          BY <5>1, NoExecAssumption
        <5> QED BY <1>0, <3>1, <5>2 DEF Promises, Continuations
      <4>2. ChangePosts(sock.p_, sock'.p_) = <<h>>
        BY <1>0, <3>1, <3>3, <4>1
           DEF ChangePosts, SetIfUnset, Set, SetPosts, Promises
      <4>3. ready' = Tail(ready) \o <<h>> /\ ready # <<>>
        BY <3>3, <4>2, PromiseEffects DEF RunRead, RunWrite, RunsHandler
      <4>4. <<h>> \in Seq(ProperHandlers) /\ h \in ToSet(<<h>>)
            /\ Tail(ready) \in Seq(ProperHandlers)
        BY <1>0, <4>1, <4>3, ElementsHead DEF ToSet
      <4>5. ToSet(ready') = ToSet(Tail(ready)) \cup ToSet(<<h>>)
        BY <4>3, <4>4, ElementsJoined, Zenon
      <4> QED BY <2>1, <4>4, <4>5 DEF Woken
    <3>4. CASE ~((RunRead \/ RunWrite) /\ sock'.p_ = SetIfUnset(sock.p_))
      <4>1. UNCHANGED sock.p_
        BY <3>2, <3>4, PromiseStays, PromiseEffects
      <4>2. UNCHANGED <<sock.eof_, sock.except_, sock.nextRead, sock.isWriting>>
        BY <3>2, <3>4, PromiseEffects, ReadEffects, SockFields
      <4>3. pc["socket"] = "buffers" => \A s \in OutSlots : HasMessage(s)' => HasMessage(s)
        BY <1>2, MessagesStay
      <4>4. ~Actionable'
        BY <1>2, <3>1, <4>2, <4>3 DEF Actionable
      <4> QED BY <2>1, <3>1, <4>1, <4>4
    <3> QED BY <3>3, <3>4
  <2> QED BY <2>2, <2>3
<1> QED BY <1>1, <1>2, SuspendedOnPromise

-----------------------------------------------------------------------------
(* Counting the chunks in queue_ *)

IsChunk(i) == i.kind = "message" /\ i.slot = "recv"
Chunks(s, n) == {i \in 1..n : IsChunk(s[i])}

LEMMA ChunksCounted ==
  ASSUME NEW s, NEW n \in Nat
  PROVE  /\ IsFiniteSet(Chunks(s, n)) /\ Cardinality(Chunks(s, n)) \in Nat
         /\ Cardinality(Chunks(s, n)) <= n
<1>1. IsFiniteSet(1..n) /\ Cardinality(1..n) = n
  BY FS_Interval
<1>2. Chunks(s, n) \in SUBSET (1..n)
  BY DEF Chunks
<1> QED BY <1>1, <1>2, FS_Subset, FS_CardinalityType

LEMMA ChunksAppended ==
  ASSUME NEW s \in Seq(Items), NEW e \in Items
  PROVE  /\ Len(Append(s, e)) = Len(s) + 1 /\ Append(s, e)[Len(s) + 1] = e
         /\ \A n \in 1..Len(s) : Append(s, e)[n] = s[n]
         /\ \A n \in 0..Len(s) : Chunks(Append(s, e), n) = Chunks(s, n)
         /\ Chunks(Append(s, e), Len(s) + 1) =
              IF IsChunk(e) THEN Chunks(s, Len(s)) \cup {Len(s) + 1}
                            ELSE Chunks(s, Len(s))
         /\ Cardinality(Chunks(Append(s, e), Len(s) + 1)) =
              IF IsChunk(e) THEN Cardinality(Chunks(s, Len(s))) + 1
                            ELSE Cardinality(Chunks(s, Len(s)))
<1> DEFINE t == Append(s, e)
<1>1. /\ Len(s) \in Nat /\ Len(t) = Len(s) + 1 /\ t[Len(s) + 1] = e
      /\ \A k \in 1..Len(s) : t[k] = s[k]
  BY AppendProperties, LenProperties
<1> HIDE DEF t
<1>2. \A n \in 0..Len(s) : Chunks(t, n) = Chunks(s, n)
  BY <1>1 DEF Chunks
<1>3. Chunks(t, Len(s) + 1) = IF IsChunk(e) THEN Chunks(s, Len(s)) \cup {Len(s) + 1}
                                            ELSE Chunks(s, Len(s))
  BY <1>1 DEF Chunks
<1>4. Len(s) + 1 \notin Chunks(s, Len(s)) /\ IsFiniteSet(Chunks(s, Len(s)))
  <2>1. Len(s) + 1 \notin Chunks(s, Len(s))
    BY <1>1 DEF Chunks
  <2> QED BY <1>1, <2>1, ChunksCounted
<1>5. Cardinality(Chunks(s, Len(s)) \cup {Len(s) + 1}) =
        Cardinality(Chunks(s, Len(s))) + 1
  BY <1>4, FS_AddElement
<1> QED BY <1>1, <1>2, <1>3, <1>5 DEF t

LEMMA ChunksTaken ==
  ASSUME NEW s \in Seq(Items), s # <<>>, NEW n \in 0..(Len(s) - 1)
  PROVE  /\ Len(Tail(s)) = Len(s) - 1
         /\ \A i \in 1..(Len(s) - 1) : Tail(s)[i] = s[i + 1]
         /\ \A i \in Chunks(Tail(s), n) : i + 1 \in Chunks(s, n + 1)
         /\ 1 \in Chunks(s, n + 1) <=> IsChunk(Head(s))
         /\ Cardinality(Chunks(s, n + 1)) =
              IF IsChunk(Head(s)) THEN Cardinality(Chunks(Tail(s), n)) + 1
                                  ELSE Cardinality(Chunks(Tail(s), n))
<1> DEFINE t == Tail(s)
           C == Chunks(s, n + 1)
           R == C \ {1}
<1>1. /\ Len(s) \in Nat /\ Len(s) > 0 /\ Len(t) = Len(s) - 1 /\ Head(s) = s[1]
      /\ \A k \in 1..Len(t) : t[k] = s[k + 1]
  BY ElementsHead, LenProperties
<1> HIDE DEF t
<1>2. ASSUME NEW i \in Int
      PROVE  i \in Chunks(t, n) <=> i + 1 \in R
  <2>1. i \in 1..n <=> i + 1 \in 1..(n + 1) /\ i + 1 # 1
    OBVIOUS
  <2>2. i \in 1..n => t[i] = s[i + 1]
    BY <1>1
  <2> QED BY <2>1, <2>2 DEF Chunks
<1>3. 1 \in C <=> IsChunk(Head(s))
  BY <1>1 DEF Chunks
<1>4. IsFiniteSet(C) /\ C \subseteq Int /\ Cardinality(C) \in Nat
  <2>1. C \subseteq Int
    BY DEF Chunks
  <2>2. n + 1 \in Nat
    BY <1>1
  <2>3. IsFiniteSet(Chunks(s, n + 1)) /\ Cardinality(Chunks(s, n + 1)) \in Nat
    BY <2>2, ChunksCounted
  <2> QED BY <2>1, <2>3
<1>5. /\ IsFiniteSet(R)
      /\ Cardinality(R) = IF 1 \in C THEN Cardinality(C) - 1 ELSE Cardinality(C)
  BY <1>4, FS_RemoveElement
<1>6. Cardinality(Chunks(t, n)) = Cardinality(R)
  <2> DEFINE f == [i \in Chunks(t, n) |-> i + 1]
  <2>1. Chunks(t, n) \subseteq Int /\ R \subseteq Int
    BY <1>4 DEF Chunks
  <2>2. f \in [Chunks(t, n) -> R]
    BY <1>2, <2>1
  <2>3. \A i, j \in Chunks(t, n) : f[i] = f[j] => i = j
    BY <2>1
  <2>4. ASSUME NEW r \in R PROVE \E i \in Chunks(t, n) : f[i] = r
    <3>1. r - 1 \in Int /\ (r - 1) + 1 = r
      BY <2>1
    <3>2. r - 1 \in Chunks(t, n)
      BY <1>2, <3>1
    <3> QED BY <3>1, <3>2
  <2>5. f \in Bijection(Chunks(t, n), R)
    <3> HIDE DEF f, R
    <3>1. f \in Injection(Chunks(t, n), R)
      BY <2>2, <2>3 DEF Injection, IsInjective
    <3>2. f \in Surjection(Chunks(t, n), R)
      BY <2>2, <2>4 DEF Surjection
    <3> QED BY <3>1, <3>2 DEF Bijection
  <2>6. IsFiniteSet(Chunks(t, n))
    BY ChunksCounted
  <2> QED BY <2>5, <2>6, FS_Bijection DEF ExistsBijection
<1>7. /\ Len(Tail(s)) = Len(s) - 1
      /\ \A i \in 1..(Len(s) - 1) : Tail(s)[i] = s[i + 1]
  BY <1>1 DEF t
<1>8. \A i \in Chunks(Tail(s), n) : i + 1 \in C
  BY <1>2 DEF t, Chunks
<1> QED BY <1>3, <1>4, <1>5, <1>6, <1>7, <1>8 DEF t

\* The chunks in queue_, and the steps that put one there or take it out.
Flight == Cardinality(InFlight(Len(queue)))
ChunkTaken == ProcessMessage /\ Head(queue).slot = "recv"
ChunkAdded ==
  \/ ThrottledSend("socket")
  \/ RunRead /\ Head(ready).outcome = "data" /\ ~program.throttled

LEMMA FlightIsChunks ==
  ASSUME DataTypes
  PROVE  /\ \A n : InFlight(n) = Chunks(queue, n)
         /\ Flight = Cardinality(Chunks(queue, Len(queue)))
         /\ Flight \in Nat /\ Flight <= Len(queue) /\ Len(queue) \in Nat
<1>1. \A n : InFlight(n) = Chunks(queue, n)
  BY DEF InFlight, Chunks, IsChunk
<1>2. Len(queue) \in Nat
  BY LenProperties DEF DataTypes
<1> QED BY <1>1, <1>2, ChunksCounted DEF Flight

\* What is put into queue_ and taken out of it.
LEMMA ChunkSteps ==
  ASSUME ControlTypes, DataTypes, Outgoing, [Next]_vars
  PROVE  \/ UNCHANGED queue /\ ~ChunkTaken /\ ~ChunkAdded
         \/ /\ queue # <<>> /\ queue' = Tail(queue)
            /\ IsChunk(Head(queue)) <=> ChunkTaken
            /\ ~ChunkAdded
         \/ /\ queue # <<>> /\ ServerSpawnsOwner
            /\ queue' = Append(Tail(queue), ResumeItem("owner", 0))
            /\ ~IsChunk(Head(queue)) /\ ~ChunkTaken /\ ~ChunkAdded
         \/ /\ \E i \in Items :
                 /\ queue' = Append(queue, i)
                 /\ IsChunk(i) <=> ChunkAdded
                 /\ i.kind = "resume" /\ i.pid = "socket" =>
                      /\ i = ResumeItem("socket", resumes["socket"])
                      /\ running = "socket" /\ pc'["socket"] = "yield"
            /\ ~ChunkTaken
<1>0. queue \in Seq(Items) /\ Len(queue) \in Nat
  BY LenProperties DEF DataTypes
<1>1. \A i \in Items : queue' = Append(queue, i) => queue' # queue
  <2>1. \A i \in Items : Len(Append(queue, i)) = Len(queue) + 1
    BY <1>0
  <2> QED BY <1>0, <2>1
<1>2. queue # <<>> => /\ Tail(queue) # queue
                      /\ \A i \in Items : Append(queue, i) # Tail(queue)
  <2>1. queue # <<>> => Len(Tail(queue)) = Len(queue) - 1
    BY <1>0, HeadTailProperties
  <2>2. \A i \in Items : Len(Append(queue, i)) = Len(queue) + 1
    BY <1>0
  <2> QED BY <1>0, <2>1, <2>2
<1>2a. \A i, j \in Items : Append(queue, i) = Append(queue, j) => i = j
  BY <1>0, AppendInjective
<1>3. ASSUME ProcessMessage \/ ProcessResume \/ ServerSpawnsOwner
      PROVE  ~ChunkAdded /\ queue # <<>>
  <2>1. at = "top" /\ queue # <<>>
    BY <1>3 DEF ProcessMessage, ProcessResume, ServerSpawnsOwner, TakesItem
  <2>2. ~RunRead
    BY <2>1 DEF RunRead, RunsHandler
  <2>3. ~ThrottledSend("socket")
    BY <1>3, <2>1 DEF ThrottledSend, ProcessMessage, ProcessResume,
                      ServerSpawnsOwner, TakesItem
  <2> QED BY <2>1, <2>2, <2>3 DEF ChunkAdded
<1>4. CASE ProcessMessage \/ ProcessResume
  <2>1. /\ queue' = Tail(queue)
        /\ Head(queue).kind = IF ProcessMessage THEN "message" ELSE "resume"
    BY <1>4 DEF ProcessMessage, ProcessResume, TakesItem
  <2> QED BY <1>3, <1>4, <2>1 DEF ChunkTaken, IsChunk
<1>5. CASE ServerSpawnsOwner
  BY <1>3, <1>5 DEF ServerSpawnsOwner, TakesItem, ProcessMessage, ChunkTaken,
                    IsChunk
<1>6. CASE ~ProcessMessage /\ ~ProcessResume /\ ~ServerSpawnsOwner
  <2>0. ~ChunkTaken
    BY <1>6 DEF ChunkTaken
  <2>1. CASE UNCHANGED queue
    <3>1. ~ThrottledSend("socket")
      <4>1. outgoing["socket"].slot \in Slots
            /\ outgoing["socket"].body \in Payloads(outgoing["socket"].slot)
        BY DEF DataTypes, Calls, Processes
      <4>2. MessageItem(outgoing["socket"].slot, outgoing["socket"].body) \in Items
        BY <4>1, NewItems
      <4> QED BY <1>1, <2>1, <4>2 DEF ThrottledSend
    <3>2. ~(RunRead /\ Head(ready).outcome = "data" /\ ~program.throttled)
      <4>1. RunRead => MessageItem("recv", <<Head(ready).chunk>>) \in Items
        <5>1. RunRead => <<Head(ready).chunk>> \in Payloads("recv")
          BY ReadEffects DEF Payloads
        <5> QED BY <5>1, NewItems DEF Slots
      <4> QED BY <1>1, <2>1, <4>1 DEF RunRead
    <3> QED BY <2>0, <2>1, <3>1, <3>2 DEF ChunkAdded
  <2>2. ASSUME NEW i \in Items, queue' = Append(queue, i),
               \/ Announce /\ i = ReadyItem
               \/ i.kind = "message" /\ Sends(i.slot)
               \/ \E p \in Processes : /\ i = ResumeItem(p, resumes[p])
                                       /\ running = p /\ pc'[p] = "yield"
        PROVE  /\ IsChunk(i) <=> ChunkAdded
               /\ i.kind = "resume" /\ i.pid = "socket" =>
                    /\ i = ResumeItem("socket", resumes["socket"])
                    /\ running = "socket" /\ pc'["socket"] = "yield"
    <3>1. IsChunk(i) => ChunkAdded
      <4> SUFFICES ASSUME IsChunk(i) PROVE ChunkAdded
        OBVIOUS
      <4>1. Sends("recv")
        BY <2>2 DEF IsChunk, ReadyItem, ResumeItem
      <4>2. ~(ThrottledSend("owner") /\ "recv" = outgoing["owner"].slot)
        BY DEF ThrottledSend, InCanQueue, Outgoing, Sending, OutSlots
      <4>3. \A call \in program.calls : OutSlot(call) # "recv"
        BY DEF OutSlot
      <4>4. CASE RunRead /\ ~program.throttled
        BY <1>1, <2>2, <4>4 DEF RunRead, ChunkAdded
      <4> QED BY <4>1, <4>2, <4>3, <4>4 DEF Sends, ChunkAdded
    <3>2. ChunkAdded => IsChunk(i)
      <4>1. CASE ThrottledSend("socket")
        <5>1. outgoing["socket"].slot = "recv"
          BY <4>1 DEF ThrottledSend, InCanQueue, Outgoing, Sending
        <5>2. queue' = Append(queue, MessageItem("recv", outgoing["socket"].body))
          BY <4>1, <5>1 DEF ThrottledSend
        <5>3. MessageItem("recv", outgoing["socket"].body) \in Items
          BY <5>1, NewItems DEF DataTypes, Calls, Processes
        <5>4. i = MessageItem("recv", outgoing["socket"].body)
          BY <1>2a, <2>2, <5>2, <5>3, Zenon
        <5> QED BY <5>4 DEF IsChunk, MessageItem
      <4>2. CASE RunRead /\ Head(ready).outcome = "data" /\ ~program.throttled
        <5>1. queue' = Append(queue, MessageItem("recv", <<Head(ready).chunk>>))
          BY <4>2 DEF RunRead
        <5>2. <<Head(ready).chunk>> \in Payloads("recv")
          BY <4>2, ReadEffects DEF Payloads
        <5>3. MessageItem("recv", <<Head(ready).chunk>>) \in Items
          BY <5>2, NewItems DEF Slots
        <5>4. i = MessageItem("recv", <<Head(ready).chunk>>)
          BY <1>2a, <2>2, <5>1, <5>3, Zenon
        <5> QED BY <5>4 DEF IsChunk, MessageItem
      <4> QED BY <4>1, <4>2 DEF ChunkAdded
    <3>3. i.kind = "resume" /\ i.pid = "socket" =>
            /\ i = ResumeItem("socket", resumes["socket"])
            /\ running = "socket" /\ pc'["socket"] = "yield"
      BY <2>2 DEF ReadyItem, ResumeItem
    <3> QED BY <3>1, <3>2, <3>3
  <2> QED BY <1>6, <2>0, <2>1, <2>2, QueueForms
<1> QED BY <1>4, <1>5, <1>6

LEMMA FlightStep ==
  ASSUME ControlTypes, DataTypes, Loop, OneRead, Outgoing, [Next]_vars
  PROVE  /\ ChunkTaken => Flight' = Flight - 1
         /\ ChunkAdded => Flight' = Flight + 1
         /\ ~ChunkTaken /\ ~ChunkAdded => Flight' = Flight
<1>0. queue \in Seq(Items) /\ Len(queue) \in Nat /\ queue' \in Seq(Items)
  BY LenProperties, QueueTyped DEF DataTypes
<1>1. /\ Flight = Cardinality(Chunks(queue, Len(queue))) /\ Flight \in Nat
      /\ Flight' = Cardinality(Chunks(queue', Len(queue')))
  <2>1. DataTypes'
    BY DataStep
  <2>2. Flight' = Cardinality(Chunks(queue', Len(queue')))
    BY <2>1, FlightIsChunks DEF Flight, InFlight, Chunks, IsChunk
  <2> QED BY <2>2, FlightIsChunks
<1>2. CASE UNCHANGED queue /\ ~ChunkTaken /\ ~ChunkAdded
  BY <1>1, <1>2
<1>3. ASSUME queue # <<>>
      PROVE  /\ Cardinality(Chunks(Tail(queue), Len(Tail(queue)))) =
                  IF IsChunk(Head(queue)) THEN Flight - 1 ELSE Flight
             /\ Tail(queue) \in Seq(Items)
  <2>1. Len(queue) - 1 \in 0..(Len(queue) - 1) /\ (Len(queue) - 1) + 1 = Len(queue)
    BY <1>0, <1>3, EmptySeq
  <2>2. /\ Len(Tail(queue)) = Len(queue) - 1
        /\ Cardinality(Chunks(queue, (Len(queue) - 1) + 1)) =
              IF IsChunk(Head(queue))
              THEN Cardinality(Chunks(Tail(queue), Len(queue) - 1)) + 1
              ELSE Cardinality(Chunks(Tail(queue), Len(queue) - 1))
    BY <1>0, <1>3, <2>1, ChunksTaken
  <2>3. Cardinality(Chunks(Tail(queue), Len(queue) - 1)) \in Nat
    BY <1>0, <2>1, ChunksCounted
  <2> QED BY <1>0, <1>1, <1>3, <2>1, <2>2, <2>3, HeadTailProperties
<1>4. CASE /\ queue # <<>> /\ queue' = Tail(queue)
           /\ IsChunk(Head(queue)) <=> ChunkTaken
           /\ ~ChunkAdded
  BY <1>1, <1>3, <1>4
<1>5. ASSUME NEW s \in Seq(Items), NEW i \in Items
      PROVE  Cardinality(Chunks(Append(s, i), Len(Append(s, i)))) =
               IF IsChunk(i) THEN Cardinality(Chunks(s, Len(s))) + 1
                             ELSE Cardinality(Chunks(s, Len(s)))
  BY ChunksAppended
<1>6. CASE /\ queue # <<>> /\ ServerSpawnsOwner
           /\ queue' = Append(Tail(queue), ResumeItem("owner", 0))
           /\ ~IsChunk(Head(queue)) /\ ~ChunkTaken /\ ~ChunkAdded
  <2> DEFINE s == Tail(queue)
             i == ResumeItem("owner", 0)
  <2>1. s \in Seq(Items) /\ Cardinality(Chunks(s, Len(s))) = Flight
    BY <1>3, <1>6
  <2>2. i \in Items /\ ~IsChunk(i)
    BY NewItems DEF ResumeItem, IsChunk, Processes
  <2>3. queue' = Append(s, i)
    BY <1>6
  <2> HIDE DEF s, i
  <2> QED BY <1>1, <1>5, <1>6, <2>1, <2>2, <2>3
<1>7. ASSUME NEW i \in Items, queue' = Append(queue, i),
             IsChunk(i) <=> ChunkAdded, ~ChunkTaken
      PROVE  /\ ChunkAdded => Flight' = Flight + 1
             /\ ~ChunkAdded => Flight' = Flight
  BY <1>0, <1>1, <1>5, <1>7
<1> QED BY <1>2, <1>4, <1>6, <1>7, ChunkSteps

-----------------------------------------------------------------------------
(* The chunks that wait for a slow owner *)

\* One process runs at a time.
LEMMA RunningEnds ==
  ASSUME ControlTypes, DataTypes, Loop, [Next]_vars, running # Nobody
  PROVE  running' \in {running, Nobody}
<1> USE FrontOfQueue, FrontOfReady DEF ControlTypes, Loop, Processes, Nobody
<1>1. CASE ProcessMessage
  BY <1>1 DEF ProcessMessage, TakesItem, Resume, NoResume, Dies
<1>2. CASE ProcessResume
  BY <1>2 DEF ProcessResume, TakesItem, Resume, NoResume, Dies
<1>3. CASE ServerSpawnsOwner
  BY <1>3 DEF ServerSpawnsOwner, TakesItem
<1>4. CASE RunOne
  BY <1>4 DEF RunOne, procVars
<1>5. CASE RunContinuation
  BY <1>5 DEF RunContinuation, RunsHandler, Resume, NoResume, Dies
<1>6. CASE RunRead
  BY <1>6 DEF RunRead, RunsHandler, procVars
<1>7. CASE RunWrite
  BY <1>7 DEF RunWrite, RunsHandler, procVars
<1>8. CASE RunHandshake
  BY <1>8 DEF RunHandshake, RunsHandler, procVars
<1>9. CASE RunStaleHandler
  BY <1>9 DEF RunStaleHandler, procVars
<1>10. CASE EndPoll
  BY <1>10 DEF EndPoll, procVars
<1>11. CASE Destroy
  BY <1>11 DEF Destroy
<1>12. ASSUME NEW p \in Processes, CanQueueNull(p) PROVE running' \in {running, Nobody}
  BY <1>12 DEF CanQueueNull, InCanQueue, procVars
<1>13. ASSUME NEW p \in Processes, WaitForRoom(p) PROVE running' \in {running, Nobody}
  BY <1>13 DEF WaitForRoom, InCanQueue, Park
<1>14. ASSUME NEW p \in Processes, ThrottledSend(p) PROVE running' \in {running, Nobody}
  BY <1>14 DEF ThrottledSend, InCanQueue, GoOn
<1>15. CASE Handshake
  BY <1>15 DEF Handshake, InSocket, Park
<1>16. CASE Announce
  BY <1>16 DEF Announce, InSocket, Park
<1>17. CASE Initialise
  BY <1>17 DEF Initialise, InSocket, GoOn
<1>18. CASE EndOfFile
  BY <1>18 DEF EndOfFile, InSocket, Dies
<1>19. CASE ForwardRead
  BY <1>19 DEF ForwardRead, InSocket, BeginSendThrottled, Park, GoOn
<1>20. CASE NothingToForward
  BY <1>20 DEF NothingToForward, InSocket, GoOn
<1>21. CASE AwaitWrite
  BY <1>21 DEF AwaitWrite, InSocket, ParkOnPromise, Park, GoOn
<1>22. CASE AwaitBuffers
  BY <1>22 DEF AwaitBuffers, InSocket, ParkOnPromise, Park, GoOn
<1>23. CASE WriteAwaited
  BY <1>23 DEF WriteAwaited, InSocket, Dies, GoOn
<1>24. CASE TakeBuffers
  BY <1>24, BuffersTaken DEF InSocket, Dies, GoOn
<1>25. CASE OwnerEnds
  BY <1>25 DEF OwnerEnds, InOwner, Dies
<1>26. CASE InitRecvSocket
  BY <1>26 DEF InitRecvSocket, InOwner, GoOn
<1>27. CASE AwaitChunk
  BY <1>27 DEF AwaitChunk, InOwner, Park, GoOn
<1>28. CASE TakeChunk
  BY <1>28 DEF TakeChunk, InOwner, GoOn
<1>29. ASSUME NEW call \in program.calls, OwnerSends(call) PROVE running' \in {running, Nobody}
  BY <1>29 DEF OwnerSends, InOwner, BeginSendThrottled, Park, GoOn
<1>30. CASE ReadCompletes
  BY <1>30 DEF ReadCompletes, Completes, procVars
<1>31. CASE WriteCompletes
  BY <1>31 DEF WriteCompletes, Completes, procVars
<1>32. CASE HandshakeCompletes
  BY <1>32 DEF HandshakeCompletes, Completes, procVars
<1>33. CASE UNCHANGED vars
  BY <1>33 DEF vars, procVars
<1>34. CASE OwnerSleeps
  BY <1>34 DEF OwnerSleeps, InOwner, Park
<1>35. CASE TimerWakesOwner
  BY <1>35 DEF TimerWakesOwner
<1> QED BY <1>1, <1>2, <1>3, <1>4, <1>5, <1>6, <1>7, <1>8, <1>9, <1>10, <1>11,
  <1>12, <1>13, <1>14, <1>15, <1>16, <1>17, <1>18, <1>19, <1>20, <1>21, <1>22,
  <1>23, <1>24, <1>25, <1>26, <1>27, <1>28, <1>29, <1>30, <1>31, <1>32, <1>33,
  <1>34, <1>35
  DEF Next, Thread, Network

LEMMA BoundedStep ==
  ASSUME ControlTypes, DataTypes, Loop, Lives, Suspends, Tokens, Beginning,
         OneRead, Outgoing, Bounded, [Next]_vars
  PROVE  Bounded'
<1> SUFFICES ASSUME program.throttled PROVE Bounded'
  BY ProgramStays DEF Bounded
<1>0. /\ queue \in Seq(Items) /\ Len(queue) \in Nat /\ program.limit \in Nat
      /\ program' = program /\ Flight \in Nat
  BY ProgramTypes, ProgramStays, FlightIsChunks DEF DataTypes
<1>1. ChunkAdded => ThrottledSend("socket") /\ pc'["socket"] = "check"
  BY DEF ChunkAdded, ThrottledSend, GoOn, ControlTypes, Processes
<1>2. Passing' => Flight' <= program.limit
  <2> SUFFICES ASSUME Passing' PROVE Flight' <= program.limit
    OBVIOUS
  <2>1. ~ChunkAdded /\ Flight' \in Int /\ Flight' <= Flight
    BY <1>0, <1>1, FlightStep DEF Passing
  <2>2. CASE Passing
    BY <1>0, <2>1, <2>2 DEF Bounded, Flight
  <2>3. CASE ~Passing /\ SocketMoves
    <3>1. ForwardRead /\ Len(queue) <= program.limit
      <4>1. ~TakeBuffers
        BY BuffersTaken DEF Passing, GoOn, InSocket, ControlTypes, Processes
      <4>2. ForwardRead
        BY <2>3, <4>1 DEF SocketMoves, Handshake, Announce, Initialise,
           NothingToForward, AwaitWrite, AwaitBuffers, WriteAwaited, WaitForRoom,
           ThrottledSend, Park, GoOn, ParkOnPromise, InCanQueue, Dies, InSocket,
           ControlTypes, Processes, Passing
      <4> QED BY <1>0, <4>2 DEF ForwardRead, BeginSendThrottled, Park, Passing,
                                ControlTypes, Processes, Nobody
    <3> QED BY <1>0, <2>1, <3>1, FlightIsChunks
  <2>4. CASE ~Passing /\ UNCHANGED pc["socket"]
    <3>1. pc["socket"] = "yield" /\ running # "socket" /\ running' = "socket"
      BY <2>4 DEF Passing
    <3>2. running = Nobody
      BY <3>1, RunningEnds DEF Nobody
    <3>3. /\ ProcessResume /\ Head(queue).pid = "socket"
          /\ Head(queue).resume = resumes["socket"]
      BY <3>1, <3>2, ResumedBy DEF Nobody
    <3>4. queue # <<>> /\ Head(queue).kind = "resume" /\ Head(queue) = queue[1]
          /\ Len(queue) > 0
      BY <1>0, <3>3, ElementsHead DEF ProcessResume, TakesItem
    <3>5. \A j \in InFlight(Len(queue)) : j < 1
      BY <1>0, <3>1, <3>3, <3>4 DEF Bounded, Yielded
    <3>6. InFlight(Len(queue)) = {}
      BY <1>0, <3>5 DEF InFlight
    <3>7. Flight = 0
      BY <3>6, FS_EmptySet DEF Flight
    <3> QED BY <1>0, <2>1, <3>7
  <2> QED BY <2>2, <2>3, <2>4, SocketStays
<1>3. ASSUME pc'["socket"] = "yield", NEW i \in 1..Len(queue'),
             NEW j \in 1..Len(queue'), IsChunk(queue'[j]), Yielded(i)'
      PROVE  j < i
  <2>0. Len(queue') \in Nat /\ ~ChunkAdded
    BY <1>1, <1>3, QueueTyped, LenProperties
  <2>1. /\ queue'[i].kind = "resume" /\ queue'[i].pid = "socket"
        /\ queue'[i].resume = resumes'["socket"]
    BY <1>3 DEF Yielded
  <2>2. running' # "socket"
    <3>1. PICK e \in ToSet(queue') : e = queue'[i]
      BY <1>3, QueueTyped, Elements
    <3>2. Token(e.pid, e.resume, {"start", "yield"})'
      BY <2>1, <3>1, TokensStep DEF Tokens
    <3>3. running' = "socket" => Alive("socket")'
      BY LivesStep DEF Loop, Nobody
    <3> QED BY <2>1, <3>1, <3>2, <3>3 DEF Token
  <2>3. resumes' ["socket"] = resumes["socket"]
    <3>1. CASE running = Nobody /\ running' # Nobody
      BY <2>2, <3>1, ResumedBy DEF ControlTypes, Processes
    <3> QED BY <3>1, ResumesStay
  <2>4. ASSUME NEW k \in 1..Len(queue), Yielded(k)
        PROVE  pc["socket"] = "yield" /\ \A l \in InFlight(Len(queue)) : l < k
    <3>1. queue[k] \in ToSet(queue)
      BY <1>0, Elements
    <3>2. Token("socket", resumes["socket"], {"start", "yield"})
      BY <2>4, <3>1 DEF Tokens, Yielded
    <3>3. SocketMoves => running = "socket" /\ Alive("socket")
      BY DEF SocketMoves, Loop, Nobody
    <3>4. ~SocketMoves
      BY <3>2, <3>3 DEF Token
    <3>5. pc["socket"] = "yield"
      BY <1>3, <3>4, SocketStays
    <3> QED BY <2>4, <3>5 DEF Bounded
  <2>5. CASE UNCHANGED queue
    <3>1. Yielded(i) /\ j \in InFlight(Len(queue))
      BY <1>3, <2>1, <2>3, <2>5 DEF Yielded, InFlight, IsChunk
    <3> QED BY <1>3, <2>4, <2>5, <3>1
  <2>6. ASSUME queue # <<>>, NEW k \in 1..(Len(queue) - 1),
               NEW l \in 1..(Len(queue) - 1), queue'[k] = queue[k + 1],
               queue'[l] = queue[l + 1], k = i, l = j
        PROVE  j < i
    <3>1. k + 1 \in 1..Len(queue) /\ l + 1 \in 1..Len(queue)
      BY <1>0, <2>6
    <3>2. Yielded(k + 1) /\ l + 1 \in InFlight(Len(queue))
      BY <1>3, <2>1, <2>3, <2>6, <3>1 DEF Yielded, InFlight, IsChunk
    <3>3. l + 1 < k + 1
      BY <2>4, <3>1, <3>2
    <3> QED BY <2>6, <3>3
  <2>7. CASE queue # <<>> /\ queue' = Tail(queue)
    <3>1. /\ Len(queue') = Len(queue) - 1
          /\ \A k \in 1..Len(queue') : queue'[k] = queue[k + 1]
      BY <1>0, <2>7, ElementsHead
    <3> QED BY <1>3, <2>6, <2>7, <3>1
  <2>8. CASE /\ queue # <<>>
             /\ queue' = Append(Tail(queue), ResumeItem("owner", 0))
    <3> DEFINE s == Tail(queue)
               e == ResumeItem("owner", 0)
    <3>1. /\ s \in Seq(Items) /\ Len(s) = Len(queue) - 1
          /\ \A k \in 1..Len(s) : s[k] = queue[k + 1]
      BY <1>0, <2>8, ElementsHead
    <3>2. e \in Items /\ e.kind = "resume" /\ e.pid = "owner" /\ queue' = Append(s, e)
      BY <2>8, NewItems DEF ResumeItem, Processes
    <3> HIDE DEF s, e
    <3>3. /\ Len(queue') = Len(s) + 1 /\ queue'[Len(s) + 1] = e
          /\ \A k \in 1..Len(s) : queue'[k] = s[k]
      BY <3>1, <3>2, ChunksAppended
    <3>4. i # Len(s) + 1 /\ j # Len(s) + 1
      BY <1>3, <2>1, <3>2, <3>3 DEF IsChunk
    <3>5. i \in 1..(Len(queue) - 1) /\ j \in 1..(Len(queue) - 1)
      BY <1>0, <1>3, <3>1, <3>3, <3>4
    <3> QED BY <2>6, <2>8, <3>1, <3>3, <3>5
  <2>9. ASSUME NEW e \in Items, queue' = Append(queue, e), ~IsChunk(e)
        PROVE  j < i
    <3>1. /\ Len(queue') = Len(queue) + 1 /\ queue'[Len(queue) + 1] = e
          /\ \A k \in 1..Len(queue) : queue'[k] = queue[k]
      BY <1>0, <2>9, ChunksAppended
    <3>2. j \in 1..Len(queue) /\ j \in InFlight(Len(queue))
      BY <1>0, <1>3, <2>9, <3>1 DEF InFlight, IsChunk
    <3>3. CASE i = Len(queue) + 1
      BY <1>0, <3>2, <3>3
    <3>4. CASE i # Len(queue) + 1
      <4>1. i \in 1..Len(queue) /\ Yielded(i)
        BY <1>0, <1>3, <2>1, <2>3, <3>1, <3>4 DEF Yielded
      <4> QED BY <2>4, <3>2, <4>1
    <3> QED BY <3>3, <3>4
  <2> QED BY <2>0, <2>5, <2>7, <2>8, <2>9, ChunkSteps
<1>4. \A i \in 1..Len(queue'), j \in InFlight(Len(queue))' :
        pc'["socket"] = "yield" /\ Yielded(i)' => j < i
  BY <1>3 DEF InFlight, IsChunk
<1> QED BY <1>0, <1>2, <1>4 DEF Bounded, Flight

\* The messages in the slot of the owner.
Box == Contents(slots["recv"])

LEMMA BoxStep ==
  ASSUME ControlTypes, DataTypes, Loop, [Next]_vars
  PROVE  /\ Box \in Seq(Seq(Nat)) /\ Size(slots["recv"]) = Len(Box)
         /\ Box' \in Seq(Seq(Nat)) /\ Size(slots'["recv"]) = Len(Box')
         /\ \/ /\ UNCHANGED Box
               /\ ~(ChunkTaken /\ Alive("owner"))
               /\ TakeChunk => UNCHANGED log
            \/ /\ ChunkTaken /\ Alive("owner")
               /\ Box' = Append(Box, Head(queue).body)
            \/ /\ TakeChunk /\ Box # <<>> /\ Box' = Tail(Box)
               /\ log'.received = log.received \o Head(Box)
            \/ /\ Destroy /\ Box' = <<>>
               /\ ~Alive("socket")' /\ ~Alive("owner")'
<1>0. "recv" \in Slots /\ "recv" \notin OutSlots /\ "init" # "recv"
      /\ Payloads("recv") = Seq(Nat) /\ Receiver("recv") = "owner"
  BY DEF Slots, OutSlots, Payloads, Receiver
<1>1. /\ Box \in Seq(Seq(Nat)) /\ Size(slots["recv"]) = Len(Box)
      /\ Box' \in Seq(Seq(Nat)) /\ Size(slots'["recv"]) = Len(Box')
  <2>1. SlotsOK(slots) /\ SlotsOK(slots')
    BY SlotsTyped DEF DataTypes
  <2>2. /\ slots["recv"] \in Queues(Seq(Nat), Continuations)
        /\ WellFormed(slots["recv"])
        /\ slots'["recv"] \in Queues(Seq(Nat), Continuations)
        /\ WellFormed(slots'["recv"])
    BY <1>0, <2>1 DEF SlotsOK
  <2> QED BY <2>2, SizeIsLen DEF Box
<1>2. CASE ProcessMessage
  <2>1. Box' = IF Head(queue).slot = "recv" /\ Alive("owner")
               THEN Append(Box, Head(queue).body) ELSE Box
    BY <1>0, <1>2, MessageSlots DEF Box
  <2>2. ~TakeChunk
    BY <1>2 DEF ProcessMessage, TakesItem, TakeChunk
  <2> QED BY <1>1, <1>2, <2>1, <2>2 DEF ChunkTaken
<1>3. CASE TakeChunk
  <2>1. ~ChunkTaken
    BY <1>3 DEF ChunkTaken, ProcessMessage, TakesItem, TakeChunk, InOwner, Loop,
                Nobody
  <2>2. slots'["recv"] = Remaining("recv")
    BY <1>0, <1>3, TakeChunkSlots
  <2>3. log' = [log EXCEPT !.received = @ \o Taken("recv")]
    BY <1>3 DEF TakeChunk
  <2>4. CASE HasMessage("recv")
    <3>1. Box # <<>> /\ Box' = Tail(Box) /\ Taken("recv") = Head(Box)
      BY <1>0, <2>2, <2>4, TakeTypes DEF Box
    <3>2. log'.received = log.received \o Head(Box)
      BY <2>3, <3>1 DEF DataTypes
    <3> QED BY <1>1, <1>3, <3>1, <3>2
  <2>5. CASE ~HasMessage("recv")
    <3>1. Box' = Box /\ Taken("recv") = <<>>
      BY <1>0, <2>2, <2>5, TakeTypes DEF Box
    <3>2. log.received \o <<>> = log.received
      BY ConcatEmptySeq DEF DataTypes
    <3>3. log' = log
      BY <2>3, <3>1, <3>2 DEF DataTypes
    <3> QED BY <1>1, <2>1, <3>1, <3>3
  <2> QED BY <2>4, <2>5
<1>4. ASSUME UNCHANGED Box, ~ProcessMessage, ~TakeChunk
      PROVE  UNCHANGED Box /\ ~ChunkTaken /\ ~TakeChunk
  BY <1>4 DEF ChunkTaken
<1>5. CASE Destroy
  <2>1. Destroyed = {} \/ Destroyed # {}
    OBVIOUS
  <2>2. CASE Destroyed = {}
    <3>1. UNCHANGED slots
      BY <1>5, <2>2, Zenon DEF Destroy
    <3>2. ~ProcessMessage /\ ~TakeChunk
      BY <1>5 DEF Destroy, ProcessMessage, TakesItem, TakeChunk, InOwner, Nobody
    <3> QED BY <1>1, <1>4, <3>1, <3>2 DEF Box
  <2>3. CASE Destroyed # {}
    <3>1. slots' = [s \in Slots |-> NewQueue]
      BY <1>5, <2>3, Zenon DEF Destroy
    <3>2. Box' = <<>>
      <4>1. <<>> \o <<>> = <<>>
        BY ConcatEmptySeq, EmptySeq
      <4> QED BY <1>0, <3>1, <4>1 DEF Box, Contents, NewQueue
    <3>3. ~Alive("socket")' /\ ~Alive("owner")'
      BY <1>5, <2>3 DEF Destroy, Destroyed, Alive, Processes, ControlTypes
    <3> QED BY <1>1, <1>5, <3>2, <3>3
  <2> QED BY <2>2, <2>3
<1>6. CASE ~ProcessMessage /\ ~TakeChunk /\ ~Destroy
  <2>1. UNCHANGED Box
    <3>1. CASE ProcessResume \/ RunContinuation
      BY <1>0, <3>1, ResumedSlots DEF Box
    <3>2. CASE Initialise
      BY <1>0, <3>2, InitialiseSlots DEF Box
    <3>3. CASE TakeBuffers
      BY <1>0, <3>3, TakeBuffersSlots DEF Box
    <3>4. ASSUME NEW p \in Processes, WaitForRoom(p) PROVE UNCHANGED Box
      BY <1>0, <3>4, WaitSlots DEF Box
    <3>5. CASE UNCHANGED slots
      BY <3>5 DEF Box
    <3> QED BY <1>6, <3>1, <3>2, <3>3, <3>4, <3>5, SlotsChanges
  <2> QED BY <1>1, <1>4, <1>6, <2>1
<1> QED BY <1>2, <1>3, <1>5, <1>6

LEMMA ThrottledReadsStep ==
  ASSUME ControlTypes, DataTypes, Loop, OneRead, Outgoing, Bounded,
         ThrottledReadsBounded, [Next]_vars
  PROVE  ThrottledReadsBounded'
<1> SUFFICES ASSUME program.throttled PROVE ThrottledReadsBounded'
  BY ProgramStays DEF ThrottledReadsBounded
<1>0. /\ Flight \in Nat /\ Len(Box) \in Nat /\ Len(Box') \in Nat
      /\ Size(slots["recv"]) = Len(Box) /\ Size(slots'["recv"]) = Len(Box')
      /\ program.limit \in Nat /\ kThrottle \in Nat \ {0} /\ program' = program
      /\ Len(Box) + Flight <= kThrottle + program.limit
  BY FlightIsChunks, BoxStep, LenProperties, ProgramTypes, ProgramStays,
     ThrottleAssumption DEF ThrottledReadsBounded, Flight
<1>1. CASE ChunkAdded
  <2>1. ThrottledSend("socket")
    BY <1>1 DEF ChunkAdded
  <2>2. running = "socket" /\ ~MustWait(outgoing["socket"].slot)
        /\ outgoing["socket"].slot = "recv" /\ Passing
    BY <2>1 DEF ThrottledSend, InCanQueue, Outgoing, Sending, Passing
  <2>3. Len(Box) < kThrottle
    BY <1>0, <2>2 DEF MustWait, ShouldThrottle
  <2>4. UNCHANGED Box
    BY <2>1 DEF ThrottledSend, Box
  <2>5. Flight <= program.limit
    BY <2>2 DEF Bounded, Flight
  <2>6. Flight' = Flight + 1
    BY <1>1, FlightStep
  <2>7. Len(Box') + Flight' <= kThrottle + program.limit
    BY <1>0, <2>3, <2>4, <2>5, <2>6
  <2> QED BY <1>0, <2>7 DEF ThrottledReadsBounded, Flight
<1>2. CASE ~ChunkAdded
  <2>1. /\ ChunkTaken => Flight' = Flight - 1
        /\ ~ChunkTaken => Flight' = Flight
    BY <1>2, FlightStep
  <2>2. \/ Len(Box') <= Len(Box)
        \/ ChunkTaken /\ Len(Box') = Len(Box) + 1
    <3>1. Head(queue).body \in Seq(Nat) \/ ~ChunkTaken
      BY FrontOfQueue DEF ChunkTaken, ProcessMessage, TakesItem, Payloads
    <3>2. Box \in Seq(Seq(Nat)) /\ Len(<<>>) = 0
      BY BoxStep
    <3>3. ChunkTaken => Len(Append(Box, Head(queue).body)) = Len(Box) + 1
      BY <3>1, <3>2, AppendProperties
    <3>4. Box # <<>> => Len(Tail(Box)) = Len(Box) - 1
      BY <3>2, HeadTailProperties
    <3>5. \/ Box' = Box
          \/ ChunkTaken /\ Box' = Append(Box, Head(queue).body)
          \/ Box # <<>> /\ Box' = Tail(Box)
          \/ Box' = <<>>
      BY BoxStep
    <3>6. \A n \in Nat : n <= n /\ n - 1 <= n /\ 0 <= n
      OBVIOUS
    <3> QED BY <1>0, <3>2, <3>3, <3>4, <3>5, <3>6, Zenon
  <2>3. Len(Box') + Flight' <= kThrottle + program.limit
    BY <1>0, <2>1, <2>2
  <2> QED BY <1>0, <2>3 DEF ThrottledReadsBounded, Flight
<1> QED BY <1>1, <1>2

-----------------------------------------------------------------------------
(* The invariant *)

LEMMA InitialInv ==
  ASSUME Init
  PROVE  SocketInv
<1>1. ControlTypes
  BY DEF Init, ControlTypes, SocketPcs, OwnerPcs, Processes
<1>2. NewPromise \in Promises(Continuations) /\ NewQueue \in Queues({}, {})
  BY DEF NewPromise, Promises, NewQueue, Queues
<1>3. SlotsOK(slots)
  <2>1. /\ slots = [s \in Slots |-> slots[s]]
        /\ \A s \in Slots : slots[s] = NewQueue
    BY DEF Init
  <2>2. \A s \in Slots : /\ NewQueue \in Queues(Payloads(s), Continuations)
                         /\ WellFormed(NewQueue)
    BY <1>2 DEF NewQueue, Queues, WellFormed
  <2> QED BY <2>1, <2>2 DEF SlotsOK
<1>4. /\ ResumeItem("socket", 0) \in Items
      /\ NoMessage \in Calls
  <2>1. <<>> \in Seq(Nat) /\ <<>> \in AnyPayload /\ <<>> \in Payloads("init")
    BY DEF AnyPayload, Payloads
  <2>2. NoMessage \in Calls
    BY <2>1 DEF NoMessage, Calls, Slots
  <2>3. ResumeItem("socket", 0) \in Items
    BY <2>1 DEF ResumeItem, Items, Slots, Processes
  <2> QED BY <2>2, <2>3
<1>5. DataTypes
  <2>1. queue \in Seq(Items) /\ ready \in Seq(ProperHandlers)
    BY <1>4 DEF Init
  <2>2. outgoing \in [Processes -> Calls]
    BY <1>4 DEF Init
  <2>3. sock \in [eof_ : BOOLEAN, except_ : BOOLEAN, nextRead : Seq(Nat),
                  isWriting : BOOLEAN, p_ : Promises(Continuations),
                  hs : Promises(Continuations)]
    BY <1>2 DEF Init
  <2>4. /\ net \in [reading : Nat, writing : Seq(Seq(Nat)), shaking : BOOLEAN,
                    wire : Seq(Nat)]
        /\ log \in [fed : Nat, sent : Nat, received : Seq(Nat), taken : Seq(Nat)]
    BY DEF Init
  <2> QED BY <1>3, <2>1, <2>2, <2>3, <2>4 DEF DataTypes
<1>6. Loop /\ Lives /\ Found /\ Suspends
  BY DEF Init, Loop, Lives, Found, Suspends, Suspended, Alive, Suspensions,
         Processes, Nobody
<1>7. /\ ToSet(queue) = {ResumeItem("socket", 0)} /\ ToSet(ready) = {}
      /\ Len(queue) = 1 /\ Len(ready) = 0 /\ queue[1] = ResumeItem("socket", 0)
  BY DEF Init, ToSet
<1>8. Tokens
  <2>1. NewPromise.exec_ = NoExec /\ NewQueue.p_ = NewPromise
    BY DEF NewPromise, NewQueue
  <2>2. sock.p_.exec_ = NoExec /\ sock.hs.exec_ = NoExec
    BY <2>1 DEF Init
  <2>3. \A s \in Slots : slots[s].p_.exec_ = NoExec
    BY <2>1 DEF Init
  <2>4. Token("socket", 0, {"start", "yield"})
    BY DEF Token, Init, Processes, Nobody
  <2> QED BY <1>7, <2>2, <2>3, <2>4 DEF Tokens, HandlerToken, ResumeItem
<1>9. Beginning
  <2>1. Absent(queue, "onReady") /\ Absent(queue, "message") /\ NoReadHandler
    BY <1>7 DEF Absent, NoReadHandler, ResumeItem
  <2>2. Unique(queue, "onReady")
    BY <1>7 DEF Unique
  <2>3. slots["recv"] = NewQueue
    BY DEF Init, Slots
  <2> QED BY <2>1, <2>2, <2>3 DEF Beginning, Init, Early, Processes, Nobody
<1>10. OneRead /\ OneWrite
  BY <1>7 DEF OneRead, OneWrite, Unique, Absent, NoReadHandler, NoWriteHandler, Init,
              Processes
<1>11. Outgoing /\ Bounded
  BY DEF Init, Outgoing, Sending, Bounded, Passing, Processes
<1>12. ThrottledReadsBounded
  <2>1. Size(slots["recv"]) = 0
    BY DEF Init, Slots, NewQueue, Size
  <2>2. InFlight(Len(queue)) = {}
    BY <1>7 DEF InFlight, ResumeItem
  <2>3. Cardinality({}) = 0
    BY FS_EmptySet
  <2>4. program.limit \in Nat
    BY <1>1, ProgramTypes
  <2> QED BY <2>1, <2>2, <2>3, <2>4, ThrottleAssumption DEF ThrottledReadsBounded
<1>13. Noticed /\ Wakes
  BY DEF Init, Noticed, Wakes, Processes
<1> QED
  BY <1>1, <1>5, <1>6, <1>8, <1>9, <1>10, <1>11, <1>12, <1>13 DEF SocketInv

LEMMA InvStep == SocketInv /\ [Next]_vars => SocketInv'
BY ControlStep, DataStep, LivesStep, FoundStep, TokensStep, BeginningStep,
   OneReadStep, OutgoingStep, BoundedStep, ThrottledReadsStep, NoticedStep,
   WakesStep, OneWriteStep DEF SocketInv

\* The inductive invariant of a connection.  The properties below follow from it.
THEOREM SocketInvariant == Spec => []SocketInv
<1>1. Init => SocketInv
  BY InitialInv
<1> QED BY <1>1, InvStep, PTL DEF Spec

-----------------------------------------------------------------------------
(* What it means for the properties of SocketProcess *)

LEMMA PromisesGrow ==
  ASSUME NEW G, NEW H, G \subseteq H
  PROVE  Promises(G) \subseteq Promises(H)
BY DEF Promises

LEMMA QueuesGrow ==
  ASSUME NEW G, NEW H, G \subseteq H, NEW M, NEW N, M \subseteq N
  PROVE  Queues(M, G) \subseteq Queues(N, H)
BY PromisesGrow DEF Queues

\* Every variable keeps its type, and there is never a second read while one is
\* pending: the read handler, the coroutine after sendThrottled() and the first
\* asyncRead() never start one each (asyncRead).
THEOREM ConnectionTypes == Spec => []TypeOK
<1>1. SocketInv => TypeOK
  <2> SUFFICES ASSUME SocketInv PROVE TypeOK
    OBVIOUS
  <2> USE DEF SocketInv
  <2>1. Continuations \subseteq Handlers /\ ProperHandlers \subseteq Handlers
    BY DEF Continuations, ProperHandlers
  <2>2. \A s : Payloads(s) \subseteq Bodies(s)
    BY DEF Payloads, Bodies
  <2>3. \A s \in Slots : slots[s] \in Queues(Bodies(s), Handlers)
    BY <2>1, <2>2, QueuesGrow, Zenon DEF DataTypes, SlotsOK
  <2>4. Promises(Continuations) \subseteq Promises(Handlers)
    BY <2>1, PromisesGrow, Zenon
  <2>5. sock \in [eof_ : BOOLEAN, except_ : BOOLEAN, nextRead : Seq(Nat),
                  isWriting : BOOLEAN, p_ : Promises(Handlers),
                  hs : Promises(Handlers)]
    BY <2>4 DEF DataTypes
  <2>6. net \in [reading : 0..1, writing : Seq(Seq(Nat)), shaking : BOOLEAN,
                 wire : Seq(Nat)]
    BY DEF DataTypes, OneRead
  <2>7. ASSUME NEW i \in 1..Len(queue)
        PROVE  /\ queue[i].pid \in Processes /\ queue[i].slot \in Slots
               /\ queue[i].body \in Bodies(queue[i].slot) /\ queue[i].resume \in Nat
    <3>1. queue[i] \in Items
      BY ElementOfSeq DEF DataTypes
    <3> QED BY <3>1, <2>2 DEF Items
  <2>8. ready \in Seq(Handlers)
    BY <2>1 DEF DataTypes
  <2>9. ASSUME NEW p \in Processes
        PROVE  /\ outgoing[p].slot \in Slots
               /\ outgoing[p].body \in Bodies(outgoing[p].slot)
    BY <2>2 DEF DataTypes, Calls
  <2>10. pc \in [Processes -> {"start", "handshake", "init", "loop", "canQueue",
                               "yield", "room", "check", "written", "buffers",
                               "user", "recv", "sleep"}]
    BY DEF ControlTypes, SocketPcs, OwnerPcs
  <2> QED
    BY <2>3, <2>5, <2>6, <2>7, <2>8, <2>9, <2>10 DEF TypeOK, ControlTypes, DataTypes
<1> QED BY <1>1, SocketInvariant, PTL

\* makeSendAddress() of the owner's calls finds the socket process, unless the
\* owner's timer fires in the poll() in which the socket has died: then, and only
\* then, the call throws.
THEOREM OwnerFindsSocket == Spec => []SocketIsFound
<1>1. SocketInv => SocketIsFound
  BY DEF SocketInv, Found, SocketIsFound
<1> QED BY <1>1, SocketInvariant, PTL

\* The loop of the socket overlooks nothing: whatever completes while it is
\* suspended, in whatever order, its continuation is then about to run.
THEOREM SocketIsWoken == Spec => []NoLostWakeup
<1>1. SocketInv => NoLostWakeup
  <2> SUFFICES ASSUME SocketInv, Suspended("socket"),
                      pc["socket"] \in {"written", "buffers"}, Actionable
               PROVE  \E k \in 1..Len(ready) : ready[k] = Continuation("socket")
    BY DEF NoLostWakeup
  <2>1. Continuation("socket") \in ToSet(ready)
    BY DEF SocketInv, Wakes, Woken
  <2>2. ready \in Seq(ProperHandlers)
    BY DEF SocketInv, DataTypes
  <2> QED BY <2>1, <2>2, Elements
<1> QED BY <1>1, SocketInvariant, PTL

\* A throttled socket never has more than kThrottle + limit chunks on their way
\* to its owner, whatever the length of the stream.
THEOREM ReadsAreThrottled == Spec => []ThrottledReadsBounded
<1>1. SocketInv => ThrottledReadsBounded
  BY DEF SocketInv
<1> QED BY <1>1, SocketInvariant, PTL

-----------------------------------------------------------------------------
(* The order of the reads *)

\* The chunks in s are numbered from base + 1.
Numbered(s, base) ==
  \A i \in Chunks(s, Len(s)) : s[i].body = <<base + Cardinality(Chunks(s, i))>>

LEMMA NumberedAppended ==
  ASSUME NEW s \in Seq(Items), NEW e \in Items, NEW base \in Nat, Numbered(s, base),
         IsChunk(e) => e.body = <<base + Cardinality(Chunks(s, Len(s))) + 1>>
  PROVE  Numbered(Append(s, e), base)
<1> DEFINE t == Append(s, e)
           n == Cardinality(Chunks(s, Len(s)))
<1>1. /\ Len(t) = Len(s) + 1 /\ t[Len(s) + 1] = e /\ Len(s) \in Nat
      /\ \A k \in 1..Len(s) : t[k] = s[k]
      /\ \A k \in 0..Len(s) : Chunks(t, k) = Chunks(s, k)
      /\ IsChunk(e) => Cardinality(Chunks(t, Len(s) + 1)) = n + 1
  BY ChunksAppended, LenProperties
<1>2. n \in Nat
  BY <1>1, ChunksCounted
<1> HIDE DEF t, n
<1>3. ASSUME NEW i \in Chunks(t, Len(t))
      PROVE  t[i].body = <<base + Cardinality(Chunks(t, i))>>
  <2>1. i \in 1..(Len(s) + 1) /\ IsChunk(t[i])
    BY <1>1, <1>3 DEF Chunks
  <2>2. CASE i \in 1..Len(s)
    <3>1. i \in Chunks(s, Len(s)) /\ t[i] = s[i] /\ Chunks(t, i) = Chunks(s, i)
      BY <1>1, <2>1, <2>2 DEF Chunks
    <3> QED BY <3>1 DEF Numbered
  <2>3. CASE i = Len(s) + 1
    <3>1. e.body = <<base + n + 1>> /\ t[i] = e
          /\ Cardinality(Chunks(t, i)) = n + 1
      BY <1>1, <2>1, <2>3 DEF n
    <3>2. base + n + 1 = base + (n + 1)
      BY <1>2
    <3> QED BY <3>1, <3>2
  <2> QED BY <1>1, <2>1, <2>2, <2>3
<1> QED BY <1>3 DEF Numbered, t

LEMMA NumberedTaken ==
  ASSUME NEW s \in Seq(Items), s # <<>>, NEW base \in Nat, Numbered(s, base)
  PROVE  /\ IsChunk(Head(s)) => /\ Head(s).body = <<base + 1>>
                                /\ Numbered(Tail(s), base + 1)
         /\ ~IsChunk(Head(s)) => Numbered(Tail(s), base)
<1> DEFINE t == Tail(s)
           more == IF IsChunk(Head(s)) THEN 1 ELSE 0
<1>0. Len(s) \in Nat /\ Len(s) > 0 /\ Head(s) = s[1]
  BY ElementsHead, LenProperties
<1>1. ASSUME NEW n \in 0..(Len(s) - 1)
      PROVE  /\ Len(t) = Len(s) - 1
             /\ \A i \in 1..(Len(s) - 1) : t[i] = s[i + 1]
             /\ \A i \in Chunks(t, n) : i + 1 \in Chunks(s, n + 1)
             /\ Cardinality(Chunks(s, n + 1)) = more + Cardinality(Chunks(t, n))
             /\ Cardinality(Chunks(t, n)) \in Nat
  <2>1. Cardinality(Chunks(t, n)) \in Nat
    BY <1>0, ChunksCounted
  <2> QED BY <2>1, ChunksTaken
<1> HIDE DEF t
<1>2. more \in Nat /\ 0 \in 0..(Len(s) - 1) /\ Len(s) - 1 \in 0..(Len(s) - 1)
      /\ (Len(s) - 1) + 1 = Len(s)
  BY <1>0
<1> HIDE DEF more
<1>3. Len(t) = Len(s) - 1 /\ \A i \in 1..(Len(s) - 1) : t[i] = s[i + 1]
  BY <1>1, <1>2
<1>4. ASSUME NEW i \in Chunks(t, Len(t))
      PROVE  t[i].body = <<(base + more) + Cardinality(Chunks(t, i))>>
  <2>1. i \in 1..(Len(s) - 1) /\ t[i] = s[i + 1] /\ i \in 0..(Len(s) - 1)
    BY <1>0, <1>3 DEF Chunks
  <2>2. i + 1 \in Chunks(s, Len(s))
    BY <1>1, <1>2, <1>3
  <2>3. s[i + 1].body = <<base + Cardinality(Chunks(s, i + 1))>>
    BY <2>2 DEF Numbered
  <2>4. /\ Cardinality(Chunks(s, i + 1)) = more + Cardinality(Chunks(t, i))
        /\ Cardinality(Chunks(t, i)) \in Nat
    BY <1>1, <2>1
  <2>5. base + Cardinality(Chunks(s, i + 1))
          = (base + more) + Cardinality(Chunks(t, i))
    BY <1>2, <2>4
  <2> QED BY <2>1, <2>3, <2>5
<1>5. Numbered(t, base + more)
  BY <1>4 DEF Numbered
<1>6. ASSUME IsChunk(Head(s)) PROVE Head(s).body = <<base + 1>>
  <2>1. 1 \in Chunks(s, Len(s))
    BY <1>0, <1>6 DEF Chunks
  <2>2. Cardinality(Chunks(s, 0 + 1)) = 1 + Cardinality(Chunks(t, 0))
    BY <1>1, <1>2, <1>6 DEF more
  <2>3. Chunks(t, 0) = {} /\ Cardinality({}) = 0 /\ 0 + 1 = 1 /\ 1 + 0 = 1
    BY FS_EmptySet DEF Chunks
  <2>4. Cardinality(Chunks(s, 1)) = 1
    BY <2>2, <2>3, Zenon
  <2> QED BY <1>0, <2>1, <2>4 DEF Numbered
<1>7. base + 0 = base
  OBVIOUS
<1> QED BY <1>5, <1>6, <1>7 DEF t, more

\* The handlers that hold a chunk.
DataHandlers == {h \in ToSet(ready) : h.outcome = "data"}

LEMMA DataHandlersStep ==
  ASSUME ControlTypes, DataTypes, Loop, OneRead, [Next]_vars, Alive("socket")'
  PROVE  \/ /\ UNCHANGED DataHandlers /\ UNCHANGED log.fed
            /\ RunRead => Head(ready).outcome # "data"
         \/ /\ RunRead /\ Head(ready) \in DataHandlers /\ DataHandlers' = {}
            /\ UNCHANGED log.fed
         \/ /\ ReadCompletes /\ DataHandlers = {}
            /\ DataHandlers' = {Completion("read", "data", log.fed + 1)}
            /\ log'.fed = log.fed + 1
<1>0. /\ ready \in Seq(ProperHandlers) /\ ready' \in Seq(ProperHandlers)
      /\ log \in LogTypes
  BY ReadyTyped DEF DataTypes, LogTypes
<1>1. \A h \in ProperHandlers : h.outcome = "data" => h.kind = "read" /\ h.pid = "socket"
  BY DEF ProperHandlers
<1>2. \A h \in Continuations : h \in ProperHandlers /\ h.outcome # "data"
  BY <1>1 DEF Continuations
<1>3. ASSUME NEW s \in Seq(ProperHandlers), NEW t \in Seq(Continuations)
      PROVE  {h \in ToSet(s \o t) : h.outcome = "data"} =
               {h \in ToSet(s) : h.outcome = "data"}
  <2>1. ToSet(s \o t) = ToSet(s) \cup ToSet(t) /\ ToSet(t) \subseteq Continuations
    <3>1. t \in Seq(ProperHandlers)
      BY <1>2
    <3> QED BY <3>1, ElementsJoined, Elements
  <2> QED BY <1>2, <2>1
<1>4. ~ReadCompletes => UNCHANGED log.fed
  BY <1>0, LogChanges, BuffersTaken DEF TakeChunk, OwnerSends, LogTypes, TakeBuffers
<1>5. ASSUME ready # <<>>
      PROVE  /\ Tail(ready) \in Seq(ProperHandlers)
             /\ ToSet(ready) = {Head(ready)} \cup ToSet(Tail(ready))
             /\ Head(ready) \in ProperHandlers /\ Head(ready) \in ToSet(ready)
             /\ Head(ready).kind = "read" => Absent(Tail(ready), "read")
  <2>1. /\ Tail(ready) \in Seq(ProperHandlers)
        /\ Head(ready) \in ToSet(ready) /\ ToSet(Tail(ready)) \subseteq ToSet(ready)
    BY <1>0, <1>5, ElementsHead
  <2>2. ASSUME NEW h \in ToSet(ready), h # Head(ready) PROVE h \in ToSet(Tail(ready))
    BY <1>0, <1>5, <2>2, NotFirst
  <2>3. Head(ready).kind = "read" => Absent(Tail(ready), "read")
    BY <1>0, <1>5, KindsTaken DEF OneRead
  <2>4. Head(ready) \in ProperHandlers
    BY <1>0, <2>1, Elements
  <2> QED BY <2>1, <2>2, <2>3, <2>4
<1>6. ASSUME NEW t \in Seq(Continuations), ready' = ready \o t
      PROVE  UNCHANGED DataHandlers
  BY <1>0, <1>3, <1>6 DEF DataHandlers
<1>7. ASSUME ready # <<>>, NEW t \in Seq(Continuations), ready' = Tail(ready) \o t
      PROVE  /\ Head(ready).outcome # "data" => UNCHANGED DataHandlers
             /\ Head(ready).outcome = "data" =>
                  /\ Head(ready) \in DataHandlers /\ DataHandlers' = {}
                  /\ Head(ready).kind = "read" /\ Head(ready).pid = "socket"
  <2>1. DataHandlers' = {h \in ToSet(Tail(ready)) : h.outcome = "data"}
    BY <1>3, <1>5, <1>7 DEF DataHandlers
  <2>2. ToSet(Tail(ready)) \subseteq ProperHandlers
    BY <1>5, <1>7, Elements
  <2> QED BY <1>1, <1>5, <1>7, <2>1, <2>2 DEF DataHandlers, Absent
<1>8. ASSUME NEW s \in Seq(ProperHandlers), NEW e \in ProperHandlers
      PROVE  {h \in ToSet(Append(s, e)) : h.outcome = "data"} =
               {h \in ToSet(s) : h.outcome = "data"}
                 \cup (IF e.outcome = "data" THEN {e} ELSE {})
  <2>1. ToSet(Append(s, e)) = ToSet(s) \cup {e}
    BY ElementsJoined
  <2> QED BY <2>1
<1>9. ASSUME NEW t \in Seq(Continuations),
             ready' = Append(ready \o t, Completion("write", "ok", 0))
      PROVE  UNCHANGED DataHandlers
  <2> DEFINE s == ready \o t
             e == Completion("write", "ok", 0)
  <2>1. e \in ProperHandlers /\ e.outcome # "data"
    BY NewHandlers DEF Completion
  <2>2. s \in Seq(ProperHandlers)
    <3>1. t \in Seq(ProperHandlers)
      BY <1>2
    <3> QED BY <1>0, <3>1
  <2>3. {h \in ToSet(s) : h.outcome = "data"} = DataHandlers
    BY <1>0, <1>3 DEF DataHandlers
  <2>4. ready' = Append(s, e)
    BY <1>9
  <2> HIDE DEF s, e
  <2>5. {h \in ToSet(Append(s, e)) : h.outcome = "data"} = DataHandlers
    BY <1>8, <2>1, <2>2, <2>3
  <2> QED BY <2>4, <2>5 DEF DataHandlers
<1>10. CASE ReadCompletes
  <2>1. net.reading = 1 /\ NoReadHandler
    BY <1>10 DEF ReadCompletes, OneRead
  <2>2. DataHandlers = {}
    BY <1>0, <1>1, <2>1, Elements DEF DataHandlers, NoReadHandler, Absent
  <2>3. ~RunRead
    BY <1>10, <2>1, ReadEffects DEF NoReadHandler, Absent
  <2>4. CASE ready' = Append(ready, Completion("read", "data", log.fed + 1))
             /\ log' = [log EXCEPT !.fed = @ + 1]
    <3> DEFINE e == Completion("read", "data", log.fed + 1)
    <3>1. e \in ProperHandlers /\ e.outcome = "data"
      BY <1>0, NewHandlers DEF Completion, LogTypes
    <3>2. ready' = Append(ready, e) /\ log'.fed = log.fed + 1
      BY <1>0, <2>4 DEF LogTypes
    <3> HIDE DEF e
    <3>3. DataHandlers' = {e}
      BY <1>0, <1>8, <2>2, <3>1, <3>2 DEF DataHandlers
    <3> QED BY <1>10, <2>2, <3>2, <3>3 DEF e
  <2>5. ASSUME NEW outcome \in {"eof", "error"}, UNCHANGED log,
               ready' = Append(ready, Completion("read", outcome, 0))
        PROVE  UNCHANGED DataHandlers /\ UNCHANGED log.fed
    <3> DEFINE e == Completion("read", outcome, 0)
    <3>1. e \in ProperHandlers /\ e.outcome # "data"
      BY NewHandlers DEF Completion
    <3>2. ready' = Append(ready, e)
      BY <2>5
    <3> HIDE DEF e
    <3>3. DataHandlers' = DataHandlers
      BY <1>0, <1>8, <3>1, <3>2 DEF DataHandlers
    <3> QED BY <2>5, <3>3
  <2> QED BY <1>10, <2>3, <2>4, <2>5 DEF ReadCompletes, Completes
<1>11. CASE ~ReadCompletes
  <2>1. UNCHANGED log.fed
    BY <1>4, <1>11
  <2>2. RunRead => ready # <<>>
    BY DEF RunRead, RunsHandler
  <2>3. CASE /\ RunContinuation \/ RunRead \/ RunWrite \/ RunHandshake
                \/ RunStaleHandler
             /\ ready # <<>>
             /\ \E t \in Seq(Continuations) : ready' = Tail(ready) \o t
    <3>1. CASE Head(ready).outcome # "data"
      BY <1>7, <2>1, <2>3, <3>1
    <3>2. CASE Head(ready).outcome = "data"
      <4>1. /\ Head(ready) \in DataHandlers /\ DataHandlers' = {}
            /\ Head(ready).kind = "read" /\ Head(ready).pid = "socket"
        BY <1>7, <2>3, <3>2
      <4>2. RunRead
        <5>1. ~RunContinuation /\ ~RunWrite /\ ~RunHandshake
          BY <4>1 DEF RunContinuation, RunWrite, RunHandshake, RunsHandler
        <5>2. ~RunStaleHandler
          BY <4>1 DEF RunStaleHandler, Alive, procVars
        <5> QED BY <2>3, <5>1, <5>2
      <4> QED BY <2>1, <4>1, <4>2
    <3> QED BY <3>1, <3>2
  <2>4. ~RunRead => \/ UNCHANGED DataHandlers
                    \/ /\ RunContinuation \/ RunRead \/ RunWrite \/ RunHandshake
                          \/ RunStaleHandler
                       /\ ready # <<>>
                       /\ \E t \in Seq(Continuations) : ready' = Tail(ready) \o t
    <3>1. ASSUME NEW op \in {"write", "handshake"},
                 NEW outcome \in {"ok", "data", "eof", "error"}, NEW n \in Nat,
                 outcome = "data" => op = "read",
                 Completion(op, outcome, n) \in ProperHandlers,
                 ready' = Append(ready, Completion(op, outcome, n))
          PROVE  UNCHANGED DataHandlers
      <4> DEFINE e == Completion(op, outcome, n)
      <4>1. e \in ProperHandlers /\ e.outcome # "data" /\ ready' = Append(ready, e)
        BY <3>1 DEF Completion
      <4> HIDE DEF e
      <4> QED BY <1>0, <1>8, <4>1 DEF DataHandlers
    <3> QED BY <1>6, <1>9, <1>11, <3>1, ReadyForms
  <2>5. CASE RunRead
    <3>1. \E t \in Seq(Continuations) : ready' = Tail(ready) \o t
      <4>1. sock.p_ \in Promises(Continuations)
        BY DEF DataTypes
      <4>2. SetPosts(sock.p_) \in Seq(Continuations)
        BY <4>1, PostsRegistered DEF SetPosts, Promises
      <4>3. ChangePosts(sock.p_, sock'.p_) \in Seq(Continuations)
        BY <4>2 DEF ChangePosts
      <4> QED BY <2>5, <4>3 DEF RunRead
    <3> QED BY <2>2, <2>3, <2>5, <3>1
  <2> QED BY <2>1, <2>3, <2>4, <2>5
<1> QED BY <1>10, <1>11

\* Nobody comes to life but the owner, when the server spawns it.
LEMMA AliveBefore ==
  ASSUME ControlTypes, DataTypes, [Next]_vars, ~ServerSpawnsOwner,
         NEW q \in Processes, Alive(q)'
  PROVE  Alive(q)
<1> USE FrontOfQueue, FrontOfReady DEF ControlTypes, Alive, Processes
<1>1. CASE ProcessMessage
  BY <1>1 DEF ProcessMessage, TakesItem, Resume, NoResume, Dies
<1>2. CASE ProcessResume
  BY <1>2 DEF ProcessResume, TakesItem, Resume, NoResume, Dies
<1>3. CASE ServerSpawnsOwner
  BY <1>3 DEF ServerSpawnsOwner, TakesItem
<1>4. CASE RunOne
  BY <1>4 DEF RunOne, procVars
<1>5. CASE RunContinuation
  BY <1>5 DEF RunContinuation, RunsHandler, Resume, NoResume, Dies
<1>6. CASE RunRead
  BY <1>6 DEF RunRead, RunsHandler, procVars
<1>7. CASE RunWrite
  BY <1>7 DEF RunWrite, RunsHandler, procVars
<1>8. CASE RunHandshake
  BY <1>8 DEF RunHandshake, RunsHandler, procVars
<1>9. CASE RunStaleHandler
  BY <1>9 DEF RunStaleHandler, procVars
<1>10. CASE EndPoll
  BY <1>10 DEF EndPoll, procVars
<1>11. CASE Destroy
  BY <1>11 DEF Destroy
<1>12. ASSUME NEW p \in Processes, CanQueueNull(p) PROVE Alive(q)
  BY <1>12 DEF CanQueueNull, InCanQueue, procVars
<1>13. ASSUME NEW p \in Processes, WaitForRoom(p) PROVE Alive(q)
  BY <1>13 DEF WaitForRoom, InCanQueue, Park
<1>14. ASSUME NEW p \in Processes, ThrottledSend(p) PROVE Alive(q)
  BY <1>14 DEF ThrottledSend, InCanQueue, GoOn
<1>15. CASE Handshake
  BY <1>15 DEF Handshake, InSocket, Park
<1>16. CASE Announce
  BY <1>16 DEF Announce, InSocket, Park
<1>17. CASE Initialise
  BY <1>17 DEF Initialise, InSocket, GoOn
<1>18. CASE EndOfFile
  BY <1>18 DEF EndOfFile, InSocket, Dies
<1>19. CASE ForwardRead
  BY <1>19 DEF ForwardRead, InSocket, BeginSendThrottled, Park, GoOn
<1>20. CASE NothingToForward
  BY <1>20 DEF NothingToForward, InSocket, GoOn
<1>21. CASE AwaitWrite
  BY <1>21 DEF AwaitWrite, InSocket, ParkOnPromise, Park, GoOn
<1>22. CASE AwaitBuffers
  BY <1>22 DEF AwaitBuffers, InSocket, ParkOnPromise, Park, GoOn
<1>23. CASE WriteAwaited
  BY <1>23 DEF WriteAwaited, InSocket, Dies, GoOn
<1>24. CASE TakeBuffers
  BY <1>24, BuffersTaken DEF InSocket, Dies, GoOn
<1>25. CASE OwnerEnds
  BY <1>25 DEF OwnerEnds, InOwner, Dies
<1>26. CASE InitRecvSocket
  BY <1>26 DEF InitRecvSocket, InOwner, GoOn
<1>27. CASE AwaitChunk
  BY <1>27 DEF AwaitChunk, InOwner, Park, GoOn
<1>28. CASE TakeChunk
  BY <1>28 DEF TakeChunk, InOwner, GoOn
<1>29. ASSUME NEW call \in program.calls, OwnerSends(call) PROVE Alive(q)
  BY <1>29 DEF OwnerSends, InOwner, BeginSendThrottled, Park, GoOn
<1>30. CASE ReadCompletes
  BY <1>30 DEF ReadCompletes, Completes, procVars
<1>31. CASE WriteCompletes
  BY <1>31 DEF WriteCompletes, Completes, procVars
<1>32. CASE HandshakeCompletes
  BY <1>32 DEF HandshakeCompletes, Completes, procVars
<1>33. CASE UNCHANGED vars
  BY <1>33 DEF vars, procVars
<1>34. CASE OwnerSleeps
  BY <1>34 DEF OwnerSleeps, InOwner, Park
<1>35. CASE TimerWakesOwner
  BY <1>35 DEF TimerWakesOwner
<1> QED BY <1>1, <1>2, <1>3, <1>4, <1>5, <1>6, <1>7, <1>8, <1>9, <1>10, <1>11,
  <1>12, <1>13, <1>14, <1>15, <1>16, <1>17, <1>18, <1>19, <1>20, <1>21, <1>22,
  <1>23, <1>24, <1>25, <1>26, <1>27, <1>28, <1>29, <1>30, <1>31, <1>32, <1>33,
  <1>34, <1>35
  DEF Next, Thread, Network

\* How the chunks move while the connection lives.
LEMMA ReadSteps ==
  ASSUME ControlTypes, DataTypes, Loop, OneRead, Outgoing, [Next]_vars,
         ~ServerSpawnsOwner, Alive("socket")', Alive("owner")'
  PROVE  \/ /\ UNCHANGED <<log.received, Box, sock.nextRead, DataHandlers, log.fed>>
            /\ ~ChunkTaken /\ ~ChunkAdded
         \/ /\ ChunkTaken /\ ~ChunkAdded /\ Box' = Append(Box, Head(queue).body)
            /\ UNCHANGED <<log.received, sock.nextRead, DataHandlers, log.fed>>
         \/ /\ Box # <<>> /\ Box' = Tail(Box)
            /\ log'.received = log.received \o Head(Box)
            /\ UNCHANGED <<sock.nextRead, DataHandlers, log.fed>>
            /\ ~ChunkTaken /\ ~ChunkAdded
         \/ /\ ChunkAdded /\ ~ChunkTaken
            /\ queue' = Append(queue, MessageItem("recv", <<Head(ready).chunk>>))
            /\ Head(ready) \in DataHandlers /\ DataHandlers' = {}
            /\ sock.nextRead = <<>>
            /\ UNCHANGED <<log.received, Box, sock.nextRead, log.fed>>
         \/ /\ ~ChunkTaken /\ ~ChunkAdded
            /\ Head(ready) \in DataHandlers /\ DataHandlers' = {}
            /\ sock.nextRead = <<>> /\ sock'.nextRead = <<Head(ready).chunk>>
            /\ UNCHANGED <<log.received, Box, log.fed>>
         \/ /\ ChunkAdded /\ ~ChunkTaken
            /\ queue' = Append(queue, MessageItem("recv", sock.nextRead))
            /\ sock.nextRead # <<>> /\ sock'.nextRead = <<>>
            /\ UNCHANGED <<log.received, Box, DataHandlers, log.fed>>
         \/ /\ DataHandlers = {} /\ sock.nextRead = <<>>
            /\ DataHandlers' = {Completion("read", "data", log.fed + 1)}
            /\ log'.fed = log.fed + 1
            /\ UNCHANGED <<log.received, Box, sock.nextRead>>
            /\ ~ChunkTaken /\ ~ChunkAdded
<1>0. log \in LogTypes /\ sock \in Members
  BY DEF DataTypes, LogTypes, Members
<1>1. ~TakeChunk => UNCHANGED log.received
  BY <1>0, LogChanges DEF TakeBuffers, OwnerSends, ReadCompletes, LogTypes
<1>2. Alive("socket") /\ Alive("owner")
  BY AliveBefore DEF Processes
<1>3. /\ RunRead => running = Nobody /\ at \in {"wait", "poll"} /\ ~NoReadHandler
      /\ ThrottledSend("socket") => running = "socket"
      /\ ReadCompletes => running = Nobody /\ UNCHANGED at /\ net.reading = 1
      /\ ChunkTaken => at = "top" /\ at' = "destroy"
      /\ TakeChunk => running = "owner"
  <2>1. RunRead => ~NoReadHandler
    BY ReadEffects DEF NoReadHandler, Absent
  <2>2. ReadCompletes => net.reading = 1
    BY DEF ReadCompletes, OneRead
  <2>3. ReadCompletes => running = Nobody /\ UNCHANGED at
    BY DEF ReadCompletes, Completes
  <2> QED BY <2>1, <2>2, <2>3 DEF RunRead, RunsHandler, ThrottledSend, InCanQueue,
             ChunkTaken, ProcessMessage, TakesItem, TakeChunk, InOwner
<1>4. /\ at = "top" => running = Nobody
      /\ net.reading = 1 => NoReadHandler /\ sock.nextRead = <<>>
      /\ sock.nextRead # <<>> => NoReadHandler
      /\ Nobody # "socket" /\ Nobody # "owner"
  BY DEF Loop, OneRead, Nobody
<1>5. CASE RunRead
  <2>1. /\ ~ChunkTaken /\ ~TakeChunk /\ ~ReadCompletes /\ ~ThrottledSend("socket")
        /\ UNCHANGED log.received /\ sock.nextRead = <<>>
    BY <1>1, <1>3, <1>4, <1>5
  <2>2. UNCHANGED Box
    BY <1>5 DEF RunRead, Box
  <2>3. ChunkAdded <=> Head(ready).outcome = "data" /\ ~program.throttled
    BY <1>5, <2>1 DEF ChunkAdded
  <2>4. CASE Head(ready).outcome = "data" /\ ~program.throttled
    <3>1. queue' = Append(queue, MessageItem("recv", <<Head(ready).chunk>>))
      BY <1>5, <2>4 DEF RunRead
    <3> QED BY <1>5, <2>1, <2>2, <2>3, <2>4, <3>1, ReadEffects, DataHandlersStep
  <2>5. CASE Head(ready).outcome = "data" /\ program.throttled
    BY <1>5, <2>1, <2>2, <2>3, <2>5, ReadEffects, DataHandlersStep
  <2>6. CASE Head(ready).outcome # "data"
    <3>1. Head(ready) \notin DataHandlers
      BY <2>6 DEF DataHandlers
    <3> QED BY <1>5, <2>1, <2>2, <2>3, <2>6, <3>1, ReadEffects, DataHandlersStep
  <2> QED BY <2>4, <2>5, <2>6
<1>6. CASE ThrottledSend("socket")
  <2>1. /\ ~ChunkTaken /\ ~TakeChunk /\ ~ReadCompletes /\ ~RunRead
        /\ UNCHANGED log.received /\ ChunkAdded
    BY <1>1, <1>3, <1>4, <1>6 DEF ChunkAdded
  <2>2. UNCHANGED Box
    BY <1>6 DEF ThrottledSend, Box
  <2>3. sock.nextRead # <<>> /\ outgoing["socket"] = [slot |-> "recv",
                                                      body |-> sock.nextRead]
    BY <1>6 DEF ThrottledSend, InCanQueue, Outgoing, Sending
  <2>4. queue' = Append(queue, MessageItem("recv", sock.nextRead))
    BY <1>6, <2>3 DEF ThrottledSend
  <2>5. sock'.nextRead = <<>>
    BY <1>0, <1>6 DEF ThrottledSend, Members
  <2> QED BY <2>1, <2>2, <2>3, <2>4, <2>5, DataHandlersStep
<1>7. CASE ReadCompletes
  <2>1. /\ ~ChunkTaken /\ ~TakeChunk /\ ~ThrottledSend("socket") /\ ~RunRead
        /\ UNCHANGED log.received /\ ~ChunkAdded /\ sock.nextRead = <<>>
    BY <1>1, <1>3, <1>4, <1>7 DEF ChunkAdded
  <2>2. UNCHANGED <<Box, sock.nextRead>>
    BY <1>7 DEF ReadCompletes, Completes, Box
  <2> QED BY <2>1, <2>2, DataHandlersStep
<1>8. CASE ~RunRead /\ ~ThrottledSend("socket") /\ ~ReadCompletes
  <2>1. UNCHANGED <<sock.nextRead, DataHandlers, log.fed>> /\ ~ChunkAdded
    BY <1>8, SockFields, DataHandlersStep DEF ChunkAdded
  <2>2. ChunkTaken => ~TakeChunk
    BY <1>3, <1>4
  <2>3. CASE UNCHANGED Box /\ ~(ChunkTaken /\ Alive("owner"))
             /\ (TakeChunk => UNCHANGED log)
    BY <1>1, <1>2, <2>1, <2>3
  <2>4. CASE ChunkTaken /\ Box' = Append(Box, Head(queue).body)
    BY <1>1, <2>1, <2>2, <2>4
  <2>5. CASE /\ TakeChunk /\ Box # <<>> /\ Box' = Tail(Box)
             /\ log'.received = log.received \o Head(Box)
    BY <2>1, <2>2, <2>5
  <2> QED BY <2>3, <2>4, <2>5, BoxStep
<1> QED BY <1>5, <1>6, <1>7, <1>8

\* The numbers of the chunks that the owner has got, of those that have been put
\* into its slot, and of those that the socket has sent to it.
Got == Len(log.received)
Passed == Got + Len(Box)
Sent == Passed + Flight

\* ReadsInOrder, with the sets of handlers for their indices.
InOrder ==
  Alive("socket") /\ Alive("owner") =>
    /\ \A k \in 1..Got : log.received[k] = k
    /\ \A k \in 1..Len(Box) : Box[k] = <<Got + k>>
    /\ Numbered(queue, Passed)
    /\ sock.nextRead \in {<<>>, <<Sent + 1>>}
    /\ \A h \in DataHandlers : h.chunk = Sent + Len(sock.nextRead) + 1
    /\ log.fed = Sent + Len(sock.nextRead) + (IF DataHandlers = {} THEN 0 ELSE 1)

LEMMA BoxAppended ==
  ASSUME NEW b \in Seq(Seq(Nat)), NEW g \in Nat,
         \A k \in 1..Len(b) : b[k] = <<g + k>>
  PROVE  LET c == Append(b, <<g + Len(b) + 1>>)
         IN  Len(c) = Len(b) + 1 /\ \A k \in 1..Len(c) : c[k] = <<g + k>>
<1> DEFINE e == <<g + Len(b) + 1>>
           c == Append(b, e)
<1>1. Len(b) \in Nat /\ e \in Seq(Nat)
  BY LenProperties
<1>2. e = <<g + (Len(b) + 1)>>
  BY <1>1
<1> HIDE DEF e
<1>3. Len(c) = Len(b) + 1 /\ c[Len(b) + 1] = e /\ \A k \in 1..Len(b) : c[k] = b[k]
  BY <1>1, AppendProperties
<1> HIDE DEF c
<1>4. ASSUME NEW k \in 1..Len(c) PROVE c[k] = <<g + k>>
  <2>1. k \in 1..Len(b) \/ k = Len(b) + 1
    BY <1>1, <1>3
  <2> QED BY <1>2, <1>3, <2>1
<1> QED BY <1>3, <1>4 DEF c, e

LEMMA BoxTaken ==
  ASSUME NEW b \in Seq(Seq(Nat)), b # <<>>, NEW g \in Nat,
         \A k \in 1..Len(b) : b[k] = <<g + k>>
  PROVE  /\ Head(b) = <<g + 1>> /\ Len(Tail(b)) = Len(b) - 1 /\ Len(b) > 0
         /\ \A k \in 1..Len(Tail(b)) : Tail(b)[k] = <<(g + 1) + k>>
<1>1. /\ Len(b) \in Nat /\ Len(b) > 0 /\ Len(Tail(b)) = Len(b) - 1 /\ Head(b) = b[1]
      /\ \A k \in 1..Len(Tail(b)) : Tail(b)[k] = b[k + 1]
  BY ElementsHead, LenProperties
<1>2. ASSUME NEW k \in 1..Len(Tail(b)) PROVE Tail(b)[k] = <<(g + 1) + k>>
  <2>1. k + 1 \in 1..Len(b) /\ g + (k + 1) = (g + 1) + k
    BY <1>1
  <2>2. b[k + 1] = <<g + (k + 1)>>
    BY <2>1
  <2> QED BY <1>1, <2>1, <2>2
<1> QED BY <1>1, <1>2

LEMMA ReceivedAppended ==
  ASSUME NEW r \in Seq(Nat), \A k \in 1..Len(r) : r[k] = k
  PROVE  LET q == r \o <<Len(r) + 1>>
         IN  Len(q) = Len(r) + 1 /\ \A k \in 1..Len(q) : q[k] = k
<1>1. ASSUME NEW e \in Seq(Nat)
      PROVE  /\ Len(r \o e) = Len(r) + Len(e)
             /\ \A k \in 1..Len(r) : (r \o e)[k] = r[k]
             /\ \A k \in 1..Len(e) : (r \o e)[Len(r) + k] = e[k]
  <2>1. Len(r) \in Nat /\ Len(e) \in Nat
    BY LenProperties
  <2> QED BY <2>1, ConcatProperties
<1> DEFINE e == <<Len(r) + 1>>
           q == r \o e
<1>2. Len(r) \in Nat /\ e \in Seq(Nat) /\ Len(e) = 1 /\ e[1] = Len(r) + 1
  BY LenProperties
<1> HIDE DEF e
<1>3. /\ Len(q) = Len(r) + 1 /\ \A k \in 1..Len(r) : q[k] = r[k]
      /\ q[Len(r) + 1] = Len(r) + 1
  <2>1. /\ Len(q) = Len(r) + Len(e) /\ \A k \in 1..Len(r) : q[k] = r[k]
        /\ \A k \in 1..Len(e) : q[Len(r) + k] = e[k]
    BY <1>1, <1>2, Zenon
  <2>2. 1 \in 1..Len(e)
    BY <1>2
  <2>3. q[Len(r) + 1] = e[1]
    BY <2>1, <2>2, Zenon
  <2> QED BY <1>2, <2>1, <2>3, Zenon
<1> HIDE DEF q
<1>4. ASSUME NEW k \in 1..Len(q) PROVE q[k] = k
  <2>1. k \in 1..Len(r) \/ k = Len(r) + 1
    BY <1>2, <1>3
  <2> QED BY <1>3, <2>1
<1> QED BY <1>3, <1>4 DEF q, e

\* When nothing has been read yet.
LEMMA NothingRead ==
  ASSUME Absent(queue, "message"), queue \in Seq(Items), slots["recv"] = NewQueue,
         log.received = <<>>, log.fed = 0, sock.nextRead = <<>>, DataHandlers = {}
  PROVE  InOrder
<1>1. Box = <<>>
  <2>1. <<>> \o <<>> = <<>>
    BY ConcatEmptySeq, EmptySeq
  <2> QED BY <2>1 DEF Box, Contents, NewQueue
<1>2. Chunks(queue, Len(queue)) = {} /\ InFlight(Len(queue)) = {}
  BY Elements DEF Chunks, IsChunk, Absent, InFlight
<1>3. Flight = 0
  BY <1>2, FS_EmptySet DEF Flight
<1>4. Got = 0 /\ Passed = 0 /\ Sent = 0 /\ Len(sock.nextRead) = 0 /\ Len(Box) = 0
  BY <1>1, <1>3 DEF Got, Passed, Sent
<1> QED BY <1>2, <1>4 DEF InOrder, Numbered

LEMMA InOrderStep ==
  ASSUME ControlTypes, DataTypes, Loop, Beginning, OneRead, Outgoing, InOrder,
         [Next]_vars
  PROVE  InOrder'
<1>0. DataTypes' /\ ready \in Seq(ProperHandlers) /\ queue \in Seq(Items)
      /\ queue' \in Seq(Items) /\ log \in LogTypes
  BY DataStep DEF DataTypes, LogTypes
<1>1. CASE ServerSpawnsOwner
  <2>1. queue # <<>> /\ Head(queue).kind = "onReady" /\ at = "top"
        /\ UNCHANGED <<ready, slots, sock, log>>
    BY <1>1 DEF ServerSpawnsOwner, TakesItem
  <2>2. life["owner"] = "unborn"
    BY <2>1, FrontAnnounces DEF Beginning
  <2>3. /\ Absent(queue, "message") /\ slots["recv"] = NewQueue
        /\ log.received = <<>> /\ log.fed = 0 /\ sock.nextRead = <<>>
        /\ NoReadHandler
    BY <2>2 DEF Beginning
  <2>4. \A s \in Slots : ~Sends(s)
    <3>1. running = Nobody
      BY <2>1 DEF Loop
    <3> QED BY <2>1, <3>1 DEF Sends, RunRead, RunsHandler, ThrottledSend, InCanQueue,
               InitRecvSocket, InOwner, OwnerSends, Nobody
  <2>5. Absent(queue', "message")
    BY <2>3, <2>4, ItemKinds
  <2>6. DataHandlers' = {}
    BY <1>0, <2>1, <2>3, Elements DEF DataHandlers, NoReadHandler, Absent,
       ProperHandlers
  <2>7. /\ Absent(queue, "message")' /\ (queue \in Seq(Items))'
        /\ (slots["recv"] = NewQueue)' /\ (log.received = <<>>)' /\ (log.fed = 0)'
        /\ (sock.nextRead = <<>>)' /\ (DataHandlers = {})'
    BY <1>0, <2>1, <2>3, <2>5, <2>6 DEF Absent
  <2> QED BY <2>7, NothingRead, PTL
<1>2. CASE ~ServerSpawnsOwner
  <2> SUFFICES ASSUME Alive("socket")', Alive("owner")'
               PROVE  InOrder'
    BY DEF InOrder
  <2> DEFINE n == Len(sock.nextRead)
             d == IF DataHandlers = {} THEN 0 ELSE 1
  <2>1. /\ \A k \in 1..Got : log.received[k] = k
        /\ \A k \in 1..Len(Box) : Box[k] = <<Got + k>>
        /\ Numbered(queue, Passed)
        /\ sock.nextRead \in {<<>>, <<Sent + 1>>}
        /\ \A h \in DataHandlers : h.chunk = Sent + n + 1
        /\ log.fed = Sent + n + d
    BY <1>2, AliveBefore DEF InOrder, Processes
  <2>2. /\ Got \in Nat /\ Len(Box) \in Nat /\ Flight \in Nat /\ n \in Nat
        /\ log.received \in Seq(Nat) /\ Box \in Seq(Seq(Nat))
        /\ Passed \in Nat /\ Sent \in Nat /\ d \in Nat
        /\ Flight = Cardinality(Chunks(queue, Len(queue)))
        /\ Passed = Got + Len(Box) /\ Sent = Passed + Flight
    <3>1. Got \in Nat /\ log.received \in Seq(Nat) /\ n \in Nat
      BY LenProperties DEF DataTypes, Got
    <3>2. Len(Box) \in Nat /\ Box \in Seq(Seq(Nat))
      BY BoxStep, LenProperties
    <3>3. Flight \in Nat /\ Flight = Cardinality(Chunks(queue, Len(queue)))
      BY FlightIsChunks
    <3> QED BY <3>1, <3>2, <3>3 DEF Passed, Sent
  <2>3. /\ Got' = Len(log'.received) /\ Passed' = Got' + Len(Box')
        /\ Sent' = Passed' + Flight'
    BY DEF Got, Passed, Sent
  <2>4. ASSUME \A k \in 1..Got' : log'.received[k] = k,
               \A k \in 1..Len(Box') : Box'[k] = <<Got' + k>>,
               Numbered(queue', Passed'),
               sock'.nextRead \in {<<>>, <<Sent' + 1>>},
               \A h \in DataHandlers' : h.chunk = Sent' + Len(sock'.nextRead) + 1,
               log'.fed = Sent' + Len(sock'.nextRead)
                            + (IF DataHandlers' = {} THEN 0 ELSE 1)
        PROVE  InOrder'
    BY <2>4 DEF InOrder, Numbered, Chunks, IsChunk
  <2>5. ASSUME ~ChunkTaken, ~ChunkAdded
        PROVE  Flight' = Flight /\ Numbered(queue', Passed)
    <3> SUFFICES Numbered(queue', Passed)
      BY <2>5, FlightStep
    <3>1. CASE UNCHANGED queue
      BY <2>1, <3>1
    <3>2. CASE queue # <<>> /\ queue' = Tail(queue) /\ ~IsChunk(Head(queue))
      BY <1>0, <2>1, <2>2, <3>2, NumberedTaken
    <3>3. ASSUME NEW i \in Items, queue' = Append(queue, i), ~IsChunk(i)
          PROVE  Numbered(queue', Passed)
      BY <1>0, <2>1, <2>2, <3>3, NumberedAppended
    <3> QED BY <1>2, <2>5, <3>1, <3>2, <3>3, ChunkSteps
  <2>6. ASSUME ChunkTaken
        PROVE  /\ Flight' = Flight - 1 /\ Numbered(queue', Passed + 1)
               /\ Head(queue).body = <<Passed + 1>>
    <3>1. queue # <<>> /\ queue' = Tail(queue) /\ IsChunk(Head(queue))
      BY <2>6, ChunkSteps
    <3> QED BY <1>0, <2>1, <2>2, <2>6, <3>1, NumberedTaken, FlightStep
  <2>7. ASSUME ChunkAdded, queue' = Append(queue, MessageItem("recv", <<Sent + 1>>))
        PROVE  Flight' = Flight + 1 /\ Numbered(queue', Passed)
    <3> DEFINE i == MessageItem("recv", <<Sent + 1>>)
    <3>1. <<Sent + 1>> \in Payloads("recv")
      BY <2>2 DEF Payloads
    <3>2. i \in Items /\ i.body = <<Sent + 1>>
      BY <3>1, NewItems DEF MessageItem, Slots
    <3>3. Sent + 1 = Passed + Cardinality(Chunks(queue, Len(queue))) + 1
      BY <2>2 DEF Sent
    <3>4. i.body = <<Passed + Cardinality(Chunks(queue, Len(queue))) + 1>>
      BY <3>2, <3>3
    <3> HIDE DEF i
    <3>5. Numbered(Append(queue, i), Passed)
      BY <1>0, <2>1, <2>2, <3>2, <3>4, NumberedAppended
    <3> QED BY <2>7, <3>5, FlightStep DEF i
  <2>8. CASE /\ UNCHANGED <<log.received, Box, sock.nextRead, DataHandlers, log.fed>>
             /\ ~ChunkTaken /\ ~ChunkAdded
    <3>1. Got' = Got /\ Passed' = Passed /\ Sent' = Sent
      BY <2>3, <2>5, <2>8 DEF Got, Passed, Sent
    <3> QED BY <2>1, <2>4, <2>5, <2>8, <3>1
  <2>9. CASE /\ ChunkTaken /\ ~ChunkAdded /\ Box' = Append(Box, Head(queue).body)
             /\ UNCHANGED <<log.received, sock.nextRead, DataHandlers, log.fed>>
    <3>1. Passed + 1 = Got + Len(Box) + 1
      BY <2>2 DEF Passed
    <3>2. Box' = Append(Box, <<Got + Len(Box) + 1>>)
      BY <2>6, <2>9, <3>1
    <3>3. Len(Box') = Len(Box) + 1 /\ \A k \in 1..Len(Box') : Box'[k] = <<Got + k>>
      BY <2>1, <2>2, <3>2, BoxAppended
    <3>4. Got' = Got /\ Passed' = Passed + 1 /\ Sent' = Sent
      <4>1. Got' = Got
        BY <2>9 DEF Got
      <4>2. Len(Box') = Len(Box) + 1 /\ Flight' = Flight - 1
        BY <2>6, <2>9, <3>3
      <4>3. Passed' = Passed + 1
        BY <2>2, <2>3, <4>1, <4>2
      <4>4. Sent' = Sent
        <5>1. \A p, f \in Nat : (p + 1) + (f - 1) = p + f
          OBVIOUS
        <5>2. Sent' = (Passed + 1) + (Flight - 1)
          BY <2>3, <4>2, <4>3
        <5>3. Passed \in Nat /\ Flight \in Nat /\ Sent = Passed + Flight
          BY <2>2
        <5> QED BY <5>1, <5>2, <5>3
      <4> QED BY <4>1, <4>3, <4>4
    <3> QED BY <2>1, <2>4, <2>6, <2>9, <3>3, <3>4
  <2>10. CASE /\ Box # <<>> /\ Box' = Tail(Box)
              /\ log'.received = log.received \o Head(Box)
              /\ UNCHANGED <<sock.nextRead, DataHandlers, log.fed>>
              /\ ~ChunkTaken /\ ~ChunkAdded
    <3>1. /\ Head(Box) = <<Got + 1>> /\ Len(Box') = Len(Box) - 1
          /\ \A k \in 1..Len(Box') : Box'[k] = <<(Got + 1) + k>>
      BY <2>1, <2>2, <2>10, BoxTaken
    <3>2. log'.received = log.received \o <<Len(log.received) + 1>>
      BY <2>10, <3>1 DEF Got
    <3>3. Got' = Got + 1 /\ \A k \in 1..Got' : log'.received[k] = k
      BY <2>1, <2>2, <2>3, <3>2, ReceivedAppended DEF Got
    <3>4. Passed' = Passed /\ Sent' = Sent
      <4>1. Len(Box') = Len(Box) - 1 /\ Flight' = Flight /\ Got' = Got + 1
        BY <2>5, <2>10, <3>1, <3>3
      <4>2. Passed' = Passed
        BY <2>2, <2>3, <4>1
      <4> QED BY <2>2, <2>3, <4>1, <4>2
    <3> QED BY <2>1, <2>4, <2>5, <2>10, <3>1, <3>3, <3>4
  <2>11. CASE /\ ChunkAdded /\ ~ChunkTaken
              /\ queue' = Append(queue, MessageItem("recv", <<Head(ready).chunk>>))
              /\ Head(ready) \in DataHandlers /\ DataHandlers' = {}
              /\ sock.nextRead = <<>>
              /\ UNCHANGED <<log.received, Box, sock.nextRead, log.fed>>
    <3>1. n = 0 /\ Head(ready).chunk = Sent + 1 /\ d = 1
      <4>1. sock.nextRead = <<>> /\ Head(ready) \in DataHandlers
        BY <2>11, Zenon
      <4>2. n = 0 /\ d = 1
        BY <4>1
      <4>3. Head(ready).chunk = Sent + n + 1
        BY <2>1, <4>1, Zenon
      <4> QED BY <2>2, <4>2, <4>3
    <3>2. Flight' = Flight + 1 /\ Numbered(queue', Passed)
      <4>1. queue' = Append(queue, MessageItem("recv", <<Sent + 1>>))
        BY <2>11, <3>1, Zenon
      <4> QED BY <2>7, <2>11, <4>1, Zenon
    <3>3. Got' = Got /\ Passed' = Passed /\ Sent' = Sent + 1
      BY <2>2, <2>3, <2>11, <3>2 DEF Got, Passed, Sent
    <3>4. log'.fed = Sent' + Len(sock'.nextRead)
                       + (IF DataHandlers' = {} THEN 0 ELSE 1)
      <4>1. /\ log'.fed = log.fed /\ Len(sock'.nextRead) = 0
            /\ DataHandlers' = {}
        BY <2>11
      <4>2. log.fed = Sent + 1
        BY <2>1, <2>2, <3>1
      <4>3. Sent' + 0 + 0 = Sent + 1
        BY <2>2, <3>3
      <4> QED BY <4>1, <4>2, <4>3
    <3> QED BY <2>1, <2>4, <2>11, <3>2, <3>3, <3>4
  <2>12. CASE /\ ~ChunkTaken /\ ~ChunkAdded
              /\ Head(ready) \in DataHandlers /\ DataHandlers' = {}
              /\ sock.nextRead = <<>> /\ sock'.nextRead = <<Head(ready).chunk>>
              /\ UNCHANGED <<log.received, Box, log.fed>>
    <3>1. n = 0 /\ Head(ready).chunk = Sent + 1 /\ d = 1
      BY <2>1, <2>2, <2>12
    <3>2. Got' = Got /\ Passed' = Passed /\ Sent' = Sent
      BY <2>3, <2>5, <2>12 DEF Got, Passed, Sent
    <3>3. sock'.nextRead = <<Sent' + 1>> /\ Len(sock'.nextRead) = 1
      BY <2>12, <3>1, <3>2
    <3>4. log'.fed = Sent' + Len(sock'.nextRead)
                       + (IF DataHandlers' = {} THEN 0 ELSE 1)
      <4>1. log'.fed = Sent + 1
        BY <2>1, <2>2, <2>12, <3>1
      <4>2. Sent' + Len(sock'.nextRead) + 0 = Sent + 1
        BY <2>2, <3>2, <3>3
      <4> QED BY <2>12, <4>1, <4>2
    <3> QED BY <2>1, <2>4, <2>5, <2>12, <3>2, <3>3, <3>4
  <2>13. CASE /\ ChunkAdded /\ ~ChunkTaken
              /\ queue' = Append(queue, MessageItem("recv", sock.nextRead))
              /\ sock.nextRead # <<>> /\ sock'.nextRead = <<>>
              /\ UNCHANGED <<log.received, Box, DataHandlers, log.fed>>
    <3>1. sock.nextRead = <<Sent + 1>> /\ n = 1
      BY <2>1, <2>13
    <3>2. Flight' = Flight + 1 /\ Numbered(queue', Passed)
      BY <2>7, <2>13, <3>1
    <3>3. Got' = Got /\ Passed' = Passed /\ Sent' = Sent + 1
      <4>1. Got' = Got /\ Len(Box') = Len(Box)
        BY <2>13 DEF Got
      <4> QED BY <2>2, <2>3, <3>2, <4>1
    <3>4. /\ Sent' + Len(sock'.nextRead) = Sent + n
          /\ log'.fed = Sent' + Len(sock'.nextRead)
                          + (IF DataHandlers' = {} THEN 0 ELSE 1)
          /\ \A h \in DataHandlers' : h.chunk = Sent' + Len(sock'.nextRead) + 1
      <4>1. Len(sock'.nextRead) = 0 /\ DataHandlers' = DataHandlers
            /\ log'.fed = log.fed
        BY <2>13
      <4>2. Sent' + Len(sock'.nextRead) = Sent + n
        BY <2>2, <3>1, <3>3, <4>1
      <4> QED BY <2>1, <4>1, <4>2
    <3> QED BY <2>1, <2>4, <2>13, <3>2, <3>3, <3>4
  <2>14. CASE /\ DataHandlers = {} /\ sock.nextRead = <<>>
              /\ DataHandlers' = {Completion("read", "data", log.fed + 1)}
              /\ log'.fed = log.fed + 1
              /\ UNCHANGED <<log.received, Box, sock.nextRead>>
              /\ ~ChunkTaken /\ ~ChunkAdded
    <3>1. Got' = Got /\ Passed' = Passed /\ Sent' = Sent
      BY <2>3, <2>5, <2>14 DEF Got, Passed, Sent
    <3>2. log.fed = Sent + n /\ DataHandlers' # {}
      BY <2>1, <2>2, <2>14
    <3>3. \A h \in DataHandlers' : h.chunk = log.fed + 1
      BY <2>14 DEF Completion
    <3>4. /\ \A h \in DataHandlers' : h.chunk = Sent' + Len(sock'.nextRead) + 1
          /\ log'.fed = Sent' + Len(sock'.nextRead)
                          + (IF DataHandlers' = {} THEN 0 ELSE 1)
      BY <2>2, <2>14, <3>1, <3>2, <3>3
    <3> QED BY <2>1, <2>4, <2>5, <2>14, <3>1, <3>4
  <2> QED BY <1>2, <2>8, <2>9, <2>10, <2>11, <2>12, <2>13, <2>14, ReadSteps
<1> QED BY <1>1, <1>2

\* At most one handler holds a chunk.
LEMMA UnhandledCounted ==
  ASSUME DataTypes, OneRead
  PROVE  /\ Cardinality(Unhandled) = IF DataHandlers = {} THEN 0 ELSE 1
         /\ \A k \in Unhandled : ready[k] \in DataHandlers
<1>0. ready \in Seq(ProperHandlers) /\ \A k \in 1..Len(ready) : ready[k] \in ProperHandlers
  BY ElementOfSeq DEF DataTypes
<1>1. \A k \in Unhandled : ready[k] \in DataHandlers
  BY <1>0, Elements DEF Unhandled, DataHandlers
<1>2. CASE DataHandlers = {}
  <2>1. Unhandled = {}
    BY <1>1, <1>2
  <2> QED BY <1>1, <1>2, <2>1, FS_EmptySet
<1>3. CASE DataHandlers # {}
  <2>1. PICK h \in ToSet(ready) : h.outcome = "data"
    BY <1>3 DEF DataHandlers
  <2>2. PICK k \in 1..Len(ready) : h = ready[k]
    BY <1>0, Elements
  <2>3. \A j \in Unhandled : j \in 1..Len(ready) /\ ready[j].kind = "read"
    BY <1>0 DEF Unhandled, ProperHandlers
  <2>4. k \in Unhandled
    BY <2>1, <2>2 DEF Unhandled
  <2>5. Unhandled = {k}
    BY <2>3, <2>4 DEF OneRead, Unique
  <2> QED BY <1>1, <1>3, <2>5, FS_Singleton
<1> QED BY <1>2, <1>3

\* Every chunk of the peer is in exactly one place on its way to the owner, in
\* the order of the stream, while the connection lives: with or without
\* throttling, whatever completes while the socket is held back.
THEOREM ReadsStayInOrder == Spec => []ReadsInOrder
<1>1. ASSUME Init PROVE InOrder
  <2>1. queue = <<ResumeItem("socket", 0)>> /\ ready = <<>>
        /\ slots = [s \in Slots |-> NewQueue]
    BY <1>1 DEF Init
  <2>2. log.received = <<>> /\ log.fed = 0 /\ sock.nextRead = <<>>
    BY <1>1 DEF Init
  <2>3. queue \in Seq(Items) /\ Absent(queue, "message")
    <3>1. ToSet(queue) = {ResumeItem("socket", 0)}
      BY <2>1 DEF ToSet
    <3> QED BY <1>1, <3>1, InitialInv DEF SocketInv, DataTypes, Absent, ResumeItem
  <2>4. slots["recv"] = NewQueue /\ DataHandlers = {}
    BY <2>1 DEF Slots, DataHandlers, ToSet
  <2> QED BY <2>2, <2>3, <2>4, NothingRead
<1>2. SocketInv /\ InOrder /\ [Next]_vars => InOrder'
  BY InOrderStep DEF SocketInv
<1>3. ASSUME SocketInv, InOrder PROVE ReadsInOrder
  <2>1. DataTypes /\ OneRead
    BY <1>3 DEF SocketInv
  <2>2. \A i : InFlight(i) = Chunks(queue, i)
    BY <2>1, FlightIsChunks
  <2>3. Sent \in Nat /\ Len(sock.nextRead) \in Nat
    <3>1. Got \in Nat /\ Len(sock.nextRead) \in Nat /\ Flight \in Nat
      BY <2>1, LenProperties, FlightIsChunks DEF Got, DataTypes
    <3>2. Len(Box) \in Nat
      <4>1. "recv" \in Slots /\ SlotsOK(slots)
        BY <2>1 DEF DataTypes, Slots
      <4>2. Box \in Seq(Payloads("recv"))
        BY <4>1, SizeIsLen DEF SlotsOK, Box
      <4> QED BY <4>2, LenProperties
    <3> QED BY <3>1, <3>2 DEF Sent, Passed
  <2> SUFFICES ASSUME Alive("socket"), Alive("owner")
               PROVE  /\ \A k \in 1..Got : log.received[k] = k
                      /\ \A k \in 1..Len(Box) : Box[k] = <<Got + k>>
                      /\ \A i \in InFlight(Len(queue)) :
                           queue[i].body = <<Passed + Cardinality(InFlight(i))>>
                      /\ sock.nextRead \in {<<>>, <<Sent + 1>>}
                      /\ \A k \in Unhandled :
                           ready[k].chunk = Sent + Len(sock.nextRead) + 1
                      /\ Cardinality(Unhandled) = log.fed - Sent - Len(sock.nextRead)
                      /\ Cardinality(Unhandled) <= 1
    BY DEF ReadsInOrder, Got, Passed, Sent, Flight, Box
  <2>4. /\ Cardinality(Unhandled) = IF DataHandlers = {} THEN 0 ELSE 1
        /\ \A k \in Unhandled : ready[k] \in DataHandlers
    BY <2>1, UnhandledCounted
  <2>5. log.fed = Sent + Len(sock.nextRead) + Cardinality(Unhandled)
    BY <1>3, <2>4 DEF InOrder
  <2>6. Cardinality(Unhandled) \in 0..1
    BY <2>4
  <2>7. Cardinality(Unhandled) = log.fed - Sent - Len(sock.nextRead)
    BY <2>3, <2>5, <2>6
  <2> QED BY <1>3, <2>2, <2>4, <2>6, <2>7 DEF InOrder, Numbered
<1> QED BY <1>1, <1>2, <1>3, SocketInvariant, PTL DEF Spec

-----------------------------------------------------------------------------
(* The order of the writes *)

\* The owner sends to the slot of its calls.
Used == {OutSlot(call) : call \in program.calls}
OwnSlot ==
  /\ \A i \in ToSet(queue) :
       i.kind = "message" /\ i.slot \in OutSlots => i.slot \in Used
  /\ outgoing["owner"].slot \in OutSlots => outgoing["owner"].slot \in Used
  /\ \A s \in OutSlots : HasMessage(s) => s \in Used

LEMMA OwnSlotStep ==
  ASSUME ControlTypes, DataTypes, Loop, Outgoing, OwnSlot, [Next]_vars
  PROVE  OwnSlot'
<1>0. /\ queue \in Seq(Items) /\ Used' = Used
      /\ "recv" \notin OutSlots /\ "init" \notin OutSlots /\ OutSlots \subseteq Slots
  BY ProgramStays DEF DataTypes, Used, OutSlots, Slots
<1>1. \A call \in program.calls : OutSlot(call) \in Used
  BY DEF Used
<1>2. ASSUME NEW i \in ToSet(queue'), i.kind = "message", i.slot \in OutSlots
      PROVE  i.slot \in Used
  <2>1. CASE UNCHANGED queue
    BY <1>2, <2>1 DEF OwnSlot
  <2>2. ASSUME queue # <<>>
        PROVE  Tail(queue) \in Seq(Items) /\ ToSet(Tail(queue)) \subseteq ToSet(queue)
    BY <1>0, <2>2, ElementsHead
  <2>3. CASE queue # <<>> /\ queue' = Tail(queue)
    BY <1>2, <2>2, <2>3 DEF OwnSlot
  <2>4. CASE queue # <<>> /\ queue' = Append(Tail(queue), ResumeItem("owner", 0))
    <3>1. ResumeItem("owner", 0) \in Items /\ ResumeItem("owner", 0).kind # "message"
      BY NewItems DEF ResumeItem, Processes
    <3>2. i \in ToSet(Tail(queue)) \cup {ResumeItem("owner", 0)}
      BY <1>2, <2>2, <2>4, <3>1, ElementsJoined
    <3> QED BY <1>2, <2>2, <2>4, <3>1, <3>2 DEF OwnSlot
  <2>5. ASSUME NEW e \in Items, queue' = Append(queue, e),
               \/ Announce /\ e = ReadyItem
               \/ e.kind = "message" /\ Sends(e.slot)
               \/ \E p \in Processes : /\ e = ResumeItem(p, resumes[p])
                                       /\ running = p /\ pc'[p] = "yield"
        PROVE  i.slot \in Used
    <3>1. i \in ToSet(queue) \cup {e}
      BY <1>0, <1>2, <2>5, ElementsJoined
    <3>2. ASSUME i = e PROVE i.slot \in Used
      <4>1. Sends(i.slot)
        BY <1>2, <2>5, <3>2 DEF ReadyItem, ResumeItem
      <4>2. ThrottledSend("socket") => outgoing["socket"].slot = "recv"
        BY DEF ThrottledSend, InCanQueue, Outgoing, Sending
      <4> QED BY <1>0, <1>1, <1>2, <4>1, <4>2 DEF Sends, OwnSlot
    <3> QED BY <1>2, <3>1, <3>2 DEF OwnSlot
  <2> QED BY <2>1, <2>3, <2>4, <2>5, QueueForms
<1>3. outgoing'["owner"].slot \in OutSlots => outgoing'["owner"].slot \in Used
  <2>1. outgoing \in [Processes -> Calls] /\ "owner" \in Processes
        /\ "socket" \in Processes /\ "owner" # "socket"
    BY DEF DataTypes, Processes
  <2>2. CASE UNCHANGED outgoing
    BY <2>2 DEF OwnSlot
  <2>3. CASE ForwardRead
    BY <2>1, <2>3 DEF OwnSlot, ForwardRead, BeginSendThrottled
  <2>4. ASSUME NEW p \in Processes, ThrottledSend(p)
        PROVE  outgoing'["owner"].slot \in {"init", outgoing["owner"].slot}
    BY <2>1, <2>4 DEF ThrottledSend, NoMessage
  <2>5. ASSUME NEW call \in program.calls, OwnerSends(call)
        PROVE  outgoing'["owner"].slot \in {OutSlot(call), outgoing["owner"].slot}
    BY <2>1, <2>5 DEF OwnerSends, BeginSendThrottled
  <2> QED BY <1>0, <1>1, <2>2, <2>3, <2>4, <2>5, OutgoingChanges DEF OwnSlot
<1>4. ASSUME NEW s \in OutSlots, HasMessage(s)'
      PROVE  s \in Used
  <2>0. s \in Slots /\ s # "recv" /\ s # "init"
    BY <1>0
  <2>1. /\ HasMessage(s) <=> Contents(slots[s]) # <<>>
        /\ Contents(slots'[s]) # <<>>
    <3>1. SlotsOK(slots) /\ SlotsOK(slots')
      BY SlotsTyped DEF DataTypes
    <3> QED BY <1>4, <2>0, <3>1, SizeIsLen DEF HasMessage, SlotsOK
  <2>2. HasMessage(s) => s \in Used
    BY DEF OwnSlot
  <2>3. CASE ProcessMessage
    <3>1. \/ Contents(slots'[s]) = Contents(slots[s])
          \/ s = Head(queue).slot
      BY <2>0, <2>3, MessageSlots
    <3>2. Head(queue) \in ToSet(queue) /\ Head(queue).kind = "message"
      BY <1>0, <2>3, ElementsHead DEF ProcessMessage, TakesItem
    <3> QED BY <2>1, <2>2, <3>1, <3>2 DEF OwnSlot
  <2>4. CASE ProcessResume \/ RunContinuation
    BY <2>0, <2>1, <2>2, <2>4, ResumedSlots
  <2>5. ASSUME NEW p \in Processes, WaitForRoom(p) PROVE s \in Used
    BY <2>0, <2>1, <2>2, <2>5, WaitSlots
  <2>6. CASE TakeBuffers
    <3>1. slots'[s] = Remaining(s)
      BY <2>0, <2>6, TakeBuffersSlots
    <3> QED BY <2>0, <2>1, <2>2, <3>1, TakeTypes
  <2>7. CASE Initialise \/ TakeChunk
    <3>1. slots'[s] = slots[s]
      BY <2>0, <2>7, InitialiseSlots, TakeChunkSlots
    <3> QED BY <2>1, <2>2, <3>1
  <2>8. CASE Destroy
    <3>1. UNCHANGED slots \/ slots' = [t \in Slots |-> NewQueue]
      BY <2>8, Zenon DEF Destroy
    <3>2. Contents(NewQueue) = <<>>
      <4>1. <<>> \o <<>> = <<>>
        BY ConcatEmptySeq, EmptySeq
      <4> QED BY <4>1 DEF Contents, NewQueue
    <3> QED BY <2>0, <2>1, <2>2, <3>1, <3>2
  <2>9. CASE UNCHANGED slots
    BY <2>1, <2>2, <2>9
  <2> QED BY <2>3, <2>4, <2>5, <2>6, <2>7, <2>8, <2>9, SlotsChanges
<1> QED BY <1>0, <1>2, <1>3, <1>4 DEF OwnSlot

\* A write that fails is not forgotten.
ErrorHandlers == {h \in ToSet(ready) : h.kind = "write" /\ h.outcome = "error"}
Failed == sock.except_ \/ ~Alive("socket") \/ ErrorHandlers # {}

LEMMA FailedMeansFailed ==
  ASSUME DataTypes
  PROVE  WriteFailed <=> Failed
<1>1. ready \in Seq(ProperHandlers)
  BY DEF DataTypes
<1>2. ErrorHandlers # {} <=> \E k \in 1..Len(ready) : /\ ready[k].kind = "write"
                                                      /\ ready[k].outcome = "error"
  BY <1>1, Elements DEF ErrorHandlers
<1> QED BY <1>2 DEF WriteFailed, Failed

LEMMA FailedStays ==
  ASSUME ControlTypes, DataTypes, Loop, [Next]_vars, Failed
  PROVE  Failed'
<1>0. /\ ready \in Seq(ProperHandlers) /\ sock \in Members
      /\ Continuations \subseteq ProperHandlers
      /\ Seq(Continuations) \subseteq Seq(ProperHandlers)
  BY DEF DataTypes, Members, Continuations
<1>1. CASE ~Alive("socket")
  <2>1. ~Alive("socket")'
    <3>1. CASE ServerSpawnsOwner
      BY <1>1, <3>1 DEF ServerSpawnsOwner
    <3>2. CASE ~ServerSpawnsOwner
      BY <1>1, <3>2, AliveBefore DEF Processes
    <3> QED BY <3>1, <3>2
  <2> QED BY <2>1 DEF Failed
<1>2. CASE sock.except_
  <2>1. sock'.except_
    <3>1. CASE RunRead
      BY <1>2, <3>1, ReadEffects
    <3>2. CASE RunWrite
      BY <1>0, <1>2, <3>2 DEF RunWrite, WithError, Written, WithValue, Members
    <3> QED BY <1>2, <3>1, <3>2, SockFields
  <2> QED BY <2>1 DEF Failed
<1>3. ASSUME NEW h \in ErrorHandlers, Alive("socket") PROVE Failed'
  <2>1. h \in ToSet(ready) /\ h.kind = "write" /\ h.outcome = "error"
        /\ h \in ProperHandlers /\ h.pid = "socket"
    BY <1>0, Elements DEF ErrorHandlers, ProperHandlers
  <2>1a. ASSUME NEW s \in Seq(ProperHandlers), NEW t \in Seq(Continuations),
                h \in ToSet(s)
         PROVE  h \in ToSet(s \o t) /\ s \o t \in Seq(ProperHandlers)
    <3>1. t \in Seq(ProperHandlers)
      BY <1>0
    <3> QED BY <2>1a, <3>1, ElementsJoined
  <2>1b. ASSUME NEW s \in Seq(ProperHandlers), NEW e \in ProperHandlers,
                h \in ToSet(s)
         PROVE  h \in ToSet(Append(s, e))
    BY <2>1b, ElementsJoined
  <2>2. ASSUME h \in ToSet(ready') PROVE Failed'
    BY <2>1, <2>2 DEF Failed, ErrorHandlers
  <2>3. ASSUME NEW t \in Seq(Continuations), ready' = ready \o t PROVE Failed'
    BY <1>0, <2>1, <2>2, <2>3, ElementsJoined
  <2>4. CASE /\ RunContinuation \/ RunRead \/ RunWrite \/ RunHandshake
                \/ RunStaleHandler
             /\ ready # <<>>
             /\ \E t \in Seq(Continuations) : ready' = Tail(ready) \o t
    <3>1. CASE h = Head(ready)
      <4>1. RunWrite
        <5>1. ~RunContinuation /\ ~RunRead /\ ~RunHandshake
          BY <2>1, <3>1 DEF RunContinuation, RunRead, RunHandshake, RunsHandler
        <5>2. ~RunStaleHandler
          BY <1>3, <2>1, <3>1 DEF RunStaleHandler, Alive
        <5> QED BY <2>4, <5>1, <5>2
      <4>2. sock'.except_
        BY <1>0, <2>1, <3>1, <4>1 DEF RunWrite, WithError, Members
      <4> QED BY <4>2 DEF Failed
    <3>2. CASE h # Head(ready)
      <4>1. PICK t \in Seq(Continuations) : ready' = Tail(ready) \o t
        BY <2>4
      <4>2. h \in ToSet(Tail(ready)) /\ Tail(ready) \in Seq(ProperHandlers)
        BY <1>0, <2>1, <2>4, <3>2, NotFirst
      <4>3. h \in ToSet(Tail(ready) \o t)
        BY <2>1a, <4>2, Zenon
      <4> QED BY <2>2, <4>1, <4>3
    <3> QED BY <3>1, <3>2
  <2>5. ASSUME NEW t \in Seq(Continuations),
               ready' = Append(ready \o t, Completion("write", "ok", 0))
        PROVE  Failed'
    <3>1. Completion("write", "ok", 0) \in ProperHandlers
      BY NewHandlers
    <3>2. ready \o t \in Seq(ProperHandlers) /\ h \in ToSet(ready \o t)
      BY <1>0, <2>1, <2>1a, Zenon
    <3>3. h \in ToSet(Append(ready \o t, Completion("write", "ok", 0)))
      BY <2>1b, <3>1, <3>2, Zenon
    <3> QED BY <2>2, <2>5, <3>3
  <2>6. ASSUME NEW e \in ProperHandlers, ready' = Append(ready, e) PROVE Failed'
    BY <1>0, <2>1, <2>2, <2>6, ElementsJoined
  <2> QED BY <2>3, <2>4, <2>5, <2>6, ReadyForms
<1> QED BY <1>1, <1>2, <1>3 DEF Failed

\* o is a part of t from its start on, some of it overwritten.
Matches(o, t) ==
  Len(o) <= Len(t) /\ \A k \in 1..Len(o) : o[k] \in {t[k], Garbage}

LEMMA Joined ==
  ASSUME NEW a \in Seq(Nat), NEW b \in Seq(Nat)
  PROVE  /\ a \o b \in Seq(Nat) /\ Len(a \o b) = Len(a) + Len(b)
         /\ Len(a) \in Nat /\ Len(b) \in Nat
         /\ \A k \in 1..Len(a) : (a \o b)[k] = a[k]
         /\ \A k \in 1..Len(b) : (a \o b)[Len(a) + k] = b[k]
<1>1. Len(a) \in Nat /\ Len(b) \in Nat
  BY LenProperties
<1> QED BY <1>1, ConcatProperties

LEMMA MatchesPart ==
  ASSUME NEW a \in Seq(Nat), NEW b \in Seq(Nat), NEW t \in Seq(Nat),
         Matches(a \o b, t)
  PROVE  Matches(a, t)
<1> DEFINE c == a \o b
<1>1. /\ Len(c) = Len(a) + Len(b) /\ Len(a) \in Nat /\ Len(b) \in Nat
      /\ \A k \in 1..Len(a) : c[k] = a[k]
  BY Joined
<1>2. Matches(c, t) /\ Len(t) \in Nat
  BY LenProperties
<1> HIDE DEF c
<1>3. Len(a) <= Len(t) /\ 1..Len(a) \subseteq 1..Len(c)
  BY <1>1, <1>2 DEF Matches
<1> QED BY <1>1, <1>2, <1>3 DEF Matches

LEMMA MatchesMore ==
  ASSUME NEW o \in Seq(Nat), NEW t \in Seq(Nat), NEW u \in Seq(Nat), Matches(o, t)
  PROVE  Matches(o, t \o u)
<1> DEFINE v == t \o u
<1>1. /\ Len(v) = Len(t) + Len(u) /\ Len(t) \in Nat /\ Len(u) \in Nat
      /\ \A k \in 1..Len(t) : v[k] = t[k]
  BY Joined
<1>2. Len(o) \in Nat
  BY LenProperties
<1> HIDE DEF v
<1>3. Len(o) <= Len(v) /\ 1..Len(o) \subseteq 1..Len(t)
  BY <1>1, <1>2 DEF Matches
<1>4. Matches(o, v)
  BY <1>1, <1>3 DEF Matches
<1> QED BY <1>4 DEF v

LEMMA MatchesBoth ==
  ASSUME NEW o \in Seq(Nat), NEW t \in Seq(Nat), NEW b \in Seq(Nat), Matches(o, t),
         Len(o) = Len(t)
  PROVE  Matches(o \o b, t \o b) /\ Len(o \o b) = Len(t \o b)
<1> DEFINE p == o \o b
           v == t \o b
<1>1. /\ Len(p) = Len(o) + Len(b) /\ Len(o) \in Nat /\ Len(b) \in Nat
      /\ \A k \in 1..Len(o) : p[k] = o[k]
      /\ \A k \in 1..Len(b) : p[Len(o) + k] = b[k]
  BY Joined
<1>2. /\ Len(v) = Len(t) + Len(b) /\ Len(t) \in Nat
      /\ \A k \in 1..Len(t) : v[k] = t[k]
      /\ \A k \in 1..Len(b) : v[Len(t) + k] = b[k]
  BY Joined
<1> HIDE DEF p, v
<1>3. ASSUME NEW k \in 1..Len(p) PROVE p[k] \in {v[k], Garbage}
  <2>1. CASE k \in 1..Len(o)
    BY <1>1, <1>2, <2>1 DEF Matches
  <2>2. CASE k \notin 1..Len(o)
    <3>1. PICK j \in 1..Len(b) : k = Len(o) + j
      <4>1. k - Len(o) \in 1..Len(b) /\ k = Len(o) + (k - Len(o))
        BY <1>1, <2>2
      <4> QED BY <4>1
    <3> QED BY <1>1, <1>2, <3>1
  <2> QED BY <2>1, <2>2
<1>4. Len(p) = Len(v)
  BY <1>1, <1>2
<1>5. Matches(p, v)
  BY <1>1, <1>3, <1>4 DEF Matches
<1> QED BY <1>4, <1>5 DEF p, v

\* A buffer is overwritten.
LEMMA MatchesGarbage ==
  ASSUME NEW a \in Seq(Nat), NEW b \in Seq(Nat), NEW t \in Seq(Nat),
         Matches(a \o b, t)
  PROVE  LET c == [i \in DOMAIN b |-> Garbage]
         IN  c \in Seq(Nat) /\ Matches(a \o c, t) /\ Len(a \o c) = Len(a \o b)
<1> DEFINE c == [i \in DOMAIN b |-> Garbage]
           p == a \o b
           q == a \o c
<1>1. /\ c \in Seq(Nat) /\ Len(c) = Len(b) /\ \A k \in 1..Len(b) : c[k] = Garbage
  <2>1. DOMAIN b = 1..Len(b) /\ Len(b) \in Nat
    BY LenProperties
  <2>2. c \in Seq(Nat)
    BY SentTyped
  <2>3. \A n \in Nat : Len([i \in 1..n |-> Garbage]) = n
    OBVIOUS
  <2>4. c = [i \in 1..Len(b) |-> Garbage]
    BY <2>1
  <2>5. Len(c) = Len(b)
    BY <2>1, <2>3, <2>4
  <2> QED BY <2>2, <2>4, <2>5
<1> HIDE DEF c
<1>2. /\ Len(p) = Len(a) + Len(b) /\ Len(a) \in Nat /\ Len(b) \in Nat
      /\ \A k \in 1..Len(a) : p[k] = a[k]
  BY Joined
<1>3. /\ Len(q) = Len(a) + Len(c)
      /\ \A k \in 1..Len(a) : q[k] = a[k]
      /\ \A k \in 1..Len(c) : q[Len(a) + k] = c[k]
  BY <1>1, Joined
<1>4. Matches(p, t) /\ Len(t) \in Nat
  BY LenProperties
<1> HIDE DEF p, q
<1>5. ASSUME NEW k \in 1..Len(q) PROVE q[k] \in {t[k], Garbage}
  <2>1. CASE k \in 1..Len(a)
    <3>1. k \in 1..Len(p)
      BY <1>2, <2>1
    <3> QED BY <1>2, <1>3, <1>4, <2>1, <3>1 DEF Matches
  <2>2. CASE k \notin 1..Len(a)
    <3>1. PICK j \in 1..Len(c) : k = Len(a) + j
      <4>1. k - Len(a) \in 1..Len(c) /\ k = Len(a) + (k - Len(a))
        BY <1>1, <1>2, <1>3, <2>2
      <4> QED BY <4>1
    <3> QED BY <1>1, <1>3, <3>1
  <2> QED BY <2>1, <2>2
<1>6. Len(q) = Len(p)
  BY <1>1, <1>2, <1>3
<1>7. Matches(q, t)
  BY <1>4, <1>5, <1>6 DEF Matches
<1> QED BY <1>1, <1>6, <1>7 DEF p, q, c

LEMMA FlattenShort ==
  /\ FlattenSeq(<<>>) = <<>>
  /\ \A b : FlattenSeq(<<b>>) = b
<1>1. FlattenSeq(<<>>) = <<>>
  BY CombineNone DEF Combine
<1>2. ASSUME NEW seqs, Len(seqs) = 1
      PROVE  FlattenSeq(seqs) = seqs[1]
  <2> DEFINE Step(flatten) ==
               [i \in 1..Len(seqs) |->
                  IF i = 1 THEN seqs[i] ELSE flatten[i-1] \o seqs[i]]
             g == [i \in 1..1 |-> seqs[1]]
             f == CHOOSE h : h = Step(h)
  <2>1. g = Step(g)
    BY <1>2
  <2>2. f = Step(f)
    BY <2>1
  <2>3. Len(seqs) # 0
    BY <1>2
  <2>4. FlattenSeq(seqs) = f[Len(seqs)]
    BY ONLY <2>3, Zenon DEF FlattenSeq
  <2> HIDE DEF f
  <2>5. f[1] = seqs[1]
    BY <1>2, <2>2
  <2> QED BY <1>2, <2>4, <2>5
<1>3. ASSUME NEW b PROVE FlattenSeq(<<b>>) = b
  <2>1. Len(<<b>>) = 1 /\ <<b>>[1] = b
    OBVIOUS
  <2>2. FlattenSeq(<<b>>) = <<b>>[1]
    BY <1>2, <2>1, Zenon
  <2> QED BY <2>1, <2>2, Zenon
<1> QED BY <1>1, <1>3

\* What has been written or is being written.
Out == net.wire \o FlattenSeq(net.writing)
AllWritten == Matches(Out, log.taken) /\ (Len(Out) = Len(log.taken) \/ Failed)

\* The owner of a connection uses one of the two slots.
OneSlotOnly == \A c, d \in program.calls : OutSlot(c) = OutSlot(d)

\* All that is taken out of one slot is written.
LEMMA TakenFromOne ==
  ASSUME ControlTypes, DataTypes, OwnSlot, OneSlotOnly, TakeBuffers
  PROVE  log'.taken = IF Nothing THEN log.taken ELSE log.taken \o Buff
<1>0. log.taken \in Seq(Nat) /\ Taken("send_data") \in Seq(Nat) /\ Many \in Seq(Nat)
  BY BlocksTyped DEF DataTypes
<1>1. log'.taken = (log.taken \o Taken("send_data")) \o Many
  BY BuffersTaken DEF DataTypes
<1>2. /\ ~HasMessage("send_data") => Taken("send_data") = <<>>
      /\ ~HasMessage("send_many_data") => Many = <<>>
  <2>1. "send_data" \in Slots /\ "send_many_data" \in Slots
    BY DEF Slots, OutSlots
  <2> QED BY <2>1, TakeTypes, CombineNone DEF Many
<1>3. ~(HasMessage("send_data") /\ HasMessage("send_many_data"))
  BY DEF OwnSlot, OneSlotOnly, Used, OutSlots
<1>4. \A s \in Seq(Nat) : s \o <<>> = s
  BY ConcatEmptySeq
<1>5. CASE HasMessage("send_data")
  <2>1. Buff = Taken("send_data") /\ Many = <<>> /\ ~Nothing
    BY <1>2, <1>3, <1>5 DEF Buff, Nothing
  <2>2. log.taken \o Taken("send_data") \in Seq(Nat)
    BY <1>0, Joined
  <2> QED BY <1>1, <1>4, <2>1, <2>2
<1>6. CASE ~HasMessage("send_data")
  <2>1. log'.taken = log.taken \o Many /\ Buff = Many
    BY <1>0, <1>1, <1>2, <1>4, <1>6 DEF Buff
  <2>2. Nothing => Many = <<>>
    BY <1>2 DEF Nothing
  <2> QED BY <1>0, <1>4, <2>1, <2>2
<1> QED BY <1>5, <1>6

LEMMA AllWrittenStep ==
  ASSUME ControlTypes, DataTypes, Loop, OneRead, OneWrite, OwnSlot, OneSlotOnly,
         AllWritten, [Next]_vars
  PROVE  AllWritten'
<1>0. /\ net \in NetTypes /\ log \in LogTypes /\ net.wire \in Seq(Nat)
      /\ net.writing \in Seq(Seq(Nat)) /\ log.taken \in Seq(Nat)
  BY DEF DataTypes, NetTypes, LogTypes
<1>1. net.writing = <<>> \/ \E b \in Seq(Nat) : net.writing = <<b>>
  <2>1. CASE Len(net.writing) = 1
    <3>1. net.writing[1] \in Seq(Nat)
      BY <1>0, <2>1, ElementOfSeq
    <3>2. net.writing = <<net.writing[1]>>
      BY <1>0, <2>1
    <3> QED BY <3>1, <3>2
  <2>2. CASE Len(net.writing) # 1
    <3>1. Len(net.writing) = 0
      <4>1. Len(net.writing) \in Nat
        BY <1>0, LenProperties
      <4>2. Len(net.writing) <= 1
        BY DEF OneWrite
      <4>3. \A n \in Nat : n <= 1 /\ n # 1 => n = 0
        OBVIOUS
      <4> QED BY <2>2, <4>1, <4>2, <4>3, Zenon
    <3> QED BY <1>0, <3>1, EmptySeq
  <2> QED BY <2>1, <2>2
<1>2. /\ net.writing = <<>> => Out = net.wire
      /\ \A b \in Seq(Nat) : net.writing = <<b>> => Out = net.wire \o b
      /\ net'.writing = <<>> /\ net'.wire \in Seq(Nat) => Out' = net'.wire
      /\ \A b \in Seq(Nat) : net'.writing = <<b>> => Out' = net'.wire \o b
  <2>1. Out' = net'.wire \o FlattenSeq(net'.writing)
    BY DEF Out
  <2>2. \A s \in Seq(Nat) : s \o <<>> = s
    BY ConcatEmptySeq
  <2>3. net.writing = <<>> => Out = net.wire
    BY <1>0, <2>2, FlattenShort, Zenon DEF Out
  <2>4. net'.writing = <<>> /\ net'.wire \in Seq(Nat) => Out' = net'.wire
    BY <2>1, <2>2, FlattenShort, Zenon
  <2>5. \A b \in Seq(Nat) : net.writing = <<b>> => Out = net.wire \o b
    BY FlattenShort, Zenon DEF Out
  <2>6. \A b \in Seq(Nat) : net'.writing = <<b>> => Out' = net'.wire \o b
    BY <2>1, FlattenShort, Zenon
  <2> QED BY <2>3, <2>4, <2>5, <2>6
<1>3. Out \in Seq(Nat) /\ Matches(Out, log.taken) /\ Matches(net.wire, log.taken)
  <2>1. CASE net.writing = <<>>
    BY <1>0, <1>2, <2>1 DEF AllWritten
  <2>2. ASSUME NEW b \in Seq(Nat), net.writing = <<b>>
        PROVE  Out \in Seq(Nat) /\ Matches(net.wire, log.taken)
    <3>1. Out = net.wire \o b /\ Matches(net.wire \o b, log.taken)
      BY <1>2, <2>2 DEF AllWritten
    <3> QED BY <1>0, <3>1, Joined, MatchesPart
  <2> QED BY <1>1, <2>1, <2>2 DEF AllWritten
<1>4. ASSUME Matches(Out', log'.taken), Len(Out') = Len(log'.taken) \/ Failed'
      PROVE  AllWritten'
  BY <1>4 DEF AllWritten, Matches
<1>5. CASE UNCHANGED <<net.wire, net.writing, log.taken>>
  <2>1. Out' = Out
    BY <1>5 DEF Out
  <2> QED BY <1>4, <1>5, <2>1, FailedStays DEF AllWritten
<1>6. CASE TakeBuffers
  <2>1. CASE CheckExcept /\ UNCHANGED <<sock, net>>
    <3>1. Failed' /\ Out' = Out
      BY <2>1 DEF CheckExcept, Failed, Out
    <3>2. /\ log'.taken = log.taken \o Taken("send_data") \o Many
          /\ Taken("send_data") \in Seq(Nat) /\ Many \in Seq(Nat)
      BY <1>0, <1>6, BuffersTaken, BlocksTyped DEF LogTypes
    <3>3. log.taken \o Taken("send_data") \in Seq(Nat)
      BY <1>0, <3>2, Joined
    <3>4. Matches(Out, log'.taken)
      BY <1>0, <1>3, <3>2, <3>3, MatchesMore
    <3> QED BY <1>4, <3>1, <3>4
  <2>2. CASE Nothing /\ UNCHANGED net
    BY <1>5, <1>6, <2>2, TakenFromOne
  <2>3. CASE /\ ~CheckExcept /\ ~Nothing /\ sock' = Writing(sock)
             /\ \/ net' = [net EXCEPT !.wire = @ \o Buff]
                \/ net' = [net EXCEPT !.writing = Append(@, Buff)]
    <3>1. InSocket("buffers") /\ Alive("socket")
      BY <1>6, BuffersTaken DEF InSocket, Loop, Nobody
    <3>2. net.writing = <<>> /\ NoWriteHandler
      BY <3>1 DEF OneWrite, InSocket
    <3>3. ~Failed
      BY <2>3, <3>1, <3>2 DEF Failed, CheckExcept, NoWriteHandler, Absent,
                              ErrorHandlers
    <3>4. Out = net.wire /\ Len(Out) = Len(log.taken) /\ Buff \in Seq(Nat)
      BY <1>2, <3>2, <3>3, BlocksTyped DEF AllWritten
    <3>5. log'.taken = log.taken \o Buff
      BY <1>6, <2>3, TakenFromOne
    <3>6. Out' = net.wire \o Buff
      <4>1. CASE net' = [net EXCEPT !.wire = @ \o Buff]
        <5>1. net'.wire = net.wire \o Buff /\ net'.writing = <<>>
          BY <1>0, <3>2, <4>1 DEF NetTypes
        <5>2. net'.wire \in Seq(Nat)
          BY <1>0, <3>4, <5>1, Joined
        <5> QED BY <1>2, <5>1, <5>2
      <4>2. CASE net' = [net EXCEPT !.writing = Append(@, Buff)]
        <5>1. net'.wire = net.wire /\ net'.writing = Append(<<>>, Buff)
          BY <1>0, <3>2, <4>2 DEF NetTypes
        <5>2. \A b : Append(<<>>, b) = <<b>>
          OBVIOUS
        <5> QED BY <1>2, <3>4, <5>1, <5>2, Zenon
      <4> QED BY <2>3, <4>1, <4>2
    <3>7. Matches(Out', log'.taken) /\ Len(Out') = Len(log'.taken)
      <4>1. /\ Matches(net.wire, log.taken) /\ Len(net.wire) = Len(log.taken)
            /\ net.wire \in Seq(Nat) /\ log.taken \in Seq(Nat) /\ Buff \in Seq(Nat)
        BY <1>0, <1>3, <3>4
      <4>2. /\ Matches(net.wire \o Buff, log.taken \o Buff)
            /\ Len(net.wire \o Buff) = Len(log.taken \o Buff)
        BY <4>1, MatchesBoth, Zenon
      <4> QED BY <3>5, <3>6, <4>2
    <3> QED BY <1>4, <3>7
  <2> QED BY <1>6, <2>1, <2>2, <2>3, BuffersTaken
<1>7. CASE WriteCompletes
  <2>1. net.writing # <<>> /\ UNCHANGED log
    BY <1>7 DEF WriteCompletes
  <2>2. PICK b \in Seq(Nat) : net.writing = <<b>>
    BY <1>1, <2>1
  <2>3. Head(net.writing) = b /\ Tail(net.writing) = <<>>
    BY <2>2
  <2>4. Out = net.wire \o b /\ Matches(net.wire \o b, log.taken)
    BY <1>2, <1>3, <2>2
  <2>5. ASSUME NEW sent \in {b, [i \in DOMAIN b |-> Garbage]},
               net' = [net EXCEPT !.writing = <<>>, !.wire = @ \o sent]
        PROVE  AllWritten'
    <3>1. /\ sent \in Seq(Nat) /\ Matches(net.wire \o sent, log.taken)
          /\ Len(net.wire \o sent) = Len(Out)
      BY <1>0, <2>4, MatchesGarbage
    <3>2. net'.writing = <<>> /\ net'.wire = net.wire \o sent
      BY <1>0, <2>5 DEF NetTypes
    <3>3. Out' = net.wire \o sent
      BY <1>0, <1>2, <3>1, <3>2, Joined
    <3> QED BY <1>4, <2>1, <3>1, <3>3, FailedStays DEF AllWritten
  <2>6. CASE /\ net' = [net EXCEPT !.writing = <<>>]
             /\ Completes("write", "error", 0)
    <3>1. net'.writing = <<>> /\ net'.wire = net.wire
      BY <1>0, <2>6 DEF NetTypes
    <3>2. Out' = net.wire
      BY <1>0, <1>2, <3>1
    <3>3. Failed'
      <4> DEFINE e == Completion("write", "error", 0)
      <4>1. e \in ProperHandlers /\ e.kind = "write" /\ e.outcome = "error"
        BY NewHandlers DEF Completion
      <4>2. ready \in Seq(ProperHandlers) /\ ready' = Append(ready, e)
        BY <2>6 DEF DataTypes, Completes
      <4> HIDE DEF e
      <4>3. e \in ToSet(ready')
        BY <4>1, <4>2, ElementsJoined
      <4> QED BY <4>1, <4>3 DEF Failed, ErrorHandlers
    <3> QED BY <1>3, <1>4, <2>1, <3>2, <3>3
  <2> QED BY <1>7, <2>3, <2>5, <2>6 DEF WriteCompletes
<1>8. CASE Destroy
  <2>1. UNCHANGED log
    BY <1>8 DEF Destroy
  <2>2. CASE UNCHANGED net
    BY <1>5, <2>1, <2>2
  <2>3. CASE Destroyed # {}
    <3>1. net' = [net EXCEPT !.reading = 0, !.writing = <<>>, !.shaking = FALSE]
      BY <1>8, <2>3, Zenon DEF Destroy
    <3>2. net'.writing = <<>> /\ net'.wire = net.wire
      BY <1>0, <3>1 DEF NetTypes
    <3>3. Out' = net.wire
      BY <1>0, <1>2, <3>2
    <3>4. Failed'
      BY <1>8, <2>3 DEF Destroy, Destroyed, Failed, Alive, Processes, ControlTypes
    <3> QED BY <1>3, <1>4, <2>1, <3>3, <3>4
  <2>4. Destroyed = {} => UNCHANGED net
    BY <1>8, Zenon DEF Destroy
  <2> QED BY <2>2, <2>3, <2>4
<1>9. CASE ~TakeBuffers /\ ~WriteCompletes /\ ~Destroy
  <2>1. UNCHANGED log.taken
    BY <1>0, <1>9, LogChanges DEF TakeChunk, OwnerSends, ReadCompletes, LogTypes
  <2>2. UNCHANGED <<net.wire, net.writing>>
    BY <1>0, <1>9, NetChanges DEF RunRead, Handshake, Initialise, Network,
       ReadCompletes, HandshakeCompletes, ThrottledSend, NetTypes
  <2> QED BY <1>5, <2>1, <2>2
<1> QED BY <1>6, <1>7, <1>8, <1>9

\* What the socket takes out of the slots is written, in the order in which it
\* was taken and without gaps, if its owner uses one of the two slots (run
\* both_slots shows what happens when it uses both): the next block is taken only
\* after the last write has ended, whatever its p_ was set for meanwhile.
THEOREM OneSlotIsWritten ==
  ASSUME \A p \in Programs : \A c, d \in p.calls : OutSlot(c) = OutSlot(d)
  PROVE  Spec => []TakenIsWritten
<1>1. Init => OwnSlot /\ AllWritten
  <2> SUFFICES ASSUME Init PROVE OwnSlot /\ AllWritten
    OBVIOUS
  <2>1. OwnSlot
    <3>1. ToSet(queue) = {ResumeItem("socket", 0)}
      BY DEF Init, ToSet
    <3>2. outgoing["owner"].slot \notin OutSlots
      BY DEF Init, NoMessage, OutSlots, Processes
    <3>3. \A s \in OutSlots : ~HasMessage(s)
      BY DEF Init, HasMessage, Size, NewQueue, OutSlots, Slots
    <3> QED BY <3>1, <3>2, <3>3 DEF OwnSlot, ResumeItem
  <2>2. Out = <<>> /\ log.taken = <<>>
    <3>1. net.wire = <<>> /\ net.writing = <<>> /\ log.taken = <<>>
      BY DEF Init
    <3>2. <<>> \o <<>> = <<>>
      BY ConcatEmptySeq, EmptySeq
    <3> QED BY <3>1, <3>2, FlattenShort, Zenon DEF Out
  <2> QED BY <2>1, <2>2 DEF AllWritten, Matches
<1>2. SocketInv /\ OwnSlot /\ AllWritten /\ [Next]_vars => OwnSlot' /\ AllWritten'
  <2>1. SocketInv => OneSlotOnly
    BY DEF SocketInv, ControlTypes, OneSlotOnly
  <2> QED BY <2>1, OwnSlotStep, AllWrittenStep DEF SocketInv
<1>3. SocketInv /\ AllWritten => TakenIsWritten
  <2> SUFFICES ASSUME SocketInv, AllWritten PROVE TakenIsWritten
    OBVIOUS
  <2>1. WriteFailed <=> Failed
    BY FailedMeansFailed DEF SocketInv
  <2>2. Len(net.writing) <= 1
    BY DEF SocketInv, OneWrite
  <2> QED BY <2>1, <2>2 DEF AllWritten, TakenIsWritten, Matches, Out
<1> QED BY <1>1, <1>2, <1>3, SocketInvariant, PTL DEF Spec
=============================================================================
