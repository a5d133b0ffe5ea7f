---------------------------- MODULE SocketProcess ----------------------------
(***************************************************************************)
(* One TCP connection of eslang_io (Tcp.h, Tcp.cpp): the TSocketProcess     *)
(* that owns the socket, the process that owns the connection (it is linked *)
(* to the socket process and uses Tcp::initRecvSocket, Tcp::send and its    *)
(* variants), and the network, which completes the asynchronous operations. *)
(*                                                                          *)
(* The coroutine of the socket and the completion handlers of its read, its *)
(* write and its handshake share flags and one promise, p_.  The scheduler  *)
(* is the Context reduced to the two processes: queue_, the handlers of the *)
(* io_service, and the order in which run() serves them.  A listening       *)
(* server is always there, so run_one() waits rather than returns.  The     *)
(* expiry of a timer and the run of its handler are one step: between the   *)
(* two nothing reads either, and an expiry may be as late as one likes.     *)
(***************************************************************************)
EXTENDS MessageQueue, SequencesExt

CONSTANTS
  MaxIn,        \* bound on the chunks the peer sends
  MaxOut,       \* bound on the blocks the owner sends
  MaxResumes,   \* bound on the resumes after which the owner still sleeps
  Programs      \* the owners (and socket options) of an instance

ASSUME SocketAssumption ==
  /\ MaxIn \in Nat /\ MaxOut \in Nat /\ MaxResumes \in Nat
  /\ Programs \subseteq
       [secure : BOOLEAN,       \* TSocketProcess<SslSocketTraits>
        throttled : BOOLEAN,    \* options_.throttled
        limit : Nat,            \* of waitOnQueue(), 10 in the code
        echo : BOOLEAN,         \* the owner sends back each chunk, for ever
        sleeps : BOOLEAN,       \* the owner sleeps in between
        calls : SUBSET {"send", "sendMany", "sendThrottled",
                        "sendManyThrottled"}]

Processes == {"socket", "owner"}
Nobody == "nobody"

VARIABLES
  program,      \* the element of Programs that runs
  at,           \* where Context::run() is
  running,      \* the process whose resume() is on the stack, or Nobody
  queue,        \* queue_
  ready,        \* handlers the io_service would run now, in order
  life,         \* of each process; "dead" is in toDestroy_, "freed" deleted
  pc,           \* what it is suspended on, or where it is when it runs
  resumes,      \* RunningProcess::resumes
  outgoing,     \* what its sendThrottled() in progress is to send
  slots,        \* the MessageQueues of both processes' slots
  sock,         \* the members of TSocketProcess, and the promise of start()
  net,          \* the socket's pending operations (how many reads, which
                \* writes, a handshake), and the blocks the peer has got
  log           \* what has been sent and received (read by no action's guard
                \* but the bounds MaxIn and MaxOut and the echo owner's)

procVars == <<life, pc, resumes, outgoing>>
vars == <<program, at, running, queue, ready, procVars, slots, sock, net, log>>

-----------------------------------------------------------------------------
(* Slots, messages and handlers.  A chunk (of the peer's data) and a block    *)
(* (of the owner's) are numbers; a Buffer is a sequence of them, and a        *)
(* BufferCollection a sequence of Buffers.                                    *)

OutSlots == {"send_data", "send_many_data"}
Slots == OutSlots \cup {"init", "recv"}
Receiver(s) == IF s = "recv" THEN "owner" ELSE "socket"

\* BufferCollection::combine().
Combine(buffers) == FlattenSeq(buffers)

MessageItem(s, body) ==
  [kind |-> "message", pid |-> Receiver(s), slot |-> s, body |-> body,
   resume |-> 0]
ResumeItem(p, n) ==
  [kind |-> "resume", pid |-> p, slot |-> "init", body |-> <<>>, resume |-> n]
\* The Tcp::Socket that the socket process sends to the server.
ReadyItem ==
  [kind |-> "onReady", pid |-> "socket", slot |-> "init", body |-> <<>>,
   resume |-> 0]

Continuation(p) ==
  [kind |-> "continuation", pid |-> p, resumes |-> resumes[p],
   outcome |-> "ok", chunk |-> 0]
\* A completed operation of the socket.
Completion(op, outcome, chunk) ==
  [kind |-> op, pid |-> "socket", resumes |-> 0, outcome |-> outcome,
   chunk |-> chunk]

Alive(p) == life[p] = "alive"

\* p is suspended, at pc[p].
Suspended(p) == Alive(p) /\ running # p

-----------------------------------------------------------------------------
(* resume() and its ends *)

\* The process suspends on w.
Park(p, w) == running' = Nobody /\ pc' = [pc EXCEPT ![p] = w]

\* The process runs on, at l.
GoOn(p, l) == pc' = [pc EXCEPT ![p] = l] /\ UNCHANGED running

\* The coroutine returns or throws.
Dies(p) == /\ running' = Nobody
           /\ life' = [life EXCEPT ![p] = "dead"]

\* resume(): the promise the process waited on is consumed (which throws the
\* exception of a failed handshake), then its coroutine continues.
Resume(p, boxes) ==
  /\ IF pc[p] = "handshake" /\ ProcessThrows(sock.hs)
     THEN Dies(p) /\ UNCHANGED resumes
     ELSE /\ running' = p
          /\ resumes' = [resumes EXCEPT ![p] = @ + 1]
          /\ UNCHANGED life
  /\ sock' = CASE pc[p] \in {"written", "buffers"} ->
                    [sock EXCEPT !.p_ = Process(@)]
               [] pc[p] = "handshake" /\ ~ProcessThrows(sock.hs) ->
                    [sock EXCEPT !.hs = Process(@)]
               [] OTHER -> sock
  /\ slots' = IF pc[p] = "room"
              THEN [boxes EXCEPT ![outgoing[p].slot].p_ = Process(@)]
              ELSE boxes

NoResume(boxes) == slots' = boxes /\ UNCHANGED <<running, life, resumes, sock>>

-----------------------------------------------------------------------------
(* The loop of Context::run() *)

\* isWaiting() of what the receiver is suspended on.
IsWaiting(s) ==
  pc[Receiver(s)] = IF s \in OutSlots THEN "buffers" ELSE s

TakesItem(kind) == /\ at = "top" /\ queue # <<>> /\ Head(queue).kind = kind
                   /\ at' = "destroy"

ProcessMessage ==
  LET i == Head(queue)
      boxes == [slots EXCEPT ![i.slot] = Push(@, i.body)]
  IN /\ TakesItem("message")
     /\ queue' = Tail(queue)
     /\ IF ~Alive(i.pid) THEN NoResume(slots)
        ELSE IF IsWaiting(i.slot) THEN Resume(i.pid, boxes)
        ELSE NoResume(boxes)
     /\ UNCHANGED <<program, ready, pc, outgoing, net, log>>

ProcessResume ==
  LET i == Head(queue) IN
  /\ TakesItem("resume")
  /\ queue' = Tail(queue)
  /\ IF Alive(i.pid) /\ resumes[i.pid] = i.resume
     THEN Resume(i.pid, slots) ELSE NoResume(slots)
  /\ UNCHANGED <<program, ready, pc, outgoing, net, log>>

\* The server gets the Tcp::Socket and spawns the owner, whose constructor
\* links it to the socket process.
ServerSpawnsOwner ==
  /\ TakesItem("onReady")
  /\ Alive("socket")
  /\ life' = [life EXCEPT !["owner"] = "alive"]
  /\ queue' = Append(Tail(queue), ResumeItem("owner", 0))
  /\ UNCHANGED <<program, running, ready, pc, resumes, outgoing, slots, sock,
                 net, log>>

RunOne ==
  /\ at = "top" /\ queue = <<>>
  /\ at' = "wait"
  /\ UNCHANGED <<program, running, queue, ready, procVars, slots, sock, net, log>>

RunsHandler(kind) ==
  /\ at \in {"wait", "poll"} /\ running = Nobody
  /\ ready # <<>> /\ Head(ready).kind = kind
  /\ life[Head(ready).pid] # "freed"
  /\ at' = "poll"

RunContinuation ==
  LET h == Head(ready) IN
  /\ RunsHandler("continuation")
  /\ ready' = Tail(ready)
  /\ IF Alive(h.pid) /\ resumes[h.pid] = h.resumes
     THEN Resume(h.pid, slots) ELSE NoResume(slots)
  /\ UNCHANGED <<program, queue, pc, outgoing, net, log>>

\* A handler of a deleted process: harmless, or it crashes the program.
RunStaleHandler ==
  /\ at \in {"wait", "poll"} /\ running = Nobody
  /\ ready # <<>> /\ life[Head(ready).pid] = "freed"
  /\ ready' = Tail(ready)
  /\ at' \in {"poll", "crashed"}
  /\ UNCHANGED <<program, running, queue, procVars, slots, sock, net, log>>

EndPoll ==
  /\ at = "poll" /\ running = Nobody /\ ready = <<>>
  /\ at' = "destroy"
  /\ UNCHANGED <<program, running, queue, ready, procVars, slots, sock, net, log>>

\* Seeded fault: the linked process is not killed.
DestroyedAlone == {p \in Processes : life[p] = "dead"}

\* destroy() of a dead process takes the linked one along.  The destructor of
\* the socket cancels its operations (their handlers return at once and are
\* left out), those of the slots post the continuations they hold.
Destroyed == IF \E p \in Processes : life[p] = "dead"
             THEN {p \in Processes : life[p] \in {"alive", "dead"}} ELSE {}

Destroy ==
  /\ at = "destroy" /\ running = Nobody
  /\ at' = "top"
  /\ life' = [p \in Processes |-> IF p \in Destroyed THEN "freed" ELSE life[p]]
  /\ IF Destroyed = {} THEN UNCHANGED <<ready, slots, net>>
     ELSE /\ ready' = ready \o DestroyPosts(slots["send_data"])
                            \o DestroyPosts(slots["send_many_data"])
                            \o DestroyPosts(slots["recv"])
          /\ slots' = [s \in Slots |-> NewQueue]
          /\ net' = [net EXCEPT !.reading = 0, !.writing = <<>>,
                                !.shaking = FALSE]
  /\ UNCHANGED <<program, running, queue, pc, resumes, outgoing, sock, log>>

-----------------------------------------------------------------------------
(* The completion handlers of the socket *)

\* What a promise posts when setIfUnset() turns p into q.
ChangePosts(p, q) == IF q.set_ = p.set_ THEN <<>> ELSE SetPosts(p)

\* setValue(), and setError() on the members; both post what p_ holds.
WithValue(s) == [s EXCEPT !.p_ = SetIfUnset(@)]
WithError(s) == [s EXCEPT !.p_ = SetIfUnset(@), !.except_ = TRUE]

\* Seeded fault: the next read is started before this one is handed on.
RearmsAlways(outcome) == outcome = "data"
\* The read handler calls asyncRead() itself, rather than leave that to the
\* coroutine.
Rearms(outcome) == outcome = "data" /\ ~program.throttled

\* The handler of async_read_some().
RunRead ==
  LET h == Head(ready) IN
  /\ RunsHandler("read")
  /\ sock' = CASE h.outcome = "eof" -> WithValue([sock EXCEPT !.eof_ = TRUE])
               [] h.outcome = "error" -> WithError(sock)
               [] h.outcome = "data" /\ program.throttled ->
                    WithValue([sock EXCEPT !.nextRead = <<h.chunk>>])
               [] OTHER -> sock
  /\ ready' = Tail(ready) \o ChangePosts(sock.p_, sock'.p_)
  /\ queue' = IF h.outcome = "data" /\ ~program.throttled
              THEN Append(queue, MessageItem("recv", <<h.chunk>>)) ELSE queue
  /\ net' = [net EXCEPT !.reading = IF Rearms(h.outcome) THEN @ + 1 ELSE @]
  /\ UNCHANGED <<program, running, procVars, slots, log>>

\* Seeded fault: the coroutine is not told.
WrittenSilently(s) == [s EXCEPT !.isWriting = FALSE]
\* What a successful write leaves.
Written(s) == WithValue([s EXCEPT !.isWriting = FALSE])

\* The handler of async_write().
RunWrite ==
  LET h == Head(ready) IN
  /\ RunsHandler("write")
  /\ sock' = IF h.outcome = "error"
             THEN WithError([sock EXCEPT !.isWriting = FALSE])
             ELSE Written(sock)
  /\ ready' = Tail(ready) \o ChangePosts(sock.p_, sock'.p_)
  /\ UNCHANGED <<program, running, queue, procVars, slots, net, log>>

\* The handler of async_handshake(), on the promise of start().
RunHandshake ==
  LET h == Head(ready) IN
  /\ RunsHandler("handshake")
  /\ sock' = [sock EXCEPT !.hs = IF h.outcome = "error" THEN SetException(@)
                                                       ELSE SetIfUnset(@)]
  /\ ready' = Tail(ready) \o ChangePosts(sock.hs, sock'.hs)
  /\ UNCHANGED <<program, running, queue, procVars, slots, net, log>>

-----------------------------------------------------------------------------
(* sendThrottled(), which both processes use *)

NoMessage == [slot |-> "init", body |-> <<>>]

\* The call, up to canQueue(): it yields once when queue_ is long.
BeginSendThrottled(p, s, body) ==
  /\ outgoing' = [outgoing EXCEPT ![p] = [slot |-> s, body |-> body]]
  /\ IF Len(queue) > program.limit
     THEN Park(p, "yield") /\ queue' = Append(queue, ResumeItem(p, resumes[p]))
     ELSE GoOn(p, "canQueue") /\ UNCHANGED queue

\* p is about to call canQueue(), again when it was resumed in between.
InCanQueue(p) == running = p /\ pc[p] \in {"canQueue", "yield", "room"}

\* findProc() const dereferences the empty entry of a receiver that has died.
CanQueueNull(p) ==
  /\ InCanQueue(p)
  /\ ~Alive(Receiver(outgoing[p].slot))
  /\ at' = "crashed"
  /\ running' = Nobody
  /\ UNCHANGED <<program, queue, ready, procVars, slots, sock, net, log>>

\* Seeded fault: the socket is not held back by its owner.
MustWaitOwnerOnly(s) == s \in OutSlots /\ ShouldThrottle(slots[s])
MustWait(s) == ShouldThrottle(slots[s])

WaitForRoom(p) ==
  LET s == outgoing[p].slot IN
  /\ InCanQueue(p)
  /\ Alive(Receiver(s)) /\ MustWait(s)
  /\ Park(p, "room")
  /\ slots' = [slots EXCEPT ![s].p_ = SetContinuation(@, Continuation(p))]
  /\ ready' = ready \o SetContinuationPosts(slots[s].p_, Continuation(p))
  /\ UNCHANGED <<program, at, queue, life, resumes, outgoing, sock, net, log>>

\* The message is queued and sendThrottled() returns.  The socket then forgets
\* the chunk and starts the next read.
ThrottledSend(p) ==
  LET m == outgoing[p] IN
  /\ InCanQueue(p)
  /\ Alive(Receiver(m.slot)) /\ ~MustWait(m.slot)
  /\ queue' = Append(queue, MessageItem(m.slot, m.body))
  /\ outgoing' = [outgoing EXCEPT ![p] = NoMessage]
  /\ GoOn(p, IF p = "socket" THEN "check" ELSE "user")
  /\ IF p = "socket" THEN /\ sock' = [sock EXCEPT !.nextRead = <<>>]
                          /\ net' = [net EXCEPT !.reading = @ + 1]
                     ELSE UNCHANGED <<sock, net>>
  /\ UNCHANGED <<program, at, ready, life, resumes, slots, log>>

-----------------------------------------------------------------------------
(* TSocketProcess::run() *)

InSocket(l) == running = "socket" /\ pc["socket"] = l

\* co_await start(): the SSL socket starts its handshake and waits for it.
Handshake ==
  /\ InSocket("start") /\ program.secure
  /\ Park("socket", "handshake")
  /\ net' = [net EXCEPT !.shaking = TRUE]
  /\ sock' = [sock EXCEPT !.hs = SetContinuation(@, Continuation("socket"))]
  /\ UNCHANGED <<program, at, queue, ready, life, resumes, outgoing, slots, log>>

\* The socket tells the server of itself and waits for its owner.
Announce ==
  /\ \/ InSocket("start") /\ ~program.secure
     \/ InSocket("handshake")
  /\ queue' = Append(queue, ReadyItem)
  /\ Park("socket", "init")
  /\ UNCHANGED <<program, at, ready, life, resumes, outgoing, slots, sock, net,
                 log>>

\* toSend has arrived: the first asyncRead().
Initialise ==
  /\ InSocket("init")
  /\ slots' = [slots EXCEPT !["init"] = Pop(@)]
  /\ net' = [net EXCEPT !.reading = @ + 1]
  /\ GoOn("socket", "loop")
  /\ UNCHANGED <<program, at, queue, ready, life, resumes, outgoing, sock, log>>

\* The loop ends at end of file.
EndOfFile ==
  /\ InSocket("loop") /\ sock.eof_
  /\ Dies("socket")
  /\ UNCHANGED <<program, at, queue, ready, pc, resumes, outgoing, slots, sock,
                 net, log>>

\* A chunk that was read is passed on, with back pressure.
ForwardRead ==
  /\ InSocket("loop") /\ ~sock.eof_ /\ sock.nextRead # <<>>
  /\ BeginSendThrottled("socket", "recv", sock.nextRead)
  /\ UNCHANGED <<program, at, ready, life, resumes, slots, sock, net, log>>

NothingToForward ==
  /\ InSocket("loop") /\ ~sock.eof_ /\ sock.nextRead = <<>>
  /\ GoOn("socket", "check")
  /\ UNCHANGED <<program, at, queue, ready, life, resumes, outgoing, slots, sock,
                 net, log>>

\* Suspends the socket on w and p_.
ParkOnPromise(w) ==
  /\ Park("socket", w)
  /\ sock' = [sock EXCEPT !.p_ = SetContinuation(@, Continuation("socket"))]
  /\ ready' = ready \o SetContinuationPosts(sock.p_, Continuation("socket"))

\* co_await WaitOnFuture(&p_): does not suspend when p_ is set.
AwaitWrite ==
  /\ InSocket("check") /\ sock.isWriting
  /\ IF sock.p_.set_ THEN GoOn("socket", "written") /\ UNCHANGED <<ready, sock>>
                     ELSE ParkOnPromise("written")
  /\ UNCHANGED <<program, at, queue, life, resumes, outgoing, slots, net, log>>

\* co_await tryRecv(send_data, send_many_data), or p_.
AwaitBuffers ==
  /\ InSocket("check") /\ ~sock.isWriting
  /\ IF \E s \in OutSlots : Size(slots[s]) > 0
     THEN GoOn("socket", "buffers") /\ UNCHANGED <<ready, sock>>
     ELSE ParkOnPromise("buffers")
  /\ UNCHANGED <<program, at, queue, life, resumes, outgoing, slots, net, log>>

\* Seeded fault: the exception is not looked at.
CheckExceptNever == FALSE
\* checkExcept() throws.
CheckExcept == sock.except_

\* The wait for p_ is over.
WriteAwaited ==
  /\ InSocket("written")
  /\ IF CheckExcept THEN Dies("socket") /\ UNCHANGED pc
                    ELSE GoOn("socket", "loop") /\ UNCHANGED life
  /\ UNCHANGED <<program, at, queue, ready, resumes, outgoing, slots, sock, net,
                 log>>

\* Seeded fault: the write in progress is not remembered.
WritingForgotten(s) == [s EXCEPT !.p_ = NewPromise]
\* Seeded fault: p_ may still be set from before.
WritingKeepsPromise(s) == [s EXCEPT !.isWriting = TRUE]
\* The members after write().
Writing(s) == [s EXCEPT !.isWriting = TRUE, !.p_ = NewPromise]

\* get_optional() of a slot: its oldest message, what is left, what pop() posts.
HasMessage(s) == Size(slots[s]) > 0
Taken(s) == IF HasMessage(s) THEN Oldest(slots[s]) ELSE <<>>
Remaining(s) == IF HasMessage(s) THEN Pop(slots[s]) ELSE slots[s]
TakePosts(s) == IF HasMessage(s) THEN PopPosts(slots[s]) ELSE <<>>

\* await_resume() takes a message of each slot; then checkExcept(), and write()
\* of the first buffer or, when there is none, of the collection.  Either the
\* network takes the whole buffer at once, or what is left is read later, from
\* memory that is freed when the coroutine goes on.
TakeBuffers ==
  LET handlers == ready \o TakePosts("send_data") \o TakePosts("send_many_data")
      many == Combine(Taken("send_many_data"))
      buff == IF HasMessage("send_data") THEN Taken("send_data") ELSE many
      none == ~HasMessage("send_data") /\ ~HasMessage("send_many_data")
  IN /\ InSocket("buffers")
     /\ slots' = [s \in Slots |-> IF s \in OutSlots THEN Remaining(s) ELSE slots[s]]
     /\ log' = [log EXCEPT !.taken = @ \o Taken("send_data") \o many]
     /\ \/ /\ CheckExcept
           /\ Dies("socket")
           /\ ready' = handlers
           /\ UNCHANGED <<pc, sock, net>>
        \/ /\ ~CheckExcept /\ none
           /\ GoOn("socket", "loop")
           /\ ready' = handlers
           /\ UNCHANGED <<life, sock, net>>
        \/ /\ ~CheckExcept /\ ~none
           /\ GoOn("socket", "loop")
           /\ sock' = Writing(sock)
           /\ \/ /\ net' = [net EXCEPT !.wire = @ \o buff]
                 /\ ready' = Append(handlers, Completion("write", "ok", 0))
              \/ /\ net' = [net EXCEPT !.writing = Append(@, buff)]
                 /\ ready' = handlers
           /\ UNCHANGED life
     /\ UNCHANGED <<program, at, queue, resumes, outgoing>>

-----------------------------------------------------------------------------
(* The owner: TcpEchoRunner, or any process that uses the calls of program *)

InOwner(l) == running = "owner" /\ pc["owner"] = l

\* Its run() returns, or makeSendAddress() in a Tcp call throws.
OwnerEnds ==
  /\ InOwner("user")
  /\ ~program.echo \/ ~Alive("socket")
  /\ Dies("owner")
  /\ UNCHANGED <<program, at, queue, ready, pc, resumes, outgoing, slots, sock,
                 net, log>>

\* Tcp::initRecvSocket().
InitRecvSocket ==
  /\ InOwner("start") /\ Alive("socket")
  /\ queue' = Append(queue, MessageItem("init", <<>>))
  /\ GoOn("owner", "user")
  /\ UNCHANGED <<program, at, ready, life, resumes, outgoing, slots, sock, net,
                 log>>

\* The next blocks of the owner, as the argument of a call.
OutSlot(call) == IF call \in {"send", "sendThrottled"} THEN "send_data"
                                                      ELSE "send_many_data"
Blocks(call) == IF OutSlot(call) = "send_data" THEN 1 ELSE 2
Argument(call) ==
  IF OutSlot(call) = "send_data" THEN <<log.sent + 1>>
  ELSE << <<log.sent + 1>>, <<log.sent + 2>> >>

\* Tcp::send(), sendMany(), sendThrottled() and sendManyThrottled().
OwnerSends(call) ==
  /\ InOwner("user") /\ call \in program.calls
  /\ Alive("socket")
  /\ log.sent + Blocks(call) <= MaxOut
  /\ program.echo => log.sent < Len(log.received)
  /\ log' = [log EXCEPT !.sent = @ + Blocks(call)]
  /\ IF call \in {"send", "sendMany"}
     THEN /\ queue' = Append(queue, MessageItem(OutSlot(call), Argument(call)))
          /\ UNCHANGED <<running, pc, outgoing>>
     ELSE BeginSendThrottled("owner", OutSlot(call), Argument(call))
  /\ UNCHANGED <<program, at, ready, life, resumes, slots, sock, net>>

\* co_await recv(recv).
AwaitChunk ==
  /\ InOwner("user")
  /\ program.echo => log.sent = Len(log.received)
  /\ IF HasMessage("recv") THEN GoOn("owner", "recv") ELSE Park("owner", "recv")
  /\ UNCHANGED <<program, at, queue, ready, life, resumes, outgoing, slots, sock,
                 net, log>>

TakeChunk ==
  /\ InOwner("recv")
  /\ slots' = [slots EXCEPT !["recv"] = Remaining("recv")]
  /\ ready' = ready \o TakePosts("recv")
  /\ log' = [log EXCEPT !.received = @ \o Taken("recv")]
  /\ GoOn("owner", "user")
  /\ UNCHANGED <<program, at, queue, life, resumes, outgoing, sock, net>>

\* co_await sleep(): the handler of a request, or the generator of its chunks.
OwnerSleeps ==
  /\ InOwner("user") /\ program.sleeps /\ resumes["owner"] <= MaxResumes
  /\ Park("owner", "sleep")
  /\ UNCHANGED <<program, at, queue, ready, life, resumes, outgoing, slots, sock,
                 net, log>>

\* In run_one() or poll() its timer expires, and the handler resumes the owner.
TimerWakesOwner ==
  /\ at \in {"wait", "poll"} /\ running = Nobody
  /\ Alive("owner") /\ pc["owner"] = "sleep"
  /\ at' = "poll"
  /\ running' = "owner"
  /\ resumes' = [resumes EXCEPT !["owner"] = @ + 1]
  /\ pc' = [pc EXCEPT !["owner"] = "user"]
  /\ UNCHANGED <<program, queue, ready, life, outgoing, slots, sock, net, log>>

-----------------------------------------------------------------------------
(* The network: an operation that is pending completes at any time. *)

Completes(op, outcome, chunk) ==
  /\ running = Nobody /\ at # "crashed"
  /\ ready' = Append(ready, Completion(op, outcome, chunk))
  /\ UNCHANGED <<program, at, running, queue, procVars, slots, sock>>

\* The peer's next chunk, its end of file, or an error.
ReadCompletes ==
  /\ net.reading > 0
  /\ net' = [net EXCEPT !.reading = @ - 1]
  /\ \/ /\ log.fed < MaxIn
        /\ log' = [log EXCEPT !.fed = @ + 1]
        /\ Completes("read", "data", log.fed + 1)
     \/ /\ \E outcome \in {"eof", "error"} : Completes("read", outcome, 0)
        /\ UNCHANGED log

\* What was left of a write is sent, as it is or as what the freed memory holds.
Garbage == 0
WriteCompletes ==
  /\ net.writing # <<>>
  /\ \/ /\ \E sent \in {Head(net.writing),
                      [i \in DOMAIN Head(net.writing) |-> Garbage]} :
             net' = [net EXCEPT !.writing = Tail(@), !.wire = @ \o sent]
        /\ Completes("write", "ok", 0)
     \/ /\ net' = [net EXCEPT !.writing = Tail(@)]
        /\ Completes("write", "error", 0)
  /\ UNCHANGED log

HandshakeCompletes ==
  /\ net.shaking
  /\ net' = [net EXCEPT !.shaking = FALSE]
  /\ \E outcome \in {"ok", "error"} : Completes("handshake", outcome, 0)
  /\ UNCHANGED log

-----------------------------------------------------------------------------
Init ==
  /\ program \in Programs
  /\ at = "top" /\ running = Nobody
  /\ queue = <<ResumeItem("socket", 0)>> /\ ready = <<>>
  /\ life = [p \in Processes |-> IF p = "socket" THEN "alive" ELSE "unborn"]
  /\ pc = [p \in Processes |-> "start"]
  /\ resumes = [p \in Processes |-> 0]
  /\ outgoing = [p \in Processes |-> NoMessage]
  /\ slots = [s \in Slots |-> NewQueue]
  /\ sock = [eof_ |-> FALSE, except_ |-> FALSE, nextRead |-> <<>>,
             isWriting |-> FALSE, p_ |-> NewPromise, hs |-> NewPromise]
  /\ net = [reading |-> 0, writing |-> <<>>, shaking |-> FALSE,
            wire |-> <<>>]
  /\ log = [fed |-> 0, sent |-> 0, received |-> <<>>, taken |-> <<>>]

\* A step of the one thread.
Thread ==
  \/ ProcessMessage \/ ProcessResume \/ ServerSpawnsOwner \/ RunOne
  \/ RunContinuation \/ RunRead \/ RunWrite \/ RunHandshake \/ RunStaleHandler
  \/ EndPoll \/ Destroy
  \/ \E p \in Processes : CanQueueNull(p) \/ WaitForRoom(p) \/ ThrottledSend(p)
  \/ Handshake \/ Announce \/ Initialise \/ EndOfFile \/ ForwardRead
  \/ NothingToForward \/ AwaitWrite \/ AwaitBuffers \/ WriteAwaited \/ TakeBuffers
  \/ OwnerEnds \/ InitRecvSocket \/ AwaitChunk \/ TakeChunk \/ OwnerSleeps
  \/ \E call \in program.calls : OwnerSends(call)

Network == ReadCompletes \/ WriteCompletes \/ HandshakeCompletes

Next == Thread \/ Network \/ TimerWakesOwner

Spec == Init /\ [][Next]_vars

\* The thread keeps executing.  Nothing is assumed of the peer, ...
FairSpec == Spec /\ WF_vars(Thread)

\* ... or that it reads what it is sent, in the end.
ReadingPeerSpec == FairSpec /\ WF_vars(WriteCompletes)

-----------------------------------------------------------------------------
(* What a connection promises *)

\* The type of every variable; there is one readBuff, so at most one read.
Bodies(s) == IF s = "send_many_data" THEN Seq(Seq(Nat)) ELSE Seq(Nat)
Handlers ==
  [kind : {"continuation", "read", "write", "handshake"}, pid : Processes,
   resumes : Nat, outcome : {"ok", "data", "eof", "error"}, chunk : Nat]

\* An exec_ without a value is not a continuation.
ASSUME NoExecAssumption == NoExec \notin Handlers

TypeOK ==
  /\ program \in Programs
  /\ at \in {"top", "wait", "poll", "destroy", "crashed"}
  /\ running \in Processes \cup {Nobody}
  /\ \A i \in 1..Len(queue) : /\ queue[i].pid \in Processes
                             /\ queue[i].slot \in Slots
                             /\ queue[i].body \in Bodies(queue[i].slot)
                             /\ queue[i].resume \in Nat
  /\ ready \in Seq(Handlers)
  /\ life \in [Processes -> {"unborn", "alive", "dead", "freed"}]
  /\ pc \in [Processes -> {"start", "handshake", "init", "loop", "canQueue",
                           "yield", "room", "check", "written", "buffers",
                           "user", "recv", "sleep"}]
  /\ resumes \in [Processes -> Nat]
  /\ \A p \in Processes : /\ outgoing[p].slot \in Slots
                         /\ outgoing[p].body \in Bodies(outgoing[p].slot)
  /\ \A s \in Slots : slots[s] \in Queues(Bodies(s), Handlers)
  /\ sock \in [eof_ : BOOLEAN, except_ : BOOLEAN, nextRead : Seq(Nat),
               isWriting : BOOLEAN, p_ : Promises(Handlers),
               hs : Promises(Handlers)]
  /\ net \in [reading : 0..1, writing : Seq(Seq(Nat)), shaking : BOOLEAN,
              wire : Seq(Nat)]
  /\ log \in [fed : Nat, sent : Nat, received : Seq(Nat), taken : Seq(Nat)]

\* The chunks on their way to the owner: among the first n items of queue_, and
\* read by the socket in handlers that have not run.
InFlight(n) ==
  {i \in 1..n : queue[i].kind = "message" /\ queue[i].slot = "recv"}
Unhandled == {k \in 1..Len(ready) : ready[k].outcome = "data"}

\* Every chunk the peer has sent is in exactly one place on its way to the
\* owner, in the order of the stream, while the connection lives: nextRead is
\* never overwritten (asyncRead, and its call after sendThrottled).  The chunks
\* are numbered, so the places hold consecutive numbers.
ReadsInOrder ==
  LET box == Contents(slots["recv"])
      got == Len(log.received)
      passed == got + Len(box)
      read == passed + Cardinality(InFlight(Len(queue)))
  IN Alive("socket") /\ Alive("owner") =>
       /\ \A k \in 1..got : log.received[k] = k
       /\ \A k \in 1..Len(box) : box[k] = <<got + k>>
       /\ \A i \in InFlight(Len(queue)) :
            queue[i].body = <<passed + Cardinality(InFlight(i))>>
       /\ sock.nextRead \in {<<>>, <<read + 1>>}
       /\ \A k \in Unhandled : ready[k].chunk = read + Len(sock.nextRead) + 1
       /\ Cardinality(Unhandled) = log.fed - read - Len(sock.nextRead)
       /\ Cardinality(Unhandled) <= 1

\* What was taken out of the slots is written: the peer has got it, in the order
\* in which it was taken and without gaps, except for the one write that is in
\* progress or has failed ("don't get a message to write until we are done with
\* writing the last one").  A pending write may send what the freed memory of
\* its buffer holds by then.
WriteFailed == \/ sock.except_ \/ ~Alive("socket")
               \/ \E k \in 1..Len(ready) : /\ ready[k].kind = "write"
                                         /\ ready[k].outcome = "error"

TakenIsWritten ==
  LET out == net.wire \o FlattenSeq(net.writing) IN
  /\ Len(net.writing) <= 1
  /\ Len(out) <= Len(log.taken)
  /\ Len(out) = Len(log.taken) \/ WriteFailed
  /\ \A k \in 1..Len(out) : out[k] \in {log.taken[k], Garbage}

\* makeSendAddress() in a Tcp call finds the socket process, because both are
\* destroyed together before the owner can be resumed again (destroy, link in
\* the owner's constructor).  The one exception is an owner that was asleep: its
\* timer may fire in the poll() in which the socket died, before anything is
\* destroyed, and then the call throws.
SocketIsFound ==
  running = "owner" /\ pc["owner"] \in {"start", "user"} =>
    \/ Alive("socket")
    \/ /\ program.sleeps /\ pc["owner"] = "user"
       /\ at = "poll" /\ life["socket"] = "dead"

\* Nothing that the loop of the socket has to act on is overlooked: when it is
\* suspended while there is an end of file, an error, a chunk, a finished write
\* or a buffer for it, its continuation is about to run.
Actionable ==
  \/ sock.eof_ \/ sock.except_ \/ sock.nextRead # <<>>
  \/ pc["socket"] = "written" /\ ~sock.isWriting
  \/ pc["socket"] = "buffers" /\ \E s \in OutSlots : HasMessage(s)

NoLostWakeup ==
  Suspended("socket") /\ pc["socket"] \in {"written", "buffers"} /\ Actionable
    => \E k \in 1..Len(ready) : ready[k] = Continuation("socket")

\* With options_.throttled the chunks that wait for the owner are bounded,
\* however slow it is: at most kThrottle - 1 are in its slot when canQueue()
\* lets another one pass, and at most limit + 1 are then in queue_.
ThrottledReadsBounded ==
  program.throttled =>
    Size(slots["recv"]) + Cardinality(InFlight(Len(queue)))
      <= kThrottle + program.limit

\* The socket always suspends again: its loop does not spin on a promise that
\* stays set (WaitOnFuture does not consume it, write() resets it).
SocketSuspends == running = "socket" ~> running # "socket"

\* After an end of file or an error the socket and its owner are destroyed,
\* unless the socket is held back by its owner at the time.
BrokenConnectionEnds ==
  (sock.eof_ \/ sock.except_)
    ~> (\/ life["socket"] = "freed" /\ life["owner"] = "freed"
        \/ pc["socket"] = "room" \/ at = "crashed")

\* A socket that is not throttled takes everything its owner sends, as long as
\* the peer reads and the connection lives.
UnthrottledSocketWrites ==
  \A n \in 1..MaxOut :
    (~program.throttled /\ log.sent >= n)
      ~> (Len(log.taken) >= n \/ ~Alive("socket") \/ at = "crashed")

\* A throttled owner is resumed, as long as the peer reads and the connection
\* lives.
ThrottledOwnerResumes ==
  (Suspended("owner") /\ pc["owner"] = "room")
    ~> (~Suspended("owner") \/ pc["owner"] # "room" \/ at = "crashed")
=============================================================================
