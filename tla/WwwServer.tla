------------------------------ MODULE WwwServer ------------------------------
(***************************************************************************)
(* The web server of eslang_www on the scheduler of module Context: the     *)
(* Www::Server process, the ListenerProcess it spawns (Tcp.cpp), a socket   *)
(* process for each accepted connection and the SessionRunner that answers  *)
(* its requests (Www.cpp) with the handler of examples/www.cpp.             *)
(*                                                                          *)
(* Every step of a process here is a step of Context, restricted by where   *)
(* its coroutine is (pc), so the queue, the timers, the links and the order *)
(* in which processes are destroyed are those of Context.  The socket       *)
(* process is a throttled plain socket; its p_ is reduced to set_, since     *)
(* exec_ holds its continuation exactly while it is suspended on p_ and     *)
(* set_ is false (module SocketProcess has the promise itself), and its     *)
(* slots are one.  What boost::beast makes of a chunk is open: an error,    *)
(* nothing yet, or a request (at most one per chunk, since currentRead_ is  *)
(* never committed to and WwwParser::push therefore ends after its first    *)
(* turn).                                                                   *)
(***************************************************************************)
EXTENDS Context

CONSTANTS
  MaxConnections,   \* bound on the connections that are accepted
  MaxChunks,        \* bound on the chunks of data the clients send
  MaxPieces         \* bound on the pieces of a chunked response

ASSUME WwwAssumption ==
  MaxConnections \in Nat /\ MaxChunks \in Nat /\ MaxPieces \in Nat

VARIABLES
  role,       \* the class of each process
  pc,         \* where its coroutine is
  peer,       \* the Tcp::Socket the server has received, the socket of a
              \* session, the toSend of a socket
  sock,       \* of each socket process, the members that are set: eof_,
              \* nextRead, except_, isWriting (an async_write is in progress)
              \* and p_ (its set_)
  asks,       \* pending operations: async_accept of the listener, and
              \* async_read_some of sockets, by process
  batch,      \* the buffers of the StreamBatcher of a session
  log         \* connections, chunks: how many so far; of each session the
              \* requests it has parsed and the answers it has sent; whether
              \* std::terminate() has been called

wwwVars == <<role, pc, peer, sock, asks, batch, log>>
allVars == <<vars, wwwVars>>

\* Process p of class r runs its own code, at l.
Runs(p, r, l) == InUserCode(p) /\ role[p] = r /\ pc[p] = l

\* A process of class r is constructed; it starts with peer b.
Becomes(r, b, p, l) ==
  /\ role' = [role EXCEPT ![NextPid] = r]
  /\ pc' = [pc EXCEPT ![NextPid] = "start", ![p] = l]
  /\ peer' = [peer EXCEPT ![NextPid] = b]

\* p goes on, at l.
GoOn(p, l) == pc' = [pc EXCEPT ![p] = l]

\* send() of the running process, to b.
Posts(b, body) ==
  /\ sends < MaxSends
  /\ QueueSend(b, body)
  /\ UNCHANGED <<loopVars, tableVars, procVars, linkVars, mq, noticed, ioVars,
                 memVars>>

-----------------------------------------------------------------------------
(* co_await recv(slot), of the server (new_socket), of a socket (init) and of *)
(* a session (recv); the next thing each does with the message.               *)

NextAt(p) == CASE role[p] = "server" -> "spawn"
               [] role[p] = "socket" -> "loop"
               [] role[p] = "session" -> "parse"

WaitForMessage(p) ==
  /\ pc[p] = "recv"
  /\ Suspend(p, "recv")
  /\ UNCHANGED wwwVars

\* The body is the Tcp::Socket for the server, the address of the session for
\* the socket, which then starts its first read.
GetMessage(p) ==
  /\ pc[p] = "recv" /\ Size(mq[p]) > 0
  /\ Receive(p) \/ AwaitResume(p)
  /\ GoOn(p, NextAt(p))
  /\ peer' = IF role[p] = "session" THEN peer
             ELSE [peer EXCEPT ![p] = Oldest(mq[p]).body]
  /\ asks' = IF role[p] = "socket" THEN asks \cup {p} ELSE asks
  /\ UNCHANGED <<role, sock, batch, log>>

-----------------------------------------------------------------------------
(* Www::Server *)

MainSpawnsServer ==
  /\ processes = <<>>
  /\ MainSpawn
  /\ Becomes("server", NoPid, NextPid, "start")
  /\ UNCHANGED <<sock, asks, batch, log>>

\* Tcp::makeListener().
MakeListener(p) ==
  /\ Runs(p, "server", "start")
  /\ SpawnLink(p)
  /\ Becomes("listener", p, p, "recv")
  /\ UNCHANGED <<sock, asks, batch, log>>

\* spawn<SessionRunner>(), whose constructor links it to its socket, or throws.
SpawnSession(p) ==
  /\ Runs(p, "server", "spawn")
  /\ IF Found(processes, peer[p])
     THEN /\ SpawnCtorLink(p, peer[p])
          /\ Becomes("session", peer[p], p, "recv")
     ELSE SpawnThrows(p, peer[p]) /\ UNCHANGED <<role, pc, peer>>
  /\ UNCHANGED <<sock, asks, batch, log>>

-----------------------------------------------------------------------------
(* ListenerProcess *)

\* The listener binds, starts to accept and waits for error_, a promise of its
\* own (for the Context a WaitingAlways); or a call on the acceptor throws.
Listen(p) ==
  /\ Runs(p, "listener", "start")
  /\ \/ /\ Park(p, "always")
        /\ GoOn(p, "failed")
        /\ asks' = asks \cup {p}
        /\ UNCHANGED <<at, dying, kills, tableVars, resumes, sending, linkVars,
                       mailVars, ioVars, memVars>>
     \/ Finish(p) /\ UNCHANGED <<pc, asks>>
  /\ UNCHANGED <<role, peer, sock, batch, log>>

\* The io_service is in run_one() or poll(), where p's operation completes.
Completes(p, r) ==
  /\ at \in {"wait", "poll"} /\ running = NoPid
  /\ p \in asks /\ role[p] = r
  /\ at' = "poll"

\* Seeded fault: the listener does not take the socket with it.
AcceptLinksNobody(p) == {}
\* addKillOnDie(): the listener takes the new socket with it, not the reverse.
AcceptLinks(p) == {p}

\* The accept handler spawns a socket process and accepts again.  It runs outside
\* any resume(), even when the listener has died and waits in toDestroy_.
Accept(p) ==
  /\ Completes(p, "listener")
  /\ log.connections < MaxConnections
  /\ Cardinality({q \in Pids : Live(q)}) <= MaxProcs - 2
  /\ log' = [log EXCEPT !.connections = @ + 1]
  /\ Constructed({}, NoPid, AcceptLinks(p))
  /\ Becomes("socket", peer[p], p, pc[p])
  /\ UNCHANGED <<running, dying, kills, toDestroy, sends, noticed, ioVars,
                 memVars, sock, asks, batch>>

\* ... or sets the exception of error_ and accepts no more.
AcceptFails(p) ==
  /\ Completes(p, "listener")
  /\ asks' = asks \ {p}
  /\ ready' = Append(ready, Continuation(p, resumes[p]))
  /\ UNCHANGED <<running, dying, kills, tableVars, procVars, linkVars, mailVars,
                 timers, stopped, memVars, role, pc, peer, sock, batch, log>>

\* The listener is resumed: process() throws.
ListenerThrows(p) ==
  /\ Runs(p, "listener", "failed")
  /\ Finish(p)
  /\ UNCHANGED wwwVars

-----------------------------------------------------------------------------
(* The socket process *)

\* It tells the server of itself and waits for the session.
Announce(p) ==
  /\ Runs(p, "socket", "start")
  /\ Posts(peer[p], p)
  /\ GoOn(p, "recv")
  /\ UNCHANGED <<role, peer, sock, asks, batch, log>>

\* The socket is suspended on p_: exec_ is its continuation.
OnPromise(p) == waiting[p] \in {"timedRecv", "always"}

\* Seeded fault: the handler does not set p_.
LeavesUnset(p, ms) == sock' = [sock EXCEPT ![p] = ms] /\ UNCHANGED ready

\* A handler leaves the members ms and calls p_.setIfUnset().
Leaves(p, ms) ==
  /\ sock' = [sock EXCEPT ![p] = ms \cup {"p_"}]
  /\ ready' = IF OnPromise(p) /\ "p_" \notin sock[p]
              THEN Append(ready, Continuation(p, resumes[p])) ELSE ready

\* The read handler: data (nextRead), end of file (eof_) or an error (except_).
ReadCompletes(p, e) ==
  /\ Completes(p, "socket")
  /\ e = "nextRead" => log.chunks < MaxChunks
  /\ log' = IF e = "nextRead" THEN [log EXCEPT !.chunks = @ + 1] ELSE log
  /\ Leaves(p, sock[p] \cup {e})
  /\ asks' = asks \ {p}
  /\ UNCHANGED <<running, dying, kills, tableVars, procVars, linkVars, mailVars,
                 timers, stopped, memVars, role, pc, peer, batch>>

\* The write handler: the buffers are written (es is empty), or an error.
WriteCompletes(p, es) ==
  /\ at \in {"wait", "poll"} /\ running = NoPid
  /\ "isWriting" \in sock[p]
  /\ at' = "poll"
  /\ Leaves(p, (sock[p] \ {"isWriting"}) \cup es)
  /\ UNCHANGED <<running, dying, kills, tableVars, procVars, linkVars, mailVars,
                 timers, stopped, memVars, role, pc, peer, asks, batch, log>>

\* The loop of the socket: end of file, ...
SocketEnds(p) ==
  /\ Runs(p, "socket", "loop") /\ "eof_" \in sock[p]
  /\ Finish(p)
  /\ UNCHANGED wwwVars

\* ... a chunk for the session, with back pressure, ...
Forward(p) ==
  /\ Runs(p, "socket", "loop") /\ "nextRead" \in sock[p] /\ "eof_" \notin sock[p]
  /\ SendThrottled(p, peer[p])
  /\ GoOn(p, "forwarded")
  /\ UNCHANGED <<role, peer, sock, asks, batch, log>>

\* ... and the steps of sendThrottled() ...
Forwarding(p) ==
  /\ WaitForRoom(p) \/ ThrottledSend(p) \/ CanQueueNull(p)
  /\ UNCHANGED wwwVars

\* ... after which it reads on.
ReadOn(p) ==
  /\ Runs(p, "socket", "forwarded")
  /\ GoOn(p, "loop")
  /\ sock' = [sock EXCEPT ![p] = @ \ {"nextRead"}]
  /\ asks' = asks \cup {p}
  /\ UNCHANGED <<vars, role, peer, batch, log>>

\* It has nothing to forward, ...
AtWrites(p) == Runs(p, "socket", "loop") /\ sock[p] \cap {"eof_", "nextRead"} = {}

\* ... and checkExcept() decides how it goes on.
CheckExcept(p) == GoOn(p, IF "except_" \in sock[p] THEN "thrown" ELSE "loop")

\* While isWriting it waits for p_ alone, and leaves the buffers in its slot; ...
AwaitWrite(p) ==
  /\ AtWrites(p) /\ "isWriting" \in sock[p]
  /\ IF "p_" \in sock[p]
     THEN CheckExcept(p) /\ UNCHANGED vars
     ELSE /\ Park(p, "always")
          /\ GoOn(p, "written")
          /\ UNCHANGED <<at, dying, kills, tableVars, resumes, sending, linkVars,
                         mailVars, ioVars, memVars>>
  /\ UNCHANGED <<role, peer, sock, asks, batch, log>>

\* ... resume() has processed p_ ...
WriteAwaited(p) ==
  /\ Runs(p, "socket", "written")
  /\ CheckExcept(p)
  /\ sock' = [sock EXCEPT ![p] = @ \ {"p_"}]
  /\ UNCHANGED <<vars, role, peer, asks, batch, log>>

\* ... it takes from the slot only when it is not, ...
MayTake(p) == AtWrites(p) /\ "isWriting" \notin sock[p]

\* ... waits for buffers or p_ ...
SocketWaits(p) ==
  /\ MayTake(p) /\ Size(mq[p]) = 0
  /\ Park(p, "timedRecv")
  /\ ready' = IF "p_" \in sock[p] THEN Append(ready, Continuation(p, resumes[p]))
              ELSE ready
  /\ UNCHANGED <<at, dying, kills, tableVars, resumes, sending, linkVars,
                 mailVars, timers, stopped, memVars, wwwVars>>

\* ... and writes what there is.  resume() has processed p_, or write() gets a
\* new one.
Write(p) ==
  /\ role[p] = "socket" /\ pc[p] = "loop"
  /\ (MayTake(p) /\ Receive(p)) \/ AwaitResume(p)
  /\ CheckExcept(p)
  /\ sock' = [sock EXCEPT ![p] =
                (@ \ {"p_"}) \cup IF Size(mq[p]) = 0 \/ "except_" \in @ THEN {}
                                  ELSE {"isWriting"}]
  /\ UNCHANGED <<role, peer, asks, batch, log>>

-----------------------------------------------------------------------------
(* SessionRunner *)

\* Tcp::initRecvSocket(): makeSendAddress() throws when the socket is gone.
InitRecvSocket(p) ==
  /\ Runs(p, "session", "start")
  /\ IF Found(processes, peer[p])
     THEN Posts(peer[p], p) /\ GoOn(p, "recv")
     ELSE Finish(p) /\ UNCHANGED pc
  /\ UNCHANGED <<role, peer, sock, asks, batch, log>>

\* WwwParser::push(): no request yet, a request, or a parser error, which ends
\* the session.
Parse(p) ==
  /\ Runs(p, "session", "parse")
  /\ \/ GoOn(p, "recv") /\ UNCHANGED <<vars, log>>
     \/ /\ GoOn(p, "respond")
        /\ log' = [log EXCEPT !.requests[p] = @ + 1]
        /\ UNCHANGED vars
     \/ Finish(p) /\ UNCHANGED <<pc, log>>
  /\ UNCHANGED <<role, peer, sock, asks, batch>>

\* getResponse() answers at once (favicon) or sleeps first.
GetResponse(p) ==
  /\ Runs(p, "session", "respond")
  /\ GoOn(p, "response")
  /\ UNCHANGED vars \/ Suspend(p, "sleep")
  /\ UNCHANGED <<role, peer, sock, asks, batch, log>>

\* The StreamBatcher is constructed and gets the whole response (convert()), or
\* the header of a chunked one (convertHeaderOnly()); or getResponse() throws.
Respond(p) ==
  /\ Runs(p, "session", "response")
  /\ \/ /\ GoOn(p, "clear") /\ batch' = [batch EXCEPT ![p] = <<"whole">>]
        /\ UNCHANGED vars
     \/ /\ GoOn(p, "pieces") /\ batch' = [batch EXCEPT ![p] = <<"head">>]
        /\ UNCHANGED vars
     \/ Finish(p) /\ UNCHANGED <<pc, batch>>
  /\ UNCHANGED <<role, peer, sock, asks, log>>

\* getChunked(): it sleeps before each piece.
NextPiece(p) ==
  /\ Runs(p, "session", "pieces")
  /\ Len(batch[p]) <= MaxPieces
  /\ GoOn(p, "piece") /\ Suspend(p, "sleep")
  /\ UNCHANGED <<role, peer, sock, asks, batch, log>>

\* It yields the piece; or it throws, to the Context that has resumed it: the
\* session stays suspended and keeps its StreamBatcher.
Piece(p) ==
  /\ Runs(p, "session", "piece")
  /\ \/ /\ GoOn(p, "pieces") /\ batch' = [batch EXCEPT ![p] = Append(@, "piece")]
        /\ UNCHANGED vars
     \/ Finish(p) /\ UNCHANGED <<pc, batch>>
  /\ UNCHANGED <<role, peer, sock, asks, log>>

\* It returns, and the trailer follows; or it throws into the session
\* (SimpleHandler's does).
EndPieces(p) ==
  /\ Runs(p, "session", "pieces")
  /\ \/ GoOn(p, "clear") /\ batch' = [batch EXCEPT ![p] = Append(@, "last")]
     \/ GoOn(p, "unwind") /\ UNCHANGED batch
  /\ UNCHANGED <<vars, role, peer, sock, asks, log>>

\* Seeded fault: a batch with one buffer is not sent.
MustSendSeveral(p) == Len(batch[p]) > 1
MustSend(p) == batch[p] # <<>>

\* An exception leaves a destructor: std::terminate().
Terminates ==
  /\ at' = "crashed"
  /\ log' = [log EXCEPT !.terminated = TRUE]
  /\ running' = NoPid
  /\ UNCHANGED <<dying, kills, tableVars, procVars, linkVars, mailVars, ioVars,
                 memVars, role, pc, peer, sock, asks, batch>>

\* ~StreamBatcher() in the running session calls sendMany(), whose
\* makeSendAddress() throws when the socket is gone; the session then asks the
\* parser for more (there is nothing) and waits for the next chunk.
Clear(p) ==
  /\ Runs(p, "session", "clear") \/ Runs(p, "session", "unwind")
  /\ \/ /\ MustSend(p) /\ ~Found(processes, peer[p])
        /\ Terminates
     \/ /\ MustSend(p) => Found(processes, peer[p])
        /\ GoOn(p, IF pc[p] = "clear" THEN "recv" ELSE "thrown")
        /\ IF MustSend(p)
           THEN /\ Posts(peer[p], NoPid)
                /\ batch' = [batch EXCEPT ![p] = <<>>]
                /\ log' = [log EXCEPT !.answers[p] = Append(@, batch[p])]
           ELSE UNCHANGED <<vars, batch, log>>
        /\ UNCHANGED <<role, peer, sock, asks>>

\* The exception of a session or a socket ends it.
Throws(p) ==
  /\ pc[p] = "thrown"
  /\ Finish(p)
  /\ UNCHANGED wwwVars

-----------------------------------------------------------------------------
(* The loop of Context::run() *)

\* There is always a read or an accept in progress, so run_one() waits.
RunOneWaits ==
  /\ at = "top" /\ LoopContinues
  /\ queue = <<>>
  /\ at' = "wait"
  /\ UNCHANGED <<rest, stopped, ub, wwwVars>>

\* The end of destroy() deletes the coroutine, and with it the acceptor, the
\* socket, or a StreamBatcher, whose destructor sends what it holds.  Its socket
\* is gone: the session has died after it, or its death has killed it.
DeleteProcess ==
  /\ dying # NoPid /\ kills = {}
  /\ \/ /\ batch[dying] # <<>> /\ ~Found(processes, peer[dying])
        /\ Terminates
     \/ /\ batch[dying] = <<>>
        /\ FinishDestroy
        /\ asks' = asks \ {dying}
        /\ sock' = [sock EXCEPT ![dying] = {}]
        /\ UNCHANGED <<role, pc, peer, batch, log>>

\* The other steps are those of Context.
ContextStep ==
  \/ Run \/ Exit \/ ProcessMessage \/ ProcessResume
  \/ \E p \in Pids : TimerExpires(p)
  \/ RunAborted \/ RunTimer \/ RunContinuation \/ HandlerCrashes \/ EndPoll
  \/ DestroyNext \/ (\E q \in Pids : KillLinked(q)) \/ DestroyDone

-----------------------------------------------------------------------------
WwwInit ==
  /\ Init
  /\ role = [p \in Pids |-> "none"]
  /\ pc = [p \in Pids |-> "start"]
  /\ peer = [p \in Pids |-> NoPid]
  /\ sock = [p \in Pids |-> {}]
  /\ asks = {}
  /\ batch = [p \in Pids |-> <<>>]
  /\ log = [connections |-> 0, chunks |-> 0, requests |-> [p \in Pids |-> 0],
            answers |-> [p \in Pids |-> <<>>], terminated |-> FALSE]

\* A step of process p, which is running.
WwwStep(p) ==
  \/ WaitForMessage(p) \/ GetMessage(p)
  \/ MakeListener(p) \/ SpawnSession(p) \/ Listen(p) \/ ListenerThrows(p)
  \/ Announce(p) \/ SocketEnds(p) \/ Forward(p) \/ Forwarding(p) \/ ReadOn(p)
  \/ AwaitWrite(p) \/ WriteAwaited(p) \/ SocketWaits(p) \/ Write(p)
  \/ InitRecvSocket(p) \/ Parse(p) \/ GetResponse(p) \/ Respond(p)
  \/ NextPiece(p) \/ Piece(p) \/ EndPieces(p) \/ Clear(p) \/ Throws(p)

WwwNext ==
  \/ MainSpawnsServer
  \/ running # NoPid /\ WwwStep(running)
  \/ \E p \in asks : \/ Accept(p) \/ AcceptFails(p)
                     \/ ReadCompletes(p, "nextRead") \/ ReadCompletes(p, "eof_")
                     \/ ReadCompletes(p, "except_")
  \/ \E p \in Pids : WriteCompletes(p, {}) \/ WriteCompletes(p, {"except_"})
  \/ RunOneWaits \/ DeleteProcess
  \/ ContextStep /\ UNCHANGED wwwVars
  \/ Terminated /\ UNCHANGED wwwVars

WwwSpec == WwwInit /\ [][WwwNext]_allVars

-----------------------------------------------------------------------------
(* What the server promises *)

Of(r) == {p \in Pids : role[p] = r}

\* Between two turns of the loop no connection is left behind: a socket lives
\* only with its listener ("linking so it never gets lost"), a session only with
\* its socket, and the server only with the listener it has made.
NothingIsLost ==
  at \in {"top", "wait"} =>
    /\ \A p \in Of("socket") : Live(p) => \E q \in Of("listener") : Live(q)
    /\ \A p \in Of("session") : Live(p) => Live(peer[p])
    /\ \A p \in Of("server") :
         Live(p) /\ pc[p] # "start" => \E q \in Of("listener") : Live(q)

\* Each request gets its own answer, in one batch: all of it, unless the handler
\* threw, and nothing of another one.
Whole(a) ==
  \/ a = <<"whole">>
  \/ /\ Len(a) >= 2 /\ a[1] = "head" /\ a[Len(a)] = "last"
     /\ \A k \in 2..(Len(a) - 1) : a[k] = "piece"
AnswersAreWhole ==
  \A p \in Of("session") :
    LET a == log.answers[p] IN
    /\ Len(a) <= log.requests[p]
    /\ pc[p] = "recv" => Len(a) = log.requests[p]
    /\ \A k \in 1..Len(a) : Whole(a[k]) \/ (k = Len(a) /\ pc[p] = "thrown")

\* Nothing is overlooked: when the loop waits for the network only (no handler is
\* ready, no timer is armed), every session has answered all its requests and
\* waits for data; every socket waits for its handlers with nothing they have
\* left undone, has buffers in its slot only while its last write is in progress,
\* and is not held back by its session.
IdleMeansServed ==
  at = "wait" /\ ready = <<>> /\ timers = {} =>
    /\ \A p \in Of("session") : Live(p) =>
         /\ Len(log.answers[p]) = log.requests[p]
         /\ waiting[p] = "recv" /\ Size(mq[p]) = 0
    /\ \A p \in Of("socket") : Live(p) =>
         /\ waiting[p] # "future"
         /\ sock[p] \subseteq {"isWriting"}
         /\ Size(mq[p]) > 0 => "isWriting" \in sock[p]

\* A session that dies is cleaned up.
SessionsCleanUp == ~log.terminated
=============================================================================
