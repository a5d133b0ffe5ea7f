# Eslang in TLA+

Eslang is an Erlang-style actor library: *processes* are C++ coroutines that a
single-threaded `s::Context` schedules; they spawn, link and kill each other,
exchange messages through typed *slots*, sleep, and wait for promises that a
`boost::asio::io_service` runs. On top of it are TCP sockets (`eslang_io`) and
a web server (`eslang_www`). This directory holds TLA+ models of them, the TLC
instances that check the models and TLAPS proofs about them.

    tlc -workers 2 -config mail.cfg MCContext      # a run (see the table below)
    tlapm SchedulerProofs.tla                      # a proof module

## The system

| component | state | operations | modelled by |
|---|---|---|---|
| `Context` (eslang/Context.h, .cpp) | `processes_`, `tombstones_`, `toDestroy_`, `queue_`, per process `resumes`, `lastWaiting`, `dead`, a timer | `run`, `spawn*`, `link`, `addtoDestroy`, `destroy`, `queueSend`, `queueResume`, `processQueueItem`, `resume`, `canQueue` | `Context` |
| `Process` API (Process.h, .cpp) | `killOnDie_`, `notifyOnDie_` | `spawn`, `spawnLink`, `spawnLinkNotify`, `link`, `queueKill`, `send`, `sendThrottled`, `recv`, `tryRecv`, `timedRecv`, `sleep` | `Context` |
| `MessageQueue`, `Slot` (Slot.h) | `stackStorage`, `others`, `p_` | `push`, `pop`, `size`, `shouldThrottle`, destructor | `MessageQueue` |
| `EslangPromise` (Future.h) | `set_`, `exec_`, `exception_` | `set`, `setIfUnset`, `setException`, `setContinuation`, `process` | `EslangPromise` |
| awaitables (Waiting.h, IWaiting.h) | what a process is suspended on | `await_ready`, `await_suspend`, `await_resume`, `isWaiting`, `sleepFor`, `wakeOnFuture` | `Context`, `ProcessTask` |
| coroutine tasks (ProcessTask.h, .cpp) | frames; per promise `waiting`, `subCoroutineChild`, `parent`, `processPromise`; `nextChild` | call, `co_await`, `co_yield`, `co_return`, throw, `resume`, destruction | `ProcessTask` |
| `io_service`, `deadline_timer` (boost) | ready handlers, armed timers, `stopped` | `run_one`, `poll`, `post`, `async_wait`, `cancel` | `Context`, as the Context uses them |
| `TSocketProcess`, `Tcp::send*` (eslang_io) | `eof_`, `except_`, `nextRead`, `isWriting`, `p_`, `toSend`; slots `init`, `send_data`, `send_many_data`; the pending operations of the socket | the handlers of read, write and handshake, `run`, `initRecvSocket`, `send`, `sendMany`, `sendThrottled`, `sendManyThrottled` | `SocketProcess` |
| `ListenerProcess`, `StreamBatcher` (eslang_io) | the pending accept, `error_`; the batched buffers | `makeListener`, the accept handler, `run`; `push`, `clear` | `WwwServer` |
| `Www` (eslang_www) | parser, response being built | `Server::run`, `SessionRunner::run`, `WwwParser::push`, `convert*`, handlers | `WwwServer` |

How they interact: everything runs on one thread. `Context::run()` takes an
item from `queue_` (a message or a resume) or, when there is none, lets the
`io_service` run handlers (timers and promise continuations); each may
`resume()` one process, whose coroutine then runs, calling the API, until it
suspends, returns or throws. Processes that died meanwhile are destroyed at the
end of the turn, which kills what they were linked to and queues death notices.
Back pressure runs through all of it: `pop()` of a slot sets the slot's
promise, the promise posts a continuation, the continuation resumes a sender.

A TCP connection is two linked processes: the socket process, whose coroutine
and completion handlers share a few flags and one promise, and its owner. The
accept handler of the listener spawns the socket process, which sends itself to
the server, which spawns the owner (in the web server a `SessionRunner`).

What is hard here: there is no parallelism, but there are four ways to resume a
process (message, queued resume, timer, continuation), each with its own guard
against resuming the wrong wait; pids, queue items, handlers and continuations
outlive the processes they name; a process can be killed by itself, by a link
or by another process while any of these are pending; and inside a process a
stack of coroutines is suspended and resumed in an order that turns the native
stack upside down. `PROJECT.json` lists these hazards line by line.

## The modules

**`EslangPromise`**, **`MessageQueue`**: the two classes as records and
operators named after the methods. A method that posts to the io_service has a
companion operator (`SetPosts`, `PopPosts`, `DestroyPosts`) for the handlers it
posts. The bound `kThrottle` is a constant (10 in the code).

**`Context`**: the scheduler and the API. `at` is the position of `run()`:
`top` (the loop test), `wait` (in `run_one`), `poll`, `destroy`, `exit`.
`running` is the process whose `resume()` is on the stack; while it is set,
only actions of that process (`ProcessStep`) are enabled, one per API call, so
a process may do any sequence of calls before it suspends. Every call is the
whole call: `Spawn` includes the constructor, the table entry and the queued
first resume; `FinishDestroy` includes the notice, the cancelled timer and the
slot's destructor with the continuation it posts. `KillLinked` is one turn of
the loop over `killOnDie()`. Abstractions:

- pids are index (from 1) and version; processes have one `Slot`, which lives
  as long as they are in the table; messages carry only what the properties
  tell apart: the receiver, the pid of a death notice, and a stamp (the number
  of the `queueSend` call), which only the properties read;
- what a process does is left open; `Ops` and `Waits` restrict which calls the
  programs of an instance use. The `WaitingMaybe` that `send` returns is the
  choice to yield after it;
- an exception nobody catches has the effect of returning (both go to
  `addtoDestroy`), so `Finish` stands for both; `SpawnThrows` is separate
  because `nextPid()` has already happened;
- `timedRecv` is modelled as the `WithWaitingTimeout<WaitingMessages>` it
  returns;
- undefined behaviour is a choice: `CanQueueNull` (an empty `unique_ptr` is
  dereferenced) crashes; a handler or a promise of a deleted object is either
  harmless (`ReadsFreed`, `OnFreedPromise`, recorded in `ub`) or crashes
  (`HandlerCrashes`), and a continuation that finds another process in the
  memory of the deleted one resumes that (`RunReused`);
- `StopLatches` says whether an io_service that ran out of work stays stopped.
  On Linux (epoll) it does until `reset()`, which the Context never calls; with
  Windows' completion ports, where the library was developed, the stop is
  passed on as a packet behind later ones and later handlers still run. The
  passing runs use FALSE; *What fails* below has the other.

**`ContextProperties`**: what the scheduler promises. **`MCContext`**: the
programs of the instances.

**`Actors`**: what the library promises a programmer, without a scheduler:
actors with mailboxes, links and death notices, one of them active at a time.
`ContextProperties` maps the Context to it: an actor's state is where its object
is (table, `toDestroy_`, deleted), its mailbox is the slot together with the
messages for it in `queue_`, the active actor is the running process.
`ImplementsActors` says that every step of the Context is a step of `Actors` or
leaves all of that alone; queued resumes, timers, continuations, undefined
behaviour and recycled indices are invisible.

**`SocketProcess`**: one connection. The Context is reduced to what two
processes need of it: `queue_`, the ready handlers, the run loop, `resume()`,
the destruction of both. `sock` holds the members of `TSocketProcess`, `net`
the operations in progress and what the peer has got. `Programs` is the set of
owners and socket options of an instance. Abstractions:

- a chunk is what one read returns, a block what one buffer holds; both are
  numbers. A read of 0 bytes, which only reads again, is left out;
- the network completes an operation whenever no process runs; the handlers of
  aborted operations return at once and are left out;
- `async_write()` gets a pointer into a `Buffer` that is destroyed when
  `write()` returns: what the network does not take at once is sent later as
  the block or as `Garbage`;
- the owner calls `Tcp` in any order of the program's `calls`, takes chunks,
  ends, and if it `sleeps` (as a session does in the handlers of
  examples/www.cpp) suspends on a timer in between. The expiry of the timer and
  its handler are one step (`TimerWakesOwner`), possible whenever the
  io_service runs handlers. `MaxResumes` bounds after how many resumes the
  owner still goes to sleep;
- a `Tcp` call throws when the socket is gone; an owner then ends
  (`OwnerEnds`), as it may do at any time of its own;
- the server that spawns the owner is one step, and an owner does not await the
  `WaitingMaybe` of `send` (a yield more). The loop never returns from `run()`:
  the listener keeps it waiting.

**`WwwServer`**: the web server *on* `Context`: it EXTENDS that module, and each
of its steps is a step of `Context` restricted by where the coroutine of the
process is (`pc`), so scheduling, timers, links, back pressure and destruction
are those of `Context`. Abstractions:

- the socket process is what its session and the listener see of it: a plain,
  throttled socket that announces itself, forwards chunks, writes and ends.
  `sock` is the set of its members that are set (`eof_`, `nextRead`, `except_`,
  `isWriting`, `p_`): while an `async_write` is in progress it waits for `p_`
  alone and leaves further buffers in its slot, and the write completes, or
  fails, at any time. Of `p_` only `set_` is kept, since `exec_` is its
  continuation exactly while it is suspended there (`SocketProcess` has the
  whole promise). Its slots are one mailbox, used for one thing at a time;
- what boost::beast makes of a chunk is open: an error, nothing yet, or a
  request. `currentRead_` is never committed to, so `push()` yields at most one
  request per chunk;
- the handler is that of examples/www.cpp: it answers at once, sleeps first,
  throws, or sends a chunked response, sleeping before each piece, whose
  generator may throw inside `next()` (the session unwinds, `Clear`) or after
  its sleep (to the Context, which destroys the session with its batch);
- `Clear` runs at the end of the scope of `StreamBatcher`; `DeleteProcess` is
  the end of `destroy()` with the destructors of the coroutine's locals;
- the memory of a deleted process is not reused for another (`RunReused` of
  `Context` is left out).

**`ProcessTask`**: the coroutines of one process. `stack` is the native stack
below the running frame, each entry either a call (`Called`) or an inversion
(`Inverted`: a `co_yield` or `co_return` that resumed the frame awaiting it).
Frames call methods, create generators, block on awaitables, yield, end and
throw. The `MethodTask` of a call is `co_await`ed at once, stored asleep and
`co_await`ed later (tests/basic.cpp stores four), or dropped, asleep or not
(`AwaitTask`, `DestroyTask`); a generator is drawn from by the frame that
created it, and what `next()` returns is `co_await`ed at once. An exception is
caught by no frame: it leaves the running frame, whose locals it destroys, and
then whatever is below on the native stack, one step for each
(`UnwindCall` with the `h_ = {}` of `OwnedCoroutine::resume()`,
`UnwindInverted`, `UnwindResume`). When a frame it should unwind is gone
already, what follows is undefined: it goes on, or the program ends
(`aborted`). The frame that `OwnedCoroutine::resume()` lets go of is taken to be
gone with all its locals, as its comment says ("h_ is now dead"). One constant describes
programs the code does not support: `LateEnd` (a generator returns when the
Context resumed it), FALSE in the passing run and TRUE in `gen_end`.

Definitions marked *seeded fault* are variants of the definition that follows
them with a plausible bug; they are used by nothing in the specifications, only
to check that the properties notice the bug.

## The runs

| run | instance | properties |
|---|---|---|
| `links` | 3 processes that spawn, link, notify and kill in every shape | `TypeOK`, `OwnedOnce`, `RunningIsNotFreed`, `LoopTestIsExact`, `LinkedDieTogether`, `DeathNoticeOnce`, `ImplementsActors` |
| `mail` | 2 processes, 3 messages, timeouts, sleeps, kills | `RecvResumesWithMessage`, `RunnableIsQueuedOnce`, `TimerBelongsToWait`, `TimerHandlersAlive`, `ImplementsActors` |
| `throttle` | one throttled sender, 4 messages, a consumer that yields, sleeps, ends or is killed; under fairness | `BackPressureBound`, `ThrottledSenderIsRegistered`, `ThrottledSenderResumes`, `SleepersWake`, `MessagesWake`, `KilledAreFreed` |
| `failures` | 2 indices × 2 versions with messages in flight, throwing constructors, receivers that die under a sender | `FifoDelivery`, `ExitMeansAllFreed`, `KilledNeverRuns`, `PidsNeverReused` |
| `coroutines` | 4 frames: methods awaited at once, stored or dropped, generators, exceptions | `TypeOK`, `ResumesBlockedFrame`, `ChainIsIntact`, `ParentAwaits`, `ProcessKeepsRunning`, `AllFramesDestroyed` |
| `socket` | 6 kinds of connection (plain or SSL, throttled or not, single buffers or collections, an owner that sleeps), 2 chunks in, 3 blocks out, end of file and errors at any time; under fairness | `TypeOK`, `ReadsInOrder`, `TakenIsWritten`, `SocketIsFound`, `NoLostWakeup`, `ThrottledReadsBounded`, `SocketSuspends`, `BrokenConnectionEnds`, `UnthrottledSocketWrites` |
| `www` | a server with a connection, 3 chunks, answers whole or in pieces, writes in progress, reads, writes, sessions and listeners that fail | `NothingIsLost`, `AnswersAreWhole`, `IdleMeansServed`, no deadlock |

Bounds. `MaxProcs` 2 is enough for every pair of roles (parent and child,
sender and receiver, killer and victim); chains and cycles of links need 3.
`MaxVersion` 1 (in `failures`) lets an index be used twice, which is when a
stale pid can do harm; the theorems cover every number of reuses. `MaxResumes` bounds
voluntary suspensions only: a process that has used them up still runs to its
end, and resumes that the scheduler owes it still happen. `mail` needs three
messages (one in `stackStorage` and two in `others`) for a wrong order to show.
`QueueLimit` is 1 instead of 10 and `kThrottle` 1 or 2 instead of 10, so both
limits are crossed in both directions. Four frames are the process with two
tasks stored asleep while it awaits a third, or a chain of three below it:
enough for a stored task that itself awaits one (which `updateProcessPromise()`
has to reach) and for an exception through a call and an inversion.

In `socket`, `kThrottle` 1 and 2 chunks make the socket wait for its owner with
a chunk in hand, 3 blocks make the owner wait for the socket with a write in
progress, and `limit` 0 makes a throttled send yield first. `MaxResumes` 2 lets
the owner that sleeps do so before and after its first call, which is enough
for its timer to meet the death of the socket. In `www`, 4 indices hold server,
listener, socket and session, and 3 chunks fill the session's slot while it
sleeps, so that its socket is throttled (2 do not). With writes in progress at
any time, 3 chunks of one connection are 5.5 million states (2 minutes), and a
second connection is out of reach; it shares nothing with the first but
`queue_` and the indices it reuses (which `failures` is about), and the theorems
about the server are for any number.
`MaxSends` and `MaxResumes` are as many as behaviours within the other bounds
can use.

### What fails

Five runs expect a violation; each finding in `PROJECT.json` quotes the statement
that fails:

- `two_senders`: a promise holds one continuation, so of two senders throttled
  by one slot the first is never resumed;
- `gen_end`: a generator that returns after the Context resumed it leaves its
  caller suspended for ever and the Context with a null awaitable;
- `both_slots`: the socket takes a message of both slots and writes one of them;
- `echo_deadlock`: the echo program of examples/tcp.cpp and its socket, both
  throttled, wait for each other although the peer reads everything;
- `chunk_abort`: a client that disconnects while its session sleeps makes the
  destructor of `StreamBatcher` throw, which ends the program. (The session may
  be destroyed with its socket, its timer may resume it between the end of the
  socket and their destruction, or its generator may throw after a sleep.)

Four more statements are false of programs that the passing runs leave out. To
see it, change one line of a configuration:

- `StopLatches = TRUE` in `throttle.cfg` violates `ThrottledSenderResumes` and
  `SleepersWake`: an io_service that stays stopped after a `poll()` that left it
  no work never runs a continuation that is posted, or a timer that is armed,
  later. (`MessagesWake` and `KilledAreFreed` do not depend on it and still hold.)
- `LoopTestIsExact` as an invariant of `failures.cfg`: a constructor that throws
  loses an index, and `run()` never returns;
- `KilledIsCleanedUp` as an invariant of `failures.cfg`: a throttled sender is
  deleted while the receiver's promise holds a continuation with its address;
- `UnwindsLiveFrames` as an invariant of `coroutines.cfg`: a frame that throws
  after a method has resumed it, and whose task object it has destroyed,
  unwinds through the method's destroyed frame.

Fairness. `FairSpec` is weak fairness of the whole next-state relation: the one
thread keeps executing, and when it waits in `run_one()` with a timer armed,
the timer expires. No fairness between alternatives is assumed. Programs are
bounded by `MaxResumes`, so the liveness properties say nothing about a process
that yields for ever: `queue_` is served before timers and the code gives those
no guarantee. In `SocketProcess`, `ReadingPeerSpec` is weak fairness of the
thread, and of `WriteCompletes`: the peer reads in the end, or the connection
fails. Of a peer that reads nothing the code promises nothing, and nothing is
assumed of when it sends, or of when the owner's timer expires. `www` has no temporal properties; that the server does
not stop halfway is `IdleMeansServed`, an invariant about the states in which
the loop waits for the network only.

## The proofs

All are for arbitrary `MaxProcs`, `MaxVersion`, `MaxFrames`, `MaxIn`, `MaxOut`,
programs and limits (the assumptions `BoundsAssumption`, `ProgramAssumption`,
`ThrottleAssumption`, `ProcessTaskAssumption`, `SocketAssumption`,
`WwwAssumption` only give the constants their types, and `NoExecAssumption` says
that the empty `exec_` of a promise is not a handler).

- `MessageQueueProofs`: `PushAppends` and `PopTakesOldest`: the split storage
  (`stackStorage`, `others`) behaves as one FIFO, and `pop` calls `setIfUnset` on
  the promise, posting its continuation, exactly when `shouldThrottle()` held
  before it and does not after; otherwise `p_` is as it was. (`PopContents`, the
  FIFO half, is the lemma that the other modules use.)
- `ContextProofs`: `TypeCorrect`, `Spec => []TypeOK`, action by action, and
  `ProcessesOwnedOnce` and `PidsAreFresh`. Neither of these is inductive: that a
  spawn creates a *new* object depends on the versions in `tombstones_`. `TableInv` adds that a live pid has the highest
  version its index has had, that every tombstone belongs to an empty entry, is
  the only one for its index and is at least as high as every version known
  there. `TableInv` is stated over values, so that one lemma per table
  operation (allocate, place, remove, start and finish a destroy) covers all
  actions that use it.
- `SchedulerProofs`: `RunningExists` and `KilledStayDead` from `LoopInv` (a
  process runs only while nothing is being destroyed, and is then in the table
  or in `toDestroy_`; `toDestroy_` is empty where the loop tests, waits or has
  ended), and
  `ExitLeavesNothing`: `run()` returns when the *sizes* of `processes_` and
  `tombstones_` agree, and by a pigeonhole argument (`TombstonesCoverTable`:
  tombstones have distinct indices, so equal sizes mean every entry has one)
  that implies that no entry is occupied. `LinkedProcessesDie` is
  `LinkedDieTogether`, from `LinkInv`: what the process in `destroy()` is linked
  to is dead or still in `kills`, links are only added to processes that exist,
  and nobody adds a link to a process that is being destroyed or is deleted.
  `LoopRunsTheLiving` is `LoopTestIsExact` with the hypothesis that no program
  calls a throwing constructor (`"spawnThrows"` is in no `Ops[i]`); without it
  the property is false (*What fails*). Its invariant `Recorded` says that every
  empty entry has a tombstone.
- `ActorsProofs`: every action of the Context is one of seven kinds of step
  (`ActorStep`: quiet, a creation, a link, a send, a receive, a death, the end of
  `destroy()`), and the rest of the module speaks of these only. `DeliveryIsFifo`
  is `FifoDelivery`, from `MailInv` (the stamps of `queue_` increase, those of a
  slot increase and are below all of `queue_`) and `Addressed` (all pids in
  messages were given out, so that no message waits for a process that is yet to
  be made). `ContextImplementsActors` is the refinement, `Spec =>
  ImplementsActors`: one lemma per kind of step shows that it maps to a step of
  `Actors` or to a stutter (`NoMailMail` ... `CreatedMail` say what it does to the
  mailbox). `DeathIsAnnouncedOnce` is `DeathNoticeOnce`, from `NoticeInv`: a
  notice names a deleted process, is addressed to whom that process notifies, and
  is in one place.
- `WakeupProofs`: what resumes whom. Seen from what processes wait for, a step
  leaves all alone, drops an item of `queue_`, creates, lets the running process
  go on or stop, or starts one (`QueueStep`); seen from the io_service it posts
  handlers, runs the first or lets a timer expire (`HandlerStep`). The argument is
  about *tokens*: a resume in `queue_` and a continuation carry the number of
  resumes `k` of their process, and `Token(p, k, ws)` says that if `p` has not been
  resumed since, it still waits as it did then. A token stays one whatever happens
  (`TokenStays`), because only the process itself changes what it waits for, and
  to do that it has to be resumed. From it `RunnableHasOneResume`
  (`RunnableIsQueuedOnce`). Timers carry no count. `TimerInv` says that a pending
  timer is that of a sleeping process that exists, and that the handler of an
  expired one is ready only while the loop is in `run_one()` or `poll()`, which it
  leaves when nothing is ready: `TimersBelongToWaits` and `TimersOutlived`.
  `RecvHasMessage` puts all of it together: of the four ways to be resumed only a
  message can meet a process in `recv()`. It is stated for `ub = {}`, because a
  continuation that reads a deleted process may resume anybody (`RunReused`); the
  run `mail` has no throttled sends, hence no continuations, and no such case.

  Back pressure is the other half of the module. `ThrottledSendersAreWakeable` is
  `ThrottledSenderIsRegistered` as long as no two processes are in
  `sendThrottled()` to the same receiver (`SlotsHaveOneSender`), and
  `OneSenderIsWakeable` is the same for every program in which one entry of `Ops`
  calls `sendThrottled()` (`OneSender`, which the program of the run `throttle`
  satisfies). The hypothesis is needed: the promise of a slot has one `exec_`, and
  `two_senders` shows how a second sender overwrites the first. `ThrottleInv` says
  that a process that waits for room has its continuation ready, or in a slot that
  is not destroyed and still full (`FullSlot`); the lemmas about `FullBox` say that
  a push keeps it, that the `pop()` that ends it posts the continuation, and so
  does the destruction of the slot.
  `ThrottledSlotsAreBounded` is `BackPressureBound` for one throttled sender and
  no other mail (`OneSender`, `ThrottledOnly`: a plain `send()` or a death notice
  is not held back by anything). Its invariant `BoundInv` counts, with
  cardinalities, what is in a slot and on its way to it together: this is within
  the bound; a sender that is past its `yield()` has at most `QueueLimit` messages
  in `queue_`; and one that is still in it has its resume behind all of them
  (`Behind`), so that they are gone when it goes on. It is stated for `ub = {}`
  too, because `RunReused` may resume a sender before its turn.

  The last section is for systems built on the Context: `NoneOverlooked` (who waits in
  a receive has an empty slot) and `AlarmsSet` (who sleeps has a timer) are kept by
  every step of it. `WwwProofs` uses both.
- `ProcessTaskProofs`: `ResumeFindsTheBlockedFrame`,
  `SuspendedFramesFormAChain`, `ParentsAwaitTheirChild`,
  `ResumeReturnsAnAwaitable`, `FramesDieWithTheProcess` and `TasksAreTyped`, for
  any number of frames. The hypothesis `LateEnd = FALSE` is needed: `gen_end`
  violates `ProcessKeepsRunning` without it. `TaskInv` has two halves. `BaseInv`
  holds as long as the process exists, during an exception too: `Order` (a frame
  is younger than its owner), `Callers` (who has made a call owns the callee),
  `AllOwned` (every frame is a local of one that exists, back to the process) and
  `Spent` (a frame whose body is over has no locals). It gives
  `FramesDieWithTheProcess` for an end, a kill and an unwinding.
  `ChainInv` holds while no exception is on its way. Every frame, stored or not,
  has a chain along `subCoroutineChild` that ends (`ChainsEnd`) and along which
  `parent` is its inverse (`Family`); `Idle` says when a promise points at an
  awaitable, so that `await_ready()` is not misled; `Promise` that a frame awaited
  by one that knows the process knows it too, and only if its owner does; `OnList`
  that a frame that knows the process and is not idle is in the chain of the
  process or of a callee on the stack, which is what keeps tasks that are
  stored asleep apart; and `NextKnown` that `nextChild` is the end of the
  process's chain when control is back in `resume()`, and of the callee's before.
  Membership of a chain is `Reach`, the least set closed under its successor: a
  step that extends or shortens a chain is reasoned about with that definition
  alone (`ReachIsLeast`, `ReachGrows`, `ReachWithout`), without an induction
  over its length.
- `SocketProofs`: `ConnectionTypes`, `OwnerFindsSocket`, `SocketIsWoken` and
  `ReadsAreThrottled`, for every length of the stream, every throttle and every
  owner. All follow from one invariant, `SocketInv`:
  - `Loop`, `Lives` and `Found`: only the living run, the socket is not destroyed
    before its owner, and it is alive when its owner runs, except in the `poll()`
    in which the timer of an owner that sleeps expires: that handler runs after
    the socket has died and before either is destroyed, and a `Tcp` call then
    throws. `SocketIsFound` states the exception;
  - `Tokens`: as in `WakeupProofs`, every resume in `queue_` and every
    continuation, posted or registered, names a suspension that still lasts if
    its process has not been resumed since. Without it a late continuation could
    meet the socket in `sendThrottled()`;
  - `Beginning`: until `init` arrives nothing is read or written, and `onReady` is
    in `queue_` once, before there is an owner;
  - `OneRead`: the one read of the connection is pending, or complete and not
    handled, or in `nextRead`, and `Outgoing`: what a `sendThrottled()` in progress
    sends is what `nextRead` still holds;
  - `Bounded`: `canQueue()` counts the chunks when it is called, and the socket
    waits after that. While it waits no chunk is added behind its resume, so all
    that were in `queue_` before it have left when it goes on;
  - `Noticed` and `Wakes`: while the socket is not suspended on `p_`, an end of
    file or an error it has not seen yet has set `p_`, and when it is suspended
    there, either its continuation is posted or it is registered and there is
    nothing for it to do;
  - `OneWrite`: a write is pending, or complete and not handled, only while
    `isWriting`.

  `ReadsStayInOrder` is `ReadsInOrder`; with `SocketInv` it is inductive in the
  form `InOrder`, which speaks of the set of handlers with data instead of their
  positions. `OneSlotIsWritten` is `TakenIsWritten` with the hypothesis that all
  calls of a program use the same slot; it is false for two (*What fails*,
  `both_slots`). `OwnSlot` carries the hypothesis to the slots and to `queue_`,
  and `AllWritten` compares what is written block by block with what was taken.

- `WwwProofs`: the server, for any number of connections, of requests and of pieces
  of an answer. Its processes run in the Context, but `WwwNext` is not `Next`: a step
  of the server is one of `Context`, or one that posts a message with an address,
  constructs a process in an accept handler, waits for a socket's `p_`, completes an
  operation or terminates (`ServerStep`). The first part shows that the latter keep the
  invariants of the scheduler, the table and the mail too, so that all of them hold of
  the server (`WwwCorrect`). `WwwInv` adds what the classes know of each other:
  - `Cast`: where the coroutine of each class can be and whom it knows there; a socket
    in its loop has the session whose socket it is, or none yet;
  - `Holds`: only sockets throttle, and only for their own session; operations of the
    io_service belong to processes that are not deleted;
  - `MailCarries`: a server is told of sockets, a socket of the session that was made
    for it. Without it, what `Cast` says could not survive a `recv()`;
  - `Ties`: a session is in `killOnDie` of its socket, a socket in that of a listener.
    With `LinkInv` it gives `ConnectionsAreKept` (`NothingIsLost`): who is in the table
    between two turns has what it needs, because what it is linked to has not died;
  - `Answered`: how many answers and which part of the current batch there are at each
    place of the session, hence `RequestsAreAnswered` (`AnswersAreWhole`).

  `IdleServerHasServed` is `IdleMeansServed`, by one more invariant, `IdleInv`. It says
  of every process what would resume it (`Awaits`: a spawn or a yield has its resume in
  `queue_`, a process in `recv()` has an empty slot, a sleep has its timer or handler,
  a socket in `sendThrottled()` a continuation that is posted or in a full slot),
  what each class can be waiting for at all (`Poised`), what a socket's handlers may
  have left it (`Heeds`: if `p_` is set while it is suspended there, its continuation
  is posted; if not, there is nothing to forward, and it waits without receiving only
  while `isWriting`), and that `queue_` is empty while the loop waits. When nothing
  is ready and no timer is pending, a session can then only be in `recv()` with an
  empty slot (`IdleSession`), and so a socket is not held back by it, and has buffers
  in its slot only behind a write in progress (`IdleSocket`). The hypothesis `SlotsHaveOneSender` of the back
  pressure argument is a *consequence* here: a session has one socket, and that one has
  no other session (`SocketsAreApart`).

Only model-checked: the liveness properties under fairness (`ThrottledSenderResumes`,
`SleepersWake`, `MessagesWake`, `KilledAreFreed`, `SocketSuspends`,
`BrokenConnectionEnds`, `UnthrottledSocketWrites`), which are out of the prover's
reach, and the violations of *What fails*.
Every invariant and action property of the passing runs is a theorem, some with the
hypotheses named above.

## Not modelled

- boost: asio is modelled as the code uses it, beast by its possible outcomes;
  the SSL context and its options, `Tcp::SocketOptions` other than `throttled`.
- More than one slot per process in `Context` (`SocketProcess` has the two-slot
  receive); catching exceptions between coroutines; a `MethodTask` that is moved to
  another owner, a generator drawn from by a frame that did not create it, or a
  `next()` whose result is not `co_await`ed at once (no test or example has one);
  `set_option()` throwing inside the accept handler, which leaves
  `run()` with an exception.
- The second of two requests in one chunk, which `WwwParser::push` drops, and
  the contents of headers: `keep_alive |= ...` never becomes FALSE, so a session
  ends only by an error or with its socket.
- Logging, string formatting, type erasure of messages, examples/count.cpp (a
  benchmark; its calls are those of `Context`). Wrap-around of the 64-bit
  `version_`, `idx_` and `resumes` is out of reach of any run of the program.

## Plan

Done: all components, their runs, and the proofs of every invariant of the runs. What
is left to TLC is liveness.
