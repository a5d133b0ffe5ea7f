------------------------------- MODULE Context -------------------------------
(***************************************************************************)
(* The scheduler of eslang: s::Context (eslang/Context.h, Context.cpp) with *)
(* the RunningProcess objects it owns, the Process API a coroutine calls    *)
(* while it runs (eslang/Process.h), the awaitables it suspends on          *)
(* (eslang/Waiting.h) and the boost::asio io_service that runs timers and   *)
(* promise continuations.                                                   *)
(*                                                                          *)
(* Everything happens on one thread.  A process runs from resume() until it *)
(* suspends, returns or throws; in between it may call the API any number   *)
(* of times, so `running' names the process whose resume() is on the stack  *)
(* and each API call is an action.  What a process calls is up to the       *)
(* program: the actions leave it open, Ops and Waits only say which calls   *)
(* the programs of an instance use.  Every process has one Slot.            *)
(***************************************************************************)
EXTENDS MessageQueue, FiniteSets

CONSTANTS
  MaxProcs,     \* bound on processes_.size()
  MaxVersion,   \* bound on Pid::version_
  MaxSends,     \* bound on the messages user code sends
  MaxResumes,   \* a process suspends by choice only below this many resumes
  QueueLimit,   \* waitOnQueue() is queue_.size() > QueueLimit (10 in the code)
  StopLatches,  \* an io_service that ran out of work stays stopped
  Ops,          \* Ops[i]: the API calls the process at index i may make
  Waits         \* Waits[i]: the awaitables it may suspend on

ASSUME BoundsAssumption ==
  /\ MaxProcs \in Nat /\ MaxVersion \in Nat /\ MaxSends \in Nat
  /\ MaxResumes \in Nat /\ QueueLimit \in Nat

ASSUME ProgramAssumption ==
  /\ StopLatches \in BOOLEAN
  /\ Ops \in [1..MaxProcs -> SUBSET
       {"spawn", "spawnLink", "spawnLinkNotify", "spawnCtorLink",
        "spawnThrows", "link", "queueKill", "send", "sendThrottled",
        "receive"}]
  /\ Waits \in [1..MaxProcs -> SUBSET
       {"yield", "recv", "timedRecv", "sleep", "always"}]

(***************************************************************************)
(* Pid: index in processes_ (counted from 1 here) and version.              *)
(***************************************************************************)
Pids == [idx : 1..MaxProcs, ver : 0..MaxVersion]
NoPid == [idx |-> 0, ver |-> 0]

VARIABLES
  at,           \* where Context::run() is
  running,      \* the process whose resume() is on the stack, or NoPid
  processes,    \* processes_: NoPid is an empty unique_ptr
  tombstones,   \* tombstones_
  toDestroy,    \* toDestroy_
  dying,        \* the process destroy() is working on, or NoPid
  kills,        \* the rest of its killOnDie() loop
  queue,        \* queue_
  resumes,      \* RunningProcess::resumes
  waiting,      \* what lastWaiting points at; "none" while user code runs
  sending,      \* the receiver of a sendThrottled() in progress, or NoPid
  killOnDie,    \* Process::killOnDie_ (as a set: duplicates have no effect)
  notifyOnDie,  \* Process::notifyOnDie_ (the constructor stores at most one)
  mq,           \* the MessageQueue of the process' slot
  timers,       \* processes whose deadline_timer has a pending async_wait
  ready,        \* handlers the io_service would run now, in order
  stopped,      \* io_service::stopped()
  sends,        \* number of queueSend() calls so far (stamps messages)
  noticed,      \* processes whose death notice has been received
  freed,        \* RunningProcess objects that have been deleted
  ub            \* kinds of undefined behaviour that have happened

loopVars  == <<at, running, dying, kills>>
tableVars == <<processes, tombstones, toDestroy>>
procVars  == <<resumes, waiting, sending>>
linkVars  == <<killOnDie, notifyOnDie>>
mailVars  == <<queue, mq, sends, noticed>>
ioVars    == <<timers, ready, stopped>>
memVars   == <<freed, ub>>
\* Everything but the position of the loop and the undefined behaviour met.
rest == <<running, dying, kills, tableVars, procVars, linkVars, mailVars,
          timers, ready, freed>>
vars == <<loopVars, tableVars, procVars, linkVars, mailVars, ioVars, memVars>>

-----------------------------------------------------------------------------
(* Messages, queue items and handlers *)

Message(to, body, n) == [to |-> to, body |-> body, stamp |-> n]
Messages == [to : Pids, body : Pids \cup {NoPid}, stamp : Nat]
NoMessage == [to |-> NoPid, body |-> NoPid, stamp |-> 0]

MessageItem(m) ==
  [kind |-> "message", pid |-> m.to, resume |-> 0, message |-> m]
\* Seeded fault: the item expects one more resume than there has been.
ResumeItemAhead(p, n) ==
  [kind |-> "resume", pid |-> p, resume |-> n + 1, message |-> NoMessage]

ResumeItem(p, n) ==
  [kind |-> "resume", pid |-> p, resume |-> n, message |-> NoMessage]
Items == [kind : {"message"}, pid : Pids, resume : {0}, message : Messages]
         \cup
         [kind : {"resume"}, pid : Pids, resume : Nat, message : {NoMessage}]

TimerHandler(p) == [kind |-> "timer", pid |-> p, resumes |-> 0]
AbortedHandler(p) == [kind |-> "aborted", pid |-> p, resumes |-> 0]
Continuation(p, n) == [kind |-> "continuation", pid |-> p, resumes |-> n]
Handlers == [kind : {"timer", "aborted", "continuation"}, pid : Pids,
             resumes : Nat]

\* An exec_ without a value is not a continuation.
ASSUME NoExecAssumption == NoExec \notin Handlers

\* The handler deadline_timer::cancel() (or its destructor) completes with
\* operation_aborted, if there was a wait to cancel.
CancelPosts(p) == IF p \in timers THEN <<AbortedHandler(p)>> ELSE <<>>

-----------------------------------------------------------------------------
(* The process table *)

\* Seeded fault: the version is not compared.
FoundAnyVersion(procs, p) ==
  /\ p.idx <= Len(procs)
  /\ procs[p.idx] # NoPid

\* findProc() finds p in the table procs.
Found(procs, p) ==
  /\ p.idx <= Len(procs)
  /\ procs[p.idx] # NoPid
  /\ procs[p.idx].ver = p.ver

\* findProc() const dereferences the unique_ptr without testing it.
FoundNull(p) == /\ p.idx <= Len(processes)
                /\ processes[p.idx] = NoPid

\* The RunningProcess found for a pid.
Proc(p) == processes[p.idx]

Live(p) == \E i \in 1..Len(processes) : processes[i] = p
Doomed(p) == p = dying \/ \E i \in 1..Len(toDestroy) : toDestroy[i] = p
\* Pids handed out to a process that was constructed.
Born(p) == Live(p) \/ Doomed(p) \/ p \in freed

\* RunningProcess::dead, set when the object leaves the table.
Dead(p) == ~Live(p)

\* Seeded fault: a recycled index keeps its version.
NextPidSameVersion ==
  IF tombstones = <<>> THEN [idx |-> Len(processes) + 1, ver |-> 0]
  ELSE tombstones[Len(tombstones)]

NextPid ==
  IF tombstones = <<>> THEN [idx |-> Len(processes) + 1, ver |-> 0]
  ELSE [idx |-> tombstones[Len(tombstones)].idx,
        ver |-> tombstones[Len(tombstones)].ver + 1]
\* nextPid() takes the last tombstone, or grows the table by an empty entry.
NextPidTombstones ==
  IF tombstones = <<>> THEN <<>>
  ELSE SubSeq(tombstones, 1, Len(tombstones) - 1)
NextPidProcesses ==
  IF tombstones = <<>> THEN Append(processes, NoPid) ELSE processes

\* Seeded fault: the table keeps the entry.
MovedOutKept(p, procs) == procs
\* Seeded fault: the pid is not remembered for reuse.
BuriedNever(p, tombs) == tombs
\* Seeded fault: the pid is read from the table entry when its pointer has been
\* moved out.
BuriedMovedFrom(p, tombs) == Append(tombs, NoPid)

\* The table after the unique_ptr of p is moved out, and the tombstones.
MovedOut(p, procs) == [procs EXCEPT ![p.idx] = NoPid]
Buried(p, tombs) == Append(tombs, p)

\* addtoDestroy(p) on a table with entries procs and tombstones tombs.
AddToDestroy(p, procs, tombs) ==
  IF Found(procs, p)
  THEN /\ processes' = MovedOut(p, procs)
       /\ toDestroy' = Append(toDestroy, p)
       /\ tombstones' = Buried(p, tombs)
  ELSE /\ processes' = procs
       /\ tombstones' = tombs
       /\ UNCHANGED toDestroy

-----------------------------------------------------------------------------
(* What a running process does *)

RecvWaits == {"recv", "timedRecv"}

\* Process p is executing its own code.
InUserCode(p) == /\ running = p
                 /\ waiting[p] = "none"
                 /\ sending[p] = NoPid
Calls(p, op) == InUserCode(p) /\ op \in Ops[p.idx]

\* spawnArgs() for the pid nextPid() gives: the constructor stores kill and
\* notify, and the processes in back add the new pid to their killOnDie_.
Constructed(kill, notify, back) ==
  LET n == NextPid IN
  /\ n \in Pids
  /\ processes' = [NextPidProcesses EXCEPT ![n.idx] = n]
  /\ tombstones' = NextPidTombstones
  /\ resumes' = [resumes EXCEPT ![n] = 0]
  /\ waiting' = [waiting EXCEPT ![n] = "start"]
  /\ sending' = [sending EXCEPT ![n] = NoPid]
  /\ mq' = [mq EXCEPT ![n] = NewQueue]
  /\ killOnDie' = [q \in Pids |-> IF q = n THEN kill
                                  ELSE IF q \in back THEN killOnDie[q] \cup {n}
                                  ELSE killOnDie[q]]
  /\ notifyOnDie' = [notifyOnDie EXCEPT ![n] = notify]
  /\ queue' = Append(queue, ResumeItem(n, 0))

Construct(kill, notify, back) ==
  /\ Constructed(kill, notify, back)
  /\ UNCHANGED <<loopVars, toDestroy, sends, noticed, ioVars, memVars>>

Spawn(p) == Calls(p, "spawn") /\ Construct({}, NoPid, {})
SpawnLink(p) == Calls(p, "spawnLink") /\ Construct({p}, NoPid, {p})
SpawnLinkNotify(p) == Calls(p, "spawnLinkNotify") /\ Construct({}, p, {p})

\* The spawned class calls link(b) in its constructor, before its own
\* RunningProcess is in the table.
SpawnCtorLink(p, b) == /\ Calls(p, "spawnCtorLink")
                       /\ Found(processes, b)
                       /\ Construct({b}, NoPid, {b})

\* The coroutine of p ends, by co_return or by an exception nobody caught.
Ends(p, procs, tombs) ==
  /\ AddToDestroy(p, procs, tombs)
  /\ running' = NoPid
  /\ waiting' = [waiting EXCEPT ![p] = "done"]

\* ... link(b) throws because b is dead: the pid nextPid() gave is lost and
\* the exception ends p.
SpawnThrows(p, b) ==
  /\ Calls(p, "spawnThrows")
  /\ Born(b) /\ ~Found(processes, b)
  /\ NextPid \in Pids
  /\ Ends(p, NextPidProcesses, NextPidTombstones)
  /\ UNCHANGED <<at, dying, kills, resumes, sending, linkVars, mailVars,
                 ioVars, memVars>>

Finish(p) ==
  /\ InUserCode(p)
  /\ Ends(p, processes, tombstones)
  /\ UNCHANGED <<at, dying, kills, resumes, sending, linkVars, mailVars,
                 ioVars, memVars>>

\* What link() of p to b adds to the killOnDie_ of q.
LinksTo(q, p, b) == IF q = p THEN {b} ELSE IF q = b THEN {p} ELSE {}

\* link() to a process that is found (else it throws: see Finish).
Link(p, b) ==
  /\ Calls(p, "link")
  /\ Found(processes, b)
  /\ killOnDie' = [q \in Pids |-> killOnDie[q] \cup LinksTo(q, p, b)]
  /\ UNCHANGED <<loopVars, tableVars, procVars, notifyOnDie, mailVars,
                 ioVars, memVars>>

\* Seeded fault: the process is deleted at once.
QueueKillAtOnce(p, b) ==
  /\ Calls(p, "queueKill")
  /\ Found(processes, b)
  /\ processes' = MovedOut(b, processes)
  /\ tombstones' = Buried(b, tombstones)
  /\ freed' = freed \cup {b}
  /\ UNCHANGED <<loopVars, toDestroy, procVars, linkVars, mailVars, ioVars, ub>>

\* queueKill(): a process may kill itself, and then runs on until it suspends.
QueueKill(p, b) ==
  /\ Calls(p, "queueKill")
  /\ Found(processes, b)
  /\ AddToDestroy(b, processes, tombstones)
  /\ UNCHANGED <<loopVars, procVars, linkVars, mailVars, ioVars, memVars>>

QueueSend(to, body) ==
  /\ queue' = Append(queue, MessageItem(Message(to, body, sends)))
  /\ sends' = sends + 1

\* send() to an address taken while b was alive (b may have died since).
Send(p, b) ==
  /\ Calls(p, "send")
  /\ sends < MaxSends
  /\ Born(b)
  /\ QueueSend(b, NoPid)
  /\ UNCHANGED <<loopVars, tableVars, procVars, linkVars, mq, noticed, ioVars,
                 memVars>>

\* resume() returns to the loop: p is suspended on w.
Park(p, w) == /\ running' = NoPid
              /\ waiting' = [waiting EXCEPT ![p] = w]

\* sendThrottled() up to its call of canQueue(): it yields once when queue_
\* is long.
SendThrottled(p, b) ==
  /\ Calls(p, "sendThrottled")
  /\ sends < MaxSends
  /\ Born(b)
  /\ sending' = [sending EXCEPT ![p] = b]
  /\ \/ /\ Len(queue) > QueueLimit
        /\ Park(p, "yield")
        /\ queue' = Append(queue, ResumeItem(p, resumes[p]))
     \/ /\ Len(queue) <= QueueLimit
        /\ UNCHANGED <<running, waiting, queue>>
  /\ UNCHANGED <<at, dying, kills, tableVars, resumes, linkVars, mq, sends,
                 noticed, ioVars, memVars>>

\* p is inside sendThrottled(), about to call canQueue().
InCanQueue(p) == /\ running = p
                 /\ waiting[p] = "none"
                 /\ sending[p] # NoPid

\* canQueue() on a pid whose table entry is empty.
CanQueueNull(p) ==
  /\ InCanQueue(p)
  /\ FoundNull(sending[p])
  /\ at' = "crashed"
  /\ running' = NoPid
  /\ ub' = ub \cup {"nullProcess"}
  /\ UNCHANGED <<dying, kills, tableVars, procVars, linkVars, mailVars, ioVars,
                 freed>>

\* Seeded fault: a full slot does not hold the sender back.
MustWaitNever(p) == FALSE

\* canQueue() returns the promise of the slot.
MustWait(p) == /\ Found(processes, sending[p])
               /\ ShouldThrottle(mq[Proc(sending[p])])

\* co_await WaitingFuture(promise): the continuation captures resumes.
WaitForRoom(p) ==
  LET b == Proc(sending[p])
      h == Continuation(p, resumes[p])
  IN /\ InCanQueue(p)
     /\ ~FoundNull(sending[p])
     /\ MustWait(p)
     /\ Park(p, "future")
     /\ mq' = [mq EXCEPT ![b].p_ = SetContinuation(@, h)]
     /\ ready' = ready \o SetContinuationPosts(mq[b].p_, h)
     /\ UNCHANGED <<at, dying, kills, tableVars, resumes, sending, linkVars,
                    queue, sends, noticed, timers, stopped, memVars>>

ThrottledSend(p) ==
  /\ InCanQueue(p)
  /\ ~FoundNull(sending[p])
  /\ ~MustWait(p)
  /\ QueueSend(sending[p], NoPid)
  /\ sending' = [sending EXCEPT ![p] = NoPid]
  /\ UNCHANGED <<loopVars, tableVars, resumes, waiting, linkVars, mq, noticed,
                 ioVars, memVars>>

\* get_optional(): the front message leaves the slot.
TakeMessage(p) ==
  LET body == Oldest(mq[p]).body IN
  /\ mq' = [mq EXCEPT ![p] = Pop(@)]
  /\ ready' = ready \o PopPosts(mq[p])
  /\ noticed' = noticed \cup ({body} \ {NoPid})

\* co_await recv() or tryRecv() with a message there: no suspension.
Receive(p) ==
  /\ Calls(p, "receive")
  /\ Size(mq[p]) > 0
  /\ TakeMessage(p)
  /\ UNCHANGED <<loopVars, tableVars, procVars, linkVars, queue, sends, timers,
                 stopped, memVars>>

\* await_resume() of a process that was suspended on its slot: recv() throws
\* "Message was not ready" when the slot is empty, timedRecv() does not.
AwaitResume(p) ==
  /\ running = p
  /\ waiting[p] \in RecvWaits
  /\ IF Size(mq[p]) = 0 /\ waiting[p] = "recv"
     THEN Ends(p, processes, tombstones) /\ UNCHANGED <<mq, ready, noticed>>
     ELSE /\ IF Size(mq[p]) = 0 THEN UNCHANGED <<mq, ready, noticed>>
                                ELSE TakeMessage(p)
          /\ waiting' = [waiting EXCEPT ![p] = "none"]
          /\ UNCHANGED <<running, tableVars>>
  /\ UNCHANGED <<at, dying, kills, resumes, sending, linkVars, queue, sends,
                 timers, stopped, memVars>>

\* await_ready() of the awaitables that may be ready.
AwaitReady(p, w) == w \in RecvWaits /\ Size(mq[p]) > 0

\* Seeded fault: a sleep does not arm the timer.
SleepForRecvOnly(w) == w = "timedRecv"

\* Seeded fault: every receive is a timed one.
SleepForAnyWait(w) == w \in {"sleep", "timedRecv", "recv"}

\* sleepFor() has a value.
SleepFor(w) == w \in {"sleep", "timedRecv"}

\* co_await of an awaitable that is not ready, and what resume() does with
\* it: a yield queues the next resume, a timed wait arms the timer.
Suspend(p, w) ==
  /\ InUserCode(p)
  /\ w \in Waits[p.idx]
  /\ resumes[p] < MaxResumes
  /\ ~AwaitReady(p, w)
  /\ Park(p, w)
  /\ queue' = IF w = "yield" THEN Append(queue, ResumeItem(p, resumes[p]))
                             ELSE queue
  /\ timers' = IF SleepFor(w) THEN timers \cup {p} ELSE timers
  /\ UNCHANGED <<at, dying, kills, tableVars, resumes, sending, linkVars, mq,
                 sends, noticed, ready, stopped, memVars>>

-----------------------------------------------------------------------------
(* resume() of a process that is not dead, up to the user code *)

\* The promise the process waits on belongs to a deleted process.
OnFreedPromise(t) == waiting[t] = "future" /\ sending[t] \in freed

\* Seeded fault: the timer of the wait that just ended keeps running.
CancelledNever(t) == {}

\* The timers timer.cancel() of process t cancels.
Cancelled(t) == timers \cap {t}

\* boxes and handlers are mq and ready as the caller leaves them; bad is the
\* undefined behaviour it has met on the way.
BeginResume(t, boxes, handlers, bad) ==
  /\ running' = t
  /\ resumes' = [resumes EXCEPT ![t] = @ + 1]
  /\ waiting' = [waiting EXCEPT ![t] = IF @ \in RecvWaits THEN @ ELSE "none"]
  /\ timers' = timers \ Cancelled(t)
  /\ ready' = handlers \o CancelPosts(t)
  /\ mq' = IF waiting[t] = "future"
           THEN [boxes EXCEPT ![sending[t]].p_ = Process(@)] ELSE boxes
  /\ ub' = ub \cup bad \cup (IF OnFreedPromise(t) THEN {"freedPromise"} ELSE {})

\* Nobody is resumed.
NoResume(boxes, handlers, bad) ==
  /\ mq' = boxes
  /\ ready' = handlers
  /\ ub' = ub \cup bad
  /\ UNCHANGED <<running, resumes, waiting, timers>>

-----------------------------------------------------------------------------
(* The loop of Context::run() *)

MainSpawn == at = "main" /\ Construct({}, NoPid, {})

Run ==
  /\ at = "main"
  /\ at' = "top"
  /\ UNCHANGED <<rest, stopped, ub>>

\* Seeded fault: the loop runs until there are no messages left.
LoopWhileQueued == queue # <<>>

\* The test of the loop: processes_.size() != tombstones_.size().
LoopContinues == Len(processes) # Len(tombstones)

Exit ==
  /\ at = "top"
  /\ ~LoopContinues
  /\ at' = "exit"
  /\ UNCHANGED <<rest, stopped, ub>>

\* Seeded fault: nobody is waiting for the message.
WaitingForNothing(t) == FALSE

\* waitingFor() of the slot of t.
WaitingFor(t) == waiting[t] \in RecvWaits

\* Seeded fault: whoever is at the index gets the message.
AcceptsAnyVersion(i) == FoundAnyVersion(processes, i.pid)
\* The receiver of a queued message is found.
Accepts(i) == Found(processes, i.pid)

\* processQueueItem() of a message: dropped unless the receiver is found.
ProcessMessage ==
  LET i == Head(queue)
      t == Proc(i.pid)
      boxes == IF Accepts(i)
               THEN [mq EXCEPT ![t] = Push(@, i.message)] ELSE mq
  IN /\ at = "top" /\ LoopContinues
     /\ queue # <<>> /\ i.kind = "message"
     /\ queue' = Tail(queue)
     /\ at' = "destroy"
     /\ IF Accepts(i) /\ WaitingFor(t)
        THEN BeginResume(t, boxes, ready, {}) ELSE NoResume(boxes, ready, {})
     /\ UNCHANGED <<dying, kills, tableVars, sending, linkVars, sends, noticed,
                    stopped, freed>>

\* processQueueItem() of a resume: dropped when the process has been resumed
\* since it was queued.
ProcessResume ==
  LET i == Head(queue)
      t == Proc(i.pid)
  IN /\ at = "top" /\ LoopContinues
     /\ queue # <<>> /\ i.kind = "resume"
     /\ queue' = Tail(queue)
     /\ at' = "destroy"
     /\ IF Found(processes, i.pid) /\ resumes[t] = i.resume
        THEN BeginResume(t, mq, ready, {}) ELSE NoResume(mq, ready, {})
     /\ UNCHANGED <<dying, kills, tableVars, sending, linkVars, sends, noticed,
                    stopped, freed>>

NoWork == timers = {} /\ ready = <<>>

\* run_one() with no message to process: it returns at once when there is no
\* outstanding work, which also stops the io_service, or when it is stopped.
RunOne ==
  /\ at = "top" /\ LoopContinues
  /\ queue = <<>>
  /\ at' = IF NoWork \/ stopped THEN "destroy" ELSE "wait"
  /\ stopped' = IF NoWork THEN StopLatches ELSE stopped
  /\ UNCHANGED <<rest, ub>>

\* While the thread is in run_one() or poll(), a timer reaches its expiry.
TimerExpires(p) ==
  /\ at \in {"wait", "poll"} /\ running = NoPid
  /\ p \in timers
  /\ timers' = timers \ {p}
  /\ ready' = Append(ready, TimerHandler(p))
  /\ UNCHANGED <<loopVars, tableVars, procVars, linkVars, mailVars, stopped,
                 memVars>>

\* The io_service runs the oldest ready handler; the loop then polls.
RunsHandler(kind) ==
  /\ at \in {"wait", "poll"} /\ running = NoPid
  /\ ready # <<>> /\ Head(ready).kind = kind
  /\ at' = "poll"

RunAborted ==
  /\ RunsHandler("aborted")
  /\ NoResume(mq, Tail(ready), {})
  /\ UNCHANGED <<dying, kills, tableVars, sending, linkVars, queue, sends,
                 noticed, stopped, freed>>

\* A handler that reads a deleted RunningProcess has no effect, unless it
\* crashes the program (HandlerCrashes) or finds another one (RunReused).
ReadsFreed(t) == IF t \in freed THEN {"freedProcess"} ELSE {}

\* The timer handler resumes whatever the process is waiting for now.
RunTimer ==
  LET t == Head(ready).pid IN
  /\ RunsHandler("timer")
  /\ IF Live(t) THEN BeginResume(t, mq, Tail(ready), {})
                ELSE NoResume(mq, Tail(ready), ReadsFreed(t))
  /\ UNCHANGED <<dying, kills, tableVars, sending, linkVars, queue, sends,
                 noticed, stopped, freed>>

\* Seeded fault: resume() does not test dead.
ContinuesDead(h) == resumes[h.pid] = h.resumes

\* The continuation resumes its process only if nothing else has done so.
Continues(h) == Live(h.pid) /\ resumes[h.pid] = h.resumes

RunContinuation ==
  LET h == Head(ready) IN
  /\ RunsHandler("continuation")
  /\ IF Continues(h) THEN BeginResume(h.pid, mq, Tail(ready), {})
                     ELSE NoResume(mq, Tail(ready), ReadsFreed(h.pid))
  /\ UNCHANGED <<dying, kills, tableVars, sending, linkVars, queue, sends,
                 noticed, stopped, freed>>

\* ... or the memory of the deleted RunningProcess now holds process q: the
\* continuation resumes q, whatever q is waiting for, if the counts agree.
RunReused(q) ==
  LET h == Head(ready) IN
  /\ RunsHandler("continuation")
  /\ h.pid \in freed
  /\ Live(q) /\ resumes[q] = h.resumes
  /\ BeginResume(q, mq, Tail(ready), ReadsFreed(h.pid))
  /\ UNCHANGED <<dying, kills, tableVars, sending, linkVars, queue, sends,
                 noticed, stopped, freed>>

\* Undefined behaviour may also end the program: the handler reads a deleted
\* process, or the process it resumes writes to a deleted promise.
HandlerCrashes ==
  LET h == Head(ready) IN
  /\ at \in {"wait", "poll"} /\ running = NoPid
  /\ ready # <<>> /\ h.kind # "aborted"
  /\ h.pid \in freed \/ (Continues(h) /\ OnFreedPromise(h.pid))
  /\ at' = "crashed"
  /\ ub' = ub \cup {IF h.pid \in freed THEN "freedProcess" ELSE "freedPromise"}
  /\ UNCHANGED <<rest, stopped>>

\* Seeded fault: poll() is called once, not until it returns 0.
PolledOnce == TRUE
Polled == ready = <<>>

\* poll() returns 0; without outstanding work it stops the io_service.
EndPoll ==
  /\ at = "poll" /\ running = NoPid
  /\ Polled
  /\ at' = "destroy"
  /\ stopped' = (StopLatches /\ NoWork)
  /\ UNCHANGED <<rest, ub>>

\* destroy() starts on the front of toDestroy_.
DestroyNext ==
  /\ at = "destroy" /\ running = NoPid
  /\ dying = NoPid /\ toDestroy # <<>>
  /\ dying' = Head(toDestroy)
  /\ kills' = killOnDie[Head(toDestroy)]
  /\ toDestroy' = Tail(toDestroy)
  /\ UNCHANGED <<at, running, processes, tombstones, procVars, linkVars,
                 mailVars, ioVars, memVars>>

\* Seeded fault: the loop ends after its first turn.
KillLinkedOnce(q) ==
  /\ dying # NoPid /\ q \in kills
  /\ kills' = {}
  /\ AddToDestroy(q, processes, tombstones)
  /\ UNCHANGED <<at, running, dying, procVars, linkVars, mailVars, ioVars,
                 memVars>>

\* One turn of its killOnDie() loop; the order only decides which index the
\* next spawn gets, so any order is taken.
KillLinked(q) ==
  /\ dying # NoPid /\ q \in kills
  /\ kills' = kills \ {q}
  /\ AddToDestroy(q, processes, tombstones)
  /\ UNCHANGED <<at, running, dying, procVars, linkVars, mailVars, ioVars,
                 memVars>>

\* Seeded fault: nobody hears of the death.
NotifiesNobody(p) == FALSE
Notifies(p) == notifyOnDie[p] # NoPid

\* The rest of destroy(): the death notice is sent, and the RunningProcess is
\* deleted: its timer is cancelled, then its slot is destroyed.
FinishDestroy ==
  /\ dying # NoPid /\ kills = {}
  /\ IF Notifies(dying) THEN QueueSend(notifyOnDie[dying], dying)
                        ELSE UNCHANGED <<queue, sends>>
  /\ mq' = [mq EXCEPT ![dying].p_ = SetIfUnset(@)]
  /\ timers' = timers \ {dying}
  /\ ready' = ready \o CancelPosts(dying) \o DestroyPosts(mq[dying])
  /\ freed' = freed \cup {dying}
  /\ dying' = NoPid
  /\ UNCHANGED <<at, running, kills, tableVars, procVars, linkVars, noticed,
                 stopped, ub>>

\* Seeded fault: only the front of toDestroy_ is worked off.
DestroyDoneEarly ==
  /\ at = "destroy" /\ running = NoPid
  /\ dying = NoPid
  /\ at' = "top"
  /\ UNCHANGED <<rest, stopped, ub>>

\* The loop over toDestroy_ ends.
DestroyDone ==
  /\ at = "destroy" /\ running = NoPid
  /\ dying = NoPid /\ toDestroy = <<>>
  /\ at' = "top"
  /\ UNCHANGED <<rest, stopped, ub>>

\* run() has returned, or the program has crashed.
Terminated == at \in {"exit", "crashed"} /\ UNCHANGED vars

-----------------------------------------------------------------------------
Init ==
  /\ at = "main" /\ running = NoPid /\ dying = NoPid /\ kills = {}
  /\ processes = <<>> /\ tombstones = <<>> /\ toDestroy = <<>>
  /\ resumes = [p \in Pids |-> 0]
  /\ waiting = [p \in Pids |-> "start"]
  /\ sending = [p \in Pids |-> NoPid]
  /\ killOnDie = [p \in Pids |-> {}]
  /\ notifyOnDie = [p \in Pids |-> NoPid]
  /\ queue = <<>> /\ mq = [p \in Pids |-> NewQueue]
  /\ sends = 0 /\ noticed = {}
  /\ timers = {} /\ ready = <<>> /\ stopped = FALSE
  /\ freed = {} /\ ub = {}

\* A step of process p, which is running.
ProcessStep(p) ==
  \/ Spawn(p) \/ SpawnLink(p) \/ SpawnLinkNotify(p)
  \/ \E b \in Pids : \/ SpawnCtorLink(p, b) \/ SpawnThrows(p, b)
                     \/ Link(p, b) \/ QueueKill(p, b)
                     \/ Send(p, b) \/ SendThrottled(p, b)
  \/ CanQueueNull(p) \/ WaitForRoom(p) \/ ThrottledSend(p)
  \/ Receive(p) \/ AwaitResume(p)
  \/ \E w \in Waits[p.idx] : Suspend(p, w)
  \/ Finish(p)

\* A step of the thread that is in Context::run().
LoopStep ==
  \/ Exit \/ ProcessMessage \/ ProcessResume \/ RunOne
  \/ \E p \in Pids : TimerExpires(p)
  \/ RunAborted \/ RunTimer \/ RunContinuation \/ HandlerCrashes \/ EndPoll
  \/ (\E q \in Pids : RunReused(q))
  \/ DestroyNext \/ (\E q \in Pids : KillLinked(q)) \/ FinishDestroy
  \/ DestroyDone

Next ==
  \/ MainSpawn \/ Run
  \/ \E p \in Pids : ProcessStep(p)
  \/ LoopStep
  \/ Terminated

Spec == Init /\ [][Next]_vars

\* The thread keeps executing, and an armed timer expires when the thread
\* waits for it.  Nothing is assumed about which of several steps is taken.
FairSpec == Spec /\ WF_vars(Next)
=============================================================================
