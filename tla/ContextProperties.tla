-------------------------- MODULE ContextProperties --------------------------
(***************************************************************************)
(* What the scheduler of module Context promises.                           *)
(***************************************************************************)
EXTENDS Context

Indices(s) == 1..Len(s)

\* The positions of queue_ that hold a message for r.
InFlight(r) ==
  {i \in Indices(queue) : queue[i].kind = "message" /\ queue[i].pid = r}

\* The positions of queue_ that resume p if they are processed now.
PendingResumes(p) ==
  {i \in Indices(queue) : /\ queue[i].kind = "resume"
                          /\ queue[i].pid = p
                          /\ queue[i].resume = resumes[p]}

InReady(h) == \E i \in Indices(ready) : ready[i] = h

\* p is suspended on w, and has not been killed.
SuspendedOn(p, w) == Live(p) /\ running # p /\ waiting[p] = w

-----------------------------------------------------------------------------
(* The type of every variable of the Context. *)
PidOrNone == Pids \cup {NoPid}

TypeOK ==
  /\ at \in {"main", "top", "wait", "poll", "destroy", "exit", "crashed"}
  /\ running \in PidOrNone /\ dying \in PidOrNone /\ kills \in SUBSET Pids
  /\ processes \in Seq(PidOrNone)
  /\ tombstones \in Seq(Pids) /\ toDestroy \in Seq(Pids)
  /\ resumes \in [Pids -> Nat]
  /\ waiting \in [Pids -> {"start", "none", "done", "yield", "recv",
                           "timedRecv", "sleep", "always", "future"}]
  /\ sending \in [Pids -> PidOrNone]
  /\ killOnDie \in [Pids -> SUBSET Pids] /\ notifyOnDie \in [Pids -> PidOrNone]
  /\ queue \in Seq(Items) /\ mq \in [Pids -> Queues(Messages, Handlers)]
  /\ sends \in Nat /\ noticed \in SUBSET Pids
  /\ timers \in SUBSET Pids /\ ready \in Seq(Handlers) /\ stopped \in BOOLEAN
  /\ freed \in SUBSET Pids
  /\ ub \in SUBSET {"nullProcess", "freedProcess", "freedPromise"}

-----------------------------------------------------------------------------
(* The process table *)

\* Every RunningProcess has one owner: the table entry of its index, the list
\* of processes to destroy or the destroy() call in progress; once deleted it
\* has none.  (addtoDestroy, destroy: the unique_ptr is moved, never copied.)
OwnedOnce ==
  /\ \A i \in Indices(processes) : processes[i] # NoPid => processes[i].idx = i
  /\ \A i, j \in Indices(toDestroy) : toDestroy[i] = toDestroy[j] => i = j
  /\ \A p \in Pids : /\ ~(Live(p) /\ Doomed(p))
                     /\ ~(p = dying /\ \E i \in Indices(toDestroy) :
                                         toDestroy[i] = p)
                     /\ p \in freed => ~Live(p) /\ ~Doomed(p)

\* The code a process executes belongs to an object that still exists, even
\* when the process has killed itself in mid-run (queueKill of one's own pid).
RunningIsNotFreed == running \notin freed

\* A pid that has died never names a living process again, although its index
\* is recycled (nextPid with tombstones).
PidsNeverReused == [][\A p \in Pids : Born(p) /\ Dead(p) => Dead(p)']_vars

\* A killed process never runs again, whatever timers, queued resumes and
\* continuations it has left behind (the dead flag, findProc, destroy).
KilledNeverRuns ==
  [][\A p \in Pids : Born(p) /\ Dead(p) /\ running # p => running' # p]_vars

\* The test of the loop of run(), processes_.size() != tombstones_.size(),
\* holds exactly when a process is alive: no index is lost, none is free twice
\* (nextPid, spawnArgs, addtoDestroy).
LoopTestIsExact ==
  at = "top" => (LoopContinues <=> \E p \in Pids : Live(p))

\* When run() returns nothing is left behind: every process that was ever
\* spawned has been destroyed.
ExitMeansAllFreed == at = "exit" => \A p \in Pids : Born(p) => p \in freed

\* Once the destroy loop is through, nothing that was linked to a destroyed
\* process is still alive (destroy: killOnDie, transitively).
LinkedDieTogether ==
  at \in {"top", "exit"} =>
    \A p \in freed : \A q \in killOnDie[p] : ~Live(q)

\* The death notice of a destroyed process is in exactly one place until its
\* receiver is dead: in queue_, in the slot, or received.
DeathNoticeOnce ==
  \A p \in freed : LET r == notifyOnDie[p] IN
    r # NoPid /\ Live(r) =>
      Cardinality({i \in InFlight(r) : queue[i].message.body = p})
      + Cardinality({i \in Indices(Contents(mq[r])) :
                       Contents(mq[r])[i].body = p})
      + Cardinality({p} \cap noticed) = 1

-----------------------------------------------------------------------------
(* Messages *)

\* The messages on their way to a live process, first those in its slot and
\* then those in queue_, are all addressed to it (not to an earlier process
\* with the same index) and in the order of the queueSend() calls.
FifoDelivery ==
  \A r \in Pids : Live(r) =>
    LET c == Contents(mq[r]) IN
    /\ \A i \in Indices(c) : c[i].to = r
    /\ \A i, j \in Indices(c) : i < j => c[i].stamp < c[j].stamp
    /\ \A i \in Indices(c), j \in InFlight(r) :
         c[i].stamp < queue[j].message.stamp
    /\ \A i, j \in InFlight(r) :
         i < j => queue[i].message.stamp < queue[j].message.stamp

\* WaitingMessage::await_resume never throws "Message was not ready": a
\* process suspended in recv() is resumed by a message and by nothing else.
RecvResumesWithMessage ==
  \A p \in Pids : running = p /\ waiting[p] = "recv" => Size(mq[p]) > 0

-----------------------------------------------------------------------------
(* Wakeups *)

\* A process that has just been spawned or has yielded is resumed by exactly
\* one item of queue_, so it is neither forgotten nor run twice for one yield.
RunnableIsQueuedOnce ==
  \A p \in Pids : SuspendedOn(p, "start") \/ SuspendedOn(p, "yield")
                    => Cardinality(PendingResumes(p)) = 1

\* The timer of a process is running only for the wait it is in: a wait that
\* ended in another way has cancelled it (RunningProcess::resume).
TimerBelongsToWait ==
  \A p \in timers : Live(p) /\ running # p => SleepFor(waiting[p])

\* No timer handler is left in the io_service when its process is deleted
\* (the comment on the poll() loop of run()).
TimerHandlersAlive ==
  \A i \in Indices(ready) : ready[i].kind = "timer" => ready[i].pid \notin freed

\* Nothing of a killed process is left in the io_service or in the promises of
\* the living once it has been deleted (what the CleansUp test checks of a
\* process that waits for nothing).
KilledIsCleanedUp ==
  \A p \in freed :
    /\ \A i \in Indices(ready) : ready[i].kind # "aborted" => ready[i].pid # p
    /\ \A b \in Pids : Live(b) /\ mq[b].p_.exec_ # NoExec
                        => mq[b].p_.exec_.pid # p

-----------------------------------------------------------------------------
(* Back pressure *)

\* sendThrottled() of one sender keeps its receiver's slot bounded: at most
\* kThrottle - 1 messages are there when canQueue() lets another one pass, and
\* at most QueueLimit + 1 more are then in queue_.
BackPressureBound ==
  \A p \in Pids : Live(p) => Size(mq[p]) <= kThrottle + QueueLimit

\* A throttled sender is always wakeable: its continuation is ready to run,
\* or it is registered with the slot and the slot is still full.
ThrottledSenderIsRegistered ==
  \A p \in Pids : SuspendedOn(p, "future") =>
    LET h == Continuation(p, resumes[p])
        b == sending[p]
    IN \/ InReady(h)
       \/ /\ b \notin freed
          /\ ~mq[b].p_.set_ /\ mq[b].p_.exec_ = h
          /\ ShouldThrottle(mq[b])

\* A suspended sender is resumed once the consumer has caught up (unless it is
\* killed, the slot fills up again, or the receiver's death crashes the
\* program).
ThrottledSenderResumes ==
  \A p \in Pids :
    (SuspendedOn(p, "future") /\ ~ShouldThrottle(mq[sending[p]]))
      ~> (\/ ~SuspendedOn(p, "future") \/ ShouldThrottle(mq[sending[p]])
          \/ at = "crashed")

-----------------------------------------------------------------------------
(* Progress *)

\* A sleeping process wakes up, unless it is killed first or the program
\* crashes (the timer of resume(), and run_one() in the loop).
SleepersWake ==
  \A p \in Pids : SuspendedOn(p, "sleep")
                    ~> ~SuspendedOn(p, "sleep") \/ at = "crashed"

\* A process that waits for a message gets the one that is in queue_
\* (processQueueItem, send), unless it is killed or the program crashes.
MessagesWake ==
  \A p \in Pids : (SuspendedOn(p, "recv") /\ InFlight(p) # {})
                    ~> ~SuspendedOn(p, "recv") \/ at = "crashed"

\* A killed process is destroyed: queueKill() takes effect before run()
\* returns or waits again.
KilledAreFreed == \A p \in Pids : Doomed(p) ~> p \in freed \/ at = "crashed"

-----------------------------------------------------------------------------
(* The Context implements module Actors. *)

\* A message is in its receiver's mailbox from queueSend() until it is received.
Envelope(m) == [body |-> m.body, stamp |-> m.stamp]
MailboxOf(p) ==
  IF ~Live(p) THEN {}
  ELSE {Envelope(Contents(mq[p])[i]) : i \in Indices(Contents(mq[p]))}
       \cup {Envelope(queue[i].message) : i \in InFlight(p)}

StateOf(p) == IF Live(p) THEN "alive"
              ELSE IF Doomed(p) THEN "dead"
              ELSE IF p \in freed THEN "buried"
              ELSE "unborn"

Abstract == INSTANCE Actors WITH
  Names <- Pids, None <- NoPid,
  state <- [p \in Pids |-> StateOf(p)],
  mailbox <- [p \in Pids |-> MailboxOf(p)],
  links <- killOnDie, notify <- notifyOnDie, active <- running, clock <- sends

\* Processes behave as actors whatever the scheduler does: messages are neither
\* lost nor duplicated nor reordered between queueSend() and recv(), deaths
\* follow links and are announced after them, and no dead process is woken.
ImplementsActors == Abstract!Spec
=============================================================================
