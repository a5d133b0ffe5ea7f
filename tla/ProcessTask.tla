----------------------------- MODULE ProcessTask -----------------------------
(***************************************************************************)
(* The coroutines of one process (eslang/ProcessTask.h, ProcessTask.cpp,    *)
(* IWaiting.h): the ProcessTask the Context resumes, the MethodTasks it     *)
(* calls and the GenTasks it draws values from.                             *)
(*                                                                          *)
(* Control moves in three ways.  A frame calls a method or a generator's    *)
(* next() and gets control back when the callee suspends or ends.  What     *)
(* next() returns is co_awaited at once; a MethodTask is co_awaited at once,*)
(* stored and co_awaited later, or dropped.  Or a frame that was resumed by *)
(* the Context hands its result to the frame that awaits it by resuming     *)
(* that frame from its own await_suspend ("inversion of the stack").  Or an *)
(* exception leaves the running frame and those below it.  `stack' is the   *)
(* native stack below the running frame: who is there because of a call,    *)
(* and who because of an inversion.                                         *)
(***************************************************************************)
EXTENDS Naturals, Sequences, FiniteSets

CONSTANTS
  MaxFrames,   \* bound on the coroutine frames a process creates
  LateEnd      \* a generator may return when the Context, not next(), resumed it

ASSUME ProcessTaskAssumption == MaxFrames \in Nat \ {0} /\ LateEnd \in BOOLEAN

Frames == 1..MaxFrames
Main == 1              \* the frame of the ProcessTask
NoFrame == 0
FrameOrNone == Frames \cup {NoFrame}

VARIABLES
  at,              \* "loop": in the Context; "run": `running' executes;
                   \* "return": it has just suspended; "unwind": an exception
                   \* has just left `running'; "done"; "crashed"; "aborted"
  running,         \* the frame that executes, or NoFrame
  stack,           \* the native stack below it
  kind,            \* which promise type a frame has
  state,           \* where a frame is suspended
  owner,           \* the frame whose local (or temporary) the task object is
  waiting,         \* PromiseBase::waiting is not null
  child,           \* PromiseBase::subCoroutineChild
  parent,          \* MethodTaskPromise::parent
  processPromise,  \* PromiseBase::processPromise is set
  nextChild        \* ProcessPromise::nextChild

promiseVars == <<waiting, child, parent, processPromise, nextChild>>
vars == <<at, running, stack, kind, state, owner, promiseVars>>

\* "dead": let go of by OwnedCoroutine::resume() after an exception.
Exists(f) == state[f] \notin {"none", "destroyed", "dead"}

Called(f, c) == [how |-> "call", frame |-> f, callee |-> c]
Inverted(f) == [how |-> "inverted", frame |-> f, callee |-> NoFrame]
Top == stack[Len(stack)]
Below == SubSeq(stack, 1, Len(stack) - 1)

\* The frames reachable from those in S along the pairs of R.
Reach(S, R) ==
  {x \in Frames :
     \A T \in SUBSET Frames :
       S \subseteq T /\ (\A e \in R : e[1] \in T => e[2] \in T) => x \in T}

\* The frames in S and those that die with them: ~OwnedCoroutine() destroys
\* a frame, and with it the task objects that are its locals.
Owns == {e \in Frames \X Frames : Exists(e[2]) /\ owner[e[2]] = e[1]}
\* Seeded fault: the locals of a destroyed frame are left alone.
WithoutLocals(S) == S
WithLocals(S) == Reach(S, Owns)
LocalsOf(f) == WithLocals({g \in Frames : Exists(g) /\ owner[g] = f})

Destroy(s, S) == [f \in Frames |-> IF f \in S THEN "destroyed" ELSE s[f]]

-----------------------------------------------------------------------------
(* ProcessTask::resume() *)

\* The frame resume() continues.
Resumed == IF nextChild # NoFrame THEN nextChild ELSE Main

\* Seeded fault: the frame that has just been resumed stays the next one.
NextAfterResumeKept == nextChild
NextAfterResume == NoFrame

Resume ==
  /\ at = "loop"
  /\ at' = "run"
  /\ running' = Resumed
  /\ state' = [state EXCEPT ![Resumed] = "running"]
  /\ waiting' = [waiting EXCEPT ![Main] = FALSE]
  /\ nextChild' = NextAfterResume
  /\ UNCHANGED <<stack, kind, owner, child, parent, processPromise>>

\* The awaitable resume() returns is not null.
ReturnedWaiting ==
  IF nextChild # NoFrame THEN waiting[nextChild] ELSE waiting[Main]

\* Control is back in resume().  The Context dereferences what it returns.
ReturnToContext ==
  /\ at = "return" /\ stack = <<>>
  /\ IF state[Main] = "final"
     THEN /\ at' = "done"
          /\ state' = Destroy(state, WithLocals({Main}))
     ELSE /\ at' = IF ReturnedWaiting THEN "loop" ELSE "crashed"
          /\ UNCHANGED state
  /\ UNCHANGED <<running, stack, kind, owner, promiseVars>>

\* The process is killed while it is suspended: ~ProcessTask().
Kill ==
  /\ at = "loop"
  /\ at' = "done"
  /\ state' = Destroy(state, WithLocals({Main}))
  /\ UNCHANGED <<running, stack, kind, owner, promiseVars>>

-----------------------------------------------------------------------------
(* Frames *)

Runs(f) == at = "run" /\ running = f

\* Promise values of a new frame.
NewFrame(c, f, k, s) ==
  /\ state[c] = "none" /\ \A d \in 1..(c - 1) : state[d] # "none"
  /\ kind' = [kind EXCEPT ![c] = k]
  /\ owner' = [owner EXCEPT ![c] = f]
  /\ state' = [state EXCEPT ![c] = s]

\* f calls a method: initial_suspend is suspend_never, so it runs at once.
\* The MethodTask is a local or a temporary of f.
CallMethod(f, c) ==
  /\ Runs(f)
  /\ NewFrame(c, f, "method", "running")
  /\ running' = c
  /\ stack' = Append(stack, Called(f, c))
  /\ UNCHANGED <<at, promiseVars>>

\* f creates a generator: initial_suspend is suspend_always.
CreateGenerator(f, c) ==
  /\ Runs(f)
  /\ NewFrame(c, f, "gen", "initial")
  /\ UNCHANGED <<at, running, stack, promiseVars>>

\* A generator f may draw from.
Draws(f, g) ==
  kind[g] = "gen" /\ owner[g] = f /\ state[g] \in {"initial", "yielded"}

\* f calls next() of a generator, which resumes it.
CallNext(f, g) ==
  /\ Runs(f)
  /\ Draws(f, g)
  /\ state' = [state EXCEPT ![g] = "running"]
  /\ running' = g
  /\ stack' = Append(stack, Called(f, g))
  /\ UNCHANGED <<at, kind, owner, promiseVars>>

\* IWaiting::await_suspend() tells the process which frame to resume next, if
\* the frame knows the process.
Announces(f) == processPromise[f]

\* f suspends on an awaitable (IWaiting::await_suspend).
Block(f) ==
  /\ Runs(f)
  /\ at' = "return" /\ running' = NoFrame
  /\ state' = [state EXCEPT ![f] = "blocked"]
  /\ waiting' = [waiting EXCEPT ![f] = TRUE]
  /\ nextChild' = IF Announces(f) THEN f ELSE nextChild
  /\ UNCHANGED <<stack, kind, owner, child, parent, processPromise>>

\* Seeded fault: the promise still points at the awaitable it was woken from.
YieldClearsNothing(f) == waiting[f]
\* co_yield: "we are not waiting, ie we have a value".
YieldClears(f) == FALSE

\* co_yield without a parent: control returns to next().
Yield(f) ==
  /\ Runs(f) /\ kind[f] = "gen" /\ parent[f] = NoFrame
  /\ at' = "return" /\ running' = NoFrame
  /\ state' = [state EXCEPT ![f] = "yielded"]
  /\ waiting' = [waiting EXCEPT ![f] = YieldClears(f)]
  /\ UNCHANGED <<stack, kind, owner, child, parent, processPromise, nextChild>>

\* Seeded fault: the parent is not forgotten when it is resumed.
ParentAfterYieldKept(f) == parent[f]
ParentAfterYield(f) == NoFrame

\* co_yield to the frame that awaits the generator, which runs on top of it.
YieldToParent(f) ==
  LET q == parent[f] IN
  /\ Runs(f) /\ kind[f] = "gen" /\ q # NoFrame
  /\ running' = q
  /\ stack' = Append(stack, Inverted(f))
  /\ state' = [state EXCEPT ![f] = "yielded", ![q] = "running"]
  /\ waiting' = [waiting EXCEPT ![f] = YieldClears(f)]
  /\ parent' = [parent EXCEPT ![f] = ParentAfterYield(f)]
  /\ child' = [child EXCEPT ![q] = NoFrame]
  /\ UNCHANGED <<at, kind, owner, processPromise, nextChild>>

\* The body of f is over: its locals are destroyed and it is suspended for
\* good.
AfterBody(f) == [Destroy(state, LocalsOf(f)) EXCEPT ![f] = "final"]

Ends(f) ==
  /\ Runs(f)
  /\ at' = "return" /\ running' = NoFrame
  /\ state' = AfterBody(f)
  /\ UNCHANGED <<stack, kind, owner, promiseVars>>

\* Seeded fault: the parent is resumed without asking whether there is one.
EndUnchecked(f) ==
  /\ Runs(f) /\ kind[f] = "method"
  /\ running' = parent[f]
  /\ state' = AfterBody(f)
  /\ UNCHANGED <<at, stack, kind, owner, promiseVars>>
\* co_return (or the end of the body) of the process, or of a method that
\* nobody awaits ("we were never actually suspended").
End(f) == kind[f] # "gen" /\ parent[f] = NoFrame /\ Ends(f)

\* final_suspend of a generator never resumes its parent.
EndGenerator(f) ==
  kind[f] = "gen" /\ (LateEnd \/ parent[f] = NoFrame) /\ Ends(f)

\* "we need to make sure our parent knows that it's child is dead now".
ChildAfterEnd(f, q) == NoFrame

\* co_return of a method to the frame that awaits it: the parent runs on top
\* of it.
EndToParent(f) ==
  LET q == parent[f] IN
  /\ Runs(f) /\ kind[f] = "method" /\ q # NoFrame
  /\ running' = q
  /\ stack' = Append(stack, Inverted(f))
  /\ child' = [child EXCEPT ![q] = ChildAfterEnd(f, q)]
  /\ state' = [AfterBody(f) EXCEPT ![q] = "running"]
  /\ UNCHANGED <<at, kind, owner, waiting, parent, processPromise, nextChild>>

\* A task of f goes out of scope (~OwnedCoroutine): a temporary that has been
\* awaited, or a stored task, awaited or not.
DestroyTask(f, c) ==
  /\ Runs(f)
  /\ Exists(c) /\ owner[c] = f
  /\ state' = Destroy(state, WithLocals({c}))
  /\ UNCHANGED <<at, running, stack, kind, owner, promiseVars>>

-----------------------------------------------------------------------------
(* Control returns to a frame that called, or to one that inverted *)

\* What is below was inverted: its await_suspend returns and nothing follows.
ReturnToInverted ==
  /\ at = "return" /\ stack # <<>> /\ Top.how = "inverted"
  /\ stack' = Below
  /\ UNCHANGED <<at, running, kind, state, owner, promiseVars>>

\* await_ready() of MethodTaskBase (a task at its end is ready) and of
\* NextAwaitable (which does not look).
AwaitReady(c) ==
  \/ kind[c] = "method" /\ state[c] = "final"
  \/ child[c] = NoFrame /\ ~waiting[c]

\* The caller goes on: it has the MethodTask of a method that ended or is
\* suspended, or finds that next() has a result.
ReturnToCaller ==
  /\ at = "return" /\ stack # <<>> /\ Top.how = "call"
  /\ kind[Top.callee] = "method" \/ AwaitReady(Top.callee)
  /\ at' = "run" /\ running' = Top.frame /\ stack' = Below
  /\ UNCHANGED <<kind, state, owner, promiseVars>>

\* The subCoroutineChild chain below c, and its end.
Chain(c) ==
  Reach({c}, {e \in Frames \X Frames : child[e[1]] = e[2]})
Leaf(c) == CHOOSE g \in Chain(c) : child[g] = NoFrame

\* Seeded fault: only the first frame of the chain learns of the process.
UpdatedCallee(c) == {c}
\* The frames updateProcessPromise() visits.
Updated(c) == Chain(c)

NextAfterUpdate(c) == Leaf(c)

\* updateSuspend(): the process learns which frame to resume as soon as the
\* chain down from it is complete.
Completes(f, c) == ~processPromise[c] /\ (f = Main \/ processPromise[f])

\* f suspends until c has a result.
SuspendOn(f, c) ==
  /\ state' = [state EXCEPT ![f] = "awaiting"]
  /\ parent' = [parent EXCEPT ![c] = f]
  /\ child' = [child EXCEPT ![f] = c]
  /\ processPromise' = IF Completes(f, c)
       THEN [g \in Frames |-> processPromise[g] \/ g \in Updated(c)]
       ELSE processPromise
  /\ nextChild' = IF Completes(f, c) THEN NextAfterUpdate(c) ELSE nextChild
  /\ UNCHANGED <<kind, owner, waiting>>

\* The caller of next() suspends until there is a value.
AwaitNext ==
  /\ at = "return" /\ stack # <<>> /\ Top.how = "call"
  /\ kind[Top.callee] = "gen" /\ ~AwaitReady(Top.callee)
  /\ stack' = Below
  /\ SuspendOn(Top.frame, Top.callee)
  /\ UNCHANGED <<at, running>>

\* f co_awaits a MethodTask of its own.  One that is ready leaves f running.
AwaitTask(f, c) ==
  /\ Runs(f)
  /\ Exists(c) /\ kind[c] = "method" /\ owner[c] = f /\ ~AwaitReady(c)
  /\ at' = "return" /\ running' = NoFrame
  /\ SuspendOn(f, c)
  /\ UNCHANGED stack

-----------------------------------------------------------------------------
(* An exception that no frame catches (unhandled_exception rethrows it) *)

\* f throws: the exception destroys its locals and leaves it.
Throw(f) ==
  /\ Runs(f)
  /\ at' = "unwind"
  /\ state' = AfterBody(f)
  /\ UNCHANGED <<running, stack, kind, owner, promiseVars>>

Unwinds(how) == at = "unwind" /\ stack # <<>> /\ Top.how = how

\* The exception leaves the frame that made the call.  Before that the
\* MethodTask is lost that the call would have returned, or the catch clause
\* of OwnedCoroutine::resume() lets go of the generator.
UnwindCall ==
  LET f == Top.frame
      c == Top.callee
  IN /\ Unwinds("call")
     /\ state' = [AfterBody(f) EXCEPT
                   ![c] = IF kind[c] = "gen" THEN "dead" ELSE "destroyed"]
     /\ running' = f /\ stack' = Below
     /\ UNCHANGED <<at, kind, owner, promiseVars>>

\* The exception leaves a frame whose await_suspend resumed its parent.  If
\* the parent owned that frame, it is gone: what follows is undefined.
UnwindInverted ==
  LET g == Top.frame IN
  /\ Unwinds("inverted")
  /\ IF Exists(g) THEN at' = at /\ state' = AfterBody(g)
                  ELSE at' \in {"unwind", "aborted"} /\ UNCHANGED state
  /\ running' = g /\ stack' = Below
  /\ UNCHANGED <<kind, owner, promiseVars>>

\* The exception leaves ProcessTask::resume(), where OwnedCoroutine::resume()
\* has let go of the process if that was what it resumed, and the Context
\* destroys the process.
UnwindResume ==
  /\ at = "unwind" /\ stack = <<>>
  /\ at' = "done" /\ running' = NoFrame
  /\ state' = IF running = Main THEN [state EXCEPT ![Main] = "dead"]
                               ELSE Destroy(state, WithLocals({Main}))
  /\ UNCHANGED <<stack, kind, owner, promiseVars>>

\* The process is gone, the Context has dereferenced a null awaitable, or the
\* program has ended.
Terminated == at \in {"done", "crashed", "aborted"} /\ UNCHANGED vars

-----------------------------------------------------------------------------
Init ==
  /\ at = "loop" /\ running = NoFrame /\ stack = <<>>
  /\ kind = [f \in Frames |-> "process"]
  /\ state = [f \in Frames |-> IF f = Main THEN "initial" ELSE "none"]
  /\ owner = [f \in Frames |-> NoFrame]
  /\ waiting = [f \in Frames |-> FALSE]
  /\ child = [f \in Frames |-> NoFrame]
  /\ parent = [f \in Frames |-> NoFrame]
  /\ processPromise = [f \in Frames |-> FALSE]
  /\ nextChild = NoFrame

FrameStep(f) ==
  \/ \E c \in Frames : \/ CallMethod(f, c) \/ CreateGenerator(f, c)
                       \/ CallNext(f, c) \/ AwaitTask(f, c)
                       \/ DestroyTask(f, c)
  \/ Block(f) \/ Yield(f) \/ YieldToParent(f)
  \/ End(f) \/ EndGenerator(f) \/ EndToParent(f) \/ Throw(f)

Next ==
  \/ Resume \/ ReturnToContext \/ Kill
  \/ \E f \in Frames : FrameStep(f)
  \/ ReturnToInverted \/ ReturnToCaller \/ AwaitNext
  \/ UnwindCall \/ UnwindInverted \/ UnwindResume
  \/ Terminated

Spec == Init /\ [][Next]_vars

-----------------------------------------------------------------------------
(* The type of every variable; a frame runs, or is being left by an         *)
(* exception, exactly when `running' names it.                              *)
TypeOK ==
  /\ at \in {"loop", "run", "return", "unwind", "done", "crashed", "aborted"}
  /\ running \in FrameOrNone
  /\ at \in {"run", "unwind"} => running \in Frames
  /\ stack \in Seq([how : {"call", "inverted"}, frame : Frames,
                    callee : FrameOrNone])
  /\ kind \in [Frames -> {"process", "method", "gen"}]
  /\ state \in [Frames -> {"none", "initial", "running", "blocked", "awaiting",
                           "yielded", "final", "destroyed", "dead"}]
  /\ owner \in [Frames -> FrameOrNone]
  /\ waiting \in [Frames -> BOOLEAN]
  /\ child \in [Frames -> FrameOrNone] /\ parent \in [Frames -> FrameOrNone]
  /\ processPromise \in [Frames -> BOOLEAN]
  /\ nextChild \in FrameOrNone

\* However many tasks are stored asleep, resume() continues the one frame that
\* the process waits for: the one at the end of its chain of awaiting frames,
\* which is suspended on an awaitable.  It never resumes a frame that is done,
\* destroyed or waiting for another one, or a task not yet awaited.
ResumesBlockedFrame ==
  at = "loop" =>
    \/ state[Resumed] = "initial"
    \/ /\ Resumed \in Chain(Main)
       /\ \A f \in Chain(Main) : state[f] = "blocked" <=> f = Resumed

\* When the process is suspended, a frame that waits is in the chain down from
\* the process exactly if it knows the process (processPromise), so a task
\* that is stored asleep is outside it and does not announce itself; and every
\* frame that awaits another one knows it (subCoroutineChild), is known by it
\* (parent), and can rely on it to wait as well.
ChainIsIntact ==
  at = "loop" =>
    \A f \in Frames :
      /\ state[f] \in {"awaiting", "blocked"} =>
           (f \in Chain(Main) <=> f = Main \/ processPromise[f])
      /\ state[f] = "awaiting" =>
           /\ child[f] # NoFrame /\ parent[child[f]] = f
           /\ state[child[f]] \in {"awaiting", "blocked"}

\* A frame is only ever resumed by its callee while it is suspended on it:
\* unless an exception is leaving them, the parent of a live frame awaits that
\* frame.
ParentAwaits ==
  at \in {"loop", "run", "return"} =>
    \A f \in Frames :
      state[f] \in {"running", "blocked", "awaiting", "yielded"}
      /\ parent[f] # NoFrame
        => state[parent[f]] = "awaiting" /\ child[parent[f]] = f

\* The Context always gets an awaitable from a process that has not ended: a
\* callee that is done has continued the frame that waits for it.
ProcessKeepsRunning == at # "crashed"

\* When the process is gone, so are the frames of all its tasks, whether it
\* ended, was killed while some were asleep, or an exception unwound it.
AllFramesDestroyed == at = "done" => \A f \in Frames : ~Exists(f)

\* An exception that ends a process only unwinds frames that still exist.
UnwindsLiveFrames == Unwinds("inverted") => Exists(Top.frame)
=============================================================================
