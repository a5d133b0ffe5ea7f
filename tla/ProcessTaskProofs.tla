-------------------------- MODULE ProcessTaskProofs --------------------------
(***************************************************************************)
(* Theorems about the coroutines of a process, for every number of frames   *)
(* and every pattern of calls, next()s, stored tasks, suspensions, returns  *)
(* and exceptions, in programs whose generators do not return while a frame *)
(* awaits them (LateEnd = FALSE; ProcessKeepsRunning fails otherwise, see   *)
(* gen_end).                                                                *)
(*                                                                          *)
(* Frames are numbered in the order of their creation, so a frame has a     *)
(* greater number than its owner, than the frame that called it and than    *)
(* the frame that awaits it.  The invariant says of every frame, stored or  *)
(* not, where the chain of frames it awaits ends; for the frames that are   *)
(* below the process it says that nextChild is that end.                    *)
(***************************************************************************)
EXTENDS ProcessTask, SequenceTheorems, TLAPS

\* The process has neither ended nor crashed, and no exception is unwinding it.
Alive == at \in {"loop", "run", "return"}

Suspended(f) == state[f] \in {"awaiting", "blocked"}

\* The native calls in progress, and whether control goes back to one next.
Calls == {i \in 1..Len(stack) : stack[i].how = "call"}
TopCalls == Len(stack) \in Calls

\* Below f, or at f, updateProcessPromise() has been.
InProcess(f) == f = Main \/ processPromise[f]

\* Inversions come first, then calls, each by the frame called before it.
StackShape ==
  /\ \A i \in Calls : stack[i].callee \in Frames
  /\ \A i \in Calls : \A j \in 1..Len(stack) : i <= j => j \in Calls
  /\ \A i \in Calls : i < Len(stack) => stack[i + 1].frame = stack[i].callee
  /\ at \in {"run", "unwind"} /\ TopCalls => running = stack[Len(stack)].callee
  /\ at = "loop" => stack = <<>>
  /\ at \in {"loop", "return"} => running = NoFrame
  /\ at # "crashed"

\* A frame is younger than the one it belongs to.
Order ==
  /\ owner[Main] = NoFrame
  /\ \A c \in Frames : state[c] # "none" /\ c # Main =>
       owner[c] \in Frames /\ owner[c] < c
  /\ \A c, d \in Frames : d < c /\ state[c] # "none" => state[d] # "none"

\* A frame that has made a call owns the callee and is younger than the
\* callers below it.
Callers ==
  /\ \A i \in Calls : /\ state[stack[i].frame] = "running"
                      /\ state[stack[i].callee] # "none"
                      /\ owner[stack[i].callee] = stack[i].frame
  /\ \A i, j \in Calls : i < j => stack[i].frame < stack[j].frame

\* Only the first frame is a ProcessTask, only generators are created asleep
\* and yield.
Kinds ==
  /\ kind[Main] = "process" /\ Exists(Main) /\ state[Main] # "yielded"
  /\ \A f \in Frames \ {Main} :
       /\ state[f] # "none" => kind[f] \in {"method", "gen"}
       /\ state[f] \in {"initial", "yielded"} => kind[f] = "gen"

\* Every frame belongs to the process or to a frame that does; a frame whose
\* body is over has no locals.
AllOwned == \A f \in Frames : Exists(f) => f \in WithLocals({Main})
Spent ==
  /\ \A f, g \in Frames : state[f] = "final" /\ Exists(g) => owner[g] # f
  /\ at = "unwind" /\ Exists(running) => state[running] = "final"

\* What holds until the process is gone, exception or not.
BaseInv == Order /\ Callers /\ Kinds /\ AllOwned /\ Spent

\* The frames that run are the one that executes and those that have called.
Running ==
  /\ at = "run" => state[running] = "running"
  /\ \A f \in Frames : state[f] = "running" =>
       f = running \/ \E i \in Calls : f = stack[i].frame

\* subCoroutineChild and parent are inverse and join a frame to one of its
\* locals.  Only a frame below the process is ever resumed by the Context.
Family ==
  /\ \A f \in Frames : child[f] # NoFrame => owner[child[f]] = f
                                             /\ state[child[f]] # "none"
  /\ \A f \in Frames : state[f] = "awaiting" =>
       /\ child[f] # NoFrame /\ parent[child[f]] = f
       /\ state[child[f]] \in {"running", "awaiting", "blocked"}
  /\ \A f \in Frames : Exists(f) /\ child[f] # NoFrame => state[f] = "awaiting"
  /\ \A f \in Frames : Exists(f) /\ state[f] # "final" /\ parent[f] # NoFrame =>
       state[parent[f]] = "awaiting" /\ child[parent[f]] = f
  /\ \A i \in Calls : parent[stack[i].callee] = NoFrame
  /\ parent[Main] = NoFrame
  /\ \A f \in Frames : state[f] = "running" /\ parent[f] # NoFrame =>
       f \in Chain(Main)

\* A frame's promise points at an awaitable when it is suspended on one, and
\* does not when await_ready() may look for a result.
Idle ==
  /\ \A f \in Frames : state[f] = "blocked" => waiting[f]
  /\ \A f \in Frames : state[f] \in {"none", "initial", "yielded"} =>
       parent[f] = NoFrame /\ ~waiting[f]
  /\ \A f \in Frames : state[f] = "none" => child[f] = NoFrame
                                            /\ ~processPromise[f]
  /\ \A f \in Frames : kind[f] = "gen" /\ state[f] \in {"running", "final"}
                       /\ parent[f] = NoFrame => ~waiting[f]
  /\ \A f \in Frames : kind[f] = "gen" /\ state[f] = "final" => parent[f] = NoFrame

\* The processPromise of a frame is set if it is awaited by one that has it,
\* and only if its owner's is.  A method that is being called is not awaited.
Promise ==
  /\ ~processPromise[Main]
  /\ \A f \in Frames : Exists(f) /\ child[f] # NoFrame /\ InProcess(f)
                         => processPromise[child[f]]
  /\ \A f \in Frames : processPromise[f] => InProcess(owner[f])
  /\ \A i \in Calls : kind[stack[i].callee] = "method"
                        => ~processPromise[stack[i].callee]

\* The frames below the process that are not idle are in its chain or in that
\* of a callee.  The first caller, or the frame that executes, is in the
\* chain of the process.
OnList ==
  /\ \A f \in Frames :
       InProcess(f) /\ state[f] \in {"running", "awaiting", "blocked"} =>
         \/ f \in Chain(Main)
         \/ \E c \in Frames : /\ f \in Chain(c)
                             /\ \E i \in Calls : stack[i].callee = c
  /\ at = "run" /\ ~TopCalls => running \in Chain(Main)
  /\ \A i \in Calls : i - 1 \notin Calls => stack[i].frame \in Chain(Main)

\* Every chain ends.
ChainsEnd == \A f \in Frames : \E g \in Chain(f) : child[g] = NoFrame

\* nextChild is where the chain of the process ends when control is back in
\* resume(); it is known as soon as a callee is suspended that knows the
\* process.
ProcessWaits ==
  /\ Suspended(Main)
  /\ nextChild = IF Leaf(Main) = Main THEN NoFrame ELSE Leaf(Main)

NextKnown ==
  /\ at = "run" => nextChild = NoFrame
  /\ at = "return" /\ TopCalls =>
       LET c == stack[Len(stack)].callee IN
       \/ state[c] \in {"yielded", "final"} /\ nextChild = NoFrame
       \/ /\ Suspended(c)
          /\ nextChild = IF processPromise[c] THEN Leaf(c) ELSE NoFrame
  /\ at = "return" /\ ~TopCalls => state[Main] = "final" \/ ProcessWaits
  /\ at = "loop" => \/ state[Main] = "initial" /\ nextChild = NoFrame
                    \/ ProcessWaits

\* What holds while no exception is on its way.
ChainInv ==
  Running /\ Family /\ Idle /\ Promise /\ OnList /\ ChainsEnd /\ NextKnown

TaskInv ==
  /\ TypeOK
  /\ StackShape
  /\ AllFramesDestroyed
  /\ Alive \/ at = "unwind" => BaseInv
  /\ Alive => ChainInv
-----------------------------------------------------------------------------
(* What can be reached *)

LEMMA ReachStarts ==
  ASSUME NEW S \in SUBSET Frames, NEW R
  PROVE  S \subseteq Reach(S, R) /\ Reach(S, R) \subseteq Frames
BY DEF Reach

LEMMA ReachGoesOn ==
  ASSUME NEW S, NEW R, NEW x \in Reach(S, R), NEW y \in Frames,
         <<x, y>> \in R
  PROVE  y \in Reach(S, R)
<1> SUFFICES ASSUME NEW T \in SUBSET Frames, S \subseteq T,
                    \A e \in R : e[1] \in T => e[2] \in T
             PROVE  y \in T
  BY DEF Reach
<1>1. x \in T
  BY DEF Reach
<1> QED BY <1>1

LEMMA ReachIsLeast ==
  ASSUME NEW S, NEW R, NEW T \in SUBSET Frames, S \subseteq T,
         \A e \in R : e[1] \in T => e[2] \in T
  PROVE  Reach(S, R) \subseteq T
BY DEF Reach

\* What is reached is a start or comes after something that is reached.
LEMMA ReachUnrolls ==
  ASSUME NEW S \in SUBSET Frames, NEW R \in SUBSET (Frames \X Frames),
         NEW y \in Reach(S, R), y \notin S
  PROVE  \E x \in Reach(S, R) : <<x, y>> \in R
<1> SUFFICES ASSUME \A x \in Reach(S, R) : <<x, y>> \notin R
             PROVE  FALSE
  OBVIOUS
<1> DEFINE T == Reach(S, R) \ {y}
<1>1. T \in SUBSET Frames /\ S \subseteq T
  BY ReachStarts
<1>2. ASSUME NEW e \in R, e[1] \in T PROVE e[2] \in T
  <2>1. e = <<e[1], e[2]>> /\ e[2] \in Frames
    BY <1>2
  <2>2. e[2] \in Reach(S, R)
    BY <1>2, <2>1, ReachGoesOn
  <2>3. e[2] # y
    BY <1>2, <2>1
  <2> QED BY <2>2, <2>3
<1>3. Reach(S, R) \subseteq T
  <2> HIDE DEF T
  <2> QED BY <1>1, <1>2, ReachIsLeast
<1> QED BY <1>3

\* More pairs reach more.
LEMMA ReachGrows ==
  ASSUME NEW S \in SUBSET Frames, NEW R, NEW Q, NEW x \in Reach(S, R),
         \A e \in R : e \in Q
  PROVE  x \in Reach(S, Q)
BY DEF Reach

\* Without the pairs that lead to what leads nowhere, the rest is reached.
LEMMA ReachWithout ==
  ASSUME NEW S \in SUBSET Frames, NEW R, NEW Q, NEW D \in SUBSET Frames,
         NEW x \in Reach(S, R), x \notin D,
         \A e \in R : e \in Q \/ e[2] \in D,
         \A e \in R : e[1] \in D => e[2] \in D
  PROVE  x \in Reach(S, Q)
<1> SUFFICES ASSUME NEW T \in SUBSET Frames, S \subseteq T,
                    \A e \in Q : e[1] \in T => e[2] \in T
             PROVE  x \in T
  BY DEF Reach
<1>1. /\ T \cup D \in SUBSET Frames /\ S \subseteq T \cup D
      /\ \A e \in R : e[1] \in T \cup D => e[2] \in T \cup D
  OBVIOUS
<1>2. x \in T \cup D
  BY <1>1, ReachIsLeast
<1> QED BY <1>2
-----------------------------------------------------------------------------
(* The native stack *)

Entries == [how : {"call", "inverted"}, frame : Frames, callee : FrameOrNone]

LEMMA FrameFacts ==
  /\ Main \in Frames /\ NoFrame \notin Frames
  /\ Frames \subseteq FrameOrNone /\ NoFrame \in FrameOrNone
  /\ \A f \in FrameOrNone : f # NoFrame => f \in Frames
BY ProcessTaskAssumption DEF Frames, Main, NoFrame, FrameOrNone

LEMMA EntryFacts ==
  ASSUME NEW f \in Frames, NEW c \in Frames
  PROVE  /\ Called(f, c) \in Entries /\ Inverted(f) \in Entries
         /\ Called(f, c).how = "call" /\ Inverted(f).how = "inverted"
         /\ Called(f, c).frame = f /\ Called(f, c).callee = c
         /\ Inverted(f).frame = f
BY FrameFacts DEF Entries, Called, Inverted

\* A frame is put on the stack.
LEMMA Pushed ==
  ASSUME stack \in Seq(Entries), NEW e \in Entries, stack' = Append(stack, e)
  PROVE  /\ stack' \in Seq(Entries) /\ Len(stack') = Len(stack) + 1
         /\ Len(stack) \in Nat
         /\ stack'[Len(stack) + 1] = e
         /\ \A i \in Calls : stack'[i] = stack[i]
         /\ \A i : i \in Calls' <=>
              i \in Calls \/ (i = Len(stack) + 1 /\ e.how = "call")
BY DEF Calls

\* The top of the stack is taken off.
LEMMA Popped ==
  ASSUME stack \in Seq(Entries), stack # <<>>, stack' = Below
  PROVE  /\ stack' \in Seq(Entries) /\ Len(stack') = Len(stack) - 1
         /\ Len(stack) \in Nat \ {0}
         /\ \A i \in Calls' : stack'[i] = stack[i]
         /\ \A i : i \in Calls' <=> i \in Calls /\ i # Len(stack)
         /\ TopCalls <=> Top.how = "call"
<1>1. Len(stack) \in Nat /\ Len(stack) # 0
  OBVIOUS
<1>2. /\ stack' \in Seq(Entries) /\ Len(stack') = Len(stack) - 1
      /\ \A i \in 1..Len(stack) - 1 : stack'[i] = stack[i]
  <2>1. PICK n \in Nat : n = Len(stack) - 1
    BY <1>1
  <2>2. \A j \in 1..n : stack[j] \in Entries
    BY <2>1, ElementOfSeq
  <2>3. /\ SubSeq(stack, 1, n) \in Seq(Entries)
        /\ Len(SubSeq(stack, 1, n)) = IF 1 <= n THEN n - 1 + 1 ELSE 0
        /\ \A j \in 1..(n - 1 + 1) : SubSeq(stack, 1, n)[j] = stack[1 + j - 1]
    <3>1. 1 \in Int /\ n \in Int
      OBVIOUS
    <3> QED BY <2>2, <3>1, SubSeqProperties
  <2>4. stack' = SubSeq(stack, 1, n)
    BY <2>1 DEF Below
  <2>5. Len(SubSeq(stack, 1, n)) = n
    BY <2>3
  <2>6. \A j \in 1..n : SubSeq(stack, 1, n)[j] = stack[j]
    BY <2>3
  <2> QED BY <2>1, <2>3, <2>4, <2>5, <2>6
<1> QED BY <1>1, <1>2 DEF Calls, TopCalls, Top
-----------------------------------------------------------------------------
(* The chain along the pointers ch, from a frame *)

ChainOf(ch, c) == Reach({c}, {e \in Frames \X Frames : ch[e[1]] = e[2]})
Pointers == [Frames -> FrameOrNone]

LEMMA ChainFacts ==
  ASSUME NEW ch \in Pointers, NEW c \in Frames
  PROVE  /\ c \in ChainOf(ch, c) /\ ChainOf(ch, c) \subseteq Frames
         /\ \A g \in ChainOf(ch, c) : ch[g] # NoFrame => ch[g] \in ChainOf(ch, c)
<1> DEFINE R == {e \in Frames \X Frames : ch[e[1]] = e[2]}
<1>0. ChainOf(ch, c) = Reach({c}, R)
  BY DEF ChainOf
<1>1. {c} \in SUBSET Frames
  OBVIOUS
<1>2. c \in ChainOf(ch, c) /\ ChainOf(ch, c) \subseteq Frames
  BY <1>0, <1>1, ReachStarts
<1>3. ASSUME NEW g \in ChainOf(ch, c), ch[g] # NoFrame
      PROVE  ch[g] \in ChainOf(ch, c)
  <2>1. ch[g] \in Frames
    BY <1>2, <1>3, FrameFacts DEF Pointers
  <2>2. <<g, ch[g]>> \in R
    BY <1>2, <2>1
  <2> HIDE DEF R
  <2> QED BY <1>0, <1>3, <2>1, <2>2, ReachGoesOn
<1> QED BY <1>2, <1>3

\* A chain is contained in every set that it cannot leave.
LEMMA ChainIsLeast ==
  ASSUME NEW ch \in Pointers, NEW c \in Frames, NEW T \in SUBSET Frames, c \in T,
         \A g \in T : ch[g] # NoFrame => ch[g] \in T
  PROVE  ChainOf(ch, c) \subseteq T
<1> DEFINE R == {e \in Frames \X Frames : ch[e[1]] = e[2]}
<1>1. ChainOf(ch, c) = Reach({c}, R)
  BY DEF ChainOf
<1>2. \A e \in R : e[1] \in T => e[2] \in T
  BY FrameFacts
<1> HIDE DEF R
<1> QED BY <1>1, <1>2, ReachIsLeast

\* A frame of a chain is its first, or another one points at it.
LEMMA ChainUnrolls ==
  ASSUME NEW ch \in Pointers, NEW c \in Frames, NEW y \in ChainOf(ch, c), y # c
  PROVE  \E x \in ChainOf(ch, c) : ch[x] = y
<1> DEFINE R == {e \in Frames \X Frames : ch[e[1]] = e[2]}
<1>1. ChainOf(ch, c) = Reach({c}, R)
  BY DEF ChainOf
<1>2. {c} \in SUBSET Frames /\ R \in SUBSET (Frames \X Frames)
  OBVIOUS
<1>3. \A e \in R : ch[e[1]] = e[2]
  OBVIOUS
<1>4. \E x \in ChainOf(ch, c) : <<x, y>> \in R
  <2> HIDE DEF R
  <2> QED BY <1>1, <1>2, ReachUnrolls
<1> QED BY <1>3, <1>4

\* A frame without a pointer is a chain.
LEMMA ChainEnds ==
  ASSUME NEW ch \in Pointers, NEW c \in Frames, ch[c] = NoFrame
  PROVE  ChainOf(ch, c) = {c}
<1> DEFINE T == {c}
<1>1. T \in SUBSET Frames /\ c \in T /\ \A g \in T : ch[g] # NoFrame => ch[g] \in T
  OBVIOUS
<1>2. ChainOf(ch, c) \subseteq T
  <2> HIDE DEF T
  <2> QED BY <1>1, ChainIsLeast
<1> QED BY <1>2, ChainFacts

\* The rest of a chain is the chain from there.
LEMMA ChainContains ==
  ASSUME NEW ch \in Pointers, NEW c \in Frames, NEW x \in ChainOf(ch, c)
  PROVE  ChainOf(ch, x) \subseteq ChainOf(ch, c)
BY ChainFacts, ChainIsLeast

LEMMA ChainGoesDown ==
  ASSUME NEW ch \in Pointers, NEW c \in Frames, NEW y \in ChainOf(ch, c), y # c
  PROVE  ch[c] \in Frames /\ y \in ChainOf(ch, ch[c])
<1>1. CASE ch[c] = NoFrame
  BY <1>1, ChainEnds
<1>2. CASE ch[c] # NoFrame
  <2>1. ch[c] \in Frames
    BY <1>2, FrameFacts DEF Pointers
  <2> DEFINE T == {c} \cup ChainOf(ch, ch[c])
  <2>2. /\ T \in SUBSET Frames /\ c \in T
        /\ \A g \in T : ch[g] # NoFrame => ch[g] \in T
    BY <2>1, ChainFacts
  <2>3. ChainOf(ch, c) \subseteq T
    <3> HIDE DEF T
    <3> QED BY <2>2, ChainIsLeast
  <2> QED BY <2>1, <2>3
<1> QED BY <1>1, <1>2

\* Where a chain ends, the chain from each of its frames ends.
LEMMA EndIsEverywhere ==
  ASSUME NEW ch \in Pointers, NEW c \in Frames,
         NEW g \in ChainOf(ch, c), ch[g] = NoFrame, NEW x \in ChainOf(ch, c)
  PROVE  g \in ChainOf(ch, x)
<1> DEFINE T == {y \in ChainOf(ch, c) : g \in ChainOf(ch, y)}
<1>1. T \in SUBSET Frames /\ c \in T
  BY ChainFacts
<1>2. ASSUME NEW y \in T, ch[y] # NoFrame PROVE ch[y] \in T
  <2>1. y \in Frames /\ y # g /\ ch[y] \in ChainOf(ch, c)
    BY <1>2, ChainFacts
  <2>2. g \in ChainOf(ch, ch[y])
    BY <1>2, <2>1, ChainGoesDown
  <2> QED BY <2>1, <2>2
<1>3. ChainOf(ch, c) \subseteq T
  <2> HIDE DEF T
  <2> QED BY <1>1, <1>2, ChainIsLeast
<1> QED BY <1>3

LEMMA EndIsUnique ==
  ASSUME NEW ch \in Pointers, NEW c \in Frames,
         NEW g \in ChainOf(ch, c), ch[g] = NoFrame,
         NEW h \in ChainOf(ch, c), ch[h] = NoFrame
  PROVE  g = h
<1>1. g \in ChainOf(ch, h) /\ h \in Frames
  BY EndIsEverywhere, ChainFacts
<1> QED BY <1>1, ChainEnds

\* f, which pointed at nothing, points at c.
LEMMA PointerSet ==
  ASSUME NEW ch \in Pointers, NEW f \in Frames, NEW c \in Frames,
         ch[f] = NoFrame, NEW d \in Pointers, d = [ch EXCEPT ![f] = c],
         NEW x \in Frames
  PROVE  /\ ChainOf(ch, x) \subseteq ChainOf(d, x)
         /\ f \in ChainOf(ch, x) => ChainOf(ch, c) \subseteq ChainOf(d, x)
<1>0. \A y \in Frames : y # f => d[y] = ch[y]
  BY DEF Pointers
<1>00. d[f] = c
  BY DEF Pointers
<1>1. ASSUME NEW y \in Frames PROVE ChainOf(ch, y) \subseteq ChainOf(d, y)
  <2>1. ChainOf(d, y) \in SUBSET Frames /\ y \in ChainOf(d, y)
    BY ChainFacts
  <2>2. \A g \in ChainOf(d, y) : ch[g] # NoFrame => ch[g] \in ChainOf(d, y)
    BY <1>0, <2>1, ChainFacts
  <2> QED BY <2>1, <2>2, ChainIsLeast
<1>2. ASSUME f \in ChainOf(ch, x)
      PROVE  ChainOf(ch, c) \subseteq ChainOf(d, x)
  <2>1. f \in ChainOf(d, x)
    BY <1>1, <1>2
  <2>2. c \in ChainOf(d, x)
    <3>1. d[f] # NoFrame
      BY <1>00, FrameFacts
    <3> QED BY <1>00, <2>1, <3>1, ChainFacts
  <2>3. ChainOf(d, c) \subseteq ChainOf(d, x)
    BY <2>2, ChainContains
  <2> QED BY <1>1, <2>3
<1> QED BY <1>1, <1>2

\* q, which pointed at f, the end of a chain, points at nothing.
LEMMA PointerCleared ==
  ASSUME NEW ch \in Pointers, NEW q \in Frames, NEW f \in Frames,
         ch[q] = f, ch[f] = NoFrame, NEW d \in Pointers,
         d = [ch EXCEPT ![q] = NoFrame], NEW x \in Frames
  PROVE  ChainOf(ch, x) \subseteq ChainOf(d, x) \cup {f}
<1>0. \A y \in Frames : y # q => d[y] = ch[y]
  BY DEF Pointers
<1> DEFINE T == ChainOf(d, x) \cup {f}
<1>1. T \in SUBSET Frames /\ x \in T
  BY ChainFacts
<1>2. \A g \in T : ch[g] # NoFrame => ch[g] \in T
  BY <1>0, ChainFacts
<1> HIDE DEF T
<1>3. ChainOf(ch, x) \subseteq T
  BY <1>1, <1>2, ChainIsLeast
<1> QED BY <1>3 DEF T

\* If pointers lead to younger frames, chains do.
LEMMA ChainAscends ==
  ASSUME NEW ch \in Pointers, NEW c \in Frames,
         \A f \in Frames : ch[f] # NoFrame => f < ch[f],
         NEW y \in ChainOf(ch, c)
  PROVE  c <= y
<1> DEFINE T == {z \in Frames : c <= z}
<1>1. T \in SUBSET Frames /\ c \in T
  BY DEF Frames
<1>2. ASSUME NEW g \in T, ch[g] # NoFrame PROVE ch[g] \in T
  <2>1. ch[g] \in Frames
    BY <1>2, FrameFacts DEF Pointers
  <2> QED BY <1>2, <2>1, ProcessTaskAssumption DEF Frames
<1>3. ChainOf(ch, c) \subseteq T
  <2> HIDE DEF T
  <2> QED BY <1>1, <1>2, ChainIsLeast
<1> QED BY <1>3

\* The end of a chain, and the operators of ProcessTask, now and after a step.
LeafOf(ch, c) == CHOOSE g \in ChainOf(ch, c) : ch[g] = NoFrame

LEMMA LeafFacts ==
  ASSUME NEW ch \in Pointers, NEW c \in Frames,
         NEW g \in ChainOf(ch, c), ch[g] = NoFrame
  PROVE  LeafOf(ch, c) = g
<1>1. LeafOf(ch, c) \in ChainOf(ch, c) /\ ch[LeafOf(ch, c)] = NoFrame
  BY DEF LeafOf
<1> QED BY <1>1, EndIsUnique

LEMMA ChainNames ==
  ASSUME NEW c \in Frames
  PROVE  /\ Chain(c) = ChainOf(child, c) /\ Leaf(c) = LeafOf(child, c)
         /\ Chain(c)' = ChainOf(child', c) /\ Leaf(c)' = LeafOf(child', c)
BY DEF Chain, ChainOf, Leaf, LeafOf, Reach, Frames
-----------------------------------------------------------------------------
(* Owners *)

\* What dies with the frames of S: S, and what they own.
LEMMA LocalsFacts ==
  ASSUME NEW S \in SUBSET Frames
  PROVE  /\ S \subseteq WithLocals(S) /\ WithLocals(S) \subseteq Frames
         /\ \A g \in Frames : Exists(g) /\ owner[g] \in WithLocals(S)
                                => g \in WithLocals(S)
         /\ \A g \in WithLocals(S) : g \notin S =>
              Exists(g) /\ owner[g] \in WithLocals(S)
<1>1. WithLocals(S) = Reach(S, Owns) /\ Owns \in SUBSET (Frames \X Frames)
  BY DEF WithLocals, Owns
<1>2. S \subseteq WithLocals(S) /\ WithLocals(S) \subseteq Frames
  BY <1>1, ReachStarts
<1>3. ASSUME NEW g \in Frames, Exists(g), owner[g] \in WithLocals(S)
      PROVE  g \in WithLocals(S)
  <2>1. <<owner[g], g>> \in Owns
    BY <1>2, <1>3 DEF Owns
  <2> QED BY <1>1, <1>3, <2>1, ReachGoesOn
<1>4. ASSUME NEW g \in WithLocals(S), g \notin S
      PROVE  Exists(g) /\ owner[g] \in WithLocals(S)
  <2>1. \E x \in WithLocals(S) : <<x, g>> \in Owns
    BY <1>1, <1>4, ReachUnrolls
  <2> QED BY <2>1 DEF Owns
<1> QED BY <1>2, <1>3, <1>4

\* Frames that f may destroy: some of its locals, and what they own.
Condemned(f, D) ==
  /\ D \in SUBSET Frames
  /\ \A g \in D : Exists(g) /\ f < g /\ (owner[g] = f \/ owner[g] \in D)
  /\ \A g \in Frames : Exists(g) /\ owner[g] \in D => g \in D

LEMMA LocalsCondemned ==
  ASSUME Order, NEW f \in Frames, NEW S \in SUBSET Frames,
         \A g \in S : Exists(g) /\ owner[g] = f
  PROVE  Condemned(f, WithLocals(S))
<1> DEFINE W == WithLocals(S)
           T == {g \in Frames : f < g}
<1>0. ASSUME NEW g \in Frames, Exists(g), owner[g] \in Frames
      PROVE  owner[g] < g
  <2>1. g # Main /\ state[g] # "none"
    BY <1>0, FrameFacts DEF Order, Exists
  <2> QED BY <2>1 DEF Order
<1>1. T \in SUBSET Frames /\ S \subseteq T
  BY <1>0
<1>2. ASSUME NEW e \in Owns, e[1] \in T PROVE e[2] \in T
  <2>1. e[2] \in Frames /\ Exists(e[2]) /\ owner[e[2]] = e[1]
    BY DEF Owns
  <2>2. e[1] < e[2]
    BY <1>0, <1>2, <2>1
  <2> QED BY <1>2, <2>1, <2>2, ProcessTaskAssumption DEF Frames
<1>3. W \subseteq T
  <2> HIDE DEF T
  <2> QED BY <1>1, <1>2, ReachIsLeast DEF WithLocals
<1>4. /\ S \subseteq W /\ W \subseteq Frames
      /\ \A g \in Frames : Exists(g) /\ owner[g] \in W => g \in W
      /\ \A g \in W : g \notin S => Exists(g) /\ owner[g] \in W
  BY LocalsFacts
<1> QED BY <1>3, <1>4 DEF Condemned

LEMMA LocalsOfCondemned ==
  ASSUME Order, NEW f \in Frames
  PROVE  /\ Condemned(f, LocalsOf(f))
         /\ \A g \in Frames : Exists(g) /\ owner[g] = f => g \in LocalsOf(f)
<1> DEFINE S == {g \in Frames : Exists(g) /\ owner[g] = f}
<1>1. S \in SUBSET Frames /\ LocalsOf(f) = WithLocals(S)
  BY DEF LocalsOf
<1>2. \A g \in S : Exists(g) /\ owner[g] = f
  OBVIOUS
<1>3. \A g \in Frames : Exists(g) /\ owner[g] = f => g \in S
  OBVIOUS
<1> HIDE DEF S
<1>4. S \subseteq WithLocals(S)
  BY <1>1, LocalsFacts
<1> QED BY <1>1, <1>2, <1>3, <1>4, LocalsCondemned

LEMMA CondemnedFacts ==
  ASSUME NEW f \in Frames, NEW D, Condemned(f, D)
  PROVE  /\ D \in SUBSET Frames /\ Main \notin D /\ f \notin D
         /\ \A g \in Frames : g <= f => g \notin D
BY ProcessTaskAssumption DEF Condemned, Frames, Main

\* Frames are destroyed with their locals, or none is.
LEMMA OwnersKept ==
  ASSUME AllOwned, NEW D \in SUBSET Frames,
         owner' = owner,
         \A f \in Frames : Exists(f)' <=> Exists(f) /\ f \notin D,
         \A f \in Frames : Exists(f) /\ owner[f] \in D => f \in D
  PROVE  AllOwned'
<1>1. {Main} \in SUBSET Frames
  BY FrameFacts
<1>2. \A e \in Owns : e \in Owns' \/ e[2] \in D
  BY DEF Owns, Frames
<1>3. \A e \in Owns : e[1] \in D => e[2] \in D
  BY DEF Owns
<1>4. ASSUME NEW f \in Frames, Exists(f), f \notin D
      PROVE  f \in Reach({Main}, Owns')
  <2>1. f \in Reach({Main}, Owns)
    BY <1>4 DEF AllOwned, WithLocals
  <2> QED BY <1>1, <1>2, <1>3, <1>4, <2>1, ReachWithout
<1>5. \A f \in Frames : Exists(f)' => f \in Reach({Main}, Owns')
  BY <1>4
<1>6. WithLocals({Main})' = Reach({Main}, Owns')
  BY DEF WithLocals, Reach, Main, Frames
<1> QED BY <1>5, <1>6 DEF AllOwned, Frames

\* A frame creates another.
LEMMA OwnersGrow ==
  ASSUME AllOwned, NEW f \in Frames, NEW c \in Frames,
         owner \in [Frames -> FrameOrNone],
         owner' = [owner EXCEPT ![c] = f],
         Exists(f), ~Exists(c), Exists(c)',
         \A g \in Frames : g # c => (Exists(g)' <=> Exists(g))
  PROVE  AllOwned'
<1>1. {Main} \in SUBSET Frames
  BY FrameFacts
<1>2. \A e \in Owns : e \in Owns'
  BY DEF Owns, Frames
<1>3. ASSUME NEW g \in Frames, Exists(g)
      PROVE  g \in Reach({Main}, Owns')
  <2>1. g \in Reach({Main}, Owns)
    BY <1>3 DEF AllOwned, WithLocals
  <2> QED BY <1>1, <1>2, <2>1, ReachGrows
<1>4. c \in Reach({Main}, Owns')
  <2>1. <<f, c>> \in Owns'
    BY DEF Owns, Frames
  <2> QED BY <1>3, <2>1, ReachGoesOn
<1>5. \A g \in Frames : Exists(g)' => g \in Reach({Main}, Owns')
  BY <1>3, <1>4
<1>6. WithLocals({Main})' = Reach({Main}, Owns')
  BY DEF WithLocals, Reach, Main, Frames
<1> QED BY <1>5, <1>6 DEF AllOwned, Frames
\* What a step that creates no frame leaves of the first part of the
\* invariant, when it destroys D.
LEMMA BaseKept ==
  ASSUME Order, Kinds, AllOwned, owner' = owner, kind' = kind,
         NEW D \in SUBSET Frames, Main \notin D,
         \A g \in Frames : Exists(g) /\ owner[g] \in D => g \in D,
         \A g \in Frames : state'[g] # "none" <=> state[g] # "none",
         \A g \in Frames : Exists(g)' <=> Exists(g) /\ g \notin D,
         \A g \in Frames : state'[g] \in {"initial", "yielded"} =>
            state'[g] = state[g] \/ (g # Main /\ kind[g] = "gen")
  PROVE  Order' /\ Kinds' /\ AllOwned'
<1>1. AllOwned'
  BY OwnersKept
<1>2. Order'
  BY DEF Order, Frames, Main, NoFrame
<1>3. Kinds'
  BY FrameFacts DEF Kinds, Frames, Main
<1> QED BY <1>1, <1>2, <1>3
-----------------------------------------------------------------------------
(* What the invariant says of the frames, the calls and the chains *)

\* The invariant, taken apart.
LEMMA Parts ==
  ASSUME TaskInv, Alive
  PROVE  /\ TypeOK /\ stack \in Seq(Entries) /\ StackShape
         /\ Order /\ Callers /\ Kinds /\ AllOwned /\ Spent
         /\ Running /\ Family /\ Idle /\ Promise /\ OnList /\ ChainsEnd
         /\ NextKnown
         /\ child \in Pointers
BY DEF TaskInv, BaseInv, ChainInv, TypeOK, Entries, Pointers

LEMMA CallFacts ==
  ASSUME TaskInv, Alive \/ at = "unwind"
  PROVE  /\ \A i \in Calls : /\ i \in 1..Len(stack)
                             /\ stack[i].frame \in Frames
                             /\ stack[i].callee \in Frames \ {Main}
                             /\ stack[i].frame < stack[i].callee
         /\ ~TopCalls => Calls = {}
         /\ TopCalls => Len(stack) \in Calls /\ stack # <<>>
         /\ at \in {"run", "unwind"} => \A i \in Calls : stack[i].frame < running
<1>1. TypeOK /\ StackShape /\ Order /\ Callers
  BY DEF TaskInv, BaseInv
<1>2. stack \in Seq(Entries) /\ Len(stack) \in Nat
  BY <1>1 DEF TypeOK, Entries
<1>3. ASSUME NEW i \in Calls
      PROVE  /\ i \in 1..Len(stack)
             /\ stack[i].frame \in Frames
             /\ stack[i].callee \in Frames \ {Main}
             /\ stack[i].frame < stack[i].callee
  <2>1. i \in 1..Len(stack) /\ stack[i] \in Entries
    BY <1>2 DEF Calls
  <2>2. stack[i].frame \in Frames /\ stack[i].callee \in Frames
    BY <1>1, <2>1 DEF Entries, StackShape
  <2>3. stack[i].callee # Main
    BY <1>1, <2>2, FrameFacts DEF Callers, Order
  <2> QED BY <1>1, <2>1, <2>2, <2>3 DEF Callers, Order
<1>4. ~TopCalls => Calls = {}
  BY <1>1, <1>2 DEF StackShape, TopCalls, Calls
<1>5. TopCalls => Len(stack) \in Calls /\ stack # <<>>
  BY <1>2 DEF TopCalls, Calls
<1>6. ASSUME at \in {"run", "unwind"}, NEW i \in Calls
      PROVE  stack[i].frame < running
  <2> DEFINE n == Len(stack)
  <2>1. n \in Calls /\ running = stack[n].callee /\ i <= n
    BY <1>1, <1>3, <1>4, <1>6 DEF StackShape, TopCalls
  <2>2. /\ stack[i].frame \in Nat /\ stack[n].frame \in Nat
        /\ stack[n].callee \in Nat
    BY <1>3, <2>1 DEF Frames
  <2>3. stack[i].frame <= stack[n].frame
    BY <1>1, <1>3, <2>1, <2>2 DEF Callers
  <2>4. stack[n].frame < stack[n].callee
    BY <1>3, <2>1
  <2> QED BY <2>1, <2>2, <2>3, <2>4
<1> QED BY <1>3, <1>4, <1>5, <1>6

\* Chains lead to younger frames and end in one place.
LEMMA ChainsDescend ==
  ASSUME TaskInv, Alive
  PROVE  /\ \A f \in Frames : child[f] # NoFrame =>
              child[f] \in Frames \ {Main} /\ f < child[f]
         /\ \A c \in Frames :
              /\ \A g \in Chain(c) : c <= g
              /\ c \in Chain(c) /\ Chain(c) \subseteq Frames
              /\ \A g \in Chain(c) : child[g] # NoFrame => child[g] \in Chain(c)
              /\ Leaf(c) \in Chain(c) /\ child[Leaf(c)] = NoFrame
              /\ \A g \in Chain(c) : child[g] = NoFrame => Leaf(c) = g
<1>1. Family /\ Order /\ ChainsEnd /\ child \in Pointers
  BY Parts
<1>2. ASSUME NEW f \in Frames, child[f] # NoFrame
      PROVE  child[f] \in Frames \ {Main} /\ f < child[f]
  <2>1. child[f] \in Frames
    BY <1>1, <1>2, FrameFacts DEF Pointers
  <2>2. child[f] # Main
    BY <1>1, <1>2, FrameFacts DEF Family, Order
  <2> QED BY <1>1, <1>2, <2>1, <2>2 DEF Family, Order
<1>3. ASSUME NEW c \in Frames
      PROVE  /\ \A g \in Chain(c) : c <= g
             /\ c \in Chain(c) /\ Chain(c) \subseteq Frames
             /\ \A g \in Chain(c) : child[g] # NoFrame => child[g] \in Chain(c)
             /\ Leaf(c) \in Chain(c) /\ child[Leaf(c)] = NoFrame
             /\ \A g \in Chain(c) : child[g] = NoFrame => Leaf(c) = g
  <2>1. Chain(c) = ChainOf(child, c) /\ Leaf(c) = LeafOf(child, c)
    BY ChainNames
  <2>2. \A g \in Chain(c) : c <= g
    BY <1>1, <1>2, <2>1, ChainAscends
  <2>3. /\ c \in Chain(c) /\ Chain(c) \subseteq Frames
        /\ \A g \in Chain(c) : child[g] # NoFrame => child[g] \in Chain(c)
    BY <1>1, <2>1, ChainFacts
  <2>4. \A g \in Chain(c) : child[g] = NoFrame => Leaf(c) = g
    BY <1>1, <2>1, LeafFacts
  <2>5. Leaf(c) \in Chain(c) /\ child[Leaf(c)] = NoFrame
    BY <1>1, <2>4 DEF ChainsEnd
  <2> QED BY <2>2, <2>3, <2>4, <2>5
<1> QED BY <1>2, <1>3

\* The frames of the process's chain: each but the first is awaited by one,
\* and all know the process.
LEMMA ProcessChain ==
  ASSUME TaskInv, Alive, NEW x \in Chain(Main)
  PROVE  /\ x \in Frames /\ InProcess(x)
         /\ x # Main => /\ state[x] \in {"running", "awaiting", "blocked"}
                        /\ parent[x] \in Chain(Main)
                        /\ child[parent[x]] = x
                        /\ state[parent[x]] = "awaiting"
                        /\ parent[x] # NoFrame
<1>1. Family /\ Promise /\ Kinds /\ child \in Pointers
  BY Parts
<1>2. Chain(Main) = ChainOf(child, Main) /\ Chain(Main) \subseteq Frames
  BY ChainNames, ChainsDescend, FrameFacts
<1> DEFINE T == {g \in Frames : Exists(g) /\ InProcess(g)
                   /\ (g # Main => state[g] \in {"running", "awaiting", "blocked"})}
<1>3. Chain(Main) \subseteq T
  <2>1. T \in SUBSET Frames /\ Main \in T
    BY <1>1, FrameFacts DEF Kinds, InProcess
  <2>2. ASSUME NEW g \in T, child[g] # NoFrame PROVE child[g] \in T
    <3>1. state[g] = "awaiting" /\ child[g] \in Frames
      BY <1>1, <2>2, ChainsDescend DEF Family
    <3>2. state[child[g]] \in {"running", "awaiting", "blocked"}
      BY <1>1, <3>1 DEF Family
    <3>3. processPromise[child[g]]
      BY <1>1, <2>2 DEF Promise
    <3> QED BY <3>1, <3>2, <3>3 DEF InProcess, Exists
  <2> HIDE DEF T
  <2> QED BY <1>1, <1>2, <2>1, <2>2, FrameFacts, ChainIsLeast
<1>4. ASSUME x # Main
      PROVE  /\ parent[x] \in Chain(Main) /\ child[parent[x]] = x
             /\ state[parent[x]] = "awaiting" /\ parent[x] # NoFrame
  <2>1. PICK p \in Chain(Main) : child[p] = x
    BY <1>1, <1>2, <1>4, FrameFacts, ChainUnrolls
  <2>2. Exists(p) /\ p \in Frames /\ x # NoFrame
    BY <1>2, <1>3, FrameFacts
  <2>3. state[p] = "awaiting"
    BY <1>1, <2>1, <2>2 DEF Family
  <2>4. parent[x] = p
    BY <1>1, <2>1, <2>2, <2>3 DEF Family
  <2> QED BY <2>1, <2>2, <2>3, <2>4, FrameFacts
<1> QED BY <1>3, <1>4

\* A suspended frame outside it, stored or just called, is the first of a
\* chain of suspended frames, the last of which waits for an awaitable.
LEMMA StoredChain ==
  ASSUME TaskInv, Alive, NEW c \in Frames, Suspended(c), c \notin Chain(Main)
  PROVE  /\ \A g \in Chain(c) : Suspended(g) /\ g \notin Chain(Main)
         /\ state[Leaf(c)] = "blocked"
<1>1. Family /\ child \in Pointers
  BY Parts
<1> DEFINE T == {g \in Frames : Suspended(g) /\ g \notin Chain(Main)}
<1>2. ASSUME NEW g \in T, child[g] # NoFrame PROVE child[g] \in T
  <2>1. state[g] = "awaiting" /\ child[g] \in Frames \ {Main}
    BY <1>1, <1>2, ChainsDescend DEF Family, Suspended, Exists
  <2>2. /\ parent[child[g]] = g
        /\ state[child[g]] \in {"running", "awaiting", "blocked"}
    BY <1>1, <2>1 DEF Family
  <2>3. child[g] \notin Chain(Main)
    BY <1>2, <2>1, <2>2, ProcessChain
  <2>4. state[child[g]] # "running"
    BY <1>1, <1>2, <2>1, <2>2, <2>3, FrameFacts DEF Family
  <2> QED BY <2>1, <2>2, <2>3, <2>4 DEF Suspended
<1>3. Chain(c) \subseteq T
  <2>1. T \in SUBSET Frames /\ c \in T /\ Chain(c) = ChainOf(child, c)
    BY ChainNames
  <2> HIDE DEF T
  <2> QED BY <1>1, <1>2, <2>1, ChainIsLeast
<1>4. Leaf(c) \in Chain(c) /\ child[Leaf(c)] = NoFrame
  BY ChainsDescend
<1> QED BY <1>1, <1>3, <1>4 DEF Family, Suspended

\* No frame below one that does not know the process knows it.
LEMMA Unannounced ==
  ASSUME TaskInv, Alive, NEW c \in Frames, ~InProcess(c)
  PROVE  \A g \in Chain(c) : ~InProcess(g)
<1>1. Family /\ Promise /\ child \in Pointers
  BY Parts
<1> DEFINE T == {g \in Frames : ~InProcess(g)}
<1>2. ASSUME NEW g \in T, child[g] # NoFrame PROVE child[g] \in T
  <2>1. child[g] \in Frames \ {Main} /\ owner[child[g]] = g
    BY <1>1, <1>2, ChainsDescend DEF Family
  <2> QED BY <1>1, <1>2, <2>1 DEF Promise, InProcess
<1>3. T \in SUBSET Frames /\ c \in T /\ Chain(c) = ChainOf(child, c)
  BY ChainNames
<1>4. Chain(c) \subseteq T
  <2> HIDE DEF T
  <2> QED BY <1>1, <1>2, <1>3, ChainIsLeast
<1> QED BY <1>4

\* The frame that executes awaits nothing.  It is the callee of the last call
\* and has no parent, or it is the last of the process's chain.
LEMMA Executing ==
  ASSUME TaskInv, NEW f \in Frames, Runs(f)
  PROVE  /\ Alive /\ at = "run" /\ running = f /\ state[f] = "running"
         /\ child[f] = NoFrame /\ Leaf(f) = f /\ Chain(f) = {f}
         /\ nextChild = NoFrame
         /\ \A i \in Calls : stack[i].frame < f /\ stack[i].frame # f
         /\ TopCalls => /\ f = stack[Len(stack)].callee
                        /\ f # Main /\ parent[f] = NoFrame
         /\ ~TopCalls => /\ Calls = {} /\ f \in Chain(Main) /\ Leaf(Main) = f
                         /\ InProcess(f) /\ (f # Main => parent[f] # NoFrame)
<1>1. Alive /\ at = "run" /\ running = f
  BY DEF Runs, Alive
<1>2. /\ StackShape /\ Running /\ Family /\ OnList /\ NextKnown
      /\ child \in Pointers
  BY <1>1, Parts
<1>3. state[f] = "running"
  BY <1>1, <1>2 DEF Running
<1>4. child[f] = NoFrame
  BY <1>2, <1>3 DEF Family, Exists
<1>5. Chain(f) = {f} /\ Leaf(f) = f
  <2>1. Chain(f) = {f}
    BY <1>2, <1>4, ChainNames, ChainEnds
  <2> QED BY <1>1, <1>4, <2>1, ChainsDescend
<1>6. \A i \in Calls : stack[i].frame < f /\ stack[i].frame # f
  BY <1>1, CallFacts DEF Frames
<1>7. ASSUME TopCalls
      PROVE  f = stack[Len(stack)].callee /\ f # Main /\ parent[f] = NoFrame
  <2>1. Len(stack) \in Calls /\ f = stack[Len(stack)].callee
    BY <1>1, <1>2, <1>7, CallFacts DEF StackShape
  <2> QED BY <1>1, <1>2, <2>1, CallFacts DEF Family
<1>8. ASSUME ~TopCalls
      PROVE  /\ Calls = {} /\ f \in Chain(Main) /\ Leaf(Main) = f
             /\ InProcess(f) /\ (f # Main => parent[f] # NoFrame)
  <2>1. Calls = {} /\ f \in Chain(Main)
    BY <1>1, <1>2, <1>8, CallFacts DEF OnList
  <2> QED BY <1>1, <1>4, <2>1, ChainsDescend, ProcessChain, FrameFacts
<1>9. nextChild = NoFrame
  BY <1>1, <1>2 DEF NextKnown
<1> QED BY <1>1, <1>3, <1>4, <1>5, <1>6, <1>7, <1>8, <1>9

\* Nobody runs between two resumptions, or when control is about to return to
\* resume(): the process, if it waits, waits for the end of its chain.
LEMMA Waiting ==
  ASSUME TaskInv, at \in {"loop", "return"}, ~TopCalls, ProcessWaits
  PROVE  /\ Calls = {}
         /\ \A f \in Frames : state[f] # "running"
         /\ \A f \in Chain(Main) : Suspended(f)
         /\ state[Leaf(Main)] = "blocked" /\ waiting[Leaf(Main)]
         /\ Resumed = Leaf(Main)
<1>1. /\ Alive /\ TypeOK /\ StackShape /\ Running /\ Family /\ Idle
  BY Parts DEF Alive
<1>2. Calls = {} /\ running = NoFrame
  BY <1>1, CallFacts DEF StackShape
<1>3. \A f \in Frames : state[f] # "running"
  BY <1>1, <1>2, FrameFacts DEF Running
<1>4. \A f \in Chain(Main) : Suspended(f)
  BY <1>1, <1>3, ProcessChain DEF ProcessWaits, Suspended
<1>5. Leaf(Main) \in Chain(Main) /\ child[Leaf(Main)] = NoFrame
      /\ Leaf(Main) \in Frames
  BY <1>1, ChainsDescend, FrameFacts
<1>6. state[Leaf(Main)] = "blocked" /\ waiting[Leaf(Main)]
  BY <1>1, <1>4, <1>5 DEF Suspended, Family, Idle
<1>7. Resumed = Leaf(Main)
  BY <1>5, FrameFacts DEF ProcessWaits, Resumed
<1> QED BY <1>2, <1>3, <1>4, <1>6, <1>7

\* What the caller finds when control comes back to it.
LEMMA Returned ==
  ASSUME TaskInv, at = "return", stack # <<>>, Top.how = "call"
  PROVE  LET f == Top.frame
             c == Top.callee
         IN /\ Alive /\ TopCalls /\ Len(stack) \in Calls
            /\ Top = stack[Len(stack)]
            /\ f \in Frames /\ c \in Frames \ {Main} /\ f < c /\ f # c
            /\ state[f] = "running" /\ child[f] = NoFrame
            /\ owner[c] = f /\ parent[c] = NoFrame
            /\ c \notin Chain(Main)
            /\ \/ /\ state[c] \in {"yielded", "final"} /\ nextChild = NoFrame
                  /\ AwaitReady(c) /\ Chain(c) = {c}
               \/ /\ Suspended(c) /\ ~AwaitReady(c)
                  /\ nextChild = IF processPromise[c] THEN Leaf(c) ELSE NoFrame
<1> DEFINE f == Top.frame
           c == Top.callee
<1>1. /\ Alive /\ TypeOK /\ StackShape /\ Callers /\ Kinds /\ Running
      /\ Family /\ Idle /\ NextKnown /\ child \in Pointers
      /\ stack \in Seq(Entries)
  BY Parts DEF Alive
<1>2. TopCalls /\ Len(stack) \in Calls /\ Top = stack[Len(stack)]
  BY <1>1 DEF Calls, TopCalls, Top
<1>3. f \in Frames /\ c \in Frames \ {Main} /\ f < c /\ f # c
  BY <1>1, <1>2, CallFacts DEF Frames
<1>4. /\ state[f] = "running" /\ owner[c] = f /\ parent[c] = NoFrame
      /\ state[c] # "none"
  BY <1>1, <1>2 DEF Callers, Family
<1>5. child[f] = NoFrame
  BY <1>1, <1>3, <1>4 DEF Family, Exists
<1>6. c \notin Chain(Main)
  BY <1>1, <1>3, <1>4, ProcessChain
<1>7. \/ state[c] \in {"yielded", "final"} /\ nextChild = NoFrame
      \/ /\ Suspended(c)
         /\ nextChild = IF processPromise[c] THEN Leaf(c) ELSE NoFrame
  BY <1>1, <1>2 DEF NextKnown
<1>8. ASSUME state[c] \in {"yielded", "final"}
      PROVE  AwaitReady(c) /\ Chain(c) = {c}
  <2>1. child[c] = NoFrame
    BY <1>1, <1>3, <1>8 DEF Family, Exists
  <2>2. AwaitReady(c)
    BY <1>1, <1>3, <1>4, <1>8, <2>1 DEF Kinds, Idle, AwaitReady
  <2> QED BY <1>1, <1>3, <2>1, <2>2, ChainNames, ChainEnds
<1>9. ASSUME Suspended(c) PROVE ~AwaitReady(c)
  BY <1>1, <1>3, <1>9 DEF Suspended, Family, Idle, AwaitReady
<1> QED BY <1>1, <1>2, <1>3, <1>4, <1>5, <1>6, <1>7, <1>8, <1>9
-----------------------------------------------------------------------------
(* Types *)

LEMMA DestroyFacts ==
  ASSUME TypeOK, NEW S
  PROVE  /\ Destroy(state, S) \in [Frames -> {"none", "initial", "running",
              "blocked", "awaiting", "yielded", "final", "destroyed", "dead"}]
         /\ \A f \in Frames : Destroy(state, S)[f] =
              IF f \in S THEN "destroyed" ELSE state[f]
BY DEF TypeOK, Destroy

LEMMA AfterBodyFacts ==
  ASSUME TypeOK, NEW f \in Frames
  PROVE  /\ AfterBody(f) \in [Frames -> {"none", "initial", "running",
              "blocked", "awaiting", "yielded", "final", "destroyed", "dead"}]
         /\ \A g \in Frames : AfterBody(f)[g] =
              IF g = f THEN "final"
              ELSE IF g \in LocalsOf(f) THEN "destroyed" ELSE state[g]
BY DestroyFacts DEF AfterBody

LEMMA SuspendOnTypes ==
  ASSUME TypeOK, NEW f \in Frames, NEW c \in Frames, Leaf(c) \in Frames,
         SuspendOn(f, c)
  PROVE  /\ kind' = kind /\ owner' = owner /\ waiting' = waiting
         /\ state' = [state EXCEPT ![f] = "awaiting"]
         /\ state' \in [Frames -> {"none", "initial", "running", "blocked",
              "awaiting", "yielded", "final", "destroyed", "dead"}]
         /\ child' \in [Frames -> FrameOrNone]
         /\ parent' \in [Frames -> FrameOrNone]
         /\ processPromise' \in [Frames -> BOOLEAN]
         /\ nextChild' \in FrameOrNone
BY FrameFacts DEF SuspendOn, TypeOK, NextAfterUpdate

LEMMA TaskTypeStep ==
  ASSUME TaskInv, Next
  PROVE  TypeOK'
<1>0. TypeOK /\ stack \in Seq(Entries)
  BY DEF TaskInv, TypeOK, Entries
<1> USE DEF promiseVars
<1>1. CASE Resume
  BY <1>0, <1>1, FrameFacts DEF Resume, Resumed, NextAfterResume, TypeOK
<1>2. CASE ReturnToContext \/ Kill
  BY <1>0, <1>2, DestroyFacts DEF ReturnToContext, Kill, TypeOK
<1>3. ASSUME NEW f \in Frames, NEW c \in Frames,
             CallMethod(f, c) \/ CreateGenerator(f, c) \/ CallNext(f, c)
      PROVE  TypeOK'
  <2>1. stack' \in Seq(Entries)
    BY <1>0, <1>3, EntryFacts, Pushed DEF CallMethod, CreateGenerator, CallNext
  <2>2. running' \in FrameOrNone /\ (at' \in {"run", "unwind"} => running' \in Frames)
    BY <1>0, <1>3, FrameFacts
    DEF CallMethod, CreateGenerator, CallNext, TypeOK
  <2>3. CASE CallMethod(f, c) \/ CreateGenerator(f, c)
    <3>1. kind' \in [Frames -> {"process", "method", "gen"}]
      BY <1>0, <2>3 DEF CallMethod, CreateGenerator, NewFrame, TypeOK
    <3>2. owner' \in [Frames -> FrameOrNone]
      BY <1>0, <2>3, FrameFacts
      DEF CallMethod, CreateGenerator, NewFrame, TypeOK
    <3> QED BY <1>0, <2>1, <2>2, <2>3, <3>1, <3>2
        DEF CallMethod, CreateGenerator, NewFrame, TypeOK, Entries
  <2>4. CASE CallNext(f, c)
    BY <1>0, <2>1, <2>2, <2>4 DEF CallNext, TypeOK, Entries
  <2> QED BY <1>3, <2>3, <2>4
<1>4. ASSUME NEW f \in Frames, Block(f) \/ Yield(f)
      PROVE  TypeOK'
  <2>1. CASE Block(f)
    BY <1>0, <2>1, FrameFacts DEF Block, TypeOK
  <2>2. CASE Yield(f)
    BY <1>0, <2>2, FrameFacts DEF Yield, YieldClears, TypeOK
  <2> QED BY <1>4, <2>1, <2>2
<1>5. ASSUME NEW f \in Frames, YieldToParent(f) \/ EndToParent(f)
      PROVE  TypeOK'
  <2>1. stack' \in Seq(Entries)
    BY <1>0, <1>5, EntryFacts, Pushed DEF YieldToParent, EndToParent
  <2>2. parent[f] \in Frames /\ parent[f] \in FrameOrNone
    BY <1>0, <1>5, FrameFacts DEF YieldToParent, EndToParent, TypeOK
  <2>3. CASE YieldToParent(f)
    BY <1>0, <2>1, <2>2, <2>3, FrameFacts
    DEF YieldToParent, YieldClears, ParentAfterYield, TypeOK, Entries
  <2>4. CASE EndToParent(f)
    BY <1>0, <2>1, <2>2, <2>4, FrameFacts, AfterBodyFacts
    DEF EndToParent, ChildAfterEnd, TypeOK, Entries
  <2> QED BY <1>5, <2>3, <2>4
<1>6. ASSUME NEW f \in Frames, End(f) \/ EndGenerator(f) \/ Throw(f)
      PROVE  TypeOK'
  BY <1>0, <1>6, FrameFacts, AfterBodyFacts
  DEF End, EndGenerator, Ends, Throw, Runs, TypeOK
<1>7. ASSUME NEW f \in Frames, NEW c \in Frames, AwaitTask(f, c)
      PROVE  TypeOK'
  <2>1. Alive /\ SuspendOn(f, c)
    BY <1>7 DEF AwaitTask, Runs, Alive
  <2>2. Leaf(c) \in Frames
    BY <2>1, ChainsDescend
  <2> QED BY <1>0, <1>7, <2>1, <2>2, SuspendOnTypes, FrameFacts
      DEF AwaitTask, TypeOK
<1>8. ASSUME NEW f \in Frames, NEW c \in Frames, DestroyTask(f, c)
      PROVE  TypeOK'
  BY <1>0, <1>8, DestroyFacts DEF DestroyTask, TypeOK
<1>9. CASE ReturnToInverted
  BY <1>0, <1>9, Popped DEF ReturnToInverted, TypeOK, Entries
<1>10. CASE ReturnToCaller
  <2>1. Top.frame \in Frames
    BY <1>10, Returned DEF ReturnToCaller
  <2> QED BY <1>0, <1>10, <2>1, FrameFacts, Popped
      DEF ReturnToCaller, TypeOK, Entries
<1>11. CASE AwaitNext
  <2>1. Top.frame \in Frames /\ Top.callee \in Frames /\ Alive
    BY <1>11, Returned DEF AwaitNext
  <2>2. Leaf(Top.callee) \in Frames
    BY <2>1, ChainsDescend
  <2> QED BY <1>0, <1>11, <2>1, <2>2, SuspendOnTypes, Popped
      DEF AwaitNext, TypeOK, Entries
<1>12. CASE UnwindCall \/ UnwindInverted
  <2>1. stack # <<>> /\ stack' = Below
    BY <1>12 DEF UnwindCall, UnwindInverted, Unwinds
  <2>2. Top \in Entries /\ Top.frame \in Frames /\ stack' \in Seq(Entries)
    <3>1. stack' \in Seq(Entries)
      BY <1>0, <2>1, Popped
    <3>2. Top \in Entries
      BY <1>0, <2>1 DEF Top
    <3> QED BY <3>1, <3>2 DEF Entries
  <2>3. CASE UnwindCall
    BY <1>0, <2>2, <2>3, FrameFacts, AfterBodyFacts
    DEF UnwindCall, Unwinds, TypeOK, Entries
  <2>4. CASE UnwindInverted
    BY <1>0, <2>2, <2>4, FrameFacts, AfterBodyFacts
    DEF UnwindInverted, Unwinds, TypeOK, Entries
  <2> QED BY <1>12, <2>3, <2>4
<1>13. CASE UnwindResume
  BY <1>0, <1>13, FrameFacts, DestroyFacts DEF UnwindResume, TypeOK
<1>14. CASE Terminated
  BY <1>0, <1>14 DEF Terminated, vars, TypeOK
<1> QED
  BY <1>1, <1>2, <1>3, <1>4, <1>5, <1>6, <1>7, <1>8, <1>9, <1>10, <1>11,
     <1>12, <1>13, <1>14
  DEF Next, FrameStep
-----------------------------------------------------------------------------
(* resume(), and control that returns through inverted frames *)

\* What a step changes of the rest of the invariant: nothing, for the chains,
\* if it leaves the pointers alone.
LEMMA SameChains ==
  ASSUME child' = child
  PROVE  /\ \A c \in Frames : Chain(c)' = Chain(c) /\ Leaf(c)' = Leaf(c)
         /\ ChainsEnd => ChainsEnd'
<1>1. \A c \in Frames : Chain(c)' = Chain(c) /\ Leaf(c)' = Leaf(c)
  BY ChainNames
<1> QED BY <1>1 DEF ChainsEnd, Frames

LEMMA ResumeStep ==
  ASSUME TaskInv, TypeOK', Resume
  PROVE  StackShape' /\ BaseInv' /\ ChainInv'
<1> DEFINE r == Resumed
<1>0. /\ Alive /\ TypeOK /\ StackShape
      /\ Order /\ Callers /\ Kinds /\ AllOwned /\ Spent
      /\ Running /\ Family /\ Idle /\ Promise /\ OnList /\ ChainsEnd
      /\ NextKnown /\ child \in Pointers
  BY Parts DEF Resume, Alive
<1>1. /\ at = "loop" /\ at' = "run" /\ running' = r
      /\ state' = [state EXCEPT ![r] = "running"]
      /\ waiting' = [waiting EXCEPT ![Main] = FALSE]
      /\ nextChild' = NoFrame /\ stack' = stack /\ kind' = kind
      /\ owner' = owner /\ child' = child /\ parent' = parent
      /\ processPromise' = processPromise
  BY DEF Resume, NextAfterResume
<1>2. Calls = {} /\ ~TopCalls /\ stack = <<>> /\ running = NoFrame
  BY <1>0, <1>1 DEF StackShape, Calls, TopCalls
<1>3. /\ r \in Frames /\ r \in Chain(Main) /\ child[r] = NoFrame
      /\ \/ r = Main /\ state[Main] = "initial"
         \/ state[r] = "blocked"
      /\ state[Main] = "blocked" => r = Main
      /\ \A f \in Frames : state[f] # "running"
  <2>1. CASE state[Main] = "initial" /\ nextChild = NoFrame
    BY <1>0, <1>2, <2>1, ChainsDescend, FrameFacts
    DEF Resumed, Family, Exists, Running
  <2>2. CASE ProcessWaits
    <3>1. /\ r = Leaf(Main) /\ state[r] = "blocked"
          /\ \A f \in Frames : state[f] # "running"
      BY <1>1, <1>2, <2>2, Waiting
    <3>2. r \in Frames /\ r \in Chain(Main) /\ child[r] = NoFrame
      BY <1>0, <3>1, ChainsDescend, FrameFacts
    <3>3. state[Main] = "blocked" => child[Main] = NoFrame
      BY <1>0, FrameFacts DEF Family, Exists
    <3> QED BY <1>0, <3>1, <3>2, <3>3, ChainsDescend, FrameFacts
  <2> QED BY <1>0, <1>1, <2>1, <2>2 DEF NextKnown
<1>4. /\ \A f \in Frames : state'[f] = IF f = r THEN "running" ELSE state[f]
      /\ Calls' = {} /\ ~TopCalls' /\ InProcess(r)
      /\ (r # Main => parent[r] # NoFrame) /\ state[r] # "awaiting"
  BY <1>0, <1>1, <1>2, <1>3, ProcessChain DEF TypeOK, Calls, TopCalls
<1>5. StackShape'
  BY <1>1, <1>2, <1>4 DEF StackShape
<1>6. Order' /\ Kinds' /\ AllOwned'
  <2>1. /\ {} \in SUBSET Frames
        /\ \A g \in Frames : state'[g] # "none" <=> state[g] # "none"
        /\ \A g \in Frames : Exists(g)' <=> Exists(g)
    BY <1>3, <1>4 DEF Exists
  <2> QED BY <1>0, <1>1, <1>4, <2>1, BaseKept
<1>7. Callers' /\ Spent'
  BY <1>0, <1>1, <1>3, <1>4 DEF Callers, Spent, Exists, Frames
<1>8. Running'
  BY <1>1, <1>3, <1>4 DEF Running, Frames
<1>9. \A c \in Frames : Chain(c)' = Chain(c) /\ Leaf(c)' = Leaf(c)
  BY <1>1, SameChains
<1>10. ChainsEnd'
  BY <1>0, <1>1, SameChains
<1>11. Family'
  BY <1>0, <1>1, <1>3, <1>4, <1>9, FrameFacts DEF Family, Exists, Frames, Main, NoFrame
<1>12. Idle'
  <2>1. \A f \in Frames : waiting'[f] <=> f # Main /\ waiting[f]
    BY <1>0, <1>1, FrameFacts DEF TypeOK
  <2>2. kind[Main] = "process"
    BY <1>0 DEF Kinds
  <2> QED BY <1>0, <1>1, <1>3, <1>4, <2>1, <2>2, FrameFacts DEF Idle, Frames
<1>13. Promise'
  BY <1>0, <1>1, <1>3, <1>4 DEF Promise, InProcess, Exists, Frames, Main
<1>14. OnList'
  BY <1>0, <1>1, <1>2, <1>3, <1>4, <1>9, FrameFacts DEF OnList, InProcess, Frames
<1>15. NextKnown'
  BY <1>1 DEF NextKnown
<1> QED BY <1>5, <1>6, <1>7, <1>8, <1>10, <1>11, <1>12, <1>13, <1>14, <1>15
    DEF BaseInv, ChainInv

\* The process is destroyed with everything it owns.
LEMMA DestroyedStep ==
  ASSUME TypeOK, AllOwned, at' = "done",
         state' = Destroy(state, WithLocals({Main}))
  PROVE  AllFramesDestroyed'
<1>1. \A f \in Frames : ~Exists(f)'
  BY DestroyFacts DEF AllOwned, Exists
<1> QED BY <1>1 DEF AllFramesDestroyed, Frames

LEMMA ReturnToContextStep ==
  ASSUME TaskInv, TypeOK', ReturnToContext
  PROVE  TaskInv'
<1>0. /\ Alive /\ TypeOK /\ StackShape
      /\ Order /\ Callers /\ Kinds /\ AllOwned /\ Spent
      /\ Running /\ Family /\ Idle /\ Promise /\ OnList /\ ChainsEnd
      /\ NextKnown /\ child \in Pointers
  BY Parts DEF ReturnToContext, Alive
<1>1. /\ at = "return" /\ stack = <<>>
      /\ UNCHANGED <<running, stack, kind, owner, waiting, child, parent,
                     processPromise, nextChild>>
  BY DEF ReturnToContext, promiseVars
<1>2. Calls = {} /\ ~TopCalls /\ Calls' = {} /\ ~TopCalls' /\ running = NoFrame
  BY <1>0, <1>1 DEF StackShape, Calls, TopCalls
<1>3. CASE state[Main] = "final"
  <2>1. at' = "done" /\ state' = Destroy(state, WithLocals({Main}))
    BY <1>3 DEF ReturnToContext
  <2>2. AllFramesDestroyed'
    BY <1>0, <2>1, DestroyedStep
  <2> QED BY <1>1, <1>2, <2>1, <2>2 DEF TaskInv, StackShape, Alive
<1>4. CASE state[Main] # "final"
  <2>1. ProcessWaits
    BY <1>0, <1>1, <1>2, <1>4 DEF NextKnown
  <2>2. waiting[Leaf(Main)]
    BY <1>1, <1>2, <2>1, Waiting
  <2>3. ReturnedWaiting
    <3>1. Leaf(Main) # NoFrame
      BY <1>0, ChainsDescend, FrameFacts
    <3> QED BY <2>1, <2>2, <3>1 DEF ReturnedWaiting, ProcessWaits
  <2>4. at' = "loop" /\ state' = state
    BY <1>4, <2>3 DEF ReturnToContext
  <2>5. StackShape' /\ BaseInv'
    <3>1. StackShape'
      BY <1>0, <1>1, <1>2, <2>4 DEF StackShape
    <3>2. Order' /\ Kinds' /\ Callers' /\ Spent'
      BY <1>0, <1>1, <1>2, <2>4
      DEF Order, Kinds, Callers, Spent, Exists, Frames, Main, NoFrame
    <3>3. AllOwned'
      BY <1>0, <1>1, <2>4 DEF AllOwned, WithLocals, Owns, Reach, Exists, Frames, Main
    <3> QED BY <3>1, <3>2, <3>3 DEF BaseInv
  <2>6. \A c \in Frames : Chain(c)' = Chain(c) /\ Leaf(c)' = Leaf(c)
    BY <1>1, SameChains
  <2>7. ChainsEnd'
    BY <1>0, <1>1, SameChains
  <2>8. Running' /\ Idle' /\ Promise'
    BY <1>0, <1>1, <1>2, <2>4
    DEF Running, Idle, Promise, InProcess, Exists, Frames, Main, NoFrame
  <2>9. Family' /\ OnList'
    BY <1>0, <1>1, <1>2, <2>4, <2>6, FrameFacts
    DEF Family, OnList, InProcess, Exists, Frames, Main, NoFrame
  <2>10. NextKnown'
    BY <1>1, <2>1, <2>4, <2>6, FrameFacts
    DEF NextKnown, ProcessWaits, Suspended, Main, NoFrame
  <2> QED BY <2>4, <2>5, <2>7, <2>8, <2>9, <2>10
      DEF TaskInv, ChainInv, AllFramesDestroyed
<1> QED BY <1>3, <1>4

LEMMA KillStep ==
  ASSUME TaskInv, TypeOK', Kill
  PROVE  TaskInv'
<1>1. /\ at = "loop" /\ at' = "done" /\ stack' = stack
      /\ state' = Destroy(state, WithLocals({Main}))
  BY DEF Kill
<1>2. TypeOK /\ StackShape /\ AllOwned
  BY <1>1, Parts DEF Alive
<1>3. AllFramesDestroyed'
  BY <1>1, <1>2, DestroyedStep
<1>4. StackShape'
  BY <1>1, <1>2 DEF StackShape, Calls
<1> QED BY <1>1, <1>3, <1>4 DEF TaskInv, Alive

LEMMA ReturnToInvertedStep ==
  ASSUME TaskInv, TypeOK', ReturnToInverted
  PROVE  StackShape' /\ BaseInv' /\ ChainInv'
<1>0. /\ Alive /\ TypeOK /\ StackShape /\ stack \in Seq(Entries)
      /\ Order /\ Callers /\ Kinds /\ AllOwned /\ Spent
      /\ Running /\ Family /\ Idle /\ Promise /\ OnList /\ ChainsEnd
      /\ NextKnown /\ child \in Pointers
  BY Parts DEF ReturnToInverted, Alive
<1>1. /\ at = "return" /\ at' = "return" /\ stack # <<>> /\ Top.how = "inverted"
      /\ stack' = Below
      /\ UNCHANGED <<running, kind, state, owner, waiting, child, parent,
                     processPromise, nextChild>>
  BY DEF ReturnToInverted, promiseVars
<1>2. Calls = {} /\ ~TopCalls
  BY <1>0, <1>1, Popped, CallFacts
<1>3. Calls' = {} /\ ~TopCalls'
  <2>1. Calls' = {}
    BY <1>0, <1>1, <1>2, Popped
  <2> QED BY <2>1 DEF TopCalls
<1>4. StackShape'
  BY <1>0, <1>1, <1>3 DEF StackShape
<1>5. BaseInv'
  <2>1. Order' /\ Kinds' /\ Callers' /\ Spent'
    BY <1>0, <1>1, <1>3
    DEF Order, Kinds, Callers, Spent, Exists, Frames, Main, NoFrame
  <2>2. AllOwned'
    BY <1>0, <1>1 DEF AllOwned, WithLocals, Owns, Reach, Exists, Frames, Main
  <2> QED BY <2>1, <2>2 DEF BaseInv
<1>6. \A c \in Frames : Chain(c)' = Chain(c) /\ Leaf(c)' = Leaf(c)
  BY <1>1, SameChains
<1>7. ChainsEnd'
  BY <1>0, <1>1, SameChains
<1>8. Running' /\ Idle' /\ Promise'
  BY <1>0, <1>1, <1>2, <1>3
  DEF Running, Idle, Promise, InProcess, Exists, Frames, Main, NoFrame
<1>9. Family' /\ OnList'
  BY <1>0, <1>1, <1>2, <1>3, <1>6, FrameFacts
  DEF Family, OnList, InProcess, Exists, Frames, Main, NoFrame
<1>10. NextKnown'
  BY <1>0, <1>1, <1>2, <1>3, <1>6, FrameFacts
  DEF NextKnown, ProcessWaits, Suspended, Main, NoFrame
<1> QED BY <1>4, <1>5, <1>7, <1>8, <1>9, <1>10 DEF ChainInv
-----------------------------------------------------------------------------
(* Frames are created and called *)

\* What a new frame leaves of the first part of the invariant.
LEMMA NewStep ==
  ASSUME TaskInv, NEW f \in Frames, NEW c \in Frames, Runs(f),
         NEW k \in {"method", "gen"}, NEW s \in {"initial", "running"},
         NewFrame(c, f, k, s), s = "initial" => k = "gen"
  PROVE  /\ Order' /\ Kinds' /\ AllOwned' /\ f < c /\ c # Main
         /\ state[c] = "none"
         /\ \A g \in Frames : owner'[g] = IF g = c THEN f ELSE owner[g]
         /\ \A g \in Frames : kind'[g] = IF g = c THEN k ELSE kind[g]
         /\ \A g \in Frames : state'[g] = IF g = c THEN s ELSE state[g]
<1>0. /\ Alive /\ TypeOK /\ Order /\ Kinds /\ AllOwned /\ state[f] = "running"
  BY Executing, Parts
<1>1. /\ state[c] = "none" /\ \A d \in 1..(c - 1) : state[d] # "none"
      /\ kind' = [kind EXCEPT ![c] = k]
      /\ owner' = [owner EXCEPT ![c] = f]
      /\ state' = [state EXCEPT ![c] = s]
  BY DEF NewFrame
<1>2. /\ \A g \in Frames : owner'[g] = IF g = c THEN f ELSE owner[g]
      /\ \A g \in Frames : kind'[g] = IF g = c THEN k ELSE kind[g]
      /\ \A g \in Frames : state'[g] = IF g = c THEN s ELSE state[g]
  BY <1>0, <1>1 DEF TypeOK
<1>3. c # Main /\ f # c
  BY <1>0, <1>1 DEF Kinds, Exists
<1>4. f < c
  <2>1. ~(c < f)
    BY <1>0, <1>1 DEF Order
  <2> QED BY <1>3, <2>1, ProcessTaskAssumption DEF Frames
<1>5. Order'
  <2>1. owner'[Main] = NoFrame
    BY <1>0, <1>2, <1>3, FrameFacts DEF Order
  <2>2. \A d \in Frames : state'[d] # "none" /\ d # Main =>
          owner'[d] \in Frames /\ owner'[d] < d
    BY <1>0, <1>2, <1>4 DEF Order
  <2>3. ASSUME NEW d \in Frames, NEW e \in Frames, e < d, state'[d] # "none"
        PROVE  state'[e] # "none"
    <3>1. CASE d = c
      <4>1. e \in 1..(c - 1)
        BY <2>3, <3>1, ProcessTaskAssumption DEF Frames
      <4> QED BY <1>1, <1>2, <2>3, <3>1, <4>1
    <3>2. CASE d # c
      BY <1>0, <1>2, <2>3, <3>2 DEF Order
    <3> QED BY <3>1, <3>2
  <2> QED BY <2>1, <2>2, <2>3 DEF Order, Frames, Main, NoFrame
<1>6. Kinds'
  BY <1>0, <1>2, <1>3, FrameFacts DEF Kinds, Exists, Frames, Main
<1>7. AllOwned'
  <2>1. /\ owner \in [Frames -> FrameOrNone] /\ Exists(f) /\ ~Exists(c)
        /\ Exists(c)' /\ \A g \in Frames : g # c => (Exists(g)' <=> Exists(g))
    BY <1>0, <1>1, <1>2 DEF TypeOK, Exists
  <2> QED BY <1>0, <1>1, <2>1, OwnersGrow
<1> QED BY <1>1, <1>2, <1>3, <1>4, <1>5, <1>6, <1>7

\* f calls c, a new method or a generator it owns.
Calling(f, c) ==
  /\ Runs(f)
  /\ state' = [state EXCEPT ![c] = "running"]
  /\ at' = at /\ running' = c /\ stack' = Append(stack, Called(f, c))
  /\ UNCHANGED promiseVars

LEMMA CallingStep ==
  ASSUME TaskInv, TypeOK', NEW f \in Frames, NEW c \in Frames, Calling(f, c),
         Order', Kinds', AllOwned', f < c, c # Main,
         state[c] \in {"none", "initial", "yielded"},
         owner'[c] = f, kind'[c] = "method" => state[c] = "none",
         \A g \in Frames : g # c => owner'[g] = owner[g] /\ kind'[g] = kind[g],
         state[c] # "none" => owner'[c] = owner[c]
  PROVE  StackShape' /\ BaseInv' /\ ChainInv'
<1> DEFINE n == Len(stack) + 1
<1>0. /\ Alive /\ TypeOK /\ StackShape /\ stack \in Seq(Entries)
      /\ Order /\ Callers /\ Kinds /\ AllOwned /\ Spent
      /\ Running /\ Family /\ Idle /\ Promise /\ OnList /\ ChainsEnd
      /\ NextKnown /\ child \in Pointers
  BY Executing, Parts DEF Calling
<1>1. /\ at = "run" /\ at' = "run" /\ running = f /\ running' = c
      /\ stack' = Append(stack, Called(f, c))
      /\ UNCHANGED <<waiting, child, parent, processPromise, nextChild>>
  BY Executing DEF Calling, promiseVars
<1>2. /\ stack' \in Seq(Entries) /\ Len(stack') = n /\ Len(stack) \in Nat
      /\ stack'[n].frame = f /\ stack'[n].callee = c
      /\ \A i \in Calls : stack'[i] = stack[i]
      /\ \A i : i \in Calls' <=> i \in Calls \/ i = n
  <2> DEFINE e == Called(f, c)
  <2>1. e \in Entries /\ e.how = "call" /\ e.frame = f /\ e.callee = c
    BY EntryFacts
  <2>2. stack' = Append(stack, e)
    BY <1>1
  <2> HIDE DEF e
  <2>3. /\ stack' \in Seq(Entries) /\ Len(stack') = Len(stack) + 1
        /\ Len(stack) \in Nat
        /\ stack'[Len(stack) + 1] = e
        /\ \A i \in Calls : stack'[i] = stack[i]
        /\ \A i : i \in Calls' <=>
             i \in Calls \/ (i = Len(stack) + 1 /\ e.how = "call")
    BY <1>0, <2>1, <2>2, Pushed
  <2> QED BY <2>1, <2>3
<1>3. TopCalls' /\ n \in Calls' /\ \A i \in Calls : i < n /\ i \in Nat
  BY <1>2 DEF TopCalls, Calls
<1>4. \A g \in Frames : state'[g] = IF g = c THEN "running" ELSE state[g]
  BY <1>0 DEF Calling, TypeOK
<1>5. /\ state[f] = "running" /\ f # c /\ nextChild = NoFrame
      /\ \A i \in Calls : stack[i].frame < f /\ stack[i].frame # f
      /\ TopCalls => f = stack[Len(stack)].callee
      /\ ~TopCalls => f \in Chain(Main)
  BY <1>4, Executing DEF Calling
<1>6. /\ parent[c] = NoFrame /\ ~waiting[c] /\ child[c] = NoFrame
      /\ (kind'[c] = "method" => ~processPromise[c])
      /\ (state[c] = "none" => ~processPromise[c])
  BY <1>0 DEF Idle, Family, Exists
<1>7. StackShape'
  <2>1. \A i \in Calls' : stack'[i].callee \in Frames
    BY <1>0, <1>2 DEF StackShape
  <2>2. ASSUME NEW i \in Calls', NEW j \in 1..Len(stack'), i <= j
        PROVE  j \in Calls'
    BY <1>0, <1>2, <1>3, <2>2 DEF StackShape
  <2>3. ASSUME NEW i \in Calls', i < Len(stack')
        PROVE  stack'[i + 1].frame = stack'[i].callee
    <3>1. i \in Calls /\ i \in Nat /\ i <= Len(stack)
      BY <1>2, <1>3, <2>3
    <3>2. CASE i = Len(stack)
      BY <1>2, <1>5, <3>1, <3>2 DEF TopCalls
    <3>3. CASE i < Len(stack)
      <4>1. i + 1 \in 1..Len(stack) /\ i + 1 \in Calls
        BY <1>0, <1>2, <3>1, <3>3 DEF StackShape
      <4> QED BY <1>0, <1>2, <3>1, <3>3, <4>1 DEF StackShape
    <3> QED BY <1>2, <3>1, <3>2, <3>3
  <2> QED BY <1>1, <1>2, <2>1, <2>2, <2>3 DEF StackShape, Frames
<1>8. Callers'
  <2>1. ASSUME NEW i \in Calls
        PROVE  /\ state'[stack[i].frame] = "running"
               /\ state'[stack[i].callee] # "none"
               /\ owner'[stack[i].callee] = stack[i].frame
    <3>1. stack[i].frame \in Frames /\ stack[i].callee \in Frames
      BY <1>0, CallFacts
    <3> QED BY <1>0, <1>4, <3>1 DEF Callers
  <2>2. \A i \in Calls' : /\ state'[stack'[i].frame] = "running"
                          /\ state'[stack'[i].callee] # "none"
                          /\ owner'[stack'[i].callee] = stack'[i].frame
    BY <1>2, <1>4, <1>5, <2>1
  <2>3. ASSUME NEW i \in Calls', NEW j \in Calls', i < j
        PROVE  stack'[i].frame < stack'[j].frame
    <3>1. i \in Calls
      BY <1>2, <1>3, <2>3
    <3> QED BY <1>0, <1>2, <1>5, <2>3, <3>1 DEF Callers
  <2> QED BY <2>2, <2>3 DEF Callers
<1>9. Spent'
  <2>1. ASSUME NEW g \in Frames, NEW h \in Frames, state'[g] = "final", Exists(h)'
        PROVE  owner'[h] # g
    <3>1. CASE h = c
      BY <1>4, <1>5, <2>1, <3>1
    <3>2. CASE h # c
      BY <1>0, <1>4, <2>1, <3>2 DEF Spent, Exists
    <3> QED BY <3>1, <3>2
  <2> QED BY <1>1, <2>1 DEF Spent, Frames
<1>10. Running'
  <2>1. ASSUME NEW g \in Frames, state'[g] = "running", g # c
        PROVE  \E i \in Calls' : g = stack'[i].frame
    <3>1. g = f \/ \E i \in Calls : g = stack[i].frame
      BY <1>0, <1>1, <1>4, <2>1 DEF Running
    <3> QED BY <1>2, <1>3, <3>1
  <2> QED BY <1>1, <1>4, <2>1 DEF Running, Frames
<1>11. \A g \in Frames : Chain(g)' = Chain(g) /\ Leaf(g)' = Leaf(g)
  BY <1>1, SameChains
<1>12. ChainsEnd'
  BY <1>0, <1>1, SameChains
<1>13. Family'
  <2>1. ASSUME NEW g \in Frames, child[g] # NoFrame
        PROVE  owner'[child[g]] = g /\ state'[child[g]] # "none"
    <3>1. child[g] \in Frames
      BY <1>0, <2>1, ChainsDescend
    <3> QED BY <1>0, <1>4, <2>1, <3>1 DEF Family
  <2>2. \A g \in Frames : child[g] # c \/ state[g] # "awaiting"
    BY <1>0 DEF Family
  <2>3. ASSUME NEW g \in Frames, state'[g] = "awaiting"
        PROVE  /\ child[g] # NoFrame /\ parent[child[g]] = g
               /\ state'[child[g]] \in {"running", "awaiting", "blocked"}
    <3>1. state[g] = "awaiting" /\ child[g] \in Frames
      BY <1>0, <1>4, <2>3, ChainsDescend DEF Family
    <3> QED BY <1>0, <1>4, <2>2, <3>1 DEF Family
  <2>4. \A g \in Frames : Exists(g)' /\ child[g] # NoFrame => state'[g] = "awaiting"
    BY <1>0, <1>4, <1>6 DEF Family, Exists
  <2>5. \A g \in Frames :
          Exists(g)' /\ state'[g] # "final" /\ parent[g] # NoFrame =>
            state'[parent[g]] = "awaiting" /\ child[parent[g]] = g
    <3>1. \A g \in Frames : parent[g] # NoFrame => parent[g] \in Frames
      BY <1>0, FrameFacts DEF TypeOK
    <3> QED BY <1>0, <1>4, <1>6, <3>1 DEF Family, Exists
  <2>6. \A i \in Calls' : parent[stack'[i].callee] = NoFrame
    BY <1>0, <1>2, <1>6 DEF Family
  <2>7. \A g \in Frames : state'[g] = "running" /\ parent[g] # NoFrame =>
          g \in Chain(Main)'
    BY <1>0, <1>4, <1>6, <1>11, FrameFacts DEF Family
  <2> QED BY <1>0, <1>1, <2>1, <2>3, <2>4, <2>5, <2>6, <2>7
      DEF Family, Frames, Main, NoFrame
<1>14. Idle'
  BY <1>0, <1>1, <1>4, <1>6 DEF Idle, Frames, NoFrame
<1>15. Promise'
  <2>1. \A g \in Frames : processPromise[g] => InProcess(owner'[g])
    BY <1>0, <1>6 DEF Promise
  <2>2. \A g \in Frames : Exists(g)' /\ child[g] # NoFrame /\ InProcess(g)
                            => processPromise[child[g]]
    BY <1>0, <1>4, <1>6 DEF Promise, Exists
  <2>3. \A i \in Calls' : kind'[stack'[i].callee] = "method"
                        => ~processPromise[stack'[i].callee]
    <3>1. ASSUME NEW i \in Calls
          PROVE  kind'[stack[i].callee] = "method"
                        => ~processPromise[stack[i].callee]
      <4>1. stack[i].callee \in Frames
        BY <1>0, CallFacts
      <4> QED BY <1>0, <1>6, <4>1 DEF Promise
    <3> QED BY <1>2, <1>6, <3>1
  <2> QED BY <1>0, <1>1, <2>1, <2>2, <2>3
      DEF Promise, InProcess, Frames, Main, NoFrame
<1>16. OnList'
  <2>1. ASSUME NEW g \in Frames, InProcess(g),
               state'[g] \in {"running", "awaiting", "blocked"}
        PROVE  \/ g \in Chain(Main)
               \/ \E d \in Frames : /\ g \in Chain(d)
                                   /\ \E i \in Calls' : stack'[i].callee = d
    <3>1. CASE g = c
      BY <1>0, <1>2, <3>1, ChainsDescend
    <3>2. CASE g # c
      <4>1. \/ g \in Chain(Main)
            \/ \E d \in Frames : /\ g \in Chain(d)
                                /\ \E i \in Calls : stack[i].callee = d
        BY <1>0, <1>4, <2>1, <3>2 DEF OnList
      <4> QED BY <1>2, <4>1
    <3> QED BY <3>1, <3>2
  <2>2. ASSUME NEW i \in Calls', i - 1 \notin Calls'
        PROVE  stack'[i].frame \in Chain(Main)
    <3>1. CASE i \in Calls
      BY <1>0, <1>2, <2>2, <3>1 DEF OnList
    <3>2. CASE i = n
      BY <1>2, <1>5, <2>2, <3>2 DEF TopCalls
    <3> QED BY <1>2, <3>1, <3>2
  <2>3. Chain(Main)' = Chain(Main)
    BY <1>11, FrameFacts
  <2>4. \A g \in Frames : InProcess(g)' <=> InProcess(g)
    BY <1>1 DEF InProcess, Main
  <2>5. \A g \in Frames :
          InProcess(g)' /\ state'[g] \in {"running", "awaiting", "blocked"} =>
            \/ g \in Chain(Main)'
            \/ \E d \in Frames : /\ g \in Chain(d)'
                                /\ \E i \in Calls' : stack'[i].callee = d
    BY <1>11, <2>1, <2>3, <2>4
  <2>6. \A i \in Calls' : i - 1 \notin Calls' => stack'[i].frame \in Chain(Main)'
    BY <2>2, <2>3
  <2> QED BY <1>1, <1>3, <2>5, <2>6 DEF OnList, Frames
<1>17. NextKnown'
  BY <1>0, <1>1 DEF NextKnown, NoFrame
<1> QED BY <1>7, <1>8, <1>9, <1>10, <1>12, <1>13, <1>14, <1>15, <1>16, <1>17
    DEF BaseInv, ChainInv

LEMMA CallMethodStep ==
  ASSUME TaskInv, TypeOK', NEW f \in Frames, NEW c \in Frames, CallMethod(f, c)
  PROVE  StackShape' /\ BaseInv' /\ ChainInv'
<1>1. Runs(f) /\ NewFrame(c, f, "method", "running") /\ Calling(f, c)
  BY DEF CallMethod, NewFrame, Calling
<1>2. /\ Order' /\ Kinds' /\ AllOwned' /\ f < c /\ c # Main
      /\ state[c] = "none"
      /\ \A g \in Frames : owner'[g] = IF g = c THEN f ELSE owner[g]
      /\ \A g \in Frames : kind'[g] = IF g = c THEN "method" ELSE kind[g]
  BY <1>1, NewStep
<1> QED BY <1>1, <1>2, CallingStep

LEMMA CallNextStep ==
  ASSUME TaskInv, TypeOK', NEW f \in Frames, NEW c \in Frames, CallNext(f, c)
  PROVE  StackShape' /\ BaseInv' /\ ChainInv'
<1>1. /\ Runs(f) /\ Calling(f, c) /\ kind' = kind /\ owner' = owner
      /\ kind[c] = "gen" /\ owner[c] = f /\ state[c] \in {"initial", "yielded"}
  BY DEF CallNext, Calling, Draws
<1>2. Alive /\ TypeOK /\ Order /\ Kinds /\ AllOwned
  BY <1>1, Executing, Parts
<1>3. c # Main /\ f < c
  BY <1>1, <1>2, FrameFacts DEF Order
<1>4. Order' /\ Kinds' /\ AllOwned'
  <2>1. \A g \in Frames : state'[g] = IF g = c THEN "running" ELSE state[g]
    BY <1>1, <1>2 DEF Calling, TypeOK
  <2>2. /\ {} \in SUBSET Frames
        /\ \A g \in Frames : state'[g] # "none" <=> state[g] # "none"
        /\ \A g \in Frames : Exists(g)' <=> Exists(g)
    BY <1>1, <2>1 DEF Exists
  <2> QED BY <1>1, <1>2, <2>1, <2>2, BaseKept
<1> QED BY <1>1, <1>3, <1>4, CallingStep

LEMMA CreateGeneratorStep ==
  ASSUME TaskInv, TypeOK', NEW f \in Frames, NEW c \in Frames,
         CreateGenerator(f, c)
  PROVE  StackShape' /\ BaseInv' /\ ChainInv'
<1>0. /\ Alive /\ TypeOK /\ StackShape /\ stack \in Seq(Entries)
      /\ Order /\ Callers /\ Kinds /\ AllOwned /\ Spent
      /\ Running /\ Family /\ Idle /\ Promise /\ OnList /\ ChainsEnd
      /\ NextKnown /\ child \in Pointers
  BY Executing, Parts DEF CreateGenerator
<1>1. /\ Runs(f) /\ NewFrame(c, f, "gen", "initial")
      /\ UNCHANGED <<at, running, stack, waiting, child, parent,
                     processPromise, nextChild>>
  BY DEF CreateGenerator, promiseVars
<1>2. /\ Order' /\ Kinds' /\ AllOwned' /\ f < c /\ c # Main
      /\ state[c] = "none"
      /\ \A g \in Frames : owner'[g] = IF g = c THEN f ELSE owner[g]
      /\ \A g \in Frames : kind'[g] = IF g = c THEN "gen" ELSE kind[g]
      /\ \A g \in Frames : state'[g] = IF g = c THEN "initial" ELSE state[g]
  BY <1>1, NewStep
<1>3. /\ parent[c] = NoFrame /\ ~waiting[c] /\ child[c] = NoFrame
      /\ ~processPromise[c] /\ state[f] = "running" /\ at = "run" /\ running = f
  BY <1>0, <1>1, <1>2, Executing DEF Idle
<1>4. Calls' = Calls /\ (TopCalls' <=> TopCalls)
  BY <1>1 DEF Calls, TopCalls
<1>5. /\ \A i \in Calls : stack[i].frame \in Frames /\ stack[i].callee \in Frames
      /\ \A i \in Calls : stack[i].frame # c /\ stack[i].callee # c
  BY <1>0, <1>2, CallFacts DEF Callers
<1>6. StackShape' /\ Callers'
  BY <1>0, <1>1, <1>2, <1>4, <1>5 DEF StackShape, Callers, Frames
<1>7. Spent'
  BY <1>0, <1>1, <1>2, <1>3 DEF Spent, Exists, Frames
<1>8. Running'
  BY <1>0, <1>1, <1>2, <1>3, <1>4 DEF Running, Frames
<1>9. \A g \in Frames : Chain(g)' = Chain(g) /\ Leaf(g)' = Leaf(g)
  BY <1>1, SameChains
<1>10. ChainsEnd'
  BY <1>0, <1>1, SameChains
<1>11. \A g \in Frames : child[g] # c
  BY <1>0, <1>2, FrameFacts DEF Family
<1>12. Family'
  <2>1. \A g \in Frames : /\ parent[g] # NoFrame => parent[g] \in Frames
                          /\ child[g] # NoFrame => child[g] \in Frames
    BY <1>0, FrameFacts DEF TypeOK
  <2>2. \A g \in Frames : child[g] # NoFrame => owner'[child[g]] = g
                                               /\ state'[child[g]] # "none"
    BY <1>0, <1>2, <1>11, <2>1 DEF Family
  <2>3. \A g \in Frames : state'[g] = "awaiting" =>
          /\ child[g] # NoFrame /\ parent[child[g]] = g
          /\ state'[child[g]] \in {"running", "awaiting", "blocked"}
    BY <1>0, <1>2, <1>11, <2>1 DEF Family
  <2>4. \A g \in Frames : Exists(g)' /\ child[g] # NoFrame => state'[g] = "awaiting"
    BY <1>0, <1>2, <1>3 DEF Family, Exists
  <2>5. \A g \in Frames :
          Exists(g)' /\ state'[g] # "final" /\ parent[g] # NoFrame =>
            state'[parent[g]] = "awaiting" /\ child[parent[g]] = g
    BY <1>0, <1>2, <1>3, <2>1 DEF Family, Exists
  <2>6. \A i \in Calls' : parent[stack[i].callee] = NoFrame
    BY <1>0, <1>4 DEF Family
  <2>7. \A g \in Frames : state'[g] = "running" /\ parent[g] # NoFrame =>
          g \in Chain(Main)'
    BY <1>0, <1>2, <1>3, <1>9, FrameFacts DEF Family
  <2> QED BY <1>0, <1>1, <2>2, <2>3, <2>4, <2>5, <2>6, <2>7
      DEF Family, Frames, Main, NoFrame
<1>13. Idle'
  BY <1>0, <1>1, <1>2, <1>3 DEF Idle, Frames, NoFrame
<1>14. Promise'
  BY <1>0, <1>1, <1>2, <1>3, <1>4, <1>5
  DEF Promise, InProcess, Exists, Frames, Main, NoFrame
<1>15. OnList'
  BY <1>0, <1>1, <1>2, <1>4, <1>5, <1>9, FrameFacts
  DEF OnList, InProcess, Frames, Main
<1>16. NextKnown'
  BY <1>0, <1>1, <1>3 DEF NextKnown, NoFrame
<1> QED BY <1>2, <1>6, <1>7, <1>8, <1>10, <1>12, <1>13, <1>14, <1>15, <1>16
    DEF BaseInv, ChainInv
-----------------------------------------------------------------------------
(* The frame that executes is suspended, or its body is over *)

\* f stops with state s and destroys D.
Leaves(f, s, D) ==
  /\ Runs(f) /\ Condemned(f, D)
  /\ at' = "return" /\ running' = NoFrame
  /\ UNCHANGED <<stack, kind, owner, child, parent, processPromise>>
  /\ \A g \in Frames : state'[g] = IF g = f THEN s
                                   ELSE IF g \in D THEN "destroyed" ELSE state[g]
  /\ \A g \in Frames : g # f => (waiting'[g] <=> waiting[g])
  /\ \/ /\ s = "blocked" /\ D = {} /\ waiting'[f]
        /\ nextChild' = IF processPromise[f] THEN f ELSE nextChild
     \/ /\ s = "yielded" /\ D = {} /\ ~waiting'[f]
        /\ kind[f] = "gen" /\ parent[f] = NoFrame /\ nextChild' = nextChild
     \/ /\ s = "final" /\ (waiting'[f] <=> waiting[f])
        /\ \A g \in Frames : Exists(g) /\ owner[g] = f => g \in D
        /\ parent[f] = NoFrame /\ nextChild' = nextChild

LEMMA LeavesStep ==
  ASSUME TaskInv, TypeOK', NEW f \in Frames, NEW s, NEW D, Leaves(f, s, D)
  PROVE  StackShape' /\ BaseInv' /\ ChainInv'
<1>0. /\ Alive /\ TypeOK /\ StackShape /\ stack \in Seq(Entries)
      /\ Order /\ Callers /\ Kinds /\ AllOwned /\ Spent
      /\ Running /\ Family /\ Idle /\ Promise /\ OnList /\ ChainsEnd
      /\ NextKnown /\ child \in Pointers
  BY Executing, Parts DEF Leaves
<1>1. /\ at' = "return" /\ running' = NoFrame
      /\ UNCHANGED <<stack, kind, owner, child, parent, processPromise>>
      /\ \A g \in Frames : state'[g] = IF g = f THEN s
                             ELSE IF g \in D THEN "destroyed" ELSE state[g]
      /\ \A g \in Frames : g # f => (waiting'[g] <=> waiting[g])
  BY DEF Leaves
<1>2. /\ state[f] = "running" /\ child[f] = NoFrame /\ nextChild = NoFrame
      /\ Leaf(f) = f /\ running = f /\ at = "run"
      /\ \A i \in Calls : stack[i].frame < f /\ stack[i].frame # f
      /\ TopCalls => /\ f = stack[Len(stack)].callee
                     /\ f # Main /\ parent[f] = NoFrame
      /\ ~TopCalls => /\ Calls = {} /\ f \in Chain(Main) /\ Leaf(Main) = f
                      /\ InProcess(f) /\ (f # Main => parent[f] # NoFrame)
  BY Executing DEF Leaves
<1>3. /\ s \in {"blocked", "yielded", "final"}
      /\ s = "blocked" => waiting'[f] /\ nextChild' = IF processPromise[f] THEN f ELSE NoFrame
      /\ s # "blocked" => parent[f] = NoFrame /\ nextChild' = NoFrame
      /\ s = "yielded" => kind[f] = "gen" /\ ~waiting'[f]
      /\ s = "final" => /\ waiting'[f] <=> waiting[f]
                        /\ \A g \in Frames : Exists(g) /\ owner[g] = f => g \in D
  BY <1>2 DEF Leaves
<1>4. /\ D \in SUBSET Frames /\ Main \notin D /\ f \notin D
      /\ \A g \in Frames : g <= f => g \notin D
      /\ \A g \in D : Exists(g) /\ (owner[g] = f \/ owner[g] \in D)
      /\ \A g \in Frames : Exists(g) /\ owner[g] \in D => g \in D
  BY CondemnedFacts DEF Leaves, Condemned
<1>5. Calls' = Calls /\ (TopCalls' <=> TopCalls)
  BY <1>1 DEF Calls, TopCalls
<1>6. \A i \in Calls : /\ stack[i].frame \in Frames /\ stack[i].callee \in Frames
                       /\ stack[i].frame \notin D
                       /\ state'[stack[i].frame] = "running"
                       /\ state'[stack[i].callee] # "none"
  <2>1. ASSUME NEW i \in Calls
        PROVE  /\ stack[i].frame \in Frames /\ stack[i].callee \in Frames
               /\ stack[i].frame \notin D
    <3>1. stack[i].frame \in Frames /\ stack[i].callee \in Frames
      BY <1>0, CallFacts
    <3>2. stack[i].frame <= f
      BY <1>2, <3>1 DEF Frames
    <3> QED BY <1>4, <3>1, <3>2
  <2> QED BY <1>0, <1>1, <1>2, <1>3, <2>1 DEF Callers
<1>7. StackShape' /\ Callers'
  BY <1>0, <1>1, <1>5, <1>6 DEF StackShape, Callers, Frames
<1>8. Order' /\ Kinds' /\ AllOwned'
  <2>1. /\ \A g \in Frames : state'[g] # "none" <=> state[g] # "none"
        /\ \A g \in Frames : Exists(g)' <=> Exists(g) /\ g \notin D
    BY <1>1, <1>2, <1>3, <1>4 DEF Exists
  <2>2. \A g \in Frames : state'[g] \in {"initial", "yielded"} =>
           state'[g] = state[g] \/ (g # Main /\ kind[g] = "gen")
    BY <1>0, <1>1, <1>3 DEF Kinds
  <2> QED BY <1>0, <1>1, <1>4, <2>1, <2>2, BaseKept
<1>9. Spent'
  BY <1>0, <1>1, <1>2, <1>3, <1>4 DEF Spent, Exists, Frames
<1>10. Running'
  BY <1>0, <1>1, <1>2, <1>3, <1>5, FrameFacts DEF Running, Frames
<1>11. \A g \in Frames : Chain(g)' = Chain(g) /\ Leaf(g)' = Leaf(g)
  BY <1>1, SameChains
<1>12. ChainsEnd'
  BY <1>0, <1>1, SameChains
<1>13. Family'
  <2>1. \A g \in Frames : /\ parent[g] # NoFrame => parent[g] \in Frames
                          /\ child[g] # NoFrame => child[g] \in Frames
    BY <1>0, FrameFacts DEF TypeOK
  <2>2. \A g \in Frames : child[g] # NoFrame => owner[child[g]] = g
                                               /\ state'[child[g]] # "none"
    BY <1>0, <1>1, <1>3, <2>1 DEF Family
  <2>3. ASSUME NEW g \in Frames, state'[g] = "awaiting"
        PROVE  /\ child[g] # NoFrame /\ parent[child[g]] = g
               /\ state'[child[g]] \in {"running", "awaiting", "blocked"}
    <3>1. state[g] = "awaiting" /\ g # f /\ g \notin D
      BY <1>1, <1>3, <2>3
    <3>2. /\ child[g] # NoFrame /\ parent[child[g]] = g /\ owner[child[g]] = g
          /\ state[child[g]] \in {"running", "awaiting", "blocked"}
      BY <1>0, <3>1 DEF Family
    <3>3. child[g] \notin D
      BY <1>4, <3>1, <3>2
    <3>4. child[g] = f => s = "blocked"
      BY <1>3, <3>2, FrameFacts
    <3> QED BY <1>1, <2>1, <3>2, <3>3, <3>4
  <2>4. \A g \in Frames : Exists(g)' /\ child[g] # NoFrame => state'[g] = "awaiting"
    BY <1>0, <1>1, <1>2, <1>3 DEF Family, Exists
  <2>5. ASSUME NEW g \in Frames, Exists(g)', state'[g] # "final", parent[g] # NoFrame
        PROVE  state'[parent[g]] = "awaiting" /\ child[parent[g]] = g
    <3>1. g \notin D /\ Exists(g) /\ state[g] # "final"
      BY <1>1, <1>2, <1>4, <2>5 DEF Exists
    <3>2. state[parent[g]] = "awaiting" /\ child[parent[g]] = g
          /\ parent[g] \in Frames
      BY <1>0, <2>1, <2>5, <3>1 DEF Family
    <3>3. owner[g] = parent[g]
      BY <1>0, <3>2, FrameFacts DEF Family
    <3> QED BY <1>1, <1>2, <1>4, <3>1, <3>2, <3>3
  <2>6. \A i \in Calls' : parent[stack[i].callee] = NoFrame
    BY <1>0, <1>5 DEF Family
  <2>7. \A g \in Frames : state'[g] = "running" /\ parent[g] # NoFrame =>
          g \in Chain(Main)'
    BY <1>0, <1>1, <1>3, <1>11, FrameFacts DEF Family
  <2> QED BY <1>0, <1>1, <2>2, <2>3, <2>4, <2>5, <2>6, <2>7
      DEF Family, Frames, Main, NoFrame
<1>14. Idle'
  <2>1. \A g \in Frames : state'[g] = "blocked" => waiting'[g]
    BY <1>0, <1>1, <1>3 DEF Idle
  <2>2. \A g \in Frames : state'[g] \in {"none", "initial", "yielded"} =>
          parent[g] = NoFrame /\ ~waiting'[g]
    BY <1>0, <1>1, <1>3 DEF Idle
  <2>3. \A g \in Frames : state'[g] = "none" => child[g] = NoFrame
                                                /\ ~processPromise[g]
    BY <1>0, <1>1, <1>3 DEF Idle
  <2>4. \A g \in Frames : kind[g] = "gen" /\ state'[g] \in {"running", "final"}
                          /\ parent[g] = NoFrame => ~waiting'[g]
    BY <1>0, <1>1, <1>2, <1>3 DEF Idle
  <2>5. \A g \in Frames : kind[g] = "gen" /\ state'[g] = "final" => parent[g] = NoFrame
    BY <1>0, <1>1, <1>3 DEF Idle
  <2> QED BY <1>1, <2>1, <2>2, <2>3, <2>4, <2>5 DEF Idle, Frames, NoFrame
<1>15. Promise'
  <2>1. \A g \in Frames : Exists(g)' => Exists(g)
    BY <1>1, <1>2 DEF Exists
  <2> QED BY <1>0, <1>1, <1>5, <2>1
      DEF Promise, InProcess, Frames, Main, NoFrame
<1>16. OnList'
  <2>1. \A g \in Frames : state'[g] \in {"running", "awaiting", "blocked"} =>
          state[g] \in {"running", "awaiting", "blocked"}
    BY <1>1, <1>2
  <2> QED BY <1>0, <1>1, <1>5, <1>11, <2>1, FrameFacts
      DEF OnList, InProcess, Frames, Main
<1>17. NextKnown'
  <2>1. CASE TopCalls
    <3>1. Leaf(f)' = f
      BY <1>2, <1>11
    <3>2. f = stack'[Len(stack')].callee /\ TopCalls'
      BY <1>1, <1>2, <1>5, <2>1
    <3>3. /\ state'[f] = s /\ processPromise'[f] = processPromise[f]
      BY <1>1
    <3> QED BY <1>1, <1>3, <3>1, <3>2, <3>3 DEF NextKnown, Suspended, NoFrame
  <2>2. CASE ~TopCalls
    <3>1. CASE s = "blocked"
      <4>1. Leaf(Main)' = f
        BY <1>2, <1>11, <2>2, FrameFacts
      <4>2. Suspended(Main)'
        <5>1. CASE f = Main
          BY <1>1, <3>1, <5>1, FrameFacts DEF Suspended, Main
        <5>2. CASE f # Main
          <6>1. child[Main] # NoFrame
            BY <1>0, <1>2, <2>2, <5>2, ChainNames, ChainEnds, FrameFacts
          <6>2. state[Main] = "awaiting"
            BY <1>0, <6>1, FrameFacts DEF Family, Kinds
          <6> QED BY <1>1, <1>4, <5>2, <6>2, FrameFacts DEF Suspended, Main
        <5> QED BY <5>1, <5>2
      <4>3. nextChild' = IF f = Main THEN NoFrame ELSE f
        BY <1>0, <1>2, <1>3, <2>2, <3>1 DEF InProcess, Promise
      <4> QED BY <1>1, <1>5, <2>2, <4>1, <4>2, <4>3
          DEF NextKnown, ProcessWaits, NoFrame, Main
    <3>2. CASE s # "blocked"
      <4>1. f = Main
        BY <1>2, <1>3, <2>2, <3>2
      <4>2. s = "final"
        BY <1>0, <1>3, <3>2, <4>1 DEF Kinds
      <4> QED BY <1>1, <1>5, <2>2, <4>1, <4>2, FrameFacts DEF NextKnown, Main
    <3> QED BY <3>1, <3>2
  <2> QED BY <2>1, <2>2
<1> QED BY <1>7, <1>8, <1>9, <1>10, <1>12, <1>13, <1>14, <1>15, <1>16, <1>17
    DEF BaseInv, ChainInv

LEMMA BlockStep ==
  ASSUME TaskInv, TypeOK', NEW f \in Frames, Block(f)
  PROVE  StackShape' /\ BaseInv' /\ ChainInv'
<1>1. TypeOK /\ Condemned(f, {})
  BY DEF TaskInv, Condemned
<1>2. Leaves(f, "blocked", {})
  BY <1>1 DEF Block, Leaves, Announces, TypeOK
<1> QED BY <1>2, LeavesStep

LEMMA YieldStep ==
  ASSUME TaskInv, TypeOK', NEW f \in Frames, Yield(f)
  PROVE  StackShape' /\ BaseInv' /\ ChainInv'
<1>1. TypeOK /\ Condemned(f, {})
  BY DEF TaskInv, Condemned
<1>2. Leaves(f, "yielded", {})
  BY <1>1 DEF Yield, YieldClears, Leaves, TypeOK
<1> QED BY <1>2, LeavesStep

LEMMA EndStep ==
  ASSUME LateEnd = FALSE, TaskInv, TypeOK', NEW f \in Frames,
         End(f) \/ EndGenerator(f)
  PROVE  StackShape' /\ BaseInv' /\ ChainInv'
<1>1. /\ Runs(f) /\ parent[f] = NoFrame /\ at' = "return" /\ running' = NoFrame
      /\ state' = AfterBody(f)
      /\ UNCHANGED <<stack, kind, owner, waiting, child, parent,
                     processPromise, nextChild>>
  BY DEF End, EndGenerator, Ends, promiseVars
<1>2. TypeOK /\ Order
  BY <1>1, Executing, Parts
<1>3. Leaves(f, "final", LocalsOf(f))
  BY <1>1, <1>2, LocalsOfCondemned, AfterBodyFacts DEF Leaves
<1> QED BY <1>3, LeavesStep
-----------------------------------------------------------------------------
(* A task goes out of scope *)

LEMMA DestroyTaskStep ==
  ASSUME TaskInv, TypeOK', NEW f \in Frames, NEW c \in Frames, DestroyTask(f, c)
  PROVE  StackShape' /\ BaseInv' /\ ChainInv'
<1> DEFINE D == WithLocals({c})
<1>0. /\ Alive /\ TypeOK /\ StackShape /\ stack \in Seq(Entries)
      /\ Order /\ Callers /\ Kinds /\ AllOwned /\ Spent
      /\ Running /\ Family /\ Idle /\ Promise /\ OnList /\ ChainsEnd
      /\ NextKnown /\ child \in Pointers
  BY Executing, Parts DEF DestroyTask
<1>1. /\ Runs(f) /\ Exists(c) /\ owner[c] = f
      /\ UNCHANGED <<at, running, stack, kind, owner, waiting, child, parent,
                     processPromise, nextChild>>
      /\ \A g \in Frames : state'[g] = IF g \in D THEN "destroyed" ELSE state[g]
  BY <1>0, DestroyFacts DEF DestroyTask, promiseVars
<1>2. /\ state[f] = "running" /\ child[f] = NoFrame /\ running = f
      /\ \A i \in Calls : stack[i].frame < f /\ stack[i].frame # f
  BY <1>1, Executing
<1>3. Condemned(f, D)
  <2>1. {c} \in SUBSET Frames /\ \A g \in {c} : Exists(g) /\ owner[g] = f
    BY <1>1
  <2> QED BY <1>0, <2>1, LocalsCondemned
<1>4. /\ D \in SUBSET Frames /\ Main \notin D /\ f \notin D
      /\ \A g \in Frames : g <= f => g \notin D
      /\ \A g \in D : Exists(g) /\ (owner[g] = f \/ owner[g] \in D)
      /\ \A g \in Frames : Exists(g) /\ owner[g] \in D => g \in D
  BY <1>3, CondemnedFacts DEF Condemned
<1> HIDE DEF D
<1>5. Calls' = Calls /\ (TopCalls' <=> TopCalls)
  BY <1>1 DEF Calls, TopCalls
<1>6. \A i \in Calls : /\ stack[i].frame \in Frames /\ stack[i].callee \in Frames
                       /\ state'[stack[i].frame] = "running"
                       /\ state'[stack[i].callee] # "none"
  <2>1. ASSUME NEW i \in Calls
        PROVE  /\ stack[i].frame \in Frames /\ stack[i].callee \in Frames
               /\ stack[i].frame \notin D
    <3>1. stack[i].frame \in Frames /\ stack[i].callee \in Frames
      BY <1>0, CallFacts
    <3>2. stack[i].frame <= f
      BY <1>2, <3>1 DEF Frames
    <3> QED BY <1>4, <3>1, <3>2
  <2> QED BY <1>0, <1>1, <1>2, <2>1 DEF Callers
<1>7. StackShape' /\ Callers'
  BY <1>0, <1>1, <1>5, <1>6 DEF StackShape, Callers, Frames
<1>8. Order' /\ Kinds' /\ AllOwned'
  <2>1. /\ \A g \in Frames : state'[g] # "none" <=> state[g] # "none"
        /\ \A g \in Frames : Exists(g)' <=> Exists(g) /\ g \notin D
    BY <1>1, <1>4 DEF Exists
  <2>2. \A g \in Frames : state'[g] \in {"initial", "yielded"} =>
           state'[g] = state[g] \/ (g # Main /\ kind[g] = "gen")
    BY <1>1
  <2> QED BY <1>0, <1>1, <1>4, <2>1, <2>2, BaseKept
<1>9. Spent'
  BY <1>0, <1>1, <1>2, <1>4 DEF Spent, Exists, Frames, Runs
<1>10. Running'
  BY <1>0, <1>1, <1>2, <1>4, <1>5 DEF Running, Frames
<1>11. \A g \in Frames : Chain(g)' = Chain(g) /\ Leaf(g)' = Leaf(g)
  BY <1>1, SameChains
<1>12. ChainsEnd'
  BY <1>0, <1>1, SameChains
<1>13. Family'
  <2>1. \A g \in Frames : /\ parent[g] # NoFrame => parent[g] \in Frames
                          /\ child[g] # NoFrame => child[g] \in Frames
    BY <1>0, FrameFacts DEF TypeOK
  <2>2. \A g \in Frames : child[g] # NoFrame => owner[child[g]] = g
                                               /\ state'[child[g]] # "none"
    BY <1>0, <1>1, <2>1 DEF Family
  <2>3. ASSUME NEW g \in Frames, state'[g] = "awaiting"
        PROVE  /\ child[g] # NoFrame /\ parent[child[g]] = g
               /\ state'[child[g]] \in {"running", "awaiting", "blocked"}
    <3>1. state[g] = "awaiting" /\ g # f /\ g \notin D
      BY <1>1, <1>2, <2>3
    <3>2. /\ child[g] # NoFrame /\ parent[child[g]] = g /\ owner[child[g]] = g
          /\ state[child[g]] \in {"running", "awaiting", "blocked"}
      BY <1>0, <3>1 DEF Family
    <3>3. child[g] \notin D
      BY <1>4, <3>1, <3>2
    <3> QED BY <1>1, <2>1, <3>2, <3>3
  <2>4. \A g \in Frames : Exists(g)' /\ child[g] # NoFrame => state'[g] = "awaiting"
    BY <1>0, <1>1 DEF Family, Exists
  <2>5. ASSUME NEW g \in Frames, Exists(g)', state'[g] # "final", parent[g] # NoFrame
        PROVE  state'[parent[g]] = "awaiting" /\ child[parent[g]] = g
    <3>1. g \notin D /\ Exists(g) /\ state[g] # "final"
      BY <1>1, <2>5 DEF Exists
    <3>2. state[parent[g]] = "awaiting" /\ child[parent[g]] = g
          /\ parent[g] \in Frames
      BY <1>0, <2>1, <2>5, <3>1 DEF Family
    <3>3. owner[g] = parent[g]
      BY <1>0, <3>2, FrameFacts DEF Family
    <3> QED BY <1>1, <1>4, <3>1, <3>2, <3>3
  <2>6. \A i \in Calls' : parent[stack[i].callee] = NoFrame
    BY <1>0, <1>5 DEF Family
  <2>7. \A g \in Frames : state'[g] = "running" /\ parent[g] # NoFrame =>
          g \in Chain(Main)'
    BY <1>0, <1>1, <1>11, FrameFacts DEF Family
  <2> QED BY <1>0, <1>1, <2>2, <2>3, <2>4, <2>5, <2>6, <2>7
      DEF Family, Frames, Main, NoFrame
<1>14. Idle'
  BY <1>0, <1>1 DEF Idle, Frames, NoFrame
<1>15. Promise'
  <2>1. \A g \in Frames : Exists(g)' => Exists(g)
    BY <1>1 DEF Exists
  <2> QED BY <1>0, <1>1, <1>5, <2>1
      DEF Promise, InProcess, Frames, Main, NoFrame
<1>16. OnList'
  <2>1. \A g \in Frames : state'[g] \in {"running", "awaiting", "blocked"} =>
          state[g] \in {"running", "awaiting", "blocked"}
    BY <1>1
  <2> QED BY <1>0, <1>1, <1>5, <1>11, <2>1, FrameFacts
      DEF OnList, InProcess, Frames, Main
<1>17. NextKnown'
  BY <1>0, <1>1 DEF NextKnown, NoFrame, Runs
<1> QED BY <1>7, <1>8, <1>9, <1>10, <1>12, <1>13, <1>14, <1>15, <1>16, <1>17
    DEF BaseInv, ChainInv
-----------------------------------------------------------------------------
(* Control returns to a caller, or a frame awaits *)

LEMMA ReturnToCallerStep ==
  ASSUME TaskInv, TypeOK', ReturnToCaller
  PROVE  StackShape' /\ BaseInv' /\ ChainInv'
<1> DEFINE f == Top.frame
           c == Top.callee
           n == Len(stack)
<1>0. /\ Alive /\ TypeOK /\ StackShape /\ stack \in Seq(Entries)
      /\ Order /\ Callers /\ Kinds /\ AllOwned /\ Spent
      /\ Running /\ Family /\ Idle /\ Promise /\ OnList /\ ChainsEnd
      /\ NextKnown /\ child \in Pointers
  BY Parts DEF ReturnToCaller, Alive
<1>1. /\ at = "return" /\ stack # <<>> /\ Top.how = "call"
      /\ kind[c] = "method" \/ AwaitReady(c)
      /\ at' = "run" /\ running' = f /\ stack' = Below
      /\ UNCHANGED <<kind, state, owner, waiting, child, parent,
                     processPromise, nextChild>>
  BY DEF ReturnToCaller, promiseVars
<1>2. /\ n \in Calls /\ Top = stack[n] /\ f = stack[n].frame /\ c = stack[n].callee
      /\ f \in Frames /\ c \in Frames \ {Main}
      /\ state[f] = "running"
      /\ \/ state[c] \in {"yielded", "final"} /\ nextChild = NoFrame
            /\ Chain(c) = {c}
         \/ /\ Suspended(c) /\ ~AwaitReady(c)
            /\ nextChild = IF processPromise[c] THEN Leaf(c) ELSE NoFrame
  BY <1>1, Returned
<1>3. /\ Len(stack') = n - 1 /\ n \in Nat \ {0}
      /\ \A i \in Calls' : stack'[i] = stack[i]
      /\ \A i : i \in Calls' <=> i \in Calls /\ i # n
  BY <1>0, <1>1, Popped
<1>4. \/ state[c] \in {"yielded", "final"} /\ nextChild = NoFrame /\ Chain(c) = {c}
      \/ ~InProcess(c) /\ nextChild = NoFrame
  BY <1>0, <1>1, <1>2 DEF Promise, InProcess
<1> HIDE DEF f, c
<1>5. \A i \in Calls : i \in 1..n /\ stack[i].frame \in Frames
                       /\ stack[i].callee \in Frames
  BY <1>0, CallFacts
<1>6. StackShape'
  <2>1. \A i \in Calls' : stack'[i].callee \in Frames
    BY <1>3, <1>5
  <2>2. \A i \in Calls' : \A j \in 1..Len(stack') : i <= j => j \in Calls'
    BY <1>0, <1>3, <1>5 DEF StackShape
  <2>3. ASSUME NEW i \in Calls', i < Len(stack')
        PROVE  stack'[i + 1].frame = stack'[i].callee
    <3>1. i \in Calls /\ i \in 1..n /\ i + 1 \in 1..Len(stack') /\ i <= i + 1 /\ i < n
      BY <1>3, <1>5, <2>3
    <3>2. i + 1 \in Calls'
      BY <2>2, <3>1
    <3> QED BY <1>0, <1>3, <3>1, <3>2 DEF StackShape
  <2>4. TopCalls' => running' = stack'[Len(stack')].callee
    <3> SUFFICES ASSUME n - 1 \in Calls'
                 PROVE  f = stack'[n - 1].callee
      BY <1>1, <1>3 DEF TopCalls
    <3>1. n - 1 \in Calls /\ n - 1 < n /\ (n - 1) + 1 = n
      BY <1>3
    <3> QED BY <1>0, <1>2, <1>3, <3>1 DEF StackShape
  <2> QED BY <1>0, <1>1, <2>1, <2>2, <2>3, <2>4 DEF StackShape
<1>7. BaseInv'
  <2>1. Order' /\ Kinds' /\ Spent'
    BY <1>0, <1>1 DEF Order, Kinds, Spent, Exists, Frames, Main, NoFrame
  <2>2. Callers'
    BY <1>0, <1>1, <1>3 DEF Callers
  <2>3. AllOwned'
    BY <1>0, <1>1 DEF AllOwned, WithLocals, Owns, Reach, Exists, Frames, Main
  <2> QED BY <2>1, <2>2, <2>3 DEF BaseInv
<1>8. \A g \in Frames : Chain(g)' = Chain(g) /\ Leaf(g)' = Leaf(g)
  BY <1>1, SameChains
<1>9. ChainsEnd'
  BY <1>0, <1>1, SameChains
<1>10. Running'
  <2>1. running = NoFrame
    BY <1>0, <1>1 DEF StackShape
  <2> QED BY <1>0, <1>1, <1>2, <1>3, <2>1, FrameFacts DEF Running, Frames
<1>11. Idle' /\ Promise'
  BY <1>0, <1>1, <1>3 DEF Idle, Promise, InProcess, Exists, Frames, Main, NoFrame
<1>12. Family'
  BY <1>0, <1>1, <1>3, <1>8, FrameFacts DEF Family, Exists, Frames, Main, NoFrame
<1>13. OnList'
  <2>1. ASSUME NEW g \in Frames, InProcess(g),
               state[g] \in {"running", "awaiting", "blocked"}
        PROVE  \/ g \in Chain(Main)
               \/ \E d \in Frames : /\ g \in Chain(d)
                                   /\ \E i \in Calls' : stack'[i].callee = d
    <3>1. CASE g \in Chain(Main)
      BY <3>1
    <3>2. CASE g \notin Chain(Main)
      <4>1. PICK d \in Frames : g \in Chain(d)
                                /\ \E i \in Calls : stack[i].callee = d
        BY <1>0, <2>1, <3>2 DEF OnList
      <4>2. PICK i \in Calls : stack[i].callee = d
        BY <4>1
      <4>3. i # n
        <5> SUFFICES ASSUME i = n PROVE FALSE
          OBVIOUS
        <5>1. d = c
          BY <1>2, <4>2
        <5>2. c \in Frames
          BY <1>2
        <5>3. CASE ~InProcess(c)
          BY <1>0, <2>1, <4>1, <5>1, <5>2, <5>3, Unannounced
        <5> QED BY <1>4, <2>1, <4>1, <5>1, <5>3
      <4> QED BY <1>3, <4>1, <4>2, <4>3
    <3> QED BY <3>1, <3>2
  <2>2. ~TopCalls' => f \in Chain(Main)
    <3>1. ~TopCalls' => n - 1 \notin Calls
      BY <1>3 DEF TopCalls
    <3> QED BY <1>0, <1>2, <3>1 DEF OnList
  <2>3. \A i \in Calls' : i - 1 \notin Calls' => stack'[i].frame \in Chain(Main)
    BY <1>0, <1>3, <1>5 DEF OnList
  <2> QED BY <1>1, <1>8, <2>1, <2>2, <2>3, FrameFacts
      DEF OnList, InProcess, Frames, Main
<1>14. NextKnown'
  BY <1>1, <1>4 DEF NextKnown, NoFrame
<1> QED BY <1>6, <1>7, <1>9, <1>10, <1>11, <1>12, <1>13, <1>14 DEF ChainInv

\* f suspends on c, which is suspended itself and nobody's child yet.
Suspends(f, c) ==
  /\ Alive /\ SuspendOn(f, c) /\ at' = "return" /\ running' = NoFrame
  /\ state[f] = "running" /\ child[f] = NoFrame
  /\ c # Main /\ f < c
  /\ Suspended(c) /\ owner[c] = f /\ parent[c] = NoFrame /\ c \notin Chain(Main)
  /\ nextChild = IF processPromise[c] THEN Leaf(c) ELSE NoFrame
  /\ \A i \in Calls' : /\ i \in Calls /\ stack'[i] = stack[i]
                       /\ stack[i].callee <= f
                       /\ i - 1 \notin Calls' => i - 1 \notin Calls
  /\ TopCalls' => stack'[Len(stack')].callee = f
  /\ ~TopCalls' => f \in Chain(Main)
  /\ \A g \in Frames : state[g] = "running" =>
       g = f \/ \E i \in Calls' : g = stack[i].frame
  /\ \A g \in Frames :
       InProcess(g) /\ state[g] \in {"running", "awaiting", "blocked"} =>
         \/ g \in Chain(Main) \/ g \in Chain(c)
         \/ \E d \in Frames : /\ g \in Chain(d)
                             /\ \E i \in Calls' : stack[i].callee = d

LEMMA SuspendsStep ==
  ASSUME TaskInv, TypeOK', NEW f \in Frames, NEW c \in Frames, Suspends(f, c)
  PROVE  BaseInv' /\ ChainInv'
<1>0. /\ Alive /\ TypeOK /\ StackShape /\ stack \in Seq(Entries)
      /\ Order /\ Callers /\ Kinds /\ AllOwned /\ Spent
      /\ Running /\ Family /\ Idle /\ Promise /\ OnList /\ ChainsEnd
      /\ NextKnown /\ child \in Pointers
  BY Parts DEF Suspends
<1>1. /\ at' = "return" /\ running' = NoFrame
      /\ child' = [child EXCEPT ![f] = c]
      /\ \A g \in Frames : /\ state'[g] = IF g = f THEN "awaiting" ELSE state[g]
                           /\ parent'[g] = IF g = c THEN f ELSE parent[g]
                           /\ child'[g] = IF g = f THEN c ELSE child[g]
      /\ UNCHANGED <<kind, owner, waiting>>
  BY <1>0 DEF Suspends, SuspendOn, TypeOK
<1>2. /\ state[f] = "running" /\ child[f] = NoFrame
      /\ c # Main /\ f < c /\ f # c
      /\ Suspended(c) /\ owner[c] = f /\ parent[c] = NoFrame
      /\ c \notin Chain(Main)
      /\ nextChild = IF processPromise[c] THEN Leaf(c) ELSE NoFrame
  BY DEF Suspends, Frames
<1>3. /\ Chain(c) \subseteq Frames /\ c \in Chain(c) /\ Leaf(c) \in Chain(c)
      /\ \A g \in Chain(c) : c <= g
      /\ \A g \in Chain(c) : child[g] # NoFrame => child[g] \in Chain(c)
      /\ child[Leaf(c)] = NoFrame /\ Leaf(c) # NoFrame
  BY <1>0, ChainsDescend, FrameFacts
<1>4. f \notin Chain(c) /\ Main \notin Chain(c) /\ \A g \in Frames : g <= f => g \notin Chain(c)
  BY <1>2, <1>3, ProcessTaskAssumption DEF Frames, Main
<1>5. /\ \A g \in Frames : processPromise'[g] <=>
           processPromise[g] \/ (Completes(f, c) /\ g \in Chain(c))
      /\ nextChild' = IF Completes(f, c) THEN Leaf(c) ELSE nextChild
      /\ Completes(f, c) <=> ~processPromise[c] /\ InProcess(f)
  <2>1. Completes(f, c) <=> ~processPromise[c] /\ InProcess(f)
    BY DEF Completes, InProcess
  <2>2. processPromise' = IF Completes(f, c)
           THEN [g \in Frames |-> processPromise[g] \/ g \in Chain(c)]
           ELSE processPromise
    BY DEF Suspends, SuspendOn, Updated
  <2>3. nextChild' = IF Completes(f, c) THEN Leaf(c) ELSE nextChild
    BY DEF Suspends, SuspendOn, NextAfterUpdate
  <2>4. CASE Completes(f, c)
    BY <2>1, <2>2, <2>3, <2>4
  <2>5. CASE ~Completes(f, c)
    BY <2>1, <2>2, <2>3, <2>5
  <2> QED BY <2>4, <2>5
<1>6. /\ \A i \in Calls' : /\ i \in Calls /\ stack'[i] = stack[i]
                           /\ stack[i].frame \in Frames /\ stack[i].callee \in Frames
                           /\ stack[i].frame # f /\ stack[i].callee # c
                           /\ stack[i].callee \notin Chain(c)
                           /\ i - 1 \notin Calls' => i - 1 \notin Calls
      /\ TopCalls' => stack'[Len(stack')].callee = f /\ f # Main
      /\ ~TopCalls' => f \in Chain(Main)
  <2>1. ASSUME NEW i \in Calls'
        PROVE  /\ i \in Calls /\ stack'[i] = stack[i]
               /\ stack[i].frame \in Frames /\ stack[i].callee \in Frames \ {Main}
               /\ stack[i].frame # f /\ stack[i].callee # c
               /\ stack[i].callee \notin Chain(c)
               /\ i - 1 \notin Calls' => i - 1 \notin Calls
    <3>1. /\ i \in Calls /\ stack'[i] = stack[i] /\ stack[i].callee <= f
          /\ i - 1 \notin Calls' => i - 1 \notin Calls
      BY DEF Suspends
    <3>2. /\ stack[i].frame \in Frames /\ stack[i].callee \in Frames \ {Main}
          /\ stack[i].frame < stack[i].callee
      BY <1>0, <3>1, CallFacts
    <3>3. stack[i].frame # f
      BY <3>1, <3>2 DEF Frames
    <3> QED BY <1>3, <1>4, <3>1, <3>2, <3>3
  <2>2. TopCalls' => Len(stack') \in Calls'
    BY DEF TopCalls
  <2> QED BY <2>1, <2>2 DEF Suspends
<1>7. Order' /\ Kinds' /\ AllOwned'
  <2>1. /\ {} \in SUBSET Frames
        /\ \A g \in Frames : state'[g] # "none" <=> state[g] # "none"
        /\ \A g \in Frames : Exists(g)' <=> Exists(g)
        /\ \A g \in Frames : state'[g] \in {"initial", "yielded"} => state'[g] = state[g]
    BY <1>1, <1>2 DEF Exists
  <2> QED BY <1>0, <1>1, <2>1, BaseKept
<1>8. Callers' /\ Spent'
  <2>1. Callers'
    BY <1>0, <1>1, <1>6 DEF Callers
  <2>2. Spent'
    BY <1>0, <1>1, <1>2 DEF Spent, Exists, Frames
  <2> QED BY <2>1, <2>2
<1>9. Running'
  <2>1. \A g \in Frames : state[g] = "running" =>
          g = f \/ \E i \in Calls' : g = stack[i].frame
    BY DEF Suspends
  <2> QED BY <1>1, <1>6, <2>1 DEF Running, Frames
<1>10. /\ \A x \in Frames : Chain(x) \subseteq Chain(x)'
       /\ \A x \in Frames : f \in Chain(x) => Chain(c) \subseteq Chain(x)'
       /\ \A x \in Frames : f \in Chain(x) => Leaf(x)' = Leaf(c)
       /\ child' \in Pointers
  <2>1. child' \in Pointers
    BY DEF TypeOK, Pointers, Frames, FrameOrNone, NoFrame
  <2>2. ASSUME NEW x \in Frames
        PROVE  /\ Chain(x) \subseteq Chain(x)'
               /\ f \in Chain(x) => Chain(c) \subseteq Chain(x)'
               /\ f \in Chain(x) => Leaf(x)' = Leaf(c)
    <3>1. /\ Chain(x) = ChainOf(child, x) /\ Chain(x)' = ChainOf(child', x)
          /\ Chain(c) = ChainOf(child, c) /\ Leaf(x)' = LeafOf(child', x)
      BY ChainNames
    <3>2. /\ Chain(x) \subseteq Chain(x)'
          /\ f \in Chain(x) => Chain(c) \subseteq Chain(x)'
      <4>1. child' = [child EXCEPT ![f] = c] /\ child[f] = NoFrame /\ child \in Pointers
        BY <1>0, <1>1, <1>2
      <4>2. /\ ChainOf(child, x) \subseteq ChainOf(child', x)
            /\ f \in ChainOf(child, x) => ChainOf(child, c) \subseteq ChainOf(child', x)
        BY <2>1, <4>1, PointerSet
      <4> QED BY <3>1, <4>2
    <3>3. ASSUME f \in Chain(x) PROVE Leaf(x)' = Leaf(c)
      <4>1. Leaf(c) \in Chain(x)' /\ child'[Leaf(c)] = NoFrame
        BY <1>1, <1>3, <1>4, <3>2, <3>3
      <4> QED BY <2>1, <3>1, <4>1, LeafFacts
    <3> QED BY <3>2, <3>3
  <2> QED BY <2>1, <2>2
<1>11. ChainsEnd'
  <2>1. ASSUME NEW x \in Frames
        PROVE  \E g \in Chain(x)' : child'[g] = NoFrame
    <3>1. /\ Leaf(x) \in Chain(x) /\ child[Leaf(x)] = NoFrame
          /\ Leaf(x) \in Frames
      BY <1>0, ChainsDescend
    <3>2. CASE Leaf(x) # f
      BY <1>1, <1>10, <3>1, <3>2
    <3>3. CASE Leaf(x) = f
      <4>1. Leaf(c) \in Chain(x)' /\ child'[Leaf(c)] = NoFrame
        BY <1>1, <1>3, <1>4, <1>10, <3>1, <3>3
      <4> QED BY <4>1
    <3> QED BY <3>2, <3>3
  <2> QED BY <2>1 DEF ChainsEnd, Frames, NoFrame
<1>12. Family'
  <2>1. \A g \in Frames : /\ parent[g] # NoFrame => parent[g] \in Frames
                          /\ child[g] # NoFrame => child[g] \in Frames
    BY <1>0, FrameFacts DEF TypeOK
  <2>2. \A g \in Frames : child'[g] # NoFrame => owner[child'[g]] = g
                                               /\ state'[child'[g]] # "none"
    BY <1>0, <1>1, <1>2, <2>1 DEF Family, Suspended
  <2>3. ASSUME NEW g \in Frames, state'[g] = "awaiting"
        PROVE  /\ child'[g] # NoFrame /\ parent'[child'[g]] = g
               /\ state'[child'[g]] \in {"running", "awaiting", "blocked"}
    <3>1. CASE g = f
      BY <1>1, <1>2, <3>1, FrameFacts DEF Suspended
    <3>2. CASE g # f
      <4>1. /\ child[g] # NoFrame /\ parent[child[g]] = g /\ child[g] \in Frames
            /\ state[child[g]] \in {"running", "awaiting", "blocked"}
        BY <1>0, <1>1, <2>1, <2>3, <3>2 DEF Family
      <4>2. child[g] # c
        BY <1>2, <4>1, FrameFacts
      <4> QED BY <1>1, <3>2, <4>1, <4>2
    <3> QED BY <3>1, <3>2
  <2>4. \A g \in Frames : Exists(g)' /\ child'[g] # NoFrame => state'[g] = "awaiting"
    BY <1>0, <1>1, <1>2 DEF Family, Exists
  <2>5. ASSUME NEW g \in Frames, Exists(g)', state'[g] # "final", parent'[g] # NoFrame
        PROVE  state'[parent'[g]] = "awaiting" /\ child'[parent'[g]] = g
    <3>1. CASE g = c
      BY <1>1, <3>1
    <3>2. CASE g # c
      <4>1. Exists(g) /\ state[g] # "final" /\ parent[g] # NoFrame
        BY <1>1, <1>2, <2>5, <3>2 DEF Exists
      <4>2. /\ state[parent[g]] = "awaiting" /\ child[parent[g]] = g
            /\ parent[g] \in Frames
        BY <1>0, <2>1, <4>1 DEF Family
      <4> QED BY <1>1, <1>2, <3>2, <4>2
    <3> QED BY <3>1, <3>2
  <2>6. \A i \in Calls' : parent'[stack'[i].callee] = NoFrame
    BY <1>0, <1>1, <1>6 DEF Family
  <2>7. \A g \in Frames : state'[g] = "running" /\ parent'[g] # NoFrame =>
          g \in Chain(Main)'
    BY <1>0, <1>1, <1>2, <1>10, FrameFacts DEF Family, Suspended
  <2>8. parent'[Main] = NoFrame
    BY <1>0, <1>1, <1>2, FrameFacts DEF Family
  <2> QED BY <1>1, <2>2, <2>3, <2>4, <2>5, <2>6, <2>7, <2>8
      DEF Family, Frames, Main, NoFrame
<1>13. Idle'
  <2>1. \A g \in Frames : state'[g] = "none" => g \notin Chain(c)
    <3>1. \A g \in Chain(c) : Suspended(g)
      BY <1>0, <1>2, StoredChain
    <3> QED BY <1>1, <3>1 DEF Suspended
  <2>2. \A g \in Frames : state'[g] = "none" => child'[g] = NoFrame
                                                /\ ~processPromise'[g]
    BY <1>0, <1>1, <1>5, <2>1 DEF Idle
  <2>3. \A g \in Frames : state'[g] = "blocked" => waiting'[g]
    BY <1>0, <1>1 DEF Idle
  <2>4. \A g \in Frames : state'[g] \in {"none", "initial", "yielded"} =>
          parent'[g] = NoFrame /\ ~waiting'[g]
    BY <1>0, <1>1, <1>2 DEF Idle, Suspended
  <2>5. \A g \in Frames : kind'[g] = "gen" /\ state'[g] \in {"running", "final"}
                          /\ parent'[g] = NoFrame => ~waiting'[g]
    BY <1>0, <1>1, <1>2, FrameFacts DEF Idle
  <2>6. \A g \in Frames : kind'[g] = "gen" /\ state'[g] = "final" => parent'[g] = NoFrame
    BY <1>0, <1>1, <1>2 DEF Idle, Suspended
  <2> QED BY <2>2, <2>3, <2>4, <2>5, <2>6 DEF Idle, Frames, NoFrame
<1>14. \A g \in Frames : InProcess(g)' <=>
         InProcess(g) \/ (Completes(f, c) /\ g \in Chain(c))
  BY <1>5 DEF InProcess, Main
<1>15. Promise'
  <2>1. ~processPromise'[Main]
    BY <1>0, <1>4, <1>5, FrameFacts DEF Promise
  <2>2. ASSUME NEW g \in Frames, Exists(g)', child'[g] # NoFrame, InProcess(g)'
        PROVE  processPromise'[child'[g]]
    <3>1. CASE g = f
      <4>1. InProcess(f)
        BY <1>4, <1>14, <2>2, <3>1
      <4> QED BY <1>1, <1>3, <1>5, <3>1, <4>1
    <3>2. CASE g # f
      <4>1. Exists(g) /\ child'[g] = child[g] /\ child[g] \in Frames
        BY <1>0, <1>1, <2>2, <3>2, FrameFacts DEF Exists, TypeOK
      <4>2. CASE InProcess(g)
        BY <1>0, <1>5, <2>2, <4>1, <4>2 DEF Promise
      <4>3. CASE ~InProcess(g)
        <5>1. Completes(f, c) /\ child[g] \in Chain(c)
          BY <1>3, <1>14, <2>2, <4>1, <4>3
        <5> QED BY <1>5, <4>1, <5>1
      <4> QED BY <4>2, <4>3
    <3> QED BY <3>1, <3>2
  <2>3. ASSUME NEW g \in Frames, processPromise'[g]
        PROVE  InProcess(owner[g])'
    <3>1. CASE processPromise[g]
      <4>1. owner[g] \in Frames
        BY <1>0, <3>1 DEF Idle, Order, Promise
      <4>2. InProcess(owner[g])
        BY <1>0, <3>1 DEF Promise
      <4> QED BY <1>1, <1>14, <4>1, <4>2
    <3>2. CASE ~processPromise[g]
      <4>1. Completes(f, c) /\ g \in Chain(c)
        BY <1>5, <2>3, <3>2
      <4>2. CASE g = c
        <5>1. InProcess(f)
          BY <1>5, <4>1
        <5> QED BY <1>1, <1>2, <1>14, <4>2, <5>1
      <4>3. CASE g # c
        <5>1. PICK x \in Chain(c) : child[x] = g
          BY <1>0, <4>1, <4>3, ChainNames, ChainUnrolls
        <5>2. x \in Frames /\ owner[g] = x
          BY <1>0, <1>3, <5>1, FrameFacts DEF Family
        <5> QED BY <1>1, <1>14, <4>1, <5>1, <5>2
      <4> QED BY <4>2, <4>3
    <3> QED BY <3>1, <3>2
  <2>4. \A i \in Calls' : kind[stack'[i].callee] = "method"
                            => ~processPromise'[stack'[i].callee]
    BY <1>0, <1>5, <1>6 DEF Promise
  <2> QED BY <1>1, <2>1, <2>2, <2>3, <2>4 DEF Promise, Frames, Main, NoFrame
<1>16. OnList'
  <2>0. \/ Chain(c) \subseteq Chain(Main)'
        \/ Chain(c) \subseteq Chain(f)' /\ \E i \in Calls' : stack'[i].callee = f
    <3>1. f \in Chain(f)
      BY <1>0, ChainsDescend
    <3> QED BY <1>6, <1>10, <3>1, FrameFacts DEF TopCalls
  <2>1. ASSUME NEW g \in Frames, InProcess(g)',
               state'[g] \in {"running", "awaiting", "blocked"}
        PROVE  \/ g \in Chain(Main)'
               \/ \E d \in Frames : /\ g \in Chain(d)'
                                   /\ \E i \in Calls' : stack'[i].callee = d
    <3>1. state[g] \in {"running", "awaiting", "blocked"}
      BY <1>1, <1>2, <2>1
    <3>2. CASE g \in Chain(c)
      BY <2>0, <3>2
    <3>3. CASE g \notin Chain(c)
      <4>1. InProcess(g)
        BY <1>14, <2>1, <3>3
      <4>2. \/ g \in Chain(Main)
            \/ \E d \in Frames : /\ g \in Chain(d)
                                /\ \E i \in Calls' : stack[i].callee = d
        BY <3>1, <3>3, <4>1 DEF Suspends
      <4> QED BY <1>6, <1>10, <4>2, FrameFacts
    <3> QED BY <3>2, <3>3
  <2>2. \A i \in Calls' : i - 1 \notin Calls' => stack'[i].frame \in Chain(Main)'
    BY <1>0, <1>6, <1>10, FrameFacts DEF OnList
  <2> QED BY <1>1, <2>1, <2>2 DEF OnList, Frames
<1>17. NextKnown'
  <2>1. CASE TopCalls'
    <3>1. stack'[Len(stack')].callee = f /\ f # Main
      BY <1>6, <2>1
    <3>2. Leaf(f)' = Leaf(c)
      BY <1>0, <1>10, ChainsDescend
    <3>3. state'[f] = "awaiting" /\ (processPromise'[f] <=> processPromise[f])
      BY <1>1, <1>4, <1>5
    <3>4. processPromise[c] => processPromise[f]
      BY <1>0, <1>2, <3>1 DEF Promise, InProcess
    <3>5. nextChild' = IF processPromise'[f] THEN Leaf(c) ELSE NoFrame
      BY <1>2, <1>5, <3>1, <3>3, <3>4 DEF InProcess
    <3> QED BY <1>1, <2>1, <3>1, <3>2, <3>3, <3>5 DEF NextKnown, Suspended, NoFrame
  <2>2. CASE ~TopCalls'
    <3>1. f \in Chain(Main)
      BY <1>6, <2>2
    <3>2. InProcess(f)
      BY <1>0, <3>1, ProcessChain
    <3>3. nextChild' = Leaf(c)
      BY <1>2, <1>5, <3>2
    <3>4. Leaf(Main)' = Leaf(c) /\ Leaf(c) # Main
      BY <1>3, <1>4, <1>10, <3>1, FrameFacts
    <3>5. Suspended(Main)'
      <4>1. CASE f = Main
        BY <1>1, <4>1, FrameFacts DEF Suspended, Main
      <4>2. CASE f # Main
        <5>1. child[Main] # NoFrame
          BY <1>0, <3>1, <4>2, ChainNames, ChainEnds, FrameFacts
        <5>2. state[Main] = "awaiting"
          BY <1>0, <5>1, FrameFacts DEF Family, Kinds
        <5> QED BY <1>1, <4>2, <5>2, FrameFacts DEF Suspended, Main
      <4> QED BY <4>1, <4>2
    <3> QED BY <1>1, <2>2, <3>3, <3>4, <3>5 DEF NextKnown, ProcessWaits, Main, NoFrame
  <2> QED BY <2>1, <2>2
<1> QED BY <1>7, <1>8, <1>9, <1>11, <1>12, <1>13, <1>15, <1>16, <1>17
    DEF BaseInv, ChainInv

LEMMA AwaitTaskStep ==
  ASSUME TaskInv, TypeOK', NEW f \in Frames, NEW c \in Frames, AwaitTask(f, c)
  PROVE  StackShape' /\ BaseInv' /\ ChainInv'
<1>0. /\ Alive /\ TypeOK /\ StackShape /\ stack \in Seq(Entries)
      /\ Order /\ Callers /\ Kinds /\ Running /\ Family /\ Promise /\ OnList
      /\ child \in Pointers
  BY Executing, Parts DEF AwaitTask
<1>1. /\ Runs(f) /\ Exists(c) /\ kind[c] = "method" /\ owner[c] = f
      /\ ~AwaitReady(c) /\ at' = "return" /\ running' = NoFrame
      /\ SuspendOn(f, c) /\ stack' = stack
  BY DEF AwaitTask
<1>2. /\ state[f] = "running" /\ child[f] = NoFrame /\ nextChild = NoFrame
      /\ running = f
      /\ \A i \in Calls : stack[i].frame < f /\ stack[i].frame # f
      /\ TopCalls => /\ f = stack[Len(stack)].callee /\ f # Main
      /\ ~TopCalls => Calls = {} /\ f \in Chain(Main)
  BY <1>1, Executing
<1>3. c # Main /\ f < c
  BY <1>0, <1>1, FrameFacts DEF Order, Exists
<1>4. state[c] # "running"
  <2>1. c # f /\ \A i \in Calls : c # stack[i].frame
    <3>1. \A i \in Calls : stack[i].frame \in Frames
      BY <1>0, CallFacts
    <3> QED BY <1>2, <1>3, <3>1 DEF Frames
  <2> QED BY <1>0, <1>2, <2>1 DEF Running
<1>5. Suspended(c)
  BY <1>0, <1>1, <1>3, <1>4 DEF Kinds, AwaitReady, Exists, Suspended, TypeOK
<1>6. parent[c] = NoFrame /\ c \notin Chain(Main)
  <2>1. ASSUME parent[c] # NoFrame PROVE FALSE
    <3>1. parent[c] \in Frames
      BY <1>0, <2>1, FrameFacts DEF TypeOK
    <3>2. state[parent[c]] = "awaiting" /\ child[parent[c]] = c
      BY <1>0, <1>1, <1>5, <2>1 DEF Family, Suspended
    <3>3. owner[c] = parent[c]
      BY <1>0, <3>1, <3>2, FrameFacts DEF Family
    <3> QED BY <1>1, <1>2, <3>2, <3>3
  <2> QED BY <1>0, <1>3, <2>1, ProcessChain
<1>7. ~processPromise[c]
  <2> SUFFICES ASSUME processPromise[c] PROVE FALSE
    OBVIOUS
  <2>1. PICK d \in Frames : c \in Chain(d) /\ \E i \in Calls : stack[i].callee = d
    BY <1>0, <1>5, <1>6 DEF OnList, InProcess, Suspended
  <2>2. c # d
    BY <1>0, <1>1, <1>2, <2>1 DEF Callers
  <2>3. PICK x \in Chain(d) : child[x] = c
    BY <1>0, <2>1, <2>2, ChainNames, ChainUnrolls
  <2>4. x \in Frames
    BY <1>0, <2>3, ChainsDescend
  <2>5. x = f
    BY <1>0, <1>1, <2>3, <2>4, FrameFacts DEF Family
  <2> QED BY <1>2, <2>3, <2>5, FrameFacts
<1>8. Calls' = Calls /\ (TopCalls' <=> TopCalls)
  BY <1>1 DEF Calls, TopCalls
<1>9. \A i \in Calls : stack[i].callee <= f
  <2>1. ASSUME NEW i \in Calls PROVE stack[i].callee <= f
    <3>0. i \in 1..Len(stack) /\ f \in Nat /\ Len(stack) \in Nat
      BY <1>0, CallFacts DEF Frames
    <3>1. CASE i = Len(stack)
      BY <1>2, <2>1, <3>0, <3>1 DEF TopCalls
    <3>2. CASE i # Len(stack)
      <4>1. i < Len(stack) /\ i + 1 \in 1..Len(stack) /\ i <= i + 1
        BY <3>0, <3>2
      <4>2. i + 1 \in Calls /\ stack[i + 1].frame = stack[i].callee
        BY <1>0, <4>1 DEF StackShape
      <4>3. stack[i + 1].frame \in Nat
        BY <1>0, <4>2, CallFacts DEF Frames
      <4> QED BY <1>2, <3>0, <4>2, <4>3
    <3> QED BY <3>1, <3>2
  <2> QED BY <2>1
<1>10. StackShape'
  BY <1>0, <1>1, <1>8 DEF StackShape, Frames
<1>11. Suspends(f, c)
  <2>1. \A g \in Frames : state[g] = "running" =>
          g = f \/ \E i \in Calls' : g = stack[i].frame
    BY <1>0, <1>2, <1>8 DEF Running
  <2>2. \A g \in Frames :
          InProcess(g) /\ state[g] \in {"running", "awaiting", "blocked"} =>
            \/ g \in Chain(Main)
            \/ \E d \in Frames : /\ g \in Chain(d)
                                /\ \E i \in Calls' : stack[i].callee = d
    BY <1>0, <1>8 DEF OnList
  <2> QED BY <1>0, <1>1, <1>2, <1>3, <1>5, <1>6, <1>7, <1>8, <1>9, <2>1, <2>2
      DEF Suspends
<1> QED BY <1>10, <1>11, SuspendsStep

LEMMA AwaitNextStep ==
  ASSUME TaskInv, TypeOK', AwaitNext
  PROVE  StackShape' /\ BaseInv' /\ ChainInv'
<1> DEFINE f == Top.frame
           c == Top.callee
           n == Len(stack)
<1>0. /\ Alive /\ TypeOK /\ StackShape /\ stack \in Seq(Entries)
      /\ Callers /\ Running /\ OnList
  BY Parts DEF AwaitNext, Alive
<1>1. /\ at = "return" /\ stack # <<>> /\ Top.how = "call" /\ ~AwaitReady(c)
      /\ stack' = Below /\ SuspendOn(f, c) /\ at' = at /\ running' = running
  BY DEF AwaitNext
<1>2. /\ n \in Calls /\ Top = stack[n] /\ f = stack[n].frame /\ c = stack[n].callee
      /\ f \in Frames /\ c \in Frames \ {Main} /\ f < c
      /\ state[f] = "running" /\ child[f] = NoFrame
      /\ owner[c] = f /\ parent[c] = NoFrame /\ c \notin Chain(Main)
      /\ Suspended(c)
      /\ nextChild = IF processPromise[c] THEN Leaf(c) ELSE NoFrame
  BY <1>1, Returned
<1>3. /\ Len(stack') = n - 1 /\ n \in Nat \ {0}
      /\ \A i \in Calls' : stack'[i] = stack[i]
      /\ \A i : i \in Calls' <=> i \in Calls /\ i # n
  BY <1>0, <1>1, Popped
<1>4. running = NoFrame
  BY <1>0, <1>1 DEF StackShape
<1> HIDE DEF f, c
<1>5. \A i \in Calls : i \in 1..n /\ stack[i].frame \in Frames
                       /\ stack[i].callee \in Frames
  BY <1>0, CallFacts
<1>6. \A i \in Calls' : \A j \in 1..Len(stack') : i <= j => j \in Calls'
  BY <1>0, <1>3, <1>5 DEF StackShape
<1>7. ASSUME NEW i \in Calls', i < Len(stack')
      PROVE  i + 1 \in Calls' /\ stack'[i + 1].frame = stack'[i].callee
  <2>1. i \in Calls /\ i \in 1..n /\ i + 1 \in 1..Len(stack') /\ i <= i + 1 /\ i < n
    BY <1>3, <1>5, <1>7
  <2>2. i + 1 \in Calls'
    BY <1>6, <2>1
  <2> QED BY <1>0, <1>3, <2>1, <2>2 DEF StackShape
<1>8. n - 1 \in Calls => stack[n - 1].callee = f
  <2>1. (n - 1) + 1 = n /\ n - 1 < n
    BY <1>3
  <2> QED BY <1>0, <1>2, <2>1 DEF StackShape
<1>9. StackShape'
  <2>1. \A i \in Calls' : stack'[i].callee \in Frames
    BY <1>3, <1>5
  <2> QED BY <1>0, <1>1, <1>4, <1>6, <1>7, <2>1 DEF StackShape
<1>10. \A i \in Calls' : stack[i].callee <= f
  <2>1. ASSUME NEW i \in Calls' PROVE stack[i].callee <= f
    <3>0. i \in 1..n /\ i \in Calls /\ f \in Nat
      BY <1>2, <1>3, <1>5 DEF Frames
    <3>1. CASE i = n - 1
      BY <1>8, <3>0, <3>1
    <3>2. CASE i # n - 1
      <4>1. i < Len(stack')
        BY <1>3, <2>1, <3>0, <3>2
      <4>2. i + 1 \in Calls' /\ i + 1 < n
        BY <1>3, <1>7, <3>0, <3>2, <4>1
      <4>3. stack[i + 1].frame = stack[i].callee /\ i + 1 \in Calls
        BY <1>3, <1>7, <2>1, <4>1, <4>2
      <4>4. stack[i + 1].frame < f /\ stack[i + 1].frame \in Nat
        BY <1>0, <1>2, <1>5, <4>2, <4>3 DEF Callers, Frames
      <4> QED BY <3>0, <4>3, <4>4
    <3> QED BY <3>1, <3>2
  <2> QED BY <2>1
<1>11. Suspends(f, c)
  <2>1. \A g \in Frames : state[g] = "running" =>
          g = f \/ \E i \in Calls' : g = stack[i].frame
    BY <1>0, <1>2, <1>3, <1>4, FrameFacts DEF Running
  <2>2. \A g \in Frames :
          InProcess(g) /\ state[g] \in {"running", "awaiting", "blocked"} =>
            \/ g \in Chain(Main) \/ g \in Chain(c)
            \/ \E d \in Frames : /\ g \in Chain(d)
                                /\ \E i \in Calls' : stack[i].callee = d
    BY <1>0, <1>2, <1>3 DEF OnList
  <2>3. /\ \A i \in Calls' : i \in Calls /\ stack'[i] = stack[i]
                             /\ (i - 1 \notin Calls' => i - 1 \notin Calls)
        /\ TopCalls' => stack'[Len(stack')].callee = f
        /\ ~TopCalls' => f \in Chain(Main)
    <3>1. \A i \in Calls' : i - 1 # n
      BY <1>3, <1>5
    <3>2. TopCalls' <=> n - 1 \in Calls'
      BY <1>3 DEF TopCalls
    <3>3. n - 1 \in Calls' <=> n - 1 \in Calls
      BY <1>3
    <3>4. n - 1 \notin Calls => f \in Chain(Main)
      BY <1>0, <1>2 DEF OnList
    <3> QED BY <1>3, <1>8, <3>1, <3>2, <3>3, <3>4
  <2>4. SuspendOn(f, c) /\ at' = "return" /\ running' = NoFrame
    BY <1>1, <1>4 DEF f, c
  <2> QED BY <1>0, <1>2, <1>10, <2>1, <2>2, <2>3, <2>4 DEF Suspends
<1> QED BY <1>2, <1>9, <1>11, SuspendsStep
-----------------------------------------------------------------------------
(* A frame hands its result to the frame that awaits it *)

Hands(f, q, s, D) ==
  /\ Runs(f) /\ q = parent[f] /\ q # NoFrame /\ Condemned(f, D)
  /\ running' = q /\ at' = at /\ stack' = Append(stack, Inverted(f))
  /\ child' = [child EXCEPT ![q] = NoFrame]
  /\ UNCHANGED <<kind, owner, processPromise, nextChild>>
  /\ \A g \in Frames : state'[g] = IF g = q THEN "running"
                                   ELSE IF g = f THEN s
                                   ELSE IF g \in D THEN "destroyed" ELSE state[g]
  /\ \A g \in Frames : g # f => /\ waiting'[g] <=> waiting[g]
                                /\ parent'[g] = parent[g]
  /\ \/ /\ s = "yielded" /\ D = {} /\ kind[f] = "gen"
        /\ ~waiting'[f] /\ parent'[f] = NoFrame
     \/ /\ s = "final" /\ kind[f] = "method"
        /\ \A g \in Frames : Exists(g) /\ owner[g] = f => g \in D

LEMMA HandsStep ==
  ASSUME TaskInv, TypeOK', NEW f \in Frames, NEW q, NEW s, NEW D,
         Hands(f, q, s, D)
  PROVE  StackShape' /\ BaseInv' /\ ChainInv'
<1>0. /\ Alive /\ TypeOK /\ StackShape /\ stack \in Seq(Entries)
      /\ Order /\ Callers /\ Kinds /\ AllOwned /\ Spent
      /\ Running /\ Family /\ Idle /\ Promise /\ OnList /\ ChainsEnd
      /\ NextKnown /\ child \in Pointers
  BY Executing, Parts DEF Hands
<1>1. /\ running' = q /\ at' = "run" /\ stack' = Append(stack, Inverted(f))
      /\ child' = [child EXCEPT ![q] = NoFrame]
      /\ UNCHANGED <<kind, owner, processPromise, nextChild>>
      /\ \A g \in Frames : state'[g] = IF g = q THEN "running"
                                   ELSE IF g = f THEN s
                                   ELSE IF g \in D THEN "destroyed" ELSE state[g]
      /\ \A g \in Frames : g # f => /\ waiting'[g] <=> waiting[g]
                                    /\ parent'[g] = parent[g]
      /\ s \in {"yielded", "final"}
      /\ s = "yielded" => kind[f] = "gen" /\ ~waiting'[f] /\ parent'[f] = NoFrame
      /\ s = "final" => kind[f] = "method"
                        /\ \A g \in Frames : Exists(g) /\ owner[g] = f => g \in D
  BY DEF Hands, Runs
<1>2. /\ state[f] = "running" /\ child[f] = NoFrame /\ nextChild = NoFrame
      /\ running = f /\ at = "run" /\ Calls = {} /\ f \in Chain(Main)
      /\ parent[f] = q /\ q # NoFrame
  BY Executing DEF Hands
<1>3. /\ q \in Frames /\ state[q] = "awaiting" /\ child[q] = f /\ q \in Chain(Main)
      /\ f # Main /\ owner[f] = q /\ q # f /\ q < f
      /\ q # Main => parent[q] # NoFrame
  <2>1. q \in Frames /\ f # Main
    BY <1>0, <1>2, FrameFacts DEF TypeOK, Family
  <2>2. state[q] = "awaiting" /\ child[q] = f /\ q \in Chain(Main)
    BY <1>0, <1>2, <2>1, ProcessChain
  <2>3. owner[f] = q /\ q # f
    BY <1>0, <1>2, <2>1, <2>2, FrameFacts DEF Family
  <2> QED BY <1>0, <1>2, <2>1, <2>2, <2>3, ProcessChain DEF Order
<1>4. /\ D \in SUBSET Frames /\ Main \notin D /\ f \notin D /\ q \notin D
      /\ \A g \in D : Exists(g) /\ (owner[g] = f \/ owner[g] \in D)
      /\ \A g \in Frames : Exists(g) /\ owner[g] \in D => g \in D
  <2>1. Condemned(f, D) /\ q <= f
    BY <1>3 DEF Hands, Frames
  <2> QED BY <1>3, <2>1, CondemnedFacts DEF Condemned
<1>5. Calls' = {} /\ ~TopCalls'
  <2>1. Calls' = {}
    BY <1>0, <1>1, <1>2, EntryFacts, Pushed
  <2> QED BY <2>1 DEF TopCalls
<1>6. StackShape'
  BY <1>1, <1>5 DEF StackShape
<1>7. Order' /\ Kinds' /\ AllOwned'
  <2>1. /\ \A g \in Frames : state'[g] # "none" <=> state[g] # "none"
        /\ \A g \in Frames : Exists(g)' <=> Exists(g) /\ g \notin D
    BY <1>1, <1>2, <1>3, <1>4 DEF Exists
  <2>2. \A g \in Frames : state'[g] \in {"initial", "yielded"} =>
           state'[g] = state[g] \/ (g # Main /\ kind[g] = "gen")
    BY <1>1, <1>3
  <2> QED BY <1>0, <1>1, <1>4, <2>1, <2>2, BaseKept
<1>8. Callers' /\ Spent'
  <2>1. Callers'
    BY <1>5 DEF Callers
  <2>2. Spent'
    BY <1>0, <1>1, <1>2, <1>3, <1>4 DEF Spent, Exists, Frames
  <2> QED BY <2>1, <2>2
<1>9. \A g \in Frames : state[g] = "running" => g = f
  BY <1>0, <1>2 DEF Running
<1>10. Running'
  BY <1>1, <1>3, <1>9 DEF Running, Frames
<1>11. /\ \A g \in Frames : child'[g] = IF g = q THEN NoFrame ELSE child[g]
       /\ child' \in Pointers
       /\ \A x \in Frames : Chain(x) \subseteq Chain(x)' \cup {f}
  <2>1. child' \in Pointers
    BY DEF TypeOK, Pointers, Frames, FrameOrNone, NoFrame
  <2>2. \A g \in Frames : child'[g] = IF g = q THEN NoFrame ELSE child[g]
    BY <1>0, <1>1 DEF Pointers
  <2>3. ASSUME NEW x \in Frames PROVE Chain(x) \subseteq Chain(x)' \cup {f}
    <3>1. /\ child' = [child EXCEPT ![q] = NoFrame] /\ child \in Pointers
          /\ child[q] = f /\ child[f] = NoFrame /\ q \in Frames
      BY <1>0, <1>1, <1>2, <1>3
    <3>2. ChainOf(child, x) \subseteq ChainOf(child', x) \cup {f}
      BY <2>1, <3>1, PointerCleared
    <3> QED BY <3>2, ChainNames
  <2> QED BY <2>1, <2>2, <2>3
<1>12. q \in Chain(Main)'
  BY <1>3, <1>11, FrameFacts
<1>13. ChainsEnd'
  <2>1. ASSUME NEW x \in Frames
        PROVE  \E g \in Chain(x)' : child'[g] = NoFrame
    <3>1. /\ Leaf(x) \in Chain(x) /\ child[Leaf(x)] = NoFrame
          /\ Leaf(x) \in Frames /\ Chain(x) \subseteq Frames
      BY <1>0, ChainsDescend
    <3>2. CASE Leaf(x) # f
      BY <1>11, <3>1, <3>2
    <3>3. CASE Leaf(x) = f /\ x = f
      <4>1. f \in Chain(f)'
        BY <1>11, ChainNames, ChainFacts
      <4> QED BY <1>2, <1>3, <1>11, <3>3, <4>1
    <3>4. CASE Leaf(x) = f /\ x # f
      <4>1. PICK y \in Chain(x) : child[y] = f
        BY <1>0, <3>1, <3>4, ChainNames, ChainUnrolls
      <4>2. y = q
        BY <1>0, <1>3, <3>1, <4>1, FrameFacts DEF Family
      <4>3. q \in Chain(x)'
        BY <1>3, <1>11, <4>1, <4>2
      <4> QED BY <1>3, <1>11, <4>3
    <3> QED BY <3>2, <3>3, <3>4
  <2> QED BY <2>1 DEF ChainsEnd, Frames, NoFrame
<1>14. Family'
  <2>1. \A g \in Frames : /\ parent[g] # NoFrame => parent[g] \in Frames
                          /\ child[g] # NoFrame => child[g] \in Frames
    BY <1>0, FrameFacts DEF TypeOK
  <2>2. \A g \in Frames : child'[g] # NoFrame => owner[child'[g]] = g
                                               /\ state'[child'[g]] # "none"
    BY <1>0, <1>1, <1>11, <2>1 DEF Family
  <2>3. ASSUME NEW g \in Frames, state'[g] = "awaiting"
        PROVE  /\ child'[g] # NoFrame /\ parent'[child'[g]] = g
               /\ state'[child'[g]] \in {"running", "awaiting", "blocked"}
    <3>1. state[g] = "awaiting" /\ g # f /\ g # q /\ g \notin D
      BY <1>1, <2>3
    <3>2. /\ child[g] # NoFrame /\ parent[child[g]] = g /\ owner[child[g]] = g
          /\ state[child[g]] \in {"running", "awaiting", "blocked"}
      BY <1>0, <3>1 DEF Family
    <3>3. child[g] \notin D /\ child[g] # f
      BY <1>2, <1>4, <3>1, <3>2
    <3> QED BY <1>1, <1>11, <2>1, <3>1, <3>2, <3>3
  <2>4. \A g \in Frames : Exists(g)' /\ child'[g] # NoFrame => state'[g] = "awaiting"
    BY <1>0, <1>1, <1>2, <1>11 DEF Family, Exists
  <2>5. ASSUME NEW g \in Frames, Exists(g)', state'[g] # "final", parent'[g] # NoFrame
        PROVE  state'[parent'[g]] = "awaiting" /\ child'[parent'[g]] = g
    <3>1. /\ g \notin D /\ g # f /\ Exists(g) /\ state[g] # "final"
          /\ parent'[g] = parent[g]
      BY <1>1, <1>3, <1>4, <2>5 DEF Exists
    <3>2. state[parent[g]] = "awaiting" /\ child[parent[g]] = g
          /\ parent[g] \in Frames
      BY <1>0, <2>1, <2>5, <3>1 DEF Family
    <3>3. owner[g] = parent[g]
      BY <1>0, <3>2, FrameFacts DEF Family
    <3>4. parent[g] # q /\ parent[g] # f /\ parent[g] \notin D
      BY <1>2, <1>3, <1>4, <3>1, <3>2, <3>3
    <3> QED BY <1>1, <1>11, <3>1, <3>2, <3>4
  <2>6. parent'[Main] = NoFrame
    BY <1>0, <1>1, <1>3, FrameFacts DEF Family
  <2>7. \A g \in Frames : state'[g] = "running" /\ parent'[g] # NoFrame =>
          g \in Chain(Main)'
    BY <1>1, <1>9, <1>12
  <2> QED BY <1>1, <1>5, <2>2, <2>3, <2>4, <2>5, <2>6, <2>7
      DEF Family, Frames, Main, NoFrame
<1>15. Idle'
  <2>1. \A g \in Frames : state'[g] = "blocked" => waiting'[g]
    BY <1>0, <1>1 DEF Idle
  <2>2. \A g \in Frames : state'[g] \in {"none", "initial", "yielded"} =>
          parent'[g] = NoFrame /\ ~waiting'[g]
    BY <1>0, <1>1, <1>3 DEF Idle
  <2>3. \A g \in Frames : state'[g] = "none" => child'[g] = NoFrame
                                                /\ ~processPromise[g]
    BY <1>0, <1>1, <1>11 DEF Idle
  <2>4. ASSUME NEW g \in Frames, kind[g] = "gen",
               state'[g] \in {"running", "final"}, parent'[g] = NoFrame
        PROVE  ~waiting'[g]
    <3>1. g # f
      BY <1>1, <1>3, <2>4
    <3>2. g # q
      BY <1>0, <1>1, <1>3, <2>4, <3>1 DEF Kinds
    <3> QED BY <1>0, <1>1, <2>4, <3>1, <3>2 DEF Idle
  <2>5. \A g \in Frames : kind[g] = "gen" /\ state'[g] = "final" => parent'[g] = NoFrame
    BY <1>0, <1>1 DEF Idle
  <2> QED BY <1>1, <2>1, <2>2, <2>3, <2>4, <2>5 DEF Idle, Frames, NoFrame
<1>16. Promise'
  <2>1. \A g \in Frames : Exists(g)' => Exists(g)
    BY <1>1, <1>2, <1>3 DEF Exists
  <2> QED BY <1>0, <1>1, <1>5, <1>11, <2>1
      DEF Promise, InProcess, Frames, Main, NoFrame
<1>17. OnList'
  <2>1. ASSUME NEW g \in Frames, InProcess(g),
               state'[g] \in {"running", "awaiting", "blocked"}
        PROVE  g \in Chain(Main)'
    <3>1. CASE g = q
      BY <1>12, <3>1
    <3>2. CASE g # q
      <4>1. state[g] \in {"running", "awaiting", "blocked"} /\ g # f
        BY <1>1, <2>1, <3>2
      <4>2. g \in Chain(Main)
        BY <1>0, <1>2, <2>1, <4>1 DEF OnList
      <4> QED BY <1>11, <4>1, <4>2, FrameFacts
    <3> QED BY <3>1, <3>2
  <2> QED BY <1>1, <1>5, <1>12, <2>1 DEF OnList, InProcess, Frames, Main
<1>18. NextKnown'
  BY <1>1, <1>2 DEF NextKnown, NoFrame
<1> QED BY <1>6, <1>7, <1>8, <1>10, <1>13, <1>14, <1>15, <1>16, <1>17, <1>18
    DEF BaseInv, ChainInv

LEMMA YieldToParentStep ==
  ASSUME TaskInv, TypeOK', NEW f \in Frames, YieldToParent(f)
  PROVE  StackShape' /\ BaseInv' /\ ChainInv'
<1>1. /\ Runs(f) /\ kind[f] = "gen" /\ parent[f] # NoFrame
      /\ running' = parent[f] /\ stack' = Append(stack, Inverted(f))
      /\ state' = [state EXCEPT ![f] = "yielded", ![parent[f]] = "running"]
      /\ waiting' = [waiting EXCEPT ![f] = FALSE]
      /\ parent' = [parent EXCEPT ![f] = NoFrame]
      /\ child' = [child EXCEPT ![parent[f]] = NoFrame]
      /\ UNCHANGED <<at, kind, owner, processPromise, nextChild>>
  BY DEF YieldToParent, YieldClears, ParentAfterYield
<1>2. TypeOK /\ Condemned(f, {}) /\ parent[f] \in Frames
  BY <1>1, FrameFacts DEF TaskInv, Condemned, TypeOK
<1>3. \A g \in Frames : state'[g] = IF g = parent[f] THEN "running"
                                    ELSE IF g = f THEN "yielded" ELSE state[g]
  BY <1>1, <1>2 DEF TypeOK
<1>4. \A g \in Frames : /\ g # f => (waiting'[g] <=> waiting[g]) /\ parent'[g] = parent[g]
                        /\ g = f => ~waiting'[g] /\ parent'[g] = NoFrame
  BY <1>1, <1>2 DEF TypeOK
<1>5. Hands(f, parent[f], "yielded", {})
  BY <1>1, <1>2, <1>3, <1>4 DEF Hands
<1> QED BY <1>5, HandsStep

LEMMA EndToParentStep ==
  ASSUME TaskInv, TypeOK', NEW f \in Frames, EndToParent(f)
  PROVE  StackShape' /\ BaseInv' /\ ChainInv'
<1>1. /\ Runs(f) /\ kind[f] = "method" /\ parent[f] # NoFrame
      /\ running' = parent[f] /\ stack' = Append(stack, Inverted(f))
      /\ state' = [AfterBody(f) EXCEPT ![parent[f]] = "running"]
      /\ child' = [child EXCEPT ![parent[f]] = NoFrame]
      /\ UNCHANGED <<at, kind, owner, waiting, parent, processPromise, nextChild>>
  BY DEF EndToParent, ChildAfterEnd
<1>2. TypeOK /\ Order /\ parent[f] \in Frames
  BY <1>1, Executing, Parts, FrameFacts DEF TypeOK
<1>3. \A g \in Frames : state'[g] = IF g = parent[f] THEN "running"
                                    ELSE IF g = f THEN "final"
                                    ELSE IF g \in LocalsOf(f) THEN "destroyed"
                                    ELSE state[g]
  BY <1>1, <1>2, AfterBodyFacts
<1>4. Hands(f, parent[f], "final", LocalsOf(f))
  BY <1>1, <1>2, <1>3, LocalsOfCondemned DEF Hands
<1> QED BY <1>4, HandsStep
-----------------------------------------------------------------------------
(* An exception leaves the frames of the native stack *)

LEMMA ThrowStep ==
  ASSUME TaskInv, TypeOK', NEW f \in Frames, Throw(f)
  PROVE  StackShape' /\ BaseInv'
<1> DEFINE D == LocalsOf(f)
<1>0. /\ Alive /\ TypeOK /\ StackShape /\ stack \in Seq(Entries)
      /\ Order /\ Callers /\ Kinds /\ AllOwned /\ Spent
  BY Executing, Parts DEF Throw
<1>1. /\ Runs(f) /\ at' = "unwind"
      /\ UNCHANGED <<running, stack, kind, owner>>
      /\ \A g \in Frames : state'[g] = IF g = f THEN "final"
                             ELSE IF g \in D THEN "destroyed" ELSE state[g]
  BY <1>0, AfterBodyFacts DEF Throw
<1>2. /\ state[f] = "running" /\ running = f /\ at = "run"
      /\ \A i \in Calls : stack[i].frame < f /\ stack[i].frame # f
  BY <1>1, Executing
<1>3. /\ D \in SUBSET Frames /\ Main \notin D /\ f \notin D
      /\ \A g \in Frames : g <= f => g \notin D
      /\ \A g \in D : Exists(g)
      /\ \A g \in Frames : Exists(g) /\ owner[g] \in D => g \in D
      /\ \A g \in Frames : Exists(g) /\ owner[g] = f => g \in D
  BY <1>0, LocalsOfCondemned, CondemnedFacts DEF Condemned
<1> HIDE DEF D
<1>4. Calls' = Calls /\ (TopCalls' <=> TopCalls)
  BY <1>1 DEF Calls, TopCalls
<1>5. \A i \in Calls : /\ stack[i].frame \in Frames /\ stack[i].callee \in Frames
                       /\ stack[i].frame \notin D
  <2>1. ASSUME NEW i \in Calls
        PROVE  /\ stack[i].frame \in Frames /\ stack[i].callee \in Frames
               /\ stack[i].frame \notin D
    <3>1. stack[i].frame \in Frames /\ stack[i].callee \in Frames
      BY <1>0, CallFacts
    <3>2. stack[i].frame <= f
      BY <1>2, <3>1 DEF Frames
    <3> QED BY <1>3, <3>1, <3>2
  <2> QED BY <2>1
<1>6. StackShape'
  BY <1>0, <1>1, <1>2, <1>4, <1>5 DEF StackShape, Frames
<1>7. Callers'
  BY <1>0, <1>1, <1>2, <1>4, <1>5 DEF Callers, Frames
<1>8. Order' /\ Kinds' /\ AllOwned'
  <2>1. /\ \A g \in Frames : state'[g] # "none" <=> state[g] # "none"
        /\ \A g \in Frames : Exists(g)' <=> Exists(g) /\ g \notin D
        /\ \A g \in Frames : state'[g] \in {"initial", "yielded"} =>
             state'[g] = state[g]
    BY <1>1, <1>2, <1>3 DEF Exists
  <2> QED BY <1>0, <1>1, <1>3, <2>1, BaseKept
<1>9. Spent'
  BY <1>0, <1>1, <1>2, <1>3 DEF Spent, Exists, Frames
<1> QED BY <1>6, <1>7, <1>8, <1>9 DEF BaseInv

\* The invariant, while an exception is on its way.
LEMMA UnwindParts ==
  ASSUME TaskInv, at = "unwind"
  PROVE  /\ TypeOK /\ StackShape /\ stack \in Seq(Entries)
         /\ Order /\ Callers /\ Kinds /\ AllOwned /\ Spent
         /\ running \in Frames
BY DEF TaskInv, BaseInv, TypeOK, Entries

LEMMA UnwindCallStep ==
  ASSUME TaskInv, TypeOK', UnwindCall
  PROVE  StackShape' /\ BaseInv'
<1> DEFINE f == Top.frame
           c == Top.callee
           n == Len(stack)
           D == LocalsOf(f)
<1>0. /\ TypeOK /\ StackShape /\ stack \in Seq(Entries)
      /\ Order /\ Callers /\ Kinds /\ AllOwned /\ Spent
  BY UnwindParts DEF UnwindCall, Unwinds
<1>1. /\ at = "unwind" /\ stack # <<>> /\ Top.how = "call" /\ at' = at
      /\ state' = [AfterBody(f) EXCEPT
                    ![c] = IF kind[c] = "gen" THEN "dead" ELSE "destroyed"]
      /\ running' = f /\ stack' = Below /\ kind' = kind /\ owner' = owner
  BY DEF UnwindCall, Unwinds
<1>2. /\ Len(stack') = n - 1 /\ n \in Nat \ {0}
      /\ \A i \in Calls' : stack'[i] = stack[i]
      /\ \A i : i \in Calls' <=> i \in Calls /\ i # n
      /\ TopCalls
  BY <1>0, <1>1, Popped
<1>3. n \in Calls /\ Top = stack[n] /\ f = stack[n].frame /\ c = stack[n].callee
  BY <1>2 DEF TopCalls, Top
<1>4. /\ f \in Frames /\ c \in Frames \ {Main} /\ f < c /\ f # c
      /\ running = c /\ state[f] = "running" /\ state[c] # "none" /\ owner[c] = f
  BY <1>0, <1>1, <1>2, <1>3, CallFacts DEF Callers, StackShape, Frames
<1>5. Exists(c) => state[c] = "final"
  BY <1>0, <1>1, <1>4 DEF Spent
<1>6. /\ D \in SUBSET Frames /\ Main \notin D /\ f \notin D
      /\ \A g \in Frames : g <= f => g \notin D
      /\ \A g \in D : Exists(g)
      /\ \A g \in Frames : Exists(g) /\ owner[g] \in D => g \in D
      /\ \A g \in Frames : Exists(g) /\ owner[g] = f => g \in D
  BY <1>0, <1>4, LocalsOfCondemned, CondemnedFacts DEF Condemned
<1>7. \A g \in Frames :
        state'[g] = IF g = c THEN IF kind[c] = "gen" THEN "dead" ELSE "destroyed"
                    ELSE IF g = f THEN "final"
                    ELSE IF g \in D THEN "destroyed" ELSE state[g]
  BY <1>0, <1>1, <1>4, AfterBodyFacts
<1> HIDE DEF f, c, D
<1>8. \A i \in Calls : i \in 1..n /\ stack[i].frame \in Frames
                       /\ stack[i].callee \in Frames
  BY <1>0, <1>1, CallFacts
<1>9. StackShape'
  <2>1. \A i \in Calls' : stack'[i].callee \in Frames
    BY <1>2, <1>8
  <2>2. \A i \in Calls' : \A j \in 1..Len(stack') : i <= j => j \in Calls'
    BY <1>0, <1>2, <1>8 DEF StackShape
  <2>3. ASSUME NEW i \in Calls', i < Len(stack')
        PROVE  stack'[i + 1].frame = stack'[i].callee
    <3>1. i \in Calls /\ i \in 1..n /\ i + 1 \in 1..Len(stack') /\ i <= i + 1 /\ i < n
      BY <1>2, <1>8, <2>3
    <3>2. i + 1 \in Calls'
      BY <2>2, <3>1
    <3> QED BY <1>0, <1>2, <3>1, <3>2 DEF StackShape
  <2>4. TopCalls' => running' = stack'[Len(stack')].callee
    <3> SUFFICES ASSUME n - 1 \in Calls'
                 PROVE  f = stack'[n - 1].callee
      BY <1>1, <1>2 DEF TopCalls
    <3>1. n - 1 \in Calls /\ n - 1 < n /\ (n - 1) + 1 = n
      BY <1>2
    <3> QED BY <1>0, <1>2, <1>3, <3>1 DEF StackShape
  <2> QED BY <1>0, <1>1, <2>1, <2>2, <2>3, <2>4 DEF StackShape
<1>10. Order' /\ Kinds' /\ AllOwned'
  <2>1. /\ \A g \in Frames : state'[g] # "none" <=> state[g] # "none"
        /\ \A g \in Frames : Exists(g)' <=> Exists(g) /\ g \notin D
        /\ \A g \in Frames : state'[g] \in {"initial", "yielded"} =>
             state'[g] = state[g]
    BY <1>4, <1>6, <1>7 DEF Exists
  <2> QED BY <1>0, <1>1, <1>6, <2>1, BaseKept
<1>11. Callers'
  <2>1. ASSUME NEW i \in Calls'
        PROVE  /\ state'[stack[i].frame] = "running"
               /\ state'[stack[i].callee] # "none"
    <3>1. i \in Calls /\ i < n
      BY <1>2, <1>8
    <3>2. stack[i].frame < f /\ stack[i].frame \in Frames /\ stack[i].callee \in Frames
      BY <1>0, <1>3, <1>8, <3>1 DEF Callers
    <3>3. stack[i].frame # f /\ stack[i].frame # c /\ stack[i].frame \notin D
      BY <1>4, <1>6, <3>2 DEF Frames
    <3> QED BY <1>0, <1>7, <3>1, <3>2, <3>3 DEF Callers
  <2> QED BY <1>0, <1>1, <1>2, <2>1 DEF Callers
<1>12. Spent'
  <2>1. \A g \in Frames : Exists(g)' => Exists(g) /\ g \notin D
    BY <1>4, <1>6, <1>7 DEF Exists
  <2>2. \A g \in Frames : state'[g] = "final" => g = f \/ state[g] = "final"
    BY <1>7
  <2>3. state'[f] = "final"
    BY <1>4, <1>7
  <2> QED BY <1>0, <1>1, <1>6, <2>1, <2>2, <2>3 DEF Spent, Frames
<1> QED BY <1>9, <1>10, <1>11, <1>12 DEF BaseInv

LEMMA UnwindInvertedStep ==
  ASSUME TaskInv, TypeOK', UnwindInverted
  PROVE  /\ StackShape' /\ at' \in {"unwind", "aborted"}
         /\ BaseInv'
<1> DEFINE g == Top.frame
<1>0. /\ TypeOK /\ StackShape /\ stack \in Seq(Entries)
      /\ Order /\ Callers /\ Kinds /\ AllOwned /\ Spent
  BY UnwindParts DEF UnwindInverted, Unwinds
<1>1. /\ at = "unwind" /\ stack # <<>> /\ Top.how = "inverted"
      /\ running' = g /\ stack' = Below /\ kind' = kind /\ owner' = owner
      /\ at' \in {"unwind", "aborted"}
      /\ IF Exists(g) THEN state' = AfterBody(g) ELSE state' = state
  BY DEF UnwindInverted, Unwinds
<1>2. Calls = {} /\ ~TopCalls /\ Calls' = {}
  BY <1>0, <1>1, Popped, CallFacts
<1>3. g \in Frames /\ ~TopCalls'
  <2>1. Len(stack) \in 1..Len(stack)
    BY <1>0, <1>1
  <2>2. Top \in Entries
    BY <1>0, <2>1 DEF Top
  <2> QED BY <1>2, <2>2 DEF Entries, TopCalls
<1> HIDE DEF g
<1>4. StackShape' /\ Callers'
  BY <1>1, <1>2, <1>3 DEF StackShape, Callers
<1>5. CASE ~Exists(g)
  <2>1. Order' /\ Kinds' /\ Spent'
    BY <1>0, <1>1, <1>5 DEF Order, Kinds, Spent, Exists, Frames, Main, NoFrame
  <2>2. AllOwned'
    BY <1>0, <1>1, <1>5 DEF AllOwned, WithLocals, Owns, Reach, Exists, Frames, Main
  <2> QED BY <1>1, <1>4, <2>1, <2>2 DEF BaseInv
<1>6. CASE Exists(g)
  <2> DEFINE D == LocalsOf(g)
  <2>1. /\ D \in SUBSET Frames /\ Main \notin D /\ g \notin D
        /\ \A h \in D : Exists(h)
        /\ \A h \in Frames : Exists(h) /\ owner[h] \in D => h \in D
        /\ \A h \in Frames : Exists(h) /\ owner[h] = g => h \in D
    BY <1>0, <1>3, LocalsOfCondemned, CondemnedFacts DEF Condemned
  <2>2. \A h \in Frames : state'[h] = IF h = g THEN "final"
                            ELSE IF h \in D THEN "destroyed" ELSE state[h]
    BY <1>0, <1>1, <1>3, <1>6, AfterBodyFacts
  <2> HIDE DEF D
  <2>3. Order' /\ Kinds' /\ AllOwned'
    <3>1. /\ \A h \in Frames : state'[h] # "none" <=> state[h] # "none"
          /\ \A h \in Frames : Exists(h)' <=> Exists(h) /\ h \notin D
          /\ \A h \in Frames : state'[h] \in {"initial", "yielded"} =>
               state'[h] = state[h]
      BY <1>6, <2>1, <2>2 DEF Exists
    <3> QED BY <1>0, <1>1, <2>1, <3>1, BaseKept
  <2>4. Spent'
    <3>1. \A h \in Frames : Exists(h)' => Exists(h) /\ h \notin D
      BY <1>6, <2>1, <2>2 DEF Exists
    <3>2. \A h \in Frames : state'[h] = "final" => h = g \/ state[h] = "final"
      BY <2>2
    <3>3. state'[g] = "final"
      BY <1>3, <2>2
    <3> QED BY <1>0, <1>1, <2>1, <3>1, <3>2, <3>3 DEF Spent, Frames
  <2> QED BY <1>1, <1>4, <2>3, <2>4 DEF BaseInv
<1> QED BY <1>5, <1>6

LEMMA UnwindResumeStep ==
  ASSUME TaskInv, TypeOK', UnwindResume
  PROVE  StackShape' /\ AllFramesDestroyed'
<1>0. /\ TypeOK /\ StackShape /\ Kinds /\ AllOwned /\ Spent
  BY UnwindParts DEF UnwindResume
<1>1. /\ at = "unwind" /\ stack = <<>> /\ at' = "done" /\ stack' = stack
      /\ state' = IF running = Main THEN [state EXCEPT ![Main] = "dead"]
                                   ELSE Destroy(state, WithLocals({Main}))
  BY DEF UnwindResume
<1>2. StackShape'
  BY <1>1 DEF StackShape, Calls, TopCalls
<1>3. CASE running = Main
  <2>1. state[Main] = "final"
    BY <1>0, <1>1, <1>3 DEF Kinds, Spent
  <2>2. {Main} \in SUBSET Frames
        /\ \A e \in Owns : e[1] \in {Main} => e[2] \in {Main}
    BY <1>0, <2>1, FrameFacts DEF Spent, Owns
  <2>3. WithLocals({Main}) \subseteq {Main}
    <3> DEFINE S == {Main}
    <3>1. S \in SUBSET Frames /\ \A e \in Owns : e[1] \in S => e[2] \in S
      BY <2>2
    <3>2. Reach(S, Owns) \subseteq S
      <4> HIDE DEF S
      <4> QED BY <3>1, ReachIsLeast
    <3> QED BY <3>2 DEF WithLocals
  <2>4. \A f \in Frames : Exists(f) => f = Main
    BY <1>0, <2>3 DEF AllOwned
  <2>5. \A f \in Frames : ~Exists(f)'
    BY <1>0, <1>1, <1>3, <2>4, FrameFacts DEF TypeOK, Exists
  <2> QED BY <1>2, <2>5 DEF AllFramesDestroyed, Frames
<1>4. CASE running # Main
  BY <1>0, <1>1, <1>2, <1>4, DestroyedStep
<1> QED BY <1>3, <1>4
-----------------------------------------------------------------------------
(* The invariant *)

LEMMA TaskInit ==
  ASSUME Init
  PROVE  TaskInv
<1>1. TypeOK
  <2>1. stack \in Seq([how : {"call", "inverted"}, frame : Frames,
                       callee : FrameOrNone])
    BY DEF Init
  <2> QED BY <2>1, FrameFacts DEF Init, TypeOK
<1>2. Calls = {} /\ ~TopCalls /\ stack = <<>>
  BY DEF Init, Calls, TopCalls
<1>3. StackShape /\ AllFramesDestroyed
  BY <1>2 DEF Init, StackShape, AllFramesDestroyed
<1>4. /\ at = "loop" /\ running = NoFrame /\ nextChild = NoFrame
      /\ state[Main] = "initial" /\ kind[Main] = "process"
      /\ \A f \in Frames : /\ f # Main => state[f] = "none"
                           /\ child[f] = NoFrame /\ parent[f] = NoFrame
                           /\ owner[f] = NoFrame /\ ~waiting[f]
                           /\ ~processPromise[f]
      /\ child \in Pointers
  BY <1>1, FrameFacts DEF Init, TypeOK, Pointers
<1>5. Order /\ Callers /\ Kinds /\ Spent
  BY <1>2, <1>4, FrameFacts, ProcessTaskAssumption
  DEF Order, Callers, Kinds, Spent, Exists, Frames, Main
<1>6. AllOwned
  <2>1. {Main} \subseteq WithLocals({Main})
    BY FrameFacts, ReachStarts DEF WithLocals
  <2> QED BY <1>4, <2>1 DEF AllOwned, Exists
<1>7. Running /\ Family /\ Idle /\ Promise /\ OnList
  BY <1>2, <1>4, FrameFacts
  DEF Running, Family, Idle, Promise, OnList, InProcess, Exists
<1>8. ChainsEnd
  BY <1>4, ChainNames, ChainFacts DEF ChainsEnd
<1>9. NextKnown
  BY <1>4 DEF NextKnown
<1> QED BY <1>1, <1>3, <1>5, <1>6, <1>7, <1>8, <1>9 DEF TaskInv, BaseInv, ChainInv

LEMMA TaskStep ==
  ASSUME LateEnd = FALSE, TaskInv, [Next]_vars
  PROVE  TaskInv'
<1>0. SUFFICES ASSUME Next \/ UNCHANGED vars PROVE TaskInv'
  OBVIOUS
<1>1. CASE UNCHANGED vars
  <2> USE <1>1 DEF vars, promiseVars
  <2>1. (TypeOK' <=> TypeOK) /\ (AllFramesDestroyed' <=> AllFramesDestroyed)
    BY DEF TypeOK, AllFramesDestroyed, Exists
  <2>2. Calls' = Calls /\ (TopCalls' <=> TopCalls)
    BY DEF Calls, TopCalls
  <2>3. (StackShape' <=> StackShape) /\ (Alive' <=> Alive)
    BY <2>2 DEF StackShape, Alive
  <2>4. (Order' <=> Order) /\ (Callers' <=> Callers) /\ (Kinds' <=> Kinds)
        /\ (Spent' <=> Spent)
    BY <2>2 DEF Order, Callers, Kinds, Spent, Exists
  <2>5. AllOwned' <=> AllOwned
    BY DEF AllOwned, WithLocals, Owns, Reach, Exists
  <2>6. (Running' <=> Running) /\ (Idle' <=> Idle) /\ (Promise' <=> Promise)
    BY <2>2 DEF Running, Idle, Promise, InProcess, Exists
  <2>7. (Family' <=> Family) /\ (OnList' <=> OnList) /\ (ChainsEnd' <=> ChainsEnd)
    BY <2>2 DEF Family, OnList, ChainsEnd, Chain, Reach, InProcess, Exists
  <2>8. \A c : Leaf(c)' = Leaf(c)
    BY DEF Leaf, Chain, Reach
  <2>9. NextKnown' <=> NextKnown
    BY <2>2, <2>8 DEF NextKnown, ProcessWaits, Suspended
  <2> QED BY <2>1, <2>3, <2>4, <2>5, <2>6, <2>7, <2>9
      DEF TaskInv, BaseInv, ChainInv
<1>2. CASE Next
  <2>1. TypeOK'
    BY <1>2, TaskTypeStep
  <2>2. ASSUME StackShape', BaseInv', ChainInv', at' \in {"run", "return"}
        PROVE  TaskInv'
    BY <2>1, <2>2 DEF TaskInv, AllFramesDestroyed
  <2>3. ASSUME StackShape', BaseInv', at' \in {"unwind", "aborted"}
        PROVE  TaskInv'
    BY <2>1, <2>3 DEF TaskInv, AllFramesDestroyed, Alive
  <2>4. CASE Resume
    BY <2>1, <2>2, <2>4, ResumeStep DEF Resume
  <2>5. CASE ReturnToContext \/ Kill
    BY <2>1, <2>5, ReturnToContextStep, KillStep
  <2>6. ASSUME NEW f \in Frames, FrameStep(f) PROVE TaskInv'
    <3>1. ASSUME NEW c \in Frames, CallMethod(f, c) PROVE TaskInv'
      BY <2>1, <2>2, <3>1, CallMethodStep DEF CallMethod, Runs
    <3>2. ASSUME NEW c \in Frames, CreateGenerator(f, c) PROVE TaskInv'
      BY <2>1, <2>2, <3>2, CreateGeneratorStep DEF CreateGenerator, Runs
    <3>3. ASSUME NEW c \in Frames, CallNext(f, c) PROVE TaskInv'
      BY <2>1, <2>2, <3>3, CallNextStep DEF CallNext, Runs
    <3>4. ASSUME NEW c \in Frames, AwaitTask(f, c) PROVE TaskInv'
      BY <2>1, <2>2, <3>4, AwaitTaskStep DEF AwaitTask
    <3>5. ASSUME NEW c \in Frames, DestroyTask(f, c) PROVE TaskInv'
      BY <2>1, <2>2, <3>5, DestroyTaskStep DEF DestroyTask, Runs
    <3>6. CASE Block(f)
      BY <2>1, <2>2, <3>6, BlockStep DEF Block
    <3>7. CASE Yield(f)
      BY <2>1, <2>2, <3>7, YieldStep DEF Yield
    <3>8. CASE YieldToParent(f)
      BY <2>1, <2>2, <3>8, YieldToParentStep DEF YieldToParent, Runs
    <3>9. CASE End(f) \/ EndGenerator(f)
      BY <2>1, <2>2, <3>9, EndStep DEF End, EndGenerator, Ends
    <3>10. CASE EndToParent(f)
      BY <2>1, <2>2, <3>10, EndToParentStep DEF EndToParent, Runs
    <3>11. CASE Throw(f)
      BY <2>1, <2>3, <3>11, ThrowStep DEF Throw
    <3> QED BY <2>6, <3>1, <3>2, <3>3, <3>4, <3>5, <3>6, <3>7, <3>8, <3>9, <3>10,
               <3>11 DEF FrameStep
  <2>7. CASE ReturnToInverted
    BY <2>1, <2>2, <2>7, ReturnToInvertedStep DEF ReturnToInverted
  <2>8. CASE ReturnToCaller
    BY <2>1, <2>2, <2>8, ReturnToCallerStep DEF ReturnToCaller
  <2>9. CASE AwaitNext
    BY <2>1, <2>2, <2>9, AwaitNextStep DEF AwaitNext
  <2>10. CASE UnwindCall
    BY <2>1, <2>3, <2>10, UnwindCallStep DEF UnwindCall, Unwinds
  <2>11. CASE UnwindInverted
    BY <2>1, <2>3, <2>11, UnwindInvertedStep
  <2>12. CASE UnwindResume
    BY <2>1, <2>12, UnwindResumeStep DEF UnwindResume, TaskInv, Alive
  <2>13. CASE Terminated
    BY <1>1, <2>13 DEF Terminated
  <2> QED BY <1>2, <2>4, <2>5, <2>6, <2>7, <2>8, <2>9, <2>10, <2>11, <2>12, <2>13
      DEF Next
<1> QED BY <1>0, <1>1, <1>2

\* The invariant holds in every program whose generators do not return while a
\* frame awaits them.
LEMMA TaskInvariant ==
  ASSUME LateEnd = FALSE
  PROVE  Spec => []TaskInv
BY TaskInit, TaskStep, PTL DEF Spec

\* Every variable of the coroutine model keeps its type.
THEOREM TasksAreTyped ==
  ASSUME LateEnd = FALSE
  PROVE  Spec => []TypeOK
<1>1. TaskInv => TypeOK
  BY DEF TaskInv
<1> QED BY <1>1, TaskInvariant, PTL

\* However many MethodTasks are stored asleep, ProcessTask::resume() continues
\* the one frame of the process's chain that is suspended on an awaitable, or
\* starts the process.
THEOREM ResumeFindsTheBlockedFrame ==
  ASSUME LateEnd = FALSE
  PROVE  Spec => []ResumesBlockedFrame
<1>1. TaskInv => ResumesBlockedFrame
  <2> SUFFICES ASSUME TaskInv, at = "loop"
               PROVE  \/ state[Resumed] = "initial"
                      \/ /\ Resumed \in Chain(Main)
                         /\ \A f \in Chain(Main) : state[f] = "blocked" <=> f = Resumed
    BY DEF ResumesBlockedFrame
  <2>1. Alive /\ NextKnown /\ StackShape /\ Family
    BY Parts DEF Alive
  <2>2. CASE state[Main] = "initial" /\ nextChild = NoFrame
    BY <2>2 DEF Resumed
  <2>3. CASE ProcessWaits
    <3>1. ~TopCalls
      BY <2>1 DEF StackShape, TopCalls, Calls
    <3>2. Resumed = Leaf(Main) /\ state[Leaf(Main)] = "blocked"
      BY <2>3, <3>1, Waiting
    <3>3. /\ Leaf(Main) \in Chain(Main) /\ Chain(Main) \subseteq Frames
          /\ \A f \in Chain(Main) : child[f] = NoFrame => Leaf(Main) = f
      BY <2>1, ChainsDescend, FrameFacts
    <3>4. \A f \in Chain(Main) : state[f] = "blocked" => child[f] = NoFrame
      BY <2>1, <3>3 DEF Family, Exists
    <3> QED BY <3>2, <3>3, <3>4
  <2> QED BY <2>1, <2>2, <2>3 DEF NextKnown
<1> QED BY <1>1, TaskInvariant, PTL

\* While the process is suspended, the frames that wait and know it are those
\* of the chain along subCoroutineChild from the process; tasks stored asleep
\* are outside it.  Whoever awaits a frame is its parent and relies on one that
\* waits too.
THEOREM SuspendedFramesFormAChain ==
  ASSUME LateEnd = FALSE
  PROVE  Spec => []ChainIsIntact
<1>1. TaskInv => ChainIsIntact
  <2> SUFFICES ASSUME TaskInv, at = "loop", NEW f \in Frames
               PROVE  /\ Suspended(f) => (f \in Chain(Main) <=> InProcess(f))
                      /\ state[f] = "awaiting" =>
                           /\ child[f] # NoFrame /\ parent[child[f]] = f
                           /\ state[child[f]] \in {"awaiting", "blocked"}
    BY DEF ChainIsIntact, Suspended, InProcess
  <2>1. Alive /\ OnList /\ Family /\ TypeOK /\ StackShape /\ Running
    BY Parts DEF Alive
  <2>2. Calls = {} /\ running = NoFrame
    BY <2>1 DEF StackShape, Calls
  <2>3. \A g \in Frames : state[g] # "running"
    BY <2>1, <2>2, FrameFacts DEF Running
  <2>4. f \in Chain(Main) => InProcess(f)
    BY <2>1, ProcessChain
  <2>5. Suspended(f) /\ InProcess(f) => f \in Chain(Main)
    BY <2>1, <2>2 DEF OnList, Suspended
  <2>6. child[f] # NoFrame => child[f] \in Frames
    BY <2>1, FrameFacts DEF TypeOK
  <2> QED BY <2>1, <2>3, <2>4, <2>5, <2>6 DEF Family
<1> QED BY <1>1, TaskInvariant, PTL

\* final_suspend and co_yield resume a parent only while it is suspended on the
\* frame that resumes it.
THEOREM ParentsAwaitTheirChild ==
  ASSUME LateEnd = FALSE
  PROVE  Spec => []ParentAwaits
<1>1. TaskInv => ParentAwaits
  BY Parts DEF Alive, Family, ParentAwaits, Exists
<1> QED BY <1>1, TaskInvariant, PTL

\* resume() returns an awaitable to the Context unless the process has ended.
THEOREM ResumeReturnsAnAwaitable ==
  ASSUME LateEnd = FALSE
  PROVE  Spec => []ProcessKeepsRunning
<1>1. TaskInv => ProcessKeepsRunning
  BY DEF TaskInv, StackShape, ProcessKeepsRunning
<1> QED BY <1>1, TaskInvariant, PTL

\* The frames of a process, its methods and its generators are destroyed with
\* it, whether it ends, is killed or is unwound by an exception.
THEOREM FramesDieWithTheProcess ==
  ASSUME LateEnd = FALSE
  PROVE  Spec => []AllFramesDestroyed
<1>1. TaskInv => AllFramesDestroyed
  BY DEF TaskInv
<1> QED BY <1>1, TaskInvariant, PTL
=============================================================================
