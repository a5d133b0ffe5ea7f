---------------------------- MODULE MessageQueue ----------------------------
(***************************************************************************)
(* MessageQueue<T> of eslang/Slot.h: the queue behind a Slot.  The first    *)
(* message lives in stackStorage (an optional: a sequence of at most one    *)
(* element), the others in a deque; p_ is the promise a throttled sender    *)
(* waits on.                                                                *)
(***************************************************************************)
EXTENDS EslangPromise, Naturals

CONSTANT kThrottle      \* MessageQueue::kThrottle, 10 in the code

ASSUME ThrottleAssumption == kThrottle \in Nat \ {0}

NewQueue == [stackStorage |-> <<>>, others |-> <<>>, p_ |-> NewPromise]

\* size(): others count only while stackStorage holds a message.
Size(q) == IF q.stackStorage = <<>> THEN 0 ELSE 1 + Len(q.others)

ShouldThrottle(q) == Size(q) >= kThrottle

\* Seeded fault: a message pushed onto a busy queue overtakes the others.
PushOvertakes(q, m) ==
    IF q.stackStorage = <<>> THEN [q EXCEPT !.stackStorage = <<m>>]
                             ELSE [q EXCEPT !.others = <<m>> \o @]

Push(q, m) ==
    IF q.stackStorage = <<>> THEN [q EXCEPT !.stackStorage = <<m>>]
                             ELSE [q EXCEPT !.others = Append(@, m)]

Oldest(q) == q.stackStorage[1]

\* pop() without its last step: the deque refills stackStorage.
Popped(q) ==
    IF q.others = <<>> THEN [q EXCEPT !.stackStorage = <<>>]
    ELSE [q EXCEPT !.stackStorage = <<Head(q.others)>>, !.others = Tail(@)]

\* Seeded fault: the promise is set while the queue is still full.
CrossesThrottleEarly(q) == Size(Popped(q)) = kThrottle

\* pop() sets the promise when the queue has just dropped below kThrottle.
CrossesThrottle(q) == Size(Popped(q)) = kThrottle - 1

Pop(q) ==
    IF CrossesThrottle(q) THEN [Popped(q) EXCEPT !.p_ = SetIfUnset(@)]
                          ELSE Popped(q)
PopPosts(q) == IF CrossesThrottle(q) THEN SetIfUnsetPosts(q.p_) ELSE <<>>

\* ~MessageQueue(): whoever waits for room is woken.
DestroyPosts(q) == SetIfUnsetPosts(q.p_)

\* The messages in the order they were pushed.
Contents(q) == q.stackStorage \o q.others

Queues(M, H) ==
    [stackStorage : {s \in Seq(M) : Len(s) <= 1}, others : Seq(M),
     p_ : Promises(H)]
=============================================================================
