------------------------- MODULE MessageQueueProofs -------------------------
(***************************************************************************)
(* What the operations of MessageQueue and EslangPromise return, for every  *)
(* set M of messages and H of handlers.                                     *)
(***************************************************************************)
EXTENDS MessageQueue, SequenceTheorems, TLAPS

\* A queue whose deque is used only while stackStorage holds a message.
WellFormed(q) == q.stackStorage = <<>> => q.others = <<>>

\* The methods of EslangPromise that take no argument return promises, and
\* post only what was registered.
LEMMA SetTypes ==
  ASSUME NEW H, NEW p \in Promises(H)
  PROVE  /\ Set(p) \in Promises(H)
         /\ SetIfUnset(p) \in Promises(H)
         /\ SetException(p) \in Promises(H)
         /\ Process(p) \in Promises(H)
         /\ SetIfUnsetPosts(p) \in Seq(H)
<1>1. /\ p = [set_ |-> p.set_, exec_ |-> p.exec_,
              exception_ |-> p.exception_]
      /\ p.exception_ \in BOOLEAN /\ p.set_ \in BOOLEAN
      /\ p.exec_ \in H \cup {NoExec}
  BY DEF Promises
<1>2. Set(p) \in Promises(H)
  BY <1>1 DEF Set, Promises
<1>3. SetIfUnset(p) \in Promises(H)
  BY <1>2 DEF SetIfUnset
<1>4. SetException(p) \in Promises(H)
  BY <1>1 DEF SetException, SetIfUnset, Set, Promises
<1>5. Process(p) \in Promises(H)
  BY <1>1 DEF Process, Promises
<1>6. SetIfUnsetPosts(p) \in Seq(H)
  BY <1>1 DEF SetIfUnsetPosts, SetPosts
<1> QED BY <1>2, <1>3, <1>4, <1>5, <1>6

\* So do the others.
LEMMA PromiseTypes ==
  ASSUME NEW H, NEW p \in Promises(H), NEW h \in H
  PROVE  /\ NewPromise \in Promises(H)
         /\ SetContinuation(p, h) \in Promises(H)
<1>1. NewPromise \in Promises(H)
  BY DEF NewPromise, Promises
<1>2. [p EXCEPT !.exec_ = h] \in Promises(H)
  BY DEF Promises
<1>3. SetContinuation(p, h) \in Promises(H)
  BY <1>2, SetTypes DEF SetContinuation
<1> QED BY <1>1, <1>3

\* What they post are the handlers they were given.
LEMMA PostTypes ==
  ASSUME NEW H, NEW p \in Promises(H), NEW h \in H
  PROVE  /\ SetPosts(p) \in Seq(H)
         /\ SetIfUnsetPosts(p) \in Seq(H)
         /\ SetContinuationPosts(p, h) \in Seq(H)
BY DEF SetPosts, SetIfUnsetPosts, SetContinuationPosts, Promises

\* The methods of MessageQueue return queues.
LEMMA QueueTypes ==
  ASSUME NEW M, NEW H, NEW q \in Queues(M, H), NEW m \in M
  PROVE  /\ NewQueue \in Queues(M, H)
         /\ Push(q, m) \in Queues(M, H)
         /\ Popped(q) \in Queues(M, H)
         /\ Pop(q) \in Queues(M, H)
         /\ PopPosts(q) \in Seq(H)
         /\ DestroyPosts(q) \in Seq(H)
         /\ Size(q) \in Nat
<1> USE DEF Queues
<1>1. /\ q = [stackStorage |-> q.stackStorage, others |-> q.others, p_ |-> q.p_]
      /\ q.stackStorage \in Seq(M) /\ Len(q.stackStorage) <= 1
      /\ q.others \in Seq(M) /\ q.p_ \in Promises(H)
  OBVIOUS
<1>2. NewQueue \in Queues(M, H)
  BY DEF NewQueue, NewPromise, Promises
<1>3. Push(q, m) \in Queues(M, H)
  <2>1. /\ <<m>> \in Seq(M) /\ Len(<<m>>) = 1
        /\ Append(q.others, m) \in Seq(M)
    BY <1>1
  <2>2. CASE q.stackStorage = <<>>
    <3>1. Push(q, m) = [stackStorage |-> <<m>>, others |-> q.others,
                        p_ |-> q.p_]
      BY <1>1, <2>2 DEF Push
    <3> QED BY <1>1, <2>1, <3>1
  <2>3. CASE q.stackStorage # <<>>
    <3>1. Push(q, m) = [stackStorage |-> q.stackStorage,
                        others |-> Append(q.others, m), p_ |-> q.p_]
      BY <1>1, <2>3 DEF Push
    <3> QED BY <1>1, <2>1, <3>1
  <2> QED BY <2>2, <2>3
<1>4. Popped(q) \in Queues(M, H) /\ Popped(q).p_ = q.p_
  <2>1. CASE q.others = <<>>
    BY <2>1, <1>1 DEF Popped
  <2>2. CASE q.others # <<>>
    <3>1. /\ <<Head(q.others)>> \in Seq(M) /\ Len(<<Head(q.others)>>) = 1
          /\ Tail(q.others) \in Seq(M)
      BY <2>2, <1>1, HeadTailProperties
    <3>2. Popped(q) = [stackStorage |-> <<Head(q.others)>>,
                       others |-> Tail(q.others), p_ |-> q.p_]
      BY <2>2, <1>1 DEF Popped
    <3> QED BY <3>1, <3>2, <1>1
  <2> QED BY <2>1, <2>2
<1>5. SetIfUnset(q.p_) \in Promises(H) /\ SetIfUnsetPosts(q.p_) \in Seq(H)
  BY <1>1, SetTypes
<1>6. Pop(q) \in Queues(M, H)
  BY <1>4, <1>5 DEF Pop
<1>7. PopPosts(q) \in Seq(H) /\ DestroyPosts(q) \in Seq(H)
  BY <1>5 DEF PopPosts, DestroyPosts
<1>8. Size(q) \in Nat
  BY <1>1 DEF Size
<1> QED BY <1>2, <1>3, <1>4, <1>6, <1>7, <1>8

\* push() appends to the messages of the queue, whichever of the two places
\* it puts the message in.
THEOREM PushAppends ==
  ASSUME NEW M, NEW H, NEW q \in Queues(M, H), WellFormed(q), NEW m \in M
  PROVE  /\ Contents(Push(q, m)) = Append(Contents(q), m)
         /\ WellFormed(Push(q, m))
<1>1. /\ q.stackStorage \in Seq(M) /\ Len(q.stackStorage) <= 1
      /\ q.others \in Seq(M)
      /\ q = [stackStorage |-> q.stackStorage, others |-> q.others, p_ |-> q.p_]
  BY DEF Queues
<1>2. CASE q.stackStorage = <<>>
  <2>1. Push(q, m) = [stackStorage |-> <<m>>, others |-> <<>>, p_ |-> q.p_]
    BY <1>1, <1>2 DEF Push, WellFormed
  <2>2. Contents(q) = <<>>
    BY <1>2 DEF Contents, WellFormed
  <2> QED BY <2>1, <2>2 DEF Contents, WellFormed
<1>3. CASE q.stackStorage # <<>>
  <2>1. Push(q, m) = [stackStorage |-> q.stackStorage,
                      others |-> Append(q.others, m), p_ |-> q.p_]
    BY <1>1, <1>3 DEF Push
  <2>2. q.stackStorage \o Append(q.others, m)
          = Append(q.stackStorage \o q.others, m)
    <3>1. /\ Append(q.others, m) = q.others \o <<m>>
          /\ Append(q.stackStorage \o q.others, m)
               = (q.stackStorage \o q.others) \o <<m>>
      BY <1>1, AppendIsConcat, ConcatProperties
    <3> QED BY <1>1, <3>1, ConcatAssociative
  <2>3. Contents(Push(q, m)) = Append(Contents(q), m)
    <3>1. /\ Push(q, m).stackStorage = q.stackStorage
          /\ Push(q, m).others = Append(q.others, m)
      BY <2>1
    <3> HIDE DEF Push
    <3> QED BY <3>1, <2>2 DEF Contents
  <2>4. WellFormed(Push(q, m))
    BY <1>3, <2>1 DEF WellFormed
  <2> QED BY <2>3, <2>4
<1> QED BY <1>2, <1>3

\* What pop() does to the messages of a queue that is not empty.
LEMMA PopContents ==
  ASSUME NEW M, NEW H, NEW q \in Queues(M, H), WellFormed(q), Size(q) > 0
  PROVE  /\ Contents(q) # <<>> /\ Oldest(q) = Head(Contents(q))
         /\ Contents(Pop(q)) = Tail(Contents(q))
         /\ WellFormed(Pop(q))
         /\ Size(q) = Len(Contents(q))
<1>1. /\ q.stackStorage \in Seq(M) /\ Len(q.stackStorage) <= 1
      /\ q.others \in Seq(M)
      /\ q = [stackStorage |-> q.stackStorage, others |-> q.others, p_ |-> q.p_]
  BY DEF Queues
<1>2. q.stackStorage # <<>> /\ Len(q.stackStorage) = 1
  <2>1. q.stackStorage # <<>>
    BY DEF Size
  <2>2. Len(q.stackStorage) \in Nat \ {0}
    BY <2>1, <1>1, EmptySeq, Zenon
  <2>3. Len(q.stackStorage) <= 1
    BY <1>1
  <2>4. \A n \in Nat \ {0} : n <= 1 => n = 1
    OBVIOUS
  <2>5. Len(q.stackStorage) = 1
    BY <2>2, <2>3, <2>4, Zenon
  <2> QED BY <2>1, <2>5, Zenon
<1>3. /\ q.stackStorage[1] \in M
      /\ Contents(q) = <<q.stackStorage[1]>> \o q.others
  <2>1. q.stackStorage[1] \in M
    BY <1>1, <1>2, ElementOfSeq
  <2>2. q.stackStorage = <<q.stackStorage[1]>>
    BY <1>1, <1>2, <2>1, SeqEqual
  <2> QED BY <2>1, <2>2 DEF Contents
<1>4. /\ Contents(q) # <<>> /\ Oldest(q) = Head(Contents(q))
      /\ Tail(Contents(q)) = q.others /\ Len(Contents(q)) = 1 + Len(q.others)
  BY <1>1, <1>3 DEF Oldest
<1>5. /\ Pop(q).stackStorage = Popped(q).stackStorage
      /\ Pop(q).others = Popped(q).others
  BY <1>1 DEF Pop, Popped
<1>6. Contents(Popped(q)) = q.others /\ WellFormed(Popped(q))
  <2>1. CASE q.others = <<>>
    BY <2>1, <1>1 DEF Popped, Contents, WellFormed
  <2>2. CASE q.others # <<>>
    <3>1. /\ Popped(q).stackStorage = <<Head(q.others)>>
          /\ Popped(q).others = Tail(q.others)
      BY <2>2, <1>1 DEF Popped
    <3>2. <<Head(q.others)>> \o Tail(q.others) = q.others
      BY <2>2, <1>1
    <3> QED BY <3>1, <3>2 DEF Contents, WellFormed
  <2> QED BY <2>1, <2>2
<1> QED BY <1>2, <1>4, <1>5, <1>6 DEF Contents, WellFormed, Size

\* size() counts exactly the messages held, of an empty queue too.
LEMMA SizeCounts ==
  ASSUME NEW M, NEW H, NEW q \in Queues(M, H), WellFormed(q)
  PROVE  Size(q) = Len(Contents(q)) /\ Size(q) \in Nat
<1>1. Size(q) \in Nat
  BY DEF Size, Queues
<1>2. CASE Size(q) > 0
  BY <1>1, <1>2, PopContents
<1>3. CASE Size(q) = 0
  <2>1. q.stackStorage = <<>> /\ q.others = <<>>
    BY <1>3 DEF Size, WellFormed, Queues
  <2> QED BY <1>3, <2>1 DEF Contents
<1> QED BY <1>1, <1>2, <1>3

\* pop() of a queue that is not empty removes the oldest message, which is
\* the one in stackStorage.  It sets the promise, and posts what a throttled
\* sender left there, in exactly the calls that take the queue from where
\* shouldThrottle() holds to where it does not.
THEOREM PopTakesOldest ==
  ASSUME NEW M, NEW H, NEW q \in Queues(M, H), WellFormed(q), Size(q) > 0
  PROVE  LET crosses == ShouldThrottle(q) /\ ~ShouldThrottle(Pop(q))
         IN  /\ Oldest(q) = Head(Contents(q))
             /\ Contents(Pop(q)) = Tail(Contents(q))
             /\ Pop(q).p_ = IF crosses THEN SetIfUnset(q.p_) ELSE q.p_
             /\ PopPosts(q) = IF crosses THEN SetIfUnsetPosts(q.p_) ELSE <<>>
<1>1. Popped(q) \in Queues(M, H) /\ Popped(q).p_ = q.p_
  <2>1. PICK m \in M : TRUE
    BY DEF Size, Queues
  <2>2. Popped(q) \in Queues(M, H)
    BY QueueTypes
  <2>3. Popped(q).p_ = q.p_
    BY DEF Popped, Queues
  <2> QED BY <2>2, <2>3
<1>2. /\ Pop(q).stackStorage = Popped(q).stackStorage
      /\ Pop(q).others = Popped(q).others
  BY <1>1 DEF Pop, Queues
<1>3. Size(Pop(q)) = Size(Popped(q)) /\ Contents(Pop(q)) = Contents(Popped(q))
      /\ WellFormed(Popped(q))
  BY <1>2, PopContents DEF Size, Contents, WellFormed
<1>4. Size(Pop(q)) = Size(q) - 1
  <2>0. Contents(q) \in Seq(M)
    BY ConcatProperties DEF Contents, Queues
  <2>1. /\ Size(q) = Len(Contents(q)) /\ Contents(q) # <<>>
        /\ Contents(Pop(q)) = Tail(Contents(q))
    BY PopContents
  <2>2. Size(Popped(q)) = Len(Contents(Popped(q)))
    BY <1>1, <1>3, SizeCounts
  <2>3. Len(Tail(Contents(q))) = Len(Contents(q)) - 1
    BY <2>0, <2>1, HeadTailProperties
  <2> QED BY <1>3, <2>1, <2>2, <2>3
<1>5. CrossesThrottle(q) <=> ShouldThrottle(q) /\ ~ShouldThrottle(Pop(q))
  <2>1. Size(q) \in Nat /\ kThrottle \in Nat
    BY SizeCounts, ThrottleAssumption
  <2> QED BY <1>3, <1>4, <2>1 DEF CrossesThrottle, ShouldThrottle
<1>6. Pop(q).p_ = IF CrossesThrottle(q) THEN SetIfUnset(q.p_) ELSE q.p_
  BY <1>1 DEF Pop, Queues
<1>7. PopPosts(q) = IF CrossesThrottle(q) THEN SetIfUnsetPosts(q.p_) ELSE <<>>
  BY DEF PopPosts
<1> QED BY <1>5, <1>6, <1>7, PopContents
=============================================================================
