--------------------------- MODULE EslangPromise ---------------------------
(***************************************************************************)
(* EslangPromise of eslang/Future.h: a resettable flag with room for ONE    *)
(* continuation.  The methods are operators on the value of the promise;    *)
(* a method that posts to the io_service has a companion operator that      *)
(* returns the sequence of handlers it posts (empty, or one handler).       *)
(***************************************************************************)
EXTENDS Sequences

CONSTANT NoExec     \* exec_ without a value

\* A default constructed promise; of exception_ only whether it has a value.
NewPromise == [set_ |-> FALSE, exec_ |-> NoExec, exception_ |-> FALSE]

\* Seeded fault: the flag is set and nobody is told.
SetPostsNothing(p) == <<>>
\* Handlers that set() posts: the continuation, when there is one.
SetPosts(p) == IF p.exec_ = NoExec THEN <<>> ELSE <<p.exec_>>

\* set(): the continuation is moved into the post and exec_ is reset.
Set(p) == [p EXCEPT !.set_ = TRUE, !.exec_ = NoExec]

\* setIfUnset(): a promise that is already set is left alone.
SetIfUnset(p) == IF p.set_ THEN p ELSE Set(p)
SetIfUnsetPosts(p) == IF p.set_ THEN <<>> ELSE SetPosts(p)

\* setException(): posts what setIfUnset() posts.
SetException(p) == SetIfUnset([p EXCEPT !.exception_ = TRUE])

\* process() throws the exception, before it changes anything.
ProcessThrows(p) == p.exception_

\* process() that does not throw: the flag is consumed; a continuation is
\* dropped only if the flag was set, so a waiter woken by something else
\* leaves its continuation.
Process(p) ==
    [p EXCEPT !.set_ = FALSE, !.exec_ = IF p.set_ THEN NoExec ELSE @]

\* setContinuation(): replaces whatever continuation was registered, and
\* posts the new one at once when the flag is set.
SetContinuation(p, h) ==
    IF p.set_ THEN Set([p EXCEPT !.exec_ = h]) ELSE [p EXCEPT !.exec_ = h]
SetContinuationPosts(p, h) == IF p.set_ THEN <<h>> ELSE <<>>

Promises(H) ==
    [set_ : BOOLEAN, exec_ : H \cup {NoExec}, exception_ : BOOLEAN]
=============================================================================
