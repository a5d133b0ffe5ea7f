--------------------------- MODULE MCSocketProcess ---------------------------
(***************************************************************************)
(* Connections for the instances of module SocketProcess.                   *)
(***************************************************************************)
EXTENDS SocketProcess

Connection(secure, throttled, limit, calls) ==
  [secure |-> secure, throttled |-> throttled, limit |-> limit, echo |-> FALSE,
   sleeps |-> FALSE, calls |-> calls]

\* Owners that use one of the two slots: throttled in both directions, in
\* neither, and the collections, the second over SSL.  The last one sleeps, as
\* the handlers of examples/www.cpp do.
OneSlotPrograms ==
  {Connection(FALSE, TRUE, 0, {"sendThrottled"}),
   Connection(FALSE, TRUE, 1, {"sendThrottled"}),
   Connection(FALSE, FALSE, 1, {"send"}),
   Connection(FALSE, FALSE, 1, {"sendMany"}),
   Connection(TRUE, TRUE, 1, {"sendManyThrottled"}),
   [Connection(FALSE, TRUE, 1, {"sendManyThrottled"}) EXCEPT !.sleeps = TRUE]}

\* An owner that uses both slots.
BothSlotsPrograms == {Connection(FALSE, TRUE, 1, {"send", "sendMany"})}

\* TcpEchoRunner of examples/tcp.cpp, with the default options.
EchoPrograms ==
  {[Connection(FALSE, TRUE, 1, {"sendThrottled"}) EXCEPT !.echo = TRUE]}
=============================================================================
