------------------------------ MODULE MCContext ------------------------------
(***************************************************************************)
(* Programs for the instances of module Context that TLC checks: for each   *)
(* index of the process table, the calls and the awaitables a process       *)
(* there may use.                                                           *)
(***************************************************************************)
EXTENDS ContextProperties

Everyone(S) == [i \in 1..MaxProcs |-> S]

LinkOps == Everyone({"spawnLink", "spawnLinkNotify", "spawnCtorLink", "link",
                     "queueKill", "receive"})
LinkWaits == Everyone({"yield", "recv"})

MailOps == Everyone({"spawn", "queueKill", "send", "receive"})
MailWaits == Everyone({"yield", "recv", "timedRecv", "sleep"})

\* The first process sends and may kill the second, which receives.
OneSenderOps ==
  [i \in 1..MaxProcs |-> IF i = 1 THEN {"spawn", "sendThrottled", "queueKill"}
                                  ELSE {"receive"}]
OneSenderWaits ==
  [i \in 1..MaxProcs |-> IF i = 1 THEN {"yield"} ELSE {"recv", "sleep", "yield"}]

\* The first process spawns, kills and receives; the others send to anyone.
FailureOps ==
  [i \in 1..MaxProcs |-> IF i = 1 THEN {"spawn", "spawnThrows", "queueKill",
                                        "receive"}
                         ELSE {"sendThrottled"}]
FailureWaits == Everyone({"yield"})

\* The first process spawns two senders and receives from them.
TwoSenderOps ==
  [i \in 1..MaxProcs |-> IF i = 1 THEN {"spawn", "receive"}
                                  ELSE {"sendThrottled"}]
TwoSenderWaits ==
  [i \in 1..MaxProcs |-> IF i = 1 THEN {"recv", "sleep"} ELSE {"yield"}]
=============================================================================
