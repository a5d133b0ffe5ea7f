----------------------------- MODULE MCWwwServer -----------------------------
(* The web server of examples/www.cpp, for TLC. *)
EXTENDS WwwServer

WwwOps == [i \in 1..MaxProcs |-> {"spawnLink", "spawnCtorLink", "sendThrottled",
                                  "receive"}]
WwwWaits == [i \in 1..MaxProcs |-> {"recv", "sleep"}]
=============================================================================
