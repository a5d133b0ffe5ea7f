-------------------------------- MODULE Actors --------------------------------
(***************************************************************************)
(* What eslang promises the programmer: actors with mailboxes.              *)
(*                                                                          *)
(* One actor at a time is active.  It creates actors, links and kills them, *)
(* sends and receives; a message to an actor that is alive stays in its     *)
(* mailbox until the actor receives it, oldest first, or dies.  An actor    *)
(* dies by its own act, by that of the active actor, or after one it is     *)
(* linked to; a death is announced once, and only when nothing that was     *)
(* linked to the dead actor is alive.  Names are never used again.          *)
(***************************************************************************)
EXTENDS Naturals

CONSTANTS
  Names,        \* the names an actor can have
  None          \* not a name

VARIABLES
  state,        \* of each name: "unborn", "alive", "dead" or "buried"
  mailbox,      \* of each actor: a set of stamped messages
  links,        \* who dies with the actor
  notify,       \* who hears of its death, or None
  active,       \* the actor whose code is executing, or None
  clock         \* the number of messages sent so far

vars == <<state, mailbox, links, notify, active, clock>>

Alive(a) == state[a] = "alive"

\* The message with the present time; body names a dead actor, or is None.
Stamped(body) == [body |-> body, stamp |-> clock]

\* The mailboxes after a message for b was sent: what is sent to the dead is
\* lost.
Posted(b, body) ==
  IF Alive(b) THEN [mailbox EXCEPT ![b] = @ \cup {Stamped(body)}] ELSE mailbox

\* b dies: its mailbox is lost with it.
Die(b) == /\ Alive(b)
          /\ state' = [state EXCEPT ![b] = "dead"]
          /\ mailbox' = [mailbox EXCEPT ![b] = {}]

-----------------------------------------------------------------------------
\* A new actor n, with any links and any listener; some of the others may from
\* now on take it with them.  (The program's main function creates actors before
\* any is active.)
Create(n) ==
  /\ state[n] = "unborn"
  /\ state' = [state EXCEPT ![n] = "alive"]
  /\ mailbox' = [mailbox EXCEPT ![n] = {}]
  /\ links' \in [Names -> SUBSET Names]
  /\ notify' \in [Names -> Names \cup {None}]
  /\ \A a \in Names \ {n} : /\ links'[a] \in {links[a], links[a] \cup {n}}
                            /\ notify'[a] = notify[a]
  /\ UNCHANGED <<active, clock>>

Link(a, b) ==
  /\ active = a /\ Alive(b)
  /\ links' = [c \in Names |-> IF c = a THEN links[c] \cup {b}
                               ELSE IF c = b THEN links[c] \cup {a}
                               ELSE links[c]]
  /\ UNCHANGED <<state, mailbox, notify, active, clock>>

Send(b) ==
  /\ active # None
  /\ mailbox' = Posted(b, None)
  /\ clock' = clock + 1
  /\ UNCHANGED <<state, links, notify, active>>

\* The active actor takes the oldest message of its mailbox.
Receive(a) ==
  /\ active = a
  /\ \E m \in mailbox[a] :
       /\ \A other \in mailbox[a] : m.stamp <= other.stamp
       /\ mailbox' = [mailbox EXCEPT ![a] = @ \ {m}]
  /\ UNCHANGED <<state, links, notify, active, clock>>

\* The active actor kills b; it may kill itself, and then runs on.
Kill(b) ==
  /\ active # None
  /\ Die(b)
  /\ UNCHANGED <<links, notify, active, clock>>

\* The active actor ends.
End(a) ==
  /\ active = a
  /\ Die(a)
  /\ active' = None
  /\ UNCHANGED <<links, notify, clock>>

Suspend ==
  /\ active # None
  /\ active' = None
  /\ UNCHANGED <<state, mailbox, links, notify, clock>>

\* Only the living are woken.
Wake(a) ==
  /\ active = None /\ Alive(a)
  /\ active' = a
  /\ UNCHANGED <<state, mailbox, links, notify, clock>>

\* b dies after an actor it is linked to.
Follow(b) ==
  /\ active = None
  /\ \E a \in Names : state[a] = "dead" /\ b \in links[a]
  /\ Die(b)
  /\ UNCHANGED <<links, notify, active, clock>>

\* The end of a death: everyone linked to a is dead, and who asked is told.
Bury(a) ==
  /\ active = None
  /\ state[a] = "dead"
  /\ \A b \in links[a] : ~Alive(b)
  /\ state' = [state EXCEPT ![a] = "buried"]
  /\ IF notify[a] = None THEN UNCHANGED <<mailbox, clock>>
     ELSE mailbox' = Posted(notify[a], a) /\ clock' = clock + 1
  /\ UNCHANGED <<links, notify, active>>

-----------------------------------------------------------------------------
Init ==
  /\ state = [a \in Names |-> "unborn"]
  /\ mailbox = [a \in Names |-> {}]
  /\ links = [a \in Names |-> {}]
  /\ notify = [a \in Names |-> None]
  /\ active = None
  /\ clock = 0

Next ==
  \/ Suspend
  \/ \E a \in Names :
       \/ Receive(a) \/ End(a) \/ Wake(a) \/ Send(a) \/ Kill(a) \/ Follow(a)
       \/ Bury(a)
       \/ Create(a)
       \/ \E b \in Names : Link(a, b)

Spec == Init /\ [][Next]_vars
=============================================================================
