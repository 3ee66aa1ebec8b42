------------------------------ MODULE Delivery ------------------------------
(***************************************************************************)
(* What the provisioning queue promises: every accepted order is settled   *)
(* at most once.  While it is open a client may appear on the panel, then  *)
(* the service, then its announcement, each once and in that order.  An    *)
(* order may be given up at any point, also one that has its service: as   *)
(* failed, from which it may be opened again for another try, or as dead.  *)
(* Nothing happens to an order that is not open, and done and dead are     *)
(* final.                                                                  *)
(***************************************************************************)
CONSTANT Orders

VARIABLES
    verdict,    \* what the queue says of each order
    connected,  \* orders with a client on the panel
    delivered,  \* orders with a service
    announced   \* orders whose service was announced

vars == <<verdict, connected, delivered, announced>>

Init ==
    /\ verdict = [o \in Orders |-> "none"]
    /\ connected = {}
    /\ delivered = {}
    /\ announced = {}

Judge(o, from, to) ==
    /\ verdict[o] = from
    /\ verdict' = [verdict EXCEPT ![o] = to]
    /\ UNCHANGED <<connected, delivered, announced>>

\* The order is paid and its job waits.
Accept(o) == Judge(o, "none", "open")

\* The panel has the client.
Connect(o) ==
    /\ verdict[o] = "open"
    /\ connected' = connected \cup {o}
    /\ UNCHANGED <<verdict, delivered, announced>>

\* The service of a client on the panel is recorded.
Deliver(o) ==
    /\ verdict[o] = "open" /\ o \in connected \ delivered
    /\ delivered' = delivered \cup {o}
    /\ UNCHANGED <<verdict, connected, announced>>

Announce(o) ==
    /\ verdict[o] = "open" /\ o \in delivered
    /\ announced' = announced \cup {o}
    /\ UNCHANGED <<verdict, connected, delivered>>

Settle(o) == o \in announced /\ Judge(o, "open", "done")

\* This try has failed, or it was the last.
GiveUp(o) == Judge(o, "open", "failed") \/ Judge(o, "open", "dead")

\* A failed order is tried again.
Retry(o) == Judge(o, "failed", "open")

Next ==
    \E o \in Orders :
        \/ Accept(o) \/ Connect(o) \/ Deliver(o)
        \/ Announce(o) \/ Settle(o) \/ GiveUp(o) \/ Retry(o)

Spec == Init /\ [][Next]_vars

=============================================================================
