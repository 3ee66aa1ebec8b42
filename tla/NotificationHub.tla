-------------------------- MODULE NotificationHub --------------------------
(***************************************************************************)
(* The notification hub (notification/hub.go): Notify pushes an event to   *)
(* the buffered channel of every connected subscriber, WS serves one       *)
(* subscriber until its connection ends.                                   *)
(*                                                                         *)
(* A client is a connection and its channel; one that comes back is        *)
(* another client.  WS holds the mutex only to add or to remove its        *)
(* channel, which is one step each.  Notify holds it while it walks over   *)
(* the map, in any order, and meanwhile subscribers read, and leave.       *)
(* sent[c] keeps every event ever put into a channel, read[c] counts those *)
(* taken out again.                                                        *)
(***************************************************************************)
EXTENDS Integers, Sequences

CONSTANTS
    Notifiers,   \* goroutines that call Notify: handlers and workers
    Clients,
    Cap,         \* capacity of a channel
    MaxEvents,   \* bound on the calls of Notify
    None         \* nobody holds the mutex

ASSUME HubAssumption ==
    /\ Cap \in Nat \ {0}
    /\ MaxEvents \in Nat
    /\ None \notin Notifiers

VARIABLES
    mu,        \* the notifier that holds the mutex, or None
    clients,   \* Hub.clients
    closed,    \* channels that are closed
    sent, read,
    cpc,       \* control state of each connection
    npc,       \* control state of each notifier
    event,     \* the event it is sending, 0 if none
    todo,      \* the channels its loop has still to visit
    calls      \* calls of Notify so far

channels == <<closed, sent, read>>
notifier == <<npc, event, todo>>
vars     == <<mu, clients, channels, cpc, notifier, calls>>

Init ==
    /\ mu = None
    /\ clients = {}
    /\ closed = {}
    /\ sent = [c \in Clients |-> <<>>]
    /\ read = [c \in Clients |-> 0]
    /\ cpc = [c \in Clients |-> "off"]
    /\ npc = [n \in Notifiers |-> "idle"]
    /\ event = [n \in Notifiers |-> 0]
    /\ todo = [n \in Notifiers |-> {}]
    /\ calls = 0

----------------------------------------------------------------------------
\* WS: a connection is accepted and its channel added.
Register(c) ==
    /\ cpc[c] = "off"
    /\ mu = None
    /\ clients' = clients \cup {c}
    /\ cpc' = [cpc EXCEPT ![c] = "serve"]
    /\ UNCHANGED <<mu, channels, notifier, calls>>

\* WS: one event is taken from the channel and written to the connection.
Receive(c) ==
    /\ cpc[c] = "serve"
    /\ read[c] < Len(sent[c])
    /\ read' = [read EXCEPT ![c] = @ + 1]
    /\ UNCHANGED <<mu, clients, closed, sent, cpc, notifier, calls>>

\* WS: the request's context is done; the loop ends, whatever is queued.
Leave(c) ==
    /\ cpc[c] = "serve"
    /\ cpc' = [cpc EXCEPT ![c] = "leave"]
    /\ UNCHANGED <<mu, clients, channels, notifier, calls>>

\* Mutant: the channel is closed before it is removed from the map.
UnregisterClosing(c) ==
    /\ cpc[c] = "leave"
    /\ closed' = closed \cup {c}
    /\ IF mu = None
       THEN /\ clients' = clients \ {c}
            /\ cpc' = [cpc EXCEPT ![c] = "close"]
       ELSE UNCHANGED <<clients, cpc>>
    /\ UNCHANGED <<mu, sent, read, notifier, calls>>

\* WS, deferred: the channel is removed under the mutex ...
Unregister(c) ==
    /\ cpc[c] = "leave"
    /\ mu = None
    /\ clients' = clients \ {c}
    /\ cpc' = [cpc EXCEPT ![c] = "close"]
    /\ UNCHANGED <<mu, channels, notifier, calls>>

\* ... and closed after the mutex has been released.
Close(c) ==
    /\ cpc[c] = "close"
    /\ closed' = closed \cup {c}
    /\ cpc' = [cpc EXCEPT ![c] = "gone"]
    /\ UNCHANGED <<mu, clients, sent, read, notifier, calls>>

----------------------------------------------------------------------------
\* Bus.Publish: nobody subscribes to the bus (Subscribe has no caller), so
\* the loop over the topic's channels has no channel to send to.
Publish == UNCHANGED channels

\* Notify is called.
NotifyStart(n) ==
    /\ npc[n] = "idle"
    /\ calls < MaxEvents
    /\ calls' = calls + 1
    /\ event' = [event EXCEPT ![n] = calls + 1]
    /\ npc' = [npc EXCEPT ![n] = "lock"]
    /\ Publish
    /\ UNCHANGED <<mu, clients, cpc, todo>>

\* Mutant: a read lock, which two notifiers can hold.
NotifyLockShared(n) ==
    /\ npc[n] = "lock"
    /\ mu' = n
    /\ todo' = [todo EXCEPT ![n] = clients]
    /\ npc' = [npc EXCEPT ![n] = "send"]
    /\ UNCHANGED <<clients, channels, cpc, event, calls>>

\* It gets the mutex; the map cannot change until it releases it.
NotifyLock(n) ==
    /\ npc[n] = "lock"
    /\ mu = None
    /\ mu' = n
    /\ todo' = [todo EXCEPT ![n] = clients]
    /\ npc' = [npc EXCEPT ![n] = "send"]
    /\ UNCHANGED <<clients, channels, cpc, event, calls>>

\* Mutant: off by one.
RoomLate(c) == Len(sent[c]) - read[c] <= Cap

\* A send to the channel would not block.
Room(c) == Len(sent[c]) - read[c] < Cap

\* Mutant: a plain send, which waits for room.
NotifySendBlocking(n) ==
    /\ npc[n] = "send"
    /\ \E c \in todo[n] :
        /\ Room(c)
        /\ sent' = [sent EXCEPT ![c] = Append(@, event[n])]
        /\ todo' = [todo EXCEPT ![n] = @ \ {c}]
    /\ UNCHANGED <<mu, clients, closed, read, cpc, npc, event, calls>>

\* One round of the loop: the event is queued, or dropped when the channel
\* is full.
NotifySend(n) ==
    /\ npc[n] = "send"
    /\ \E c \in todo[n] :
        /\ sent' = IF Room(c) THEN [sent EXCEPT ![c] = Append(@, event[n])] ELSE sent
        /\ todo' = [todo EXCEPT ![n] = @ \ {c}]
    /\ UNCHANGED <<mu, clients, closed, read, cpc, npc, event, calls>>

\* Mutant: no Unlock.
NotifyReturnLocked(n) ==
    /\ npc[n] = "send"
    /\ todo[n] = {}
    /\ npc' = [npc EXCEPT ![n] = "idle"]
    /\ event' = [event EXCEPT ![n] = 0]
    /\ UNCHANGED <<mu, clients, channels, cpc, todo, calls>>

\* The loop is over and the deferred Unlock runs.
NotifyReturn(n) ==
    /\ npc[n] = "send"
    /\ todo[n] = {}
    /\ mu' = None
    /\ npc' = [npc EXCEPT ![n] = "idle"]
    /\ event' = [event EXCEPT ![n] = 0]
    /\ UNCHANGED <<clients, channels, cpc, todo, calls>>

----------------------------------------------------------------------------
Serve(c) == Register(c) \/ Receive(c) \/ Leave(c) \/ Unregister(c) \/ Close(c)

Notify(n) == NotifyStart(n) \/ NotifyLock(n) \/ NotifySend(n) \/ NotifyReturn(n)

Next == (\E c \in Clients : Serve(c)) \/ (\E n \in Notifiers : Notify(n))

Spec == Init /\ [][Next]_vars

\* A goroutine that can run does; a goroutine that waits for the mutex gets
\* it in the end (after a millisecond of waiting Go hands it over in order).
\* Nothing is assumed of subscribers: they may never read and never leave.
FairSpec ==
    /\ Spec
    /\ \A n \in Notifiers :
        /\ SF_vars(NotifyLock(n))
        /\ WF_vars(NotifySend(n))
        /\ WF_vars(NotifyReturn(n))
    /\ \A c \in Clients : SF_vars(Unregister(c)) /\ WF_vars(Close(c))

----------------------------------------------------------------------------
TypeOK ==
    /\ mu \in Notifiers \cup {None}
    /\ clients \in SUBSET Clients
    /\ closed \in SUBSET Clients
    /\ sent \in [Clients -> Seq(1..MaxEvents)]
    /\ read \in [Clients -> Nat]
    /\ \A c \in Clients : Len(sent[c]) - read[c] \in 0..Cap
    /\ cpc \in [Clients -> {"off", "serve", "leave", "close", "gone"}]
    /\ npc \in [Notifiers -> {"idle", "lock", "send"}]
    /\ event \in [Notifiers -> 0..MaxEvents]
    /\ todo \in [Notifiers -> SUBSET Clients]
    /\ calls \in 0..MaxEvents

\* Notify never sends to a closed channel, which would panic, although a
\* connection may end at any moment of its loop (WS removes the channel
\* under the mutex before it closes it).
SendsSafe == \A n \in Notifiers : todo[n] \cap closed = {}

\* Two subscribers see the events they both get in the same order, whatever
\* is dropped for either of them (Notify holds the mutex over its loop).
SameOrder ==
    \A c, d \in Clients :
        \A i, j \in 1..Len(sent[c]), k, l \in 1..Len(sent[d]) :
            i < j /\ sent[c][i] = sent[d][k] /\ sent[c][j] = sent[d][l] => k < l

\* A call of Notify returns although no subscriber reads or leaves ("case c
\* <- b: default:"): an order or a provisioning job never hangs on it.
NotifyReturns == \A n \in Notifiers : npc[n] # "idle" ~> npc[n] = "idle"

\* A connection that ends is cleaned up, however busy the notifiers are.
ClientsLeave == \A c \in Clients : cpc[c] = "leave" ~> cpc[c] = "gone"

----------------------------------------------------------------------------
\* The inductive invariant.

\* A channel is in the map while its connection is served or about to be
\* removed, and closed only afterwards.
Connected ==
    /\ \A c \in clients : cpc[c] \in {"serve", "leave"}
    /\ \A c \in closed : cpc[c] = "gone"

\* A notifier in its loop holds the mutex and has an event; what it has
\* still to visit is in the map.
Looping(n) ==
    /\ npc[n] = "send" => mu = n
    /\ npc[n] # "send" => todo[n] = {}
    /\ npc[n] # "idle" => event[n] # 0
    /\ todo[n] \subseteq clients

IndInv ==
    /\ TypeOK
    /\ Connected
    /\ \A n \in Notifiers : Looping(n)

\* What makes the order of events one: every call has an event of its own, and
\* the event of a call that has not returned is in no channel its loop has
\* still to visit and the last one in those it has been sent to.
Numbered ==
    /\ \A c \in Clients : \A i \in 1..Len(sent[c]) : sent[c][i] <= calls
    /\ \A n \in Notifiers : event[n] <= calls
    /\ \A m, n \in Notifiers :
        npc[m] # "idle" /\ npc[n] # "idle" /\ event[m] = event[n] => m = n

Newest(n) ==
    npc[n] # "idle" =>
        \A c \in Clients : \A i \in 1..Len(sent[c]) :
            sent[c][i] = event[n] =>
                npc[n] = "send" /\ c \notin todo[n] /\ i = Len(sent[c])

OrderInv ==
    /\ Numbered
    /\ \A n \in Notifiers : Newest(n)
    /\ SameOrder

=============================================================================
