----------------------- MODULE NotificationHubProofs -----------------------
(***************************************************************************)
(* Safety of the notification hub for any number of notifiers and          *)
(* subscribers and any capacity of the channels.                           *)
(***************************************************************************)
EXTENDS NotificationHub, SequenceTheorems, TLAPS

\* The invariant holds of a new hub (NewHub).
LEMMA InitInd == Init => IndInv
  <1> SUFFICES ASSUME Init PROVE IndInv
    OBVIOUS
  <1>1. TypeOK
    BY HubAssumption DEF Init, TypeOK
  <1>2. Connected
    BY DEF Init, Connected
  <1>3. \A n \in Notifiers : Looping(n)
    BY DEF Init, Looping
  <1>4. QED
    BY <1>1, <1>2, <1>3 DEF IndInv

\* A connection moves on; it leaves the map only when no notifier walks it.
LEMMA ServeInd ==
    ASSUME IndInv, NEW c \in Clients, Serve(c)
    PROVE  IndInv'
  <1> USE HubAssumption DEF IndInv, notifier, channels
  <1>1. CASE Register(c)
    <2>1. TypeOK'
      BY <1>1 DEF Register, TypeOK
    <2>2. Connected'
      BY <1>1 DEF Register, TypeOK, Connected
    <2>3. \A n \in Notifiers : Looping(n)'
      BY <1>1 DEF Register, TypeOK, Looping
    <2>4. QED
      BY <2>1, <2>2, <2>3
  <1>2. CASE Receive(c)
    <2>1. TypeOK'
      <3>1. read' \in [Clients -> Nat]
        BY <1>2 DEF Receive, TypeOK
      <3>2. \A d \in Clients : Len(sent[d]) \in Nat
        BY DEF TypeOK
      <3>3. \A d \in Clients : Len(sent'[d]) - read'[d] \in 0..Cap
        BY <1>2, <3>2 DEF Receive, TypeOK
      <3>4. QED
        BY <1>2, <3>1, <3>3 DEF Receive, TypeOK
    <2>2. Connected' /\ \A n \in Notifiers : Looping(n)'
      BY <1>2 DEF Receive, Connected, Looping
    <2>3. QED
      BY <2>1, <2>2
  <1>3. CASE Leave(c)
    <2>1. TypeOK'
      BY <1>3 DEF Leave, TypeOK
    <2>2. Connected'
      BY <1>3 DEF Leave, TypeOK, Connected
    <2>3. \A n \in Notifiers : Looping(n)'
      BY <1>3 DEF Leave, Looping
    <2>4. QED
      BY <2>1, <2>2, <2>3
  <1>4. CASE Unregister(c)
    <2>1. TypeOK'
      BY <1>4 DEF Unregister, TypeOK
    <2>2. Connected'
      BY <1>4 DEF Unregister, TypeOK, Connected
    <2>3. \A n \in Notifiers : todo[n] = {}
      BY <1>4 DEF Unregister, Looping
    <2>4. \A n \in Notifiers : Looping(n)'
      BY <1>4, <2>3 DEF Unregister, Looping
    <2>5. QED
      BY <2>1, <2>2, <2>4
  <1>5. CASE Close(c)
    <2>1. TypeOK'
      BY <1>5 DEF Close, TypeOK
    <2>2. Connected'
      BY <1>5 DEF Close, TypeOK, Connected
    <2>3. \A n \in Notifiers : Looping(n)'
      BY <1>5 DEF Close, Looping
    <2>4. QED
      BY <2>1, <2>2, <2>3
  <1>6. QED
    BY <1>1, <1>2, <1>3, <1>4, <1>5 DEF Serve

\* A notifier moves on; while it holds the mutex no other one is in its loop.
LEMMA NotifyInd ==
    ASSUME IndInv, NEW n \in Notifiers, Notify(n)
    PROVE  IndInv'
  <1> USE HubAssumption DEF IndInv, channels
  <1>1. CASE NotifyStart(n)
    <2>1. TypeOK'
      BY <1>1 DEF NotifyStart, Publish, TypeOK
    <2>2. Connected'
      BY <1>1 DEF NotifyStart, Publish, Connected
    <2>3. \A m \in Notifiers : Looping(m)'
      BY <1>1 DEF NotifyStart, Publish, TypeOK, Looping
    <2>4. QED
      BY <2>1, <2>2, <2>3
  <1>2. CASE NotifyLock(n)
    <2>1. TypeOK'
      BY <1>2 DEF NotifyLock, TypeOK
    <2>2. Connected'
      BY <1>2 DEF NotifyLock, Connected
    <2>3. \A m \in Notifiers : Looping(m)'
      BY <1>2 DEF NotifyLock, TypeOK, Looping
    <2>4. QED
      BY <2>1, <2>2, <2>3
  <1>3. CASE NotifySend(n)
    <2>1. PICK c \in todo[n] :
            /\ sent' = IF Room(c) THEN [sent EXCEPT ![c] = Append(@, event[n])] ELSE sent
            /\ todo' = [todo EXCEPT ![n] = @ \ {c}]
      BY <1>3 DEF NotifySend
    <2>2. c \in Clients /\ event[n] \in 1..MaxEvents
      BY <1>3, <2>1 DEF NotifySend, TypeOK, Looping
    <2>3. /\ sent' \in [Clients -> Seq(1..MaxEvents)]
          /\ \A d \in Clients : Len(sent'[d]) - read[d] \in 0..Cap
      <3>1. CASE Room(c)
        <4>1. /\ sent[c] \in Seq(1..MaxEvents)
              /\ Append(sent[c], event[n]) \in Seq(1..MaxEvents)
              /\ Len(Append(sent[c], event[n])) = Len(sent[c]) + 1
          BY <2>2 DEF TypeOK
        <4>2. sent' = [sent EXCEPT ![c] = Append(sent[c], event[n])]
          BY <2>1, <3>1
        <4>3. QED
          BY <2>2, <3>1, <4>1, <4>2 DEF TypeOK, Room
      <3>2. CASE ~Room(c)
        BY <2>1, <3>2 DEF TypeOK
      <3>3. QED
        BY <3>1, <3>2
    <2>4. TypeOK'
      BY <1>3, <2>1, <2>3 DEF NotifySend, TypeOK
    <2>5. Connected'
      BY <1>3 DEF NotifySend, Connected
    <2>6. \A m \in Notifiers : Looping(m)'
      BY <1>3, <2>1 DEF NotifySend, TypeOK, Looping
    <2>7. QED
      BY <2>4, <2>5, <2>6
  <1>4. CASE NotifyReturn(n)
    <2>1. TypeOK'
      BY <1>4 DEF NotifyReturn, TypeOK
    <2>2. Connected'
      BY <1>4 DEF NotifyReturn, Connected
    <2>3. \A m \in Notifiers : Looping(m)'
      BY <1>4 DEF NotifyReturn, TypeOK, Looping
    <2>4. QED
      BY <2>1, <2>2, <2>3
  <1>5. QED
    BY <1>1, <1>2, <1>3, <1>4 DEF Notify

\* The invariant is inductive: one lemma for connections, one for notifiers.
THEOREM Inductive == Spec => []IndInv
  <1>1. IndInv /\ [Next]_vars => IndInv'
    <2> SUFFICES ASSUME IndInv, [Next]_vars PROVE IndInv'
      OBVIOUS
    <2>1. CASE \E c \in Clients : Serve(c)
      BY <2>1, ServeInd
    <2>2. CASE \E n \in Notifiers : Notify(n)
      BY <2>2, NotifyInd
    <2>3. CASE UNCHANGED vars
      BY <2>3 DEF IndInv, TypeOK, Connected, Looping, vars, channels, notifier
    <2>4. QED
      BY <2>1, <2>2, <2>3 DEF Next
  <1>2. QED
    BY InitInd, <1>1, PTL DEF Spec

\* The hub's variables keep their types, and no channel holds more than Cap
\* events (make(chan []byte, 16)).
THEOREM TypeCorrect == Spec => []TypeOK
  <1>1. IndInv => TypeOK
    BY DEF IndInv
  <1>2. QED
    BY Inductive, <1>1, PTL

\* Notify never sends to a closed channel: what its loop has still to visit
\* is in the map, and what is in the map is not closed.
THEOREM NoSendToClosed == Spec => []SendsSafe
  <1>1. IndInv => SendsSafe
    BY DEF IndInv, Connected, Looping, SendsSafe
  <1>2. QED
    BY Inductive, <1>1, PTL

----------------------------------------------------------------------------
\* The order of events.  Channels are empty at first (make(chan []byte, 16)).
LEMMA OrderInit == Init => OrderInv
  <1> SUFFICES ASSUME Init PROVE OrderInv
    OBVIOUS
  <1>1. \A c \in Clients : 1..Len(sent[c]) = {}
    BY DEF Init
  <1>2. Numbered
    BY <1>1 DEF Init, Numbered
  <1>3. QED
    BY <1>1, <1>2 DEF OrderInv, Newest, SameOrder, Init

\* Connections that come, read and go do not touch the order.
LEMMA OrderServe ==
    ASSUME OrderInv, NEW c \in Clients, Serve(c)
    PROVE  OrderInv'
  <1>1. UNCHANGED <<sent, npc, event, todo, calls>>
    BY DEF Serve, Register, Receive, Leave, Unregister, Close, channels, notifier
  <1>2. QED
    BY <1>1 DEF OrderInv, Numbered, Newest, SameOrder

\* A call of Notify takes a new event, which no channel holds yet.
LEMMA OrderStart ==
    ASSUME IndInv, OrderInv, NEW n \in Notifiers, NotifyStart(n)
    PROVE  OrderInv'
  <1> USE DEF IndInv
  <1>1. /\ sent' = sent /\ todo' = todo /\ calls' = calls + 1
        /\ event'[n] = calls + 1 /\ npc'[n] = "lock"
        /\ \A m \in Notifiers \ {n} : event'[m] = event[m] /\ npc'[m] = npc[m]
    BY DEF NotifyStart, Publish, channels, TypeOK
  <1>2. \A m \in Notifiers : event[m] \in Nat /\ event[m] <= calls
    <2>1. \A m \in Notifiers : event[m] \in 0..MaxEvents
      BY DEF TypeOK
    <2>2. \A m \in Notifiers : event[m] <= calls
      BY DEF OrderInv, Numbered
    <2>3. 0..MaxEvents \subseteq Nat
      BY HubAssumption
    <2>4. QED
      BY <2>1, <2>2, <2>3
  <1>3. \A c \in Clients : \A i \in 1..Len(sent[c]) : sent[c][i] \in Nat /\ sent[c][i] <= calls
    <2>1. \A c \in Clients : sent[c] \in Seq(1..MaxEvents)
      BY DEF TypeOK
    <2>2. \A c \in Clients : \A i \in 1..Len(sent[c]) : sent[c][i] \in 1..MaxEvents
      BY <2>1, ElementOfSeq
    <2>3. QED
      BY <2>2, HubAssumption DEF OrderInv, Numbered
  <1>4. calls \in Nat
    BY HubAssumption DEF TypeOK
  <1>5. Numbered'
    BY <1>1, <1>2, <1>3, <1>4 DEF OrderInv, Numbered
  <1>6. \A m \in Notifiers : Newest(m)'
    BY <1>1, <1>3, <1>4 DEF OrderInv, Newest
  <1>7. SameOrder'
    BY <1>1 DEF OrderInv, SameOrder
  <1>8. QED
    BY <1>5, <1>6, <1>7 DEF OrderInv

\* A loop that begins, or ends, leaves every channel as it is.
LEMMA OrderLock ==
    ASSUME IndInv, OrderInv, NEW n \in Notifiers, NotifyLock(n)
    PROVE  OrderInv'
  <1> USE DEF IndInv
  <1>1. /\ sent' = sent /\ event' = event /\ calls' = calls
        /\ npc[n] = "lock" /\ npc'[n] = "send"
        /\ \A m \in Notifiers \ {n} : npc'[m] = npc[m] /\ todo'[m] = todo[m]
    BY DEF NotifyLock, channels, TypeOK
  <1>2. Numbered'
    BY <1>1 DEF OrderInv, Numbered
  <1>3. \A m \in Notifiers : Newest(m)'
    BY <1>1 DEF OrderInv, Newest
  <1>4. QED
    BY <1>1, <1>2, <1>3 DEF OrderInv, SameOrder

LEMMA OrderReturn ==
    ASSUME IndInv, OrderInv, NEW n \in Notifiers, NotifyReturn(n)
    PROVE  OrderInv'
  <1> USE DEF IndInv
  <1>1. /\ sent' = sent /\ todo' = todo /\ calls' = calls
        /\ event'[n] = 0 /\ npc'[n] = "idle"
        /\ \A m \in Notifiers \ {n} : npc'[m] = npc[m] /\ event'[m] = event[m]
        /\ calls \in Nat
    BY HubAssumption DEF NotifyReturn, channels, TypeOK
  <1>2. Numbered'
    BY <1>1 DEF OrderInv, Numbered
  <1>3. \A m \in Notifiers : Newest(m)'
    BY <1>1 DEF OrderInv, Newest
  <1>4. QED
    BY <1>1, <1>2, <1>3 DEF OrderInv, SameOrder

\* The event goes to the end of a channel that does not hold it, and it is
\* the last one wherever it is.
LEMMA OrderSend ==
    ASSUME IndInv, OrderInv, NEW n \in Notifiers, NotifySend(n)
    PROVE  OrderInv'
  <1> USE DEF IndInv
  <1>1. PICK c \in todo[n] :
          /\ sent' = IF Room(c) THEN [sent EXCEPT ![c] = Append(@, event[n])] ELSE sent
          /\ todo' = [todo EXCEPT ![n] = @ \ {c}]
    BY DEF NotifySend
  <1>2. /\ c \in Clients /\ npc[n] = "send"
        /\ UNCHANGED <<npc, event, calls>>
        /\ event[n] \in 1..MaxEvents
        /\ \A m \in Notifiers \ {n} : npc[m] # "send" /\ todo'[m] = todo[m]
        /\ todo'[n] = todo[n] \ {c}
    BY <1>1 DEF NotifySend, TypeOK, Looping
  <1>3. CASE ~Room(c)
    <2>1. sent' = sent
      BY <1>1, <1>3
    <2>2. Numbered' /\ SameOrder'
      BY <1>2, <2>1 DEF OrderInv, Numbered, SameOrder
    <2>3. \A m \in Notifiers : Newest(m)'
      BY <1>2, <2>1 DEF OrderInv, Newest
    <2>4. QED
      BY <2>2, <2>3 DEF OrderInv
  <1>4. CASE Room(c)
    <2> DEFINE e == event[n]
               last == Len(sent[c]) + 1
    <2>1. /\ sent[c] \in Seq(1..MaxEvents)
          /\ \A d \in Clients : Len(sent[d]) \in Nat
      BY <1>2 DEF TypeOK
    <2>2. /\ Len(sent'[c]) = last
          /\ sent'[c][last] = e
          /\ \A i \in 1..Len(sent[c]) : sent'[c][i] = sent[c][i]
      <3>1. sent'[c] = Append(sent[c], e)
        BY <1>1, <1>2, <1>4 DEF TypeOK
      <3>2. QED
        BY <2>1, <3>1, <1>2
    <2>3. \A d \in Clients \ {c} : sent'[d] = sent[d]
      BY <1>1, <1>2, <1>4 DEF TypeOK
    <2>4. \A d \in Clients : \A i \in 1..Len(sent[d]) :
            sent[d][i] = e => d # c /\ i = Len(sent[d])
      BY <1>1, <1>2 DEF OrderInv, Newest
    <2>5. Numbered'
      <3>1. \A d \in Clients : \A i \in 1..Len(sent'[d]) :
              sent'[d][i] = e \/ (i \in 1..Len(sent[d]) /\ sent'[d][i] = sent[d][i])
        BY <2>1, <2>2, <2>3
      <3>2. e <= calls
        BY DEF OrderInv, Numbered
      <3>3. QED
        BY <1>2, <3>1, <3>2 DEF OrderInv, Numbered
    <2>6. \A m \in Notifiers : Newest(m)'
      <3>1. \A m \in Notifiers \ {n} : npc[m] # "idle" => event[m] # e
        BY <1>2 DEF OrderInv, Numbered
      <3>2. Newest(n)'
        <4>1. \A i \in 1..Len(sent'[c]) : sent'[c][i] = e => i = Len(sent'[c])
          BY <1>2, <2>1, <2>2, <2>4
        <4>2. \A d \in Clients \ {c} : \A i \in 1..Len(sent'[d]) :
                sent'[d][i] = e => d \notin todo[n] /\ i = Len(sent'[d])
          BY <1>2, <2>3 DEF OrderInv, Newest
        <4>3. QED
          BY <1>2, <4>1, <4>2 DEF Newest
      <3>3. \A m \in Notifiers \ {n} : Newest(m)'
        BY <1>2, <2>1, <2>2, <2>3, <3>1 DEF OrderInv, Newest
      <3>4. QED
        BY <3>2, <3>3
    <2>7. SameOrder'
      <3> SUFFICES ASSUME NEW x \in Clients, NEW y \in Clients,
                          NEW i \in 1..Len(sent'[x]), NEW j \in 1..Len(sent'[x]),
                          NEW k \in 1..Len(sent'[y]), NEW l \in 1..Len(sent'[y]),
                          i < j, sent'[x][i] = sent'[y][k], sent'[x][j] = sent'[y][l]
                   PROVE  k < l
        BY DEF SameOrder
      <3> HIDE DEF e, last
      <3>1. \A d \in Clients : \A m \in 1..Len(sent'[d]) :
              sent'[d][m] = e <=> (d = c /\ m = last) \/ (d # c /\ sent[d][m] = e)
        BY <2>1, <2>2, <2>3, <2>4 DEF last
      <3>2. \A d \in Clients : \A m \in 1..Len(sent'[d]) :
              sent'[d][m] = e => m = Len(sent'[d])
        BY <2>2, <2>3, <2>4, <3>1
      <3>3. \A d \in Clients : \A m \in 1..Len(sent'[d]) :
              sent'[d][m] # e => m \in 1..Len(sent[d]) /\ sent'[d][m] = sent[d][m]
        <4>1. \A m \in 1..Len(sent'[c]) : m # last => m \in 1..Len(sent[c])
          BY <1>2, <2>1, <2>2 DEF last
        <4>2. QED
          BY <2>2, <2>3, <4>1
      <3>4. Len(sent'[x]) \in Nat /\ Len(sent'[y]) \in Nat
        BY <2>1, <2>2, <2>3 DEF last
      <3>5. sent'[x][i] # e
        BY <3>2, <3>4
      <3>6. CASE sent'[x][j] = e
        <4>1. l = Len(sent'[y])
          BY <3>2, <3>6
        <4>2. k # l
          BY <3>5, <3>6
        <4>3. QED
          BY <3>4, <4>1, <4>2
      <3>7. CASE sent'[x][j] # e
        BY <3>3, <3>5, <3>7 DEF OrderInv, SameOrder
      <3>8. QED
        BY <3>6, <3>7
    <2>8. QED
      BY <2>5, <2>6, <2>7 DEF OrderInv
  <1>5. QED
    BY <1>3, <1>4

\* Whatever is dropped for either of them, two subscribers see the events they
\* both get in one order: Notify holds the mutex over its loop.
THEOREM OneOrder == Spec => []SameOrder
  <1>1. IndInv /\ OrderInv /\ [Next]_vars => OrderInv'
    <2> SUFFICES ASSUME IndInv, OrderInv, [Next]_vars PROVE OrderInv'
      OBVIOUS
    <2>1. CASE \E c \in Clients : Serve(c)
      BY <2>1, OrderServe
    <2>2. CASE \E n \in Notifiers : Notify(n)
      BY <2>2, OrderStart, OrderLock, OrderSend, OrderReturn DEF Notify
    <2>3. CASE UNCHANGED vars
      <3>1. UNCHANGED <<sent, npc, event, todo, calls>>
        BY <2>3 DEF vars, channels, notifier
      <3>2. Numbered' /\ SameOrder'
        BY <3>1 DEF OrderInv, Numbered, SameOrder
      <3>3. \A n \in Notifiers : Newest(n)'
        BY <3>1 DEF OrderInv, Newest
      <3>4. QED
        BY <3>2, <3>3 DEF OrderInv
    <2>4. QED
      BY <2>1, <2>2, <2>3 DEF Next
  <1>2. OrderInv => SameOrder
    BY DEF OrderInv
  <1>3. QED
    BY OrderInit, Inductive, <1>1, <1>2, PTL DEF Spec

=============================================================================
