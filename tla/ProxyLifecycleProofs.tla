------------------------ MODULE ProxyLifecycleProofs ------------------------
(***************************************************************************)
(* What ProxyLifecycle guarantees for any number of services and handlers, *)
(* any duration and any faults.                                            *)
(***************************************************************************)
EXTENDS ProxyLifecycle, TLAPS

USE LifecycleAssumption

\* The initial states satisfy the invariant.
LEMMA InitInv == ASSUME Init PROVE IndInv
  <1>0. calm \in BOOLEAN
    BY DEF Init
  <1>1. TypeOK
    BY <1>0 DEF Init, TypeOK, Statuses, States
  <1>2. PaidTimeGranted /\ ActiveIsReal
    BY DEF Init, PaidTimeGranted, Granted, ActiveIsReal
  <1>3. \A h \in Handlers : Knows(h)
    BY DEF Init, Knows
  <1> QED BY <1>1, <1>2, <1>3 DEF Init, IndInv, RowOK

\* A new row is consistent, whichever of the two ways it is inserted.
LEMMA InsertInv ==
  ASSUME IndInv, NEW s \in Services,
         \/ Deliver(s)
         \/ \E h \in Handlers : ProvisionStart(h, s)
  PROVE  IndInv'
  <1> USE DEF IndInv, RowOK, TypeOK, Statuses, States, Insert, SetStatus
  <1>1. CASE Deliver(s)
    <2>1. TypeOK' /\ (jobAt <= now)'
      BY <1>1 DEF Deliver, handler, job
    <2>2. PaidTimeGranted' /\ ActiveIsReal'
      BY <1>1 DEF Deliver, handler, job, PaidTimeGranted, Granted, ActiveIsReal
    <2>3. \A h \in Handlers : Knows(h)'
      BY <1>1 DEF Deliver, handler, job, Knows
    <2>4. \A t \in Services : RowOK(t)'
      BY <1>1 DEF Deliver
    <2> QED BY <2>1, <2>2, <2>3, <2>4
  <1>2. ASSUME NEW h \in Handlers, ProvisionStart(h, s) PROVE IndInv'
    <2>1. TypeOK' /\ (jobAt <= now)'
      BY <1>2 DEF ProvisionStart, Begin, Goto, handler, job
    <2>2. PaidTimeGranted' /\ ActiveIsReal'
      BY <1>2 DEF ProvisionStart, PaidTimeGranted, Granted, ActiveIsReal
    <2>3. \A g \in Handlers : Knows(g)'
      BY <1>2 DEF ProvisionStart, Begin, Goto, handler, Knows
    <2>4. \A t \in Services : RowOK(t)'
      BY <1>2 DEF ProvisionStart
    <2> QED BY <2>1, <2>2, <2>3, <2>4
  <1> QED BY <1>1, <1>2

\* Every call of a handler on an existing row only starts it.
LEMMA CallInv ==
  ASSUME IndInv, NEW h \in Handlers, NEW s \in Services,
         SuspendRead(h, s) \/ ResumeRead(h, s) \/ RenewStart(h, s)
  PROVE  IndInv'
  <1> USE DEF IndInv, RowOK, TypeOK, Statuses, States, SuspendRead, ResumeRead, RenewStart,
              Begin, Goto, rows, job, history
  <1>1. TypeOK' /\ (jobAt <= now)'
    OBVIOUS
  <1>2. PaidTimeGranted' /\ ActiveIsReal'
    BY DEF PaidTimeGranted, Granted, ActiveIsReal
  <1>3. \A g \in Handlers : Knows(g)'
    BY DEF Knows
  <1>4. \A t \in Services : RowOK(t)'
    OBVIOUS
  <1> QED BY <1>1, <1>2, <1>3, <1>4

\* The panel call changes no row; a handler that will write 'active' has its
\* client on the panel.
LEMMA ProvisionCallInv ==
  ASSUME IndInv, NEW h \in Handlers, ProvisionCall(h)
  PROVE  IndInv'
  <1> USE DEF IndInv, RowOK, TypeOK, Statuses, States, ProvisionCall, Goto, rows, job, history
  <1>0. onPanel \subseteq onPanel'
    OBVIOUS
  <1>1. TypeOK' /\ (jobAt <= now)'
    OBVIOUS
  <1>2. PaidTimeGranted' /\ ActiveIsReal'
    BY <1>0 DEF PaidTimeGranted, Granted, ActiveIsReal
  <1>3. \A g \in Handlers : Knows(g)'
    BY <1>0 DEF Knows
  <1>4. \A t \in Services : RowOK(t)'
    OBVIOUS
  <1> QED BY <1>1, <1>2, <1>3, <1>4

\* The blind status writes keep the invariant: 'active' is written for a
\* client that is on the panel or for a service that was suspended too early.
LEMMA WriteInv ==
  ASSUME IndInv, NEW h \in Handlers,
         ProvisionUpdate(h) \/ SuspendWrite(h) \/ ResumeWrite(h)
  PROVE  IndInv'
  <1> USE DEF IndInv, RowOK, TypeOK, Statuses, States, ProvisionUpdate, SuspendWrite,
              ResumeWrite, Return, Goto, SetStatus, job, history
  <1>0. Knows(h) /\ svc[h] \in Services /\ touched \subseteq touched'
    OBVIOUS
  <1>1. TypeOK' /\ (jobAt <= now)'
    OBVIOUS
  <1>2. PaidTimeGranted'
    BY <1>0 DEF PaidTimeGranted, Granted, Knows
  <1>3. ActiveIsReal'
    BY <1>0 DEF ActiveIsReal, Knows
  <1>4. \A g \in Handlers : Knows(g)'
    BY <1>0 DEF Knows
  <1>5. \A t \in Services : RowOK(t)'
    BY <1>0 DEF ActiveIsReal, Knows
  <1> QED BY <1>1, <1>2, <1>3, <1>4, <1>5

\* A renewal moves the expiry by at least what it adds to the paid time, and
\* beyond a whole period from its own beginning.
LEMMA RenewInv ==
  ASSUME IndInv, NEW h \in Handlers,
         RenewLock(h) \/ RenewCommit(h) \/ RenewAbort(h)
  PROVE  IndInv'
  <1> USE DEF IndInv, RowOK, TypeOK, Statuses, States, Return, Goto, rows, job, history
  <1>1. CASE RenewLock(h) \/ RenewAbort(h)
    <2> USE <1>1 DEF RenewLock, RenewAbort
    <2>1. TypeOK' /\ (jobAt <= now)'
      OBVIOUS
    <2>2. PaidTimeGranted' /\ ActiveIsReal'
      BY DEF PaidTimeGranted, Granted, ActiveIsReal
    <2>3. \A g \in Handlers : Knows(g)'
      BY DEF Knows
    <2> QED BY <2>1, <2>2, <2>3
  <1>2. CASE RenewCommit(h)
    <2> USE <1>2 DEF RenewCommit
    <2>0. svc[h] \in Services /\ status[svc[h]] # "none"
      BY DEF Knows
    <2>1. Extended(h) \in Nat /\ Extended(h) >= exp[svc[h]] + Duration
           /\ Extended(h) >= at[h] + Duration
      BY <2>0 DEF Extended
    <2>2. TypeOK' /\ (jobAt <= now)'
      BY <2>0, <2>1
    <2>3. PaidTimeGranted'
      BY <2>0, <2>1 DEF PaidTimeGranted, Granted
    <2>4. ActiveIsReal'
      BY DEF ActiveIsReal
    <2>5. \A g \in Handlers : Knows(g)'
      BY DEF Knows
    <2>6. \A t \in Services : RowOK(t)'
      BY <2>0
    <2> QED BY <2>2, <2>3, <2>4, <2>5, <2>6
  <1> QED BY <1>1, <1>2

\* The expiry job, a crash and the clock.
LEMMA BackgroundInv ==
  ASSUME IndInv, ExpiryStart \/ MarkExpired \/ ExpiryFails \/ Crash \/ Calm \/ Tick
  PROVE  IndInv'
  <1> USE DEF IndInv, RowOK, TypeOK, Statuses, States, rows, job, handler, history
  <1>1. CASE ExpiryStart
    BY <1>1 DEF ExpiryStart, PaidTimeGranted, Granted, ActiveIsReal, Knows
  <1>2. CASE MarkExpired
    <2>0. \A s \in Services :
            status'[s] # status[s] => status[s] = "active" /\ status'[s] = "expired"
      BY <1>2 DEF MarkExpired, Overdue
    <2>1. TypeOK' /\ (jobAt <= now)'
      BY <1>2, <2>0 DEF MarkExpired, ExpiryDone
    <2>2. PaidTimeGranted' /\ ActiveIsReal'
      BY <1>2, <2>0 DEF MarkExpired, PaidTimeGranted, Granted, ActiveIsReal
    <2>3. \A g \in Handlers : Knows(g)'
      BY <1>2, <2>0 DEF MarkExpired, Knows
    <2>4. \A t \in Services : RowOK(t)'
      BY <1>2, <2>0 DEF MarkExpired
    <2> QED BY <2>1, <2>2, <2>3, <2>4
  <1>3. CASE Crash
    <2> USE <1>3 DEF Crash, ExpiryDone
    <2>1. TypeOK' /\ (jobAt <= now)'
      OBVIOUS
    <2>2. PaidTimeGranted' /\ ActiveIsReal'
      BY DEF PaidTimeGranted, Granted, ActiveIsReal
    <2>3. \A g \in Handlers : Knows(g)'
      BY DEF Knows
    <2> QED BY <2>1, <2>2, <2>3
  <1>4. CASE Tick
    BY <1>4 DEF Tick, PaidTimeGranted, Granted, ActiveIsReal, Knows
  <1>5. CASE ExpiryFails
    BY <1>5 DEF ExpiryFails, ExpiryDone, PaidTimeGranted, Granted, ActiveIsReal, Knows
  <1>6. CASE Calm
    BY <1>6 DEF Calm, PaidTimeGranted, Granted, ActiveIsReal, Knows
  <1> QED BY <1>1, <1>2, <1>3, <1>4, <1>5, <1>6

\* Every step preserves the invariant.
LEMMA NextInv == ASSUME IndInv, [Next]_vars PROVE IndInv'
  <1>1. CASE \E h \in Handlers : Proceed(h)
    BY <1>1, ProvisionCallInv, WriteInv, RenewInv DEF Proceed
  <1>2. CASE \E h \in Handlers, s \in Services : Call(h, s)
    BY <1>2, InsertInv, CallInv DEF Call
  <1>3. CASE \E s \in Services : Deliver(s)
    BY <1>3, InsertInv
  <1>4. CASE ExpiryStart \/ MarkExpired \/ ExpiryFails \/ Crash \/ Calm \/ Tick
    BY <1>4, BackgroundInv
  <1>5. CASE UNCHANGED vars
    BY <1>5 DEF vars, rows, handler, job, history, IndInv, RowOK, TypeOK, PaidTimeGranted,
                Granted, ActiveIsReal, Knows
  <1> QED BY <1>1, <1>2, <1>3, <1>4, <1>5 DEF Next

\* IndInv holds in every reachable state.
THEOREM Invariance == Spec => []IndInv
  BY InitInv, NextInv, PTL DEF Spec

\* Type correctness.
THEOREM TypeCorrect == Spec => []TypeOK
  <1>1. IndInv => TypeOK
    BY DEF IndInv
  <1> QED BY <1>1, Invariance, PTL

\* Renewals are never lost: whatever the panel made of the first expiry, all
\* the time bought since is in the expiry.
THEOREM RenewalsGranted == Spec => []PaidTimeGranted
  <1>1. IndInv => PaidTimeGranted
    BY DEF IndInv
  <1> QED BY <1>1, Invariance, PTL

\* An active service has its client, unless it was suspended too early.
THEOREM ActivationsReal == Spec => []ActiveIsReal
  <1>1. IndInv => ActiveIsReal
    BY DEF IndInv
  <1> QED BY <1>1, Invariance, PTL

\* Only the expiry job writes 'expired', and only after the time granted.
LEMMA ExpiryStep ==
  ASSUME IndInv, [Next]_vars, NEW s \in Services,
         status[s] # "expired", status'[s] = "expired"
  PROVE  Granted(s, now - 1)
  <1> USE DEF IndInv, TypeOK
  <1>1. MarkExpired
    <2>1. ASSUME NEW h \in Handlers, Proceed(h) PROVE FALSE
      BY <2>1 DEF Proceed, ProvisionCall, ProvisionUpdate, SuspendWrite, ResumeWrite,
                  RenewLock, RenewCommit, RenewAbort, SetStatus, rows
    <2>2. ASSUME NEW h \in Handlers, NEW t \in Services, Call(h, t) PROVE FALSE
      BY <2>2 DEF Call, ProvisionStart, SuspendRead, ResumeRead, RenewStart, Insert,
                  SetStatus, rows
    <2>3. ASSUME NEW t \in Services, Deliver(t) PROVE FALSE
      BY <2>3 DEF Deliver, Insert, SetStatus
    <2>4. ASSUME ExpiryStart \/ ExpiryFails \/ Crash \/ Calm \/ Tick \/ UNCHANGED vars
          PROVE  FALSE
      BY <2>4 DEF ExpiryStart, ExpiryFails, Crash, Calm, Tick, vars, rows
    <2> QED BY <2>1, <2>2, <2>3, <2>4 DEF Next
  <1>2. status[s] = "active" /\ exp[s] < jobAt
    BY <1>1 DEF MarkExpired, Overdue
  <1> QED BY <1>2 DEF PaidTimeGranted, Granted

\* No service is marked expired before the time it was granted is over.
THEOREM ExpiryOnTime == Spec => NoEarlyExpiry
  <1>1. IndInv /\ [Next]_vars =>
          [\A s \in Services :
             status[s] # "expired" /\ status'[s] = "expired" => Granted(s, now - 1)]_vars
    BY ExpiryStep
  <1> QED BY <1>1, Invariance, PTL DEF Spec, NoEarlyExpiry

=============================================================================
