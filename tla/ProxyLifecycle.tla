--------------------------- MODULE ProxyLifecycle ---------------------------
(***************************************************************************)
(* The life of a row of proxy_services: manual provisioning, suspension    *)
(* and resumption (proxy/service.go), renewal (the ExtendExpiryTx of an    *)
(* order transaction) and the expiry job.                                  *)
(*                                                                         *)
(* A handler's SQL statements are separate steps.  A renewal keeps the row *)
(* locked from its FOR UPDATE read to the end of its transaction, so an    *)
(* UPDATE of that row waits; and now() is the start of the transaction,    *)
(* not the time of the statement.  The expiry job's UPDATE selects its     *)
(* rows when it starts, waits for the locked ones and then checks its      *)
(* WHERE clause again on each (READ COMMITTED).                            *)
(***************************************************************************)
EXTENDS Integers

CONSTANTS
    Services,
    Handlers,
    Duration,       \* duration_days, in ticks
    PanelExpiries,  \* the expiries a panel may answer with; 0 is 1970, which
                    \* is also what an answer without the field decodes to
    MaxTime,        \* bound on the clock
    MaxPaid,        \* bound on the time bought by renewing one service
    Faults          \* what may fail: "panel", "db", "crash"

ASSUME LifecycleAssumption ==
    /\ Duration \in Nat \ {0}
    /\ PanelExpiries \subseteq Nat
    /\ MaxTime \in Nat
    /\ MaxPaid \in Nat
    /\ Faults \subseteq {"panel", "db", "crash"}

VARIABLES
    now,
    calm,       \* history: faults hit the expiry job no more
    status,     \* proxy_services.status, "none" before the insert
    exp,        \* proxy_services.expires_at
    onPanel,    \* services whose client exists on the panel
    pc,         \* control state of each handler
    svc,        \* the service it works on
    at,         \* when it began: now() of its transaction
    final,      \* finalStatus of a provisioning handler
    jobPc,      \* control state of the expiry job
    jobAt,      \* now() of its statement
    todo,       \* the rows the statement has selected
    first,      \* history: the expiry the row was inserted with
    paid,       \* history: the time bought by its renewals
    renewed,    \* history: when its last committed renewal began
    touched     \* history: services suspended before they were ever active

rows    == <<status, exp>>
handler == <<pc, svc, at, final>>
job     == <<jobPc, jobAt, todo>>
history == <<first, paid, renewed, touched>>
vars    == <<now, calm, rows, onPanel, handler, job, history>>

Statuses == {"none", "provisioning", "active", "failed", "suspended", "expired"}
States   == {"idle", "panel", "update", "suspend", "resume", "lock", "renew"}

Goto(h, label) == pc' = [pc EXCEPT ![h] = label]

\* A handler begins to work on a service.
Begin(h, s, label) ==
    /\ Goto(h, label)
    /\ svc' = [svc EXCEPT ![h] = s]
    /\ at' = [at EXCEPT ![h] = now]
    /\ UNCHANGED final

\* A handler returns and its local variables are gone.
Return(h) ==
    /\ Goto(h, "idle")
    /\ at' = [at EXCEPT ![h] = 0]
    /\ final' = [final EXCEPT ![h] = "failed"]
    /\ UNCHANGED svc

SetStatus(s, new) == status' = [status EXCEPT ![s] = new]

\* The row lock of a renewal.
Locked(s) == \E h \in Handlers : pc[h] = "renew" /\ svc[h] = s

Init ==
    /\ now = 0
    /\ calm = FALSE
    /\ status = [s \in Services |-> "none"]
    /\ exp = [s \in Services |-> 0]
    /\ onPanel = {}
    /\ pc = [h \in Handlers |-> "idle"]
    /\ svc \in [Handlers -> Services]
    /\ at = [h \in Handlers |-> 0]
    /\ final = [h \in Handlers |-> "failed"]
    /\ jobPc = "idle"
    /\ jobAt = 0
    /\ todo = {}
    /\ first = [s \in Services |-> 0]
    /\ paid = [s \in Services |-> 0]
    /\ renewed = [s \in Services |-> 0]
    /\ touched = {}

----------------------------------------------------------------------------
\* A new row with its status and its first expiry.
Insert(s, initial, expiry) ==
    /\ status[s] = "none"
    /\ SetStatus(s, initial)
    /\ exp' = [exp EXCEPT ![s] = expiry]
    /\ first' = [first EXCEPT ![s] = expiry]
    /\ UNCHANGED <<paid, renewed, touched>>

\* The provisioning worker's transaction, after the panel has confirmed.  The
\* expiry is the one in the panel's answer (pr.ExpiresAt), whatever it is: the
\* one that was asked for is not kept and nothing compares the two.
Deliver(s) ==
    /\ \E expiry \in PanelExpiries : Insert(s, "active", expiry)
    /\ onPanel' = onPanel \cup {s}
    /\ UNCHANGED <<now, calm, handler, job>>

\* Provision: the row is committed before the panel is called, with an expiry
\* of its own making; the one in the panel's answer is dropped.  If the answer
\* to the commit is lost the handler gives up.
ProvisionStart(h, s) ==
    /\ pc[h] = "idle"
    /\ Insert(s, "provisioning", now + Duration)
    /\ \/ Begin(h, s, "panel")
       \/ "db" \in Faults /\ UNCHANGED handler
    /\ UNCHANGED <<now, calm, onPanel, job>>

\* Mutant: the result of the panel call is not looked at.
ProvisionCallUnchecked(h) ==
    /\ pc[h] = "panel"
    /\ onPanel' \in {onPanel, onPanel \cup {svc[h]}}
    /\ final' = [final EXCEPT ![h] = "active"]
    /\ Goto(h, "update")
    /\ UNCHANGED <<now, calm, rows, svc, at, job, history>>

\* The panel call, with its retries.  A call that fails may still have
\* created the client.
ProvisionCall(h) ==
    /\ pc[h] = "panel"
    /\ \/ /\ onPanel' = onPanel \cup {svc[h]}
          /\ final' = [final EXCEPT ![h] = "active"]
       \/ /\ "panel" \in Faults
          /\ onPanel' \in {onPanel, onPanel \cup {svc[h]}}
          /\ final' = [final EXCEPT ![h] = "failed"]
    /\ Goto(h, "update")
    /\ UNCHANGED <<now, calm, rows, svc, at, job, history>>

\* UpdateStatus(finalStatus) whatever the row says by now; its error is
\* ignored.
ProvisionUpdate(h) ==
    /\ pc[h] = "update"
    /\ \/ ~Locked(svc[h]) /\ SetStatus(svc[h], final[h])
       \/ "db" \in Faults /\ UNCHANGED status
    /\ Return(h)
    /\ UNCHANGED <<now, calm, exp, onPanel, job, history>>

----------------------------------------------------------------------------
\* Suspend: the read and its check.
SuspendRead(h, s) ==
    /\ pc[h] = "idle"
    /\ status[s] \notin {"none", "suspended"}
    /\ Begin(h, s, "suspend")
    /\ UNCHANGED <<now, calm, rows, onPanel, job, history>>

\* Suspend: the write, whatever the row says by now.
SuspendWrite(h) ==
    /\ pc[h] = "suspend"
    /\ \/ /\ ~Locked(svc[h])
          /\ SetStatus(svc[h], "suspended")
          /\ touched' = touched \cup
               {s \in {svc[h]} : status[s] \in {"provisioning", "failed"}}
       \/ "db" \in Faults /\ UNCHANGED <<status, touched>>
    /\ Return(h)
    /\ UNCHANGED <<now, calm, exp, onPanel, job, first, paid, renewed>>

\* Resume: the read and its check.
ResumeRead(h, s) ==
    /\ pc[h] = "idle"
    /\ status[s] = "suspended"
    /\ Begin(h, s, "resume")
    /\ UNCHANGED <<now, calm, rows, onPanel, job, history>>

\* Mutant: the action's name is written as the status.
ResumeWriteUnknown(h) ==
    /\ pc[h] = "resume"
    /\ ~Locked(svc[h])
    /\ SetStatus(svc[h], "resumed")
    /\ Return(h)
    /\ UNCHANGED <<now, calm, exp, onPanel, job, history>>

\* Resume: the write, whatever the row says by now.
ResumeWrite(h) ==
    /\ pc[h] = "resume"
    /\ \/ ~Locked(svc[h]) /\ SetStatus(svc[h], "active")
       \/ "db" \in Faults /\ UNCHANGED status
    /\ Return(h)
    /\ UNCHANGED <<now, calm, exp, onPanel, job, history>>

----------------------------------------------------------------------------
\* Renew begins its transaction.
RenewStart(h, s) ==
    /\ pc[h] = "idle"
    /\ status[s] # "none"
    /\ Begin(h, s, "lock")
    /\ UNCHANGED <<now, calm, rows, onPanel, job, history>>

\* ByIDForUserTx: the FOR UPDATE read.  The status is not looked at.
RenewLock(h) ==
    /\ pc[h] = "lock"
    /\ ~Locked(svc[h])
    /\ Goto(h, "renew")
    /\ UNCHANGED <<now, calm, rows, onPanel, svc, at, final, job, history>>

\* Mutant: the new period always starts now.
ExtendedFromNow(h) == at[h] + Duration

\* The CASE of ExtendExpiryTx.  Where the driver or the database refuses the
\* parameter of ($1 || ' days')::interval the statement fails, and that is
\* RenewAbort.
Extended(h) ==
    IF exp[svc[h]] < at[h] THEN at[h] + Duration ELSE exp[svc[h]] + Duration

\* The order transaction commits: the period is paid and the expiry moved.
RenewCommit(h) ==
    LET s == svc[h] IN
    /\ pc[h] = "renew"
    /\ paid[s] + Duration <= MaxPaid
    /\ exp' = [exp EXCEPT ![s] = Extended(h)]
    /\ paid' = [paid EXCEPT ![s] = @ + Duration]
    /\ renewed' = [renewed EXCEPT ![s] = at[h]]
    /\ Return(h)
    /\ UNCHANGED <<now, calm, status, onPanel, job, first, touched>>

\* The renewal is refused or rolled back: no order, no funds, a failing
\* statement, a serialization failure, a lost connection.
RenewAbort(h) ==
    /\ pc[h] \in {"lock", "renew"}
    /\ Return(h)
    /\ UNCHANGED <<now, calm, rows, onPanel, job, history>>

\* The expiry job's statement is over.
ExpiryDone == jobPc' = "idle" /\ todo' = {} /\ jobAt' = 0

\* The process dies and takes every handler and the job with it; the
\* database rolls their transactions back.
Crash ==
    /\ "crash" \in Faults /\ ~calm
    /\ pc' = [h \in Handlers |-> "idle"]
    /\ at' = [h \in Handlers |-> 0]
    /\ final' = [h \in Handlers |-> "failed"]
    /\ ExpiryDone
    /\ UNCHANGED <<now, calm, rows, onPanel, svc, history>>

----------------------------------------------------------------------------
\* Mutant: only what expires at this very moment.
OverdueNow(s, t) == status[s] = "active" /\ exp[s] = t

\* The WHERE clause of MarkExpired.
Overdue(s, t) == status[s] = "active" /\ exp[s] < t

\* The ticker fires and the UPDATE selects its rows.
ExpiryStart ==
    /\ jobPc = "idle"
    /\ jobPc' = "update"
    /\ jobAt' = now
    /\ todo' = {s \in Services : Overdue(s, now)}
    /\ UNCHANGED <<now, calm, rows, onPanel, handler, history>>

\* Mutant: what was selected is marked without another look.
MarkExpiredStale ==
    /\ jobPc = "update"
    /\ \A s \in todo : ~Locked(s)
    /\ status' = [s \in Services |-> IF s \in todo THEN "expired" ELSE status[s]]
    /\ ExpiryDone
    /\ UNCHANGED <<now, calm, exp, onPanel, handler, history>>

\* The UPDATE ends: it has waited for the locked rows and looked at each
\* again.
MarkExpired ==
    /\ jobPc = "update"
    /\ \A s \in todo : ~Locked(s)
    /\ status' = [s \in Services |->
                    IF s \in todo /\ Overdue(s, jobAt) THEN "expired" ELSE status[s]]
    /\ ExpiryDone
    /\ UNCHANGED <<now, calm, exp, onPanel, handler, history>>

\* The UPDATE fails, which is logged; the ticker is the retry.
ExpiryFails ==
    /\ "db" \in Faults /\ ~calm
    /\ jobPc = "update"
    /\ ExpiryDone
    /\ UNCHANGED <<now, calm, rows, onPanel, handler, history>>

Tick ==
    /\ now < MaxTime
    /\ now' = now + 1
    /\ UNCHANGED <<calm, rows, onPanel, handler, job, history>>

\* The last crash, and the last failing UPDATE of the expiry job, are over.
Calm ==
    /\ ~calm
    /\ calm' = TRUE
    /\ UNCHANGED <<now, rows, onPanel, handler, job, history>>

----------------------------------------------------------------------------
\* What a handler does once it has been called.
Proceed(h) ==
    \/ ProvisionCall(h) \/ ProvisionUpdate(h)
    \/ SuspendWrite(h) \/ ResumeWrite(h)
    \/ RenewLock(h) \/ RenewCommit(h) \/ RenewAbort(h)

Call(h, s) ==
    ProvisionStart(h, s) \/ SuspendRead(h, s) \/ ResumeRead(h, s) \/ RenewStart(h, s)

Next ==
    \/ \E h \in Handlers : Proceed(h) \/ \E s \in Services : Call(h, s)
    \/ \E s \in Services : Deliver(s)
    \/ ExpiryStart \/ MarkExpired \/ ExpiryFails \/ Crash \/ Calm \/ Tick

Spec == Init /\ [][Next]_vars

\* A renewal ends; the ticker fires again and again, after a crash in the
\* process that replaces the one that died; and the job's UPDATE, queued behind
\* row locks that are released again and again, gets its turn.
FairSpec ==
    /\ Spec
    /\ \A h \in Handlers : WF_vars(RenewCommit(h) \/ RenewAbort(h))
    /\ WF_vars(ExpiryStart)
    /\ SF_vars(MarkExpired)

----------------------------------------------------------------------------
TypeOK ==
    /\ calm \in BOOLEAN
    /\ now \in 0..MaxTime
    /\ status \in [Services -> Statuses]
    /\ exp \in [Services -> Nat]
    /\ onPanel \in SUBSET Services
    /\ pc \in [Handlers -> States]
    /\ svc \in [Handlers -> Services]
    /\ at \in [Handlers -> 0..MaxTime]
    /\ final \in [Handlers -> {"active", "failed"}]
    /\ jobPc \in {"idle", "update"}
    /\ jobAt \in 0..MaxTime
    /\ todo \in SUBSET Services
    /\ first \in [Services -> Nat]
    /\ paid \in [Services -> Nat]
    /\ renewed \in [Services -> 0..MaxTime]
    /\ touched \in SUBSET Services

\* Until when service s is granted: the expiry it was inserted with and every
\* period bought since, and one whole period from its last renewal even if it
\* had long been over by then.
Granted(s, t) ==
    /\ first[s] + paid[s] <= t
    /\ paid[s] > 0 => renewed[s] + Duration <= t

\* A row is locked by one renewal at a time, and whatever the order in which
\* renewals begin, wait and commit, each adds its full period to the expiry,
\* starting from an expiry that may lie in the past (ByIDForUserTx ... FOR
\* UPDATE, ExtendExpiryTx).
PaidTimeGranted ==
    \A s \in Services : status[s] # "none" => Granted(s, exp[s])

\* A service is marked expired only when its first expiry and all the time
\* bought since are over, even if it is renewed while the expiry job is running
\* (MarkExpired).  How much the first expiry is worth is up to the panel.
NoEarlyExpiry ==
    [][\A s \in Services :
         status[s] # "expired" /\ status'[s] = "expired" => Granted(s, now - 1)]_vars

\* A service is active only if its client is on the panel, wherever
\* provisioning fails or dies and however suspensions and resumptions overlap
\* with it (Provision, finalStatus).  The one way round it: the service is
\* suspended while it is still provisioning or after that has failed, and is
\* then resumed (Resume writes 'active' without a look at the panel).
ActiveIsReal ==
    \A s \in Services \ touched : status[s] \in {"active", "expired"} => s \in onPanel

\* Once faults spare the expiry job, a service does not stay active past its
\* expiry, whatever renewals, suspensions and late resumptions do to its row and
\* wherever earlier crashes have left it (RunExpiryJob: "marks expired
\* services").
ExpiredAreMarked ==
    \A s \in Services :
        (calm /\ status[s] = "active" /\ exp[s] < now) ~>
            (status[s] # "active" \/ exp[s] >= now)

----------------------------------------------------------------------------
\* The inductive invariant.

\* What a handler knows about its service.
Knows(h) ==
    /\ pc[h] # "idle" => status[svc[h]] # "none"
    /\ pc[h] = "update" /\ final[h] = "active" => svc[h] \in onPanel
    /\ pc[h] = "resume" => svc[h] \in touched \cup onPanel

\* What a row knows: nothing has been bought for a service that has no row,
\* and only one that was real, or suspended too early, is suspended.
RowOK(s) ==
    /\ status[s] = "none" => paid[s] = 0
    /\ status[s] = "suspended" => s \in touched \cup onPanel

IndInv ==
    /\ TypeOK
    /\ PaidTimeGranted
    /\ ActiveIsReal
    /\ \A h \in Handlers : Knows(h)
    /\ \A s \in Services : RowOK(s)
    /\ jobAt <= now

=============================================================================
