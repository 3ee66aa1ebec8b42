---------------------------- MODULE Provisioning ----------------------------
(***************************************************************************)
(* The provisioning queue: ProvisioningJobRepository and the workers       *)
(* (WorkerV2, one per server process) that claim its jobs, create a client *)
(* on the vendor's x-ui panel and record the service.                      *)
(*                                                                         *)
(* Job j belongs to order j.  Every run of handleJob makes a new UUID; the *)
(* UUID of the n-th claim of j is <<j, n>>.  The panel is another process: *)
(* a call may be carried out although its answer is lost.                  *)
(***************************************************************************)
EXTENDS Integers, FiniteSets

CONSTANTS
    Workers,
    MaxJobs,      \* jobs that are ever enqueued
    Vendors,
    JobVendor,    \* the vendor of each job's order
    Attempts,     \* MultiPanelAdapter.retries
    MaxRetries,   \* WorkerV2.maxRetries
    MaxClaims,    \* bound on the claims of one job that the types admit
    Faults        \* what may fail: "panel", "db", "crash"

Jobs  == 1..MaxJobs
UUIDs == Jobs \X (1..MaxClaims)

ASSUME ProvisioningAssumption ==
    /\ MaxJobs \in Nat
    /\ JobVendor \in [Jobs -> Vendors]
    /\ Attempts \in Nat \ {0}
    /\ MaxRetries \in Nat
    /\ MaxClaims \in Nat \ {0}
    /\ Faults \subseteq {"panel", "db", "crash"}

VARIABLES
    pc,        \* control state of each worker
    job,       \* the job it has claimed, 0 if none
    tries,     \* failed panel calls in this run of handleJob
    status,    \* provisioning_jobs.status, "none" before the insert
    retries,   \* provisioning_jobs.retries
    dead,      \* provisioning_jobs.dead_letter
    claims,    \* how often the job was claimed
    lost,      \* history: jobs that a crash or a lost answer has abandoned
    panels,    \* vendors with an active panel
    clients,   \* UUIDs of the clients on the panels
    services,  \* UUIDs of the proxy_services rows
    linked,    \* orders.service_id: the claim that made the service, or 0
    notified   \* orders announced as service.provisioned

worker == <<pc, job, tries>>
queue  == <<status, retries, dead, claims, lost>>
result == <<clients, services, linked, notified>>
vars   == <<worker, queue, panels, result>>

States   == {"idle", "load", "call", "persist", "notify", "done", "failing"}
Statuses == {"none", "pending", "provisioning", "done", "failed"}

UUID(j) == <<j, claims[j]>>

Goto(w, label) == pc' = [pc EXCEPT ![w] = label]

\* The worker is back at its ticker.
Release(w) ==
    /\ Goto(w, "idle")
    /\ job' = [job EXCEPT ![w] = 0]
    /\ tries' = [tries EXCEPT ![w] = 0]

Init ==
    /\ pc = [w \in Workers |-> "idle"]
    /\ job = [w \in Workers |-> 0]
    /\ tries = [w \in Workers |-> 0]
    /\ status = [j \in Jobs |-> "none"]
    /\ retries = [j \in Jobs |-> 0]
    /\ dead = [j \in Jobs |-> FALSE]
    /\ claims = [j \in Jobs |-> 0]
    /\ lost = {}
    /\ panels = {}
    /\ clients = {}
    /\ services = {}
    /\ linked = [j \in Jobs |-> 0]
    /\ notified = {}

----------------------------------------------------------------------------
\* EnqueueTx, made visible by the commit of the order.
Enqueue(j) ==
    /\ status[j] = "none"
    /\ status' = [status EXCEPT ![j] = "pending"]
    /\ UNCHANGED <<worker, retries, dead, claims, lost, panels, result>>

\* XUIPanelRepository.Create: the panel is active from the start.
CreatePanel(v) == panels' = panels \cup {v}

\* A vendor registers a panel.
AddPanel(v) ==
    /\ CreatePanel(v)
    /\ UNCHANGED <<worker, queue, result>>

\* Mutant: the claim also takes jobs that are being worked on.
ClaimableTwice(j) ==
    status[j] \in {"pending", "provisioning"} /\ ~dead[j] /\ claims[j] < MaxClaims

\* What ClaimNext selects from.
Claimable(j) == status[j] = "pending" /\ ~dead[j]

\* ClaimNext is one statement: it takes the first claimable job and marks
\* it.  When its answer is lost the job is marked and nobody works on it.
ClaimNext(w) ==
    /\ pc[w] = "idle"
    /\ \E j \in Jobs :
        /\ Claimable(j) /\ \A i \in Jobs : Claimable(i) => j <= i
        /\ status' = [status EXCEPT ![j] = "provisioning"]
        /\ claims' = [claims EXCEPT ![j] = @ + 1]
        /\ \/ /\ Goto(w, "load")
              /\ job' = [job EXCEPT ![w] = j]
              /\ UNCHANGED lost
           \/ /\ "db" \in Faults
              /\ lost' = lost \cup {j}
              /\ UNCHANGED <<pc, job>>
    /\ UNCHANGED <<tries, retries, dead, panels, result>>

\* XUIPanelRepository.FirstActive finds a panel.  No panel is ever switched
\* off, and its token can be decrypted: the key does not change.
FirstActive(v) == v \in panels

\* handleJob, the reads: the order, the vendor's first active panel, the
\* catalog item.  Orders and items are never deleted.
Load(w) ==
    /\ pc[w] = "load"
    /\ \/ FirstActive(JobVendor[job[w]]) /\ Goto(w, "call")
       \/ ~FirstActive(JobVendor[job[w]]) /\ Goto(w, "failing")
       \/ "db" \in Faults /\ Goto(w, "failing")
    /\ UNCHANGED <<job, tries, queue, panels, result>>

\* Client.CreateClient as the panel sees it.
CreateClient(uuid) == clients' = clients \cup {uuid}

\* Mutant: the service row is written although the panel call failed.
CallPanelUnchecked(w) ==
    /\ pc[w] = "call"
    /\ CreateClient(UUID(job[w])) \/ ("panel" \in Faults /\ UNCHANGED clients)
    /\ Goto(w, "persist")
    /\ UNCHANGED <<job, tries, queue, panels, services, linked, notified>>

\* Mutant: one call more than Attempts.
CallPanelOneMore(w) ==
    /\ pc[w] = "call"
    /\ "panel" \in Faults
    /\ IF tries[w] < Attempts
       THEN tries' = [tries EXCEPT ![w] = @ + 1] /\ UNCHANGED pc
       ELSE Goto(w, "failing") /\ UNCHANGED tries
    /\ UNCHANGED <<job, queue, panels, result>>

\* adapter.Provision: up to Attempts calls with the same UUID.  A call that
\* fails may still have created the client.
CallPanel(w) ==
    /\ pc[w] = "call"
    /\ \/ /\ CreateClient(UUID(job[w]))
          /\ Goto(w, "persist")
          /\ UNCHANGED tries
       \/ /\ "panel" \in Faults
          /\ CreateClient(UUID(job[w])) \/ UNCHANGED clients
          /\ IF tries[w] + 1 < Attempts
             THEN tries' = [tries EXCEPT ![w] = @ + 1] /\ UNCHANGED pc
             ELSE Goto(w, "failing") /\ UNCHANGED tries
    /\ UNCHANGED <<job, queue, panels, services, linked, notified>>

\* ProxyServiceRepository.CreateTx
CreateTx(uuid) == services' = services \cup {uuid}

\* OrderRepository.LinkServiceTx
LinkServiceTx(j) == linked' = [linked EXCEPT ![j] = claims[j]]

\* Mutant: the service row and the link to the order in two transactions,
\* the second of which is lost.
PersistUnlinked(w) ==
    /\ pc[w] = "persist"
    /\ CreateTx(UUID(job[w]))
    /\ Goto(w, "notify")
    /\ UNCHANGED <<job, tries, queue, panels, clients, linked, notified>>

\* The transaction that inserts the service and links the order to it.  It
\* may be rolled back, and its answer may be lost after the commit.
Persist(w) ==
    /\ pc[w] = "persist"
    /\ \/ /\ CreateTx(UUID(job[w]))
          /\ LinkServiceTx(job[w])
          /\ Goto(w, "notify") \/ ("db" \in Faults /\ Goto(w, "failing"))
       \/ /\ "db" \in Faults
          /\ Goto(w, "failing")
          /\ UNCHANGED <<services, linked>>
    /\ UNCHANGED <<job, tries, queue, panels, clients, notified>>

Notify(w) ==
    /\ pc[w] = "notify"
    /\ notified' = notified \cup {job[w]}
    /\ Goto(w, "done")
    /\ UNCHANGED <<job, tries, queue, panels, clients, services, linked>>

\* MarkDone; its error is ignored.
MarkDone(w) ==
    /\ pc[w] = "done"
    /\ \/ status' = [status EXCEPT ![job[w]] = "done"] /\ UNCHANGED lost
       \/ "db" \in Faults /\ lost' = lost \cup {job[w]} /\ UNCHANGED status
    /\ Release(w)
    /\ UNCHANGED <<retries, dead, claims, panels, result>>

\* ProvisioningJobRepository.MarkFailed
UpdateFailed(j, last) ==
    /\ status' = [status EXCEPT ![j] = "failed"]
    /\ retries' = [retries EXCEPT ![j] = @ + 1]
    /\ dead' = [dead EXCEPT ![j] = last]

\* Mutant: a failed job is only logged.
MarkFailedSkipped(w) ==
    /\ pc[w] = "failing"
    /\ Release(w)
    /\ UNCHANGED <<queue, panels, result>>

\* Mutant: the error of handleJob is dropped and the job is marked done.
MarkFailedDone(w) ==
    /\ pc[w] = "failing"
    /\ status' = [status EXCEPT ![job[w]] = "done"]
    /\ Release(w)
    /\ UNCHANGED <<retries, dead, claims, lost, panels, result>>

\* The read of retries, then MarkFailed; both errors are ignored, and a
\* failed read leaves retries at 0.
MarkFailed(w) ==
    /\ pc[w] = "failing"
    /\ \/ \E read \in {retries[job[w]]} \cup {n \in {0} : "db" \in Faults} :
            /\ UpdateFailed(job[w], read + 1 >= MaxRetries)
            /\ UNCHANGED lost
       \/ /\ "db" \in Faults
          /\ lost' = lost \cup {job[w]}
          /\ UNCHANGED <<status, retries, dead>>
    /\ Release(w)
    /\ UNCHANGED <<claims, panels, result>>

\* The process dies and starts again; what it was doing is forgotten.
Crash(w) ==
    /\ "crash" \in Faults
    /\ pc[w] # "idle"
    /\ lost' = lost \cup {job[w]}
    /\ Release(w)
    /\ UNCHANGED <<status, retries, dead, claims, panels, result>>

----------------------------------------------------------------------------
Work(w) ==
    \/ ClaimNext(w) \/ Load(w) \/ CallPanel(w) \/ Persist(w)
    \/ Notify(w) \/ MarkDone(w) \/ MarkFailed(w)

Next ==
    \/ \E w \in Workers : Work(w) \/ Crash(w)
    \/ \E j \in Jobs : Enqueue(j)
    \/ \E v \in Vendors : AddPanel(v)

Spec == Init /\ [][Next]_vars

\* The ticker of a live worker keeps firing, and every call ends: the HTTP
\* client has a timeout.
FairSpec == Spec /\ \A w \in Workers : WF_vars(Work(w))

----------------------------------------------------------------------------
TypeOK ==
    /\ pc \in [Workers -> States]
    /\ job \in [Workers -> 0..MaxJobs]
    /\ tries \in [Workers -> 0..(Attempts - 1)]
    /\ status \in [Jobs -> Statuses]
    /\ retries \in [Jobs -> Nat]
    /\ dead \in [Jobs -> BOOLEAN]
    /\ claims \in [Jobs -> Nat]
    /\ lost \in SUBSET Jobs
    /\ panels \in SUBSET Vendors
    /\ clients \in SUBSET UUIDs
    /\ services \in SUBSET UUIDs
    /\ linked \in [Jobs -> 0..MaxClaims]
    /\ notified \in SUBSET Jobs

\* However many workers poll, and wherever they crash or lose an answer, a
\* job is worked on by one of them and is then marked 'provisioning'
\* (ClaimNext).
ClaimsExclusive ==
    \A w \in Workers : pc[w] # "idle" =>
        /\ job[w] \in Jobs /\ status[job[w]] = "provisioning"
        /\ \A x \in Workers \ {w} : job[x] # job[w]

\* A job marked 'provisioning' that nobody works on is one that a crash or a
\* lost database answer has abandoned: every other path of the worker's loop
\* ends in MarkDone or MarkFailed.
NoOrphans ==
    \A j \in Jobs : status[j] = "provisioning" =>
        j \in lost \/ \E w \in Workers : job[w] = j

\* The worker gives an order at most one service, and the order is linked to
\* the one it has (handleJob: "persist proxy service and link to order in
\* transaction").
OneServicePerOrder ==
    \A j \in Jobs, n \in 1..MaxClaims : <<j, n>> \in services <=> linked[j] = n

\* A recorded service exists on the panel: the row is written only after
\* the panel has confirmed the client.
ServicesReal == services \subseteq clients

\* A job is reported done, and its service announced, only when the service
\* row is committed.
DoneMeansDelivered ==
    /\ \A j \in Jobs : status[j] = "done" => linked[j] # 0 /\ j \in notified
    /\ \A j \in notified : linked[j] # 0

\* Every job that is enqueued is settled, whatever the panel does and whatever
\* other jobs meet: only a crash or a lost database answer that hits this very
\* job leaves it unsettled.
JobsSettled ==
    \A j \in Jobs :
        status[j] = "pending" ~> status[j] \in {"done", "failed"} \/ j \in lost

\* A failed job is tried again until it succeeds or its retries are used up
\* (worker_v2.go: "mark failed and set dead=false to allow Repo to increment
\* retries; if retries>maxRetries, mark dead true").
FailedJobsResolved ==
    \A j \in Jobs : status[j] = "failed" ~> (status[j] = "done" \/ dead[j])

----------------------------------------------------------------------------
\* The inductive invariant.

\* How far a worker is with its job.
Progress(w) ==
    /\ pc[w] = "idle" => job[w] = 0
    /\ pc[w] \in {"load", "call", "persist"} => linked[job[w]] = 0
    /\ pc[w] = "persist" => UUID(job[w]) \in clients
    /\ pc[w] \in {"notify", "done"} => linked[job[w]] # 0
    /\ pc[w] = "done" => job[w] \in notified

\* A job leaves 'pending' by its only claim and has no service before it.
ClaimedOnce ==
    \A j \in Jobs :
        IF status[j] \in {"none", "pending"}
        THEN claims[j] = 0 /\ linked[j] = 0
        ELSE claims[j] = 1

IndInv ==
    /\ TypeOK
    /\ ClaimsExclusive
    /\ NoOrphans
    /\ OneServicePerOrder
    /\ ServicesReal
    /\ DoneMeansDelivered
    /\ \A w \in Workers : Progress(w)
    /\ ClaimedOnce

----------------------------------------------------------------------------
\* The abstract delivery of an order: 'pending' and 'provisioning' are open,
\* and a failed job that is a dead letter is dead.
Verdict(j) ==
    IF status[j] \in {"pending", "provisioning"} THEN "open"
    ELSE IF status[j] = "failed" /\ dead[j] THEN "dead" ELSE status[j]

D == INSTANCE Delivery WITH
        Orders <- Jobs,
        verdict <- [j \in Jobs |-> Verdict(j)],
        connected <- {j \in Jobs : \E n \in 1..MaxClaims : <<j, n>> \in clients},
        delivered <- {j \in Jobs : linked[j] # 0},
        announced <- notified

\* The workers, with all their interleavings, crashes and lost answers,
\* implement Delivery: an order gets its client, its service and its
\* announcement in this order and only while its job is open, and is done only
\* after all three.  Delivery leaves room for the retries that handleJob's
\* caller intends, which ClaimNext does not make (FailedJobsResolved).
ImplementsDelivery == D!Spec

=============================================================================
