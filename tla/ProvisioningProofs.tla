------------------------- MODULE ProvisioningProofs -------------------------
(***************************************************************************)
(* Proofs about Provisioning for any number of workers, jobs and vendors   *)
(* and any combination of faults.  A job is claimed once (ClaimedOnce), so *)
(* the worker that has it is alone with its order until it lets go; the    *)
(* safety properties follow from that.                                     *)
(***************************************************************************)
EXTENDS Provisioning, TLAPS

\* An empty queue satisfies the invariant.
LEMMA InitIndInv == Init => IndInv
<1> SUFFICES ASSUME Init PROVE IndInv
  OBVIOUS
<1> USE ProvisioningAssumption DEF Init
<1>1. TypeOK
  BY DEF TypeOK, States, Statuses
<1>2. ClaimsExclusive /\ NoOrphans /\ OneServicePerOrder /\ ServicesReal /\ DoneMeansDelivered
  BY DEF ClaimsExclusive, NoOrphans, OneServicePerOrder, ServicesReal, DoneMeansDelivered
<1>3. (\A w \in Workers : Progress(w)) /\ ClaimedOnce
  BY DEF Progress, ClaimedOnce
<1>4. QED
  BY <1>1, <1>2, <1>3 DEF IndInv

\* A new job has no service yet.
LEMMA EnqueueInd ==
    ASSUME IndInv, NEW j \in Jobs, Enqueue(j)
    PROVE  IndInv'
<1> USE IndInv, Enqueue(j) DEF IndInv, Enqueue
<1>1. TypeOK'
  BY ProvisioningAssumption DEF TypeOK, States, Statuses, worker, queue, result
<1>2. ClaimsExclusive'
  BY DEF TypeOK, ClaimsExclusive, Progress, worker, queue, result
<1>o. NoOrphans'
  BY DEF TypeOK, NoOrphans, worker, queue, result
<1>3. OneServicePerOrder' /\ ServicesReal'
  BY DEF TypeOK, OneServicePerOrder, ServicesReal, worker, queue, result
<1>4. DoneMeansDelivered'
  BY DEF TypeOK, DoneMeansDelivered, ClaimsExclusive, Progress, worker, queue, result
<1>5. \A x \in Workers : Progress(x)'
  BY DEF TypeOK, Progress, UUID, ClaimsExclusive, worker, queue, result
<1>6. ClaimedOnce'
  BY DEF TypeOK, ClaimedOnce, ClaimsExclusive, Statuses, worker, queue, result
<1>7. QED
  BY <1>1, <1>2, <1>o, <1>3, <1>4, <1>5, <1>6

\* Panels do not matter to the queue.
LEMMA AddPanelInd ==
    ASSUME IndInv, NEW v \in Vendors, AddPanel(v)
    PROVE  IndInv'
<1> USE IndInv, AddPanel(v) DEF IndInv, AddPanel, CreatePanel
<1>1. TypeOK'
  BY ProvisioningAssumption DEF TypeOK, States, Statuses, worker, queue, result
<1>2. ClaimsExclusive'
  BY DEF TypeOK, ClaimsExclusive, Progress, worker, queue, result
<1>o. NoOrphans'
  BY DEF TypeOK, NoOrphans, worker, queue, result
<1>3. OneServicePerOrder' /\ ServicesReal'
  BY DEF TypeOK, OneServicePerOrder, ServicesReal, worker, queue, result
<1>4. DoneMeansDelivered'
  BY DEF TypeOK, DoneMeansDelivered, ClaimsExclusive, Progress, worker, queue, result
<1>5. \A x \in Workers : Progress(x)'
  BY DEF TypeOK, Progress, UUID, ClaimsExclusive, worker, queue, result
<1>6. ClaimedOnce'
  BY DEF TypeOK, ClaimedOnce, ClaimsExclusive, Statuses, worker, queue, result
<1>7. QED
  BY <1>1, <1>2, <1>o, <1>3, <1>4, <1>5, <1>6

\* A pending job has never been claimed, so the claim is exclusive.
LEMMA ClaimNextInd ==
    ASSUME IndInv, NEW w \in Workers, ClaimNext(w)
    PROVE  IndInv'
<1> USE IndInv DEF IndInv
<1>1. PICK j \in Jobs :
        /\ pc[w] = "idle" /\ status[j] = "pending"
        /\ status' = [status EXCEPT ![j] = "provisioning"]
        /\ claims' = [claims EXCEPT ![j] = @ + 1]
        /\ \/ /\ pc' = [pc EXCEPT ![w] = "load"]
              /\ job' = [job EXCEPT ![w] = j]
              /\ lost' = lost
           \/ lost' = lost \cup {j} /\ UNCHANGED <<pc, job>>
        /\ UNCHANGED <<tries, retries, dead, panels, result>>
  BY ClaimNext(w) DEF ClaimNext, Claimable, Goto
<1>2. claims[j] = 0 /\ linked[j] = 0
  BY <1>1 DEF ClaimedOnce
<1>3. \A x \in Workers : job[x] # j
  <2>1. \A x \in Workers : pc[x] = "idle" => job[x] = 0
    BY DEF Progress
  <2>2. \A x \in Workers : pc[x] # "idle" => status[job[x]] = "provisioning"
    BY DEF ClaimsExclusive
  <2>3. QED
    BY <1>1, <2>1, <2>2 DEF Jobs
<1>4. TypeOK'
  <2>1. pc' \in [Workers -> States]
    BY <1>1 DEF TypeOK, States
  <2>2. job' \in [Workers -> 0..MaxJobs]
    <3>1. j \in 0..MaxJobs
      BY ProvisioningAssumption DEF Jobs
    <3>2. QED
      BY <1>1, <3>1 DEF TypeOK
  <2>3. status' \in [Jobs -> Statuses] /\ claims' \in [Jobs -> Nat]
    BY <1>1 DEF TypeOK, Statuses
  <2>4. lost' \in SUBSET Jobs
    BY <1>1 DEF TypeOK
  <2>5. QED
    BY <1>1, <2>1, <2>2, <2>3, <2>4 DEF TypeOK, result
<1>5. /\ \A x \in Workers \ {w} : pc'[x] = pc[x] /\ job'[x] = job[x]
      /\ \/ pc'[w] = "load" /\ job'[w] = j
         \/ pc'[w] = "idle" /\ job'[w] = 0
      /\ \A i \in Jobs \ {j} : status'[i] = status[i] /\ claims'[i] = claims[i]
      /\ status'[j] = "provisioning" /\ claims'[j] = 1
  BY <1>1, <1>2 DEF TypeOK, Progress
<1>6. ClaimsExclusive'
  <2>1. 0 \notin Jobs
    BY DEF Jobs
  <2>2. QED
    BY <1>3, <1>5, <2>1 DEF ClaimsExclusive
<1>o. NoOrphans'
  <2>1. lost \subseteq lost' /\ (j \in lost' \/ job'[w] = j)
    BY <1>1 DEF TypeOK
  <2>2. job[w] \notin Jobs
    BY <1>1 DEF Progress, Jobs
  <2>3. QED
    BY <1>5, <2>1, <2>2 DEF NoOrphans
<1>7. OneServicePerOrder' /\ ServicesReal'
  BY <1>1 DEF OneServicePerOrder, ServicesReal, result
<1>8. DoneMeansDelivered'
  BY <1>1, <1>5 DEF DoneMeansDelivered, result
<1>9. \A x \in Workers : Progress(x)'
  <2>1. \A x \in Workers \ {w} : pc[x] # "idle" => UUID(job[x])' = UUID(job[x])
    BY <1>3, <1>5 DEF UUID, ClaimsExclusive
  <2>2. \A x \in Workers \ {w} : Progress(x)'
    BY <1>1, <1>5, <2>1 DEF Progress, result
  <2>3. Progress(w)'
    BY <1>1, <1>2, <1>5 DEF Progress, result
  <2>4. QED
    BY <2>2, <2>3
<1>10. ClaimedOnce'
  BY <1>1, <1>5 DEF ClaimedOnce, result
<1>11. QED
  BY <1>4, <1>6, <1>o, <1>7, <1>8, <1>9, <1>10

\* The reads of handleJob change nothing but the control state.
LEMMA LoadInd ==
    ASSUME IndInv, NEW w \in Workers, Load(w)
    PROVE  IndInv'
<1> USE IndInv, Load(w) DEF IndInv, Load, FirstActive, Goto
<1>1. TypeOK'
  BY ProvisioningAssumption DEF TypeOK, States, Statuses, worker, queue, result
<1>2. ClaimsExclusive'
  BY DEF TypeOK, ClaimsExclusive, Progress, worker, queue, result
<1>o. NoOrphans'
  BY DEF TypeOK, NoOrphans, worker, queue, result
<1>3. OneServicePerOrder' /\ ServicesReal'
  BY DEF TypeOK, OneServicePerOrder, ServicesReal, worker, queue, result
<1>4. DoneMeansDelivered'
  BY DEF TypeOK, DoneMeansDelivered, ClaimsExclusive, Progress, worker, queue, result
<1>5. \A x \in Workers : Progress(x)'
  BY DEF TypeOK, Progress, UUID, ClaimsExclusive, worker, queue, result
<1>6. ClaimedOnce'
  BY DEF TypeOK, ClaimedOnce, ClaimsExclusive, Statuses, worker, queue, result
<1>7. QED
  BY <1>1, <1>2, <1>o, <1>3, <1>4, <1>5, <1>6

\* The panel only gains clients.
LEMMA CallPanelInd ==
    ASSUME IndInv, NEW w \in Workers, CallPanel(w)
    PROVE  IndInv'
<1> USE IndInv, CallPanel(w) DEF IndInv, CallPanel, CreateClient, Goto, UUID
<1>a. /\ job[w] \in Jobs /\ claims[job[w]] = 1
      /\ UUID(job[w]) = <<job[w], 1>> /\ <<job[w], 1>> \in UUIDs
  <2>1. job[w] \in Jobs /\ status[job[w]] = "provisioning"
    BY DEF ClaimsExclusive
  <2>2. claims[job[w]] = 1
    BY <2>1 DEF ClaimedOnce
  <2>3. QED
    BY <2>1, <2>2, ProvisioningAssumption DEF UUID, UUIDs
<1>1. TypeOK'
  <2>1. clients' \in SUBSET UUIDs
    BY <1>a DEF TypeOK
  <2>2. tries' \in [Workers -> 0..(Attempts - 1)]
    BY ProvisioningAssumption DEF TypeOK
  <2>3. pc' \in [Workers -> States]
    BY DEF TypeOK, States
  <2>4. QED
    BY <2>1, <2>2, <2>3 DEF TypeOK, queue
<1>2. ClaimsExclusive'
  BY DEF TypeOK, ClaimsExclusive, Progress, worker, queue, result
<1>o. NoOrphans'
  BY DEF TypeOK, NoOrphans, worker, queue, result
<1>3. OneServicePerOrder' /\ ServicesReal'
  BY DEF TypeOK, OneServicePerOrder, ServicesReal, worker, queue, result
<1>4. DoneMeansDelivered'
  BY DEF TypeOK, DoneMeansDelivered, ClaimsExclusive, Progress, worker, queue, result
<1>5. \A x \in Workers : Progress(x)'
  BY DEF TypeOK, Progress, UUID, ClaimsExclusive, worker, queue, result
<1>6. ClaimedOnce'
  BY DEF TypeOK, ClaimedOnce, ClaimsExclusive, Statuses, worker, queue, result
<1>7. QED
  BY <1>1, <1>2, <1>o, <1>3, <1>4, <1>5, <1>6

\* The order of a job in progress has no service yet.
LEMMA PersistInd ==
    ASSUME IndInv, NEW w \in Workers, Persist(w)
    PROVE  IndInv'
<1> USE IndInv, Persist(w) DEF IndInv, Persist, CreateTx, LinkServiceTx, Goto, UUID
<1>a. /\ job[w] \in Jobs /\ claims[job[w]] = 1
      /\ UUID(job[w]) = <<job[w], 1>> /\ <<job[w], 1>> \in UUIDs
  <2>1. job[w] \in Jobs /\ status[job[w]] = "provisioning"
    BY DEF ClaimsExclusive
  <2>2. claims[job[w]] = 1
    BY <2>1 DEF ClaimedOnce
  <2>3. QED
    BY <2>1, <2>2, ProvisioningAssumption DEF UUID, UUIDs
<1>1. TypeOK'
  <2>1. services' \in SUBSET UUIDs
    BY <1>a DEF TypeOK
  <2>2. linked' \in [Jobs -> 0..MaxClaims]
    BY <1>a, ProvisioningAssumption DEF TypeOK
  <2>3. pc' \in [Workers -> States]
    BY DEF TypeOK, States
  <2>4. QED
    BY <2>1, <2>2, <2>3 DEF TypeOK, queue
<1>2. ClaimsExclusive'
  BY DEF TypeOK, ClaimsExclusive, Progress, worker, queue, result
<1>o. NoOrphans'
  BY DEF TypeOK, NoOrphans, worker, queue, result
<1>3. OneServicePerOrder' /\ ServicesReal'
  <2>1. CASE UNCHANGED <<services, linked>>
    BY <2>1 DEF OneServicePerOrder, ServicesReal
  <2>2. CASE /\ services' = services \cup {<<job[w], 1>>}
             /\ linked' = [linked EXCEPT ![job[w]] = 1]
    <3>1. \A n \in 1..MaxClaims : <<job[w], n>> \notin services
      <4>1. linked[job[w]] = 0
        BY DEF Progress
      <4>2. QED
        BY <1>a, <4>1 DEF OneServicePerOrder
    <3>2. OneServicePerOrder'
      <4>1. \A i \in Jobs, n \in 1..MaxClaims :
              <<i, n>> \in services' <=> <<i, n>> \in services \/ (i = job[w] /\ n = 1)
        BY <2>2
      <4>2. linked'[job[w]] = 1 /\ \A i \in Jobs \ {job[w]} : linked'[i] = linked[i]
        BY <1>a, <2>2 DEF TypeOK
      <4>3. QED
        BY <1>a, <3>1, <4>1, <4>2 DEF OneServicePerOrder
    <3>3. <<job[w], 1>> \in clients
      BY <1>a DEF Progress
    <3>4. QED
      BY <2>2, <3>2, <3>3 DEF ServicesReal
  <2>3. QED
    BY <1>a, <2>1, <2>2
<1>4. DoneMeansDelivered'
  BY DEF TypeOK, DoneMeansDelivered, ClaimsExclusive, Progress, worker, queue, result
<1>5. \A x \in Workers : Progress(x)'
  <2>1. \A x \in Workers \ {w} : job[x] # job[w] /\ pc'[x] = pc[x]
    BY DEF ClaimsExclusive, TypeOK
  <2>2. /\ \A x \in Workers \ {w} : job[x] \in Jobs => linked'[job[x]] = linked[job[x]]
        /\ pc'[w] = "notify" => linked'[job[w]] = 1
        /\ pc'[w] \in {"notify", "failing"}
    BY <1>a, <2>1 DEF TypeOK
  <2>3. \A x \in Workers : pc[x] # "idle" => job[x] \in Jobs
    BY DEF ClaimsExclusive
  <2>4. \A x \in Workers \ {w} : Progress(x)'
    BY <2>1, <2>2, <2>3 DEF Progress, UUID, queue
  <2>5. Progress(w)'
    BY <2>2 DEF Progress
  <2>6. QED
    BY <2>4, <2>5
<1>6. ClaimedOnce'
  BY DEF TypeOK, ClaimedOnce, ClaimsExclusive, Statuses, worker, queue, result
<1>7. QED
  BY <1>1, <1>2, <1>o, <1>3, <1>4, <1>5, <1>6

\* The event follows the commit.
LEMMA NotifyInd ==
    ASSUME IndInv, NEW w \in Workers, Notify(w)
    PROVE  IndInv'
<1> USE IndInv, Notify(w) DEF IndInv, Notify, Goto
<1>a. job[w] \in Jobs
  BY DEF ClaimsExclusive
<1>1. TypeOK'
  BY <1>a DEF TypeOK, States, queue
<1>2. ClaimsExclusive'
  BY DEF TypeOK, ClaimsExclusive, Progress, worker, queue, result
<1>o. NoOrphans'
  BY DEF TypeOK, NoOrphans, worker, queue, result
<1>3. OneServicePerOrder' /\ ServicesReal'
  BY DEF TypeOK, OneServicePerOrder, ServicesReal, worker, queue, result
<1>4. DoneMeansDelivered'
  BY DEF TypeOK, DoneMeansDelivered, ClaimsExclusive, Progress, worker, queue, result
<1>5. \A x \in Workers : Progress(x)'
  BY DEF TypeOK, Progress, UUID, ClaimsExclusive, worker, queue, result
<1>6. ClaimedOnce'
  BY DEF TypeOK, ClaimedOnce, ClaimsExclusive, Statuses, worker, queue, result
<1>7. QED
  BY <1>1, <1>2, <1>o, <1>3, <1>4, <1>5, <1>6

\* The job is delivered when it is marked done.
LEMMA MarkDoneInd ==
    ASSUME IndInv, NEW w \in Workers, MarkDone(w)
    PROVE  IndInv'
<1> USE IndInv, MarkDone(w) DEF IndInv, MarkDone, Goto, Release
<1>a. job[w] \in Jobs
  BY DEF ClaimsExclusive
<1>1. TypeOK'
  <2>1. lost' \in SUBSET Jobs
    BY <1>a DEF TypeOK
  <2>2. status' \in [Jobs -> Statuses]
    BY DEF TypeOK, Statuses
  <2>3. pc' \in [Workers -> States] /\ job' \in [Workers -> 0..MaxJobs]
    BY ProvisioningAssumption DEF TypeOK, States
  <2>4. tries' \in [Workers -> 0..(Attempts - 1)]
    BY ProvisioningAssumption DEF TypeOK
  <2>5. QED
    BY <2>1, <2>2, <2>3, <2>4 DEF TypeOK, result
<1>2. ClaimsExclusive'
  <2>1. job[w] \in Jobs /\ 0 \notin Jobs
    BY DEF ClaimsExclusive, Jobs
  <2>2. \A x \in Workers \ {w} : job[x] # job[w]
    BY DEF ClaimsExclusive
  <2>3. QED
    BY <2>1, <2>2 DEF TypeOK, ClaimsExclusive, queue
<1>o. NoOrphans'
  BY DEF TypeOK, NoOrphans, worker, queue, result
<1>3. OneServicePerOrder' /\ ServicesReal'
  BY DEF TypeOK, OneServicePerOrder, ServicesReal, worker, queue, result
<1>4. DoneMeansDelivered'
  BY DEF TypeOK, DoneMeansDelivered, ClaimsExclusive, Progress, worker, queue, result
<1>5. \A x \in Workers : Progress(x)'
  BY DEF TypeOK, Progress, UUID, ClaimsExclusive, worker, queue, result
<1>6. ClaimedOnce'
  BY DEF TypeOK, ClaimedOnce, ClaimsExclusive, Statuses, worker, queue, result
<1>7. QED
  BY <1>1, <1>2, <1>o, <1>3, <1>4, <1>5, <1>6

\* A failed job keeps what it has.
LEMMA MarkFailedInd ==
    ASSUME IndInv, NEW w \in Workers, MarkFailed(w)
    PROVE  IndInv'
<1> USE IndInv, MarkFailed(w) DEF IndInv, MarkFailed, UpdateFailed, Goto, Release
<1>1. TypeOK'
  <2>1. job[w] \in Jobs
    BY DEF ClaimsExclusive
  <2>2. pc' \in [Workers -> States] /\ job' \in [Workers -> 0..MaxJobs]
    BY ProvisioningAssumption DEF TypeOK, States
  <2>3. tries' \in [Workers -> 0..(Attempts - 1)]
    BY ProvisioningAssumption DEF TypeOK
  <2>4. status' \in [Jobs -> Statuses] /\ retries' \in [Jobs -> Nat]
    BY <2>1 DEF TypeOK, Statuses
  <2>5. dead' \in [Jobs -> BOOLEAN]
    <3>1. \/ dead' = dead
          \/ \E read \in {retries[job[w]]} \cup {n \in {0} : "db" \in Faults} :
               dead' = [dead EXCEPT ![job[w]] = read + 1 >= MaxRetries]
      BY MarkFailed(w), Zenon DEF MarkFailed, UpdateFailed
    <3>2. ASSUME NEW read, dead' = [dead EXCEPT ![job[w]] = read + 1 >= MaxRetries]
          PROVE  dead' \in [Jobs -> BOOLEAN]
      <4>1. (read + 1 >= MaxRetries) \in BOOLEAN
        OBVIOUS
      <4>2. QED
        BY <3>2, <4>1, Zenon DEF TypeOK
    <3>3. QED
      BY <3>1, <3>2, Zenon DEF TypeOK
  <2>6. lost' \in SUBSET Jobs
    BY <2>1 DEF TypeOK
  <2>7. QED
    BY <2>2, <2>3, <2>4, <2>5, <2>6 DEF TypeOK, result
<1>2. ClaimsExclusive'
  <2>1. job[w] \in Jobs /\ 0 \notin Jobs
    BY DEF ClaimsExclusive, Jobs
  <2>2. \A x \in Workers \ {w} : job[x] # job[w]
    BY DEF ClaimsExclusive
  <2>3. QED
    BY <2>1, <2>2 DEF TypeOK, ClaimsExclusive, queue
<1>o. NoOrphans'
  BY DEF TypeOK, NoOrphans, worker, queue, result
<1>3. OneServicePerOrder' /\ ServicesReal'
  BY DEF TypeOK, OneServicePerOrder, ServicesReal, worker, queue, result
<1>4. DoneMeansDelivered'
  BY DEF TypeOK, DoneMeansDelivered, ClaimsExclusive, Progress, worker, queue, result
<1>5. \A x \in Workers : Progress(x)'
  BY DEF TypeOK, Progress, UUID, ClaimsExclusive, worker, queue, result
<1>6. ClaimedOnce'
  BY DEF TypeOK, ClaimedOnce, ClaimsExclusive, Statuses, worker, queue, result
<1>7. QED
  BY <1>1, <1>2, <1>o, <1>3, <1>4, <1>5, <1>6

\* A crash leaves the job marked, so nobody claims it again.
LEMMA CrashInd ==
    ASSUME IndInv, NEW w \in Workers, Crash(w)
    PROVE  IndInv'
<1> USE IndInv, Crash(w) DEF IndInv, Crash, Goto, Release
<1>a. job[w] \in Jobs
  BY DEF ClaimsExclusive
<1>1. TypeOK'
  <2>1. lost' \in SUBSET Jobs
    BY <1>a DEF TypeOK
  <2>2. status' \in [Jobs -> Statuses]
    BY DEF TypeOK, Statuses
  <2>3. pc' \in [Workers -> States] /\ job' \in [Workers -> 0..MaxJobs]
    BY ProvisioningAssumption DEF TypeOK, States
  <2>4. tries' \in [Workers -> 0..(Attempts - 1)]
    BY ProvisioningAssumption DEF TypeOK
  <2>5. QED
    BY <2>1, <2>2, <2>3, <2>4 DEF TypeOK, result
<1>2. ClaimsExclusive'
  <2>1. job[w] \in Jobs /\ 0 \notin Jobs
    BY DEF ClaimsExclusive, Jobs
  <2>2. \A x \in Workers \ {w} : job[x] # job[w]
    BY DEF ClaimsExclusive
  <2>3. QED
    BY <2>1, <2>2 DEF TypeOK, ClaimsExclusive, queue
<1>o. NoOrphans'
  BY DEF TypeOK, NoOrphans, worker, queue, result
<1>3. OneServicePerOrder' /\ ServicesReal'
  BY DEF TypeOK, OneServicePerOrder, ServicesReal, worker, queue, result
<1>4. DoneMeansDelivered'
  BY DEF TypeOK, DoneMeansDelivered, ClaimsExclusive, Progress, worker, queue, result
<1>5. \A x \in Workers : Progress(x)'
  BY DEF TypeOK, Progress, UUID, ClaimsExclusive, worker, queue, result
<1>6. ClaimedOnce'
  BY DEF TypeOK, ClaimedOnce, ClaimsExclusive, Statuses, worker, queue, result
<1>7. QED
  BY <1>1, <1>2, <1>o, <1>3, <1>4, <1>5, <1>6

\* Every step preserves the invariant.
LEMMA NextIndInv == IndInv /\ [Next]_vars => IndInv'
<1> SUFFICES ASSUME IndInv, [Next]_vars PROVE IndInv'
  OBVIOUS
<1>1. ASSUME NEW w \in Workers, Work(w) PROVE IndInv'
  BY <1>1, ClaimNextInd, LoadInd, CallPanelInd, PersistInd, NotifyInd, MarkDoneInd,
     MarkFailedInd DEF Work
<1>2. ASSUME NEW w \in Workers, Crash(w) PROVE IndInv'
  BY <1>2, CrashInd
<1>3. ASSUME NEW j \in Jobs, Enqueue(j) PROVE IndInv'
  BY <1>3, EnqueueInd
<1>4. ASSUME NEW v \in Vendors, AddPanel(v) PROVE IndInv'
  BY <1>4, AddPanelInd
<1>5. CASE UNCHANGED vars
  BY <1>5 DEF IndInv, vars, worker, queue, result, TypeOK, ClaimsExclusive,
     NoOrphans, OneServicePerOrder, ServicesReal, DoneMeansDelivered, Progress, ClaimedOnce, UUID
<1>6. QED
  BY <1>1, <1>2, <1>3, <1>4, <1>5 DEF Next

\* IndInv holds in every reachable state.
THEOREM Invariance == Spec => []IndInv
BY InitIndInv, NextIndInv, PTL DEF Spec

\* The variables of the queue and its workers keep their types.
THEOREM TypeCorrect == Spec => []TypeOK
<1>1. IndInv => TypeOK
  BY DEF IndInv
<1>2. QED
  BY <1>1, Invariance, PTL

\* No two workers ever have the same job.
THEOREM ExclusiveClaims == Spec => []ClaimsExclusive
<1>1. IndInv => ClaimsExclusive
  BY DEF IndInv
<1>2. QED
  BY <1>1, Invariance, PTL

\* Only crashes and lost answers strand a job.
THEOREM OrphansExplained == Spec => []NoOrphans
<1>1. IndInv => NoOrphans
  BY DEF IndInv
<1>2. QED
  BY <1>1, Invariance, PTL

\* No order ever gets a second service, whatever fails.
THEOREM ServicesUnique == Spec => []OneServicePerOrder
<1>1. IndInv => OneServicePerOrder
  BY DEF IndInv
<1>2. QED
  BY <1>1, Invariance, PTL

\* Every recorded service has its client on the panel.
THEOREM ServicesExist == Spec => []ServicesReal
<1>1. IndInv => ServicesReal
  BY DEF IndInv
<1>2. QED
  BY <1>1, Invariance, PTL

\* Done and announced jobs have been delivered.
THEOREM DeliveryReported == Spec => []DoneMeansDelivered
<1>1. IndInv => DoneMeansDelivered
  BY DEF IndInv
<1>2. QED
  BY <1>1, Invariance, PTL

----------------------------------------------------------------------------
\* The refinement: what each step does to the abstract state.

\* Only the job's own worker, and only while the job is open, changes what the
\* job has.
LEMMA HeldIsOpen ==
    ASSUME IndInv, NEW w \in Workers, pc[w] # "idle"
    PROVE  /\ job[w] \in Jobs /\ Verdict(job[w]) = "open"
           /\ UUID(job[w]) = <<job[w], 1>> /\ 1 \in 1..MaxClaims
<1>1. job[w] \in Jobs /\ status[job[w]] = "provisioning"
  BY DEF IndInv, ClaimsExclusive
<1>2. claims[job[w]] = 1
  BY <1>1 DEF IndInv, ClaimedOnce
<1>3. QED
  BY <1>1, <1>2, ProvisioningAssumption DEF Verdict, UUID

\* Steps that touch neither the queue's verdicts nor what jobs have.
LEMMA OtherStepsStutter ==
    ASSUME UNCHANGED <<status, dead, clients, linked, notified>>
    PROVE  UNCHANGED D!vars
BY DEF D!vars, Verdict

\* A change of one job's row is a change of its verdict alone.
LEMMA StatusChange ==
    ASSUME NEW j \in Jobs,
           \A i \in Jobs \ {j} : status'[i] = status[i] /\ dead'[i] = dead[i],
           UNCHANGED <<clients, linked, notified>>
    PROVE  /\ [i \in Jobs |-> Verdict(i)]' =
                [[i \in Jobs |-> Verdict(i)] EXCEPT ![j] = Verdict(j)']
           /\ UNCHANGED <<{i \in Jobs : \E n \in 1..MaxClaims : <<i, n>> \in clients},
                          {i \in Jobs : linked[i] # 0}, notified>>
<1>1. \A i \in Jobs \ {j} : Verdict(i)' = Verdict(i)
  BY DEF Verdict
<1>2. QED
  BY <1>1

\* Every step of the queue is a step of Delivery or invisible.
LEMMA StepRefines ==
    ASSUME IndInv, [Next]_vars
    PROVE  [D!Next]_(D!vars)
<1> DEFINE verdict == [i \in Jobs |-> Verdict(i)]
           connected == {i \in Jobs : \E n \in 1..MaxClaims : <<i, n>> \in clients}
           delivered == {i \in Jobs : linked[i] # 0}
<1> SUFFICES D!Next \/ UNCHANGED D!vars
  OBVIOUS
<1>t. TypeOK
  BY DEF IndInv
<1>1. ASSUME NEW j \in Jobs, Enqueue(j) PROVE D!Next
  <2>1. /\ \A i \in Jobs \ {j} : status'[i] = status[i] /\ dead'[i] = dead[i]
        /\ Verdict(j) = "none" /\ Verdict(j)' = "open"
    BY <1>1, <1>t DEF Enqueue, Verdict, TypeOK
  <2>2. UNCHANGED <<clients, linked, notified>>
    BY <1>1 DEF Enqueue, result
  <2>3. D!Accept(j)
    BY <2>1, <2>2, StatusChange DEF D!Accept, D!Judge
  <2>4. QED
    BY <2>3 DEF D!Next
<1>2. ASSUME NEW v \in Vendors, AddPanel(v) PROVE UNCHANGED D!vars
  BY <1>2, OtherStepsStutter DEF AddPanel, queue, result
<1>3. ASSUME NEW w \in Workers, ClaimNext(w) PROVE UNCHANGED D!vars
  <2>1. PICK j \in Jobs :
          /\ status[j] = "pending"
          /\ status' = [status EXCEPT ![j] = "provisioning"]
    BY <1>3 DEF ClaimNext, Claimable
  <2>2. UNCHANGED <<dead, clients, linked, notified>>
    BY <1>3 DEF ClaimNext, result
  <2>a. /\ \A i \in Jobs \ {j} : status'[i] = status[i] /\ dead'[i] = dead[i]
        /\ Verdict(j)' = "open"
    BY <1>t, <2>1, <2>2 DEF Verdict, TypeOK
  <2>3. [i \in Jobs |-> Verdict(i)]' = [verdict EXCEPT ![j] = "open"]
    BY <2>2, <2>a, StatusChange
  <2>4. verdict[j] = "open"
    BY <2>1 DEF Verdict
  <2>5. [verdict EXCEPT ![j] = "open"] = verdict
    BY <2>4
  <2>6. QED
    BY <2>2, <2>3, <2>5 DEF D!vars
<1>4. ASSUME NEW w \in Workers, Load(w) \/ Crash(w) PROVE UNCHANGED D!vars
  BY <1>4, OtherStepsStutter DEF Load, Crash, queue, result
<1>5. ASSUME NEW w \in Workers, CallPanel(w) PROVE D!Next \/ UNCHANGED D!vars
  <2>1. /\ job[w] \in Jobs /\ Verdict(job[w]) = "open"
        /\ UUID(job[w]) = <<job[w], 1>> /\ 1 \in 1..MaxClaims
    BY <1>5, HeldIsOpen DEF CallPanel
  <2>2. UNCHANGED <<status, dead, linked, notified>>
    BY <1>5 DEF CallPanel, queue
  <2>3. CASE UNCHANGED clients
    BY <2>2, <2>3, OtherStepsStutter
  <2>4. CASE clients' = clients \cup {<<job[w], 1>>}
    <3>1. {i \in Jobs : \E n \in 1..MaxClaims : <<i, n>> \in clients'}
            = connected \cup {job[w]}
      BY <2>1, <2>4
    <3>2. PICK o \in Jobs : o = job[w]
      BY <2>1
    <3>3. D!Connect(o)
      BY <2>1, <2>2, <3>1, <3>2 DEF D!Connect, Verdict
    <3>4. QED
      BY <3>3 DEF D!Next
  <2>5. QED
    BY <1>5, <2>1, <2>3, <2>4 DEF CallPanel, CreateClient
<1>6. ASSUME NEW w \in Workers, Persist(w) PROVE D!Next \/ UNCHANGED D!vars
  <2>1. /\ job[w] \in Jobs /\ Verdict(job[w]) = "open"
        /\ UUID(job[w]) = <<job[w], 1>> /\ 1 \in 1..MaxClaims
    BY <1>6, HeldIsOpen DEF Persist
  <2>2. UNCHANGED <<status, dead, clients, notified>>
    BY <1>6 DEF Persist, queue
  <2>3. CASE UNCHANGED linked
    BY <2>2, <2>3, OtherStepsStutter
  <2>4. CASE LinkServiceTx(job[w])
    <3>1. linked[job[w]] = 0 /\ <<job[w], 1>> \in clients
      BY <1>6, <2>1 DEF Persist, IndInv, Progress
    <3>2. claims[job[w]] = 1
      BY <2>1 DEF UUID
    <3>3. \A i \in Jobs : linked'[i] = IF i = job[w] THEN 1 ELSE linked[i]
      BY <1>t, <2>1, <2>4, <3>2 DEF LinkServiceTx, TypeOK
    <3>4. {i \in Jobs : linked'[i] # 0} = delivered \cup {job[w]}
      BY <2>1, <3>3
    <3>5. job[w] \in connected \ delivered
      BY <2>1, <3>1
    <3>6. PICK o \in Jobs : o = job[w]
      BY <2>1
    <3>7. D!Deliver(o)
      BY <2>1, <2>2, <3>4, <3>5, <3>6 DEF D!Deliver, Verdict
    <3>8. QED
      BY <3>7 DEF D!Next
  <2>5. QED
    BY <1>6, <2>3, <2>4 DEF Persist
<1>7. ASSUME NEW w \in Workers, Notify(w) PROVE D!Next
  <2>1. job[w] \in Jobs /\ Verdict(job[w]) = "open"
    BY <1>7, HeldIsOpen DEF Notify
  <2>2. /\ UNCHANGED <<status, dead, clients, linked>>
        /\ notified' = notified \cup {job[w]}
    BY <1>7 DEF Notify, queue
  <2>3. job[w] \in delivered
    BY <1>7, <2>1 DEF Notify, IndInv, Progress
  <2>4. D!Announce(job[w])
    BY <2>1, <2>2, <2>3 DEF D!Announce, Verdict
  <2>5. QED
    BY <2>1, <2>4 DEF D!Next
<1>8. ASSUME NEW w \in Workers, MarkDone(w) PROVE D!Next \/ UNCHANGED D!vars
  <2>1. job[w] \in Jobs /\ Verdict(job[w]) = "open" /\ job[w] \in notified
    BY <1>8, HeldIsOpen DEF MarkDone, IndInv, Progress
  <2>2. UNCHANGED <<dead, clients, linked, notified>>
    BY <1>8 DEF MarkDone, result
  <2>3. CASE UNCHANGED status
    BY <2>2, <2>3, OtherStepsStutter
  <2>4. CASE status' = [status EXCEPT ![job[w]] = "done"]
    <3>1. PICK o \in Jobs : o = job[w]
      BY <2>1
    <3>2. /\ \A i \in Jobs \ {o} : status'[i] = status[i] /\ dead'[i] = dead[i]
          /\ Verdict(o)' = "done"
      BY <1>t, <2>2, <2>4, <3>1 DEF TypeOK, Verdict
    <3>3. D!Settle(o)
      BY <2>1, <2>2, <3>1, <3>2, StatusChange DEF D!Settle, D!Judge
    <3>4. QED
      BY <3>3 DEF D!Next
  <2>5. QED
    BY <1>8, <2>3, <2>4 DEF MarkDone
<1>9. ASSUME NEW w \in Workers, MarkFailed(w) PROVE D!Next \/ UNCHANGED D!vars
  <2>1. job[w] \in Jobs /\ Verdict(job[w]) = "open"
    BY <1>9, HeldIsOpen DEF MarkFailed
  <2>2. UNCHANGED <<clients, linked, notified>>
    BY <1>9 DEF MarkFailed, result
  <2>3. CASE UNCHANGED <<status, dead>>
    BY <2>2, <2>3, OtherStepsStutter
  <2>4. CASE /\ status' = [status EXCEPT ![job[w]] = "failed"]
             /\ \E last \in BOOLEAN : dead' = [dead EXCEPT ![job[w]] = last]
    <3>1. PICK o \in Jobs : o = job[w]
      BY <2>1
    <3>2. status'[o] = "failed" /\ \A i \in Jobs \ {o} : status'[i] = status[i]
      BY <1>t, <2>4, <3>1 DEF TypeOK
    <3>3. \A i \in Jobs \ {o} : dead'[i] = dead[i]
      BY <1>t, <2>4, <3>1 DEF TypeOK
    <3>4. Verdict(o)' = "failed" \/ Verdict(o)' = "dead"
      BY <3>2 DEF Verdict
    <3>5. D!GiveUp(o)
      BY <2>1, <2>2, <3>1, <3>2, <3>3, <3>4, StatusChange DEF D!GiveUp, D!Judge
    <3>6. QED
      BY <3>5 DEF D!Next
  <2>5. CASE \E read \in {retries[job[w]]} \cup {n \in {0} : "db" \in Faults} :
               UpdateFailed(job[w], read + 1 >= MaxRetries)
    <3>1. PICK read \in {retries[job[w]]} \cup {n \in {0} : "db" \in Faults} :
            UpdateFailed(job[w], read + 1 >= MaxRetries)
      BY <2>5
    <3>2. (read + 1 >= MaxRetries) \in BOOLEAN
      OBVIOUS
    <3>3. /\ status' = [status EXCEPT ![job[w]] = "failed"]
          /\ \E last \in BOOLEAN : dead' = [dead EXCEPT ![job[w]] = last]
      BY <3>1, <3>2, Zenon DEF UpdateFailed
    <3>4. QED
      BY <2>4, <3>3
  <2>6. QED
    BY <1>9, <2>3, <2>5 DEF MarkFailed
<1>10. CASE UNCHANGED vars
  BY <1>10, OtherStepsStutter DEF vars, queue, result
<1>11. QED
  BY <1>1, <1>2, <1>3, <1>4, <1>5, <1>6, <1>7, <1>8, <1>9, <1>10 DEF Next, Work

\* The workers implement Delivery, whatever fails.
THEOREM Refinement == Spec => ImplementsDelivery
<1>1. Init => D!Init
  <2> SUFFICES ASSUME Init PROVE D!Init
    OBVIOUS
  <2>1. \A j \in Jobs : Verdict(j) = "none"
    BY DEF Init, Verdict
  <2>2. QED
    BY <2>1 DEF Init, D!Init
<1>2. IndInv /\ [Next]_vars => [D!Next]_(D!vars)
  BY StepRefines
<1>3. QED
  BY <1>1, <1>2, Invariance, PTL DEF Spec, ImplementsDelivery, D!Spec

=============================================================================
