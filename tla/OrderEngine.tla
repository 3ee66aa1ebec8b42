---------------------------- MODULE OrderEngine ----------------------------
(***************************************************************************)
(* The order engine: order.Service.Create and Renew with the repositories  *)
(* they call, and the admin wallet top-up, run by concurrent HTTP request  *)
(* handlers against one PostgreSQL database.                               *)
(*                                                                         *)
(* A handler is a slot of Requests with a control state pc.  A transaction *)
(* becomes visible in one step, Commit; until then its writes are known    *)
(* only through the locks they hold (HoldsKey, HoldsWallet, HoldsService). *)
(* Create and Renew run SERIALIZABLE: a row another transaction has        *)
(* changed since the snapshot was taken cannot be locked any more, which   *)
(* stale[r] records.  The top-up runs READ COMMITTED and just waits.       *)
(*                                                                         *)
(* A transaction keeps one of the MaxConns connections of sql.DB until it  *)
(* ends; everything else a handler asks of the database borrows one.       *)
(*                                                                         *)
(* The service that the provisioning worker creates for order o is         *)
(* identified by o.                                                        *)
(***************************************************************************)
EXTENDS Integers, FiniteSets, Sums

CONSTANTS
    Requests,        \* slots of concurrent HTTP handlers
    Vendors, Users, Items,
    Keys,            \* idempotency keys callers send
    Stamps,          \* readings of time.Now().UnixNano() that Renew may get
    TopUps,          \* amounts an admin may post; the handler checks no sign
    ItemVendor,      \* catalog_items.vendor_id
    Price,           \* catalog_items.price_toman
    Active,          \* the items with catalog_items.is_active
    ServiceCatalog,  \* items that also have a row in service_catalog
    WalletUsers,     \* the users that have a wallet row
    MinBalance, MaxBalance,  \* the range of BIGINT
    MaxOrders,       \* the last value of the orders id sequence
    MaxConns,        \* SetMaxOpenConns
    Faults,          \* whether transactions abort and answers get lost
    None             \* SQL NULL, the empty string, an absent row

OrderIds  == 1..MaxOrders
RenewKeys == OrderIds \X Stamps
AllKeys   == Keys \cup RenewKeys
KeyRows   == Vendors \X Users \X AllKeys
Order     == [vendor: Vendors, user: Users, item: Items, amount: Int,
              key: AllKeys]

\* Values of order_idempotency_keys.order_id: no row, or a row with NULL.
Absent == -1
Null   == 0

ASSUME DataAssumption ==
    /\ TopUps \subseteq Int
    /\ ItemVendor \in [Items -> Vendors]
    /\ Price \in [Items -> Int]
    /\ Active \subseteq Items
    /\ ServiceCatalog \subseteq Items
    /\ WalletUsers \subseteq Users

ASSUME BoundAssumption ==
    /\ MinBalance \in Int /\ MinBalance <= 0
    /\ MaxBalance \in Int /\ 0 <= MaxBalance
    /\ MaxOrders \in Nat
    /\ MaxConns \in Nat \ {0}
    /\ Faults \in BOOLEAN

\* Renew prefixes its keys with "renew:"; callers are taken not to.
ASSUME KeyAssumption ==
    /\ Keys \cap RenewKeys = {}
    /\ None \notin Vendors \cup Users \cup Items \cup AllKeys \cup Order

VARIABLES
    pc,         \* control state of each handler
    req,        \* what it was asked
    oid,        \* order id it has drawn, or answers with
    stale,      \* rows changed since its snapshot: "wallet", "service"
    balance,    \* wallets.balance, committed
    credit,     \* sum of each wallet's 'admin_topup' ledger rows
    debit,      \* minus the sum of its 'order_debit' ledger rows
    idem,       \* order_idempotency_keys
    orders,     \* orders
    jobs,       \* number of provisioning_jobs rows of each order
    services,   \* orders with a committed proxy_services row
    ext,        \* how often ExtendExpiryTx was committed for a service
    nextOrder,  \* the sequence behind orders.id
    notified    \* orders announced as approved or renewed

handler == <<pc, req, oid, stale>>
wallet  == <<balance, credit, debit>>
tables  == <<idem, orders, jobs, services, ext>>
vars    == <<handler, wallet, tables, nextOrder, notified>>

Request == [kind: {"none", "create", "renew", "topup"},
            vendor: Vendors \cup {None}, user: Users \cup {None},
            item: Items \cup {None}, key: AllKeys \cup {None},
            svc: 0..MaxOrders, amount: TopUps \cup {0}]

Ask(kind, v, u, i, k, s, a) ==
    [kind |-> kind, vendor |-> v, user |-> u, item |-> i, key |-> k,
     svc |-> s, amount |-> a]

NoRequest == Ask("none", None, None, None, None, 0, 0)

\* Control states.  A state between the steps of a transaction is named
\* after the statement the transaction is about to finish.
TxStates == {"lockService", "price", "reserve", "deduct", "insert", "commit",
             "lockTopUp", "applyTopUp"}
Serializable == TxStates \ {"lockTopUp", "applyTopUp"}
Answered == {"ok", "dup", "err"}
Waiting  == {"resolve", "validate", "begin"}   \* for a connection
States   == {"idle", "notify"} \cup Waiting \cup TxStates \cup Answered

Row(r)     == <<req[r].vendor, req[r].user, req[r].key>>
RowOf(o)   == <<orders[o].vendor, orders[o].user, orders[o].key>>
Amount(r)  == Price[req[r].item]
InRange(n) == MinBalance <= n /\ n <= MaxBalance

\* The connections that open transactions hold, and whether another request
\* to the pool is served rather than queued.
InUse    == {q \in Requests : pc[q] \in TxStates}
FreeConn == Cardinality(InUse) < MaxConns

----------------------------------------------------------------------------
\* Locks: rows a transaction has inserted or locked FOR UPDATE and holds
\* until it ends.
HoldsService(q, s) ==
    /\ req[q].kind = "renew" /\ req[q].svc = s
    /\ pc[q] \in {"price", "reserve", "deduct", "insert", "commit"}

HoldsKey(q, k) ==
    pc[q] \in {"deduct", "insert", "commit"} /\ Row(q) = k

\* Mutant: the wallet is locked before the key is reserved.
HoldsWalletEarly(q, u) ==
    /\ pc[q] \in {"reserve", "insert", "commit", "applyTopUp"}
    /\ req[q].user = u

HoldsWallet(q, u) ==
    pc[q] \in {"insert", "commit", "applyTopUp"} /\ req[q].user = u

Goto(r, label) == pc' = [pc EXCEPT ![r] = label]

\* An error return: the deferred Rollback undoes the transaction.
Fail(r) == Goto(r, "err")

\* Rows that r's commit changes become unlockable for the serializable
\* transactions whose snapshot is older.
MarkStale(r) ==
    stale' = [q \in Requests |->
        IF q = r \/ pc[q] \notin Serializable THEN stale[q]
        ELSE stale[q]
               \cup {x \in {"wallet"} : req[q].user = req[r].user}
               \cup {x \in {"service"} : /\ req[r].kind = "renew"
                                         /\ req[q].svc = req[r].svc}]

----------------------------------------------------------------------------
Init ==
    /\ pc = [r \in Requests |-> "idle"]
    /\ req = [r \in Requests |-> NoRequest]
    /\ oid = [r \in Requests |-> 0]
    /\ stale = [r \in Requests |-> {}]
    /\ balance = [u \in WalletUsers |-> 0]
    /\ credit = [u \in WalletUsers |-> 0]
    /\ debit = [u \in WalletUsers |-> 0]
    /\ idem = [k \in KeyRows |-> Absent]
    /\ orders = [o \in OrderIds |-> None]
    /\ jobs = [o \in OrderIds |-> 0]
    /\ services = {}
    /\ ext = [o \in OrderIds |-> 0]
    /\ nextOrder = 1
    /\ notified = {}

----------------------------------------------------------------------------
\* Service.Create

\* A caller posts an order; without a key it is refused at once.
CreateOrder(r) ==
    /\ pc[r] = "idle"
    /\ \E v \in Vendors, u \in Users, i \in Items, k \in Keys \cup {None} :
        /\ req' = [req EXCEPT ![r] = Ask("create", v, u, i, k, 0, 0)]
        /\ IF k = None THEN Fail(r) ELSE Goto(r, "resolve")
    /\ UNCHANGED <<oid, stale, wallet, tables, nextOrder, notified>>

\* orders.ByID: the row, if it belongs to the vendor.
OrderByID(v, o) == orders[o] # None /\ orders[o].vendor = v

\* The fast path: a key already linked to an order answers with that order.
Resolve(r) ==
    LET existing == idem[Row(r)] IN
    /\ pc[r] = "resolve" /\ FreeConn
    /\ IF existing \in {Absent, Null}
       THEN Goto(r, "validate") /\ UNCHANGED oid
       ELSE IF OrderByID(req[r].vendor, existing)
            THEN Goto(r, "dup") /\ oid' = [oid EXCEPT ![r] = existing]
            ELSE Fail(r) /\ UNCHANGED oid
    /\ UNCHANGED <<req, stale, wallet, tables, nextOrder, notified>>

\* catalog.Get filters on the vendor, so a row it returns is the vendor's.
CatalogGet(v, i) == ItemVendor[i] = v

\* Mutant: the item is looked up without the vendor and is_active checks.
ValidateUnchecked(r) ==
    /\ pc[r] = "validate" /\ FreeConn
    /\ Goto(r, "reserve")
    /\ UNCHANGED <<req, oid, stale, wallet, tables, nextOrder, notified>>

\* The catalog checks; then the transaction begins and sends its first
\* statement, the INSERT of the key, which takes the snapshot.
Validate(r) ==
    /\ pc[r] = "validate" /\ FreeConn
    /\ IF CatalogGet(req[r].vendor, req[r].item) /\ req[r].item \in Active
       THEN Goto(r, "reserve") ELSE Fail(r)
    /\ UNCHANGED <<req, oid, stale, wallet, tables, nextOrder, notified>>

----------------------------------------------------------------------------
\* Service.Renew.  svc = 0 is a service without an order.

\* A caller asks for a renewal.
RenewStart(r) ==
    /\ pc[r] = "idle"
    /\ \E u \in Users, s \in 0..MaxOrders :
        req' = [req EXCEPT ![r] = Ask("renew", None, u, None, None, s, 0)]
    /\ Goto(r, "begin")
    /\ UNCHANGED <<oid, stale, wallet, tables, nextOrder, notified>>

\* BeginTx, for a renewal or a top-up, and the first statement, a SELECT ...
\* FOR UPDATE, which takes the snapshot and then waits for the row.
Begin(r) ==
    /\ pc[r] = "begin" /\ FreeConn
    /\ Goto(r, IF req[r].kind = "renew" THEN "lockService" ELSE "lockTopUp")
    /\ UNCHANGED <<req, oid, stale, wallet, tables, nextOrder, notified>>

\* ByIDForUserTx finds the caller's own services and waits for their locks.
LockService(r) ==
    LET s    == req[r].svc
        own  == s \in services /\ orders[s].user = req[r].user
        free == \A q \in Requests : ~HoldsService(q, s)
    IN
    /\ pc[r] = "lockService"
    /\ \/ own /\ free /\ "service" \notin stale[r] /\ Goto(r, "price")
       \/ (~own \/ (free /\ "service" \in stale[r])) /\ Fail(r)
    /\ UNCHANGED <<req, oid, stale, wallet, tables, nextOrder, notified>>

\* orders.ByID and catalog.Get do not use the transaction: they need a second
\* connection.  The price is read again, is_active is not; the key is new
\* every time.
ReadPrice(r) ==
    LET s == req[r].svc
        v == orders[s].vendor
        i == orders[s].item
    IN
    /\ pc[r] = "price" /\ FreeConn
    /\ IF OrderByID(v, s) /\ CatalogGet(v, i)
       THEN /\ Goto(r, "reserve")
            /\ \E t \in Stamps :
                 req' = [req EXCEPT ![r] =
                           Ask("renew", v, req[r].user, i, <<s, t>>, s, 0)]
       ELSE Fail(r) /\ UNCHANGED req
    /\ UNCHANGED <<oid, stale, wallet, tables, nextOrder, notified>>

----------------------------------------------------------------------------
\* The statements both transactions share, in their order.

\* Mutant: no unique index, the second INSERT of a key succeeds.
ReserveNotUnique(r) ==
    /\ pc[r] = "reserve"
    /\ Goto(r, "deduct")
    /\ UNCHANGED <<req, oid, stale, wallet, tables, nextOrder, notified>>

\* ReserveTx: the INSERT waits for a transaction that has inserted the same
\* key and fails if the key is there once it may go on.
Reserve(r) ==
    /\ pc[r] = "reserve"
    /\ \A q \in Requests : ~HoldsKey(q, Row(r))
    /\ IF idem[Row(r)] = Absent THEN Goto(r, "deduct") ELSE Fail(r)
    /\ UNCHANGED <<req, oid, stale, wallet, tables, nextOrder, notified>>

\* Mutant: the balance is read without FOR UPDATE.
DeductUnlocked(r) ==
    LET u == req[r].user IN
    /\ pc[r] = "deduct"
    /\ IF u \in WalletUsers /\ balance[u] >= Amount(r)
       THEN Goto(r, "insert") ELSE Fail(r)
    /\ UNCHANGED <<req, oid, stale, wallet, tables, nextOrder, notified>>

\* DeductTx: waits for the wallet lock, then checks and updates the balance.
\* No wallet, a balance changed since the snapshot, too little money or an
\* overflow of BIGINT is an error.
Deduct(r) ==
    LET u == req[r].user IN
    /\ pc[r] = "deduct"
    /\ \A q \in Requests : ~HoldsWallet(q, u)
    /\ IF /\ u \in WalletUsers
          /\ "wallet" \notin stale[r]
          /\ balance[u] >= Amount(r)
          /\ InRange(balance[u] - Amount(r))
       THEN Goto(r, "insert") ELSE Fail(r)
    /\ UNCHANGED <<req, oid, stale, wallet, tables, nextOrder, notified>>

\* Mutant: the event is published before the commit.
InsertOrderNotifies(r) ==
    /\ pc[r] = "insert" /\ nextOrder \in OrderIds
    /\ nextOrder' = nextOrder + 1
    /\ oid' = [oid EXCEPT ![r] = nextOrder]
    /\ notified' = notified \cup {nextOrder}
    /\ IF req[r].item \in ServiceCatalog THEN Goto(r, "commit") ELSE Fail(r)
    /\ UNCHANGED <<req, stale, wallet, tables>>

\* Mutant: an exhausted sequence is not noticed.
InsertOrderUnbounded(r) ==
    /\ pc[r] = "insert"
    /\ nextOrder' = nextOrder + 1
    /\ oid' = [oid EXCEPT ![r] = nextOrder]
    /\ IF req[r].item \in ServiceCatalog THEN Goto(r, "commit") ELSE Fail(r)
    /\ UNCHANGED <<req, stale, wallet, tables, notified>>

\* CreateTx draws an id, which a rollback does not give back, and the row
\* must satisfy the foreign key of orders.catalog_id.  LinkOrderTx,
\* EnqueueTx and ExtendExpiryTx write rows that are now locked or new; when
\* one of them fails, that is Abort.
InsertOrder(r) ==
    /\ pc[r] = "insert"
    /\ IF nextOrder \in OrderIds
       THEN /\ nextOrder' = nextOrder + 1
            /\ oid' = [oid EXCEPT ![r] = nextOrder]
            /\ IF req[r].item \in ServiceCatalog
               THEN Goto(r, "commit") ELSE Fail(r)
       ELSE Fail(r) /\ UNCHANGED <<oid, nextOrder>>
    /\ UNCHANGED <<req, stale, wallet, tables, notified>>

\* Mutant: the ledger row is forgotten.
DeductTxNoLedger(r) ==
    /\ balance' = [balance EXCEPT ![req[r].user] = @ - Amount(r)]
    /\ UNCHANGED debit

\* Mutant: the new order's id is passed instead of the service's.
ExtendExpiryTxWrongId(r) ==
    ext' = IF req[r].kind = "renew"
           THEN [ext EXCEPT ![oid[r]] = @ + 1] ELSE ext

\* What the statements wrote, made visible by Commit.
DeductTx(r) ==
    /\ balance' = [balance EXCEPT ![req[r].user] = @ - Amount(r)]
    /\ debit' = [debit EXCEPT ![req[r].user] = @ + Amount(r)]

CreateTx(r) ==
    orders' = [orders EXCEPT ![oid[r]] =
                 [vendor |-> req[r].vendor, user |-> req[r].user,
                  item |-> req[r].item, amount |-> Amount(r),
                  key |-> req[r].key]]

LinkOrderTx(r) == idem' = [idem EXCEPT ![Row(r)] = oid[r]]

EnqueueTx(r) == jobs' = [jobs EXCEPT ![oid[r]] = @ + 1]

\* Where the driver or the database refuses the parameter of ($1 || ' days'),
\* the statement, and with it every renewal, ends in Abort instead.
ExtendExpiryTx(r) ==
    ext' = IF req[r].kind = "renew"
           THEN [ext EXCEPT ![req[r].svc] = @ + 1] ELSE ext

\* tx.Commit: all or nothing.  The answer may be lost after the commit, and
\* the handler then reports an error.
Commit(r) ==
    /\ pc[r] = "commit"
    /\ DeductTx(r)
    /\ CreateTx(r)
    /\ LinkOrderTx(r)
    /\ EnqueueTx(r)
    /\ ExtendExpiryTx(r)
    /\ MarkStale(r)
    /\ \/ Goto(r, "notify")
       \/ Faults /\ Fail(r)
    /\ UNCHANGED <<req, oid, credit, services, nextOrder, notified>>

\* notifier.Notify, then the answer.
Notify(r) ==
    /\ pc[r] = "notify"
    /\ notified' = notified \cup {oid[r]}
    /\ Goto(r, "ok")
    /\ UNCHANGED <<req, oid, stale, wallet, tables, nextOrder>>

----------------------------------------------------------------------------
\* WalletRepository.ApplyTransaction, from the admin's top-up handler.

TopUpStart(r) ==
    /\ pc[r] = "idle"
    /\ \E u \in Users, a \in TopUps :
        req' = [req EXCEPT ![r] = Ask("topup", None, u, None, None, 0, a)]
    /\ Goto(r, "begin")
    /\ UNCHANGED <<oid, stale, wallet, tables, nextOrder, notified>>

LockTopUp(r) ==
    LET u == req[r].user IN
    /\ pc[r] = "lockTopUp"
    /\ \A q \in Requests : ~HoldsWallet(q, u)
    /\ IF u \in WalletUsers THEN Goto(r, "applyTopUp") ELSE Fail(r)
    /\ UNCHANGED <<req, oid, stale, wallet, tables, nextOrder, notified>>

\* The UPDATE, the ledger row and the commit.
ApplyTopUp(r) ==
    LET u == req[r].user IN
    /\ pc[r] = "applyTopUp"
    /\ \/ /\ InRange(balance[u] + req[r].amount)
          /\ balance' = [balance EXCEPT ![u] = @ + req[r].amount]
          /\ credit' = [credit EXCEPT ![u] = @ + req[r].amount]
          /\ MarkStale(r)
          /\ Goto(r, "ok") \/ (Faults /\ Fail(r))
       \/ /\ ~InRange(balance[u] + req[r].amount)
          /\ Fail(r)
          /\ UNCHANGED <<balance, credit, stale>>
    /\ UNCHANGED <<req, oid, debit, tables, nextOrder, notified>>

----------------------------------------------------------------------------
\* Mutant: the deduction was made outside the transaction and survives.
AbortKeepsDeduction(r) ==
    /\ Faults
    /\ pc[r] \in TxStates
    /\ Fail(r)
    /\ IF pc[r] \in {"insert", "commit"}
       THEN /\ balance' = [balance EXCEPT ![req[r].user] = @ - Amount(r)]
            /\ debit' = [debit EXCEPT ![req[r].user] = @ + Amount(r)]
       ELSE UNCHANGED <<balance, debit>>
    /\ UNCHANGED <<req, oid, stale, credit, tables, nextOrder, notified>>

\* The caller's context is cancelled, also while it waits for a connection, a
\* query or the connection fails, or PostgreSQL aborts the transaction (a
\* serialization failure): everything is undone.
Abort(r) ==
    /\ Faults
    /\ pc[r] \in Waiting \cup TxStates
    /\ Fail(r)
    /\ UNCHANGED <<req, oid, stale, wallet, tables, nextOrder, notified>>

\* The answer has gone out; the slot serves another request.
Finish(r) ==
    /\ pc[r] \in Answered
    /\ Goto(r, "idle")
    /\ req' = [req EXCEPT ![r] = NoRequest]
    /\ oid' = [oid EXCEPT ![r] = 0]
    /\ stale' = [stale EXCEPT ![r] = {}]
    /\ UNCHANGED <<wallet, tables, nextOrder, notified>>

\* The worker's transaction, in one step: the order's service row appears.
\* A renewal already holding an older snapshot does not see it.
Provisioned(o) ==
    /\ orders[o] # None /\ jobs[o] > 0
    /\ o \notin services
    /\ FreeConn
    /\ services' = services \cup {o}
    /\ stale' = [q \in Requests |->
                   IF pc[q] = "lockService" /\ req[q].svc = o
                   THEN stale[q] \cup {"service"} ELSE stale[q]]
    /\ UNCHANGED <<pc, req, oid, wallet, idem, orders, jobs, ext, nextOrder,
                   notified>>

----------------------------------------------------------------------------
Step(r) == InsertOrder(r) \/ Commit(r) \/ Notify(r) \/ ApplyTopUp(r)

\* Steps that wait for a connection or for a row.
Acquire(r) ==
    \/ Resolve(r) \/ Validate(r) \/ Begin(r) \/ ReadPrice(r)
    \/ LockService(r) \/ Reserve(r) \/ Deduct(r) \/ LockTopUp(r)

Next ==
    \/ \E r \in Requests :
        \/ CreateOrder(r) \/ RenewStart(r) \/ TopUpStart(r)
        \/ Step(r) \/ Acquire(r)
        \/ Abort(r) \/ Finish(r)
    \/ \E o \in OrderIds : Provisioned(o)

Spec == Init /\ [][Next]_vars

\* A handler that can go on does.  PostgreSQL queues the waiters of a row and
\* sql.DB those of the pool, so one that finds its row or a connection free
\* again and again gets it.
Fairness ==
    \A r \in Requests : WF_vars(Step(r)) /\ SF_vars(Acquire(r))

FairSpec == Spec /\ Fairness

----------------------------------------------------------------------------
TypeOK ==
    /\ pc \in [Requests -> States]
    /\ req \in [Requests -> Request]
    /\ oid \in [Requests -> 0..MaxOrders]
    /\ stale \in [Requests -> SUBSET {"wallet", "service"}]
    /\ balance \in [WalletUsers -> Int]
    /\ credit \in [WalletUsers -> Int]
    /\ debit \in [WalletUsers -> Int]
    /\ idem \in [KeyRows -> -1..MaxOrders]
    /\ orders \in [OrderIds -> Order \cup {None}]
    /\ jobs \in [OrderIds -> Nat]
    /\ services \in SUBSET OrderIds
    /\ ext \in [OrderIds -> Nat]
    /\ nextOrder \in 1..(MaxOrders + 1)
    /\ notified \in SUBSET OrderIds

\* However same-key requests interleave, fail or are retried, each key row
\* belongs to exactly one order and each order to its key row; no key stays
\* reserved without an order (ReserveTx, LinkOrderTx).
OneOrderPerKey ==
    /\ \A k \in KeyRows : idem[k] # Absent =>
        /\ idem[k] \in OrderIds
        /\ orders[idem[k]] # None /\ RowOf(idem[k]) = k
    /\ \A o \in OrderIds : orders[o] # None => idem[RowOf(o)] = o

\* The wallet balance is what its ledger says (DeductTx, ApplyTransaction
\* write the balance and the ledger row together) and stays a BIGINT.
LedgerBalances ==
    \A u \in WalletUsers :
        balance[u] = credit[u] - debit[u] /\ InRange(balance[u])

\* What order o has cost user u.
Cost(u, o) ==
    IF orders[o] # None /\ orders[o].user = u THEN orders[o].amount ELSE 0

\* The 'order_debit' rows of a wallet add up to the amounts of the committed
\* orders of its user: nobody pays without an order or gets an order unpaid
\* (DeductTx and CreateTx commit together).
DebitsMatchOrders ==
    \A u \in WalletUsers :
        debit[u] = SumTo([o \in OrderIds |-> Cost(u, o)], MaxOrders)

\* Every committed order has exactly one provisioning job and a job has its
\* order (CreateTx and EnqueueTx commit together).
OneJobPerOrder ==
    \A o \in OrderIds : jobs[o] = IF orders[o] # None THEN 1 ELSE 0

\* The committed renewal orders of service s.
Renewals(s) ==
    {o \in OrderIds : orders[o] # None /\ \E t \in Stamps : orders[o].key = <<s, t>>}

\* A service's expiry was extended exactly as often as a renewal of it was
\* ordered and paid (Renew: "within a single transaction").
RenewalsPaid ==
    \A s \in OrderIds : ext[s] = Cardinality(Renewals(s))

\* An order or a duplicate is reported, and announced, only when it is
\* committed under the caller's vendor, user and key; a created one is for
\* the item that was asked for (Create and Renew notify after Commit).
AnswersTruthful ==
    /\ \A r \in Requests :
        \/ pc[r] = "dup"
        \/ pc[r] \in {"notify", "ok"} /\ req[r].kind # "topup"
        => /\ oid[r] \in OrderIds /\ orders[oid[r]] # None
           /\ RowOf(oid[r]) = Row(r)
           /\ pc[r] # "dup" => /\ orders[oid[r]].item = req[r].item
                               /\ orders[oid[r]].amount = Amount(r)
    /\ \A o \in notified : orders[o] # None

\* No step that commits an order overdraws the wallet, and it takes exactly
\* the price of that order: the balance checked in DeductTx is still the
\* balance when the deduction becomes visible.
NoOverdraft ==
    [][\A o \in OrderIds : orders[o] = None /\ orders'[o] # None =>
        LET u == orders'[o].user IN
        /\ u \in WalletUsers
        /\ balance'[u] = balance[u] - orders'[o].amount
        /\ balance'[u] >= 0]_vars

\* Committed rows never change: an order, the order of a key and the number of
\* paid extensions survive every later request.
Durable ==
    [][/\ \A o \in OrderIds : orders[o] # None => orders'[o] = orders[o]
       /\ \A k \in KeyRows : idem[k] # Absent => idem'[k] = idem[k]
       /\ \A o \in OrderIds : ext'[o] >= ext[o]]_vars

\* The pool is used up by renewals that each wait, directly or for the row
\* of another one, for a second connection (Renew, orders.ByID).
Starved ==
    /\ ~FreeConn
    /\ \A q \in InUse :
        \/ pc[q] = "price"
        \/ pc[q] = "lockService"
             /\ \E p \in Requests : HoldsService(p, req[q].svc)

\* Every request is answered: the locks are taken in one order (service,
\* key, wallet), so no set of handlers waits for each other for ever, and the
\* only way the pool runs dry for good is that renewals alone fill it.
RequestsAnswered ==
    \A r \in Requests :
        <>[]Starved \/ (pc[r] # "idle" ~> pc[r] \in Answered)

\* A transaction that has been paid for in DeductTx and got an id from the
\* sequence goes through: nothing refuses the order row (service.go, Create:
\* "Create creates an order atomically").
PaidOrderAccepted ==
    [][\A r \in Requests : pc[r] = "insert" /\ nextOrder \in OrderIds
          => pc'[r] # "err"]_vars

----------------------------------------------------------------------------
\* The inductive invariant behind the properties above, part by part.

\* What a handler knows of its request once it is past the checks that
\* establish it.
InOrderTx == {"reserve", "deduct", "insert", "commit"}

WellFormed(r) ==
    /\ pc[r] \in {"resolve", "validate"} => req[r].kind = "create"
    /\ pc[r] = "notify" => req[r].kind # "topup"
    /\ pc[r] \in {"resolve", "validate", "dup"} \cup InOrderTx =>
        req[r].item \in Items /\ Row(r) \in KeyRows
    /\ req[r].kind = "create" /\ pc[r] \notin {"idle", "err"} => req[r].key \in Keys
    /\ pc[r] \in {"lockTopUp", "applyTopUp"} =>
        /\ req[r].kind = "topup"
        /\ req[r].user \in Users /\ req[r].amount \in TopUps
    /\ pc[r] \in {"lockService", "price"} =>
        req[r].kind = "renew" /\ req[r].user \in Users
    /\ pc[r] = "begin" => req[r].kind \in {"renew", "topup"}
    /\ pc[r] = "begin" /\ req[r].kind = "renew" => req[r].user \in Users
    /\ pc[r] = "begin" /\ req[r].kind = "topup" =>
        req[r].user \in Users /\ req[r].amount \in TopUps

Checked(r) ==
    /\ pc[r] = "price" =>
        req[r].svc \in services /\ orders[req[r].svc].user = req[r].user
    /\ pc[r] \in InOrderTx =>
        \/ /\ req[r].kind = "create"
           /\ req[r].item \in Active
           /\ ItemVendor[req[r].item] = req[r].vendor
        \/ /\ req[r].kind = "renew"
           /\ req[r].svc \in services
           /\ req[r].vendor = orders[req[r].svc].vendor
           /\ req[r].user = orders[req[r].svc].user
           /\ req[r].item = orders[req[r].svc].item
           /\ \E t \in Stamps : req[r].key = <<req[r].svc, t>>

\* A key that a transaction has inserted is free, and no other has it.
KeyHeld(r) ==
    pc[r] \in {"deduct", "insert", "commit"} =>
        /\ idem[Row(r)] = Absent
        /\ \A q \in Requests \ {r} : ~HoldsKey(q, Row(r))

\* A wallet that a transaction has locked still covers the deduction, and
\* no other transaction has it.
WalletHeld(r) ==
    pc[r] \in {"insert", "commit", "applyTopUp"} =>
        /\ req[r].user \in WalletUsers
        /\ pc[r] # "applyTopUp" =>
            /\ balance[req[r].user] >= Amount(r)
            /\ InRange(balance[req[r].user] - Amount(r))
        /\ \A q \in Requests \ {r} : ~HoldsWallet(q, req[r].user)

\* An id drawn from the sequence is the transaction's own and unused.
IdDrawn(r) ==
    pc[r] = "commit" =>
        /\ oid[r] \in OrderIds /\ oid[r] < nextOrder
        /\ orders[oid[r]] = None
        /\ \A q \in Requests \ {r} : pc[q] = "commit" => oid[q] # oid[r]

\* Rows exist only for ids that were drawn, services and
\* extensions only for orders.
IdsInUse ==
    /\ \A o \in OrderIds : o >= nextOrder => orders[o] = None
    /\ \A s \in services : orders[s] # None
    /\ \A o \in OrderIds : orders[o] = None => ext[o] = 0

IndInv ==
    /\ TypeOK
    /\ \A r \in Requests : WellFormed(r) /\ Checked(r)
    /\ \A r \in Requests : KeyHeld(r)
    /\ \A r \in Requests : WalletHeld(r)
    /\ \A r \in Requests : IdDrawn(r)
    /\ IdsInUse
    /\ OneOrderPerKey
    /\ LedgerBalances
    /\ OneJobPerOrder
    /\ AnswersTruthful

\* Two transactions never both have a key or a wallet, and what was checked
\* under the lock (the key is free, the money is there) is still so when the
\* transaction commits (ReserveTx; DeductTx: "to prevent double-spend").
LocksProtect == \A r \in Requests : KeyHeld(r) /\ WalletHeld(r) /\ IdDrawn(r)

----------------------------------------------------------------------------
\* The abstract purchase of a key row is the order it is linked to.
Bought(k)  == IF idem[k] \in OrderIds THEN orders[idem[k]].item ELSE None
Tickets(k) == IF idem[k] \in OrderIds THEN jobs[idem[k]] ELSE 0
Renewed(k) == IF idem[k] \in OrderIds THEN ext[idem[k]] ELSE 0

P == INSTANCE Purchase WITH
        Rows <- KeyRows,
        CallerRows <- Vendors \X Users \X Keys,
        bought <- [k \in KeyRows |-> Bought(k)],
        tickets <- [k \in KeyRows |-> Tickets(k)],
        renewed <- [k \in KeyRows |-> Renewed(k)]

\* Create, Renew and the top-up, with all their interleavings and failures,
\* implement the atomic purchases of Purchase.
ImplementsPurchase == P!Spec

=============================================================================
