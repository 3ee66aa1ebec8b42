------------------------------- MODULE Pages -------------------------------
(***************************************************************************)
(* The pages: dashboard.Handler.Router, storefront.Handler.Router and the  *)
(* order and service queries of the API.  A page is put together from      *)
(* several queries outside any transaction, between which the shop goes    *)
(* on; an error of a query that only fills in a value is ignored and the   *)
(* value stays zero. Pages only read, so one at a time is enough.          *)
(***************************************************************************)
EXTENDS Shop, Sums, SequencesExt, FiniteSets

CONSTANTS
    SummaryLimit, OrdersLimit,  \* LIMIT of ListByUser, 10 and 50
    WalletLimit,                \* LIMIT of ListTransactions, 20
    Faults                      \* whether queries fail

VARIABLES
    page,  \* what was asked for
    todo,  \* the queries that are left
    view   \* what the page shows

session == <<page, todo, view>>
vars    == <<shop, session>>

\* Mutant: the lists are read before what they should account for.
ReadsSwapped ==
    [summary  |-> <<"balance", "orders", "services">>,
     services |-> <<"services">>,
     detail   |-> <<"service">>,
     orders   |-> <<"orders">>,
     wallet   |-> <<"ledger", "balance">>,
     order    |-> <<"order">>,
     get      |-> <<"record">>,
     list     |-> <<"records">>,
     products |-> <<"vendor", "listing">>,
     product  |-> <<"vendor", "item">>,
     checkout |-> <<"vendor", "item", "balance">>,
     result   |-> <<"vendor">>]

\* The queries of each page, in the order the handlers make them.
Reads ==
    [summary  |-> <<"balance", "services", "orders">>,
     services |-> <<"services">>,
     detail   |-> <<"service">>,
     orders   |-> <<"orders">>,
     wallet   |-> <<"balance", "ledger">>,
     order    |-> <<"order">>,
     get      |-> <<"record">>,
     list     |-> <<"records">>,
     products |-> <<"vendor", "listing">>,
     product  |-> <<"vendor", "item">>,
     checkout |-> <<"vendor", "item", "balance">>,
     result   |-> <<"vendor">>]

Ask(kinds, users, roles, rows, vs, is) ==
    [kind: kinds, user: users, role: roles, row: rows, vendor: vs, item: is]

\* A caller of a personal page is the user of its token; the role counts for
\* the order query only.  The service queries name a vendor and a user and
\* ask for no token; a store page may come without one.
Request ==
    LET names == {Slug[v] : v \in Vendors} IN
    UNION {Ask({"summary", "services", "orders", "wallet"},
               Users, {"user"}, {None}, {None}, {None}),
           Ask({"detail", "order"}, Users, {"user", "vendor"}, Rows, {None}, {None}),
           Ask({"get"}, {None}, {"vendor"}, Rows, Vendors, {None}),
           Ask({"list"}, Users, {"vendor"}, {None}, Vendors, {None}),
           Ask({"products", "result"}, {None}, {"user"}, {None}, names, {None}),
           Ask({"product", "checkout"}, Users \cup {None}, {"user"}, {None},
               names, {Slug[i] : i \in Items})}

ASSUME PagesAssumption ==
    /\ {SummaryLimit, OrdersLimit, WalletLimit} \subseteq Nat
    /\ Faults \in BOOLEAN
    /\ None \notin Request

\* Go's zero values.
Blank == [balance |-> 0, services |-> {}, service |-> None, orders |-> {},
          order |-> None, record |-> None, records |-> {}, ledger |-> <<>>,
          vendor |-> None, item |-> None, listing |-> {}, ok |-> TRUE]

\* The newest n members of a sequence.
Newest(s, n) == SubSeq(s, IF Len(s) > n THEN Len(s) - n + 1 ELSE 1, Len(s))

----------------------------------------------------------------------------
\* The queries.  None: no such row.

The(S) == IF S = {} THEN None ELSE CHOOSE x \in S : TRUE

GetVendorBySlug(slug) ==
    The({v \in Vendors : /\ vendors[v] # "none" /\ Slug[v] = slug
                         /\ slug \in ValidSlugs})

\* Mutant: the product is looked up by its slug alone.
GetProductAnywhere(v, slug) ==
    The({i \in listed : Slug[i] = slug /\ slug \in ValidSlugs})

GetProduct(v, slug) ==
    The({i \in listed : ItemVendor[i] = v /\ Slug[i] = slug /\ slug \in ValidSlugs})

ListProducts(v) == {i \in listed : ItemVendor[i] = v}

Balance(u) == IF u \in WalletUsers THEN balance[u] ELSE 0

ListAllByUser(u) == {k \in services : k[2] = u}

ByIDForUser(k, u) == The({j \in services : j = k /\ j[2] = u})

ByID(v, k) == The({j \in services : j = k /\ j[1] = v})

ListByVendorAndUser(v, u) == {k \in services : k[1] = v /\ k[2] = u}

ListByUser(u, limit) == ToSet(Newest(placed[u], limit))

\* Mutant: the LIMIT is forgotten.
ListTransactionsAll(u, limit) == ledger[u]

ListTransactions(u, limit) == Newest(ledger[u], limit)

\* The order query finds an order of any user and then refuses a "user" who
\* is not its owner.
GetOrder(k, u, role) ==
    The({j \in Rows : j = k /\ bought[j] # None /\ (role = "user" => j[2] = u)})

\* A vendor that is suspended and a product that is not active are reported
\* as not found.
ActiveVendor(slug) ==
    LET v == GetVendorBySlug(slug)
    IN IF v # None /\ vendors[v] = "active" THEN v ELSE None

ActiveItem(v, slug) ==
    LET i == GetProduct(v, slug)
    IN IF i \in Active THEN i ELSE None

Answer(query) ==
    CASE query = "balance"  -> Balance(page.user)
      [] query = "services" -> ListAllByUser(page.user)
      [] query = "service"  -> ByIDForUser(page.row, page.user)
      [] query = "orders"   -> ListByUser(page.user, IF page.kind = "summary"
                                                     THEN SummaryLimit ELSE OrdersLimit)
      [] query = "order"    -> GetOrder(page.row, page.user, page.role)
      [] query = "record"   -> ByID(page.vendor, page.row)
      [] query = "records"  -> ListByVendorAndUser(page.vendor, page.user)
      [] query = "ledger"   -> ListTransactions(page.user, WalletLimit)
      [] query = "vendor"   -> ActiveVendor(page.vendor)
      [] query = "item"     -> ActiveItem(view.vendor, page.item)
      [] query = "listing"  -> ListProducts(view.vendor)

\* The queries without whose answer the page ends as "not found" or as an
\* error.
Needed == {"vendor", "item", "service", "order", "record", "records"}

----------------------------------------------------------------------------
Init ==
    /\ ShopInit
    /\ page = None
    /\ todo = <<>>
    /\ view = Blank

\* A request is routed.
Open ==
    /\ todo = <<>>
    /\ page' \in Request
    /\ todo' = Reads[page'.kind]
    /\ view' = Blank
    /\ UNCHANGED shop

\* The next query, answered.  The checkout page of a caller without a valid
\* token is a login prompt and asks for no balance.
Query ==
    /\ todo # <<>>
    /\ view' = [view EXCEPT ![Head(todo)] = Answer(Head(todo))]
    /\ todo' = IF \/ Head(todo) \in Needed /\ view'[Head(todo)] = None
                  \/ page.user = None /\ Tail(todo) = <<"balance">>
               THEN <<>> ELSE Tail(todo)
    /\ UNCHANGED <<shop, page>>

\* The next query, failed.
QueryFails ==
    /\ Faults /\ todo # <<>>
    /\ view' = [view EXCEPT !.ok = FALSE]
    /\ todo' = IF Head(todo) \in Needed THEN <<>> ELSE Tail(todo)
    /\ UNCHANGED <<shop, page>>

Next == Open \/ Query \/ QueryFails \/ (ShopNext /\ UNCHANGED session)

Spec == Init /\ [][Next]_vars

----------------------------------------------------------------------------
Fields  == DOMAIN Blank
Queries == Fields \ {"ok"}

TypeOK ==
    /\ balance \in [WalletUsers -> Int]
    /\ bought \in [Rows -> Items \cup {None}]
    /\ tickets \in [Rows -> {0, 1}]
    /\ services \in SUBSET Rows
    /\ listed \in SUBSET Items
    /\ ledger \in [Users -> Seq(Int)] /\ placed \in [Users -> Seq(Rows)]
    /\ \A u \in Users : Len(ledger[u]) <= MaxLedger
    /\ page \in Request \cup {None}
    /\ todo \in Seq(Queries)
    /\ view = [f \in Fields |-> view[f]] /\ view.ok \in BOOLEAN
    /\ view.balance \in Int
    /\ view.services \in SUBSET Rows /\ view.orders \in SUBSET Rows
    /\ view.ledger \in Seq(Int) /\ Len(view.ledger) <= WalletLimit

\* Whether a complete page of this kind is on the screen.
Shows(kind) == page # None /\ page.kind = kind /\ todo = <<>> /\ view.ok

Total(s) == SumTo(s, Len(s))

\* Although the queries of a page see different states of the shop, the page
\* makes sense as long as its list is not cut off: every service on the
\* summary has its order there, the balance on the wallet page is what the
\* oldest entries under it add up to, and no row is another user's or another
\* vendor's (Router reads what is derived before what it is derived from).
PagesCoherent ==
    /\ Shows("summary") /\ Cardinality(view.orders) < SummaryLimit =>
        view.services \subseteq view.orders
    /\ Shows("wallet") /\ Len(view.ledger) < WalletLimit =>
        \E n \in 0..Len(view.ledger) : view.balance = Total(SubSeq(view.ledger, 1, n))
    /\ page # None /\ page.role = "user" =>
        \A k \in view.services \cup view.orders \cup ({view.order, view.service} \ {None}) :
            k[2] = page.user
    /\ page # None /\ page.kind \in {"get", "list"} =>
        \A k \in view.records \cup ({view.record} \ {None}) : k[1] = page.vendor

\* What Service.Create, DeductTx and the foreign key of the new row ask for.
CanBuy(v, u, i) ==
    /\ i \in listed /\ ItemVendor[i] = v /\ i \in Active /\ i \in ServiceCatalog
    /\ u \in WalletUsers /\ balance[u] >= Price[i]

\* Although vendor, product and balance are read one after the other, and any
\* of them may have changed since, the page's CanAfford is what an order of the
\* product it shows will meet (Router, "checkout").  Four cases are left out in
\* which it is wrong: the wallet has lost (or won) money since it was read; the
\* read of the balance failed and 0 is shown; the caller has no wallet and the
\* product costs nothing, which DeductTx refuses; and the product has no row in
\* service_catalog, where no order of it is ever accepted.
CheckoutSound ==
    LET u == page.user
        i == view.item
        CanAfford == view.balance >= Price[i]
    IN page # None /\ page.kind = "checkout" /\ todo = <<>> /\ i # None /\ u # None =>
        /\ /\ i \in ServiceCatalog
           /\ \/ u \in WalletUsers /\ balance[u] >= view.balance
              \/ u \notin WalletUsers /\ Price[i] > 0
           => (CanAfford => CanBuy(view.vendor, u, i))
        /\ u \in WalletUsers /\ balance[u] <= view.balance /\ view.ok =>
            (~CanAfford => ~CanBuy(view.vendor, u, i))

----------------------------------------------------------------------------
\* The inductive invariant.

\* A service and a ticket have their purchase, and the orders of a user are
\* the user's purchases, each once.
OrdersComplete ==
    /\ \A k \in Rows : k \in services \/ tickets[k] > 0 => bought[k] # None
    /\ \A k \in Rows : bought[k] # None =>
        \E i \in 1..Len(placed[k[2]]) : placed[k[2]][i] = k
    /\ \A u \in Users : \A i \in 1..Len(placed[u]) :
        /\ bought[placed[u][i]] # None /\ placed[u][i][2] = u
        /\ \A j \in 1..Len(placed[u]) : placed[u][i] = placed[u][j] => i = j

\* The balance of a wallet is the sum of its ledger.
WalletsBalance == \A u \in WalletUsers : balance[u] = Total(ledger[u])

\* The rows a page has read are its user's or its vendor's.
RowsOwned ==
    /\ \A k \in view.services \cup view.orders : k[2] = page.user
    /\ view.service # None => view.service[2] = page.user
    /\ view.order # None /\ page.role = "user" => view.order[2] = page.user
    /\ \A k \in view.records : k[1] = page.vendor
    /\ view.record # None => view.record[1] = page.vendor

\* What the summary has read when its next query is made: the services are
\* still there when the orders are read.
SummaryRead ==
    /\ page.user \in Users
    /\ view.services \subseteq services
    /\ todo \in {Reads.summary, <<"services", "orders">>, <<"orders">>, <<>>}
    /\ todo = <<>> /\ view.ok /\ Cardinality(view.orders) < SummaryLimit =>
        view.services \subseteq view.orders

\* The same for the wallet page: the balance is that of an earlier ledger.
WalletRead ==
    /\ page.user \in Users
    /\ todo \in {Reads.wallet, <<"ledger">>, <<>>}
    /\ todo # <<>> =>
        \E n \in 0..Len(ledger[page.user]) : view.balance = SumTo(ledger[page.user], n)
    /\ todo = <<>> /\ view.ok /\ Len(view.ledger) < WalletLimit =>
        \E n \in 0..Len(view.ledger) : view.balance = SumTo(view.ledger, n)

\* The same for the checkout page: the product is the vendor's and on sale.
CheckoutRead ==
    /\ todo \in {Reads.checkout, <<"item", "balance">>, <<"balance">>, <<>>}
    /\ view.item # None =>
        /\ todo \in {<<"balance">>, <<>>}
        /\ view.item \in listed \cap Active /\ ItemVendor[view.item] = view.vendor
    /\ page.user \notin WalletUsers => view.balance = 0

IndInv ==
    /\ TypeOK
    /\ OrdersComplete
    /\ WalletsBalance
    /\ page # None =>
        /\ RowsOwned
        /\ page.kind = "summary" => SummaryRead
        /\ page.kind = "wallet" => WalletRead
        /\ page.kind = "checkout" => CheckoutRead
    /\ page = None => todo = <<>>
    /\ \A i \in 1..Len(todo) : todo[i] \in {"orders", "ledger"} => page.user \in Users

=============================================================================
