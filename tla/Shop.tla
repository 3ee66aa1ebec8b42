-------------------------------- MODULE Shop --------------------------------
(***************************************************************************)
(* The tables behind the pages: vendors and catalog items as they are      *)
(* created, and the orders, payments and services that Purchase and the    *)
(* provisioning worker add to them, each in one step (OrderEngine          *)
(* implements Purchase; the worker's transaction is Provisioned).  Rows    *)
(* are never deleted.  Services that proxy.Service.Provision creates on a  *)
(* vendor's request, which need no order, are left out.                    *)
(*                                                                         *)
(* The ids of a user's ledger rows and orders are drawn while the wallet   *)
(* is locked, so ORDER BY id is the order of the commits: ledger and       *)
(* placed are sequences.                                                   *)
(***************************************************************************)
EXTENDS Integers, Sequences

CONSTANTS
    Rows, CallerRows, Items, ItemVendor, Price, Active, WalletUsers, TopUps,
    None,            \* of Purchase
    Vendors, Users,
    ServiceCatalog,  \* items with a row in service_catalog
    Slug,            \* the slug of a vendor or an item
    ValidSlugs,      \* the slugs that validateSlug accepts
    MaxLedger        \* bound on the ledger of a user

ASSUME ShopAssumption ==
    /\ \A k \in Rows : k[1] \in Vendors /\ k[2] \in Users
    /\ CallerRows \subseteq Rows
    /\ ItemVendor \in [Items -> Vendors]
    /\ ServiceCatalog \subseteq Items
    /\ Price \in [Items -> Int]
    /\ WalletUsers \subseteq Users
    /\ TopUps \subseteq Int
    /\ None \notin Users \cup Items
    /\ MaxLedger \in Nat

VARIABLES
    balance, bought, tickets, renewed,  \* of Purchase
    services,  \* purchases whose service row exists
    vendors,   \* vendors.status, or "none" without a row
    listed,    \* the items with a row in catalog_items
    ledger,    \* wallet_transactions.amount of each user, oldest first
    placed     \* the orders of each user, oldest first

purchases == <<balance, bought, tickets, renewed>>
catalog   == <<vendors, listed>>
shop      == <<purchases, services, catalog, ledger, placed>>

P == INSTANCE Purchase

ShopInit ==
    /\ P!Init
    /\ services = {}
    /\ vendors = [v \in Vendors |-> "none"]
    /\ listed = {}
    /\ ledger = [u \in Users |-> <<>>]
    /\ placed = [u \in Users |-> <<>>]

Pays(u, amount) ==
    /\ Len(ledger[u]) < MaxLedger
    /\ ledger' = [ledger EXCEPT ![u] = Append(@, amount)]

\* POST /api/v1/vendor/create; vendors.slug is UNIQUE.
CreateVendor(v) ==
    /\ vendors[v] = "none"
    /\ \A w \in Vendors : vendors[w] # "none" => Slug[w] # Slug[v]
    /\ vendors' = [vendors EXCEPT ![v] = "active"]
    /\ UNCHANGED <<purchases, services, listed, ledger, placed>>

\* An operator suspends a vendor or lets it go on; no code does.
SetVendor(v, status) ==
    /\ vendors[v] \in {"active", "suspended"} \ {status}
    /\ vendors' = [vendors EXCEPT ![v] = status]
    /\ UNCHANGED <<purchases, services, listed, ledger, placed>>

\* POST /api/v1/vendor/catalog/create; the vendor exists and (vendor_id,
\* slug) is UNIQUE.
CreateItem(i) ==
    /\ i \notin listed /\ vendors[ItemVendor[i]] # "none"
    /\ \A j \in listed : ItemVendor[j] = ItemVendor[i] => Slug[j] # Slug[i]
    /\ listed' = listed \cup {i}
    /\ UNCHANGED <<purchases, services, vendors, ledger, placed>>

\* The commits of Create, Renew and the top-up.  Neither of the first two
\* looks at the vendor's status.
Order(k, i) ==
    /\ Pays(k[2], -Price[i])
    /\ placed' = [placed EXCEPT ![k[2]] = Append(@, k)]
    /\ UNCHANGED <<services, catalog>>

\* The foreign key of orders.catalog_id is on service_catalog, which is not the
\* table of the pages.
Buy(k, i) == i \in listed \cap ServiceCatalog /\ P!Buy(k, i) /\ Order(k, i)

Renew(k0, k) == k0 \in services /\ P!Renew(k0, k) /\ Order(k, bought[k0])

TopUp(u, a) ==
    /\ P!TopUp(u, a)
    /\ Pays(u, a)
    /\ UNCHANGED <<services, catalog, placed>>

\* The worker's transaction for the purchase k.
Provisioned(k) ==
    /\ tickets[k] > 0 /\ k \notin services
    /\ services' = services \cup {k}
    /\ UNCHANGED <<purchases, catalog, ledger, placed>>

ShopNext ==
    \/ \E v \in Vendors : CreateVendor(v)
    \/ \E v \in Vendors, status \in {"active", "suspended"} : SetVendor(v, status)
    \/ \E i \in Items : CreateItem(i)
    \/ \E k \in CallerRows, i \in Items : Buy(k, i)
    \/ \E k0 \in Rows, k \in Rows \ CallerRows : Renew(k0, k)
    \/ \E u \in WalletUsers, a \in TopUps : TopUp(u, a)
    \/ \E k \in Rows : Provisioned(k)

=============================================================================
