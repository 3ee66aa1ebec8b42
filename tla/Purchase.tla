------------------------------ MODULE Purchase ------------------------------
(***************************************************************************)
(* What the order engine promises, without handlers, transactions, locks,  *)
(* order ids or failures.  A purchase is named by its key row <<vendor,    *)
(* user, key>>: it happens at most once, in one step with the payment and  *)
(* the provisioning ticket, and only out of a wallet that covers it.       *)
(***************************************************************************)
EXTENDS Integers

CONSTANTS Rows,         \* every key row
          CallerRows,   \* key rows whose key a caller chose
          Items, ItemVendor, Price, Active, WalletUsers, TopUps, None

VARIABLES balance,  \* money in each wallet
          bought,   \* the item bought under each key row
          tickets,  \* provisioning tickets issued for it
          renewed   \* how often the service of that purchase was renewed

vars == <<balance, bought, tickets, renewed>>

Init ==
    /\ balance = [u \in WalletUsers |-> 0]
    /\ bought = [k \in Rows |-> None]
    /\ tickets = [k \in Rows |-> 0]
    /\ renewed = [k \in Rows |-> 0]

\* Item i is paid for and booked under the new key row k.
Pay(k, i) ==
    /\ bought[k] = None
    /\ k[2] \in WalletUsers
    /\ balance[k[2]] >= Price[i]
    /\ balance' = [balance EXCEPT ![k[2]] = @ - Price[i]]
    /\ bought' = [bought EXCEPT ![k] = i]
    /\ tickets' = [tickets EXCEPT ![k] = 1]

\* A new purchase: the item is the vendor's and on sale.
Buy(k, i) ==
    /\ ItemVendor[i] = k[1] /\ i \in Active
    /\ Pay(k, i)
    /\ UNCHANGED renewed

\* A renewal of the purchase k0: the same item for the same user again,
\* whether or not it is still on sale.
Renew(k0, k) ==
    /\ bought[k0] # None
    /\ k0[1] = k[1] /\ k0[2] = k[2] /\ k0 # k
    /\ Pay(k, bought[k0])
    /\ renewed' = [renewed EXCEPT ![k0] = @ + 1]

TopUp(u, a) ==
    /\ balance' = [balance EXCEPT ![u] = @ + a]
    /\ UNCHANGED <<bought, tickets, renewed>>

Next ==
    \/ \E k \in CallerRows, i \in Items : Buy(k, i)
    \/ \E k0 \in Rows, k \in Rows \ CallerRows : Renew(k0, k)
    \/ \E u \in WalletUsers, a \in TopUps : TopUp(u, a)

Spec == Init /\ [][Next]_vars

=============================================================================
