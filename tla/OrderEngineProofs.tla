------------------------- MODULE OrderEngineProofs -------------------------
(***************************************************************************)
(* Proofs about OrderEngine for every number of handlers, users, keys and  *)
(* orders.  IndInv is inductive: one lemma per action shows that the       *)
(* action preserves each of its parts.  The safety theorems follow from    *)
(* it, and so does the refinement of Purchase.                             *)
(***************************************************************************)
EXTENDS OrderEngine, FiniteSetTheorems, WellFoundedInduction, TLAPS

\* An empty database with idle handlers satisfies the invariant.
LEMMA InitIndInv == Init => IndInv
<1> SUFFICES ASSUME Init PROVE IndInv
  OBVIOUS
<1> USE DataAssumption, BoundAssumption, KeyAssumption DEF Init
<1>1. TypeOK
  BY DEF TypeOK, States, TxStates, Answered, NoRequest, Ask, Request, Absent, OrderIds
<1>2. \A r \in Requests : WellFormed(r) /\ Checked(r)
  BY DEF WellFormed, Checked, InOrderTx, NoRequest, Ask
<1>3. \A r \in Requests : KeyHeld(r) /\ WalletHeld(r) /\ IdDrawn(r)
  BY DEF KeyHeld, WalletHeld, IdDrawn
<1>4. IdsInUse
  BY DEF IdsInUse
<1>5. OneOrderPerKey
  BY DEF OneOrderPerKey
<1>6. LedgerBalances
  BY DEF LedgerBalances, InRange
<1>7. OneJobPerOrder
  BY DEF OneJobPerOrder
<1>8. AnswersTruthful
  BY DEF AnswersTruthful
<1>9. QED
  BY <1>1, <1>2, <1>3, <1>4, <1>5, <1>6, <1>7, <1>8 DEF IndInv

\* Create receives a request: only the handler's own state changes.
LEMMA CreateOrderInd ==
    ASSUME IndInv, NEW r \in Requests, CreateOrder(r)
    PROVE  IndInv'
<1> USE IndInv DEF IndInv
<1>1. PICK v \in Vendors, u \in Users, i \in Items, k \in Keys \cup {None} :
        /\ pc[r] = "idle"
        /\ req' = [req EXCEPT ![r] = Ask("create", v, u, i, k, 0, 0)]
        /\ IF k = None THEN Fail(r) ELSE Goto(r, "resolve")
        /\ UNCHANGED <<oid, stale, wallet, tables, nextOrder, notified>>
  BY DEF CreateOrder
<1> USE <1>1 DEF Fail, Goto, Ask
<1>2. TypeOK'
  <2>1. Ask("create", v, u, i, k, 0, 0) \in Request
    BY BoundAssumption DEF Request, AllKeys
  <2>2. req' \in [Requests -> Request]
    BY <2>1 DEF TypeOK
  <2>3. pc' \in [Requests -> States]
    BY DEF TypeOK, States, Waiting, Answered
  <2>4. QED
    BY <2>2, <2>3 DEF TypeOK, wallet, tables
<1>3. \A q \in Requests : WellFormed(q)' /\ Checked(q)'
  BY KeyAssumption, DataAssumption DEF TypeOK, WellFormed, Checked, InOrderTx,
     NoRequest, Row, KeyRows, AllKeys, tables
<1>4. \A q \in Requests : KeyHeld(q)'
  BY DEF TypeOK, KeyHeld, HoldsKey, Row, tables
<1>5. \A q \in Requests : WalletHeld(q)'
  BY DEF TypeOK, WalletHeld, HoldsWallet, Amount, wallet
<1>6. \A q \in Requests : IdDrawn(q)'
  BY DEF TypeOK, IdDrawn, tables
<1>7. IdsInUse' /\ OneOrderPerKey' /\ LedgerBalances' /\ OneJobPerOrder'
  BY DEF IdsInUse, OneOrderPerKey, RowOf, LedgerBalances, OneJobPerOrder,
     wallet, tables
<1>8. AnswersTruthful'
  BY DEF TypeOK, AnswersTruthful, RowOf, Row, Amount, tables
<1>9. QED
  BY <1>2, <1>3, <1>4, <1>5, <1>6, <1>7, <1>8

\* Renew receives a request: only the handler's own state changes.
LEMMA RenewStartInd ==
    ASSUME IndInv, NEW r \in Requests, RenewStart(r)
    PROVE  IndInv'
<1> USE IndInv DEF IndInv
<1>1. PICK u \in Users, s \in 0..MaxOrders :
        /\ pc[r] = "idle"
        /\ req' = [req EXCEPT ![r] = Ask("renew", None, u, None, None, s, 0)]
        /\ pc' = [pc EXCEPT ![r] = "begin"]
        /\ UNCHANGED <<oid, stale, wallet, tables, nextOrder, notified>>
  BY DEF RenewStart, Goto
<1> USE <1>1 DEF Ask
<1>2. TypeOK'
  BY BoundAssumption DEF TypeOK, States, Waiting, Answered, NoRequest, Request,
     wallet, tables
<1>3. \A q \in Requests : WellFormed(q)' /\ Checked(q)'
  BY KeyAssumption, DataAssumption DEF TypeOK, WellFormed, Checked, InOrderTx,
     NoRequest, Row, KeyRows, AllKeys, tables
<1>4. \A q \in Requests : KeyHeld(q)'
  BY DEF TypeOK, KeyHeld, HoldsKey, Row, tables
<1>5. \A q \in Requests : WalletHeld(q)'
  BY DEF TypeOK, WalletHeld, HoldsWallet, Amount, wallet
<1>6. \A q \in Requests : IdDrawn(q)'
  BY DEF TypeOK, IdDrawn, tables
<1>7. IdsInUse' /\ OneOrderPerKey' /\ LedgerBalances' /\ OneJobPerOrder'
  BY DEF IdsInUse, OneOrderPerKey, RowOf, LedgerBalances, OneJobPerOrder,
     wallet, tables
<1>8. AnswersTruthful'
  BY DEF TypeOK, AnswersTruthful, RowOf, Row, Amount, tables
<1>9. QED
  BY <1>2, <1>3, <1>4, <1>5, <1>6, <1>7, <1>8

\* The top-up handler receives a request.
LEMMA TopUpStartInd ==
    ASSUME IndInv, NEW r \in Requests, TopUpStart(r)
    PROVE  IndInv'
<1> USE IndInv DEF IndInv
<1>1. PICK u \in Users, a \in TopUps :
        /\ pc[r] = "idle"
        /\ req' = [req EXCEPT ![r] = Ask("topup", None, u, None, None, 0, a)]
        /\ pc' = [pc EXCEPT ![r] = "begin"]
        /\ UNCHANGED <<oid, stale, wallet, tables, nextOrder, notified>>
  BY DEF TopUpStart, Goto
<1> USE <1>1 DEF Ask
<1>2. TypeOK'
  <2>1. Ask("topup", None, u, None, None, 0, a) \in Request
    BY BoundAssumption DEF Request
  <2>2. req' \in [Requests -> Request]
    BY <2>1 DEF TypeOK
  <2>3. pc' \in [Requests -> States]
    BY DEF TypeOK, States, Waiting
  <2>4. QED
    BY <2>2, <2>3 DEF TypeOK, wallet, tables
<1>3. \A q \in Requests : WellFormed(q)' /\ Checked(q)'
  BY KeyAssumption, DataAssumption DEF TypeOK, WellFormed, Checked, InOrderTx,
     NoRequest, Row, KeyRows, AllKeys, tables
<1>4. \A q \in Requests : KeyHeld(q)'
  BY DEF TypeOK, KeyHeld, HoldsKey, Row, tables
<1>5. \A q \in Requests : WalletHeld(q)'
  BY DEF TypeOK, WalletHeld, HoldsWallet, Amount, wallet
<1>6. \A q \in Requests : IdDrawn(q)'
  BY DEF TypeOK, IdDrawn, tables
<1>7. IdsInUse' /\ OneOrderPerKey' /\ LedgerBalances' /\ OneJobPerOrder'
  BY DEF IdsInUse, OneOrderPerKey, RowOf, LedgerBalances, OneJobPerOrder,
     wallet, tables
<1>8. AnswersTruthful'
  BY DEF TypeOK, AnswersTruthful, RowOf, Row, Amount, tables
<1>9. QED
  BY <1>2, <1>3, <1>4, <1>5, <1>6, <1>7, <1>8

\* The fast path answers with the committed order of the key, so the
\* duplicate answer is truthful.
LEMMA ResolveInd ==
    ASSUME IndInv, NEW r \in Requests, Resolve(r)
    PROVE  IndInv'
<1> USE IndInv DEF IndInv
<1> USE Resolve(r) DEF Resolve, Fail, Goto
<1> DEFINE existing == idem[Row(r)]
<1>1. pc[r] = "resolve" /\ Row(r) \in KeyRows
  BY DEF WellFormed
<1>a. existing \notin {Absent, Null} =>
        /\ existing \in OrderIds
        /\ orders[existing] # None /\ RowOf(existing) = Row(r)
  BY <1>1 DEF OneOrderPerKey
<1>2. TypeOK'
  <2>1. oid' \in [Requests -> 0..MaxOrders]
    <3>1. CASE existing \in {Absent, Null}
      BY <3>1 DEF TypeOK
    <3>2. CASE existing \notin {Absent, Null}
      <4>1. existing \in 0..MaxOrders
        BY <1>a, <3>2 DEF OrderIds
      <4>2. QED
        BY <3>2, <4>1 DEF TypeOK
    <3>3. QED
      BY <3>1, <3>2
  <2>2. pc' \in [Requests -> States]
    BY DEF TypeOK, States, Waiting, Answered
  <2>3. QED
    BY <2>1, <2>2 DEF TypeOK, wallet, tables
<1>3. \A q \in Requests : WellFormed(q)' /\ Checked(q)'
  <2>1. /\ pc'[r] \in {"validate", "dup", "err"}
        /\ \A q \in Requests \ {r} : pc'[q] = pc[q]
    BY DEF TypeOK
  <2>2. req' = req /\ orders' = orders /\ services' = services
    BY DEF tables
  <2>3. WellFormed(r)' /\ Checked(r)'
    BY <1>1, <2>1, <2>2 DEF WellFormed, Checked, InOrderTx, Row
  <2>4. \A q \in Requests \ {r} : WellFormed(q)' /\ Checked(q)'
    BY <2>1, <2>2 DEF WellFormed, Checked, Row
  <2>5. QED
    BY <2>3, <2>4
<1>4. \A q \in Requests : KeyHeld(q)'
  BY DEF TypeOK, KeyHeld, HoldsKey, Row, tables
<1>5. \A q \in Requests : WalletHeld(q)'
  BY DEF TypeOK, WalletHeld, HoldsWallet, Amount, wallet
<1>6. \A q \in Requests : IdDrawn(q)'
  BY DEF TypeOK, IdDrawn, tables
<1>7. IdsInUse' /\ OneOrderPerKey' /\ LedgerBalances' /\ OneJobPerOrder'
  BY DEF IdsInUse, OneOrderPerKey, RowOf, LedgerBalances, OneJobPerOrder,
     wallet, tables
<1>8. AnswersTruthful'
  <2>1. CASE existing \in {Absent, Null}
    BY <2>1, <1>1 DEF TypeOK, AnswersTruthful, RowOf, Row, Amount, tables
  <2>2. CASE existing \notin {Absent, Null}
    BY <2>2, <1>1, <1>a DEF TypeOK, AnswersTruthful, RowOf, Row, Amount, tables
  <2>3. QED
    BY <2>1, <2>2
<1>9. QED
  BY <1>2, <1>3, <1>4, <1>5, <1>6, <1>7, <1>8

\* The catalog checks establish Checked for Create.
LEMMA ValidateInd ==
    ASSUME IndInv, NEW r \in Requests, Validate(r)
    PROVE  IndInv'
<1> USE IndInv DEF IndInv
<1> USE Validate(r) DEF Validate, Fail, Goto
<1>2. TypeOK'
  BY BoundAssumption DEF TypeOK, States, TxStates, Answered, NoRequest, Request,
     wallet, tables
<1>3. \A q \in Requests : WellFormed(q)' /\ Checked(q)'
  BY KeyAssumption, DataAssumption DEF TypeOK, WellFormed, Checked, InOrderTx,
     Row, CatalogGet, tables
<1>4. \A q \in Requests : KeyHeld(q)'
  BY DEF TypeOK, KeyHeld, HoldsKey, Row, tables
<1>5. \A q \in Requests : WalletHeld(q)'
  BY DEF TypeOK, WalletHeld, HoldsWallet, Amount, wallet
<1>6. \A q \in Requests : IdDrawn(q)'
  BY DEF TypeOK, IdDrawn, tables
<1>7. IdsInUse' /\ OneOrderPerKey' /\ LedgerBalances' /\ OneJobPerOrder'
  BY DEF IdsInUse, OneOrderPerKey, RowOf, LedgerBalances, OneJobPerOrder,
     wallet, tables
<1>8. AnswersTruthful'
  BY DEF TypeOK, AnswersTruthful, RowOf, Row, Amount, tables
<1>9. QED
  BY <1>2, <1>3, <1>4, <1>5, <1>6, <1>7, <1>8

\* A connection is found and the transaction begins.
LEMMA BeginInd ==
    ASSUME IndInv, NEW r \in Requests, Begin(r)
    PROVE  IndInv'
<1> USE IndInv DEF IndInv
<1> USE Begin(r) DEF Begin, Fail, Goto
<1>2. TypeOK'
  BY BoundAssumption DEF TypeOK, States, TxStates, Answered, wallet, tables
<1>3. \A q \in Requests : WellFormed(q)' /\ Checked(q)'
  BY KeyAssumption, DataAssumption DEF TypeOK, WellFormed, Checked, InOrderTx,
     Row, KeyRows, AllKeys, tables
<1>4. \A q \in Requests : KeyHeld(q)'
  BY DEF TypeOK, KeyHeld, HoldsKey, Row, tables
<1>5. \A q \in Requests : WalletHeld(q)'
  BY DEF TypeOK, WalletHeld, HoldsWallet, Amount, wallet
<1>6. \A q \in Requests : IdDrawn(q)'
  BY DEF TypeOK, IdDrawn, tables
<1>7. IdsInUse' /\ OneOrderPerKey' /\ LedgerBalances' /\ OneJobPerOrder'
  BY DEF IdsInUse, OneOrderPerKey, RowOf, LedgerBalances, OneJobPerOrder,
     wallet, tables
<1>8. AnswersTruthful'
  BY DEF TypeOK, AnswersTruthful, RowOf, Row, Amount, tables
<1>9. QED
  BY <1>2, <1>3, <1>4, <1>5, <1>6, <1>7, <1>8

\* The locked service is the caller's own.
LEMMA LockServiceInd ==
    ASSUME IndInv, NEW r \in Requests, LockService(r)
    PROVE  IndInv'
<1> USE IndInv DEF IndInv
<1> USE LockService(r) DEF LockService, Fail, Goto
<1>2. TypeOK'
  BY BoundAssumption DEF TypeOK, States, TxStates, Answered, wallet, tables
<1>3. \A q \in Requests : WellFormed(q)' /\ Checked(q)'
  BY KeyAssumption, DataAssumption DEF TypeOK, WellFormed, Checked, InOrderTx,
     Row, KeyRows, AllKeys, tables
<1>4. \A q \in Requests : KeyHeld(q)'
  BY DEF TypeOK, KeyHeld, HoldsKey, Row, tables
<1>5. \A q \in Requests : WalletHeld(q)'
  BY DEF TypeOK, WalletHeld, HoldsWallet, Amount, wallet
<1>6. \A q \in Requests : IdDrawn(q)'
  BY DEF TypeOK, IdDrawn, tables
<1>7. IdsInUse' /\ OneOrderPerKey' /\ LedgerBalances' /\ OneJobPerOrder'
  BY DEF IdsInUse, OneOrderPerKey, RowOf, LedgerBalances, OneJobPerOrder,
     wallet, tables
<1>8. AnswersTruthful'
  BY DEF TypeOK, AnswersTruthful, RowOf, Row, Amount, tables
<1>9. QED
  BY <1>2, <1>3, <1>4, <1>5, <1>6, <1>7, <1>8

\* Reading the order of the locked service establishes Checked for Renew.
LEMMA ReadPriceInd ==
    ASSUME IndInv, NEW r \in Requests, ReadPrice(r)
    PROVE  IndInv'
<1> USE IndInv DEF IndInv
<1> USE ReadPrice(r) DEF ReadPrice, Fail, Goto
<1> DEFINE s == req[r].svc
<1>1. /\ s \in services /\ orders[s].user = req[r].user
      /\ s \in OrderIds /\ orders[s] \in Order
  BY DEF TypeOK, IdsInUse, Checked
<1>a. ASSUME UNCHANGED req, pc' = [pc EXCEPT ![r] = "err"]
      PROVE  TypeOK' /\ \A q \in Requests : WellFormed(q)' /\ Checked(q)'
  <2>1. TypeOK'
    BY <1>a DEF TypeOK, States, Answered, wallet, tables
  <2>2. \A q \in Requests : WellFormed(q)' /\ Checked(q)'
    BY <1>a DEF TypeOK, WellFormed, Checked, InOrderTx, Row, tables
  <2>3. QED
    BY <2>1, <2>2
<1>b. ASSUME NEW t \in Stamps,
             pc' = [pc EXCEPT ![r] = "reserve"],
             req' = [req EXCEPT ![r] =
                       Ask("renew", orders[s].vendor, req[r].user,
                           orders[s].item, <<s, t>>, s, 0)]
      PROVE  TypeOK' /\ \A q \in Requests : WellFormed(q)' /\ Checked(q)'
  <2>1. /\ orders[s].vendor \in Vendors /\ orders[s].item \in Items
        /\ <<s, t>> \in AllKeys /\ req[r].user \in Users
        /\ s \in 0..MaxOrders
    BY <1>1, <1>b DEF WellFormed, Order, OrderIds, AllKeys, RenewKeys
  <2>2. Ask("renew", orders[s].vendor, req[r].user,
            orders[s].item, <<s, t>>, s, 0) \in Request
    BY <2>1 DEF Ask, Request
  <2>3. TypeOK'
    BY <1>b, <2>2 DEF TypeOK, States, TxStates, wallet, tables
  <2>4. WellFormed(r)' /\ Checked(r)'
    BY <1>1, <1>b, <2>1 DEF TypeOK, WellFormed, Checked, InOrderTx, Row, KeyRows, Ask, tables
  <2>5. \A q \in Requests \ {r} : WellFormed(q)' /\ Checked(q)'
    <3>1. \A q \in Requests \ {r} : pc'[q] = pc[q] /\ req'[q] = req[q]
      BY <1>b DEF TypeOK
    <3>2. orders' = orders /\ services' = services
      BY DEF tables
    <3>3. QED
      BY <3>1, <3>2 DEF WellFormed, Checked, Row
  <2>6. QED
    BY <2>3, <2>4, <2>5
<1>c. TypeOK' /\ \A q \in Requests : WellFormed(q)' /\ Checked(q)'
  BY <1>a, <1>b
<1>2. TypeOK'
  BY <1>c
<1>3. \A q \in Requests : WellFormed(q)' /\ Checked(q)'
  BY <1>c
<1>4. \A q \in Requests : KeyHeld(q)'
  BY DEF TypeOK, KeyHeld, HoldsKey, Row, Ask, tables
<1>5. \A q \in Requests : WalletHeld(q)'
  BY DEF TypeOK, WalletHeld, HoldsWallet, Amount, Ask, wallet
<1>6. \A q \in Requests : IdDrawn(q)'
  BY DEF TypeOK, IdDrawn, tables
<1>7. IdsInUse' /\ OneOrderPerKey' /\ LedgerBalances' /\ OneJobPerOrder'
  BY DEF IdsInUse, OneOrderPerKey, RowOf, LedgerBalances, OneJobPerOrder,
     wallet, tables
<1>8. AnswersTruthful'
  <2>1. pc'[r] \in {"reserve", "err"}
    BY DEF TypeOK
  <2>2. \A q \in Requests \ {r} : pc'[q] = pc[q] /\ req'[q] = req[q]
    BY DEF TypeOK
  <2>3. QED
    BY <2>1, <2>2 DEF AnswersTruthful, RowOf, Row, Amount, tables
<1>9. QED
  BY <1>2, <1>3, <1>4, <1>5, <1>6, <1>7, <1>8

\* The unique index makes the reserved key free and exclusive.
LEMMA ReserveInd ==
    ASSUME IndInv, NEW r \in Requests, Reserve(r)
    PROVE  IndInv'
<1> USE IndInv DEF IndInv
<1> USE Reserve(r) DEF Reserve, Fail, Goto
<1>2. TypeOK'
  BY BoundAssumption DEF TypeOK, States, TxStates, Answered, NoRequest, Request,
     wallet, tables
<1>3. \A q \in Requests : WellFormed(q)' /\ Checked(q)'
  BY KeyAssumption, DataAssumption DEF TypeOK, WellFormed, Checked, InOrderTx,
     NoRequest, Row, KeyRows, AllKeys, tables
<1>4. \A q \in Requests : KeyHeld(q)'
  BY DEF TypeOK, KeyHeld, HoldsKey, Row, tables
<1>5. \A q \in Requests : WalletHeld(q)'
  BY DEF TypeOK, WalletHeld, HoldsWallet, Amount, wallet
<1>6. \A q \in Requests : IdDrawn(q)'
  BY DEF TypeOK, IdDrawn, tables
<1>7. IdsInUse' /\ OneOrderPerKey' /\ LedgerBalances' /\ OneJobPerOrder'
  BY DEF IdsInUse, OneOrderPerKey, RowOf, LedgerBalances, OneJobPerOrder,
     wallet, tables
<1>8. AnswersTruthful'
  BY DEF TypeOK, AnswersTruthful, RowOf, Row, Amount, tables
<1>9. QED
  BY <1>2, <1>3, <1>4, <1>5, <1>6, <1>7, <1>8

\* The row lock makes the checked balance exclusive.
LEMMA DeductInd ==
    ASSUME IndInv, NEW r \in Requests, Deduct(r)
    PROVE  IndInv'
<1> USE IndInv DEF IndInv
<1> USE Deduct(r) DEF Deduct, Fail, Goto
<1>2. TypeOK'
  BY BoundAssumption DEF TypeOK, States, TxStates, Answered, NoRequest, Request,
     wallet, tables
<1>3. \A q \in Requests : WellFormed(q)' /\ Checked(q)'
  BY KeyAssumption, DataAssumption DEF TypeOK, WellFormed, Checked, InOrderTx,
     NoRequest, Row, KeyRows, AllKeys, tables
<1>4. \A q \in Requests : KeyHeld(q)'
  BY DEF TypeOK, KeyHeld, HoldsKey, Row, tables
<1>5. \A q \in Requests : WalletHeld(q)'
  BY DEF TypeOK, WalletHeld, HoldsWallet, Amount, wallet
<1>6. \A q \in Requests : IdDrawn(q)'
  BY DEF TypeOK, IdDrawn, tables
<1>7. IdsInUse' /\ OneOrderPerKey' /\ LedgerBalances' /\ OneJobPerOrder'
  BY DEF IdsInUse, OneOrderPerKey, RowOf, LedgerBalances, OneJobPerOrder,
     wallet, tables
<1>8. AnswersTruthful'
  BY DEF TypeOK, AnswersTruthful, RowOf, Row, Amount, tables
<1>9. QED
  BY <1>2, <1>3, <1>4, <1>5, <1>6, <1>7, <1>8

\* An id drawn from the sequence is new.
LEMMA InsertOrderInd ==
    ASSUME IndInv, NEW r \in Requests, InsertOrder(r)
    PROVE  IndInv'
<1> USE IndInv DEF IndInv
<1> USE InsertOrder(r) DEF InsertOrder, Fail, Goto
<1>2. TypeOK'
  <2>1. CASE nextOrder \in OrderIds
    <3>1. nextOrder' \in 1..(MaxOrders + 1) /\ nextOrder \in 0..MaxOrders
      BY <2>1, BoundAssumption DEF OrderIds
    <3>2. oid' \in [Requests -> 0..MaxOrders]
      BY <2>1, <3>1 DEF TypeOK
    <3>3. pc' \in [Requests -> States]
      BY <2>1 DEF TypeOK, States, TxStates, Answered
    <3>4. QED
      BY <3>1, <3>2, <3>3 DEF TypeOK, wallet, tables
  <2>2. CASE nextOrder \notin OrderIds
    BY <2>2 DEF TypeOK, States, Answered, wallet, tables
  <2>3. QED
    BY <2>1, <2>2
<1>3. \A q \in Requests : WellFormed(q)' /\ Checked(q)'
  BY KeyAssumption, DataAssumption DEF TypeOK, WellFormed, Checked, InOrderTx,
     NoRequest, Row, KeyRows, AllKeys, tables
<1>4. \A q \in Requests : KeyHeld(q)'
  BY DEF TypeOK, KeyHeld, HoldsKey, Row, tables
<1>5. \A q \in Requests : WalletHeld(q)'
  BY DEF TypeOK, WalletHeld, HoldsWallet, Amount, wallet
<1>6. \A q \in Requests : IdDrawn(q)'
  <2>1. CASE nextOrder \in OrderIds
    <3>1. \A q \in Requests \ {r} : pc[q] = "commit" => oid[q] \in OrderIds /\ oid[q] < nextOrder
      BY DEF IdDrawn
    <3>2. orders[nextOrder] = None
      BY <2>1, BoundAssumption DEF IdsInUse, OrderIds
    <3>3. nextOrder' = nextOrder + 1 /\ oid'[r] = nextOrder /\ nextOrder \in Int
      BY <2>1 DEF TypeOK, OrderIds
    <3>4. \A q \in Requests \ {r} : pc'[q] = pc[q] /\ oid'[q] = oid[q]
      BY <2>1 DEF TypeOK
    <3>5. IdDrawn(r)'
      BY <2>1, <3>1, <3>2, <3>3, <3>4, BoundAssumption DEF IdDrawn, OrderIds, tables
    <3>6. \A q \in Requests \ {r} : IdDrawn(q)'
      BY <2>1, <3>1, <3>3, <3>4, BoundAssumption DEF IdDrawn, OrderIds, tables
    <3>7. QED
      BY <3>5, <3>6
  <2>2. CASE nextOrder \notin OrderIds
    BY <2>2 DEF TypeOK, IdDrawn, tables
  <2>3. QED
    BY <2>1, <2>2
<1>7. IdsInUse' /\ OneOrderPerKey' /\ LedgerBalances' /\ OneJobPerOrder'
  BY BoundAssumption DEF TypeOK, IdsInUse, OneOrderPerKey, RowOf, LedgerBalances,
     OneJobPerOrder, OrderIds, wallet, tables
<1>8. AnswersTruthful'
  BY DEF TypeOK, AnswersTruthful, RowOf, Row, Amount, tables
<1>9. QED
  BY <1>2, <1>3, <1>4, <1>5, <1>6, <1>7, <1>8

\* A notification follows the commit of its order.
LEMMA NotifyInd ==
    ASSUME IndInv, NEW r \in Requests, Notify(r)
    PROVE  IndInv'
<1> USE IndInv DEF IndInv
<1> USE Notify(r) DEF Notify, Goto
<1>b. WellFormed(r)
  OBVIOUS
<1>a. req[r].kind # "topup"
  BY <1>b DEF WellFormed
<1>1. oid[r] \in OrderIds /\ orders[oid[r]] # None
  BY <1>a DEF AnswersTruthful
<1>2. TypeOK'
  BY <1>1 DEF TypeOK, States, Answered, wallet, tables
<1>3. \A q \in Requests : WellFormed(q)' /\ Checked(q)'
  BY KeyAssumption, DataAssumption DEF TypeOK, WellFormed, Checked, InOrderTx,
     NoRequest, Row, KeyRows, AllKeys, tables
<1>4. \A q \in Requests : KeyHeld(q)'
  BY DEF TypeOK, KeyHeld, HoldsKey, Row, tables
<1>5. \A q \in Requests : WalletHeld(q)'
  BY DEF TypeOK, WalletHeld, HoldsWallet, Amount, wallet
<1>6. \A q \in Requests : IdDrawn(q)'
  BY DEF TypeOK, IdDrawn, tables
<1>7. IdsInUse' /\ OneOrderPerKey' /\ LedgerBalances' /\ OneJobPerOrder'
  BY DEF IdsInUse, OneOrderPerKey, RowOf, LedgerBalances, OneJobPerOrder,
     wallet, tables
<1>8. AnswersTruthful'
  BY <1>a, <1>1 DEF TypeOK, AnswersTruthful, RowOf, Row, Amount, tables
<1>9. QED
  BY <1>2, <1>3, <1>4, <1>5, <1>6, <1>7, <1>8

\* The top-up takes the wallet lock.
LEMMA LockTopUpInd ==
    ASSUME IndInv, NEW r \in Requests, LockTopUp(r)
    PROVE  IndInv'
<1> USE IndInv DEF IndInv
<1> USE LockTopUp(r) DEF LockTopUp, Fail, Goto
<1>2. TypeOK'
  BY BoundAssumption DEF TypeOK, States, TxStates, Answered, NoRequest, Request,
     wallet, tables
<1>3. \A q \in Requests : WellFormed(q)' /\ Checked(q)'
  BY KeyAssumption, DataAssumption DEF TypeOK, WellFormed, Checked, InOrderTx,
     NoRequest, Row, KeyRows, AllKeys, tables
<1>4. \A q \in Requests : KeyHeld(q)'
  BY DEF TypeOK, KeyHeld, HoldsKey, Row, tables
<1>5. \A q \in Requests : WalletHeld(q)'
  BY DEF TypeOK, WalletHeld, HoldsWallet, Amount, wallet
<1>6. \A q \in Requests : IdDrawn(q)'
  BY DEF TypeOK, IdDrawn, tables
<1>7. IdsInUse' /\ OneOrderPerKey' /\ LedgerBalances' /\ OneJobPerOrder'
  BY DEF IdsInUse, OneOrderPerKey, RowOf, LedgerBalances, OneJobPerOrder,
     wallet, tables
<1>8. AnswersTruthful'
  BY DEF TypeOK, AnswersTruthful, RowOf, Row, Amount, tables
<1>9. QED
  BY <1>2, <1>3, <1>4, <1>5, <1>6, <1>7, <1>8

\* A rollback at any point leaves the committed state alone.
LEMMA AbortInd ==
    ASSUME IndInv, NEW r \in Requests, Abort(r)
    PROVE  IndInv'
<1> USE IndInv DEF IndInv
<1> USE Abort(r) DEF Abort, Fail, Goto
<1>2. TypeOK'
  BY BoundAssumption DEF TypeOK, States, TxStates, Answered, NoRequest, Request,
     wallet, tables
<1>3. \A q \in Requests : WellFormed(q)' /\ Checked(q)'
  BY KeyAssumption, DataAssumption DEF TypeOK, WellFormed, Checked, InOrderTx,
     NoRequest, Row, KeyRows, AllKeys, tables
<1>4. \A q \in Requests : KeyHeld(q)'
  BY DEF TypeOK, KeyHeld, HoldsKey, Row, tables
<1>5. \A q \in Requests : WalletHeld(q)'
  BY DEF TypeOK, WalletHeld, HoldsWallet, Amount, wallet
<1>6. \A q \in Requests : IdDrawn(q)'
  BY DEF TypeOK, IdDrawn, tables
<1>7. IdsInUse' /\ OneOrderPerKey' /\ LedgerBalances' /\ OneJobPerOrder'
  BY DEF IdsInUse, OneOrderPerKey, RowOf, LedgerBalances, OneJobPerOrder,
     wallet, tables
<1>8. AnswersTruthful'
  BY DEF TypeOK, AnswersTruthful, RowOf, Row, Amount, tables
<1>9. QED
  BY <1>2, <1>3, <1>4, <1>5, <1>6, <1>7, <1>8

\* A slot is recycled.
LEMMA FinishInd ==
    ASSUME IndInv, NEW r \in Requests, Finish(r)
    PROVE  IndInv'
<1> USE IndInv DEF IndInv
<1> USE Finish(r) DEF Finish, Goto, Ask
<1>2. TypeOK'
  BY BoundAssumption DEF TypeOK, States, TxStates, Answered, NoRequest, Request,
     wallet, tables
<1>3. \A q \in Requests : WellFormed(q)' /\ Checked(q)'
  BY KeyAssumption, DataAssumption DEF TypeOK, WellFormed, Checked, InOrderTx,
     NoRequest, Row, KeyRows, AllKeys, tables
<1>4. \A q \in Requests : KeyHeld(q)'
  BY DEF TypeOK, KeyHeld, HoldsKey, Row, tables
<1>5. \A q \in Requests : WalletHeld(q)'
  BY DEF TypeOK, WalletHeld, HoldsWallet, Amount, wallet
<1>6. \A q \in Requests : IdDrawn(q)'
  BY DEF TypeOK, IdDrawn, tables
<1>7. IdsInUse' /\ OneOrderPerKey' /\ LedgerBalances' /\ OneJobPerOrder'
  BY DEF IdsInUse, OneOrderPerKey, RowOf, LedgerBalances, OneJobPerOrder,
     wallet, tables
<1>8. AnswersTruthful'
  BY DEF TypeOK, AnswersTruthful, RowOf, Row, Amount, tables
<1>9. QED
  BY <1>2, <1>3, <1>4, <1>5, <1>6, <1>7, <1>8

\* A top-up changes a wallet nobody else holds.
LEMMA ApplyTopUpInd ==
    ASSUME IndInv, NEW r \in Requests, ApplyTopUp(r)
    PROVE  IndInv'
<1> USE IndInv DEF IndInv
<1> USE ApplyTopUp(r) DEF ApplyTopUp, Fail, Goto
<1> DEFINE u == req[r].user
           a == req[r].amount
<1>1. u \in WalletUsers /\ a \in Int /\ balance[u] \in Int /\ credit[u] \in Int
  BY DataAssumption DEF TypeOK, WellFormed, WalletHeld
<1>a. /\ pc'[r] \in {"ok", "err"}
      /\ \A q \in Requests \ {r} : pc'[q] = pc[q]
      /\ \A w \in WalletUsers \ {u} : balance'[w] = balance[w] /\ credit'[w] = credit[w]
      /\ UNCHANGED <<req, oid, debit, tables, nextOrder, notified>>
  BY DEF TypeOK
<1>2. TypeOK'
  <2>1. balance' \in [WalletUsers -> Int] /\ credit' \in [WalletUsers -> Int]
    BY <1>1 DEF TypeOK
  <2>2. stale' \in [Requests -> SUBSET {"wallet", "service"}]
    BY DEF TypeOK, MarkStale
  <2>3. pc' \in [Requests -> States]
    BY DEF TypeOK, States, Answered
  <2>4. QED
    BY <2>1, <2>2, <2>3 DEF TypeOK, tables
<1>3. \A q \in Requests : WellFormed(q)' /\ Checked(q)'
  BY <1>a DEF WellFormed, Checked, InOrderTx, Row, tables
<1>4. \A q \in Requests : KeyHeld(q)'
  BY <1>a DEF KeyHeld, HoldsKey, Row, tables
<1>5. \A q \in Requests : WalletHeld(q)'
  <2>1. \A q \in Requests \ {r} : HoldsWallet(q, req[q].user) => req[q].user # u
    BY DEF WalletHeld, HoldsWallet
  <2>2. QED
    BY <1>a, <2>1 DEF WalletHeld, HoldsWallet, Amount
<1>6. \A q \in Requests : IdDrawn(q)'
  BY <1>a DEF IdDrawn, tables
<1>7. IdsInUse' /\ OneOrderPerKey' /\ LedgerBalances' /\ OneJobPerOrder'
  <2>1. LedgerBalances'
    <3>1. CASE UNCHANGED <<balance, credit>>
      BY <3>1 DEF LedgerBalances
    <3>2. CASE /\ InRange(balance[u] + a)
               /\ balance' = [balance EXCEPT ![u] = @ + a]
               /\ credit' = [credit EXCEPT ![u] = @ + a]
      BY <1>1, <3>2 DEF LedgerBalances, InRange, TypeOK
    <3>3. QED
      BY <3>1, <3>2
  <2>2. QED
    BY <1>a, <2>1 DEF IdsInUse, OneOrderPerKey, RowOf, OneJobPerOrder, tables
<1>8. AnswersTruthful'
  <2>1. req[r].kind = "topup"
    BY DEF WellFormed
  <2>2. QED
    BY <1>a, <2>1 DEF AnswersTruthful, RowOf, Row, Amount, tables
<1>9. QED
  BY <1>2, <1>3, <1>4, <1>5, <1>6, <1>7, <1>8

\* The commit of an order or a renewal: its key was free, its id new and
\* its money there, so every table stays consistent.
LEMMA CommitInd ==
    ASSUME IndInv, NEW r \in Requests, Commit(r)
    PROVE  IndInv'
<1> USE IndInv DEF IndInv
<1> DEFINE o == oid[r]
           k == Row(r)
           u == req[r].user
           rec == [vendor |-> req[r].vendor, user |-> u, item |-> req[r].item,
                   amount |-> Amount(r), key |-> req[r].key]
<1>a. /\ pc[r] = "commit"
      /\ o \in OrderIds /\ o < nextOrder /\ orders[o] = None
      /\ k \in KeyRows /\ idem[k] = Absent
      /\ u \in WalletUsers /\ InRange(balance[u] - Amount(r))
  BY Commit(r) DEF Commit, IdDrawn, KeyHeld, WalletHeld, WellFormed, InOrderTx
<1>b. rec \in Order /\ rec # None /\ Amount(r) \in Int
  BY <1>a, DataAssumption, KeyAssumption DEF WellFormed, InOrderTx, Amount, Row, KeyRows, Order
<1>c. /\ pc'[r] \in {"notify", "err"}
      /\ \A q \in Requests \ {r} : pc'[q] = pc[q]
      /\ pc' \in [Requests -> States]
  BY Commit(r) DEF Commit, Fail, Goto, TypeOK, States, Answered
<1>d. /\ orders'[o] = rec /\ idem'[k] = o /\ jobs'[o] = jobs[o] + 1
      /\ balance'[u] = balance[u] - Amount(r) /\ debit'[u] = debit[u] + Amount(r)
  BY <1>a, Commit(r) DEF Commit, DeductTx, CreateTx, LinkOrderTx, EnqueueTx, TypeOK
<1>e. /\ \A p \in OrderIds \ {o} : orders'[p] = orders[p] /\ jobs'[p] = jobs[p]
      /\ \A x \in KeyRows \ {k} : idem'[x] = idem[x]
      /\ \A w \in WalletUsers \ {u} : balance'[w] = balance[w] /\ debit'[w] = debit[w]
  BY <1>a, Commit(r) DEF Commit, DeductTx, CreateTx, LinkOrderTx, EnqueueTx, TypeOK
<1>f. UNCHANGED <<req, oid, credit, services, nextOrder, notified>>
  BY Commit(r) DEF Commit
<1>g. /\ \A p \in OrderIds : orders[p] # None => orders[p] \in Order /\ RowOf(p) \in KeyRows
      /\ \A q \in Requests : Row(q)' = Row(q) /\ Amount(q)' = Amount(q)
  BY <1>f DEF TypeOK, Order, RowOf, KeyRows, Row, Amount
<1>2. TypeOK'
  <2>1. balance' \in [WalletUsers -> Int] /\ debit' \in [WalletUsers -> Int]
    BY <1>a, <1>b, Commit(r) DEF Commit, DeductTx, TypeOK
  <2>2. orders' \in [OrderIds -> Order \cup {None}]
    BY <1>a, <1>b, Commit(r) DEF Commit, CreateTx, TypeOK
  <2>3. o \in -1..MaxOrders
    BY <1>a, BoundAssumption DEF OrderIds
  <2>4. idem' \in [KeyRows -> -1..MaxOrders]
    BY <2>3, Commit(r) DEF Commit, LinkOrderTx, TypeOK
  <2>5. jobs' \in [OrderIds -> Nat] /\ ext' \in [OrderIds -> Nat]
    <3>1. jobs' \in [OrderIds -> Nat]
      BY <1>a, Commit(r) DEF Commit, EnqueueTx, TypeOK
    <3>2. req[r].kind = "renew" => req[r].svc \in OrderIds
      BY <1>a DEF Checked, InOrderTx, TypeOK
    <3>4. ext' \in [OrderIds -> Nat]
      BY <3>2, Commit(r) DEF Commit, ExtendExpiryTx, TypeOK
    <3>5. QED
      BY <3>1, <3>4
  <2>6. stale' \in [Requests -> SUBSET {"wallet", "service"}]
    BY Commit(r) DEF Commit, TypeOK, MarkStale
  <2>7. QED
    BY <1>c, <1>f, <2>1, <2>2, <2>4, <2>5, <2>6 DEF TypeOK
<1>3. \A q \in Requests : WellFormed(q)' /\ Checked(q)'
  <2>1. \A q \in Requests : WellFormed(q)'
    <3>1. req[r].kind # "topup"
      BY <1>a DEF Checked, InOrderTx
    <3>2. WellFormed(r)'
      BY <1>a, <1>c, <1>f, <1>g, <3>1 DEF WellFormed, InOrderTx
    <3>3. \A q \in Requests \ {r} : WellFormed(q)'
      BY <1>c, <1>f, <1>g DEF WellFormed
    <3>4. QED
      BY <3>2, <3>3
  <2>2. \A s \in services : orders'[s] = orders[s]
    BY <1>a, <1>e DEF IdsInUse, TypeOK
  <2>3. \A q \in Requests : Checked(q)'
    BY <1>c, <1>f, <2>2 DEF Checked, InOrderTx
  <2>4. QED
    BY <2>1, <2>3
<1>4. \A q \in Requests : KeyHeld(q)'
  <2>1. \A q \in Requests \ {r} : HoldsKey(q, Row(q)) => Row(q) # k
    BY <1>a DEF KeyHeld, HoldsKey
  <2>2. \A q \in Requests : pc[q] \in {"deduct", "insert", "commit"} => Row(q) \in KeyRows
    BY DEF WellFormed, InOrderTx
  <2>3. QED
    BY <1>c, <1>e, <1>g, <2>1, <2>2 DEF KeyHeld, HoldsKey
<1>5. \A q \in Requests : WalletHeld(q)'
  <2>1. \A q \in Requests \ {r} : HoldsWallet(q, req[q].user) => req[q].user # u
    BY <1>a DEF WalletHeld, HoldsWallet
  <2>2. QED
    BY <1>c, <1>e, <1>f, <1>g, <2>1 DEF WalletHeld, HoldsWallet
<1>6. \A q \in Requests : IdDrawn(q)'
  BY <1>a, <1>c, <1>e, <1>f DEF IdDrawn
<1>7. IdsInUse' /\ OneOrderPerKey' /\ LedgerBalances' /\ OneJobPerOrder'
  <2>1. IdsInUse'
    <3>1. req[r].kind = "renew" => req[r].svc \in OrderIds /\ orders[req[r].svc] # None
      BY <1>a DEF Checked, InOrderTx, IdsInUse, TypeOK
    <3>2. \A p \in OrderIds : orders'[p] = None => ext'[p] = ext[p] /\ orders[p] = None
      BY <1>a, <1>b, <1>d, <1>e, <3>1, Commit(r) DEF Commit, ExtendExpiryTx, TypeOK
    <3>3. \A p \in OrderIds : p >= nextOrder => orders'[p] = None
      <4>1. \A p \in OrderIds : p >= nextOrder => p # o
        BY <1>a, <1>f DEF TypeOK, OrderIds
      <4>2. QED
        BY <1>e, <4>1 DEF IdsInUse
    <3>4. \A s \in services : orders'[s] # None
      BY <1>b, <1>d, <1>e DEF IdsInUse, TypeOK
    <3>5. QED
      BY <1>f, <3>2, <3>3, <3>4 DEF IdsInUse
  <2>2. OneOrderPerKey'
    <3>1. \A x \in KeyRows \ {k} : idem[x] # Absent =>
            idem[x] \in OrderIds \ {o} /\ orders[idem[x]] # None /\ RowOf(idem[x]) = x
      BY <1>a DEF OneOrderPerKey
    <3>2. RowOf(o)' = k
      BY <1>d, <1>f DEF RowOf, Row
    <3>3. \A p \in OrderIds \ {o} : RowOf(p)' = RowOf(p)
      BY <1>e DEF RowOf
    <3>4. \A p \in OrderIds \ {o} : orders[p] # None => RowOf(p) \in KeyRows \ {k} /\ idem[RowOf(p)] = p
      BY <1>a, <1>g DEF OneOrderPerKey, Absent, OrderIds
    <3>5. \A x \in KeyRows : idem'[x] # Absent =>
            idem'[x] \in OrderIds /\ orders'[idem'[x]] # None /\ RowOf(idem[x])' = x
      <4>1. \A x \in KeyRows \ {k} : idem[x] # Absent =>
              orders'[idem[x]] = orders[idem[x]]
        BY <1>e, <3>1
      <4>2. QED
        BY <1>a, <1>b, <1>d, <1>e, <1>f, <3>1, <3>2, <4>1 DEF RowOf
    <3>6. \A p \in OrderIds : orders'[p] # None => idem'[RowOf(p)'] = p
      BY <1>a, <1>d, <1>e, <1>f, <3>2, <3>3, <3>4
    <3>7. QED
      BY <3>5, <3>6 DEF OneOrderPerKey
  <2>3. LedgerBalances'
    BY <1>a, <1>b, <1>d, <1>e, <1>f DEF LedgerBalances, InRange, TypeOK
  <2>4. OneJobPerOrder'
    BY <1>a, <1>b, <1>d, <1>e DEF OneJobPerOrder
  <2>5. QED
    BY <2>1, <2>2, <2>3, <2>4
<1>8. AnswersTruthful'
  <2>1. \A p \in OrderIds : orders[p] # None =>
          p # o /\ orders'[p] = orders[p] /\ RowOf(p)' = RowOf(p)
    BY <1>a, <1>e DEF RowOf
  <2>2. RowOf(o)' = k
    BY <1>d, <1>f DEF RowOf, Row
  <2>3. \A p \in notified' : orders'[p] # None
    BY <1>f, <2>1 DEF AnswersTruthful, TypeOK
  <2>4. QED
    BY <1>a, <1>b, <1>c, <1>d, <1>f, <1>g, <2>1, <2>2, <2>3 DEF AnswersTruthful
<1>9. QED
  BY <1>2, <1>3, <1>4, <1>5, <1>6, <1>7, <1>8

\* The worker adds a service for a committed order.
LEMMA ProvisionedInd ==
    ASSUME IndInv, NEW o \in OrderIds, Provisioned(o)
    PROVE  IndInv'
<1> USE IndInv, Provisioned(o) DEF IndInv, Provisioned
<1>1. TypeOK'
  BY DEF TypeOK, wallet
<1>2. \A q \in Requests : WellFormed(q)' /\ Checked(q)'
  BY DEF WellFormed, Checked, Row
<1>3. \A q \in Requests : KeyHeld(q)' /\ WalletHeld(q)' /\ IdDrawn(q)'
  BY DEF KeyHeld, WalletHeld, IdDrawn, HoldsKey, HoldsWallet, Row, Amount, wallet
<1>4. IdsInUse' /\ OneOrderPerKey' /\ LedgerBalances' /\ OneJobPerOrder'
  BY DEF IdsInUse, OneOrderPerKey, RowOf, LedgerBalances, OneJobPerOrder, wallet
<1>5. AnswersTruthful'
  BY DEF AnswersTruthful, RowOf, Row, Amount
<1>6. QED
  BY <1>1, <1>2, <1>3, <1>4, <1>5

\* Steps that change nothing.
LEMMA StutterInd == IndInv /\ UNCHANGED vars => IndInv'
BY DEF IndInv, vars, handler, wallet, tables, TypeOK, WellFormed, Checked, KeyHeld,
   WalletHeld, IdDrawn, HoldsKey, HoldsWallet, Row, RowOf, Amount, IdsInUse,
   OneOrderPerKey, LedgerBalances, OneJobPerOrder, AnswersTruthful

\* Every step preserves the invariant.
LEMMA NextIndInv == IndInv /\ [Next]_vars => IndInv'
<1> SUFFICES ASSUME IndInv, [Next]_vars PROVE IndInv'
  OBVIOUS
<1>1. ASSUME NEW r \in Requests, CreateOrder(r) \/ RenewStart(r) \/ TopUpStart(r)
      PROVE  IndInv'
  BY <1>1, CreateOrderInd, RenewStartInd, TopUpStartInd
<1>2. ASSUME NEW r \in Requests, Step(r)
      PROVE  IndInv'
  BY <1>2, InsertOrderInd, CommitInd, NotifyInd, ApplyTopUpInd DEF Step
<1>3. ASSUME NEW r \in Requests, Acquire(r)
      PROVE  IndInv'
  BY <1>3, ResolveInd, ValidateInd, BeginInd, ReadPriceInd, LockServiceInd,
     ReserveInd, DeductInd, LockTopUpInd DEF Acquire
<1>4. ASSUME NEW r \in Requests, Abort(r) \/ Finish(r)
      PROVE  IndInv'
  BY <1>4, AbortInd, FinishInd
<1>5. ASSUME NEW o \in OrderIds, Provisioned(o)
      PROVE  IndInv'
  BY <1>5, ProvisionedInd
<1>6. CASE UNCHANGED vars
  BY <1>6, StutterInd
<1>7. QED
  BY <1>1, <1>2, <1>3, <1>4, <1>5, <1>6 DEF Next

\* IndInv holds in every reachable state.
THEOREM Invariance == Spec => []IndInv
<1>1. Init => IndInv
  BY InitIndInv
<1>2. IndInv /\ [Next]_vars => IndInv'
  BY NextIndInv
<1>3. QED
  BY <1>1, <1>2, PTL DEF Spec

\* The variables always have their types, the range of BIGSERIAL included.
THEOREM TypeCorrect == Spec => []TypeOK
<1>1. IndInv => TypeOK
  BY DEF IndInv
<1>2. QED
  BY <1>1, Invariance, PTL

\* Create and Renew keep one order per idempotency key and one key per order,
\* for any number of concurrent handlers.
THEOREM KeysUnique == Spec => []OneOrderPerKey
<1>1. IndInv => OneOrderPerKey
  BY DEF IndInv
<1>2. QED
  BY <1>1, Invariance, PTL

\* Balances and ledger never drift apart, and a balance never leaves BIGINT.
THEOREM LedgerConsistent == Spec => []LedgerBalances
<1>1. IndInv => LedgerBalances
  BY DEF IndInv
<1>2. QED
  BY <1>1, Invariance, PTL

\* An order and its provisioning job appear together.
THEOREM JobsComplete == Spec => []OneJobPerOrder
<1>1. IndInv => OneJobPerOrder
  BY DEF IndInv
<1>2. QED
  BY <1>1, Invariance, PTL

\* Answers and notifications speak of committed orders of the caller.
THEOREM AnswersCorrect == Spec => []AnswersTruthful
<1>1. IndInv => AnswersTruthful
  BY DEF IndInv
<1>2. QED
  BY <1>1, Invariance, PTL

\* What ReserveTx and DeductTx checked holds until the transaction ends.
THEOREM LocksCorrect == Spec => []LocksProtect
<1>1. IndInv => LocksProtect
  BY DEF IndInv, LocksProtect
<1>2. QED
  BY <1>1, Invariance, PTL

----------------------------------------------------------------------------
\* Only Commit writes orders, keys, jobs, extensions and debits.
LEMMA TablesChange ==
    ASSUME IndInv, [Next]_vars
    PROVE  \/ UNCHANGED <<debit, idem, orders, jobs, ext>>
           \/ \E r \in Requests : Commit(r)
<1>1. ASSUME NEW r \in Requests, Step(r)
      PROVE  UNCHANGED <<debit, idem, orders, jobs, ext>> \/ Commit(r)
  BY <1>1 DEF Step, InsertOrder, Notify, ApplyTopUp, tables, wallet
<1>2. ASSUME NEW r \in Requests, Acquire(r)
      PROVE  UNCHANGED <<debit, idem, orders, jobs, ext>>
  BY <1>2 DEF Acquire, Resolve, Validate, Begin, ReadPrice, LockService,
     Reserve, Deduct, LockTopUp, tables, wallet
<1>3. ASSUME NEW r \in Requests,
             \/ CreateOrder(r) \/ RenewStart(r) \/ TopUpStart(r)
             \/ Abort(r) \/ Finish(r)
      PROVE  UNCHANGED <<debit, idem, orders, jobs, ext>>
  BY <1>3 DEF CreateOrder, RenewStart, TopUpStart, Abort, Finish, tables, wallet
<1>4. ASSUME NEW o \in OrderIds, Provisioned(o)
      PROVE  UNCHANGED <<debit, idem, orders, jobs, ext>>
  BY <1>4 DEF Provisioned, wallet
<1>5. CASE UNCHANGED vars
  BY <1>5 DEF vars, tables, wallet
<1>6. QED
  BY <1>1, <1>2, <1>3, <1>4, <1>5 DEF Next

\* What a commit does to the rows it writes, and to no others.
LEMMA CommitEffect ==
    ASSUME IndInv, NEW r \in Requests, Commit(r)
    PROVE  /\ oid[r] \in OrderIds /\ orders[oid[r]] = None
           /\ Row(r) \in KeyRows /\ idem[Row(r)] = Absent
           /\ req[r].user \in WalletUsers /\ req[r].item \in Items
           /\ balance[req[r].user] >= Amount(r) /\ Amount(r) \in Int
           /\ orders' = [orders EXCEPT ![oid[r]] =
                           [vendor |-> req[r].vendor, user |-> req[r].user,
                            item |-> req[r].item, amount |-> Amount(r),
                            key |-> req[r].key]]
           /\ orders'[oid[r]] # None
           /\ idem' = [idem EXCEPT ![Row(r)] = oid[r]]
           /\ jobs' = [jobs EXCEPT ![oid[r]] = @ + 1]
           /\ balance' = [balance EXCEPT ![req[r].user] = @ - Amount(r)]
<1> USE IndInv, Commit(r) DEF IndInv
<1>1. /\ oid[r] \in OrderIds /\ orders[oid[r]] = None
      /\ Row(r) \in KeyRows /\ idem[Row(r)] = Absent
      /\ req[r].user \in WalletUsers /\ req[r].item \in Items
      /\ balance[req[r].user] >= Amount(r)
  BY DEF Commit, IdDrawn, KeyHeld, WalletHeld, WellFormed, InOrderTx
<1>2. Amount(r) \in Int
  BY <1>1, DataAssumption DEF Amount
<1>3. [vendor |-> req[r].vendor, user |-> req[r].user, item |-> req[r].item,
       amount |-> Amount(r), key |-> req[r].key] \in Order
  BY <1>1, <1>2 DEF Row, KeyRows, Order
<1>4. orders'[oid[r]] # None
  BY <1>1, <1>3, KeyAssumption DEF Commit, CreateTx, TypeOK
<1>5. QED
  BY <1>1, <1>2, <1>4 DEF Commit, CreateTx, LinkOrderTx, EnqueueTx, DeductTx

\* No interleaving of orders, renewals and top-ups lets a committed order
\* overdraw a wallet or cost anything but its price.
THEOREM NeverOverdrawn == Spec => NoOverdraft
<1> DEFINE Paid ==
      \A o \in OrderIds : orders[o] = None /\ orders'[o] # None =>
        LET u == orders'[o].user IN
        /\ u \in WalletUsers
        /\ balance'[u] = balance[u] - orders'[o].amount
        /\ balance'[u] >= 0
<1>1. IndInv /\ [Next]_vars => [Paid]_vars
  <2> SUFFICES ASSUME IndInv, [Next]_vars PROVE Paid
    OBVIOUS
  <2>1. CASE UNCHANGED <<debit, idem, orders, jobs, ext>>
    BY <2>1
  <2>2. ASSUME NEW r \in Requests, Commit(r) PROVE Paid
    <3>1. \A o \in OrderIds : orders[o] = None /\ orders'[o] # None => o = oid[r]
      BY <2>2, CommitEffect DEF IndInv, TypeOK
    <3>2. /\ orders'[oid[r]].user = req[r].user
          /\ orders'[oid[r]].amount = Amount(r)
      BY <2>2, CommitEffect DEF IndInv, TypeOK
    <3>3. /\ req[r].user \in WalletUsers
          /\ balance'[req[r].user] = balance[req[r].user] - Amount(r)
          /\ balance'[req[r].user] >= 0
      BY <2>2, CommitEffect DEF IndInv, TypeOK
    <3>4. QED
      BY <3>1, <3>2, <3>3
  <2>3. QED
    BY <2>1, <2>2, TablesChange
<1>2. QED
  BY <1>1, Invariance, PTL DEF Spec, NoOverdraft

\* Nothing that was committed is ever taken back.
THEOREM CommittedForever == Spec => Durable
<1> DEFINE Kept ==
      /\ \A o \in OrderIds : orders[o] # None => orders'[o] = orders[o]
      /\ \A k \in KeyRows : idem[k] # Absent => idem'[k] = idem[k]
      /\ \A o \in OrderIds : ext'[o] >= ext[o]
<1>1. IndInv /\ [Next]_vars => [Kept]_vars
  <2> SUFFICES ASSUME IndInv, [Next]_vars PROVE Kept
    OBVIOUS
  <2>1. CASE UNCHANGED <<debit, idem, orders, jobs, ext>>
    BY <2>1 DEF IndInv, TypeOK
  <2>2. ASSUME NEW r \in Requests, Commit(r) PROVE Kept
    <3>1. \A o \in OrderIds : orders[o] # None => orders'[o] = orders[o]
      BY <2>2, CommitEffect DEF IndInv, TypeOK
    <3>2. \A k \in KeyRows : idem[k] # Absent => idem'[k] = idem[k]
      BY <2>2, CommitEffect DEF IndInv, TypeOK
    <3>3. \A o \in OrderIds : ext'[o] >= ext[o]
      BY <2>2 DEF Commit, ExtendExpiryTx, IndInv, TypeOK
    <3>4. QED
      BY <3>1, <3>2, <3>3
  <2>3. QED
    BY <2>1, <2>2, TablesChange
<1>2. QED
  BY <1>1, Invariance, PTL DEF Spec, Durable

----------------------------------------------------------------------------
\* A service has finitely many renewals.
LEMMA RenewalsFinite ==
    ASSUME NEW s \in OrderIds
    PROVE  IsFiniteSet(Renewals(s))
<1>1. IsFiniteSet(OrderIds)
  BY FS_Interval, BoundAssumption DEF OrderIds
<1>2. Renewals(s) \subseteq OrderIds
  BY DEF Renewals
<1>3. QED
  BY <1>1, <1>2, FS_Subset

\* A commit adds a renewal order to the service it extends and to no other.
LEMMA CommitRenewals ==
    ASSUME IndInv, RenewalsPaid, NEW r \in Requests, Commit(r)
    PROVE  RenewalsPaid'
<1> DEFINE o == oid[r]
<1>1. /\ o \in OrderIds /\ orders[o] = None
      /\ orders'[o] # None /\ orders'[o].key = req[r].key
      /\ \A p \in OrderIds \ {o} : orders'[p] = orders[p]
  BY CommitEffect DEF IndInv, TypeOK
<1>2. CASE req[r].kind # "renew"
  <2>1. req[r].key \in Keys
    BY <1>2 DEF IndInv, WellFormed, Checked, InOrderTx, Commit
  <2>2. \A s \in OrderIds, t \in Stamps : req[r].key # <<s, t>>
    BY <2>1, KeyAssumption DEF RenewKeys
  <2>3. \A s \in OrderIds : Renewals(s)' = Renewals(s)
    BY <1>1, <2>2 DEF Renewals
  <2>4. ext' = ext
    BY <1>2 DEF Commit, ExtendExpiryTx
  <2>5. QED
    BY <2>3, <2>4 DEF RenewalsPaid
<1>3. CASE req[r].kind = "renew"
  <2>0. req[r].svc \in OrderIds /\ \E t \in Stamps : req[r].key = <<req[r].svc, t>>
    BY <1>3 DEF IndInv, Checked, InOrderTx, Commit, TypeOK
  <2>1. PICK s \in OrderIds : s = req[r].svc
    BY <2>0
  <2>2. /\ ext'[s] = ext[s] + 1
        /\ \A p \in OrderIds \ {s} : ext'[p] = ext[p]
    BY <1>3, <2>1 DEF Commit, ExtendExpiryTx, IndInv, TypeOK
  <2>3. \A p \in OrderIds \ {s} : Renewals(p)' = Renewals(p)
    BY <1>1, <2>0, <2>1 DEF Renewals
  <2>4. o \notin Renewals(s)
    BY <1>1 DEF Renewals
  <2>5. Renewals(s)' = Renewals(s) \cup {o}
    BY <1>1, <2>0, <2>1 DEF Renewals
  <2>6. Cardinality(Renewals(s) \cup {o}) = Cardinality(Renewals(s)) + 1
    BY <2>4, FS_AddElement, RenewalsFinite
  <2>7. ext[s] = Cardinality(Renewals(s))
    BY DEF RenewalsPaid
  <2>8. ext'[s] = Cardinality(Renewals(s)')
    BY <2>2, <2>5, <2>6, <2>7
  <2>9. \A p \in OrderIds \ {s} : ext'[p] = Cardinality(Renewals(p)')
    BY <2>2, <2>3 DEF RenewalsPaid
  <2>10. QED
    BY <2>8, <2>9 DEF RenewalsPaid
<1>4. QED
  BY <1>2, <1>3

\* An expiry date moves exactly as often as a renewal has been paid.
THEOREM RenewalsMatchOrders == Spec => []RenewalsPaid
<1>1. Init => RenewalsPaid
  <2> SUFFICES ASSUME Init, NEW s \in OrderIds PROVE ext[s] = Cardinality(Renewals(s))
    BY DEF RenewalsPaid
  <2>1. Renewals(s) = {}
    BY DEF Init, Renewals
  <2>2. QED
    BY <2>1, FS_EmptySet DEF Init
<1>2. IndInv /\ RenewalsPaid /\ [Next]_vars => RenewalsPaid'
  <2> SUFFICES ASSUME IndInv, RenewalsPaid, [Next]_vars PROVE RenewalsPaid'
    OBVIOUS
  <2>1. CASE UNCHANGED <<debit, idem, orders, jobs, ext>>
    BY <2>1 DEF RenewalsPaid, Renewals
  <2>2. QED
    BY <2>1, TablesChange, CommitRenewals
<1>3. QED
  BY <1>1, <1>2, Invariance, PTL DEF Spec

----------------------------------------------------------------------------
\* Sums.

\* Induction over the natural numbers, for a set.
LEMMA Induction ==
    ASSUME NEW S, 0 \in S, \A n \in Nat : n \in S => n + 1 \in S
    PROVE  Nat \subseteq S
<1> DEFINE T == Nat \ S
           R == OpToRel(<, Nat)
<1>1. SUFFICES ASSUME T # {} PROVE FALSE
  OBVIOUS
<1>2. IsWellFoundedOn(R, Nat)
  BY NatLessThanWellFounded
<1>3. R = {ss \in Nat \X Nat : ss[1] < ss[2]}
  BY DEF OpToRel
<1> HIDE DEF R
<1>4. T \subseteq Nat
  OBVIOUS
<1> HIDE DEF T
<1>5. PICK x \in T : \A y \in T : ~(<<y, x>> \in R)
  BY <1>1, <1>2, <1>4, WFMin
<1> USE DEF T
<1>6. x \in Nat /\ x # 0 /\ x - 1 \in Nat /\ x - 1 \in T
  OBVIOUS
<1>7. <<x - 1, x>> \in Nat \X Nat /\ x - 1 < x
  BY <1>6
<1>8. QED
  BY <1>3, <1>5, <1>6, <1>7

\* g holds the partial sums of f up to n.
Partial(g, f, n) == g = [k \in 0..n |-> IF k = 0 THEN 0 ELSE g[k - 1] + f[k]]

\* There are such partial sums.
LEMMA PartialExists ==
    ASSUME NEW f, NEW n \in Nat, \A k \in 1..n : f[k] \in Int
    PROVE  \E g \in [0..n -> Int] : Partial(g, f, n)
<1> DEFINE S == {m \in Nat : m <= n => \E g \in [0..m -> Int] : Partial(g, f, m)}
<1>1. 0 \in S
  <2>1. [k \in 0..0 |-> 0] \in [0..0 -> Int] /\ Partial([k \in 0..0 |-> 0], f, 0)
    BY DEF Partial
  <2>2. QED
    BY <2>1
<1>2. ASSUME NEW m \in Nat, m \in S PROVE m + 1 \in S
  <2>1. SUFFICES ASSUME m + 1 <= n
                 PROVE  \E g \in [0..(m + 1) -> Int] : Partial(g, f, m + 1)
    OBVIOUS
  <2>2. PICK g \in [0..m -> Int] : Partial(g, f, m)
    BY <1>2, <2>1
  <2>3. PICK h : h = [k \in 0..(m + 1) |-> IF k = m + 1 THEN g[m] + f[m + 1] ELSE g[k]]
    OBVIOUS
  <2>4. h \in [0..(m + 1) -> Int]
    <3>1. f[m + 1] \in Int /\ g[m] \in Int
      BY <2>1
    <3>2. \A k \in 0..(m + 1) : k = m + 1 \/ k \in 0..m
      OBVIOUS
    <3>3. QED
      BY <2>3, <3>1, <3>2
  <2>5. ASSUME NEW k \in 0..(m + 1)
        PROVE  h[k] = IF k = 0 THEN 0 ELSE h[k - 1] + f[k]
    <3>1. CASE k = m + 1
      <4>1. h[k] = g[m] + f[k] /\ k - 1 = m /\ h[m] = g[m] /\ k # 0
        BY <2>3, <3>1
      <4>2. QED
        BY <4>1
    <3>2. CASE k \in 0..m
      <4>1. h[k] = g[k] /\ (k # 0 => h[k - 1] = g[k - 1])
        BY <2>3, <3>2
      <4>2. g[k] = IF k = 0 THEN 0 ELSE g[k - 1] + f[k]
        BY <2>2, <3>2 DEF Partial
      <4>3. QED
        BY <4>1, <4>2
    <3>3. QED
      BY <3>1, <3>2
  <2>6. Partial(h, f, m + 1)
    BY <2>4, <2>5 DEF Partial
  <2>7. QED
    BY <2>4, <2>6
<1> HIDE DEF S
<1>3. Nat \subseteq S
  BY <1>1, <1>2, Induction
<1> USE DEF S
<1>4. QED
  BY <1>3

\* There is only one list of them.
LEMMA PartialUnique ==
    ASSUME NEW f, NEW n \in Nat, NEW g, NEW h, Partial(g, f, n), Partial(h, f, n)
    PROVE  g = h
<1> DEFINE S == {m \in Nat : m <= n => g[m] = h[m]}
<1>0. /\ \A k \in 0..n : g[k] = IF k = 0 THEN 0 ELSE g[k - 1] + f[k]
      /\ \A k \in 0..n : h[k] = IF k = 0 THEN 0 ELSE h[k - 1] + f[k]
  BY DEF Partial
<1>1. 0 \in S
  BY <1>0
<1>2. ASSUME NEW m \in Nat, m \in S PROVE m + 1 \in S
  <2>1. SUFFICES ASSUME m + 1 <= n PROVE g[m + 1] = h[m + 1]
    OBVIOUS
  <2>2. g[m] = h[m]
    BY <1>2, <2>1
  <2>3. m + 1 \in 0..n /\ m + 1 # 0 /\ m + 1 - 1 = m
    BY <2>1
  <2>4. g[m + 1] = g[m] + f[m + 1] /\ h[m + 1] = h[m] + f[m + 1]
    BY <1>0, <2>3
  <2>5. QED
    BY <2>2, <2>4
<1> HIDE DEF S
<1>3. Nat \subseteq S
  BY <1>1, <1>2, Induction
<1> USE DEF S
<1>4. \A k \in 0..n : g[k] = h[k]
  BY <1>3
<1>5. [k \in 0..n |-> IF k = 0 THEN 0 ELSE g[k - 1] + f[k]]
       = [k \in 0..n |-> IF k = 0 THEN 0 ELSE h[k - 1] + f[k]]
  <2>1. \A k \in 0..n : k # 0 => k - 1 \in 0..n
    OBVIOUS
  <2>2. QED
    BY <1>4, <2>1
<1>6. QED
  BY <1>5 DEF Partial

\* SumTo picks the last of the partial sums.
LEMMA SumIsPartial ==
    ASSUME NEW f, NEW n \in Nat, NEW g, Partial(g, f, n)
    PROVE  SumTo(f, n) = g[n]
<1> DEFINE h == CHOOSE x : Partial(x, f, n)
<1>1. SumTo(f, n) = h[n]
  BY DEF SumTo, Partial
<1>2. Partial(h, f, n)
  OBVIOUS
<1> HIDE DEF h
<1>3. h = g
  BY <1>2, PartialUnique
<1>4. QED
  BY <1>1, <1>3

\* Nothing adds up to nothing.
LEMMA SumZero ==
    ASSUME NEW f, NEW n \in Nat, \A k \in 1..n : f[k] = 0
    PROVE  SumTo(f, n) = 0
<1>1. PICK g : g = [k \in 0..n |-> 0]
  OBVIOUS
<1>2. \A k \in 0..n : 0 = IF k = 0 THEN 0 ELSE g[k - 1] + f[k]
  BY <1>1
<1>3. Partial(g, f, n)
  BY <1>1, <1>2 DEF Partial
<1>4. QED
  BY <1>1, <1>3, SumIsPartial

\* Adding x to one term adds x to the sum.
LEMMA SumUpdate ==
    ASSUME NEW n \in Nat, NEW f, NEW h, \A k \in 1..n : f[k] \in Int,
           NEW o \in 1..n, NEW x \in Int,
           h[o] = f[o] + x, \A k \in (1..n) \ {o} : h[k] = f[k]
    PROVE  SumTo(h, n) = SumTo(f, n) + x
<1>1. PICK g \in [0..n -> Int] : Partial(g, f, n)
  BY PartialExists
<1>2. \A k \in 0..n : g[k] = IF k = 0 THEN 0 ELSE g[k - 1] + f[k]
  BY <1>1 DEF Partial
<1>3. PICK e : e = [k \in 0..n |-> IF k < o THEN g[k] ELSE g[k] + x]
  OBVIOUS
<1>4. ASSUME NEW k \in 0..n
      PROVE  e[k] = IF k = 0 THEN 0 ELSE e[k - 1] + h[k]
  <2>1. CASE k = 0
    BY <1>2, <1>3, <2>1
  <2>2. CASE k # 0
    <3>1. k \in 1..n /\ k - 1 \in 0..n /\ g[k] = g[k - 1] + f[k]
      BY <1>2, <2>2
    <3>2. g[k - 1] \in Int /\ f[k] \in Int
      BY <3>1
    <3>3. CASE k = o
      <4>1. e[k] = g[k] + x /\ e[k - 1] = g[k - 1] /\ h[k] = f[k] + x
        BY <1>3, <3>1, <3>3
      <4>2. QED
        BY <2>2, <3>1, <3>2, <4>1
    <3>4. CASE k < o
      <4>1. e[k] = g[k] /\ e[k - 1] = g[k - 1] /\ h[k] = f[k]
        BY <1>3, <3>1, <3>4
      <4>2. QED
        BY <2>2, <3>1, <4>1
    <3>5. CASE k > o
      <4>1. e[k] = g[k] + x /\ e[k - 1] = g[k - 1] + x /\ h[k] = f[k]
        BY <1>3, <3>1, <3>5
      <4>2. QED
        BY <2>2, <3>1, <3>2, <4>1
    <3>6. QED
      BY <3>1, <3>3, <3>4, <3>5
  <2>3. QED
    BY <2>1, <2>2
<1>5. e = [k \in 0..n |-> e[k]]
  BY <1>3
<1>6. Partial(e, h, n)
  BY <1>4, <1>5 DEF Partial
<1>7. SumTo(h, n) = e[n] /\ SumTo(f, n) = g[n] /\ e[n] = g[n] + x
  BY <1>1, <1>3, <1>6, SumIsPartial
<1>8. QED
  BY <1>7

\* A commit adds the price of the order to the debits of its user.
LEMMA CommitDebits ==
    ASSUME IndInv, DebitsMatchOrders, NEW r \in Requests, Commit(r)
    PROVE  DebitsMatchOrders'
<1>1. PICK o, u, a : o = oid[r] /\ u = req[r].user /\ a = Amount(r)
  OBVIOUS
<1>2. /\ o \in OrderIds /\ orders[o] = None /\ orders'[o] # None
      /\ orders'[o].user = u /\ orders'[o].amount = a
      /\ \A p \in OrderIds \ {o} : orders'[p] = orders[p]
      /\ u \in WalletUsers /\ a \in Int
  BY <1>1, CommitEffect DEF IndInv, TypeOK
<1>3. /\ debit'[u] = debit[u] + a
      /\ \A w \in WalletUsers \ {u} : debit'[w] = debit[w]
  BY <1>1, <1>2 DEF Commit, DeductTx, IndInv, TypeOK
<1>4. ASSUME NEW w \in WalletUsers
      PROVE  debit'[w] = SumTo([p \in OrderIds |-> Cost(w, p)], MaxOrders)'
  <2>1. PICK f : f = [p \in OrderIds |-> Cost(w, p)]
    OBVIOUS
  <2>2. PICK h : h = [p \in OrderIds |-> Cost(w, p)']
    OBVIOUS
  <2>3. debit[w] = SumTo(f, MaxOrders)
    BY <2>1 DEF DebitsMatchOrders
  <2>4. ASSUME NEW p \in OrderIds \ {o} PROVE h[p] = f[p]
    BY <1>2, <2>1, <2>2 DEF Cost
  <2>5. \A p \in OrderIds : f[p] \in Int
    <3>1. \A p \in OrderIds : orders[p] # None => orders[p] \in Order
      BY DEF IndInv, TypeOK
    <3>2. \A x \in Order : x.amount \in Int
      BY DEF Order
    <3>3. QED
      BY <2>1, <3>1, <3>2 DEF Cost
  <2>6. f[o] = 0 /\ h[o] = IF w = u THEN a ELSE 0
    BY <1>2, <2>1, <2>2 DEF Cost
  <2>7. PICK x \in Int : x = IF w = u THEN a ELSE 0
    BY <1>2
  <2>8. SumTo(h, MaxOrders) = SumTo(f, MaxOrders) + x
    <3>1. h[o] = f[o] + x
      BY <1>2, <2>6, <2>7
    <3>2. MaxOrders \in Nat /\ OrderIds = 1..MaxOrders
      BY BoundAssumption DEF OrderIds
    <3>3. QED
      BY <1>2, <2>4, <2>5, <3>1, <3>2, SumUpdate
  <2>9. debit'[w] = debit[w] + x
    <3>1. debit[w] \in Int
      BY DEF IndInv, TypeOK
    <3>2. QED
      BY <1>3, <2>7, <3>1
  <2>10. QED
    BY <2>2, <2>3, <2>8, <2>9
<1>5. QED
  BY <1>4 DEF DebitsMatchOrders

\* Nobody pays without an order and nobody gets an order unpaid, however the
\* requests interleave and fail.
THEOREM DebitsComplete == Spec => []DebitsMatchOrders
<1>1. Init => DebitsMatchOrders
  <2> SUFFICES ASSUME Init, NEW u \in WalletUsers
               PROVE  debit[u] = SumTo([o \in OrderIds |-> Cost(u, o)], MaxOrders)
    BY DEF DebitsMatchOrders
  <2>1. PICK f : f = [o \in OrderIds |-> Cost(u, o)]
    OBVIOUS
  <2>2. \A o \in 1..MaxOrders : f[o] = 0
    BY <2>1 DEF Init, Cost, OrderIds
  <2>3. SumTo(f, MaxOrders) = 0
    BY <2>2, SumZero, BoundAssumption
  <2>4. QED
    BY <2>1, <2>3 DEF Init
<1>2. IndInv /\ DebitsMatchOrders /\ [Next]_vars => DebitsMatchOrders'
  <2> SUFFICES ASSUME IndInv, DebitsMatchOrders, [Next]_vars PROVE DebitsMatchOrders'
    OBVIOUS
  <2>1. CASE UNCHANGED <<debit, idem, orders, jobs, ext>>
    BY <2>1 DEF DebitsMatchOrders, Cost
  <2>2. QED
    BY <2>1, TablesChange, CommitDebits
<1>3. QED
  BY <1>1, <1>2, Invariance, PTL DEF Spec

----------------------------------------------------------------------------
\* The refinement: what each step does to the abstract state.

\* A commit is one Buy or one Renew of the abstract specification.
LEMMA CommitRefines ==
    ASSUME IndInv, NEW r \in Requests, Commit(r)
    PROVE  P!Next
<1> DEFINE o == oid[r]
           k == Row(r)
           i == req[r].item
           u == req[r].user
<1>1. /\ o \in OrderIds /\ orders[o] = None
      /\ k \in KeyRows /\ idem[k] = Absent
      /\ u \in WalletUsers /\ i \in Items
      /\ balance[u] >= Price[i]
      /\ orders'[o].item = i /\ orders'[o] # None
      /\ idem'[k] = o
      /\ balance' = [balance EXCEPT ![u] = @ - Price[i]]
  BY CommitEffect DEF IndInv, TypeOK, Amount
<1>2. /\ \A p \in OrderIds \ {o} : orders'[p] = orders[p] /\ jobs'[p] = jobs[p]
      /\ \A x \in KeyRows \ {k} : idem'[x] = idem[x]
      /\ jobs'[o] = 1
  <2>1. jobs[o] = 0
    BY <1>1 DEF IndInv, OneJobPerOrder
  <2>2. jobs' = [jobs EXCEPT ![o] = @ + 1] /\ jobs \in [OrderIds -> Nat]
    BY CommitEffect DEF IndInv, TypeOK
  <2>3. jobs'[o] = 1 /\ \A p \in OrderIds \ {o} : jobs'[p] = jobs[p]
    BY <1>1, <2>1, <2>2
  <2>4. \A p \in OrderIds \ {o} : orders'[p] = orders[p]
    <3>1. orders \in [OrderIds -> Order \cup {None}]
      BY DEF IndInv, TypeOK
    <3>2. QED
      BY <3>1, CommitEffect
  <2>5. idem' = [idem EXCEPT ![k] = o] /\ idem \in [KeyRows -> -1..MaxOrders]
    BY CommitEffect DEF IndInv, TypeOK
  <2>6. \A x \in KeyRows \ {k} : idem'[x] = idem[x]
    BY <1>1, <2>5
  <2>7. QED
    BY <2>3, <2>4, <2>6
<1>3. \A x \in KeyRows : idem[x] \in OrderIds => idem[x] # o
  BY <1>1 DEF IndInv, OneOrderPerKey, Absent, OrderIds
<1>4. /\ Bought(k) = None /\ Tickets(k) = 0 /\ Renewed(k) = 0
      /\ k[1] = req[r].vendor /\ k[2] = u
  BY <1>1 DEF Bought, Tickets, Renewed, Absent, OrderIds, Row
<1>5. [x \in KeyRows |-> Bought(x)]' = [[x \in KeyRows |-> Bought(x)] EXCEPT ![k] = i]
  <2>1. \A x \in KeyRows \ {k} : Bought(x)' = Bought(x)
    BY <1>2, <1>3 DEF Bought
  <2>2. (IF idem'[k] \in OrderIds THEN orders'[idem'[k]].item ELSE None) = i
    BY <1>1
  <2>3. QED
    BY <1>1, <2>1, <2>2 DEF Bought
<1>6. [x \in KeyRows |-> Tickets(x)]' = [[x \in KeyRows |-> Tickets(x)] EXCEPT ![k] = 1]
  <2>1. \A x \in KeyRows \ {k} : Tickets(x)' = Tickets(x)
    BY <1>2, <1>3 DEF Tickets
  <2>2. (IF idem'[k] \in OrderIds THEN jobs'[idem'[k]] ELSE 0) = 1
    BY <1>1, <1>2
  <2>3. QED
    BY <1>1, <2>1, <2>2 DEF Tickets
<1>7. P!Pay(k, i)
  BY <1>1, <1>4, <1>5, <1>6 DEF P!Pay
<1>8. CASE req[r].kind # "renew"
  <2>1. i \in Active /\ ItemVendor[i] = k[1] /\ k \in Vendors \X Users \X Keys
    <3>1. /\ req[r].kind = "create" /\ i \in Active /\ ItemVendor[i] = req[r].vendor
      BY <1>8 DEF IndInv, Checked, InOrderTx, Commit
    <3>2. req[r].key \in Keys
      BY <3>1 DEF IndInv, WellFormed, Commit
    <3>3. QED
      BY <1>1, <1>4, <3>1, <3>2 DEF Row, KeyRows
  <2>2. ext' = ext /\ ext[o] = 0
    BY <1>1, <1>8 DEF Commit, ExtendExpiryTx, IndInv, IdsInUse
  <2>3. \A x \in KeyRows : Renewed(x)' = Renewed(x)
    BY <1>1, <1>2, <1>3, <1>4, <2>2 DEF Renewed
  <2>4. P!Buy(k, i)
    BY <1>7, <2>1, <2>3 DEF P!Buy
  <2>5. QED
    BY <1>1, <2>1, <2>4 DEF P!Next
<1>9. CASE req[r].kind = "renew"
  <2> DEFINE s == req[r].svc
             k0 == RowOf(s)
  <2>1. /\ s \in OrderIds /\ orders[s] # None
        /\ req[r].vendor = orders[s].vendor /\ u = orders[s].user
        /\ i = orders[s].item
        /\ \E t \in Stamps : req[r].key = <<s, t>>
    BY <1>9 DEF IndInv, Checked, InOrderTx, Commit, IdsInUse, TypeOK
  <2>2. k0 \in KeyRows /\ idem[k0] = s /\ s # o
    BY <1>1, <2>1 DEF IndInv, TypeOK, OneOrderPerKey, RowOf, KeyRows, Order
  <2>3. k0 # k
    BY <1>1, <2>1, <2>2 DEF Absent, OrderIds
  <2>4. Bought(k0) = i /\ i # None
    BY <1>1, <2>1, <2>2, KeyAssumption DEF Bought
  <2>5. k0[1] = k[1] /\ k0[2] = k[2]
    BY <2>1 DEF RowOf, Row
  <2>6. k \in KeyRows \ (Vendors \X Users \X Keys)
    BY <1>1, <2>1, KeyAssumption DEF Row, RenewKeys
  <2>7. [x \in KeyRows |-> Renewed(x)]' = [[x \in KeyRows |-> Renewed(x)] EXCEPT ![k0] = @ + 1]
    <3>1. /\ ext'[s] = ext[s] + 1
          /\ \A p \in OrderIds \ {s} : ext'[p] = ext[p]
          /\ ext[o] = 0
      BY <1>1, <1>9, <2>1 DEF Commit, ExtendExpiryTx, IndInv, IdsInUse, TypeOK
    <3>2. \A x \in KeyRows : idem[x] = s => x = k0
      BY <2>1 DEF IndInv, OneOrderPerKey, Absent, OrderIds
    <3>3. \A x \in KeyRows \ {k0} : Renewed(x)' = Renewed(x)
      BY <1>1, <1>2, <1>4, <2>2, <3>1, <3>2 DEF Renewed
    <3>4. (IF idem'[k0] \in OrderIds THEN ext'[idem'[k0]] ELSE 0) = Renewed(k0) + 1
      BY <1>2, <2>1, <2>2, <2>3, <3>1 DEF Renewed
    <3>5. QED
      BY <2>2, <3>3, <3>4 DEF Renewed
  <2>8. P!Renew(k0, k)
    BY <1>7, <2>2, <2>3, <2>4, <2>5, <2>7 DEF P!Renew
  <2>9. QED
    BY <1>1, <2>2, <2>6, <2>8 DEF P!Next
<1>10. QED
  BY <1>8, <1>9

\* A top-up is one abstract top-up, or fails without effect.
LEMMA TopUpRefines ==
    ASSUME IndInv, NEW r \in Requests, ApplyTopUp(r)
    PROVE  P!Next \/ UNCHANGED P!vars
<1>1. UNCHANGED <<debit, idem, orders, jobs, ext>>
  BY DEF ApplyTopUp, tables
<1>2. UNCHANGED <<[k \in KeyRows |-> Bought(k)], [k \in KeyRows |-> Tickets(k)],
                  [k \in KeyRows |-> Renewed(k)]>>
  BY <1>1 DEF Bought, Tickets, Renewed
<1>3. req[r].user \in WalletUsers /\ req[r].amount \in TopUps
  BY DEF ApplyTopUp, IndInv, WellFormed, WalletHeld
<1>4. CASE UNCHANGED balance
  BY <1>2, <1>4 DEF P!vars
<1>5. CASE balance' = [balance EXCEPT ![req[r].user] = @ + req[r].amount]
  <2>1. P!TopUp(req[r].user, req[r].amount)
    BY <1>2, <1>5 DEF P!TopUp
  <2>2. QED
    BY <1>3, <2>1 DEF P!Next
<1>6. QED
  BY <1>4, <1>5 DEF ApplyTopUp

\* Steps that leave the committed rows alone are invisible.
LEMMA OtherStepsStutter ==
    ASSUME UNCHANGED <<balance, idem, orders, jobs, ext>>
    PROVE  UNCHANGED P!vars
BY DEF P!vars, Bought, Tickets, Renewed

\* The order engine implements Purchase: every commit is one purchase or
\* renewal, every top-up one top-up, and nothing else is visible.
THEOREM Refinement == Spec => ImplementsPurchase
<1>1. Init => P!Init
  <2> SUFFICES ASSUME Init PROVE P!Init
    OBVIOUS
  <2>1. \A k \in KeyRows : Bought(k) = None /\ Tickets(k) = 0 /\ Renewed(k) = 0
    BY DEF Init, Bought, Tickets, Renewed, Absent, OrderIds
  <2>2. QED
    BY <2>1 DEF Init, P!Init
<1>2. IndInv /\ [Next]_vars => [P!Next]_(P!vars)
  <2> SUFFICES ASSUME IndInv, [Next]_vars PROVE P!Next \/ UNCHANGED P!vars
    OBVIOUS
  <2>1. ASSUME NEW r \in Requests, Step(r) PROVE P!Next \/ UNCHANGED P!vars
    <3>1. CASE Commit(r)
      BY <3>1, CommitRefines
    <3>2. CASE ApplyTopUp(r)
      BY <3>2, TopUpRefines
    <3>3. CASE InsertOrder(r) \/ Notify(r)
      BY <3>3, OtherStepsStutter DEF InsertOrder, Notify, wallet, tables
    <3>4. QED
      BY <2>1, <3>1, <3>2, <3>3 DEF Step
  <2>2. ASSUME NEW r \in Requests, Acquire(r) PROVE UNCHANGED P!vars
    BY <2>2, OtherStepsStutter
       DEF Acquire, Resolve, Validate, Begin, ReadPrice, LockService, Reserve,
           Deduct, LockTopUp, wallet, tables
  <2>3. ASSUME NEW r \in Requests,
               \/ CreateOrder(r) \/ RenewStart(r) \/ TopUpStart(r)
               \/ Abort(r) \/ Finish(r)
        PROVE  UNCHANGED P!vars
    BY <2>3, OtherStepsStutter
       DEF CreateOrder, RenewStart, TopUpStart, Abort, Finish, wallet, tables
  <2>4. ASSUME NEW o \in OrderIds, Provisioned(o) PROVE UNCHANGED P!vars
    BY <2>4, OtherStepsStutter DEF Provisioned, wallet
  <2>5. CASE UNCHANGED vars
    BY <2>5, OtherStepsStutter DEF vars, wallet, tables
  <2>6. QED
    BY <2>1, <2>2, <2>3, <2>4, <2>5 DEF Next
<1>3. QED
  BY <1>1, <1>2, Invariance, PTL DEF Spec, ImplementsPurchase, P!Spec

=============================================================================
