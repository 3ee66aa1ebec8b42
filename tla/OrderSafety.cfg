\* Two handlers of one user, two caller keys, renewals, two vendors.
CONSTANTS
    r1 = r1
    r2 = r2
    r3 = r3
    v1 = v1
    v2 = v2
    u1 = u1
    u2 = u2
    k1 = k1
    k2 = k2
    basic = basic
    plus = plus
    ghost = ghost
    None = None
    Requests = {r1, r2}
    Vendors = {v1, v2}
    Users = {u1}
    Items = {basic, plus, ghost}
    Keys = {k1, k2}
    Stamps = {1}
    TopUps <- MCTopUps
    ItemVendor <- MCItemVendor
    Price <- MCPrice
    Active = {basic, plus}
    ServiceCatalog = {basic, ghost}
    WalletUsers = {u1}
    MinBalance <- MCMinBalance
    MaxBalance <- MCMaxBalance
    MaxOrders = 2
    MaxConns = 3
    Faults = TRUE
SPECIFICATION Spec
SYMMETRY RequestSymmetry
INVARIANTS TypeOK OneOrderPerKey LedgerBalances RenewalsPaid
    AnswersTruthful DebitsMatchOrders
PROPERTIES NoOverdraft Durable ImplementsPurchase
