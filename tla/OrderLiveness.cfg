\* Two handlers contend for a key, a wallet and a service; u2 has no wallet.
CONSTANTS
    r1 = r1
    r2 = r2
    r3 = r3
    v1 = v1
    v2 = v2
    u1 = u1
    u2 = u2
    k1 = k1
    k2 = k2
    basic = basic
    plus = plus
    ghost = ghost
    None = None
    Requests = {r1, r2}
    Vendors = {v1}
    Users = {u1, u2}
    Items = {basic}
    Keys = {k1}
    Stamps = {1}
    TopUps <- MCTopUps
    ItemVendor <- MCOneItemVendor
    Price <- MCOnePrice
    Active = {basic}
    ServiceCatalog = {basic}
    WalletUsers = {u1}
    MinBalance <- MCMinBalance
    MaxBalance <- MCMaxBalance
    MaxOrders = 2
    MaxConns = 2
    Faults = TRUE
SPECIFICATION FairSpec
PROPERTIES RequestsAnswered
