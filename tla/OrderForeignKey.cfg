\* The database the program fills by itself: service_catalog stays empty.
CONSTANTS
    r1 = r1
    r2 = r2
    r3 = r3
    v1 = v1
    v2 = v2
    u1 = u1
    u2 = u2
    k1 = k1
    k2 = k2
    basic = basic
    plus = plus
    ghost = ghost
    None = None
    Requests = {r1, r2}
    Vendors = {v1}
    Users = {u1}
    Items = {basic}
    Keys = {k1}
    Stamps = {1}
    TopUps <- MCTopUps
    ItemVendor <- MCOneItemVendor
    Price <- MCOnePrice
    Active = {basic}
    ServiceCatalog = {}
    WalletUsers = {u1}
    MinBalance <- MCMinBalance
    MaxBalance <- MCMaxBalance
    MaxOrders = 2
    MaxConns = 3
    Faults = FALSE
SPECIFICATION Spec
PROPERTIES PaidOrderAccepted
