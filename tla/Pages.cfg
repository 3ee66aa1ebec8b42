\* A user with a wallet and one without, two vendors, two purchases
\* and a renewal, lists short enough to be cut off, queries that fail.
CONSTANTS
    v1 = v1
    v2 = v2
    u1 = u1
    u2 = u2
    k1 = k1
    renewal = renewal
    basic = basic
    gift = gift
    twin = twin
    rival = rival
    None = None
    Vendors = {v1, v2}
    Users = {u1, u2}
    Items = {basic, gift, twin, rival}
    ServiceCatalog = {basic, twin, rival}
    ItemVendor <- MCItemVendor
    Price <- MCPrice
    Active = {basic, gift, rival}
    WalletUsers = {u1}
    TopUps <- MCTopUps
    Rows <- MCRows
    CallerRows <- MCCallerRows
    Slug <- MCSlug
    ValidSlugs = {"one", "vless", "gift"}
    MaxLedger = 3
    SummaryLimit = 2
    OrdersLimit = 2
    WalletLimit = 2
    Faults = TRUE
SPECIFICATION Spec
INVARIANTS TypeOK PagesCoherent CheckoutSound
