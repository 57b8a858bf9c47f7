SPECIFICATION Spec
CONSTANTS
    Principals <- People
    Roles = {"trader"}
    Permissions <- Operations
    RoleGrants <- AllGrants
    PermissionGrants <- TraderPermissions
    Suspensions = {}
    InitialRoleGrants <- AllGrants
    InitialPermissionGrants <- TraderPermissions
    Revocable = {}
    RequestIds <- Ids
    Nonces = {"n1", "n2"}
    Bonds = {"b1", "b2"}
    Prices = {"p"}
    Revisions <- TwoRevisions
    Offers <- UnnamedOffers
    Quotes = {"q1"}
    NoQuote = "none"
    NoRevision = "none"
    InitialBonds = {"b1"}
    LegacyOffers = {}
    MaxAttempts = 8
    SpuriousAborts = FALSE
    i1 = i1
    i2 = i2
    i3 = i3
    i4 = i4
    i5 = i5
    x1 = x1
    x2 = x2
    v1 = v1
    v2 = v2
    Requests <- Quoting
SYMMETRY QuotingSymmetry
INVARIANTS
    QuotePricesOneOffer
PROPERTIES
    ImplementsMarketplace
CHECK_DEADLOCK FALSE
