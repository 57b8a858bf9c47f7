SPECIFICATION Spec
CONSTANTS
    Principals <- People
    Roles = {"trader"}
    Permissions <- Operations
    RoleGrants <- AllGrants
    PermissionGrants <- TraderPermissions
    Suspensions = {}
    InitialRoleGrants <- AllGrants
    InitialPermissionGrants <- TraderPermissions
    Revocable = {}
    RequestIds <- Ids
    Nonces = {"n1", "n2"}
    Bonds = {"b1"}
    Prices = {"p"}
    Revisions = {}
    Offers = {"o1", "old"}
    Quotes = {}
    NoQuote = "none"
    NoRevision = "none"
    InitialBonds = {"b1"}
    LegacyOffers <- OneLegacyOffer
    MaxAttempts = 8
    SpuriousAborts = FALSE
    i1 = i1
    i2 = i2
    i3 = i3
    i4 = i4
    i5 = i5
    x1 = x1
    x2 = x2
    v1 = v1
    v2 = v2
    Requests <- BuyRace
SYMMETRY RetrySymmetry
INVARIANTS
    SettledAnswersAgree
    SettledAnswersAreDurable
    ClaimsPairWithResults
    OneBuyerPerOffer
    EventsMatchSuccesses
    KeysInvariant
    RefusedBuysLostToSomeone
    ConflictsSettleInThreeAttempts
CHECK_DEADLOCK FALSE
