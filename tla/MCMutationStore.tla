--------------------------- MODULE MCMutationStore ---------------------------
(***************************************************************************)
(* Small instances of MutationStore.  Each configuration picks one of the  *)
(* sets of requests below, named for the situation it sets up.             *)
(***************************************************************************)
EXTENDS MutationStore, TLC

CONSTANTS
    i1, i2, i3, i4, i5,   \* request ids
    x1, x2,               \* ids of offers that no request names
    v1, v2                \* revisions of the rate

Buy(id, principal, nonce, offer) ==
    [id |-> id, principal |-> principal, nonce |-> nonce,
     body |-> [op |-> "purchases.buy", offer |-> offer]]

Create(id, principal, nonce, bond, quote) ==
    [id |-> id, principal |-> principal, nonce |-> nonce,
     body |-> [op |-> "offers.create", bond |-> bond, price |-> "p", quote |-> quote]]

AskQuote(id, principal, nonce, bond) ==
    [id |-> id, principal |-> principal, nonce |-> nonce,
     body |-> [op |-> "offers.quote", bond |-> bond, price |-> "p"]]

Ids == {i1, i2, i3, i4, i5}
RetryIds == {i2, i3}
RetrySymmetry == Permutations(RetryIds)
UnnamedOffers == {x1, x2}
TwoRevisions == {v1, v2}
QuotingSymmetry ==
    RetrySymmetry \cup Permutations(UnnamedOffers) \cup Permutations(TwoRevisions)

People == {"alice", "bob", "carol"}
AllGrants == [principal : People, role : {"trader"}, n : {1}]
TraderPermissions == [role : {"trader"}, permission : Operations, n : {1}]

LegacyOffer ==
    [id |-> "old", seller |-> "alice", bond |-> "b1",
     terms |-> [price |-> "p", revision |-> "none"],
     quote |-> "none", canonical |-> FALSE]
OneLegacyOffer == {LegacyOffer}
OneMigratedOffer == {[LegacyOffer EXCEPT !.canonical = TRUE]}

\* Alice publishes; Bob and Carol race for the offer, Bob's client retries, and
\* he uses the same nonce for a legacy offer.
BuyRace ==
    {Create(i1, "alice", "n1", "b1", "none"), Buy(i2, "bob", "n1", "o1"),
     Buy(i3, "bob", "n1", "o1"), Buy(i4, "carol", "n1", "o1"),
     Buy(i5, "bob", "n1", "old")}

\* Two buyers race for an offer that the migration gave its terms, and the client
\* of one retries: its nonce and the offer are contended at once.
BuyRetried ==
    {Buy(i2, "bob", "n1", "old"), Buy(i3, "bob", "n1", "old"),
     Buy(i4, "carol", "n1", "old")}

\* A bond that may be provisioned meanwhile: Alice asks for a quote, retries,
\* submits it, and submits it again under another nonce.
Quoting ==
    {AskQuote(i2, "alice", "n1", "b2"), AskQuote(i3, "alice", "n1", "b2"),
     Create(i1, "alice", "n1", "b2", "q1"), Create(i4, "alice", "n2", "b2", "q1")}

\* A quote for a bond that may be provisioned meanwhile, and its retry.
RejectedQuote ==
    {AskQuote(i1, "alice", "n1", "b2"), AskQuote(i2, "alice", "n1", "b2")}

\* A trader who publishes an offer and buys it herself while her access changes.
Watched ==
    {Create(i1, "alice", "n1", "b1", "none"), Buy(i2, "alice", "n1", "o1")}
AliceGrants == [principal : {"alice"}, role : {"trader"}, n : {1, 2}]
AliceFirstGrant == [principal : {"alice"}, role : {"trader"}, n : {1}]
TradePermissions ==
    [role : {"trader"}, permission : {"offers.create", "purchases.buy"}, n : {1}]
SecondBuyPermission ==
    [role : {"trader"}, permission : {"purchases.buy"}, n : {2}]
WatchedPermissions == TradePermissions \cup SecondBuyPermission
FirstGrants ==
    AliceFirstGrant
    \cup [role : {"trader"}, permission : {"purchases.buy"}, n : {1}]
AliceSuspension == [principal : {"alice"}, n : {1}]

=============================================================================
