---------------------------- MODULE MarketFacts ----------------------------
(***************************************************************************)
(* The append-only market tables as sets of rows, the requests that add to *)
(* them, and the queries every mutation is made of.  A state of the tables *)
(* is a record with one set per table, so that a snapshot and a write set  *)
(* have the same form as the tables.  The request digest is the body       *)
(* itself: SHA-256 is taken to tell any two bodies apart.                  *)
(***************************************************************************)
EXTENDS Rbac

CONSTANTS
    Requests,        \* the requests clients send
    RequestIds, Nonces, Bonds, Prices, Revisions,
    Offers, Quotes,  \* identifiers the database may generate
    NoQuote, NoRevision,
    InitialBonds,    \* bonds provisioned before the run
    LegacyOffers     \* offers that predate canonical terms; those in MXN were given theirs

Terms == [price : Prices, revision : Revisions \cup {NoRevision}]

BuyBodies == [op : {"purchases.buy"}, offer : Offers]
CreateBodies ==
    [op : {"offers.create"}, bond : Bonds, price : Prices,
     quote : Quotes \cup {NoQuote}]
QuoteBodies == [op : {"offers.quote"}, bond : Bonds, price : Prices]
Bodies == BuyBodies \cup CreateBodies \cup QuoteBodies

Operations == {"purchases.buy", "offers.create", "offers.quote"}
Scopes == Principals \X Operations \X Nonces

\* sale_offers with its canonical terms and its submission row: one fact,
\* since one statement inserts the three.  canonical is FALSE for legacy rows in
\* other currencies, which the migration left without terms.
OfferFacts ==
    [id : Offers, seller : Principals, bond : Bonds, terms : Terms,
     quote : Quotes \cup {NoQuote}, canonical : BOOLEAN]
QuoteFacts == [id : Quotes, principal : Principals, bond : Bonds, terms : Terms]
PurchaseFacts == [offer : Offers, buyer : Principals]
Claims == [scope : Scopes, digest : Bodies]
RejectionCodes ==
    {"offer_unavailable", "self_trade_prohibited", "bond_not_found",
     "conversion_quote_unavailable"}
Outcomes ==
    [outcome : {"succeeded"}, resource : Offers \cup Quotes]
    \cup [outcome : {"rejected"}, code : RejectionCodes]
Results == [scope : Scopes, result : Outcomes]
Events == [table : {"sale_offers", "purchases"}, source : Offers]

\* expired is the database clock: the quotes whose expires_at has passed.
Databases ==
    [expired : SUBSET Quotes, bonds : SUBSET Bonds,
     offers : SUBSET OfferFacts, quotes : SUBSET QuoteFacts,
     purchases : SUBSET PurchaseFacts, claims : SUBSET Claims,
     results : SUBSET Results, events : SUBSET Events]

\* What a server answers: the content of the resource, a recorded rejection,
\* or an error that settles nothing.
PurchaseContents == [offer : OfferFacts, buyer : Principals]
Replies ==
    [kind : {"succeeded"},
     content : PurchaseContents \cup OfferFacts \cup QuoteFacts]
    \cup [kind : {"rejected"}, code : RejectionCodes]
    \cup [kind : {"error"},
          code : {"permission_denied", "idempotency_conflict",
                  "exchange_rate_unavailable", "failed"}]
    \cup [kind : {"none"}]

ASSUME FactsAssumption ==
    /\ Requests \subseteq [id : RequestIds, principal : Principals,
                           nonce : Nonces, body : Bodies]
    /\ Operations \subseteq Permissions
    /\ InitialBonds \subseteq Bonds
    /\ Prices # {}
    /\ LegacyOffers \subseteq OfferFacts
    /\ \A o1, o2 \in LegacyOffers : o1.id = o2.id => o1 = o2
    /\ NoQuote \notin Quotes
    /\ NoRevision \notin Revisions
    /\ \A o \in LegacyOffers : o.quote = NoQuote

\* The unique key of operation_claims.  client_id is part of the nonce here:
\* a nonce stands for the pair the client chose it in.
Scope(r) == <<r.principal, r.body.op, r.nonce>>

NoTerms == [price |-> CHOOSE p \in Prices : TRUE, revision |-> NoRevision]
NoReply == [kind |-> "none"]
Error(code) == [kind |-> "error", code |-> code]
Rejected(code) == [kind |-> "rejected", code |-> code]
Succeeded(content) == [kind |-> "succeeded", content |-> content]

Nothing ==
    [expired |-> {}, bonds |-> {}, offers |-> {}, quotes |-> {},
     purchases |-> {}, claims |-> {}, results |-> {}, events |-> {}]

Merge(d, x) ==
    [expired |-> d.expired \cup x.expired,
     bonds |-> d.bonds \cup x.bonds, offers |-> d.offers \cup x.offers,
     quotes |-> d.quotes \cup x.quotes,
     purchases |-> d.purchases \cup x.purchases,
     claims |-> d.claims \cup x.claims, results |-> d.results \cup x.results,
     events |-> d.events \cup x.events]

-----------------------------------------------------------------------------
(* Reading a state d of the tables.                                         *)

ClaimsOf(d, scope) == {c \in d.claims : c.scope = scope}
PurchasesOf(d, offer) == {p \in d.purchases : p.offer = offer}
OffersFrom(d, quote) == {o \in d.offers : o.quote = quote}

CanonicalOffers(d, offer) == {o \in d.offers : o.id = offer /\ o.canonical}
ResultsOf(d, scope) == {x \in d.results : x.scope = scope}

\* What is read back for a resource: purchaseByOfferQuery, the query of
\* replayCreatedOffer and conversionQuoteByIDQuery.
ContentsIn(d, op, resource) ==
    CASE op = "purchases.buy" ->
           {[offer |-> o, buyer |-> p.buyer] :
              o \in CanonicalOffers(d, resource), p \in PurchasesOf(d, resource)}
      [] op = "offers.create" -> CanonicalOffers(d, resource)
      [] OTHER -> {q \in d.quotes : q.id = resource}

\* Mutant of StoredAnswer: the digests are not compared.
StoredAnswerUnchecked(d, r, claim, row) ==
    IF row.result.outcome = "rejected" THEN Rejected(row.result.code)
    ELSE LET contents == ContentsIn(d, r.body.op, row.result.resource)
         IN  IF contents = {} THEN Error("failed")
             ELSE Succeeded(CHOOSE k \in contents : TRUE)

\* The answer a stored claim and its result give to request r.
StoredAnswer(d, r, claim, row) ==
    CASE claim.digest # r.body -> Error("idempotency_conflict")
      [] claim.digest = r.body /\ row.result.outcome = "rejected" ->
           Rejected(row.result.code)
      [] OTHER ->
           LET contents == ContentsIn(d, r.body.op, row.result.resource)
           IN  IF contents = {} THEN Error("failed")
               ELSE Succeeded(CHOOSE k \in contents : TRUE)

\* The same over the join of claims and results; rows selects the results the
\* query asks for.  A claim without a result is an internal error.
StoredAnswers(d, r, rows) ==
    LET found == {StoredAnswer(d, r, c, x) :
                    c \in ClaimsOf(d, Scope(r)), x \in rows}
    IN  IF found = {} THEN {Error("failed")} ELSE found

\* The offers buyQuery would sell to r: canonical and not the caller's own.
Buyable(d, r) ==
    {o \in CanonicalOffers(d, r.body.offer) : o.seller # r.principal}

\* classifyFailedBuyQuery: the caller's own offer while nobody has bought it,
\* anything else is unavailable.
BuyRejection(d, r) ==
    IF /\ \E o \in CanonicalOffers(d, r.body.offer) : o.seller = r.principal
       /\ PurchasesOf(d, r.body.offer) = {}
    THEN "self_trade_prohibited" ELSE "offer_unavailable"

\* The quotes that cover a USD submission: the caller's own, for the same bond
\* and price, and not yet used by another offer.
CoveringQuotes(d, r) ==
    {q \in d.quotes :
        /\ q.id = r.body.quote
        /\ q.principal = r.principal
        /\ q.bond = r.body.bond
        /\ q.terms.price = r.body.price
        /\ OffersFrom(d, q.id) = {}}

-----------------------------------------------------------------------------
(* The rows an operation inserts.                                           *)

ClaimRows(r) == {[scope |-> Scope(r), digest |-> r.body]}

\* Mutant of SuccessRows: the error of recordOperationSuccess is dropped, and the
\* fact commits without its result.
FactWithoutResult(r, resource, rows) == [rows EXCEPT !.claims = ClaimRows(r)]

\* The rows of a success: the fact, the claim, the result and, by the trigger
\* on operation_results, the event of a creation or a purchase.
SuccessRows(r, resource, rows) ==
    [rows EXCEPT
        !.claims = ClaimRows(r),
        !.results = {[scope |-> Scope(r),
                      result |-> [outcome |-> "succeeded", resource |-> resource]]},
        !.events =
           CASE r.body.op = "offers.create" ->
                  {[table |-> "sale_offers", source |-> resource]}
             [] r.body.op = "purchases.buy" ->
                  {[table |-> "purchases", source |-> resource]}
             [] OTHER -> {}]

\* Mutant of RejectionRows: the trigger does not look at the outcome.
RejectionRowsWithEvent(r, code) ==
    [Nothing EXCEPT
        !.claims = ClaimRows(r),
        !.results = {[scope |-> Scope(r),
                      result |-> [outcome |-> "rejected", code |-> code]]},
        !.events = IF r.body.op = "purchases.buy"
                   THEN {[table |-> "purchases", source |-> r.body.offer]} ELSE {}]

RejectionRows(r, code) ==
    [Nothing EXCEPT
        !.claims = ClaimRows(r),
        !.results = {[scope |-> Scope(r),
                      result |-> [outcome |-> "rejected", code |-> code]]}]

PurchaseRow(r) == [offer |-> r.body.offer, buyer |-> r.principal]
OfferRow(r, id, accepted) ==
    [id |-> id, seller |-> r.principal, bond |-> r.body.bond,
     terms |-> accepted, quote |-> r.body.quote, canonical |-> TRUE]
QuoteRow(r, id, quoted) ==
    [id |-> id, principal |-> r.principal, bond |-> r.body.bond, terms |-> quoted]

\* The canonical terms of a submission in MXN.
NativeTerms(r) == [price |-> r.body.price, revision |-> NoRevision]

=============================================================================
