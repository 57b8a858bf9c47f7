------------------------- MODULE MutationStoreProofs -------------------------
(***************************************************************************)
(* Theorems about MutationStore for every set of requests, principals,     *)
(* bonds, identifiers and authorization facts.                             *)
(***************************************************************************)
EXTENDS MutationStore, TLAPS

-----------------------------------------------------------------------------
(* Types of the operators.                                                  *)

\* What a request is made of; the body's fields follow from its operation.
LEMMA RequestType ==
    ASSUME NEW r \in Requests
    PROVE  /\ r.principal \in Principals
           /\ r.nonce \in Nonces
           /\ r.body \in Bodies
           /\ r.body.op \in Operations
           /\ Scope(r) \in Scopes
           /\ r.body.op = "purchases.buy" => r.body.offer \in Offers
           /\ r.body.op # "purchases.buy" =>
                r.body.bond \in Bonds /\ r.body.price \in Prices
           /\ r.body.op = "offers.create" => r.body.quote \in Quotes \cup {NoQuote}
  <1>1. /\ r.principal \in Principals
        /\ r.nonce \in Nonces
        /\ r.body \in Bodies
    BY FactsAssumption
  <1>2. CASE r.body \in BuyBodies
    BY <1>1, <1>2 DEF BuyBodies, Operations, Scope, Scopes
  <1>3. CASE r.body \in CreateBodies
    BY <1>1, <1>3 DEF CreateBodies, Operations, Scope, Scopes
  <1>4. CASE r.body \in QuoteBodies
    BY <1>1, <1>4 DEF QuoteBodies, Operations, Scope, Scopes
  <1> QED BY <1>1, <1>2, <1>3, <1>4 DEF Bodies

LEMMA NothingType == Nothing \in Databases
  BY DEF Nothing, Databases

LEMMA MergeType ==
    ASSUME NEW d \in Databases, NEW x \in Databases
    PROVE  Merge(d, x) \in Databases
  BY DEF Merge, Databases

LEMMA NoTermsType == NoTerms \in Terms
  <1>1. \E p \in Prices : TRUE
    BY FactsAssumption
  <1>2. (CHOOSE p \in Prices : TRUE) \in Prices
    BY <1>1
  <1> QED BY <1>2 DEF NoTerms, Terms

LEMMA ErrorType ==
    /\ Error("permission_denied") \in Replies
    /\ Error("idempotency_conflict") \in Replies
    /\ Error("exchange_rate_unavailable") \in Replies
    /\ Error("failed") \in Replies
    /\ NoReply \in Replies
  BY DEF Error, NoReply, Replies

LEMMA RejectedType ==
    ASSUME NEW code \in RejectionCodes
    PROVE  Rejected(code) \in Replies
  BY DEF Rejected, Replies

LEMMA SucceededType ==
    ASSUME NEW content \in PurchaseContents \cup OfferFacts \cup QuoteFacts
    PROVE  Succeeded(content) \in Replies
  BY DEF Succeeded, Replies

LEMMA RejectionRowsType ==
    ASSUME NEW r \in Requests, NEW code \in RejectionCodes
    PROVE  RejectionRows(r, code) \in Databases
  <1>1. [scope |-> Scope(r), digest |-> r.body] \in Claims
    BY RequestType DEF Claims
  <1>2. [scope |-> Scope(r), result |-> [outcome |-> "rejected", code |-> code]] \in Results
    BY RequestType DEF Results, Outcomes
  <1> QED BY <1>1, <1>2 DEF RejectionRows, ClaimRows, Nothing, Databases

LEMMA SuccessRowsType ==
    ASSUME NEW r \in Requests, NEW rows \in Databases,
           NEW resource \in Offers \cup Quotes,
           r.body.op # "offers.quote" => resource \in Offers
    PROVE  SuccessRows(r, resource, rows) \in Databases
  <1>1. [scope |-> Scope(r), digest |-> r.body] \in Claims
    BY RequestType DEF Claims
  <1>2. [scope |-> Scope(r),
         result |-> [outcome |-> "succeeded", resource |-> resource]] \in Results
    BY RequestType DEF Results, Outcomes
  <1>3. /\ r.body.op = "offers.create" =>
            [table |-> "sale_offers", source |-> resource] \in Events
        /\ r.body.op = "purchases.buy" =>
            [table |-> "purchases", source |-> resource] \in Events
    BY DEF Events
  <1> QED BY <1>1, <1>2, <1>3 DEF SuccessRows, ClaimRows, Databases

LEMMA StoredAnswerType ==
    ASSUME NEW d \in Databases, NEW r \in Requests,
           NEW claim \in d.claims, NEW row \in d.results
    PROVE  StoredAnswer(d, r, claim, row) \in Replies
  <1> DEFINE contents == ContentsIn(d, r.body.op, row.result.resource)
             Rejection == claim.digest = r.body /\ row.result.outcome = "rejected"
  <1>1. row.result \in Outcomes
    BY DEF Databases, Results
  <1>2. Rejection => Rejected(row.result.code) \in Replies
    BY <1>1, RejectedType DEF Outcomes
  <1>3. contents \subseteq PurchaseContents \cup OfferFacts \cup QuoteFacts
    BY DEF ContentsIn, CanonicalOffers, PurchasesOf, PurchaseContents,
           Databases, PurchaseFacts
  <1>4. contents # {} => Succeeded(CHOOSE k \in contents : TRUE) \in Replies
    <2> SUFFICES ASSUME contents # {}
                 PROVE  Succeeded(CHOOSE k \in contents : TRUE) \in Replies
      OBVIOUS
    <2>1. (CHOOSE k \in contents : TRUE) \in contents
      OBVIOUS
    <2> HIDE DEF contents
    <2> QED BY <2>1, <1>3, SucceededType
  <1> HIDE DEF contents
  <1>5. StoredAnswer(d, r, claim, row) =
          CASE claim.digest # r.body -> Error("idempotency_conflict")
            [] Rejection -> Rejected(row.result.code)
            [] OTHER -> IF contents = {} THEN Error("failed")
                        ELSE Succeeded(CHOOSE k \in contents : TRUE)
    BY DEF StoredAnswer, contents
  <1> QED BY <1>2, <1>4, <1>5, ErrorType

LEMMA StoredAnswersType ==
    ASSUME NEW d \in Databases, NEW r \in Requests,
           NEW rows \in SUBSET d.results
    PROVE  StoredAnswers(d, r, rows) \subseteq Replies
  <1>1. \A c \in ClaimsOf(d, Scope(r)), x \in rows :
           StoredAnswer(d, r, c, x) \in Replies
    BY StoredAnswerType DEF ClaimsOf
  <1> QED BY <1>1, ErrorType DEF StoredAnswers

-----------------------------------------------------------------------------
(* Type correctness.                                                        *)

TxTypeOK ==
    /\ pc \in [Requests -> Phases]
    /\ attempt \in [Requests -> 0 .. MaxAttempts - 1]
    /\ snap \in [Requests -> Databases]
    /\ w \in [Requests -> Databases]
    /\ terms \in [Requests -> Terms]
    /\ reply \in [Requests -> Replies]
    /\ sawGrant \in [Requests -> BOOLEAN]

LEMMA FinishType ==
    ASSUME TypeOK, NEW r \in Requests, NEW a \in Replies, Finish(r, a)
    PROVE  TxTypeOK'
  BY NothingType DEF TypeOK, TxTypeOK, Finish, Phases

LEMMA RetryType ==
    ASSUME TypeOK, NEW r \in Requests, Retry(r)
    PROVE  TxTypeOK'
  <1>1. CASE Finish(r, Error("failed"))
    BY <1>1, FinishType, ErrorType
  <1>2. CASE ~ Finish(r, Error("failed"))
    <2>1. attempt[r] \in 0 .. MaxAttempts - 1
      BY DEF TypeOK
    <2>2. attempt[r] + 1 \in 0 .. MaxAttempts - 1 /\ TryAgain(r, attempt[r] + 1)
      BY <1>2, <2>1, StoreAssumption DEF Retry
    <2>3. Effective(r.principal, r.body.op) \in BOOLEAN
      BY DEF Effective, EffectiveIn
    <2> QED BY <2>2, <2>3, NothingType, ErrorType
            DEF TypeOK, TxTypeOK, TryAgain, Phases
  <1> QED BY <1>1, <1>2

LEMMA RecordSuccessType ==
    ASSUME TypeOK, NEW r \in Requests, NEW rows \in Databases,
           NEW resource \in Offers \cup Quotes,
           r.body.op # "offers.quote" => resource \in Offers,
           NEW content \in PurchaseContents \cup OfferFacts \cup QuoteFacts,
           RecordSuccess(r, resource, rows, content)
    PROVE  TxTypeOK'
  <1>1. SuccessRows(r, resource, rows) \in Databases
    BY SuccessRowsType
  <1>2. Succeeded(content) \in Replies
    BY SucceededType
  <1> QED BY <1>1, <1>2 DEF RecordSuccess, TypeOK, TxTypeOK, Phases

LEMMA RecordRejectionType ==
    ASSUME TypeOK, NEW r \in Requests, NEW code \in RejectionCodes,
           RecordRejection(r, code)
    PROVE  TxTypeOK'
  BY RejectionRowsType, RejectedType DEF RecordRejection, TypeOK, TxTypeOK, Phases

LEMMA KeepDbType ==
    ASSUME TypeOK, KeepDb, TxTypeOK'
    PROVE  TypeOK'
  BY DEF TypeOK, TxTypeOK, KeepDb, RbacTypeOK

LEMMA AdministerType ==
    ASSUME RbacTypeOK, Administer
    PROVE  RbacTypeOK'
  BY DEF RbacTypeOK, Administer, GrantRole, RevokeRole, GrantPermission,
         RevokePermission, Suspend, Reinstate

\* Every step of a server keeps the types.
LEMMA ServeType ==
    ASSUME TypeOK, NEW r \in Requests, Serve(r)
    PROVE  TypeOK'
  <1> DEFINE p == r.principal
             body == r.body
  <1>0. /\ db \in Databases
        /\ snap[r] \in Databases
        /\ terms[r] \in Terms
    BY DEF TypeOK
  <1>1. CASE ReplayConversionQuote(r)
    <2> DEFINE succeeded ==
                 {x \in ResultsOf(db, Scope(r)) : x.result.outcome = "succeeded"}
    <2>1. StoredAnswers(db, r, succeeded) \subseteq Replies
      BY <1>0, StoredAnswersType DEF ResultsOf
    <2>2. ASSUME pc' = [pc EXCEPT ![r] = "rating"],
                 UNCHANGED <<attempt, snap, w, terms, reply, sawGrant>>
          PROVE  TxTypeOK'
      BY <2>2 DEF TypeOK, TxTypeOK, Phases
    <2>3. ASSUME \E a \in Replies : Finish(r, a)
          PROVE  TxTypeOK'
      BY <2>3, FinishType
    <2>4. TxTypeOK'
      BY <1>1, <2>1, <2>2, <2>3, ErrorType DEF ReplayConversionQuote
    <2> QED BY <1>1, <2>4, KeepDbType DEF ReplayConversionQuote
  <1>2. CASE LatestRate(r)
    <2>1. CASE Finish(r, Error("exchange_rate_unavailable"))
      BY <1>2, <2>1, FinishType, ErrorType, KeepDbType DEF LatestRate
    <2>2. CASE ~ Finish(r, Error("exchange_rate_unavailable"))
      <3> USE <1>2, <2>2 DEF LatestRate
      <3>1. PICK revision \in Revisions :
              /\ terms' = [terms EXCEPT ![r] =
                            [price |-> r.body.price, revision |-> revision]]
              /\ pc' = [pc EXCEPT ![r] = "begin"]
              /\ UNCHANGED <<attempt, snap, w, reply, sawGrant>>
        OBVIOUS
      <3>2. r.body.price \in Prices
        BY RequestType
      <3>3. [price |-> r.body.price, revision |-> revision] \in Terms
        BY <3>2 DEF Terms
      <3>4. TxTypeOK'
        BY <3>1, <3>3 DEF TypeOK, TxTypeOK, Phases
      <3> QED BY <3>4, KeepDbType
    <2> QED BY <2>1, <2>2
  <1>3. CASE BeginAuthorizedMutation(r)
    <2>1. CASE Finish(r, Error("permission_denied"))
      BY <1>3, <2>1, FinishType, ErrorType, KeepDbType DEF BeginAuthorizedMutation
    <2>2. CASE ~ Finish(r, Error("permission_denied"))
      <3>1. TxTypeOK'
        BY <1>0, <1>3, <2>2 DEF BeginAuthorizedMutation, TypeOK, TxTypeOK, Phases
      <3> QED BY <1>3, <3>1, KeepDbType DEF BeginAuthorizedMutation
    <2> QED BY <2>1, <2>2
  <1>4. CASE ClaimOperation(r)
    <2>1. CASE Retry(r)
      BY <1>4, <2>1, RetryType, KeepDbType DEF ClaimOperation
    <2>2. CASE ~ Retry(r)
      <3>1. [w[r] EXCEPT !.claims = ClaimRows(r)] \in Databases
        <4>1. ClaimRows(r) \subseteq Claims
          BY RequestType DEF ClaimRows, Claims
        <4>2. w[r] \in Databases
          BY DEF TypeOK
        <4> QED BY <4>1, <4>2 DEF Databases
      <3>2. w' = [w EXCEPT ![r] = [w[r] EXCEPT !.claims = ClaimRows(r)]] \/ w' = w
        BY <1>4, <2>2 DEF ClaimOperation
      <3>3. TxTypeOK'
        BY <1>4, <2>2, <3>1, <3>2, NothingType DEF ClaimOperation, TypeOK, TxTypeOK, Phases
      <3> QED BY <1>4, <3>3, KeepDbType DEF ClaimOperation
    <2> QED BY <2>1, <2>2
  <1>5. CASE BuyOnce(r)
    <2>1. body.offer \in Offers /\ p \in Principals
      BY <1>5, RequestType DEF BuyOnce
    <2>2. CASE Retry(r)
      BY <1>5, <2>2, RetryType, KeepDbType DEF BuyOnce
    <2>3. CASE RecordRejection(r, BuyRejection(snap[r], r))
      <3>1. BuyRejection(snap[r], r) \in RejectionCodes
        BY DEF BuyRejection, RejectionCodes
      <3> QED BY <1>5, <2>3, <3>1, RecordRejectionType, KeepDbType DEF BuyOnce
    <2>4. ASSUME NEW o \in Buyable(snap[r], r),
                 RecordSuccess(r, body.offer,
                    [Nothing EXCEPT !.purchases = {PurchaseRow(r)}],
                    [offer |-> o, buyer |-> p])
          PROVE  TypeOK'
      <3>1. [Nothing EXCEPT !.purchases = {PurchaseRow(r)}] \in Databases
        BY <2>1 DEF Nothing, Databases, PurchaseRow, PurchaseFacts
      <3>2. [offer |-> o, buyer |-> p] \in PurchaseContents
        BY <1>0, <2>1 DEF Buyable, CanonicalOffers, Databases, PurchaseContents
      <3>3. TxTypeOK'
        BY <2>1, <2>4, <3>1, <3>2, RecordSuccessType
      <3> QED BY <1>5, <3>3, KeepDbType DEF BuyOnce
    <2> QED BY <1>5, <2>2, <2>3, <2>4
            DEF BuyOnce, InsertPurchase, LosePurchase, RefusePurchase
  <1>6. CASE CheckQuote(r)
    <2>1. CASE RecordRejection(r, "conversion_quote_unavailable")
      BY <1>6, <2>1, RecordRejectionType, KeepDbType DEF CheckQuote, RejectionCodes
    <2>2. ASSUME NEW q \in CoveringQuotes(snap[r], r),
                 terms' = [terms EXCEPT ![r] = q.terms],
                 pc' = [pc EXCEPT ![r] = "priced"],
                 UNCHANGED <<attempt, snap, w, reply, sawGrant>>
          PROVE  TypeOK'
      <3>1. q.terms \in Terms
        BY <1>0 DEF CoveringQuotes, Databases, QuoteFacts
      <3>2. TxTypeOK'
        BY <2>2, <3>1 DEF TypeOK, TxTypeOK, Phases
      <3> QED BY <1>6, <3>2, KeepDbType DEF CheckQuote
    <2> QED BY <1>6, <2>1, <2>2 DEF CheckQuote, AcceptableQuotes
  <1>7. CASE InsertOffer(r)
    <2> DEFINE accepted == IF r.body.quote = NoQuote THEN NativeTerms(r) ELSE terms[r]
    <2>1. /\ p \in Principals
          /\ body.bond \in Bonds
          /\ body.price \in Prices
          /\ body.quote \in Quotes \cup {NoQuote}
      BY <1>7, RequestType DEF InsertOffer
    <2>2. accepted \in Terms
      BY <1>0, <2>1 DEF NativeTerms, Terms
    <2>3. CASE Retry(r)
      BY <1>7, <2>3, RetryType, KeepDbType DEF InsertOffer
    <2>4. CASE Finish(r, Error("failed"))
      BY <1>7, <2>4, FinishType, ErrorType, KeepDbType DEF InsertOffer
    <2>5. CASE RecordRejection(r, "bond_not_found")
      BY <1>7, <2>5, RecordRejectionType, KeepDbType DEF InsertOffer, RejectionCodes
    <2>6. ASSUME NEW i \in FreshOffers,
                 RecordSuccess(r, i,
                    [Nothing EXCEPT !.offers = {OfferRow(r, i, accepted)}],
                    OfferRow(r, i, accepted))
          PROVE  TypeOK'
      <3> HIDE DEF accepted
      <3>0. i \in Offers
        BY DEF FreshOffers
      <3>1. OfferRow(r, i, accepted) \in OfferFacts
        BY <2>1, <2>2, <3>0 DEF OfferRow, OfferFacts
      <3>2. [Nothing EXCEPT !.offers = {OfferRow(r, i, accepted)}] \in Databases
        BY <3>1 DEF Nothing, Databases
      <3>3. TxTypeOK'
        BY <2>6, <3>0, <3>1, <3>2, RecordSuccessType
      <3> QED BY <1>7, <3>3, KeepDbType DEF InsertOffer
    <2> QED BY <1>7, <2>3, <2>4, <2>5, <2>6 DEF InsertOffer
  <1>8. CASE InsertQuote(r)
    <2>1. p \in Principals /\ body.bond \in Bonds
      BY <1>8, RequestType DEF InsertQuote
    <2>2. CASE RecordRejection(r, "bond_not_found")
      BY <1>8, <2>2, RecordRejectionType, KeepDbType DEF InsertQuote, RejectionCodes
    <2>3. ASSUME NEW i \in FreshQuotes,
                 RecordSuccess(r, i,
                    [Nothing EXCEPT !.quotes = {QuoteRow(r, i, terms[r])}],
                    QuoteRow(r, i, terms[r]))
          PROVE  TypeOK'
      <3>0. i \in Quotes /\ body.op = "offers.quote"
        BY <1>8 DEF FreshQuotes, InsertQuote
      <3>1. QuoteRow(r, i, terms[r]) \in QuoteFacts
        BY <1>0, <2>1, <3>0 DEF QuoteRow, QuoteFacts
      <3>2. [Nothing EXCEPT !.quotes = {QuoteRow(r, i, terms[r])}] \in Databases
        BY <3>1 DEF Nothing, Databases
      <3>3. TxTypeOK'
        BY <2>3, <3>0, <3>1, <3>2, RecordSuccessType
      <3> QED BY <1>8, <3>3, KeepDbType DEF InsertQuote
    <2> QED BY <1>8, <2>2, <2>3 DEF InsertQuote
  <1>9. CASE Commit(r)
    <2>1. Merge(db, w[r]) \in Databases
      BY <1>0, MergeType DEF TypeOK
    <2> QED BY <1>9, <2>1, NothingType DEF Commit, TypeOK, Phases, RbacTypeOK
  <1>10. CASE Respond(r)
    BY <1>10 DEF Respond, TypeOK, Phases, RbacTypeOK
  <1>11. CASE ReplayResource(r)
    <2>1. StoredAnswers(db, r, ResultsOf(db, Scope(r))) \subseteq Replies
      BY <1>0, StoredAnswersType DEF ResultsOf
    <2> QED BY <1>11, <2>1, FinishType, KeepDbType DEF ReplayResource
  <1> QED BY <1>1, <1>2, <1>3, <1>4, <1>5, <1>6, <1>7, <1>8, <1>9, <1>10, <1>11
          DEF Serve

LEMMA InitType == Init => TypeOK
  <1> SUFFICES ASSUME Init PROVE TypeOK
    OBVIOUS
  <1>1. [Nothing EXCEPT !.bonds = InitialBonds, !.offers = LegacyOffers] \in Databases
    BY FactsAssumption DEF Nothing, Databases
  <1>2. RbacTypeOK
    BY RbacAssumption DEF Init, RbacInit, RbacTypeOK
  <1> QED BY <1>1, <1>2, StoreAssumption, NothingType, NoTermsType, ErrorType
          DEF Init, TypeOK, Phases

LEMMA NextType == TypeOK /\ [Next]_vars => TypeOK'
  <1> SUFFICES ASSUME TypeOK, [Next]_vars PROVE TypeOK'
    OBVIOUS
  <1>1. ASSUME NEW r \in Requests, Arrive(r)
        PROVE  TypeOK'
    <2>1. Effective(r.principal, r.body.op) \in BOOLEAN
      BY DEF Effective, EffectiveIn
    <2> QED BY <1>1, <2>1 DEF Arrive, TypeOK, Phases, RbacTypeOK
  <1>2. ASSUME NEW r \in Requests, Serve(r)
        PROVE  TypeOK'
    BY <1>2, ServeType
  <1>3. ASSUME NEW r \in Requests, SerializationFailure(r)
        PROVE  TypeOK'
    BY <1>3, RetryType, KeepDbType DEF SerializationFailure
  <1>4. ASSUME NEW r \in Requests, Interrupt(r)
        PROVE  TypeOK'
    BY <1>4, FinishType, ErrorType, KeepDbType DEF Interrupt
  <1>5. ASSUME NEW b \in Bonds, ProvisionBond(b)
        PROVE  TypeOK'
    BY <1>5 DEF ProvisionBond, TypeOK, txVars, RbacTypeOK, Databases
  <1>6. ASSUME NEW q \in Quotes, Expire(q)
        PROVE  TypeOK'
    BY <1>6 DEF Expire, TypeOK, txVars, RbacTypeOK, Databases
  <1>7. CASE ChangeAuthorization
    <2>1. RbacTypeOK'
      BY <1>7, AdministerType DEF ChangeAuthorization, TypeOK
    <2>2. \A r \in Requests :
            ( \/ sawGrant[r]
              \/ /\ pc[r] \notin {"idle", "done"}
                 /\ EffectiveIn(rbac', r.principal, r.body.op)) \in BOOLEAN
      BY DEF TypeOK, EffectiveIn
    <2>3. sawGrant' \in [Requests -> BOOLEAN]
      BY <1>7, <2>2 DEF ChangeAuthorization
    <2> QED BY <1>7, <2>1, <2>3 DEF ChangeAuthorization, TypeOK, txVars
  <1>8. CASE UNCHANGED vars
    BY <1>8 DEF vars, txVars, TypeOK, RbacTypeOK
  <1> QED BY <1>1, <1>2, <1>3, <1>4, <1>5, <1>6, <1>7, <1>8 DEF Next

\* Every reachable state is well typed: the rows inserted by every mutation
\* satisfy the column types of their tables and every answer is one the
\* transports know.
THEOREM TypeCorrect == Spec => []TypeOK
  BY InitType, NextType, PTL DEF Spec

-----------------------------------------------------------------------------
(* The unique keys.  A step of one request leaves what the others hold      *)
(* alone; only Commit moves keys from a write set to the tables.            *)

\* Every step of request r leaves the transactions of the others alone.
OthersKept(r) ==
    \A x \in Requests \ {r} :
        pc'[x] = pc[x] /\ w'[x] = w[x] /\ snap'[x] = snap[x] /\ terms'[x] = terms[x]

\* While the tables stand still, only r's part of the invariant is at stake.
LEMMA OneRequestStep ==
    ASSUME KeysInvariant, NEW r \in Requests, db' = db, OthersKept(r),
           WriteSetOK(r)', KeysFree(r)', WritesLawful(r)',
           \A x \in Requests \ {r} : KeysApart(r, x)'
    PROVE  KeysInvariant'
  <1>1. ASSUME NEW x \in Requests \ {r}
        PROVE  WriteSetOK(x)' /\ KeysFree(x)' /\ WritesLawful(x)'
    <2>1. WriteSetOK(x) /\ KeysFree(x) /\ WritesLawful(x)
      BY DEF KeysInvariant
    <2>2. pc'[x] = pc[x] /\ w'[x] = w[x] /\ snap'[x] = snap[x] /\ terms'[x] = terms[x]
      BY DEF OthersKept
    <2>3. WriteSetOK(x)'
      BY <2>1, <2>2 DEF WriteSetOK, Holding
    <2>4. KeysFree(x)'
      BY <2>1, <2>2 DEF KeysFree, Holding, ClaimsOf, PurchasesOf, OffersFrom
    <2>5. WritesLawful(x)'
      BY <2>1, <2>2 DEF WritesLawful, Lawful, QuotesBehind, CanonicalOffers
    <2> QED BY <2>3, <2>4, <2>5
  <1>2. ASSUME NEW x \in Requests \ {r}
        PROVE  KeysApart(x, r)'
    <2>1. KeysApart(r, x)'
      OBVIOUS
    <2> QED BY <2>1 DEF KeysApart
  <1>3. ASSUME NEW x \in Requests \ {r}, NEW y \in Requests \ {r}, x # y
        PROVE  KeysApart(x, y)'
    <2>1. KeysApart(x, y)
      BY <1>3 DEF KeysInvariant
    <2> QED BY <2>1 DEF KeysApart, OthersKept, Holding
  <1>4. /\ ClaimsPairWithResults'
        /\ OnePurchasePerOffer'
        /\ PurchasesAreLawful'
        /\ QuotePricesOneOffer'
    BY DEF KeysInvariant, ClaimsPairWithResults, OnePurchasePerOffer,
           PurchasesAreLawful, Lawful, CanonicalOffers, QuotePricesOneOffer,
           OffersFrom, QuotesBehind
  <1>5. \A x \in Requests : WriteSetOK(x)' /\ KeysFree(x)' /\ WritesLawful(x)'
    BY <1>1
  <1>6. \A x, y \in Requests : x # y => KeysApart(x, y)'
    BY <1>2, <1>3
  <1> QED BY <1>4, <1>5, <1>6 DEF KeysInvariant

\* A request that holds nothing after the step disturbs nothing.
LEMMA EmptyHandedStep ==
    ASSUME KeysInvariant, NEW r \in Requests, db' = db, OthersKept(r),
           ~ Holding(r)', w'[r] = Nothing,
           snap'[r] \in {Nothing, db, snap[r]}
    PROVE  KeysInvariant'
  <1>1. WriteSetOK(r)'
    BY DEF WriteSetOK, Nothing, Holding
  <1>2. KeysFree(r)'
    BY DEF KeysFree, Nothing
  <1>3. WritesLawful(r)'
    <2>1. WritesLawful(r)
      BY DEF KeysInvariant
    <2> QED BY <2>1 DEF WritesLawful, Nothing, Holding
  <1>4. \A x \in Requests \ {r} : KeysApart(r, x)'
    BY DEF KeysApart, Nothing
  <1> QED BY <1>1, <1>2, <1>3, <1>4, OneRequestStep

LEMMA FinishKeys ==
    ASSUME TypeOK, KeysInvariant, NEW r \in Requests, NEW a, Finish(r, a), KeepDb
    PROVE  KeysInvariant'
  <1>1. OthersKept(r)
    BY DEF TypeOK, Finish, OthersKept
  <1>2. /\ pc'[r] = "done"
        /\ w'[r] = Nothing
        /\ snap'[r] = Nothing
    BY DEF TypeOK, Finish
  <1> QED BY <1>1, <1>2, EmptyHandedStep DEF KeepDb, Holding

LEMMA RetryKeys ==
    ASSUME TypeOK, KeysInvariant, NEW r \in Requests, Retry(r), KeepDb
    PROVE  KeysInvariant'
  <1>1. CASE Finish(r, Error("failed"))
    BY <1>1, FinishKeys
  <1>2. CASE ~ Finish(r, Error("failed"))
    <2>1. OthersKept(r)
      BY <1>2 DEF TypeOK, Retry, TryAgain, OthersKept
    <2>2. /\ pc'[r] = "begin"
          /\ w'[r] = Nothing
          /\ snap'[r] = Nothing
      BY <1>2 DEF TypeOK, Retry, TryAgain
    <2> QED BY <2>1, <2>2, EmptyHandedStep DEF KeepDb, Holding
  <1> QED BY <1>1, <1>2

\* A transaction that inserts its claim waited for every other holder of the
\* scope and found none committed.
LEMMA ClaimKeys ==
    ASSUME TypeOK, KeysInvariant, NEW r \in Requests, KeepDb,
           pc[r] = "authorized", ~ ClaimHeld(r, Scope(r)),
           ClaimsOf(db, Scope(r)) = {},
           pc' = [pc EXCEPT ![r] = "claimed"],
           w' = [w EXCEPT ![r].claims = ClaimRows(r)],
           UNCHANGED <<snap, terms>>
    PROVE  KeysInvariant'
  <1>1. WriteSetOK(r) /\ WritesLawful(r)
    BY DEF KeysInvariant
  <1>2. w[r] = Nothing
    BY <1>1 DEF WriteSetOK, Holding
  <1>3. w'[r] = [Nothing EXCEPT !.claims = ClaimRows(r)] /\ pc'[r] = "claimed"
    BY <1>2 DEF TypeOK
  <1>4. w'[r].purchases = {} /\ w'[r].offers = {}
    BY <1>3 DEF Nothing
  <1>5. OthersKept(r)
    BY DEF TypeOK, OthersKept
  <1>6. WriteSetOK(r)'
    BY <1>3, <1>4 DEF WriteSetOK, Holding
  <1>7. KeysFree(r)'
    BY <1>4 DEF KeysFree, KeepDb, ClaimsOf
  <1>8. WritesLawful(r)'
    BY <1>1, <1>3, <1>4 DEF WritesLawful, KeepDb
  <1>9. ASSUME NEW x \in Requests \ {r}
        PROVE  KeysApart(r, x)'
    <2>1. ASSUME Holding(x)', Scope(r) = Scope(x)
          PROVE  FALSE
      <3>1. Holding(x)
        BY <1>5, <2>1 DEF Holding, OthersKept
      <3>2. WriteSetOK(x)
        BY DEF KeysInvariant
      <3>3. w[x].claims = ClaimRows(x)
        BY <3>1, <3>2 DEF WriteSetOK, Holding, Nothing
      <3> DEFINE c == [scope |-> Scope(x), digest |-> x.body]
      <3>4. c \in w[x].claims /\ c.scope = Scope(r)
        BY <2>1, <3>3 DEF ClaimRows
      <3> HIDE DEF c
      <3>5. ClaimsOf(w[x], Scope(r)) # {}
        BY <3>4 DEF ClaimsOf
      <3> QED BY <3>1, <3>5 DEF ClaimHeld, HoldsClaim, Holding, InTransaction
    <2> QED BY <1>4, <2>1 DEF KeysApart
  <1> QED BY <1>5, <1>6, <1>7, <1>8, <1>9, OneRequestStep DEF KeepDb

\* What a statement that completes the write set must guarantee: its keys are
\* held by nobody, committed by nobody, and lawful.
Insertable(r, rows) ==
    /\ rows.claims = ClaimRows(r)
    /\ \E o \in Outcomes : rows.results = {[scope |-> Scope(r), result |-> o]}
    /\ \A p1, p2 \in rows.purchases : p1 = p2
    /\ \A o1, o2 \in rows.offers : o1 = o2
    /\ \A p \in rows.purchases :
          Lawful(p) /\ PurchasesOf(db, p.offer) = {} /\ ~ PurchaseHeld(r, p.offer)
    /\ \A o \in rows.offers : o.quote # NoQuote =>
          /\ QuotesBehind(o) # {}
          /\ OffersFrom(db, o.quote) = {}
          /\ ~ QuoteHeld(r, o.quote)

LEMMA RecordKeys ==
    ASSUME TypeOK, KeysInvariant, NEW r \in Requests, KeepDb,
           pc[r] \in {"claimed", "priced"},
           NEW rows, Insertable(r, rows),
           pc' = [pc EXCEPT ![r] = "prepared"],
           w' = [w EXCEPT ![r] = rows],
           UNCHANGED <<snap, terms>>
    PROVE  KeysInvariant'
  <1>1. WriteSetOK(r) /\ KeysFree(r) /\ WritesLawful(r)
    BY DEF KeysInvariant
  <1>2. w'[r] = rows /\ pc'[r] = "prepared" /\ db' = db /\ snap' = snap
    BY DEF TypeOK, KeepDb
  <1>3. OthersKept(r)
    BY DEF TypeOK, OthersKept
  <1>4. WriteSetOK(r)'
    BY <1>2 DEF WriteSetOK, Holding, Insertable
  <1>5. KeysFree(r)'
    BY <1>1, <1>2 DEF KeysFree, Holding, Insertable, ClaimsOf, PurchasesOf, OffersFrom
  <1>6. WritesLawful(r)'
    BY <1>1, <1>2 DEF WritesLawful, Insertable, Lawful, QuotesBehind, CanonicalOffers
  <1>7. ASSUME NEW x \in Requests \ {r}
        PROVE  KeysApart(r, x)'
    <2>1. KeysApart(r, x) /\ WriteSetOK(x)
      BY DEF KeysInvariant
    <2>2. w'[x] = w[x] /\ pc'[x] = pc[x]
      BY <1>3 DEF OthersKept
    <2>3. w[x] # Nothing => pc[x] \in InTransaction
      BY <2>1 DEF WriteSetOK, Holding, InTransaction
    <2>4. \A p1 \in rows.purchases, p2 \in w[x].purchases : p1.offer # p2.offer
      <3> SUFFICES ASSUME NEW p1 \in rows.purchases, NEW p2 \in w[x].purchases,
                          p1.offer = p2.offer
                   PROVE  FALSE
        OBVIOUS
      <3>1. p2 \in PurchasesOf(w[x], p1.offer)
        BY DEF PurchasesOf
      <3>2. ~ PurchaseHeld(r, p1.offer)
        BY DEF Insertable
      <3>3. w[x] # Nothing
        BY DEF Nothing
      <3> QED BY <2>3, <3>1, <3>2, <3>3 DEF PurchaseHeld, HoldsPurchase
    <2>5. \A o1 \in rows.offers, o2 \in w[x].offers :
             o1.quote = o2.quote => o1.quote = NoQuote
      <3> SUFFICES ASSUME NEW o1 \in rows.offers, NEW o2 \in w[x].offers,
                          o1.quote = o2.quote, o1.quote # NoQuote
                   PROVE  FALSE
        OBVIOUS
      <3>1. o2 \in OffersFrom(w[x], o1.quote)
        BY DEF OffersFrom
      <3>2. ~ QuoteHeld(r, o1.quote)
        BY DEF Insertable
      <3>3. w[x] # Nothing
        BY DEF Nothing
      <3> QED BY <2>3, <3>1, <3>2, <3>3 DEF QuoteHeld, HoldsQuote
    <2> QED BY <1>2, <2>1, <2>2, <2>4, <2>5 DEF KeysApart, Holding
  <1> QED BY <1>2, <1>3, <1>4, <1>5, <1>6, <1>7, OneRequestStep

\* What is lawful stays lawful: offers and quotes are never removed.
LEMMA LawfulGrows ==
    ASSUME db.offers \subseteq db'.offers, db.quotes \subseteq db'.quotes
    PROVE  /\ \A p : Lawful(p) => Lawful(p)'
           /\ \A o : QuotesBehind(o) # {} => (QuotesBehind(o) # {})'
  BY DEF Lawful, CanonicalOffers, QuotesBehind

\* Commit moves keys that nobody else holds into tables that lack them.
LEMMA CommitKeys ==
    ASSUME TypeOK, KeysInvariant, NEW r \in Requests, Commit(r)
    PROVE  KeysInvariant'
  <1>1. WriteSetOK(r) /\ KeysFree(r) /\ WritesLawful(r)
    BY DEF KeysInvariant
  <1>2. /\ db'.offers = db.offers \cup w[r].offers
        /\ db'.quotes = db.quotes \cup w[r].quotes
        /\ db'.purchases = db.purchases \cup w[r].purchases
        /\ db'.claims = db.claims \cup w[r].claims
        /\ db'.results = db.results \cup w[r].results
    BY DEF Commit, Merge
  <1>3. /\ \A p : Lawful(p) => Lawful(p)'
        /\ \A o : QuotesBehind(o) # {} => (QuotesBehind(o) # {})'
    BY <1>2, LawfulGrows
  <1>4. PICK o \in Outcomes :
          /\ w[r].claims = {[scope |-> Scope(r), digest |-> r.body]}
          /\ w[r].results = {[scope |-> Scope(r), result |-> o]}
    BY <1>1 DEF Commit, WriteSetOK, ClaimRows
  <1>5. /\ pc'[r] = "committed"
        /\ w'[r] = Nothing
        /\ snap'[r] = Nothing
        /\ OthersKept(r)
    BY DEF TypeOK, Commit, OthersKept
  <1>6. WriteSetOK(r)' /\ KeysFree(r)' /\ WritesLawful(r)'
    BY <1>5 DEF WriteSetOK, KeysFree, WritesLawful, Holding, Nothing
  <1>7. ASSUME NEW x \in Requests \ {r}
        PROVE  WriteSetOK(x)' /\ KeysFree(x)' /\ WritesLawful(x)'
    <2>1. /\ WriteSetOK(x) /\ KeysFree(x) /\ WritesLawful(x)
          /\ KeysApart(x, r)
      BY DEF KeysInvariant
    <2>2. pc'[x] = pc[x] /\ w'[x] = w[x] /\ snap'[x] = snap[x] /\ terms'[x] = terms[x]
      BY <1>5 DEF OthersKept
    <2>3. WriteSetOK(x)'
      BY <2>1, <2>2 DEF WriteSetOK, Holding
    <2>4. KeysFree(x)'
      <3>1. ASSUME Holding(x)
            PROVE  ClaimsOf(db, Scope(x))' = {}
        <4>1. Scope(x) # Scope(r)
          BY <2>1, <3>1 DEF KeysApart, Commit, Holding
        <4>2. ClaimsOf(db, Scope(x)) = {}
          BY <2>1, <3>1 DEF KeysFree
        <4> QED BY <1>2, <1>4, <4>1, <4>2 DEF ClaimsOf
      <3>2. \A p \in w[x].purchases : PurchasesOf(db, p.offer)' = {}
        BY <1>2, <2>1 DEF KeysFree, KeysApart, PurchasesOf
      <3>3. \A f \in w[x].offers : f.quote # NoQuote => OffersFrom(db, f.quote)' = {}
        BY <1>2, <2>1 DEF KeysFree, KeysApart, OffersFrom
      <3> QED BY <2>2, <3>1, <3>2, <3>3 DEF KeysFree, Holding
    <2>5. WritesLawful(x)'
      BY <1>2, <1>3, <2>1, <2>2 DEF WritesLawful
    <2> QED BY <2>3, <2>4, <2>5
  <1>8. ASSUME NEW x \in Requests, NEW y \in Requests, x # y
        PROVE  KeysApart(x, y)'
    <2>1. KeysApart(x, y)
      BY <1>8 DEF KeysInvariant
    <2>2. CASE x = r \/ y = r
      BY <1>5, <2>2 DEF KeysApart, Holding, Nothing
    <2>3. CASE x # r /\ y # r
      BY <1>5, <2>1, <2>3 DEF KeysApart, Holding, OthersKept
    <2> QED BY <2>2, <2>3
  <1>9. ClaimsPairWithResults'
    <2>1. ClaimsPairWithResults
      BY DEF KeysInvariant
    <2>2. ClaimsOf(db, Scope(r)) = {}
      BY <1>1 DEF KeysFree, Commit, Holding
    <2>3. \A c \in db.claims : c.scope # Scope(r)
      BY <2>2 DEF ClaimsOf
    <2>4. \A z \in db.results : z.scope # Scope(r)
      BY <2>1, <2>3 DEF ClaimsPairWithResults
    <2>5. {c.scope : c \in db'.claims} = {z.scope : z \in db'.results}
      <3> DEFINE c0 == [scope |-> Scope(r), digest |-> r.body]
                 z0 == [scope |-> Scope(r), result |-> o]
      <3>1. w[r].claims = {c0} /\ c0.scope = Scope(r)
        BY <1>4
      <3>2. w[r].results = {z0} /\ z0.scope = Scope(r)
        BY <1>4
      <3> HIDE DEF c0, z0
      <3>3. {c.scope : c \in db'.claims} = {c.scope : c \in db.claims} \cup {Scope(r)}
        BY <1>2, <3>1
      <3>4. {z.scope : z \in db'.results} = {z.scope : z \in db.results} \cup {Scope(r)}
        BY <1>2, <3>2
      <3> QED BY <2>1, <3>3, <3>4 DEF ClaimsPairWithResults
    <2>6. \A c1, c2 \in db'.claims : c1.scope = c2.scope => c1 = c2
      BY <1>2, <1>4, <2>1, <2>3 DEF ClaimsPairWithResults
    <2>7. \A z1, z2 \in db'.results : z1.scope = z2.scope => z1 = z2
      BY <1>2, <1>4, <2>1, <2>4 DEF ClaimsPairWithResults
    <2> QED BY <2>5, <2>6, <2>7 DEF ClaimsPairWithResults
  <1>10. OnePurchasePerOffer'
    BY <1>1, <1>2 DEF KeysInvariant, OnePurchasePerOffer, KeysFree, WriteSetOK, PurchasesOf
  <1>11. PurchasesAreLawful'
    BY <1>1, <1>2, <1>3 DEF KeysInvariant, PurchasesAreLawful, WritesLawful
  <1>12. QuotePricesOneOffer'
    <2> SUFFICES ASSUME NEW f \in db'.offers, f.quote # NoQuote
                 PROVE  OffersFrom(db, f.quote)' = {f} /\ (QuotesBehind(f) # {})'
      BY DEF QuotePricesOneOffer
    <2>1. CASE f \in db.offers
      <3>1. OffersFrom(db, f.quote) = {f} /\ QuotesBehind(f) # {}
        BY <2>1 DEF KeysInvariant, QuotePricesOneOffer
      <3>2. \A g \in w[r].offers : g.quote # f.quote
        BY <1>1, <3>1 DEF KeysFree
      <3>3. OffersFrom(db, f.quote)' = {f}
        BY <1>2, <3>1, <3>2 DEF OffersFrom
      <3> QED BY <1>3, <3>1, <3>3
    <2>2. CASE f \in w[r].offers
      <3>1. OffersFrom(db, f.quote) = {} /\ QuotesBehind(f) # {}
        BY <1>1, <2>2 DEF KeysFree, WritesLawful
      <3>2. \A g \in w[r].offers : g = f
        BY <1>1, <2>2 DEF WriteSetOK
      <3>3. OffersFrom(db, f.quote)' = {f}
        BY <1>2, <2>2, <3>1, <3>2 DEF OffersFrom
      <3> QED BY <1>3, <3>1, <3>3
    <2> QED BY <1>2, <2>1, <2>2
  <1>13. \A x \in Requests : WriteSetOK(x)' /\ KeysFree(x)' /\ WritesLawful(x)'
    BY <1>6, <1>7
  <1> QED BY <1>8, <1>9, <1>10, <1>11, <1>12, <1>13 DEF KeysInvariant

\* Provisioning and the clock touch no key.
LEMMA EnvironmentKeys ==
    ASSUME KeysInvariant, UNCHANGED <<pc, snap, w, terms>>,
           db'.offers = db.offers, db'.quotes = db.quotes,
           db'.purchases = db.purchases, db'.claims = db.claims,
           db'.results = db.results
    PROVE  KeysInvariant'
  <1>1. /\ \A p : Lawful(p)' <=> Lawful(p)
        /\ \A o : (QuotesBehind(o) # {})' <=> QuotesBehind(o) # {}
        /\ \A s : ClaimsOf(db, s)' = ClaimsOf(db, s)
        /\ \A o : PurchasesOf(db, o)' = PurchasesOf(db, o)
        /\ \A q : OffersFrom(db, q)' = OffersFrom(db, q)
    BY DEF Lawful, CanonicalOffers, QuotesBehind, ClaimsOf, PurchasesOf, OffersFrom
  <1>2. \A x \in Requests : WriteSetOK(x)' /\ KeysFree(x)' /\ WritesLawful(x)'
    <2> SUFFICES ASSUME NEW x \in Requests
                 PROVE  WriteSetOK(x)' /\ KeysFree(x)' /\ WritesLawful(x)'
      OBVIOUS
    <2>1. WriteSetOK(x) /\ KeysFree(x) /\ WritesLawful(x)
      BY DEF KeysInvariant
    <2>2. WriteSetOK(x)'
      BY <2>1 DEF WriteSetOK, Holding
    <2>3. KeysFree(x)'
      BY <1>1, <2>1 DEF KeysFree, Holding
    <2>4. WritesLawful(x)'
      BY <1>1, <2>1 DEF WritesLawful
    <2> QED BY <2>2, <2>3, <2>4
  <1>3. \A x, y \in Requests : x # y => KeysApart(x, y)'
    BY DEF KeysInvariant, KeysApart, Holding
  <1>4. /\ ClaimsPairWithResults'
        /\ OnePurchasePerOffer'
        /\ PurchasesAreLawful'
        /\ QuotePricesOneOffer'
    BY <1>1 DEF KeysInvariant, ClaimsPairWithResults, OnePurchasePerOffer,
                PurchasesAreLawful, QuotePricesOneOffer
  <1> QED BY <1>2, <1>3, <1>4 DEF KeysInvariant

\* The rows of an outcome, field by field.
LEMMA RejectionRowsFields ==
    ASSUME NEW r \in Requests, NEW code \in RejectionCodes
    PROVE  Insertable(r, RejectionRows(r, code))
  <1>1. [outcome |-> "rejected", code |-> code] \in Outcomes
    BY DEF Outcomes
  <1>2. /\ RejectionRows(r, code).claims = ClaimRows(r)
        /\ RejectionRows(r, code).results =
             {[scope |-> Scope(r), result |-> [outcome |-> "rejected", code |-> code]]}
        /\ RejectionRows(r, code).purchases = {}
        /\ RejectionRows(r, code).offers = {}
    BY DEF RejectionRows, Nothing
  <1> QED BY <1>1, <1>2 DEF Insertable

LEMMA SuccessRowsFields ==
    ASSUME NEW r \in Requests, NEW resource \in Offers \cup Quotes,
           NEW rows \in Databases
    PROVE  /\ SuccessRows(r, resource, rows).claims = ClaimRows(r)
           /\ SuccessRows(r, resource, rows).purchases = rows.purchases
           /\ SuccessRows(r, resource, rows).offers = rows.offers
           /\ \E o \in Outcomes :
                SuccessRows(r, resource, rows).results = {[scope |-> Scope(r), result |-> o]}
  <1>1. [outcome |-> "succeeded", resource |-> resource] \in Outcomes
    BY DEF Outcomes
  <1>2. SuccessRows(r, resource, rows).results =
          {[scope |-> Scope(r), result |-> [outcome |-> "succeeded", resource |-> resource]]}
    BY DEF SuccessRows, Databases
  <1> QED BY <1>1, <1>2 DEF SuccessRows, Databases

LEMMA RejectionKeys ==
    ASSUME TypeOK, KeysInvariant, NEW r \in Requests, KeepDb,
           pc[r] \in {"claimed", "priced"},
           NEW code \in RejectionCodes, RecordRejection(r, code)
    PROVE  KeysInvariant'
  BY RejectionRowsFields, RecordKeys DEF RecordRejection

\* Every step of a server keeps the keys apart.
LEMMA ServeKeys ==
    ASSUME TypeOK, KeysInvariant, NEW r \in Requests, Serve(r)
    PROVE  KeysInvariant'
  <1>0. /\ WriteSetOK(r) /\ WritesLawful(r)
        /\ snap[r] \in Databases
    BY DEF KeysInvariant, TypeOK
  <1>1. CASE ReplayConversionQuote(r)
    <2>1. CASE \E a : Finish(r, a)
      BY <1>1, <2>1, FinishKeys DEF ReplayConversionQuote
    <2>2. CASE ~ \E a : Finish(r, a)
      <3>1. /\ pc[r] = "lookup" /\ KeepDb
            /\ pc' = [pc EXCEPT ![r] = "rating"]
            /\ UNCHANGED <<attempt, snap, w, terms, reply, sawGrant>>
        BY <1>1, <2>2 DEF ReplayConversionQuote
      <3>2. OthersKept(r) /\ ~ Holding(r)' /\ w'[r] = Nothing /\ snap'[r] = snap[r]
        BY <1>0, <3>1 DEF TypeOK, OthersKept, Holding, WriteSetOK
      <3> QED BY <3>1, <3>2, EmptyHandedStep DEF KeepDb
    <2> QED BY <2>1, <2>2
  <1>2. CASE LatestRate(r)
    <2>1. CASE Finish(r, Error("exchange_rate_unavailable"))
      BY <1>2, <2>1, FinishKeys DEF LatestRate
    <2>2. CASE ~ Finish(r, Error("exchange_rate_unavailable"))
      <3>1. /\ pc[r] = "rating" /\ KeepDb
            /\ pc' = [pc EXCEPT ![r] = "begin"]
            /\ \A x \in Requests \ {r} : terms'[x] = terms[x]
            /\ UNCHANGED <<attempt, snap, w, reply, sawGrant>>
        BY <1>2, <2>2 DEF LatestRate, TypeOK
      <3>2. OthersKept(r) /\ ~ Holding(r)' /\ w'[r] = Nothing /\ snap'[r] = snap[r]
        BY <1>0, <3>1 DEF TypeOK, OthersKept, Holding, WriteSetOK
      <3> QED BY <3>1, <3>2, EmptyHandedStep DEF KeepDb
    <2> QED BY <2>1, <2>2
  <1>3. CASE BeginAuthorizedMutation(r)
    <2>1. CASE Finish(r, Error("permission_denied"))
      BY <1>3, <2>1, FinishKeys DEF BeginAuthorizedMutation
    <2>2. CASE ~ Finish(r, Error("permission_denied"))
      <3>1. /\ pc[r] = "begin" /\ KeepDb
            /\ pc' = [pc EXCEPT ![r] = "authorized"]
            /\ snap' = [snap EXCEPT ![r] = db]
            /\ UNCHANGED <<attempt, w, terms, reply, sawGrant>>
        BY <1>3, <2>2 DEF BeginAuthorizedMutation
      <3>2. OthersKept(r) /\ ~ Holding(r)' /\ w'[r] = Nothing /\ snap'[r] = db
        BY <1>0, <3>1 DEF TypeOK, OthersKept, Holding, WriteSetOK
      <3> QED BY <3>1, <3>2, EmptyHandedStep DEF KeepDb
    <2> QED BY <2>1, <2>2
  <1>4. CASE ClaimOperation(r)
    <2> USE <1>4 DEF ClaimOperation
    <2>1. CASE Retry(r)
      BY <2>1, RetryKeys
    <2>2. CASE pc'[r] = "claimed"
      <3>1. w' = [w EXCEPT ![r].claims = ClaimRows(r)] /\ ClaimsOf(db, Scope(r)) = {}
        BY <2>2 DEF TypeOK, Retry, TryAgain, Finish
      <3>2. pc' = [pc EXCEPT ![r] = "claimed"] /\ UNCHANGED <<snap, terms>>
        BY <2>2 DEF TypeOK, Retry, TryAgain, Finish
      <3> QED BY <3>1, <3>2, ClaimKeys
    <2>3. CASE pc' = [pc EXCEPT ![r] = "replay"] /\ snap' = [snap EXCEPT ![r] = Nothing]
               /\ UNCHANGED <<attempt, w, terms, reply, sawGrant>>
      <3>1. OthersKept(r) /\ ~ Holding(r)' /\ w'[r] = Nothing /\ snap'[r] = Nothing
        BY <1>0, <2>3 DEF TypeOK, OthersKept, Holding, WriteSetOK
      <3> QED BY <3>1, EmptyHandedStep DEF KeepDb
    <2> QED BY <2>1, <2>2, <2>3 DEF TypeOK
  <1>5. CASE BuyOnce(r)
    <2> USE <1>5 DEF BuyOnce, InsertPurchase, LosePurchase, RefusePurchase
    <2> DEFINE rows == [Nothing EXCEPT !.purchases = {PurchaseRow(r)}]
    <2>1. CASE Retry(r)
      BY <2>1, RetryKeys
    <2>2. CASE RecordRejection(r, BuyRejection(snap[r], r))
      <3>1. BuyRejection(snap[r], r) \in RejectionCodes
        BY DEF BuyRejection, RejectionCodes
      <3> QED BY <2>2, <3>1, RejectionKeys
    <2>3. ASSUME NEW o \in Buyable(snap[r], r),
                 ~ PurchaseHeld(r, r.body.offer),
                 PurchasesOf(db, r.body.offer) = {},
                 RecordSuccess(r, r.body.offer, rows, [offer |-> o, buyer |-> r.principal])
          PROVE  KeysInvariant'
      <3>1. r.body.offer \in Offers /\ r.principal \in Principals
        BY RequestType
      <3>2. rows \in Databases
        BY <3>1 DEF Nothing, Databases, PurchaseRow, PurchaseFacts
      <3>3. rows.purchases = {PurchaseRow(r)} /\ rows.offers = {}
        BY DEF Nothing
      <3>4. Lawful(PurchaseRow(r))
        BY <1>0 DEF Lawful, PurchaseRow, Buyable, CanonicalOffers, WritesLawful
      <3>5. PurchaseRow(r).offer = r.body.offer
        BY DEF PurchaseRow
      <3> HIDE DEF rows
      <3>6. Insertable(r, SuccessRows(r, r.body.offer, rows))
        BY <2>3, <3>1, <3>2, <3>3, <3>4, <3>5, SuccessRowsFields DEF Insertable
      <3> QED BY <2>3, <3>6, RecordKeys DEF RecordSuccess
    <2> QED BY <2>1, <2>2, <2>3
  <1>6. CASE CheckQuote(r)
    <2> USE <1>6 DEF CheckQuote, AcceptableQuotes
    <2>1. CASE RecordRejection(r, "conversion_quote_unavailable")
      BY <2>1, RejectionKeys DEF RejectionCodes
    <2>2. ASSUME NEW q \in CoveringQuotes(snap[r], r),
                 terms' = [terms EXCEPT ![r] = q.terms],
                 pc' = [pc EXCEPT ![r] = "priced"],
                 UNCHANGED <<attempt, snap, w, reply, sawGrant>>
          PROVE  KeysInvariant'
      <3>1. KeysFree(r)
        BY DEF KeysInvariant
      <3>2. OthersKept(r) /\ pc'[r] = "priced" /\ terms'[r] = q.terms /\ db' = db
        BY <2>2 DEF TypeOK, OthersKept, KeepDb
      <3>3. WriteSetOK(r)'
        BY <1>0, <2>2, <3>2 DEF WriteSetOK, Holding
      <3>4. KeysFree(r)'
        BY <2>2, <3>1, <3>2 DEF KeysFree, Holding
      <3>5. w'[r].purchases = {} /\ w'[r].offers = {}
        BY <1>0, <2>2 DEF WriteSetOK, Nothing
      <3>6. q \in QuotesBehind(OfferRow(r, r.nonce, q.terms))
        BY <1>0 DEF CoveringQuotes, QuotesBehind, OfferRow, WritesLawful
      <3>7. (QuotesBehind(OfferRow(r, r.nonce, terms[r])) # {})'
        BY <3>2, <3>6 DEF QuotesBehind
      <3>8. WritesLawful(r)'
        BY <1>0, <2>2, <3>2, <3>5, <3>7 DEF WritesLawful
      <3>9. ASSUME NEW x \in Requests \ {r}
            PROVE  KeysApart(r, x)'
        <4>1. KeysApart(r, x)
          BY DEF KeysInvariant
        <4> QED BY <2>2, <3>2, <3>5, <4>1 DEF KeysApart, Holding, OthersKept
      <3> QED BY <3>2, <3>3, <3>4, <3>8, <3>9, OneRequestStep
    <2> QED BY <2>1, <2>2
  <1>7. CASE InsertOffer(r)
    <2> USE <1>7 DEF InsertOffer
    <2> DEFINE accepted == IF r.body.quote = NoQuote THEN NativeTerms(r) ELSE terms[r]
    <2>1. CASE Retry(r)
      BY <2>1, RetryKeys
    <2>2. CASE Finish(r, Error("failed"))
      BY <2>2, FinishKeys
    <2>3. CASE RecordRejection(r, "bond_not_found")
      BY <2>3, RejectionKeys DEF RejectionCodes
    <2>4. ASSUME NEW i \in FreshOffers,
                 r.body.quote # NoQuote => OffersFrom(db, r.body.quote) = {},
                 RecordSuccess(r, i,
                    [Nothing EXCEPT !.offers = {OfferRow(r, i, accepted)}],
                    OfferRow(r, i, accepted))
          PROVE  KeysInvariant'
      <3> DEFINE offer == OfferRow(r, i, accepted)
                 rows == [Nothing EXCEPT !.offers = {offer}]
      <3>1. i \in Offers
        BY DEF FreshOffers
      <3>2. rows \in Databases
        <4>1. /\ r.principal \in Principals /\ r.body.bond \in Bonds
              /\ r.body.price \in Prices /\ r.body.quote \in Quotes \cup {NoQuote}
          BY RequestType
        <4>2. accepted \in Terms
          BY <4>1 DEF NativeTerms, Terms, TypeOK
        <4> HIDE DEF accepted
        <4>3. offer \in OfferFacts
          BY <3>1, <4>1, <4>2 DEF OfferRow, OfferFacts
        <4> HIDE DEF offer
        <4> QED BY <4>3 DEF Nothing, Databases
      <3>3. rows.offers = {offer} /\ rows.purchases = {}
        BY DEF Nothing
      <3>4. offer.quote = r.body.quote
        BY DEF OfferRow
      <3>5. offer.quote # NoQuote => QuotesBehind(offer) # {} /\ ~ QuoteHeld(r, offer.quote)
        <4> SUFFICES ASSUME r.body.quote # NoQuote
                     PROVE  QuotesBehind(offer) # {} /\ ~ QuoteHeld(r, r.body.quote)
          BY <3>4
        <4>1. QuotesBehind(OfferRow(r, r.nonce, terms[r])) # {}
          BY <1>0 DEF WritesLawful
        <4>2. QuotesBehind(offer) = QuotesBehind(OfferRow(r, r.nonce, terms[r]))
          BY DEF QuotesBehind, OfferRow
        <4> QED BY <4>1, <4>2
      <3> HIDE DEF offer
      <3>6. Insertable(r, SuccessRows(r, i, rows))
        <4> HIDE DEF rows
        <4> QED BY <2>4, <3>1, <3>2, <3>3, <3>4, <3>5, SuccessRowsFields DEF Insertable
      <3>7. pc[r] \in {"claimed", "priced"}
        OBVIOUS
      <3> QED BY <2>4, <3>6, <3>7, RecordKeys DEF RecordSuccess, offer
    <2> QED BY <2>1, <2>2, <2>3, <2>4
  <1>8. CASE InsertQuote(r)
    <2> USE <1>8 DEF InsertQuote
    <2>1. CASE RecordRejection(r, "bond_not_found")
      BY <2>1, RejectionKeys DEF RejectionCodes
    <2>2. ASSUME NEW i \in FreshQuotes,
                 RecordSuccess(r, i,
                    [Nothing EXCEPT !.quotes = {QuoteRow(r, i, terms[r])}],
                    QuoteRow(r, i, terms[r]))
          PROVE  KeysInvariant'
      <3> DEFINE rows == [Nothing EXCEPT !.quotes = {QuoteRow(r, i, terms[r])}]
      <3>1. i \in Quotes
        BY DEF FreshQuotes
      <3>2. QuoteRow(r, i, terms[r]) \in QuoteFacts
        BY <3>1, RequestType DEF QuoteRow, QuoteFacts, TypeOK
      <3>3. rows \in Databases
        BY <3>2 DEF Nothing, Databases
      <3>4. rows.offers = {} /\ rows.purchases = {}
        BY DEF Nothing
      <3>5. Insertable(r, SuccessRows(r, i, rows))
        <4> HIDE DEF rows
        <4> QED BY <3>1, <3>3, <3>4, SuccessRowsFields DEF Insertable
      <3> QED BY <2>2, <3>5, RecordKeys DEF RecordSuccess
    <2> QED BY <2>1, <2>2
  <1>9. CASE Commit(r)
    BY <1>9, CommitKeys
  <1>10. CASE Respond(r)
    <2>1. OthersKept(r) /\ ~ Holding(r)' /\ w'[r] = Nothing /\ snap'[r] = snap[r]
      BY <1>0, <1>10 DEF Respond, TypeOK, OthersKept, Holding, WriteSetOK
    <2> QED BY <1>10, <2>1, EmptyHandedStep DEF Respond
  <1>11. CASE ReplayResource(r)
    BY <1>11, FinishKeys DEF ReplayResource
  <1> QED BY <1>1, <1>2, <1>3, <1>4, <1>5, <1>6, <1>7, <1>8, <1>9, <1>10, <1>11
          DEF Serve

LEMMA InitKeys == Init => KeysInvariant
  <1> SUFFICES ASSUME Init PROVE KeysInvariant
    OBVIOUS
  <1>1. /\ db.offers = LegacyOffers
        /\ db.purchases = {} /\ db.claims = {} /\ db.results = {}
    BY DEF Init, Nothing
  <1>2. ASSUME NEW r \in Requests
        PROVE  /\ pc[r] = "idle" /\ w[r] = Nothing
               /\ snap[r].offers = {} /\ snap[r].quotes = {}
    BY DEF Init, Nothing
  <1>3. \A r \in Requests : WriteSetOK(r) /\ KeysFree(r) /\ WritesLawful(r)
    BY <1>2 DEF WriteSetOK, KeysFree, WritesLawful, Holding, Nothing
  <1>4. \A r1, r2 \in Requests : r1 # r2 => KeysApart(r1, r2)
    BY <1>2 DEF KeysApart, Holding, Nothing
  <1>5. ClaimsPairWithResults /\ OnePurchasePerOffer /\ PurchasesAreLawful
    BY <1>1 DEF ClaimsPairWithResults, OnePurchasePerOffer, PurchasesAreLawful
  <1>6. QuotePricesOneOffer
    BY <1>1, FactsAssumption DEF QuotePricesOneOffer
  <1> QED BY <1>3, <1>4, <1>5, <1>6 DEF KeysInvariant

LEMMA NextKeys == TypeOK /\ KeysInvariant /\ [Next]_vars => KeysInvariant'
  <1> SUFFICES ASSUME TypeOK, KeysInvariant, [Next]_vars PROVE KeysInvariant'
    OBVIOUS
  <1>1. ASSUME NEW r \in Requests, Arrive(r)
        PROVE  KeysInvariant'
    <2>1. WriteSetOK(r)
      BY DEF KeysInvariant
    <2>2. OthersKept(r) /\ ~ Holding(r)' /\ w'[r] = Nothing /\ snap'[r] = snap[r]
      BY <1>1, <2>1 DEF Arrive, TypeOK, OthersKept, Holding, WriteSetOK
    <2> QED BY <1>1, <2>2, EmptyHandedStep DEF Arrive
  <1>2. ASSUME NEW r \in Requests, Serve(r)
        PROVE  KeysInvariant'
    BY <1>2, ServeKeys
  <1>3. ASSUME NEW r \in Requests, SerializationFailure(r)
        PROVE  KeysInvariant'
    BY <1>3, RetryKeys DEF SerializationFailure
  <1>4. ASSUME NEW r \in Requests, Interrupt(r)
        PROVE  KeysInvariant'
    BY <1>4, FinishKeys DEF Interrupt
  <1>5. ASSUME NEW b \in Bonds, ProvisionBond(b)
        PROVE  KeysInvariant'
    BY <1>5, EnvironmentKeys DEF ProvisionBond, txVars, TypeOK, Databases
  <1>6. ASSUME NEW q \in Quotes, Expire(q)
        PROVE  KeysInvariant'
    BY <1>6, EnvironmentKeys DEF Expire, txVars, TypeOK, Databases
  <1>7. CASE ChangeAuthorization
    BY <1>7, EnvironmentKeys DEF ChangeAuthorization
  <1>8. CASE UNCHANGED vars
    BY <1>8, EnvironmentKeys DEF vars, txVars
  <1> QED BY <1>1, <1>2, <1>3, <1>4, <1>5, <1>6, <1>7, <1>8 DEF Next

\* Whatever transactions overlap, are cancelled, retried or interrupted, the
\* unique keys of operation claims, purchases and used quotes are held by one
\* transaction at a time and never held once they are committed.
THEOREM KeysNeverInDoubt == Spec => []KeysInvariant
  <1>1. Spec => []TypeOK
    BY TypeCorrect
  <1> QED BY <1>1, InitKeys, NextKeys, PTL DEF Spec

\* For any number of racing buyers and retries an offer is purchased at most
\* once (G-001).
THEOREM PurchasedAtMostOnce == Spec => []OnePurchasePerOffer
  <1>1. KeysInvariant => OnePurchasePerOffer
    BY DEF KeysInvariant
  <1> QED BY <1>1, KeysNeverInDoubt, PTL

\* A committed claim always has its result and a result its claim, one of each
\* per nonce, so that no replay meets a nonce without an outcome.
THEOREM NoNonceIsPoisoned == Spec => []ClaimsPairWithResults
  <1>1. KeysInvariant => ClaimsPairWithResults
    BY DEF KeysInvariant
  <1> QED BY <1>1, KeysNeverInDoubt, PTL

\* Every purchase is of an offer with canonical terms and not the buyer's own.
THEOREM NobodyBuysTheirOwn == Spec => []PurchasesAreLawful
  <1>1. KeysInvariant => PurchasesAreLawful
    BY DEF KeysInvariant
  <1> QED BY <1>1, KeysNeverInDoubt, PTL

\* A conversion quote prices at most one offer, its owner's, on its own terms.
THEOREM QuotesAreUsedOnce == Spec => []QuotePricesOneOffer
  <1>1. KeysInvariant => QuotePricesOneOffer
    BY DEF KeysInvariant
  <1> QED BY <1>1, KeysNeverInDoubt, PTL

\* Only a transaction that has claimed its nonce is waited for, and for a purchase
\* or a quote only one that has inserted everything.
LEMMA WaitedFor ==
    ASSUME KeysInvariant, NEW r \in Requests, NEW x \in Requests, WaitsFor(r, x)
    PROVE  /\ pc[r] = "authorized" => Holding(x)
           /\ pc[r] # "authorized" => pc[r] \in {"claimed", "priced"} /\ pc[x] = "prepared"
  <1>1. WriteSetOK(x)
    BY DEF KeysInvariant
  <1>2. ASSUME NEW scope, HoldsClaim(x, scope)
        PROVE  Holding(x)
    <2>1. w[x] # Nothing
      BY <1>2 DEF HoldsClaim, ClaimsOf, Nothing
    <2> QED BY <1>1, <2>1 DEF WriteSetOK
  <1>3. ASSUME w[x].purchases # {} \/ w[x].offers # {}
        PROVE  pc[x] = "prepared"
    <2>1. w[x] # Nothing
      BY <1>3 DEF Nothing
    <2>2. w[x] # [Nothing EXCEPT !.claims = ClaimRows(x)]
      BY <1>3 DEF Nothing
    <2> QED BY <1>1, <2>1, <2>2 DEF WriteSetOK, Holding
  <1>4. ASSUME NEW offer, HoldsPurchase(x, offer)
        PROVE  pc[x] = "prepared"
    BY <1>3, <1>4 DEF HoldsPurchase, PurchasesOf
  <1>5. ASSUME NEW quote, HoldsQuote(x, quote)
        PROVE  pc[x] = "prepared"
    BY <1>3, <1>5 DEF HoldsQuote, OffersFrom
  <1> QED BY <1>2, <1>4, <1>5 DEF WaitsFor

\* For any number of requests, nonces, offers and quotes, no requests wait for one
\* another: who has inserted everything waits for nobody, who has claimed only
\* for one of those, and everybody else only for one that has claimed.
THEOREM NobodyWaitsInACircle == Spec => []NoCircularWait
  <1>1. ASSUME KeysInvariant
        PROVE  NoCircularWait
    <2> SUFFICES ASSUME NEW S \in SUBSET Requests, S # {}
                 PROVE  \E r \in S : \A x \in S : ~ WaitsFor(r, x)
      BY DEF NoCircularWait
    <2>1. CASE \E r \in S : pc[r] = "prepared"
      <3>1. PICK r \in S : pc[r] = "prepared"
        BY <2>1
      <3> QED BY <3>1 DEF WaitsFor
    <2>2. CASE /\ \A r \in S : pc[r] # "prepared"
               /\ \E r \in S : Holding(r)
      <3>1. PICK r \in S : Holding(r)
        BY <2>2
      <3>2. pc[r] # "authorized"
        BY <3>1 DEF Holding
      <3> QED BY <1>1, <2>2, <3>2, WaitedFor
    <2>3. CASE \A r \in S : ~ Holding(r)
      <3>1. \A x \in S : pc[x] # "prepared"
        BY <2>3 DEF Holding
      <3> QED BY <1>1, <2>3, <3>1, WaitedFor
    <2> QED BY <2>1, <2>2, <2>3 DEF Holding
  <1> QED BY <1>1, KeysNeverInDoubt, PTL

=============================================================================
