----------------------- MODULE MutationOutcomesProofs -----------------------
(***************************************************************************)
(* What the answers of MutationStore are worth, for every set of requests, *)
(* principals, bonds, identifiers and authorization facts: a settled       *)
(* answer is the stored one, a stored success has its fact and its event,  *)
(* and nothing happens without permission.  The inductive invariant adds   *)
(* to KeysInvariant what an open transaction has read and what it is about *)
(* to commit and to answer.                                                *)
(***************************************************************************)
EXTENDS MutationStoreProofs

\* The steps of r and no others touch the answers of r.
LEMMA StepOfOne ==
    ASSUME TypeOK, NEW r \in Requests,
           Arrive(r) \/ Serve(r) \/ SerializationFailure(r) \/ Interrupt(r)
    PROVE  /\ rbac' = rbac
           /\ \A x \in Requests \ {r} :
                 /\ pc'[x] = pc[x] /\ reply'[x] = reply[x] /\ sawGrant'[x] = sawGrant[x]
                 /\ w'[x] = w[x] /\ snap'[x] = snap[x] /\ terms'[x] = terms[x]
                 /\ attempt'[x] = attempt[x]
  <1> DEFINE Kept ==
        /\ rbac' = rbac
        /\ \A x \in Requests \ {r} :
              /\ pc'[x] = pc[x] /\ reply'[x] = reply[x] /\ sawGrant'[x] = sawGrant[x]
              /\ w'[x] = w[x] /\ snap'[x] = snap[x] /\ terms'[x] = terms[x]
              /\ attempt'[x] = attempt[x]
  <1>1. ASSUME NEW a, Finish(r, a), KeepDb PROVE Kept
    BY <1>1 DEF Finish, KeepDb, TypeOK
  <1>2. ASSUME Retry(r), KeepDb PROVE Kept
    BY <1>1, <1>2 DEF Retry, TryAgain, KeepDb, TypeOK
  <1>3. ASSUME NEW c, RecordRejection(r, c), KeepDb PROVE Kept
    BY <1>3 DEF RecordRejection, KeepDb, TypeOK
  <1>4. ASSUME NEW i, NEW rows, NEW k, RecordSuccess(r, i, rows, k), KeepDb PROVE Kept
    BY <1>4 DEF RecordSuccess, KeepDb, TypeOK
  <1>5. CASE Arrive(r)
    BY <1>5 DEF Arrive, TypeOK
  <1>6. CASE ReplayConversionQuote(r)
    BY <1>1, <1>6 DEF ReplayConversionQuote, KeepDb, TypeOK
  <1>7. CASE LatestRate(r)
    BY <1>1, <1>7 DEF LatestRate, KeepDb, TypeOK
  <1>8. CASE BeginAuthorizedMutation(r)
    BY <1>1, <1>8 DEF BeginAuthorizedMutation, KeepDb, TypeOK
  <1>9. CASE ClaimOperation(r)
    <2>1. \A x \in Requests \ {r} : ~ Retry(r) => w'[x] = w[x]
      BY <1>9 DEF ClaimOperation, TypeOK
    <2> QED BY <1>2, <1>9, <2>1 DEF ClaimOperation, KeepDb, TypeOK
  <1>10. CASE BuyOnce(r)
    BY <1>2, <1>3, <1>4, <1>10
       DEF BuyOnce, InsertPurchase, LosePurchase, RefusePurchase
  <1>11. CASE CheckQuote(r)
    BY <1>3, <1>11 DEF CheckQuote, KeepDb, TypeOK
  <1>12. CASE InsertOffer(r)
    BY <1>1, <1>2, <1>3, <1>4, <1>12 DEF InsertOffer
  <1>13. CASE InsertQuote(r)
    BY <1>3, <1>4, <1>13 DEF InsertQuote
  <1>14. CASE Commit(r)
    BY <1>14 DEF Commit, TypeOK
  <1>15. CASE Respond(r)
    BY <1>15 DEF Respond, TypeOK
  <1>16. CASE ReplayResource(r)
    BY <1>1, <1>16 DEF ReplayResource
  <1>17. CASE SerializationFailure(r)
    BY <1>2, <1>17 DEF SerializationFailure
  <1>18. CASE Interrupt(r)
    BY <1>1, <1>18 DEF Interrupt
  <1> QED BY <1>5, <1>6, <1>7, <1>8, <1>9, <1>10, <1>11, <1>12, <1>13, <1>14,
             <1>15, <1>16, <1>17, <1>18 DEF Serve

-----------------------------------------------------------------------------
(* The invariant.                                                           *)

\* Every row of d is a row of e.
Within(d, e) ==
    /\ d.expired \subseteq e.expired
    /\ d.bonds \subseteq e.bonds
    /\ d.offers \subseteq e.offers
    /\ d.quotes \subseteq e.quotes
    /\ d.purchases \subseteq e.purchases
    /\ d.claims \subseteq e.claims
    /\ d.results \subseteq e.results
    /\ d.events \subseteq e.events

QuotedBondsKnown(d) == \A q \in d.quotes : q.bond \in d.bonds

\* A transaction reads an earlier state of the tables, and only while it is open.
SnapshotOK(r) ==
    /\ pc[r] \notin InTransaction => snap[r] = Nothing
    /\ Within(snap[r], db)
    /\ QuotedBondsKnown(snap[r])

Native(r) == r.body.quote = NoQuote

\* s stands for the snapshot of r's transaction.
UnexpiredQuotes(r, s) == {q \in CoveringQuotes(s, r) : q.id \notin s.expired}

\* The canonical terms an offer of r may have.
AcceptedTerms(r, s) ==
    IF Native(r) THEN {NativeTerms(r)} ELSE {q.terms : q \in UnexpiredQuotes(r, s)}

QuotedTerms(r) == {[price |-> r.body.price, revision |-> v] : v \in Revisions}

\* The terms a request carries from one statement to the next.
TermsOK(r) ==
    /\ r.body.op = "offers.quote" /\ pc[r] \in {"begin"} \cup InTransaction =>
         terms[r] \in QuotedTerms(r)
    /\ pc[r] = "priced" =>
         /\ r.body.op = "offers.create" /\ ~ Native(r)
         /\ terms[r] \in AcceptedTerms(r, snap[r])

PurchaseRows(r) ==
    SuccessRows(r, r.body.offer, [Nothing EXCEPT !.purchases = {PurchaseRow(r)}])
OfferRows(r, i, t) ==
    SuccessRows(r, i, [Nothing EXCEPT !.offers = {OfferRow(r, i, t)}])
QuoteRows(r, i, t) ==
    SuccessRows(r, i, [Nothing EXCEPT !.quotes = {QuoteRow(r, i, t)}])

\* The rejections r may record, by what it read and the clock.
Refusals(r, s, expired) ==
    CASE r.body.op = "purchases.buy" ->
           {c \in {BuyRejection(s, r)} :
               Buyable(s, r) = {} \/ PurchasesOf(s, r.body.offer) # {}}
      [] r.body.op = "offers.create" ->
           {c \in {"bond_not_found"} : Native(r) /\ r.body.bond \notin s.bonds}
           \cup {c \in {"conversion_quote_unavailable"} :
                   /\ ~ Native(r)
                   /\ UnexpiredQuotes(r, s) = {} \/ r.body.quote \in expired}
      [] OTHER -> {c \in {"bond_not_found"} : r.body.bond \notin s.bonds}

RejectionPrepared(r) ==
    \E c \in Refusals(r, snap[r], db.expired) :
        w[r] = RejectionRows(r, c) /\ reply[r] = Rejected(c)
PurchasePrepared(r) ==
    /\ r.body.op = "purchases.buy"
    /\ w[r] = PurchaseRows(r)
    /\ \E o \in Buyable(snap[r], r) :
          reply[r] = Succeeded([offer |-> o, buyer |-> r.principal])
OfferPrepared(r) ==
    /\ r.body.op = "offers.create"
    /\ r.body.bond \in snap[r].bonds
    /\ \E i \in Offers, t \in AcceptedTerms(r, snap[r]) :
          w[r] = OfferRows(r, i, t) /\ reply[r] = Succeeded(OfferRow(r, i, t))
QuotePrepared(r) ==
    /\ r.body.op = "offers.quote"
    /\ r.body.bond \in snap[r].bonds
    /\ \E i \in Quotes, t \in QuotedTerms(r) :
          w[r] = QuoteRows(r, i, t) /\ reply[r] = Succeeded(QuoteRow(r, i, t))

\* What a prepared transaction commits and what its server will answer agree.
PreparedOK(r) ==
    pc[r] = "prepared" =>
        RejectionPrepared(r) \/ PurchasePrepared(r) \/ OfferPrepared(r) \/ QuotePrepared(r)

\* The held answer is the one a replay would give now.
Durable(r) ==
    \E c \in ClaimsOf(db, Scope(r)), x \in ResultsOf(db, Scope(r)) :
        c.digest = r.body /\ reply[r] = StoredAnswer(db, r, c, x)

Conclusive(r) == reply[r].kind \in {"succeeded", "rejected"}

AnswerOK(r) ==
    /\ pc[r] \notin {"prepared", "committed", "done"} => reply[r] = NoReply
    /\ pc[r] \in {"committed", "done"} /\ Conclusive(r) => Durable(r)
    /\ pc[r] = "committed" => Conclusive(r)

\* The identifiers the database generated for r are nobody else's.
IdsFree(r) ==
    /\ \A o \in w[r].offers, x \in db.offers : o.id # x.id
    /\ \A q \in w[r].quotes, x \in db.quotes : q.id # x.id
IdsApart(r1, r2) ==
    /\ \A o1 \in w[r1].offers, o2 \in w[r2].offers : o1.id # o2.id
    /\ \A q1 \in w[r1].quotes, q2 \in w[r2].quotes : q1.id # q2.id

IdsUnique ==
    /\ \A o1, o2 \in db.offers : o1.id = o2.id => o1 = o2
    /\ \A q1, q2 \in db.quotes : q1.id = q2.id => q1 = q2

\* The purchase a succeeded buy refers to is of the offer its body names.
ResourcesAsClaimed ==
    \A c \in db.claims, x \in Successes("purchases.buy") :
        c.scope = x.scope => x.result.resource = c.digest.offer

FactsInvariant ==
    /\ IdsUnique
    /\ QuotedBondsKnown(db)
    /\ ResourcesAsClaimed
    /\ FactsHaveOneOperation
    /\ EventsMatchSuccesses

RequestOK(r) ==
    SnapshotOK(r) /\ TermsOK(r) /\ PreparedOK(r) /\ AnswerOK(r) /\ IdsFree(r)

\* What is read, prepared, stored and answered agrees.
OutcomesInvariant ==
    /\ \A r \in Requests : RequestOK(r)
    /\ \A r1, r2 \in Requests : r1 # r2 => IdsApart(r1, r2)
    /\ FactsInvariant

-----------------------------------------------------------------------------
(* Rows and stored answers.                                                 *)

SuccessOf(r, i) ==
    [scope |-> Scope(r), result |-> [outcome |-> "succeeded", resource |-> i]]

LEMMA RejectionFields ==
    ASSUME NEW r, NEW c, NEW rows, rows = RejectionRows(r, c)
    PROVE  /\ rows.expired = {} /\ rows.bonds = {} /\ rows.offers = {}
           /\ rows.quotes = {} /\ rows.purchases = {} /\ rows.events = {}
           /\ rows.claims = ClaimRows(r)
           /\ rows.results =
                {[scope |-> Scope(r), result |-> [outcome |-> "rejected", code |-> c]]}
  BY DEF RejectionRows, Nothing

LEMMA PurchaseFields ==
    ASSUME NEW r, NEW rows, rows = PurchaseRows(r), r.body.op = "purchases.buy"
    PROVE  /\ rows.expired = {} /\ rows.bonds = {} /\ rows.offers = {}
           /\ rows.quotes = {} /\ rows.purchases = {PurchaseRow(r)}
           /\ rows.events = {[table |-> "purchases", source |-> r.body.offer]}
           /\ rows.claims = ClaimRows(r)
           /\ rows.results = {SuccessOf(r, r.body.offer)}
  BY DEF PurchaseRows, SuccessRows, SuccessOf, Nothing

LEMMA OfferFields ==
    ASSUME NEW r, NEW i, NEW t, NEW rows, rows = OfferRows(r, i, t),
           r.body.op = "offers.create"
    PROVE  /\ rows.expired = {} /\ rows.bonds = {} /\ rows.offers = {OfferRow(r, i, t)}
           /\ rows.quotes = {} /\ rows.purchases = {}
           /\ rows.events = {[table |-> "sale_offers", source |-> i]}
           /\ rows.claims = ClaimRows(r)
           /\ rows.results = {SuccessOf(r, i)}
  BY DEF OfferRows, SuccessRows, SuccessOf, Nothing

LEMMA QuoteFields ==
    ASSUME NEW r, NEW i, NEW t, NEW rows, rows = QuoteRows(r, i, t),
           r.body.op = "offers.quote"
    PROVE  /\ rows.expired = {} /\ rows.bonds = {} /\ rows.offers = {}
           /\ rows.quotes = {QuoteRow(r, i, t)} /\ rows.purchases = {}
           /\ rows.events = {}
           /\ rows.claims = ClaimRows(r)
           /\ rows.results = {SuccessOf(r, i)}
  BY DEF QuoteRows, SuccessRows, SuccessOf, Nothing

LEMMA WithinMerge ==
    ASSUME NEW d \in Databases, NEW rows \in Databases
    PROVE  Within(d, Merge(d, rows))
  BY DEF Within, Merge

LEMMA WithinTransitive ==
    ASSUME NEW c, NEW d, NEW e, Within(c, d), Within(d, e)
    PROVE  Within(c, e)
  BY DEF Within

\* A claim and its result answer conclusively only the body they are for.
LEMMA ConclusiveAnswer ==
    ASSUME NEW d, NEW r, NEW c, NEW x,
           StoredAnswer(d, r, c, x).kind \in {"succeeded", "rejected"}
    PROVE  c.digest = r.body
  BY DEF StoredAnswer, Error

\* The three answers StoredAnswer gives to the claim's own body.
LEMMA AnswerCases ==
    ASSUME NEW d, NEW r, NEW c, NEW x, c.digest = r.body
    PROVE  LET contents == ContentsIn(d, r.body.op, x.result.resource)
           IN  StoredAnswer(d, r, c, x) =
                 IF x.result.outcome = "rejected" THEN Rejected(x.result.code)
                 ELSE IF contents = {} THEN Error("failed")
                 ELSE Succeeded(CHOOSE k \in contents : TRUE)
  BY DEF StoredAnswer

\* Nothing a later commit adds changes what is read back for a resource.
ContentsKept(d, e) ==
    \A op, i : ContentsIn(d, op, i) # {} => ContentsIn(e, op, i) = ContentsIn(d, op, i)

LEMMA AnswerKept ==
    ASSUME NEW d, NEW e, ContentsKept(d, e), NEW r, NEW c, NEW x,
           StoredAnswer(d, r, c, x).kind \in {"succeeded", "rejected"}
    PROVE  StoredAnswer(e, r, c, x) = StoredAnswer(d, r, c, x)
  <1> DEFINE before == ContentsIn(d, r.body.op, x.result.resource)
             after == ContentsIn(e, r.body.op, x.result.resource)
  <1>1. c.digest = r.body
    BY ConclusiveAnswer
  <1>2. CASE x.result.outcome = "rejected"
    BY <1>1, <1>2, AnswerCases
  <1>3. CASE x.result.outcome # "rejected"
    <2>1. before # {}
      BY <1>1, <1>3, AnswerCases DEF Error
    <2>2. after = before
      BY <2>1 DEF ContentsKept
    <2> QED BY <1>1, <1>3, <2>1, <2>2, AnswerCases
  <1> QED BY <1>2, <1>3

\* Rows whose keys and identifiers are new leave every resource as it is.
LEMMA FreshRowsKeepContents ==
    ASSUME NEW d \in Databases, NEW rows \in Databases,
           \A o \in rows.offers, y \in d.offers : o.id # y.id,
           \A q \in rows.quotes, y \in d.quotes : q.id # y.id,
           \A p \in rows.purchases : PurchasesOf(d, p.offer) = {}
    PROVE  ContentsKept(d, Merge(d, rows))
  <1> DEFINE e == Merge(d, rows)
  <1>1. /\ e.offers = d.offers \cup rows.offers
        /\ e.quotes = d.quotes \cup rows.quotes
        /\ e.purchases = d.purchases \cup rows.purchases
    BY DEF Merge
  <1> HIDE DEF e
  <1>2. ASSUME NEW i, CanonicalOffers(d, i) # {}
        PROVE  CanonicalOffers(e, i) = CanonicalOffers(d, i)
    BY <1>1, <1>2 DEF CanonicalOffers
  <1>3. ASSUME NEW i, PurchasesOf(d, i) # {}
        PROVE  PurchasesOf(e, i) = PurchasesOf(d, i)
    BY <1>1, <1>3 DEF PurchasesOf
  <1>4. ASSUME NEW i, {q \in d.quotes : q.id = i} # {}
        PROVE  {q \in e.quotes : q.id = i} = {q \in d.quotes : q.id = i}
    BY <1>1, <1>4
  <1>5. ASSUME NEW op, NEW i, ContentsIn(d, op, i) # {}
        PROVE  ContentsIn(e, op, i) = ContentsIn(d, op, i)
    <2>1. CASE op = "purchases.buy"
      <3>1. CanonicalOffers(d, i) # {} /\ PurchasesOf(d, i) # {}
        BY <1>5, <2>1 DEF ContentsIn
      <3>2. CanonicalOffers(e, i) = CanonicalOffers(d, i) /\ PurchasesOf(e, i) = PurchasesOf(d, i)
        BY <1>2, <1>3, <3>1
      <3> QED BY <2>1, <3>2 DEF ContentsIn
    <2>2. CASE op = "offers.create"
      BY <1>2, <1>5, <2>2 DEF ContentsIn
    <2>3. CASE op \notin {"purchases.buy", "offers.create"}
      <3>1. /\ ContentsIn(d, op, i) = {q \in d.quotes : q.id = i}
            /\ ContentsIn(e, op, i) = {q \in e.quotes : q.id = i}
        BY <2>3 DEF ContentsIn
      <3> QED BY <1>4, <1>5, <3>1
    <2> QED BY <2>1, <2>2, <2>3
  <1> QED BY <1>5 DEF ContentsKept, e

-----------------------------------------------------------------------------
(* Steps that leave a request where it is.                                  *)

LEMMA RefusalsGrow ==
    ASSUME NEW r, NEW s, NEW old, NEW new, old \subseteq new
    PROVE  Refusals(r, s, old) \subseteq Refusals(r, s, new)
  <1>1. CASE r.body.op = "purchases.buy"
    BY <1>1 DEF Refusals
  <1>2. CASE r.body.op = "offers.create"
    BY <1>2 DEF Refusals
  <1>3. CASE r.body.op \notin {"purchases.buy", "offers.create"}
    BY <1>3 DEF Refusals
  <1> QED BY <1>1, <1>2, <1>3

\* What holds of a request goes on holding while the tables grow under it.
LEMMA StandingStill ==
    ASSUME TypeOK, NEW r \in Requests, RequestOK(r),
           pc'[r] = pc[r], snap'[r] = snap[r], w'[r] = w[r], terms'[r] = terms[r],
           reply'[r] = reply[r],
           Within(db, db'), ContentsKept(db, db'), IdsFree(r)'
    PROVE  RequestOK(r)'
  <1>1. SnapshotOK(r)'
    <2>1. SnapshotOK(r)
      BY DEF RequestOK
    <2> QED BY <2>1, WithinTransitive DEF SnapshotOK
  <1>2. TermsOK(r)'
    BY DEF RequestOK, TermsOK
  <1>3. PreparedOK(r)'
    <2> SUFFICES ASSUME pc[r] = "prepared"
                 PROVE  PreparedOK(r)'
      BY DEF PreparedOK
    <2>1. CASE RejectionPrepared(r)
      <3>1. Refusals(r, snap[r], db.expired) \subseteq Refusals(r, snap[r], db'.expired)
        BY RefusalsGrow DEF Within
      <3> QED BY <2>1, <3>1 DEF PreparedOK, RejectionPrepared
    <2>2. CASE PurchasePrepared(r)
      BY <2>2 DEF PreparedOK, PurchasePrepared
    <2>3. CASE OfferPrepared(r)
      BY <2>3 DEF PreparedOK, OfferPrepared
    <2>4. CASE QuotePrepared(r)
      BY <2>4 DEF PreparedOK, QuotePrepared
    <2> QED BY <2>1, <2>2, <2>3, <2>4 DEF RequestOK, PreparedOK
  <1>4. AnswerOK(r)'
    <2>1. ASSUME pc[r] \in {"committed", "done"}, Conclusive(r)
          PROVE  Durable(r)'
      <3>1. PICK c \in ClaimsOf(db, Scope(r)), x \in ResultsOf(db, Scope(r)) :
               c.digest = r.body /\ reply[r] = StoredAnswer(db, r, c, x)
        BY <2>1 DEF RequestOK, AnswerOK, Durable
      <3>2. c \in ClaimsOf(db', Scope(r)) /\ x \in ResultsOf(db', Scope(r))
        BY <3>1 DEF ClaimsOf, ResultsOf, Within
      <3>3. StoredAnswer(db', r, c, x) = StoredAnswer(db, r, c, x)
        BY <2>1, <3>1, AnswerKept DEF Conclusive
      <3> QED BY <3>1, <3>2, <3>3 DEF Durable
    <2> QED BY <2>1 DEF RequestOK, AnswerOK, Conclusive
  <1> QED BY <1>1, <1>2, <1>3, <1>4 DEF RequestOK

LEMMA SameTables ==
    ASSUME NEW d
    PROVE  Within(d, d) /\ ContentsKept(d, d)
  BY DEF Within, ContentsKept

\* While the tables stand still, only r's part of the invariant is at stake.
LEMMA OneOutcomeStep ==
    ASSUME TypeOK, OutcomesInvariant, NEW r \in Requests, db' = db,
           Arrive(r) \/ Serve(r) \/ SerializationFailure(r) \/ Interrupt(r),
           RequestOK(r)', \A x \in Requests \ {r} : IdsApart(r, x)'
    PROVE  OutcomesInvariant'
  <1>1. \A x \in Requests \ {r} :
           /\ pc'[x] = pc[x] /\ reply'[x] = reply[x]
           /\ w'[x] = w[x] /\ snap'[x] = snap[x] /\ terms'[x] = terms[x]
    BY StepOfOne
  <1>2. ASSUME NEW x \in Requests \ {r}
        PROVE  RequestOK(x)'
    <2>1. RequestOK(x) /\ IdsFree(x)'
      BY <1>1 DEF OutcomesInvariant, RequestOK, IdsFree
    <2> QED BY <1>1, <2>1, StandingStill, SameTables
  <1>3. ASSUME NEW x \in Requests, NEW y \in Requests, x # y
        PROVE  IdsApart(x, y)'
    <2>1. CASE x # r /\ y # r
      BY <1>1, <1>3, <2>1 DEF OutcomesInvariant, IdsApart
    <2>2. CASE x = r
      BY <1>3, <2>2
    <2>3. CASE y = r
      <3>1. IdsApart(r, x)'
        BY <1>3, <2>3
      <3> QED BY <2>3, <3>1 DEF IdsApart
    <2> QED BY <2>1, <2>2, <2>3
  <1>4. FactsInvariant'
    BY DEF OutcomesInvariant, FactsInvariant, IdsUnique, ResourcesAsClaimed,
           FactsHaveOneOperation, EventsMatchSuccesses, Successes
  <1> QED BY <1>2, <1>3, <1>4 DEF OutcomesInvariant

-----------------------------------------------------------------------------
(* The steps of one request, the commit excepted.                           *)

StepOf(r) == Arrive(r) \/ Serve(r) \/ SerializationFailure(r) \/ Interrupt(r)

\* A request without a transaction has nothing to be wrong about but its answer.
LEMMA OutsideTransaction ==
    ASSUME TypeOK, OutcomesInvariant, NEW r \in Requests, StepOf(r), db' = db,
           pc'[r] \notin InTransaction, snap'[r] = Nothing, w'[r] = Nothing,
           TermsOK(r)', AnswerOK(r)'
    PROVE  OutcomesInvariant'
  <1>1. SnapshotOK(r)'
    BY DEF SnapshotOK, Within, QuotedBondsKnown, Nothing
  <1>2. PreparedOK(r)' /\ IdsFree(r)'
    BY DEF PreparedOK, InTransaction, IdsFree, Nothing
  <1>3. \A x \in Requests \ {r} : IdsApart(r, x)'
    BY DEF IdsApart, Nothing
  <1> QED BY <1>1, <1>2, <1>3, OneOutcomeStep DEF RequestOK, StepOf

LEMMA FinishOutcome ==
    ASSUME TypeOK, OutcomesInvariant, NEW r \in Requests, StepOf(r), db' = db,
           NEW a, Finish(r, a),
           a.kind \in {"succeeded", "rejected"} =>
             \E c \in ClaimsOf(db, Scope(r)), x \in ResultsOf(db, Scope(r)) :
                c.digest = r.body /\ a = StoredAnswer(db, r, c, x)
    PROVE  OutcomesInvariant'
  <1>1. pc'[r] = "done" /\ reply'[r] = a /\ snap'[r] = Nothing /\ w'[r] = Nothing
    BY DEF Finish, TypeOK
  <1>2. TermsOK(r)' /\ AnswerOK(r)'
    BY <1>1 DEF TermsOK, AnswerOK, Durable, Conclusive, InTransaction
  <1> QED BY <1>1, <1>2, OutsideTransaction DEF InTransaction

LEMMA ErrorOutcome ==
    ASSUME TypeOK, OutcomesInvariant, NEW r \in Requests, StepOf(r), KeepDb,
           NEW code, Finish(r, Error(code))
    PROVE  OutcomesInvariant'
  BY FinishOutcome DEF Error, KeepDb

\* A replay answers what the join of claims and results gives.
LEMMA ReplayOutcome ==
    ASSUME TypeOK, OutcomesInvariant, NEW r \in Requests, StepOf(r), KeepDb,
           NEW rows, rows \subseteq ResultsOf(db, Scope(r)),
           NEW a \in StoredAnswers(db, r, rows), Finish(r, a)
    PROVE  OutcomesInvariant'
  <1>1. CASE a = Error("failed")
    BY <1>1, ErrorOutcome
  <1>2. CASE a # Error("failed")
    <2>1. PICK c \in ClaimsOf(db, Scope(r)), x \in rows : a = StoredAnswer(db, r, c, x)
      BY <1>2 DEF StoredAnswers
    <2>2. a.kind \in {"succeeded", "rejected"} => c.digest = r.body
      BY <2>1, ConclusiveAnswer
    <2> QED BY <2>1, <2>2, FinishOutcome DEF KeepDb
  <1> QED BY <1>1, <1>2

LEMMA RetryOutcome ==
    ASSUME TypeOK, OutcomesInvariant, NEW r \in Requests, StepOf(r), KeepDb,
           pc[r] \in InTransaction, Retry(r)
    PROVE  OutcomesInvariant'
  <1>1. CASE Finish(r, Error("failed"))
    BY <1>1, ErrorOutcome
  <1>2. CASE TryAgain(r, attempt[r] + 1)
    <2>1. /\ pc'[r] = "begin" /\ reply'[r] = NoReply /\ snap'[r] = Nothing
          /\ w'[r] = Nothing /\ terms'[r] = terms[r]
      BY <1>2 DEF TryAgain, TypeOK
    <2>2. TermsOK(r)
      BY DEF OutcomesInvariant, RequestOK
    <2>3. TermsOK(r)' /\ AnswerOK(r)'
      BY <2>1, <2>2 DEF TermsOK, AnswerOK
    <2> QED BY <2>1, <2>3, OutsideTransaction DEF InTransaction, KeepDb
  <1> QED BY <1>1, <1>2 DEF Retry

\* A statement of an open transaction that inserts no fact.
LEMMA InsideTransaction ==
    ASSUME TypeOK, OutcomesInvariant, NEW r \in Requests, StepOf(r), KeepDb,
           pc'[r] \in InTransaction \ {"prepared"},
           SnapshotOK(r)', TermsOK(r)', reply'[r] = NoReply,
           w'[r].offers = {}, w'[r].quotes = {}
    PROVE  OutcomesInvariant'
  <1>1. PreparedOK(r)' /\ AnswerOK(r)' /\ IdsFree(r)'
    BY DEF PreparedOK, AnswerOK, InTransaction, IdsFree
  <1>2. \A x \in Requests \ {r} : IdsApart(r, x)'
    BY DEF IdsApart
  <1> QED BY <1>1, <1>2, OneOutcomeStep DEF RequestOK, StepOf, KeepDb

\* The statements that insert the fact and the result.
LEMMA RecordOutcome ==
    ASSUME TypeOK, OutcomesInvariant, NEW r \in Requests, StepOf(r), KeepDb,
           pc[r] \in {"claimed", "priced"}, pc'[r] = "prepared",
           snap'[r] = snap[r], terms'[r] = terms[r],
           PreparedOK(r)', IdsFree(r)', \A x \in Requests \ {r} : IdsApart(r, x)'
    PROVE  OutcomesInvariant'
  <1>1. SnapshotOK(r) /\ TermsOK(r)
    BY DEF OutcomesInvariant, RequestOK
  <1>2. SnapshotOK(r)' /\ TermsOK(r)' /\ AnswerOK(r)'
    BY <1>1 DEF SnapshotOK, TermsOK, AnswerOK, InTransaction, KeepDb
  <1> QED BY <1>2, OneOutcomeStep DEF RequestOK, StepOf, KeepDb

LEMMA RejectionOutcome ==
    ASSUME TypeOK, OutcomesInvariant, NEW r \in Requests, StepOf(r), KeepDb,
           pc[r] \in {"claimed", "priced"},
           NEW c \in Refusals(r, snap[r], db.expired), RecordRejection(r, c)
    PROVE  OutcomesInvariant'
  <1>1. /\ pc'[r] = "prepared" /\ snap'[r] = snap[r] /\ terms'[r] = terms[r]
        /\ w'[r] = RejectionRows(r, c) /\ reply'[r] = Rejected(c)
    BY DEF RecordRejection, TypeOK
  <1>2. w'[r].offers = {} /\ w'[r].quotes = {}
    BY <1>1, RejectionFields
  <1>3. IdsFree(r)' /\ \A x \in Requests \ {r} : IdsApart(r, x)'
    BY <1>2 DEF IdsFree, IdsApart
  <1>4. PreparedOK(r)'
    BY <1>1 DEF PreparedOK, RejectionPrepared, KeepDb
  <1> QED BY <1>1, <1>3, <1>4, RecordOutcome

\* The statements of request r, the commit excepted.
LEMMA ServeOutcome ==
    ASSUME TypeOK, KeysInvariant, OutcomesInvariant, NEW r \in Requests,
           Serve(r), ~ Commit(r)
    PROVE  OutcomesInvariant'
  <1>0. /\ StepOf(r)
        /\ RequestOK(r) /\ WriteSetOK(r) /\ r \in DOMAIN pc
        /\ SnapshotOK(r) /\ TermsOK(r) /\ AnswerOK(r)
        /\ snap[r] \in Databases /\ db \in Databases
    BY DEF StepOf, OutcomesInvariant, RequestOK, KeysInvariant, TypeOK
  <1>1. CASE ReplayConversionQuote(r)
    <2> USE <1>1 DEF ReplayConversionQuote
    <2>1. CASE Finish(r, Error("permission_denied"))
      BY <1>0, <2>1, ErrorOutcome
    <2>2. ASSUME pc' = [pc EXCEPT ![r] = "rating"],
                 UNCHANGED <<attempt, snap, w, terms, reply, sawGrant>>
          PROVE  OutcomesInvariant'
      <3>1. pc'[r] = "rating" /\ snap'[r] = Nothing /\ w'[r] = Nothing /\ reply'[r] = NoReply
        BY <1>0, <2>2 DEF SnapshotOK, WriteSetOK, Holding, AnswerOK, InTransaction
      <3>2. TermsOK(r)' /\ AnswerOK(r)'
        BY <3>1 DEF TermsOK, AnswerOK, InTransaction
      <3> QED BY <1>0, <3>1, <3>2, OutsideTransaction DEF InTransaction, KeepDb
    <2>3. ASSUME NEW rows \in SUBSET ResultsOf(db, Scope(r)),
                 NEW a \in StoredAnswers(db, r, rows), Finish(r, a)
          PROVE  OutcomesInvariant'
      BY <1>0, <2>3, ReplayOutcome
    <2> QED BY <2>1, <2>2, <2>3
  <1>2. CASE LatestRate(r)
    <2> USE <1>2 DEF LatestRate
    <2>1. CASE Finish(r, Error("exchange_rate_unavailable"))
      BY <1>0, <2>1, ErrorOutcome
    <2>2. ASSUME NEW v \in Revisions,
                 terms' = [terms EXCEPT ![r] = [price |-> r.body.price, revision |-> v]],
                 pc' = [pc EXCEPT ![r] = "begin"],
                 UNCHANGED <<attempt, snap, w, reply, sawGrant>>
          PROVE  OutcomesInvariant'
      <3>1. /\ pc'[r] = "begin" /\ snap'[r] = Nothing /\ w'[r] = Nothing
            /\ reply'[r] = NoReply
            /\ terms'[r] = [price |-> r.body.price, revision |-> v]
        BY <1>0, <2>2 DEF SnapshotOK, WriteSetOK, Holding, AnswerOK, InTransaction, TypeOK
      <3>2. terms'[r] \in QuotedTerms(r)
        BY <3>1 DEF QuotedTerms
      <3>3. TermsOK(r)' /\ AnswerOK(r)'
        BY <3>1, <3>2 DEF TermsOK, AnswerOK, InTransaction
      <3> QED BY <1>0, <3>1, <3>3, OutsideTransaction DEF InTransaction, KeepDb
    <2> QED BY <2>1, <2>2
  <1>3. CASE BeginAuthorizedMutation(r)
    <2> USE <1>3 DEF BeginAuthorizedMutation
    <2>1. CASE Finish(r, Error("permission_denied"))
      BY <1>0, <2>1, ErrorOutcome
    <2>2. ASSUME pc' = [pc EXCEPT ![r] = "authorized"], snap' = [snap EXCEPT ![r] = db],
                 UNCHANGED <<attempt, w, terms, reply, sawGrant>>
          PROVE  OutcomesInvariant'
      <3>1. /\ pc'[r] = "authorized" /\ snap'[r] = db /\ w'[r] = Nothing
            /\ reply'[r] = NoReply /\ terms'[r] = terms[r]
        BY <1>0, <2>2 DEF WriteSetOK, Holding, AnswerOK, TypeOK
      <3>2. SnapshotOK(r)'
        BY <3>1, SameTables
           DEF SnapshotOK, InTransaction, OutcomesInvariant, FactsInvariant, KeepDb
      <3>3. TermsOK(r)'
        BY <1>0, <3>1 DEF TermsOK, InTransaction
      <3>4. w'[r].offers = {} /\ w'[r].quotes = {}
        BY <3>1 DEF Nothing
      <3> QED BY <1>0, <3>1, <3>2, <3>3, <3>4, InsideTransaction DEF InTransaction
    <2> QED BY <2>1, <2>2
  <1>4. CASE ClaimOperation(r)
    <2>0. pc[r] = "authorized" /\ KeepDb /\ w[r] = Nothing /\ reply[r] = NoReply
      BY <1>0, <1>4 DEF ClaimOperation, WriteSetOK, Holding, AnswerOK
    <2>1. CASE Retry(r)
      BY <1>0, <2>0, <2>1, RetryOutcome DEF InTransaction
    <2>2. ASSUME pc' = [pc EXCEPT ![r] = "claimed"],
                 w' = [w EXCEPT ![r].claims = ClaimRows(r)],
                 UNCHANGED <<attempt, snap, terms, reply, sawGrant>>
          PROVE  OutcomesInvariant'
      <3>1. pc'[r] = "claimed" /\ SnapshotOK(r)' /\ TermsOK(r)'
        BY <1>0, <2>0, <2>2 DEF SnapshotOK, TermsOK, InTransaction, KeepDb
      <3>2. w'[r] = [Nothing EXCEPT !.claims = ClaimRows(r)]
        BY <2>0, <2>2 DEF TypeOK
      <3>3. w'[r].offers = {} /\ w'[r].quotes = {}
        BY <3>2 DEF Nothing
      <3> QED BY <1>0, <2>0, <2>2, <3>1, <3>3, InsideTransaction DEF InTransaction
    <2>3. ASSUME pc' = [pc EXCEPT ![r] = "replay"], snap' = [snap EXCEPT ![r] = Nothing],
                 UNCHANGED <<attempt, w, terms, reply, sawGrant>>
          PROVE  OutcomesInvariant'
      <3>1. pc'[r] = "replay" /\ snap'[r] = Nothing /\ w'[r] = Nothing
        BY <1>0, <2>0, <2>3 DEF TypeOK
      <3>2. TermsOK(r)' /\ AnswerOK(r)'
        BY <2>0, <2>3, <3>1 DEF TermsOK, AnswerOK, InTransaction
      <3> QED BY <1>0, <2>0, <3>1, <3>2, OutsideTransaction DEF InTransaction, KeepDb
    <2> QED BY <1>4, <2>1, <2>2, <2>3 DEF ClaimOperation
  <1>5. CASE BuyOnce(r)
    <2>0. pc[r] = "claimed" /\ KeepDb /\ r.body.op = "purchases.buy"
      BY <1>5 DEF BuyOnce
    <2>1. CASE Retry(r)
      BY <1>0, <2>0, <2>1, RetryOutcome DEF InTransaction
    <2>2. CASE RefusePurchase(r)
      <3>1. BuyRejection(snap[r], r) \in Refusals(r, snap[r], db.expired)
        BY <2>0, <2>2 DEF RefusePurchase, Refusals
      <3> QED BY <1>0, <2>0, <2>2, <3>1, RejectionOutcome DEF RefusePurchase
    <2>3. CASE InsertPurchase(r)
      <3>1. PICK o \in Buyable(snap[r], r) :
               RecordSuccess(r, r.body.offer,
                             [Nothing EXCEPT !.purchases = {PurchaseRow(r)}],
                             [offer |-> o, buyer |-> r.principal])
        BY <2>3 DEF InsertPurchase
      <3>2. /\ pc'[r] = "prepared" /\ snap'[r] = snap[r] /\ terms'[r] = terms[r]
            /\ w'[r] = PurchaseRows(r)
            /\ reply'[r] = Succeeded([offer |-> o, buyer |-> r.principal])
        BY <3>1 DEF RecordSuccess, PurchaseRows, TypeOK
      <3>3. w'[r].offers = {} /\ w'[r].quotes = {}
        BY <2>0, <3>2, PurchaseFields
      <3>4. IdsFree(r)' /\ \A x \in Requests \ {r} : IdsApart(r, x)'
        BY <3>3 DEF IdsFree, IdsApart
      <3>5. PreparedOK(r)'
        BY <2>0, <3>2 DEF PreparedOK, PurchasePrepared
      <3> QED BY <1>0, <2>0, <3>2, <3>4, <3>5, RecordOutcome
    <2> QED BY <1>5, <2>1, <2>2, <2>3 DEF BuyOnce, LosePurchase
  <1>6. CASE CheckQuote(r)
    <2>0. /\ pc[r] = "claimed" /\ KeepDb /\ r.body.op = "offers.create" /\ ~ Native(r)
          /\ reply[r] = NoReply
      BY <1>0, <1>6 DEF CheckQuote, Native, AnswerOK
    <2>1. CASE AcceptableQuotes(r) = {} /\ RecordRejection(r, "conversion_quote_unavailable")
      <3>1. UnexpiredQuotes(r, snap[r]) = {} \/ r.body.quote \in db.expired
        BY <2>1 DEF UnexpiredQuotes, AcceptableQuotes, CoveringQuotes
      <3>2. "conversion_quote_unavailable" \in Refusals(r, snap[r], db.expired)
        BY <2>0, <3>1 DEF Refusals
      <3> QED BY <1>0, <2>0, <2>1, <3>2, RejectionOutcome
    <2>2. ASSUME NEW q \in AcceptableQuotes(r),
                 terms' = [terms EXCEPT ![r] = q.terms],
                 pc' = [pc EXCEPT ![r] = "priced"],
                 UNCHANGED <<attempt, snap, w, reply, sawGrant>>
          PROVE  OutcomesInvariant'
      <3>1. q \in UnexpiredQuotes(r, snap[r])
        BY <1>0 DEF AcceptableQuotes, UnexpiredQuotes, SnapshotOK, Within
      <3>2. q.terms \in AcceptedTerms(r, snap[r])
        BY <2>0, <3>1 DEF AcceptedTerms
      <3>3. pc'[r] = "priced" /\ terms'[r] = q.terms
        BY <1>0, <2>2 DEF TypeOK
      <3>4. TermsOK(r)' /\ SnapshotOK(r)'
        BY <1>0, <2>0, <2>2, <3>2, <3>3 DEF TermsOK, SnapshotOK, InTransaction, KeepDb
      <3>5. w'[r].offers = {} /\ w'[r].quotes = {}
        BY <1>0, <2>0, <2>2 DEF WriteSetOK, Nothing
      <3> QED BY <1>0, <2>0, <2>2, <3>3, <3>4, <3>5, InsideTransaction DEF InTransaction
    <2> QED BY <1>6, <2>1, <2>2 DEF CheckQuote
  <1>7. CASE InsertOffer(r)
    <2> DEFINE t == IF Native(r) THEN NativeTerms(r) ELSE terms[r]
    <2>0. /\ pc[r] = (IF Native(r) THEN "claimed" ELSE "priced")
          /\ KeepDb /\ r.body.op = "offers.create"
      BY <1>7 DEF InsertOffer, Native
    <2>1. t \in AcceptedTerms(r, snap[r])
      BY <1>0, <2>0 DEF TermsOK, AcceptedTerms
    <2>2. CASE Retry(r)
      BY <1>0, <2>0, <2>2, RetryOutcome DEF InTransaction
    <2>3. CASE Finish(r, Error("failed"))
      BY <1>0, <2>0, <2>3, ErrorOutcome
    <2>4. CASE r.body.bond \notin snap[r].bonds /\ RecordRejection(r, "bond_not_found")
      <3>1. Native(r)
        <4> SUFFICES ASSUME ~ Native(r) PROVE FALSE
          OBVIOUS
        <4>1. PICK q \in UnexpiredQuotes(r, snap[r]) : TRUE
          BY <2>1 DEF AcceptedTerms
        <4>2. q \in snap[r].quotes /\ q.bond = r.body.bond
          BY <4>1 DEF UnexpiredQuotes, CoveringQuotes
        <4> QED BY <1>0, <2>4, <4>2 DEF SnapshotOK, QuotedBondsKnown
      <3>2. "bond_not_found" \in Refusals(r, snap[r], db.expired)
        BY <2>0, <2>4, <3>1 DEF Refusals
      <3> QED BY <1>0, <2>0, <2>4, <3>2, RejectionOutcome
    <2>5. ASSUME NEW i \in FreshOffers, r.body.bond \in snap[r].bonds,
                 RecordSuccess(r, i, [Nothing EXCEPT !.offers = {OfferRow(r, i, t)}],
                               OfferRow(r, i, t))
          PROVE  OutcomesInvariant'
      <3> HIDE DEF t
      <3>1. /\ pc'[r] = "prepared" /\ snap'[r] = snap[r] /\ terms'[r] = terms[r]
            /\ w'[r] = OfferRows(r, i, t) /\ reply'[r] = Succeeded(OfferRow(r, i, t))
            /\ \A x \in Requests \ {r} : w'[x] = w[x]
        BY <2>5 DEF RecordSuccess, OfferRows, TypeOK
      <3>2. w'[r].offers = {OfferRow(r, i, t)} /\ w'[r].quotes = {}
        BY <2>0, <3>1, OfferFields
      <3>3. OfferRow(r, i, t).id = i
        BY DEF OfferRow
      <3>4. IdsFree(r)' /\ \A x \in Requests \ {r} : IdsApart(r, x)'
        BY <2>0, <3>1, <3>2, <3>3 DEF IdsFree, IdsApart, FreshOffers, KeepDb
      <3>5. i \in Offers
        BY DEF FreshOffers
      <3>6. PreparedOK(r)'
        BY <2>0, <2>1, <2>5, <3>1, <3>5 DEF PreparedOK, OfferPrepared
      <3>7. pc[r] \in {"claimed", "priced"}
        BY <2>0
      <3> QED BY <1>0, <2>0, <3>1, <3>4, <3>6, <3>7, RecordOutcome
    <2> QED BY <1>7, <2>2, <2>3, <2>4, <2>5 DEF InsertOffer, Native
  <1>8. CASE InsertQuote(r)
    <2>0. pc[r] = "claimed" /\ KeepDb /\ r.body.op = "offers.quote"
      BY <1>8 DEF InsertQuote
    <2>1. CASE r.body.bond \notin snap[r].bonds /\ RecordRejection(r, "bond_not_found")
      <3>1. "bond_not_found" \in Refusals(r, snap[r], db.expired)
        BY <2>0, <2>1 DEF Refusals
      <3> QED BY <1>0, <2>0, <2>1, <3>1, RejectionOutcome
    <2>2. ASSUME NEW i \in FreshQuotes, r.body.bond \in snap[r].bonds,
                 RecordSuccess(r, i, [Nothing EXCEPT !.quotes = {QuoteRow(r, i, terms[r])}],
                               QuoteRow(r, i, terms[r]))
          PROVE  OutcomesInvariant'
      <3>1. /\ pc'[r] = "prepared" /\ snap'[r] = snap[r] /\ terms'[r] = terms[r]
            /\ w'[r] = QuoteRows(r, i, terms[r])
            /\ reply'[r] = Succeeded(QuoteRow(r, i, terms[r]))
            /\ \A x \in Requests \ {r} : w'[x] = w[x]
        BY <2>2 DEF RecordSuccess, QuoteRows, TypeOK
      <3>2. w'[r].quotes = {QuoteRow(r, i, terms[r])} /\ w'[r].offers = {}
        BY <2>0, <3>1, QuoteFields
      <3>3. QuoteRow(r, i, terms[r]).id = i /\ i \in Quotes
        BY DEF QuoteRow, FreshQuotes
      <3>4. IdsFree(r)' /\ \A x \in Requests \ {r} : IdsApart(r, x)'
        BY <2>0, <3>1, <3>2, <3>3 DEF IdsFree, IdsApart, FreshQuotes, KeepDb
      <3>5. terms[r] \in QuotedTerms(r)
        BY <1>0, <2>0 DEF TermsOK, InTransaction
      <3>6. PreparedOK(r)'
        BY <2>0, <2>2, <3>1, <3>3, <3>5 DEF PreparedOK, QuotePrepared
      <3> QED BY <1>0, <2>0, <3>1, <3>4, <3>6, RecordOutcome
    <2> QED BY <1>8, <2>1, <2>2 DEF InsertQuote
  <1>9. CASE Respond(r)
    <2>1. /\ pc[r] = "committed" /\ pc'[r] = "done" /\ snap'[r] = Nothing
          /\ w'[r] = Nothing /\ reply'[r] = reply[r] /\ db' = db
      BY <1>0, <1>9 DEF Respond, SnapshotOK, InTransaction, WriteSetOK, Holding
    <2>2. TermsOK(r)' /\ AnswerOK(r)'
      BY <1>0, <2>1 DEF TermsOK, AnswerOK, InTransaction, Durable, Conclusive
    <2> QED BY <1>0, <2>1, <2>2, OutsideTransaction DEF InTransaction
  <1>10. CASE ReplayResource(r)
    BY <1>0, <1>10, ReplayOutcome DEF ReplayResource
  <1> QED BY <1>1, <1>2, <1>3, <1>4, <1>5, <1>6, <1>7, <1>8, <1>9, <1>10 DEF Serve

-----------------------------------------------------------------------------
(* The commit.                                                              *)

\* What the committing request knows: its rows have new keys and identifiers.
LEMMA CommitBasics ==
    ASSUME TypeOK, KeysInvariant, OutcomesInvariant, NEW r \in Requests, Commit(r)
    PROVE  /\ db \in Databases /\ w[r] \in Databases /\ db' = Merge(db, w[r])
           /\ db'.expired = db.expired \cup w[r].expired
           /\ db'.bonds = db.bonds \cup w[r].bonds
           /\ db'.offers = db.offers \cup w[r].offers
           /\ db'.quotes = db.quotes \cup w[r].quotes
           /\ db'.purchases = db.purchases \cup w[r].purchases
           /\ db'.claims = db.claims \cup w[r].claims
           /\ db'.results = db.results \cup w[r].results
           /\ db'.events = db.events \cup w[r].events
           /\ Within(db, db') /\ ContentsKept(db, db') /\ Within(snap[r], db)
           /\ ClaimsOf(db, Scope(r)) = {} /\ ResultsOf(db, Scope(r)) = {}
           /\ IdsFree(r)
           /\ \A p \in w[r].purchases : PurchasesOf(db, p.offer) = {}
           /\ reply'[r] = reply[r]
           /\ RejectionPrepared(r) \/ PurchasePrepared(r)
              \/ OfferPrepared(r) \/ QuotePrepared(r)
  <1>1. db \in Databases /\ w[r] \in Databases /\ db' = Merge(db, w[r])
        /\ pc[r] = "prepared"
    BY DEF TypeOK, Commit
  <1>2. RequestOK(r) /\ KeysFree(r) /\ WriteSetOK(r) /\ ClaimsPairWithResults
    BY DEF OutcomesInvariant, KeysInvariant
  <1>3. ClaimsOf(db, Scope(r)) = {} /\ ResultsOf(db, Scope(r)) = {}
    BY <1>1, <1>2 DEF KeysFree, Holding, ClaimsPairWithResults, ClaimsOf, ResultsOf
  <1>4. /\ db'.expired = db.expired \cup w[r].expired
        /\ db'.bonds = db.bonds \cup w[r].bonds
        /\ db'.offers = db.offers \cup w[r].offers
        /\ db'.quotes = db.quotes \cup w[r].quotes
        /\ db'.purchases = db.purchases \cup w[r].purchases
        /\ db'.claims = db.claims \cup w[r].claims
        /\ db'.results = db.results \cup w[r].results
        /\ db'.events = db.events \cup w[r].events
    BY <1>1 DEF Merge
  <1>5. IdsFree(r) /\ Within(snap[r], db)
    BY <1>2 DEF RequestOK, SnapshotOK
  <1>6. \A p \in w[r].purchases : PurchasesOf(db, p.offer) = {}
    BY <1>2 DEF KeysFree
  <1>7. Within(db, db') /\ ContentsKept(db, db')
    BY <1>1, <1>5, <1>6, WithinMerge, FreshRowsKeepContents DEF IdsFree
  <1>8. RejectionPrepared(r) \/ PurchasePrepared(r) \/ OfferPrepared(r) \/ QuotePrepared(r)
    BY <1>1, <1>2 DEF RequestOK, PreparedOK
  <1>9. reply'[r] = reply[r]
    BY DEF Commit
  <1> QED BY <1>1, <1>3, <1>4, <1>5, <1>6, <1>7, <1>8, <1>9

LEMMA ChooseOnly == ASSUME NEW v PROVE (CHOOSE k \in {v} : TRUE) = v
  OBVIOUS

\* r commits a success whose resource reads back as the content it answers.
ReadsBack(r, i, content) ==
    /\ reply[r] = Succeeded(content)
    /\ w[r].claims = ClaimRows(r) /\ w[r].results = {SuccessOf(r, i)}
    /\ ContentsIn(db', r.body.op, i) = {content}

LEMMA CommitReadsBack ==
    ASSUME TypeOK, KeysInvariant, OutcomesInvariant, NEW r \in Requests, Commit(r),
           ~ RejectionPrepared(r)
    PROVE  \E i, content : ReadsBack(r, i, content)
  <1>1. CASE PurchasePrepared(r)
    <2>1. PICK o \in Buyable(snap[r], r) :
             reply[r] = Succeeded([offer |-> o, buyer |-> r.principal])
      BY <1>1 DEF PurchasePrepared
    <2>2. /\ w[r].purchases = {PurchaseRow(r)} /\ w[r].offers = {}
          /\ w[r].claims = ClaimRows(r) /\ w[r].results = {SuccessOf(r, r.body.offer)}
      BY <1>1, PurchaseFields DEF PurchasePrepared
    <2>3. PurchaseRow(r).offer = r.body.offer /\ PurchaseRow(r).buyer = r.principal
      BY DEF PurchaseRow
    <2>4. CanonicalOffers(db', r.body.offer) = {o}
      <3>1. o \in db.offers /\ o.id = r.body.offer /\ o.canonical
        BY <2>1, CommitBasics DEF Buyable, CanonicalOffers, Within
      <3>2. \A y \in db.offers : y.id = r.body.offer => y = o
        BY <3>1 DEF OutcomesInvariant, FactsInvariant, IdsUnique
      <3> QED BY <2>2, <3>1, <3>2, CommitBasics DEF CanonicalOffers
    <2>5. PurchasesOf(db', r.body.offer) = {PurchaseRow(r)}
      BY <2>2, <2>3, CommitBasics DEF PurchasesOf
    <2>6. ContentsIn(db', r.body.op, r.body.offer) = {[offer |-> o, buyer |-> r.principal]}
      <3>1. r.body.op = "purchases.buy"
        BY <1>1 DEF PurchasePrepared
      <3> QED BY <2>3, <2>4, <2>5, <3>1 DEF ContentsIn
    <2> QED BY <2>1, <2>2, <2>6 DEF ReadsBack
  <1>2. CASE OfferPrepared(r)
    <2>1. PICK i \in Offers, t \in AcceptedTerms(r, snap[r]) :
             w[r] = OfferRows(r, i, t) /\ reply[r] = Succeeded(OfferRow(r, i, t))
      BY <1>2 DEF OfferPrepared
    <2>2. /\ w[r].offers = {OfferRow(r, i, t)} /\ r.body.op = "offers.create"
          /\ w[r].claims = ClaimRows(r) /\ w[r].results = {SuccessOf(r, i)}
      BY <1>2, <2>1, OfferFields DEF OfferPrepared
    <2>3. OfferRow(r, i, t).id = i /\ OfferRow(r, i, t).canonical
      BY DEF OfferRow
    <2>4. CanonicalOffers(db', i) = {OfferRow(r, i, t)}
      BY <2>2, <2>3, CommitBasics DEF CanonicalOffers, IdsFree
    <2>5. ContentsIn(db', r.body.op, i) = {OfferRow(r, i, t)}
      BY <2>2, <2>4 DEF ContentsIn
    <2> QED BY <2>1, <2>2, <2>5 DEF ReadsBack
  <1>3. CASE QuotePrepared(r)
    <2>1. PICK i \in Quotes, t \in QuotedTerms(r) :
             w[r] = QuoteRows(r, i, t) /\ reply[r] = Succeeded(QuoteRow(r, i, t))
      BY <1>3 DEF QuotePrepared
    <2>2. /\ w[r].quotes = {QuoteRow(r, i, t)} /\ r.body.op = "offers.quote"
          /\ w[r].claims = ClaimRows(r) /\ w[r].results = {SuccessOf(r, i)}
      BY <1>3, <2>1, QuoteFields DEF QuotePrepared
    <2>3. QuoteRow(r, i, t).id = i
      BY DEF QuoteRow
    <2>4. {q \in db'.quotes : q.id = i} = {QuoteRow(r, i, t)}
      BY <2>2, <2>3, CommitBasics DEF IdsFree
    <2>5. ContentsIn(db', r.body.op, i) = {QuoteRow(r, i, t)}
      BY <2>2, <2>4 DEF ContentsIn
    <2> QED BY <2>1, <2>2, <2>5 DEF ReadsBack
  <1> QED BY <1>1, <1>2, <1>3, CommitBasics

\* The answer held through the commit is the one stored by it.
LEMMA CommitDurable ==
    ASSUME TypeOK, KeysInvariant, OutcomesInvariant, NEW r \in Requests, Commit(r)
    PROVE  Conclusive(r)' /\ Durable(r)'
  <1> DEFINE claim == [scope |-> Scope(r), digest |-> r.body]
  <1>0. claim.scope = Scope(r) /\ claim.digest = r.body /\ ClaimRows(r) = {claim}
    BY DEF ClaimRows
  <1> HIDE DEF claim
  <1>1. CASE ~ RejectionPrepared(r)
    <2>0. PICK i, content : ReadsBack(r, i, content)
      BY <1>1, CommitReadsBack
    <2> DEFINE x == SuccessOf(r, i)
    <2>1. x.scope = Scope(r) /\ x.result.resource = i /\ x.result.outcome = "succeeded"
      BY DEF SuccessOf
    <2> HIDE DEF x
    <2>2. claim \in ClaimsOf(db', Scope(r)) /\ x \in ResultsOf(db', Scope(r))
      BY <1>0, <2>0, <2>1, CommitBasics DEF ReadsBack, ClaimsOf, ResultsOf, x
    <2>3. StoredAnswer(db', r, claim, x) = Succeeded(content)
      BY <1>0, <2>0, <2>1, AnswerCases, ChooseOnly DEF ReadsBack
    <2>4. reply'[r] = Succeeded(content)
      BY <2>0, CommitBasics DEF ReadsBack
    <2> QED BY <1>0, <2>2, <2>3, <2>4 DEF Conclusive, Durable, Succeeded
  <1>2. CASE RejectionPrepared(r)
    <2>1. PICK c : w[r] = RejectionRows(r, c) /\ reply[r] = Rejected(c)
      BY <1>2 DEF RejectionPrepared
    <2> DEFINE x == [scope |-> Scope(r), result |-> [outcome |-> "rejected", code |-> c]]
    <2>2. x.scope = Scope(r) /\ x.result.code = c /\ x.result.outcome = "rejected"
      OBVIOUS
    <2>3. w[r].claims = ClaimRows(r) /\ w[r].results = {x}
      BY <2>1, RejectionFields
    <2> HIDE DEF x
    <2>4. claim \in ClaimsOf(db', Scope(r)) /\ x \in ResultsOf(db', Scope(r))
      BY <1>0, <2>2, <2>3, CommitBasics DEF ClaimsOf, ResultsOf
    <2>5. StoredAnswer(db', r, claim, x) = Rejected(c)
      BY <1>0, <2>2, AnswerCases
    <2>6. reply'[r] = Rejected(c)
      BY <2>1, CommitBasics
    <2> QED BY <1>0, <2>4, <2>5, <2>6 DEF Conclusive, Durable, Rejected
  <1> QED BY <1>1, <1>2

LEMMA SuccessFieldsOf ==
    ASSUME NEW r, NEW i
    PROVE  /\ SuccessOf(r, i).scope = Scope(r)
           /\ SuccessOf(r, i).result.outcome = "succeeded"
           /\ SuccessOf(r, i).result.resource = i
           /\ Scope(r)[1] = r.principal /\ Scope(r)[2] = r.body.op
  BY DEF SuccessOf, Scope

\* A commit adds its own success and no other.
LEMMA CommitSuccesses ==
    ASSUME TypeOK, KeysInvariant, OutcomesInvariant, NEW r \in Requests, Commit(r),
           NEW op
    PROVE  /\ RejectionPrepared(r) => Successes(op)' = Successes(op)
           /\ \A i, content : ReadsBack(r, i, content) =>
                /\ op # r.body.op => Successes(op)' = Successes(op)
                /\ op = r.body.op => Successes(op)' = Successes(op) \cup {SuccessOf(r, i)}
                /\ SuccessOf(r, i) \notin Successes(op)
  <1>1. ASSUME RejectionPrepared(r) PROVE Successes(op)' = Successes(op)
    <2>1. PICK c : w[r] = RejectionRows(r, c)
      BY <1>1 DEF RejectionPrepared
    <2> DEFINE x == [scope |-> Scope(r), result |-> [outcome |-> "rejected", code |-> c]]
    <2>2. x.result.outcome = "rejected"
      OBVIOUS
    <2>3. db'.results = db.results \cup {x}
      BY <2>1, RejectionFields, CommitBasics
    <2> HIDE DEF x
    <2> QED BY <2>2, <2>3 DEF Successes
  <1>2. ASSUME NEW i, NEW content, ReadsBack(r, i, content)
        PROVE  /\ op # r.body.op => Successes(op)' = Successes(op)
               /\ op = r.body.op => Successes(op)' = Successes(op) \cup {SuccessOf(r, i)}
               /\ SuccessOf(r, i) \notin Successes(op)
    <2>1. db'.results = db.results \cup {SuccessOf(r, i)}
      BY <1>2, CommitBasics DEF ReadsBack
    <2>2. SuccessOf(r, i) \notin db.results
      BY CommitBasics, SuccessFieldsOf DEF ResultsOf
    <2> QED BY <2>1, <2>2, SuccessFieldsOf DEF Successes
  <1> QED BY <1>1, <1>2

LEMMA CommitIds ==
    ASSUME TypeOK, KeysInvariant, OutcomesInvariant, NEW r \in Requests, Commit(r)
    PROVE  IdsUnique' /\ QuotedBondsKnown(db)'
  <1>1. \A o1, o2 \in w[r].offers : o1 = o2
    BY DEF KeysInvariant, WriteSetOK
  <1>2. /\ \A q1, q2 \in w[r].quotes : q1 = q2
        /\ \A q \in w[r].quotes : q.bond \in db.bonds
    <2>1. CASE w[r].quotes = {}
      BY <2>1
    <2>2. CASE QuotePrepared(r)
      <3>1. PICK i \in Quotes, t \in QuotedTerms(r) : w[r] = QuoteRows(r, i, t)
        BY <2>2 DEF QuotePrepared
      <3>2. w[r].quotes = {QuoteRow(r, i, t)}
        BY <2>2, <3>1, QuoteFields DEF QuotePrepared
      <3>3. QuoteRow(r, i, t).bond = r.body.bond
        BY DEF QuoteRow
      <3>4. r.body.bond \in db.bonds
        BY <2>2, CommitBasics DEF QuotePrepared, Within
      <3> QED BY <3>2, <3>3, <3>4
    <2> QED BY <2>1, <2>2, CommitBasics, RejectionFields, PurchaseFields, OfferFields
            DEF RejectionPrepared, PurchasePrepared, OfferPrepared
  <1>3. IdsUnique /\ QuotedBondsKnown(db)
    BY DEF OutcomesInvariant, FactsInvariant
  <1>4. IdsUnique'
    BY <1>1, <1>2, <1>3, CommitBasics DEF IdsUnique, IdsFree
  <1>5. QuotedBondsKnown(db)'
    BY <1>2, <1>3, CommitBasics DEF QuotedBondsKnown
  <1> QED BY <1>4, <1>5

\* The four things a commit can be.
RejectionCommits(r) ==
    /\ RejectionPrepared(r)
    /\ w[r].offers = {} /\ w[r].quotes = {} /\ w[r].purchases = {} /\ w[r].events = {}
PurchaseCommits(r) ==
    /\ r.body.op = "purchases.buy"
    /\ w[r].offers = {} /\ w[r].quotes = {} /\ w[r].purchases = {PurchaseRow(r)}
    /\ w[r].events = {[table |-> "purchases", source |-> r.body.offer]}
    /\ \E content : ReadsBack(r, r.body.offer, content)
OfferCommits(r, i, t) ==
    /\ r.body.op = "offers.create"
    /\ w[r].offers = {OfferRow(r, i, t)} /\ w[r].quotes = {} /\ w[r].purchases = {}
    /\ w[r].events = {[table |-> "sale_offers", source |-> i]}
    /\ \E content : ReadsBack(r, i, content)
QuoteCommits(r, i, t) ==
    /\ r.body.op = "offers.quote"
    /\ w[r].offers = {} /\ w[r].quotes = {QuoteRow(r, i, t)} /\ w[r].purchases = {}
    /\ w[r].events = {}
    /\ \E content : ReadsBack(r, i, content)

LEMMA CommitKinds ==
    ASSUME TypeOK, KeysInvariant, OutcomesInvariant, NEW r \in Requests, Commit(r)
    PROVE  \/ RejectionCommits(r) \/ PurchaseCommits(r)
           \/ \E i, t : OfferCommits(r, i, t) \/ QuoteCommits(r, i, t)
  <1>1. CASE RejectionPrepared(r)
    BY <1>1, RejectionFields DEF RejectionPrepared, RejectionCommits
  <1>2. CASE ~ RejectionPrepared(r)
    <2>1. PICK j, content : ReadsBack(r, j, content)
      BY <1>2, CommitReadsBack
    <2>2. ASSUME NEW i, w[r].results = {SuccessOf(r, i)} PROVE i = j
      BY <2>1, <2>2, SuccessFieldsOf DEF ReadsBack
    <2>3. CASE PurchasePrepared(r)
      <3>1. w[r] = PurchaseRows(r) /\ r.body.op = "purchases.buy"
        BY <2>3 DEF PurchasePrepared
      <3>2. /\ w[r].offers = {} /\ w[r].quotes = {} /\ w[r].purchases = {PurchaseRow(r)}
            /\ w[r].events = {[table |-> "purchases", source |-> r.body.offer]}
            /\ w[r].results = {SuccessOf(r, r.body.offer)}
        BY <3>1, PurchaseFields
      <3>3. ReadsBack(r, r.body.offer, content)
        BY <2>1, <2>2, <3>2
      <3> QED BY <3>1, <3>2, <3>3 DEF PurchaseCommits
    <2>4. CASE OfferPrepared(r)
      <3>1. PICK i \in Offers, t \in AcceptedTerms(r, snap[r]) : w[r] = OfferRows(r, i, t)
        BY <2>4 DEF OfferPrepared
      <3>2. r.body.op = "offers.create"
        BY <2>4 DEF OfferPrepared
      <3> QED BY <2>1, <2>2, <3>1, <3>2, OfferFields DEF OfferCommits
    <2>5. CASE QuotePrepared(r)
      <3>1. PICK i \in Quotes, t \in QuotedTerms(r) : w[r] = QuoteRows(r, i, t)
        BY <2>5 DEF QuotePrepared
      <3>2. r.body.op = "offers.quote"
        BY <2>5 DEF QuotePrepared
      <3> QED BY <2>1, <2>2, <3>1, <3>2, QuoteFields DEF QuoteCommits
    <2> QED BY <1>2, <2>3, <2>4, <2>5, CommitBasics
  <1> QED BY <1>1, <1>2

LEMMA CommitEvents ==
    ASSUME TypeOK, KeysInvariant, OutcomesInvariant, NEW r \in Requests, Commit(r)
    PROVE  EventsMatchSuccesses'
  <1>0. EventsMatchSuccesses
    BY DEF OutcomesInvariant, FactsInvariant
  <1>1. CASE RejectionCommits(r)
    <2>1. Successes("offers.create")' = Successes("offers.create")
          /\ Successes("purchases.buy")' = Successes("purchases.buy")
      BY <1>1, CommitSuccesses DEF RejectionCommits
    <2> QED BY <1>0, <1>1, <2>1, CommitBasics DEF RejectionCommits, EventsMatchSuccesses
  <1>2. CASE PurchaseCommits(r)
    <2>1. /\ Successes("offers.create")' = Successes("offers.create")
          /\ Successes("purchases.buy")' =
               Successes("purchases.buy") \cup {SuccessOf(r, r.body.offer)}
      BY <1>2, CommitSuccesses DEF PurchaseCommits
    <2> QED BY <1>0, <1>2, <2>1, CommitBasics, SuccessFieldsOf
            DEF PurchaseCommits, EventsMatchSuccesses
  <1>3. ASSUME NEW i, NEW t, OfferCommits(r, i, t) PROVE EventsMatchSuccesses'
    <2>1. /\ Successes("offers.create")' = Successes("offers.create") \cup {SuccessOf(r, i)}
          /\ Successes("purchases.buy")' = Successes("purchases.buy")
      BY <1>3, CommitSuccesses DEF OfferCommits
    <2> QED BY <1>0, <1>3, <2>1, CommitBasics, SuccessFieldsOf
            DEF OfferCommits, EventsMatchSuccesses
  <1>4. ASSUME NEW i, NEW t, QuoteCommits(r, i, t) PROVE EventsMatchSuccesses'
    <2>1. /\ Successes("offers.create")' = Successes("offers.create")
          /\ Successes("purchases.buy")' = Successes("purchases.buy")
      BY <1>4, CommitSuccesses DEF QuoteCommits
    <2> QED BY <1>0, <1>4, <2>1, CommitBasics DEF QuoteCommits, EventsMatchSuccesses
  <1> QED BY <1>1, <1>2, <1>3, <1>4, CommitKinds

\* The four parts of FactsHaveOneOperation.
OffersSourced ==
    \A o \in db.offers \ LegacyOffers :
        \E x \in Successes("offers.create") :
           /\ x.scope[1] = o.seller
           /\ \A y \in Successes("offers.create") : y.result.resource = o.id <=> y = x
PurchasesSourced ==
    \A p \in db.purchases :
        \E x \in Successes("purchases.buy") :
           /\ x.scope[1] = p.buyer
           /\ \A y \in Successes("purchases.buy") : y.result.resource = p.offer <=> y = x
QuotesSourced ==
    \A q \in db.quotes :
        \E x \in Successes("offers.quote") :
           /\ x.scope[1] = q.principal
           /\ \A y \in Successes("offers.quote") : y.result.resource = q.id <=> y = x
SuccessesHaveContents ==
    \A op \in Operations : \A x \in Successes(op) :
        ContentsIn(db, op, x.result.resource) # {}

LEMMA FactsParts ==
    FactsHaveOneOperation <=>
        OffersSourced /\ PurchasesSourced /\ QuotesSourced /\ SuccessesHaveContents
  BY DEF FactsHaveOneOperation, OffersSourced, PurchasesSourced, QuotesSourced,
         SuccessesHaveContents

LEMMA CommitContents ==
    ASSUME TypeOK, KeysInvariant, OutcomesInvariant, NEW r \in Requests, Commit(r)
    PROVE  SuccessesHaveContents'
  <1> SUFFICES ASSUME NEW op \in Operations, NEW x \in Successes(op)'
               PROVE  ContentsIn(db', op, x.result.resource) # {}
    BY DEF SuccessesHaveContents
  <1>1. CASE x \in Successes(op)
    BY <1>1, FactsParts, CommitBasics
       DEF OutcomesInvariant, FactsInvariant, SuccessesHaveContents, ContentsKept
  <1>2. CASE x \notin Successes(op)
    <2>1. ~ RejectionPrepared(r)
      BY <1>2, CommitSuccesses
    <2>2. PICK i, content : ReadsBack(r, i, content)
      BY <2>1, CommitReadsBack
    <2>3. op = r.body.op /\ x = SuccessOf(r, i)
      BY <1>2, <2>2, CommitSuccesses
    <2>4. x.result.resource = i
      BY <2>3, SuccessFieldsOf
    <2> QED BY <2>2, <2>3, <2>4 DEF ReadsBack
  <1> QED BY <1>1, <1>2

\* Sourcing is kept for the tables and the successes a commit leaves alone.
LEMMA CommitSources ==
    ASSUME TypeOK, KeysInvariant, OutcomesInvariant, NEW r \in Requests, Commit(r)
    PROVE  OffersSourced' /\ PurchasesSourced' /\ QuotesSourced'
  <1>0. OffersSourced /\ PurchasesSourced /\ QuotesSourced /\ SuccessesHaveContents
    BY FactsParts DEF OutcomesInvariant, FactsInvariant
  <1>1. ASSUME w[r].offers = {}, Successes("offers.create")' = Successes("offers.create")
        PROVE  OffersSourced'
    BY <1>0, <1>1, CommitBasics DEF OffersSourced
  <1>2. ASSUME w[r].purchases = {}, Successes("purchases.buy")' = Successes("purchases.buy")
        PROVE  PurchasesSourced'
    BY <1>0, <1>2, CommitBasics DEF PurchasesSourced
  <1>3. ASSUME w[r].quotes = {}, Successes("offers.quote")' = Successes("offers.quote")
        PROVE  QuotesSourced'
    BY <1>0, <1>3, CommitBasics DEF QuotesSourced
  <1>4. CASE RejectionCommits(r)
    <2>1. \A op : Successes(op)' = Successes(op)
      BY <1>4, CommitSuccesses DEF RejectionCommits
    <2> QED BY <1>1, <1>2, <1>3, <1>4, <2>1 DEF RejectionCommits
  <1>5. CASE PurchaseCommits(r)
    <2> DEFINE new == SuccessOf(r, r.body.offer)
               S == Successes("purchases.buy")
               row == PurchaseRow(r)
    <2>1. /\ Successes("offers.create")' = Successes("offers.create")
          /\ Successes("offers.quote")' = Successes("offers.quote")
          /\ S' = S \cup {new} /\ new \notin S
      BY <1>5, CommitSuccesses DEF PurchaseCommits
    <2>2. /\ new.scope[1] = r.principal /\ new.result.resource = r.body.offer
          /\ row.buyer = r.principal /\ row.offer = r.body.offer
      BY SuccessFieldsOf DEF PurchaseRow
    <2>3. db'.purchases = db.purchases \cup {row} /\ PurchasesOf(db, r.body.offer) = {}
      BY <1>5, <2>2, CommitBasics DEF PurchaseCommits
    <2>4. \A y \in S : y.result.resource # r.body.offer
      <3> SUFFICES ASSUME NEW y \in S, y.result.resource = r.body.offer PROVE FALSE
        OBVIOUS
      <3>1. ContentsIn(db, "purchases.buy", r.body.offer) # {}
        BY <1>0 DEF SuccessesHaveContents, Operations
      <3> QED BY <2>3, <3>1 DEF ContentsIn
    <2> HIDE DEF new, S, row
    <2>5. ASSUME NEW p \in db.purchases
          PROVE  \E x \in S' : /\ x.scope[1] = p.buyer
                               /\ \A y \in S' : y.result.resource = p.offer <=> y = x
      <3>1. PICK x \in S : /\ x.scope[1] = p.buyer
                           /\ \A y \in S : y.result.resource = p.offer <=> y = x
        BY <1>0 DEF PurchasesSourced, S
      <3>2. p.offer # r.body.offer
        BY <2>3 DEF PurchasesOf
      <3> QED BY <2>1, <2>2, <3>1, <3>2
    <2>6. \E x \in S' : /\ x.scope[1] = row.buyer
                        /\ \A y \in S' : y.result.resource = row.offer <=> y = x
      BY <2>1, <2>2, <2>4
    <2>7. PurchasesSourced'
      BY <2>3, <2>5, <2>6 DEF PurchasesSourced, S
    <2> QED BY <1>1, <1>3, <1>5, <2>1, <2>7 DEF PurchaseCommits
  <1>6. ASSUME NEW i, NEW t, OfferCommits(r, i, t)
        PROVE  OffersSourced' /\ PurchasesSourced' /\ QuotesSourced'
    <2> DEFINE new == SuccessOf(r, i)
               S == Successes("offers.create")
               row == OfferRow(r, i, t)
    <2>1. /\ Successes("purchases.buy")' = Successes("purchases.buy")
          /\ Successes("offers.quote")' = Successes("offers.quote")
          /\ S' = S \cup {new} /\ new \notin S
      BY <1>6, CommitSuccesses DEF OfferCommits
    <2>2. /\ new.scope[1] = r.principal /\ new.result.resource = i
          /\ row.seller = r.principal /\ row.id = i
      BY SuccessFieldsOf DEF OfferRow
    <2>3. db'.offers = db.offers \cup {row} /\ \A o \in db.offers : o.id # i
      BY <1>6, <2>2, CommitBasics DEF OfferCommits, IdsFree
    <2>4. \A y \in S : y.result.resource # i
      <3> SUFFICES ASSUME NEW y \in S, y.result.resource = i PROVE FALSE
        OBVIOUS
      <3>1. ContentsIn(db, "offers.create", i) # {}
        BY <1>0 DEF SuccessesHaveContents, Operations
      <3> QED BY <2>3, <3>1 DEF ContentsIn, CanonicalOffers
    <2> HIDE DEF new, S, row
    <2>5. ASSUME NEW o \in db.offers \ LegacyOffers
          PROVE  \E x \in S' : /\ x.scope[1] = o.seller
                               /\ \A y \in S' : y.result.resource = o.id <=> y = x
      <3>1. PICK x \in S : /\ x.scope[1] = o.seller
                           /\ \A y \in S : y.result.resource = o.id <=> y = x
        BY <1>0 DEF OffersSourced, S
      <3> QED BY <2>1, <2>2, <2>3, <3>1
    <2>6. \E x \in S' : /\ x.scope[1] = row.seller
                        /\ \A y \in S' : y.result.resource = row.id <=> y = x
      BY <2>1, <2>2, <2>4
    <2>7. OffersSourced'
      BY <2>3, <2>5, <2>6 DEF OffersSourced, S
    <2> QED BY <1>2, <1>3, <1>6, <2>1, <2>7 DEF OfferCommits
  <1>7. ASSUME NEW i, NEW t, QuoteCommits(r, i, t)
        PROVE  OffersSourced' /\ PurchasesSourced' /\ QuotesSourced'
    <2> DEFINE new == SuccessOf(r, i)
               S == Successes("offers.quote")
               row == QuoteRow(r, i, t)
    <2>1. /\ Successes("purchases.buy")' = Successes("purchases.buy")
          /\ Successes("offers.create")' = Successes("offers.create")
          /\ S' = S \cup {new} /\ new \notin S
      BY <1>7, CommitSuccesses DEF QuoteCommits
    <2>2. /\ new.scope[1] = r.principal /\ new.result.resource = i
          /\ row.principal = r.principal /\ row.id = i
      BY SuccessFieldsOf DEF QuoteRow
    <2>3. db'.quotes = db.quotes \cup {row} /\ \A q \in db.quotes : q.id # i
      BY <1>7, <2>2, CommitBasics DEF QuoteCommits, IdsFree
    <2>4. \A y \in S : y.result.resource # i
      <3> SUFFICES ASSUME NEW y \in S, y.result.resource = i PROVE FALSE
        OBVIOUS
      <3>1. ContentsIn(db, "offers.quote", i) # {}
        BY <1>0 DEF SuccessesHaveContents, Operations
      <3> QED BY <2>3, <3>1 DEF ContentsIn
    <2> HIDE DEF new, S, row
    <2>5. ASSUME NEW q \in db.quotes
          PROVE  \E x \in S' : /\ x.scope[1] = q.principal
                               /\ \A y \in S' : y.result.resource = q.id <=> y = x
      <3>1. PICK x \in S : /\ x.scope[1] = q.principal
                           /\ \A y \in S : y.result.resource = q.id <=> y = x
        BY <1>0 DEF QuotesSourced, S
      <3> QED BY <2>1, <2>2, <2>3, <3>1
    <2>6. \E x \in S' : /\ x.scope[1] = row.principal
                        /\ \A y \in S' : y.result.resource = row.id <=> y = x
      BY <2>1, <2>2, <2>4
    <2>7. QuotesSourced'
      BY <2>3, <2>5, <2>6 DEF QuotesSourced, S
    <2> QED BY <1>1, <1>2, <1>7, <2>1, <2>7 DEF QuoteCommits
  <1> QED BY <1>4, <1>5, <1>6, <1>7, CommitKinds

LEMMA CommitClaims ==
    ASSUME TypeOK, KeysInvariant, OutcomesInvariant, NEW r \in Requests, Commit(r)
    PROVE  ResourcesAsClaimed'
  <1> DEFINE claim == [scope |-> Scope(r), digest |-> r.body]
             S == Successes("purchases.buy")
  <1>0. claim.scope = Scope(r) /\ claim.digest = r.body /\ ClaimRows(r) = {claim}
    BY DEF ClaimRows
  <1>1. db'.claims = db.claims \cup {claim}
    <2>1. w[r].claims = ClaimRows(r)
      BY DEF KeysInvariant, WriteSetOK, Commit
    <2> QED BY <1>0, <2>1, CommitBasics
  <1> HIDE DEF claim
  <1>2. \A c \in db.claims : c.scope # Scope(r)
    BY CommitBasics DEF ClaimsOf
  <1>3. \A x \in S : x.scope # Scope(r)
    BY CommitBasics DEF ResultsOf, Successes
  <1>4. \A c \in db.claims, x \in S : c.scope = x.scope => x.result.resource = c.digest.offer
    BY DEF OutcomesInvariant, FactsInvariant, ResourcesAsClaimed
  <1> SUFFICES ASSUME NEW c \in db.claims \cup {claim}, NEW x \in S', c.scope = x.scope
               PROVE  x.result.resource = c.digest.offer
    BY <1>1 DEF ResourcesAsClaimed
  <1>5. CASE x \in S
    BY <1>0, <1>3, <1>4, <1>5
  <1>6. CASE x \notin S
    <2>1. PurchaseCommits(r)
      BY <1>6, CommitKinds, CommitSuccesses
         DEF RejectionCommits, OfferCommits, QuoteCommits
    <2>2. x = SuccessOf(r, r.body.offer)
      BY <1>6, <2>1, CommitSuccesses DEF PurchaseCommits
    <2>3. x.scope = Scope(r) /\ x.result.resource = r.body.offer
      BY <2>2, SuccessFieldsOf
    <2> QED BY <1>0, <1>2, <2>3
  <1> QED BY <1>5, <1>6

LEMMA CommitOutcome ==
    ASSUME TypeOK, KeysInvariant, OutcomesInvariant, NEW r \in Requests, Commit(r)
    PROVE  OutcomesInvariant'
  <1>1. FactsInvariant'
    <2>1. (FactsHaveOneOperation <=>
             OffersSourced /\ PurchasesSourced /\ QuotesSourced /\ SuccessesHaveContents)'
      BY FactsParts, PTL
    <2> QED BY <2>1, CommitIds, CommitEvents, CommitContents, CommitSources, CommitClaims
            DEF FactsInvariant
  <1>2. /\ pc'[r] = "committed" /\ snap'[r] = Nothing /\ w'[r] = Nothing
        /\ \A x \in Requests \ {r} :
              /\ pc'[x] = pc[x] /\ snap'[x] = snap[x] /\ w'[x] = w[x]
              /\ terms'[x] = terms[x] /\ reply'[x] = reply[x]
    BY DEF Commit, TypeOK
  <1>3. RequestOK(r)'
    <2>1. SnapshotOK(r)' /\ IdsFree(r)'
      BY <1>2 DEF SnapshotOK, Within, QuotedBondsKnown, Nothing, IdsFree
    <2>2. TermsOK(r)' /\ PreparedOK(r)'
      BY <1>2 DEF TermsOK, PreparedOK, InTransaction
    <2>3. AnswerOK(r)'
      BY <1>2, CommitDurable DEF AnswerOK
    <2> QED BY <2>1, <2>2, <2>3 DEF RequestOK
  <1>4. ASSUME NEW x \in Requests \ {r} PROVE RequestOK(x)'
    <2>1. RequestOK(x) /\ IdsFree(x) /\ IdsApart(x, r)
      BY DEF OutcomesInvariant, RequestOK
    <2>2. IdsFree(x)'
      BY <1>2, <2>1, CommitBasics DEF IdsFree, IdsApart
    <2> QED BY <1>2, <2>1, <2>2, CommitBasics, StandingStill
  <1>5. ASSUME NEW x \in Requests, NEW y \in Requests, x # y PROVE IdsApart(x, y)'
    <2>1. IdsApart(x, y)
      BY <1>5 DEF OutcomesInvariant
    <2> QED BY <1>2, <2>1 DEF IdsApart, Nothing
  <1> QED BY <1>1, <1>3, <1>4, <1>5 DEF OutcomesInvariant

\* The environment adds bonds and lets quotes expire.
LEMMA EnvironmentOutcome ==
    ASSUME TypeOK, OutcomesInvariant, UNCHANGED <<pc, snap, w, terms, reply>>,
           Within(db, db'), db'.offers = db.offers, db'.quotes = db.quotes,
           db'.purchases = db.purchases, db'.claims = db.claims,
           db'.results = db.results, db'.events = db.events
    PROVE  OutcomesInvariant'
  <1>1. \A op, i : ContentsIn(db', op, i) = ContentsIn(db, op, i)
    BY DEF ContentsIn, CanonicalOffers, PurchasesOf
  <1>2. \A r \in Requests : IdsFree(r)'
    BY DEF OutcomesInvariant, RequestOK, IdsFree
  <1>3. \A r \in Requests : RequestOK(r)'
    BY <1>1, <1>2, StandingStill DEF OutcomesInvariant, ContentsKept
  <1>4. \A x, y \in Requests : x # y => IdsApart(x, y)'
    BY DEF OutcomesInvariant, IdsApart
  <1>5. \A op : Successes(op)' = Successes(op)
    BY DEF Successes
  <1>6. IdsUnique' /\ QuotedBondsKnown(db)' /\ ResourcesAsClaimed' /\ EventsMatchSuccesses'
    BY <1>5 DEF OutcomesInvariant, FactsInvariant, IdsUnique, QuotedBondsKnown, Within,
                ResourcesAsClaimed, EventsMatchSuccesses
  <1>7. FactsHaveOneOperation'
    <2>1. FactsHaveOneOperation
      BY DEF OutcomesInvariant, FactsInvariant
    <2> QED BY <1>1, <1>5, <2>1 DEF FactsHaveOneOperation
  <1> QED BY <1>3, <1>4, <1>6, <1>7 DEF OutcomesInvariant, FactsInvariant

LEMMA InitOutcome == Init => OutcomesInvariant
  <1> SUFFICES ASSUME Init PROVE OutcomesInvariant
    OBVIOUS
  <1>1. /\ db.offers = LegacyOffers /\ db.quotes = {} /\ db.purchases = {}
        /\ db.claims = {} /\ db.results = {} /\ db.events = {}
    BY DEF Init, Nothing
  <1>2. ASSUME NEW r \in Requests
        PROVE  pc[r] = "idle" /\ w[r] = Nothing /\ snap[r] = Nothing /\ reply[r] = NoReply
    BY DEF Init
  <1>3. \A r \in Requests : RequestOK(r)
    BY <1>2 DEF RequestOK, SnapshotOK, TermsOK, PreparedOK, AnswerOK, IdsFree, Nothing,
                InTransaction, Within, QuotedBondsKnown
  <1>4. \A x, y \in Requests : x # y => IdsApart(x, y)
    BY <1>2 DEF IdsApart, Nothing
  <1>5. \A op : Successes(op) = {}
    BY <1>1 DEF Successes
  <1>6. FactsInvariant
    BY <1>1, <1>5, FactsAssumption
       DEF FactsInvariant, IdsUnique, QuotedBondsKnown, ResourcesAsClaimed,
           FactsHaveOneOperation, EventsMatchSuccesses
  <1> QED BY <1>3, <1>4, <1>6 DEF OutcomesInvariant

LEMMA NextOutcome ==
    TypeOK /\ KeysInvariant /\ OutcomesInvariant /\ [Next]_vars => OutcomesInvariant'
  <1> SUFFICES ASSUME TypeOK, KeysInvariant, OutcomesInvariant, [Next]_vars
               PROVE  OutcomesInvariant'
    OBVIOUS
  <1>1. ASSUME NEW r \in Requests, Arrive(r) PROVE OutcomesInvariant'
    <2>1. RequestOK(r) /\ WriteSetOK(r)
      BY DEF OutcomesInvariant, KeysInvariant
    <2>2. /\ pc'[r] = IF r.body.op = "offers.quote" THEN "lookup" ELSE "begin"
          /\ db' = db /\ snap'[r] = Nothing /\ w'[r] = Nothing /\ reply'[r] = NoReply
      BY <1>1, <2>1 DEF Arrive, TypeOK, RequestOK, SnapshotOK, AnswerOK, WriteSetOK,
                        Holding, InTransaction
    <2>3. TermsOK(r)' /\ AnswerOK(r)'
      BY <2>2 DEF TermsOK, AnswerOK, InTransaction
    <2> QED BY <1>1, <2>2, <2>3, OutsideTransaction DEF StepOf, InTransaction
  <1>2. ASSUME NEW r \in Requests, Serve(r) PROVE OutcomesInvariant'
    BY <1>2, ServeOutcome, CommitOutcome
  <1>3. ASSUME NEW r \in Requests, SerializationFailure(r) PROVE OutcomesInvariant'
    BY <1>3, RetryOutcome DEF SerializationFailure, StepOf
  <1>4. ASSUME NEW r \in Requests, Interrupt(r) PROVE OutcomesInvariant'
    BY <1>4, ErrorOutcome DEF Interrupt, StepOf
  <1>5. ASSUME NEW b \in Bonds, ProvisionBond(b) PROVE OutcomesInvariant'
    BY <1>5, EnvironmentOutcome DEF ProvisionBond, txVars, TypeOK, Databases, Within
  <1>6. ASSUME NEW q \in Quotes, Expire(q) PROVE OutcomesInvariant'
    BY <1>6, EnvironmentOutcome DEF Expire, txVars, TypeOK, Databases, Within
  <1>7. CASE ChangeAuthorization
    BY <1>7, EnvironmentOutcome DEF ChangeAuthorization, Within
  <1>8. CASE UNCHANGED vars
    BY <1>8, EnvironmentOutcome DEF vars, txVars, Within
  <1> QED BY <1>1, <1>2, <1>3, <1>4, <1>5, <1>6, <1>7, <1>8 DEF Next

\* What open transactions read and prepare, what is stored and what is answered
\* agree in every reachable state.
THEOREM OutcomesAgree == Spec => []OutcomesInvariant
  BY InitOutcome, NextOutcome, TypeCorrect, KeysNeverInDoubt, PTL DEF Spec

\* G-006: every fact comes from exactly one succeeded operation of the principal
\* it names, and every succeeded operation has its fact.
THEOREM EveryFactHasItsOperation == Spec => []FactsHaveOneOperation
  <1>1. OutcomesInvariant => FactsHaveOneOperation
    BY DEF OutcomesInvariant, FactsInvariant
  <1> QED BY <1>1, OutcomesAgree, PTL

\* The outbox holds exactly one event reference per successful creation and
\* purchase, and none for anything else.
THEOREM EverySuccessHasItsEvent == Spec => []EventsMatchSuccesses
  <1>1. OutcomesInvariant => EventsMatchSuccesses
    BY DEF OutcomesInvariant, FactsInvariant
  <1> QED BY <1>1, OutcomesAgree, PTL

\* No server answers from a transaction that did not commit: a settled answer is
\* what a replay of the nonce reads from the tables.
THEOREM SettledIsDurable == Spec => []SettledAnswersAreDurable
  <1>1. OutcomesInvariant => SettledAnswersAreDurable
    BY DEF OutcomesInvariant, RequestOK, AnswerOK, SettledAnswersAreDurable, Settled,
           Conclusive, Durable
  <1> QED BY <1>1, OutcomesAgree, PTL

\* The stored claim and result of a nonce are one, so its settled answers are one.
LEMMA OneStoredOutcome ==
    ASSUME KeysInvariant, OutcomesInvariant, NEW r \in Requests, Settled(r),
           NEW c \in ClaimsOf(db, Scope(r)), NEW x \in ResultsOf(db, Scope(r))
    PROVE  c.digest = r.body /\ reply[r] = StoredAnswer(db, r, c, x)
  <1>1. Durable(r)
    BY DEF OutcomesInvariant, RequestOK, AnswerOK, Settled, Conclusive
  <1>2. PICK d \in ClaimsOf(db, Scope(r)), y \in ResultsOf(db, Scope(r)) :
           d.digest = r.body /\ reply[r] = StoredAnswer(db, r, d, y)
    BY <1>1 DEF Durable
  <1>3. d = c /\ y = x
    BY DEF KeysInvariant, ClaimsPairWithResults, ClaimsOf, ResultsOf
  <1> QED BY <1>2, <1>3

\* G-008: two settled answers under one nonce are the same answer to the same
\* body, whatever the interleaving of the original, its retries and crashes.
THEOREM SettledIsSettled == Spec => []SettledAnswersAgree
  <1>1. KeysInvariant /\ OutcomesInvariant => SettledAnswersAgree
    <2> SUFFICES ASSUME KeysInvariant, OutcomesInvariant,
                        NEW r1 \in Requests, NEW r2 \in Requests,
                        Settled(r1), Settled(r2), Scope(r1) = Scope(r2)
                 PROVE  r1.body = r2.body /\ reply[r1] = reply[r2]
      BY DEF SettledAnswersAgree
    <2>1. Durable(r1)
      BY DEF OutcomesInvariant, RequestOK, AnswerOK, Settled, Conclusive
    <2>2. PICK c \in ClaimsOf(db, Scope(r1)), x \in ResultsOf(db, Scope(r1)) : TRUE
      BY <2>1 DEF Durable
    <2>3. /\ c.digest = r1.body /\ reply[r1] = StoredAnswer(db, r1, c, x)
          /\ c.digest = r2.body /\ reply[r2] = StoredAnswer(db, r2, c, x)
      BY <2>2, OneStoredOutcome
    <2>4. StoredAnswer(db, r1, c, x) = StoredAnswer(db, r2, c, x)
      <3>1. r1.body = r2.body
        BY <2>3
      <3> QED BY <3>1 DEF StoredAnswer
    <2> QED BY <2>3, <2>4
  <1> QED BY <1>1, OutcomesAgree, KeysNeverInDoubt, PTL

\* G-001: an offer is purchased at most once, and only requests of the one
\* operation that bought it were ever told that the purchase succeeded.
THEOREM OnlyTheBuyerIsTold == Spec => []OneBuyerPerOffer
  <1>1. TypeOK /\ KeysInvariant /\ OutcomesInvariant => OneBuyerPerOffer
    <2> SUFFICES ASSUME TypeOK, KeysInvariant, OutcomesInvariant,
                        NEW r1 \in Requests, NEW r2 \in Requests,
                        r1.body.op = "purchases.buy", r2.body.op = "purchases.buy",
                        r1.body.offer = r2.body.offer,
                        pc[r1] = "done", reply[r1].kind = "succeeded",
                        pc[r2] = "done", reply[r2].kind = "succeeded"
                 PROVE  Scope(r1) = Scope(r2)
      BY DEF OneBuyerPerOffer, KeysInvariant
    <2> DEFINE S == Successes("purchases.buy")
    <2>1. ASSUME NEW r \in Requests, r.body.op = "purchases.buy",
                 pc[r] = "done", reply[r].kind = "succeeded"
          PROVE  \E x \in S : x.scope = Scope(r) /\ x.result.resource = r.body.offer
      <3>1. Durable(r)
        BY <2>1 DEF OutcomesInvariant, RequestOK, AnswerOK, Conclusive
      <3>2. PICK c \in ClaimsOf(db, Scope(r)), x \in ResultsOf(db, Scope(r)) :
               c.digest = r.body /\ reply[r] = StoredAnswer(db, r, c, x)
        BY <3>1 DEF Durable
      <3>3. x.result.outcome # "rejected"
        <4> SUFFICES ASSUME x.result.outcome = "rejected" PROVE FALSE
          OBVIOUS
        <4>1. reply[r] = Rejected(x.result.code)
          BY <3>2, AnswerCases
        <4> QED BY <2>1, <4>1 DEF Rejected
      <3>4. x.result.outcome = "succeeded"
        BY <3>3 DEF TypeOK, Databases, Results, Outcomes, ResultsOf
      <3>5. x.scope = Scope(r) /\ x.scope[2] = "purchases.buy" /\ c.scope = x.scope
        BY <2>1 DEF ResultsOf, ClaimsOf, Scope
      <3>6. x \in S /\ c \in db.claims
        BY <3>4, <3>5 DEF Successes, ResultsOf, ClaimsOf
      <3>7. x.result.resource = c.digest.offer
        BY <3>5, <3>6 DEF OutcomesInvariant, FactsInvariant, ResourcesAsClaimed
      <3> QED BY <3>2, <3>5, <3>6, <3>7
    <2>2. PICK x1 \in S : x1.scope = Scope(r1) /\ x1.result.resource = r1.body.offer
      BY <2>1
    <2>3. PICK x2 \in S : x2.scope = Scope(r2) /\ x2.result.resource = r1.body.offer
      BY <2>1
    <2>4. SuccessesHaveContents /\ PurchasesSourced
      BY FactsParts DEF OutcomesInvariant, FactsInvariant
    <2>5. PICK p \in PurchasesOf(db, r1.body.offer) : TRUE
      BY <2>2, <2>4 DEF SuccessesHaveContents, Operations, ContentsIn
    <2>6. x1 = x2
      BY <2>2, <2>3, <2>4, <2>5 DEF PurchasesSourced, PurchasesOf
    <2> QED BY <2>2, <2>3, <2>6
  <1> QED BY <1>1, OutcomesAgree, KeysNeverInDoubt, TypeCorrect, PTL

\* A buy of an offer its transaction can see is refused as unavailable only
\* when somebody really holds the purchase.
THEOREM NobodyLosesForNothing == Spec => []RefusedBuysLostToSomeone
  <1>1. OutcomesInvariant => RefusedBuysLostToSomeone
    <2> SUFFICES ASSUME OutcomesInvariant, NEW r \in Requests, pc[r] = "prepared",
                        reply[r] = Rejected("offer_unavailable"),
                        CanonicalOffers(snap[r], r.body.offer) # {}
                 PROVE  PurchasesOf(db, r.body.offer) # {}
      BY DEF RefusedBuysLostToSomeone
    <2>1. RejectionPrepared(r) /\ Within(snap[r], db)
      <3>1. RequestOK(r)
        BY DEF OutcomesInvariant
      <3>2. \A content : reply[r] # Succeeded(content)
        BY DEF Rejected, Succeeded
      <3>3. ~ PurchasePrepared(r) /\ ~ OfferPrepared(r) /\ ~ QuotePrepared(r)
        BY <3>2 DEF PurchasePrepared, OfferPrepared, QuotePrepared
      <3> QED BY <3>1, <3>3 DEF RequestOK, SnapshotOK, PreparedOK
    <2>2. "offer_unavailable" \in Refusals(r, snap[r], db.expired)
      BY <2>1 DEF RejectionPrepared, Rejected
    <2>3. /\ BuyRejection(snap[r], r) = "offer_unavailable"
          /\ Buyable(snap[r], r) = {} \/ PurchasesOf(snap[r], r.body.offer) # {}
      <3>1. CASE r.body.op = "purchases.buy"
        BY <2>2, <3>1 DEF Refusals
      <3>2. CASE r.body.op = "offers.create"
        BY <2>2, <3>2 DEF Refusals
      <3>3. CASE r.body.op \notin {"purchases.buy", "offers.create"}
        BY <2>2, <3>3 DEF Refusals
      <3> QED BY <3>1, <3>2, <3>3
    <2>4. PurchasesOf(snap[r], r.body.offer) # {}
      BY <2>3 DEF BuyRejection, Buyable
    <2> QED BY <2>1, <2>4 DEF PurchasesOf, Within
  <1> QED BY <1>1, OutcomesAgree, PTL

-----------------------------------------------------------------------------
(* Permission.                                                              *)

\* A request that got past the authorization query saw a grant, and one that
\* has not asked yet has seen the grant that is in force.
GrantSeen(r) ==
    /\ pc[r] \in InTransaction \cup {"committed", "replay"} => sawGrant[r]
    /\ pc[r] \notin {"idle", "done"} /\ Effective(r.principal, r.body.op) => sawGrant[r]
    /\ pc[r] = "done" /\ Conclusive(r) => sawGrant[r]
    /\ pc[r] \notin {"prepared", "committed", "done"} => reply[r] = NoReply

GrantsInvariant == \A r \in Requests : GrantSeen(r)

\* Rolling back with an error, or with any answer once a grant was seen.
LEMMA FinishGrant ==
    ASSUME TypeOK, NEW r \in Requests, NEW a \in Replies, Finish(r, a),
           a.kind \in {"succeeded", "rejected"} => sawGrant[r]
    PROVE  GrantSeen(r)'
  <1>1. pc'[r] = "done" /\ reply'[r] = a /\ sawGrant'[r] = sawGrant[r]
    BY DEF Finish, TypeOK
  <1> QED BY <1>1 DEF GrantSeen, Conclusive, InTransaction

LEMMA RetryGrant ==
    ASSUME TypeOK, NEW r \in Requests, Retry(r), KeepDb
    PROVE  GrantSeen(r)'
  <1>1. CASE Finish(r, Error("failed"))
    BY <1>1, ErrorType, FinishGrant DEF Error
  <1>2. CASE TryAgain(r, attempt[r] + 1)
    <2>1. /\ pc'[r] = "begin" /\ reply'[r] = NoReply
          /\ sawGrant'[r] = Effective(r.principal, r.body.op)
      BY <1>2 DEF TryAgain, TypeOK
    <2>2. Effective(r.principal, r.body.op)' = Effective(r.principal, r.body.op)
      BY DEF Effective, KeepDb
    <2> QED BY <2>1, <2>2 DEF GrantSeen, Conclusive, InTransaction
  <1> QED BY <1>1, <1>2 DEF Retry

\* A step within one phase of permission.
LEMMA AdvanceGrant ==
    ASSUME NEW r \in Requests, GrantSeen(r), KeepDb, UNCHANGED <<reply, sawGrant>>,
           pc[r] \notin {"idle", "done"},
           pc'[r] \notin {"idle", "done"},
           pc'[r] \in InTransaction \cup {"committed", "replay"} => sawGrant[r],
           pc'[r] \notin {"prepared", "committed"} => reply[r] = NoReply
    PROVE  GrantSeen(r)'
  <1>1. Effective(r.principal, r.body.op)' = Effective(r.principal, r.body.op)
    BY DEF Effective, KeepDb
  <1> QED BY <1>1 DEF GrantSeen, Conclusive

LEMMA RecordGrant ==
    ASSUME TypeOK, NEW r \in Requests, GrantSeen(r),
           pc[r] \in {"claimed", "priced"}, KeepDb,
           pc' = [pc EXCEPT ![r] = "prepared"], UNCHANGED sawGrant
    PROVE  GrantSeen(r)'
  <1>1. pc'[r] = "prepared" /\ sawGrant[r]
    BY DEF TypeOK, GrantSeen, InTransaction
  <1> QED BY <1>1 DEF GrantSeen

LEMMA ServeGrant ==
    ASSUME TypeOK, GrantsInvariant, NEW r \in Requests, Serve(r)
    PROVE  GrantSeen(r)'
  <1>0. GrantSeen(r) /\ r \in DOMAIN pc
    BY DEF GrantsInvariant, TypeOK
  <1>1. CASE ReplayConversionQuote(r)
    <2> USE <1>1 DEF ReplayConversionQuote
    <2>1. CASE Finish(r, Error("permission_denied"))
      BY <2>1, ErrorType, FinishGrant DEF Error
    <2>2. CASE pc' = [pc EXCEPT ![r] = "rating"] /\ UNCHANGED <<reply, sawGrant>>
      BY <1>0, <2>2, AdvanceGrant DEF GrantSeen, InTransaction
    <2>3. ASSUME NEW rows \in SUBSET db.results,
                 NEW a \in StoredAnswers(db, r, rows), Finish(r, a), Authorize(r)
          PROVE  GrantSeen(r)'
      <3>1. a \in Replies
        BY StoredAnswersType DEF TypeOK
      <3>2. sawGrant[r]
        BY <1>0, <2>3 DEF GrantSeen, Authorize
      <3> QED BY <2>3, <3>1, <3>2, FinishGrant
    <2> QED BY <2>1, <2>2, <2>3 DEF ResultsOf
  <1>2. CASE LatestRate(r)
    <2> USE <1>2 DEF LatestRate
    <2>1. CASE Finish(r, Error("exchange_rate_unavailable"))
      BY <2>1, ErrorType, FinishGrant DEF Error
    <2>2. CASE pc' = [pc EXCEPT ![r] = "begin"] /\ UNCHANGED <<reply, sawGrant>>
      BY <1>0, <2>2, AdvanceGrant DEF GrantSeen, InTransaction
    <2> QED BY <2>1, <2>2
  <1>3. CASE BeginAuthorizedMutation(r)
    <2> USE <1>3 DEF BeginAuthorizedMutation
    <2>1. CASE Finish(r, Error("permission_denied"))
      BY <2>1, ErrorType, FinishGrant DEF Error
    <2>2. CASE Authorize(r) /\ pc' = [pc EXCEPT ![r] = "authorized"]
               /\ UNCHANGED <<reply, sawGrant>>
      BY <1>0, <2>2, AdvanceGrant DEF GrantSeen, Authorize
    <2> QED BY <2>1, <2>2
  <1>4. CASE ClaimOperation(r)
    <2> USE <1>4 DEF ClaimOperation
    <2>1. CASE Retry(r)
      BY <2>1, RetryGrant
    <2>2. CASE ~ Retry(r)
      BY <1>0, <2>2, AdvanceGrant DEF GrantSeen, InTransaction
    <2> QED BY <2>1, <2>2
  <1>5. CASE BuyOnce(r)
    <2> USE <1>5 DEF BuyOnce, InsertPurchase, LosePurchase, RefusePurchase
    <2>1. CASE Retry(r)
      BY <2>1, RetryGrant
    <2>2. CASE ~ Retry(r)
      BY <1>0, <2>2, RecordGrant DEF RecordSuccess, RecordRejection
    <2> QED BY <2>1, <2>2
  <1>6. CASE CheckQuote(r)
    <2> USE <1>6 DEF CheckQuote
    <2>1. CASE RecordRejection(r, "conversion_quote_unavailable")
      BY <1>0, <2>1, RecordGrant DEF RecordRejection
    <2>2. CASE ~ RecordRejection(r, "conversion_quote_unavailable")
      BY <1>0, <2>2, AdvanceGrant DEF GrantSeen, InTransaction
    <2> QED BY <2>1, <2>2
  <1>7. CASE InsertOffer(r)
    <2>1. pc[r] \in {"claimed", "priced"} /\ KeepDb
      BY <1>7 DEF InsertOffer
    <2>2. CASE Retry(r)
      BY <2>1, <2>2, RetryGrant
    <2>3. CASE Finish(r, Error("failed"))
      BY <2>3, ErrorType, FinishGrant DEF Error
    <2>4. CASE ~ Retry(r) /\ ~ Finish(r, Error("failed"))
      <3>1. pc' = [pc EXCEPT ![r] = "prepared"] /\ UNCHANGED sawGrant
        BY <1>7, <2>4 DEF InsertOffer, RecordSuccess, RecordRejection
      <3> QED BY <1>0, <2>1, <3>1, RecordGrant
    <2> QED BY <2>2, <2>3, <2>4
  <1>8. CASE InsertQuote(r)
    BY <1>0, <1>8, RecordGrant DEF InsertQuote, RecordSuccess, RecordRejection
  <1>9. CASE Commit(r)
    BY <1>0, <1>9 DEF Commit, GrantSeen, InTransaction, TypeOK
  <1>10. CASE Respond(r)
    BY <1>0, <1>10 DEF Respond, GrantSeen, InTransaction, TypeOK
  <1>11. CASE ReplayResource(r)
    <2>1. PICK a \in StoredAnswers(db, r, ResultsOf(db, Scope(r))) : Finish(r, a)
      BY <1>11 DEF ReplayResource
    <2>2. a \in Replies
      BY StoredAnswersType DEF ResultsOf, TypeOK
    <2>3. sawGrant[r]
      BY <1>0, <1>11 DEF GrantSeen, ReplayResource
    <2> QED BY <2>1, <2>2, <2>3, FinishGrant
  <1> QED BY <1>1, <1>2, <1>3, <1>4, <1>5, <1>6, <1>7, <1>8, <1>9, <1>10, <1>11
          DEF Serve

\* A request that stands still keeps what it saw, whatever becomes of its grants.
LEMMA OthersGrant ==
    ASSUME TypeOK, GrantsInvariant, NEW r \in Requests, rbac' = rbac,
           pc'[r] = pc[r], reply'[r] = reply[r], sawGrant'[r] = sawGrant[r]
    PROVE  GrantSeen(r)'
  <1>1. Effective(r.principal, r.body.op)' = Effective(r.principal, r.body.op)
    BY DEF Effective
  <1> QED BY <1>1 DEF GrantsInvariant, GrantSeen, Conclusive

LEMMA NextGrants == TypeOK /\ GrantsInvariant /\ [Next]_vars => GrantsInvariant'
  <1> SUFFICES ASSUME TypeOK, GrantsInvariant, [Next]_vars PROVE GrantsInvariant'
    OBVIOUS
  <1>1. ASSUME NEW r \in Requests,
               Arrive(r) \/ Serve(r) \/ SerializationFailure(r) \/ Interrupt(r)
        PROVE  GrantsInvariant'
    <2>1. GrantSeen(r)'
      <3>1. CASE Arrive(r)
        <4>1. /\ pc'[r] \in {"lookup", "begin"} /\ reply'[r] = reply[r]
              /\ pc[r] = "idle" /\ rbac' = rbac
              /\ sawGrant'[r] = Effective(r.principal, r.body.op)
          BY <3>1 DEF Arrive, TypeOK
        <4>2. Effective(r.principal, r.body.op)' = Effective(r.principal, r.body.op)
          BY <4>1 DEF Effective
        <4> QED BY <4>1, <4>2 DEF GrantSeen, GrantsInvariant, InTransaction
      <3>2. CASE Serve(r)
        BY <3>2, ServeGrant
      <3>3. CASE SerializationFailure(r)
        BY <3>3, RetryGrant DEF SerializationFailure
      <3>4. CASE Interrupt(r)
        BY <3>4, ErrorType, FinishGrant DEF Interrupt, Error
      <3> QED BY <1>1, <3>1, <3>2, <3>3, <3>4
    <2>2. \A x \in Requests \ {r} : GrantSeen(x)'
      BY <1>1, StepOfOne, OthersGrant
    <2> QED BY <2>1, <2>2 DEF GrantsInvariant
  <1>2. ASSUME UNCHANGED <<rbac, pc, reply, sawGrant>>
        PROVE  GrantsInvariant'
    BY <1>2, OthersGrant DEF GrantsInvariant
  <1>3. CASE ChangeAuthorization
    <2>1. ASSUME NEW r \in Requests PROVE GrantSeen(r)'
      <3>1. /\ pc' = pc /\ reply' = reply
            /\ sawGrant[r] => sawGrant'[r]
            /\ pc[r] \notin {"idle", "done"} /\ Effective(r.principal, r.body.op)'
                 => sawGrant'[r]
        BY <1>3 DEF ChangeAuthorization, Effective
      <3>2. GrantSeen(r)
        BY DEF GrantsInvariant
      <3> QED BY <3>1, <3>2 DEF GrantSeen, Conclusive
    <2> QED BY <2>1 DEF GrantsInvariant
  <1> QED BY <1>1, <1>2, <1>3
          DEF Next, ProvisionBond, Expire, vars, txVars

\* G-010: however authorization changes while a request waits, is cancelled
\* and retried, an attempt whose caller was never permitted since the request
\* arrived or its last attempt failed has written and settled nothing.
THEOREM NothingUnauthorized == Spec => []NoEffectWithoutAuthority
  <1>1. Init => GrantsInvariant
    BY DEF Init, GrantsInvariant, GrantSeen, InTransaction
  <1>2. Spec => []GrantsInvariant
    BY <1>1, NextGrants, TypeCorrect, PTL DEF Spec
  <1>3. TypeOK /\ KeysInvariant /\ GrantsInvariant => NoEffectWithoutAuthority
    <2> SUFFICES ASSUME TypeOK, KeysInvariant, GrantsInvariant,
                        NEW r \in Requests, pc[r] # "idle", ~ sawGrant[r]
                 PROVE  w[r] = Nothing /\ reply[r].kind \in {"none", "error"}
      BY DEF NoEffectWithoutAuthority
    <2>1. GrantSeen(r) /\ WriteSetOK(r) /\ pc[r] \in Phases /\ reply[r] \in Replies
      BY DEF KeysInvariant, GrantsInvariant, TypeOK
    <2>2. pc[r] \notin InTransaction \cup {"committed", "replay"}
      BY <2>1 DEF GrantSeen
    <2>3. w[r] = Nothing
      BY <2>1, <2>2 DEF WriteSetOK, Holding, InTransaction
    <2>4. reply[r].kind \in {"none", "error"}
      <3>1. CASE pc[r] = "done"
        BY <2>1, <3>1 DEF GrantSeen, Conclusive, Replies
      <3>2. CASE pc[r] # "done"
        BY <2>1, <2>2, <3>2 DEF GrantSeen, InTransaction, NoReply
      <3> QED BY <3>1, <3>2
    <2> QED BY <2>3, <2>4
  <1> QED BY <1>2, <1>3, TypeCorrect, KeysNeverInDoubt, PTL

-----------------------------------------------------------------------------
(* Conflicts.                                                               *)

ClaimLost(d, r) == ClaimsOf(d, Scope(r)) # {}
FactLost(d, r) ==
    \/ r.body.op = "purchases.buy" /\ PurchasesOf(d, r.body.offer) # {}
    \/ r.body.op = "offers.create" /\ ~ Native(r) /\ OffersFrom(d, r.body.quote) # {}

\* A failed attempt means that a key is lost, and the next one sees that.
ConflictSeen(r) ==
    /\ attempt[r] \in {0, 1, 2}
    /\ attempt[r] = 1 =>
         /\ ClaimLost(db, r) \/ FactLost(db, r)
         /\ pc[r] \in InTransaction => ClaimLost(snap[r], r) \/ FactLost(snap[r], r)
    /\ attempt[r] = 2 =>
         /\ ClaimLost(db, r)
         /\ pc[r] \in InTransaction => ClaimLost(snap[r], r)

ConflictsInvariant == \A r \in Requests : ConflictSeen(r)

LEMMA LostStaysLost ==
    ASSUME NEW d, NEW e, Within(d, e), NEW r
    PROVE  /\ ClaimLost(d, r) => ClaimLost(e, r)
           /\ FactLost(d, r) => FactLost(e, r)
  BY DEF Within, ClaimLost, FactLost, ClaimsOf, PurchasesOf, OffersFrom

\* A step that is no retry reads, if anything, the tables as they are.
LEMMA NoConflict ==
    ASSUME NEW r \in Requests, ConflictSeen(r), attempt'[r] = attempt[r],
           Within(db, db'),
           pc'[r] \in InTransaction =>
             \/ snap'[r] = db
             \/ pc[r] \in InTransaction /\ snap'[r] = snap[r]
    PROVE  ConflictSeen(r)'
  <1>1. ClaimLost(db, r) => ClaimLost(db', r)
    BY LostStaysLost
  <1>2. FactLost(db, r) => FactLost(db', r)
    BY LostStaysLost
  <1> QED BY <1>1, <1>2 DEF ConflictSeen

\* A retry follows a key that was lost after the snapshot was taken.
LEMMA RetryConflict ==
    ASSUME TypeOK, NEW r \in Requests, ConflictSeen(r), Retry(r), KeepDb,
           pc[r] \in InTransaction, Within(snap[r], db),
           \/ ClaimLost(db, r) /\ ~ ClaimLost(snap[r], r)
           \/ FactLost(db, r) /\ ~ FactLost(snap[r], r) /\ ~ ClaimLost(db, r)
    PROVE  ConflictSeen(r)'
  <1>1. CASE Finish(r, Error("failed"))
    <2>1. attempt'[r] = attempt[r] /\ pc'[r] = "done"
      BY <1>1 DEF Finish, TypeOK
    <2> QED BY <2>1, NoConflict, SameTables DEF InTransaction, KeepDb
  <1>2. CASE TryAgain(r, attempt[r] + 1)
    <2>1. attempt'[r] = attempt[r] + 1 /\ pc'[r] = "begin" /\ db' = db
      BY <1>2 DEF TryAgain, TypeOK, KeepDb
    <2>2. ClaimLost(snap[r], r) => ClaimLost(db, r)
      BY LostStaysLost
    <2>3. attempt[r] = 0 \/ (attempt[r] = 1 /\ ClaimLost(db, r))
      BY <2>2 DEF ConflictSeen
    <2> QED BY <2>1, <2>3 DEF ConflictSeen, InTransaction
  <1> QED BY <1>1, <1>2 DEF Retry

LEMMA ServeConflict ==
    ASSUME TypeOK, KeysInvariant, OutcomesInvariant, ConflictsInvariant,
           NEW r \in Requests, Serve(r)
    PROVE  ConflictSeen(r)'
  <1>0. /\ ConflictSeen(r) /\ SnapshotOK(r) /\ TermsOK(r) /\ KeysFree(r)
        /\ Within(snap[r], db) /\ r \in DOMAIN pc
    BY DEF ConflictsInvariant, OutcomesInvariant, RequestOK, KeysInvariant,
           SnapshotOK, TypeOK
  \* Everything but a retry.
  <1>1. ASSUME NEW a, Finish(r, a), KeepDb PROVE ConflictSeen(r)'
    <2>1. attempt'[r] = attempt[r] /\ pc'[r] = "done"
      BY <1>1 DEF Finish, TypeOK
    <2> QED BY <1>0, <1>1, <2>1, NoConflict, SameTables DEF InTransaction, KeepDb
  <1>2. ASSUME KeepDb, UNCHANGED <<attempt, snap>>,
               pc'[r] \in InTransaction => pc[r] \in InTransaction
        PROVE  ConflictSeen(r)'
    BY <1>0, <1>2, NoConflict, SameTables DEF KeepDb
  <1>3. ASSUME KeepDb, pc[r] \in {"claimed", "priced"},
               pc' = [pc EXCEPT ![r] = "prepared"], UNCHANGED <<attempt, snap>>
        PROVE  ConflictSeen(r)'
    BY <1>2, <1>3 DEF InTransaction
  <1>4. ASSUME pc[r] \in {"claimed", "priced"}
        PROVE  ~ ClaimLost(db, r)
    BY <1>0, <1>4 DEF KeysFree, Holding, ClaimLost
  <1>5. CASE ReplayConversionQuote(r)
    BY <1>0, <1>1, <1>2, <1>5 DEF ReplayConversionQuote, InTransaction
  <1>6. CASE LatestRate(r)
    BY <1>0, <1>1, <1>2, <1>6 DEF LatestRate, InTransaction
  <1>7. CASE BeginAuthorizedMutation(r)
    <2>1. CASE Finish(r, Error("permission_denied"))
      BY <1>1, <1>7, <2>1 DEF BeginAuthorizedMutation
    <2>2. CASE ~ Finish(r, Error("permission_denied"))
      <3>1. attempt'[r] = attempt[r] /\ snap'[r] = db /\ db' = db
        BY <1>7, <2>2 DEF BeginAuthorizedMutation, TypeOK, KeepDb
      <3> QED BY <1>0, <3>1, NoConflict, SameTables
    <2> QED BY <2>1, <2>2
  <1>8. CASE ClaimOperation(r)
    <2>0. pc[r] = "authorized" /\ KeepDb
      BY <1>8 DEF ClaimOperation
    <2>1. CASE ClaimsOf(db, Scope(r)) # {} /\ ClaimsOf(snap[r], Scope(r)) = {} /\ Retry(r)
      BY <1>0, <2>0, <2>1, RetryConflict DEF ClaimLost, InTransaction
    <2>2. CASE pc' = [pc EXCEPT ![r] = "claimed"] /\ UNCHANGED <<attempt, snap>>
      BY <1>0, <1>2, <2>0, <2>2 DEF InTransaction
    <2>3. CASE pc' = [pc EXCEPT ![r] = "replay"] /\ UNCHANGED attempt
      <3>1. pc'[r] = "replay" /\ attempt'[r] = attempt[r]
        BY <1>0, <2>3
      <3> QED BY <1>0, <2>0, <3>1, NoConflict, SameTables DEF InTransaction, KeepDb
    <2> QED BY <1>8, <2>1, <2>2, <2>3 DEF ClaimOperation
  <1>9. CASE BuyOnce(r)
    <2>0. pc[r] = "claimed" /\ KeepDb /\ r.body.op = "purchases.buy"
      BY <1>9 DEF BuyOnce
    <2>1. CASE LosePurchase(r)
      <3>1. FactLost(db, r) /\ ~ FactLost(snap[r], r)
        BY <2>0, <2>1 DEF LosePurchase, FactLost
      <3> QED BY <1>0, <1>4, <2>0, <2>1, <3>1, RetryConflict DEF LosePurchase, InTransaction
    <2>2. CASE ~ LosePurchase(r)
      BY <1>3, <1>9, <2>0, <2>2
         DEF BuyOnce, InsertPurchase, RefusePurchase, RecordSuccess, RecordRejection
    <2> QED BY <2>1, <2>2
  <1>10. CASE CheckQuote(r)
    <2>1. CASE RecordRejection(r, "conversion_quote_unavailable")
      BY <1>3, <1>10, <2>1 DEF CheckQuote, RecordRejection
    <2>2. CASE ~ RecordRejection(r, "conversion_quote_unavailable")
      BY <1>2, <1>10, <2>2 DEF CheckQuote, InTransaction
    <2> QED BY <2>1, <2>2
  <1>11. CASE InsertOffer(r)
    <2>0. /\ pc[r] = (IF Native(r) THEN "claimed" ELSE "priced")
          /\ KeepDb /\ r.body.op = "offers.create"
      BY <1>11 DEF InsertOffer, Native
    <2>1. CASE Retry(r) /\ ~ Native(r) /\ OffersFrom(db, r.body.quote) # {}
      <3>1. PICK q \in UnexpiredQuotes(r, snap[r]) : TRUE
        BY <1>0, <2>0, <2>1 DEF TermsOK, AcceptedTerms
      <3>2. OffersFrom(snap[r], r.body.quote) = {}
        BY <3>1 DEF UnexpiredQuotes, CoveringQuotes
      <3>3. FactLost(db, r) /\ ~ FactLost(snap[r], r)
        BY <2>0, <2>1, <3>2 DEF FactLost
      <3> QED BY <1>0, <1>4, <2>0, <2>1, <3>3, RetryConflict DEF InTransaction
    <2>2. CASE Finish(r, Error("failed"))
      BY <1>1, <2>0, <2>2
    <2>3. CASE pc' = [pc EXCEPT ![r] = "prepared"] /\ UNCHANGED <<attempt, snap>>
      BY <1>3, <2>0, <2>3
    <2> QED BY <1>11, <2>1, <2>2, <2>3
            DEF InsertOffer, Native, RecordSuccess, RecordRejection
  <1>12. CASE InsertQuote(r)
    BY <1>3, <1>12 DEF InsertQuote, RecordSuccess, RecordRejection
  <1>13. CASE Commit(r)
    <2>1. attempt'[r] = attempt[r] /\ pc'[r] = "committed" /\ Within(db, db')
      BY <1>13, CommitBasics DEF Commit, TypeOK
    <2> QED BY <1>0, <2>1, NoConflict DEF InTransaction
  <1>14. CASE Respond(r)
    <2>1. attempt'[r] = attempt[r] /\ pc'[r] = "done" /\ db' = db
      BY <1>14 DEF Respond, TypeOK
    <2> QED BY <1>0, <2>1, NoConflict, SameTables DEF InTransaction
  <1>15. CASE ReplayResource(r)
    BY <1>1, <1>15 DEF ReplayResource
  <1> QED BY <1>5, <1>6, <1>7, <1>8, <1>9, <1>10, <1>11, <1>12, <1>13, <1>14, <1>15
          DEF Serve

LEMMA NextConflicts ==
    ASSUME ~ SpuriousAborts, TypeOK, KeysInvariant, OutcomesInvariant,
           ConflictsInvariant, [Next]_vars
    PROVE  ConflictsInvariant'
  <1>1. ASSUME NEW r \in Requests,
               Arrive(r) \/ Serve(r) \/ SerializationFailure(r) \/ Interrupt(r)
        PROVE  ConflictsInvariant'
    <2>1. Within(db, db')
      <3>1. ASSUME ~ Commit(r) PROVE db' = db
        BY <1>1, <3>1
           DEF Arrive, Serve, SerializationFailure, Interrupt, ReplayConversionQuote,
               LatestRate, BeginAuthorizedMutation, ClaimOperation, BuyOnce, CheckQuote,
               InsertOffer, InsertQuote, Respond, ReplayResource, KeepDb
      <3> QED BY <3>1, SameTables, CommitBasics
    <2>2. ConflictSeen(r)'
      <3>1. CASE Arrive(r)
        <4>1. attempt'[r] = attempt[r] /\ pc'[r] \in {"lookup", "begin"}
          BY <3>1 DEF Arrive, TypeOK
        <4> QED BY <2>1, <4>1, NoConflict DEF ConflictsInvariant, InTransaction
      <3>2. CASE Serve(r)
        BY <3>2, ServeConflict
      <3>3. CASE SerializationFailure(r)
        BY <3>3 DEF SerializationFailure
      <3>4. CASE Interrupt(r)
        <4>1. attempt'[r] = attempt[r] /\ pc'[r] = "done"
          BY <3>4 DEF Interrupt, Finish, TypeOK
        <4> QED BY <2>1, <4>1, NoConflict DEF ConflictsInvariant, InTransaction
      <3> QED BY <1>1, <3>1, <3>2, <3>3, <3>4
    <2>3. ASSUME NEW x \in Requests \ {r} PROVE ConflictSeen(x)'
      <3>1. attempt'[x] = attempt[x] /\ pc'[x] = pc[x] /\ snap'[x] = snap[x]
        BY <1>1, StepOfOne
      <3> QED BY <2>1, <3>1, NoConflict DEF ConflictsInvariant
    <2> QED BY <2>2, <2>3 DEF ConflictsInvariant
  <1>2. ASSUME UNCHANGED <<attempt, pc, snap>>, Within(db, db')
        PROVE  ConflictsInvariant'
    BY <1>2, NoConflict DEF ConflictsInvariant
  <1>3. ASSUME NEW b \in Bonds, ProvisionBond(b) PROVE ConflictsInvariant'
    BY <1>2, <1>3 DEF ProvisionBond, txVars, TypeOK, Databases, Within
  <1>4. ASSUME NEW q \in Quotes, Expire(q) PROVE ConflictsInvariant'
    BY <1>2, <1>4 DEF Expire, txVars, TypeOK, Databases, Within
  <1>5. CASE ChangeAuthorization
    BY <1>2, <1>5, SameTables DEF ChangeAuthorization
  <1>6. CASE UNCHANGED vars
    BY <1>2, <1>6, SameTables DEF vars, txVars
  <1> QED BY <1>1, <1>3, <1>4, <1>5, <1>6 DEF Next

\* While PostgreSQL cancels nothing beyond the conflicts on unique keys, no
\* request needs more than three of the eight attempts of retryTransaction,
\* however many servers race.
THEOREM ConflictsSettle ==
    ASSUME ~ SpuriousAborts
    PROVE  Spec => []ConflictsSettleInThreeAttempts
  <1>1. Init => ConflictsInvariant
    BY DEF Init, ConflictsInvariant, ConflictSeen
  <1>2. TypeOK /\ KeysInvariant /\ OutcomesInvariant /\ ConflictsInvariant /\ [Next]_vars
          => ConflictsInvariant'
    BY NextConflicts
  <1>3. ConflictsInvariant => ConflictsSettleInThreeAttempts
    BY DEF ConflictsInvariant, ConflictSeen, ConflictsSettleInThreeAttempts
  <1> QED BY <1>1, <1>2, <1>3, TypeCorrect, KeysNeverInDoubt, OutcomesAgree, PTL DEF Spec

-----------------------------------------------------------------------------
(* Refinement.  Marketplace has its own copies of the operators of          *)
(* MarketFacts; they are the same functions.                                *)

LEMMA SameOperators ==
    /\ Abstract!Nothing = Nothing /\ Abstract!NoReply = NoReply
    /\ \A d, x : Abstract!Merge(d, x) = Merge(d, x)
    /\ \A r : Abstract!Scope(r) = Scope(r)
    /\ \A d, s : Abstract!ClaimsOf(d, s) = ClaimsOf(d, s)
    /\ \A d, s : Abstract!ResultsOf(d, s) = ResultsOf(d, s)
    /\ \A c : Abstract!Error(c) = Error(c)
    /\ \A p, q : Abstract!Effective(p, q) <=> Effective(p, q)
  BY DEF Abstract!Nothing, Nothing, Abstract!NoReply, NoReply, Abstract!Merge, Merge,
         Abstract!Scope, Scope, Abstract!ClaimsOf, ClaimsOf, Abstract!ResultsOf, ResultsOf,
         Abstract!Error, Error, Abstract!Effective, Effective,
         Abstract!EffectiveIn, EffectiveIn, Abstract!Suspended, Suspended

LEMMA SameAnswers ==
    ASSUME NEW d, NEW r, NEW rows
    PROVE  Abstract!StoredAnswers(d, r, rows) = StoredAnswers(d, r, rows)
  BY DEF Abstract!StoredAnswers, StoredAnswers, Abstract!StoredAnswer, StoredAnswer,
         Abstract!ContentsIn, ContentsIn, Abstract!CanonicalOffers, CanonicalOffers,
         Abstract!PurchasesOf, PurchasesOf, Abstract!ClaimsOf, ClaimsOf,
         Abstract!Scope, Scope, Abstract!Error, Error, Abstract!Rejected, Rejected,
         Abstract!Succeeded, Succeeded

\* The abstract phase and answer of every request.
PhaseBar == [r \in Requests |-> PhaseOf(pc[r])]
AnswerBar == [r \in Requests |-> IF pc[r] = "done" THEN reply[r] ELSE NoReply]

\* A step of r changes its own abstract phase and answer and nobody else's.
LEMMA BarStep ==
    ASSUME TypeOK, TypeOK', NEW r \in Requests,
           \A x \in Requests \ {r} : pc'[x] = pc[x] /\ reply'[x] = reply[x]
    PROVE  /\ PhaseBar[r] = PhaseOf(pc[r])
           /\ PhaseBar' = [PhaseBar EXCEPT ![r] = PhaseOf(pc'[r])]
           /\ AnswerBar' = [AnswerBar EXCEPT ![r] =
                              IF pc'[r] = "done" THEN reply'[r] ELSE NoReply]
  <1>1. PhaseBar' = [PhaseBar EXCEPT ![r] = PhaseOf(pc'[r])]
    BY DEF PhaseBar
  <1>2. AnswerBar' = [AnswerBar EXCEPT ![r] =
                              IF pc'[r] = "done" THEN reply'[r] ELSE NoReply]
    BY DEF AnswerBar
  <1> QED BY <1>1, <1>2 DEF PhaseBar

LEMMA PhaseValues ==
    /\ PhaseOf("idle") = "idle" /\ PhaseOf("done") = "done"
    /\ \A p \in InTransaction : PhaseOf(p) = "looked"
    /\ PhaseOf("committed") = "applied"
    /\ \A p \in {"lookup", "rating", "begin", "replay"} : PhaseOf(p) = "waiting"
  BY DEF PhaseOf, InTransaction

\* A request between two statements of its server leaves the abstract state alone.
LEMMA BarStutter ==
    ASSUME TypeOK, TypeOK', NEW r \in Requests,
           \A x \in Requests \ {r} : pc'[x] = pc[x] /\ reply'[x] = reply[x],
           PhaseOf(pc'[r]) = PhaseOf(pc[r]), pc[r] # "done", pc'[r] # "done",
           KeepDb, snap' = snap
    PROVE  UNCHANGED Abstract!marketVars
  <1>1. PhaseBar' = PhaseBar
    BY DEF PhaseBar
  <1>2. AnswerBar' = AnswerBar
    BY DEF AnswerBar
  <1> QED BY <1>1, <1>2 DEF Abstract!marketVars, PhaseBar, AnswerBar, KeepDb

\* What a server may answer, by what is stored and where the request stands.
MayAnswer(r, a) ==
    \/ a \in StoredAnswers(db, r, ResultsOf(db, Scope(r)))
    \/ a = Error("failed")
    \/ /\ PhaseOf(pc[r]) = "waiting"
       /\ ~ Effective(r.principal, r.body.op)
       /\ a = Error("permission_denied")
    \/ /\ PhaseOf(pc[r]) = "waiting"
       /\ r.body.op = "offers.quote"
       /\ a = Error("exchange_rate_unavailable")

LEMMA BarAnswer ==
    ASSUME TypeOK, TypeOK', NEW r \in Requests, NEW a,
           \A x \in Requests \ {r} : pc'[x] = pc[x] /\ reply'[x] = reply[x],
           pc[r] \notin {"idle", "done"}, pc'[r] = "done", reply'[r] = a,
           snap' = [snap EXCEPT ![r] = Nothing], KeepDb, MayAnswer(r, a)
    PROVE  Abstract!Answer(r)
  <1>1. PhaseBar[r] \in {"waiting", "looked", "applied"} /\ PhaseBar[r] = PhaseOf(pc[r])
    BY BarStep DEF TypeOK, Phases, PhaseOf, InTransaction
  <1>2. /\ PhaseBar' = [PhaseBar EXCEPT ![r] = "done"]
        /\ AnswerBar' = [AnswerBar EXCEPT ![r] = a]
    BY BarStep, PhaseValues
  <1> QED BY <1>1, <1>2, SameOperators, SameAnswers
          DEF Abstract!Answer, MayAnswer, PhaseBar, AnswerBar, KeepDb

LEMMA FinishAnswers ==
    ASSUME TypeOK, TypeOK', NEW r \in Requests, NEW a,
           pc[r] \notin {"idle", "done"}, Finish(r, a), KeepDb, MayAnswer(r, a)
    PROVE  Abstract!Answer(r)
  <1>1. /\ \A x \in Requests \ {r} : pc'[x] = pc[x] /\ reply'[x] = reply[x]
        /\ pc'[r] = "done" /\ reply'[r] = a /\ snap' = [snap EXCEPT ![r] = Nothing]
    BY DEF Finish, TypeOK
  <1> QED BY <1>1, BarAnswer

LEMMA BarLookAway ==
    ASSUME TypeOK, TypeOK', NEW r \in Requests,
           \A x \in Requests \ {r} : pc'[x] = pc[x] /\ reply'[x] = reply[x],
           pc[r] \in InTransaction, pc'[r] \in {"begin", "replay"},
           snap' = [snap EXCEPT ![r] = Nothing], KeepDb
    PROVE  Abstract!LookAway(r)
  <1>1. PhaseBar[r] = "looked" /\ PhaseBar' = [PhaseBar EXCEPT ![r] = "waiting"]
    BY BarStep, PhaseValues
  <1>2. AnswerBar' = AnswerBar
    BY DEF AnswerBar, InTransaction
  <1> QED BY <1>1, <1>2, SameOperators DEF Abstract!LookAway, PhaseBar, AnswerBar, KeepDb

LEMMA RetryLooksAway ==
    ASSUME TypeOK, TypeOK', NEW r \in Requests,
           pc[r] \in InTransaction, Retry(r), KeepDb
    PROVE  Abstract!LookAway(r) \/ Abstract!Answer(r)
  <1>1. ASSUME NEW n, TryAgain(r, n) PROVE Abstract!LookAway(r)
    <2>1. /\ \A x \in Requests \ {r} : pc'[x] = pc[x] /\ reply'[x] = reply[x]
          /\ pc'[r] = "begin" /\ snap' = [snap EXCEPT ![r] = Nothing]
      BY <1>1 DEF TryAgain, TypeOK
    <2> QED BY <2>1, BarLookAway
  <1>2. ASSUME Finish(r, Error("failed")) PROVE Abstract!Answer(r)
    BY <1>2, FinishAnswers DEF InTransaction, MayAnswer
  <1> QED BY <1>1, <1>2 DEF Retry
\* The outcomes Marketplace allows for r, in the terms of this module.
LEMMA SameRows ==
    /\ \A r, i, x : Abstract!SuccessRows(r, i, x) = SuccessRows(r, i, x)
    /\ \A r, c : Abstract!RejectionRows(r, c) = RejectionRows(r, c)
    /\ \A r : Abstract!PurchaseRow(r) = PurchaseRow(r)
    /\ \A r, i, t : Abstract!OfferRow(r, i, t) = OfferRow(r, i, t)
    /\ \A r, i, t : Abstract!QuoteRow(r, i, t) = QuoteRow(r, i, t)
    /\ \A r : Abstract!NativeTerms(r) = NativeTerms(r)
  <1>1. \A r, i, x : Abstract!SuccessRows(r, i, x) = SuccessRows(r, i, x)
    BY DEF Abstract!SuccessRows, SuccessRows, Abstract!ClaimRows, ClaimRows,
           Abstract!Scope, Scope
  <1>2. \A r, c : Abstract!RejectionRows(r, c) = RejectionRows(r, c)
    BY DEF Abstract!RejectionRows, RejectionRows, Abstract!ClaimRows, ClaimRows,
           Abstract!Scope, Scope, Abstract!Nothing, Nothing
  <1> QED BY <1>1, <1>2
      DEF Abstract!PurchaseRow, PurchaseRow, Abstract!OfferRow, OfferRow,
          Abstract!QuoteRow, QuoteRow, Abstract!NativeTerms, NativeTerms

LEMMA SameQueries ==
    /\ \A d, r : Abstract!Buyable(d, r) = Buyable(d, r)
    /\ \A d, i : Abstract!PurchasesOf(d, i) = PurchasesOf(d, i)
    /\ \A d, r : Abstract!BuyRejection(d, r) = BuyRejection(d, r)
    /\ \A d, q : Abstract!OffersFrom(d, q) = OffersFrom(d, q)
    /\ \A d, r : Abstract!CoveringQuotes(d, r) = CoveringQuotes(d, r)
  BY DEF Abstract!Buyable, Buyable, Abstract!CanonicalOffers, CanonicalOffers,
         Abstract!PurchasesOf, PurchasesOf, Abstract!BuyRejection, BuyRejection,
         Abstract!OffersFrom, OffersFrom, Abstract!CoveringQuotes, CoveringQuotes

\* What a prepared transaction commits is an outcome Marketplace allows now.
LEMMA PreparedIsAllowed ==
    ASSUME TypeOK, KeysInvariant, OutcomesInvariant, NEW r \in Requests, pc[r] = "prepared"
    PROVE  w[r] \in Abstract!OutcomesOf(r)
  <1>1. /\ PreparedOK(r) /\ IdsFree(r) /\ KeysFree(r)
        /\ r.body.op \in Operations
    BY RequestType DEF OutcomesInvariant, RequestOK, KeysInvariant, Operations
  <1>2. CASE RejectionPrepared(r)
    <2>1. PICK c \in Refusals(r, snap[r], db.expired) : w[r] = RejectionRows(r, c)
      BY <1>2 DEF RejectionPrepared
    <2>2. CASE r.body.op = "purchases.buy"
      BY <2>1, <2>2, SameRows, SameQueries
         DEF Refusals, Abstract!OutcomesOf, Abstract!BuyOutcomes
    <2>3. CASE r.body.op = "offers.create"
      BY <2>1, <2>3, SameRows, SameQueries
         DEF Refusals, Abstract!OutcomesOf, Abstract!CreateOutcomes, Native, UnexpiredQuotes
    <2>4. CASE r.body.op = "offers.quote"
      BY <2>1, <2>4, SameRows
         DEF Refusals, Abstract!OutcomesOf, Abstract!QuoteOutcomes
    <2> QED BY <1>1, <2>2, <2>3, <2>4 DEF Operations
  <1>3. CASE PurchasePrepared(r)
    <2>1. PICK o \in Buyable(snap[r], r) : TRUE
      BY <1>3 DEF PurchasePrepared
    <2>2. o.id = r.body.offer
      BY <2>1 DEF Buyable, CanonicalOffers
    <2>3. PurchasesOf(db, o.id) = {}
      <3>1. PurchaseRow(r) \in w[r].purchases
        BY <1>3, PurchaseFields DEF PurchasePrepared
      <3> QED BY <1>1, <2>2, <3>1 DEF KeysFree, PurchaseRow
    <2>4. w[r] = Abstract!SuccessRows(r, o.id,
                     [Abstract!Nothing EXCEPT !.purchases = {Abstract!PurchaseRow(r)}])
      BY <1>3, <2>2, SameRows, SameOperators DEF PurchasePrepared, PurchaseRows
    <2>5. w[r] \in Abstract!BuyOutcomes(r)
      BY <2>1, <2>3, <2>4, SameQueries DEF Abstract!BuyOutcomes
    <2> QED BY <1>3, <2>5 DEF Abstract!OutcomesOf, PurchasePrepared
  <1>4. CASE OfferPrepared(r)
    <2>1. PICK i \in Offers, t \in AcceptedTerms(r, snap[r]) : w[r] = OfferRows(r, i, t)
      BY <1>4 DEF OfferPrepared
    <2>2. OfferRow(r, i, t) \in w[r].offers
      BY <1>4, <2>1, OfferFields DEF OfferPrepared
    <2>3. \A o \in db.offers : o.id # i
      BY <1>1, <2>2 DEF IdsFree, OfferRow
    <2>4. ~ Native(r) => OffersFrom(db, r.body.quote) = {}
      BY <1>1, <2>2 DEF KeysFree, OfferRow, Native
    <2>5. w[r] = Abstract!SuccessRows(r, i,
                     [Abstract!Nothing EXCEPT !.offers = {Abstract!OfferRow(r, i, t)}])
      BY <2>1, SameRows, SameOperators DEF OfferRows
    <2>6. t \in IF r.body.quote = NoQuote THEN {Abstract!NativeTerms(r)}
                ELSE {q.terms : q \in {x \in {y \in Abstract!CoveringQuotes(snap[r], r) :
                                                y.id \notin snap[r].expired} :
                                         Abstract!OffersFrom(db, x.id) = {}}}
      <3>1. \A q \in CoveringQuotes(snap[r], r) : q.id = r.body.quote
        BY DEF CoveringQuotes
      <3> QED BY <2>1, <2>4, <3>1, SameRows, SameQueries
              DEF AcceptedTerms, UnexpiredQuotes, Native
    <2>7. w[r] \in Abstract!CreateOutcomes(r)
      <3> DEFINE unused == {x \in Offers : \A o \in db.offers : o.id # x}
                 known == {x \in unused : r.body.bond \in snap[r].bonds}
                 accepted ==
                   IF r.body.quote = NoQuote THEN {Abstract!NativeTerms(r)}
                   ELSE {q.terms : q \in {x \in {y \in Abstract!CoveringQuotes(snap[r], r) :
                                                   y.id \notin snap[r].expired} :
                                            Abstract!OffersFrom(db, x.id) = {}}}
                 Rows(x, u) ==
                   Abstract!SuccessRows(r, x,
                     [Abstract!Nothing EXCEPT !.offers = {Abstract!OfferRow(r, x, u)}])
      <3>1. i \in known /\ t \in accepted
        BY <1>4, <2>1, <2>3, <2>6 DEF OfferPrepared
      <3>2. w[r] = Rows(i, t)
        BY <2>5
      <3> HIDE DEF Rows, known, accepted
      <3>3. w[r] \in {Rows(x, u) : x \in known, u \in accepted}
        BY <3>1, <3>2
      <3> QED BY <3>3 DEF Abstract!CreateOutcomes, Rows, known, accepted
    <2> QED BY <1>4, <2>7 DEF Abstract!OutcomesOf, OfferPrepared
  <1>5. CASE QuotePrepared(r)
    <2>1. PICK i \in Quotes, t \in QuotedTerms(r) : w[r] = QuoteRows(r, i, t)
      BY <1>5 DEF QuotePrepared
    <2>2. PICK v \in Revisions : t = [price |-> r.body.price, revision |-> v]
      BY <2>1 DEF QuotedTerms
    <2>3. QuoteRow(r, i, t) \in w[r].quotes
      BY <1>5, <2>1, QuoteFields DEF QuotePrepared
    <2>4. \A q \in db.quotes : q.id # i
      BY <1>1, <2>3 DEF IdsFree, QuoteRow
    <2>5. w[r] = Abstract!SuccessRows(r, i,
                     [Abstract!Nothing EXCEPT !.quotes = {Abstract!QuoteRow(r, i, t)}])
      BY <2>1, SameRows, SameOperators DEF QuoteRows
    <2>6. w[r] \in Abstract!QuoteOutcomes(r)
      <3> DEFINE unused == {x \in Quotes : \A q \in db.quotes : q.id # x}
                 known == {x \in unused : r.body.bond \in snap[r].bonds}
                 Rows(x, v2) ==
                   Abstract!SuccessRows(r, x, [Abstract!Nothing EXCEPT !.quotes =
                     {Abstract!QuoteRow(r, x, [price |-> r.body.price, revision |-> v2])}])
      <3>1. i \in known
        BY <1>5, <2>1, <2>4 DEF QuotePrepared
      <3>2. w[r] = Rows(i, v)
        BY <2>2, <2>5
      <3> HIDE DEF Rows, known
      <3>3. Abstract!QuoteOutcomes(r) =
              {Rows(x, v2) : x \in known, v2 \in Revisions}
              \cup {Abstract!RejectionRows(r, code) :
                      code \in {c \in {"bond_not_found"} : r.body.bond \notin snap[r].bonds}}
        BY DEF Abstract!QuoteOutcomes, Rows, known
      <3> QED BY <2>2, <3>1, <3>2, <3>3
    <2> QED BY <1>5, <2>6 DEF Abstract!OutcomesOf, QuotePrepared
  <1> QED BY <1>1, <1>2, <1>3, <1>4, <1>5 DEF PreparedOK

\* A commit is the one abstract effect of its nonce.
LEMMA CommitApplies ==
    ASSUME TypeOK, TypeOK', KeysInvariant, OutcomesInvariant, NEW r \in Requests, Commit(r)
    PROVE  Abstract!Apply(r)
  <1>1. /\ pc[r] = "prepared" /\ pc'[r] = "committed" /\ rbac' = rbac
        /\ snap' = [snap EXCEPT ![r] = Nothing] /\ db' = Merge(db, w[r])
        /\ \A x \in Requests \ {r} : pc'[x] = pc[x] /\ reply'[x] = reply[x]
    BY DEF Commit, TypeOK
  <1>2. PhaseBar[r] = "looked" /\ PhaseBar' = [PhaseBar EXCEPT ![r] = "applied"]
    BY <1>1, BarStep, PhaseValues DEF InTransaction
  <1>3. AnswerBar' = AnswerBar
    BY <1>1 DEF AnswerBar
  <1>4. ClaimsOf(db, Scope(r)) = {}
    BY <1>1 DEF KeysInvariant, KeysFree, Holding
  <1>5. w[r] \in Abstract!OutcomesOf(r)
    BY <1>1, PreparedIsAllowed
  <1>6. db' = Abstract!Merge(db, w[r]) /\ Abstract!ClaimsOf(db, Abstract!Scope(r)) = {}
    BY <1>1, <1>4, SameOperators
  <1> QED BY <1>1, <1>2, <1>3, <1>5, <1>6, SameOperators
          DEF Abstract!Apply, PhaseBar, AnswerBar

\* Inside a transaction only its end is visible.
LEMMA OpenStutters ==
    ASSUME TypeOK, TypeOK', NEW r \in Requests,
           \A x \in Requests \ {r} : pc'[x] = pc[x] /\ reply'[x] = reply[x],
           pc[r] \in InTransaction, pc'[r] \in InTransaction, KeepDb, snap' = snap
    PROVE  UNCHANGED Abstract!marketVars
  BY PhaseValues, BarStutter DEF InTransaction

LEMMA RecordStutters ==
    ASSUME TypeOK, TypeOK', NEW r \in Requests, pc[r] \in InTransaction, KeepDb,
           \/ \E c : RecordRejection(r, c)
           \/ \E i, rows, k : RecordSuccess(r, i, rows, k)
    PROVE  UNCHANGED Abstract!marketVars
  <1>1. /\ \A x \in Requests \ {r} : pc'[x] = pc[x] /\ reply'[x] = reply[x]
        /\ pc'[r] = "prepared" /\ snap' = snap
    BY DEF RecordRejection, RecordSuccess, TypeOK
  <1> QED BY <1>1, OpenStutters DEF InTransaction

\* A succeeded result is one of the results of its nonce.
LEMMA SomeStoredAnswers ==
    ASSUME NEW r, NEW rows \in SUBSET ResultsOf(db, Scope(r)),
           NEW a \in StoredAnswers(db, r, rows)
    PROVE  a = Error("failed") \/ a \in StoredAnswers(db, r, ResultsOf(db, Scope(r)))
  <1> DEFINE all == ResultsOf(db, Scope(r))
             found(s) == {StoredAnswer(db, r, c, x) : c \in ClaimsOf(db, Scope(r)), x \in s}
  <1>1. \A s : StoredAnswers(db, r, s) = IF found(s) = {} THEN {Error("failed")} ELSE found(s)
    BY DEF StoredAnswers
  <1>2. found(rows) \subseteq found(all)
    OBVIOUS
  <1> HIDE DEF found
  <1> QED BY <1>1, <1>2

\* Every step of a server is a step of Marketplace or leaves no trace in it.
LEMMA ServeImplements ==
    ASSUME TypeOK, TypeOK', KeysInvariant, OutcomesInvariant, NEW r \in Requests, Serve(r)
    PROVE  \/ UNCHANGED Abstract!marketVars
           \/ Abstract!Look(r) \/ Abstract!LookAway(r)
           \/ Abstract!Apply(r) \/ Abstract!Answer(r)
  <1>1. \A x \in Requests \ {r} : pc'[x] = pc[x] /\ reply'[x] = reply[x]
    BY StepOfOne
  <1>2. /\ pc \in [Requests -> Phases] /\ pc' \in [Requests -> Phases]
        /\ snap \in [Requests -> Databases] /\ SnapshotOK(r)
    BY DEF TypeOK, OutcomesInvariant, RequestOK
  <1>3. CASE ReplayConversionQuote(r)
    <2> DEFINE succeeded == {x \in ResultsOf(db, Scope(r)) : x.result.outcome = "succeeded"}
    <2>1. pc[r] = "lookup" /\ KeepDb
      BY <1>3 DEF ReplayConversionQuote
    <2>2. CASE ~ Authorize(r) /\ Finish(r, Error("permission_denied"))
      BY <2>1, <2>2, FinishAnswers, PhaseValues DEF MayAnswer, Authorize
    <2>3. CASE pc' = [pc EXCEPT ![r] = "rating"] /\ snap' = snap
      <3>1. pc'[r] = "rating"
        BY <1>2, <2>3
      <3> QED BY <1>1, <2>1, <2>3, <3>1, BarStutter, PhaseValues
    <2>4. CASE \E a \in StoredAnswers(db, r, succeeded) : Finish(r, a)
      <3>1. PICK a \in StoredAnswers(db, r, succeeded) : Finish(r, a)
        BY <2>4
      <3>2. MayAnswer(r, a)
        BY <3>1, SomeStoredAnswers DEF MayAnswer
      <3> QED BY <2>1, <3>1, <3>2, FinishAnswers
    <2> QED BY <1>3, <2>2, <2>3, <2>4 DEF ReplayConversionQuote
  <1>4. CASE LatestRate(r)
    <2>1. pc[r] = "rating" /\ KeepDb /\ r.body.op = "offers.quote"
      BY <1>4 DEF LatestRate
    <2>2. CASE Finish(r, Error("exchange_rate_unavailable"))
      BY <2>1, <2>2, FinishAnswers, PhaseValues DEF MayAnswer
    <2>3. CASE pc' = [pc EXCEPT ![r] = "begin"] /\ snap' = snap
      <3>1. pc'[r] = "begin"
        BY <1>2, <2>3
      <3> QED BY <1>1, <2>1, <2>3, <3>1, BarStutter, PhaseValues
    <2> QED BY <1>4, <2>2, <2>3 DEF LatestRate
  <1>5. CASE BeginAuthorizedMutation(r)
    <2>1. pc[r] = "begin" /\ KeepDb
      BY <1>5 DEF BeginAuthorizedMutation
    <2>2. CASE ~ Authorize(r) /\ Finish(r, Error("permission_denied"))
      BY <2>1, <2>2, FinishAnswers, PhaseValues DEF MayAnswer, Authorize
    <2>3. CASE /\ Authorize(r) /\ pc' = [pc EXCEPT ![r] = "authorized"]
               /\ snap' = [snap EXCEPT ![r] = db]
      <3>1. pc'[r] = "authorized"
        BY <1>2, <2>3
      <3>2. PhaseBar[r] = "waiting" /\ PhaseBar' = [PhaseBar EXCEPT ![r] = "looked"]
        BY <1>1, <2>1, <3>1, BarStep, PhaseValues DEF InTransaction
      <3>3. AnswerBar' = AnswerBar
        BY <1>1, <2>1, <3>1 DEF AnswerBar
      <3> QED BY <2>1, <2>3, <3>2, <3>3, SameOperators
              DEF Abstract!Look, PhaseBar, AnswerBar, KeepDb, Authorize
    <2> QED BY <1>5, <2>2, <2>3 DEF BeginAuthorizedMutation
  <1>6. CASE ClaimOperation(r)
    <2>1. pc[r] \in InTransaction /\ KeepDb
      BY <1>6 DEF ClaimOperation, InTransaction
    <2>2. CASE pc' = [pc EXCEPT ![r] = "claimed"] /\ snap' = snap
      <3>1. pc'[r] \in InTransaction
        BY <1>2, <2>2 DEF InTransaction
      <3> QED BY <1>1, <2>1, <2>2, <3>1, OpenStutters
    <2>3. CASE pc' = [pc EXCEPT ![r] = "replay"] /\ snap' = [snap EXCEPT ![r] = Nothing]
      <3>1. pc'[r] = "replay"
        BY <1>2, <2>3
      <3> QED BY <1>1, <2>1, <2>3, <3>1, BarLookAway
    <2>4. CASE Retry(r)
      BY <2>1, <2>4, RetryLooksAway
    <2> QED BY <1>6, <2>2, <2>3, <2>4 DEF ClaimOperation
  <1>7. CASE BuyOnce(r)
    <2>1. pc[r] \in InTransaction /\ KeepDb
      BY <1>7 DEF BuyOnce, InTransaction
    <2> QED BY <1>7, <2>1, RecordStutters, RetryLooksAway
            DEF BuyOnce, InsertPurchase, LosePurchase, RefusePurchase
  <1>8. CASE CheckQuote(r)
    <2>1. pc[r] \in InTransaction /\ KeepDb
      BY <1>8 DEF CheckQuote, InTransaction
    <2>2. CASE pc' = [pc EXCEPT ![r] = "priced"] /\ snap' = snap
      <3>1. pc'[r] \in InTransaction
        BY <1>2, <2>2 DEF InTransaction
      <3> QED BY <1>1, <2>1, <2>2, <3>1, OpenStutters
    <2> QED BY <1>8, <2>1, <2>2, RecordStutters DEF CheckQuote
  <1>9. CASE InsertOffer(r)
    <2>1. pc[r] \in InTransaction /\ pc[r] \notin {"idle", "done"} /\ KeepDb
      BY <1>9 DEF InsertOffer, InTransaction
    <2>2. CASE Finish(r, Error("failed"))
      BY <2>1, <2>2, FinishAnswers DEF MayAnswer
    <2> QED BY <1>9, <2>1, <2>2, RecordStutters, RetryLooksAway DEF InsertOffer
  <1>10. CASE InsertQuote(r)
    <2>1. pc[r] \in InTransaction /\ KeepDb
      BY <1>10 DEF InsertQuote, InTransaction
    <2> QED BY <1>10, <2>1, RecordStutters DEF InsertQuote
  <1>11. CASE Commit(r)
    BY <1>11, CommitApplies
  <1>12. CASE Respond(r)
    <2>1. /\ pc[r] = "committed" /\ pc'[r] = "done" /\ KeepDb
          /\ reply' = reply /\ snap' = snap
      BY <1>2, <1>12 DEF Respond, KeepDb
    <2>2. snap' = [snap EXCEPT ![r] = Nothing]
      BY <1>2, <2>1 DEF SnapshotOK, InTransaction
    <2>3. Durable(r)
      BY <2>1 DEF OutcomesInvariant, RequestOK, AnswerOK
    <2>4. reply[r] \in StoredAnswers(db, r, ResultsOf(db, Scope(r)))
      BY <2>3 DEF Durable, StoredAnswers
    <2>5. MayAnswer(r, reply[r])
      BY <2>4 DEF MayAnswer
    <2> QED BY <1>1, <2>1, <2>2, <2>5, BarAnswer
  <1>13. CASE ReplayResource(r)
    <2>1. pc[r] \notin {"idle", "done"} /\ KeepDb
      BY <1>13 DEF ReplayResource
    <2>2. PICK a \in StoredAnswers(db, r, ResultsOf(db, Scope(r))) : Finish(r, a)
      BY <1>13 DEF ReplayResource
    <2> QED BY <2>1, <2>2, FinishAnswers DEF MayAnswer
  <1> QED BY <1>3, <1>4, <1>5, <1>6, <1>7, <1>8, <1>9, <1>10, <1>11, <1>12, <1>13 DEF Serve

LEMMA ArriveImplements ==
    ASSUME TypeOK, TypeOK', NEW r \in Requests, Arrive(r)
    PROVE  Abstract!Receive(r)
  <1>1. /\ pc[r] = "idle" /\ pc'[r] \in {"lookup", "begin"}
        /\ UNCHANGED <<db, rbac, snap>>
        /\ \A x \in Requests \ {r} : pc'[x] = pc[x] /\ reply'[x] = reply[x]
    BY DEF Arrive, TypeOK
  <1>2. PhaseBar[r] = "idle" /\ PhaseBar' = [PhaseBar EXCEPT ![r] = "waiting"]
    BY <1>1, BarStep, PhaseValues
  <1>3. AnswerBar' = AnswerBar
    BY <1>1 DEF AnswerBar
  <1> QED BY <1>1, <1>2, <1>3 DEF Abstract!Receive, PhaseBar, AnswerBar

LEMMA EnvironmentImplements ==
    ASSUME TypeOK,
           \/ \E b \in Bonds : ProvisionBond(b)
           \/ \E q \in Quotes : Expire(q)
           \/ ChangeAuthorization
    PROVE  Abstract!Environment
  <1>1. ASSUME UNCHANGED <<pc, reply>> PROVE PhaseBar' = PhaseBar /\ AnswerBar' = AnswerBar
    BY <1>1 DEF PhaseBar, AnswerBar
  <1>2. ASSUME NEW b \in Bonds, ProvisionBond(b) PROVE Abstract!Environment
    BY <1>1, <1>2 DEF ProvisionBond, txVars, Abstract!Environment, PhaseBar, AnswerBar
  <1>3. ASSUME NEW q \in Quotes, Expire(q) PROVE Abstract!Environment
    BY <1>1, <1>3 DEF Expire, txVars, Abstract!Environment, PhaseBar, AnswerBar
  <1>4. CASE ChangeAuthorization
    <2>1. Abstract!Administer
      BY <1>4 DEF ChangeAuthorization, Administer, Abstract!Administer,
           GrantRole, RevokeRole, GrantPermission, RevokePermission, Suspend, Reinstate,
           Abstract!GrantRole, Abstract!RevokeRole, Abstract!GrantPermission,
           Abstract!RevokePermission, Abstract!Suspend, Abstract!Reinstate
    <2> QED BY <1>1, <1>4, <2>1
            DEF ChangeAuthorization, Abstract!Environment, PhaseBar, AnswerBar
  <1> QED BY <1>2, <1>3, <1>4

LEMMA InitImplements == Init => Abstract!MarketInit
  <1> SUFFICES ASSUME Init PROVE Abstract!MarketInit
    OBVIOUS
  <1>1. PhaseBar = [r \in Requests |-> "idle"]
    BY PhaseValues DEF Init, PhaseBar
  <1>2. AnswerBar = [r \in Requests |-> NoReply]
    BY DEF Init, AnswerBar
  <1> QED BY <1>1, <1>2, SameOperators
          DEF Init, Abstract!MarketInit, RbacInit, Abstract!RbacInit, PhaseBar, AnswerBar

LEMMA NextImplements ==
    TypeOK /\ TypeOK' /\ KeysInvariant /\ OutcomesInvariant /\ [Next]_vars
      => [Abstract!MarketNext]_(Abstract!marketVars)
  <1> SUFFICES ASSUME TypeOK, TypeOK', KeysInvariant, OutcomesInvariant, [Next]_vars
               PROVE  Abstract!MarketNext \/ UNCHANGED Abstract!marketVars
    OBVIOUS
  <1>1. ASSUME NEW r \in Requests, Arrive(r) PROVE Abstract!MarketNext
    BY <1>1, ArriveImplements DEF Abstract!MarketNext
  <1>2. ASSUME NEW r \in Requests, Serve(r)
        PROVE  Abstract!MarketNext \/ UNCHANGED Abstract!marketVars
    BY <1>2, ServeImplements DEF Abstract!MarketNext
  <1>3. ASSUME NEW r \in Requests, SerializationFailure(r) PROVE Abstract!MarketNext
    BY <1>3, RetryLooksAway DEF SerializationFailure, Abstract!MarketNext
  <1>4. ASSUME NEW r \in Requests, Interrupt(r) PROVE Abstract!MarketNext
    <2>1. Abstract!Answer(r)
      BY <1>4, FinishAnswers DEF Interrupt, MayAnswer
    <2> QED BY <2>1 DEF Abstract!MarketNext
  <1>5. ASSUME \/ \E b \in Bonds : ProvisionBond(b)
               \/ \E q \in Quotes : Expire(q)
               \/ ChangeAuthorization
        PROVE  Abstract!MarketNext
    BY <1>5, EnvironmentImplements DEF Abstract!MarketNext
  <1>6. CASE UNCHANGED vars
    BY <1>6 DEF vars, txVars, Abstract!marketVars
  <1> QED BY <1>1, <1>2, <1>3, <1>4, <1>5, <1>6 DEF Next

\* The servers' overlapping transactions, with their waits, rollbacks, retries
\* and crashes, implement the atomic mutations of Marketplace for any number of
\* requests, bonds and identifiers: a commit is one lawful effect of its nonce
\* on the tables as they are then, and what buyOnce,
\* CreateSaleOfferFromSubmission or CreateConversionQuote answers is stored.
THEOREM MarketplaceImplemented == Spec => ImplementsMarketplace
  <1>1. Init => Abstract!MarketInit
    BY InitImplements
  <1>2. TypeOK /\ TypeOK' /\ KeysInvariant /\ OutcomesInvariant /\ [Next]_vars
          => [Abstract!MarketNext]_(Abstract!marketVars)
    BY NextImplements
  <1> QED BY <1>1, <1>2, TypeCorrect, KeysNeverInDoubt, OutcomesAgree, PTL
          DEF Spec, ImplementsMarketplace, Abstract!MarketSpec

=============================================================================
