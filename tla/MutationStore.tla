---------------------------- MODULE MutationStore ----------------------------
(***************************************************************************)
(* The three mutations of the exchange (Buy, CreateSaleOffer and           *)
(* QuoteSaleOffer) as the stateless servers run them: every request is a   *)
(* process that drives one PostgreSQL transaction at a time, retries it on *)
(* a serialization failure, replays the durable outcome of an idempotency  *)
(* nonce that is already claimed, and may be interrupted anywhere.  A      *)
(* client's retry is another request with the same scope.                  *)
(*                                                                         *)
(* A transaction is a snapshot (snap) and a write set (w) that becomes     *)
(* visible at Commit.  Unique indexes behave as PostgreSQL's: an insertion *)
(* waits for an uncommitted holder of the key, sees a committed key that   *)
(* is in its snapshot, and fails with 40001 on one that is not.  On top of *)
(* that any transaction may fail with 40001 at any statement               *)
(* (SpuriousAborts): the model allows every behaviour of SERIALIZABLE and  *)
(* more, since it relies on snapshots and unique keys alone.               *)
(***************************************************************************)
EXTENDS MarketFacts

CONSTANTS
    MaxAttempts,     \* attempts of retryTransaction
    SpuriousAborts   \* may SERIALIZABLE abort beyond snapshot and key conflicts?

ASSUME StoreAssumption ==
    /\ MaxAttempts \in Nat \ {0}
    /\ SpuriousAborts \in BOOLEAN

VARIABLES
    db,        \* the committed facts
    pc,        \* where each request stands
    attempt,   \* failed attempts of retryTransaction so far
    snap,      \* the snapshot of the request's open transaction
    w,         \* its uncommitted insertions, by table
    terms,     \* the terms computed for a quote or canonical for an offer
    reply,     \* the answer the server holds, the client's once pc is "done"
    sawGrant,  \* history: the caller was permitted at some time since the
               \* request arrived or its last attempt failed
    resolved   \* history: the scope had a durable outcome at arrival

txVars == <<pc, attempt, snap, w, terms, reply, sawGrant>>
vars == <<db, rbac, txVars, resolved>>

Phases ==
    {"idle", "lookup", "rating", "begin", "authorized", "claimed", "priced",
     "prepared", "committed", "replay", "done"}
InTransaction == {"authorized", "claimed", "priced", "prepared"}

TypeOK ==
    /\ RbacTypeOK
    /\ db \in Databases
    /\ pc \in [Requests -> Phases]
    /\ attempt \in [Requests -> 0 .. MaxAttempts - 1]
    /\ snap \in [Requests -> Databases]
    /\ w \in [Requests -> Databases]
    /\ terms \in [Requests -> Terms]
    /\ reply \in [Requests -> Replies]
    /\ sawGrant \in [Requests -> BOOLEAN]
    /\ resolved \in [Requests -> BOOLEAN]

Init ==
    /\ RbacInit
    /\ db = [Nothing EXCEPT !.bonds = InitialBonds, !.offers = LegacyOffers]
    /\ pc = [r \in Requests |-> "idle"]
    /\ attempt = [r \in Requests |-> 0]
    /\ snap = [r \in Requests |-> Nothing]
    /\ w = [r \in Requests |-> Nothing]
    /\ terms = [r \in Requests |-> NoTerms]
    /\ reply = [r \in Requests |-> NoReply]
    /\ sawGrant = [r \in Requests |-> FALSE]
    /\ resolved = [r \in Requests |-> FALSE]

-----------------------------------------------------------------------------
(* Uncommitted holders of a unique key: an insertion of the same key waits. *)

\* Mutant of the three: the unique index is missing.
KeyNotUnique(r, key) == FALSE

\* Mutant of HoldsPurchase: a buy locks the offer FOR SHARE when its transaction
\* begins, before the claim, and needs the lock for itself when it inserts.
HoldsPurchaseFromStart(x, offer) ==
    pc[x] \in InTransaction /\ x.body.op = "purchases.buy" /\ x.body.offer = offer

HoldsClaim(x, scope) == pc[x] \in InTransaction /\ ClaimsOf(w[x], scope) # {}
HoldsPurchase(x, offer) == pc[x] \in InTransaction /\ PurchasesOf(w[x], offer) # {}
HoldsQuote(x, quote) == pc[x] \in InTransaction /\ OffersFrom(w[x], quote) # {}

ClaimHeld(r, scope) == \E x \in Requests \ {r} : HoldsClaim(x, scope)
PurchaseHeld(r, offer) == \E x \in Requests \ {r} : HoldsPurchase(x, offer)
QuoteHeld(r, quote) == \E x \in Requests \ {r} : HoldsQuote(x, quote)

FreshOffers ==
    {i \in Offers : /\ \A o \in db.offers : o.id # i
                    /\ \A x \in Requests : \A o \in w[x].offers : o.id # i}
FreshQuotes ==
    {i \in Quotes : /\ \A q \in db.quotes : q.id # i
                    /\ \A x \in Requests : \A q \in w[x].quotes : q.id # i}

-----------------------------------------------------------------------------
(* Ends of a transaction other than Commit.                                 *)

\* Roll back whatever is open and answer.
Finish(r, answer) ==
    /\ pc' = [pc EXCEPT ![r] = "done"]
    /\ reply' = [reply EXCEPT ![r] = answer]
    /\ snap' = [snap EXCEPT ![r] = Nothing]
    /\ w' = [w EXCEPT ![r] = Nothing]
    /\ UNCHANGED <<attempt, terms, sawGrant>>

\* Mutant of TryAgain: the failed statement is repeated in the old snapshot.
TryAgainInSnapshot(r, n) ==
    /\ attempt' = [attempt EXCEPT ![r] = n]
    /\ pc' = [pc EXCEPT ![r] = "authorized"]
    /\ w' = [w EXCEPT ![r] = Nothing]
    /\ reply' = [reply EXCEPT ![r] = NoReply]
    /\ sawGrant' = [sawGrant EXCEPT ![r] = Effective(r.principal, r.body.op)]
    /\ UNCHANGED <<snap, terms>>

\* Roll back and begin attempt n.
TryAgain(r, n) ==
    /\ attempt' = [attempt EXCEPT ![r] = n]
    /\ pc' = [pc EXCEPT ![r] = "begin"]
    /\ snap' = [snap EXCEPT ![r] = Nothing]
    /\ w' = [w EXCEPT ![r] = Nothing]
    /\ reply' = [reply EXCEPT ![r] = NoReply]
    /\ sawGrant' = [sawGrant EXCEPT ![r] = Effective(r.principal, r.body.op)]
    /\ UNCHANGED terms

\* Mutant of Retry: one attempt too many.
RetryOnceMore(r) ==
    IF attempt[r] < MaxAttempts THEN TryAgain(r, attempt[r] + 1)
    ELSE Finish(r, Error("failed"))

\* A retryable database error: the next attempt of retryTransaction or, after
\* the last one, its error.
Retry(r) ==
    \/ attempt[r] + 1 < MaxAttempts /\ TryAgain(r, attempt[r] + 1)
    \/ attempt[r] + 1 = MaxAttempts /\ Finish(r, Error("failed"))

\* Nothing becomes visible before Commit.
KeepDb == UNCHANGED <<db, rbac, resolved>>

-----------------------------------------------------------------------------
(* A request arrives at a server.                                           *)

Arrive(r) ==
    /\ pc[r] = "idle"
    /\ pc' = [pc EXCEPT ![r] =
                IF r.body.op = "offers.quote" THEN "lookup" ELSE "begin"]
    /\ sawGrant' = [sawGrant EXCEPT ![r] = Effective(r.principal, r.body.op)]
    /\ resolved' = [resolved EXCEPT ![r] = ResultsOf(db, Scope(r)) # {}]
    /\ UNCHANGED <<db, rbac, attempt, snap, w, terms, reply>>

\* Mutant of Authorize: a retried transaction trusts its first attempt.
AuthorizeOnce(r) == attempt[r] > 0 \/ Effective(r.principal, r.body.op)

\* The query of authorize, in the snapshot of the transaction it opens.
Authorize(r) == Effective(r.principal, r.body.op)

\* One repeatable-read transaction: authorize, then look for a succeeded
\* outcome of this nonce.  A recorded rejection is not looked for.
ReplayConversionQuote(r) ==
    LET succeeded == {x \in ResultsOf(db, Scope(r)) : x.result.outcome = "succeeded"}
    IN  /\ pc[r] = "lookup"
        /\ \/ /\ ~ Authorize(r)
              /\ Finish(r, Error("permission_denied"))
           \/ /\ Authorize(r)
              /\ succeeded = {}
              /\ pc' = [pc EXCEPT ![r] = "rating"]
              /\ UNCHANGED <<attempt, snap, w, terms, reply, sawGrant>>
           \/ /\ Authorize(r)
              /\ succeeded # {}
              /\ \E answer \in StoredAnswers(db, r, succeeded) : Finish(r, answer)
        /\ KeepDb

\* The latest observation of the rate service: none that may be used, or a
\* revision that fixes the canonical terms of the quote.
LatestRate(r) ==
    /\ pc[r] = "rating"
    /\ r.body.op = "offers.quote"
    /\ \/ Finish(r, Error("exchange_rate_unavailable"))
       \/ \E revision \in Revisions :
            /\ terms' = [terms EXCEPT ![r] =
                          [price |-> r.body.price, revision |-> revision]]
            /\ pc' = [pc EXCEPT ![r] = "begin"]
            /\ UNCHANGED <<attempt, snap, w, reply, sawGrant>>
    /\ KeepDb

-----------------------------------------------------------------------------
(* One attempt of a mutation.                                               *)

\* BEGIN ISOLATION LEVEL SERIALIZABLE; the snapshot is taken by the first
\* statement, which is the authorization query.
BeginAuthorizedMutation(r) ==
    /\ pc[r] = "begin"
    /\ \/ /\ Authorize(r)
          /\ pc' = [pc EXCEPT ![r] = "authorized"]
          /\ snap' = [snap EXCEPT ![r] = db]
          /\ UNCHANGED <<attempt, w, terms, reply, sawGrant>>
       \/ /\ ~ Authorize(r)
          /\ Finish(r, Error("permission_denied"))
    /\ KeepDb

\* INSERT INTO operation_claims ... ON CONFLICT DO NOTHING.
ClaimOperation(r) ==
    /\ pc[r] = "authorized"
    /\ ~ ClaimHeld(r, Scope(r))
    /\ \/ /\ ClaimsOf(db, Scope(r)) = {}
          /\ pc' = [pc EXCEPT ![r] = "claimed"]
          /\ w' = [w EXCEPT ![r].claims = ClaimRows(r)]
          /\ UNCHANGED <<attempt, snap, terms, reply, sawGrant>>
       \/ /\ ClaimsOf(snap[r], Scope(r)) # {}
          /\ pc' = [pc EXCEPT ![r] = "replay"]
          /\ snap' = [snap EXCEPT ![r] = Nothing]
          /\ UNCHANGED <<attempt, w, terms, reply, sawGrant>>
       \/ /\ ClaimsOf(db, Scope(r)) # {}
          /\ ClaimsOf(snap[r], Scope(r)) = {}
          /\ Retry(r)
    /\ KeepDb

\* Insert the fact and the result, and hold the answer until the commit.
RecordSuccess(r, resource, rows, content) ==
    /\ pc' = [pc EXCEPT ![r] = "prepared"]
    /\ w' = [w EXCEPT ![r] = SuccessRows(r, resource, rows)]
    /\ reply' = [reply EXCEPT ![r] = Succeeded(content)]
    /\ UNCHANGED <<attempt, snap, terms, sawGrant>>

RecordRejection(r, code) ==
    /\ pc' = [pc EXCEPT ![r] = "prepared"]
    /\ w' = [w EXCEPT ![r] = RejectionRows(r, code)]
    /\ reply' = [reply EXCEPT ![r] = Rejected(code)]
    /\ UNCHANGED <<attempt, snap, terms, sawGrant>>

\* buyQuery inserts the purchase once no open transaction holds the offer.
InsertPurchase(r) ==
    \E o \in Buyable(snap[r], r) :
        /\ ~ PurchaseHeld(r, r.body.offer)
        /\ PurchasesOf(db, r.body.offer) = {}
        /\ RecordSuccess(r, r.body.offer,
                         [Nothing EXCEPT !.purchases = {PurchaseRow(r)}],
                         [offer |-> o, buyer |-> r.principal])

\* Somebody bought the offer after the snapshot: ON CONFLICT fails with 40001.
LosePurchase(r) ==
    /\ Buyable(snap[r], r) # {}
    /\ PurchasesOf(db, r.body.offer) # {}
    /\ PurchasesOf(snap[r], r.body.offer) = {}
    /\ Retry(r)

\* Mutant of RefusePurchase: an offer held by an open transaction counts as sold.
RefuseHeldPurchase(r) ==
    /\ \/ Buyable(snap[r], r) = {}
       \/ PurchasesOf(snap[r], r.body.offer) # {}
       \/ PurchaseHeld(r, r.body.offer)
    /\ RecordRejection(r, BuyRejection(snap[r], r))

\* buyQuery returned no row: classifyFailedBuyQuery decides which rejection.
RefusePurchase(r) ==
    /\ Buyable(snap[r], r) = {} \/ PurchasesOf(snap[r], r.body.offer) # {}
    /\ RecordRejection(r, BuyRejection(snap[r], r))

BuyOnce(r) ==
    /\ pc[r] = "claimed"
    /\ r.body.op = "purchases.buy"
    /\ InsertPurchase(r) \/ LosePurchase(r) \/ RefusePurchase(r)
    /\ KeepDb

\* Mutant of AcceptableQuotes: expires_at is not looked at.
ExpiredQuotesToo(r) == CoveringQuotes(snap[r], r)

\* The quotes a USD submission may use: found in the snapshot, unexpired at
\* the time of the statement.
AcceptableQuotes(r) ==
    {q \in CoveringQuotes(snap[r], r) : q.id \notin db.expired}

CheckQuote(r) ==
    /\ pc[r] = "claimed"
    /\ r.body.op = "offers.create"
    /\ r.body.quote # NoQuote
    /\ \/ /\ AcceptableQuotes(r) = {}
          /\ RecordRejection(r, "conversion_quote_unavailable")
       \/ \E q \in AcceptableQuotes(r) :
            /\ terms' = [terms EXCEPT ![r] = q.terms]
            /\ pc' = [pc EXCEPT ![r] = "priced"]
            /\ UNCHANGED <<attempt, snap, w, reply, sawGrant>>
    /\ KeepDb

\* The statement that inserts the offer, its canonical terms and its
\* submission.  A quote taken since the snapshot violates the unique key of
\* the submission: 40001 or a plain unique violation, which is not retried.
InsertOffer(r) ==
    LET native == r.body.quote = NoQuote
        accepted == IF native THEN NativeTerms(r) ELSE terms[r]
        taken == ~ native /\ OffersFrom(db, r.body.quote) # {}
    IN  /\ r.body.op = "offers.create"
        /\ pc[r] = (IF native THEN "claimed" ELSE "priced")
        /\ native \/ ~ QuoteHeld(r, r.body.quote)
        /\ \/ /\ r.body.bond \in snap[r].bonds
              /\ ~ taken
              /\ \E i \in FreshOffers :
                   RecordSuccess(r, i,
                                 [Nothing EXCEPT !.offers = {OfferRow(r, i, accepted)}],
                                 OfferRow(r, i, accepted))
           \/ /\ taken
              /\ Retry(r) \/ Finish(r, Error("failed"))
           \/ /\ r.body.bond \notin snap[r].bonds
              /\ RecordRejection(r, "bond_not_found")
        /\ KeepDb

InsertQuote(r) ==
    /\ pc[r] = "claimed"
    /\ r.body.op = "offers.quote"
    /\ \/ /\ r.body.bond \in snap[r].bonds
          /\ \E i \in FreshQuotes :
               RecordSuccess(r, i,
                             [Nothing EXCEPT !.quotes = {QuoteRow(r, i, terms[r])}],
                             QuoteRow(r, i, terms[r]))
       \/ /\ r.body.bond \notin snap[r].bonds
          /\ RecordRejection(r, "bond_not_found")
    /\ KeepDb

Commit(r) ==
    /\ pc[r] = "prepared"
    /\ db' = Merge(db, w[r])
    /\ pc' = [pc EXCEPT ![r] = "committed"]
    /\ snap' = [snap EXCEPT ![r] = Nothing]
    /\ w' = [w EXCEPT ![r] = Nothing]
    /\ UNCHANGED <<rbac, attempt, terms, reply, sawGrant, resolved>>

\* The commit returned: the held answer goes to the client.
Respond(r) ==
    /\ pc[r] = "committed"
    /\ pc' = [pc EXCEPT ![r] = "done"]
    /\ UNCHANGED <<db, rbac, attempt, snap, w, terms, reply, sawGrant, resolved>>

\* The nonce was claimed before: answer from what is stored now.
ReplayResource(r) ==
    /\ pc[r] = "replay"
    /\ \E answer \in StoredAnswers(db, r, ResultsOf(db, Scope(r))) : Finish(r, answer)
    /\ KeepDb

\* PostgreSQL may cancel a SERIALIZABLE transaction at any statement.
SerializationFailure(r) ==
    /\ SpuriousAborts
    /\ pc[r] \in InTransaction
    /\ Retry(r)
    /\ KeepDb

\* Mutant of Interrupt: the error of tx.Commit is dropped.
InterruptAnswered(r) ==
    /\ pc[r] \notin {"idle", "done"}
    /\ Finish(r, IF pc[r] = "prepared" THEN reply[r] ELSE Error("failed"))
    /\ KeepDb

\* A non-retryable storage error, a cancelled context or the end of the server
\* process.  An open transaction rolls back; a commit that already happened
\* stays, and the client cannot tell.
Interrupt(r) ==
    /\ pc[r] \notin {"idle", "done"}
    /\ Finish(r, Error("failed"))
    /\ KeepDb

-----------------------------------------------------------------------------
(* The environment: provisioning by direct SQL, and time.                   *)

ProvisionBond(b) ==
    /\ b \notin db.bonds
    /\ db' = [db EXCEPT !.bonds = @ \cup {b}]
    /\ UNCHANGED <<rbac, txVars, resolved>>

Expire(q) ==
    /\ \E x \in db.quotes : x.id = q
    /\ q \notin db.expired
    /\ db' = [db EXCEPT !.expired = @ \cup {q}]
    /\ UNCHANGED <<rbac, txVars, resolved>>

ChangeAuthorization ==
    /\ Administer
    /\ sawGrant' = [r \in Requests |->
                      \/ sawGrant[r]
                      \/ /\ pc[r] \notin {"idle", "done"}
                         /\ EffectiveIn(rbac', r.principal, r.body.op)]
    /\ UNCHANGED <<db, pc, attempt, snap, w, terms, reply, resolved>>

\* What the server does of its own accord for request r.
Serve(r) ==
    \/ ReplayConversionQuote(r)
    \/ LatestRate(r)
    \/ BeginAuthorizedMutation(r)
    \/ ClaimOperation(r)
    \/ BuyOnce(r)
    \/ CheckQuote(r)
    \/ InsertOffer(r)
    \/ InsertQuote(r)
    \/ Commit(r)
    \/ Respond(r)
    \/ ReplayResource(r)

Next ==
    \/ \E r \in Requests :
          Arrive(r) \/ Serve(r) \/ SerializationFailure(r) \/ Interrupt(r)
    \/ \E b \in Bonds : ProvisionBond(b)
    \/ \E q \in Quotes : Expire(q)
    \/ ChangeAuthorization

Spec == Init /\ [][Next]_vars

\* A server keeps executing the statements of a request it has accepted, and
\* PostgreSQL answers them.  Clients, administrators, failures and the clock
\* are under no obligation.
FairSpec == Spec /\ \A r \in Requests : WF_vars(Serve(r))

-----------------------------------------------------------------------------
(* Properties.                                                              *)

Settled(r) == pc[r] = "done" /\ reply[r].kind \in {"succeeded", "rejected"}

\* G-008, retrying repeats the outcome: whatever the interleaving of original,
\* retries and crashes, two settled answers under one nonce are the same answer
\* to the same body.
SettledAnswersAgree ==
    \A r1, r2 \in Requests :
        Settled(r1) /\ Settled(r2) /\ Scope(r1) = Scope(r2) =>
            r1.body = r2.body /\ reply[r1] = reply[r2]

\* A settled answer is backed by the committed claim and result of its nonce:
\* no server answers from a transaction that did not commit (buyOnce returns
\* the purchase only after tx.Commit).
SettledAnswersAreDurable ==
    \A r \in Requests : Settled(r) =>
        \E c \in ClaimsOf(db, Scope(r)), x \in ResultsOf(db, Scope(r)) :
            reply[r] = StoredAnswer(db, r, c, x)

\* operation_claims and operation_results commit together: each scope has at
\* most one claim and one result, and one never stands without the other (a
\* claim without a result would poison its nonce for ever in replayResource).
ClaimsPairWithResults ==
    /\ {c.scope : c \in db.claims} = {x.scope : x \in db.results}
    /\ \A c1, c2 \in db.claims : c1.scope = c2.scope => c1 = c2
    /\ \A x1, x2 \in db.results : x1.scope = x2.scope => x1 = x2

Successes(op) ==
    {x \in db.results : x.result.outcome = "succeeded" /\ x.scope[2] = op}

\* G-006: every offer, purchase and quote comes from exactly one succeeded
\* operation of the principal it names, and every succeeded operation has
\* its fact.
FactsHaveOneOperation ==
    /\ \A o \in db.offers \ LegacyOffers :
          \E x \in Successes("offers.create") :
             /\ x.scope[1] = o.seller
             /\ \A y \in Successes("offers.create") : y.result.resource = o.id <=> y = x
    /\ \A p \in db.purchases :
          \E x \in Successes("purchases.buy") :
             /\ x.scope[1] = p.buyer
             /\ \A y \in Successes("purchases.buy") : y.result.resource = p.offer <=> y = x
    /\ \A q \in db.quotes :
          \E x \in Successes("offers.quote") :
             /\ x.scope[1] = q.principal
             /\ \A y \in Successes("offers.quote") : y.result.resource = q.id <=> y = x
    /\ \A op \in Operations : \A x \in Successes(op) :
          ContentsIn(db, op, x.result.resource) # {}

\* The trigger of operation_results leaves exactly one event reference per
\* successful creation and purchase, in the same commit, however often the
\* operation is retried.
EventsMatchSuccesses ==
    db.events =
        {[table |-> "sale_offers", source |-> x.result.resource] :
            x \in Successes("offers.create")}
        \cup {[table |-> "purchases", source |-> x.result.resource] :
                 x \in Successes("purchases.buy")}

OnePurchasePerOffer ==
    \A p1, p2 \in db.purchases : p1.offer = p2.offer => p1 = p2

\* G-001: racing buyers on any number of servers leave one purchase per offer,
\* and only its buyer was ever told that the purchase succeeded.
OneBuyerPerOffer ==
    /\ OnePurchasePerOffer
    /\ \A r1, r2 \in Requests :
          /\ r1.body.op = "purchases.buy" /\ r2.body.op = "purchases.buy"
          /\ r1.body.offer = r2.body.offer
          /\ pc[r1] = "done" /\ reply[r1].kind = "succeeded"
          /\ pc[r2] = "done" /\ reply[r2].kind = "succeeded"
          => Scope(r1) = Scope(r2)

Lawful(p) == \E o \in CanonicalOffers(db, p.offer) : o.seller # p.buyer

\* G-002 and G-003: what is bought has canonical terms and is not the buyer's
\* own offer.
PurchasesAreLawful == \A p \in db.purchases : Lawful(p)

\* A buy of an offer its transaction can see is refused as unavailable only if
\* somebody really holds the purchase: waiting for a rival whose transaction
\* then rolls back must not lose the offer for both.
RefusedBuysLostToSomeone ==
    \A r \in Requests :
        /\ pc[r] = "prepared"
        /\ reply[r] = Rejected("offer_unavailable")
        /\ CanonicalOffers(snap[r], r.body.offer) # {}
        => PurchasesOf(db, r.body.offer) # {}

QuotesBehind(o) ==
    {q \in db.quotes : /\ q.id = o.quote
                       /\ q.principal = o.seller
                       /\ q.bond = o.bond
                       /\ q.terms = o.terms}

\* A conversion quote prices at most one offer, and that offer is its owner's,
\* for its bond, at the terms fixed when it was quoted, whatever the rate does
\* afterwards.
QuotePricesOneOffer ==
    \A o \in db.offers : o.quote # NoQuote =>
        /\ OffersFrom(db, o.quote) = {o}
        /\ QuotesBehind(o) # {}

\* G-010: an attempt whose caller is not permitted at any time between the
\* request's arrival, or its last failed attempt, and its end writes nothing
\* and settles nothing: beginAuthorizedMutation authorizes every attempt anew.
NoEffectWithoutAuthority ==
    \A r \in Requests :
        pc[r] # "idle" /\ ~ sawGrant[r] =>
            w[r] = Nothing /\ reply[r].kind \in {"none", "error"}

\* Conflicts on unique keys alone never use up retryTransaction's attempts: a
\* claim and a purchase or a quote are each lost at most once, because the
\* next attempt sees the winner in a new snapshot.
ConflictsSettleInThreeAttempts == \A r \in Requests : attempt[r] <= 2

\* An exact retry that arrives after its nonce was rejected durably is told
\* that rejection again, unless the caller lost the permission or the storage
\* failed.
RejectionsReplayVerbatim ==
    \A r \in Requests :
        pc[r] = "done" /\ resolved[r] =>
            \A c \in ClaimsOf(db, Scope(r)), x \in ResultsOf(db, Scope(r)) :
                c.digest = r.body /\ x.result.outcome = "rejected" =>
                    reply[r] \in {Rejected(x.result.code),
                                  Error("permission_denied"), Error("failed")}

\* The next statement of r cannot proceed before the transaction of x ends.
WaitsFor(r, x) ==
    /\ x # r
    /\ \/ pc[r] = "authorized" /\ HoldsClaim(x, Scope(r))
       \/ /\ pc[r] = "claimed"
          /\ r.body.op = "purchases.buy"
          /\ Buyable(snap[r], r) # {}
          /\ HoldsPurchase(x, r.body.offer)
       \/ pc[r] = "priced" /\ HoldsQuote(x, r.body.quote)

\* Waiting for uncommitted keys is never circular, also where nonces, offers and
\* quotes are contended at once: among any requests one waits for none of them.
\* Every mutation claims its nonce first, inserts its fact last and waits for
\* nothing after that, so PostgreSQL never has a deadlock of theirs to break.
NoCircularWait ==
    \A S \in SUBSET Requests :
        S # {} => \E r \in S : \A x \in S : ~ WaitsFor(r, x)

\* Every accepted request ends, also a client's retry that waits for the nonce of
\* a transaction that itself waits for the purchase of a third: each wait ends
\* with a commit or a rollback, and whoever lost a key (40001) goes on to an
\* answer in its next attempts.
RequestsEnd == \A r \in Requests : pc[r] # "idle" ~> pc[r] = "done"

(***************************************************************************)
(* The inductive invariant behind the theorems of MutationStoreProofs.     *)
(* The unique keys of open transactions are disjoint from each other and   *)
(* from the committed ones, and what an open transaction is about to       *)
(* commit is lawful for the tables as they stand.                          *)
(***************************************************************************)
Holding(r) == pc[r] \in {"claimed", "priced", "prepared"}

\* What r has inserted so far follows from where it stands.
WriteSetOK(r) ==
    /\ ~ Holding(r) => w[r] = Nothing
    /\ pc[r] \in {"claimed", "priced"} =>
         w[r] = [Nothing EXCEPT !.claims = ClaimRows(r)]
    /\ pc[r] = "prepared" =>
         /\ w[r].claims = ClaimRows(r)
         /\ \E o \in Outcomes : w[r].results = {[scope |-> Scope(r), result |-> o]}
    /\ \A p1, p2 \in w[r].purchases : p1 = p2
    /\ \A o1, o2 \in w[r].offers : o1 = o2

\* No two open transactions have inserted the same unique key.
KeysApart(r1, r2) ==
    /\ Holding(r1) /\ Holding(r2) => Scope(r1) # Scope(r2)
    /\ \A p1 \in w[r1].purchases, p2 \in w[r2].purchases : p1.offer # p2.offer
    /\ \A o1 \in w[r1].offers, o2 \in w[r2].offers :
          o1.quote = o2.quote => o1.quote = NoQuote

\* The keys r has inserted are not committed by anybody else.
KeysFree(r) ==
    /\ Holding(r) => ClaimsOf(db, Scope(r)) = {}
    /\ \A p \in w[r].purchases : PurchasesOf(db, p.offer) = {}
    /\ \A o \in w[r].offers : o.quote # NoQuote => OffersFrom(db, o.quote) = {}

\* What r read is still there, and what it inserted is lawful.
WritesLawful(r) ==
    /\ snap[r].offers \subseteq db.offers
    /\ snap[r].quotes \subseteq db.quotes
    /\ pc[r] = "priced" =>
         r.body.op = "offers.create" /\ QuotesBehind(OfferRow(r, r.nonce, terms[r])) # {}
    /\ \A p \in w[r].purchases : Lawful(p)
    /\ \A o \in w[r].offers : o.quote # NoQuote => QuotesBehind(o) # {}

\* No key of an operation claim, a purchase or a quote is ever in doubt while
\* transactions of different servers overlap.
KeysInvariant ==
    /\ \A r \in Requests : WriteSetOK(r) /\ KeysFree(r) /\ WritesLawful(r)
    /\ \A r1, r2 \in Requests : r1 # r2 => KeysApart(r1, r2)
    /\ ClaimsPairWithResults
    /\ OnePurchasePerOffer
    /\ PurchasesAreLawful
    /\ QuotePricesOneOffer

(***************************************************************************)
(* Refinement.  A transaction's snapshot is what the abstract request saw, *)
(* its commit is the abstract step Apply; claims, waits, retries and       *)
(* rollbacks leave no trace.                                               *)
(***************************************************************************)
PhaseOf(p) ==
    CASE p \in {"idle", "done"} -> p
      [] p \in InTransaction -> "looked"
      [] p = "committed" -> "applied"
      [] OTHER -> "waiting"

Abstract ==
    INSTANCE Marketplace WITH
        facts <- db,
        phase <- [r \in Requests |-> PhaseOf(pc[r])],
        view <- snap,
        answer <- [r \in Requests |-> IF pc[r] = "done" THEN reply[r] ELSE NoReply]

\* The transactions of the servers implement the atomic mutations of
\* Marketplace: what buyOnce, CreateSaleOfferFromSubmission and
\* CreateConversionQuote commit is right for the tables at the commit.
ImplementsMarketplace == Abstract!MarketSpec

=============================================================================
