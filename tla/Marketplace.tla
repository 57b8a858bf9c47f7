----------------------------- MODULE Marketplace -----------------------------
(***************************************************************************)
(* What the exchange promises for its mutations, without transactions,     *)
(* locks, retries or crashes: an authorized request looks at the tables    *)
(* once, and later its whole outcome (claim, fact, result, event) appears  *)
(* in one step that is right for the tables as they are then, as far as    *)
(* anything in them must be unique, and right for what it saw otherwise.   *)
(* An answer other than an error is always the outcome that is stored.     *)
(***************************************************************************)
EXTENDS MarketFacts

VARIABLES
    facts,    \* the tables
    phase,    \* "idle", "waiting", "looked", "applied" or "done"
    view,     \* what a request in phase "looked" saw
    answer    \* what the client was told

marketVars == <<facts, rbac, phase, view, answer>>

MarketInit ==
    /\ RbacInit
    /\ facts = [Nothing EXCEPT !.bonds = InitialBonds, !.offers = LegacyOffers]
    /\ phase = [r \in Requests |-> "idle"]
    /\ view = [r \in Requests |-> Nothing]
    /\ answer = [r \in Requests |-> NoReply]

Receive(r) ==
    /\ phase[r] = "idle"
    /\ phase' = [phase EXCEPT ![r] = "waiting"]
    /\ UNCHANGED <<facts, rbac, view, answer>>

\* Authorization and everything the request reads are of one moment.
Look(r) ==
    /\ phase[r] = "waiting"
    /\ Effective(r.principal, r.body.op)
    /\ phase' = [phase EXCEPT ![r] = "looked"]
    /\ view' = [view EXCEPT ![r] = facts]
    /\ UNCHANGED <<facts, rbac, answer>>

\* Give up what was seen and look again later.
LookAway(r) ==
    /\ phase[r] = "looked"
    /\ phase' = [phase EXCEPT ![r] = "waiting"]
    /\ view' = [view EXCEPT ![r] = Nothing]
    /\ UNCHANGED <<facts, rbac, answer>>

\* The rows each operation may add, given what r saw and the tables now.
BuyOutcomes(r) ==
    {SuccessRows(r, o.id, [Nothing EXCEPT !.purchases = {PurchaseRow(r)}]) :
        o \in {x \in Buyable(view[r], r) : PurchasesOf(facts, x.id) = {}}}
    \cup
    {RejectionRows(r, code) :
        code \in {c \in {BuyRejection(view[r], r)} :
                    \/ Buyable(view[r], r) = {}
                    \/ PurchasesOf(view[r], r.body.offer) # {}}}

CreateOutcomes(r) ==
    LET native == r.body.quote = NoQuote
        quoted == {q \in CoveringQuotes(view[r], r) : q.id \notin view[r].expired}
        usable == {q \in quoted : OffersFrom(facts, q.id) = {}}
        accepted == IF native THEN {NativeTerms(r)} ELSE {q.terms : q \in usable}
        unused == {i \in Offers : \A o \in facts.offers : o.id # i}
    IN  {SuccessRows(r, i, [Nothing EXCEPT !.offers = {OfferRow(r, i, t)}]) :
            i \in {x \in unused : r.body.bond \in view[r].bonds}, t \in accepted}
        \cup
        {RejectionRows(r, code) :
            code \in {c \in {"bond_not_found"} :
                        native /\ r.body.bond \notin view[r].bonds}
                     \cup {c \in {"conversion_quote_unavailable"} :
                             ~ native /\ \/ quoted = {}
                                         \/ r.body.quote \in facts.expired}}

QuoteOutcomes(r) ==
    LET unused == {i \in Quotes : \A q \in facts.quotes : q.id # i}
    IN  {SuccessRows(r, i, [Nothing EXCEPT !.quotes =
             {QuoteRow(r, i, [price |-> r.body.price, revision |-> v])}]) :
            i \in {x \in unused : r.body.bond \in view[r].bonds}, v \in Revisions}
        \cup
        {RejectionRows(r, code) :
            code \in {c \in {"bond_not_found"} : r.body.bond \notin view[r].bonds}}

OutcomesOf(r) ==
    CASE r.body.op = "purchases.buy" -> BuyOutcomes(r)
      [] r.body.op = "offers.create" -> CreateOutcomes(r)
      [] OTHER -> QuoteOutcomes(r)

\* The one effect of a nonce.
Apply(r) ==
    /\ phase[r] = "looked"
    /\ ClaimsOf(facts, Scope(r)) = {}
    /\ \E rows \in OutcomesOf(r) : facts' = Merge(facts, rows)
    /\ phase' = [phase EXCEPT ![r] = "applied"]
    /\ view' = [view EXCEPT ![r] = Nothing]
    /\ UNCHANGED <<rbac, answer>>

Answer(r) ==
    /\ phase[r] \in {"waiting", "looked", "applied"}
    /\ phase' = [phase EXCEPT ![r] = "done"]
    /\ view' = [view EXCEPT ![r] = Nothing]
    /\ \/ \E a \in StoredAnswers(facts, r, ResultsOf(facts, Scope(r))) :
            answer' = [answer EXCEPT ![r] = a]
       \/ answer' = [answer EXCEPT ![r] = Error("failed")]
       \/ /\ phase[r] = "waiting"
          /\ ~ Effective(r.principal, r.body.op)
          /\ answer' = [answer EXCEPT ![r] = Error("permission_denied")]
       \/ /\ phase[r] = "waiting"
          /\ r.body.op = "offers.quote"
          /\ answer' = [answer EXCEPT ![r] = Error("exchange_rate_unavailable")]
    /\ UNCHANGED <<facts, rbac>>

\* Provisioning, time and authorization changes.
Environment ==
    \/ /\ \/ \E b \in Bonds : facts' = [facts EXCEPT !.bonds = @ \cup {b}]
          \/ \E q \in facts.quotes : facts' = [facts EXCEPT !.expired = @ \cup {q.id}]
       /\ UNCHANGED <<rbac, phase, view, answer>>
    \/ /\ Administer
       /\ UNCHANGED <<facts, phase, view, answer>>

MarketNext ==
    \/ \E r \in Requests :
          Receive(r) \/ Look(r) \/ LookAway(r) \/ Apply(r) \/ Answer(r)
    \/ Environment

MarketSpec == MarketInit /\ [][MarketNext]_marketVars

=============================================================================
