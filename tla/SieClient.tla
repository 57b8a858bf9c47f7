------------------------------ MODULE SieClient ------------------------------
(***************************************************************************)
(* What the SIE HTTP adapter makes of an answer: which requests it sends,  *)
(* how it classifies status, headers and body, and which bodies it turns   *)
(* into observations.  Pure operators; RateService calls them.             *)
(*                                                                         *)
(* A request is [kind, ids, from, to] with ids a sequence of series.  A    *)
(* reply is [transport, status, resets, json, body]: whether a bounded     *)
(* body without the token arrived, the HTTP status, the three places a     *)
(* reset time may be in, whether the media type is JSON, and the body's    *)
(* series, each [id, error, obs] with obs a sequence of [day, value].  0   *)
(* stands for a date or number that is absent, does not parse or is not    *)
(* positive.                                                               *)
(***************************************************************************)
EXTENDS Integers, SequencesExt

CONSTANT MaxSeriesPerRequest   \* 20 in the code

ASSUME BatchAssumption == MaxSeriesPerRequest \in Nat \ {0}

\* requestURL: the requests that reach the network at all.
ValidRequest(request) ==
    /\ Len(request.ids) \in 1..MaxSeriesPerRequest
    /\ IsInjective(request.ids)
    /\ request.kind = "range" => request.from \in 1..request.to

\* The observations of a body, flattened.
Observed(body) ==
    UNION {{[series |-> entry.id, day |-> item.day, value |-> item.value] :
                item \in ToSet(entry.obs)} : entry \in ToSet(body)}

\* Mutant of AcceptBody: a requested series may be missing.
AcceptPartialBody(body, requested) ==
    /\ \A entry \in ToSet(body) :
          /\ entry.id \in requested
          /\ ~entry.error
          /\ \A item \in ToSet(entry.obs) : item.value > 0
          /\ IsInjective([i \in DOMAIN entry.obs |-> entry.obs[i].day])
    /\ IsInjective([i \in DOMAIN body |-> body[i].id])

\* decodeResponse: every requested series once, nothing else, no series error,
\* no invalid observation and no day twice in a series.
AcceptBody(body, requested) ==
    /\ \A entry \in ToSet(body) :
          /\ entry.id \in requested
          /\ ~entry.error
          /\ \A item \in ToSet(entry.obs) : item.value > 0
          /\ IsInjective([i \in DOMAIN entry.obs |-> entry.obs[i].day])
    /\ IsInjective([i \in DOMAIN body |-> body[i].id])
    /\ Cardinality({entry.id : entry \in ToSet(body)}) = Cardinality(requested)

Refusal(class) == [err |-> class, obs |-> {}]

\* rateLimitReset: Bmx-Timereset, the error body's timeReset, or
\* Bmx-Secondstoreset, the first that is usable.
RateLimitReset(resets) == \E i \in 1..3 : resets[i] > 0

\* Client.Fetch: its early returns, told apart as far as its callers do.
Classify(request, reply) ==
    IF ~ValidRequest(request) \/ ~reply.transport \/ reply.status \in {401, 403}
    THEN Refusal("failed")
    ELSE IF reply.status \in {400, 429} /\ RateLimitReset(reply.resets)
    THEN Refusal("limited")
    ELSE IF \/ reply.status # 200
            \/ ~reply.json
            \/ ~AcceptBody(reply.body, ToSet(request.ids))
    THEN Refusal("failed")
    ELSE [err |-> "none", obs |-> Observed(reply.body)]
==============================================================================
