----------------------------- MODULE RateService -----------------------------
(***************************************************************************)
(* The exchange-rate service: Latest, Range and RevalidateRange calls of   *)
(* several server processes share fetches of the provider through rows of  *)
(* PostgreSQL (States, Claim, Complete, Fail) and append revisions of      *)
(* observations.                                                           *)
(*                                                                         *)
(* Every store method is one or more steps, cut where another call can see *)
(* the difference: States and LatestObservations and Fail run one          *)
(* statement per unit, Claim is one transaction whose row locks make it    *)
(* atomic at its commit, Complete is cut between its insertions, made      *)
(* under advisory locks, and its commit.  Timestamps are the comparisons   *)
(* the code makes with them: a lease lapses, a freshness period, a         *)
(* back-off or a provider block ends by a step of its own.  A nonce is its *)
(* call: a call never holds leases of two of its own claims at once.       *)
(*                                                                         *)
(* Days are numbered from 1, months have DaysPerMonth days.                *)
(***************************************************************************)
EXTENDS SieClient

CONSTANTS
    Callers,       \* the calls, each made once
    NoCall,        \* no lease
    Series,        \* series with their currency mapping, by order of their IDs
    Requests,      \* the requests each may make, [op, series, from, to]
    Values,        \* positive values an observation can have
    FirstDay,      \* today at the start
    LastDay,       \* bound: the last day that begins
    DaysPerMonth,
    WarmSeries,    \* the series that may be stored at the start
    Volatile,      \* the series and days the provider publishes or corrects
    MaxChanges,    \* bound: publications and corrections by the provider
    MaxRefreshes,  \* bound: no freshness ends after this many fetches
    MaxInterrupts  \* bound: calls cut off by a crash, a cancellation or an error

ASSUME RateAssumption ==
    /\ NoCall \notin Callers
    /\ Series \subseteq Nat
    /\ Values \subseteq Nat \ {0} /\ Values # {}
    /\ WarmSeries \subseteq Series
    /\ Volatile \subseteq Series \X (Nat \ {0})
    /\ FirstDay \in Nat \ {0} /\ LastDay \in Nat /\ FirstDay <= LastDay
    /\ DaysPerMonth \in Nat \ {0}
    /\ MaxChanges \in Nat /\ MaxRefreshes \in Nat /\ MaxInterrupts \in Nat
    /\ \A c \in Callers : \A q \in Requests[c] :
          /\ q.op \in {"latest", "range", "revalidate"}
          /\ q.series \subseteq Series /\ IsFiniteSet(q.series)
          /\ q.from \in Nat /\ q.to \in Nat
          /\ q.op # "latest" => q.from > 0

VARIABLES
    today,      \* the date of the servers' clocks
    published,  \* what the provider would answer: value by series and day, 0 none
    changes,    \* changes of it so far
    row,        \* sie_exchange_rate_fetch_coordination, by work key
    history,    \* sie_exchange_rate_observations: revisions by series and day
    imports,    \* sie_exchange_rate_imports
    blocked,    \* sie_provider_state.blocked_until is in the future
    call,       \* the calls
    fetches,    \* answers of the provider so far, the stamp of the next
    interrupts  \* calls cut off so far

store == <<row, history, imports, blocked>>
provider == <<published, changes, fetches>>
vars == <<today, published, changes, row, history, imports, blocked, call,
          fetches, interrupts>>

Days == 1..LastDay
Month(day) == ((day - 1) \div DaysPerMonth) + 1
FirstOf(month) == (month - 1) * DaysPerMonth + 1
LastOf(month) == month * DaysPerMonth

Keys == [kind : {"latest"}, series : Series, month : {0}]
            \cup [kind : {"range"}, series : Series, month : 1..Month(LastDay)]

NoRow == [holder |-> NoCall, live |-> FALSE, due |-> TRUE, done |-> 0,
          fresh |-> "null", covered |-> 0, stamp |-> 0]

\* The numbers of a finite set in increasing order.
Ascending(S) ==
    CHOOSE f \in [1..Cardinality(S) -> S] : \A i, j \in DOMAIN f : i < j => f[i] < f[j]

\* The elements of seq at some of its indices, in their order.
Picked(seq, indices) ==
    LET order == Ascending(indices) IN [n \in DOMAIN order |-> seq[order[n]]]

(***************************************************************************)
(* The units of work of a call.                                            *)
(***************************************************************************)
LatestUnits(series) ==
    [i \in DOMAIN series |->
        [key |-> [kind |-> "latest", series |-> series[i], month |-> 0],
         fetchTo |-> 0, permanent |-> FALSE]]

\* Mutant of RangeUnits: the fetch boundary is today in every month.
RangeUnitsToToday(series, from, to) ==
    LET n == Len(series)
    IN  [i \in 1..((Month(to) - Month(from) + 1) * n) |->
            LET month == Month(from) + ((i - 1) \div n)
            IN  [key |-> [kind |-> "range", series |-> series[((i - 1) % n) + 1],
                          month |-> month],
                 fetchTo |-> today, permanent |-> month < Month(today)]]

\* rangeUnits: month by month, the series in their order, no month after today.
RangeUnits(series, from, to) ==
    LET first == Month(from)
        last == IF to > today THEN Month(today) ELSE Month(to)
        n == Len(series)
    IN  [i \in 1..(IF last < first THEN 0 ELSE (last - first + 1) * n) |->
            LET month == first + ((i - 1) \div n)
            IN  [key |-> [kind |-> "range", series |-> series[((i - 1) % n) + 1],
                          month |-> month],
                 fetchTo |-> IF LastOf(month) > today THEN today ELSE LastOf(month),
                 permanent |-> month < Month(today)]]

SamePeriod(a, b) == /\ a.key.kind = b.key.kind
                    /\ a.key.month = b.key.month
                    /\ a.fetchTo = b.fetchTo

\* makeBatches: runs of one period, cut at MaxSeriesPerRequest.  The units come
\* in the order the code sorts them into.
MakeBatches(units) ==
    LET Rank(i) == Cardinality({j \in 1..i : SamePeriod(units[j], units[i])})
        Opens(i) == (Rank(i) - 1) % MaxSeriesPerRequest = 0
        heads == Ascending({i \in DOMAIN units : Opens(i)})
    IN  [b \in DOMAIN heads |->
            SubSeq(units, heads[b],
                   IF b = Len(heads) THEN Len(units) ELSE heads[b + 1] - 1)]

RequestForBatch(batch) ==
    [kind |-> batch[1].key.kind,
     ids |-> [i \in DOMAIN batch |-> batch[i].key.series],
     from |-> IF batch[1].key.kind = "range" THEN FirstOf(batch[1].key.month) ELSE 0,
     to |-> batch[1].fetchTo]

KeysOf(units) == {units[i].key : i \in DOMAIN units}

(***************************************************************************)
(* The rows.                                                               *)
(***************************************************************************)
\* The Ready column of States; a NULL comparison counts as false.
Ready(unit, r) ==
    IF unit.key.kind = "latest"
    THEN r.done > 0 /\ r.fresh = "live"
    ELSE r.covered > 0 /\ r.covered >= unit.fetchTo
            /\ (unit.permanent \/ r.fresh = "live")

\* Mutant of Claimable: a lease is never taken over.
ClaimableUnleased(unit, r, force) ==
    /\ r.holder = NoCall
    /\ r.due
    /\ \/ force
       \/ unit.key.kind = "latest" /\ (r.done = 0 \/ r.fresh = "over")
       \/ unit.key.kind = "range" /\ \/ r.covered < unit.fetchTo
                                     \/ ~unit.permanent /\ r.fresh = "over"

\* The WHERE clause of Claim; a NULL comparison matches nothing.
Claimable(unit, r, force) ==
    /\ ~r.live
    /\ r.due
    /\ \/ force
       \/ unit.key.kind = "latest" /\ (r.done = 0 \/ r.fresh = "over")
       \/ unit.key.kind = "range" /\ \/ r.covered < unit.fetchTo
                                     \/ ~unit.permanent /\ r.fresh = "over"

\* The row a completed unit gets.
Completed(unit, r, request, stamp) ==
    [holder |-> NoCall, live |-> FALSE, due |-> TRUE, done |-> r.done + 1,
     fresh |-> IF unit.key.kind = "latest" \/ ~unit.permanent THEN "live" ELSE "null",
     covered |-> IF unit.key.kind = "range" /\ r.covered < request.to
                 THEN request.to ELSE r.covered,
     stamp |-> stamp]

\* current_sie_exchange_rates: the last revision of a coordinate, 0 for none.
Current(s, day) ==
    IF history[s][day] = <<>> THEN 0 ELSE Last(history[s][day])

\* LatestObservations for one series: its last day that has an observation.
LatestObserved(s) ==
    {[series |-> s, day |-> day, value |-> Current(s, day)] :
        day \in {d \in Days : /\ Current(s, d) # 0
                              /\ \A e \in (d + 1)..LastDay : Current(s, e) = 0}}

(***************************************************************************)
(* The provider (external): it answers with what is published, or badly.   *)
(***************************************************************************)
PublishedFor(data, s, request) ==
    LET wanted == {d \in Days :
            /\ data[s][d] # 0
            /\ IF request.kind = "range"
               THEN d \in request.from..request.to
               ELSE \A e \in (d + 1)..LastDay : data[s][e] = 0}
    IN  SetToSeq({[day |-> d, value |-> data[s][d]] : d \in wanted})

\* What the provider may publish or correct before it answers next.
Publications ==
    {published} \cup
    {[published EXCEPT ![x[1]][x[2]] = v] :
        x \in {y \in Volatile : y[2] <= today /\ changes < MaxChanges}, v \in Values}

Honest(data, request) ==
    [transport |-> TRUE, status |-> 200, resets |-> <<0, 0, 0>>, json |-> TRUE,
     body |-> [i \in DOMAIN request.ids |->
                  [id |-> request.ids[i], error |-> FALSE,
                   obs |-> PublishedFor(data, request.ids[i], request)]]]

\* A series missing, twice, in error or empty, a day twice, a value that is no
\* price, a day outside the period, and the failures that carry no body.
Faulty(data, request) ==
    LET good == Honest(data, request)
        entry == good.body[1]
        With(obs) == <<[entry EXCEPT !.obs = obs]>> \o Tail(good.body)
    IN  {[good EXCEPT !.body = b] : b \in
            {Tail(good.body), Append(good.body, entry),
             <<[entry EXCEPT !.error = TRUE]>> \o Tail(good.body),
             With(<<>>), With(entry.obs \o entry.obs),
             With(<<[day |-> request.to, value |-> 0]>>)}
            \cup (IF request.kind = "range"
                  THEN {With(<<[day |-> request.to + 1, value |-> 1]>>)} ELSE {})}
        \cup {[good EXCEPT !.transport = FALSE], [good EXCEPT !.status = 401],
              [good EXCEPT !.status = 500], [good EXCEPT !.json = FALSE],
              [good EXCEPT !.status = 429, !.resets[2] = 1]}

(***************************************************************************)
(* A call.  i is the unit, series or lease it has come to, ready the keys  *)
(* its current States call found ready, batches the claimed units not yet  *)
(* completed, reply the answer it is about to record and inserts what its  *)
(* transaction inserted, err why resolve failed and got what it has read.  *)
(***************************************************************************)
NoReply == [obs |-> {}, answered |-> {}, stamp |-> 0]

Idle == [pc |-> "idle", op |-> "none", series |-> <<>>, from |-> 0, to |-> 0,
         units |-> <<>>, i |-> 1, ready |-> {}, base |-> [k \in Keys |-> 0],
         batches |-> <<>>, reply |-> NoReply, inserts |-> {}, err |-> "none",
         got |-> {}]

\* Several steps later in the same call: its place and the reset cursor.
At(c, place) == [call[c] EXCEPT !.pc = place, !.i = 1]

Becomes(c, rec) == call' = [call EXCEPT ![c] = rec]

\* A call that has returned an error.
Failed(c, e) == [Idle EXCEPT !.pc = "done", !.op = call[c].op, !.err = e]

\* resolve or resolveForced returns an error: Latest falls back to what is
\* stored, the others return it.
Fails(c, e) ==
    Becomes(c, IF call[c].op = "latest"
               THEN [At(c, "fallback") EXCEPT !.err = e, !.ready = {}, !.batches = <<>>,
                                              !.reply = NoReply, !.inserts = {}]
               ELSE Failed(c, e))

\* normalizeSeries: duplicates are merged, the rest sorted by ID.
NormalizeSeries(requested) == Ascending(requested)

\* The start of Latest, Range and RevalidateRange.
Begin(c) ==
    /\ call[c].pc = "idle"
    /\ \E q \in Requests[c] :
          LET series == NormalizeSeries(q.series)
              valid == series # <<>> /\ (q.op # "latest" => q.from <= q.to)
              units == IF ~valid THEN <<>>
                       ELSE IF q.op = "latest" THEN LatestUnits(series)
                       ELSE RangeUnits(series, q.from, q.to)
          IN  Becomes(c, IF ~valid
                         THEN [Idle EXCEPT !.pc = "done", !.op = q.op, !.err = "invalid"]
                         ELSE [Idle EXCEPT
                 !.op = q.op, !.series = series, !.from = q.from, !.to = q.to,
                 !.units = units,
                 !.pc = IF units = <<>> THEN "read"
                        ELSE IF q.op = "revalidate" THEN "baseline" ELSE "states"])
    /\ UNCHANGED <<today, store, provider, interrupts>>

\* resolveForced remembers when each unit was last completed.
ReadBaseline(c) ==
    /\ call[c].pc = "baseline"
    /\ LET k == call[c].units[call[c].i].key
           next == [call[c] EXCEPT !.base[k] = row[k].done]
       IN  Becomes(c, IF call[c].i < Len(call[c].units)
                      THEN [next EXCEPT !.i = @ + 1]
                      ELSE [next EXCEPT !.pc = "states", !.i = 1])
    /\ UNCHANGED <<today, store, provider, interrupts>>

\* States, one statement per unit, and what resolve and resolveForced conclude.
ReadState(c) ==
    /\ call[c].pc = "states"
    /\ LET unit == call[c].units[call[c].i]
           k == unit.key
           settled == IF call[c].op = "revalidate"
                      THEN row[k].done > call[c].base[k] ELSE Ready(unit, row[k])
           ready == call[c].ready \cup (IF settled THEN {k} ELSE {})
       IN  Becomes(c,
             IF call[c].i < Len(call[c].units)
             THEN [call[c] EXCEPT !.i = @ + 1, !.ready = ready]
             ELSE [At(c, IF KeysOf(call[c].units) \subseteq ready
                         THEN "read" ELSE "claim") EXCEPT !.ready = ready])
    /\ UNCHANGED <<today, store, provider, interrupts>>

\* The units not found ready, by index.
PendingUnits(c) ==
    {i \in DOMAIN call[c].units : call[c].units[i].key \notin call[c].ready}

\* The pending units the statement of Claim matches.
ClaimedUnits(c) ==
    LET units == call[c].units
    IN  Picked(units, {i \in PendingUnits(c) :
                           Claimable(units[i], row[units[i].key], call[c].op = "revalidate")})

AllLatest(units) == \A unit \in ToSet(units) : unit.key.kind = "latest"

\* Claim, and resolve's answer to a claim that got nothing.
Claim(c) ==
    /\ call[c].pc = "claim"
    /\ \E claimed \in {ClaimedUnits(c)} :
          /\ row' = [k \in Keys |->
                       IF k \in KeysOf(claimed)
                       THEN [row[k] EXCEPT !.holder = c, !.live = TRUE]
                       ELSE row[k]]
          /\ IF claimed # <<>>
             THEN Becomes(c, [At(c, "check") EXCEPT
                                !.ready = {}, !.batches = MakeBatches(claimed)])
             ELSE IF AllLatest(call[c].units) THEN Fails(c, "cold")
             ELSE Becomes(c, [At(c, "states") EXCEPT !.ready = {}])
    /\ UNCHANGED <<today, history, imports, blocked, provider, interrupts>>

\* fetchClaimed looks for a provider-wide block.
CheckBlocked(c) ==
    /\ call[c].pc = "check"
    /\ Becomes(c, IF blocked THEN [At(c, "fail") EXCEPT !.err = "limited"]
                  ELSE At(c, "fetch"))
    /\ UNCHANGED <<today, store, provider, interrupts>>

\* Mutant of RequireLatestObservations: a response may lack observations.
RequireNothing(request, obs) == TRUE

\* requireLatestObservations
RequireLatestObservations(request, obs) ==
    request.kind = "latest" => {o.series : o \in obs} = ToSet(request.ids)

\* provider.Fetch and requireLatestObservations for the first batch left.
Fetch(c) ==
    /\ call[c].pc = "fetch"
    /\ \E request \in {RequestForBatch(call[c].batches[1])} :
       \E data \in Publications :
       \E reply \in {Honest(data, request)} \cup Faulty(data, request) :
          LET result == Classify(request, reply)
              complete == RequireLatestObservations(request, result.obs)
          IN  \/ /\ result.err = "none" /\ complete
                 /\ published' = data
                 /\ changes' = IF data = published THEN changes ELSE changes + 1
                 /\ fetches' = fetches + 1
                 /\ Becomes(c, [At(c, "insert") EXCEPT !.reply =
                       [obs |-> result.obs, stamp |-> fetches + 1,
                        answered |-> {entry.id : entry \in ToSet(reply.body)}]])
              \/ /\ result.err = "limited"
                 /\ Becomes(c, [At(c, "block") EXCEPT !.err = "limited"])
                 /\ UNCHANGED provider
              \/ /\ result.err = "failed" \/ (result.err = "none" /\ ~complete)
                 /\ Becomes(c, [At(c, "fail") EXCEPT !.err = "failed"])
                 /\ UNCHANGED provider
    /\ UNCHANGED <<today, store, interrupts>>

\* BlockProviderUntil: the later of the stored and the reported reset, which
\* may have passed already.
BlockProvider(c) ==
    /\ call[c].pc = "block"
    /\ \E future \in BOOLEAN : blocked' = (blocked \/ future)
    /\ Becomes(c, At(c, "fail"))
    /\ UNCHANGED <<today, row, history, imports, provider, interrupts>>

\* Mutant of RemainingUnits: only the batch that failed.
FailedBatch(c) == call[c].batches[1]

\* What fetchClaimed hands to Fail: the batch that failed and those after it.
RemainingUnits(c) == FlattenSeq(call[c].batches)

\* Fail, one statement per unit.
FailUnit(c) ==
    /\ call[c].pc = "fail"
    /\ LET units == RemainingUnits(c)
           k == units[call[c].i].key
       IN  IF row[k].holder # c
           THEN Fails(c, "lost") /\ UNCHANGED row
           ELSE /\ row' = [row EXCEPT ![k].holder = NoCall, ![k].live = FALSE,
                                      ![k].due = FALSE]
                /\ IF call[c].i < Len(units)
                   THEN Becomes(c, [call[c] EXCEPT !.i = @ + 1])
                   ELSE Fails(c, call[c].err)
    /\ UNCHANGED <<today, history, imports, blocked, provider, interrupts>>

\* Mutant of Owned: a completion does not look at the lease.
OwnedUnchecked(c) == TRUE

\* Complete's guard: the lease of every unit of the batch is still the call's.
Owned(c) == \A k \in KeysOf(call[c].batches[1]) : row[k].holder = c

Coordinates(obs) == {<<o.series, o.day>> : o \in obs}

\* Mutant of LockedBy: no advisory locks.
LockedByNobody(others) == {}

\* pg_advisory_xact_lock: the coordinates another transaction has written.
LockedBy(others) == UNION {Coordinates(call[d].reply.obs) :
                              d \in {e \in others : call[e].pc = "commit"}}

\* Complete up to its last insertion.
Insert(c) ==
    /\ call[c].pc = "insert"
    /\ LET request == RequestForBatch(call[c].batches[1])
           obs == call[c].reply.obs
       IN  \/ /\ ~Owned(c)
              /\ Fails(c, "lost")
           \/ /\ Owned(c)
              /\ request.kind = "range"
              /\ \E o \in obs : o.day \notin request.from..request.to
              /\ Fails(c, "refused")
           \/ /\ Owned(c)
              /\ request.kind = "range" =>
                    \A o \in obs : o.day \in request.from..request.to
              /\ Coordinates(obs) \cap LockedBy(Callers \ {c}) = {}
              /\ Becomes(c, [At(c, "commit") EXCEPT
                    !.inserts = {o \in obs : Current(o.series, o.day) # o.value}])
    /\ UNCHANGED <<today, store, provider, interrupts>>

\* Complete's guarded updates and its commit.
Commit(c) ==
    /\ call[c].pc = "commit"
    /\ LET batch == call[c].batches[1]
           request == RequestForBatch(batch)
           UnitOf(k) == CHOOSE u \in ToSet(batch) : u.key = k
           New(s, d) == {o \in call[c].inserts : o.series = s /\ o.day = d}
       IN  IF ~Owned(c)
           THEN Fails(c, "lost") /\ UNCHANGED <<row, history, imports>>
           ELSE /\ imports' = imports \cup
                      {[kind |-> request.kind, ids |-> ToSet(request.ids),
                        from |-> request.from, to |-> request.to,
                        answered |-> call[c].reply.answered,
                        stamp |-> call[c].reply.stamp]}
                /\ history' = [s \in Series |-> [d \in Days |->
                      IF New(s, d) = {} THEN history[s][d]
                      ELSE Append(history[s][d], (CHOOSE o \in New(s, d) : TRUE).value)]]
                /\ row' = [k \in Keys |->
                      IF k \in KeysOf(batch)
                      THEN Completed(UnitOf(k), row[k], request, call[c].reply.stamp)
                      ELSE row[k]]
                /\ Becomes(c, [At(c, IF Len(call[c].batches) = 1
                                     THEN "states" ELSE "fetch") EXCEPT
                                 !.batches = Tail(@), !.reply = NoReply, !.inserts = {}])
    /\ UNCHANGED <<today, blocked, provider, interrupts>>

\* Latest returns the error of resolve, or polls when a fetch is in progress.
GiveUp(c) ==
    Becomes(c, IF call[c].err = "cold"
               THEN [At(c, "states") EXCEPT !.got = {}, !.ready = {}, !.err = "none"]
               ELSE Failed(c, call[c].err))

\* An observation read, with the history note whether its unit was ready then.
Reading(c, known) ==
    LET s == call[c].series[call[c].i]
    IN  call[c].got \cup
          {[obs |-> o, ready |-> known \/ Ready(call[c].units[call[c].i],
                                                row[call[c].units[call[c].i].key])] :
              o \in LatestObserved(s)}

\* LatestObservations after an error, one statement per series.
ReadFallback(c) ==
    /\ call[c].pc = "fallback"
    /\ LET got == Reading(c, FALSE)
       IN  IF call[c].i < Len(call[c].series)
           THEN Becomes(c, [call[c] EXCEPT !.i = @ + 1, !.got = got])
           ELSE IF Cardinality(got) = Len(call[c].series)
           THEN Becomes(c, [At(c, "flags") EXCEPT !.got = got])
           ELSE GiveUp(c)
    /\ UNCHANGED <<today, store, provider, interrupts>>

\* States after them: a series that is not ready is flagged stale.
ReadFlag(c) ==
    /\ call[c].pc = "flags"
    /\ LET unit == call[c].units[call[c].i]
           next == [call[c] EXCEPT !.ready =
                       @ \cup (IF Ready(unit, row[unit.key]) THEN {unit.key} ELSE {})]
       IN  Becomes(c, IF call[c].i < Len(call[c].units)
                      THEN [next EXCEPT !.i = @ + 1]
                      ELSE [next EXCEPT !.pc = "done", !.i = 1])
    /\ UNCHANGED <<today, store, provider, interrupts>>

\* A storage error while Latest falls back.
FallbackBreaks(c) ==
    /\ call[c].pc \in {"fallback", "flags"}
    /\ interrupts < MaxInterrupts
    /\ interrupts' = interrupts + 1
    /\ GiveUp(c)
    /\ UNCHANGED <<today, store, provider>>

\* LatestObservations of a Latest whose units are ready.
ReadLatest(c) ==
    /\ call[c].pc = "read"
    /\ call[c].op = "latest"
    /\ LET next == [call[c] EXCEPT !.got = Reading(c, TRUE)]
       IN  Becomes(c, IF call[c].i < Len(call[c].series)
                      THEN [next EXCEPT !.i = @ + 1]
                      ELSE [next EXCEPT !.pc = "done", !.i = 1])
    /\ UNCHANGED <<today, store, provider, interrupts>>

\* RangeObservations, one statement.
ReadRange(c) ==
    /\ call[c].pc = "read"
    /\ call[c].op # "latest"
    /\ Becomes(c, [At(c, "done") EXCEPT !.got =
          {[obs |-> [series |-> x[1], day |-> x[2], value |-> Current(x[1], x[2])],
            ready |-> TRUE] : x \in {y \in ToSet(call[c].series) \X Days :
                                       /\ y[2] \in call[c].from..call[c].to
                                       /\ Current(y[1], y[2]) # 0}}])
    /\ UNCHANGED <<today, store, provider, interrupts>>

\* A crash or a cancelled context ends a call that holds leases (elsewhere the
\* call just ends, which changes nothing anybody sees); an error of the store
\* inside resolve makes Latest fall back.  The open transaction is rolled back
\* and the leases stay.
Interrupt(c) ==
    /\ call[c].pc \in {"baseline", "states", "claim", "check", "fetch", "block", "fail",
                       "insert", "commit"}
    /\ interrupts < MaxInterrupts
    /\ interrupts' = interrupts + 1
    /\ \/ call[c].batches # <<>> /\ Becomes(c, Failed(c, "interrupted"))
       \/ call[c].op = "latest" /\ Fails(c, "interrupted")
    /\ UNCHANGED <<today, store, provider>>

Step(c) ==
    \/ ReadBaseline(c) \/ ReadState(c) \/ Claim(c) \/ CheckBlocked(c) \/ Fetch(c)
    \/ BlockProvider(c) \/ FailUnit(c) \/ Insert(c) \/ Commit(c)
    \/ ReadFallback(c) \/ ReadFlag(c) \/ ReadLatest(c) \/ ReadRange(c)

(***************************************************************************)
(* Time.  A clock is read only where a statement compares with it, so it   *)
(* moves only when a call is at such a statement: a step earlier would be  *)
(* seen by nobody.                                                         *)
(***************************************************************************)
Looks(k, places) ==
    \E c \in Callers : call[c].pc \in places /\ k \in KeysOf(call[c].units)

LeaseLapses(k) ==
    /\ row[k].live
    /\ Looks(k, {"claim"})
    /\ row' = [row EXCEPT ![k].live = FALSE]
    /\ UNCHANGED <<today, history, imports, blocked, provider, call, interrupts>>

BackoffEnds(k) ==
    /\ ~row[k].due
    /\ Looks(k, {"claim"})
    /\ row' = [row EXCEPT ![k].due = TRUE]
    /\ UNCHANGED <<today, history, imports, blocked, provider, call, interrupts>>

FreshnessEnds(k) ==
    /\ row[k].fresh = "live"
    /\ fetches <= MaxRefreshes
    /\ Looks(k, {"states", "claim", "fallback", "flags"})
    /\ row' = [row EXCEPT ![k].fresh = "over"]
    /\ UNCHANGED <<today, history, imports, blocked, provider, call, interrupts>>

BlockEnds ==
    /\ blocked
    /\ \E c \in Callers : call[c].pc = "check"
    /\ blocked' = FALSE
    /\ UNCHANGED <<today, row, history, imports, provider, call, interrupts>>

\* What callers wait for.
WaitsEnd == BlockEnds \/ \E k \in Keys : LeaseLapses(k) \/ BackoffEnds(k)

NextDay ==
    /\ today < LastDay
    /\ \E c \in Callers : call[c].pc = "idle"
    /\ today' = today + 1
    /\ UNCHANGED <<store, provider, call, interrupts>>

(***************************************************************************)
(* Before the first call the store is empty, or holds the first day's      *)
(* observation of some series, fetched by Latest calls earlier.            *)
(***************************************************************************)
Init ==
    \E warm \in BOOLEAN : LET v == CHOOSE x \in Values : TRUE IN
        /\ today = FirstDay
        /\ published = [s \in Series |-> [d \in Days |-> IF d = 1 THEN v ELSE 0]]
        /\ changes = 0
        /\ row = [k \in Keys |-> IF warm /\ k.kind = "latest" /\ k.series \in WarmSeries
                                 THEN [NoRow EXCEPT !.done = 1, !.fresh = "live"]
                                 ELSE NoRow]
        /\ history = [s \in Series |-> [d \in Days |->
                         IF warm /\ s \in WarmSeries /\ d = 1 THEN <<v>> ELSE <<>>]]
        /\ imports = {}
        /\ blocked = FALSE
        /\ call = [c \in Callers |-> Idle]
        /\ fetches = 0
        /\ interrupts = 0

AllEnded == \A c \in Callers : call[c].pc = "done"

Ended == AllEnded /\ UNCHANGED vars

Next ==
    \/ \E c \in Callers : Begin(c) \/ Step(c) \/ FallbackBreaks(c) \/ Interrupt(c)
    \/ WaitsEnd
    \/ \E k \in Keys : FreshnessEnds(k)
    \/ NextDay
    \/ Ended

Spec == Init /\ [][Next]_vars

\* The servers keep running and clocks keep going; nobody has to call, publish
\* or be interrupted, and freshness may outlast the run.
FairSpec ==
    /\ Spec
    /\ \A c \in Callers : WF_vars(Step(c))
    /\ SF_vars(WaitsEnd)

(***************************************************************************)
(* Properties.                                                             *)
(***************************************************************************)
Places == {"idle", "baseline", "states", "claim", "check", "fetch", "block", "fail",
           "insert", "commit", "fallback", "flags", "read", "done"}
Errors == {"none", "cold", "invalid", "failed", "limited", "lost", "refused",
           "interrupted"}
Units == [key : Keys, fetchTo : 0..LastDay, permanent : BOOLEAN]
Rows == [holder : Callers \cup {NoCall}, live : BOOLEAN, due : BOOLEAN, done : Nat,
         fresh : {"null", "live", "over"}, covered : 0..LastDay, stamp : Nat]

\* Type correctness: the rows satisfy the table's checks (a latest row covers
\* no period, a range row none outside its month) and a call is where the code
\* can be.
TypeOK ==
    /\ today \in Days
    /\ published \in [Series -> [Days -> Values \cup {0}]]
    /\ changes \in 0..MaxChanges /\ interrupts \in 0..MaxInterrupts /\ fetches \in Nat
    /\ row \in [Keys -> Rows]
    /\ \A k \in Keys : row[k].covered # 0 =>
          k.kind = "range" /\ row[k].covered \in FirstOf(k.month)..LastOf(k.month)
    /\ \A s \in Series, d \in Days : ToSet(history[s][d]) \subseteq Values
    /\ blocked \in BOOLEAN
    /\ \A c \in Callers :
          /\ call[c].pc \in Places /\ call[c].err \in Errors
          /\ ToSet(call[c].units) \subseteq Units
          /\ call[c].ready \subseteq Keys

\* A response that took so long that its lease went to another call is never
\* recorded over a response fetched after it: the stamps of the responses a
\* unit completes with only grow (lease_nonce in Complete).
ResponsesInOrder ==
    [][\A k \in Keys : row'[k].stamp # row[k].stamp => row'[k].stamp > row[k].stamp]_vars

\* Two completions of different units never record the same value twice in a
\* row for a day of a series: consecutive revisions differ (the advisory locks
\* and the comparison with the current revision).
RevisionsDiffer ==
    \A s \in Series, d \in Days : \A n \in 1..(Len(history[s][d]) - 1) :
        history[s][d][n] # history[s][d][n + 1]

\* A call that was refused by the provider or was answered leaves no lease
\* behind for others to wait on; only a call the store failed does.
NoLeaseLeftBehind ==
    \A k \in Keys : row[k].live =>
        LET h == row[k].holder
        IN  \/ k \in KeysOf(FlattenSeq(call[h].batches))
            \/ call[h].err \in {"lost", "refused", "interrupted"}

\* Latest answers every series it was asked for or none.
AnswersAreComplete ==
    \A c \in Callers : call[c].pc = "done" /\ call[c].op = "latest" =>
        IF call[c].err = "none" \/ call[c].got # {}
        THEN Cardinality(call[c].got) = Len(call[c].series)
                /\ {g.obs.series : g \in call[c].got} = ToSet(call[c].series)
        ELSE TRUE

\* The recorded responses that answer a unit of a month.
ResponsesFor(key) ==
    {import \in imports : /\ import.kind = "range"
                          /\ key.series \in import.answered
                          /\ import.from = FirstOf(key.month)}

\* A Range or RevalidateRange that succeeds rests on recorded responses that
\* answered its series: for Range, each month it answers was asked of the provider
\* up to the last day the call could expect; for RevalidateRange, it was asked once
\* more than when the call began, though perhaps by a call that could expect less.
RangeAnswersWereAsked ==
    \A c \in Callers : call[c].pc = "done" /\ call[c].err = "none" =>
        \A unit \in ToSet(call[c].units) :
            /\ call[c].op = "range" =>
                  \E import \in ResponsesFor(unit.key) : import.to >= unit.fetchTo
            /\ call[c].op = "revalidate" =>
                  Cardinality(ResponsesFor(unit.key)) > call[c].base[unit.key]

\* A call that computed its units while their month was open and is still
\* polling after the month has closed.
Straddles(c) == \E unit \in ToSet(call[c].units) :
                    /\ unit.key.kind = "range"
                    /\ ~unit.permanent
                    /\ unit.key.month < Month(today)

\* No call polls forever: whoever holds a lease finishes or loses it, and
\* back-offs end.  The exception is a Range call over the end of a month: a
\* completion by a later call has no freshness period, and the SQL comparison
\* with it is NULL both in States and in Claim.
CallsEnd ==
    <>[]\A c \in Callers :
          \/ call[c].pc \in {"idle", "done"}
          \/ call[c].op = "range" /\ Straddles(c)

\* What the decision record says of Latest: stored data that is not flagged
\* stale was read when its unit was fresh, or is at least still current when
\* the call returns it.
StaleIsExplicit ==
    [][\A c \in Callers : call[c].pc = "flags" /\ call'[c].pc = "done" =>
          \A g \in call'[c].got :
              LET k == [kind |-> "latest", series |-> g.obs.series, month |-> 0]
              IN  k \in call'[c].ready =>
                      g.ready \/ g.obs \in LatestObserved(g.obs.series)]_vars
=============================================================================
