--------------------------- MODULE MCRateService ---------------------------
(* Two calls over two series, months of two days. *)
EXTENDS RateService

CONSTANTS c1, c2

AskLatest(series) == [op |-> "latest", series |-> series, from |-> 0, to |-> 0]
AskRange(series, from, to) == [op |-> "range", series |-> series, from |-> from, to |-> to]
AskAgain(series, from, to) == [AskRange(series, from, to) EXCEPT !.op = "revalidate"]

MCRequests == (c1 :> {AskLatest({1, 2}), AskRange({1}, 1, 2)}) @@
              (c2 :> {AskLatest({1}), AskLatest({}), AskRange({1}, 1, 2), AskAgain({1}, 1, 2)})

\* The first day's observation of the first series is corrected.
MCVolatile == {<<1, 1>>}
============================================================================
