--------------------------- MODULE MCServerProcess ---------------------------
(***************************************************************************)
(* Two calls at a server with a single connection, in the mixes that make  *)
(* them wait for one another.                                              *)
(***************************************************************************)
EXTENDS ServerProcess, TLC

CONSTANTS c1, c2

Ask(transport, op) ==
    [transport |-> transport, op |-> op, caller |-> "alice", bond |-> "b1",
     keys |-> IF op \in Mutations THEN <<"k1">> ELSE <<>>]

Pair(first, second) == (c1 :> first) @@ (c2 :> second)

MCMixes ==
    {Pair(Ask("gRPC", "list"), Ask("REST", "create")),
     Pair(Ask("REST", "list"), Ask("gRPC", "create")),
     Pair(Ask("REST", "quote"), Ask("gRPC", "create")),
     Pair(Ask("REST", "series"), Ask("gRPC", "health")),
     Pair(Ask("gRPC", "sweep"), [Ask("REST", "health") EXCEPT !.keys = <<"k1">>])}

\* Bob lists one offer of the bond after the other; Alice has one of her own,
\* and there is one of another bond.
MCOffers == {"o1", "o2", "own", "other"}
MCInitialOffers == {"o1", "own", "other"}
MCSellerOf == [o \in MCOffers |-> IF o = "own" THEN "alice" ELSE "bob"]
MCBondOf == [o \in MCOffers |-> IF o = "other" THEN "b2" ELSE "b1"]

Assertion(c, op, nonce) ==
    [verified |-> TRUE, addressed |-> TRUE, iat |-> 1, nbf |-> 1, exp |-> 3,
     op |-> op, request |-> c, nonce |-> nonce]

MCPresented ==
    {Assertion(c, op, nonce) :
        c \in {c1, c2}, op \in Operations, nonce \in {"", "k1"}}

==============================================================================
