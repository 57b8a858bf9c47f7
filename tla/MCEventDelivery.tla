--------------------------- MODULE MCEventDelivery ---------------------------
(***************************************************************************)
(* Small instances of EventDelivery: attempts that follow a mutation and   *)
(* its replay, and sweeps that overlap with them and with each other.      *)
(***************************************************************************)
EXTENDS EventDelivery

Attempt(id, e) ==
    [id |-> id, events |-> {e}, destinations |-> Destinations]
Sweep(id, ds) == [id |-> id, events |-> {}, destinations |-> ds]

\* Two sweeps meet; with a batch of one every scan is a full batch.
TwoSweeps == {Sweep(1, Destinations), Sweep(2, Destinations)}

\* One attempt and one sweep.
AttemptAndSweep == {Attempt(1, 1), Sweep(2, Destinations)}

=============================================================================
