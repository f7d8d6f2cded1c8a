------------------------------ MODULE MCRefiner ------------------------------
(* A small instance of Refiner for TLC. *)
EXTENDS Refiner

MCFields == {"entry", "notes"}

\* A skill or lesson that the model writes is not the seed's.
MCWritings == {[entry |-> "t0", notes |-> "t1"]}

\* A patch of one field, and one of both, the second back to what the seed says.
MCPatches == {[entry |-> "t1"], [entry |-> "t1", notes |-> "t0"]}
=============================================================================
