------------------------------- MODULE LiveDb -------------------------------
(***************************************************************************)
(* What the two halves of live.db share (youzi/store/db.py).               *)
(*                                                                         *)
(* A request opens a connection of its own to one SQLite file in WAL mode, *)
(* so readers see committed rows only and there is one writer at a time.   *)
(* A call in progress occupies a slot, in the function of the calls of its *)
(* kind, with what it has read so far.                                     *)
(***************************************************************************)
CONSTANTS
    Accounts,    \* account_id
    Slots        \* calls in progress at the same time

With(kind, c, row) == [x \in DOMAIN kind \cup {c} |-> IF x = c THEN row ELSE kind[x]]

Without(kind, c) == [x \in DOMAIN kind \ {c} |-> kind[x]]

=============================================================================
