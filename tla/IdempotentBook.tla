--------------------------- MODULE IdempotentBook ---------------------------
(***************************************************************************)
(* What reporting a fill promises its clients (the docstring of            *)
(* AccountRepo.record_fill): a report names an operation, and              *)
(*   - an operation is booked at most once, and for good;                  *)
(*   - "created" is said once per operation, "existing" any number of      *)
(*     times, and both only of a report that equals what is booked;        *)
(*   - "refused" only of a report that differs from what is booked.        *)
(* A client that hears nothing may report again: it cannot do harm.        *)
(***************************************************************************)
EXTENDS Naturals

CONSTANTS
    Ops,        \* operation_id
    Reports     \* the other fields of a report

VARIABLES
    book,       \* operation -> the report it was booked with
    created,    \* operation -> how many clients were told that they booked it
    existing,   \* the <<operation, report>> answered as booked before
    refused     \* the <<operation, report>> refused

bvars == <<book, created, existing, refused>>

Init ==
    /\ book = << >>
    /\ created = [o \in Ops |-> 0]
    /\ existing = {}
    /\ refused = {}

Book(op, report) ==
    /\ op \notin DOMAIN book
    /\ book' = [o \in DOMAIN book \cup {op} |-> IF o = op THEN report ELSE book[o]]
    /\ UNCHANGED <<created, existing, refused>>

AnswerCreated(op) ==
    /\ op \in DOMAIN book /\ created[op] = 0
    /\ created' = [created EXCEPT ![op] = @ + 1]
    /\ UNCHANGED <<book, existing, refused>>

AnswerExisting(op, report) ==
    /\ op \in DOMAIN book /\ book[op] = report
    /\ existing' = existing \cup {<<op, report>>}
    /\ UNCHANGED <<book, created, refused>>

Refuse(op, report) ==
    /\ op \in DOMAIN book /\ book[op] # report
    /\ refused' = refused \cup {<<op, report>>}
    /\ UNCHANGED <<book, created, existing>>

Next == \E op \in Ops, report \in Reports :
            \/ Book(op, report)
            \/ AnswerCreated(op)
            \/ AnswerExisting(op, report)
            \/ Refuse(op, report)

Spec == Init /\ [][Next]_bvars

=============================================================================
