----------------------------- MODULE MCConsole -----------------------------
(* Console with two liaisons over the night summer time begins. *)
EXTENDS Console

Late(liaison, at, delay) == [liaison |-> liaison, at |-> at, kind |-> "delay", delay |-> delay]
Gone(liaison, at) == [liaison |-> liaison, at |-> at, kind |-> "cancellation", delay |-> 0]
\* Summer time begins on day 2; day 3 begins at 70, day 4 at 94 (UTC).
MCHistory == {Late("a", 71, 1), Gone("b", 70), Late("a", 94, 0)}
MCOnTime(day, liaison) == IF day = 3 THEN 4 ELSE 0
=============================================================================
