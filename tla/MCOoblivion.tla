----------------------------- MODULE MCOoblivion -----------------------------
(* Values for the constants of Ooblivion that a configuration cannot write.  *)
EXTENDS Ooblivion, TLC

\* A payload that matches every request, and one that is disabled.
Matching == [match |-> Requests, enabled |-> TRUE, priority |-> 0]
Disabled == [match |-> Requests, enabled |-> FALSE, priority |-> 1]

MatchAll       == {Matching}
MatchOrNot     == {Matching, Disabled}

RetentionOps   == {"flush", "settings"}
KeepingOps     == {"save", "unsave", "delete", "bulk_delete", "flush"}
DroppingOps    == {"delete", "rule_delete"}
FlushOnly      == {"flush"}
DeleteOnly     == {"delete"}
ScopeDelete    == {"scope_delete"}

Interchangeable == Permutations(Requests) \cup Permutations(Handlers)
=============================================================================
