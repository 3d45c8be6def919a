---------------------------- MODULE RequestLife -----------------------------
(* What the console promises about captured requests (README, "Retention and *)
(* flush"), without tables, handlers or locks: a request is captured once;   *)
(* it may be kept; flushes drop raw requests, never kept ones; only an       *)
(* operator who names a kept request makes it raw again or deletes it; and a *)
(* request that is gone stays gone.                                          *)
CONSTANT Requests

VARIABLES
  life,     \* life[r]: "fresh" (not captured), "raw", "kept" or "gone"
  asked     \* the requests operators name in operations to un-save or delete

Init == life = [r \in Requests |-> "fresh"] /\ asked = {}

Capture == /\ \E r \in Requests : life[r] = "fresh" /\ life' = [life EXCEPT ![r] = "raw"]
           /\ UNCHANGED asked

\* By a scope, or by an operator.
Keep == /\ \E r \in Requests : life[r] = "raw" /\ life' = [life EXCEPT ![r] = "kept"]
        /\ asked' \in SUBSET Requests

Unkeep == /\ \E r \in asked' : life[r] = "kept" /\ life' = [life EXCEPT ![r] = "raw"]
          /\ asked' \in SUBSET Requests

Drop(S) == life' = [r \in Requests |-> IF r \in S THEN "gone" ELSE life[r]]

Flush == \E S \in SUBSET {r \in Requests : life[r] = "raw"} : Drop(S) /\ UNCHANGED asked

Delete == /\ \E S \in SUBSET {r \in Requests : life[r] \in {"raw", "kept"}} :
               Drop(S) /\ S \subseteq asked'
          /\ asked' \in SUBSET Requests

\* Operators come and are answered.
Ask == asked' \in SUBSET Requests /\ UNCHANGED life

Next == Capture \/ Keep \/ Unkeep \/ Flush \/ Delete \/ Ask

Spec == Init /\ [][Next]_<<life, asked>>
=============================================================================
