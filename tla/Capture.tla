------------------------------ MODULE Capture -------------------------------
(* internal/capture: one handler goroutine per captured request stores it,   *)
(* then classifies it: the first enabled scope that matches saves it, every  *)
(* enabled notification rule that matches queues an alert.                   *)
EXTENDS Telegram

VARIABLES
  pc,            \* pc[r]: the next step of the handler of request r
  pick,          \* pick[r]: applyScope's matchedID, 0 when nil
  todo           \* todo[r]: the rules of applyNotifications' result set still to come

capVars == <<pc, pick, todo>>

CaptureSteps == {"count", "scopes", "attach", "rules", "enqueue", "notified"}
\* "rejected": Store failed; "aborted": Classify returned an error; "lost": a crash.
CaptureEnds  == {"done", "rejected", "aborted", "lost"}

CaptureInit ==
  /\ pc = [r \in Requests |-> "new"]
  /\ pick = [r \in Requests |-> 0]
  /\ todo = [r \in Requests |-> {}]

Goto(r, step) == pc' = [pc EXCEPT ![r] = step]

\* Mutant: counts the capture even if the INSERT failed.
StoreUnchecked(r) ==
  /\ pc[r] = "new" /\ Goto(r, "count")
  /\ InsertRequest(r) \/ Fault
  /\ UNCHANGED <<pick, todo, tgVars>>

\* Store stamps created_at and inserts the row.
Store(r) ==
  /\ pc[r] = "new"
  /\ \/ InsertRequest(r) /\ Goto(r, "count")
     \/ Fault /\ Goto(r, "rejected")
  /\ UNCHANGED <<pick, todo, tgVars>>

\* Mutant: the counter is the number of rows.
CountRows(r) ==
  /\ pc[r] = "count" /\ Goto(r, "scopes") /\ total' = Cardinality(RequestRows)
  /\ UNCHANGED <<requests, scopes, rules, nlog, logSeq, settings, audit, faults, day>>
  /\ UNCHANGED <<pick, todo, tgVars>>

\* Store's UPDATE stats, whose error is ignored.
CountCapture(r) ==
  /\ pc[r] = "count" /\ Goto(r, "scopes")
  /\ \/ total' = total + 1 /\ UNCHANGED <<requests, scopes, rules, nlog, logSeq, settings,
                                          audit, faults, day>>
     \/ Fault
  /\ UNCHANGED <<pick, todo, tgVars>>

\* matcher.Matches, of the request and the pattern of a scope or a rule.
Matches(r, row) == r \in row.match

MatchingScopes(r) == {s \in ScopeRows : scopes[s].enabled /\ Matches(r, scopes[s])}
MatchingRules(r)  == {n \in RuleRows : rules[n].enabled /\ Matches(r, rules[n])}

\* ORDER BY priority DESC, id ASC
Precedes(s, t) == \/ scopes[s].priority > scopes[t].priority
                  \/ scopes[s].priority = scopes[t].priority /\ s < t

\* applyScope's SELECT, scanned up to the first match.
MatchScopes(r) ==
  /\ pc[r] = "scopes"
  /\ \/ /\ MatchingScopes(r) = {} /\ Goto(r, "rules")
        /\ UNCHANGED <<pick, dbVars>>
     \/ \E s \in MatchingScopes(r) :
          /\ \A t \in MatchingScopes(r) \ {s} : Precedes(s, t)
          /\ pick' = [pick EXCEPT ![r] = s] /\ Goto(r, "attach")
          /\ UNCHANGED dbVars
     \/ Fault /\ Goto(r, "aborted") /\ UNCHANGED pick
  /\ UNCHANGED <<todo, tgVars>>

\* applyScope's UPDATE. The scope it read may be gone, and so may the request.
ApplyScope(r) ==
  /\ pc[r] = "attach"
  /\ \/ Attach(r, pick[r]) /\ Goto(r, "rules")
     \/ Fails(AttachViolation(r, pick[r])) /\ Goto(r, "aborted")
  /\ UNCHANGED <<pick, todo, tgVars>>

\* applyNotifications' SELECT: the loop reads one snapshot of the rules.
MatchRules(r) ==
  /\ pc[r] = "rules"
  /\ \/ /\ todo' = [todo EXCEPT ![r] = MatchingRules(r)]
        /\ Goto(r, IF MatchingRules(r) = {} THEN "done" ELSE "enqueue")
        /\ UNCHANGED dbVars
     \/ Fault /\ Goto(r, "aborted") /\ UNCHANGED todo
  /\ UNCHANGED <<pick, tgVars>>

\* One turn of its loop, ORDER BY id ASC. Reading the next row may fail.
EnqueueNext(r) ==
  /\ pc[r] = "enqueue"
  /\ \/ \E n \in todo[r] :
          /\ \A m \in todo[r] : n <= m
          /\ Enqueue([rule |-> n, request |-> r])
          /\ todo' = [todo EXCEPT ![r] = @ \ {n}]
          /\ Goto(r, IF todo[r] = {n} THEN "notified" ELSE "enqueue")
          /\ UNCHANGED dbVars
     \/ Fault /\ Goto(r, "aborted") /\ todo' = [todo EXCEPT ![r] = {}] /\ UNCHANGED tgVars
  /\ UNCHANGED pick

\* Its final UPDATE. The handler answers 200 whatever Classify returned.
MarkNotified(r) ==
  /\ pc[r] = "notified"
  /\ \/ UpdateRequest(r, [requests[r] EXCEPT !.notified = TRUE]) /\ Goto(r, "done")
     \/ Fault /\ Goto(r, "aborted")
  /\ UNCHANGED <<pick, todo, tgVars>>

CaptureStep(r) == \/ CountCapture(r) \/ MatchScopes(r) \/ ApplyScope(r)
                  \/ MatchRules(r) \/ EnqueueNext(r) \/ MarkNotified(r)

CaptureTypeOK ==
  /\ pc \in [Requests -> CaptureSteps \cup CaptureEnds \cup {"new"}]
  /\ pick \in [Requests -> 0..MaxScopes]
  /\ todo \in [Requests -> SUBSET RuleIds]
=============================================================================
