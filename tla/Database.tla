------------------------------ MODULE Database ------------------------------
(* The SQLite database that every goroutine of the program shares            *)
(* (internal/db, opened with foreign_keys=1, WAL and a pool of connections). *)
(* The program opens no transaction: each statement commits by itself, so a  *)
(* statement is one atomic step, and the handlers are sequences of them.     *)
EXTENDS Integers, FiniteSets

CONSTANTS
  Requests,      \* the HTTP requests that may reach the listener
  MaxScopes,     \* bound: scope ids handed out
  MaxRules,      \* bound: notification rule ids handed out
  Payloads,      \* the rule payloads operators submit (and find in an old database)
  Retentions,    \* the retention_days operators submit
  DefaultDays,   \* scheduler.New's defaultDays
  LogKeep,       \* notification_log rows the pruner keeps
  AuditKeep,     \* days the pruner keeps audit_log rows
  MaxDay,        \* bound: the clock stops there
  MaxFaults      \* bound: statements that fail (I/O error, lock wait over busy_timeout)

VARIABLES
  requests,      \* table requests
  scopes,        \* table scopes
  rules,         \* table notification_rules
  nlog, logSeq,  \* table notification_log and the last id it handed out
  settings,      \* table settings
  audit,         \* table audit_log
  total,         \* stats.total_captured
  faults,        \* statements that failed so far
  day            \* the wall clock, in days

tables == <<requests, scopes, rules, nlog, logSeq, settings, audit, total>>
dbVars == <<requests, scopes, rules, nlog, logSeq, settings, audit, total, faults, day>>

Days     == 1..MaxDay
ScopeIds == 1..MaxScopes
RuleIds  == 1..MaxRules

\* An id is "fresh" until AUTOINCREMENT hands it out, and never handed out again.
Life == {"fresh", "row", "gone"}

\* What a rule's pattern can tell apart is which requests it matches.
Payload    == [match: SUBSET Requests, enabled: BOOLEAN, priority: Int]
ScopeRow   == [state: Life, match: SUBSET Requests, enabled: BOOLEAN, priority: Int]
RuleRow    == [state: Life, match: SUBSET Requests, enabled: BOOLEAN]
RequestRow == [state: Life, saved: BOOLEAN, scope: 0..MaxScopes,
               notified: BOOLEAN, created: 0..MaxDay]     \* scope 0 is NULL
LogRow     == [id: Nat, rule: RuleIds, request: Requests]
Settings   == [auto: {"unset", "0", "1"}, days: Nat, lastFlush: 0..MaxDay]   \* no row: "unset", 0, 0

ASSUME DatabaseAssumption ==
  /\ IsFiniteSet(Requests)
  /\ MaxScopes \in Nat /\ MaxRules \in Nat
  /\ Payloads \subseteq Payload
  /\ Retentions \subseteq Nat \ {0} /\ DefaultDays \in Nat \ {0}
  /\ LogKeep \in Nat /\ AuditKeep \in Nat /\ MaxDay \in Nat \ {0} /\ MaxFaults \in Nat

NoRequest(state) == [state |-> state, saved |-> FALSE, scope |-> 0,
                     notified |-> FALSE, created |-> 0]
NoScope(state)   == [state |-> state, match |-> {}, enabled |-> FALSE, priority |-> 0]
NoRule(state)    == [state |-> state, match |-> {}, enabled |-> FALSE]

ScopeOf(p) == [state |-> "row", match |-> p.match, enabled |-> p.enabled, priority |-> p.priority]
RuleOf(p)  == [state |-> "row", match |-> p.match, enabled |-> p.enabled]

RequestRows == {r \in Requests : requests[r].state = "row"}
ScopeRows   == {s \in ScopeIds : scopes[s].state = "row"}
RuleRows    == {n \in RuleIds : rules[n].state = "row"}

OnlyRequests == UNCHANGED <<scopes, rules, nlog, logSeq, settings, audit, total, faults, day>>
OnlyScopes   == UNCHANGED <<requests, rules, nlog, logSeq, settings, audit, total, faults, day>>
OnlyRules    == UNCHANGED <<requests, scopes, nlog, logSeq, settings, audit, total, faults, day>>
OnlyLog      == UNCHANGED <<requests, scopes, rules, settings, audit, total, faults, day>>
OnlySettings == UNCHANGED <<requests, scopes, rules, nlog, logSeq, audit, total, faults, day>>
OnlyAudit    == UNCHANGED <<requests, scopes, rules, nlog, logSeq, settings, total, faults, day>>

(* A statement that returns an error leaves every table alone: a constraint  *)
(* refuses it, or the database fails.                                        *)
Refused(violation) == violation /\ UNCHANGED dbVars
Fault == faults < MaxFaults /\ faults' = faults + 1 /\ UNCHANGED <<tables, day>>
Fails(violation) == Refused(violation) \/ Fault

-----------------------------------------------------------------------------
(* The statements, table by table. The operators named ...Violation say when *)
(* a foreign key refuses the statement of the same name.                     *)

InsertRequest(r) ==
  /\ requests' = [requests EXCEPT ![r] = [state |-> "row", saved |-> FALSE, scope |-> 0,
                                         notified |-> FALSE, created |-> day]]
  /\ OnlyRequests

\* Mutant: an upsert, which brings back a deleted row.
UpsertRequest(r, row) ==
  /\ requests' = [requests EXCEPT ![r] = [row EXCEPT !.state = "row"]]
  /\ OnlyRequests

\* UPDATE requests SET ... WHERE id = r; no such row is no error.
UpdateRequest(r, row) ==
  /\ requests' = IF r \in RequestRows THEN [requests EXCEPT ![r] = row] ELSE requests
  /\ OnlyRequests

AttachViolation(r, s) == r \in RequestRows /\ s \notin ScopeRows

\* Mutant: sets scope_id and forgets saved.
AttachUnsaved(r, s) ==
  /\ ~AttachViolation(r, s)
  /\ UpdateRequest(r, [requests[r] EXCEPT !.scope = s])

Attach(r, s) ==
  /\ ~AttachViolation(r, s)
  /\ UpdateRequest(r, [requests[r] EXCEPT !.saved = TRUE, !.scope = s])

Detach(s) ==
  /\ requests' = [r \in Requests |-> IF requests[r].scope = s
                                     THEN [requests[r] EXCEPT !.scope = 0] ELSE requests[r]]
  /\ OnlyRequests

\* Mutants: foreign keys are not enforced (SQLite's default).
NoneReferred(D) == FALSE
NoViolation(i)  == FALSE

DeleteRequestsViolation(D) == \E e \in nlog : e.request \in D

DeleteRequests(D) ==
  /\ ~DeleteRequestsViolation(D)
  /\ requests' = [r \in Requests |-> IF r \in D \cap RequestRows
                                     THEN NoRequest("gone") ELSE requests[r]]
  /\ OnlyRequests

NextId(table, i) == table[i].state = "fresh" /\ \A j \in 1..(i-1) : table[j].state # "fresh"

WriteScope(i, row) == scopes' = [scopes EXCEPT ![i] = row] /\ OnlyScopes
WriteRule(i, row)  == rules' = [rules EXCEPT ![i] = row] /\ OnlyRules

DeleteScopeViolation(i) == \E r \in RequestRows : requests[r].scope = i
DeleteRuleViolation(i)  == \E e \in nlog : e.rule = i

InsertLogViolation(j) == j.rule \notin RuleRows \/ j.request \notin RequestRows

InsertLog(j) ==
  /\ ~InsertLogViolation(j)
  /\ nlog' = nlog \cup {[id |-> logSeq + 1, rule |-> j.rule, request |-> j.request]}
  /\ logSeq' = logSeq + 1
  /\ OnlyLog

DeleteLog(E) == nlog' = nlog \ E /\ UNCHANGED logSeq /\ OnlyLog

WriteSetting(row) == settings' = row /\ OnlySettings

\* audit_log is a set: two rows of one client, action and day are one element.
InsertAudit(action, ip, at) ==
  /\ audit' = audit \cup {[action |-> action, ip |-> ip, day |-> at]}
  /\ OnlyAudit

-----------------------------------------------------------------------------
DayTick == day < MaxDay /\ day' = day + 1 /\ UNCHANGED <<tables, faults>>

(* The database of an earlier run of the program may already hold scopes and *)
(* rules; their ids were handed out in order.                                *)
DatabaseInit ==
  /\ requests = [r \in Requests |-> NoRequest("fresh")]
  /\ \E n \in 0..MaxScopes, f \in [ScopeIds -> Payloads] :
       scopes = [i \in ScopeIds |-> IF i <= n THEN ScopeOf(f[i]) ELSE NoScope("fresh")]
  /\ \E n \in 0..MaxRules, f \in [RuleIds -> Payloads] :
       rules = [i \in RuleIds |-> IF i <= n THEN RuleOf(f[i]) ELSE NoRule("fresh")]
  /\ nlog = {} /\ logSeq = 0 /\ audit = {} /\ total = 0 /\ faults = 0 /\ day = 1
  /\ settings = [auto |-> "unset", days |-> 0, lastFlush |-> 0]

DatabaseTypeOK ==
  /\ requests \in [Requests -> RequestRow]
  /\ scopes \in [ScopeIds -> ScopeRow]
  /\ rules \in [RuleIds -> RuleRow]
  /\ nlog \subseteq LogRow /\ logSeq \in Nat
  /\ settings \in Settings
  /\ total \in Nat /\ faults \in 0..MaxFaults /\ day \in Days
=============================================================================
