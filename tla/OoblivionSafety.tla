-------------------------- MODULE OoblivionSafety ---------------------------
(* Safety theorems about Ooblivion. The argument: whatever goroutine moves,  *)
(* what it does to the tables is one of a dozen statements, with what the    *)
(* caller knows when it issues it (Statement); so an invariant of the tables *)
(* is proved once per statement, not once per handler.                       *)
EXTENDS OoblivionTypes

LifeTables == <<requests, scopes, rules, nlog>>

\* The row of a scope or rule appears, stays as alive as it was, or is deleted
\* while nothing refers to it.
Statement ==
  \/ UNCHANGED LifeTables
  \/ \E r \in Requests : pc[r] = "new" /\ pc'[r] # "new" /\ InsertRequest(r) /\ UNCHANGED adm
  \/ \E r \in Requests, s \in 0..MaxScopes : Attach(r, s)
  \/ \E r \in Requests : UpdateRequest(r, [requests[r] EXCEPT !.saved = TRUE])
  \/ \E r \in Requests : UpdateRequest(r, [requests[r] EXCEPT !.notified = TRUE])
  \/ \E r \in Requests : /\ UpdateRequest(r, [requests[r] EXCEPT !.saved = FALSE, !.scope = 0])
                         /\ AskedFor(r)
  \/ \E D \in SUBSET Requests : /\ DeleteRequests(D)
                                /\ \/ (\A r \in D : ~requests[r].saved) /\ UNCHANGED adm
                                   \/ \A r \in D : AskedFor(r)
  \/ \E s \in ScopeIds : Detach(s)
  \/ \E i \in ScopeIds, row \in ScopeRow :
       /\ WriteScope(i, row)
       /\ row.state \in {"row", scopes[i].state} \/ ~DeleteScopeViolation(i)
  \/ \E i \in RuleIds, row \in RuleRow :
       /\ WriteRule(i, row)
       /\ row.state \in {"row", rules[i].state} \/ ~DeleteRuleViolation(i)
  \/ \E j \in Jobs : InsertLog(j)
  \/ \E E \in SUBSET nlog : DeleteLog(E)

LEMMA ServeAsks ==
  ASSUME AdminTypeOK, NEW h \in Handlers, NEW op \in {"unsave", "delete", "bulk_delete"},
         NEW on \in SUBSET Requests, Serve(h, op, on, 0, "audit")
  PROVE  \A r \in on : AskedFor(r)
<1>1. adm'[h] = [pc |-> "audit", op |-> op, on |-> on, id |-> 0]
  BY DEF Serve, AdminTypeOK
<1>2. adm'[h] # adm[h]
  BY <1>1 DEF Serve
<1> QED  BY <1>1, <1>2 DEF AskedFor

LEMMA NoStatement == Fault \/ UNCHANGED dbVars => UNCHANGED LifeTables
BY DEF Fault, tables, dbVars, LifeTables

LEMMA CaptureStatement ==
  ASSUME TypeOK, NEW r \in Requests, Capturing(r) PROVE Statement
<1> USE NoStatement DEF Statement
<1>1. CASE Arrive(r)
  <2>1. pc \in [Requests -> CaptureSteps \cup CaptureEnds \cup {"new"}] /\ UNCHANGED adm
    BY DEF TypeOK, CaptureTypeOK, Capturing, admVars
  <2> QED  BY <1>1, <2>1 DEF Arrive, Store, Goto
<1>2. CASE CountCapture(r)
  BY <1>2 DEF CountCapture, LifeTables
<1>3. CASE MatchScopes(r)
  BY <1>3 DEF MatchScopes
<1>4. CASE ApplyScope(r)
  <2>1. pick[r] \in 0..MaxScopes
    BY DEF TypeOK, CaptureTypeOK
  <2> QED  BY <1>4, <2>1 DEF ApplyScope, Fails, Refused
<1>5. CASE MatchRules(r)
  BY <1>5 DEF MatchRules
<1>6. CASE EnqueueNext(r)
  BY <1>6 DEF EnqueueNext
<1>7. CASE MarkNotified(r)
  BY <1>7 DEF MarkNotified
<1> QED  BY <1>1, <1>2, <1>3, <1>4, <1>5, <1>6, <1>7 DEF Capturing, CaptureStep

LEMMA SendStatement == ASSUME TypeOK, Sending \/ Arriving PROVE Statement
<1> USE NoStatement DEF Statement
<1>1. CASE Receive
  BY <1>1 DEF Receive
<1>2. CASE Post
  BY <1>2 DEF Post
<1>3. CASE LogEvent
  <2>1. logging \subseteq Jobs
    BY DEF TypeOK, TelegramTypeOK
  <2> QED  BY <1>3, <2>1 DEF LogEvent, Fails, Refused
<1>4. CASE AcceptLate
  BY <1>4 DEF AcceptLate
<1> QED  BY <1>1, <1>2, <1>3, <1>4 DEF Sending, Send, Arriving

LEMMA FlushStatement ==
  ASSUME TypeOK, NEW p \in Flushers, FlushStep(p), UNCHANGED adm PROVE Statement
<1> USE NoStatement DEF Statement
<1>1. CASE FlushLog(p)
  BY <1>1 DEF FlushLog
<1>2. CASE FlushRows(p)
  <2>1. Due(p) \in SUBSET Requests /\ \A r \in Due(p) : ~requests[r].saved
    BY DEF Due, RequestRows
  <2> QED  BY <1>2, <2>1 DEF FlushRows, Fails, Refused
<1>3. CASE FlushSetting(p)
  BY <1>3 DEF FlushSetting, WriteSetting, OnlySettings, LifeTables
<1>4. CASE FlushAudit(p)
  BY <1>4 DEF FlushAudit, InsertAudit, OnlyAudit, LifeTables
<1> QED  BY <1>1, <1>2, <1>3, <1>4 DEF FlushStep

LEMMA SchedStatement == ASSUME TypeOK, Scheduling PROVE Statement
<1> USE NoStatement DEF Statement
<1>1. CASE CheckEnabled
  BY <1>1 DEF CheckEnabled
<1>2. CASE Boundary
  BY <1>2 DEF Boundary
<1>3. CASE FlushStep(Sched)
  BY <1>3, FlushStatement DEF Flushers, Scheduling, admVars
<1>4. CASE PruneNotificationLog
  BY <1>4 DEF PruneNotificationLog
<1>5. CASE PruneAuditLog
  BY <1>5 DEF PruneAuditLog, OnlyAudit, LifeTables
<1> QED  BY <1>1, <1>2, <1>3, <1>4, <1>5 DEF Scheduling, SchedStep

LEMMA OperateStatement == ASSUME TypeOK, NEW h \in Handlers, Operate(h) PROVE Statement
<1> USE NoStatement DEF Statement
<1>0. AdminTypeOK /\ DatabaseTypeOK
  BY DEF TypeOK
<1>1. ASSUME NEW r \in Requests, Save(h, r) PROVE Statement
  BY <1>1 DEF Save
<1>2. ASSUME NEW r \in Requests, Unsave(h, r) PROVE Statement
  <2>1. CASE Fault
    BY <2>1
  <2>2. CASE /\ UpdateRequest(r, [requests[r] EXCEPT !.saved = FALSE, !.scope = 0])
             /\ Serve(h, "unsave", {r}, 0, "audit")
    BY <1>0, <2>2, ServeAsks
  <2> QED  BY <1>2, <2>1, <2>2 DEF Unsave
<1>3. ASSUME NEW D \in SUBSET Requests, NEW op \in {"delete", "bulk_delete"}, Delete(h, op, D)
      PROVE  Statement
  <2>1. CASE Fault \/ UNCHANGED dbVars
    BY <2>1
  <2>2. CASE DeleteRequests(D) /\ Serve(h, op, D, 0, "audit")
    <3>1. \A r \in D : AskedFor(r)
      BY <1>0, <2>2, ServeAsks
    <3> QED  BY <2>2, <3>1
  <2> QED  BY <1>3, <2>1, <2>2 DEF Delete, Fails, Refused
<1>4. CASE FlushRequests(h)
  BY <1>4 DEF FlushRequests
<1>5. ASSUME NEW i \in ScopeIds, NEW p \in Payloads, CreateScope(h, i, p) \/ UpdateScope(h, i, p)
      PROVE  Statement
  <2>1. scopes[i] \in ScopeRow /\ ScopeOf(p) \in ScopeRow /\ ScopeOf(p).state = "row"
    BY <1>0, PayloadType DEF DatabaseTypeOK, ScopeOf
  <2>2. CASE Fault
    BY <2>2
  <2>3. CASE \E row \in {ScopeOf(p), scopes[i]} : WriteScope(i, row)
    BY <2>1, <2>3
  <2> QED  BY <1>5, <2>2, <2>3 DEF CreateScope, UpdateScope
<1>6. ASSUME NEW i \in ScopeIds, ToggleScope(h, i) PROVE Statement
  <2>1. scopes[i] \in ScopeRow
    BY <1>0 DEF DatabaseTypeOK
  <2>2. /\ [scopes[i] EXCEPT !.enabled = ~@] \in ScopeRow
        /\ [scopes[i] EXCEPT !.enabled = ~@].state = scopes[i].state
    BY <2>1 DEF ScopeRow
  <2>3. CASE Fault
    BY <2>3
  <2>4. CASE \E row \in {[scopes[i] EXCEPT !.enabled = ~@], scopes[i]} : WriteScope(i, row)
    BY <2>1, <2>2, <2>4
  <2> QED  BY <1>6, <2>3, <2>4 DEF ToggleScope
<1>7. ASSUME NEW i \in ScopeIds, DeleteScope(h, i) PROVE Statement
  BY <1>7 DEF DeleteScope
<1>8. ASSUME NEW i \in RuleIds, NEW p \in Payloads, CreateRule(h, i, p) \/ UpdateRule(h, i, p)
      PROVE  Statement
  <2>1. rules[i] \in RuleRow /\ RuleOf(p) \in RuleRow /\ RuleOf(p).state = "row"
    BY <1>0, PayloadType DEF DatabaseTypeOK, RuleOf
  <2>2. CASE Fault
    BY <2>2
  <2>3. CASE \E row \in {RuleOf(p), rules[i]} : WriteRule(i, row)
    BY <2>1, <2>3
  <2> QED  BY <1>8, <2>2, <2>3 DEF CreateRule, UpdateRule
<1>9. ASSUME NEW i \in RuleIds, ToggleRule(h, i) PROVE Statement
  <2>1. rules[i] \in RuleRow
    BY <1>0 DEF DatabaseTypeOK
  <2>2. /\ [rules[i] EXCEPT !.enabled = ~@] \in RuleRow
        /\ [rules[i] EXCEPT !.enabled = ~@].state = rules[i].state
    BY <2>1 DEF RuleRow
  <2>3. CASE Fault
    BY <2>3
  <2>4. CASE \E row \in {[rules[i] EXCEPT !.enabled = ~@], rules[i]} : WriteRule(i, row)
    BY <2>1, <2>2, <2>4
  <2> QED  BY <1>9, <2>3, <2>4 DEF ToggleRule
<1>10. ASSUME NEW i \in RuleIds, DeleteRule(h, i) PROVE Statement
  BY <1>10 DEF DeleteRule
<1>11. ASSUME NEW days, NEW auto, PutSettings(h, days, auto) PROVE Statement
  BY <1>11 DEF PutSettings, WriteSetting, OnlySettings, LifeTables
<1>12. \A r \in Requests : {r} \in SUBSET Requests
  OBVIOUS
<1> QED
  BY <1>1, <1>2, <1>3, <1>4, <1>5, <1>6, <1>7, <1>8, <1>9, <1>10, <1>11, <1>12 DEF Operate

LEMMA AdminStatement == ASSUME TypeOK, NEW h \in Handlers, AdminStep(h) PROVE Statement
<1> USE NoStatement DEF Statement
<1>0. DatabaseTypeOK
  BY DEF TypeOK
<1>1. CASE DeleteScopeRow(h)
  <2> DEFINE i == adm[h].id
  <2>1. NoScope("gone") \in ScopeRow
    BY DEF NoScope, ScopeRow, Life
  <2>2. CASE Fault \/ UNCHANGED dbVars
    BY <2>2
  <2>3. CASE i \in ScopeRows /\ ~DeleteScopeViolation(i) /\ WriteScope(i, NoScope("gone"))
    BY <2>1, <2>3 DEF ScopeRows
  <2>4. CASE i \notin ScopeRows /\ WriteScope(i, scopes[i])
    BY <1>0, <2>4 DEF WriteScope, OnlyScopes, LifeTables, DatabaseTypeOK
  <2> QED  BY <1>1, <2>2, <2>3, <2>4 DEF DeleteScopeRow, Fails, Refused
<1>2. CASE DeleteRuleRow(h)
  <2> DEFINE i == adm[h].id
  <2>1. NoRule("gone") \in RuleRow
    BY DEF NoRule, RuleRow, Life
  <2>2. CASE Fault \/ UNCHANGED dbVars
    BY <2>2
  <2>3. CASE i \in RuleRows /\ ~DeleteRuleViolation(i) /\ WriteRule(i, NoRule("gone"))
    BY <2>1, <2>3 DEF RuleRows
  <2>4. CASE i \notin RuleRows /\ WriteRule(i, rules[i])
    BY <1>0, <2>4 DEF WriteRule, OnlyRules, LifeTables, DatabaseTypeOK
  <2> QED  BY <1>2, <2>2, <2>3, <2>4 DEF DeleteRuleRow, Fails, Refused
<1>3. CASE PutAutoFlush(h)
  BY <1>3 DEF PutAutoFlush, WriteSetting, OnlySettings, LifeTables
<1>4. CASE LogAudit(h)
  BY <1>4 DEF LogAudit, InsertAudit, OnlyAudit, LifeTables
<1>5. CASE AnswerFlush(h)
  BY <1>5 DEF AnswerFlush, dbVars, LifeTables
<1> QED  BY <1>1, <1>2, <1>3, <1>4, <1>5 DEF AdminStep

LEMMA NextStatement == TypeOK /\ [Next]_vars => Statement
<1> SUFFICES ASSUME TypeOK, [Next]_vars PROVE Statement  OBVIOUS
<1>1. CASE Boot \/ BootFails \/ Listen \/ SchedTick \/ Crash \/ UNCHANGED vars
  BY <1>1, NoStatement DEF Boot, BootFails, Listen, SchedTick, Crash, vars, Statement
<1>2. CASE Ticking
  BY <1>2 DEF Ticking, DayTick, tables, LifeTables, Statement
<1>3. ASSUME NEW h \in Handlers, Serving(h) PROVE Statement
  BY <1>3, OperateStatement, AdminStatement, FlushStatement
  DEF Serving, Request, AdminFlushStep, Flushers, admVars
<1> QED
  BY <1>1, <1>2, <1>3, SendStatement, SchedStatement, CaptureStatement DEF Next

-----------------------------------------------------------------------------
(* The tables: references and saved scopes.                                  *)
LEMMA StatementScopedAreSaved ==
  ASSUME DatabaseTypeOK, ScopedAreSaved, Statement PROVE ScopedAreSaved'
<1> USE DEF ScopedAreSaved, DatabaseTypeOK
<1> SUFFICES ASSUME NEW r \in Requests PROVE requests'[r].scope # 0 => requests'[r].saved
  OBVIOUS
<1>0. requests[r] \in RequestRow
  OBVIOUS
<1>1. CASE UNCHANGED requests
  BY <1>1
<1>2. ASSUME NEW q \in Requests, InsertRequest(q) PROVE requests'[r].scope # 0 => requests'[r].saved
  BY <1>2 DEF InsertRequest
<1>3. ASSUME NEW q \in Requests, NEW s \in 0..MaxScopes, Attach(q, s)
      PROVE  requests'[r].scope # 0 => requests'[r].saved
  BY <1>0, <1>3 DEF Attach, UpdateRequest, RequestRow
<1>4. ASSUME NEW q \in Requests,
             \/ UpdateRequest(q, [requests[q] EXCEPT !.saved = TRUE])
             \/ UpdateRequest(q, [requests[q] EXCEPT !.notified = TRUE])
             \/ UpdateRequest(q, [requests[q] EXCEPT !.saved = FALSE, !.scope = 0])
      PROVE  requests'[r].scope # 0 => requests'[r].saved
  BY <1>0, <1>4 DEF UpdateRequest, RequestRow
<1>5. ASSUME NEW D \in SUBSET Requests, DeleteRequests(D)
      PROVE  requests'[r].scope # 0 => requests'[r].saved
  BY <1>5 DEF DeleteRequests, NoRequest
<1>6. ASSUME NEW s \in ScopeIds, Detach(s) PROVE requests'[r].scope # 0 => requests'[r].saved
  BY <1>0, <1>6 DEF Detach, RequestRow
<1> QED
  BY <1>1, <1>2, <1>3, <1>4, <1>5, <1>6
  DEF Statement, LifeTables, WriteScope, OnlyScopes, WriteRule, OnlyRules, InsertLog, DeleteLog, OnlyLog
LEMMA StatementNoDangling ==
  ASSUME DatabaseTypeOK, NoDanglingReferences, Statement PROVE NoDanglingReferences'
<1> USE DEF DatabaseTypeOK
<1>1. CASE UNCHANGED LifeTables
  BY <1>1 DEF LifeTables, NoDanglingReferences, RequestRows, ScopeRows, RuleRows
<1>2. ASSUME NEW q \in Requests, InsertRequest(q) PROVE NoDanglingReferences'
  BY <1>2 DEF InsertRequest, OnlyRequests, NoDanglingReferences, RequestRows, ScopeRows, RuleRows
<1>3. ASSUME NEW q \in Requests, NEW row \in RequestRow, UpdateRequest(q, row),
             row.state = requests[q].state,
             row.scope = 0 \/ row.scope = requests[q].scope \/ row.scope \in ScopeRows
      PROVE  NoDanglingReferences'
  <2>1. ScopeRows' = ScopeRows /\ RuleRows' = RuleRows /\ nlog' = nlog
    BY <1>3 DEF UpdateRequest, OnlyRequests, ScopeRows, RuleRows
  <2>2. RequestRows' = RequestRows
    <3>1. \A r \in Requests : requests'[r].state = requests[r].state
      BY <1>3 DEF UpdateRequest
    <3> QED  BY <3>1 DEF RequestRows
  <2>3. \A r \in RequestRows : requests'[r] = requests[r] \/ (requests'[r] = row /\ r = q)
    BY <1>3 DEF UpdateRequest, RequestRows
  <2> QED  BY <1>3, <2>1, <2>2, <2>3 DEF NoDanglingReferences
<1>4. ASSUME NEW q \in Requests, NEW s \in 0..MaxScopes, Attach(q, s) PROVE NoDanglingReferences'
  <2> DEFINE row == [requests[q] EXCEPT !.saved = TRUE, !.scope = s]
  <2>1. row \in RequestRow /\ row.state = requests[q].state /\ row.scope = s
    BY DEF RequestRow
  <2>2. CASE q \in RequestRows
    BY <1>3, <1>4, <2>1, <2>2 DEF Attach, AttachViolation
  <2>3. CASE q \notin RequestRows
    BY <1>4, <2>3 DEF Attach, UpdateRequest, OnlyRequests, NoDanglingReferences,
                      RequestRows, ScopeRows, RuleRows
  <2> QED  BY <2>2, <2>3
<1>5. ASSUME NEW q \in Requests, UpdateRequest(q, [requests[q] EXCEPT !.saved = TRUE])
      PROVE  NoDanglingReferences'
  BY <1>3, <1>5 DEF RequestRow
<1>6. ASSUME NEW q \in Requests, UpdateRequest(q, [requests[q] EXCEPT !.notified = TRUE])
      PROVE  NoDanglingReferences'
  BY <1>3, <1>6 DEF RequestRow
<1>7. ASSUME NEW q \in Requests,
             UpdateRequest(q, [requests[q] EXCEPT !.saved = FALSE, !.scope = 0])
      PROVE  NoDanglingReferences'
  <2>1. requests[q] \in RequestRow /\ 0 \in 0..MaxScopes
    BY DatabaseAssumption
  <2>2. \A row \in RequestRow : /\ [row EXCEPT !.saved = FALSE, !.scope = 0] \in RequestRow
                               /\ [row EXCEPT !.saved = FALSE, !.scope = 0].state = row.state
                               /\ [row EXCEPT !.saved = FALSE, !.scope = 0].scope = 0
    BY <2>1 DEF RequestRow
  <2> QED  BY <1>3, <1>7, <2>1, <2>2
<1>8. ASSUME NEW D \in SUBSET Requests, DeleteRequests(D) PROVE NoDanglingReferences'
  <2>1. ScopeRows' = ScopeRows /\ RuleRows' = RuleRows /\ nlog' = nlog
    BY <1>8 DEF DeleteRequests, OnlyRequests, ScopeRows, RuleRows
  <2>2. \A r \in Requests : r \notin D => requests'[r] = requests[r]
    BY <1>8 DEF DeleteRequests
  <2>3. \A r \in RequestRows' : r \in RequestRows /\ requests'[r] = requests[r]
    BY <1>8 DEF DeleteRequests, RequestRows, NoRequest
  <2>4. \A e \in nlog : e.request \in RequestRows'
    BY <1>8, <2>2 DEF DeleteRequests, DeleteRequestsViolation, NoDanglingReferences, RequestRows
  <2> QED  BY <2>1, <2>3, <2>4 DEF NoDanglingReferences
<1>9. ASSUME NEW s \in ScopeIds, Detach(s) PROVE NoDanglingReferences'
  <2>1. ScopeRows' = ScopeRows /\ RuleRows' = RuleRows /\ nlog' = nlog
    BY <1>9 DEF Detach, OnlyRequests, ScopeRows, RuleRows
  <2>2. \A r \in Requests : /\ requests'[r].state = requests[r].state
                            /\ requests'[r].scope \in {0, requests[r].scope}
    BY <1>9 DEF Detach, RequestRow
  <2> QED  BY <2>1, <2>2 DEF NoDanglingReferences, RequestRows
<1>10. ASSUME NEW i \in ScopeIds, NEW row \in ScopeRow, WriteScope(i, row),
              row.state \in {"row", scopes[i].state} \/ ~DeleteScopeViolation(i)
       PROVE  NoDanglingReferences'
  <2>1. RequestRows' = RequestRows /\ RuleRows' = RuleRows /\ nlog' = nlog /\ requests' = requests
    BY <1>10 DEF WriteScope, OnlyScopes, RequestRows, RuleRows
  <2>2. \A s \in ScopeRows : s \in ScopeRows' \/ (s = i /\ ~DeleteScopeViolation(i))
    <3>1. \A s \in ScopeIds : scopes'[s] = IF s = i THEN row ELSE scopes[s]
      BY <1>10 DEF WriteScope
    <3> QED  BY <1>10, <3>1 DEF ScopeRows
  <2> QED  BY <2>1, <2>2 DEF NoDanglingReferences, DeleteScopeViolation
<1>11. ASSUME NEW i \in RuleIds, NEW row \in RuleRow, WriteRule(i, row),
              row.state \in {"row", rules[i].state} \/ ~DeleteRuleViolation(i)
       PROVE  NoDanglingReferences'
  <2>1. RequestRows' = RequestRows /\ ScopeRows' = ScopeRows /\ nlog' = nlog /\ requests' = requests
    BY <1>11 DEF WriteRule, OnlyRules, RequestRows, ScopeRows
  <2>2. \A n \in RuleRows : n \in RuleRows' \/ (n = i /\ ~DeleteRuleViolation(i))
    <3>1. \A n \in RuleIds : rules'[n] = IF n = i THEN row ELSE rules[n]
      BY <1>11 DEF WriteRule
    <3> QED  BY <1>11, <3>1 DEF RuleRows
  <2> QED  BY <2>1, <2>2 DEF NoDanglingReferences, DeleteRuleViolation
<1>12. ASSUME NEW j \in Jobs, InsertLog(j) PROVE NoDanglingReferences'
  <2>1. RequestRows' = RequestRows /\ ScopeRows' = ScopeRows /\ RuleRows' = RuleRows
        /\ requests' = requests
    BY <1>12 DEF InsertLog, OnlyLog, RequestRows, ScopeRows, RuleRows
  <2>2. \A e \in nlog' : e \in nlog \/ (e.rule \in RuleRows /\ e.request \in RequestRows)
    BY <1>12 DEF InsertLog, InsertLogViolation, Jobs, NoDanglingReferences
  <2> QED  BY <2>1, <2>2 DEF NoDanglingReferences
<1>13. ASSUME NEW E \in SUBSET nlog, DeleteLog(E) PROVE NoDanglingReferences'
  BY <1>13 DEF DeleteLog, OnlyLog, NoDanglingReferences, RequestRows, ScopeRows, RuleRows
<1> QED
  BY <1>1, <1>2, <1>4, <1>5, <1>6, <1>7, <1>8, <1>9, <1>10, <1>11, <1>12, <1>13 DEF Statement

LEMMA InitReferences == Init => ScopedAreSaved /\ NoDanglingReferences
BY DEF Init, DatabaseInit, NoRequest, ScopedAreSaved, NoDanglingReferences, RequestRows

\* No flush can take a request that a scope holds: whatever the handlers of
\* internal/capture and internal/admin interleave, scope_id is set on saved rows only.
THEOREM ScopedSaved == Spec => []ScopedAreSaved
<1>1. Init => ScopedAreSaved
  BY InitReferences
<1>2. TypeOK /\ ScopedAreSaved /\ [Next]_vars => ScopedAreSaved'
  BY NextStatement, StatementScopedAreSaved DEF TypeOK
<1> QED  BY <1>1, <1>2, TypeCorrect, PTL DEF Spec

\* The foreign keys hold at every moment, although every handler that deletes a
\* scope, a rule or requests does so in two statements without a transaction.
THEOREM ReferencesHold == Spec => []NoDanglingReferences
<1>1. Init => NoDanglingReferences
  BY InitReferences
<1>2. TypeOK /\ NoDanglingReferences /\ [Next]_vars => NoDanglingReferences'
  BY NextStatement, StatementNoDangling DEF TypeOK
<1> QED  BY <1>1, <1>2, TypeCorrect, PTL DEF Spec

-----------------------------------------------------------------------------
(* The life of a request.                                                    *)
NewIsFresh == \A r \in Requests : pc[r] = "new" => requests[r] = NoRequest("fresh")

LEMMA NewStaysOld ==
  ASSUME TypeOK, [Next]_vars, NEW r \in Requests, pc'[r] = "new" PROVE pc[r] = "new"
<1>0. pc \in [Requests -> CaptureSteps \cup CaptureEnds \cup {"new"}]
  BY DEF TypeOK, CaptureTypeOK
<1>1. CASE Crash
  BY <1>0, <1>1 DEF Crash
<1>2. ASSUME NEW q \in Requests, Capturing(q) PROVE pc[r] = "new"
  BY <1>0, <1>2 DEF Capturing, Arrive, Store, CaptureStep, CountCapture, MatchScopes, ApplyScope,
                    MatchRules, EnqueueNext, MarkNotified, Goto
<1>3. ASSUME NEW h \in Handlers, Serving(h) PROVE pc[r] = "new"
  BY <1>3 DEF Serving, capVars
<1> QED
  BY <1>1, <1>2, <1>3
  DEF Next, Boot, BootFails, Listen, SchedTick, Sending, Arriving, Scheduling, Ticking, capVars, vars

LEMMA StatementNewIsFresh ==
  ASSUME TypeOK, NewIsFresh, [Next]_vars, Statement PROVE NewIsFresh'
<1> SUFFICES ASSUME NEW r \in Requests, pc'[r] = "new" PROVE requests'[r] = NoRequest("fresh")
  BY DEF NewIsFresh, NoRequest
<1>1. requests[r] = NoRequest("fresh") /\ requests[r].state = "fresh" /\ requests[r].scope = 0
  BY NewStaysOld DEF NewIsFresh, NoRequest
<1>2. requests \in [Requests -> RequestRow]
  BY DEF TypeOK, DatabaseTypeOK
<1>3. ASSUME NEW q \in Requests, NEW row, UpdateRequest(q, row)
      PROVE  requests'[r] = NoRequest("fresh")
  BY <1>1, <1>2, <1>3 DEF UpdateRequest, RequestRows
<1>4. ASSUME NEW D, DeleteRequests(D) PROVE requests'[r] = NoRequest("fresh")
  BY <1>1, <1>2, <1>4 DEF DeleteRequests, RequestRows
<1>5. ASSUME NEW s \in ScopeIds, Detach(s) PROVE requests'[r] = NoRequest("fresh")
  BY <1>1, <1>2, <1>5 DEF Detach, ScopeIds
<1>6. ASSUME NEW q \in Requests, pc'[q] # "new", InsertRequest(q)
      PROVE  requests'[r] = NoRequest("fresh")
  BY <1>1, <1>2, <1>6 DEF InsertRequest
<1> QED
  BY <1>1, <1>3, <1>4, <1>5, <1>6
  DEF Statement, Attach, LifeTables, WriteScope, OnlyScopes, WriteRule, OnlyRules,
      InsertLog, DeleteLog, OnlyLog

LEMMA Fresh == Spec => []NewIsFresh
<1>1. Init => NewIsFresh
  BY DEF Init, DatabaseInit, NewIsFresh
<1>2. TypeOK /\ NewIsFresh /\ [Next]_vars => NewIsFresh'
  BY NextStatement, StatementNewIsFresh
<1> QED  BY <1>1, <1>2, TypeCorrect, PTL DEF Spec

LEMMA StatementSaved ==
  ASSUME TypeOK, NewIsFresh, Statement,
         NEW r \in Requests, requests[r].saved, ~requests'[r].saved
  PROVE  AskedFor(r)
<1>0. requests \in [Requests -> RequestRow] /\ requests[r] \in RequestRow
  BY DEF TypeOK, DatabaseTypeOK
<1>1. ASSUME NEW q \in Requests, pc[q] = "new", InsertRequest(q) PROVE FALSE
  BY <1>0, <1>1 DEF InsertRequest, NewIsFresh, NoRequest
<1>2. ASSUME NEW q \in Requests, NEW s \in 0..MaxScopes, Attach(q, s) PROVE FALSE
  BY <1>0, <1>2 DEF Attach, UpdateRequest, RequestRow
<1>3. ASSUME NEW q \in Requests, \/ UpdateRequest(q, [requests[q] EXCEPT !.saved = TRUE])
                                 \/ UpdateRequest(q, [requests[q] EXCEPT !.notified = TRUE])
      PROVE  FALSE
  BY <1>0, <1>3 DEF UpdateRequest, RequestRow
<1>4. ASSUME NEW q \in Requests, AskedFor(q),
             UpdateRequest(q, [requests[q] EXCEPT !.saved = FALSE, !.scope = 0])
      PROVE  AskedFor(r)
  <2>1. CASE q = r
    BY <1>4, <2>1
  <2>2. CASE q # r
    BY <1>0, <1>4, <2>2 DEF UpdateRequest
  <2> QED  BY <2>1, <2>2
<1>5. ASSUME NEW D \in SUBSET Requests, DeleteRequests(D),
             (\A q \in D : ~requests[q].saved) \/ \A q \in D : AskedFor(q)
      PROVE  AskedFor(r)
  <2>1. r \in D
    BY <1>0, <1>5 DEF DeleteRequests
  <2> QED  BY <1>5, <2>1
<1>6. ASSUME NEW s \in ScopeIds, Detach(s) PROVE FALSE
  BY <1>0, <1>6 DEF Detach, RequestRow
<1> QED
  BY <1>1, <1>2, <1>3, <1>4, <1>5, <1>6
  DEF Statement, LifeTables, WriteScope, OnlyScopes, WriteRule, OnlyRules, InsertLog, DeleteLog, OnlyLog

\* No flush, no classifier and no handler of another operation makes a saved row
\* unsaved or deletes it: only an operator who names it does.
THEOREM SavedIsKept == Spec => SavedLeavesOnlyByOperator
<1>1. TypeOK /\ NewIsFresh /\ [Next]_vars
        => [\A r \in Requests : requests[r].saved /\ ~requests'[r].saved => AskedFor(r)]_vars
  BY NextStatement, StatementSaved
<1> QED  BY <1>1, TypeCorrect, Fresh, PTL DEF Spec, SavedLeavesOnlyByOperator

-----------------------------------------------------------------------------
(* Ooblivion implements RequestLife: each statement on the tables maps to    *)
(* one abstract step, or to none.                                            *)

\* life[r] follows requests[r] alone, so a statement that leaves both columns of
\* every row alone is at most operators coming and going.
LEMMA LifeOf ==
  ASSUME NEW r \in Requests,
         requests'[r].state = requests[r].state, requests'[r].saved = requests[r].saved
  PROVE  life'[r] = life[r]
BY DEF life

LEMMA AskedType == asked \in SUBSET Requests /\ asked' \in SUBSET Requests
BY DEF asked

LEMMA AskedForIsAsked == ASSUME NEW r \in Requests, AskedFor(r) PROVE r \in asked'
BY DEF AskedFor, asked

LEMMA LifeType == life = [r \in Requests |-> life[r]] /\ life' = [r \in Requests |-> life'[r]]
BY DEF life

LEMMA SameLife ==
  ASSUME \A r \in Requests : /\ requests'[r].state = requests[r].state
                             /\ requests'[r].saved = requests[r].saved
  PROVE  RL!Next
<1>1. \A r \in Requests : life'[r] = life[r]
  BY LifeOf
<1>2. life' = life
  BY <1>1, LifeType
<1> QED  BY <1>2, AskedType DEF RL!Next, RL!Ask

LEMMA UpdateLife ==
  ASSUME DatabaseTypeOK, NEW q \in Requests, NEW row \in RequestRow, UpdateRequest(q, row),
         row.state = requests[q].state,
         requests[q].saved /\ ~row.saved => AskedFor(q)
  PROVE  RL!Next
<1>0. requests \in [Requests -> RequestRow] /\ requests[q] \in RequestRow
      /\ requests[q].saved \in BOOLEAN /\ row.saved \in BOOLEAN
  BY DEF DatabaseTypeOK, RequestRow
<1>1. CASE q \notin RequestRows \/ row.saved = requests[q].saved
  BY <1>0, <1>1, SameLife DEF UpdateRequest
<1>2. CASE q \in RequestRows /\ row.saved # requests[q].saved
  <2>1. requests' = [requests EXCEPT ![q] = row]
    BY <1>2 DEF UpdateRequest
  <2>2. life[q] = (IF requests[q].saved THEN "kept" ELSE "raw")
        /\ life'[q] = (IF row.saved THEN "kept" ELSE "raw")
    BY <1>0, <1>2, <2>1 DEF life, RequestRows
  <2>3. \A r \in Requests : r # q => life'[r] = life[r]
    BY <1>0, <2>1, LifeOf
  <2>4. life' = [life EXCEPT ![q] = life'[q]]
    BY <2>3, LifeType
  <2>5. CASE requests[q].saved
    BY <1>0, <1>2, <2>2, <2>4, <2>5, AskedForIsAsked, AskedType DEF RL!Next, RL!Unkeep
  <2>6. CASE ~requests[q].saved
    BY <1>0, <1>2, <2>2, <2>4, <2>6, AskedType DEF RL!Next, RL!Keep
  <2> QED  BY <2>5, <2>6
<1> QED  BY <1>1, <1>2

LEMMA CaptureLife ==
  ASSUME TypeOK, NewIsFresh, NEW q \in Requests, pc[q] = "new", InsertRequest(q), UNCHANGED adm
  PROVE  RL!Next
<1>0. requests \in [Requests -> RequestRow]
  BY DEF TypeOK, DatabaseTypeOK
<1>1. life[q] = "fresh"
  BY DEF NewIsFresh, NoRequest, life
<1>2. life'[q] = "raw"
  BY <1>0 DEF InsertRequest, life
<1>3. \A r \in Requests : r # q => life'[r] = life[r]
  BY <1>0, LifeOf DEF InsertRequest
<1>4. life' = [life EXCEPT ![q] = "raw"]
  BY <1>2, <1>3, LifeType
<1>5. UNCHANGED asked
  BY DEF asked
<1> QED  BY <1>1, <1>4, <1>5 DEF RL!Next, RL!Capture

LEMMA DropLife ==
  ASSUME DatabaseTypeOK, NEW D \in SUBSET Requests, DeleteRequests(D),
         \/ (\A r \in D : ~requests[r].saved) /\ UNCHANGED adm
         \/ \A r \in D : AskedFor(r)
  PROVE  RL!Next
<1> DEFINE S == D \cap RequestRows
<1>0. requests \in [Requests -> RequestRow]
  BY DEF DatabaseTypeOK
<1>1. \A r \in Requests : requests'[r] = IF r \in S THEN NoRequest("gone") ELSE requests[r]
  BY DEF DeleteRequests
<1>2. \A r \in Requests : life'[r] = IF r \in S THEN "gone" ELSE life[r]
  BY <1>1 DEF life, NoRequest
<1>3. RL!Drop(S)
  BY <1>2, LifeType DEF RL!Drop
<1>4. \A r \in S : r \in Requests /\ life[r] = (IF requests[r].saved THEN "kept" ELSE "raw")
  BY DEF life, RequestRows
<1>5. CASE (\A r \in D : ~requests[r].saved) /\ UNCHANGED adm
  <2>1. S \in SUBSET {r \in Requests : life[r] = "raw"}
    BY <1>4, <1>5
  <2>2. UNCHANGED asked
    BY <1>5 DEF asked
  <2> QED  BY <1>3, <2>1, <2>2 DEF RL!Next, RL!Flush
<1>6. CASE \A r \in D : AskedFor(r)
  <2>1. S \in SUBSET {r \in Requests : life[r] \in {"raw", "kept"}} /\ S \subseteq asked'
    BY <1>4, <1>6, AskedForIsAsked
  <2> QED  BY <1>3, <2>1, AskedType DEF RL!Next, RL!Delete
<1> QED  BY <1>5, <1>6

LEMMA StatementRefines ==
  ASSUME TypeOK, NewIsFresh, Statement PROVE RL!Next
<1>0. DatabaseTypeOK /\ requests \in [Requests -> RequestRow]
  BY DEF TypeOK, DatabaseTypeOK
<1>1. CASE UNCHANGED requests
  BY <1>1, SameLife
<1>2. ASSUME NEW q \in Requests, NEW s \in 0..MaxScopes, Attach(q, s) PROVE RL!Next
  <2>1. \A row \in RequestRow : /\ [row EXCEPT !.saved = TRUE, !.scope = s] \in RequestRow
                               /\ [row EXCEPT !.saved = TRUE, !.scope = s].state = row.state
                               /\ [row EXCEPT !.saved = TRUE, !.scope = s].saved
    BY DEF RequestRow
  <2> QED  BY <1>0, <1>2, <2>1, UpdateLife DEF Attach
<1>3. ASSUME NEW q \in Requests, UpdateRequest(q, [requests[q] EXCEPT !.saved = TRUE])
      PROVE  RL!Next
  <2>1. \A row \in RequestRow : /\ [row EXCEPT !.saved = TRUE] \in RequestRow
                               /\ [row EXCEPT !.saved = TRUE].state = row.state
                               /\ [row EXCEPT !.saved = TRUE].saved
    BY DEF RequestRow
  <2> QED  BY <1>0, <1>3, <2>1, UpdateLife
<1>4. ASSUME NEW q \in Requests, UpdateRequest(q, [requests[q] EXCEPT !.notified = TRUE])
      PROVE  RL!Next
  <2>1. \A row \in RequestRow : /\ [row EXCEPT !.notified = TRUE] \in RequestRow
                               /\ [row EXCEPT !.notified = TRUE].state = row.state
                               /\ [row EXCEPT !.notified = TRUE].saved = row.saved
    BY DEF RequestRow
  <2> QED  BY <1>0, <1>4, <2>1, UpdateLife
<1>5. ASSUME NEW q \in Requests, AskedFor(q),
             UpdateRequest(q, [requests[q] EXCEPT !.saved = FALSE, !.scope = 0])
      PROVE  RL!Next
  <2>1. 0 \in 0..MaxScopes
    BY DatabaseAssumption
  <2>2. \A row \in RequestRow : /\ [row EXCEPT !.saved = FALSE, !.scope = 0] \in RequestRow
                               /\ [row EXCEPT !.saved = FALSE, !.scope = 0].state = row.state
    BY <2>1 DEF RequestRow
  <2> QED  BY <1>0, <1>5, <2>2, UpdateLife
<1>6. ASSUME NEW s \in ScopeIds, Detach(s) PROVE RL!Next
  BY <1>0, <1>6, SameLife DEF Detach, RequestRow
<1> QED
  BY <1>0, <1>1, <1>2, <1>3, <1>4, <1>5, <1>6, CaptureLife, DropLife
  DEF Statement, LifeTables, WriteScope, OnlyScopes, WriteRule, OnlyRules, InsertLog, DeleteLog, OnlyLog

\* Every behaviour of the program, crashes and failing statements included, is one
\* the console's promise about captured requests allows.
THEOREM Refinement == Spec => ImplementsRequestLife
<1>1. Init => RL!Init
  BY DEF Init, DatabaseInit, AdminInit, NoRequest, NoOp, RL!Init, life, asked
<1>2. TypeOK /\ NewIsFresh /\ [Next]_vars => [RL!Next]_<<life, asked>>
  BY NextStatement, StatementRefines
<1> QED
  BY <1>1, <1>2, TypeCorrect, Fresh, PTL DEF Spec, ImplementsRequestLife, RL!Spec
=============================================================================
