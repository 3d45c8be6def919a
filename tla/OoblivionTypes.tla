--------------------------- MODULE OoblivionTypes ---------------------------
(* Type correctness of Ooblivion for every value of its constants.           *)
EXTENDS Ooblivion, TLAPS

(* A statement leaves every table well typed. One lemma per statement, so    *)
(* that the proofs about handlers need not open the tables.                  *)
LEMMA FaultType == ASSUME DatabaseTypeOK, Fault PROVE DatabaseTypeOK' /\ UNCHANGED audit
BY DatabaseAssumption DEF DatabaseTypeOK, Fault, tables

LEMMA NoStatementType ==
  ASSUME DatabaseTypeOK, UNCHANGED dbVars PROVE DatabaseTypeOK' /\ UNCHANGED audit
BY DEF DatabaseTypeOK, dbVars

LEMMA InsertRequestType ==
  ASSUME DatabaseTypeOK, NEW r \in Requests, InsertRequest(r) PROVE DatabaseTypeOK' /\ UNCHANGED audit
BY DatabaseAssumption
DEF DatabaseTypeOK, InsertRequest, OnlyRequests, RequestRow, Life, Days

LEMMA UpdateRequestType ==
  ASSUME DatabaseTypeOK, NEW r \in Requests, NEW row \in RequestRow, UpdateRequest(r, row)
  PROVE  DatabaseTypeOK' /\ UNCHANGED audit
BY DEF DatabaseTypeOK, UpdateRequest, OnlyRequests, RequestRows

LEMMA DetachType ==
  ASSUME DatabaseTypeOK, NEW s \in ScopeIds, Detach(s) PROVE DatabaseTypeOK' /\ UNCHANGED audit
BY DatabaseAssumption DEF DatabaseTypeOK, Detach, OnlyRequests, RequestRow

LEMMA DeleteRequestsType ==
  ASSUME DatabaseTypeOK, NEW D, DeleteRequests(D) PROVE DatabaseTypeOK' /\ UNCHANGED audit
BY DatabaseAssumption
DEF DatabaseTypeOK, DeleteRequests, OnlyRequests, RequestRows, NoRequest, RequestRow, Life

LEMMA WriteScopeType ==
  ASSUME DatabaseTypeOK, NEW i \in ScopeIds, NEW row \in ScopeRow, WriteScope(i, row)
  PROVE  DatabaseTypeOK' /\ UNCHANGED audit
BY DEF DatabaseTypeOK, WriteScope, OnlyScopes

LEMMA WriteRuleType ==
  ASSUME DatabaseTypeOK, NEW i \in RuleIds, NEW row \in RuleRow, WriteRule(i, row)
  PROVE  DatabaseTypeOK' /\ UNCHANGED audit
BY DEF DatabaseTypeOK, WriteRule, OnlyRules

LEMMA InsertLogType ==
  ASSUME DatabaseTypeOK, NEW j \in Jobs, InsertLog(j) PROVE DatabaseTypeOK' /\ UNCHANGED audit
BY DEF DatabaseTypeOK, InsertLog, OnlyLog, LogRow, Jobs

LEMMA DeleteLogType == ASSUME DatabaseTypeOK, NEW E, DeleteLog(E) PROVE DatabaseTypeOK' /\ UNCHANGED audit
BY DEF DatabaseTypeOK, DeleteLog, OnlyLog

LEMMA WriteSettingType ==
  ASSUME DatabaseTypeOK, NEW row \in Settings, WriteSetting(row) PROVE DatabaseTypeOK' /\ UNCHANGED audit
BY DEF DatabaseTypeOK, WriteSetting, OnlySettings

LEMMA InsertAuditType ==
  ASSUME DatabaseTypeOK, \A e \in audit : e.ip \in Flushers /\ e.day \in 0..MaxDay,
         NEW action, NEW p \in Flushers, NEW at \in 0..MaxDay, InsertAudit(action, p, at)
  PROVE  DatabaseTypeOK' /\ \A e \in audit' : e.ip \in Flushers /\ e.day \in 0..MaxDay
BY DEF DatabaseTypeOK, InsertAudit, OnlyAudit

-----------------------------------------------------------------------------
(* One lemma per goroutine: its steps leave the variables it may touch well  *)
(* typed.                                                                    *)
LEMMA GiveUpType == ASSUME late \subseteq Jobs, NEW J \in SUBSET Jobs, GiveUp(J) PROVE late' \subseteq Jobs
BY DEF GiveUp

LEMMA MessageType ==
  ASSUME chat \in Seq(Messages), NEW j \in Jobs, NEW b \in BOOLEAN
  PROVE  Append(chat, Message(j, b)) \in Seq(Messages)
<1>1. Message(j, b) \in Messages
  BY DEF Message, Messages, Jobs
<1> QED  BY <1>1

LEMMA SendType ==
  ASSUME DatabaseTypeOK, TelegramTypeOK, Send \/ AcceptLate
  PROVE  DatabaseTypeOK' /\ TelegramTypeOK' /\ UNCHANGED audit
<1> USE TelegramAssumption DEF TelegramTypeOK
<1>1. CASE Receive
  <2>1. Head(queue) \in Jobs /\ Tail(queue) \in Seq(Jobs) /\ Len(Tail(queue)) = Len(queue) - 1
    BY <1>1 DEF Receive
  <2> QED  BY <1>1, <2>1, NoStatementType DEF Receive
<1>2. CASE Post
  <2>1. PICK j \in posting :
          /\ posting' = {} /\ logging' \in {logging, {j}}
          /\ chat' \in {chat, Append(chat, Message(j, FALSE))}
          /\ GiveUp({j}) \/ UNCHANGED late
          /\ UNCHANGED queue /\ UNCHANGED dbVars
    BY <1>2 DEF Post
  <2>2. j \in Jobs /\ Append(chat, Message(j, FALSE)) \in Seq(Messages)
    BY MessageType
  <2>3. late' \subseteq Jobs
    BY <2>1, <2>2, GiveUpType
  <2> QED  BY <2>1, <2>2, <2>3, NoStatementType
<1>3. CASE LogEvent
  <2>1. PICK j \in logging : /\ logging' = {}
                             /\ InsertLog(j) \/ Fails(InsertLogViolation(j))
                             /\ UNCHANGED <<queue, posting, late, chat>>
    BY <1>3 DEF LogEvent
  <2>2. j \in Jobs  OBVIOUS
  <2>3. DatabaseTypeOK' /\ UNCHANGED audit
    BY <2>1, <2>2, InsertLogType, FaultType, NoStatementType DEF Fails, Refused
  <2> QED  BY <2>1, <2>3
<1>4. CASE AcceptLate
  <2>1. PICK j \in late : late' = late \ {j} /\ chat' = Append(chat, Message(j, TRUE))
    BY <1>4 DEF AcceptLate
  <2>2. Append(chat, Message(j, TRUE)) \in Seq(Messages)
    BY MessageType
  <2> QED  BY <1>4, <2>1, <2>2, NoStatementType DEF AcceptLate
<1> QED  BY <1>1, <1>2, <1>3, <1>4 DEF Send

LEMMA CaptureType ==
  ASSUME DatabaseTypeOK, TelegramTypeOK, CaptureTypeOK,
         NEW r \in Requests, Store(r) \/ CaptureStep(r)
  PROVE  DatabaseTypeOK' /\ TelegramTypeOK' /\ CaptureTypeOK' /\ UNCHANGED audit
<1> USE DatabaseAssumption DEF CaptureTypeOK, CaptureSteps, CaptureEnds, Goto
<1>1. CASE Store(r)
  BY <1>1, InsertRequestType, FaultType DEF Store, tgVars, TelegramTypeOK
<1>2. CASE CountCapture(r)
  BY <1>2, FaultType DEF CountCapture, tgVars, TelegramTypeOK, DatabaseTypeOK
<1>3. CASE MatchScopes(r)
  <2>1. MatchingScopes(r) \subseteq 1..MaxScopes
    BY DEF MatchingScopes, ScopeRows, ScopeIds
  <2>2. DatabaseTypeOK' /\ UNCHANGED audit
    BY <1>3, FaultType, NoStatementType DEF MatchScopes
  <2>3. /\ \E step \in {"rules", "attach", "aborted"} : pc' = [pc EXCEPT ![r] = step]
        /\ pick' = pick \/ \E s \in 1..MaxScopes : pick' = [pick EXCEPT ![r] = s]
        /\ UNCHANGED <<todo, tgVars>>
    BY <1>3, <2>1 DEF MatchScopes
  <2> QED  BY <2>2, <2>3 DEF tgVars, TelegramTypeOK
<1>4. CASE ApplyScope(r)
  <2>1. requests[r] \in RequestRow /\ pick[r] \in 0..MaxScopes
    BY DEF DatabaseTypeOK
  <2>2. [requests[r] EXCEPT !.saved = TRUE, !.scope = pick[r]] \in RequestRow
    BY <2>1 DEF RequestRow
  <2>3. DatabaseTypeOK' /\ UNCHANGED audit
    BY <1>4, <2>2, UpdateRequestType, FaultType, NoStatementType
    DEF ApplyScope, Attach, Fails, Refused
  <2> QED  BY <1>4, <2>3 DEF ApplyScope, tgVars, TelegramTypeOK
<1>5. CASE MatchRules(r)
  <2>1. MatchingRules(r) \in SUBSET RuleIds
    BY DEF MatchingRules, RuleRows
  <2>2. DatabaseTypeOK' /\ UNCHANGED audit
    BY <1>5, FaultType, NoStatementType DEF MatchRules
  <2> QED  BY <1>5, <2>1, <2>2 DEF MatchRules, tgVars, TelegramTypeOK
<1>6. CASE EnqueueNext(r)
  <2>1. CASE Fault /\ Goto(r, "aborted") /\ todo' = [todo EXCEPT ![r] = {}] /\ UNCHANGED tgVars
    BY <1>6, <2>1, FaultType DEF EnqueueNext, tgVars, TelegramTypeOK
  <2>2. ASSUME NEW n \in todo[r], Enqueue([rule |-> n, request |-> r]),
               todo' = [todo EXCEPT ![r] = @ \ {n}],
               Goto(r, IF todo[r] = {n} THEN "notified" ELSE "enqueue"),
               UNCHANGED dbVars, UNCHANGED pick
        PROVE  DatabaseTypeOK' /\ TelegramTypeOK' /\ CaptureTypeOK' /\ UNCHANGED audit
    <3>1. [rule |-> n, request |-> r] \in Jobs
      BY <2>2 DEF Jobs
    <3>2. TelegramTypeOK'
      BY <2>2, <3>1, TelegramAssumption DEF Enqueue, TelegramTypeOK
    <3>3. CaptureTypeOK'
      BY <2>2
    <3> QED  BY <2>2, <3>2, <3>3, NoStatementType
  <2> QED  BY <1>6, <2>1, <2>2 DEF EnqueueNext
<1>7. CASE MarkNotified(r)
  <2>1. [requests[r] EXCEPT !.notified = TRUE] \in RequestRow
    BY DEF DatabaseTypeOK, RequestRow
  <2> QED  BY <1>7, <2>1, UpdateRequestType, FaultType DEF MarkNotified, tgVars, TelegramTypeOK
<1> QED  BY <1>1, <1>2, <1>3, <1>4, <1>5, <1>6, <1>7 DEF CaptureStep

LEMMA RetentionType == ASSUME DatabaseTypeOK PROVE RetentionDays \in Nat
BY DatabaseAssumption DEF DatabaseTypeOK, Settings, RetentionDays

LEMMA ReturnType ==
  ASSUME SchedulerTypeOK, NEW p \in Flushers, NEW result \in FlushPcs, Return(p, result),
         \A e \in audit' : e.ip \in Flushers /\ e.day \in 0..MaxDay
  PROVE  SchedulerTypeOK'
<1>1. fl' \in [Flushers -> FlushPcs] /\ stamp' \in [Flushers -> 0..MaxDay]
  BY DatabaseAssumption DEF SchedulerTypeOK, Return, FlushTo
<1>2. lock' \in BOOLEAN
  BY DEF Return
<1>3. bound' \in Int /\ window' \in Nat /\ lastFlushAt' \in 0..MaxDay
  BY DatabaseAssumption DEF SchedulerTypeOK, Return
<1> QED  BY <1>1, <1>2, <1>3 DEF SchedulerTypeOK

LEMMA EnterType ==
  ASSUME DatabaseTypeOK, SchedulerTypeOK, NEW p \in Flushers, Enter(p), UNCHANGED dbVars
  PROVE  SchedulerTypeOK'
<1>1. fl' \in [Flushers -> FlushPcs]
  BY DEF SchedulerTypeOK, Enter, FlushTo, FlushPcs, Inside
<1>2. window' \in Nat /\ lock' \in BOOLEAN
  BY RetentionType DEF SchedulerTypeOK, Enter
<1> QED  BY <1>1, <1>2 DEF SchedulerTypeOK, Enter, dbVars

LEMMA FlushStepType ==
  ASSUME DatabaseTypeOK, SchedulerTypeOK, NEW p \in Flushers, FlushStep(p)
  PROVE  DatabaseTypeOK' /\ SchedulerTypeOK'
<1> USE ReturnType DEF SchedulerTypeOK, FlushPcs, Inside, FlushTo
<1>1. CASE FlushLog(p)
  BY <1>1, DeleteLogType, FaultType DEF FlushLog
<1>2. CASE FlushRows(p)
  <2>1. day \in 0..MaxDay
    BY DatabaseAssumption DEF DatabaseTypeOK, Days
  <2>2. DatabaseTypeOK' /\ UNCHANGED audit
    BY <1>2, DeleteRequestsType, FaultType, NoStatementType DEF FlushRows, Fails, Refused
  <2> QED  BY <1>2, <2>1, <2>2 DEF FlushRows
<1>3. CASE FlushSetting(p)
  <2>1. [settings EXCEPT !.lastFlush = stamp[p]] \in Settings
    BY DEF DatabaseTypeOK, Settings
  <2> QED  BY <1>3, <2>1, WriteSettingType, FaultType DEF FlushSetting
<1>4. CASE FlushAudit(p)
  <2>1. CASE Fault /\ Return(p, "error")
    BY <2>1, FaultType
  <2>2. ASSUME NEW action, InsertAudit(action, p, stamp[p]), Return(p, "ok")
        PROVE  DatabaseTypeOK' /\ SchedulerTypeOK'
    <3>1. stamp[p] \in 0..MaxDay
      OBVIOUS
    <3> QED  BY <2>2, <3>1, InsertAuditType
  <2> QED  BY <1>4, <2>1, <2>2 DEF FlushAudit
<1> QED  BY <1>1, <1>2, <1>3, <1>4 DEF FlushStep

LEMMA SchedType ==
  ASSUME DatabaseTypeOK, SchedulerTypeOK, SchedStep
  PROVE  DatabaseTypeOK' /\ SchedulerTypeOK'
<1> USE DEF SchedulerTypeOK, FlushPcs, Inside, FlushTo
<1>0. Sched \in Flushers
  BY DEF Flushers
<1>1. CASE CheckEnabled
  <2>1. DatabaseTypeOK' /\ UNCHANGED audit
    BY <1>1, NoStatementType, FaultType DEF CheckEnabled
  <2> QED  BY <1>0, <1>1, <2>1, ReturnType DEF CheckEnabled
<1>2. CASE Boundary
  <2>1. day - RetentionDays \in Int /\ day - DefaultDays \in Int
    BY RetentionType, DatabaseAssumption DEF DatabaseTypeOK, Days
  <2> QED  BY <1>0, <1>2, <2>1, NoStatementType, FaultType DEF Boundary
<1>3. CASE FlushStep(Sched)
  BY <1>0, <1>3, FlushStepType
<1>4. CASE PruneNotificationLog
  BY <1>0, <1>4, DeleteLogType, FaultType DEF PruneNotificationLog
<1>5. CASE PruneAuditLog
  BY <1>0, <1>5, FaultType DEF PruneAuditLog, OnlyAudit, DatabaseTypeOK
<1> QED  BY <1>1, <1>2, <1>3, <1>4, <1>5 DEF SchedStep

LEMMA ServeType ==
  ASSUME AdminTypeOK, NEW h \in Handlers, NEW op, NEW on \in SUBSET Requests, NEW id \in Nat,
         NEW step \in AdmPcs, Serve(h, op, on, id, step)
  PROVE  AdminTypeOK'
<1>1. [pc |-> step, op |-> op, on |-> on, id |-> id] \in AdmRow
  BY AdminAssumption DEF Serve, AdmRow
<1> QED  BY <1>1, AdminAssumption DEF AdminTypeOK, Serve

LEMMA AdmToType ==
  ASSUME AdminTypeOK, NEW h \in Handlers, NEW step \in AdmPcs, AdmTo(h, step)
  PROVE  AdminTypeOK'
BY DEF AdminTypeOK, AdmTo, AdmRow

LEMMA PayloadType ==
  ASSUME NEW p \in Payloads PROVE ScopeOf(p) \in ScopeRow /\ RuleOf(p) \in RuleRow
BY DatabaseAssumption DEF Payload, ScopeOf, RuleOf, ScopeRow, RuleRow, Life

\* What the scheduler's variables need to stay well typed when a handler leaves them alone.
LEMMA SchedulerUnchanged ==
  ASSUME SchedulerTypeOK, UNCHANGED schedVars, UNCHANGED audit PROVE SchedulerTypeOK'
BY DEF SchedulerTypeOK, schedVars

LEMMA RequestOpsType ==
  ASSUME DatabaseTypeOK, SchedulerTypeOK, AdminTypeOK, NEW h \in Handlers, NEW r \in Requests,
         NEW D \in SUBSET Requests,
         \/ Save(h, r) \/ Unsave(h, r)
         \/ \E op \in {"delete", "bulk_delete"} : Delete(h, op, D)
  PROVE  DatabaseTypeOK' /\ SchedulerTypeOK' /\ AdminTypeOK'
<1>1. /\ [requests[r] EXCEPT !.saved = TRUE] \in RequestRow
      /\ [requests[r] EXCEPT !.saved = FALSE, !.scope = 0] \in RequestRow
  <2>1. requests[r] \in RequestRow /\ 0 \in 0..MaxScopes
    BY DatabaseAssumption DEF DatabaseTypeOK
  <2> QED  BY <2>1 DEF RequestRow
<1> USE ServeType, SchedulerUnchanged, FaultType, UpdateRequestType DEF AdmPcs
<1>2. CASE Save(h, r)
  BY <1>1, <1>2 DEF Save
<1>3. CASE Unsave(h, r)
  BY <1>1, <1>3 DEF Unsave
<1>4. CASE \E op \in {"delete", "bulk_delete"} : Delete(h, op, D)
  <2>1. PICK op : Delete(h, op, D)
    BY <1>4
  <2>2. DatabaseTypeOK' /\ UNCHANGED audit
    BY <2>1, DeleteRequestsType, NoStatementType DEF Delete, Fails, Refused
  <2>3. \E step \in {"audit", "error"} : Serve(h, op, D, 0, step)
    BY <2>1 DEF Delete
  <2> QED  BY <2>1, <2>2, <2>3 DEF Delete
<1> QED  BY <1>2, <1>3, <1>4

LEMMA ScopeOpsType ==
  ASSUME DatabaseTypeOK, SchedulerTypeOK, AdminTypeOK, NEW h \in Handlers, NEW i \in ScopeIds,
         \/ \E p \in Payloads : CreateScope(h, i, p) \/ UpdateScope(h, i, p)
         \/ ToggleScope(h, i) \/ DeleteScope(h, i)
  PROVE  DatabaseTypeOK' /\ SchedulerTypeOK' /\ AdminTypeOK'
<1> USE ServeType, SchedulerUnchanged, FaultType, WriteScopeType DEF AdmPcs
<1>1. i \in Nat /\ scopes[i] \in ScopeRow
  BY DatabaseAssumption DEF ScopeIds, DatabaseTypeOK
<1>2. [scopes[i] EXCEPT !.enabled = ~@] \in ScopeRow
  BY <1>1 DEF ScopeRow
<1>3. ASSUME NEW p \in Payloads, CreateScope(h, i, p) PROVE DatabaseTypeOK' /\ SchedulerTypeOK' /\ AdminTypeOK'
  BY <1>1, <1>3, PayloadType DEF CreateScope
<1>4. ASSUME NEW p \in Payloads, UpdateScope(h, i, p) PROVE DatabaseTypeOK' /\ SchedulerTypeOK' /\ AdminTypeOK'
  BY <1>1, <1>4, PayloadType DEF UpdateScope
<1>5. CASE ToggleScope(h, i)
  BY <1>1, <1>2, <1>5 DEF ToggleScope
<1>6. CASE DeleteScope(h, i)
  BY <1>1, <1>6, DetachType DEF DeleteScope
<1> QED  BY <1>3, <1>4, <1>5, <1>6

LEMMA RuleOpsType ==
  ASSUME DatabaseTypeOK, SchedulerTypeOK, AdminTypeOK, NEW h \in Handlers, NEW i \in RuleIds,
         \/ \E p \in Payloads : CreateRule(h, i, p) \/ UpdateRule(h, i, p)
         \/ ToggleRule(h, i) \/ DeleteRule(h, i)
  PROVE  DatabaseTypeOK' /\ SchedulerTypeOK' /\ AdminTypeOK'
<1> USE ServeType, SchedulerUnchanged, FaultType, WriteRuleType DEF AdmPcs
<1>1. i \in Nat /\ rules[i] \in RuleRow
  BY DatabaseAssumption DEF RuleIds, DatabaseTypeOK
<1>2. [rules[i] EXCEPT !.enabled = ~@] \in RuleRow
  BY <1>1 DEF RuleRow
<1>3. ASSUME NEW p \in Payloads, CreateRule(h, i, p) PROVE DatabaseTypeOK' /\ SchedulerTypeOK' /\ AdminTypeOK'
  BY <1>1, <1>3, PayloadType DEF CreateRule
<1>4. ASSUME NEW p \in Payloads, UpdateRule(h, i, p) PROVE DatabaseTypeOK' /\ SchedulerTypeOK' /\ AdminTypeOK'
  BY <1>1, <1>4, PayloadType DEF UpdateRule
<1>5. CASE ToggleRule(h, i)
  BY <1>1, <1>2, <1>5 DEF ToggleRule
<1>6. CASE DeleteRule(h, i)
  BY <1>1, <1>6, DeleteLogType DEF DeleteRule
<1> QED  BY <1>3, <1>4, <1>5, <1>6

LEMMA PutSettingsType ==
  ASSUME DatabaseTypeOK, SchedulerTypeOK, AdminTypeOK, NEW h \in Handlers,
         NEW days \in Retentions \cup {0}, NEW auto \in {"unset", "0", "1"}, PutSettings(h, days, auto)
  PROVE  DatabaseTypeOK' /\ SchedulerTypeOK' /\ AdminTypeOK'
<1> DEFINE flag == IF auto = "1" THEN 1 ELSE 0
<1>1. days \in Nat /\ flag \in Nat
  <2>1. Retentions \subseteq Nat
    BY DatabaseAssumption
  <2> QED  BY <2>1
<1>2. /\ [settings EXCEPT !.days = days] \in Settings
      /\ [settings EXCEPT !.auto = IF auto = "unset" THEN @ ELSE auto] \in Settings
  <2>1. settings \in Settings
    BY DEF DatabaseTypeOK
  <2>2. (IF auto = "unset" THEN settings.auto ELSE auto) \in {"unset", "0", "1"}
    BY <2>1 DEF Settings
  <2> QED  BY <1>1, <2>1, <2>2 DEF Settings
<1>3. DatabaseTypeOK' /\ UNCHANGED audit
  BY <1>2, WriteSettingType, FaultType DEF PutSettings
<1>4. \E step \in AdmPcs : Serve(h, "settings", {}, flag, step)
  BY DEF PutSettings, AdmPcs
<1>5. AdminTypeOK'
  BY <1>1, <1>4, ServeType
<1>6. window' \in Nat
  BY <1>1 DEF PutSettings, SchedulerTypeOK
<1> QED  BY <1>3, <1>5, <1>6 DEF PutSettings, SchedulerTypeOK

LEMMA AdminStepType ==
  ASSUME DatabaseTypeOK, SchedulerTypeOK, AdminTypeOK, NEW h \in Handlers, AdminStep(h)
  PROVE  DatabaseTypeOK' /\ SchedulerTypeOK' /\ AdminTypeOK'
<1> USE AdmToType, SchedulerUnchanged, FaultType, NoStatementType DEF AdmPcs
<1>1. CASE DeleteScopeRow(h)
  <2>1. NoScope("gone") \in ScopeRow
    BY DEF NoScope, ScopeRow, Life
  <2>2. adm[h].id \in ScopeIds => scopes[adm[h].id] \in ScopeRow
    BY DEF DatabaseTypeOK
  <2>3. DatabaseTypeOK' /\ UNCHANGED audit
    BY <1>1, <2>1, <2>2, WriteScopeType DEF DeleteScopeRow, Fails, Refused, WriteScope, OnlyScopes, DatabaseTypeOK
  <2> QED  BY <1>1, <2>3 DEF DeleteScopeRow
<1>2. CASE DeleteRuleRow(h)
  <2>1. NoRule("gone") \in RuleRow
    BY DEF NoRule, RuleRow, Life
  <2>3. DatabaseTypeOK' /\ UNCHANGED audit
    BY <1>2, <2>1, WriteRuleType DEF DeleteRuleRow, Fails, Refused, WriteRule, OnlyRules, DatabaseTypeOK
  <2> QED  BY <1>2, <2>3 DEF DeleteRuleRow
<1>3. CASE PutAutoFlush(h)
  <2>1. [settings EXCEPT !.auto = IF adm[h].id = 1 THEN "1" ELSE "0"] \in Settings
    BY DEF DatabaseTypeOK, Settings
  <2> QED  BY <1>3, <2>1, WriteSettingType DEF PutAutoFlush
<1>4. CASE LogAudit(h)
  <2>1. h \in Flushers /\ day \in 0..MaxDay
    BY DEF Flushers, DatabaseTypeOK, Days
  <2>2. DatabaseTypeOK' /\ \A e \in audit' : e.ip \in Flushers /\ e.day \in 0..MaxDay
    BY <1>4, <2>1, InsertAuditType DEF LogAudit, SchedulerTypeOK
  <2> QED  BY <1>4, <2>2 DEF LogAudit, SchedulerTypeOK, schedVars
<1>5. CASE AnswerFlush(h)
  <2>1. fl[h] \in AdmPcs /\ h \in Flushers
    BY <1>5 DEF AnswerFlush, Flushers
  <2>2. AdminTypeOK' /\ DatabaseTypeOK' /\ UNCHANGED audit
    BY <1>5, <2>1 DEF AnswerFlush, dbVars, DatabaseTypeOK
  <2>3. fl' \in [Flushers -> FlushPcs]
    BY <1>5 DEF AnswerFlush, FlushTo, FlushPcs, SchedulerTypeOK
  <2> QED  BY <1>5, <2>2, <2>3 DEF AnswerFlush, SchedulerTypeOK
<1> QED  BY <1>1, <1>2, <1>3, <1>4, <1>5 DEF AdminStep

LEMMA OperateType ==
  ASSUME DatabaseTypeOK, SchedulerTypeOK, AdminTypeOK, NEW h \in Handlers, Operate(h)
  PROVE  DatabaseTypeOK' /\ SchedulerTypeOK' /\ AdminTypeOK'
<1>1. CASE FlushRequests(h)
  <2>1. h \in Flushers /\ {r \in RequestRows : ~requests[r].saved} \in SUBSET Requests
    BY DEF Flushers, RequestRows
  <2> QED  BY <1>1, <2>1, EnterType, ServeType, NoStatementType DEF FlushRequests, AdmPcs
<1> QED
  BY <1>1, RequestOpsType, ScopeOpsType, RuleOpsType, PutSettingsType DEF Operate

LEMMA CrashType == ASSUME TypeOK, Crash PROVE TypeOK'
<1> USE DEF TypeOK
<1>1. DatabaseTypeOK'
  BY NoStatementType DEF Crash
<1>2. TelegramTypeOK'
  <2>1. late' \subseteq Jobs /\ UNCHANGED chat
    BY GiveUpType DEF Crash, TelegramTypeOK
  <2>2. <<>> \in Seq(Jobs) /\ Len(<<>>) = 0
    OBVIOUS
  <2> QED  BY <2>1, <2>2, TelegramAssumption DEF Crash, TelegramTypeOK
<1>3. CaptureTypeOK'
  BY DEF Crash, CaptureTypeOK, CaptureSteps, CaptureEnds
<1>4. SchedulerTypeOK'
  <2>1. /\ fl' \in [Flushers -> FlushPcs] /\ stamp' \in [Flushers -> 0..MaxDay]
        /\ lastFlushAt' \in 0..MaxDay /\ window' \in Nat /\ bound' \in Int
    BY DatabaseAssumption DEF Crash, FlushPcs
  <2>2. lock' \in BOOLEAN /\ UNCHANGED audit
    BY DEF Crash, dbVars
  <2> QED  BY <2>1, <2>2 DEF SchedulerTypeOK
<1>5. AdminTypeOK'
  <2>1. NoOp \in AdmRow
    BY DEF NoOp, AdmRow, AdmPcs, AllOps
  <2> QED  BY <2>1 DEF Crash, AdminTypeOK
<1> QED  BY <1>1, <1>2, <1>3, <1>4, <1>5, OoblivionAssumption DEF Crash

LEMMA InitType == Init => TypeOK
<1> SUFFICES ASSUME Init PROVE TypeOK  OBVIOUS
<1> USE DEF Init
<1>1. DatabaseTypeOK
  <2>1. requests = [r \in Requests |-> NoRequest("fresh")] /\ NoRequest("fresh") \in RequestRow
    BY DatabaseAssumption DEF DatabaseInit, NoRequest, RequestRow, Life
  <2>2. scopes \in [ScopeIds -> ScopeRow]
    <3>1. PICK n \in 0..MaxScopes, f \in [ScopeIds -> Payloads] :
            scopes = [i \in ScopeIds |-> IF i <= n THEN ScopeOf(f[i]) ELSE NoScope("fresh")]
      BY DEF DatabaseInit
    <3>2. NoScope("fresh") \in ScopeRow
      BY DEF NoScope, ScopeRow, Life
    <3> QED  BY <3>1, <3>2, PayloadType
  <2>3. rules \in [RuleIds -> RuleRow]
    <3>1. PICK n \in 0..MaxRules, f \in [RuleIds -> Payloads] :
            rules = [i \in RuleIds |-> IF i <= n THEN RuleOf(f[i]) ELSE NoRule("fresh")]
      BY DEF DatabaseInit
    <3>2. NoRule("fresh") \in RuleRow
      BY DEF NoRule, RuleRow, Life
    <3> QED  BY <3>1, <3>2, PayloadType
  <2>4. settings \in Settings
    BY DatabaseAssumption DEF DatabaseInit, Settings
  <2>5. nlog = {} /\ logSeq = 0 /\ total = 0 /\ faults = 0 /\ day = 1
    BY DEF DatabaseInit
  <2> QED  BY <2>1, <2>2, <2>3, <2>4, <2>5, DatabaseAssumption DEF DatabaseTypeOK, Days
<1>2. TelegramTypeOK
  BY TelegramAssumption DEF TelegramInit, TelegramTypeOK
<1>3. CaptureTypeOK
  BY DatabaseAssumption DEF CaptureInit, CaptureTypeOK
<1>4. SchedulerTypeOK
  <2>1. /\ fl \in [Flushers -> FlushPcs] /\ stamp \in [Flushers -> 0..MaxDay]
        /\ lastFlushAt \in 0..MaxDay /\ window \in Nat /\ bound \in Int
    BY DatabaseAssumption DEF SchedulerInit, FlushPcs, DatabaseInit
  <2>2. lock \in BOOLEAN /\ audit = {}
    BY DEF SchedulerInit, DatabaseInit
  <2> QED  BY <2>1, <2>2 DEF SchedulerTypeOK
<1>5. AdminTypeOK
  <2>1. NoOp \in AdmRow
    BY DEF NoOp, AdmRow, AdmPcs, AllOps
  <2> QED  BY <2>1, AdminAssumption DEF AdminInit, AdminTypeOK
<1> QED  BY <1>1, <1>2, <1>3, <1>4, <1>5, OoblivionAssumption DEF TypeOK

LEMMA NextType == TypeOK /\ [Next]_vars => TypeOK'
<1> SUFFICES ASSUME TypeOK, [Next]_vars PROVE TypeOK'  OBVIOUS
<1> USE DEF TypeOK
<1>1. CASE Boot
  <2>1. RetentionDays \in Nat /\ settings.lastFlush \in 0..MaxDay
    BY RetentionType DEF DatabaseTypeOK, Settings
  <2>2. fl' \in [Flushers -> FlushPcs]
    BY <1>1 DEF Boot, SchedulerTypeOK, FlushPcs, Inside
  <2>3. lock' \in BOOLEAN
    BY <1>1 DEF Boot
  <2>4. DatabaseTypeOK' /\ UNCHANGED audit
    BY <1>1, NoStatementType, FaultType DEF Boot
  <2>5. lastFlushAt' \in 0..MaxDay
    BY <1>1, <2>1, DatabaseAssumption DEF Boot
  <2>6. SchedulerTypeOK'
    BY <1>1, <2>1, <2>2, <2>3, <2>4, <2>5 DEF Boot, SchedulerTypeOK
  <2> QED
    BY <1>1, <2>4, <2>6 DEF Boot, tgVars, capVars, admVars, TelegramTypeOK, CaptureTypeOK, AdminTypeOK
<1>2. CASE Listen
  BY <1>2, NoStatementType, SchedulerUnchanged
  DEF Listen, tgVars, capVars, admVars, TelegramTypeOK, CaptureTypeOK, AdminTypeOK
<1>3. CASE SchedTick
  <2>1. Sched \in Flushers
    BY DEF Flushers
  <2> QED
    BY <1>3, <2>1, EnterType, NoStatementType
    DEF SchedTick, tgVars, capVars, admVars, TelegramTypeOK, CaptureTypeOK, AdminTypeOK
<1>4. CASE Crash
  BY <1>4, CrashType
<1>5. CASE Sending \/ Arriving
  BY <1>5, SendType, SchedulerUnchanged
  DEF Sending, Arriving, capVars, admVars, CaptureTypeOK, AdminTypeOK
<1>6. CASE Scheduling
  BY <1>6, SchedType
  DEF Scheduling, tgVars, capVars, admVars, TelegramTypeOK, CaptureTypeOK, AdminTypeOK
<1>7. CASE Ticking
  <2>1. DatabaseTypeOK' /\ UNCHANGED audit
    BY <1>7, DatabaseAssumption DEF Ticking, DayTick, tables, DatabaseTypeOK, Days
  <2> QED
    BY <1>7, <2>1, SchedulerUnchanged
    DEF Ticking, tgVars, capVars, admVars, TelegramTypeOK, CaptureTypeOK, AdminTypeOK
<1>8. ASSUME NEW r \in Requests, Capturing(r) PROVE TypeOK'
  BY <1>8, CaptureType, SchedulerUnchanged DEF Capturing, Arrive, admVars, AdminTypeOK
<1>9. ASSUME NEW h \in Handlers, Serving(h) PROVE TypeOK'
  <2>1. DatabaseTypeOK' /\ SchedulerTypeOK' /\ AdminTypeOK'
    <3>1. CASE AdminFlushStep(h)
      BY <3>1, FlushStepType DEF AdminFlushStep, Flushers, admVars, AdminTypeOK
    <3> QED  BY <1>9, <3>1, OperateType, AdminStepType DEF Serving, Request
  <2> QED  BY <1>9, <2>1 DEF Serving, tgVars, capVars, TelegramTypeOK, CaptureTypeOK
<1>10. CASE UNCHANGED vars
  BY <1>10, NoStatementType, SchedulerUnchanged
  DEF vars, tgVars, capVars, admVars, TelegramTypeOK, CaptureTypeOK, AdminTypeOK
<1>11. CASE BootFails
  BY <1>11, FaultType, SchedulerUnchanged
  DEF BootFails, tgVars, capVars, admVars, TelegramTypeOK, CaptureTypeOK, AdminTypeOK
<1> QED
  BY <1>1, <1>2, <1>3, <1>4, <1>5, <1>6, <1>7, <1>8, <1>9, <1>10, <1>11 DEF Next

(* Every variable of the program keeps its type, for any number of requests, *)
(* handlers, scopes, rules, faults and crashes.                              *)
THEOREM TypeCorrect == Spec => []TypeOK
BY InitType, NextType, PTL DEF Spec
=============================================================================
