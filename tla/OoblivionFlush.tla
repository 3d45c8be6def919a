--------------------------- MODULE OoblivionFlush ----------------------------
(* Theorems about Flush, which operators and the scheduler run under a lock  *)
(* that is only tried: the lock excludes, nothing leaks it, and what it      *)
(* guards - the order of the last_flush_at writes - follows.                 *)
EXTENDS OoblivionTypes

\* A dead process is inside no flush.
DownIsIdle == up = "down" => \A p \in Flushers : fl[p] = "idle"

LockInv == FlushesAlone /\ DownIsIdle

\* What a step does to fl and the lock: nothing; one goroutine goes in, with the
\* lock free (or in a fresh process); moves on, in or out; comes out and frees the
\* lock; or the process dies.
LockMove ==
  \/ UNCHANGED <<fl, lock>> /\ (up' = up \/ (up = "boot" /\ up' = "serving"))
  \/ \E p \in Flushers, step \in FlushPcs :
       /\ fl' = [fl EXCEPT ![p] = step] /\ up' # "down"
       /\ \/ (~lock \/ up = "down") /\ step \in Inside /\ lock' = TRUE
          \/ (fl[p] \in Inside <=> step \in Inside) /\ UNCHANGED lock /\ up # "down"
          \/ fl[p] \in Inside /\ step \notin Inside /\ lock' = FALSE /\ up # "down"
  \/ fl' = [p \in Flushers |-> "idle"] /\ lock' = FALSE

LEMMA EnterMove ==
  ASSUME TypeOK, NEW p \in Flushers, Enter(p), up = "serving", up' = up PROVE LockMove
<1>1. {"check", "logs"} \subseteq Inside /\ "ok" \notin Inside /\ "idle" \notin Inside
      /\ Inside \cup {"ok"} \subseteq FlushPcs
  BY DEF Inside, FlushPcs
<1> QED  BY <1>1 DEF Enter, LockMove, FlushAt, FlushTo

LEMMA ReturnMove ==
  ASSUME TypeOK, NEW p \in Flushers, NEW result \in {"ok", "error"}, fl[p] \in Inside,
         Return(p, result), up # "down", up' = up
  PROVE  LockMove
<1>1. result \notin Inside /\ result \in FlushPcs
  BY DEF Inside, FlushPcs
<1> QED  BY <1>1 DEF Return, LockMove, FlushTo

LEMMA WithinMove ==
  ASSUME NEW p \in Flushers, NEW step \in FlushPcs, fl[p] \in Inside <=> step \in Inside,
         FlushTo(p, step), UNCHANGED lock, up # "down", up' = up
  PROVE  LockMove
BY DEF LockMove, FlushTo

LEMMA FlushMove ==
  ASSUME TypeOK, NEW p \in Flushers, FlushStep(p), up # "down", up' = up PROVE LockMove
<1>1. {"logs", "rows", "setting", "audit"} \subseteq Inside /\ Inside \subseteq FlushPcs
  BY DEF Inside, FlushPcs
<1>2. CASE FlushLog(p)
  BY <1>1, <1>2, ReturnMove, WithinMove DEF FlushLog, FlushAt
<1>3. CASE FlushRows(p)
  BY <1>1, <1>3, ReturnMove, WithinMove DEF FlushRows, FlushAt
<1>4. CASE FlushSetting(p)
  BY <1>1, <1>4, ReturnMove, WithinMove DEF FlushSetting, FlushAt
<1>5. CASE FlushAudit(p)
  BY <1>1, <1>5, ReturnMove DEF FlushAudit, FlushAt
<1> QED  BY <1>2, <1>3, <1>4, <1>5 DEF FlushStep

LEMMA SchedMove == ASSUME TypeOK, Scheduling, up # "down" PROVE LockMove
<1>0. Sched \in Flushers /\ up' = up
  BY DEF Flushers, Scheduling
<1>1. /\ {"check", "boundary", "logs"} \subseteq Inside /\ Inside \subseteq FlushPcs
      /\ {"ok", "error", "prune", "idle"} \subseteq FlushPcs
      /\ "ok" \notin Inside /\ "error" \notin Inside /\ "prune" \notin Inside /\ "idle" \notin Inside
  BY DEF Inside, FlushPcs
<1>2. CASE CheckEnabled
  BY <1>0, <1>1, <1>2, ReturnMove, WithinMove DEF CheckEnabled, FlushAt
<1>3. CASE Boundary
  BY <1>0, <1>1, <1>3, WithinMove DEF Boundary, FlushAt
<1>4. CASE FlushStep(Sched)
  BY <1>0, <1>4, FlushMove
<1>5. CASE PruneNotificationLog
  BY <1>0, <1>1, <1>5, WithinMove DEF PruneNotificationLog
<1>6. CASE PruneAuditLog
  BY <1>0, <1>1, <1>6, WithinMove DEF PruneAuditLog, FlushAt
<1> QED  BY <1>2, <1>3, <1>4, <1>5, <1>6 DEF Scheduling, SchedStep

LEMMA OperateMove ==
  ASSUME TypeOK, NEW h \in Handlers, Operate(h), up = "serving", up' = up PROVE LockMove
<1>0. h \in Flushers
  BY DEF Flushers
<1>1. CASE FlushRequests(h)
  BY <1>0, <1>1, EnterMove DEF FlushRequests
<1>2. CASE UNCHANGED <<fl, lock>>
  BY <1>2 DEF LockMove
<1>3. CASE \E r \in Requests : Save(h, r) \/ Unsave(h, r) \/ Delete(h, "delete", {r})
  BY <1>2, <1>3 DEF Save, Unsave, Delete, schedVars
<1>4. CASE \E D \in SUBSET Requests : Delete(h, "bulk_delete", D)
  BY <1>2, <1>4 DEF Delete, schedVars
<1>5. CASE \E i \in ScopeIds : \/ \E p \in Payloads : CreateScope(h, i, p) \/ UpdateScope(h, i, p)
                              \/ ToggleScope(h, i) \/ DeleteScope(h, i)
  BY <1>2, <1>5 DEF CreateScope, UpdateScope, ToggleScope, DeleteScope, schedVars
<1>6. CASE \E i \in RuleIds : \/ \E p \in Payloads : CreateRule(h, i, p) \/ UpdateRule(h, i, p)
                             \/ ToggleRule(h, i) \/ DeleteRule(h, i)
  BY <1>2, <1>6 DEF CreateRule, UpdateRule, ToggleRule, DeleteRule, schedVars
<1>7. CASE \E days, auto : PutSettings(h, days, auto)
  BY <1>2, <1>7 DEF PutSettings
<1> QED  BY <1>1, <1>3, <1>4, <1>5, <1>6, <1>7 DEF Operate

LEMMA AdminMove ==
  ASSUME TypeOK, NEW h \in Handlers, AdminStep(h), up # "down", up' = up PROVE LockMove
<1>1. CASE AnswerFlush(h)
  <2>1. h \in Flushers /\ "idle" \in FlushPcs /\ "idle" \notin Inside
        /\ "ok" \notin Inside /\ "error" \notin Inside
    BY DEF Flushers, FlushPcs, Inside
  <2> QED  BY <1>1, <2>1, WithinMove DEF AnswerFlush
<1>2. CASE UNCHANGED schedVars
  BY <1>2 DEF schedVars, LockMove
<1> QED  BY <1>1, <1>2 DEF AdminStep, DeleteScopeRow, DeleteRuleRow, PutAutoFlush, LogAudit

LEMMA NextMove == TypeOK /\ LockInv /\ [Next]_vars => LockMove
<1> SUFFICES ASSUME TypeOK, LockInv, [Next]_vars PROVE LockMove  OBVIOUS
<1>0. Sched \in Flushers /\ "check" \in Inside /\ "check" \in FlushPcs
  BY DEF Flushers, Inside, FlushPcs
<1>1. CASE Boot
  BY <1>0, <1>1 DEF Boot, LockMove
<1>2. CASE Listen
  BY <1>2 DEF Listen, schedVars, LockMove
<1>3. CASE SchedTick
  BY <1>0, <1>3, EnterMove DEF SchedTick
<1>4. CASE Crash
  BY <1>4 DEF Crash, LockMove
<1>5. CASE UNCHANGED <<fl, lock, up>>
  BY <1>5 DEF LockMove
<1>6. CASE Scheduling
  <2>1. fl[Sched] # "idle"
    BY <1>6 DEF Scheduling, SchedStep, CheckEnabled, Boundary, FlushStep, FlushLog, FlushRows,
                FlushSetting, FlushAudit, PruneNotificationLog, PruneAuditLog, FlushAt
  <2> QED  BY <1>0, <1>6, <2>1, SchedMove DEF LockInv, DownIsIdle
<1>7. ASSUME NEW h \in Handlers, Serving(h) PROVE LockMove
  <2>1. h \in Flushers /\ up' = up
    BY <1>7 DEF Flushers, Serving
  <2>2. CASE Request(h)
    BY <2>1, <2>2, OperateMove DEF Request
  <2>3. CASE AdminFlushStep(h)
    <3>1. fl[h] # "idle"
      BY <2>3 DEF AdminFlushStep, FlushStep, FlushLog, FlushRows, FlushSetting, FlushAudit, FlushAt
    <3> QED  BY <2>1, <2>3, <3>1, FlushMove DEF LockInv, DownIsIdle, AdminFlushStep
  <2>4. CASE AdminStep(h) /\ up # "down"
    BY <2>1, <2>4, AdminMove
  <2>5. CASE AdminStep(h) /\ up = "down"
    <3>1. fl[h] = "idle"
      BY <2>1, <2>5 DEF LockInv, DownIsIdle
    <3>2. ~AnswerFlush(h)
      BY <3>1 DEF AnswerFlush
    <3> QED
      BY <1>5, <2>1, <2>5, <3>2
      DEF AdminStep, DeleteScopeRow, DeleteRuleRow, PutAutoFlush, LogAudit, schedVars
  <2> QED  BY <1>7, <2>2, <2>3, <2>4, <2>5 DEF Serving
<1> QED
  BY <1>1, <1>2, <1>3, <1>4, <1>5, <1>6, <1>7
  DEF Next, BootFails, Sending, Arriving, Ticking, Capturing, schedVars, vars

LEMMA MoveLockInv == ASSUME TypeOK, LockInv, LockMove PROVE LockInv'
<1>0. fl \in [Flushers -> FlushPcs] /\ lock \in BOOLEAN
  BY DEF TypeOK, SchedulerTypeOK
<1>1. CASE UNCHANGED <<fl, lock>> /\ (up' = up \/ (up = "boot" /\ up' = "serving"))
  BY <1>1 DEF LockInv, FlushesAlone, DownIsIdle
<1>2. CASE fl' = [p \in Flushers |-> "idle"] /\ lock' = FALSE
  BY <1>2 DEF LockInv, FlushesAlone, DownIsIdle, Inside
<1>3. ASSUME NEW p \in Flushers, NEW step \in FlushPcs, fl' = [fl EXCEPT ![p] = step], up' # "down",
             ~lock \/ up = "down", step \in Inside, lock' = TRUE
      PROVE  LockInv'
  <2>1. \A q \in Flushers : fl[q] \notin Inside
    BY <1>3 DEF LockInv, FlushesAlone, DownIsIdle, Inside
  <2>2. \A q \in Flushers : fl'[q] \in Inside <=> q = p
    BY <1>0, <1>3, <2>1
  <2> QED  BY <1>3, <2>2 DEF LockInv, FlushesAlone, DownIsIdle
<1>4. ASSUME NEW p \in Flushers, NEW step \in FlushPcs, fl' = [fl EXCEPT ![p] = step], up' # "down",
             fl[p] \in Inside <=> step \in Inside, UNCHANGED lock
      PROVE  LockInv'
  <2>1. \A q \in Flushers : fl'[q] \in Inside <=> fl[q] \in Inside
    BY <1>0, <1>4
  <2> QED  BY <1>4, <2>1 DEF LockInv, FlushesAlone, DownIsIdle
<1>5. ASSUME NEW p \in Flushers, NEW step \in FlushPcs, fl' = [fl EXCEPT ![p] = step], up' # "down",
             fl[p] \in Inside, step \notin Inside, lock' = FALSE
      PROVE  LockInv'
  <2>1. \A q \in Flushers : fl'[q] \notin Inside
    BY <1>0, <1>5 DEF LockInv, FlushesAlone
  <2> QED  BY <1>5, <2>1 DEF LockInv, FlushesAlone, DownIsIdle
<1> QED  BY <1>1, <1>2, <1>3, <1>4, <1>5 DEF LockMove

LEMMA Locked == Spec => []LockInv
<1>1. Init => LockInv
  BY DEF Init, SchedulerInit, LockInv, FlushesAlone, DownIsIdle, Inside
<1>2. TypeOK /\ LockInv /\ [Next]_vars => LockInv'
  BY NextMove, MoveLockInv
<1> QED  BY <1>1, <1>2, TypeCorrect, PTL DEF Spec

\* The lock of Flush excludes, and no path through Flush, RunOnce or a crash leaves
\* it held with nobody inside, for any number of handler goroutines.
THEOREM FlushExclusion == Spec => []FlushesAlone
<1>1. LockInv => FlushesAlone
  BY DEF LockInv
<1> QED  BY <1>1, Locked, PTL

-----------------------------------------------------------------------------
(* The order of the last_flush_at writes.                                    *)
OrderInv ==
  /\ settings.lastFlush <= day
  /\ \A p \in Flushers : fl[p] = "setting" => settings.lastFlush <= stamp[p] /\ stamp[p] <= day

\* A step leaves last_flush_at alone, and whoever arrives before its write has just
\* read the clock; or it is that write.
OrderMove ==
  \/ /\ settings'.lastFlush = settings.lastFlush /\ day' >= day
     /\ \A p \in Flushers : fl'[p] = "setting" =>
          (fl[p] = "setting" /\ stamp'[p] = stamp[p]) \/ (stamp'[p] = day /\ day' = day)
  \/ /\ UNCHANGED day /\ \E p \in Flushers : /\ fl[p] = "setting" /\ settings'.lastFlush = stamp[p]
                                            /\ \A q \in Flushers : fl'[q] = "setting" => q # p /\ fl[q] = "setting"

LEMMA DayType == TypeOK => day \in Int /\ settings \in Settings /\ fl \in [Flushers -> FlushPcs]
                           /\ stamp \in [Flushers -> 0..MaxDay] /\ Sched \in Flushers
BY DEF TypeOK, DatabaseTypeOK, SchedulerTypeOK, Days, Flushers

\* Steps that touch neither the setting nor what Flush keeps.
LEMMA OtherOrder ==
  ASSUME TypeOK, UNCHANGED <<settings, day>>, UNCHANGED stamp,
         \A p \in Flushers : fl'[p] = "setting" => fl[p] = "setting"
  PROVE  OrderMove
BY DayType DEF OrderMove

LEMMA FlushOrder ==
  ASSUME TypeOK, NEW p \in Flushers, FlushStep(p) PROVE OrderMove
<1> USE DayType
<1>0. \A result \in {"ok", "error"} : Return(p, result) /\ UNCHANGED <<settings, day>> => OrderMove
  BY DEF Return, FlushTo, OrderMove
<1>1. Fault => UNCHANGED <<settings, day>>
  BY DEF Fault, tables
<1>2. CASE FlushLog(p)
  BY <1>0, <1>1, <1>2, OtherOrder DEF FlushLog, FlushTo, DeleteLog, OnlyLog
<1>3. CASE FlushRows(p)
  <2>1. CASE Return(p, "error")
    BY <1>0, <1>1, <1>3, <2>1 DEF FlushRows, Fails, Refused, dbVars, DeleteRequests, OnlyRequests
  <2>2. CASE /\ UNCHANGED <<settings, day>> /\ stamp' = [stamp EXCEPT ![p] = day]
             /\ FlushTo(p, "setting")
    <3>1. \A q \in Flushers : q # p => fl'[q] = fl[q] /\ stamp'[q] = stamp[q]
      BY <2>2 DEF FlushTo
    <3>2. stamp'[p] = day
      BY <2>2
    <3> QED  BY <2>2, <3>1, <3>2 DEF OrderMove
  <2> QED  BY <1>3, <2>1, <2>2 DEF FlushRows, DeleteRequests, OnlyRequests
<1>4. CASE FlushSetting(p)
  <2>1. CASE Fault /\ Return(p, "error")
    BY <1>0, <1>1, <2>1
  <2>2. CASE WriteSetting([settings EXCEPT !.lastFlush = stamp[p]]) /\ FlushTo(p, "audit")
    <3>1. settings'.lastFlush = stamp[p] /\ UNCHANGED day
      BY <2>2 DEF WriteSetting, OnlySettings, Settings
    <3>2. \A q \in Flushers : fl'[q] = IF q = p THEN "audit" ELSE fl[q]
      BY <2>2 DEF FlushTo
    <3>3. fl[p] = "setting"
      BY <1>4 DEF FlushSetting, FlushAt
    <3> QED  BY <3>1, <3>2, <3>3 DEF OrderMove
  <2> QED  BY <1>4, <2>1, <2>2 DEF FlushSetting
<1>5. CASE FlushAudit(p)
  BY <1>0, <1>1, <1>5 DEF FlushAudit, InsertAudit, OnlyAudit
<1> QED  BY <1>2, <1>3, <1>4, <1>5 DEF FlushStep

LEMMA SchedOrder == ASSUME TypeOK, Scheduling PROVE OrderMove
<1> USE DayType
<1>1. Fault => UNCHANGED <<settings, day>>
  BY DEF Fault, tables
<1>2. CASE CheckEnabled
  <2>1. UNCHANGED <<settings, day>>
    BY <1>1, <1>2 DEF CheckEnabled, dbVars
  <2>2. CASE Return(Sched, "ok")
    BY <2>1, <2>2 DEF Return, FlushTo, OrderMove
  <2>3. CASE FlushTo(Sched, "boundary") /\ UNCHANGED stamp
    BY <2>1, <2>3, OtherOrder DEF FlushTo
  <2> QED  BY <1>2, <2>2, <2>3 DEF CheckEnabled
<1>3. CASE Boundary
  BY <1>1, <1>3, OtherOrder DEF Boundary, FlushTo, dbVars
<1>4. CASE FlushStep(Sched)
  BY <1>4, FlushOrder
<1>5. CASE PruneNotificationLog
  BY <1>1, <1>5, OtherOrder DEF PruneNotificationLog, FlushTo, DeleteLog, OnlyLog
<1>6. CASE PruneAuditLog
  BY <1>1, <1>6, OtherOrder DEF PruneAuditLog, FlushTo, OnlyAudit
<1> QED  BY <1>2, <1>3, <1>4, <1>5, <1>6 DEF Scheduling, SchedStep

\* A console statement on another table, or one that fails.
OtherTables == UNCHANGED settings /\ UNCHANGED day

LEMMA StatementsKeepSettings ==
  /\ Fault \/ UNCHANGED dbVars => OtherTables
  /\ \A r, row : UpdateRequest(r, row) => OtherTables
  /\ \A D : DeleteRequests(D) => OtherTables
  /\ \A s : Detach(s) => OtherTables
  /\ \A i, row : WriteScope(i, row) \/ WriteRule(i, row) => OtherTables
  /\ \A E : DeleteLog(E) => OtherTables
  /\ \A action, ip, at : InsertAudit(action, ip, at) => OtherTables
BY DEF OtherTables, Fault, tables, dbVars, UpdateRequest, DeleteRequests, OnlyRequests, Detach,
       WriteScope, OnlyScopes, WriteRule, OnlyRules, DeleteLog, OnlyLog, InsertAudit, OnlyAudit

LEMMA OperateOrder == ASSUME TypeOK, NEW h \in Handlers, Operate(h) PROVE OrderMove
<1> USE DayType, StatementsKeepSettings
<1>1. CASE FlushRequests(h)
  <2>1. \A p \in Flushers : fl'[p] = "setting" => fl[p] = "setting"
    BY <1>1 DEF FlushRequests, Enter, FlushTo
  <2> QED  BY <1>1, <2>1, OtherOrder DEF FlushRequests, Enter, OtherTables
<1>2. CASE OtherTables /\ UNCHANGED schedVars
  BY <1>2, OtherOrder DEF OtherTables, schedVars
<1>3. CASE \E r \in Requests : Save(h, r) \/ Unsave(h, r) \/ Delete(h, "delete", {r})
  BY <1>2, <1>3 DEF Save, Unsave, Delete, Fails, Refused
<1>4. CASE \E D \in SUBSET Requests : Delete(h, "bulk_delete", D)
  BY <1>2, <1>4 DEF Delete, Fails, Refused
<1>5. CASE \E i \in ScopeIds : \/ \E p \in Payloads : CreateScope(h, i, p) \/ UpdateScope(h, i, p)
                              \/ ToggleScope(h, i) \/ DeleteScope(h, i)
  BY <1>2, <1>5 DEF CreateScope, UpdateScope, ToggleScope, DeleteScope
<1>6. CASE \E i \in RuleIds : \/ \E p \in Payloads : CreateRule(h, i, p) \/ UpdateRule(h, i, p)
                             \/ ToggleRule(h, i) \/ DeleteRule(h, i)
  BY <1>2, <1>6 DEF CreateRule, UpdateRule, ToggleRule, DeleteRule
<1>7. ASSUME NEW days, NEW auto, PutSettings(h, days, auto) PROVE OrderMove
  <2>1. UNCHANGED <<fl, stamp, day>>
    BY <1>7 DEF PutSettings, WriteSetting, OnlySettings, Fault
  <2>2. \A d, a : /\ [settings EXCEPT !.days = d].lastFlush = settings.lastFlush
                 /\ [settings EXCEPT !.auto = a].lastFlush = settings.lastFlush
    BY DEF Settings
  <2>3. settings'.lastFlush = settings.lastFlush
    <3>1. CASE Fault
      BY <3>1 DEF OtherTables
    <3>2. CASE WriteSetting([settings EXCEPT !.days = days])
      BY <2>2, <3>2 DEF WriteSetting
    <3>3. ASSUME NEW a, WriteSetting([settings EXCEPT !.auto = a]) PROVE settings'.lastFlush = settings.lastFlush
      BY <2>2, <3>3 DEF WriteSetting
    <3> QED  BY <1>7, <3>1, <3>2, <3>3 DEF PutSettings
  <2> QED  BY <2>1, <2>3 DEF OrderMove
<1> QED  BY <1>1, <1>3, <1>4, <1>5, <1>6, <1>7 DEF Operate

LEMMA AdminOrder == ASSUME TypeOK, NEW h \in Handlers, AdminStep(h) PROVE OrderMove
<1> USE DayType, StatementsKeepSettings
<1>1. CASE OtherTables /\ UNCHANGED schedVars
  BY <1>1, OtherOrder DEF OtherTables, schedVars
<1>2. CASE DeleteScopeRow(h) \/ DeleteRuleRow(h) \/ LogAudit(h)
  BY <1>1, <1>2 DEF DeleteScopeRow, DeleteRuleRow, LogAudit, Fails, Refused
<1>3. CASE PutAutoFlush(h)
  <2>1. \A a : [settings EXCEPT !.auto = a].lastFlush = settings.lastFlush
    BY DEF Settings
  <2>2. settings'.lastFlush = settings.lastFlush /\ UNCHANGED <<fl, stamp, day>>
    BY <1>3, <2>1 DEF PutAutoFlush, WriteSetting, OnlySettings, OtherTables, schedVars
  <2> QED  BY <2>2 DEF OrderMove
<1>4. CASE AnswerFlush(h)
  BY <1>4, OtherOrder DEF AnswerFlush, FlushTo, dbVars
<1> QED  BY <1>2, <1>3, <1>4 DEF AdminStep

LEMMA NextOrder == TypeOK /\ [Next]_vars => OrderMove
<1> SUFFICES ASSUME TypeOK, [Next]_vars PROVE OrderMove  OBVIOUS
<1> USE DayType, StatementsKeepSettings
<1>1. CASE Boot
  BY <1>1, OtherOrder DEF Boot, OtherTables
<1>2. CASE Listen
  BY <1>2, OtherOrder DEF Listen, schedVars, dbVars
<1>3. CASE SchedTick
  <2>1. \A p \in Flushers : fl'[p] = "setting" => fl[p] = "setting"
    BY <1>3 DEF SchedTick, Enter, FlushTo
  <2> QED  BY <1>3, <2>1, OtherOrder DEF SchedTick, Enter, dbVars
<1>4. CASE Crash
  BY <1>4 DEF Crash, dbVars, OrderMove
<1>5. CASE Sending \/ Arriving
  BY <1>5, OtherOrder
  DEF Sending, Arriving, AcceptLate, Send, Receive, Post, LogEvent, Fails, Refused, InsertLog, OnlyLog, schedVars,
      OtherTables, dbVars
<1>6. CASE Ticking
  BY <1>6 DEF Ticking, DayTick, tables, schedVars, OrderMove
<1>7. ASSUME NEW r \in Requests, Capturing(r) PROVE OrderMove
  <2>1. OtherTables
    BY <1>7 DEF Capturing, Arrive, Store, InsertRequest, OnlyRequests, CaptureStep, CountCapture,
                MatchScopes, ApplyScope, Attach, MatchRules, EnqueueNext, MarkNotified,
                Fails, Refused, OtherTables, Fault, tables, dbVars, UpdateRequest
  <2> QED  BY <1>7, <2>1, OtherOrder DEF Capturing, schedVars, OtherTables
<1>8. ASSUME NEW h \in Handlers, Serving(h) PROVE OrderMove
  BY <1>8, OperateOrder, AdminOrder, FlushOrder DEF Serving, Request, AdminFlushStep, Flushers
<1>9. CASE UNCHANGED vars
  BY <1>9, OtherOrder DEF vars, dbVars, schedVars
<1>10. CASE BootFails
  BY <1>10, OtherOrder DEF BootFails, OtherTables, schedVars
<1> QED  BY <1>1, <1>2, <1>3, <1>4, <1>5, <1>6, <1>7, <1>8, <1>9, <1>10, SchedOrder DEF Next

LEMMA MoveOrderInv ==
  ASSUME TypeOK, TypeOK', FlushesAlone, OrderInv, OrderMove
  PROVE  OrderInv' /\ settings'.lastFlush >= settings.lastFlush
<1>0. /\ day \in Int /\ day' \in Int /\ settings.lastFlush \in Int /\ settings'.lastFlush \in Int
      /\ \A p \in Flushers : stamp[p] \in Int /\ stamp'[p] \in Int
  BY DEF TypeOK, DatabaseTypeOK, SchedulerTypeOK, Days, Settings
<1>1. CASE /\ settings'.lastFlush = settings.lastFlush /\ day' >= day
           /\ \A p \in Flushers : fl'[p] = "setting" =>
                (fl[p] = "setting" /\ stamp'[p] = stamp[p]) \/ (stamp'[p] = day /\ day' = day)
  BY <1>0, <1>1 DEF OrderInv
<1>2. ASSUME NEW p \in Flushers, UNCHANGED day, fl[p] = "setting", settings'.lastFlush = stamp[p],
             \A q \in Flushers : fl'[q] = "setting" => q # p /\ fl[q] = "setting"
      PROVE  OrderInv' /\ settings'.lastFlush >= settings.lastFlush
  <2>1. settings.lastFlush <= stamp[p] /\ stamp[p] <= day
    BY <1>2 DEF OrderInv
  <2>2. \A q \in Flushers : fl'[q] # "setting"
    BY <1>2 DEF FlushesAlone, Inside
  <2> QED  BY <1>0, <1>2, <2>1, <2>2 DEF OrderInv
<1> QED  BY <1>1, <1>2 DEF OrderMove

LEMMA Ordered == Spec => []OrderInv
<1>1. Init => OrderInv
  BY DEF Init, DatabaseInit, SchedulerInit, OrderInv
<1>2. TypeOK /\ TypeOK' /\ FlushesAlone /\ OrderInv /\ [Next]_vars => OrderInv'
  BY NextOrder, MoveOrderInv
<1> QED  BY <1>1, <1>2, TypeCorrect, FlushExclusion, PTL DEF Spec

\* Two flushes never write last_flush_at in the wrong order, although each writes a
\* time it read some steps before: the clock only advances and the lock keeps the
\* read and the write of one flush together.
THEOREM LastFlushAdvances == Spec => LastFlushNeverGoesBack
<1>1. TypeOK /\ TypeOK' /\ FlushesAlone /\ OrderInv /\ [Next]_vars
        => [settings'.lastFlush >= settings.lastFlush]_vars
  BY NextOrder, MoveOrderInv
<1> QED
  BY <1>1, TypeCorrect, FlushExclusion, Ordered, PTL DEF Spec, LastFlushNeverGoesBack
-----------------------------------------------------------------------------
(* The retention window. From its begin to the boundary an automatic flush   *)
(* has not promised more than the retention there is; from the boundary on   *)
(* its boundary keeps the shortest retention it has met, in days that only   *)
(* become longer ago. A fault ends the promise.                              *)
WindowInv ==
  faults = 0 =>
    /\ fl[Sched] \in {"check", "boundary"} => window <= RetentionDays
    /\ fl[Sched] \in {"logs", "rows"} => bound + window <= day

\* What a step does to the automatic flush: it is before its window or past its
\* deletes; it begins; it is left alone, but for a shorter window; it moves on.
WindowMove ==
  \/ fl'[Sched] \notin {"check", "boundary", "logs", "rows"}
  \/ fl'[Sched] = "check" /\ window' = RetentionDays /\ UNCHANGED settings
  \/ /\ fl'[Sched] = fl[Sched] /\ bound' = bound /\ day' >= day
     /\ window' <= window /\ (RetentionDays' = RetentionDays \/ window' <= RetentionDays')
  \/ fl[Sched] = "check" /\ fl'[Sched] = "boundary" /\ UNCHANGED <<window, settings>>
  \/ /\ fl[Sched] = "boundary" /\ fl'[Sched] = "logs" /\ UNCHANGED <<window, day>>
     /\ bound' = day - RetentionDays \/ Fault
  \/ fl[Sched] = "logs" /\ fl'[Sched] = "rows" /\ UNCHANGED <<window, bound, day>>

\* No step takes a fault back, and only one kind of step counts a capture.
Counted == /\ faults' \in {faults, faults + 1}
           /\ total' = total \/ \E r \in Requests : CountCapture(r)

LEMMA StatementsCount ==
  /\ Fault \/ UNCHANGED dbVars => Counted
  /\ \A r, row : UpdateRequest(r, row) => Counted
  /\ \A r : InsertRequest(r) => Counted
  /\ \A D : DeleteRequests(D) => Counted
  /\ \A s : Detach(s) => Counted
  /\ \A i, row : WriteScope(i, row) \/ WriteRule(i, row) => Counted
  /\ \A j : InsertLog(j) => Counted
  /\ \A E : DeleteLog(E) => Counted
  /\ \A row : WriteSetting(row) => Counted
  /\ \A action, ip, at : InsertAudit(action, ip, at) => Counted
BY DEF Counted, Fault, tables, dbVars, UpdateRequest, InsertRequest, DeleteRequests, OnlyRequests, Detach,
       WriteScope, OnlyScopes, WriteRule, OnlyRules, InsertLog, DeleteLog, OnlyLog, WriteSetting,
       OnlySettings, InsertAudit, OnlyAudit

LEMMA OperateCounts == ASSUME NEW h \in Handlers, Operate(h) PROVE Counted
<1> USE StatementsCount
<1>1. CASE FlushRequests(h) BY <1>1 DEF FlushRequests
<1>2. CASE \E r \in Requests : Save(h, r) \/ Unsave(h, r) \/ Delete(h, "delete", {r})
  BY <1>2 DEF Save, Unsave, Delete, Fails, Refused
<1>3. CASE \E D \in SUBSET Requests : Delete(h, "bulk_delete", D)
  BY <1>3 DEF Delete, Fails, Refused
<1>4. CASE \E i \in ScopeIds : \/ \E p \in Payloads : CreateScope(h, i, p) \/ UpdateScope(h, i, p)
                              \/ ToggleScope(h, i) \/ DeleteScope(h, i)
  BY <1>4 DEF CreateScope, UpdateScope, ToggleScope, DeleteScope
<1>5. CASE \E i \in RuleIds : \/ \E p \in Payloads : CreateRule(h, i, p) \/ UpdateRule(h, i, p)
                             \/ ToggleRule(h, i) \/ DeleteRule(h, i)
  BY <1>5 DEF CreateRule, UpdateRule, ToggleRule, DeleteRule
<1>6. CASE \E days, auto : PutSettings(h, days, auto) BY <1>6 DEF PutSettings
<1> QED  BY <1>1, <1>2, <1>3, <1>4, <1>5, <1>6 DEF Operate

LEMMA NextCounts == [Next]_vars => Counted
<1> SUFFICES ASSUME [Next]_vars PROVE Counted  OBVIOUS
<1> USE StatementsCount
<1>1. CASE Boot \/ BootFails \/ Listen \/ SchedTick \/ Crash \/ UNCHANGED vars
  BY <1>1 DEF Boot, BootFails, Listen, SchedTick, Crash, vars
<1>2. CASE Sending \/ Arriving
  BY <1>2 DEF Sending, Arriving, AcceptLate, Send, Receive, Post, LogEvent, Fails, Refused
<1>3. ASSUME NEW p, FlushStep(p) PROVE Counted
  BY <1>3 DEF FlushStep, FlushLog, FlushRows, FlushSetting, FlushAudit, Fails, Refused
<1>4. CASE Scheduling
  <2>1. OnlyAudit => Counted BY DEF OnlyAudit, Counted
  <2> QED
    BY <1>3, <1>4, <2>1 DEF Scheduling, SchedStep, CheckEnabled, Boundary, PruneNotificationLog, PruneAuditLog
<1>5. CASE Ticking BY <1>5 DEF Ticking, DayTick, tables, Counted
<1>6. ASSUME NEW r \in Requests, Capturing(r) PROVE Counted
  <2>1. CountCapture(r) => Counted BY DEF CountCapture, Counted
  <2> QED
    BY <1>6, <2>1 DEF Capturing, Arrive, Store, CaptureStep, MatchScopes, ApplyScope, Attach,
                      MatchRules, EnqueueNext, MarkNotified, Fails, Refused
<1>7. ASSUME NEW h \in Handlers, Serving(h) PROVE Counted
  BY <1>3, <1>7, OperateCounts DEF Serving, Request, AdminFlushStep, AdminStep, DeleteScopeRow,
     DeleteRuleRow, PutAutoFlush, LogAudit, AnswerFlush, Fails, Refused
<1> QED  BY <1>1, <1>2, <1>4, <1>5, <1>6, <1>7 DEF Next

\* A step that leaves the automatic flush and the settings alone.
LEMMA OtherWindow ==
  ASSUME TypeOK, UNCHANGED <<settings, bound, window>>, day' >= day, fl'[Sched] = fl[Sched]
  PROVE  WindowMove
BY DEF WindowMove, RetentionDays, TypeOK, SchedulerTypeOK

\* Whoever comes out of a flush was the only one inside.
LEMMA ReturnWindow ==
  ASSUME TypeOK, FlushesAlone, NEW p \in Flushers, NEW result \in {"ok", "error"},
         fl[p] \in Inside, Return(p, result)
  PROVE  WindowMove
<1>1. \A q \in Flushers : q # p => fl[q] \notin Inside BY DEF FlushesAlone
<1>2. fl'[Sched] = IF p = Sched THEN result ELSE fl[Sched] BY DayType DEF Return, FlushTo
<1> QED  BY <1>1, <1>2, DayType DEF WindowMove, Inside

LEMMA FlushWindow ==
  ASSUME TypeOK, FlushesAlone, NEW p \in Flushers, FlushStep(p) PROVE WindowMove
<1> USE DayType, ReturnWindow, StatementsKeepSettings DEF FlushAt, Inside
<1>1. \A step : FlushTo(p, step) => fl'[Sched] = IF p = Sched THEN step ELSE fl[Sched]
  BY DEF FlushTo
<1>2. CASE FlushLog(p)
  <2>1. CASE Return(p, "error") BY <1>2, <2>1 DEF FlushLog
  <2>2. CASE /\ DeleteLog({e \in nlog : e.request \in Due(p)}) /\ FlushTo(p, "rows")
             /\ UNCHANGED <<bound, window>>
    <3>1. UNCHANGED <<settings, day>> BY <2>2 DEF OtherTables
    <3>2. CASE p = Sched BY <1>1, <1>2, <2>2, <3>1, <3>2 DEF FlushLog, WindowMove
    <3>3. CASE p # Sched BY <1>1, <2>2, <3>1, <3>3, OtherWindow
    <3> QED  BY <3>2, <3>3
  <2> QED  BY <1>2, <2>1, <2>2 DEF FlushLog
<1>3. CASE FlushRows(p)
  <2>1. CASE Return(p, "error") BY <1>3, <2>1 DEF FlushRows
  <2>2. CASE DeleteRequests(Due(p)) /\ FlushTo(p, "setting") /\ UNCHANGED <<bound, window>>
    <3>1. UNCHANGED <<settings, day>> BY <2>2 DEF OtherTables
    <3>2. CASE p = Sched BY <1>1, <2>2, <3>2 DEF WindowMove
    <3>3. CASE p # Sched BY <1>1, <2>2, <3>1, <3>3, OtherWindow
    <3> QED  BY <3>2, <3>3
  <2> QED  BY <1>3, <2>1, <2>2 DEF FlushRows
<1>4. CASE FlushSetting(p)
  <2>1. CASE Return(p, "error") BY <1>4, <2>1 DEF FlushSetting
  <2>2. CASE /\ WriteSetting([settings EXCEPT !.lastFlush = stamp[p]])
             /\ FlushTo(p, "audit") /\ UNCHANGED <<bound, window>>
    <3>1. settings'.days = settings.days /\ UNCHANGED day
      BY <2>2 DEF WriteSetting, OnlySettings, Settings
    <3>2. RetentionDays' = RetentionDays BY <3>1 DEF RetentionDays
    <3>3. CASE p = Sched BY <1>1, <2>2, <3>3 DEF WindowMove
    <3>4. CASE p # Sched BY <1>1, <2>2, <3>1, <3>2, <3>4 DEF WindowMove, TypeOK, SchedulerTypeOK
    <3> QED  BY <3>3, <3>4
  <2> QED  BY <1>4, <2>1, <2>2 DEF FlushSetting
<1>5. CASE FlushAudit(p) BY <1>5 DEF FlushAudit
<1> QED  BY <1>2, <1>3, <1>4, <1>5 DEF FlushStep

LEMMA SchedWindow == ASSUME TypeOK, FlushesAlone, Scheduling PROVE WindowMove
<1> USE DayType, StatementsKeepSettings DEF FlushAt
<1>1. \A step : FlushTo(Sched, step) => fl'[Sched] = step BY DEF FlushTo
<1>2. CASE CheckEnabled
  <2>1. CASE Return(Sched, "ok") BY <1>2, <2>1, ReturnWindow DEF CheckEnabled, Inside
  <2>2. CASE FlushTo(Sched, "boundary") /\ UNCHANGED window
    <3>1. UNCHANGED settings BY <1>2 DEF CheckEnabled, OtherTables
    <3> QED  BY <1>1, <1>2, <2>2, <3>1 DEF CheckEnabled, WindowMove
  <2> QED  BY <1>2, <2>1, <2>2 DEF CheckEnabled
<1>3. CASE Boundary
  <2>1. UNCHANGED <<window, day>> BY <1>3 DEF Boundary, OtherTables
  <2> QED  BY <1>1, <1>3, <2>1 DEF Boundary, WindowMove
<1>4. CASE FlushStep(Sched) BY <1>4, FlushWindow
<1>5. CASE PruneNotificationLog \/ PruneAuditLog
  BY <1>1, <1>5 DEF PruneNotificationLog, PruneAuditLog, WindowMove
<1> QED  BY <1>2, <1>3, <1>4, <1>5 DEF Scheduling, SchedStep

LEMMA SettingsWindow ==
  ASSUME TypeOK, NEW h \in Handlers, NEW days \in Retentions \cup {0}, NEW auto, PutSettings(h, days, auto)
  PROVE  WindowMove
<1>1. UNCHANGED <<fl, bound, day>>
  BY DEF PutSettings, WriteSetting, OnlySettings, Fault
<1>2. days \in Nat BY DatabaseAssumption
<1>3. window \in Nat /\ day \in Int BY DayType DEF TypeOK, SchedulerTypeOK
<1>4. settings \in Settings BY DayType
<1>5. CASE days # 0 /\ WriteSetting([settings EXCEPT !.days = days])
           /\ window' = IF days < window THEN days ELSE window
  <2>1. settings'.days = days BY <1>4, <1>5 DEF WriteSetting, Settings
  <2> QED  BY <1>1, <1>2, <1>3, <1>5, <2>1 DEF WindowMove, RetentionDays
<1>6. ASSUME NEW a, WriteSetting([settings EXCEPT !.auto = a]), UNCHANGED window PROVE WindowMove
  <2>1. settings'.days = settings.days BY <1>4, <1>6 DEF WriteSetting, Settings
  <2> QED  BY <1>1, <1>3, <1>6, <2>1 DEF WindowMove, RetentionDays
<1>7. CASE Fault /\ UNCHANGED window
  <2>1. settings' = settings BY <1>7 DEF Fault, tables
  <2> QED  BY <1>1, <1>3, <1>7, <2>1 DEF WindowMove, RetentionDays
<1> QED  BY <1>5, <1>6, <1>7 DEF PutSettings

LEMMA OperateWindow == ASSUME TypeOK, NEW h \in Handlers, Operate(h) PROVE WindowMove
<1> USE DayType, StatementsKeepSettings
<1>0. h # Sched BY SchedulerAssumption
<1>1. CASE FlushRequests(h)
  <2>1. fl'[Sched] = fl[Sched] /\ UNCHANGED <<bound, window>>
    BY <1>0, <1>1 DEF FlushRequests, Enter, FlushTo
  <2> QED  BY <1>1, <2>1, OtherWindow DEF FlushRequests, OtherTables
<1>2. CASE OtherTables /\ UNCHANGED schedVars
  BY <1>2, OtherWindow DEF OtherTables, schedVars
<1>3. CASE \E r \in Requests : Save(h, r) \/ Unsave(h, r) \/ Delete(h, "delete", {r})
  BY <1>2, <1>3 DEF Save, Unsave, Delete, Fails, Refused
<1>4. CASE \E D \in SUBSET Requests : Delete(h, "bulk_delete", D)
  BY <1>2, <1>4 DEF Delete, Fails, Refused
<1>5. CASE \E i \in ScopeIds : \/ \E p \in Payloads : CreateScope(h, i, p) \/ UpdateScope(h, i, p)
                              \/ ToggleScope(h, i) \/ DeleteScope(h, i)
  BY <1>2, <1>5 DEF CreateScope, UpdateScope, ToggleScope, DeleteScope
<1>6. CASE \E i \in RuleIds : \/ \E p \in Payloads : CreateRule(h, i, p) \/ UpdateRule(h, i, p)
                             \/ ToggleRule(h, i) \/ DeleteRule(h, i)
  BY <1>2, <1>6 DEF CreateRule, UpdateRule, ToggleRule, DeleteRule
<1> QED  BY <1>1, <1>3, <1>4, <1>5, <1>6, SettingsWindow DEF Operate

LEMMA AdminWindow == ASSUME TypeOK, NEW h \in Handlers, AdminStep(h) PROVE WindowMove
<1> USE DayType, StatementsKeepSettings
<1>0. h # Sched BY SchedulerAssumption
<1>1. CASE DeleteScopeRow(h) \/ DeleteRuleRow(h) \/ LogAudit(h)
  BY <1>1, OtherWindow DEF DeleteScopeRow, DeleteRuleRow, LogAudit, Fails, Refused, OtherTables, schedVars
<1>2. CASE PutAutoFlush(h)
  <2>1. \A a : [settings EXCEPT !.auto = a].days = settings.days BY DEF Settings
  <2>2. settings'.days = settings.days /\ UNCHANGED <<fl, bound, window, day>>
    BY <1>2, <2>1 DEF PutAutoFlush, WriteSetting, OnlySettings, OtherTables, schedVars
  <2> QED  BY <2>2 DEF WindowMove, RetentionDays, TypeOK, SchedulerTypeOK
<1>3. CASE AnswerFlush(h)
  <2>1. fl'[Sched] = fl[Sched] BY <1>0, <1>3 DEF AnswerFlush, FlushTo
  <2> QED  BY <1>3, <2>1, OtherWindow DEF AnswerFlush, dbVars
<1> QED  BY <1>1, <1>2, <1>3 DEF AdminStep

LEMMA NextWindow == TypeOK /\ LockInv /\ [Next]_vars => WindowMove
<1> SUFFICES ASSUME TypeOK, LockInv, [Next]_vars PROVE WindowMove  OBVIOUS
<1> USE DayType, StatementsKeepSettings
<1>0. FlushesAlone BY DEF LockInv
<1>1. CASE Boot
  <2>1. UNCHANGED settings /\ fl'[Sched] = "check" /\ window' = RetentionDays
    BY <1>1 DEF Boot, OtherTables, dbVars
  <2> QED  BY <2>1 DEF WindowMove
<1>2. CASE SchedTick
  <2>1. UNCHANGED settings BY <1>2 DEF SchedTick, dbVars
  <2>2. fl'[Sched] = "ok" \/ (fl'[Sched] = "check" /\ window' = RetentionDays)
    BY <1>2 DEF SchedTick, Enter, FlushTo
  <2> QED  BY <2>1, <2>2 DEF WindowMove
<1>3. CASE Crash BY <1>3 DEF Crash, WindowMove
<1>4. CASE Ticking BY <1>4, OtherWindow DEF Ticking, DayTick, tables, schedVars
<1>5. CASE OtherTables /\ UNCHANGED schedVars BY <1>5, OtherWindow DEF OtherTables, schedVars
<1>6. CASE Listen \/ BootFails \/ UNCHANGED vars
  BY <1>5, <1>6 DEF Listen, BootFails, vars, OtherTables, dbVars
<1>7. CASE Sending \/ Arriving
  BY <1>5, <1>7 DEF Sending, Arriving, AcceptLate, Send, Receive, Post, LogEvent, Fails, Refused, InsertLog, OnlyLog,
                    OtherTables, dbVars
<1>8. ASSUME NEW r \in Requests, Capturing(r) PROVE WindowMove
  <2>1. OtherTables
    BY <1>8 DEF Capturing, Arrive, Store, InsertRequest, OnlyRequests, CaptureStep, CountCapture,
                MatchScopes, ApplyScope, Attach, MatchRules, EnqueueNext, MarkNotified,
                Fails, Refused, OtherTables, Fault, tables, dbVars, UpdateRequest
  <2> QED  BY <1>5, <1>8, <2>1 DEF Capturing
<1>9. ASSUME NEW h \in Handlers, Serving(h) PROVE WindowMove
  BY <1>0, <1>9, OperateWindow, AdminWindow, FlushWindow DEF Serving, Request, AdminFlushStep, Flushers
<1> QED
  BY <1>0, <1>1, <1>2, <1>3, <1>4, <1>6, <1>7, <1>8, <1>9, SchedWindow DEF Next

LEMMA MoveWindowInv == ASSUME TypeOK, TypeOK', Counted, WindowInv, WindowMove PROVE WindowInv'
<1>1. /\ faults \in Nat /\ faults' \in Nat /\ day \in Int /\ day' \in Int /\ bound \in Int /\ bound' \in Int
      /\ window \in Nat /\ window' \in Nat
  BY DatabaseAssumption DEF TypeOK, DatabaseTypeOK, SchedulerTypeOK, Days
<1>2. RetentionDays \in Nat /\ RetentionDays' \in Nat
  BY DatabaseAssumption DEF RetentionDays, TypeOK, DatabaseTypeOK, Settings
<1>3. UNCHANGED settings => RetentionDays' = RetentionDays BY DEF RetentionDays
<1>4. faults' = 0 => faults = 0 /\ ~Fault BY <1>1 DEF Counted, Fault
<1> SUFFICES ASSUME faults' = 0
             PROVE  /\ fl'[Sched] \in {"check", "boundary"} => window' <= RetentionDays'
                    /\ fl'[Sched] \in {"logs", "rows"} => bound' + window' <= day'
  BY DEF WindowInv
<1>5. /\ fl[Sched] \in {"check", "boundary"} => window <= RetentionDays
      /\ fl[Sched] \in {"logs", "rows"} => bound + window <= day
  BY <1>4 DEF WindowInv
<1> DEFINE R == RetentionDays
           S == RetentionDays'
<1>6. R \in Nat /\ S \in Nat /\ (UNCHANGED settings => S = R) BY <1>2, <1>3
<1>7. CASE fl'[Sched] \notin {"check", "boundary", "logs", "rows"} BY <1>7
<1>8. CASE fl'[Sched] = "check" /\ window' = R /\ UNCHANGED settings
  <2> HIDE DEF R, S
  <2> QED  BY <1>6, <1>8 DEF S
<1>9. CASE /\ fl'[Sched] = fl[Sched] /\ bound' = bound /\ day' >= day
           /\ window' <= window /\ (S = R \/ window' <= S)
  BY <1>1, <1>5, <1>6, <1>9
<1>10. CASE fl[Sched] = "check" /\ fl'[Sched] = "boundary" /\ UNCHANGED <<window, settings>>
  BY <1>5, <1>6, <1>10
<1>11. CASE /\ fl[Sched] = "boundary" /\ fl'[Sched] = "logs" /\ UNCHANGED <<window, day>>
            /\ bound' = day - R
  BY <1>1, <1>5, <1>6, <1>11
<1>12. CASE fl[Sched] = "logs" /\ fl'[Sched] = "rows" /\ UNCHANGED <<window, bound, day>>
  BY <1>5, <1>12
<1> QED  BY <1>4, <1>7, <1>8, <1>9, <1>10, <1>11, <1>12 DEF WindowMove

LEMMA Windowed == Spec => []WindowInv
<1>1. Init => WindowInv BY DEF Init, SchedulerInit, WindowInv, Flushers
<1>2. TypeOK /\ TypeOK' /\ LockInv /\ WindowInv /\ [Next]_vars => WindowInv'
  BY NextWindow, NextCounts, MoveWindowInv
<1> QED  BY <1>1, <1>2, TypeCorrect, Locked, PTL DEF Spec

(* Only the flush itself takes the scheduler past its delete and a row away  *)
(* in one step.                                                              *)
LEMMA OnlyFlushDeletes ==
  ASSUME TypeOK, [Next]_vars, LockInv, fl[Sched] = "rows", fl'[Sched] # "rows"
  PROVE  FlushRows(Sched) \/ UNCHANGED requests
<1> USE DayType
<1>1. up # "down" BY DEF LockInv, DownIsIdle
<1>2. \A h \in Handlers : h # Sched BY SchedulerAssumption
<1>3. ~Boot /\ ~BootFails /\ ~SchedTick BY <1>1 DEF Boot, BootFails, SchedTick, Enter, FlushAt
<1>4. CASE UNCHANGED fl BY <1>4
<1>5. CASE Crash BY <1>5 DEF Crash, dbVars
<1>6. CASE Scheduling
  BY <1>6 DEF Scheduling, SchedStep, CheckEnabled, Boundary, FlushStep, FlushLog, FlushSetting, FlushAudit,
              PruneNotificationLog, PruneAuditLog, FlushAt
<1>7. ASSUME NEW h \in Handlers, Serving(h) PROVE FALSE
  <2>1. ASSUME NEW step, FlushTo(h, step) PROVE FALSE BY <1>2, <2>1 DEF FlushTo
  <2>2. ~AdminFlushStep(h)
    BY <2>1 DEF AdminFlushStep, FlushStep, FlushLog, FlushRows, FlushSetting, FlushAudit, Return
  <2>3. ~AdminStep(h)
    BY <2>1 DEF AdminStep, DeleteScopeRow, DeleteRuleRow, PutAutoFlush, LogAudit, AnswerFlush, schedVars
  <2>4. ~FlushRequests(h) BY <2>1 DEF FlushRequests, Enter
  <2>5. ~Operate(h)
    BY <2>4 DEF Operate, Save, Unsave, Delete, CreateScope, UpdateScope, ToggleScope, DeleteScope,
                CreateRule, UpdateRule, ToggleRule, DeleteRule, PutSettings, schedVars
  <2> QED  BY <1>7, <2>2, <2>3, <2>5 DEF Serving, Request
<1> QED
  BY <1>3, <1>4, <1>5, <1>6, <1>7
  DEF Next, Listen, Sending, Arriving, Ticking, Capturing, schedVars, vars

\* README: "Auto-flush deletes unsaved requests older than the retention window":
\* whatever retention an operator sets while it runs, a row the scheduler deletes is
\* older than the shortest one in force since its flush began, while no statement fails.
THEOREM WindowIsKept == Spec => AutoFlushKeepsWindow
<1> DEFINE Kept == faults' = 0 => \A r \in Requests :
                     /\ FlushAt(Sched, "rows") /\ fl'[Sched] # "rows"
                     /\ requests[r].state = "row" /\ requests'[r].state = "gone"
                     => day - requests[r].created > window
<1>1. TypeOK /\ LockInv /\ WindowInv /\ [Next]_vars => Kept
  <2> SUFFICES ASSUME TypeOK, LockInv, WindowInv, [Next]_vars, faults' = 0, NEW r \in Requests,
                      fl[Sched] = "rows", fl'[Sched] # "rows",
                      requests[r].state = "row", requests'[r].state = "gone"
               PROVE  day - requests[r].created > window
    BY DEF FlushAt
  <2>1. requests' # requests BY DEF TypeOK
  <2>2. FlushRows(Sched) BY <2>1, OnlyFlushDeletes
  <2>3. DeleteRequests(Due(Sched))
    <3>1. Fails(DeleteRequestsViolation(Due(Sched))) => UNCHANGED requests
      BY DEF Fails, Refused, dbVars, Fault, tables
    <3> QED  BY <2>1, <2>2, <3>1 DEF FlushRows
  <2>4. requests \in [Requests -> RequestRow] BY DEF TypeOK, DatabaseTypeOK
  <2>5. r \in Due(Sched) BY <2>3, <2>4 DEF DeleteRequests, RequestRows
  <2>6. requests[r].created < bound /\ requests[r].created \in Nat
    BY <2>4, <2>5, DatabaseAssumption DEF Due, RequestRow
  <2>7. faults = 0
    <3>1. faults \in Nat BY DatabaseAssumption DEF TypeOK, DatabaseTypeOK
    <3> QED  BY <3>1, NextCounts DEF Counted
  <2>8. bound + window <= day BY <2>7 DEF WindowInv
  <2>9. bound \in Int /\ window \in Nat /\ day \in Int BY DayType DEF TypeOK, SchedulerTypeOK
  <2> QED  BY <2>6, <2>8, <2>9
<1> QED  BY <1>1, TypeCorrect, Locked, Windowed, PTL DEF Spec, AutoFlushKeepsWindow
=============================================================================
