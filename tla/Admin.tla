------------------------------- MODULE Admin --------------------------------
(* internal/admin: the operations of the console that change the database.   *)
(* A handler's first statement, the checks before it included, is one step;  *)
(* each later statement, the audit row last, is a step of its own.           *)
EXTENDS Scheduler

CONSTANTS Ops,     \* environment: the operations operators ask for
          MaxOps   \* bound: how many of them

VARIABLES
  adm,           \* adm[h]: what handler goroutine h is doing or last answered
  ops            \* operations asked for so far

admVars == <<adm, ops>>

AllOps == {"save", "unsave", "delete", "bulk_delete", "flush", "scope_create",
           "scope_update", "scope_toggle", "scope_delete", "rule_create", "rule_update",
           "rule_toggle", "rule_delete", "settings"}

ASSUME AdminAssumption == Ops \subseteq AllOps /\ MaxOps \in Nat

\* pc: the step to come, or the answer. on: the requests the operation is about
\* (for a flush, history: the unsaved ones when it began). id: the scope or rule
\* (for settings, the auto_flush_enabled still to be written).
AdmPcs == {"idle", "second", "flush", "audit", "ok", "error"}
AdmRow == [pc: AdmPcs, op: AllOps, on: SUBSET Requests, id: Nat]
NoOp   == [pc |-> "idle", op |-> "save", on |-> {}, id |-> 0]

AdminInit == adm = [h \in Handlers |-> NoOp] /\ ops = 0

\* Handler h takes up an operation and leaves it at pc.
Serve(h, op, on, id, pc) ==
  /\ op \in Ops /\ ops < MaxOps /\ ops' = ops + 1
  /\ adm[h].pc \in {"idle", "ok", "error"}
  /\ adm' = [adm EXCEPT ![h] = [pc |-> pc, op |-> op, on |-> on, id |-> id]]

AdmTo(h, pc) == adm' = [adm EXCEPT ![h].pc = pc] /\ UNCHANGED ops

Save(h, r) ==
  /\ \/ UpdateRequest(r, [requests[r] EXCEPT !.saved = TRUE]) /\ Serve(h, "save", {r}, 0, "audit")
     \/ Fault /\ Serve(h, "save", {r}, 0, "error")
  /\ UNCHANGED schedVars

\* Mutant: un-saving leaves scope_id.
UnsaveOnly(h, r) ==
  /\ UpdateRequest(r, [requests[r] EXCEPT !.saved = FALSE]) /\ Serve(h, "unsave", {r}, 0, "audit")
  /\ UNCHANGED schedVars

Unsave(h, r) ==
  /\ \/ /\ UpdateRequest(r, [requests[r] EXCEPT !.saved = FALSE, !.scope = 0])
        /\ Serve(h, "unsave", {r}, 0, "audit")
     \/ Fault /\ Serve(h, "unsave", {r}, 0, "error")
  /\ UNCHANGED schedVars

\* handleDeleteRequest and handleBulkDelete: one DELETE for all the ids.
Delete(h, op, D) ==
  /\ \/ DeleteRequests(D) /\ Serve(h, op, D, 0, "audit")
     \/ Fails(DeleteRequestsViolation(D)) /\ Serve(h, op, D, 0, "error")
  /\ UNCHANGED schedVars

FlushRequests(h) ==
  /\ Serve(h, "flush", {r \in RequestRows : ~requests[r].saved}, 0, "flush")
  /\ Enter(h) /\ UNCHANGED dbVars

AnswerFlush(h) ==
  /\ adm[h].pc = "flush" /\ fl[h] \in {"ok", "error"}
  /\ AdmTo(h, fl[h]) /\ FlushTo(h, "idle")
  /\ UNCHANGED <<dbVars, lock, lastFlushAt, bound, stamp, window>>

CreateScope(h, i, p) ==
  /\ NextId(scopes, i)
  /\ \/ WriteScope(i, ScopeOf(p)) /\ Serve(h, "scope_create", {}, i, "audit")
     \/ Fault /\ Serve(h, "scope_create", {}, i, "error")
  /\ UNCHANGED schedVars

UpdateScope(h, i, p) ==
  /\ \/ /\ WriteScope(i, IF i \in ScopeRows THEN ScopeOf(p) ELSE scopes[i])
        /\ Serve(h, "scope_update", {}, i, "audit")
     \/ Fault /\ Serve(h, "scope_update", {}, i, "error")
  /\ UNCHANGED schedVars

ToggleScope(h, i) ==
  /\ \/ /\ WriteScope(i, IF i \in ScopeRows THEN [scopes[i] EXCEPT !.enabled = ~@] ELSE scopes[i])
        /\ Serve(h, "scope_toggle", {}, i, "audit")
     \/ Fault /\ Serve(h, "scope_toggle", {}, i, "error")
  /\ UNCHANGED schedVars

\* Two statements: detach the requests of the scope, then delete its row.
DeleteScope(h, i) ==
  /\ \/ Detach(i) /\ Serve(h, "scope_delete", {}, i, "second")
     \/ Fault /\ Serve(h, "scope_delete", {}, i, "error")
  /\ UNCHANGED schedVars

DeleteScopeRow(h) ==
  /\ adm[h].pc = "second" /\ adm[h].op = "scope_delete"
  /\ LET i == adm[h].id IN
       \/ /\ ~DeleteScopeViolation(i) /\ AdmTo(h, "audit")
          /\ WriteScope(i, IF i \in ScopeRows THEN NoScope("gone") ELSE scopes[i])
       \/ Fails(DeleteScopeViolation(i)) /\ AdmTo(h, "error")
  /\ UNCHANGED schedVars

CreateRule(h, i, p) ==
  /\ NextId(rules, i)
  /\ \/ WriteRule(i, RuleOf(p)) /\ Serve(h, "rule_create", {}, i, "audit")
     \/ Fault /\ Serve(h, "rule_create", {}, i, "error")
  /\ UNCHANGED schedVars

UpdateRule(h, i, p) ==
  /\ \/ /\ WriteRule(i, IF i \in RuleRows THEN RuleOf(p) ELSE rules[i])
        /\ Serve(h, "rule_update", {}, i, "audit")
     \/ Fault /\ Serve(h, "rule_update", {}, i, "error")
  /\ UNCHANGED schedVars

ToggleRule(h, i) ==
  /\ \/ /\ WriteRule(i, IF i \in RuleRows THEN [rules[i] EXCEPT !.enabled = ~@] ELSE rules[i])
        /\ Serve(h, "rule_toggle", {}, i, "audit")
     \/ Fault /\ Serve(h, "rule_toggle", {}, i, "error")
  /\ UNCHANGED schedVars

\* Two statements: delete the log rows of the rule, then its row.
DeleteRule(h, i) ==
  /\ \/ DeleteLog({e \in nlog : e.rule = i}) /\ Serve(h, "rule_delete", {}, i, "second")
     \/ Fault /\ Serve(h, "rule_delete", {}, i, "error")
  /\ UNCHANGED schedVars

DeleteRuleRow(h) ==
  /\ adm[h].pc = "second" /\ adm[h].op = "rule_delete"
  /\ LET i == adm[h].id IN
       \/ /\ ~DeleteRuleViolation(i) /\ AdmTo(h, "audit")
          /\ WriteRule(i, IF i \in RuleRows THEN NoRule("gone") ELSE rules[i])
       \/ Fails(DeleteRuleViolation(i)) /\ AdmTo(h, "error")
  /\ UNCHANGED schedVars

\* Each field is optional (0 and "unset" stand for absent), and each is a write of its
\* own: retention_days first, then auto_flush_enabled.
PutSettings(h, days, auto) ==
  LET flag == IF auto = "1" THEN 1 ELSE 0 IN
  /\ \/ /\ days # 0 /\ WriteSetting([settings EXCEPT !.days = days])
        /\ window' = IF days < window THEN days ELSE window
        /\ Serve(h, "settings", {}, flag, IF auto = "unset" THEN "audit" ELSE "second")
     \/ /\ days = 0 /\ UNCHANGED window
        /\ WriteSetting([settings EXCEPT !.auto = IF auto = "unset" THEN @ ELSE auto])
        /\ Serve(h, "settings", {}, flag, "audit")
     \/ Fault /\ UNCHANGED window /\ Serve(h, "settings", {}, flag, "error")
  /\ UNCHANGED <<lock, lastFlushAt, fl, bound, stamp>>

PutAutoFlush(h) ==
  /\ adm[h].pc = "second" /\ adm[h].op = "settings"
  /\ \/ /\ WriteSetting([settings EXCEPT !.auto = IF adm[h].id = 1 THEN "1" ELSE "0"])
        /\ AdmTo(h, "audit")
     \/ Fault /\ AdmTo(h, "error")
  /\ UNCHANGED schedVars

LogAudit(h) ==
  /\ adm[h].pc = "audit" /\ AdmTo(h, "ok")
  /\ InsertAudit(adm[h].op, h, day) \/ Fault
  /\ UNCHANGED schedVars
\* The later statements of the handlers, and the steps of a flush one of them runs.
AdminStep(h) == DeleteScopeRow(h) \/ DeleteRuleRow(h) \/ PutAutoFlush(h) \/ LogAudit(h)
                \/ AnswerFlush(h)

AdminFlushStep(h) == FlushStep(h) /\ UNCHANGED admVars

Operate(h) ==
  \/ \E r \in Requests : Save(h, r) \/ Unsave(h, r) \/ Delete(h, "delete", {r})
  \/ \E D \in (SUBSET Requests) \ {{}} : Delete(h, "bulk_delete", D)
  \/ FlushRequests(h)
  \/ \E i \in ScopeIds : \/ \E p \in Payloads : CreateScope(h, i, p) \/ UpdateScope(h, i, p)
                         \/ ToggleScope(h, i) \/ DeleteScope(h, i)
  \/ \E i \in RuleIds : \/ \E p \in Payloads : CreateRule(h, i, p) \/ UpdateRule(h, i, p)
                        \/ ToggleRule(h, i) \/ DeleteRule(h, i)
  \/ \E days \in Retentions \cup {0}, auto \in {"unset", "0", "1"} : PutSettings(h, days, auto)

AdminTypeOK == adm \in [Handlers -> AdmRow] /\ ops \in 0..MaxOps
=============================================================================
