----------------------------- MODULE Ooblivion ------------------------------
(* The whole program (cmd/ooblivion): the capture handlers, the admin        *)
(* handlers, the scheduler and the Telegram worker as processes over one     *)
(* database, started and stopped (or killed) at any moment.                  *)
EXTENDS Capture, Admin

CONSTANT MaxCrashes    \* bound: how often the process dies

VARIABLES
  up,            \* "down", "boot": in main before the listener, or "serving"
  crashes

vars == <<dbVars, tgVars, capVars, schedVars, admVars, up, crashes>>

ASSUME OoblivionAssumption == MaxCrashes \in Nat

Init ==
  /\ DatabaseInit /\ TelegramInit /\ CaptureInit /\ SchedulerInit /\ AdminInit
  /\ up = "down" /\ crashes = 0

-----------------------------------------------------------------------------
\* main: scheduler.New reads last_flush_at ("" on an error), and RunOnce runs before
\* the listener starts.
Boot ==
  /\ up = "down" /\ up' = "boot"
  /\ fl' = [fl EXCEPT ![Sched] = "check"] /\ lock' = TRUE /\ window' = RetentionDays
  /\ \/ lastFlushAt' = settings.lastFlush /\ UNCHANGED dbVars
     \/ lastFlushAt' = 0 /\ Fault
  /\ UNCHANGED <<tgVars, capVars, admVars, bound, stamp, crashes>>

\* main: db.Open or ensureAuth fails and the process exits.
BootFails ==
  /\ up = "down" /\ Fault
  /\ UNCHANGED <<tgVars, capVars, schedVars, admVars, up, crashes>>

Listen ==
  /\ up = "boot" /\ FlushAt(Sched, "idle") /\ up' = "serving"
  /\ UNCHANGED <<dbVars, tgVars, capVars, schedVars, admVars, crashes>>

\* The ticker of Start fires.
SchedTick ==
  /\ up = "serving" /\ Enter(Sched)
  /\ UNCHANGED <<dbVars, tgVars, capVars, admVars, up, crashes>>

(* SIGKILL, power loss, or SIGTERM whose ten seconds of Shutdown ran out:    *)
(* memory is gone, the database stays. A post under way may still be         *)
(* accepted.                                                                 *)
Crash ==
  /\ up # "down" /\ crashes < MaxCrashes /\ crashes' = crashes + 1
  /\ up' = "down"
  /\ pc' = [r \in Requests |-> IF pc[r] \in CaptureSteps THEN "lost" ELSE pc[r]]
  /\ todo' = [r \in Requests |-> {}]
  /\ queue' = <<>> /\ posting' = {} /\ logging' = {}
  /\ GiveUp(posting) /\ UNCHANGED chat
  /\ adm' = [h \in Handlers |-> NoOp]
  /\ lock' = FALSE /\ fl' = [p \in Flushers |-> "idle"]
  /\ stamp' = [p \in Flushers |-> 0] /\ bound' = 0 /\ window' = 0 /\ lastFlushAt' = 0
  /\ UNCHANGED <<dbVars, pick, ops>>

Arrive(r)  == up = "serving" /\ Store(r)
Request(h) == up = "serving" /\ Operate(h)

Capturing(r) == (Arrive(r) \/ CaptureStep(r)) /\ UNCHANGED <<schedVars, admVars, up, crashes>>
Sending      == Send /\ UNCHANGED <<capVars, schedVars, admVars, up, crashes>>
Arriving     == AcceptLate /\ UNCHANGED <<capVars, schedVars, admVars, up, crashes>>
Scheduling   == SchedStep /\ UNCHANGED <<tgVars, capVars, admVars, up, crashes>>
Serving(h)   == (Request(h) \/ AdminStep(h) \/ AdminFlushStep(h))
                  /\ UNCHANGED <<tgVars, capVars, up, crashes>>
Ticking      == DayTick /\ UNCHANGED <<tgVars, capVars, schedVars, admVars, up, crashes>>

Next ==
  \/ Boot \/ BootFails \/ Listen \/ SchedTick \/ Crash \/ Sending \/ Arriving \/ Scheduling \/ Ticking
  \/ \E r \in Requests : Capturing(r)
  \/ \E h \in Handlers : Serving(h)

Spec == Init /\ [][Next]_vars

(* Fairness. Every goroutine that can take a step takes it: the Go scheduler  *)
(* is fair, a statement ends within busy_timeout, a post within the client's  *)
(* 10 seconds. The ticker fires every six hours, and docker-compose restarts  *)
(* a process that died. Nothing obliges requests, operators, the clock,       *)
(* faults or crashes to come.                                                 *)
CaptureFairness == \A r \in Requests :
  WF_vars(CaptureStep(r) /\ UNCHANGED <<schedVars, admVars, up, crashes>>)
AdminFairness == \A h \in Handlers :
  WF_vars((AdminStep(h) \/ AdminFlushStep(h)) /\ UNCHANGED <<tgVars, capVars, up, crashes>>)
ProcessFairness == WF_vars(Boot) /\ WF_vars(Listen) /\ WF_vars(SchedTick) /\ WF_vars(Scheduling)

\* No fairness for the Telegram worker: it may hang for good.
FairSpec == Spec /\ CaptureFairness /\ AdminFairness /\ ProcessFairness
SenderFairness == WF_vars(Sending)

-----------------------------------------------------------------------------
(* Every variable keeps its type.                                            *)
TypeOK ==
  /\ DatabaseTypeOK /\ TelegramTypeOK /\ CaptureTypeOK /\ SchedulerTypeOK /\ AdminTypeOK
  /\ up \in {"down", "boot", "serving"} /\ crashes \in 0..MaxCrashes

(* A request that is attached to a scope is saved, so no flush takes it: the *)
(* classifier sets both columns at once and un-saving clears the scope,      *)
(* whatever runs in between (applyScope, toggleSaved, handleDeleteScope).    *)
ScopedAreSaved == \A r \in Requests : requests[r].scope # 0 => requests[r].saved

(* Every scope_id, rule_id and request_id that is set names a row: deleting  *)
(* a scope or a rule first drops what refers to it, what slips in between    *)
(* the two statements is refused, and so is deleting a request that a        *)
(* notification row still names.                                             *)
NoDanglingReferences ==
  /\ \A r \in RequestRows : requests[r].scope # 0 => requests[r].scope \in ScopeRows
  /\ \A e \in nlog : e.rule \in RuleRows /\ e.request \in RequestRows

(* At most one goroutine is inside Flush, and the lock is held exactly while *)
(* one is: every early return of Flush gives it back.                        *)
FlushesAlone ==
  /\ \A p, q \in Flushers : fl[p] \in Inside /\ fl[q] \in Inside => p = q
  /\ lock <=> \E p \in Flushers : fl[p] \in Inside

(* "Saved requests are never auto-flushed; they are removed only by explicit *)
(* user action": a saved row is un-saved or deleted only in a step of an     *)
(* operator's request that names it.                                         *)
AskedFor(r) == \E h \in Handlers : /\ adm'[h] # adm[h] /\ r \in adm'[h].on
                                   /\ adm'[h].op \in {"unsave", "delete", "bulk_delete"}
SavedLeavesOnlyByOperator ==
  [][\A r \in Requests : requests[r].saved /\ ~requests'[r].saved => AskedFor(r)]_vars

(* "Auto-flush deletes unsaved requests older than the retention window": a  *)
(* row the scheduler deletes is older than the shortest window that was in   *)
(* force since its flush began - while no statement fails: a retention that  *)
(* cannot be read counts as the default.                                     *)
AutoFlushKeepsWindow ==
  [][faults' = 0 => \A r \in Requests :
       /\ FlushAt(Sched, "rows") /\ fl'[Sched] # "rows"
       /\ requests[r].state = "row" /\ requests'[r].state = "gone"
       => day - requests[r].created > window]_vars

(* The persisted last_flush_at never moves back, although each flush writes  *)
(* a time it read earlier: only the lock orders those writes.                *)
LastFlushNeverGoesBack == [][settings'.lastFlush >= settings.lastFlush]_vars

(* Telegram gets none of the alerts of a request twice, and gets them in the *)
(* order of the rule ids, but for those whose post the worker had given up:  *)
(* these may come at any time after it, a restart included, and no retry     *)
(* makes up for them.                                                        *)
AlertsInOrder ==
  \A i, k \in 1..Len(chat) :
    i < k /\ chat[i].request = chat[k].request =>
      \/ chat[i].rule < chat[k].rule
      \/ chat[k].late /\ chat[i].rule # chat[k].rule

(* "All-time total survives flushes": without faults and crashes the counter *)
(* is the number of requests ever stored, those about to be counted apart,   *)
(* however many were deleted before they were counted; it never exceeds it.  *)
TotalCountsCaptures ==
  LET stored == {r \in Requests : requests[r].state # "fresh" /\ pc[r] # "count"} IN
  /\ total <= Cardinality(stored)
  /\ faults = 0 /\ crashes = 0 => total = Cardinality(stored)

(* A client whose request was stored gets its answer, even if the Telegram   *)
(* worker hangs for good with a full queue.                                  *)
EveryCaptureAnswered == \A r \in Requests : pc[r] \in CaptureSteps ~> pc[r] \in CaptureEnds

(* Every operator's request is answered, a flush that loses the race for the *)
(* lock included (or the process dies).                                      *)
EveryOperatorAnswered ==
  \A h \in Handlers : adm[h].pc \in {"second", "flush", "audit"} ~> adm[h].pc \in {"idle", "ok", "error"}

(* Retention makes progress: an unsaved request past the window does not     *)
(* stay while auto-flush is on. A flush lock that leaked would stop every    *)
(* later flush without an error.                                             *)
Overdue(r) == /\ requests[r].state = "row" /\ ~requests[r].saved
              /\ settings.auto # "0" /\ day - requests[r].created > RetentionDays
OverdueAreFlushed == \A r \in Requests : Overdue(r) ~> ~Overdue(r)

(* If the worker does not hang, an alert the sender took on leaves it:       *)
(* delivered, logged as failed, or lost with the process.                    *)
InSender(j) == j \in posting \cup logging \/ \E i \in 1..Len(queue) : queue[i] = j
EveryAlertSettles == SenderFairness => \A j \in Jobs : InSender(j) ~> ~InSender(j)

-----------------------------------------------------------------------------
(* What the documentation says and the code does not do: each of these has a *)
(* run that finds it violated.                                               *)

(* README, Admin console: "Matching requests are auto-saved and never        *)
(* flushed" (Store inserts the row unsaved; applyScope saves it later).      *)
MatchingRequestsAreNeverFlushed ==
  \A r \in Requests : pick[r] # 0 => requests[r].state = "row"

(* README, How it works: "Each request is stored, then evaluated against     *)
(* scope rules and notification rules" - while the database works, no        *)
(* request ends with its notification rules never looked at.                 *)
EachRequestIsEvaluated ==
  faults = 0 => \A r \in Requests : pc[r] # "aborted"

(* README: saved requests are "removed only by explicit user action", and    *)
(* e2e.sh expects a delete to remove the row: while the database works, the  *)
(* user's delete succeeds.                                                   *)
DeleteRemovesRequest ==
  faults = 0 => \A h \in Handlers :
    adm[h].op \in {"delete", "bulk_delete"} => adm[h].pc # "error"

-----------------------------------------------------------------------------
(* What the program promises about one captured request, whatever runs: see  *)
(* RequestLife. A request is kept or raw by its saved column.                *)
life == [r \in Requests |-> IF requests[r].state = "row"
                            THEN IF requests[r].saved THEN "kept" ELSE "raw"
                            ELSE requests[r].state]
asked == {r \in Requests : \E h \in Handlers :
            /\ r \in adm[h].on /\ adm[h].op \in {"unsave", "delete", "bulk_delete"}}
RL == INSTANCE RequestLife WITH Requests <- Requests, life <- life, asked <- asked

(* The program implements that promise.                                      *)
ImplementsRequestLife == RL!Spec
=============================================================================
