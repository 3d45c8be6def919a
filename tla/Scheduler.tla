----------------------------- MODULE Scheduler ------------------------------
(* internal/scheduler: Flush, called by the scheduler goroutine every six    *)
(* hours and by an operator's handler, under a lock that is only tried; and  *)
(* the prunes that follow it in RunOnce.                                     *)
EXTENDS Database

CONSTANTS Handlers,  \* the admin handler goroutines that may run at once
          Sched      \* the scheduler goroutine

VARIABLES
  lock,          \* flushLock is held
  lastFlushAt,   \* Scheduler.lastFlushAt, in memory; 0 is ""
  fl,            \* fl[p]: the next step of goroutine p in Flush (and, for Sched, RunOnce)
  bound,         \* the automatic flush's boundary
  stamp,         \* stamp[p]: its local variable now
  window         \* history: the shortest retention in force since the automatic flush began

schedVars == <<lock, lastFlushAt, fl, bound, stamp, window>>

Flushers == Handlers \cup {Sched}
Inside   == {"check", "boundary", "logs", "rows", "setting", "audit"}
FlushPcs == Inside \cup {"idle", "ok", "error", "prune"}

ASSUME SchedulerAssumption == IsFiniteSet(Handlers) /\ Sched \notin Handlers

RetentionDays == IF settings.days = 0 THEN DefaultDays ELSE settings.days

SchedulerInit ==
  /\ lock = FALSE /\ lastFlushAt = settings.lastFlush
  /\ fl = [p \in Flushers |-> "idle"]
  /\ bound = 0 /\ stamp = [p \in Flushers |-> 0] /\ window = 0

FlushAt(p, step) == fl[p] = step
FlushTo(p, step) == fl' = [fl EXCEPT ![p] = step]

\* return: the local variables are gone, the deferred receive frees the lock.
Return(p, result) ==
  /\ FlushTo(p, result) /\ lock' = FALSE
  /\ stamp' = [stamp EXCEPT ![p] = 0] /\ bound' = 0 /\ window' = 0
  /\ UNCHANGED lastFlushAt

\* Mutants: no lock; and a caller that finds the lock taken waits to be woken.
EnterUnlocked(p) ==
  /\ FlushAt(p, "idle") /\ lock' = TRUE /\ FlushTo(p, IF p = Sched THEN "check" ELSE "logs")
  /\ window' = IF p = Sched THEN RetentionDays ELSE window
  /\ UNCHANGED <<lastFlushAt, bound, stamp>>
EnterWaiting(p) ==
  /\ FlushAt(p, "idle")
  /\ \/ lock /\ UNCHANGED <<fl, lock, window>>
     \/ /\ ~lock /\ lock' = TRUE /\ FlushTo(p, IF p = Sched THEN "check" ELSE "logs")
        /\ window' = IF p = Sched THEN RetentionDays ELSE window
  /\ UNCHANGED <<lastFlushAt, bound, stamp>>

\* The select on flushLock: whoever finds it taken returns (0, nil).
Enter(p) ==
  /\ FlushAt(p, "idle")
  /\ \/ lock /\ FlushTo(p, "ok") /\ UNCHANGED <<lock, window>>
     \/ /\ ~lock /\ lock' = TRUE /\ FlushTo(p, IF p = Sched THEN "check" ELSE "logs")
        /\ window' = IF p = Sched THEN RetentionDays ELSE window
  /\ UNCHANGED <<lastFlushAt, bound, stamp>>

\* readSetting turns an error into "", which AutoFlushEnabled takes for yes.
CheckEnabled ==
  /\ FlushAt(Sched, "check")
  /\ \/ settings.auto = "0" /\ Return(Sched, "ok") /\ UNCHANGED dbVars
     \/ /\ (settings.auto # "0" /\ UNCHANGED dbVars) \/ Fault
        /\ FlushTo(Sched, "boundary") /\ UNCHANGED <<lock, lastFlushAt, bound, stamp, window>>

Boundary ==
  /\ FlushAt(Sched, "boundary") /\ FlushTo(Sched, "logs")
  /\ \/ bound' = day - RetentionDays /\ UNCHANGED dbVars
     \/ bound' = day - DefaultDays /\ Fault
  /\ UNCHANGED <<lock, lastFlushAt, stamp, window>>

\* Mutants: the boundary day included; saved rows included.
DueInclusive(p) ==
  {r \in RequestRows : ~requests[r].saved /\ (p = Sched => requests[r].created <= bound)}
DueAll(p) == {r \in RequestRows : p = Sched => requests[r].created < bound}

\* The WHERE of both deletes.
Due(p) == {r \in RequestRows : ~requests[r].saved /\ (p = Sched => requests[r].created < bound)}

\* Mutant: the error path forgets the lock.
FlushLogLeaking(p) ==
  /\ FlushAt(p, "logs")
  /\ \/ /\ DeleteLog({e \in nlog : e.request \in Due(p)})
        /\ FlushTo(p, "rows") /\ UNCHANGED <<lock, lastFlushAt, bound, stamp, window>>
     \/ Fault /\ FlushTo(p, "error") /\ UNCHANGED <<lock, lastFlushAt, bound, stamp, window>>

FlushLog(p) ==
  /\ FlushAt(p, "logs")
  /\ \/ /\ DeleteLog({e \in nlog : e.request \in Due(p)})
        /\ FlushTo(p, "rows") /\ UNCHANGED <<lock, lastFlushAt, bound, stamp, window>>
     \/ Fault /\ Return(p, "error")

FlushRows(p) ==
  /\ FlushAt(p, "rows")
  /\ \/ /\ DeleteRequests(Due(p))
        /\ stamp' = [stamp EXCEPT ![p] = day] /\ lastFlushAt' = day
        /\ FlushTo(p, "setting") /\ UNCHANGED <<lock, bound, window>>
     \/ Fails(DeleteRequestsViolation(Due(p))) /\ Return(p, "error")

FlushSetting(p) ==
  /\ FlushAt(p, "setting")
  /\ \/ /\ WriteSetting([settings EXCEPT !.lastFlush = stamp[p]])
        /\ FlushTo(p, "audit") /\ UNCHANGED <<lock, lastFlushAt, bound, stamp, window>>
     \/ Fault /\ Return(p, "error")

FlushAudit(p) ==
  /\ FlushAt(p, "audit")
  /\ \/ InsertAudit(IF p = Sched THEN "flush_auto" ELSE "flush_manual", p, stamp[p])
        /\ Return(p, "ok")
     \/ Fault /\ Return(p, "error")

FlushStep(p) == FlushLog(p) \/ FlushRows(p) \/ FlushSetting(p) \/ FlushAudit(p)

\* RunOnce, after Flush. (The denylist it prunes next is no table of this module.)
PruneNotificationLog ==
  /\ fl[Sched] \in {"ok", "error"} /\ FlushTo(Sched, "prune")
  /\ \/ DeleteLog({e \in nlog : Cardinality({f \in nlog : f.id > e.id}) >= LogKeep})
     \/ Fault
  /\ UNCHANGED <<lock, lastFlushAt, bound, stamp, window>>

PruneAuditLog ==
  /\ FlushAt(Sched, "prune") /\ FlushTo(Sched, "idle")
  /\ \/ /\ audit' = {e \in audit : e.day >= day - AuditKeep}
        /\ OnlyAudit
     \/ Fault
  /\ UNCHANGED <<lock, lastFlushAt, bound, stamp, window>>

SchedStep == CheckEnabled \/ Boundary \/ FlushStep(Sched) \/ PruneNotificationLog \/ PruneAuditLog

SchedulerTypeOK ==
  /\ lock \in BOOLEAN /\ lastFlushAt \in 0..MaxDay
  /\ fl \in [Flushers -> FlushPcs]
  /\ bound \in Int /\ stamp \in [Flushers -> 0..MaxDay] /\ window \in Nat
  /\ \A e \in audit : e.ip \in Flushers /\ e.day \in 0..MaxDay
=============================================================================
