------------------------------ MODULE Console -------------------------------
(* Starting the program and being logged in: migrations, sessions, the login *)
(* limiter and the pruning of the denylist over one database, with a process *)
(* that may die at any moment.                                               *)
EXTENDS Session

CONSTANT MaxCrashes    \* bound: how often the process dies while it runs

VARIABLE crashes

consoleVars == <<startVars, limVars, sessVars, crashes>>

ASSUME ConsoleAssumption == MaxCrashes \in Nat

Init == StartupInit /\ LimiterInit /\ SessionInit /\ crashes = 0

\* RunOnce, then the listener.
Listen == up = "prune" /\ up' = "serving" /\ Prune /\ UNCHANGED <<stage, applied, made, rows, total, crashes>>

\* The ticker of the scheduler.
Pruning == up = "serving" /\ Prune /\ UNCHANGED <<up, stage, applied, made, rows, total, crashes>>

\* The process dies: SIGKILL, or the runtime that sees two goroutines write the map.
Crash ==
  /\ up # "down" /\ up' = "down" /\ crashes < MaxCrashes /\ crashes' = crashes + 1
  /\ hs' = [c \in Clients |-> Idle] /\ Forgotten
  /\ UNCHANGED <<stage, applied, made, rows, total, password, faults, now>>
  /\ UNCHANGED <<version, denied, audit, issued, held, ended, changed, overlap, blind>>

Starting   == (Start \/ StartStep) /\ UNCHANGED <<limVars, sessVars, crashes>>
NotStarting == (StartFails \/ EnsureAuthRefuses) /\ UNCHANGED <<limVars, sessVars, crashes>>
Serving(c) == up = "serving" /\ SessionStep(c) /\ UNCHANGED <<up, stage, applied, made, rows, total, crashes>>
Coming(c)  == up = "serving" /\ Arrival(c) /\ UNCHANGED <<up, stage, applied, made, rows, total, crashes>>
Ticking    == Tick /\ UNCHANGED <<startVars, sessVars, crashes>>

Next == \/ Starting \/ NotStarting \/ Listen \/ Pruning \/ Crash \/ Ticking
        \/ \E c \in Clients : Serving(c) \/ Coming(c)

Spec == Init /\ [][Next]_consoleVars

(* Fairness: docker-compose restarts a program that exited, what has begun   *)
(* to start goes on, and the ticker of the scheduler fires. Nothing obliges  *)
(* clients, the clock, faults or crashes to come.                            *)
FairSpec == Spec /\ WF_consoleVars(Starting) /\ WF_consoleVars(Listen) /\ WF_consoleVars(Pruning)

-----------------------------------------------------------------------------
(* Every variable keeps its type.                                            *)
ConsoleTypeOK == StartupTypeOK /\ LimiterTypeOK /\ SessionTypeOK /\ crashes \in 0..MaxCrashes

(* Whatever was interrupted at whichever statement, the program serves only  *)
(* a complete schema, and the counter has started from the rows there were.  *)
ServesMigrated == up = "serving" => applied = Files /\ made = Objects /\ total = rows

(* An interrupted start never keeps later starts from succeeding: with a     *)
(* password in the database the program comes to serve again and again.      *)
StartsAgain == []<>(password = 0 \/ up = "serving")

(* README, Configuration: ADMIN_PASSWORD is "used only on first boot": what  *)
(* happens before the listener opens never replaces a password.              *)
BootKeepsPassword == [][up # "serving" /\ password # 0 => password' = password]_consoleVars

(* README, Security: "Logout revokes the token through a database denylist": *)
(* a request that comes after the session's logout or password change was    *)
(* answered is let through only if the token expired while it was checked -  *)
(* although pruning deletes the rows of the denylist again.                  *)
Through(c) == hs[c].pc = "version" /\ issued[hs[c].tok].ver = version
EndedSessionsStayEnded ==
  \A c \in Clients : hs[c].late /\ Through(c) => now > issued[hs[c].tok].exp

(* Once a password change was answered ok, the sessions opened with earlier  *)
(* passwords carry an older version, if the change overlapped with no login  *)
(* and no other change, and token_version could always be read; a change     *)
(* that a crash or an error cut short is made up for by the next one.        *)
ChangeRevokesEarlierSessions ==
  ~overlap /\ ~blind => \A t \in 1..Len(issued) : issued[t].gen < changed => issued[t].ver # version

(* The denylist does not grow for ever: a row whose token has expired goes.  *)
DenylistShrinks == \A t \in Tokens :
  (t \in denied /\ issued[t].exp < now) ~> (t \notin denied)

(* Login rate limiting: while no two calls of Allow overlap, no address gets *)
(* more than MaxAttempts attempts within any window.                         *)
AttemptsAreLimited == ~raced => \A i \in IPs : Cardinality(Recent(admitted[i], now)) <= MaxAttempts

(* ... and an address is refused only after that many: refused attempts do   *)
(* not count, so trying again does not prolong the wait.                     *)
RefusalsAreEarned ==
  [][\A c \in Clients :
       /\ hs[c].pc = "allow" /\ hs'[c].pc = "idle" /\ up' = "serving" /\ ~raced
       => Cardinality(Recent(admitted[call[c].ip], call[c].at)) >= MaxAttempts]_consoleVars

-----------------------------------------------------------------------------
(* README, Security: "password changes revoke all outstanding tokens" (and   *)
(* e2e.sh: "old token revoked after password change"): once the change is    *)
(* answered, no session opened with an earlier password is accepted.         *)
PasswordChangeRevokes ==
  \A t \in held : issued[t].gen < changed =>
    t \in denied \/ now >= issued[t].exp \/ issued[t].ver # version
=============================================================================
