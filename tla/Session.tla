------------------------------ MODULE Session -------------------------------
(* The sessions of the console: handleLogin, handleLogout,                   *)
(* handleChangePassword and the check in front of every other handler        *)
(* (Server.auth), one action per statement; tokens carry the token_version   *)
(* of when they were issued, and jwt_denylist the tokens that were given up. *)
EXTENDS Startup, RateLimiter

CONSTANTS
  TTL,           \* SessionTTL: how long a token is valid
  MaxTokens      \* bound: tokens issued

VARIABLES
  version,       \* settings.token_version, 0 while there is no row
  denied,        \* the tokens jwt_denylist names
  audit,         \* the rows of audit_log about a session (failed attempts left out)
  issued,        \* the tokens signed, in turn; gen: the password it was opened with (history)
  hs,            \* hs[c]: what the goroutine is doing
  held,          \* the tokens a client has received
  ended,         \* the tokens whose logout or password change was answered ok (history)
  changed,       \* the latest password whose change was answered ok (history)
  overlap,       \* a password change overlapped with a login or another change (history)
  blind          \* token_version could not be read (history)

sessVars == <<version, denied, audit, issued, hs, held, ended, changed, overlap, blind>>

ASSUME SessionAssumption == TTL \in Nat /\ MaxTokens \in Nat

Tokens   == 1..MaxTokens
Idle     == [op |-> "none", pc |-> "idle", pw |-> 0, tok |-> 0, ver |-> 0, late |-> FALSE]
Versions == 0..MaxPasswords
Rows     == [action : {"login", "logout", "password_change"}, tok : Tokens \cup {0}]

SessionInit ==
  /\ version = 0 /\ denied = {} /\ audit = {} /\ issued = <<>>
  /\ hs = [c \in Clients |-> Idle] /\ held = {} /\ ended = {} /\ changed = 0
  /\ overlap = FALSE /\ blind = FALSE

SessionTypeOK ==
  /\ version \in Versions /\ denied \subseteq Tokens /\ audit \subseteq Rows
  /\ issued \in Seq([ver : Versions, exp : Nat, gen : 1..MaxPasswords]) /\ Len(issued) <= MaxTokens
  /\ hs \in [Clients ->
       [op : {"none", "login", "logout", "password", "other"},
        pc : {"idle", "allow", "verify", "issue", "denylist", "version", "current", "update",
              "read", "write", "deny", "answer"},
        pw : 0..MaxPasswords, tok : Tokens \cup {0}, ver : Versions, late : BOOLEAN]]
  /\ held \subseteq Tokens /\ ended \subseteq held
  /\ changed \in 0..MaxPasswords /\ overlap \in BOOLEAN /\ blind \in BOOLEAN

-----------------------------------------------------------------------------
At(c, pc)      == hs[c].pc = pc
Go(c, pc)      == hs' = [hs EXCEPT ![c].pc = pc]
Leave(c)       == hs' = [hs EXCEPT ![c] = Idle]
NoFault        == UNCHANGED faults

\* tokenVersion: a setting that cannot be read counts as 0.
ReadVersion(v) == \/ v = version /\ UNCHANGED <<blind, faults>>
                  \/ v = 0 /\ blind' = TRUE /\ Fault
\* logAudit: an error is logged and forgotten.
LogAudit(action, t) == \/ audit' = audit \cup {[action |-> action, tok |-> t]} /\ NoFault
                       \/ Fault /\ UNCHANGED audit

\* Between reading the hash and having used what it allowed.
Critical(c)  == hs[c].pc \in {"issue", "update", "read", "write"}
Enter(c, pc) ==
  /\ Go(c, pc)
  /\ overlap' = (overlap \/ \E d \in Clients :
                   Critical(d) /\ "password" \in {hs[c].op, hs[d].op})

-----------------------------------------------------------------------------
\* handleLogin with the password pw: Allow, the hash, the token, the answer.
Login(c, ip, pw) ==
  /\ At(c, "idle") /\ Recall(c, ip)
  /\ hs' = [hs EXCEPT ![c] = [Idle EXCEPT !.op = "login", !.pc = "allow", !.pw = pw]]
  /\ UNCHANGED <<version, denied, audit, issued, held, ended, changed, overlap, blind, password, faults>>

LoginRefused(c) ==
  /\ At(c, "allow") /\ Refuse(c) /\ Leave(c)
  /\ UNCHANGED <<version, denied, audit, issued, held, ended, changed, overlap, blind, password, faults>>

LoginAllowed(c) ==
  /\ At(c, "allow") /\ Admit(c) /\ Go(c, "verify")
  /\ UNCHANGED <<version, denied, audit, issued, held, ended, changed, overlap, blind, password, faults>>

\* A body that is no JSON ends like a wrong password.
Verify(c) ==
  /\ At(c, "verify")
  /\ \/ hs[c].pw = password /\ Enter(c, "issue") /\ NoFault
     \/ hs[c].pw # password /\ Leave(c) /\ UNCHANGED <<overlap, faults>>
     \/ Fault /\ Leave(c) /\ UNCHANGED overlap
  /\ UNCHANGED <<limVars, version, denied, audit, issued, held, ended, changed, blind, password>>

Issue(c) ==
  /\ At(c, "issue") 
  /\ \E v \in Versions :
       /\ ReadVersion(v)
       /\ issued' = Append(issued, [ver |-> v, exp |-> now + TTL, gen |-> hs[c].pw])
  /\ hs' = [hs EXCEPT ![c].pc = "answer", ![c].tok = Len(issued) + 1, ![c].pw = 0]
  /\ UNCHANGED <<limVars, version, denied, audit, held, ended, changed, overlap, password>>

-----------------------------------------------------------------------------
\* A mutant: the session is looked up by version alone.
CheckDenylistSkipped(c) ==
  /\ At(c, "denylist") /\ Go(c, "version")
  /\ UNCHANGED <<limVars, version, denied, audit, issued, held, ended, changed, overlap, blind, password, faults>>

(* Server.auth: a request with a token the client holds, which ParseJWT      *)
(* accepts until it expires; then the denylist; then the version.            *)
Come(c, op, t, pw) ==
  /\ At(c, "idle") /\ now < issued[t].exp
  /\ hs' = [hs EXCEPT ![c] = [op |-> op, pc |-> "denylist", pw |-> pw, tok |-> t, ver |-> 0,
                              late |-> t \in ended]]
  /\ UNCHANGED <<limVars, version, denied, audit, issued, held, ended, changed, overlap, blind, password, faults>>

CheckDenylist(c) ==
  /\ At(c, "denylist")
  /\ \/ hs[c].tok \notin denied /\ Go(c, "version") /\ NoFault
     \/ hs[c].tok \in denied /\ Leave(c) /\ NoFault
     \/ Fault /\ Leave(c)
  /\ UNCHANGED <<limVars, version, denied, audit, issued, held, ended, changed, overlap, blind, password>>

\* The session is good: the handler runs.
First(op) == CASE op = "logout" -> "deny" [] op = "password" -> "current" [] OTHER -> "idle"
CheckVersion(c) ==
  /\ At(c, "version")
  /\ \E v \in Versions :
       /\ ReadVersion(v)
       /\ IF v = issued[hs[c].tok].ver /\ First(hs[c].op) # "idle" THEN Go(c, First(hs[c].op)) ELSE Leave(c)
  /\ UNCHANGED <<limVars, version, denied, audit, issued, held, ended, changed, overlap, password>>

-----------------------------------------------------------------------------
\* handleChangePassword. A new password under 16 characters is refused before anything.
VerifyCurrent(c) ==
  /\ At(c, "current")
  /\ \/ hs[c].pw = password /\ Enter(c, "update") /\ NoFault
     \/ hs[c].pw # password /\ Leave(c) /\ UNCHANGED <<overlap, faults>>
     \/ Fault /\ Leave(c) /\ UNCHANGED overlap
  /\ UNCHANGED <<limVars, version, denied, audit, issued, held, ended, changed, blind, password>>

\* UPDATE auth SET password_hash: the next password in turn.
Update(c) ==
  /\ At(c, "update")
  /\ \/ /\ password' = password + 1 /\ NoFault
        /\ hs' = [hs EXCEPT ![c].pc = "read", ![c].pw = password + 1]
     \/ Fault /\ Leave(c) /\ UNCHANGED password
  /\ UNCHANGED <<limVars, version, denied, audit, issued, held, ended, changed, overlap, blind>>

ReadNext(c) ==
  /\ At(c, "read")
  /\ \E v \in Versions : ReadVersion(v) /\ hs' = [hs EXCEPT ![c].pc = "write", ![c].ver = v]
  /\ UNCHANGED <<limVars, version, denied, audit, issued, held, ended, changed, overlap, password>>

\* A mutant: the version that was read is written back.
WriteSame(c) ==
  /\ At(c, "write") /\ version' = hs[c].ver /\ Go(c, "deny")
  /\ UNCHANGED <<limVars, denied, audit, issued, held, ended, changed, overlap, blind, password, faults>>

WriteNext(c) ==
  /\ At(c, "write")
  /\ \/ /\ version' = hs[c].ver + 1 /\ NoFault
        /\ hs' = [hs EXCEPT ![c].pc = "deny", ![c].ver = 0]
     \/ Fault /\ Leave(c) /\ UNCHANGED version
  /\ UNCHANGED <<limVars, denied, audit, issued, held, ended, changed, overlap, blind, password>>

(* logout and password change give up the token of the request, unless it    *)
(* has expired; they ignore an error (the token is then not among "ended").  *)
Deny(c) ==
  /\ At(c, "deny")
  /\ \/ /\ denied' = IF now < issued[hs[c].tok].exp THEN denied \cup {hs[c].tok} ELSE denied
        /\ Go(c, "answer") /\ NoFault
     \/ Fault /\ hs' = [hs EXCEPT ![c].pc = "answer", ![c].tok = 0] /\ UNCHANGED denied
  /\ UNCHANGED <<limVars, version, audit, issued, held, ended, changed, overlap, blind, password>>

\* The audit row, and the answer with ok.
Answer(c) ==
  LET op == hs[c].op  t == hs[c].tok IN
  /\ At(c, "answer") /\ Leave(c)
  /\ LogAudit(IF op = "password" THEN "password_change" ELSE op, t)
  /\ held'  = IF op = "login" THEN held \cup {t} ELSE held
  /\ ended' = IF op = "login" THEN ended ELSE ended \cup ({t} \ {0})
  /\ changed' = IF op = "password" /\ hs[c].pw > changed THEN hs[c].pw ELSE changed
  /\ UNCHANGED <<limVars, version, denied, issued, overlap, blind, password>>

-----------------------------------------------------------------------------
\* A mutant: nothing is pruned.
PruneNever == denied

\* DenylistPrune: expires_at < now.
Unexpired == {t \in denied : issued[t].exp >= now}
Prune ==
  /\ \/ denied' = Unexpired /\ NoFault
     \/ Fault /\ UNCHANGED denied
  /\ UNCHANGED <<version, audit, issued, hs, held, ended, changed, overlap, blind, password, limVars>>

SessionStep(c) ==
  \/ LoginRefused(c) \/ LoginAllowed(c) \/ Verify(c) \/ Issue(c)
  \/ CheckDenylist(c) \/ CheckVersion(c)
  \/ VerifyCurrent(c) \/ Update(c) \/ ReadNext(c) \/ WriteNext(c) \/ Deny(c) \/ Answer(c)
\* Bounds: as many logins as there are tokens left, as many changes as passwords.
Busy(op) == Cardinality({d \in Clients : hs[d].op = op})
Arrival(c) ==
  \/ /\ Len(issued) + Busy("login") < MaxTokens
     /\ \E ip \in IPs, pw \in {0, password} : Login(c, ip, pw)
  \/ \E op \in {"other", "logout"}, t \in held : Come(c, op, t, 0)
  \/ /\ password + Busy("password") < MaxPasswords
     /\ \E t \in held, pw \in {0, password} : Come(c, "password", t, pw)
=============================================================================
