---------------------------- MODULE ConsoleProofs ----------------------------
(* What holds of the start and of the sessions for any number of clients,    *)
(* tokens, passwords, faults and crashes.                                    *)
EXTENDS Console, TLAPS

(* README, Configuration: ADMIN_PASSWORD is used only on first boot.         *)
THEOREM BootKeeps == Spec => BootKeepsPassword
<1>. DEFINE Keeps == up # "serving" /\ password # 0 => password' = password
<1>1. [Next]_consoleVars => Keeps
  <2>. SUFFICES ASSUME [Next]_consoleVars, up # "serving", password # 0 PROVE password' = password
    OBVIOUS
  <2>1. CASE UNCHANGED consoleVars BY <2>1 DEF consoleVars, startVars
  <2>2. CASE Starting
    BY <2>2 DEF Starting, Start, StartStep, CheckApplied, Execute, Mark, Migrated, EnsureAuth
  <2>3. CASE NotStarting BY <2>3 DEF NotStarting, StartFails, EnsureAuthRefuses
  <2>4. CASE Listen BY <2>4 DEF Listen, Prune
  <2>5. CASE Pruning \/ Ticking \/ Crash BY <2>5 DEF Pruning, Ticking, Crash, startVars
  <2>6. ASSUME NEW c \in Clients, Serving(c) \/ Coming(c) PROVE FALSE BY <2>6 DEF Serving, Coming
  <2>. QED BY <2>1, <2>2, <2>3, <2>4, <2>5, <2>6 DEF Next
<1>. QED BY <1>1, PTL DEF Spec, BootKeepsPassword

-----------------------------------------------------------------------------
(* The sessions. A token that was given up is denied or has expired.         *)
Signed == [ver : Nat, exp : Nat, gen : Nat]
Ops    == {"none", "login", "logout", "password", "other"}
Pcs    == {"idle", "allow", "verify", "issue", "denylist", "version", "current", "update",
           "read", "write", "deny", "answer"}
Work   == [op : Ops, pc : Pcs, pw : Nat, tok : Nat, ver : Nat, late : BOOLEAN]

GivenUp(t) == t \in denied \/ now >= issued[t].exp

Tables ==
  /\ now \in Nat /\ password \in Nat /\ issued \in Seq(Signed)
  /\ denied \subseteq 1..Len(issued) /\ held \subseteq 1..Len(issued) /\ ended \subseteq 1..Len(issued)
  /\ hs \in [Clients -> Work]
  /\ \A t \in ended : GivenUp(t)

\* What a goroutine knows of its token: between the two reads of currentClaims it
\* may expire, and then be pruned, but no token that was given up passes the first.
Client(c) ==
  /\ hs[c].tok \in 0..Len(issued)
  /\ At(c, "allow") \/ At(c, "verify") \/ At(c, "issue") => hs[c].op = "login"
  /\ At(c, "current") \/ At(c, "update") \/ At(c, "read") \/ At(c, "write") =>
       hs[c].op = "password" /\ hs[c].tok # 0
  /\ At(c, "deny") => hs[c].op # "login" /\ hs[c].tok # 0
  /\ At(c, "denylist") \/ At(c, "version") => hs[c].tok # 0
  /\ At(c, "answer") =>
       IF hs[c].op = "login" THEN hs[c].tok # 0 ELSE hs[c].tok = 0 \/ GivenUp(hs[c].tok)
  /\ hs[c].late /\ At(c, "denylist") => hs[c].tok \in denied \/ now > issued[hs[c].tok].exp
  /\ hs[c].late /\ At(c, "version") => now > issued[hs[c].tok].exp

SessionInv == Tables /\ \A c \in Clients : Client(c)

\* Tokens are never signed again, and leave the denylist only when they have expired.
Advances ==
  /\ now' \in Nat /\ now <= now' /\ issued' \in Seq(Signed) /\ Len(issued) <= Len(issued')
  /\ \A t \in 1..Len(issued) : issued'[t] = issued[t]
  /\ \A t \in denied : t \in denied' \/ now' > issued[t].exp

(* What is given up stays given up.                                          *)
LEMMA GivenUpStays ==
  ASSUME Tables, Advances, NEW t \in 1..Len(issued), GivenUp(t) PROVE GivenUp(t)'
<1>1. issued[t] \in Signed /\ issued'[t] = issued[t] BY DEF Tables, Advances
<1>2. issued[t].exp \in Nat BY <1>1 DEF Signed
<1>. QED BY <1>1, <1>2 DEF GivenUp, Tables, Advances

(* A goroutine that another one's step, or the clock, leaves alone keeps     *)
(* what it knows.                                                            *)
LEMMA ClientStays ==
  ASSUME Tables, Advances, NEW c \in Clients, Client(c), hs'[c] = hs[c] PROVE Client(c)'
<1>. DEFINE t == hs[c].tok
<1>0. t \in 0..Len(issued) /\ t' = t BY DEF Client
<1>1. CASE t = 0 BY <1>0, <1>1 DEF Client, At, Advances, Tables
<1>2. CASE t # 0
  <2>1. t \in 1..Len(issued) BY <1>0, <1>2 DEF Tables
  <2>2. issued[t] \in Signed /\ issued'[t] = issued[t] BY <2>1 DEF Tables, Advances
  <2>3. issued[t].exp \in Nat BY <2>2 DEF Signed
  <2>4. GivenUp(t) => GivenUp(t)' BY <2>1, GivenUpStays
  <2>5. t \in 0..Len(issued') BY <1>0 DEF Tables, Advances
  <2>. QED BY <1>0, <2>2, <2>3, <2>4, <2>5 DEF Client, At, Advances, Tables
<1>. QED BY <1>1, <1>2
(* The invariant survives a step in which one goroutine moves and the tables *)
(* advance, if it holds of them and of that goroutine again.                 *)
LEMMA MoveKeeps ==
  ASSUME SessionInv, NEW c \in Clients, Advances, Tables', Client(c)',
         \A d \in Clients \ {c} : hs'[d] = hs[d]
  PROVE  SessionInv'
<1>1. ASSUME NEW d \in Clients \ {c} PROVE Client(d)' BY <1>1, ClientStays DEF SessionInv
<1>. QED BY <1>1 DEF SessionInv

\* A step in which the goroutine c does w next, and nothing else of a session changes.
Moves(c, w) == /\ hs' = [hs EXCEPT ![c] = w] /\ w \in Work /\ password' \in Nat
               /\ UNCHANGED <<now, issued, denied, held, ended>>

(* Of such a step only what c knows then is left to prove.                   *)
LEMMA MovesAdvance ==
  ASSUME SessionInv, NEW c \in Clients, NEW w, Moves(c, w)
  PROVE  Advances /\ Tables' /\ hs'[c] = w /\ \A d \in Clients \ {c} : hs'[d] = hs[d]
BY DEF SessionInv, Tables, Advances, Moves, GivenUp

(* Leaving is always fine.                                                   *)
LEMMA LeaveKeeps ==
  ASSUME SessionInv, NEW c \in Clients, Leave(c), password' \in Nat,
         UNCHANGED <<now, issued, denied, held, ended>>
  PROVE  SessionInv'
<1>1. Idle \in Work BY DEF Idle, Work, Ops, Pcs
<1>2. Moves(c, Idle) BY <1>1 DEF Leave, Moves
<1>3. Client(c)' BY <1>2, MovesAdvance DEF Client, At, Idle, Tables
<1>. QED BY <1>2, <1>3, MovesAdvance, MoveKeeps

(* Going on to another step, with the same token and for the same operation. *)
LEMMA GoesOn ==
  ASSUME SessionInv, NEW c \in Clients, NEW pc \in Pcs, NEW pw \in Nat, NEW ver \in Nat,
         Moves(c, [hs[c] EXCEPT !.pc = pc, !.pw = pw, !.ver = ver]),
         pc \in {"allow", "verify", "issue"} => hs[c].op = "login",
         pc \in {"current", "update", "read", "write"} => hs[c].op = "password" /\ hs[c].tok # 0,
         pc = "deny" => hs[c].op # "login" /\ hs[c].tok # 0,
         pc = "version" => hs[c].tok # 0 /\ (hs[c].late => now > issued[hs[c].tok].exp),
         pc \notin {"denylist", "answer"}
  PROVE  SessionInv'
<1>. DEFINE w == [hs[c] EXCEPT !.pc = pc, !.pw = pw, !.ver = ver]
<1>1. Advances /\ Tables' /\ hs'[c] = w /\ \A d \in Clients \ {c} : hs'[d] = hs[d]
  BY MovesAdvance
<1>2. hs[c] \in Work /\ hs[c].tok \in 0..Len(issued) BY DEF SessionInv, Tables, Client
<1>3. w.op = hs[c].op /\ w.pc = pc /\ w.tok = hs[c].tok /\ w.late = hs[c].late BY <1>2 DEF Work
<1>4. now' = now /\ issued' = issued BY DEF Moves
<1>. HIDE DEF w
<1>5. Client(c)' BY <1>1, <1>2, <1>3, <1>4 DEF Client, At
<1>. QED BY <1>1, <1>5, MoveKeeps
\* The version a goroutine reads is a number, so is each bounded one.
LEMMA VersionsAreNumbers == Versions \subseteq Nat
BY StartupAssumption DEF Versions

(* Every step of a login keeps the invariant.                                *)
LEMMA LoginKeeps ==
  ASSUME SessionInv, NEW c \in Clients,
         \/ \E ip \in IPs, pw \in {0, password} : Login(c, ip, pw)
         \/ LoginRefused(c) \/ LoginAllowed(c) \/ Verify(c) \/ Issue(c)
  PROVE  SessionInv'
<1>. DEFINE h == hs[c]
<1>0. /\ h \in Work /\ password \in Nat /\ now \in Nat /\ hs \in [Clients -> Work]
      /\ h.pc \in {"allow", "verify", "issue"} => h.op = "login"
  BY DEF SessionInv, Tables, Client, At
<1>1. ASSUME NEW ip \in IPs, NEW pw \in {0, password}, Login(c, ip, pw) PROVE SessionInv'
  <2>. DEFINE w == [Idle EXCEPT !.op = "login", !.pc = "allow", !.pw = pw]
  <2>0. pw \in Nat BY <1>0
  <2>1. w \in Work /\ w.op = "login" /\ w.pc = "allow" /\ w.tok = 0 /\ ~w.late
    <3>1. Idle \in Work /\ Idle.tok = 0 /\ ~Idle.late BY DEF Idle, Work, Ops, Pcs
    <3>2. "login" \in Ops /\ "allow" \in Pcs BY DEF Ops, Pcs
    <3>. QED BY <2>0, <3>1, <3>2 DEF Work
  <2>2. Moves(c, w) BY <1>0, <1>1, <2>1 DEF Login, Recall, Moves
  <2>3. Advances /\ Tables' /\ hs'[c] = w /\ \A d \in Clients \ {c} : hs'[d] = hs[d]
    BY <2>2, MovesAdvance
  <2>. HIDE DEF w
  <2>4. Client(c)' BY <2>1, <2>3 DEF Client, At, Tables
  <2>. QED BY <2>3, <2>4, MoveKeeps
<1>2. CASE LoginRefused(c)
  BY <1>0, <1>2, LeaveKeeps DEF LoginRefused, Refuse, Remember
<1>3. CASE LoginAllowed(c)
  <2>1. Moves(c, [h EXCEPT !.pc = "verify", !.pw = h.pw, !.ver = h.ver]) /\ h.op = "login"
    BY <1>0, <1>3 DEF LoginAllowed, Admit, Remember, Moves, Go, At, Work, Pcs
  <2>. QED BY <1>0, <2>1, GoesOn DEF Work, Pcs
<1>4. CASE Verify(c)
  <2>1. CASE Leave(c) BY <1>0, <1>4, <2>1, LeaveKeeps DEF Verify, limVars
  <2>2. CASE Enter(c, "issue")
    <3>1. Moves(c, [h EXCEPT !.pc = "issue", !.pw = h.pw, !.ver = h.ver]) /\ h.op = "login"
      BY <1>0, <1>4, <2>2 DEF Verify, Enter, limVars, Moves, Go, At, Work, Pcs
    <3>. QED BY <1>0, <3>1, GoesOn DEF Work, Pcs
  <2>. QED BY <1>4, <2>1, <2>2 DEF Verify
<1>5. CASE Issue(c)
  <2>1. PICK v \in Versions : issued' = Append(issued, [ver |-> v, exp |-> now + TTL, gen |-> h.pw])
    BY <1>5 DEF Issue
  <2>. DEFINE e == [ver |-> v, exp |-> now + TTL, gen |-> h.pw]
              n == Len(issued)
              w == [h EXCEPT !.pc = "answer", !.tok = n + 1, !.pw = 0]
  <2>2. e \in Signed BY <1>0, VersionsAreNumbers, SessionAssumption DEF Signed, Work
  <2>3. n \in Nat /\ issued \in Seq(Signed) BY DEF SessionInv, Tables
  <2>4. UNCHANGED <<now, denied, held, ended, password>> /\ h.op = "login"
    BY <1>0, <1>5 DEF Issue, limVars, At
  <2>5. hs' = [hs EXCEPT ![c] = w] BY <1>0, <1>5 DEF Issue, Work
  <2>6. w \in Work /\ w.op = "login" /\ w.pc = "answer" /\ w.tok = n + 1
    <3>1. n + 1 \in Nat /\ "answer" \in Pcs BY <2>3 DEF Pcs
    <3>. HIDE DEF n
    <3>. QED BY <1>0, <2>4, <3>1 DEF Work
  <2>7. /\ issued' \in Seq(Signed) /\ Len(issued') = n + 1
        /\ \A t \in 1..n : issued'[t] = issued[t]
    BY <2>1, <2>2, <2>3
  <2>. HIDE DEF w, e
  <2>8. Advances BY <1>0, <2>3, <2>4, <2>7 DEF Advances
  <2>9. hs' \in [Clients -> Work] /\ hs'[c] = w /\ \A d \in Clients \ {c} : hs'[d] = hs[d]
    BY <1>0, <2>5, <2>6
  <2>10. Tables'
    <3>1. \A t \in ended : GivenUp(t)'
      BY <2>4, <2>8, GivenUpStays DEF SessionInv, Tables
    <3>. QED BY <1>0, <2>3, <2>4, <2>7, <2>9, <3>1 DEF SessionInv, Tables
  <2>11. Client(c)' BY <2>3, <2>6, <2>7, <2>9 DEF Client, At
  <2>. QED BY <2>8, <2>9, <2>10, <2>11, MoveKeeps
<1>. QED BY <1>1, <1>2, <1>3, <1>4, <1>5
(* A request with a token, and the check in front of its handler. A token    *)
(* that was ended is valid when it comes only if it is denied; if the check  *)
(* then misses it in the denylist, pruning took it, and it has expired.      *)
LEMMA CheckKeeps ==
  ASSUME SessionInv, NEW c \in Clients,
         \/ \E op \in {"other", "logout", "password"}, t \in held, pw \in {0, password} : Come(c, op, t, pw)
         \/ CheckDenylist(c) \/ CheckVersion(c)
  PROVE  SessionInv'
<1>. DEFINE h == hs[c]
<1>0. /\ h \in Work /\ password \in Nat /\ now \in Nat /\ hs \in [Clients -> Work]
      /\ h.tok \in 0..Len(issued) /\ Client(c)
  BY DEF SessionInv, Tables, Client
<1>1. ASSUME NEW op \in {"other", "logout", "password"}, NEW t \in held, NEW pw \in {0, password},
             Come(c, op, t, pw)
      PROVE  SessionInv'
  <2>. DEFINE w == [op |-> op, pc |-> "denylist", pw |-> pw, tok |-> t, ver |-> 0, late |-> t \in ended]
  <2>1. t \in 1..Len(issued) BY DEF SessionInv, Tables
  <2>2. issued[t].exp \in Nat
    <3>1. issued[t] \in Signed BY <2>1 DEF SessionInv, Tables
    <3>. QED BY <3>1 DEF Signed
  <2>3. now < issued[t].exp /\ hs' = [hs EXCEPT ![c] = w] BY <1>1 DEF Come
  <2>4. t \in ended => t \in denied BY <1>0, <2>2, <2>3 DEF SessionInv, Tables, GivenUp
  <2>5. w \in Work
    <3>1. pw \in Nat /\ t \in Nat /\ op \in Ops /\ "denylist" \in Pcs BY <1>0, <2>1 DEF Ops, Pcs
    <3>. QED BY <3>1 DEF Work
  <2>6. Moves(c, w) BY <1>0, <1>1, <2>3, <2>5 DEF Come, limVars, Moves
  <2>7. w.pc = "denylist" /\ w.tok = t /\ (w.late <=> t \in ended) OBVIOUS
  <2>. HIDE DEF w
  <2>8. Advances /\ Tables' /\ hs'[c] = w /\ \A d \in Clients \ {c} : hs'[d] = hs[d]
    BY <2>6, MovesAdvance
  <2>9. issued' = issued /\ denied' = denied BY <2>6 DEF Moves
  <2>10. Client(c)' BY <2>1, <2>4, <2>7, <2>8, <2>9 DEF Client, At
  <2>. QED BY <2>8, <2>10, MoveKeeps
<1>2. CASE CheckDenylist(c)
  <2>1. CASE Leave(c) BY <1>0, <1>2, <2>1, LeaveKeeps DEF CheckDenylist, limVars
  <2>2. CASE h.tok \notin denied /\ Go(c, "version")
    <3>1. Moves(c, [h EXCEPT !.pc = "version", !.pw = h.pw, !.ver = h.ver])
      BY <1>0, <1>2, <2>2 DEF CheckDenylist, limVars, Moves, Go, Work, Pcs
    <3>2. h.tok # 0 /\ (h.late => now > issued[h.tok].exp)
      BY <1>0, <1>2, <2>2 DEF CheckDenylist, Client, At
    <3>. QED BY <1>0, <3>1, <3>2, GoesOn DEF Work, Pcs
  <2>. QED BY <1>2, <2>1, <2>2 DEF CheckDenylist
<1>3. CASE CheckVersion(c)
  <2>1. CASE Leave(c) BY <1>0, <1>3, <2>1, LeaveKeeps DEF CheckVersion, limVars
  <2>2. CASE First(h.op) # "idle" /\ Go(c, First(h.op))
    <3>1. h.tok # 0 BY <1>0, <1>3 DEF CheckVersion, Client, At
    <3>2. \/ First(h.op) = "deny" /\ h.op = "logout"
          \/ First(h.op) = "current" /\ h.op = "password"
      BY <1>0, <2>2 DEF First, Work, Ops
    <3>3. Moves(c, [h EXCEPT !.pc = First(h.op), !.pw = h.pw, !.ver = h.ver])
      BY <1>0, <1>3, <2>2, <3>2 DEF CheckVersion, limVars, Moves, Go, Work, Pcs
    <3>. QED BY <1>0, <3>1, <3>2, <3>3, GoesOn DEF Work, Pcs
  <2>. QED BY <1>3, <2>1, <2>2 DEF CheckVersion
<1>. QED BY <1>1, <1>2, <1>3

(* The steps of a password change up to the new version.                     *)
LEMMA ChangeKeeps ==
  ASSUME SessionInv, NEW c \in Clients,
         VerifyCurrent(c) \/ Update(c) \/ ReadNext(c) \/ WriteNext(c)
  PROVE  SessionInv'
<1>. DEFINE h == hs[c]
<1>0. /\ h \in Work /\ password \in Nat /\ hs \in [Clients -> Work] /\ Client(c)
  BY DEF SessionInv, Tables
<1>1. CASE VerifyCurrent(c)
  <2>1. CASE Leave(c) BY <1>0, <1>1, <2>1, LeaveKeeps DEF VerifyCurrent, limVars
  <2>2. CASE Enter(c, "update")
    <3>1. Moves(c, [h EXCEPT !.pc = "update", !.pw = h.pw, !.ver = h.ver])
      BY <1>0, <1>1, <2>2 DEF VerifyCurrent, Enter, limVars, Moves, Go, Work, Pcs
    <3>2. h.op = "password" /\ h.tok # 0 BY <1>0, <1>1 DEF VerifyCurrent, Client, At
    <3>. QED BY <1>0, <3>1, <3>2, GoesOn DEF Work, Pcs
  <2>. QED BY <1>1, <2>1, <2>2 DEF VerifyCurrent
<1>2. CASE Update(c)
  <2>1. CASE Leave(c) /\ UNCHANGED password BY <1>0, <1>2, <2>1, LeaveKeeps DEF Update, limVars
  <2>2. CASE password' = password + 1 /\ hs' = [hs EXCEPT ![c].pc = "read", ![c].pw = password + 1]
    <3>. DEFINE p == password + 1
                w == [h EXCEPT !.pc = "read", !.pw = p, !.ver = h.ver]
    <3>1. p \in Nat /\ password' = p BY <1>0, <2>2
    <3>. HIDE DEF p
    <3>2. w \in Work BY <1>0, <3>1 DEF Work, Pcs
    <3>3. hs' = [hs EXCEPT ![c] = w] BY <1>0, <2>2 DEF Work, p
    <3>4. Moves(c, w)
      <4>. HIDE DEF w
      <4>. QED BY <1>2, <3>1, <3>2, <3>3 DEF Update, limVars, Moves
    <3>5. h.op = "password" /\ h.tok # 0 BY <1>0, <1>2 DEF Update, Client, At
    <3>. QED BY <1>0, <3>1, <3>4, <3>5, GoesOn DEF Work, Pcs
  <2>. QED BY <1>2, <2>1, <2>2 DEF Update
<1>3. CASE ReadNext(c)
  <2>1. PICK v \in Versions : hs' = [hs EXCEPT ![c].pc = "write", ![c].ver = v] BY <1>3 DEF ReadNext
  <2>2. v \in Nat BY VersionsAreNumbers
  <2>3. Moves(c, [h EXCEPT !.pc = "write", !.pw = h.pw, !.ver = v])
    <3>1. hs' = [hs EXCEPT ![c] = [h EXCEPT !.pc = "write", !.pw = h.pw, !.ver = v]]
      BY <1>0, <2>1 DEF Work
    <3>2. [h EXCEPT !.pc = "write", !.pw = h.pw, !.ver = v] \in Work BY <1>0, <2>2 DEF Work, Pcs
    <3>. QED BY <1>0, <1>3, <3>1, <3>2 DEF ReadNext, limVars, Moves
  <2>4. h.op = "password" /\ h.tok # 0 BY <1>0, <1>3 DEF ReadNext, Client, At
  <2>. QED BY <1>0, <2>2, <2>3, <2>4, GoesOn DEF Work, Pcs
<1>4. CASE WriteNext(c)
  <2>1. CASE Leave(c) BY <1>0, <1>4, <2>1, LeaveKeeps DEF WriteNext, limVars
  <2>2. CASE hs' = [hs EXCEPT ![c].pc = "deny", ![c].ver = 0]
    <3>1. Moves(c, [h EXCEPT !.pc = "deny", !.pw = h.pw, !.ver = 0])
      BY <1>0, <1>4, <2>2 DEF WriteNext, limVars, Moves, Work, Pcs
    <3>2. h.op = "password" /\ h.tok # 0 BY <1>0, <1>4 DEF WriteNext, Client, At
    <3>. QED BY <1>0, <3>1, <3>2, GoesOn DEF Work, Pcs
  <2>. QED BY <1>4, <2>1, <2>2 DEF WriteNext
<1>. QED BY <1>1, <1>2, <1>3, <1>4
(* Giving up a token: it is denied before it counts as ended.                *)
LEMMA DenyKeeps ==
  ASSUME SessionInv, NEW c \in Clients, Deny(c)
  PROVE  SessionInv'
<1>. DEFINE h == hs[c]
            t == h.tok
<1>0. /\ h \in Work /\ password \in Nat /\ now \in Nat /\ hs \in [Clients -> Work]
      /\ t \in 1..Len(issued) /\ h.op # "login" /\ issued \in Seq(Signed)
  BY DEF SessionInv, Tables, Client, At, Deny, Work
<1>1. UNCHANGED <<now, issued, held, ended, password>> BY DEF Deny, limVars
<1>2. CASE hs' = [hs EXCEPT ![c].pc = "answer", ![c].tok = 0] /\ UNCHANGED denied
  <2>. DEFINE w == [h EXCEPT !.pc = "answer", !.tok = 0]
  <2>1. w \in Work /\ w.pc = "answer" /\ w.tok = 0 /\ w.op # "login" BY <1>0 DEF Work, Pcs
  <2>2. hs' = [hs EXCEPT ![c] = w] BY <1>0, <1>2 DEF Work
  <2>. HIDE DEF w
  <2>3. Moves(c, w) BY <1>0, <1>1, <1>2, <2>1, <2>2 DEF Moves
  <2>4. Advances /\ Tables' /\ hs'[c] = w /\ \A d \in Clients \ {c} : hs'[d] = hs[d]
    BY <2>3, MovesAdvance
  <2>5. Client(c)' BY <2>1, <2>4 DEF Client, At, Tables
  <2>. QED BY <2>4, <2>5, MoveKeeps
<1>3. CASE /\ denied' = IF now < issued[t].exp THEN denied \cup {t} ELSE denied
           /\ Go(c, "answer")
  <2>. DEFINE w == [h EXCEPT !.pc = "answer"]
  <2>1. w \in Work /\ w.pc = "answer" /\ w.tok = t /\ w.op # "login" BY <1>0 DEF Work, Pcs
  <2>2. hs' = [hs EXCEPT ![c] = w] BY <1>0, <1>3 DEF Work, Go
  <2>. HIDE DEF w
  <2>3. hs' \in [Clients -> Work] /\ hs'[c] = w /\ \A d \in Clients \ {c} : hs'[d] = hs[d]
    BY <1>0, <2>1, <2>2
  <2>4. denied \subseteq denied' /\ denied' \subseteq 1..Len(issued)
    BY <1>0, <1>3 DEF SessionInv, Tables
  <2>5. Advances BY <1>0, <1>1, <2>4 DEF Advances
  <2>6. \A e \in ended : GivenUp(e)' BY <1>1, <2>5, GivenUpStays DEF SessionInv, Tables
  <2>7. Tables' BY <1>0, <1>1, <2>3, <2>4, <2>6 DEF SessionInv, Tables
  <2>8. GivenUp(t)'
    <3>1. issued[t] \in Signed BY <1>0
    <3>2. issued[t].exp \in Nat BY <3>1 DEF Signed
    <3>3. CASE now < issued[t].exp BY <1>1, <1>3, <2>1, <2>3, <3>3 DEF GivenUp
    <3>4. CASE now >= issued[t].exp BY <1>1, <2>1, <2>3, <3>4 DEF GivenUp
    <3>. QED BY <1>0, <3>2, <3>3, <3>4
  <2>9. Client(c)' BY <1>0, <1>1, <2>1, <2>3, <2>8 DEF Client, At
  <2>. QED BY <2>3, <2>5, <2>7, <2>9, MoveKeeps
<1>. QED BY <1>2, <1>3 DEF Deny

(* The answer: the client holds its token, or the token is ended.            *)
LEMMA AnswerKeeps ==
  ASSUME SessionInv, NEW c \in Clients, Answer(c)
  PROVE  SessionInv'
<1>. DEFINE h == hs[c]
            t == h.tok
<1>0. h \in Work /\ hs \in [Clients -> Work] /\ t \in 0..Len(issued) /\ Client(c) /\ At(c, "answer")
  BY DEF SessionInv, Tables, Client, Answer
<1>1. UNCHANGED <<now, issued, denied, password>> BY DEF Answer, limVars
<1>2. Idle \in Work /\ Idle.tok = 0 /\ ~Idle.late /\ Idle.pc = "idle" BY DEF Idle, Work, Ops, Pcs
<1>3. hs' = [hs EXCEPT ![c] = Idle] BY DEF Answer, Leave
<1>4. hs' \in [Clients -> Work] /\ hs'[c] = Idle /\ \A d \in Clients \ {c} : hs'[d] = hs[d]
  BY <1>0, <1>2, <1>3
<1>5. Advances BY <1>1 DEF SessionInv, Tables, Advances
<1>6. h.op = "login" => t \in 1..Len(issued) BY <1>0 DEF Client, At, SessionInv, Tables
<1>7. h.op # "login" /\ t # 0 => t \in 1..Len(issued) /\ GivenUp(t)
  BY <1>0 DEF Client, At, SessionInv, Tables
<1>8. held' \subseteq 1..Len(issued) BY <1>6 DEF Answer, SessionInv, Tables
<1>9. \A e \in ended' : e \in ended \/ (e = t /\ h.op # "login" /\ t # 0) BY DEF Answer
<1>10. ended' \subseteq 1..Len(issued) /\ \A e \in ended' : GivenUp(e)
  BY <1>7, <1>9 DEF SessionInv, Tables
<1>11. \A e \in ended' : GivenUp(e)' BY <1>1, <1>10 DEF GivenUp
<1>12. Tables' BY <1>1, <1>4, <1>8, <1>10, <1>11 DEF SessionInv, Tables
<1>13. Client(c)' BY <1>2, <1>4, <1>12 DEF Client, At, Tables
<1>. QED BY <1>4, <1>5, <1>12, <1>13, MoveKeeps

(* Pruning takes only rows whose tokens have expired.                        *)
LEMMA PruneKeeps ==
  ASSUME SessionInv, Prune
  PROVE  SessionInv'
<1>1. UNCHANGED <<now, issued, held, ended, password, hs>> BY DEF Prune, limVars
<1>2. denied' \subseteq denied BY DEF Prune, Unexpired
<1>3. Advances
  <2>1. \A t \in denied : issued[t].exp \in Nat
    <3>1. \A t \in 1..Len(issued) : issued[t] \in Signed BY DEF SessionInv, Tables
    <3>2. \A t \in denied : issued[t] \in Signed BY <3>1 DEF SessionInv, Tables
    <3>. QED BY <3>2 DEF Signed
  <2>2. now \in Nat BY DEF SessionInv, Tables
  <2>3. \A t \in denied : t \in denied' \/ now > issued[t].exp
    BY <2>1, <2>2 DEF Prune, Unexpired
  <2>. QED BY <1>1, <2>3 DEF Advances, SessionInv, Tables
<1>4. \A t \in ended : GivenUp(t)' BY <1>3, GivenUpStays DEF SessionInv, Tables
<1>5. Tables' BY <1>1, <1>2, <1>4 DEF SessionInv, Tables
<1>6. \A c \in Clients : Client(c)' BY <1>1, <1>3, ClientStays DEF SessionInv
<1>. QED BY <1>5, <1>6 DEF SessionInv

(* The clock only advances.                                                  *)
LEMMA TickKeeps ==
  ASSUME SessionInv, Ticking
  PROVE  SessionInv'
<1>1. /\ now' = now + 1 /\ now \in Nat
      /\ UNCHANGED <<issued, denied, held, ended, password, hs>>
  BY DEF Ticking, Tick, sessVars, startVars, SessionInv, Tables
<1>2. Advances BY <1>1 DEF Advances, SessionInv, Tables
<1>3. \A t \in ended : GivenUp(t)' BY <1>1, <1>2, GivenUpStays DEF SessionInv, Tables
<1>4. Tables' BY <1>1, <1>3 DEF SessionInv, Tables
<1>5. \A c \in Clients : Client(c)' BY <1>1, <1>2, ClientStays DEF SessionInv
<1>. QED BY <1>4, <1>5 DEF SessionInv

(* A crash stops the goroutines; the tables, and what clients hold, stay.    *)
LEMMA CrashKeeps ==
  ASSUME SessionInv, Crash
  PROVE  SessionInv'
<1>1. UNCHANGED <<now, issued, denied, held, ended, password>> BY DEF Crash
<1>2. Idle \in Work /\ Idle.tok = 0 /\ ~Idle.late /\ Idle.pc = "idle" BY DEF Idle, Work, Ops, Pcs
<1>3. hs' = [c \in Clients |-> Idle] BY DEF Crash
<1>4. hs' \in [Clients -> Work] /\ \A c \in Clients : hs'[c] = Idle BY <1>2, <1>3
<1>5. \A t \in ended : GivenUp(t)' BY <1>1 DEF GivenUp, SessionInv, Tables
<1>6. Tables' BY <1>1, <1>4, <1>5 DEF SessionInv, Tables
<1>7. \A c \in Clients : Client(c)' BY <1>2, <1>4, <1>6 DEF Client, At, Tables
<1>. QED BY <1>6, <1>7 DEF SessionInv
(* Every step keeps it.                                                      *)
LEMMA SessionInvInductive == SessionInv /\ [Next]_consoleVars => SessionInv'
<1>. SUFFICES ASSUME SessionInv, [Next]_consoleVars PROVE SessionInv' OBVIOUS
<1>. DEFINE Same == UNCHANGED <<now, issued, denied, held, ended, hs>> /\ password' \in Nat
<1>0. password \in Nat BY DEF SessionInv, Tables
<1>1. Same => SessionInv'
  <2>. SUFFICES ASSUME Same PROVE SessionInv' OBVIOUS
  <2>1. Advances BY DEF Advances, SessionInv, Tables
  <2>2. \A t \in ended : GivenUp(t)' BY <2>1, GivenUpStays DEF SessionInv, Tables
  <2>3. Tables' BY <2>2 DEF SessionInv, Tables
  <2>4. \A c \in Clients : Client(c)' BY <2>1, ClientStays DEF SessionInv
  <2>. QED BY <2>3, <2>4 DEF SessionInv
<1>2. CASE UNCHANGED consoleVars
  BY <1>0, <1>1, <1>2 DEF consoleVars, startVars, limVars, sessVars
<1>3. CASE Starting
  <2>1. password' \in Nat
    BY <1>0, <1>3 DEF Starting, Start, StartStep, CheckApplied, Execute, Mark, Migrated, EnsureAuth
  <2>. QED BY <1>1, <1>3, <2>1 DEF Starting, limVars, sessVars
<1>4. CASE NotStarting
  <2>1. password' \in Nat BY <1>0, <1>4 DEF NotStarting, StartFails, EnsureAuthRefuses
  <2>. QED BY <1>1, <1>4, <2>1 DEF NotStarting, limVars, sessVars
<1>5. CASE Listen \/ Pruning BY <1>5, PruneKeeps DEF Listen, Pruning
<1>6. CASE Crash BY <1>6, CrashKeeps
<1>7. CASE Ticking BY <1>7, TickKeeps
<1>8. ASSUME NEW c \in Clients, Serving(c) PROVE SessionInv'
  BY <1>8, LoginKeeps, CheckKeeps, ChangeKeeps, DenyKeeps, AnswerKeeps DEF Serving, SessionStep
<1>9. ASSUME NEW c \in Clients, Coming(c) PROVE SessionInv'
  <2>1. CASE \E ip \in IPs, pw \in {0, password} : Login(c, ip, pw) BY <2>1, LoginKeeps
  <2>2. CASE \E op \in {"other", "logout"}, t \in held : Come(c, op, t, 0) BY <2>2, CheckKeeps
  <2>3. CASE \E t \in held, pw \in {0, password} : Come(c, "password", t, pw) BY <2>3, CheckKeeps
  <2>. QED BY <1>9, <2>1, <2>2, <2>3 DEF Coming, Arrival
<1>. QED BY <1>2, <1>3, <1>4, <1>5, <1>6, <1>7, <1>8, <1>9 DEF Next

(* ... and it holds at first.                                                *)
LEMMA InitSession == Init => SessionInv
<1>. SUFFICES ASSUME Init PROVE SessionInv OBVIOUS
<1>1. now = 0 /\ issued = <<>> /\ denied = {} /\ held = {} /\ ended = {} /\ hs = [c \in Clients |-> Idle]
  BY DEF Init, SessionInit, LimiterInit
<1>2. password \in Nat BY DEF Init, StartupInit
<1>3. Idle \in Work /\ Idle.tok = 0 /\ ~Idle.late /\ Idle.pc = "idle" BY DEF Idle, Work, Ops, Pcs
<1>4. Tables BY <1>1, <1>2, <1>3 DEF Tables
<1>5. \A c \in Clients : Client(c) BY <1>1, <1>3 DEF Client, At
<1>. QED BY <1>4, <1>5 DEF SessionInv

(* README, Security: "Logout revokes the token through a database denylist". *)
(* A request that comes after its session's logout or password change was    *)
(* answered passes the check only if its token expired meanwhile, however    *)
(* many clients, prunes, faults and restarts there are.                      *)
THEOREM EndedStayEnded == Spec => []EndedSessionsStayEnded
<1>1. SessionInv => EndedSessionsStayEnded
  BY DEF SessionInv, Client, EndedSessionsStayEnded, Through, At
<1>. QED BY <1>1, InitSession, SessionInvInductive, PTL DEF Spec
-----------------------------------------------------------------------------
(* The start. Of a file that is marked everything is made, of the file at    *)
(* work what comes before its current statement, and the counter counts from *)
(* when it was made.                                                         *)
Made(m) == ToSet(Migrations[m]) \subseteq made

StartInv ==
  /\ stage \in (Nat \X Nat) /\ stage[1] >= 1 /\ applied \subseteq Files /\ made \subseteq Objects
  /\ \A m \in applied : Made(m)
  /\ "count" \in made => total = rows
  /\ up = "migrate" =>
       /\ \A m \in Files : m < stage[1] => m \in applied
       /\ stage[1] \in Files => \A s \in DOMAIN Migrations[stage[1]] :
                                s < stage[2] => Migrations[stage[1]][s] \in made
  /\ up \in {"auth", "prune", "serving"} => applied = Files

(* The three files and what they make.                                       *)
LEMMA TheFiles ==
  /\ Files = {1, 2, 3} /\ Len(Migrations) = 3
  /\ Migrations[1] = <<"requests", "auth", "settings">> /\ Migrations[2] = <<"country">>
  /\ Migrations[3] = <<"stats", "count">>
  /\ Objects = {"requests", "auth", "settings", "country", "stats", "count"}
<1>1. /\ Len(Migrations) = 3 /\ Migrations[1] = <<"requests", "auth", "settings">>
      /\ Migrations[2] = <<"country">> /\ Migrations[3] = <<"stats", "count">>
  BY DEF Migrations
<1>2. Files = {1, 2, 3} BY <1>1 DEF Files
<1>3. /\ ToSet(Migrations[1]) = {"requests", "auth", "settings"}
      /\ ToSet(Migrations[2]) = {"country"} /\ ToSet(Migrations[3]) = {"stats", "count"}
  BY <1>1 DEF ToSet
<1>4. Objects = UNION {ToSet(Migrations[m]) : m \in {1, 2, 3}} BY <1>2 DEF Objects
<1>. QED BY <1>1, <1>2, <1>3, <1>4
(* A file's statements, whatever the file.                                   *)
LEMMA Statements ==
  ASSUME NEW m \in Files
  PROVE  /\ Len(Migrations[m]) \in Nat \ {0} /\ DOMAIN Migrations[m] = 1..Len(Migrations[m])
         /\ \A s \in DOMAIN Migrations[m] : Migrations[m][s] \in Objects
         /\ \A s \in DOMAIN Migrations[m] : Migrations[m][s] = "country" => s = Len(Migrations[m])
<1>1. CASE m = 1 BY <1>1, TheFiles
<1>2. CASE m = 2 BY <1>2, TheFiles
<1>3. CASE m = 3 BY <1>3, TheFiles
<1>. QED BY <1>1, <1>2, <1>3, TheFiles

\* What StartInv says of the file at work.
Progress(f, s) ==
  /\ \A m \in Files : m < f => m \in applied
  /\ f \in Files => \A i \in DOMAIN Migrations[f] : i < s => Migrations[f][i] \in made

(* Between two files, and at the first statement of one, nothing of it need  *)
(* be made yet.                                                              *)
LEMMA FileBegins ==
  ASSUME NEW f \in Nat, NEW s \in {0, 1}, \A m \in Files : m < f => m \in applied
  PROVE  Progress(f, s)
<1>1. \A m \in Files : \A i \in DOMAIN Migrations[m] : ~(i < s) BY Statements
<1>. QED BY <1>1 DEF Progress

(* A statement is executed, for the first time or again.                     *)
LEMMA ExecuteKeeps == ASSUME StartInv, Execute PROVE StartInv'
<1>. DEFINE f == stage[1]
            s == stage[2]
<1>1. /\ up = "migrate" /\ up' = up /\ f \in Files /\ s \in DOMAIN Migrations[f]
      /\ applied' = applied /\ rows' = rows /\ made' = made \cup {Migrations[f][s]}
  BY DEF Execute, Executing, Statement
<1>2. /\ Len(Migrations[f]) \in Nat \ {0} /\ DOMAIN Migrations[f] = 1..Len(Migrations[f])
      /\ Migrations[f][s] \in Objects /\ f \in Nat /\ s \in Nat /\ f >= 1
      /\ Migrations[f][s] = "country" => s = Len(Migrations[f])
  BY <1>1, Statements DEF StartInv
<1>3. stage' = <<f, s + 1>>
  <2>1. stage' = <<f, Len(Migrations[f]) + 1>> \/ stage' = <<f, s + 1>>
    BY DEF Execute, FileDone
  <2>2. Migrations[f][s] # "country" => stage' = <<f, s + 1>> BY DEF Execute, Statement
  <2>. QED BY <1>2, <2>1, <2>2
<1>4. \A m \in applied : Made(m)' BY <1>1 DEF StartInv, Made
<1>5. "count" \in made' => total' = rows' BY <1>1 DEF StartInv, Execute, Statement
<1>6. \A i \in DOMAIN Migrations[f] : i < s + 1 => Migrations[f][i] \in made'
  BY <1>1, <1>2 DEF StartInv
<1>7. stage' \in Nat \X Nat /\ stage'[1] = f /\ stage'[2] = s + 1 BY <1>2, <1>3
<1>. QED BY <1>1, <1>2, <1>4, <1>5, <1>6, <1>7 DEF StartInv, Made

(* migrate skips a marked file, and marks one that is done.                  *)
LEMMA MigrateKeeps == ASSUME StartInv, CheckApplied \/ Mark \/ Migrated PROVE StartInv'
<1>. DEFINE f == stage[1]
            s == stage[2]
<1>1. f \in Nat /\ s \in Nat /\ f >= 1 BY DEF StartInv
<1>2. up = "migrate" /\ made' = made /\ rows' = rows /\ total' = total
  BY DEF CheckApplied, Mark, Migrated
<1>3. CASE CheckApplied
  <2>1. CASE f \in applied /\ stage' = <<f + 1, 0>>
    <3>1. \A m \in Files : m < f + 1 => m \in applied
      BY <1>1, <1>2, <2>1, TheFiles DEF StartInv
    <3>2. Progress(f + 1, 0) BY <1>1, <3>1, FileBegins
    <3>. QED BY <1>1, <1>2, <1>3, <2>1, <3>2 DEF StartInv, CheckApplied, Progress, Made
  <2>2. CASE stage' = <<f, 1>>
    <3>1. Progress(f, 1) BY <1>1, <1>2, FileBegins DEF StartInv
    <3>. QED BY <1>1, <1>2, <1>3, <2>2, <3>1 DEF StartInv, CheckApplied, Progress, Made
  <2>. QED BY <1>3, <2>1, <2>2 DEF CheckApplied
<1>4. CASE Mark
  <2>1. f \in Files /\ s = Len(Migrations[f]) + 1 /\ stage' = <<f + 1, 0>> /\ applied' = applied \cup {f}
    BY <1>4 DEF Mark, FileDone
  <2>2. \A i \in DOMAIN Migrations[f] : Migrations[f][i] \in made
    BY <1>2, <2>1, Statements DEF StartInv
  <2>3. Made(f) BY <2>2 DEF Made, ToSet
  <2>4. \A m \in Files : m < f + 1 => m \in applied'
    BY <1>1, <1>2, <2>1, TheFiles DEF StartInv
  <2>5. \A i \in DOMAIN Migrations[f + 1] : f + 1 \in Files => ~(i < 0) BY <1>1, Statements
  <2>. QED BY <1>1, <1>2, <1>4, <2>1, <2>3, <2>4, <2>5 DEF StartInv, Mark, Made
<1>5. CASE Migrated
  <2>1. applied = Files BY <1>1, <1>2, <1>5, TheFiles DEF StartInv, Migrated
  <2>. QED BY <1>2, <1>5, <2>1 DEF StartInv, Migrated, Made
<1>. QED BY <1>3, <1>4, <1>5

(* Everything else moves on only after the last file, or goes back to the    *)
(* beginning.                                                                *)
LEMMA StartInvInductive == StartInv /\ [Next]_consoleVars => StartInv'
<1>. SUFFICES ASSUME StartInv, [Next]_consoleVars PROVE StartInv' OBVIOUS
<1>. DEFINE Schema == UNCHANGED <<stage, applied, made, rows, total>>
<1>1. ASSUME Schema, up' \in {up, "down"} PROVE StartInv' BY <1>1 DEF StartInv, Made
<1>2. ASSUME Schema, up \in {"auth", "prune"}, up' \in {"prune", "serving"} PROVE StartInv'
  BY <1>2 DEF StartInv, Made
<1>3. CASE UNCHANGED consoleVars BY <1>1, <1>3 DEF consoleVars, startVars
<1>4. CASE Starting
  <2>1. CASE Start
    <3>1. Progress(1, 0) BY FileBegins, TheFiles
    <3>. QED BY <2>1, <3>1 DEF Start, StartInv, Progress, Made
  <2>2. CASE CheckApplied \/ Mark \/ Migrated BY <2>2, MigrateKeeps
  <2>3. CASE Execute BY <2>3, ExecuteKeeps
  <2>4. CASE EnsureAuth BY <1>2, <2>4 DEF EnsureAuth
  <2>. QED BY <1>4, <2>1, <2>2, <2>3, <2>4 DEF Starting, StartStep
<1>5. CASE NotStarting BY <1>1, <1>5 DEF NotStarting, StartFails, EnsureAuthRefuses
<1>6. CASE Listen BY <1>2, <1>6 DEF Listen
<1>7. CASE Pruning BY <1>1, <1>7 DEF Pruning
<1>8. CASE Crash BY <1>1, <1>8 DEF Crash
<1>9. CASE Ticking BY <1>1, <1>9 DEF Ticking, startVars
<1>10. ASSUME NEW c \in Clients, Serving(c) \/ Coming(c) PROVE StartInv'
  BY <1>1, <1>10 DEF Serving, Coming
<1>. QED BY <1>3, <1>4, <1>5, <1>6, <1>7, <1>8, <1>9, <1>10 DEF Next

(* It holds of what an earlier release has left.                             *)
LEMMA InitStart == Init => StartInv
<1>. SUFFICES ASSUME Init PROVE StartInv OBVIOUS
<1>1. PICK k \in 0..Len(Migrations) :
        /\ applied = 1..k /\ made = UNION {ToSet(Migrations[m]) : m \in 1..k}
        /\ total = (IF k = Len(Migrations) THEN rows ELSE 0)
        /\ up = "down" /\ stage = <<1, 0>>
  BY DEF Init, StartupInit
<1>2. k \in {0, 1, 2, 3} BY TheFiles
<1>3. 1..k \subseteq Files BY <1>2, TheFiles
<1>4. \A m \in applied : Made(m) BY <1>1 DEF Made
<1>5. made \subseteq Objects BY <1>1, <1>3 DEF Objects
<1>6. "count" \in made => k = 3
  <2>1. SUFFICES ASSUME NEW m \in 1..k, "count" \in ToSet(Migrations[m]) PROVE m = 3
    BY <1>1, <1>2
  <2>2. m \in {1, 2, 3} BY <1>2
  <2>. QED BY <2>1, <2>2, TheFiles DEF ToSet
<1>. QED BY <1>1, <1>3, <1>4, <1>5, <1>6, TheFiles DEF StartInv

(* Whatever interrupted earlier starts, at whichever statement, the program  *)
(* serves only a complete schema with a counter that began at the number of  *)
(* rows (db.migrate).                                                        *)
THEOREM ServingIsMigrated == Spec => []ServesMigrated
<1>1. StartInv => ServesMigrated
  <2>. SUFFICES ASSUME StartInv, up = "serving" PROVE applied = Files /\ made = Objects /\ total = rows
    BY DEF ServesMigrated
  <2>1. applied = Files /\ made \subseteq Objects BY DEF StartInv
  <2>2. Objects \subseteq made BY <2>1 DEF StartInv, Made, Objects
  <2>3. "count" \in made BY <2>2, TheFiles
  <2>. QED BY <2>1, <2>2, <2>3 DEF StartInv
<1>. QED BY <1>1, InitStart, StartInvInductive, PTL DEF Spec
-----------------------------------------------------------------------------
(* The password change. While changes and logins keep apart and the version  *)
(* can be read, every token is older than the next version, who is between   *)
(* the hash and what it allows knows the password there is, and a changer    *)
(* who wrote the version has left every earlier session behind.              *)
Quiet      == ~overlap /\ ~blind
Revoked(p) == \A t \in 1..Len(issued) : issued[t].gen < p => issued[t].ver < version
Behind     == \A t \in 1..Len(issued) : issued[t].ver <= version /\ issued[t].gen <= password
Done       == changed <= password /\ Revoked(changed)
Alone(c)   == Critical(c) /\ hs[c].op = "password" => \A d \in Clients \ {c} : ~Critical(d)
Changer(c) == hs[c].op = "password" /\ hs[c].pc \in {"deny", "answer"}
Revokes(c) == /\ Critical(c) => hs[c].pw = password
              /\ At(c, "write") => hs[c].ver = version
              /\ Changer(c) => hs[c].pw <= password /\ Revoked(hs[c].pw)

RevokeInv ==
  /\ version \in Nat /\ changed \in Nat
  /\ up # "serving" => \A c \in Clients : At(c, "idle")
  /\ Quiet => Behind /\ Done /\ \A c \in Clients : Alone(c) /\ Revokes(c)

\* A step of the goroutine c that leaves the passwords, the versions and the tokens alone.
Steps(c) == /\ up = "serving" /\ up' = "serving" /\ UNCHANGED <<version, issued, password>>
            /\ changed' \in Nat
            /\ \A d \in Clients \ {c} : hs'[d] = hs[d]

(* Of such a step what c knows then is left to prove, and that c enters      *)
(* only where it may.                                                        *)
LEMMA StepsRevoke ==
  ASSUME RevokeInv, NEW c \in Clients, Steps(c), Quiet' => Quiet,
         Quiet' => Revokes(c)' /\ Done',
         Quiet' => ~Critical(c)' \/ (Critical(c) /\ hs'[c].op = hs[c].op)
                   \/ \A d \in Clients \ {c} : Critical(d) => "password" \notin {hs'[c].op, hs[d].op}
  PROVE  RevokeInv'
<1>1. \A d \in Clients \ {c} : (Critical(d)' <=> Critical(d)) /\ hs'[d] = hs[d]
  BY DEF Steps, Critical
<1>2. ASSUME Quiet' PROVE Behind' /\ Done' BY <1>2 DEF RevokeInv, Steps, Behind, Revoked
<1>3. ASSUME Quiet', NEW d \in Clients \ {c} PROVE Revokes(d)'
  BY <1>3 DEF RevokeInv, Steps, Revokes, Revoked, Critical, At, Changer
<1>4. ASSUME Quiet', NEW d \in Clients PROVE Alone(d)'
  <2>1. \A a \in Clients : Alone(a) BY <1>4 DEF RevokeInv
  <2>. QED BY <1>1, <1>4, <2>1 DEF Alone
<1>5. version' \in Nat /\ changed' \in Nat /\ up' = "serving"
  BY DEF RevokeInv, Steps
<1>. QED BY <1>2, <1>3, <1>4, <1>5 DEF RevokeInv

(* A step to somewhere that is neither critical nor the end of a change.     *)
LEMMA AsideRevokes ==
  ASSUME RevokeInv, NEW c \in Clients, Steps(c), Quiet' => Quiet, changed' = changed,
         hs'[c].pc \notin {"issue", "update", "read", "write"},
         hs'[c].pc \in {"deny", "answer"} => hs'[c].op # "password"
  PROVE  RevokeInv'
<1>1. ~Critical(c)' /\ Revokes(c)' BY DEF Critical, Revokes, Changer, At
<1>2. Quiet' => Done' BY DEF RevokeInv, Steps, Done, Revoked
<1>. QED BY <1>1, <1>2, StepsRevoke

(* Entering marks every overlap with a password change.                      *)
LEMMA EnterRevokes ==
  ASSUME SessionInv, RevokeInv, NEW c \in Clients, NEW pc \in {"issue", "update"}, Enter(c, pc),
         up = "serving", up' = "serving", hs[c].pw = password,
         UNCHANGED <<version, issued, password, changed, blind>>
  PROVE  RevokeInv'
<1>1. hs[c] \in Work /\ hs \in [Clients -> Work] BY DEF SessionInv, Tables
<1>2. /\ hs'[c] = [hs[c] EXCEPT !.pc = pc] /\ \A d \in Clients \ {c} : hs'[d] = hs[d]
      /\ hs'[c].pc = pc /\ hs'[c].op = hs[c].op /\ hs'[c].pw = hs[c].pw
  BY <1>1 DEF Enter, Go, Work
<1>3. Quiet' => Quiet /\ \A d \in Clients : Critical(d) => "password" \notin {hs[c].op, hs[d].op}
  BY DEF Quiet, Enter
<1>4. Steps(c) BY <1>2 DEF Steps, RevokeInv
<1>5. Quiet' => Revokes(c)' /\ Done'
  BY <1>2, <1>3 DEF RevokeInv, Revokes, Done, Revoked, Critical, Changer, At
<1>. QED BY <1>2, <1>3, <1>4, <1>5, StepsRevoke

(* The steps of a login: the token that is signed carries the version there  *)
(* is, and was opened with the password there is.                            *)
LEMMA LoginRevokes ==
  ASSUME SessionInv, RevokeInv, NEW c \in Clients, up = "serving", up' = "serving",
         \/ \E ip \in IPs, pw \in {0, password} : Login(c, ip, pw)
         \/ LoginRefused(c) \/ LoginAllowed(c) \/ Verify(c) \/ Issue(c)
  PROVE  RevokeInv'
<1>. DEFINE h == hs[c]
<1>0. /\ h \in Work /\ hs \in [Clients -> Work] /\ Idle.pc = "idle" /\ changed \in Nat
      /\ \A d \in Clients : hs[d].op \in Ops
      /\ h.pc = "verify" \/ h.pc = "issue" => h.op = "login"
  BY DEF SessionInv, Tables, Client, At, Work, Idle, RevokeInv
<1>1. ASSUME NEW w, hs' = [hs EXCEPT ![c] = w], w.pc \in {"idle", "allow", "verify"},
             UNCHANGED <<version, issued, password, changed, overlap, blind>>
      PROVE  RevokeInv'
  <2>1. hs'[c] = w /\ \A d \in Clients \ {c} : hs'[d] = hs[d] BY <1>0, <1>1
  <2>2. Steps(c) BY <1>0, <1>1, <2>1 DEF Steps
  <2>. QED BY <1>1, <2>1, <2>2, AsideRevokes DEF Quiet
<1>2. CASE \E ip \in IPs, pw \in {0, password} : Login(c, ip, pw)
  <2>1. PICK pw \in {0, password}, ip \in IPs : Login(c, ip, pw) BY <1>2
  <2>. DEFINE w == [Idle EXCEPT !.op = "login", !.pc = "allow", !.pw = pw]
  <2>2. w.pc = "allow" BY DEF Idle
  <2>3. hs' = [hs EXCEPT ![c] = w] /\ UNCHANGED <<version, issued, password, changed, overlap, blind>>
    BY <2>1 DEF Login
  <2>. HIDE DEF w
  <2>. QED BY <1>1, <2>2, <2>3
<1>3. CASE LoginRefused(c)
  <2>1. hs' = [hs EXCEPT ![c] = Idle] /\ UNCHANGED <<version, issued, password, changed, overlap, blind>>
    BY <1>3 DEF LoginRefused, Leave
  <2>. QED BY <1>0, <1>1, <2>1
<1>4. CASE LoginAllowed(c)
  <2>. DEFINE w == [h EXCEPT !.pc = "verify"]
  <2>1. w.pc = "verify" BY <1>0 DEF Work
  <2>2. hs' = [hs EXCEPT ![c] = w] /\ UNCHANGED <<version, issued, password, changed, overlap, blind>>
    BY <1>0, <1>4 DEF LoginAllowed, Go, Work
  <2>. HIDE DEF w
  <2>. QED BY <1>1, <2>1, <2>2
<1>5. CASE Verify(c)
  <2>1. UNCHANGED <<version, issued, password, changed, blind>> BY <1>5 DEF Verify
  <2>2. CASE Leave(c) /\ UNCHANGED overlap BY <1>0, <1>1, <2>1, <2>2 DEF Leave
  <2>3. CASE h.pw = password /\ Enter(c, "issue") BY <2>1, <2>3, EnterRevokes
  <2>. QED BY <1>5, <2>2, <2>3 DEF Verify
<1>6. CASE Issue(c)
  <2>1. PICK v \in Versions : /\ ReadVersion(v)
                              /\ issued' = Append(issued, [ver |-> v, exp |-> now + TTL, gen |-> h.pw])
    BY <1>6 DEF Issue
  <2>. DEFINE e == [ver |-> v, exp |-> now + TTL, gen |-> h.pw]
              n == Len(issued)
  <2>2. /\ UNCHANGED <<version, password, changed, overlap>> /\ h.pc = "issue" /\ h.op = "login"
        /\ hs' = [hs EXCEPT ![c].pc = "answer", ![c].tok = n + 1, ![c].pw = 0]
    BY <1>0, <1>6 DEF Issue, limVars, At
  <2>3. /\ hs'[c].pc = "answer" /\ hs'[c].op = "login" /\ \A d \in Clients \ {c} : hs'[d] = hs[d]
    BY <1>0, <2>2 DEF Work
  <2>4. n \in Nat /\ Len(issued') = n + 1 /\ issued'[n + 1] = e /\ \A t \in 1..n : issued'[t] = issued[t]
    BY <2>1 DEF SessionInv, Tables
  <2>5. Quiet' => Quiet /\ e.ver = version /\ e.gen = password
    <3>1. Quiet' => Quiet /\ v = version BY <2>1, <2>2 DEF Quiet, ReadVersion
    <3>2. Quiet => h.pw = password BY <2>2 DEF RevokeInv, Revokes, Critical
    <3>. QED BY <3>1, <3>2
  <2>. HIDE DEF e, n
  <2>6. version \in Nat /\ password \in Nat BY DEF RevokeInv, SessionInv, Tables
  <2>7. \A t \in 1..Len(issued') : t = n + 1 \/ t \in 1..n BY <2>4
  <2>8. ASSUME Quiet' PROVE Behind'
    BY <2>2, <2>4, <2>5, <2>6, <2>7, <2>8 DEF RevokeInv, Behind, n
  <2>9. ASSUME Quiet', NEW p, p \in Nat, p <= password, Revoked(p) PROVE Revoked(p)'
    BY <2>2, <2>4, <2>5, <2>6, <2>7, <2>9 DEF Revoked, n
  <2>10. ASSUME Quiet', NEW d \in Clients PROVE Alone(d)' /\ Revokes(d)'
    <3>1. CASE d = c BY <2>3, <3>1 DEF Alone, Revokes, Critical, Changer, At
    <3>2. CASE d # c
      <4>1. hs[d].pw \in Nat /\ Alone(d) /\ Revokes(d)
        BY <2>5, <2>10 DEF SessionInv, Tables, Work, RevokeInv
      <4>2. hs'[d] = hs[d] /\ \A a \in Clients : Critical(a)' => Critical(a)
        BY <2>3, <3>2 DEF Critical
      <4>3. Alone(d)' BY <4>1, <4>2 DEF Alone, Critical
      <4>4. Revokes(d)' BY <2>2, <2>9, <2>10, <4>1, <4>2 DEF Revokes, Changer, Critical, At
      <4>. QED BY <4>3, <4>4
    <3>. QED BY <3>1, <3>2
  <2>11. Quiet' => Done' BY <1>0, <2>2, <2>5, <2>9 DEF RevokeInv, Done
  <2>. QED BY <2>2, <2>5, <2>6, <2>8, <2>10, <2>11 DEF RevokeInv
<1>. QED BY <1>2, <1>3, <1>4, <1>5, <1>6

(* The check in front of a handler, and the first half of a password change: *)
(* the hash, the new hash, and the version that is read.                     *)
LEMMA CheckRevokes ==
  ASSUME SessionInv, RevokeInv, NEW c \in Clients, up = "serving", up' = "serving",
         \/ \E op \in {"other", "logout", "password"}, t \in held, pw \in {0, password} : Come(c, op, t, pw)
         \/ CheckDenylist(c) \/ CheckVersion(c) \/ VerifyCurrent(c)
  PROVE  RevokeInv'
<1>. DEFINE h == hs[c]
<1>0. /\ h \in Work /\ hs \in [Clients -> Work] /\ Idle.pc = "idle" /\ changed \in Nat
  BY DEF SessionInv, Tables, Work, Idle, RevokeInv
<1>1. ASSUME NEW w, hs' = [hs EXCEPT ![c] = w], w.pc \in {"idle", "denylist", "version", "current", "deny"},
             w.pc = "deny" => w.op # "password", Quiet' => Quiet,
             UNCHANGED <<version, issued, password, changed>>
      PROVE  RevokeInv'
  <2>1. hs'[c] = w /\ \A d \in Clients \ {c} : hs'[d] = hs[d] BY <1>0, <1>1
  <2>2. Steps(c) BY <1>0, <1>1, <2>1 DEF Steps
  <2>. QED BY <1>1, <2>1, <2>2, AsideRevokes
<1>2. ASSUME NEW op \in {"other", "logout", "password"}, NEW t \in held, NEW pw \in {0, password},
             Come(c, op, t, pw)
      PROVE  RevokeInv'
  <2>. DEFINE w == [op |-> op, pc |-> "denylist", pw |-> pw, tok |-> t, ver |-> 0, late |-> t \in ended]
  <2>1. w.pc = "denylist" /\ Quiet' = Quiet
        /\ hs' = [hs EXCEPT ![c] = w] /\ UNCHANGED <<version, issued, password, changed>>
    BY <1>2 DEF Come, Quiet
  <2>. HIDE DEF w
  <2>. QED BY <1>1, <2>1
<1>3. CASE CheckDenylist(c)
  <2>. DEFINE w == [h EXCEPT !.pc = "version"]
  <2>1. Quiet' = Quiet /\ UNCHANGED <<version, issued, password, changed>>
    BY <1>3 DEF CheckDenylist, Quiet
  <2>2. hs' = [hs EXCEPT ![c] = w] \/ hs' = [hs EXCEPT ![c] = Idle]
    BY <1>0, <1>3 DEF CheckDenylist, Go, Leave, Work
  <2>3. w.pc = "version" BY <1>0 DEF Work
  <2>. HIDE DEF w
  <2>. QED BY <1>0, <1>1, <2>1, <2>2, <2>3
<1>4. CASE CheckVersion(c)
  <2>. DEFINE w == [h EXCEPT !.pc = First(h.op)]
  <2>1. (Quiet' => Quiet) /\ UNCHANGED <<version, issued, password, changed>>
    BY <1>4 DEF CheckVersion, ReadVersion, Quiet
  <2>2. (First(h.op) # "idle" /\ hs' = [hs EXCEPT ![c] = w]) \/ hs' = [hs EXCEPT ![c] = Idle]
    BY <1>0, <1>4 DEF CheckVersion, Go, Leave, Work
  <2>3. w.pc = First(h.op) /\ w.op = h.op BY <1>0 DEF Work
  <2>4. /\ First(h.op) \in {"deny", "current", "idle"}
        /\ First(h.op) = "deny" => h.op = "logout"
    BY <1>0 DEF First, Work, Ops
  <2>. HIDE DEF w
  <2>. QED BY <1>0, <1>1, <2>1, <2>2, <2>3, <2>4
<1>5. CASE VerifyCurrent(c)
  <2>1. UNCHANGED <<version, issued, password, changed, blind>> BY <1>5 DEF VerifyCurrent
  <2>2. CASE Leave(c) /\ UNCHANGED overlap BY <1>0, <1>1, <2>1, <2>2 DEF Leave, Quiet
  <2>3. CASE h.pw = password /\ Enter(c, "update") BY <2>1, <2>3, EnterRevokes
  <2>. QED BY <1>5, <2>2, <2>3 DEF VerifyCurrent
<1>. QED BY <1>2, <1>3, <1>4, <1>5

(* The rest of a password change. Its UPDATE leaves everyone else outside    *)
(* the critical part, so that the version written is the one read plus one.  *)
LEMMA NextRevokes ==
  ASSUME SessionInv, RevokeInv, NEW c \in Clients, up = "serving", up' = "serving",
         Update(c) \/ ReadNext(c) \/ WriteNext(c)
  PROVE  RevokeInv'
<1>. DEFINE h == hs[c]
<1>0. /\ h \in Work /\ hs \in [Clients -> Work] /\ Idle.pc = "idle" /\ changed \in Nat
      /\ version \in Nat /\ password \in Nat /\ \A d \in Clients : hs[d].pw \in Nat
  BY DEF SessionInv, Tables, Work, Idle, RevokeInv
<1>1. h.op = "password" /\ h.pc \in {"update", "read", "write"} /\ changed' = changed /\ issued' = issued
  BY DEF SessionInv, Client, At, Update, ReadNext, WriteNext
<1>2. Quiet' => Quiet BY DEF Quiet, Update, ReadNext, WriteNext, ReadVersion
<1>3. Quiet => h.pw = password /\ \A d \in Clients \ {c} : ~Critical(d)
  BY <1>1 DEF RevokeInv, Alone, Revokes, Critical
<1>4. ASSUME Leave(c), UNCHANGED <<version, password>> PROVE RevokeInv'
  <2>1. hs'[c] = Idle /\ \A d \in Clients \ {c} : hs'[d] = hs[d] BY <1>0, <1>4 DEF Leave
  <2>2. Steps(c) BY <1>0, <1>1, <1>4, <2>1 DEF Steps
  <2>. QED BY <1>0, <1>1, <1>2, <2>1, <2>2, AsideRevokes
<1>5. CASE Update(c) /\ ~(Leave(c) /\ UNCHANGED <<version, password>>)
  <2>1. /\ password' = password + 1 /\ UNCHANGED version
        /\ hs' = [hs EXCEPT ![c].pc = "read", ![c].pw = password + 1]
    BY <1>5 DEF Update
  <2>2. /\ hs'[c].op = "password" /\ hs'[c].pc = "read" /\ hs'[c].pw = password'
        /\ \A d \in Clients \ {c} : hs'[d] = hs[d]
    BY <1>0, <1>1, <2>1 DEF Work
  <2>3. ASSUME Quiet' PROVE Behind' /\ Done'
    <3>1. \A t \in 1..Len(issued) : issued[t].gen \in Nat
      <4>1. \A t \in 1..Len(issued) : issued[t] \in Signed BY DEF SessionInv, Tables
      <4>. QED BY <4>1 DEF Signed
    <3>. QED BY <1>0, <1>1, <1>2, <2>1, <2>3, <3>1 DEF RevokeInv, Behind, Done, Revoked
  <2>4. ASSUME Quiet', NEW d \in Clients PROVE Alone(d)' /\ Revokes(d)'
    <3>1. \A a \in Clients \ {c} : ~Critical(a)' BY <1>2, <1>3, <2>2, <2>4 DEF Critical
    <3>2. Alone(d)' BY <2>2, <3>1 DEF Alone, Critical
    <3>3. CASE d = c BY <2>2, <3>2, <3>3 DEF Revokes, Changer, At
    <3>4. CASE d # c
      <4>1. Revokes(d) /\ ~Critical(d)' /\ ~At(d, "write")' BY <1>2, <2>4, <3>1, <3>4 DEF RevokeInv, Critical, At
      <4>. QED BY <1>0, <1>1, <2>1, <2>2, <3>2, <3>4, <4>1 DEF Revokes, Changer, Revoked
    <3>. QED BY <3>2, <3>3, <3>4
  <2>. QED BY <1>0, <1>1, <1>2, <2>1, <2>3, <2>4 DEF RevokeInv
<1>6. CASE ReadNext(c)
  <2>1. PICK v \in Versions : ReadVersion(v) /\ hs' = [hs EXCEPT ![c].pc = "write", ![c].ver = v]
    BY <1>6 DEF ReadNext
  <2>2. /\ hs'[c].op = "password" /\ hs'[c].pc = "write" /\ hs'[c].pw = h.pw /\ hs'[c].ver = v
        /\ \A d \in Clients \ {c} : hs'[d] = hs[d]
    BY <1>0, <1>1, <2>1 DEF Work
  <2>3. UNCHANGED <<version, password>> BY <1>6 DEF ReadNext
  <2>4. Quiet' => v = version BY <2>1 DEF ReadVersion, Quiet
  <2>5. Quiet' => Revokes(c)' BY <1>2, <1>3, <2>2, <2>3, <2>4 DEF Revokes, Changer
  <2>6. Quiet' => Done' BY <1>1, <1>2, <2>3 DEF RevokeInv, Done, Revoked
  <2>7. Steps(c) BY <1>0, <1>1, <2>2, <2>3 DEF Steps
  <2>8. Critical(c) /\ hs'[c].op = hs[c].op BY <1>1, <2>2 DEF Critical
  <2>. QED BY <1>2, <2>5, <2>6, <2>7, <2>8, StepsRevoke
<1>7. CASE WriteNext(c) /\ ~(Leave(c) /\ UNCHANGED <<version, password>>)
  <2>1. /\ version' = h.ver + 1 /\ UNCHANGED password /\ h.pc = "write"
        /\ hs' = [hs EXCEPT ![c].pc = "deny", ![c].ver = 0]
    BY <1>7 DEF WriteNext, At
  <2>2. /\ hs'[c].op = "password" /\ hs'[c].pc = "deny" /\ hs'[c].pw = h.pw
        /\ \A d \in Clients \ {c} : hs'[d] = hs[d]
    BY <1>0, <1>1, <2>1 DEF Work
  <2>3. version' \in Nat BY <1>0, <2>1 DEF Work
  <2>4. ASSUME Quiet' PROVE \A t \in 1..Len(issued) : issued[t].ver < version' /\ issued[t].gen <= password
    <3>1. version' = version + 1 BY <1>2, <2>1, <2>4 DEF RevokeInv, Revokes, At
    <3>2. \A t \in 1..Len(issued) : issued[t].ver \in Nat
      <4>1. \A t \in 1..Len(issued) : issued[t] \in Signed BY DEF SessionInv, Tables
      <4>. QED BY <4>1 DEF Signed
    <3>. QED BY <1>0, <1>2, <2>4, <3>1, <3>2 DEF RevokeInv, Behind
  <2>5. ASSUME Quiet' PROVE Behind' /\ Done' /\ \A p : Revoked(p)'
    <3>1. \A t \in 1..Len(issued) : issued[t].ver \in Nat
      <4>1. \A t \in 1..Len(issued) : issued[t] \in Signed BY DEF SessionInv, Tables
      <4>. QED BY <4>1 DEF Signed
    <3>. QED BY <1>0, <1>1, <2>1, <1>2, <2>3, <2>4, <2>5, <3>1 DEF RevokeInv, Behind, Done, Revoked
  <2>6. ASSUME Quiet', NEW d \in Clients PROVE Alone(d)' /\ Revokes(d)'
    <3>1. \A a \in Clients : ~Critical(a)' BY <1>2, <1>3, <2>2, <2>6 DEF Critical
    <3>2. (hs'[d].pc = "deny" \/ hs'[d].pc = "answer") /\ hs'[d].op = "password" => hs'[d].pw <= password
      BY <1>0, <1>2, <1>3, <2>2, <2>6 DEF RevokeInv, Revokes, Changer
    <3>. QED BY <2>1, <2>5, <2>6, <3>1, <3>2 DEF Alone, Revokes, Changer, Critical, At
  <2>. QED BY <1>0, <1>1, <2>1, <2>3, <2>5, <2>6 DEF RevokeInv
<1>. QED BY <1>4, <1>5, <1>6, <1>7

(* The end of a logout or of a password change, and of a login: what a       *)
(* changer reports as changed has left the earlier sessions behind.          *)
LEMMA EndRevokes ==
  ASSUME SessionInv, RevokeInv, NEW c \in Clients, up = "serving", up' = "serving",
         Deny(c) \/ Answer(c)
  PROVE  RevokeInv'
<1>. DEFINE h == hs[c]
<1>0. /\ h \in Work /\ hs \in [Clients -> Work] /\ Idle.pc = "idle" /\ changed \in Nat
      /\ version \in Nat /\ password \in Nat
  BY DEF SessionInv, Tables, Work, Idle, RevokeInv
<1>1. UNCHANGED <<version, issued, password>> /\ Quiet' = Quiet BY DEF Deny, Answer, Quiet
<1>2. CASE Deny(c)
  <2>1. /\ hs'[c].op = h.op /\ hs'[c].pc = "answer" /\ hs'[c].pw = h.pw
        /\ \A d \in Clients \ {c} : hs'[d] = hs[d]
    BY <1>0, <1>2 DEF Deny, Go, Work
  <2>2. h.pc = "deny" /\ changed' = changed BY <1>2 DEF Deny, At
  <2>3. Steps(c) BY <1>0, <1>1, <2>1, <2>2 DEF Steps
  <2>4. Quiet' => Revokes(c)'
    BY <1>1, <2>1, <2>2 DEF RevokeInv, Revokes, Changer, Critical, At, Revoked
  <2>5. Quiet' => Done' BY <1>1, <2>2 DEF RevokeInv, Done, Revoked
  <2>6. ~Critical(c)' BY <2>1 DEF Critical
  <2>. QED BY <1>1, <2>3, <2>4, <2>5, <2>6, StepsRevoke
<1>3. CASE Answer(c)
  <2>1. hs'[c] = Idle /\ \A d \in Clients \ {c} : hs'[d] = hs[d] BY <1>0, <1>3 DEF Answer, Leave
  <2>2. h.pc = "answer" /\ changed' = (IF h.op = "password" /\ h.pw > changed THEN h.pw ELSE changed)
    BY <1>3 DEF Answer, At
  <2>3. Quiet' => Done' BY <1>0, <1>1, <2>2 DEF RevokeInv, Revokes, Changer, Done, Revoked
  <2>4. changed' \in Nat BY <1>0, <2>2 DEF Work
  <2>5. Steps(c) BY <1>0, <1>1, <2>1, <2>4 DEF Steps
  <2>6. ~Critical(c)' /\ Revokes(c)' BY <1>0, <2>1 DEF Critical, Revokes, Changer, At
  <2>. QED BY <1>1, <2>3, <2>5, <2>6, StepsRevoke
<1>. QED BY <1>2, <1>3

(* Every step keeps it: nobody is between two statements while the program   *)
(* starts, and a crash stops whoever was.                                    *)
LEMMA RevokeInvInductive == SessionInv /\ RevokeInv /\ [Next]_consoleVars => RevokeInv'
<1>. SUFFICES ASSUME SessionInv, RevokeInv, [Next]_consoleVars PROVE RevokeInv' OBVIOUS
<1>. DEFINE Same == UNCHANGED <<version, issued, changed, hs, overlap, blind>>
<1>0. password \in Nat BY DEF SessionInv, Tables
<1>1. ASSUME Same, UNCHANGED password, up' # "serving" => up # "serving" PROVE RevokeInv'
  BY <1>1 DEF RevokeInv, Quiet, Behind, Done, Revoked, Alone, Revokes, Critical, Changer, At
<1>2. ASSUME Same, up # "serving", password' \in Nat, password <= password' PROVE RevokeInv'
  <2>1. \A c \in Clients : At(c, "idle")' BY <1>2 DEF RevokeInv, At
  <2>2. \A c \in Clients : ~Critical(c)' /\ ~Changer(c)' /\ ~At(c, "write")'
    BY <2>1 DEF Critical, Changer, At
  <2>3. \A c \in Clients : Alone(c)' /\ Revokes(c)' BY <2>2 DEF Alone, Revokes
  <2>4. \A t \in 1..Len(issued) : issued[t].gen \in Nat
    <3>1. \A t \in 1..Len(issued) : issued[t] \in Signed BY DEF SessionInv, Tables
    <3>. QED BY <3>1 DEF Signed
  <2>5. Quiet' => Behind' /\ Done'
    BY <1>0, <1>2, <2>4 DEF RevokeInv, Quiet, Behind, Done, Revoked
  <2>. QED BY <1>2, <2>1, <2>3, <2>5 DEF RevokeInv
<1>3. CASE UNCHANGED consoleVars BY <1>1, <1>3 DEF consoleVars, startVars, limVars, sessVars
<1>4. CASE Starting
  <2>1. up # "serving" /\ password' \in Nat /\ password <= password'
    BY <1>0, <1>4 DEF Starting, Start, StartStep, CheckApplied, Executing, Execute, Mark, Migrated, EnsureAuth
  <2>. QED BY <1>2, <1>4, <2>1 DEF Starting, sessVars
<1>5. CASE NotStarting
  <2>1. up # "serving" /\ password' = password BY <1>5 DEF NotStarting, StartFails, EnsureAuthRefuses
  <2>. QED BY <1>0, <1>2, <1>5, <2>1 DEF NotStarting, sessVars
<1>6. CASE Listen BY <1>0, <1>2, <1>6 DEF Listen, Prune
<1>7. CASE Pruning BY <1>1, <1>7 DEF Pruning, Prune
<1>8. CASE Ticking BY <1>1, <1>8 DEF Ticking, startVars, sessVars
<1>9. CASE Crash
  <2>1. Idle.pc = "idle" BY DEF Idle
  <2>2. hs' = [c \in Clients |-> Idle] /\ UNCHANGED <<version, issued, password, changed, overlap, blind>>
    BY <1>9 DEF Crash
  <2>3. \A c \in Clients : At(c, "idle")' BY <2>1, <2>2 DEF At
  <2>4. \A c \in Clients : ~Critical(c)' /\ ~Changer(c)' /\ ~At(c, "write")'
    BY <2>3 DEF Critical, Changer, At
  <2>. QED BY <2>2, <2>3, <2>4 DEF RevokeInv, Quiet, Behind, Done, Revoked, Alone, Revokes
<1>10. ASSUME NEW c \in Clients, Serving(c) PROVE RevokeInv'
  BY <1>10, LoginRevokes, CheckRevokes, NextRevokes, EndRevokes DEF Serving, SessionStep
<1>11. ASSUME NEW c \in Clients, Coming(c) PROVE RevokeInv'
  <2>0. up = "serving" /\ up' = "serving" BY <1>11 DEF Coming
  <2>1. CASE \E ip \in IPs, pw \in {0, password} : Login(c, ip, pw) BY <2>0, <2>1, LoginRevokes
  <2>2. CASE \E op \in {"other", "logout"}, t \in held : Come(c, op, t, 0) BY <2>0, <2>2, CheckRevokes
  <2>3. CASE \E t \in held, pw \in {0, password} : Come(c, "password", t, pw) BY <2>0, <2>3, CheckRevokes
  <2>. QED BY <1>11, <2>1, <2>2, <2>3 DEF Coming, Arrival
<1>. QED BY <1>3, <1>4, <1>5, <1>6, <1>7, <1>8, <1>9, <1>10, <1>11 DEF Next

(* README, Security: "password changes revoke all outstanding tokens" holds  *)
(* of handleChangePassword as far as it can: once a change was answered ok,  *)
(* every session opened with an earlier password carries an earlier version, *)
(* whichever changes before it a crash or an error had cut short, if changes *)
(* and logins did not overlap and the version could be read.                 *)
THEOREM ChangeRevokes == Spec => []ChangeRevokesEarlierSessions
<1>1. Init => RevokeInv
  <2>1. Idle.pc = "idle" BY DEF Idle
  <2>. SUFFICES ASSUME Init PROVE RevokeInv OBVIOUS
  <2>2. /\ version = 0 /\ changed = 0 /\ issued = <<>> /\ hs = [c \in Clients |-> Idle] /\ password \in Nat
    BY DEF Init, SessionInit, StartupInit
  <2>3. \A c \in Clients : At(c, "idle") /\ ~Critical(c) /\ ~Changer(c) /\ ~At(c, "write")
    BY <2>1, <2>2 DEF At, Critical, Changer
  <2>. QED BY <2>2, <2>3 DEF RevokeInv, Behind, Done, Revoked, Alone, Revokes
<1>2. SessionInv /\ RevokeInv => ChangeRevokesEarlierSessions
  <2>. SUFFICES ASSUME SessionInv, RevokeInv, ~overlap, ~blind,
                       NEW t \in 1..Len(issued), issued[t].gen < changed
                PROVE  issued[t].ver # version
    BY DEF ChangeRevokesEarlierSessions
  <2>1. issued[t].ver < version BY DEF RevokeInv, Quiet, Done, Revoked
  <2>2. issued[t] \in Signed BY DEF SessionInv, Tables
  <2>3. issued[t].ver \in Nat /\ version \in Nat BY <2>2 DEF Signed, RevokeInv
  <2>. QED BY <2>1, <2>3
<1>. QED BY <1>1, <1>2, InitSession, SessionInvInductive, RevokeInvInductive, PTL DEF Spec
=============================================================================
