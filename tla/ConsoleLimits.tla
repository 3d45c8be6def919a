----------------------------- MODULE ConsoleLimits -----------------------------
(* What stays within its limits, for any number of clients and addresses:    *)
(* the attempts of the login limiter, and every variable of the console.     *)
EXTENDS ConsoleProofs, FiniteSetTheorems

\* The attempts of a second are numbered from 0, so that each counts once.
Numbered(S) == \A a \in S : a.nr < Cardinality({b \in S : b.at = a.at})
Attempts(S) == S \subseteq Attempt /\ IsFiniteSet(S) /\ Numbered(S)

(* Looking back from a later time gives the same, whether or not an earlier  *)
(* look has already dropped what is too old.                                 *)
LEMMA RecentLater ==
  \A S, R : \A t \in Int, u \in Int :
    S \subseteq Attempt /\ R \subseteq Attempt /\ t <= u /\ Recent(S, t) = Recent(R, t)
      => Recent(S, u) = Recent(R, u)
<1>. SUFFICES ASSUME NEW S, NEW R, NEW t \in Int, NEW u \in Int, S \subseteq Attempt, R \subseteq Attempt,
                     t <= u, Recent(S, t) = Recent(R, t)
              PROVE  Recent(S, u) = Recent(R, u)
  OBVIOUS
<1>1. Window \in Int /\ \A a \in S \cup R : a.at \in Int
  BY LimiterAssumption DEF Attempt, Times
<1>2. \A a \in S \cup R : a.at + Window > u => a.at + Window > t BY <1>1
<1>. QED BY <1>2 DEF Recent

(* Recent keeps all the attempts of a second or none.                        *)
LEMMA RecentAttempts ==
  \A S : \A t \in Int : Attempts(S) =>
    Attempts(Recent(S, t)) /\ Recent(S, t) \subseteq S /\ Cardinality(Recent(S, t)) <= Cardinality(S)
<1>. SUFFICES ASSUME NEW S, NEW t \in Int, Attempts(S)
              PROVE  Attempts(Recent(S, t)) /\ Recent(S, t) \subseteq S
                     /\ Cardinality(Recent(S, t)) <= Cardinality(S)
  OBVIOUS
<1>1. Recent(S, t) \subseteq S BY DEF Recent
<1>2. IsFiniteSet(Recent(S, t)) /\ Cardinality(Recent(S, t)) <= Cardinality(S)
  BY <1>1, FS_Subset DEF Attempts
<1>3. \A a \in Recent(S, t) : {b \in Recent(S, t) : b.at = a.at} = {b \in S : b.at = a.at}
  BY DEF Recent
<1>. QED BY <1>1, <1>2, <1>3 DEF Attempts, Numbered

(* Another attempt is one more.                                              *)
LEMMA AnotherCounts ==
  \A S : \A t \in Times : Attempts(S) =>
    Attempts(Another(S, t)) /\ Cardinality(Another(S, t)) = Cardinality(S) + 1
<1>. SUFFICES ASSUME NEW S, NEW t \in Times, Attempts(S)
              PROVE  Attempts(Another(S, t)) /\ Cardinality(Another(S, t)) = Cardinality(S) + 1
  OBVIOUS
<1>. DEFINE T == {a \in S : a.at = t}
            n == Cardinality(T)
            x == [at |-> t, nr |-> n]
<1>1. IsFiniteSet(T) /\ n \in Nat BY FS_Subset, FS_CardinalityType DEF Attempts
<1>2. x \in Attempt /\ x.at = t /\ x.nr = n BY <1>1 DEF Attempt
<1>3. x \notin S BY <1>1, <1>2 DEF Attempts, Numbered
<1>4. Another(S, t) = S \cup {x} BY DEF Another
<1>5. IsFiniteSet(S \cup {x}) /\ Cardinality(S \cup {x}) = Cardinality(S) + 1
  BY <1>3, FS_AddElement DEF Attempts
<1>6. IsFiniteSet(T \cup {x}) /\ Cardinality(T \cup {x}) = n + 1
  BY <1>1, <1>3, FS_AddElement
<1>. HIDE DEF x, n, T
<1>7. ASSUME NEW a \in S \cup {x} PROVE a.nr < Cardinality({b \in S \cup {x} : b.at = a.at})
  <2>1. CASE a.at = t
    <3>1. {b \in S \cup {x} : b.at = a.at} = T \cup {x} BY <1>2, <2>1 DEF T
    <3>2. a.nr \in Int /\ a.nr <= n
      <4>1. CASE a \in S
        <5>1. a.nr \in Int /\ {b \in S : b.at = a.at} = T BY <2>1, <4>1 DEF Attempts, Attempt, T
        <5>. QED BY <1>1, <4>1, <5>1 DEF Attempts, Numbered, n
      <4>2. CASE a = x BY <1>1, <1>2, <4>2
      <4>. QED BY <4>1, <4>2
    <3>. QED BY <1>1, <1>6, <3>1, <3>2
  <2>2. CASE a.at # t
    <3>1. a \in S /\ {b \in S \cup {x} : b.at = a.at} = {b \in S : b.at = a.at} BY <1>2, <2>2
    <3>. QED BY <3>1 DEF Attempts, Numbered
  <2>. QED BY <2>1, <2>2
<1>. QED BY <1>2, <1>4, <1>5, <1>7 DEF Attempts, Numbered

-----------------------------------------------------------------------------
(* The limiter. While calls of Allow do not overlap, at most one is between  *)
(* its read and its write, what it read is still what the address has, and   *)
(* of the recent attempts the map names exactly those Allow said yes to.     *)
Pending(c) == call[c] # NoCall
Same(i, t) == Recent(attempts[i], t) = Recent(admitted[i], t)
Knows(c)   == Pending(c) =>
  /\ call[c].ip \in IPs /\ call[c].at <= now
  /\ \A d \in Clients : Pending(d) => d = c
  /\ call[c].recent = Recent(attempts[call[c].ip], call[c].at)
  /\ Same(call[c].ip, call[c].at)

LimitInv ==
  /\ now \in Times /\ raced \in BOOLEAN /\ call \in [Clients -> Calls]
  /\ attempts \in [IPs -> SUBSET Attempt] /\ admitted \in [IPs -> SUBSET Attempt]
  /\ \A i \in IPs : /\ Attempts(attempts[i]) /\ Attempts(admitted[i])
                    /\ Cardinality(attempts[i]) <= MaxAttempts
  /\ ~raced => (\A i \in IPs : Same(i, now)) /\ \A c \in Clients : Knows(c)

(* An address of which nothing is remembered is within its limit.            *)
LEMMA NoAttempts == Attempts({}) /\ Cardinality({}) <= MaxAttempts
BY FS_EmptySet, LimiterAssumption DEF Attempts, Numbered

(* Allow reads.                                                              *)
LEMMA RecallLimits ==
  ASSUME LimitInv, NEW c \in Clients, NEW ip \in IPs, Recall(c, ip)
  PROVE  LimitInv'
<1>1. PICK found \in IF raced' THEN Anything ELSE {Recent(attempts[ip], now)} :
        call' = [call EXCEPT ![c] = [ip |-> ip, at |-> now, recent |-> found]]
  BY DEF Recall
<1>2. now' = now /\ admitted' = admitted /\ raced' = (raced \/ \E d \in Clients : Pending(d))
  BY DEF Recall, Pending
<1>3. found \subseteq Attempt
  <2>1. CASE raced'
    <3>1. PICK n \in 0..MaxAttempts : found = [at : {now}, nr : 0..(n - 1)]
      BY <1>1, <2>1 DEF Anything
    <3>. QED BY <3>1, LimiterAssumption DEF Attempt, LimitInv
  <2>2. CASE ~raced' BY <1>1, <2>2 DEF Recent, LimitInv
  <2>. QED BY <2>1, <2>2
<1>4. call' \in [Clients -> Calls] BY <1>1, <1>3 DEF LimitInv, Calls
<1>5. CASE raced'
  <2>1. attempts' = [i \in IPs |-> {}] BY <1>5 DEF Recall
  <2>. QED BY <1>2, <1>4, <1>5, <2>1, NoAttempts DEF LimitInv
<1>6. CASE ~raced'
  <2>1. ~raced /\ attempts' = attempts /\ \A d \in Clients : ~Pending(d) BY <1>2, <1>6 DEF Recall
  <2>2. /\ call'[c].ip = ip /\ call'[c].at = now /\ call'[c].recent = Recent(attempts[ip], now)
        /\ \A d \in Clients \ {c} : call'[d] = call[d]
    BY <1>1, <1>6 DEF LimitInv
  <2>3. now <= now BY DEF LimitInv, Times
  <2>4. \A d \in Clients : Knows(d)'
    BY <1>2, <2>1, <2>2, <2>3 DEF LimitInv, Knows, Pending, Same
  <2>. QED BY <1>2, <1>4, <2>1, <2>4 DEF LimitInv, Same
<1>. QED BY <1>5, <1>6

(* Allow writes: the recent attempts, with this one or without.              *)
LEMMA DecideLimits ==
  ASSUME LimitInv, NEW c \in Clients, Admit(c) \/ Refuse(c)
  PROVE  LimitInv'
<1>. DEFINE k == call[c]
<1>0. k \in Calls /\ Pending(c) /\ now \in Int /\ k.at \in Times /\ k.at \in Int
  BY DEF LimitInv, Admit, Refuse, Pending, Calls, Times
<1>1. now' = now /\ raced' = raced /\ call' = [call EXCEPT ![c] = NoCall]
  BY DEF Admit, Refuse, Remember
<1>2. call' \in [Clients -> Calls] BY <1>1, LimiterAssumption DEF LimitInv, Calls, NoCall, Times
<1>3. CASE raced
  <2>1. attempts' = attempts /\ (admitted' = admitted \/ admitted' = [i \in IPs |-> {}])
    BY <1>3 DEF Admit, Refuse, Remember
  <2>. QED BY <1>1, <1>2, <1>3, <2>1, NoAttempts DEF LimitInv
<1>4. CASE ~raced
  <2>1. /\ k.ip \in IPs /\ k.at <= now /\ k.recent = Recent(attempts[k.ip], k.at)
        /\ Recent(admitted[k.ip], k.at) = k.recent /\ Attempts(attempts[k.ip]) /\ Attempts(admitted[k.ip])
        /\ Cardinality(attempts[k.ip]) <= MaxAttempts
    BY <1>0, <1>4 DEF LimitInv, Knows, Same
  <2>2. Attempts(k.recent) /\ Cardinality(k.recent) <= Cardinality(attempts[k.ip])
    BY <1>0, <2>1, RecentAttempts
  <2>3. PICK s, r : /\ attempts' = [attempts EXCEPT ![k.ip] = s] /\ admitted' = [admitted EXCEPT ![k.ip] = r]
                    /\ Attempts(s) /\ Attempts(r) /\ Cardinality(s) <= MaxAttempts
                    /\ Recent(s, k.at) = Recent(r, k.at)
    <3>1. CASE Admit(c)
      <4>. DEFINE s == Another(k.recent, k.at)
      <4>1. /\ attempts' = [attempts EXCEPT ![k.ip] = s] /\ admitted' = [admitted EXCEPT ![k.ip] = s]
            /\ Cardinality(k.recent) < MaxAttempts
        BY <1>4, <2>1, <3>1 DEF Admit, Remember, LimitInv
      <4>2. Attempts(s) /\ Cardinality(s) = Cardinality(k.recent) + 1 BY <1>0, <2>2, AnotherCounts
      <4>3. Cardinality(k.recent) \in Nat BY <2>2, FS_CardinalityType DEF Attempts
      <4>4. Cardinality(s) <= MaxAttempts BY <4>1, <4>2, <4>3, LimiterAssumption
      <4>. HIDE DEF s
      <4>. QED BY <4>1, <4>2, <4>4
    <3>2. CASE Refuse(c)
      <4>1. attempts' = [attempts EXCEPT ![k.ip] = k.recent] /\ admitted' = [admitted EXCEPT ![k.ip] = @]
        BY <1>4, <3>2 DEF Refuse, Remember, LimitInv
      <4>2. Recent(k.recent, k.at) = Recent(admitted[k.ip], k.at) BY <2>1 DEF Recent
      <4>3. Cardinality(k.recent) \in Nat /\ Cardinality(attempts[k.ip]) \in Nat
        BY <2>1, <2>2, FS_CardinalityType DEF Attempts
      <4>4. Cardinality(k.recent) <= MaxAttempts BY <2>1, <2>2, <4>3, LimiterAssumption
      <4>. QED BY <2>1, <2>2, <4>1, <4>2, <4>4
    <3>. QED BY <3>1, <3>2
  <2>4. Recent(s, now) = Recent(r, now) BY <1>0, <2>1, <2>3, RecentLater DEF Attempts
  <2>5. \A d \in Clients : ~Pending(d)' BY <1>0, <1>1, <1>4 DEF LimitInv, Knows, Pending
  <2>6. /\ attempts'[k.ip] = s /\ admitted'[k.ip] = r
        /\ \A i \in IPs \ {k.ip} : attempts'[i] = attempts[i] /\ admitted'[i] = admitted[i]
    BY <2>1, <2>3 DEF LimitInv
  <2>7. attempts' \in [IPs -> SUBSET Attempt] /\ admitted' \in [IPs -> SUBSET Attempt]
    BY <2>3 DEF LimitInv, Attempts
  <2>8. \A i \in IPs : /\ Attempts(attempts'[i]) /\ Attempts(admitted'[i])
                       /\ Cardinality(attempts'[i]) <= MaxAttempts
    BY <2>3, <2>6 DEF LimitInv
  <2>9. \A i \in IPs : Same(i, now)' BY <1>1, <1>4, <2>4, <2>6 DEF LimitInv, Same
  <2>. QED BY <1>1, <1>2, <2>5, <2>7, <2>8, <2>9 DEF LimitInv, Knows
<1>. QED BY <1>3, <1>4

(* The steps that leave the limiter alone, the clock, and the end of the     *)
(* process.                                                                  *)
LEMMA LimitInvInductive == LimitInv /\ [Next]_consoleVars => LimitInv'
<1>. SUFFICES ASSUME LimitInv, [Next]_consoleVars PROVE LimitInv' OBVIOUS
<1>1. ASSUME UNCHANGED limVars PROVE LimitInv'
  BY <1>1 DEF limVars, LimitInv, Same, Knows, Pending
<1>2. CASE UNCHANGED consoleVars BY <1>1, <1>2 DEF consoleVars
<1>3. CASE Starting \/ NotStarting BY <1>1, <1>3 DEF Starting, NotStarting
<1>4. CASE Listen \/ Pruning BY <1>1, <1>4 DEF Listen, Pruning, Prune
<1>5. CASE Crash
  <2>1. /\ attempts' = [i \in IPs |-> {}] /\ admitted' = [i \in IPs |-> {}] /\ now' = now
        /\ call' = [c \in Clients |-> NoCall] /\ raced' = FALSE
    BY <1>5 DEF Crash, Forgotten
  <2>2. NoCall \in Calls BY LimiterAssumption DEF NoCall, Calls, Times
  <2>3. \A i \in IPs : attempts'[i] = {} /\ admitted'[i] = {} BY <2>1
  <2>4. \A c \in Clients : Knows(c)' BY <2>1 DEF Knows, Pending
  <2>. QED BY <2>1, <2>2, <2>3, <2>4, NoAttempts DEF LimitInv, Same
<1>6. CASE Ticking
  <2>1. /\ now \in Int /\ now' \in Times /\ now' \in Int /\ now' = now + 1
        /\ UNCHANGED <<attempts, call, raced, admitted>>
    BY <1>6, LimiterAssumption DEF Ticking, Tick, LimitInv, Times
  <2>2. now <= now' BY <2>1
  <2>3. ~raced => \A i \in IPs : Recent(attempts[i], now') = Recent(admitted[i], now')
    BY <2>1, <2>2, RecentLater DEF LimitInv, Same
  <2>4. ASSUME ~raced, NEW c \in Clients PROVE Knows(c)'
    <3>1. Pending(c) => call[c].at \in Int BY DEF LimitInv, Calls, Times
    <3>. QED BY <2>1, <2>4, <3>1 DEF LimitInv, Knows, Pending, Same
  <2>. QED BY <2>1, <2>3, <2>4 DEF LimitInv, Same
<1>7. ASSUME NEW c \in Clients, Serving(c) PROVE LimitInv'
  <2>1. CASE LoginRefused(c) \/ LoginAllowed(c) BY <2>1, DecideLimits DEF LoginRefused, LoginAllowed
  <2>2. CASE Verify(c) \/ Issue(c) \/ CheckDenylist(c) \/ CheckVersion(c) \/ VerifyCurrent(c) \/ Update(c)
    BY <1>1, <2>2 DEF Verify, Issue, CheckDenylist, CheckVersion, VerifyCurrent, Update
  <2>3. CASE ReadNext(c) \/ WriteNext(c) \/ Deny(c) \/ Answer(c)
    BY <1>1, <2>3 DEF ReadNext, WriteNext, Deny, Answer
  <2>. QED BY <1>7, <2>1, <2>2, <2>3 DEF Serving, SessionStep
<1>8. ASSUME NEW c \in Clients, Coming(c) PROVE LimitInv'
  <2>1. CASE \E ip \in IPs, pw \in {0, password} : Login(c, ip, pw)
    BY <2>1, RecallLimits DEF Login
  <2>2. ASSUME NEW op, NEW t, NEW pw, Come(c, op, t, pw) PROVE LimitInv' BY <1>1, <2>2 DEF Come
  <2>. QED BY <1>8, <2>1, <2>2 DEF Coming, Arrival
<1>. QED BY <1>2, <1>3, <1>4, <1>5, <1>6, <1>7, <1>8 DEF Next

(* At first nothing is remembered.                                           *)
LEMMA InitLimits == Init => LimitInv
<1>. SUFFICES ASSUME Init PROVE LimitInv OBVIOUS
<1>1. /\ now = 0 /\ attempts = [i \in IPs |-> {}] /\ admitted = [i \in IPs |-> {}]
      /\ call = [c \in Clients |-> NoCall] /\ raced = FALSE
  BY DEF Init, LimiterInit
<1>2. NoCall \in Calls /\ 0 \in Times BY LimiterAssumption DEF NoCall, Calls, Times
<1>3. \A i \in IPs : attempts[i] = {} /\ admitted[i] = {} BY <1>1
<1>4. \A c \in Clients : Knows(c) BY <1>1 DEF Knows, Pending
<1>. QED BY <1>1, <1>2, <1>3, <1>4, NoAttempts DEF LimitInv, Same

(* Login rate limiting: while no two calls of Allow overlap, no address gets *)
(* more than MaxAttempts attempts within any window, whatever is refused,    *)
(* pruned or forgotten in between.                                           *)
THEOREM LoginsAreLimited == Spec => []AttemptsAreLimited
<1>1. LimitInv => AttemptsAreLimited
  <2>. SUFFICES ASSUME LimitInv, ~raced, NEW i \in IPs
                PROVE  Cardinality(Recent(admitted[i], now)) <= MaxAttempts
    BY DEF AttemptsAreLimited
  <2>1. Recent(admitted[i], now) = Recent(attempts[i], now) BY DEF LimitInv, Same
  <2>2. Attempts(attempts[i]) /\ Cardinality(attempts[i]) <= MaxAttempts /\ now \in Int
    BY DEF LimitInv, Times
  <2>3. Attempts(Recent(attempts[i], now))
        /\ Cardinality(Recent(attempts[i], now)) <= Cardinality(attempts[i])
    BY <2>2, RecentAttempts
  <2>4. Cardinality(Recent(attempts[i], now)) \in Nat /\ Cardinality(attempts[i]) \in Nat
    BY <2>2, <2>3, FS_CardinalityType DEF Attempts
  <2>. QED BY <2>1, <2>2, <2>3, <2>4, LimiterAssumption
<1>. QED BY <1>1, InitLimits, LimitInvInductive, PTL DEF Spec

(* ... and an address is refused only after that many logins were admitted   *)
(* within the window: attempts that are refused do not count.                *)
THEOREM RefusalsEarned == Spec => RefusalsAreEarned
<1>. DEFINE Fair == \A c \in Clients :
              /\ hs[c].pc = "allow" /\ hs'[c].pc = "idle" /\ up' = "serving" /\ ~raced
              => Cardinality(Recent(admitted[call[c].ip], call[c].at)) >= MaxAttempts
<1>1. SessionInv /\ LimitInv /\ [Next]_consoleVars => Fair
  <2>. SUFFICES ASSUME SessionInv, LimitInv, [Next]_consoleVars, NEW c \in Clients,
                       hs[c].pc = "allow", hs'[c].pc = "idle", up' = "serving", ~raced
                PROVE  Cardinality(Recent(admitted[call[c].ip], call[c].at)) >= MaxAttempts
    OBVIOUS
  <2>0. hs \in [Clients -> Work] /\ hs[c].pc = "allow" /\ hs'[c].pc = "idle" /\ hs' # hs
    BY DEF SessionInv, Tables
  <2>1. CASE LoginRefused(c)
    <3>1. Pending(c) /\ Cardinality(call[c].recent) >= MaxAttempts
      BY <2>1 DEF LoginRefused, Refuse, Pending
    <3>2. call[c].recent = Recent(admitted[call[c].ip], call[c].at)
      BY <3>1 DEF LimitInv, Knows, Same
    <3>. QED BY <3>1, <3>2
  <2>2. ASSUME NEW d \in Clients, Serving(d) \/ Coming(d), ~LoginRefused(c) PROVE FALSE
    <3>1. CASE d # c
      <4>1. ASSUME NEW w, hs' = [hs EXCEPT ![d] = w] PROVE FALSE BY <2>0, <3>1, <4>1
      <4>2. CASE Serving(d)
        BY <2>0, <3>1, <4>1, <4>2 DEF Serving, SessionStep, LoginRefused, LoginAllowed, Verify, Issue,
             CheckDenylist, CheckVersion, VerifyCurrent, Update, ReadNext, WriteNext, Deny, Answer,
             Enter, Go, Leave
      <4>3. CASE Coming(d) BY <2>0, <3>1, <4>3 DEF Coming, Arrival, Login, Come
      <4>. QED BY <2>2, <4>2, <4>3
    <3>2. CASE d = c
      <4>1. LoginAllowed(c)
        BY <2>0, <2>2, <3>2 DEF Serving, Coming, Arrival, Login, Come, SessionStep, At, Verify, Issue,
             CheckDenylist, CheckVersion, VerifyCurrent, Update, ReadNext, WriteNext, Deny, Answer
      <4>. QED BY <2>0, <4>1 DEF LoginAllowed, Go, Work
    <3>. QED BY <3>1, <3>2
  <2>3. CASE UNCHANGED consoleVars BY <2>0, <2>3 DEF consoleVars, sessVars
  <2>4. CASE Starting \/ NotStarting \/ Ticking
    BY <2>0, <2>4 DEF Starting, NotStarting, Ticking, sessVars
  <2>5. CASE Listen \/ Pruning BY <2>0, <2>5 DEF Listen, Pruning, Prune
  <2>6. CASE Crash BY <2>6 DEF Crash
  <2>. QED BY <2>1, <2>2, <2>3, <2>4, <2>5, <2>6 DEF Next
<1>. QED BY <1>1, InitSession, SessionInvInductive, InitLimits, LimitInvInductive, PTL
     DEF Spec, RefusalsAreEarned

-----------------------------------------------------------------------------
(* The bounds. A login reserves the token it may sign, a password change the *)
(* password it may set, and each version that is written stands for a        *)
(* password that was set before: the version never overtakes the password.   *)
Logs(h)    == h.pc \in {"allow", "verify", "issue"}
Changes(h) == h.op = "password" /\ h.pc \in {"denylist", "version", "current", "update"}
Writes(h)  == h.pc \in {"read", "write"}
LoggingIn  == {c \in Clients : Logs(hs[c])}
Changing   == {c \in Clients : Changes(hs[c])}
Writing    == {c \in Clients : Writes(hs[c])}

Budgets ==
  /\ Len(issued) + Cardinality(LoggingIn) <= MaxTokens
  /\ password + Cardinality(Changing) <= MaxPasswords
  /\ version + Cardinality(Writing) <= password

Jobs == [op : {"none", "login", "logout", "password", "other"},
         pc : {"idle", "allow", "verify", "issue", "denylist", "version", "current", "update",
               "read", "write", "deny", "answer"},
         pw : 0..MaxPasswords, tok : Tokens \cup {0}, ver : Versions, late : BOOLEAN]

\* What a goroutine works on is there: its password, its token, a handler for its operation.
Sound(h) ==
  /\ h.pw <= password /\ (h.pc = "issue" => h.pw >= 1)
  /\ h.tok # 0 /\ h.op # "login" => h.tok \in held
  /\ h.pc = "answer" => h.op \in {"login", "logout", "password"}
  /\ h.pc = "deny" => h.op \in {"logout", "password"}
  /\ h.pc = "write" => h.ver + Cardinality(Writing) <= password

TypeInv ==
  /\ up \in {"down", "migrate", "auth", "prune", "serving"}
  /\ stage \in (Files \cup {Len(Migrations) + 1}) \X (0..4)
  /\ rows \in 0..MaxRows /\ total \in 0..MaxRows /\ password \in Nat
  /\ faults \in 0..MaxFaults /\ crashes \in 0..MaxCrashes
  /\ up \in {"prune", "serving"} => password >= 1
  /\ up # "serving" => \A c \in Clients : hs[c] = Idle
  /\ SessionTypeOK /\ Budgets /\ \A c \in Clients : Sound(hs[c])

(* When one client joins a set, leaves it or neither, it grows by one,       *)
(* shrinks by one or stays as large.                                         *)
LEMMA OneMoves ==
  \A S, T : \A c \in Clients :
    S \subseteq Clients /\ T \subseteq Clients /\ (\A d \in Clients \ {c} : d \in S <=> d \in T)
    => /\ Cardinality(S) \in Nat /\ Cardinality(T) \in Nat
       /\ Cardinality(T) + (IF c \in S THEN 1 ELSE 0) = Cardinality(S) + (IF c \in T THEN 1 ELSE 0)
<1>. SUFFICES ASSUME NEW S, NEW T, NEW c \in Clients, S \subseteq Clients, T \subseteq Clients,
                     \A d \in Clients \ {c} : d \in S <=> d \in T
              PROVE  /\ Cardinality(S) \in Nat /\ Cardinality(T) \in Nat
                     /\ Cardinality(T) + (IF c \in S THEN 1 ELSE 0)
                        = Cardinality(S) + (IF c \in T THEN 1 ELSE 0)
  OBVIOUS
<1>1. IsFiniteSet(S) /\ IsFiniteSet(T) BY FS_Subset, LimiterAssumption
<1>2. Cardinality(S) \in Nat /\ Cardinality(T) \in Nat BY <1>1, FS_CardinalityType
<1>3. CASE c \in S <=> c \in T
  <2>1. S = T BY <1>3
  <2>. QED BY <1>2, <1>3, <2>1
<1>4. CASE c \in S /\ c \notin T
  <2>1. S = T \cup {c} BY <1>4
  <2>2. Cardinality(S) = Cardinality(T) + 1 BY <1>1, <1>4, <2>1, FS_AddElement
  <2>. QED BY <1>2, <1>4, <2>2
<1>5. CASE c \notin S /\ c \in T
  <2>1. T = S \cup {c} BY <1>5
  <2>2. Cardinality(T) = Cardinality(S) + 1 BY <1>1, <1>5, <2>1, FS_AddElement
  <2>. QED BY <1>2, <1>5, <2>2
<1>. QED BY <1>3, <1>4, <1>5

\* The goroutine c does w next.
Becomes(c, w) == /\ hs \in [Clients -> Work] /\ hs' = [hs EXCEPT ![c] = w]

(* ... and what is reserved changes by what c had and what c has.            *)
LEMMA Reserved ==
  ASSUME NEW c \in Clients, NEW w, Becomes(c, w)
  PROVE  /\ Cardinality(LoggingIn) \in Nat /\ Cardinality(LoggingIn') \in Nat
         /\ Cardinality(Changing) \in Nat /\ Cardinality(Changing') \in Nat
         /\ Cardinality(Writing) \in Nat /\ Cardinality(Writing') \in Nat
         /\ Cardinality(LoggingIn') + (IF Logs(hs[c]) THEN 1 ELSE 0)
            = Cardinality(LoggingIn) + (IF Logs(w) THEN 1 ELSE 0)
         /\ Cardinality(Changing') + (IF Changes(hs[c]) THEN 1 ELSE 0)
            = Cardinality(Changing) + (IF Changes(w) THEN 1 ELSE 0)
         /\ Cardinality(Writing') + (IF Writes(hs[c]) THEN 1 ELSE 0)
            = Cardinality(Writing) + (IF Writes(w) THEN 1 ELSE 0)
<1>1. hs'[c] = w /\ \A d \in Clients \ {c} : hs'[d] = hs[d] BY DEF Becomes
<1>2. /\ LoggingIn \subseteq Clients /\ LoggingIn' \subseteq Clients
      /\ c \in LoggingIn <=> Logs(hs[c])
      /\ c \in LoggingIn' <=> Logs(w)
      /\ \A d \in Clients \ {c} : d \in LoggingIn <=> d \in LoggingIn'
  BY <1>1 DEF LoggingIn
<1>3. /\ Changing \subseteq Clients /\ Changing' \subseteq Clients
      /\ c \in Changing <=> Changes(hs[c])
      /\ c \in Changing' <=> Changes(w)
      /\ \A d \in Clients \ {c} : d \in Changing <=> d \in Changing'
  BY <1>1 DEF Changing
<1>4. /\ Writing \subseteq Clients /\ Writing' \subseteq Clients
      /\ c \in Writing <=> Writes(hs[c])
      /\ c \in Writing' <=> Writes(w)
      /\ \A d \in Clients \ {c} : d \in Writing <=> d \in Writing'
  BY <1>1 DEF Writing
<1>5. /\ Cardinality(LoggingIn) \in Nat /\ Cardinality(LoggingIn') \in Nat
      /\ Cardinality(LoggingIn') + (IF Logs(hs[c]) THEN 1 ELSE 0)
         = Cardinality(LoggingIn) + (IF Logs(w) THEN 1 ELSE 0)
  BY <1>2, OneMoves
<1>6. /\ Cardinality(Changing) \in Nat /\ Cardinality(Changing') \in Nat
      /\ Cardinality(Changing') + (IF Changes(hs[c]) THEN 1 ELSE 0)
         = Cardinality(Changing) + (IF Changes(w) THEN 1 ELSE 0)
  BY <1>3, OneMoves
<1>7. /\ Cardinality(Writing) \in Nat /\ Cardinality(Writing') \in Nat
      /\ Cardinality(Writing') + (IF Writes(hs[c]) THEN 1 ELSE 0)
         = Cardinality(Writing) + (IF Writes(w) THEN 1 ELSE 0)
  BY <1>4, OneMoves
<1>. QED BY <1>5, <1>6, <1>7

(* The logins and the changes under way are among the busy clients.          *)
LEMMA BusyBounds ==
  ASSUME SessionInv
  PROVE  /\ Cardinality(LoggingIn) <= Busy("login") /\ Cardinality(Changing) <= Busy("password")
         /\ Busy("login") \in Nat /\ Busy("password") \in Nat
<1>1. LoggingIn \subseteq {d \in Clients : hs[d].op = "login"}
  BY DEF SessionInv, Client, At, LoggingIn, Logs
<1>2. Changing \subseteq {d \in Clients : hs[d].op = "password"} BY DEF Changing, Changes
<1>3. \A op : IsFiniteSet({d \in Clients : hs[d].op = op}) BY FS_Subset, LimiterAssumption
<1>. QED BY <1>1, <1>2, <1>3, FS_Subset, FS_CardinalityType DEF Busy

\* The frame of a step of a goroutine.
Framed == /\ up = "serving" /\ up' = "serving" /\ UNCHANGED <<stage, rows, total, crashes>>
          /\ faults' \in 0..MaxFaults /\ held \subseteq held'

(* In such a step the others stay sound, if passwords are set at least as    *)
(* fast as versions come to be written.                                      *)
LEMMA StepBounds ==
  ASSUME TypeInv, NEW c \in Clients, NEW w, Becomes(c, w), Framed, SessionTypeOK', Budgets',
         Sound(w)', password' \in Nat, password <= password',
         Cardinality(Writing') + password <= Cardinality(Writing) + password'
  PROVE  TypeInv'
<1>1. hs'[c] = w /\ \A d \in Clients \ {c} : hs'[d] = hs[d] BY DEF Becomes
<1>2. ASSUME NEW d \in Clients PROVE Sound(hs[d])'
  <2>1. CASE d = c BY <1>1, <2>1 DEF Sound
  <2>2. CASE d # c
    <3>1. hs'[d] = hs[d] /\ Sound(hs[d]) BY <1>1, <2>2 DEF TypeInv
    <3>2. hs[d].pw \in Int /\ hs[d].ver \in Int
      <4>1. hs[d] \in Jobs BY DEF TypeInv, SessionTypeOK, Jobs
      <4>. QED BY <4>1, StartupAssumption DEF Jobs, Versions
    <3>3. password \in Nat /\ Cardinality(Writing) \in Nat /\ Cardinality(Writing') \in Nat
      BY Reserved DEF TypeInv
    <3>. QED BY <3>1, <3>2, <3>3 DEF Sound, Framed
  <2>. QED BY <2>1, <2>2
<1>3. password' >= 1 BY DEF TypeInv, Framed
<1>. QED BY <1>2, <1>3 DEF TypeInv, Framed

\* What of a session is neither a password, nor a version, nor a token.
Kept == /\ UNCHANGED <<password, version, issued>> /\ denied' \subseteq Tokens /\ audit' \subseteq Rows
        /\ held' \subseteq Tokens /\ ended' \subseteq held' /\ changed' \in 0..MaxPasswords
        /\ overlap' \in BOOLEAN /\ blind' \in BOOLEAN

(* Most steps only move a goroutine on; it reserves a token or a password    *)
(* only when it arrives, and only if there is one.                           *)
LEMMA ClientBounds ==
  ASSUME TypeInv, SessionInv, NEW c \in Clients, NEW w \in Jobs, Becomes(c, w), Framed, Kept, Sound(w)',
         Logs(w) => Logs(hs[c]) \/ Len(issued) + Busy("login") < MaxTokens,
         Changes(w) => Changes(hs[c]) \/ password + Busy("password") < MaxPasswords,
         Writes(w) => Writes(hs[c])
  PROVE  TypeInv'
<1>0. /\ Len(issued) \in Nat /\ password \in Nat /\ version \in Nat /\ MaxTokens \in Nat /\ MaxPasswords \in Nat
      /\ Budgets /\ SessionTypeOK
  BY SessionAssumption, StartupAssumption DEF TypeInv, SessionTypeOK, Versions, SessionInv, Tables
<1>1. SessionTypeOK'
  <2>1. hs' \in [Clients -> Jobs] BY <1>0 DEF SessionTypeOK, Becomes, Jobs
  <2>. QED BY <1>0, <2>1 DEF SessionTypeOK, Kept, Jobs
<1>2. Cardinality(Writing') <= Cardinality(Writing) BY Reserved
<1>3. Len(issued) + Cardinality(LoggingIn') <= MaxTokens
  <2>1. CASE Logs(w) => Logs(hs[c]) BY <1>0, <2>1, Reserved DEF Budgets
  <2>2. CASE Len(issued) + Busy("login") < MaxTokens BY <1>0, <2>2, Reserved, BusyBounds
  <2>. QED BY <2>1, <2>2
<1>4. password + Cardinality(Changing') <= MaxPasswords
  <2>1. CASE Changes(w) => Changes(hs[c]) BY <1>0, <2>1, Reserved DEF Budgets
  <2>2. CASE password + Busy("password") < MaxPasswords BY <1>0, <2>2, Reserved, BusyBounds
  <2>. QED BY <2>1, <2>2
<1>5. Budgets' BY <1>0, <1>2, <1>3, <1>4, Reserved DEF Budgets, Kept
<1>. QED BY <1>0, <1>1, <1>2, <1>5, Reserved, StepBounds DEF Kept

(* A step fails, at most as often as the bound allows, or nothing does.      *)
LEMMA FaultBounds == ASSUME TypeInv, Fault \/ UNCHANGED faults PROVE faults' \in 0..MaxFaults
BY StartupAssumption DEF TypeInv, Fault

\* What there is when the goroutine c begins a step.
Begins(c) == /\ TypeInv /\ SessionInv /\ up = "serving" /\ up' = "serving"
             /\ UNCHANGED <<stage, rows, total, crashes>>

LEMMA WhatThereIs ==
  ASSUME NEW c \in Clients, Begins(c)
  PROVE  /\ hs \in [Clients -> Work] /\ hs[c] \in Work /\ hs[c] \in Jobs /\ Sound(hs[c]) /\ Client(c)
         /\ password \in Nat /\ password >= 1 /\ password <= MaxPasswords
         /\ Len(issued) \in Nat /\ held \subseteq Tokens /\ version \in Nat
         /\ Cardinality(Writing) \in Nat /\ version + Cardinality(Writing) <= password
         /\ MaxPasswords \in Nat
<1>1. hs \in [Clients -> Work] /\ hs \in [Clients -> Jobs]
  BY DEF Begins, TypeInv, SessionInv, Tables, SessionTypeOK, Jobs
<1>3. IsFiniteSet(Writing) /\ IsFiniteSet(Changing) BY FS_Subset, LimiterAssumption DEF Writing, Changing
<1>4. Cardinality(Writing) \in Nat /\ Cardinality(Changing) \in Nat BY <1>3, FS_CardinalityType
<1>5. version \in Nat /\ password \in Nat /\ password + Cardinality(Changing) <= MaxPasswords
  BY StartupAssumption DEF Begins, TypeInv, SessionTypeOK, Versions, Budgets
<1>. QED BY <1>1, <1>4, <1>5, StartupAssumption
     DEF Begins, TypeInv, SessionInv, Tables, SessionTypeOK, Budgets

(* Leaving reserves nothing, whatever else is kept.                          *)
LEMMA LeaveBounds ==
  ASSUME NEW c \in Clients, Begins(c), Framed, Kept, Leave(c)
  PROVE  TypeInv'
<1>1. Idle \in Jobs /\ Idle.pc = "idle" /\ Idle.pw = 0 /\ Idle.tok = 0 /\ Idle.op = "none"
  BY StartupAssumption DEF Idle, Jobs, Versions
<1>2. Becomes(c, Idle) BY WhatThereIs DEF Leave, Becomes
<1>3. password' \in Nat BY WhatThereIs DEF Kept
<1>4. ~Logs(Idle) /\ ~Changes(Idle) /\ ~Writes(Idle) /\ Sound(Idle)'
  <2>. HIDE DEF Idle
  <2>. QED BY <1>1, <1>3 DEF Logs, Changes, Writes, Sound
<1>. QED BY <1>1, <1>2, <1>4, ClientBounds DEF Begins

(* Going on to the next part of the same operation.                          *)
LEMMA GoBounds ==
  ASSUME NEW c \in Clients, Begins(c), Framed, Kept,
         NEW pc \in {"verify", "issue", "version", "current", "deny", "update"}, Go(c, pc),
         pc \in {"verify", "issue"} => Logs(hs[c]),
         pc \in {"version", "current", "update"} => hs[c].pc \in {"denylist", "version", "current"},
         pc = "issue" => hs[c].pw >= 1,
         pc = "deny" => hs[c].op = "logout"
  PROVE  TypeInv'
<1>. DEFINE h == hs[c]
<1>. PICK w : w = [h EXCEPT !.pc = pc] OBVIOUS
<1>0. h \in Jobs /\ h \in Work /\ Sound(h) /\ hs \in [Clients -> Work] BY WhatThereIs
<1>1. w \in Jobs /\ w.pc = pc /\ w.op = h.op /\ w.pw = h.pw /\ w.tok = h.tok BY <1>0 DEF Jobs
<1>2. Becomes(c, w) BY <1>0 DEF Go, Becomes, Work
<1>3. Logs(w) => Logs(h) BY <1>1 DEF Logs
<1>4. Changes(w) => Changes(h) BY <1>1 DEF Changes
<1>5. ~Writes(w) BY <1>1 DEF Writes
<1>6. Sound(w)' BY <1>0, <1>1 DEF Sound, Kept, Framed
<1>. QED BY <1>1, <1>2, <1>3, <1>4, <1>5, <1>6, ClientBounds DEF Begins

(* A login: the token it reserved when it came is the one it signs.          *)
LEMMA LoginBounds ==
  ASSUME NEW c \in Clients, Begins(c), faults' \in 0..MaxFaults,
         \/ /\ Len(issued) + Busy("login") < MaxTokens
            /\ \E ip \in IPs, pw \in {0, password} : Login(c, ip, pw)
         \/ LoginRefused(c) \/ LoginAllowed(c) \/ Verify(c) \/ Issue(c)
  PROVE  TypeInv'
<1>. DEFINE h == hs[c]
<1>0. /\ h \in Work /\ h \in Jobs /\ password \in Nat /\ hs \in [Clients -> Work] /\ Sound(h)
      /\ password >= 1 /\ password <= MaxPasswords /\ MaxPasswords \in Nat /\ SessionTypeOK
  BY WhatThereIs DEF Begins, TypeInv
<1>1. ASSUME UNCHANGED <<version, denied, audit, issued, held, ended, changed, password>>,
             overlap' \in BOOLEAN, blind' \in BOOLEAN
      PROVE  Framed /\ Kept
  BY <1>0, <1>1 DEF Framed, Kept, Begins, SessionTypeOK
<1>2. ASSUME NEW ip \in IPs, NEW pw \in {0, password}, Login(c, ip, pw),
             Len(issued) + Busy("login") < MaxTokens
      PROVE  TypeInv'
  <2>. PICK w : w = [Idle EXCEPT !.op = "login", !.pc = "allow", !.pw = pw] OBVIOUS
  <2>1. pw \in 0..MaxPasswords /\ pw <= password BY <1>0
  <2>2. w \in Jobs /\ w.pc = "allow" /\ w.op = "login" /\ w.pw = pw /\ w.tok = 0
    <3>1. Idle \in Jobs /\ Idle.tok = 0 BY StartupAssumption DEF Idle, Jobs, Versions
    <3>2. "login" \in Ops /\ "allow" \in Pcs BY DEF Ops, Pcs
    <3>. QED BY <2>1, <3>1, <3>2 DEF Jobs, Ops, Pcs
  <2>3. Becomes(c, w) BY <1>0, <1>2 DEF Login, Becomes
  <2>4. Framed /\ Kept BY <1>0, <1>1, <1>2 DEF Login, SessionTypeOK
  <2>5. ~Changes(w) /\ ~Writes(w) BY <2>2 DEF Changes, Writes
  <2>6. Sound(w)' BY <2>1, <2>2, <2>4 DEF Sound, Kept
  <2>. QED BY <1>2, <2>2, <2>3, <2>4, <2>5, <2>6, ClientBounds DEF Begins
<1>3. CASE LoginRefused(c) BY <1>0, <1>1, <1>3, LeaveBounds DEF LoginRefused, SessionTypeOK
<1>4. CASE LoginAllowed(c)
  BY <1>0, <1>1, <1>4, GoBounds DEF LoginAllowed, At, Logs, SessionTypeOK
<1>5. CASE Verify(c)
  <2>1. UNCHANGED <<version, denied, audit, issued, held, ended, changed, blind, password>> BY <1>5 DEF Verify
  <2>2. CASE h.pw = password /\ Enter(c, "issue")
    <3>1. Go(c, "issue") /\ overlap' \in BOOLEAN BY <1>0, <2>2 DEF Enter, SessionTypeOK
    <3>2. Logs(h) BY <1>5 DEF Verify, At, Logs
    <3>. QED BY <1>0, <1>1, <2>1, <2>2, <3>1, <3>2, GoBounds DEF SessionTypeOK
  <2>3. CASE Leave(c) /\ UNCHANGED overlap BY <1>0, <1>1, <2>1, <2>3, LeaveBounds DEF SessionTypeOK
  <2>. QED BY <1>5, <2>2, <2>3 DEF Verify
<1>6. CASE Issue(c)
  <2>1. PICK v \in Versions : ReadVersion(v) /\ issued' = Append(issued, [ver |-> v, exp |-> now + TTL, gen |-> h.pw])
    BY <1>6 DEF Issue
  <2>. DEFINE n == Len(issued)
  <2>. PICK w : w = [h EXCEPT !.pc = "answer", !.tok = n + 1, !.pw = 0] OBVIOUS
  <2>2. /\ UNCHANGED <<version, denied, audit, held, ended, changed, overlap, password>>
        /\ h.pc = "issue" /\ h.op = "login"
    BY <1>6, WhatThereIs DEF Issue, At, Client
  <2>3. Becomes(c, w) BY <1>0, <1>6 DEF Issue, Becomes, Work
  <2>4. h.pw \in 1..MaxPasswords BY <1>0, <2>2 DEF Sound, Jobs
  <2>5. n \in Nat /\ Len(issued') = n + 1 BY <1>0, <2>1 DEF SessionTypeOK
  <2>6. w.pc = "answer" /\ w.op = "login" /\ w.tok = n + 1 /\ w.pw = 0 /\ w.ver = h.ver /\ w.late = h.late
    BY <1>0, <2>2 DEF Work
  <2>16. w \in [op : {w.op}, pc : {w.pc}, pw : {w.pw}, tok : {w.tok}, ver : {w.ver}, late : {w.late}]
    BY <1>0 DEF Work
  <2>7. Logs(h) /\ ~Changes(h) /\ ~Writes(h) /\ ~Logs(w) /\ ~Changes(w) /\ ~Writes(w)
    BY <2>2, <2>6 DEF Logs, Changes, Writes
  <2>8. /\ Cardinality(LoggingIn') + 1 = Cardinality(LoggingIn) /\ Cardinality(LoggingIn') \in Nat
        /\ Cardinality(Changing') = Cardinality(Changing)
        /\ Cardinality(Writing') = Cardinality(Writing) /\ Cardinality(Writing) \in Nat
    BY <2>3, <2>7, Reserved
  <2>9. n + 1 \in Tokens /\ Len(issued') + Cardinality(LoggingIn') <= MaxTokens
    BY <2>5, <2>8, SessionAssumption DEF Begins, TypeInv, Budgets, Tokens
  <2>10. w \in Jobs BY <1>0, <2>6, <2>16, <2>9 DEF Jobs
  <2>11. issued' \in Seq([ver : Versions, exp : Nat, gen : 1..MaxPasswords]) /\ Len(issued') <= MaxTokens
    <3>1. now + TTL \in Nat BY SessionAssumption DEF Begins, SessionInv, Tables
    <3>. DEFINE e == [ver |-> v, exp |-> now + TTL, gen |-> h.pw]
    <3>2. e \in [ver : Versions, exp : Nat, gen : 1..MaxPasswords] BY <2>4, <3>1
    <3>. HIDE DEF e
    <3>3. issued' = Append(issued, e) BY <2>1 DEF e
    <3>4. Len(issued') <= MaxTokens BY <2>5, <2>8, <2>9, SessionAssumption
    <3>. QED BY <1>0, <3>2, <3>3, <3>4 DEF SessionTypeOK
  <2>12. SessionTypeOK'
    <3>1. hs' \in [Clients -> Jobs] BY <1>0, <2>3, <2>10 DEF SessionTypeOK, Becomes, Jobs
    <3>2. blind' \in BOOLEAN BY <1>0, <2>1 DEF ReadVersion, SessionTypeOK
    <3>. QED BY <1>0, <2>2, <2>11, <3>1, <3>2 DEF SessionTypeOK, Jobs
  <2>13. Budgets' BY <2>2, <2>8, <2>9 DEF Begins, TypeInv, Budgets
  <2>14. Sound(w)' BY <1>0, <2>2, <2>6 DEF Sound
  <2>15. Framed BY <2>2 DEF Framed, Begins
  <2>. QED BY <1>0, <2>2, <2>3, <2>8, <2>12, <2>13, <2>14, <2>15, StepBounds DEF Begins
<1>. QED BY <1>2, <1>3, <1>4, <1>5, <1>6

(* A request and the check in front of its handler: a password change        *)
(* reserves its password when it comes.                                      *)
LEMMA CheckBounds ==
  ASSUME NEW c \in Clients, Begins(c), faults' \in 0..MaxFaults,
         \/ \E op \in {"other", "logout"}, t \in held : Come(c, op, t, 0)
         \/ /\ password + Busy("password") < MaxPasswords
            /\ \E t \in held, pw \in {0, password} : Come(c, "password", t, pw)
         \/ CheckDenylist(c) \/ CheckVersion(c) \/ VerifyCurrent(c)
  PROVE  TypeInv'
<1>. DEFINE h == hs[c]
<1>0. /\ h \in Work /\ h \in Jobs /\ password \in Nat /\ hs \in [Clients -> Work] /\ Sound(h)
      /\ password >= 1 /\ password <= MaxPasswords /\ MaxPasswords \in Nat /\ SessionTypeOK
      /\ held \subseteq Tokens /\ Client(c)
  BY WhatThereIs DEF Begins, TypeInv
<1>1. ASSUME UNCHANGED <<version, denied, audit, issued, held, ended, changed, password>>,
             overlap' \in BOOLEAN, blind' \in BOOLEAN
      PROVE  Framed /\ Kept
  BY <1>0, <1>1 DEF Framed, Kept, Begins, SessionTypeOK
<1>2. ASSUME NEW op \in {"other", "logout", "password"}, NEW t \in held, NEW pw \in {0, password},
             Come(c, op, t, pw), op = "password" => password + Busy("password") < MaxPasswords
      PROVE  TypeInv'
  <2>. PICK w : w = [op |-> op, pc |-> "denylist", pw |-> pw, tok |-> t, ver |-> 0, late |-> t \in ended]
    OBVIOUS
  <2>1. pw \in 0..MaxPasswords /\ pw <= password /\ t \in Tokens /\ 0 \in Versions
    BY <1>0 DEF Versions
  <2>2. w \in Jobs /\ w.pc = "denylist" /\ w.op = op /\ w.pw = pw /\ w.tok = t BY <2>1 DEF Jobs
  <2>3. Becomes(c, w) BY <1>0, <1>2 DEF Come, Becomes
  <2>4. Framed /\ Kept BY <1>0, <1>1, <1>2 DEF Come, SessionTypeOK
  <2>5. ~Logs(w) /\ ~Writes(w) /\ (Changes(w) => op = "password") BY <2>2 DEF Logs, Changes, Writes
  <2>6. Sound(w)' BY <2>1, <2>2, <2>4 DEF Sound, Kept, Framed
  <2>. QED BY <1>2, <2>2, <2>3, <2>4, <2>5, <2>6, ClientBounds DEF Begins
<1>3. CASE CheckDenylist(c)
  <2>1. Framed /\ Kept BY <1>0, <1>1, <1>3 DEF CheckDenylist, SessionTypeOK
  <2>. QED BY <1>3, <2>1, LeaveBounds, GoBounds DEF CheckDenylist, At
<1>4. CASE CheckVersion(c)
  <2>1. Framed /\ Kept BY <1>0, <1>1, <1>4 DEF CheckVersion, ReadVersion, SessionTypeOK
  <2>2. CASE Leave(c) BY <2>1, <2>2, LeaveBounds
  <2>3. CASE First(h.op) # "idle" /\ Go(c, First(h.op))
    <3>1. \/ First(h.op) = "deny" /\ h.op = "logout"
          \/ First(h.op) = "current" /\ h.op = "password"
      BY <1>0, <2>3 DEF First, Work, Ops
    <3>. QED BY <1>4, <2>1, <2>3, <3>1, GoBounds DEF CheckVersion, At
  <2>. QED BY <1>4, <2>2, <2>3 DEF CheckVersion
<1>5. CASE VerifyCurrent(c)
  <2>1. Framed /\ Kept BY <1>0, <1>1, <1>5 DEF VerifyCurrent, Enter, SessionTypeOK
  <2>. QED BY <1>5, <2>1, LeaveBounds, GoBounds DEF VerifyCurrent, At, Enter
<1>6. CASE \E op \in {"other", "logout"}, t \in held : Come(c, op, t, 0) BY <1>2, <1>6
<1>7. CASE /\ password + Busy("password") < MaxPasswords
           /\ \E t \in held, pw \in {0, password} : Come(c, "password", t, pw)
  BY <1>2, <1>7
<1>. QED BY <1>3, <1>4, <1>5, <1>6, <1>7

(* The rest of a password change: the reserved password is set, and stands   *)
(* for the version that is written.                                          *)
LEMMA NextBounds ==
  ASSUME NEW c \in Clients, Begins(c), faults' \in 0..MaxFaults,
         Update(c) \/ ReadNext(c) \/ WriteNext(c)
  PROVE  TypeInv'
<1>. DEFINE h == hs[c]
<1>0. /\ h \in Work /\ h \in Jobs /\ password \in Nat /\ hs \in [Clients -> Work] /\ Sound(h)
      /\ password <= MaxPasswords /\ MaxPasswords \in Nat /\ SessionTypeOK
      /\ Client(c) /\ version \in Nat /\ Cardinality(Writing) \in Nat
      /\ version + Cardinality(Writing) <= password /\ Budgets
  BY WhatThereIs DEF Begins, TypeInv
<1>1. h.op = "password" /\ h.pc \in {"update", "read", "write"}
  BY <1>0 DEF Client, At, Update, ReadNext, WriteNext
<1>2. UNCHANGED <<denied, audit, issued, held, ended, changed, overlap>> /\ Framed
  BY DEF Update, ReadNext, WriteNext, Framed, Begins
<1>3. ASSUME Leave(c), UNCHANGED <<version, password, blind>> PROVE TypeInv'
  BY <1>0, <1>2, <1>3, LeaveBounds DEF Kept, SessionTypeOK
<1>4. CASE Update(c) /\ ~(Leave(c) /\ UNCHANGED password)
  <2>. PICK w : w = [h EXCEPT !.pc = "read", !.pw = password + 1] OBVIOUS
  <2>1. /\ password' = password + 1 /\ UNCHANGED <<version, blind>> /\ h.pc = "update"
        /\ hs' = [hs EXCEPT ![c].pc = "read", ![c].pw = password + 1]
    BY <1>4 DEF Update, At
  <2>2. Becomes(c, w) BY <1>0, <2>1 DEF Becomes, Work
  <2>3. w.op = "password" /\ w.pc = "read" /\ w.pw = password + 1 /\ w.tok = h.tok
    BY <1>0, <1>1 DEF Work
  <2>4. ~Logs(h) /\ Changes(h) /\ ~Writes(h) /\ ~Logs(w) /\ ~Changes(w) /\ Writes(w)
    BY <1>1, <2>1, <2>3 DEF Logs, Changes, Writes
  <2>5. /\ Cardinality(LoggingIn') = Cardinality(LoggingIn)
        /\ Cardinality(Changing') + 1 = Cardinality(Changing) /\ Cardinality(Changing') \in Nat
        /\ Cardinality(Writing') = Cardinality(Writing) + 1
    BY <2>2, <2>4, Reserved
  <2>6. Budgets' BY <1>0, <1>2, <2>1, <2>5 DEF Budgets
  <2>7. password + 1 \in 0..MaxPasswords BY <1>0, <2>5 DEF Budgets
  <2>8. w \in Jobs BY <1>0, <2>7 DEF Jobs
  <2>9. SessionTypeOK'
    <3>1. hs' \in [Clients -> Jobs] BY <1>0, <2>2, <2>8 DEF SessionTypeOK, Becomes, Jobs
    <3>. QED BY <1>0, <1>2, <2>1, <3>1 DEF SessionTypeOK, Jobs
  <2>10. Sound(w)' BY <1>0, <1>1, <1>2, <2>1, <2>3 DEF Sound
  <2>. QED BY <1>0, <1>2, <2>1, <2>2, <2>5, <2>6, <2>9, <2>10, StepBounds DEF Begins
<1>5. CASE ReadNext(c)
  <2>1. PICK v \in Versions : ReadVersion(v) /\ hs' = [hs EXCEPT ![c].pc = "write", ![c].ver = v]
    BY <1>5 DEF ReadNext
  <2>. PICK w : w = [h EXCEPT !.pc = "write", !.ver = v] OBVIOUS
  <2>2. v <= version /\ v \in Nat BY <1>0, <2>1, VersionsAreNumbers DEF ReadVersion
  <2>3. Becomes(c, w) BY <1>0, <2>1 DEF Becomes, Work
  <2>4. /\ w \in Jobs /\ w.op = "password" /\ w.pc = "write" /\ w.ver = v
        /\ w.pw = h.pw /\ w.tok = h.tok
    BY <1>0, <1>1 DEF Jobs
  <2>5. Kept /\ h.pc = "read" BY <1>0, <1>2, <1>5, <2>1 DEF ReadNext, ReadVersion, Kept, SessionTypeOK, At
  <2>6. ~Logs(w) /\ ~Changes(w) /\ Writes(w) /\ Writes(h) BY <2>4, <2>5 DEF Logs, Changes, Writes
  <2>7. Cardinality(Writing') = Cardinality(Writing) BY <2>3, <2>6, Reserved
  <2>8. Sound(w)' BY <1>0, <1>1, <1>2, <2>2, <2>4, <2>5, <2>7 DEF Sound, Kept
  <2>. QED BY <1>2, <2>3, <2>4, <2>5, <2>6, <2>8, ClientBounds DEF Begins
<1>6. CASE WriteNext(c) /\ ~(Leave(c) /\ UNCHANGED version)
  <2>. PICK w : w = [h EXCEPT !.pc = "deny", !.ver = 0] OBVIOUS
  <2>1. /\ version' = h.ver + 1 /\ UNCHANGED <<password, blind>> /\ h.pc = "write"
        /\ hs' = [hs EXCEPT ![c].pc = "deny", ![c].ver = 0]
    BY <1>6 DEF WriteNext, At
  <2>2. Becomes(c, w) BY <1>0, <2>1 DEF Becomes, Work
  <2>3. 0 \in Versions BY <1>0 DEF Versions
  <2>4. w \in Jobs /\ w.op = "password" /\ w.pc = "deny" /\ w.pw = h.pw /\ w.tok = h.tok
    BY <1>0, <1>1, <2>3 DEF Jobs
  <2>5. ~Logs(h) /\ ~Changes(h) /\ Writes(h) /\ ~Logs(w) /\ ~Changes(w) /\ ~Writes(w)
    BY <2>1, <2>4 DEF Logs, Changes, Writes
  <2>6. /\ Cardinality(LoggingIn') = Cardinality(LoggingIn)
        /\ Cardinality(Changing') = Cardinality(Changing)
        /\ Cardinality(Writing') + 1 = Cardinality(Writing) /\ Cardinality(Writing') \in Nat
    BY <2>2, <2>5, Reserved
  <2>7. h.ver \in Nat /\ version' + Cardinality(Writing') <= password
    BY <1>0, <2>1, <2>6 DEF Sound, Work
  <2>8. Budgets' BY <1>2, <1>0, <2>1, <2>6, <2>7 DEF Budgets
  <2>9. version' \in Versions BY <1>0, <2>1, <2>6, <2>7 DEF Versions
  <2>10. SessionTypeOK'
    <3>1. hs' \in [Clients -> Jobs] BY <1>0, <2>2, <2>4 DEF SessionTypeOK, Becomes, Jobs
    <3>. QED BY <1>0, <1>2, <2>1, <2>9, <3>1 DEF SessionTypeOK, Jobs
  <2>11. Sound(w)' BY <1>0, <1>1, <1>2, <2>1, <2>4 DEF Sound
  <2>. QED BY <1>0, <1>2, <2>1, <2>2, <2>6, <2>8, <2>10, <2>11, StepBounds DEF Begins
<1>. QED BY <1>3, <1>4, <1>5, <1>6 DEF Update, WriteNext

(* The end of a logout, a password change or a login.                        *)
LEMMA EndBounds ==
  ASSUME NEW c \in Clients, Begins(c), faults' \in 0..MaxFaults, Deny(c) \/ Answer(c)
  PROVE  TypeInv'
<1>. DEFINE h == hs[c]
<1>0. /\ h \in Work /\ h \in Jobs /\ password \in Nat /\ hs \in [Clients -> Work] /\ Sound(h)
      /\ password <= MaxPasswords /\ MaxPasswords \in Nat /\ SessionTypeOK /\ Client(c)
  BY WhatThereIs DEF Begins, TypeInv
<1>1. UNCHANGED <<password, version, issued, overlap, blind>> BY DEF Deny, Answer
<1>2. CASE Deny(c)
  <2>1. h.pc = "deny" /\ h.tok # 0 /\ h.tok \in Tokens BY <1>0, <1>2 DEF Deny, At, Client, Jobs
  <2>2. denied' \subseteq Tokens BY <1>0, <1>2, <2>1 DEF Deny, SessionTypeOK
  <2>3. UNCHANGED <<audit, held, ended, changed>> BY <1>2 DEF Deny
  <2>4. Framed /\ Kept BY <1>0, <1>1, <2>2, <2>3 DEF Framed, Kept, Begins, SessionTypeOK
  <2>5. PICK tok \in {h.tok, 0} : hs' = [hs EXCEPT ![c] = [h EXCEPT !.pc = "answer", !.tok = tok]]
    BY <1>0, <1>2 DEF Deny, Go, Work
  <2>. PICK w : w = [h EXCEPT !.pc = "answer", !.tok = tok] OBVIOUS
  <2>6. w \in Jobs /\ w.pc = "answer" /\ w.op = h.op /\ w.tok = tok /\ w.pw = h.pw BY <1>0 DEF Jobs
  <2>7. ~Logs(w) /\ ~Changes(w) /\ ~Writes(w) BY <2>6 DEF Logs, Changes, Writes
  <2>8. Becomes(c, w) BY <1>0, <2>5 DEF Becomes
  <2>9. Sound(w)' BY <1>0, <2>1, <2>4, <2>6 DEF Sound, Kept, Framed
  <2>10. TypeInv /\ SessionInv BY DEF Begins
  <2>. QED BY <2>4, <2>6, <2>7, <2>8, <2>9, <2>10, ClientBounds
<1>3. CASE Answer(c)
  <2>1. /\ h.pc = "answer" /\ h.op \in {"login", "logout", "password"} /\ h.tok \in Tokens \cup {0}
        /\ h.op = "login" => h.tok # 0
        /\ h.op # "login" /\ h.tok # 0 => h.tok \in held
        /\ h.pw \in 0..MaxPasswords
    BY <1>0, <1>3 DEF Answer, At, Client, Sound, Jobs
  <2>2. denied' = denied BY <1>3 DEF Answer
  <2>3. audit' \subseteq Rows BY <1>0, <1>3, <2>1 DEF Answer, LogAudit, Rows, SessionTypeOK
  <2>4. held' = IF h.op = "login" THEN held \cup {h.tok} ELSE held BY <1>3 DEF Answer
  <2>5. ended' = IF h.op = "login" THEN ended ELSE ended \cup ({h.tok} \ {0}) BY <1>3 DEF Answer
  <2>6. held \subseteq held' /\ held' \subseteq Tokens /\ ended' \subseteq held'
    BY <1>0, <2>1, <2>4, <2>5 DEF SessionTypeOK
  <2>7. changed' \in 0..MaxPasswords BY <1>0, <1>3, <2>1 DEF Answer, SessionTypeOK
  <2>8. Framed /\ Kept BY <1>0, <1>1, <2>2, <2>3, <2>6, <2>7 DEF Framed, Kept, Begins, SessionTypeOK
  <2>. QED BY <1>3, <2>8, LeaveBounds DEF Answer
<1>. QED BY <1>2, <1>3

(* Nobody is at work while the program starts: nothing is reserved then.     *)
LEMMA NothingReserved ==
  ASSUME \A c \in Clients : hs[c] = Idle
  PROVE  Cardinality(LoggingIn) = 0 /\ Cardinality(Changing) = 0 /\ Cardinality(Writing) = 0
<1>1. ~Logs(Idle) /\ ~Changes(Idle) /\ ~Writes(Idle) BY DEF Idle, Logs, Changes, Writes
<1>2. LoggingIn = {} /\ Changing = {} /\ Writing = {} BY <1>1 DEF LoggingIn, Changing, Writing
<1>. QED BY <1>2, FS_EmptySet

(* The start goes through the files and their statements.                    *)
LEMMA StartBounds ==
  ASSUME TypeInv, SessionInv, Starting \/ NotStarting
  PROVE  TypeInv'
<1>1. UNCHANGED limVars /\ UNCHANGED sessVars /\ crashes' = crashes /\ UNCHANGED rows
  BY DEF Starting, NotStarting, Start, StartStep, CheckApplied, Execute, Mark, Migrated, EnsureAuth,
         StartFails, EnsureAuthRefuses
<1>2. /\ up # "serving" /\ up' \in {"down", "migrate", "auth", "prune"}
      /\ up' = "prune" => password' >= 1
  BY DEF Starting, NotStarting, Start, StartStep, CheckApplied, Executing, Execute, Mark, Migrated,
         EnsureAuth, StartFails, EnsureAuthRefuses, TypeInv
<1>3. \A c \in Clients : hs[c] = Idle /\ hs'[c] = Idle BY <1>1, <1>2 DEF TypeInv, sessVars
<1>4. /\ Cardinality(LoggingIn') = 0 /\ Cardinality(Changing') = 0 /\ Cardinality(Writing') = 0
      /\ Cardinality(LoggingIn) = 0 /\ Cardinality(Changing) = 0 /\ Cardinality(Writing) = 0
  <2>1. LoggingIn' = LoggingIn /\ Changing' = Changing /\ Writing' = Writing
    BY <1>1 DEF LoggingIn, Changing, Writing, sessVars
  <2>. QED BY <1>3, <2>1, NothingReserved
<1>5. password' \in Nat /\ password <= password' /\ password' <= MaxPasswords
  <2>1. password' = password \/ (password = 0 /\ password' = 1)
    BY DEF Starting, NotStarting, Start, StartStep, CheckApplied, Execute, Mark, Migrated, EnsureAuth,
           StartFails, EnsureAuthRefuses
  <2>. QED BY <1>4, <2>1, StartupAssumption DEF TypeInv, Budgets
<1>6. faults' \in 0..MaxFaults
  <2>1. Fault \/ UNCHANGED faults
    BY DEF Starting, NotStarting, Start, StartStep, CheckApplied, Execute, Mark, Migrated, EnsureAuth,
           StartFails, EnsureAuthRefuses
  <2>. QED BY <2>1, FaultBounds
<1>7. total' \in 0..MaxRows
  <2>1. total' \in {total, rows}
    BY DEF Starting, NotStarting, Start, StartStep, CheckApplied, Execute, Mark, Migrated, EnsureAuth,
           StartFails, EnsureAuthRefuses
  <2>. QED BY <2>1 DEF TypeInv
<1>8. stage' \in (Files \cup {Len(Migrations) + 1}) \X (0..4)
  <2>0. /\ stage \in {1, 2, 3, 4} \X (0..4) /\ Files = {1, 2, 3} /\ Len(Migrations) = 3
        /\ \A m \in {1, 2, 3} : Len(Migrations[m]) \in 1..3
    BY TheFiles DEF TypeInv
  <2>1. CASE UNCHANGED stage BY <2>1 DEF TypeInv
  <2>2. CASE stage' = <<1, 0>> BY <2>0, <2>2
  <2>3. CASE stage[1] \in Files /\ stage' \in {<<stage[1] + 1, 0>>, <<stage[1], 1>>} BY <2>0, <2>3
  <2>4. CASE Execute
    <3>1. stage[1] \in {1, 2, 3} /\ stage[2] \in 1..Len(Migrations[stage[1]])
      BY <2>0, <2>4, Statements DEF Execute, Executing
    <3>2. stage' \in {<<stage[1], Len(Migrations[stage[1]]) + 1>>, <<stage[1], stage[2] + 1>>}
      BY <2>4 DEF Execute, FileDone
    <3>3. PICK n \in 1..3 : n = Len(Migrations[stage[1]]) BY <2>0, <3>1
    <3>4. PICK k \in 1..n : k = stage[2] BY <3>1, <3>3
    <3>5. n + 1 \in 0..4 /\ k + 1 \in 0..4 OBVIOUS
    <3>. QED BY <2>0, <3>1, <3>2, <3>3, <3>4, <3>5
  <2>5. Start => stage' = <<1, 0>> BY DEF Start
  <2>6. CheckApplied \/ Mark => stage[1] \in Files /\ stage' \in {<<stage[1] + 1, 0>>, <<stage[1], 1>>}
    BY DEF CheckApplied, Mark
  <2>7. Migrated \/ EnsureAuth \/ StartFails \/ EnsureAuthRefuses => UNCHANGED stage
    BY DEF Migrated, EnsureAuth, StartFails, EnsureAuthRefuses
  <2>. QED BY <2>1, <2>2, <2>3, <2>4, <2>5, <2>6, <2>7 DEF Starting, NotStarting, StartStep
<1>9. SessionTypeOK' BY <1>1 DEF TypeInv, SessionTypeOK, sessVars
<1>10. Budgets' BY <1>1, <1>4, <1>5 DEF TypeInv, Budgets, sessVars, SessionTypeOK, Versions
<1>11. ASSUME NEW c \in Clients PROVE Sound(hs[c])'
  <2>1. Idle.pw = 0 /\ Idle.pc = "idle" /\ Idle.tok = 0 BY DEF Idle
  <2>. QED BY <1>3, <1>5, <2>1 DEF Sound
<1>. QED BY <1>1, <1>2, <1>3, <1>5, <1>6, <1>7, <1>8, <1>9, <1>10, <1>11 DEF TypeInv

(* Pruning, with which the program begins to serve, and the clock.           *)
LEMMA PruneBounds ==
  ASSUME TypeInv, SessionInv, Listen \/ Pruning \/ Ticking \/ UNCHANGED consoleVars
  PROVE  TypeInv'
<1>1. /\ UNCHANGED <<stage, rows, total, password, crashes, version, audit, issued, hs, held, ended,
                     changed, overlap, blind>>
      /\ up' = up \/ (up = "prune" /\ up' = "serving")
  BY DEF Listen, Pruning, Prune, Ticking, consoleVars, startVars, sessVars
<1>2. denied' \subseteq denied
  BY DEF Listen, Pruning, Prune, Unexpired, Ticking, consoleVars, sessVars
<1>3. faults' \in 0..MaxFaults
  <2>1. Fault \/ UNCHANGED faults
    BY DEF Listen, Pruning, Prune, NoFault, Ticking, consoleVars, startVars
  <2>. QED BY <2>1, FaultBounds
<1>4. SessionTypeOK' BY <1>1, <1>2 DEF TypeInv, SessionTypeOK
<1>5. Budgets' /\ \A c \in Clients : Sound(hs[c])'
  BY <1>1 DEF TypeInv, Budgets, Sound, LoggingIn, Changing, Writing
<1>. QED BY <1>1, <1>3, <1>4, <1>5 DEF TypeInv

(* A crash gives back what was reserved.                                     *)
LEMMA CrashBounds ==
  ASSUME TypeInv, SessionInv, Crash
  PROVE  TypeInv'
<1>0. /\ Idle \in Jobs /\ Idle.pw = 0 /\ Idle.pc = "idle" /\ Idle.tok = 0
      /\ ~Logs(Idle) /\ ~Changes(Idle) /\ ~Writes(Idle)
  BY StartupAssumption DEF Idle, Jobs, Versions, Logs, Changes, Writes
<1>1. /\ UNCHANGED <<stage, rows, total, password, faults, version, denied, audit, issued, held, ended,
                     changed, overlap, blind>>
      /\ up' = "down" /\ crashes' = crashes + 1 /\ crashes < MaxCrashes
      /\ hs' = [c \in Clients |-> Idle]
  BY DEF Crash
<1>2. \A c \in Clients : hs'[c] = Idle BY <1>1
<1>3. LoggingIn' = {} /\ Changing' = {} /\ Writing' = {}
  BY <1>0, <1>2 DEF LoggingIn, Changing, Writing
<1>4. Cardinality({}) = 0 /\ password \in Nat BY FS_EmptySet DEF TypeInv
<1>5. /\ Cardinality(LoggingIn) \in Nat /\ Cardinality(Changing) \in Nat /\ Cardinality(Writing) \in Nat
  <2>1. IsFiniteSet(LoggingIn) /\ IsFiniteSet(Changing) /\ IsFiniteSet(Writing)
    BY FS_Subset, LimiterAssumption DEF LoggingIn, Changing, Writing
  <2>. QED BY <2>1, FS_CardinalityType
<1>6. Len(issued) \in Nat /\ version \in Nat /\ MaxTokens \in Nat /\ MaxPasswords \in Nat
  BY SessionAssumption, StartupAssumption DEF TypeInv, SessionTypeOK, Versions
<1>7. Budgets' BY <1>1, <1>3, <1>4, <1>5, <1>6 DEF TypeInv, Budgets
<1>8. SessionTypeOK'
  <2>1. hs' \in [Clients -> Jobs] BY <1>0, <1>1
  <2>. QED BY <1>1, <2>1 DEF TypeInv, SessionTypeOK, Jobs
<1>9. \A c \in Clients : Sound(hs[c])' BY <1>0, <1>1, <1>2, <1>4 DEF Sound
<1>10. crashes' \in 0..MaxCrashes BY <1>1, ConsoleAssumption DEF TypeInv
<1>. QED BY <1>1, <1>2, <1>4, <1>7, <1>8, <1>9, <1>10 DEF TypeInv

(* Every step keeps the bounds.                                              *)
LEMMA TypeInvInductive == TypeInv /\ SessionInv /\ [Next]_consoleVars => TypeInv'
<1>. SUFFICES ASSUME TypeInv, SessionInv, [Next]_consoleVars PROVE TypeInv' OBVIOUS
<1>1. CASE Starting \/ NotStarting BY <1>1, StartBounds
<1>2. CASE Listen \/ Pruning \/ Ticking \/ UNCHANGED consoleVars BY <1>2, PruneBounds
<1>3. CASE Crash BY <1>3, CrashBounds
<1>4. ASSUME NEW c \in Clients, Serving(c) PROVE TypeInv'
  <2>1. Begins(c) BY <1>4 DEF Serving, Begins
  <2>2. Fault \/ UNCHANGED faults
    BY <1>4 DEF Serving, SessionStep, LoginRefused, LoginAllowed, Verify, Issue, CheckDenylist,
         CheckVersion, VerifyCurrent, Update, ReadNext, WriteNext, Deny, Answer, ReadVersion, LogAudit,
         NoFault
  <2>3. faults' \in 0..MaxFaults BY <2>2, FaultBounds
  <2>. QED BY <1>4, <2>1, <2>3, LoginBounds, CheckBounds, NextBounds, EndBounds DEF Serving, SessionStep
<1>5. ASSUME NEW c \in Clients, Coming(c) PROVE TypeInv'
  <2>1. Begins(c) /\ Arrival(c) BY <1>5 DEF Coming, Begins
  <2>2. UNCHANGED faults BY <2>1 DEF Arrival, Login, Come
  <2>3. faults' \in 0..MaxFaults BY <2>2, FaultBounds
  <2>. QED BY <2>1, <2>3, LoginBounds, CheckBounds DEF Arrival
<1>. QED BY <1>1, <1>2, <1>3, <1>4, <1>5 DEF Next

(* ... and hold of what an earlier release has left.                         *)
LEMMA InitBounds == Init => TypeInv
<1>. SUFFICES ASSUME Init PROVE TypeInv OBVIOUS
<1>1. /\ rows \in 0..MaxRows /\ password \in {0, 1} /\ up = "down" /\ stage = <<1, 0>> /\ faults = 0
      /\ total \in {0, rows} /\ crashes = 0
  BY StartupAssumption DEF Init, StartupInit
<1>2. /\ version = 0 /\ denied = {} /\ audit = {} /\ issued = <<>> /\ hs = [c \in Clients |-> Idle]
      /\ held = {} /\ ended = {} /\ changed = 0 /\ overlap = FALSE /\ blind = FALSE
  BY DEF Init, SessionInit
<1>3. /\ Idle \in Jobs /\ Idle.pw = 0 /\ Idle.pc = "idle" /\ Idle.tok = 0
      /\ \A c \in Clients : hs[c] = Idle
  BY <1>2, StartupAssumption DEF Idle, Jobs, Versions
<1>4. Budgets BY <1>1, <1>2, <1>3, NothingReserved, StartupAssumption, SessionAssumption DEF Budgets
<1>5. SessionTypeOK
  <2>1. hs \in [Clients -> Jobs] BY <1>2, <1>3
  <2>2. issued \in Seq([ver : Versions, exp : Nat, gen : 1..MaxPasswords]) /\ Len(issued) <= MaxTokens
    BY <1>2, SessionAssumption
  <2>3. version \in Versions /\ changed \in 0..MaxPasswords BY <1>2, StartupAssumption DEF Versions
  <2>. QED BY <1>2, <2>1, <2>2, <2>3 DEF SessionTypeOK, Jobs
<1>6. \A c \in Clients : Sound(hs[c]) BY <1>1, <1>3 DEF Sound
<1>7. stage \in (Files \cup {Len(Migrations) + 1}) \X (0..4) BY <1>1, TheFiles
<1>. QED BY <1>1, <1>3, <1>4, <1>5, <1>6, <1>7, StartupAssumption, ConsoleAssumption DEF TypeInv

(* Every variable of the console keeps its type: in particular the limiter   *)
(* never remembers more attempts than it allows, no token is signed and no   *)
(* version written beyond the bounds that arrivals respect, and only what a  *)
(* client holds is ended.                                                    *)
THEOREM ConsoleTypes == Spec => []ConsoleTypeOK
<1>1. TypeInv /\ StartInv /\ LimitInv => ConsoleTypeOK
  <2>. SUFFICES ASSUME TypeInv, StartInv, LimitInv PROVE ConsoleTypeOK OBVIOUS
  <2>1. password \in 0..MaxPasswords
    <3>1. IsFiniteSet(Changing) BY FS_Subset, LimiterAssumption DEF Changing
    <3>2. Cardinality(Changing) \in Nat BY <3>1, FS_CardinalityType
    <3>. QED BY <3>2, StartupAssumption DEF TypeInv, Budgets
  <2>2. StartupTypeOK BY <2>1 DEF TypeInv, StartInv, StartupTypeOK
  <2>3. LimiterTypeOK BY DEF LimitInv, Attempts, LimiterTypeOK
  <2>. QED BY <2>2, <2>3 DEF TypeInv, ConsoleTypeOK
<1>. QED BY <1>1, InitSession, SessionInvInductive, InitStart, StartInvInductive, InitLimits,
            LimitInvInductive, InitBounds, TypeInvInductive, PTL DEF Spec
=============================================================================
