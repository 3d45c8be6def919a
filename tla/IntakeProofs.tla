---------------------------- MODULE IntakeProofs -----------------------------
(* The three properties of Intake for any hosts, secrets, body sizes, caps    *)
(* and integer width.                                                        *)
EXTENDS Intake, TLAPS

\* What config.Load has made of the environment.
Configured == given \in SUBSET Host /\ env.hosts = ParseHosts(given) /\ env.cap \in Int

\* The outcomes of a request, by what isHealthProbe, isAdminHost and readBody say of it.
Decided == /\ outcome # "none" => req \in Requests
           /\ outcome = "health" => IsHealthProbe(req)
           /\ outcome = "console" => ~IsHealthProbe(req) /\ req.path \in AdminPaths /\ IsAdminHost(req)
           /\ outcome = "panic" => ~IsHealthProbe(req) /\ Panics(req)
           /\ outcome = "captured" => ~IsHealthProbe(req) /\ body = Body(req)
           /\ outcome \in {"none", "health", "console", "panic", "captured"}

(* MAX_BODY_BYTES is an integer.                                             *)
LEMMA CapsAreIntegers == \A n \in Caps : n \in Int
<1>1. IntMax \in Nat /\ Caps \subseteq 0..IntMax BY IntakeAssumption
<1>2. \A n \in 0..IntMax : n \in Int BY <1>1
<1>. QED BY <1>1, <1>2

(* The program starts so.                                                    *)
LEMMA InitDecided == Init => Configured /\ Decided
<1>. SUFFICES ASSUME Init PROVE Configured /\ Decided OBVIOUS
<1>1. given \in SUBSET Host BY DEF Init
<1>2. PICK s \in Secrets, c \in Caps \cup {-n - 1 : n \in Caps} : env = Load(given, s, c) BY DEF Init
<1>3. c \in Int
  <2>1. CASE c \in Caps BY <2>1, CapsAreIntegers
  <2>2. CASE c \in {-n - 1 : n \in Caps}
    <3>1. PICK n \in Caps : c = -n - 1 BY <2>2
    <3>2. n \in Int BY CapsAreIntegers
    <3>. QED BY <3>1, <3>2
  <2>. QED BY <1>2, <2>1, <2>2
<1>4. outcome = "none" BY DEF Init
<1>. QED BY <1>1, <1>2, <1>3, <1>4 DEF Load, Configured, Decided

(* Every request is decided so.                                              *)
LEMMA NextDecided == Configured /\ Decided /\ [Next]_vars => Configured' /\ Decided'
<1>. SUFFICES ASSUME Configured, Decided, [Next]_vars PROVE Configured' /\ Decided' OBVIOUS
<1>1. CASE UNCHANGED vars
  BY <1>1 DEF vars, Configured, Decided, IsHealthProbe, IsAdminHost, Panics, Body, Read, Limit
<1>2. CASE Next
  <2>1. PICK r \in Requests : Serve(r) BY <1>2 DEF Next
  <2>2. req' = r /\ env' = env /\ given' = given BY <2>1 DEF Serve
  <2>3. Configured' BY <2>2 DEF Configured
  <2>4. /\ outcome' = "health" => IsHealthProbe(r)
        /\ outcome' = "console" => ~IsHealthProbe(r) /\ r.path \in AdminPaths /\ IsAdminHost(r)
        /\ outcome' = "panic" => ~IsHealthProbe(r) /\ Panics(r)
        /\ outcome' = "captured" => ~IsHealthProbe(r) /\ body' = Body(r)
        /\ outcome' \in {"none", "health", "console", "panic", "captured"}
    BY <2>1 DEF Serve
  <2>. QED BY <2>2, <2>3, <2>4
       DEF Decided, IsHealthProbe, IsAdminHost, Panics, Body, Read, Limit
<1>. QED BY <1>1, <1>2

(* ... at every moment.                                                      *)
LEMMA AlwaysDecided == Spec => [](Configured /\ Decided)
<1>1. Init => Configured /\ Decided BY InitDecided
<1>2. Configured /\ Decided /\ [Next]_vars => (Configured /\ Decided)' BY NextDecided
<1>. QED BY <1>1, <1>2, PTL DEF Spec

(* Once ADMIN_HOST names a host, only a request for such a host reaches the  *)
(* console, whatever names, ports and entries there are.                     *)
THEOREM ConsoleIsGated == Spec => []ConsoleNeedsAdminHost
<1>1. Configured /\ Decided => ConsoleNeedsAdminHost
  <2>. SUFFICES ASSUME Configured, Decided, outcome = "console", NEW g \in given, g.name # ""
       PROVE  \E h \in given, asked \in {req.host, req.forwarded} : h.name # "" /\ asked.name = h.name
    BY DEF ConsoleNeedsAdminHost
  <2>1. g.name \in env.hosts BY DEF Configured, ParseHosts, Normalize
  <2>2. PICK asked \in {req.host, req.forwarded} : asked.name \in env.hosts
    BY <2>1 DEF Decided, IsAdminHost, Normalize
  <2>3. PICK h \in given : h.name # "" /\ h.name = asked.name
    BY <2>2 DEF Configured, ParseHosts, Normalize
  <2>. QED BY <2>2, <2>3
<1>. QED BY <1>1, AlwaysDecided, PTL

(* The one byte beyond the cap tells whether there is more, and a cap that   *)
(* is not negative cuts within what was read.                                *)
LEMMA ReadCapped ==
  ASSUME Configured, CapInRange, NEW r \in Requests
  PROVE  ~Panics(r) /\ Body(r) = IF r.broken THEN NoBody ELSE CappedBody(r)
<1>1. IntMax \in Nat /\ env.cap \in Int /\ 0 <= env.cap /\ env.cap < IntMax
  BY IntakeAssumption DEF Configured, CapInRange
<1>2. r.size \in 0..IntMax BY IntakeAssumption DEF Requests
<1>3. Limit = env.cap + 1
  <2>. DEFINE w == 2 * (IntMax + 1)
              k == env.cap + 1 + IntMax + 1
  <2>1. k \in Nat /\ w \in Nat \ {0} /\ k < w BY <1>1
  <2>2. k % w = k BY <2>1
  <2>. QED BY <1>1, <2>2 DEF Limit, Wrap
<1>4. Read(r) = IF r.size < env.cap + 1 THEN r.size ELSE env.cap + 1
  BY <1>1, <1>3 DEF Read
<1>5. ~Panics(r) BY <1>1 DEF Panics
<1>. DEFINE first == IF r.size < env.cap THEN r.size ELSE env.cap
            more  == r.size > env.cap
<1>6. CASE r.broken BY <1>5, <1>6 DEF Body
<1>7. CASE ~r.broken /\ r.size > env.cap
  <2>1. Body(r) = [size |-> env.cap, truncated |-> TRUE] BY <1>1, <1>2, <1>4, <1>7 DEF Body
  <2>2. first = env.cap /\ more = TRUE BY <1>1, <1>2, <1>7
  <2>3. CappedBody(r) = [size |-> env.cap, truncated |-> TRUE] BY <2>2, Zenon DEF CappedBody
  <2>. QED BY <1>5, <1>7, <2>1, <2>3
<1>8. CASE ~r.broken /\ ~(r.size > env.cap)
  <2>1. Read(r) = r.size /\ ~(Read(r) > env.cap) BY <1>1, <1>2, <1>4, <1>8
  <2>2. Body(r) = [size |-> r.size, truncated |-> FALSE] BY <1>8, <2>1 DEF Body
  <2>3. first = r.size /\ more = FALSE BY <1>1, <1>2, <1>8
  <2>4. CappedBody(r) = [size |-> r.size, truncated |-> FALSE] BY <2>3, Zenon DEF CappedBody
  <2>. QED BY <1>5, <1>8, <2>2, <2>4
<1>. QED BY <1>6, <1>7, <1>8

(* Only those who know a secret that is set get the health check; every      *)
(* other request on its path is captured with its capped body, whatever the  *)
(* hosts, the secrets, the cap and the integer width are.                    *)
THEOREM HealthHitsRecorded == Spec => []HealthHitsAreRecorded
<1>1. Configured /\ Decided => HealthHitsAreRecorded
  <2>. SUFFICES ASSUME Configured, Decided, outcome # "none", req.path = "/healthz"
       PROVE  IF env.secret # "" /\ req.check = env.secret THEN outcome = "health"
              ELSE CapInRange =>
                     outcome = "captured" /\ body = (IF req.broken THEN NoBody ELSE CappedBody(req))
    BY DEF HealthHitsAreRecorded
  <2>1. req \in Requests BY DEF Decided
  <2>2. outcome # "console" BY IntakeAssumption DEF Decided
  <2>3. CASE env.secret # "" /\ req.check = env.secret
    <3>1. IsHealthProbe(req) BY <2>3 DEF IsHealthProbe
    <3>. QED BY <2>2, <2>3, <3>1 DEF Decided
  <2>4. CASE ~(env.secret # "" /\ req.check = env.secret)
    <3>1. ~IsHealthProbe(req) BY <2>4 DEF IsHealthProbe
    <3>2. CapInRange => ~Panics(req) /\ Body(req) = IF req.broken THEN NoBody ELSE CappedBody(req)
      BY <2>1, ReadCapped
    <3>. QED BY <2>2, <2>4, <3>1, <3>2 DEF Decided
  <2>. QED BY <2>3, <2>4
<1>. QED BY <1>1, AlwaysDecided, PTL

(* For every integer width, every MAX_BODY_BYTES from 0 up to the largest    *)
(* but one and every body, what is stored is the capped body, flagged        *)
(* exactly when something is missing.                                        *)
THEOREM BodiesCapped == Spec => []BodiesAreCapped
<1>1. Configured /\ Decided => BodiesAreCapped
  BY ReadCapped DEF Decided, BodiesAreCapped
<1>. QED BY <1>1, AlwaysDecided, PTL
=============================================================================
