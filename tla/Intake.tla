------------------------------- MODULE Intake --------------------------------
(* How one HTTP request is taken in: rootHandler decides between the         *)
(* container's health check, the console and the capture, by what            *)
(* config.Load made of the environment; Store.readBody caps the body that is *)
(* captured. Hosts are names with or without a port.                         *)
EXTENDS Integers, FiniteSets

CONSTANTS
  Names,        \* host names, "" (no host) among them
  Paths,        \* AdminPaths, "/healthz" and others
  AdminPaths,   \* those that begin with /admin
  Secrets,      \* values of HEALTH_CHECK_SECRET and of the header, "" among them
  Sizes,        \* body sizes
  Caps,         \* values of MAX_BODY_BYTES: these and their complements
  MaxEntries,   \* bound: the entries of ADMIN_HOST
  IntMax        \* the largest int64

VARIABLES
  env,          \* what config.Load returned
  given,        \* the entries of ADMIN_HOST it was made from (history)
  req,          \* the request
  outcome,      \* "none", "health", "console", "captured", or "panic" (nothing is stored)
  body          \* the body of the row: its size and body_truncated

vars == <<env, given, req, outcome, body>>

ASSUME IntakeAssumption ==
  /\ "" \in Names /\ "" \in Secrets /\ AdminPaths \subseteq Paths \ {"/healthz"}
  /\ IntMax \in Nat /\ Sizes \subseteq 0..IntMax /\ Caps \subseteq 0..IntMax /\ MaxEntries \in Nat

Host     == [name : Names, port : BOOLEAN]
Requests == [path : Paths, host : Host, forwarded : Host, check : Secrets, size : Sizes, broken : BOOLEAN]
NoBody   == [size |-> 0, truncated |-> FALSE]
Wrap(n)  == ((n + IntMax + 1) % (2 * (IntMax + 1))) - IntMax - 1

\* normalizeHost: the port is cut off.
Normalize(h) == h.name
\* A mutant: an empty entry counts as a host.
ParseAll(entries) == {Normalize(h) : h \in entries}
\* parseHosts: entries that are empty, or nothing but a port, are skipped.
ParseHosts(entries) == {Normalize(h) : h \in entries} \ {""}

\* config.Load. A value that is no number, or a short JWT_SECRET, ends the program.
Load(entries, secret, cap) == [hosts |-> ParseHosts(entries), secret |-> secret, cap |-> cap]

Init ==
  /\ given \in {g \in SUBSET Host : Cardinality(g) <= MaxEntries}
  /\ \E s \in Secrets, c \in Caps \cup {-n - 1 : n \in Caps} : env = Load(given, s, c)
  /\ req \in [path : {"/"}, host : {[name |-> "", port |-> FALSE]},
              forwarded : {[name |-> "", port |-> FALSE]}, check : {""}, size : {0}, broken : {FALSE}]
  /\ outcome = "none" /\ body = NoBody

-----------------------------------------------------------------------------
\* A mutant: an unset secret is compared like any other.
ProbeUnset(r) == r.path = "/healthz" /\ r.check = env.secret
IsHealthProbe(r) == r.path = "/healthz" /\ env.secret # "" /\ r.check = env.secret

IsAdminHost(r) == env.hosts = {} \/ {Normalize(r.host), Normalize(r.forwarded)} \cap env.hosts # {}

(* readBody: one byte more than the cap is read, to see whether there is     *)
(* more; maxBody+1 wraps, LimitReader reads nothing from a limit below 1, an *)
(* upload that breaks off leaves nothing.                                    *)
\* A mutant before it: the cap itself is the limit.
LimitExact == env.cap
Limit == Wrap(env.cap + 1)
Read(r) == IF r.size < Limit THEN r.size ELSE IF Limit > 0 THEN Limit ELSE 0
Body(r) == IF r.broken THEN NoBody
           ELSE IF Read(r) > env.cap THEN [size |-> env.cap, truncated |-> TRUE]
           ELSE [size |-> Read(r), truncated |-> FALSE]

\* raw[:maxBody] with a negative maxBody: net/http recovers and drops the connection.
Panics(r) == ~r.broken /\ Read(r) > env.cap /\ env.cap < 0

Serve(r) ==
  /\ req' = r /\ UNCHANGED <<env, given>>
  /\ \/ IsHealthProbe(r) /\ outcome' = "health" /\ body' = NoBody
     \/ /\ ~IsHealthProbe(r) /\ r.path \in AdminPaths /\ IsAdminHost(r)
        /\ outcome' = "console" /\ body' = NoBody
     \/ /\ ~IsHealthProbe(r) /\ ~(r.path \in AdminPaths /\ IsAdminHost(r))
        /\ IF Panics(r) THEN outcome' = "panic" /\ body' = NoBody
           ELSE outcome' = "captured" /\ body' = Body(r)

Next == \E r \in Requests : outcome = "none" /\ Serve(r)

Spec == Init /\ [][Next]_vars

-----------------------------------------------------------------------------
(* "only a configured admin host reaches /admin/": once ADMIN_HOST names a   *)
(* host, the console answers only requests whose Host or X-Forwarded-Host is *)
(* one that it names, whatever ports and stray commas are in it; a request   *)
(* without X-Forwarded-Host is not taken for one.                            *)
ConsoleNeedsAdminHost ==
  outcome = "console" /\ (\E h \in given : h.name # "") =>
    \E h \in given, asked \in {req.host, req.forwarded} : h.name # "" /\ asked.name = h.name

(* What is to be stored of an intact body: its first cap bytes, flagged when *)
(* there were more. It is for every cap from 0 up to the largest but one.    *)
CapInRange    == 0 <= env.cap /\ env.cap < IntMax
CappedBody(r) == [size |-> IF r.size < env.cap THEN r.size ELSE env.cap,
                  truncated |-> r.size > env.cap]

(* "A probe is skipped only when it carries the HEALTH_CHECK_SECRET", "a     *)
(* plain /healthz hit is recorded like any other request", and without a     *)
(* secret "there is no bypass": whoever knows the secret that is set gets    *)
(* the health check, which stores nothing, and everybody else is captured,   *)
(* body and all, whatever hosts the console is for.                          *)
HealthHitsAreRecorded ==
  outcome # "none" /\ req.path = "/healthz" =>
    IF env.secret # "" /\ req.check = env.secret THEN outcome = "health"
    ELSE CapInRange => outcome = "captured" /\ body = (IF req.broken THEN NoBody ELSE CappedBody(req))

(* "Request bodies are capped and over-size bodies are flagged": what is     *)
(* stored of an intact body is its first cap bytes, and it is flagged        *)
(* exactly when there were more.                                             *)
BodiesAreCapped ==
  outcome = "captured" /\ ~req.broken /\ CapInRange => body = CappedBody(req)
=============================================================================
