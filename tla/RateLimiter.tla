---------------------------- MODULE RateLimiter -----------------------------
(* auth.RateLimiter: how many logins of an address Allow lets through. Allow *)
(* is two steps, because handlers call it at the same time and nothing locks *)
(* the map: it reads the remembered attempts, then it writes them back.      *)
EXTENDS Integers, Sequences, FiniteSets

CONSTANTS
  Clients,       \* the goroutines that serve the console
  IPs,           \* client addresses
  MaxAttempts,   \* max of NewRateLimiter (5 in admin.New)
  Window,        \* window of NewRateLimiter (10 minutes)
  MaxTime        \* bound: the clock

VARIABLES
  now,           \* seconds
  attempts,      \* attempts[ip]: the attempts Allow remembers (unknown: {}, once raced)
  call,          \* call[c]: an Allow between its read and its write
  raced,         \* two Allow calls of this process overlapped (history)
  admitted       \* admitted[ip]: the attempts Allow said yes to (history, until raced)

limVars == <<now, attempts, call, raced, admitted>>

ASSUME LimiterAssumption ==
  IsFiniteSet(Clients) /\ MaxAttempts \in Nat \ {0} /\ Window \in Nat \ {0} /\ MaxTime \in Nat

Times   == 0..MaxTime
\* The nr-th attempt of a second, from 0: the code's slice of times is a set of these.
Attempt == [at : Times, nr : Nat]
NoCall  == [ip |-> "none", at |-> 0, recent |-> {}]
Calls   == [ip : IPs \cup {"none"}, at : Times, recent : SUBSET Attempt]

\* NewRateLimiter: the map is in memory, a new process has forgotten.
Forgotten == /\ attempts' = [i \in IPs |-> {}] /\ admitted' = [i \in IPs |-> {}]
             /\ call' = [c \in Clients |-> NoCall] /\ raced' = FALSE

LimiterInit ==
  /\ now = 0 /\ attempts = [i \in IPs |-> {}] /\ admitted = [i \in IPs |-> {}]
  /\ call = [c \in Clients |-> NoCall] /\ raced = FALSE

LimiterTypeOK ==
  /\ now \in Times /\ call \in [Clients -> Calls] /\ raced \in BOOLEAN
  /\ attempts \in [IPs -> SUBSET Attempt] /\ admitted \in [IPs -> SUBSET Attempt]
  /\ \A i \in IPs : IsFiniteSet(attempts[i]) /\ Cardinality(attempts[i]) <= MaxAttempts

Tick == now < MaxTime /\ now' = now + 1 /\ UNCHANGED <<attempts, call, raced, admitted>>

-----------------------------------------------------------------------------
\* t.After(cutoff), with cutoff one window before the given time.
Recent(s, time) == {a \in s : a.at + Window > time}

\* append(recent, now)
Another(s, time) == s \cup {[at |-> time, nr |-> Cardinality({a \in s : a.at = time})]}

(* The first half of Allow. Once two calls of this process have overlapped,   *)
(* the map and the arrays its slices share may hold anything, so what a call *)
(* finds, from the second of them on, is any number of attempts. (The runtime*)
(* may also notice the concurrent writes and end the process: Crash.)        *)
Anything == {[at : {now}, nr : 0..(n - 1)] : n \in 0..MaxAttempts}
Recall(c, ip) ==
  /\ call[c] = NoCall
  /\ raced' = (raced \/ \E d \in Clients : call[d] # NoCall)
  /\ \E found \in IF raced' THEN Anything ELSE {Recent(attempts[ip], now)} :
       call' = [call EXCEPT ![c] = [ip |-> ip, at |-> now, recent |-> found]]
  /\ attempts' = IF raced' THEN [i \in IPs |-> {}] ELSE attempts
  /\ UNCHANGED <<now, admitted>>

Remember(c, s) ==
  /\ attempts' = IF raced THEN attempts ELSE [attempts EXCEPT ![call[c].ip] = s]
  /\ call' = [call EXCEPT ![c] = NoCall]
  /\ UNCHANGED <<now, raced>>

\* A mutant: the attempt is counted before it is judged.
RefuseCounting(c) ==
  /\ call[c] # NoCall /\ Cardinality(call[c].recent) >= MaxAttempts
  /\ Remember(c, Another(call[c].recent, call[c].at))
  /\ UNCHANGED admitted

\* The other half: false leaves the attempts that are recent, true adds this one.
Refuse(c) ==
  /\ call[c] # NoCall /\ Cardinality(call[c].recent) >= MaxAttempts
  /\ Remember(c, call[c].recent)
  /\ UNCHANGED admitted

\* A mutant: one too many.
AdmitInclusive(c) ==
  /\ call[c] # NoCall /\ Cardinality(call[c].recent) <= MaxAttempts
  /\ Remember(c, Another(call[c].recent, call[c].at))
  /\ admitted' = IF raced THEN [i \in IPs |-> {}]
                 ELSE [admitted EXCEPT ![call[c].ip] = Another(Recent(@, call[c].at), call[c].at)]

Admit(c) ==
  /\ call[c] # NoCall /\ Cardinality(call[c].recent) < MaxAttempts
  /\ Remember(c, Another(call[c].recent, call[c].at))
  /\ admitted' = IF raced THEN [i \in IPs |-> {}]
                 ELSE [admitted EXCEPT ![call[c].ip] = Another(Recent(@, call[c].at), call[c].at)]
=============================================================================
