------------------------------ MODULE Startup -------------------------------
(* What main does before it serves: db.Open brings the schema up to date,    *)
(* file by file and statement by statement, outside any transaction, and     *)
(* ensureAuth sees to the admin's password. Any statement may fail (main     *)
(* then exits) and the process may die between any two.                      *)
EXTENDS Integers, Sequences, SequencesExt

CONSTANTS
  MaxRows,        \* bound: requests that an older release has left
  MaxPasswords,   \* bound: how many passwords there are in turn
  MaxFaults       \* bound: statements that fail

VARIABLES
  up,             \* "down", "migrate", "auth", "prune" (RunOnce) or "serving"
  stage,          \* <<file, statement>>; statement 0 is migrate's look at schema_migrations
  applied,        \* the files schema_migrations names
  made,           \* what the statements of the files have made
  rows, total,    \* the rows of requests; stats.total_captured
  password,       \* whose hash auth holds: passwords are numbered in turn, 0: no row
  faults

startVars == <<up, stage, applied, made, rows, total, password, faults>>

ASSUME StartupAssumption == MaxRows \in Nat /\ MaxPasswords \in Nat \ {0} /\ MaxFaults \in Nat

\* migrations/*.sql: the CREATEs of 001, the ALTER of 002, the two statements of 003.
Migrations == << <<"requests", "auth", "settings">>, <<"country">>, <<"stats", "count">> >>
Files      == 1..Len(Migrations)
Objects    == UNION {ToSet(Migrations[m]) : m \in Files}

Fault == faults < MaxFaults /\ faults' = faults + 1

\* A database that an earlier release, with the first k files, has left.
StartupInit ==
  \E k \in 0..Len(Migrations) :
    /\ applied = 1..k /\ made = UNION {ToSet(Migrations[m]) : m \in 1..k}
    /\ rows \in (IF k = 0 THEN {0} ELSE 0..MaxRows)
    /\ password \in (IF k = 0 THEN {0} ELSE {0, 1})
    /\ total = (IF k = Len(Migrations) THEN rows ELSE 0)
    /\ up = "down" /\ stage = <<1, 0>> /\ faults = 0

StartupTypeOK ==
  /\ up \in {"down", "migrate", "auth", "prune", "serving"}
  /\ stage \in (Files \cup {Len(Migrations) + 1}) \X (0..4)
  /\ applied \subseteq Files /\ made \subseteq Objects
  /\ rows \in 0..MaxRows /\ total \in 0..MaxRows
  /\ password \in 0..MaxPasswords /\ faults \in 0..MaxFaults

-----------------------------------------------------------------------------
\* docker-compose (restart: unless-stopped) or an operator runs the program.
Start ==
  /\ up = "down" /\ up' = "migrate" /\ stage' = <<1, 0>>
  /\ UNCHANGED <<applied, made, rows, total, password, faults>>

CheckApplied ==
  /\ up = "migrate" /\ stage[2] = 0 /\ stage[1] \in Files
  /\ stage' = IF stage[1] \in applied THEN <<stage[1] + 1, 0>> ELSE <<stage[1], 1>>
  /\ UNCHANGED <<up, applied, made, rows, total, password, faults>>

Statement == Migrations[stage[1]][stage[2]]
Executing == up = "migrate" /\ stage[1] \in Files /\ stage[2] \in DOMAIN Migrations[stage[1]]
FileDone  == <<stage[1], Len(Migrations[stage[1]]) + 1>>

\* Mutants: a second ALTER is an error like any other; every error is "already applied".
ExecuteStrict ==
  /\ Executing /\ made' = made \cup {Statement}
  /\ total' = IF Statement \notin made /\ Statement = "count" THEN rows ELSE total
  /\ IF Statement \in made /\ Statement = "country" THEN up' = "down" /\ UNCHANGED stage
     ELSE stage' = <<stage[1], stage[2] + 1>> /\ UNCHANGED up
  /\ UNCHANGED <<applied, rows, password, faults>>
StartFailsForgiven ==
  /\ up = "migrate" /\ Fault
  /\ IF Executing THEN stage' = FileDone /\ UNCHANGED up ELSE up' = "down" /\ UNCHANGED stage
  /\ UNCHANGED <<applied, made, rows, total, password>>

(* Exec of a file. CREATE IF NOT EXISTS and INSERT OR IGNORE do nothing the  *)
(* second time; the ALTER fails, which ends the file and counts as success.  *)
Execute ==
  /\ Executing
  /\ made' = made \cup {Statement}
  /\ total' = IF Statement \notin made /\ Statement = "count" THEN rows ELSE total
  /\ stage' = IF Statement \in made /\ Statement = "country" THEN FileDone
              ELSE <<stage[1], stage[2] + 1>>
  /\ UNCHANGED <<up, applied, rows, password, faults>>

\* main: logger.Fatalf on an error of db.Open or ensureAuth.
StartFails ==
  /\ up \in {"migrate", "auth"} /\ Fault /\ up' = "down"
  /\ UNCHANGED <<stage, applied, made, rows, total, password>>

Mark ==
  /\ up = "migrate" /\ stage[1] \in Files /\ stage = FileDone
  /\ applied' = applied \cup {stage[1]} /\ stage' = <<stage[1] + 1, 0>>
  /\ UNCHANGED <<up, made, rows, total, password, faults>>

Migrated ==
  /\ up = "migrate" /\ stage[1] \notin Files /\ up' = "auth"
  /\ UNCHANGED <<stage, applied, made, rows, total, password, faults>>

\* A mutant: the row is written whenever the environment gives a password.
EnsureAuthAlways ==
  /\ up = "auth" /\ up' = "prune" /\ password' = 1
  /\ UNCHANGED <<stage, applied, made, rows, total, faults>>

\* ADMIN_PASSWORD becomes the first password if there is none yet.
EnsureAuth ==
  /\ up = "auth" /\ up' = "prune"
  /\ password' = IF password = 0 THEN 1 ELSE password
  /\ UNCHANGED <<stage, applied, made, rows, total, faults>>

\* ... and without it (or with a short one) the program does not start.
EnsureAuthRefuses ==
  /\ up = "auth" /\ password = 0 /\ up' = "down"
  /\ UNCHANGED <<stage, applied, made, rows, total, password, faults>>

StartStep == CheckApplied \/ Execute \/ Mark \/ Migrated \/ EnsureAuth
=============================================================================
