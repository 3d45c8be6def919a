------------------------------ MODULE Telegram ------------------------------
(* internal/telegram: a bounded queue of alerts and the one goroutine that   *)
(* sends them. An alert that fails leaves a notification_log row.            *)
EXTENDS Database, Sequences

CONSTANTS
  QueueCap,      \* make(chan Job, 256)
  TokenSet,      \* TELEGRAM_BOT_TOKEN is not empty
  ChatSet,       \* TELEGRAM_CHAT_ID is not empty
  MaxLate        \* bound: messages that are late at the same time

VARIABLES
  queue,         \* Sender.jobs
  posting,       \* the job run() is posting to Telegram: {} or {j}
  logging,       \* the job whose failure it is about to log: {} or {j}
  late,          \* external: messages whose post was given up and which may still arrive
  chat           \* external: the messages Telegram accepted, in order

tgVars == <<queue, posting, logging, late, chat>>

Jobs     == [rule: RuleIds, request: Requests]
Messages == [rule: RuleIds, request: Requests, late: BOOLEAN]
Message(j, isLate) == [rule |-> j.rule, request |-> j.request, late |-> isLate]

ASSUME TelegramAssumption ==
  QueueCap \in Nat \ {0} /\ TokenSet \in BOOLEAN /\ ChatSet \in BOOLEAN /\ MaxLate \in Nat

TelegramInit == queue = <<>> /\ posting = {} /\ logging = {}
                /\ late = {} /\ chat = <<>>

\* Mutants: a queue without a bound, and one that makes its caller wait.
EnqueueUnbounded(j) ==
  queue' = Append(queue, j) /\ UNCHANGED <<posting, logging, late, chat>>
EnqueueBlocking(j) ==
  Len(queue) < QueueCap /\ queue' = Append(queue, j) /\ UNCHANGED <<posting, logging, late, chat>>

\* Never blocks its caller, a request handler: a full queue drops the alert.
Enqueue(j) ==
  /\ queue' = IF TokenSet /\ Len(queue) < QueueCap THEN Append(queue, j) ELSE queue
  /\ UNCHANGED <<posting, logging, late, chat>>

\* The loop of run() takes the next job; without a chat id there is no post.
Receive ==
  /\ posting = {} /\ logging = {} /\ queue # <<>>
  /\ queue' = Tail(queue)
  /\ IF ChatSet THEN posting' = {Head(queue)} /\ UNCHANGED logging
                ELSE logging' = {Head(queue)} /\ UNCHANGED posting
  /\ UNCHANGED <<late, chat, dbVars>>

\* Mutant: a post that failed is tried again.
PostRetrying ==
  \E j \in posting :
    /\ posting' = {} /\ chat' \in {chat, Append(chat, Message(j, FALSE))}
    /\ queue' \in {queue, <<j>> \o queue}
    /\ UNCHANGED <<logging, late, dbVars>>

\* The program stops waiting for an answer, which does not take the message back.
GiveUp(J) == late' = late \/ (Cardinality(late \cup J) <= MaxLate /\ late' = late \cup J)

\* Answered 200, or failed: refused, or without an answer for 10 seconds.
Post ==
  \E j \in posting :
    /\ posting' = {}
    /\ \/ chat' = Append(chat, Message(j, FALSE)) /\ UNCHANGED <<logging, late>>
       \/ logging' = {j} /\ GiveUp({j}) /\ UNCHANGED chat
    /\ UNCHANGED <<queue, dbVars>>

\* Telegram accepts such a message after all, or never.
AcceptLate ==
  \E j \in late :
    /\ late' = late \ {j} /\ chat' = Append(chat, Message(j, TRUE))
    /\ UNCHANGED <<queue, posting, logging, dbVars>>

LogEvent ==
  \E j \in logging :
    /\ logging' = {}
    /\ InsertLog(j) \/ Fails(InsertLogViolation(j))
    /\ UNCHANGED <<queue, posting, late, chat>>

Send == Receive \/ Post \/ LogEvent

TelegramTypeOK ==
  /\ queue \in Seq(Jobs) /\ Len(queue) <= QueueCap
  /\ posting \subseteq Jobs /\ logging \subseteq Jobs
  /\ late \subseteq Jobs /\ chat \in Seq(Messages)
=============================================================================
