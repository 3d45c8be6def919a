--------------------------- MODULE CaptureProofs ----------------------------
(* Safety theorems about what one capture leaves behind: the alerts of a     *)
(* request, and its place in the all-time total.                             *)
EXTENDS OoblivionSafety, OoblivionFlush, FiniteSetTheorems

-----------------------------------------------------------------------------
(* The alerts. A job goes from the rules still to come (Upcoming) to the     *)
(* queue, to the post under way, to the chat or to the messages that may     *)
(* arrive late. Of one request, what is further on always has the smaller    *)
(* rule id, and no message is both in the chat and still to arrive.          *)
In(s)      == {s[i] : i \in 1..Len(s)}
InOrder(s) == \A i, k \in 1..Len(s) : i < k /\ s[i].request = s[k].request => s[i].rule < s[k].rule
Ahead(A, B) == \A a \in A, b \in B : a.request = b.request => a.rule < b.rule
Apart(A, B) == \A a \in A, b \in B : a.request = b.request => a.rule # b.rule

\* Until its handler has read the rules, every rule may still come.
Early    == {"new", "count", "scopes", "attach", "rules"}
Upcoming == {j \in Jobs : pc[j.request] \in Early \/ j.rule \in todo[j.request]}
Sent     == In(chat) \cup late

AlertInv ==
  /\ AlertsInOrder /\ InOrder(queue) /\ Apart(late, In(chat))
  /\ Ahead(Sent, posting)
  /\ Ahead(Sent \cup posting, In(queue))
  /\ Ahead(Sent \cup posting \cup In(queue), Upcoming)

\* How a post ends: given up, answered 200, or accepted late (a crash gives up the post
\* under way and empties the queue, too).
GivesUp  == /\ posting' = {} /\ queue' \in {queue, <<>>}
            /\ late' \subseteq late \cup posting /\ UNCHANGED chat
Answered == /\ posting' = {} /\ UNCHANGED <<queue, late>>
            /\ \E j \in posting : chat' = Append(chat, Message(j, FALSE))
Arrives  == /\ UNCHANGED <<queue, posting>>
            /\ \E j \in late : late' = late \ {j} /\ chat' = Append(chat, Message(j, TRUE))

\* What a step does to the alerts: nothing, receive one, queue the next one, or end a post.
AlertMove ==
  /\ Upcoming' \subseteq Upcoming
  /\ \/ UNCHANGED <<queue, posting, late, chat>>
     \/ /\ queue # <<>> /\ queue' = Tail(queue)
        /\ posting' \in {posting, {Head(queue)}} /\ UNCHANGED <<late, chat>>
     \/ \E j \in Upcoming : queue' = Append(queue, j) /\ Ahead({j}, Upcoming')
                            /\ UNCHANGED <<posting, late, chat>>
     \/ GivesUp \/ Answered \/ Arrives

LEMMA AppendInOrder ==
  ASSUME NEW s \in Seq(Jobs), NEW j \in Jobs
  PROVE  /\ Append(s, j) \in Seq(Jobs) /\ In(Append(s, j)) = In(s) \cup {j}
         /\ InOrder(s) /\ Ahead(In(s), {j}) => InOrder(Append(s, j))
<1>1. /\ Append(s, j) \in Seq(Jobs) /\ Len(Append(s, j)) = Len(s) + 1 /\ Len(s) \in Nat
      /\ \A i \in 1..Len(s) : Append(s, j)[i] = s[i]
      /\ Append(s, j)[Len(s) + 1] = j
  OBVIOUS
<1>2. In(Append(s, j)) = In(s) \cup {j}
  BY <1>1 DEF In
<1>3. ASSUME InOrder(s), Ahead(In(s), {j}) PROVE InOrder(Append(s, j))
  <2>1. \A i \in 1..Len(s) : s[i].request = j.request => s[i].rule < j.rule
    BY <1>3 DEF Ahead, In
  <2> SUFFICES ASSUME NEW i \in 1..Len(s) + 1, NEW k \in 1..Len(s) + 1, i < k,
                      Append(s, j)[i].request = Append(s, j)[k].request
               PROVE  Append(s, j)[i].rule < Append(s, j)[k].rule
    BY <1>1 DEF InOrder
  <2>2. i \in 1..Len(s)
    BY <1>1
  <2>3. CASE k = Len(s) + 1
    BY <1>1, <2>1, <2>2, <2>3
  <2>4. CASE k \in 1..Len(s)
    BY <1>1, <1>3, <2>2, <2>4 DEF InOrder
  <2> QED  BY <1>1, <2>3, <2>4
<1> QED  BY <1>1, <1>2, <1>3

LEMMA TailInOrder ==
  ASSUME NEW s \in Seq(Jobs), s # <<>>
  PROVE  /\ Tail(s) \in Seq(Jobs) /\ Head(s) \in In(s) /\ In(Tail(s)) \subseteq In(s)
         /\ InOrder(s) => InOrder(Tail(s)) /\ Ahead({Head(s)}, In(Tail(s)))
<1>1. /\ Tail(s) \in Seq(Jobs) /\ Len(Tail(s)) = Len(s) - 1 /\ Len(s) \in Nat \ {0} /\ Head(s) = s[1]
      /\ \A i \in 1..Len(s) - 1 : Tail(s)[i] = s[i + 1] /\ i + 1 \in 1..Len(s)
  OBVIOUS
<1>2. Head(s) \in In(s) /\ In(Tail(s)) \subseteq In(s)
  BY <1>1 DEF In
<1>3. ASSUME InOrder(s) PROVE InOrder(Tail(s))
  BY <1>1, <1>3 DEF InOrder
<1>4. ASSUME InOrder(s) PROVE Ahead({Head(s)}, In(Tail(s)))
  BY <1>1, <1>4 DEF InOrder, Ahead, In
<1> QED  BY <1>1, <1>2, <1>3, <1>4

\* A message in the chat stands for its job.
LEMMA AppendMessage ==
  ASSUME TypeOK, AlertsInOrder, NEW j \in Jobs, NEW b \in BOOLEAN, chat' = Append(chat, Message(j, b)),
         Ahead(In(chat), {j}) \/ (b /\ Apart({j}, In(chat)))
  PROVE  /\ AlertsInOrder'
         /\ In(chat') = In(chat) \cup {Message(j, b)}
         /\ Message(j, b).request = j.request /\ Message(j, b).rule = j.rule
<1> DEFINE m == Message(j, b)
<1>1. m.request = j.request /\ m.rule = j.rule /\ m.late = b /\ m \in Messages
  BY DEF Message, Messages, Jobs
<1> HIDE DEF m
<1>2. /\ Len(chat') = Len(chat) + 1 /\ Len(chat) \in Nat
      /\ \A i \in 1..Len(chat) : chat'[i] = chat[i]
      /\ chat'[Len(chat) + 1] = m
  BY <1>1 DEF TypeOK, TelegramTypeOK, m
<1>3. In(chat') = In(chat) \cup {m}
  BY <1>2 DEF In
<1>4. AlertsInOrder'
  <2>1. \A i \in 1..Len(chat) : chat[i].request = j.request =>
           chat[i].rule < j.rule \/ (b /\ chat[i].rule # j.rule)
    BY DEF Ahead, Apart, In
  <2> SUFFICES ASSUME NEW i \in 1..Len(chat) + 1, NEW k \in 1..Len(chat) + 1, i < k,
                      chat'[i].request = chat'[k].request
               PROVE  \/ chat'[i].rule < chat'[k].rule
                      \/ chat'[k].late /\ chat'[i].rule # chat'[k].rule
    BY <1>2 DEF AlertsInOrder
  <2>2. i \in 1..Len(chat)
    BY <1>2
  <2>3. CASE k = Len(chat) + 1
    BY <1>1, <1>2, <2>1, <2>2, <2>3
  <2>4. CASE k \in 1..Len(chat)
    BY <1>2, <2>2, <2>4 DEF AlertsInOrder
  <2> QED  BY <1>2, <2>3, <2>4
<1> QED  BY <1>1, <1>3, <1>4 DEF m

\* What has left the queue stays behind what was sent, whichever way its post ends.
SameAlert(a, m) == a.request = m.request /\ a.rule = m.rule

LEMMA KeepAhead ==
  ASSUME AlertInv, AlertsInOrder', Apart(late', In(chat')), InOrder(queue'),
         In(queue') \subseteq In(queue), Upcoming' \subseteq Upcoming,
         \A m \in Sent' : \E a \in Sent \cup posting : SameAlert(a, m),
         \/ posting' = {}
         \/ posting' = posting /\ \A m \in Sent' : \E a \in Sent : SameAlert(a, m)
  PROVE  AlertInv'
<1>1. Ahead(Sent', posting')
  BY DEF AlertInv, Ahead, SameAlert
<1>2. \A m \in Sent' \cup posting' : \E a \in Sent \cup posting : SameAlert(a, m)
  BY DEF SameAlert
<1>3. Ahead(Sent' \cup posting', In(queue'))
  BY <1>2 DEF AlertInv, Ahead, SameAlert
<1>4. Ahead(Sent' \cup posting' \cup In(queue'), Upcoming')
  BY <1>2 DEF AlertInv, Ahead, SameAlert
<1> QED  BY <1>1, <1>3, <1>4 DEF AlertInv

LEMMA EndPost ==
  ASSUME TypeOK, AlertInv, Upcoming' \subseteq Upcoming, GivesUp \/ Answered \/ Arrives
  PROVE  AlertInv'
<1>0. late \subseteq Jobs /\ posting \subseteq Jobs
  BY DEF TypeOK, TelegramTypeOK
<1>1. InOrder(queue') /\ In(queue') \subseteq In(queue)
  <2>1. queue' \in {queue, <<>>}
    BY DEF GivesUp, Answered, Arrives
  <2> QED  BY <2>1 DEF AlertInv, InOrder, In
<1>2. Apart(posting, In(chat))
  <2>1. \A a \in posting, b \in In(chat) : a.request = b.request => b.rule < a.rule
    BY DEF AlertInv, Ahead, Sent
  <2>2. \A a \in posting, b \in In(chat) : a.rule \in Int /\ b.rule \in Int
    <3>1. In(chat) \subseteq Messages
      BY DEF TypeOK, TelegramTypeOK, In
    <3> QED  BY <1>0, <3>1, DatabaseAssumption DEF Jobs, Messages, RuleIds
  <2> QED  BY <2>1, <2>2 DEF Apart
<1>3. CASE GivesUp
  <2>1. In(chat') = In(chat) /\ AlertsInOrder'
    BY <1>3 DEF GivesUp, AlertInv, AlertsInOrder, In
  <2>2. Apart(late', In(chat'))
    BY <1>2, <1>3, <2>1 DEF GivesUp, AlertInv, Apart
  <2>3. \A m \in Sent' : \E a \in Sent \cup posting : SameAlert(a, m)
    BY <1>3, <2>1 DEF GivesUp, Sent, SameAlert
  <2> QED  BY <1>1, <1>3, <2>1, <2>2, <2>3, KeepAhead DEF GivesUp
<1>4. CASE Answered
  <2>1. PICK j \in posting : chat' = Append(chat, Message(j, FALSE))
    BY <1>4 DEF Answered
  <2>2. Ahead(In(chat), {j}) /\ Ahead(late, {j}) /\ j \in Jobs
    BY <1>0 DEF AlertInv, Ahead, Sent
  <2>3. /\ AlertsInOrder' /\ In(chat') = In(chat) \cup {Message(j, FALSE)}
        /\ SameAlert(j, Message(j, FALSE))
    BY <2>1, <2>2, AppendMessage DEF AlertInv, SameAlert
  <2>4. Apart(late', In(chat'))
    <3>1. \A l \in late : l.rule \in Int /\ j.rule \in Int
      BY <1>0, <2>2, DatabaseAssumption DEF Jobs, RuleIds
    <3>2. Apart(late, {j})
      BY <2>2, <3>1 DEF Ahead, Apart
    <3> QED  BY <1>4, <2>3, <3>2 DEF Answered, AlertInv, Apart, SameAlert
  <2>5. \A m \in Sent' : \E a \in Sent \cup posting : SameAlert(a, m)
    BY <1>4, <2>3 DEF Answered, Sent, SameAlert
  <2> QED  BY <1>1, <1>4, <2>3, <2>4, <2>5, KeepAhead DEF Answered
<1>5. CASE Arrives
  <2>1. PICK j \in late : late' = late \ {j} /\ chat' = Append(chat, Message(j, TRUE))
    BY <1>5 DEF Arrives
  <2>2. Apart({j}, In(chat)) /\ j \in Jobs
    BY <1>0 DEF AlertInv, Apart
  <2>3. /\ AlertsInOrder' /\ In(chat') = In(chat) \cup {Message(j, TRUE)}
        /\ SameAlert(j, Message(j, TRUE))
    BY <2>1, <2>2, AppendMessage DEF AlertInv, SameAlert
  <2>4. Apart(late', In(chat'))
    <3>1. Apart(late \ {j}, {j})
      BY <1>0 DEF Apart, Jobs
    <3> QED  BY <2>1, <2>3, <3>1 DEF AlertInv, Apart, SameAlert
  <2>5. \A m \in Sent' : \E a \in Sent : SameAlert(a, m)
    BY <2>1, <2>3 DEF Sent, SameAlert
  <2>6. posting' = posting
    BY <1>5 DEF Arrives
  <2> QED  BY <1>1, <2>3, <2>4, <2>5, <2>6, KeepAhead
<1> QED  BY <1>3, <1>4, <1>5

LEMMA MoveAlertInv == ASSUME TypeOK, AlertInv, AlertMove PROVE AlertInv'
<1> DEFINE U == Upcoming'
<1>0. /\ queue \in Seq(Jobs) /\ posting \subseteq Jobs /\ Upcoming \subseteq Jobs
      /\ U \subseteq Upcoming
  BY DEF TypeOK, TelegramTypeOK, Upcoming, AlertMove
<1>1. ASSUME UNCHANGED <<late, chat>>
      PROVE  AlertsInOrder' /\ Apart(late', In(chat')) /\ Sent' = Sent
  BY <1>1 DEF AlertInv, AlertsInOrder, In, Sent
<1>2. CASE UNCHANGED <<queue, posting, late, chat>>
  <2>1. InOrder(queue') /\ In(queue') = In(queue)
    BY <1>2 DEF AlertInv, InOrder, In
  <2> QED  BY <1>0, <1>1, <1>2, <2>1 DEF AlertInv, Ahead
<1>3. CASE /\ queue # <<>> /\ queue' = Tail(queue)
           /\ posting' \in {posting, {Head(queue)}} /\ UNCHANGED <<late, chat>>
  <2>1. /\ InOrder(queue') /\ In(queue') \subseteq In(queue)
        /\ Head(queue) \in In(queue) /\ Ahead({Head(queue)}, In(queue'))
    BY <1>0, <1>3, TailInOrder DEF AlertInv
  <2> QED  BY <1>0, <1>1, <1>3, <2>1 DEF AlertInv, Ahead
<1>4. ASSUME NEW j \in Upcoming, queue' = Append(queue, j), Ahead({j}, U),
             UNCHANGED <<posting, late, chat>>
      PROVE  AlertInv'
  <2>1. Ahead(Sent \cup posting \cup In(queue), {j})
    BY DEF AlertInv, Ahead
  <2>2. InOrder(queue') /\ In(queue') = In(queue) \cup {j}
    BY <1>0, <1>4, <2>1, AppendInOrder DEF AlertInv, Ahead
  <2> QED  BY <1>0, <1>1, <1>4, <2>1, <2>2 DEF AlertInv, Ahead
<1>5. CASE GivesUp \/ Answered \/ Arrives
  BY <1>0, <1>5, EndPost
<1> QED  BY <1>2, <1>3, <1>4, <1>5 DEF AlertMove

\* A handler moves on and reads at most the rules there are.
LEMMA UpcomingShrinks ==
  ASSUME TypeOK, NEW r \in Requests, pc' = [pc EXCEPT ![r] = pc'[r]],
         todo' = [todo EXCEPT ![r] = todo'[r]],
         pc'[r] \in Early => pc[r] \in Early,
         pc[r] \in Early \/ todo'[r] \subseteq todo[r]
  PROVE  Upcoming' \subseteq Upcoming
<1>1. pc \in [Requests -> CaptureSteps \cup CaptureEnds \cup {"new"}] /\ todo \in [Requests -> SUBSET RuleIds]
  BY DEF TypeOK, CaptureTypeOK
<1> SUFFICES ASSUME NEW j \in Jobs, pc'[j.request] \in Early \/ j.rule \in todo'[j.request]
             PROVE  pc[j.request] \in Early \/ j.rule \in todo[j.request]
  BY DEF Upcoming
<1>2. j.request \in Requests
  BY DEF Jobs
<1>3. CASE j.request = r
  BY <1>1, <1>3
<1>4. CASE j.request # r
  BY <1>1, <1>2, <1>4
<1> QED  BY <1>3, <1>4

LEMMA EnqueueAlerts == ASSUME TypeOK, NEW r \in Requests, EnqueueNext(r) PROVE AlertMove
<1>1. /\ pc \in [Requests -> CaptureSteps \cup CaptureEnds \cup {"new"}]
      /\ todo \in [Requests -> SUBSET RuleIds] /\ pc[r] = "enqueue"
  BY DEF TypeOK, CaptureTypeOK, EnqueueNext
<1>2. CASE Fault /\ Goto(r, "aborted") /\ todo' = [todo EXCEPT ![r] = {}] /\ UNCHANGED tgVars
  <2>1. Upcoming' \subseteq Upcoming
    BY <1>1, <1>2, UpcomingShrinks DEF Goto, Early
  <2> QED  BY <1>2, <2>1 DEF AlertMove, tgVars
<1>3. ASSUME NEW n \in todo[r], \A m \in todo[r] : n <= m, Enqueue([rule |-> n, request |-> r]),
             todo' = [todo EXCEPT ![r] = @ \ {n}],
             Goto(r, IF todo[r] = {n} THEN "notified" ELSE "enqueue")
      PROVE  AlertMove
  <2> DEFINE j == [rule |-> n, request |-> r]
  <2>1. j \in Upcoming
    BY <1>1 DEF Upcoming, Jobs
  <2>2. todo'[r] = todo[r] \ {n} /\ pc'[r] \in {"notified", "enqueue"}
    BY <1>1, <1>3 DEF Goto
  <2>3. Upcoming' \subseteq Upcoming
    BY <1>1, <1>3, <2>2, UpcomingShrinks DEF Goto, Early
  <2>4. Ahead({j}, Upcoming')
    <3> SUFFICES ASSUME NEW k \in Upcoming', k.request = r PROVE n < k.rule
      BY DEF Ahead
    <3>1. k.rule \in todo[r] \ {n}
      BY <2>2 DEF Upcoming, Early
    <3>2. n \in Int /\ k.rule \in Int
      BY <1>1, <3>1, DatabaseAssumption DEF RuleIds
    <3> QED  BY <1>3, <3>1, <3>2
  <2>5. queue' \in {queue, Append(queue, j)} /\ UNCHANGED <<posting, late, chat>>
    BY <1>3 DEF Enqueue
  <2> HIDE DEF j
  <2> QED  BY <2>1, <2>3, <2>4, <2>5 DEF AlertMove
<1> QED  BY <1>2, <1>3 DEF EnqueueNext

LEMMA CaptureAlerts == ASSUME TypeOK, NEW r \in Requests, Capturing(r) PROVE AlertMove
<1>1. /\ pc \in [Requests -> CaptureSteps \cup CaptureEnds \cup {"new"}]
      /\ todo \in [Requests -> SUBSET RuleIds]
  BY DEF TypeOK, CaptureTypeOK
<1>2. CASE EnqueueNext(r)
  BY <1>2, EnqueueAlerts
<1>3. CASE MatchRules(r)
  <2>1. UNCHANGED <<queue, posting, late, chat>> /\ pc[r] = "rules" /\ pc'[r] \notin Early
    BY <1>1, <1>3 DEF MatchRules, tgVars, Goto, Early
  <2>2. pc' = [pc EXCEPT ![r] = pc'[r]] /\ todo' = [todo EXCEPT ![r] = todo'[r]]
    BY <1>1, <1>3 DEF MatchRules, Goto
  <2>3. Upcoming' \subseteq Upcoming
    BY <2>1, <2>2, UpcomingShrinks DEF Early
  <2> QED  BY <2>1, <2>3 DEF AlertMove
<1>4. CASE Arrive(r) \/ CountCapture(r) \/ MatchScopes(r) \/ ApplyScope(r) \/ MarkNotified(r)
  <2>1. UNCHANGED <<queue, posting, late, chat, todo>> /\ pc' = [pc EXCEPT ![r] = pc'[r]]
    BY <1>1, <1>4
    DEF Arrive, Store, CountCapture, MatchScopes, ApplyScope, MarkNotified, tgVars, Goto
  <2>2. pc'[r] \in Early => pc[r] \in Early
    BY <1>1, <1>4
    DEF Arrive, Store, CountCapture, MatchScopes, ApplyScope, MarkNotified, Goto, Early
  <2>3. Upcoming' \subseteq Upcoming
    BY <1>1, <2>1, <2>2, UpcomingShrinks
  <2> QED  BY <2>1, <2>3 DEF AlertMove
<1> QED  BY <1>2, <1>3, <1>4 DEF Capturing, CaptureStep

LEMMA SendAlerts == ASSUME TypeOK, Sending \/ Arriving PROVE AlertMove
<1>0. UNCHANGED <<pc, todo>> /\ Upcoming' = Upcoming
  BY DEF Sending, Arriving, capVars, Upcoming
<1>1. CASE Receive
  BY <1>0, <1>1 DEF Receive, AlertMove
<1>2. CASE Post
  BY <1>0, <1>2 DEF Post, GiveUp, AlertMove, GivesUp, Answered
<1>3. CASE LogEvent
  BY <1>0, <1>3 DEF LogEvent, AlertMove
<1>4. CASE AcceptLate
  BY <1>0, <1>4 DEF AcceptLate, AlertMove, Arrives
<1> QED  BY <1>1, <1>2, <1>3, <1>4 DEF Sending, Arriving, Send

LEMMA NextAlerts == TypeOK /\ [Next]_vars => AlertMove
<1> SUFFICES ASSUME TypeOK, [Next]_vars PROVE AlertMove  OBVIOUS
<1>1. CASE Crash
  <2>1. /\ pc \in [Requests -> CaptureSteps \cup CaptureEnds \cup {"new"}]
        /\ \A r \in Requests : /\ pc'[r] = IF pc[r] \in CaptureSteps THEN "lost" ELSE pc[r]
                               /\ todo'[r] = {}
    BY <1>1 DEF Crash, TypeOK, CaptureTypeOK
  <2>2. Upcoming' \subseteq Upcoming
    BY <2>1 DEF Upcoming, Jobs, Early
  <2> QED  BY <1>1, <2>2 DEF Crash, GiveUp, AlertMove, GivesUp
<1>2. CASE UNCHANGED <<tgVars, capVars>>
  BY <1>2 DEF tgVars, capVars, AlertMove, Upcoming
<1>3. CASE Boot \/ BootFails \/ Listen \/ SchedTick \/ Scheduling \/ Ticking \/ UNCHANGED vars
           \/ \E h \in Handlers : Serving(h)
  BY <1>2, <1>3 DEF Boot, BootFails, Listen, SchedTick, Scheduling, Ticking, Serving, vars
<1> QED  BY <1>1, <1>3, SendAlerts, CaptureAlerts DEF Next

\* Telegram gets none of the alerts of a request twice, and gets them in the order of the
\* rule ids but for those that arrive after their post was given up: the loop of
\* applyNotifications, the queue and the sender keep the order, and a post that failed, or
\* that a crash cut off, is never tried again.
THEOREM AlertOrder == Spec => []AlertsInOrder
<1>1. Init => AlertInv
  BY DEF Init, TelegramInit, AlertInv, AlertsInOrder, Sent, InOrder, Apart, Ahead, In
<1>2. TypeOK /\ AlertInv /\ [Next]_vars => AlertInv'
  BY NextAlerts, MoveAlertInv
<1>3. AlertInv => AlertsInOrder
  BY DEF AlertInv
<1> QED  BY <1>1, <1>2, <1>3, TypeCorrect, PTL DEF Spec

-----------------------------------------------------------------------------
(* The all-time total. Stored's two statements are apart, so a request in    *)
(* between is in the table and not in the total: it counts once its handler  *)
(* has left the step "count", whether its row is still there or not.         *)
Stored == {r \in Requests : requests[r].state # "fresh" /\ pc[r] # "count"}

CountedAreStored == \A r \in Requests : pc[r] = "count" => requests[r].state # "fresh"

CountInv == CountedAreStored /\ TotalCountsCaptures

\* What a step does to them: nothing, count one capture (or fail to), or a crash.
CountMove ==
  \/ Stored' = Stored /\ total' = total
  \/ \E r \in Requests \ Stored : /\ Stored' = Stored \cup {r}
                                  /\ total' = total + 1 \/ (total' = total /\ Fault)
  \/ Stored \subseteq Stored' /\ total' = total /\ crashes' = crashes + 1

\* An id leaves "fresh" when Store inserts its row, and never becomes "fresh" again.
LEMMA StatementFreshness ==
  ASSUME DatabaseTypeOK, Statement, NEW r \in Requests
  PROVE  \/ requests'[r].state = "fresh" <=> requests[r].state = "fresh"
         \/ pc[r] = "new" /\ pc'[r] # "new" /\ InsertRequest(r)
<1>0. requests \in [Requests -> RequestRow]
  BY DEF DatabaseTypeOK
<1> DEFINE Same == requests'[r].state = "fresh" <=> requests[r].state = "fresh"
<1>1. CASE UNCHANGED requests
  BY <1>1
<1>2. ASSUME NEW q \in Requests, InsertRequest(q), q # r PROVE Same
  BY <1>0, <1>2 DEF InsertRequest
<1>3. ASSUME NEW q \in Requests, NEW row, row.state = requests[q].state, UpdateRequest(q, row) PROVE Same
  BY <1>0, <1>3 DEF UpdateRequest
<1>4. \A q \in Requests : \A s :
        /\ [requests[q] EXCEPT !.saved = TRUE, !.scope = s].state = requests[q].state
        /\ [requests[q] EXCEPT !.saved = TRUE].state = requests[q].state
        /\ [requests[q] EXCEPT !.notified = TRUE].state = requests[q].state
        /\ [requests[q] EXCEPT !.saved = FALSE, !.scope = s].state = requests[q].state
  BY <1>0 DEF RequestRow
<1>5. ASSUME NEW D, DeleteRequests(D) PROVE Same
  BY <1>0, <1>5 DEF DeleteRequests, RequestRows, NoRequest
<1>6. ASSUME NEW s \in ScopeIds, Detach(s) PROVE Same
  BY <1>0, <1>6 DEF Detach, RequestRow
<1> QED
  BY <1>1, <1>2, <1>3, <1>4, <1>5, <1>6
  DEF Statement, Attach, LifeTables, WriteScope, OnlyScopes, WriteRule, OnlyRules,
      InsertLog, DeleteLog, OnlyLog

\* A handler counts what it has just stored.
LEMMA CaptureCount ==
  ASSUME TypeOK, NewIsFresh, CountedAreStored, Statement, Counted, NEW r \in Requests, Capturing(r)
  PROVE  CountMove /\ CountedAreStored'
<1>0. /\ pc \in [Requests -> CaptureSteps \cup CaptureEnds \cup {"new"}]
      /\ requests \in [Requests -> RequestRow]
  BY DEF TypeOK, CaptureTypeOK, DatabaseTypeOK
<1>1. CASE Store(r)
  <2>1. pc[r] = "new" /\ requests[r].state = "fresh" /\ total' = total
    BY <1>1 DEF Store, NewIsFresh, NoRequest, InsertRequest, OnlyRequests, Fault, tables
  <2>2. CASE InsertRequest(r) /\ Goto(r, "count")
    <3>1. /\ pc' = [pc EXCEPT ![r] = "count"] /\ requests'[r].state = "row"
          /\ \A q \in Requests : q # r => requests'[q] = requests[q]
      BY <1>0, <2>2 DEF Goto, InsertRequest
    <3> QED  BY <1>0, <2>1, <3>1 DEF CountMove, Stored, CountedAreStored
  <2>3. CASE Fault /\ Goto(r, "rejected")
    BY <1>0, <2>1, <2>3 DEF Goto, Fault, tables, CountMove, Stored, CountedAreStored
  <2> QED  BY <1>1, <2>2, <2>3 DEF Store
<1>2. CASE CountCapture(r)
  <2>1. pc[r] = "count" /\ pc' = [pc EXCEPT ![r] = "scopes"] /\ requests' = requests
    BY <1>2 DEF CountCapture, Goto, Fault, tables
  <2>2. r \notin Stored /\ Stored' = Stored \cup {r}
    BY <1>0, <2>1 DEF Stored, CountedAreStored
  <2>3. total' = total + 1 \/ (total' = total /\ Fault)
    BY <1>2 DEF CountCapture, Fault, tables
  <2>4. CountedAreStored'
    BY <1>0, <2>1 DEF CountedAreStored
  <2> QED  BY <2>2, <2>3, <2>4 DEF CountMove
<1>3. CASE MatchScopes(r) \/ ApplyScope(r) \/ MatchRules(r) \/ EnqueueNext(r) \/ MarkNotified(r)
  <2>1. /\ pc[r] \notin {"new", "count"} /\ pc'[r] # "count"
        /\ \A q \in Requests : q # r => pc'[q] = pc[q]
    BY <1>0, <1>3 DEF MatchScopes, ApplyScope, MatchRules, EnqueueNext, MarkNotified, Goto
  <2>2. \A q \in Requests : requests'[q].state = "fresh" <=> requests[q].state = "fresh"
    BY <2>1, StatementFreshness DEF TypeOK
  <2>3. total' = total
    <3>1. \A q \in Requests : ~CountCapture(q)
      BY <1>0, <2>1 DEF CountCapture, Goto
    <3> QED  BY <3>1 DEF Counted
  <2> QED  BY <2>1, <2>2, <2>3 DEF CountMove, Stored, CountedAreStored
<1> QED  BY <1>1, <1>2, <1>3 DEF Capturing, Arrive, CaptureStep

LEMMA NextCount ==
  ASSUME TypeOK, NewIsFresh, CountedAreStored, [Next]_vars
  PROVE  CountMove /\ CountedAreStored'
<1>0. Statement /\ Counted /\ pc \in [Requests -> CaptureSteps \cup CaptureEnds \cup {"new"}]
  BY NextStatement, NextCounts DEF TypeOK, CaptureTypeOK
<1>1. CASE Crash
  <2>1. /\ requests' = requests /\ total' = total /\ crashes' = crashes + 1
        /\ \A r \in Requests : pc'[r] = IF pc[r] \in CaptureSteps THEN "lost" ELSE pc[r]
    BY <1>0, <1>1 DEF Crash, dbVars
  <2>2. \A r \in Requests : pc'[r] # "count"
    BY <2>1 DEF CaptureSteps
  <2> QED  BY <2>1, <2>2 DEF CountMove, Stored, CountedAreStored
<1>2. CASE UNCHANGED pc
  <2>1. \A r \in Requests : requests'[r].state = "fresh" <=> requests[r].state = "fresh"
    BY <1>0, <1>2, StatementFreshness DEF TypeOK
  <2>2. \A r \in Requests : ~CountCapture(r)
    BY <1>0, <1>2 DEF CountCapture, Goto
  <2> QED  BY <1>0, <1>2, <2>1, <2>2 DEF Counted, CountMove, Stored, CountedAreStored
<1>3. CASE Boot \/ BootFails \/ Listen \/ SchedTick \/ Sending \/ Arriving \/ Scheduling \/ Ticking \/ UNCHANGED vars
           \/ \E h \in Handlers : Serving(h)
  BY <1>2, <1>3
  DEF Boot, BootFails, Listen, SchedTick, Sending, Arriving, Scheduling, Ticking, Serving, vars, capVars
<1> QED  BY <1>0, <1>1, <1>3, CaptureCount DEF Next

LEMMA MoveCountInv ==
  ASSUME TypeOK, TypeOK', Counted, TotalCountsCaptures, CountMove,
         crashes' \in {crashes, crashes + 1}
  PROVE  TotalCountsCaptures'
<1>1. /\ total \in Nat /\ faults \in Nat /\ crashes \in Nat
      /\ faults' \in {faults, faults + 1}
  BY DatabaseAssumption, OoblivionAssumption DEF TypeOK, DatabaseTypeOK, Counted
<1>2. /\ Stored \subseteq Requests /\ Stored' \subseteq Requests
      /\ IsFiniteSet(Stored) /\ IsFiniteSet(Stored')
      /\ Cardinality(Stored) \in Nat /\ Cardinality(Stored') \in Nat
  BY DatabaseAssumption, FS_Subset, FS_CardinalityType DEF Stored
<1>3. /\ total <= Cardinality(Stored)
      /\ faults = 0 /\ crashes = 0 => total = Cardinality(Stored)
  BY DEF TotalCountsCaptures, Stored
<1> SUFFICES /\ total' <= Cardinality(Stored')
             /\ faults' = 0 /\ crashes' = 0 => total' = Cardinality(Stored')
  BY DEF TotalCountsCaptures, Stored
<1>4. faults' = 0 /\ crashes' = 0 => faults = 0 /\ crashes = 0
  BY <1>1
<1>5. CASE Stored' = Stored /\ total' = total
  BY <1>3, <1>4, <1>5
<1>6. ASSUME NEW r \in Requests \ Stored, Stored' = Stored \cup {r},
             total' = total + 1 \/ (total' = total /\ Fault)
      PROVE  /\ total' <= Cardinality(Stored')
             /\ faults' = 0 /\ crashes' = 0 => total' = Cardinality(Stored')
  <2>1. Cardinality(Stored') = Cardinality(Stored) + 1
    BY <1>2, <1>6, FS_AddElement
  <2>2. Fault => faults' # 0
    BY <1>1 DEF Fault
  <2> QED  BY <1>1, <1>2, <1>3, <1>4, <1>6, <2>1, <2>2
<1>7. CASE Stored \subseteq Stored' /\ total' = total /\ crashes' = crashes + 1
  <2>1. Cardinality(Stored) <= Cardinality(Stored')
    BY <1>2, <1>7, FS_Subset
  <2> QED  BY <1>1, <1>2, <1>3, <1>7, <2>1
<1> QED  BY <1>5, <1>6, <1>7 DEF CountMove

\* README: the "All-time total survives flushes": each capture counts once, however the
\* two statements of Store are interleaved with flushes, deletes and other captures; only
\* a fault or a crash in between loses one.
THEOREM TotalIsExact == Spec => []TotalCountsCaptures
<1>1. Init => CountInv
  <2> SUFFICES ASSUME Init PROVE CountInv  OBVIOUS
  <2>1. \A r \in Requests : pc[r] = "new" /\ requests[r].state = "fresh"
    BY DEF Init, DatabaseInit, CaptureInit, NoRequest
  <2>2. total = 0 /\ Stored = {} /\ CountedAreStored
    BY <2>1 DEF Init, DatabaseInit, Stored, CountedAreStored
  <2> QED  BY <2>2, FS_EmptySet DEF CountInv, TotalCountsCaptures, Stored
<1>2. TypeOK /\ TypeOK' /\ NewIsFresh /\ CountInv /\ [Next]_vars => CountInv'
  <2> SUFFICES ASSUME TypeOK, TypeOK', NewIsFresh, CountInv, [Next]_vars PROVE CountInv'  OBVIOUS
  <2>1. crashes' \in {crashes, crashes + 1}
    BY DEF Next, Boot, BootFails, Listen, SchedTick, Crash, Sending, Arriving, Scheduling, Ticking,
           Capturing, Serving, vars
  <2> QED  BY <2>1, NextCount, NextCounts, MoveCountInv DEF CountInv
<1>3. CountInv => TotalCountsCaptures
  BY DEF CountInv
<1> QED  BY <1>1, <1>2, <1>3, TypeCorrect, Fresh, PTL DEF Spec
=============================================================================
