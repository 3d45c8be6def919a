------------------------------ MODULE LiveList ------------------------------
(* The request list of the console in one browser tab: the page the server   *)
(* renders, the live polls of app.js that redraw it every two seconds, and   *)
(* the bulk delete that waits for the operator's confirmation, while         *)
(* requests arrive, disappear, and are saved and un-saved. A page and a poll *)
(* are two statements each. Of the filters there is the one by the saved     *)
(* column, which is also drawn as the tag of a row.                          *)
EXTENDS Paging, FiniteSetsExt

CONSTANTS
  MaxId,        \* bound: requests that arrive
  Asked,        \* bound: the addresses operators ask for
  Picked        \* bound: the ids operators select

VARIABLES
  rows, lastId, \* the ids in the table; AUTOINCREMENT
  saved,        \* the rows with saved = 1
  url,          \* page and saved of location.search
  load,         \* handleRequestsPage at work
  poll,         \* inFlight, and handleListRequests at work
  live,         \* the toggle is on and the tab is visible
  lastKey,      \* lastKey of app.js
  dom,          \* what the tab shows
  dialog,       \* the ids of the confirm dialog
  posted,       \* the bulk_delete under way: at most one set of ids
  meant         \* history: the requests the dialog is about that are still there

tableVars == <<rows, lastId, saved>>
pageVars  == <<url, load, poll, lastKey>>
askVars   == <<dialog, posted, meant>>
vars == <<tableVars, pageVars, live, dom, askVars>>

ASSUME LiveListAssumption ==
  /\ MaxId \in Nat
  /\ Asked \subseteq [page : Nat \ {0}, saved : {"any", "0", "1"}]

Ids   == 1..MaxId
Home  == [page |-> 1, saved |-> "any"]
Urls  == Asked \cup {Home}
Query == [pc : {"idle", "count", "select", "done"}, page : Nat, total : 0..MaxId,
          items : SUBSET Ids, tags : SUBSET Ids, torn : BOOLEAN, again : BOOLEAN]
Tab   == [items : SUBSET Ids, tags : SUBSET Ids, total : 0..MaxId,
          checked : SUBSET Ids, count : Nat, torn : BOOLEAN]
NoQuery == [pc |-> "idle", page |-> 0, total |-> 0, items |-> {}, tags |-> {},
            torn |-> FALSE, again |-> FALSE]
NoKey   == <<-1, 0>>
Ask(p)  == [NoQuery EXCEPT !.pc = "count", !.page = p]
Page(q) == [items |-> q.items, tags |-> q.tags, total |-> q.total,
            checked |-> {}, count |-> 0, torn |-> q.torn]

Init ==
  /\ rows = {} /\ lastId = 0 /\ saved = {}
  /\ url = Home /\ load = Ask(1) /\ poll = NoQuery
  /\ live = FALSE /\ lastKey = NoKey /\ dom = Page(NoQuery)
  /\ dialog = {} /\ posted = {} /\ meant = {}

-----------------------------------------------------------------------------
(* History: a change of the table between the statements of a poll tears it, *)
(* and a page also when it comes before the page is shown.                   *)
TornPoll == [poll EXCEPT !.torn = @ \/ poll.pc = "select"]
TornLoad == [load EXCEPT !.torn = @ \/ load.pc \in {"select", "done"} \/ load.again]
Change(ids) == /\ rows' = ids /\ saved' = saved \cap ids /\ meant' = meant \cap (rows \cap ids)
               /\ load' = TornLoad /\ poll' = TornPoll

\* A mutant: without AUTOINCREMENT, SQLite takes the id after the largest there is.
CaptureReusing ==
  LET id == Max(rows \cup {0}) + 1 IN
  /\ lastId < MaxId /\ lastId' = lastId + 1 /\ Change(rows \cup {id})
  /\ UNCHANGED <<url, live, lastKey, dom, dialog, posted>>
\* A request is captured; requests are flushed, or deleted in another tab.
Capture == /\ lastId < MaxId /\ lastId' = lastId + 1 /\ Change(rows \cup {lastId + 1})
           /\ UNCHANGED <<url, live, lastKey, dom, dialog, posted>>
Vanish  == /\ \E i \in rows : Change(rows \ {i})
           /\ UNCHANGED <<lastId, url, live, lastKey, dom, dialog, posted>>

(* A request is saved or un-saved in another tab, or saved by the classifier *)
(* after it was stored. What has been read of it, or is shown, may be wrong  *)
(* from here on.                                                             *)
Mark ==
  /\ \E i \in rows : saved' = (saved \ {i}) \cup ({i} \ saved)
  /\ load' = TornLoad /\ poll' = [poll EXCEPT !.torn = @ \/ poll.pc \in {"select", "done"}]
  /\ dom' = [dom EXCEPT !.torn = TRUE]
  /\ UNCHANGED <<rows, lastId, url, live, lastKey, askVars>>

\* queryRequests: COUNT, then SELECT, of the rows the filter lets through.
View      == {i \in rows : url.saved \in {"0", "1"} => (i \in saved <=> url.saved = "1")}
Count(q)  == [q EXCEPT !.pc = "select", !.total = Cardinality(View)]
\* A mutant: the count is of the filter's rows, the page is not.
SelectAll(q) == LET items == PageOf(rows, q.page)
                IN  [q EXCEPT !.pc = "done", !.items = items, !.tags = items \cap saved]
Select(q) == LET items == PageOf(View, q.page)
             IN  [q EXCEPT !.pc = "done", !.items = items, !.tags = items \cap saved]

LoadStep ==
  /\ \/ load.pc = "count"  /\ load' = Count(load)
     \/ load.pc = "select" /\ load' = Select(load)
  /\ UNCHANGED <<tableVars, url, poll, live, lastKey, dom, askVars>>

(* handleRequestsPage: a number beyond the last page is replaced and asked   *)
(* for again, once.                                                          *)
Clamped == Clamp(load.page, Pages(load.total))
\* A mutant: the number is replaced, the rows are those of the first query.
LoadedOnce ==
  /\ load.pc = "done" /\ load' = NoQuery /\ dom' = Page(load)
  /\ UNCHANGED <<tableVars, url, poll, live, lastKey, askVars>>
Loaded ==
  /\ load.pc = "done"
  /\ IF Clamped # load.page /\ ~load.again
     THEN /\ load' = [load EXCEPT !.pc = "count", !.page = Clamped, !.again = TRUE]
          /\ UNCHANGED dom
     ELSE load' = NoQuery /\ dom' = Page(load)
  /\ UNCHANGED <<tableVars, url, poll, live, lastKey, askVars>>

(* A link, the filter form, or location.reload: a new document, with no      *)
(* poll under way and no lastKey. The old one is left out from here on.      *)
Open(u) == /\ url' = u /\ load' = Ask(u.page)
           /\ poll' = NoQuery /\ lastKey' = NoKey /\ dom' = Page(NoQuery)
Navigate == /\ load.pc = "idle" /\ posted = {} /\ dialog = {} /\ \E u \in Urls : Open(u)
            /\ UNCHANGED <<tableVars, live, askVars>>

-----------------------------------------------------------------------------
Toggle == live' = ~live /\ UNCHANGED <<tableVars, pageVars, dom, askVars>>

\* poll: nothing while an answer is awaited. The page is location.search's, not a replaced one.
Poll == /\ live /\ load.pc = "idle" /\ poll.pc = "idle" /\ poll' = Ask(url.page)
        /\ UNCHANGED <<tableVars, url, load, live, lastKey, dom, askVars>>
PollStep ==
  /\ \/ poll.pc = "count"  /\ poll' = Count(poll)
     \/ poll.pc = "select" /\ poll' = Select(poll)
  /\ UNCHANGED <<tableVars, url, load, live, lastKey, dom, askVars>>
PollFails ==
  /\ poll.pc # "idle" /\ poll' = NoQuery
  /\ UNCHANGED <<tableVars, url, load, live, lastKey, dom, askVars>>

\* A mutant: the key is the number of rows alone.
KeyTotal(q) == <<q.total, 0>>
\* The number of rows and the first id: not the tags, nor the rows below the first.
Key(q) == <<q.total, Max(q.items \cup {0})>>
\* A mutant: the selection's counter is not refreshed.
RedrawSilently(q) == [Page(q) EXCEPT !.count = dom.count]
\* render: new rows, none of them checked, and the event that makes update() count again.
Redraw(q) == Page(q)
Answer ==
  /\ poll.pc = "done" /\ poll' = NoQuery
  /\ IF Key(poll) = lastKey THEN UNCHANGED <<dom, lastKey>>
     ELSE dom' = Redraw(poll) /\ lastKey' = Key(poll)
  /\ UNCHANGED <<tableVars, url, load, live, askVars>>

-----------------------------------------------------------------------------
\* Check boxes, one by one or all of the page, and update().
Check ==
  /\ dialog = {} /\ load.pc = "idle"
  /\ \E ids \in {dom.items} \cup {dom.checked \cup {i} : i \in dom.items}
              \cup {dom.checked \ {i} : i \in dom.checked} :
       ids \subseteq Picked /\ dom' = [dom EXCEPT !.checked = ids, !.count = Cardinality(ids)]
  /\ UNCHANGED <<tableVars, pageVars, live, askVars>>

\* The click: the ids of the checked boxes, and the dialog that names their number.
Click ==
  /\ dialog = {} /\ posted = {} /\ load.pc = "idle" /\ dom.checked # {}
  /\ dialog' = dom.checked /\ meant' = dom.checked \cap rows
  /\ UNCHANGED <<tableVars, pageVars, live, dom, posted>>
Cancel ==
  /\ dialog # {} /\ dialog' = {} /\ meant' = {}
  /\ UNCHANGED <<tableVars, pageVars, live, dom, posted>>

\* A mutant: the boxes are read after the confirmation.
ConfirmLate ==
  /\ dialog # {} /\ dialog' = {} /\ posted' = {dom.checked}
  /\ UNCHANGED <<tableVars, pageVars, live, dom, meant>>
Confirm ==
  /\ dialog # {} /\ dialog' = {} /\ posted' = {dialog}
  /\ UNCHANGED <<tableVars, pageVars, live, dom, meant>>

\* handleBulkDelete, and the reload that follows its answer (a toast if it failed).
Delete ==
  /\ posted # {} /\ posted' = {} /\ meant' = {}
  /\ rows' = rows \ UNION posted /\ saved' = saved \ UNION posted /\ Open(url)
  /\ UNCHANGED <<lastId, live, dialog>>
DeleteFails ==
  /\ posted # {} /\ posted' = {} /\ meant' = {}
  /\ UNCHANGED <<tableVars, pageVars, live, dom, dialog>>

Next == \/ Capture \/ Vanish \/ Mark \/ LoadStep \/ Loaded \/ Navigate \/ Toggle
        \/ Poll \/ PollStep \/ PollFails \/ Answer
        \/ Check \/ Click \/ Cancel \/ Confirm \/ Delete \/ DeleteFails

(* Fairness: what the browser has asked for is answered, and the interval    *)
(* timer fires while the list is live. The operator need not do anything.    *)
Spec == Init /\ [][Next]_vars /\ WF_vars(LoadStep) /\ WF_vars(Loaded) /\ WF_vars(Poll)
             /\ WF_vars(PollStep) /\ WF_vars(Answer) /\ WF_vars(Delete)

-----------------------------------------------------------------------------
(* Every variable keeps its type.                                            *)
ListTypeOK ==
  /\ rows \subseteq Ids /\ lastId \in 0..MaxId /\ saved \subseteq rows
  /\ url \in Urls /\ load \in Query /\ poll \in Query /\ live \in BOOLEAN
  /\ dom \in Tab /\ dom.checked \subseteq dom.items /\ Cardinality(dom.items) <= PerPage
  /\ dialog \subseteq Ids /\ posted \subseteq SUBSET Ids /\ meant \subseteq rows

(* "delete N selected request(s)?": of the requests there are when it runs,  *)
(* a bulk delete takes exactly those that were selected when the operator    *)
(* was asked - although the list may be redrawn, and the selection lost,     *)
(* while the dialog is open - and never one that arrived since, although     *)
(* those selected may be gone and it names them by their ids alone.          *)
DeletesWhatWasMeant ==
  [][Delete => rows' = rows \ meant]_vars

(* The number next to the button is that of the boxes that are checked, also *)
(* after a poll has redrawn the list under the operator's hands.             *)
CountsTheSelection == dom.count = Cardinality(dom.checked)

(* A page that the server renders shows the rows of a page that exists, with *)
(* their tags, whatever number was asked for (one whose offset wraps around  *)
(* included), if the table did not change meanwhile.                         *)
PageShowsItsRows ==
  [][load.pc = "done" /\ load'.pc = "idle" /\ ~load.torn
     => /\ dom'.items = PageOf(View, Clamp(url.page, Pages(Cardinality(View))))
        /\ dom'.tags = dom'.items \cap saved]_vars

(* A list that stays live and open comes to show the number of the rows of   *)
(* its filter, and the newest row of its page first, whatever raced with its *)
(* polls, when the table comes to rest and polls are answered in the end: an *)
(* answer with the key of the last one is not drawn. It shows all rows of    *)
(* the page and their tags only if none was saved or un-saved since they     *)
(* were read and the answer was not torn: neither is in the key. (A poll     *)
(* that fails looks like one whose answer has the key of the last.)          *)
LiveCatchesUp ==
  <>[](live /\ load.pc = "idle") /\ <>[][~Mark /\ (PollFails => Answer)]_vars =>
    <>[](LET page == PageOf(View, url.page) IN
         /\ dom.total = Cardinality(View) /\ Max(dom.items \cup {0}) = Max(page \cup {0})
         /\ dom.torn \/ (dom.items = page /\ dom.tags = page \cap saved))
=============================================================================
