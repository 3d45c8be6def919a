--------------------------- MODULE LiveListProofs ---------------------------
(* What the page arithmetic gives for every table and every page that is     *)
(* asked for, and the safety theorems about the list in a browser tab.       *)
EXTENDS LiveList, FiniteSetTheorems, TLAPS

(* The number that is shown is one of the pages.                             *)
LEMMA ClampInRange ==
  ASSUME NEW pages \in Nat \ {0}, NEW asked \in Int
  PROVE  Clamp(asked, pages) \in 1..pages
BY DEF Clamp, AtLeast, AtMost

(* There is a page even of an empty table.                                   *)
LEMMA PagesPositive ==
  ASSUME NEW total \in Nat
  PROVE  Pages(total) \in Nat \ {0}
<1>1. PerPage \in Nat \ {0} BY PagingAssumption
<1>2. (total + PerPage - 1) \div PerPage \in Int BY <1>1
<1>. QED BY <1>2 DEF Pages, AtLeast

(* buildPagination and renderPagination: the numbers offered are pages that  *)
(* exist, the page that is shown is among them, and there are five of them   *)
(* unless there are fewer pages - at both ends of the list as well.          *)
THEOREM NumbersAroundPage ==
  ASSUME NEW total \in Nat, NEW asked \in Int
  PROVE  LET pages == Pages(total)
             page  == Clamp(asked, pages)
             first == FirstNumber(page, pages)
             last  == LastNumber(page, pages)
         IN  /\ 1 <= first /\ first <= page /\ page <= last /\ last <= pages
             /\ last - first = AtMost(4, pages - 1)
<1>1. Pages(total) \in Nat \ {0} BY PagesPositive
<1>2. Clamp(asked, Pages(total)) \in 1..Pages(total) BY <1>1, ClampInRange
<1>. QED BY <1>1, <1>2 DEF FirstNumber, LastNumber, AtLeast, AtMost

(* Of a number and its pages: all pages but the last are full, and the last  *)
(* one is not empty.                                                         *)
LEMMA PagesCoverRows ==
  ASSUME NEW total \in Nat, total > 0
  PROVE  /\ (Pages(total) - 1) * PerPage < total
         /\ total <= Pages(total) * PerPage
<1>1. PerPage \in Nat \ {0} BY PagingAssumption
<1>. DEFINE n == total + PerPage - 1
            q == n \div PerPage
<1>2. n \in Nat BY <1>1
<1>3. q \in Int /\ q * PerPage <= n /\ n < q * PerPage + PerPage BY <1>1, <1>2
<1>4. q >= 1
  <2>1. SUFFICES ASSUME q <= 0 PROVE FALSE BY <1>3
  <2>2. q * PerPage <= 0 BY <1>1, <1>3, <2>1
  <2>. QED BY <1>1, <1>3, <2>2
<1>5. Pages(total) = q BY <1>3, <1>4 DEF Pages, AtLeast
<1>. QED BY <1>1, <1>3, <1>5
(* int arithmetic does not wrap around below IntMax.                         *)
LEMMA WrapSmall ==
  ASSUME NEW n \in Nat, n <= IntMax
  PROVE  Wrap(n) = n
<1>1. IntMax \in Nat \ {0} BY PagingAssumption
<1>. DEFINE m == 2 * (IntMax + 1)
            k == n + IntMax + 1
<1>2. m \in Nat \ {0} /\ k \in Nat /\ k < m BY <1>1
<1>3. k % m = k BY <1>2
<1>. QED BY <1>1, <1>2, <1>3 DEF Wrap

\* Of the page that is shown, the OFFSET is the number of rows on the pages before it.
LEMMA OffsetOfPage ==
  ASSUME NEW total \in Nat, total > 0, total + PerPage <= IntMax, NEW page \in 1..Pages(total)
  PROVE  Offset(page) = (page - 1) * PerPage /\ Offset(page) \in Nat /\ Offset(page) < total
<1>1. PerPage \in Nat \ {0} /\ IntMax \in Nat BY PagingAssumption
<1>2. Pages(total) \in Nat \ {0} BY PagesPositive
<1>4. (Pages(total) - 1) * PerPage < total BY PagesCoverRows
<1>5. (page - 1) * PerPage \in Nat /\ (page - 1) * PerPage <= (Pages(total) - 1) * PerPage
  BY <1>1, <1>2
<1>6. (page - 1) * PerPage < total BY <1>1, <1>2, <1>4, <1>5
<1>7. Wrap((page - 1) * PerPage) = (page - 1) * PerPage BY <1>1, <1>5, <1>6, WrapSmall
<1>. QED BY <1>5, <1>6, <1>7 DEF Offset, AtLeast

-----------------------------------------------------------------------------
(* Newer numbers the rows from 0, without a gap: the OFFSET of a row.        *)
LEMMA NewerRanks ==
  ASSUME NEW ids \in SUBSET Int, IsFiniteSet(ids)
  PROVE  /\ \A i \in ids : Newer(ids, i) \in 0..(Cardinality(ids) - 1)
         /\ \A i, j \in ids : i < j => Newer(ids, j) < Newer(ids, i)
         /\ \A n \in 0..(Cardinality(ids) - 1) : \E i \in ids : Newer(ids, i) = n
<1>. DEFINE Above(i) == {k \in ids : k > i}
            N == Cardinality(ids)
            rank == [i \in ids |-> Newer(ids, i)]
<1>1. \A i : IsFiniteSet(Above(i)) /\ Cardinality(Above(i)) \in Nat BY FS_Subset, FS_CardinalityType
<1>2. N \in Nat BY FS_CardinalityType
<1>3. ASSUME NEW i \in ids PROVE Newer(ids, i) \in 0..(N - 1)
  <2>1. i \notin Above(i) /\ Above(i) \cup {i} \subseteq ids OBVIOUS
  <2>2. Cardinality(Above(i) \cup {i}) = Cardinality(Above(i)) + 1 BY <1>1, <2>1, FS_AddElement
  <2>3. Cardinality(Above(i) \cup {i}) <= N BY <2>1, FS_Subset
  <2>. QED BY <1>1, <1>2, <2>2, <2>3 DEF Newer
<1>4. ASSUME NEW i \in ids, NEW j \in ids, i < j PROVE Newer(ids, j) < Newer(ids, i)
  <2>0. \A k \in ids : k \in Int OBVIOUS
  <2>1. j \notin Above(j) /\ Above(j) \cup {j} \subseteq Above(i)
    <3>1. j \notin Above(j) /\ j \in Above(i) BY <1>4, <2>0
    <3>2. ASSUME NEW k \in Above(j) PROVE k \in Above(i)
      <4>1. k \in ids /\ k > j OBVIOUS
      <4>2. k > i BY <1>4, <2>0, <4>1
      <4>. QED BY <4>1, <4>2
    <3>. QED BY <3>1, <3>2
  <2>2. Cardinality(Above(j) \cup {j}) = Cardinality(Above(j)) + 1 BY <1>1, <2>1, FS_AddElement
  <2>3. Cardinality(Above(j) \cup {j}) <= Cardinality(Above(i)) BY <1>1, <2>1, FS_Subset
  <2>. QED BY <1>1, <2>2, <2>3 DEF Newer
<1>5. IsFiniteSet(0..(N - 1)) /\ Cardinality(0..(N - 1)) = N BY <1>2, FS_Interval
<1>6. rank \in Injection(ids, 0..(N - 1))
  <2>1. rank \in [ids -> 0..(N - 1)] BY <1>3
  <2>2. ASSUME NEW i \in ids, NEW j \in ids, rank[i] = rank[j] PROVE i = j
    <3>1. Newer(ids, i) \in Int /\ Newer(ids, j) \in Int BY <1>3
    <3>. QED BY <1>4, <2>2, <3>1
  <2>. QED BY <2>1, <2>2 DEF Injection, IsInjective
<1>7. rank \in Surjection(ids, 0..(N - 1)) BY <1>5, <1>6, FS_Injection
<1>8. \A n \in 0..(N - 1) : \E i \in ids : Newer(ids, i) = n
  <2>1. \A n \in 0..(N - 1) : \E i \in ids : rank[i] = n BY <1>7 DEF Surjection
  <2>. QED BY <2>1
<1>. QED BY <1>3, <1>4, <1>8

\* No page is longer than the LIMIT, whatever number was asked for.
LEMMA PageIsShort ==
  ASSUME NEW ids \in SUBSET Int, IsFiniteSet(ids), NEW page \in Int
  PROVE  IsFiniteSet(PageOf(ids, page)) /\ Cardinality(PageOf(ids, page)) <= PerPage
<1>. DEFINE P == PageOf(ids, page)
            o == Offset(page)
            T == o..(o + PerPage - 1)
            rank == [i \in P |-> Newer(ids, i)]
<1>1. PerPage \in Nat \ {0} BY PagingAssumption
<1>2. o \in Int
  <2>1. Wrap((page - 1) * PerPage) \in Int
    <3>1. (page - 1) * PerPage \in Int BY <1>1
    <3>2. \A n \in Int : Wrap(n) \in Int BY PagingAssumption DEF Wrap
    <3>. QED BY <3>1, <3>2
  <2>. QED BY <2>1 DEF Offset, AtLeast
<1>3. IsFiniteSet(T) /\ Cardinality(T) = PerPage
  <2>1. o + PerPage - 1 \in Int /\ (o + PerPage - 1) - o + 1 = PerPage /\ o <= o + PerPage - 1 BY <1>1, <1>2
  <2>. HIDE DEF o
  <2>. QED BY <1>1, <1>2, <2>1, FS_Interval
<1>4. rank \in Injection(P, T)
  <2>1. \A i \in P : i \in ids /\ Newer(ids, i) \in Int /\ Newer(ids, i) \in T
    BY <1>1, <1>2, NewerRanks DEF PageOf
  <2>2. ASSUME NEW i \in P, NEW j \in P, rank[i] = rank[j] PROVE i = j
    <3>1. i \in Int /\ j \in Int /\ Newer(ids, i) = Newer(ids, j) BY <2>1, <2>2
    <3>. QED BY <2>1, <3>1, NewerRanks
  <2>. QED BY <2>1, <2>2 DEF Injection, IsInjective
<1>. QED BY <1>3, <1>4, FS_Injection

(* What the console shows of a table that has rows is never an empty page:   *)
(* the LIMIT and OFFSET that queryRequests gives SQLite for the page number  *)
(* of handleRequestsPage select a row, whatever number was asked for. (Of    *)
(* the int arithmetic it takes that the table and a page of it can be        *)
(* counted.)                                                                 *)
THEOREM ShownPageHasRows ==
  ASSUME NEW ids \in SUBSET Int, IsFiniteSet(ids), ids # {},
         Cardinality(ids) + PerPage <= IntMax, NEW asked \in Int
  PROVE  PageOf(ids, Clamp(asked, Pages(Cardinality(ids)))) # {}
<1>. DEFINE total == Cardinality(ids)
            page  == Clamp(asked, Pages(total))
<1>1. total \in Nat /\ total > 0 BY FS_CardinalityType, FS_EmptySet
<1>2. page \in 1..Pages(total) BY <1>1, PagesPositive, ClampInRange
<1>3. Offset(page) \in 0..(total - 1) BY <1>1, <1>2, OffsetOfPage
<1>4. PICK i \in ids : Newer(ids, i) = Offset(page) BY <1>3, NewerRanks
<1>5. i \in PageOf(ids, page) BY <1>3, <1>4, PagingAssumption DEF PageOf
<1>. QED BY <1>5

(* The pages part the table: going through them, an operator sees every row  *)
(* once, if none comes or goes meanwhile.                                    *)
THEOREM EachRowOnOnePage ==
  ASSUME NEW ids \in SUBSET Int, IsFiniteSet(ids), Cardinality(ids) + PerPage <= IntMax,
         NEW i \in ids
  PROVE  \E page \in 1..Pages(Cardinality(ids)) :
           \A other \in 1..Pages(Cardinality(ids)) : i \in PageOf(ids, other) <=> other = page
<1>. DEFINE total == Cardinality(ids)
            k     == Newer(ids, i)
            q     == k \div PerPage
<1>1. PerPage \in Nat \ {0} BY PagingAssumption
<1>2. total \in Nat /\ k \in 0..(total - 1) BY NewerRanks, FS_CardinalityType
<1>3. total > 0 /\ k \in Nat /\ k < total BY <1>2
<1>. HIDE DEF k, total
<1>4. q \in Nat /\ q * PerPage <= k /\ k < q * PerPage + PerPage BY <1>1, <1>3
<1>. HIDE DEF q
<1>5. Pages(total) \in Nat /\ total <= Pages(total) * PerPage BY <1>2, <1>3, PagesPositive, PagesCoverRows
<1>6. q + 1 \in 1..Pages(total)
  <2>1. SUFFICES ASSUME Pages(total) <= q PROVE FALSE BY <1>4, <1>5
  <2>2. Pages(total) * PerPage <= q * PerPage BY <1>1, <1>4, <1>5, <2>1
  <2>. QED BY <1>1, <1>2, <1>3, <1>4, <1>5, <2>2
<1>7. ASSUME NEW other \in 1..Pages(total) PROVE i \in PageOf(ids, other) <=> other = q + 1
  <2>1. Offset(other) = (other - 1) * PerPage BY <1>2, <1>3, OffsetOfPage DEF total
  <2>2. i \in PageOf(ids, other) <=> (other - 1) * PerPage <= k /\ k < (other - 1) * PerPage + PerPage
    BY <1>1, <1>3, <1>5, <2>1 DEF PageOf, k
  <2>3. CASE other = q + 1 BY <1>1, <1>4, <2>2, <2>3
  <2>4. CASE other > q + 1
    <3>1. (q + 1) * PerPage <= (other - 1) * PerPage /\ (q + 1) * PerPage = q * PerPage + PerPage
      BY <1>1, <1>4, <1>5, <2>4
    <3>. QED BY <1>1, <1>3, <1>4, <1>5, <2>2, <2>4, <3>1
  <2>5. CASE other < q + 1
    <3>1. other * PerPage <= q * PerPage /\ (other - 1) * PerPage + PerPage = other * PerPage
      BY <1>1, <1>4, <1>5, <2>5
    <3>. QED BY <1>1, <1>3, <1>4, <1>5, <2>2, <2>5, <3>1
  <2>. QED BY <1>4, <1>5, <2>3, <2>4, <2>5
<1>. QED BY <1>6, <1>7 DEF total

-----------------------------------------------------------------------------
(* The list in the tab. Pages that are still on their way are as short as    *)
(* the one that is shown, and the selection's counter is right.              *)
ListInv ==
  /\ ListTypeOK /\ CountsTheSelection
  /\ Cardinality(load.items) <= PerPage /\ Cardinality(poll.items) <= PerPage

LEMMA PagesInNat == ASSUME NEW n \in 0..MaxId PROVE Pages(n) \in Nat /\ \A p \in Nat : Clamp(p, Pages(n)) \in Nat
<1>1. n \in Nat BY LiveListAssumption
<1>2. Pages(n) \in Nat \ {0} BY <1>1, PagesPositive
<1>3. \A p \in Nat : Clamp(p, Pages(n)) \in 1..Pages(n) BY <1>2, ClampInRange
<1>. QED BY <1>2, <1>3

LEMMA RowsCounted ==
  ASSUME NEW ids \in SUBSET Ids
  PROVE  IsFiniteSet(ids) /\ Cardinality(ids) \in 0..MaxId /\ ids \in SUBSET Int
<1>1. IsFiniteSet(Ids) /\ Cardinality(Ids) = MaxId BY LiveListAssumption, FS_Interval DEF Ids
<1>2. IsFiniteSet(ids) /\ Cardinality(ids) <= MaxId BY <1>1, FS_Subset
<1>3. Cardinality(ids) \in Nat BY <1>2, FS_CardinalityType
<1>. QED BY <1>2, <1>3, LiveListAssumption DEF Ids

\* The two statements of queryRequests.
LEMMA QueryStep ==
  ASSUME rows \subseteq Ids, NEW q \in Query, Cardinality(q.items) <= PerPage, NEW p \in {Count(q), Select(q)}
  PROVE  p \in Query /\ Cardinality(p.items) <= PerPage
<1>1. IsFiniteSet(View) /\ Cardinality(View) \in 0..MaxId /\ View \in SUBSET Int BY RowsCounted DEF View
<1>2. q.page \in Int BY DEF Query
<1>3. PageOf(View, q.page) \in SUBSET Ids BY DEF PageOf, View
<1>4. Cardinality(PageOf(View, q.page)) <= PerPage BY <1>1, <1>2, PageIsShort
<1>5. CASE p = Count(q) BY <1>1, <1>5 DEF Count, Query
<1>6. CASE p = Select(q)
  <2>1. p \in Query BY <1>3, <1>6 DEF Select, Query
  <2>2. p.items = PageOf(View, q.page) BY <1>6 DEF Select, Query
  <2>. QED BY <1>4, <2>1, <2>2
<1>. QED BY <1>5, <1>6

LEMMA NoQueryType == NoQuery \in Query /\ Cardinality(NoQuery.items) = 0
<1>1. 0 \in 0..MaxId BY LiveListAssumption
<1>. QED BY <1>1, FS_EmptySet DEF NoQuery, Query

LEMMA AskType ==
  ASSUME NEW p \in Nat
  PROVE  Ask(p) \in Query /\ Cardinality(Ask(p).items) = 0
<1>1. Ask(p).items = NoQuery.items BY DEF Ask, NoQuery
<1>. QED BY <1>1, NoQueryType DEF Ask, Query

\* A page is shown with no box checked.
LEMMA PageType ==
  ASSUME NEW q \in Query, Cardinality(q.items) <= PerPage
  PROVE  /\ Page(q) \in Tab /\ Page(q).checked \subseteq Page(q).items
         /\ Cardinality(Page(q).items) <= PerPage
         /\ Page(q).count = Cardinality(Page(q).checked)
BY FS_EmptySet DEF Page, Query, Tab

LEMMA UrlPage == ASSUME NEW u \in Urls PROVE u.page \in Nat
<1>1. CASE u \in Asked BY <1>1, LiveListAssumption
<1>2. CASE u = Home BY <1>2 DEF Home
<1>. QED BY <1>1, <1>2 DEF Urls

LEMMA ChangeList ==
  ASSUME ListInv, NEW ids \in SUBSET Ids, Change(ids)
  PROVE  /\ rows' \subseteq Ids /\ saved' \subseteq rows' /\ meant' \subseteq rows'
         /\ load' \in Query /\ poll' \in Query
         /\ Cardinality(load'.items) <= PerPage /\ Cardinality(poll'.items) <= PerPage
<1>1. TornLoad \in Query /\ TornLoad.items = load.items BY DEF ListInv, ListTypeOK, TornLoad, Query
<1>2. TornPoll \in Query /\ TornPoll.items = poll.items BY DEF ListInv, ListTypeOK, TornPoll, Query
<1>. QED BY <1>1, <1>2 DEF ListInv, Change

LEMMA OpenList ==
  ASSUME ListInv, NEW u \in Urls, Open(u)
  PROVE  /\ url' \in Urls /\ load' \in Query /\ poll' \in Query
         /\ Cardinality(load'.items) <= PerPage /\ Cardinality(poll'.items) <= PerPage
         /\ dom' \in Tab /\ dom'.checked \subseteq dom'.items /\ Cardinality(dom'.items) <= PerPage
         /\ dom'.count = Cardinality(dom'.checked)
<1>1. u.page \in Nat /\ 0 <= PerPage BY UrlPage, PagingAssumption
<1>. QED BY <1>1, NoQueryType, AskType, PageType DEF Open

LEMMA NextList == ListInv /\ [Next]_vars => ListInv'
<1>. SUFFICES ASSUME ListInv, [Next]_vars PROVE ListInv' OBVIOUS
<1>. USE LiveListAssumption, PagingAssumption
     DEF ListInv, ListTypeOK, CountsTheSelection, tableVars, pageVars, askVars
<1>0. 0 <= PerPage /\ url.page \in Nat BY UrlPage
<1>1. CASE Capture
  <2>1. lastId + 1 \in Ids BY <1>1 DEF Capture, Ids
  <2>2. rows \cup {lastId + 1} \in SUBSET Ids BY <2>1
  <2>. QED BY <1>1, <2>2, ChangeList DEF Capture
<1>2. CASE Vanish
  <2>1. PICK i \in rows : Change(rows \ {i}) BY <1>2 DEF Vanish
  <2>. QED BY <1>2, <2>1, ChangeList DEF Vanish
<1>3. CASE LoadStep BY <1>3, QueryStep DEF LoadStep
<1>4. CASE Loaded
  <2>1. CASE /\ load' = [load EXCEPT !.pc = "count", !.page = Clamped, !.again = TRUE] /\ UNCHANGED dom
    <3>1. Clamped \in Nat BY PagesInNat DEF Clamped, Query
    <3>2. load' \in Query /\ load'.items = load.items BY <2>1, <3>1 DEF Query
    <3>. QED BY <1>4, <2>1, <3>2 DEF Loaded
  <2>2. CASE load' = NoQuery /\ dom' = Page(load)
    BY <1>0, <1>4, <2>2, NoQueryType, PageType DEF Loaded
  <2>. QED BY <1>4, <2>1, <2>2 DEF Loaded
<1>5. CASE Navigate
  <2>1. PICK u \in Urls : Open(u) BY <1>5 DEF Navigate
  <2>. QED BY <1>5, <2>1, OpenList DEF Navigate
<1>6. CASE Toggle BY <1>6 DEF Toggle
<1>7. CASE Poll BY <1>0, <1>7, AskType DEF Poll
<1>8. CASE PollStep BY <1>8, QueryStep DEF PollStep
<1>9. CASE PollFails BY <1>0, <1>9, NoQueryType DEF PollFails
<1>10. CASE Answer BY <1>0, <1>10, NoQueryType, PageType DEF Answer, Redraw
<1>11. CASE Check
  <2>1. PICK ids \in {dom.items} \cup {dom.checked \cup {i} : i \in dom.items}
                 \cup {dom.checked \ {i} : i \in dom.checked} :
          ids \subseteq Picked /\ dom' = [dom EXCEPT !.checked = ids, !.count = Cardinality(ids)]
    BY <1>11 DEF Check
  <2>2. ids \subseteq dom.items OBVIOUS
  <2>3. dom.items \in SUBSET Ids BY DEF Tab
  <2>4. IsFiniteSet(Ids) BY FS_Interval DEF Ids
  <2>5. Cardinality(ids) \in Nat
    <3>1. IsFiniteSet(ids) BY <2>2, <2>3, <2>4, FS_Subset
    <3>. QED BY <3>1, FS_CardinalityType
  <2>6. dom' \in Tab /\ dom'.items = dom.items /\ dom'.checked = ids /\ dom'.count = Cardinality(ids)
    BY <2>1, <2>2, <2>3, <2>5 DEF Tab
  <2>. QED BY <1>11, <2>2, <2>6 DEF Check
<1>12. CASE Click BY <1>12 DEF Click, Tab
<1>13. CASE Cancel BY <1>13 DEF Cancel
<1>14. CASE Confirm BY <1>14 DEF Confirm
<1>15. CASE Delete
  <2>1. rows' \subseteq Ids /\ saved' \subseteq rows' /\ meant' \subseteq rows' BY <1>15 DEF Delete
  <2>. QED BY <1>15, <2>1, OpenList DEF Delete
<1>16. CASE DeleteFails BY <1>16 DEF DeleteFails
<1>17. CASE Mark
  <2>1. PICK i \in rows : saved' = (saved \ {i}) \cup ({i} \ saved) BY <1>17 DEF Mark
  <2>2. load' \in Query /\ load'.items = load.items /\ poll' \in Query /\ poll'.items = poll.items
    BY <1>17 DEF Mark, TornLoad, Query
  <2>3. /\ dom' \in Tab /\ dom'.items = dom.items /\ dom'.checked = dom.checked
        /\ dom'.count = dom.count
    BY <1>17 DEF Mark, Tab
  <2>. QED BY <1>17, <2>1, <2>2, <2>3 DEF Mark
<1>18. CASE UNCHANGED vars BY <1>18 DEF vars
<1>. QED
  BY <1>1, <1>2, <1>3, <1>4, <1>5, <1>6, <1>7, <1>8, <1>9, <1>10, <1>11, <1>12, <1>13, <1>14,
     <1>15, <1>16, <1>17, <1>18 DEF Next

LEMMA ListIsGood == Spec => []ListInv
<1>1. Init => ListInv
  <2>. SUFFICES ASSUME Init PROVE ListInv OBVIOUS
  <2>1. 0 <= PerPage /\ 1 \in Nat /\ 0 \in 0..MaxId
    BY PagingAssumption, LiveListAssumption
  <2>2. Home \in Urls BY DEF Urls
  <2>. QED
    BY <2>1, <2>2, NoQueryType, AskType, PageType DEF Init, ListInv, ListTypeOK, CountsTheSelection
<1>. QED BY <1>1, NextList, PTL DEF Spec

(* Every variable of the tab keeps its type, and it never shows more than a  *)
(* page of rows.                                                             *)
THEOREM ListTypes == Spec => []ListTypeOK
<1>1. ListInv => ListTypeOK BY DEF ListInv
<1>. QED BY <1>1, ListIsGood, PTL

(* The number next to the delete button is that of the boxes that are        *)
(* checked, however polls redraw the list under the operator's hands.        *)
THEOREM SelectionCounted == Spec => []CountsTheSelection
<1>1. ListInv => CountsTheSelection BY DEF ListInv
<1>. QED BY <1>1, ListIsGood, PTL

-----------------------------------------------------------------------------
(* The bulk delete. Every id that a tab can name was handed out before, so   *)
(* no request that arrives has it: of the ids in the dialog and in the post  *)
(* under way, those still in the table are the requests that were meant.     *)
Named == rows \cup load.items \cup poll.items \cup dom.items \cup dialog \cup UNION posted

MeantInv ==
  /\ Named \subseteq 1..lastId
  /\ dialog # {} => meant = rows \cap dialog /\ posted = {}
  /\ \A ids \in posted : posted = {ids} /\ meant = rows \cap ids

LEMMA NextMeant == ListTypeOK /\ MeantInv /\ [Next]_vars => MeantInv'
<1>. SUFFICES ASSUME ListTypeOK, MeantInv, [Next]_vars PROVE MeantInv' OBVIOUS
<1>. USE DEF MeantInv, Named, tableVars, pageVars, askVars
<1>0. /\ load \in Query /\ poll \in Query /\ dom \in Tab /\ lastId \in Nat
      /\ dom.checked \subseteq dom.items
  BY DEF ListTypeOK
<1>1. TornLoad.items = load.items /\ TornPoll.items = poll.items
  BY <1>0 DEF TornLoad, TornPoll, Query
<1>2. NoQuery.items = {} /\ \A p : Ask(p).items = {} BY DEF NoQuery, Ask
<1>3. \A q : Page(q).items = q.items BY DEF Page
<1>4. View \subseteq rows /\ \A p : PageOf(View, p) \subseteq rows BY DEF View, PageOf
<1>5. \A q \in Query : /\ Count(q).items = q.items
                       /\ Select(q).items = PageOf(View, q.page)
  BY DEF Count, Select, Query
<1>6. CASE Capture
  <2>1. lastId' = lastId + 1 /\ rows' = rows \cup {lastId + 1} /\ meant' = meant \cap rows
    BY <1>6 DEF Capture, Change
  <2>2. lastId + 1 \notin Named BY <1>0
  <2>3. Named' \subseteq Named \cup {lastId + 1} BY <1>1, <1>6, <2>1 DEF Capture, Change
  <2>4. Named' \subseteq 1..lastId' BY <1>0, <2>1, <2>3
  <2>. QED BY <1>6, <2>1, <2>2, <2>4 DEF Capture, Change
<1>7. CASE Vanish
  <2>1. PICK i \in rows : Change(rows \ {i}) BY <1>7 DEF Vanish
  <2>. QED BY <1>1, <1>7, <2>1 DEF Vanish, Change
<1>8. CASE Mark
  <2>1. /\ poll'.items = poll.items /\ load'.items = load.items /\ dom'.items = dom.items
    BY <1>0, <1>1, <1>8 DEF Mark, Query, Tab
  <2>. QED BY <1>8, <2>1 DEF Mark
<1>9. CASE LoadStep BY <1>0, <1>4, <1>5, <1>9 DEF LoadStep
<1>10. CASE Loaded
  <2>1. [load EXCEPT !.pc = "count", !.page = Clamped, !.again = TRUE].items = load.items
    BY <1>0 DEF Query
  <2>. QED BY <1>2, <1>3, <1>10, <2>1 DEF Loaded
<1>11. ASSUME NEW u, Open(u) PROVE load'.items = {} /\ poll'.items = {} /\ dom'.items = {}
  BY <1>2, <1>3, <1>11 DEF Open
<1>12. CASE Navigate BY <1>11, <1>12 DEF Navigate
<1>13. CASE Poll \/ PollFails \/ Toggle BY <1>2, <1>13 DEF Poll, PollFails, Toggle
<1>14. CASE PollStep BY <1>0, <1>4, <1>5, <1>14 DEF PollStep
<1>15. CASE Answer BY <1>2, <1>3, <1>15 DEF Answer, Redraw
<1>16. CASE Check
  <2>1. dom'.items = dom.items BY <1>0, <1>16 DEF Check, Tab
  <2>. QED BY <1>16, <2>1 DEF Check
<1>17. CASE Click BY <1>0, <1>17 DEF Click
<1>18. CASE Cancel \/ Confirm BY <1>18 DEF Cancel, Confirm
<1>19. CASE Delete
  <2>1. rows' \subseteq rows /\ posted' = {} BY <1>19 DEF Delete
  <2>2. dialog = {} BY <1>19 DEF Delete
  <2>. QED BY <1>11, <1>19, <2>1, <2>2 DEF Delete
<1>20. CASE DeleteFails BY <1>20 DEF DeleteFails
<1>21. CASE UNCHANGED vars BY <1>21 DEF vars
<1>. QED
  BY <1>6, <1>7, <1>8, <1>9, <1>10, <1>12, <1>13, <1>14, <1>15, <1>16, <1>17, <1>18, <1>19,
     <1>20, <1>21 DEF Next

(* A bulk delete takes exactly the requests that were selected when the      *)
(* operator was asked and are still there, however polls redraw the list and *)
(* requests come and go meanwhile: an id is never handed out twice.          *)
THEOREM MeantAreDeleted == Spec => DeletesWhatWasMeant
<1>1. Init => MeantInv
  <2>. SUFFICES ASSUME Init PROVE MeantInv OBVIOUS
  <2>. QED BY DEF Init, MeantInv, Named, NoQuery, Ask, Page
<1>2. MeantInv => (Delete => rows' = rows \ meant) BY DEF Delete, MeantInv
<1>. QED BY <1>1, <1>2, NextMeant, ListTypes, PTL DEF Spec, DeletesWhatWasMeant

-----------------------------------------------------------------------------
(* A page on its way: it was asked for by the address, or (again) by the     *)
(* number that replaced it; if the table has not changed since, its total    *)
(* and its rows are the table's.                                             *)
LoadInv ==
  load.pc # "idle" =>
    /\ ~load.again => load.page = url.page
    /\ ~load.torn =>
         /\ load.again => load.page = Clamp(url.page, Pages(Cardinality(View)))
         /\ load.pc \in {"select", "done"} => load.total = Cardinality(View)
         /\ load.pc = "done" => load.items = PageOf(View, load.page) /\ load.tags = load.items \cap saved

LEMMA NextLoad == ListTypeOK /\ LoadInv /\ [Next]_vars => LoadInv'
<1>. SUFFICES ASSUME ListTypeOK, LoadInv, [Next]_vars PROVE LoadInv' OBVIOUS
<1>. USE DEF tableVars, pageVars, askVars
<1>0. load \in Query BY DEF ListTypeOK
<1>1. ASSUME load' = TornLoad, UNCHANGED url PROVE LoadInv'
  BY <1>0, <1>1 DEF TornLoad, LoadInv, Query
<1>2. CASE Capture \/ Vanish \/ Mark BY <1>1, <1>2 DEF Capture, Vanish, Mark, Change
<1>3. CASE LoadStep BY <1>0, <1>3 DEF LoadStep, Count, Select, View, LoadInv, Query
<1>4. CASE Loaded
  <2>1. CASE load' = NoQuery BY <2>1 DEF LoadInv, NoQuery
  <2>2. CASE /\ Clamped # load.page /\ ~load.again
             /\ load' = [load EXCEPT !.pc = "count", !.page = Clamped, !.again = TRUE]
    BY <1>0, <1>4, <2>2 DEF Loaded, Clamped, View, LoadInv, Query
  <2>. QED BY <1>4, <2>1, <2>2 DEF Loaded
<1>5. ASSUME NEW u, Open(u) PROVE LoadInv' BY <1>5 DEF Open, Ask, NoQuery, LoadInv
<1>6. CASE Navigate \/ Delete BY <1>5, <1>6 DEF Navigate, Delete
<1>7. CASE UNCHANGED <<rows, saved, url, load>> BY <1>7 DEF LoadInv, View
<1>. QED
  BY <1>2, <1>3, <1>4, <1>6, <1>7
  DEF Next, Toggle, Poll, PollStep, PollFails, Answer, Check, Click, Cancel, Confirm, DeleteFails, vars

(* handleRequestsPage shows the rows of a page that exists, whatever number  *)
(* was asked for, if the table does not change meanwhile: the number that    *)
(* replaces one beyond the last page is asked for once more, and stays.      *)
THEOREM PageIsTrue == Spec => PageShowsItsRows
<1>. DEFINE Shown == /\ dom'.items = PageOf(View, Clamp(url.page, Pages(Cardinality(View))))
                     /\ dom'.tags = dom'.items \cap saved
<1>1. Init => LoadInv BY DEF Init, LoadInv, Ask, NoQuery, Home
<1>2. ListTypeOK /\ LoadInv /\ [Next]_vars => (load.pc = "done" /\ load'.pc = "idle" /\ ~load.torn => Shown)
  <2>. SUFFICES ASSUME ListTypeOK, LoadInv, [Next]_vars,
                       load.pc = "done", load'.pc = "idle", ~load.torn
                PROVE  Shown
    OBVIOUS
  <2>0. load \in Query BY DEF ListTypeOK
  <2>1. Loaded
    <3>1. TornLoad.pc = load.pc BY <2>0 DEF TornLoad, Query
    <3>. QED
      BY <2>0, <3>1 DEF Next, vars, pageVars, Capture, Vanish, Mark, Change, LoadStep, Navigate, Open,
         Ask, NoQuery, Toggle, Poll, PollStep, PollFails, Answer, Check, Click, Cancel, Confirm,
         Delete, DeleteFails
  <2>2. /\ Clamped = load.page \/ load.again
        /\ dom'.items = load.items /\ dom'.tags = load.tags
    <3>1. [load EXCEPT !.pc = "count", !.page = Clamped, !.again = TRUE].pc = "count" BY <2>0 DEF Query
    <3>2. dom' = Page(load) BY <2>1, <3>1 DEF Loaded
    <3>3. Clamped = load.page \/ load.again BY <2>1, <3>1 DEF Loaded
    <3>. QED BY <3>2, <3>3 DEF Page
  <2>3. /\ load.total = Cardinality(View) /\ load.items = PageOf(View, load.page)
        /\ load.tags = load.items \cap saved
    BY DEF LoadInv
  <2>4. load.page = Clamp(url.page, Pages(Cardinality(View))) BY <2>2, <2>3 DEF LoadInv, Clamped
  <2>. QED BY <2>2, <2>3, <2>4
<1>. QED BY <1>1, <1>2, NextLoad, ListTypes, PTL DEF Spec, PageShowsItsRows
=============================================================================
