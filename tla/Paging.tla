------------------------------- MODULE Paging -------------------------------
(* The arithmetic of the request list: which rows a page holds                *)
(* (queryRequests) and which page numbers the console offers                  *)
(* (buildPagination, and renderPagination of app.js, which computes the same). *)
EXTENDS Integers, FiniteSets

CONSTANTS
  PerPage,      \* 20
  IntMax        \* the largest int (2^63 - 1)

ASSUME PagingAssumption == PerPage \in Nat \ {0} /\ IntMax \in Nat \ {0}

AtLeast(a, b) == IF a < b THEN b ELSE a
AtMost(a, b)  == IF a > b THEN b ELSE a

\* int arithmetic wraps around.
Wrap(n) == ((n + IntMax + 1) % (2 * (IntMax + 1))) - IntMax - 1

\* The page numbers of total rows, and the one that is shown for a number that was asked for.
Pages(total)       == AtLeast((total + PerPage - 1) \div PerPage, 1)
Clamp(page, pages) == AtMost(AtLeast(page, 1), pages)

\* Five numbers around the page, fewer only if there are fewer.
FirstNumber(page, pages) == LET start == AtLeast(page - 2, 1)
                            IN  IF start + 4 > pages THEN AtLeast(pages - 4, 1) ELSE start
LastNumber(page, pages)  == AtMost(AtLeast(page - 2, 1) + 4, pages)

\* ORDER BY id DESC LIMIT perPage OFFSET (page - 1) * perPage; a negative OFFSET counts as 0.
\* A page is a set of ids: it is always shown by id, the newest first.
Offset(page)    == AtLeast(Wrap((page - 1) * PerPage), 0)
Newer(ids, id)  == Cardinality({i \in ids : i > id})
\* A mutant: the LIMIT is dropped.
PageUnlimited(ids, page) == {i \in ids : Newer(ids, i) >= Offset(page)}
PageOf(ids, page) == {i \in ids : Newer(ids, i) >= Offset(page) /\ Newer(ids, i) < Offset(page) + PerPage}
=============================================================================
