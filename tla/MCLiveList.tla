----------------------------- MODULE MCLiveList -----------------------------
(* Addresses for LiveList that a configuration cannot write.                 *)
EXTENDS LiveList

\* The last page, and the unsaved requests on a page past the last whose offset wraps:
\* the page is replaced by the last one, and a poll for it gets the first rows.
Addresses == {[page |-> 2, saved |-> "any"], [page |-> 5, saved |-> "0"]}
=============================================================================
