----------------------------- MODULE QueryCache -----------------------------
(* What the pages see of the hub: one query of @tanstack/react-query, as the  *)
(* hooks of src/frontend use it. A fetch is sent, the hub reads the documents *)
(* at some later moment, and the answer fills the cache later still.          *)

CONSTANT NoData

EmptyQuery == [data |-> NoData, fetch |-> "no", read |-> NoData, stale |-> FALSE]

Send(q) == [q EXCEPT !.fetch = "sent", !.read = NoData]

\* A mount or an interval joins a fetch that is already under way.
Fetch(q) == IF q.fetch = "no" THEN Send(q) ELSE q

\* An invalidation drops the fetch under way and sends another, except that the
\* very first fetch is joined. Without a mounted page it only marks the data.
Invalidate(q, mounted) ==
    IF q.data = NoData THEN IF mounted THEN Fetch(q) ELSE q
    ELSE LET marked == [q EXCEPT !.stale = TRUE]
         IN  IF mounted THEN Send(marked) ELSE marked

\* A mount fetches what is missing or marked; other data may be old enough too.
Mounted(q) ==
    IF q.data = NoData \/ q.stale THEN {Fetch(q)} ELSE {q, Fetch(q)}

Read(q, documents) == [q EXCEPT !.fetch = "read", !.read = documents]
Fill(q) == [data |-> q.read, fetch |-> "no", read |-> NoData, stale |-> FALSE]
Fail(q) == [q EXCEPT !.fetch = "no", !.read = NoData]
=============================================================================
