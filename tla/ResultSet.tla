------------------------------ MODULE ResultSet ------------------------------
(***************************************************************************)
(* What a data query promises to the application, whatever the paging, the *)
(* prefetch threads and the failures behind it: the rows of one execution  *)
(* are handed over one at a time, in the order of the service, none twice  *)
(* and none left out, and "no data" is only ever said after the last row.  *)
(*                                                                         *)
(* The service holds the result of the query as a sequence of pages, of    *)
(* which only the number of rows matters; a page may hold no row at all.   *)
(* A row is named by its page and its place in that page.                  *)
(***************************************************************************)
EXTENDS Naturals, Sequences

CONSTANT PageSeqs     \* the paged results the service may hold

VARIABLES pages,      \* the result held by the service
          delivered,  \* rows handed to the application since it executed
          told        \* what the application knows of this execution

streamVars == <<pages, delivered, told>>

\* "none": never executed.  "open": rows may follow.  "end": it was told that
\* there are no more rows.  "error", "closed": it was told the query failed,
\* or it closed or cancelled the query itself.
Knowledge == {"none", "open", "end", "error", "closed"}

Row == Nat \X Nat

\* r is the first row of the result.
IsFirst(r) ==
  /\ r[1] \in 1..Len(pages)
  /\ r[2] = 1
  /\ pages[r[1]] > 0
  /\ \A q \in 1..(r[1] - 1) : pages[q] = 0

\* s comes right after r: in the same page, or first in the next page that
\* has rows.
Follows(r, s) ==
  \/ /\ s = <<r[1], r[2] + 1>>
     /\ r[2] < pages[r[1]]
  \/ /\ s[1] \in (r[1] + 1)..Len(pages)
     /\ s[2] = 1
     /\ r[2] = pages[r[1]]
     /\ pages[s[1]] > 0
     /\ \A q \in (r[1] + 1)..(s[1] - 1) : pages[q] = 0

\* r is the last row of the result.
IsLast(r) ==
  /\ r[2] = pages[r[1]]
  /\ \A q \in (r[1] + 1)..Len(pages) : pages[q] = 0

\* Every row of the result was handed over, given that they were in order.
Complete ==
  IF delivered = << >>
  THEN \A q \in 1..Len(pages) : pages[q] = 0
  ELSE IsLast(delivered[Len(delivered)])

\* s may be handed over now.
IsNext(s) ==
  IF delivered = << >> THEN IsFirst(s) ELSE Follows(delivered[Len(delivered)], s)

Init ==
  /\ pages \in PageSeqs
  /\ delivered = << >>
  /\ told = "none"

\* The application executes the query, for the first time or again.
Open ==
  /\ told' = "open"
  /\ delivered' = << >>
  /\ UNCHANGED pages

Deliver ==
  /\ told = "open"
  /\ \E p \in 1..Len(pages) : \E i \in 1..pages[p] :
       /\ IsNext(<<p, i>>)
       /\ delivered' = Append(delivered, <<p, i>>)
  /\ UNCHANGED <<pages, told>>

\* The end of the data is announced, which only a complete result allows.
End ==
  /\ told = "open"
  /\ Complete
  /\ told' = "end"
  /\ UNCHANGED <<pages, delivered>>

\* The query failed, or the application closed or cancelled it.
Stop ==
  /\ told' \in {"error", "closed"}
  /\ UNCHANGED <<pages, delivered>>

Next == Open \/ Deliver \/ End \/ Stop

Spec == Init /\ [][Next]_streamVars
=============================================================================
