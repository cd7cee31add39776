----------------------------- MODULE Bookkeeping -----------------------------
(***************************************************************************)
(* What the synchronisation of cash expenses promises about MF's books,    *)
(* which offer no idempotency key: of a receipt at most one entry is ever  *)
(* asked for at a time and none beside one that is there; an entry leaves  *)
(* the books only when its receipt was cancelled; and a receipt is done    *)
(* with only when nothing of it is in the books or on its way there.       *)
(* JournalSync implements this module.                                     *)
(***************************************************************************)
CONSTANT Receipts

VARIABLES
  asked,             \* receipts of which a creation is under way
  entered,           \* receipts whose entry is in the books
  cancelled,         \* receipts that were corrected or taken back
  closed             \* receipts that are done with

bookVars == <<asked, entered, cancelled, closed>>

Init == asked = {} /\ entered = {} /\ cancelled = {} /\ closed = {}

Cancel(r) ==
  /\ r \notin cancelled
  /\ cancelled' = cancelled \cup {r}
  /\ UNCHANGED <<asked, entered, closed>>

Ask(r) ==
  /\ r \notin asked \cup entered \cup cancelled \cup closed
  /\ asked' = asked \cup {r}
  /\ UNCHANGED <<entered, cancelled, closed>>

\* The creation takes effect, though its receipt may have been cancelled since.
Book(r) ==
  /\ r \in asked
  /\ asked' = asked \ {r} /\ entered' = entered \cup {r}
  /\ UNCHANGED <<cancelled, closed>>

\* It does not, and never will.
Drop(r) ==
  /\ r \in asked
  /\ asked' = asked \ {r}
  /\ UNCHANGED <<entered, cancelled, closed>>

TakeBack(r) ==
  /\ r \in entered \cap cancelled
  /\ entered' = entered \ {r}
  /\ UNCHANGED <<asked, cancelled, closed>>

Close(r) ==
  /\ r \in cancelled \ (asked \cup entered \cup closed)
  /\ closed' = closed \cup {r}
  /\ UNCHANGED <<asked, entered, cancelled>>

Next == \E r \in Receipts : Cancel(r) \/ Ask(r) \/ Book(r) \/ Drop(r) \/ TakeBack(r) \/ Close(r)

Spec == Init /\ [][Next]_bookVars
=============================================================================
