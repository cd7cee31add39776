----------------------------- MODULE JournalBooks -----------------------------
(***************************************************************************)
(* What an execution of the synchronisation of expenses (JournalSync)      *)
(* shares with others: the ledger, edited by its operator at any time, and *)
(* MF's books.                                                             *)
(*                                                                         *)
(* MF gives no idempotency key.  A creation whose caller gave up may still *)
(* take effect, within a day.  Of one statement line MF makes one entry;   *)
(* the entry made from line t is named t here.                             *)
(***************************************************************************)
EXTENDS SyncRow

CONSTANTS
  Methods,           \* the payment methods rows may say
  Ids,               \* names of entries made from nothing; bound: all that are ever made
  LineOf,            \* LineOf[t]: the service, the amount and the day of a line
  RuleOf,            \* RuleOf[t]: "private", "ignore", or None: the MF明細ルール a line falls under
  MaxFaults,         \* bound: executions that die, calls that are lost or fail
  MaxEdits           \* bound: what the operator does by hand

ASSUME JournalBooksAssumption ==
  /\ Methods \subseteq PaymentMethods \cup {None}
  /\ Ids \cap Txs = {} /\ None \notin Ids /\ IsFiniteSet(Ids)
  /\ RouteUnknown \notin Ids \cup Txs
  /\ Receipts \cap {"deleted", "hand", "private"} = {}
  /\ LineOf \in [Txs -> [service : LinkedMethods, amount : Amounts, day : Nat]]
  /\ RuleOf \in [Txs -> {"private", "ignore", None}]
  /\ MaxFaults \in Nat /\ MaxEdits \in Nat

VARIABLES
  rows,              \* 経費台帳: what SyncRow reads of each receipt
  entries,           \* MF's journal entries, by id
  status,            \* of each line in MF: not there yet, unregistered, registered, excluded
  sent,              \* creations given up by their caller that MF has not decided
  run,               \* the execution in progress; the lease mf_sync lets no other start
  faults, edits      \* history: how often the bounds above were drawn on

books == <<entries, status, sent>>
vars == <<rows, entries, status, sent, run, faults, edits>>

-----------------------------------------------------------------------------
(* Entries.                                                                *)

\* An entry carries the tag of the receipt it stands for, of a rule or of nobody.  History:
\* of is the tag it was made with, checked says that the operator has answered for it.
NoEntry == [tag |-> None, of |-> None, void |-> FALSE, amount |-> 0, day |-> 0, checked |-> FALSE]
Deleted == [NoEntry EXCEPT !.tag = "deleted"]
EntryFor(tag, row) ==
  [NoEntry EXCEPT !.tag = tag, !.of = tag, !.amount = row.amount, !.day = row.day]
Checked(i) == entries' = [entries EXCEPT ![i].checked = TRUE]

Live(i) == entries[i].tag \notin {None, "deleted"}

\* An id MF has not given to an entry and may still give.
Fresh(i) == entries[i] = NoEntry /\ \A q \in sent : q.id # i

Place(i, entry) == entries' = [entries EXCEPT ![i] = entry]

\* A line becomes registered with the entry that is made of it.
Register(i) == status' = IF i \in Txs THEN [status EXCEPT ![i] = "registered"] ELSE status

\* What a creation meets: a fresh id, or a line of which no entry has been made.
Creatable(i) == IF i \in Txs THEN status[i] = "none" ELSE Fresh(i)

\* A creation from line t that MF may refuse.  If the line is unregistered, earlier creations
\* of it have been decided: recoverJournalizing takes the refusal for the proof of it.
Refusable(t) == status[t] = "none" => \A q \in sent : q.id # t

-----------------------------------------------------------------------------
(* MF on its own.                                                          *)

\* The card company's line reaches MF, days after the purchase.
LineArrives(t) ==
  /\ status[t] = "absent"
  /\ status' = [status EXCEPT ![t] = "none"]
  /\ UNCHANGED <<rows, entries, sent, run, faults, edits>>

\* A creation whose caller gave up takes effect after all, or is dropped.
MfDecides(q) ==
  /\ sent' = sent \ {q}
  /\ \/ UNCHANGED <<entries, status>>
     \/ /\ q.id \in Txs => status[q.id] = "none"
        /\ Place(q.id, q.entry) /\ Register(q.id)
  /\ UNCHANGED <<rows, run, faults, edits>>

\* Of an attempt that is a day old nothing is under way any more; executions last minutes.
DayPasses(r) ==
  /\ rows[r].sync = "CREATING" /\ ~rows[r].aged /\ run.at = "idle"
  /\ \A q \in sent : q.entry.tag # r
  /\ rows' = [rows EXCEPT ![r].aged = TRUE]
  /\ UNCHANGED <<books, run, faults, edits>>

-----------------------------------------------------------------------------
(* The ledger, and its operator.  Receipts are registered and completed by *)
(* app/expense.ts; a correction is a receipt of its own, and the corrected *)
(* row is marked by hand.                                                  *)

RegisterReceipt(r) ==
  /\ rows[r].exp = None
  /\ Parent[r] # None => rows[Parent[r]].exp # None
  /\ \E m \in Methods, a \in Amounts, d \in Days :
       rows' = [rows EXCEPT ![r] = [NoRow EXCEPT !.exp = "RECEIVED", !.method = m,
                                                 !.amount = a, !.day = d]]
  /\ UNCHANGED <<books, run, faults, edits>>

CompleteReceipt(r) ==
  /\ rows[r].exp = "RECEIVED"
  /\ rows' = [rows EXCEPT ![r].exp = "COMPLETED"]
  /\ UNCHANGED <<books, run, faults, edits>>

Cancel(r) ==
  /\ rows[r].exp = "COMPLETED"
  /\ \/ rows' = [rows EXCEPT ![r].exp = "VOID"]
     \/ (\E c \in Receipts : Parent[c] = r) /\ rows' = [rows EXCEPT ![r].exp = "CORRECTED"]
  /\ UNCHANGED <<books, run, faults, edits>>

\* What the operator does at all he does a bounded number of times.
ByHand == edits < MaxEdits /\ edits' = edits + 1 /\ UNCHANGED <<run, faults>>

Edits(r) ==
  /\ rows[r].exp = "COMPLETED"
  /\ \/ \E a \in Amounts : rows' = [rows EXCEPT ![r].amount = a]
     \/ \E d \in Days : rows' = [rows EXCEPT ![r].day = d]
     \/ \E m \in Methods : rows' = [rows EXCEPT ![r].method = m]
     \/ rows' = [rows EXCEPT ![r].whole = ~@]
  /\ rows' # rows

\* Business columns are edited at any time, but not of a row that kadobo has yet to take up
\* and of which there is an entry already: one the operator has overlooked (OperatorResets),
\* which could not be found by its day, or one that is half handed over.
EditRow(r) ==
  /\ Edits(r)
  /\ rows[r].sync \in {"", "PENDING", "WAITING_TRANSACTION"} =>
       rows[r].jid = None /\ \A i \in Ids : entries[i].tag # r
  /\ ByHand /\ UNCHANGED books

\* The row's state is emptied where a message of kadobo's asks for it: an outcome unknown for
\* a day (when an unchanged row's entry may be overlooked), a refusal, a change looked into.
OperatorResets(r) ==
  /\ rows[r].exp = "COMPLETED"
  /\ \/ rows[r].sync = "UNKNOWN" /\ (HasInputChanged(rows[r]) => \A i \in Ids : entries[i].tag # r)
     \/ rows[r].sync = "ERROR" /\ \A q \in sent : q.entry.tag # r
     \/ rows[r].sync = "NEEDS_REVIEW" /\ rows[r].jid # None
  /\ rows' = [rows EXCEPT ![r].sync = ""]
  /\ IF rows[r].jid = None THEN UNCHANGED entries ELSE Checked(rows[r].jid)
  /\ ByHand /\ UNCHANGED <<status, sent>>

\* The id of the row's entry is typed in where kadobo asks for it: an entry it may have made,
\* or one that the operator makes for it.
OperatorTypesId(r) ==
  /\ rows[r].sync \in {"UNKNOWN", "NEEDS_REVIEW"} /\ rows[r].jid = None
  /\ \/ \E i \in Ids \cup Txs : /\ entries[i].tag = r
                                /\ rows' = [rows EXCEPT ![r].jid = i] /\ Checked(i)
     \/ \E i \in Ids : /\ Fresh(i) /\ \A j \in Ids : entries[j].tag # r
                       /\ Place(i, EntryFor("hand", rows[r]))
                       /\ rows' = [rows EXCEPT ![r].jid = i]
  /\ ByHand /\ UNCHANGED <<status, sent>>

\* Of a row in review the operator names the line, any line.
OperatorTypesLine(r, t) ==
  /\ rows[r].sync = "NEEDS_REVIEW" /\ rows[r].jid = None
  /\ rows' = [rows EXCEPT ![r].tx = t]
  /\ ByHand /\ UNCHANGED books

\* In MF a line is registered or excluded by hand.
OperatorSettlesLine(t) ==
  /\ status[t] = "none"
  /\ \/ Register(t) /\ Place(t, EntryFor("hand", LineOf[t]))
     \/ status' = [status EXCEPT ![t] = "excluded"] /\ UNCHANGED entries
  /\ ByHand /\ UNCHANGED <<rows, sent>>

World ==
  \/ \E t \in Txs : LineArrives(t) \/ OperatorSettlesLine(t)
  \/ \E q \in sent : MfDecides(q)
  \/ \E r \in Receipts :
       \/ RegisterReceipt(r) \/ CompleteReceipt(r) \/ Cancel(r) \/ DayPasses(r)
       \/ EditRow(r) \/ OperatorResets(r) \/ OperatorTypesId(r)
       \/ \E t \in Txs : OperatorTypesLine(r, t)

-----------------------------------------------------------------------------
(* Writing a row.                                                          *)

\* What a write of row as new leaves that dies between two cells: in MF_WRITE_ORDER, the id
\* comes first and the state last.
Torn(row, new) ==
  LET id     == [row EXCEPT !.jid = new.jid]
      line   == [id EXCEPT !.tx = new.tx]
      reason == [line EXCEPT !.err = new.err]
      tried  == [reason EXCEPT !.aged = new.aged]
      input  == [tried EXCEPT !.input = new.input]
  IN  {id, line, reason, tried, input}

=============================================================================
