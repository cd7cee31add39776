------------------------------- MODULE SyncRow -------------------------------
(***************************************************************************)
(* What the synchronisation of expenses with MF decides of a ledger row    *)
(* and of the ledger (gas/src/core/journalSync.ts): no state, no calls.    *)
(*                                                                         *)
(* A row keeps of the ledger's columns those these decisions read.  Its    *)
(* business columns are an amount and a day; whole says that the business  *)
(* share is 100 %, aged that a day has passed since the attempt it records.*)
(* Account names, remarks, memos and the texts of errors are left out: of  *)
(* the error only the two texts the code reads back are kept, the id that  *)
(* MF does not know and RouteUnknown.                                      *)
(***************************************************************************)
EXTENDS Integers, FiniteSets

CONSTANTS
  Receipts,          \* rows of the ledger, by receipt_id
  Parent,            \* Parent[r]: the receipt that r corrects, or None
  Txs,               \* statement lines of the linked card and bank services
  Amounts, Days,     \* what rows and lines may say
  StartDay           \* MF_SYNC_START_DATE: earlier expenses are not kadobo's

None == ""

ASSUME SyncRowAssumption ==
  /\ Amounts \subseteq Nat \ {0} /\ Days \subseteq Nat /\ StartDay \in Nat
  /\ Parent \in [Receipts -> Receipts \cup {None}]
  /\ \A r, s \in Receipts : r # s /\ Parent[r] = Parent[s] => Parent[r] = None
  /\ None \notin Receipts \cup Txs /\ Receipts \cap Txs = {}

LinkedMethods == {"linked_card", "linked_bank"}
PaymentMethods == {"cash"} \cup LinkedMethods

RouteUnknown == "route"

NoInput == [amount |-> 0, day |-> 0, method |-> None, tx |-> None]

\* A receipt that has not been registered yet.
NoRow == [exp |-> None, method |-> None, amount |-> 0, day |-> 0, whole |-> TRUE,
          sync |-> None, jid |-> None, tx |-> None, err |-> None, aged |-> FALSE,
          input |-> NoInput]

-----------------------------------------------------------------------------
(* States.                                                                 *)

NoJournalStates == {"", "PENDING", "WAITING_TRANSACTION", "NEEDS_REVIEW"}
ImportableStates == NoJournalStates \cup {"UNKNOWN"}

\* Mutant of UsedTransactionStates: MF is trusted to offer no line that has an entry.
UsedUntilSynced == {"JOURNALIZING", "REVERSING", "NEEDS_REVIEW"}

UsedTransactionStates == {"JOURNALIZING", "SYNCED", "REVERSING", "NEEDS_REVIEW"}
SyncStates == ImportableStates \cup UsedTransactionStates
                \cup {"NOT_TARGET", "CREATING", "REVERSED", "ERROR"}

Transitions ==
  ({""} \X {"NOT_TARGET", "PENDING", "WAITING_TRANSACTION", "NEEDS_REVIEW", "SYNCED",
            "REVERSING", "REVERSED"})
  \cup ({"PENDING"} \X {"CREATING", "SYNCED", "WAITING_TRANSACTION", "NEEDS_REVIEW",
                        "REVERSING", "REVERSED"})
  \cup ({"CREATING"} \X {"SYNCED", "UNKNOWN", "ERROR", "PENDING"})
  \cup ({"WAITING_TRANSACTION"} \X {"JOURNALIZING", "SYNCED", "NEEDS_REVIEW", "REVERSING",
                                    "REVERSED"})
  \cup ({"JOURNALIZING"} \X {"SYNCED", "NEEDS_REVIEW", "ERROR"})
  \cup {<<"UNKNOWN", "SYNCED">>}
  \cup ({"NEEDS_REVIEW"} \X {"SYNCED", "JOURNALIZING", "REVERSING", "REVERSED"})
  \cup ({"SYNCED"} \X {"NEEDS_REVIEW", "REVERSING"})
  \cup ({"REVERSING"} \X {"REVERSED", "ERROR"})

\* Mutant of CanTransition: nothing leads out of a review but a new entry.
CanTransitionNoWayBack(from, to) ==
  \/ from = to
  \/ <<from, to>> \in Transitions \ ({"NEEDS_REVIEW"} \X {"REVERSING", "REVERSED"})

CanTransition(from, to) == from = to \/ <<from, to>> \in Transitions

IsCancelled(row) == row.exp \in {"CORRECTED", "VOID"}

-----------------------------------------------------------------------------
(* One row.                                                                *)

\* decideSyncTarget with the start date set; a linked method is decided like cash.
DecideSyncTarget(row) ==
  CASE row.day < StartDay -> "not_target"
    [] row.day >= StartDay /\ (row.exp # "COMPLETED" \/ row.method \notin PaymentMethods) -> "wait"
    [] OTHER -> IF row.whole THEN "ready" ELSE "needs_review"

\* The state an untouched row goes to; a row that waits keeps its own.
InitialStateFor(row) ==
  CASE DecideSyncTarget(row) = "not_target" -> "NOT_TARGET"
    [] DecideSyncTarget(row) = "needs_review" -> "NEEDS_REVIEW"
    [] DecideSyncTarget(row) = "ready" /\ row.method = "cash" -> "PENDING"
    [] DecideSyncTarget(row) = "ready" /\ row.method # "cash" -> "WAITING_TRANSACTION"
    [] OTHER -> row.sync

SummaryWithTx(row, t) == [amount |-> row.amount, day |-> row.day, method |-> row.method, tx |-> t]
SummarizeSyncInput(row) == SummaryWithTx(row, row.tx)

\* The business columns are no longer those the entry was made from.
HasInputChanged(row) == row.input # NoInput /\ row.input # SummarizeSyncInput(row)

\* By the way an entry was made: one made from a statement line is rewritten (deleting it
\* would exclude the line), one made from nothing is deleted, and where the row contradicts
\* what was noted when it was made, nothing is done.
CancellationRoute(row) ==
  LET made   == IF row.input = NoInput THEN row.method ELSE row.input.method
      tx     == IF row.input = NoInput THEN row.tx ELSE row.input.tx
      agrees == made = row.method /\ tx = row.tx
  IN  CASE agrees /\ made \in LinkedMethods /\ tx # None -> "put"
        [] agrees /\ made = "cash" /\ tx = None -> "delete"
        [] OTHER -> "unknown"

-----------------------------------------------------------------------------
(* The ledger: rows \in [Receipts -> row].  Lines: lines \in [Txs -> line].  *)

MaxCorrectionDepth == 10

\* The receipts r corrects, directly or through others.
Ancestors(r) ==
  LET up[n \in 0..MaxCorrectionDepth] ==
        IF n = 0 THEN {Parent[r]} \ {None}
                 ELSE up[n - 1] \cup ({Parent[p] : p \in up[n - 1]} \ {None})
  IN  up[MaxCorrectionDepth]

DescendantsOf(rows, r) == {d \in Receipts \ {r} : rows[d].exp # None /\ r \in Ancestors(d)}

\* The entry of a receipt that r corrects is still to be handed over to r.
HoldsJournalAncestor(rows, r) ==
  \E p \in Ancestors(r) : /\ CancellationRoute(rows[p]) = "put"
                          /\ rows[p].sync \in {"JOURNALIZING", "SYNCED", "REVERSING"}

\* Lines that rows other than r hold.
UsedTransactions(rows, r) ==
  {rows[o].tx : o \in {o \in Receipts \ {r} : rows[o].sync \in UsedTransactionStates}} \ {None}

IsWaitingForTransaction(rows, r) ==
  /\ rows[r].sync = "WAITING_TRANSACTION" /\ rows[r].method \in LinkedMethods
  /\ rows[r].exp = "COMPLETED" /\ rows[r].jid = None
  /\ ~HoldsJournalAncestor(rows, r)

DaysBefore == 2
DaysAfter  == 5

IsCandidateFor(row, line) ==
  /\ row.method = line.service /\ line.amount = row.amount
  /\ line.day \in (row.day - DaysBefore)..(row.day + DaysAfter)

Candidates(rows, lines, pool, r) ==
  {t \in pool \ UsedTransactions(rows, None) : IsCandidateFor(rows[r], lines[t])}

Contenders(rows, lines, pool, t) ==
  {r \in Receipts : IsWaitingForTransaction(rows, r) /\ t \in Candidates(rows, lines, pool, r)}

\* The line a waiting row is settled with: its only candidate, and no other row's.
Matched(rows, lines, pool, r) ==
  {t \in Candidates(rows, lines, pool, r) :
     /\ Candidates(rows, lines, pool, r) = {t}
     /\ Contenders(rows, lines, pool, t) = {r}}

\* A waiting row that has candidates and cannot be settled.
Ambiguous(rows, lines, pool, r) ==
  Candidates(rows, lines, pool, r) # {} /\ Matched(rows, lines, pool, r) = {}

\* planLinkedCancellation: what becomes of the entry of a cancelled row r.
Registering(rows, d) == rows[d].exp \in {"RECEIVED", "FILE_SAVED", "ERROR"}
AwaitsCorrection(rows, d) ==
  rows[d].exp = "CORRECTED" /\ \A c \in Receipts : Parent[c] = d => rows[c].exp = None

Holders(rows, row, r) ==
  {d \in DescendantsOf(rows, r) : row.jid # None /\ rows[d].jid = row.jid}

Untouched(row) == row.sync \in {"", "WAITING_TRANSACTION"}

Inheritable(row, heir) ==
  /\ Untouched(heir) /\ heir.jid = None
  /\ heir.method = row.method /\ heir.amount = row.amount
  /\ DecideSyncTarget(heir) = "ready"

\* row is the cancelled row as it was read, rows the ledger now.  Of several receipts that
\* correct r the code takes the one entered last, here the last of the chain.
PlanLinkedCancellation(rows, row, r) ==
  LET desc  == DescendantsOf(rows, r)
      heirs == {d \in desc : rows[d].exp = "COMPLETED"}
      last  == {d \in heirs : \A o \in heirs : o = d \/ o \in Ancestors(d)}
      held  == Holders(rows, row, r)
      by    == CHOOSE d \in held : TRUE
      Plan(kind, heir) == [kind |-> kind, heir |-> heir]
  IN  CASE row.exp = "VOID" -> Plan("void", None)
        [] row.exp # "VOID" /\ held # {} ->
             IF rows[by].sync = "SYNCED" THEN Plan("done", by)
             ELSE IF rows[by].exp = "COMPLETED" /\ Untouched(rows[by]) THEN Plan("recover", by)
             ELSE Plan("wait", None)
        [] row.exp # "VOID" /\ held = {} ->
             IF desc = {} \/ \E d \in desc : Registering(rows, d) \/ AwaitsCorrection(rows, d)
               THEN Plan("wait", None)
             ELSE IF \E d \in last : Inheritable(row, rows[d])
               THEN Plan("inherit", CHOOSE d \in last : Inheritable(row, rows[d]))
             ELSE Plan("void", None)

=============================================================================
