----------------------------- MODULE JournalSync -----------------------------
(***************************************************************************)
(* The synchronisation of expenses with MF's books                         *)
(* (gas/src/app/journalSync.ts): cash expenses are entered, expenses paid  *)
(* with a linked card are settled with its statement lines, entries of     *)
(* cancelled receipts are deleted, rewritten or handed over to the receipt *)
(* that corrects them.                                                     *)
(*                                                                         *)
(* One execution runs at a time, in phases.  A phase reads the whole       *)
(* ledger, and of each row in turn what it decided on that reading is      *)
(* written under a short lock if a guard still holds; calls to MF are made *)
(* outside of the lock.  An execution may die anywhere.                    *)
(*                                                                         *)
(* Abstractions: both flags are on, the services and accounts configured;  *)
(* messages are left out; an execution's budget and deadline cut a phase   *)
(* short at any place, as a fault.                                         *)
(***************************************************************************)
EXTENDS JournalBooks, Sequences

Phases == <<"reverse", "maintain", "detect", "classify", "create", "rules", "human", "match">>

\* at: the phase, or the place in the work on one row; who: that row; todo: the rows left;
\* seen: the ledger as it was last read; id, line, heir: answers in hand; pool: the lines
\* that were fetched, ruled: those under a rule, lines: those left to enter by rule.
Nothing == [r \in Receipts |-> NoRow]
Idle == [at |-> "idle", who |-> None, todo |-> {}, seen |-> Nothing, id |-> None, line |-> None,
         heir |-> None, pool |-> {}, ruled |-> {}, lines |-> {}, back |-> None,
         halted |-> FALSE, rejected |-> FALSE]

At(p, r) == run.at = p /\ run.who = r

\* The next row of a phase is taken.
Takes(p, r) == run.at = p /\ run.who = None /\ r \in run.todo

Move(p) == [run EXCEPT !.at = p]

\* The work on row r is over, and phase p goes on with the others.
Done(p, r) == [Idle EXCEPT !.at = p, !.todo = run.todo \ {r}, !.pool = run.pool,
                           !.seen = IF run.todo = {r} THEN Nothing ELSE run.seen,
                           !.ruled = run.ruled, !.lines = run.lines, !.halted = run.halted]

\* writeIfCurrent: the row is read again under the lock and written if the guard holds.  A
\* state that the table does not lead to is an exception, unless the entry is known to be
\* in MF; the write may die half way.
WriteIfCurrent(r, guard, force, new, yes, no) ==
  LET leads == force \/ CanTransition(rows[r].sync, new.sync)
  IN  /\ UNCHANGED <<books, edits>>
      /\ \/ ~guard /\ run' = no /\ UNCHANGED <<rows, faults>>
         \/ guard /\ ~leads /\ run' = Move("threw") /\ UNCHANGED <<rows, faults>>
         \/ guard /\ leads /\ rows' = [rows EXCEPT ![r] = new] /\ run' = yes /\ UNCHANGED faults
         \/ /\ guard /\ leads /\ faults < MaxFaults /\ faults' = faults + 1
            /\ \E torn \in Torn(rows[r], new) : rows' = [rows EXCEPT ![r] = torn]
            /\ run' = Idle

\* Row r in another state, for a reason that is read back or for none.
InState(r, state, reason) == [rows[r] EXCEPT !.sync = state, !.err = reason]

\* Row r with the id of its entry.
Synced(r, id) == [InState(r, "SYNCED", None) EXCEPT !.jid = id]

\* A step that leaves the ledger and MF alone.
Goes(to) == run' = to /\ UNCHANGED <<rows, books, faults, edits>>

\* The execution dies, is cut off, or a call fails in a way that ends it.
RunEnds ==
  /\ run.at # "idle" /\ faults < MaxFaults /\ faults' = faults + 1
  /\ run' = Idle
  /\ UNCHANGED <<rows, books, edits>>

\* The budget or the deadline lets the phase start no further row.
OutOfBudget ==
  /\ run.at \in {"maintain", "create", "rules", "human"} /\ run.who = None
  /\ run.todo # {} \/ run.lines # {}
  /\ faults < MaxFaults /\ faults' = faults + 1
  /\ run' = [run EXCEPT !.todo = {}, !.lines = {}]
  /\ UNCHANGED <<rows, books, edits>>

-----------------------------------------------------------------------------
(* What each phase finds to do.                                            *)

CancelledRowHasJournal(row) ==
  IsCancelled(row) /\ (row.sync = "SYNCED" \/ (row.jid # None /\ row.sync \in NoJournalStates))

\* Mutant of IsImportCandidate: the id of a changed row in review is taken for confirmed.
IsImportCandidateChanged(row) ==
  /\ row.sync \in ImportableStates /\ row.jid # None
  /\ row.err # row.jid
  /\ ~(row.sync = "NEEDS_REVIEW" /\ IsCancelled(row) /\ row.err = RouteUnknown)

IsImportCandidate(row) ==
  /\ row.sync \in ImportableStates /\ row.jid # None
  /\ row.sync = "NEEDS_REVIEW" => ~HasInputChanged(row)
  /\ row.err # row.jid
  /\ ~(row.sync = "NEEDS_REVIEW" /\ IsCancelled(row) /\ row.err = RouteUnknown)

IsMaintenanceCandidate(r) ==
  LET row == rows[r]
  IN  \/ row.sync \in {"CREATING", "UNKNOWN", "REVERSING", "JOURNALIZING"}
      \/ /\ CancelledRowHasJournal(row)
         /\ CASE CancellationRoute(row) = "unknown" ->
                   ~(row.sync = "NEEDS_REVIEW" /\ row.err = RouteUnknown)
              [] CancellationRoute(row) = "delete" -> TRUE
              [] CancellationRoute(row) = "put" -> PlanLinkedCancellation(rows, row, r).kind # "wait"
      \/ ~CancelledRowHasJournal(row) /\ IsImportCandidate(row)

\* A line of a rule that such a row could be settled with is not entered as private.
WantsTransaction(ledger, r) ==
  LET row == ledger[r]
  IN  /\ row.method \in LinkedMethods /\ row.exp = "COMPLETED" /\ row.jid = None
      /\ row.day >= StartDay
      /\ \/ row.sync = "WAITING_TRANSACTION" /\ ~HoldsJournalAncestor(ledger, r)
         \/ row.sync = "NEEDS_REVIEW"

\* The operator has named a line, and it is not the one kadobo itself once claimed.
IsHumanTransactionRow(row) ==
  /\ row.sync = "NEEDS_REVIEW" /\ row.tx # None /\ row.jid = None
  /\ row.method \in LinkedMethods /\ DecideSyncTarget(row) = "ready"
  /\ row.input.tx # row.tx

Wanted(pool, t) == {r \in Receipts : WantsTransaction(rows, r) /\ IsCandidateFor(rows[r], LineOf[t])}

Todo(p, pool, ruled) ==
  {r \in Receipts : rows[r].exp # None /\
     CASE p = "reverse" -> /\ IsCancelled(rows[r]) /\ rows[r].jid = None
                           /\ rows[r].sync \in NoJournalStates
       [] p = "maintain" -> IsMaintenanceCandidate(r)
       [] p = "detect" -> /\ rows[r].sync = "SYNCED" /\ ~IsCancelled(rows[r])
                          /\ HasInputChanged(rows[r])
       [] p = "classify" -> /\ rows[r].sync \in {"", "PENDING"} /\ rows[r].jid = None
                            /\ InitialStateFor(rows[r]) # rows[r].sync
                            /\ CanTransition(rows[r].sync, InitialStateFor(rows[r]))
       [] p = "create" -> /\ rows[r].sync = "PENDING" /\ rows[r].method = "cash"
                          /\ rows[r].exp = "COMPLETED" /\ rows[r].jid = None
       [] p = "rules" -> /\ rows[r].sync = "WAITING_TRANSACTION"
                         /\ \E t \in ruled : RuleOf[t] = "private" /\ r \in Wanted(pool, t)
       [] p = "human" -> IsHumanTransactionRow(rows[r])
       [] p = "match" -> /\ IsWaitingForTransaction(rows, r)
                         /\ Candidates(rows, LineOf, pool, r) # {}}

\* fetchTransactions: all unregistered lines from the start date on.
Fetched == {t \in Txs : status[t] = "none" /\ LineOf[t].day >= StartDay}

\* A phase begins with a reading of the ledger.
Enter(p) ==
  LET pool  == CASE p = "rules" -> Fetched
                 [] p = "match" -> run.pool \ run.ruled
                 [] OTHER -> run.pool
      ruled == IF p = "rules" THEN {t \in pool \ UsedTransactions(rows, None) : RuleOf[t] # None}
                              ELSE run.ruled
      todo  == Todo(p, pool, ruled)
  IN  Goes([Idle EXCEPT !.at = p, !.todo = todo,
                        !.seen = IF todo = {} \/ p = "maintain" THEN Nothing ELSE rows,
                        !.pool = pool, !.ruled = ruled, !.halted = run.halted,
                        !.lines = IF p = "rules"
                                    THEN {t \in ruled : RuleOf[t] = "private" /\ Wanted(pool, t) = {}}
                                    ELSE {}])

SyncExpenses == run.at = "idle" /\ Enter("reverse")

EndOfPhase ==
  /\ run.who = None
  /\ run.todo = {} \/ (run.halted /\ run.at \in {"create", "human"})
  /\ run.lines = {} \/ run.halted
  /\ \E i \in 1..Len(Phases) :
       /\ run.at = Phases[i]
       /\ IF i = Len(Phases) THEN Goes(Idle) ELSE Enter(Phases[i + 1])

-----------------------------------------------------------------------------
(* Cancelled rows of which there is no entry.                              *)

ReverseWithoutJournal(r) ==
  /\ Takes("reverse", r)
  /\ WriteIfCurrent(r, /\ IsCancelled(rows[r]) /\ rows[r].sync = run.seen[r].sync
                       /\ rows[r].jid = None,
                    FALSE, InState(r, "REVERSED", None), Done("reverse", r), Done("reverse", r))

-----------------------------------------------------------------------------
(* Maintenance of one row: a creation of unknown outcome is looked for, a  *)
(* cancellation carried on, an id typed in by hand taken over.             *)

Reads(r, at) == [Done("maintain", r) EXCEPT !.at = at, !.who = r, !.todo = run.todo,
                                            !.seen = [Nothing EXCEPT ![r] = rows[r]]]

\* Entries made for receipt r and dated in days.
FindJournalsByTag(r, days) == {i \in Ids \cup Txs : entries[i].tag = r /\ entries[i].day \in days}

\* The day the entry was made for, and the row's day now.
RecoverySearchDays(row) == {row.day, row.input.day}

RecoverCreating(r) ==
  /\ Takes("maintain", r) /\ rows[r].sync \in {"CREATING", "UNKNOWN"}
  /\ LET found == FindJournalsByTag(r, RecoverySearchDays(rows[r]))
     IN  \/ found = {} /\ Goes(Reads(r, "recovered"))
         \/ \E i \in found : Goes([Reads(r, "recovered") EXCEPT !.id = i])

RecordRecovered(r) ==
  /\ At("recovered", r)
  /\ IF run.id # None
       THEN WriteIfCurrent(r, rows[r].sync \in {"CREATING", "UNKNOWN"}, TRUE,
                           Synced(r, run.id),
                           Move("again"), Move("again"))
       ELSE IF run.seen[r].sync = "CREATING" /\ run.seen[r].aged
       THEN WriteIfCurrent(r, rows[r].sync = "CREATING", FALSE,
                           InState(r, "UNKNOWN", None), Move("again"), Move("again"))
       ELSE Goes(Move("again"))

\* The row is read anew after a creation has been looked for.
RecoverJournalizing(r) ==
  /\ Takes("maintain", r) \/ At("again", r)
  /\ rows[r].sync = "JOURNALIZING"
  /\ Goes([Reads(r, "trace") EXCEPT !.back = "again2"])

Settles(r) ==
  \/ Takes("maintain", r) /\ rows[r].sync \notin {"CREATING", "UNKNOWN", "JOURNALIZING"}
  \/ At("again", r) /\ rows[r].sync # "JOURNALIZING"
  \/ At("again2", r)

ProcessMaintenanceRow(r) ==
  /\ Settles(r)
  /\ Goes(CASE rows[r].sync = "REVERSING" -> Reads(r, "undo")
            [] CancelledRowHasJournal(rows[r]) -> Reads(r, "cancel")
            [] ~CancelledRowHasJournal(rows[r]) /\ IsImportCandidate(rows[r]) ->
                 [Reads(r, "import") EXCEPT !.id = IF Live(rows[r].jid) THEN rows[r].jid ELSE None]
            [] OTHER -> Done("maintain", r))

ImportRow(r) ==
  /\ At("import", r)
  /\ LET row == run.seen[r]
     IN  WriteIfCurrent(r, rows[r].jid = row.jid /\ rows[r].sync \in ImportableStates, FALSE,
           IF run.id # None
             THEN [InState(r, "SYNCED", None) EXCEPT !.input = SummarizeSyncInput(row)]
             ELSE InState(r, IF row.sync = "UNKNOWN" THEN rows[r].sync ELSE "NEEDS_REVIEW", row.jid),
           Done("maintain", r), Done("maintain", r))

CancelRow(r) ==
  /\ At("cancel", r)
  /\ LET row     == run.seen[r]
         route   == CancellationRoute(row)
         done    == Done("maintain", r)
         current == IsCancelled(rows[r]) /\ rows[r].sync = row.sync
         mark    == InState(r, "REVERSING", None)
     IN  CASE route = "unknown" ->
                WriteIfCurrent(r, current /\ CancellationRoute(rows[r]) = "unknown", FALSE,
                               InState(r, "NEEDS_REVIEW", RouteUnknown), done, done)
           [] route = "put" /\ PlanLinkedCancellation(rows, row, r).kind = "wait" -> Goes(done)
           [] OTHER -> WriteIfCurrent(r, current, FALSE, mark,
                         [Move("undo") EXCEPT !.seen[r] = mark], done)

-----------------------------------------------------------------------------
(* The entry of a cancelled row.                                           *)

RowFails(r, err, to) ==
  WriteIfCurrent(r, rows[r].sync = "REVERSING", FALSE, InState(r, "ERROR", err), to, to)

\* A call to MF that changes entry i: it takes effect, is refused, or its answer is lost and
\* the execution ends, with or without the effect.
CallsMf(i, entry, then, refused) ==
  /\ \/ Place(i, entry) /\ run' = then /\ UNCHANGED faults
     \/ UNCHANGED entries /\ run' = refused /\ UNCHANGED faults
     \/ faults < MaxFaults /\ faults' = faults + 1 /\ Place(i, entry) /\ run' = Idle
  /\ UNCHANGED <<rows, status, sent, edits>>

\* Mutant of FinishReversal: the cash entry is taken to be gone.
FinishReversalUndeleted(r) == At("undo", r) /\ Goes(Move("undone"))

FinishReversal(r) ==
  /\ At("undo", r)
  /\ LET row  == run.seen[r]
         plan == PlanLinkedCancellation(rows, row, r)
         done == Done("maintain", r)
         with == [Move("put") EXCEPT !.seen = [rows EXCEPT ![r] = row], !.heir = plan.heir]
     IN  CASE row.jid = None -> RowFails(r, None, done)
           [] row.jid # None /\ CancellationRoute(row) = "unknown" ->
                RowFails(r, RouteUnknown, done)
           [] row.jid # None /\ CancellationRoute(row) = "delete" ->
                IF Live(row.jid) THEN CallsMf(row.jid, Deleted, Move("undone"), Move("refused"))
                                 ELSE Goes(Move("undone"))
           [] row.jid # None /\ CancellationRoute(row) = "put" ->
                Goes(CASE plan.kind = "wait" -> done
                       [] plan.kind = "done" -> [with EXCEPT !.at = "fill"]
                       [] OTHER -> IF Live(row.jid) THEN with ELSE Move("undone"))

\* finishReversalByPut: the entry is made private, or rewritten as its heir's.
PutJournal(r) ==
  /\ At("put", r)
  /\ LET id == run.seen[r].jid
         h  == run.heir
     IN  IF h = None
           THEN CallsMf(id, [entries[id] EXCEPT !.tag = r, !.void = TRUE],
                        Move("undone"), Move("refused"))
           ELSE CallsMf(id, [EntryFor(h, run.seen[h]) EXCEPT !.of = entries[id].of],
                        Move("inherit"), Move("refused"))

\* Mutant of Inherit: the hand-over is reported although the heir's row was not written.
InheritUnwritten(r) ==
  /\ At("inherit", r)
  /\ LET h   == run.heir
         row == run.seen[r]
     IN  WriteIfCurrent(h,
           /\ rows[h].exp = "COMPLETED" /\ rows[h].jid \in {None, row.jid} /\ Untouched(rows[h])
           /\ SummarizeSyncInput(rows[h]) = SummarizeSyncInput(run.seen[h]),
           TRUE, [Synced(h, row.jid) EXCEPT !.tx = row.tx,
                                            !.input = SummaryWithTx(run.seen[h], row.tx)],
           Move("undone"), Move("undone"))

\* The heir's row is written before the row that hands over.
Inherit(r) ==
  /\ At("inherit", r)
  /\ LET h   == run.heir
         row == run.seen[r]
     IN  WriteIfCurrent(h,
           /\ rows[h].exp = "COMPLETED" /\ rows[h].jid \in {None, row.jid} /\ Untouched(rows[h])
           /\ SummarizeSyncInput(rows[h]) = SummarizeSyncInput(run.seen[h]),
           TRUE, [Synced(h, row.jid) EXCEPT !.tx = row.tx,
                                            !.input = SummaryWithTx(run.seen[h], row.tx)],
           Move("undone"), Done("maintain", r))

\* The heir has the entry already; what a torn write left out is filled in.
FillHeir(r) ==
  /\ At("fill", r)
  /\ LET h   == run.heir
         row == run.seen[r]
     IN  IF run.seen[h].tx = None \/ run.seen[h].input.tx = None
           THEN WriteIfCurrent(h, /\ rows[h].jid = row.jid /\ rows[h].sync = "SYNCED"
                                  /\ ~HasInputChanged(rows[h]),
                               FALSE, [rows[h] EXCEPT !.tx = row.tx,
                                                      !.input = SummaryWithTx(run.seen[h], row.tx)],
                               Move("undone"), Move("undone"))
           ELSE Goes(Move("undone"))

RecordReversed(r) ==
  \/ /\ At("undone", r)
     /\ WriteIfCurrent(r, rows[r].sync = "REVERSING", FALSE, InState(r, "REVERSED", None),
                       Done("maintain", r), Done("maintain", r))
  \/ At("refused", r) /\ RowFails(r, None, Done("maintain", r))

-----------------------------------------------------------------------------
(* Changed rows, new rows.                                                 *)

DetectChange(r) ==
  /\ Takes("detect", r)
  /\ WriteIfCurrent(r, rows[r].sync = "SYNCED" /\ HasInputChanged(rows[r]), FALSE,
                    InState(r, "NEEDS_REVIEW", None), Done("detect", r), Done("detect", r))

Classify(r) ==
  /\ Takes("classify", r)
  /\ WriteIfCurrent(r, rows[r].sync = run.seen[r].sync /\ rows[r].jid = None, FALSE,
                    InState(r, InitialStateFor(run.seen[r]), None),
                    Done("classify", r), Done("classify", r))

\* createCashJournal: an entry that carries the receipt's tag is adopted.
SearchFirst(r) ==
  /\ Takes("create", r) /\ ~run.halted
  /\ LET found == FindJournalsByTag(r, {run.seen[r].day})
     IN  \/ found = {} /\ Goes([Move("mark") EXCEPT !.who = r])
         \/ \E i \in found : Goes([Move("adopt") EXCEPT !.who = r, !.id = i])

Adopt(r) ==
  /\ At("adopt", r)
  /\ WriteIfCurrent(r, rows[r].sync = "PENDING", TRUE,
                    [Synced(r, run.id) EXCEPT !.input = SummarizeSyncInput(run.seen[r])],
                    Done("create", r), Done("create", r))

\* The attempt is noted before it is made, if the row still is what was looked up.
MarkCreating(r) ==
  /\ At("mark", r)
  /\ LET mark == [InState(r, "CREATING", None) EXCEPT
                    !.aged = FALSE, !.input = SummarizeSyncInput(run.seen[r])]
     IN  WriteIfCurrent(r,
           /\ rows[r].sync = "PENDING" /\ rows[r].exp = "COMPLETED" /\ rows[r].jid = None
           /\ DecideSyncTarget(rows[r]) = "ready" /\ rows[r].method = "cash"
           /\ SummarizeSyncInput(rows[r]) = SummarizeSyncInput(run.seen[r]),
           FALSE, mark, [Move("post") EXCEPT !.seen[r] = mark], Done("create", r))

\* A creation of entry i that is given up: MF may still carry it out.
GivesUp(i, entry, to) ==
  /\ faults < MaxFaults /\ faults' = faults + 1
  /\ sent' = sent \cup {[id |-> i, entry |-> entry]}
  /\ run' = [to EXCEPT !.halted = TRUE]
  /\ UNCHANGED <<rows, entries, status, edits>>

\* Mutant of PostJournal: a call that was given up is taken for a refusal.
PostForgotten(r) ==
  /\ At("post", r)
  /\ \/ \E i \in Ids : /\ Creatable(i) /\ Place(i, EntryFor(r, run.seen[r])) /\ Register(i)
                       /\ run' = [Move("entered") EXCEPT !.id = i, !.back = "create"]
                       /\ UNCHANGED <<rows, sent, faults, edits>>
     \/ \E i \in Ids : Creatable(i) /\ GivesUp(i, EntryFor(r, run.seen[r]), Move("limited"))

PostJournal(r) ==
  /\ At("post", r)
  /\ \/ \E i \in Ids : /\ Creatable(i) /\ Place(i, EntryFor(r, run.seen[r])) /\ Register(i)
                       /\ run' = [Move("entered") EXCEPT !.id = i, !.back = "create"]
                       /\ UNCHANGED <<rows, sent, faults, edits>>
     \/ \E i \in Ids : Creatable(i) /\ GivesUp(i, EntryFor(r, run.seen[r]), Done("create", r))
     \/ Goes(Move("rejected")) \/ Goes(Move("limited"))

\* An answered refusal is final; a call that was not accepted (429) is made again by a later
\* execution, and ends this one.
RecordRefused(r) ==
  \/ /\ At("rejected", r)
     /\ WriteIfCurrent(r, rows[r].sync = "CREATING", FALSE, InState(r, "ERROR", None),
                       Done("create", r), Done("create", r))
  \/ /\ At("limited", r)
     /\ WriteIfCurrent(r, rows[r].sync = "CREATING", FALSE, [rows[r] EXCEPT !.sync = "PENDING"], Idle, Idle)

-----------------------------------------------------------------------------
(* Statement lines.                                                        *)

Back(r) == IF run.back = "again2" THEN Move("again2") ELSE Done(run.back, r)

\* An entry is in MF: its id is written whatever has become of the row.
RecordEntered(r) ==
  /\ At("entered", r)
  /\ WriteIfCurrent(r, TRUE, TRUE, Synced(r, run.id),
                    Back(r), Back(r))

\* A row that a private rule would take the line from is shown to the operator instead.
HoldRuleConflict(r) ==
  /\ Takes("rules", r)
  /\ WriteIfCurrent(r, rows[r].sync = "WAITING_TRANSACTION" /\ rows[r].jid = None, FALSE,
                    InState(r, "NEEDS_REVIEW", None), Done("rules", r), Done("rules", r))

JournalizeByRule(t) ==
  /\ run.at = "rules" /\ run.todo = {} /\ t \in run.lines /\ ~run.halted
  /\ LET on == [run EXCEPT !.lines = @ \ {t}]
     IN  \/ /\ Creatable(t) /\ Place(t, EntryFor("private", LineOf[t])) /\ Register(t)
            /\ run' = on /\ UNCHANGED <<rows, sent, faults, edits>>
         \/ GivesUp(t, EntryFor("private", LineOf[t]), on)
         \/ Goes(on)

Claimed(r, t) ==
  [InState(r, "JOURNALIZING", None) EXCEPT
     !.tx = t, !.aged = FALSE, !.input = SummaryWithTx(run.seen[r], t)]

\* Under the lock all that led to the line is looked at again: the row, that no other row
\* holds the line, and for a match that it still is one against the ledger as it is now.
StartJournalize(r, t, auto) ==
  LET cur  == rows[r]
      row  == run.seen[r]
      mark == Claimed(r, t)
  IN  WriteIfCurrent(r,
        /\ cur.sync = row.sync /\ cur.exp = "COMPLETED" /\ cur.jid = None
        /\ CanTransition(cur.sync, "JOURNALIZING")
        /\ DecideSyncTarget(cur) = "ready" /\ cur.method = row.method
        /\ cur.tx \in {None, t}
        /\ SummaryWithTx(cur, t) = SummaryWithTx(row, t)
        /\ t \notin UsedTransactions(rows, r)
        /\ auto => Matched(rows, LineOf, run.pool, r) = {t},
        FALSE, mark,
        [Move("send") EXCEPT !.who = r, !.seen[r] = mark, !.back = run.at],
        Done(run.at, r))

HumanTransaction(r) ==
  /\ Takes("human", r) /\ ~run.halted
  /\ LET row == run.seen[r]
         t   == row.tx
     IN  IF /\ t \in run.pool /\ LineOf[t].service = row.method /\ LineOf[t].amount = row.amount
            /\ t \notin UsedTransactions(run.seen, r)
           THEN StartJournalize(r, t, FALSE)
           ELSE WriteIfCurrent(r, rows[r].sync = "NEEDS_REVIEW" /\ rows[r].tx = t, FALSE,
                               [rows[r] EXCEPT !.err = None], Done("human", r), Done("human", r))

MatchOutcome(r) ==
  /\ Takes("match", r)
  /\ \/ \E t \in Matched(run.seen, LineOf, run.pool, r) :
          IF run.halted THEN Goes(Done("match", r)) ELSE StartJournalize(r, t, TRUE)
     \/ /\ Ambiguous(run.seen, LineOf, run.pool, r)
        /\ WriteIfCurrent(r, rows[r].sync = "WAITING_TRANSACTION" /\ rows[r].jid = None, FALSE,
                          InState(r, "NEEDS_REVIEW", None),
                          Done("match", r), Done("match", r))

\* The entry gets the row's day and the line's amount.
SendJournalize(r) ==
  /\ At("send", r)
  /\ LET t == run.seen[r].tx
         e == [EntryFor(r, run.seen[r]) EXCEPT !.amount = LineOf[t].amount]
     IN  \/ /\ Creatable(t) /\ Place(t, e) /\ Register(t)
            /\ run' = [Move("entered") EXCEPT !.id = t]
            /\ UNCHANGED <<rows, sent, faults, edits>>
         \/ GivesUp(t, e, Back(r))
         \/ Refusable(t) /\ Goes([Move("trace") EXCEPT !.rejected = TRUE])

\* The day the entry was to be made for.
JournalizingDate(row) == IF row.input = NoInput THEN row.day ELSE row.input.day

\* recoverJournalizing: first the entry of the row's line is looked for ...
TraceEntry(r) ==
  /\ At("trace", r)
  /\ LET row == run.seen[r]
         d   == JournalizingDate(row)
         has == row.tx # None /\ Live(row.tx) /\ entries[row.tx].day \in (d - 1)..(d + 1)
     IN  Goes([Move("traced") EXCEPT !.id = IF has THEN row.tx ELSE None])

FetchDaysBeforeRow == 3

\* The line is among those fetched for row: of the services of the method the row says now,
\* from some days before the row's day or the entry's.
IsFetchedFor(row, t) ==
  /\ LineOf[t].service = row.method
  /\ LineOf[t].day >= StartDay
  /\ \/ LineOf[t].day >= row.day - FetchDaysBeforeRow
     \/ LineOf[t].day >= JournalizingDate(row) - FetchDaysBeforeRow

\* ... and if there is none, the line itself.  The row of a method that has no service stays
\* as it is.
RecordTraced(r) ==
  /\ At("traced", r)
  /\ LET row == run.seen[r]
         t   == row.tx
     IN  CASE run.id # None ->
                WriteIfCurrent(r, rows[r].sync = "JOURNALIZING", TRUE,
                               Synced(r, run.id), Back(r), Back(r))
           [] run.id = None /\ t # None /\ row.method \notin LinkedMethods -> Goes(Back(r))
           [] run.id = None /\ (t = None \/ row.method \in LinkedMethods) ->
                Goes([Move("lined") EXCEPT
                        !.line = IF t # None /\ IsFetchedFor(row, t) THEN status[t] ELSE "absent"])

\* Of a line that is still unregistered the entry is made again, unless MF has just refused it;
\* a line that was not found or is registered is the operator's.
RecordLined(r) ==
  /\ At("lined", r)
  /\ LET journalizing == rows[r].sync = "JOURNALIZING"
     IN  CASE run.line # "none" ->
                WriteIfCurrent(r, journalizing, FALSE, InState(r, "NEEDS_REVIEW", None),
                               Back(r), Back(r))
           [] run.line = "none" /\ run.rejected ->
                WriteIfCurrent(r, journalizing, FALSE, InState(r, "ERROR", None),
                               Back(r), Back(r))
           [] run.line = "none" /\ ~run.rejected ->
                IF run.halted THEN Goes(Back(r))
                ELSE WriteIfCurrent(r, journalizing, FALSE, [rows[r] EXCEPT !.aged = FALSE],
                                    [Move("send") EXCEPT !.seen[r] = rows[r]], Back(r))

-----------------------------------------------------------------------------
RunSync ==
  \/ SyncExpenses \/ EndOfPhase
  \/ \E t \in Txs : JournalizeByRule(t)
  \/ \E r \in Receipts :
       \/ ReverseWithoutJournal(r) \/ RecoverCreating(r) \/ RecordRecovered(r)
       \/ RecoverJournalizing(r) \/ ProcessMaintenanceRow(r) \/ ImportRow(r) \/ CancelRow(r)
       \/ FinishReversal(r) \/ PutJournal(r) \/ Inherit(r) \/ FillHeir(r) \/ RecordReversed(r)
       \/ DetectChange(r) \/ Classify(r)
       \/ SearchFirst(r) \/ Adopt(r) \/ MarkCreating(r) \/ PostJournal(r) \/ RecordRefused(r)
       \/ RecordEntered(r) \/ HoldRuleConflict(r) \/ HumanTransaction(r) \/ MatchOutcome(r)
       \/ SendJournalize(r) \/ TraceEntry(r) \/ RecordTraced(r) \/ RecordLined(r)

Next == World \/ RunSync \/ RunEnds \/ OutOfBudget

Init ==
  /\ rows = [r \in Receipts |-> NoRow]
  /\ entries = [i \in Ids \cup Txs |-> NoEntry]
  /\ status \in [Txs -> {"absent", "none"}]
  /\ sent = {} /\ run = Idle /\ faults = 0 /\ edits = 0

Spec == Init /\ [][Next]_vars

\* The hourly trigger keeps executing; MF decides what it was sent; days pass between two
\* executions.
Fairness ==
  /\ WF_vars(RunSync)
  /\ WF_vars(\E q \in sent : MfDecides(q))
  /\ \A r \in Receipts : SF_vars(DayPasses(r))
FairSpec == Spec /\ Fairness

-----------------------------------------------------------------------------
(* Properties.                                                             *)

Input == [amount : Amounts \cup {0}, day : Days \cup {0},
          method : Methods \cup {None}, tx : Txs \cup {None}]
Row == [exp : {None, "RECEIVED", "COMPLETED", "CORRECTED", "VOID"},
        method : Methods \cup {None}, amount : Amounts \cup {0}, day : Days \cup {0},
        whole : BOOLEAN, sync : SyncStates, jid : Ids \cup Txs \cup {None},
        tx : Txs \cup {None}, err : {None, RouteUnknown} \cup Ids \cup Txs, aged : BOOLEAN,
        input : Input]
Tags == Receipts \cup {None, "deleted", "hand", "private"}
Entry == [tag : Tags, of : Tags, void : BOOLEAN, amount : Amounts \cup {0}, day : Nat,
          checked : BOOLEAN]
Places == {Phases[i] : i \in 1..Len(Phases)} \cup
          {"idle", "threw", "recovered", "again", "again2", "import", "cancel", "undo", "undone",
           "refused", "put", "inherit", "fill", "adopt", "mark", "post", "rejected", "limited",
           "entered", "send", "trace", "traced", "lined"}
Run == [at : Places, who : Receipts \cup {None}, todo : SUBSET Receipts,
       seen : [Receipts -> Row], id : Ids \cup Txs \cup {None},
       line : {None, "absent", "none", "registered", "excluded"},
       heir : Receipts \cup {None}, pool : SUBSET Txs, ruled : SUBSET Txs,
       lines : SUBSET Txs, back : {None, "again2", "create", "human", "match"},
       halted : BOOLEAN, rejected : BOOLEAN]

\* The ledger, MF and the execution hold values of their kinds (types of the row in
\* core/journalSync.ts, of an entry in ports.ts).
TypeOK ==
  /\ rows \in [Receipts -> Row]
  /\ entries \in [Ids \cup Txs -> Entry]
  /\ status \in [Txs -> {"absent", "none", "registered", "excluded"}]
  /\ sent \subseteq [id : Ids \cup Txs, entry : Entry]
  /\ run \in Run
  /\ faults \in 0..MaxFaults /\ edits \in 0..MaxEdits

\* The entries made from nothing for r, whoever they were handed over to, and those that
\* may still appear.
Made(r) == {i \in Ids : entries[i].of = r}
             \cup {q.id : q \in {q \in sent : q.id \in Ids /\ q.entry.of = r}}

\* A cash expense is entered once: whatever answers are lost, executions die or writes tear,
\* and however the operator moves the row in between, no creation is sent while an earlier
\* one took effect or still may (searchFirst, the mark CREATING before the POST and the day
\* a recovery waits, :1274-1386 and :470-508).
OneEntry ==
  \A r \in Receipts : Cardinality(Made(r)) <= 1 /\ (At("post", r) => Made(r) = {})

\* A cancelled receipt reported as REVERSED has left nothing in the books that counts as its
\* expense, nor is any of it on its way, and the receipt its entry was rewritten for knows it;
\* what was handed over in part is being undone by the receipt that got it (finishReversal,
\* reverseWithoutJournal).  The exception is the entry of a line that recovery could not see
\* when it gave the row to the operator, who then cancelled it without naming the entry.
Undone(r, i) ==
  \/ entries[i].tag # r \/ entries[i].void
  \/ \E s \in Receipts \ {r} : rows[s].jid = i /\ rows[s].sync \in {"REVERSING", "ERROR"}
Possible(q) == q.id \in Txs => status[q.id] = "none"
Overlooked(r, i) == i \in Txs /\ rows[r].jid # i /\ rows[r].input.tx = i
Inherited(i) == entries[i].tag \in Receipts /\ ~entries[i].void => rows[entries[i].tag].jid = i
CancelledLeavesNothing ==
  \A r \in Receipts : rows[r].sync = "REVERSED" =>
    /\ \A i \in Ids \cup Txs : Undone(r, i) \/ Overlooked(r, i)
    /\ \A q \in sent : q.entry.tag = r => Overlooked(r, q.id) \/ ~Possible(q)
    /\ rows[r].jid # None => Inherited(rows[r].jid)

\* No guarded write asks the state table for a step it does not have, whatever others did to
\* the row since it was read: the exception would end the execution at the same row in every
\* hour to come (assertTransition in writeIfCurrent).
TableAdmitsEveryWrite == run.at # "threw"

\* A completed receipt reported as SYNCED and not known to have changed has an entry in MF,
\* and, unless the operator answered for that entry or a private rule made it, one of its own
\* with its amount and, if it was made from nothing, its day, though rows are edited before,
\* during and after the creation and receipts compete for a line (mf_sync_input,
\* detectChangedRows, recoverJournalizing).  The amount of an entry of a line that a search by
\* tag found for a receipt now paid in cash is not compared.
AdoptedByTag(row) == row.jid \in Txs /\ row.method \notin LinkedMethods
SyncedIsRecorded ==
  \A r \in Receipts :
    LET row == rows[r]
        e   == entries[row.jid]
    IN  row.sync = "SYNCED" /\ row.exp = "COMPLETED" /\ ~HasInputChanged(row) =>
          /\ row.jid # None /\ Live(row.jid)
          /\ e.tag \notin {"hand", "private"} /\ ~e.checked =>
               /\ e.tag = r /\ ~e.void
               /\ e.amount = row.amount \/ AdoptedByTag(row)
               /\ row.tx = None => e.day = row.day

\* A statement line pays for one receipt: two rows never hold it, their entry made of it or
\* yet to be made, but for a receipt whose entry is on its way to the one that corrects it
\* (re-evaluation under the lock in startJournalize, usedTransactionIds).
Holds(r, t) ==
  /\ rows[r].sync \in {"JOURNALIZING", "SYNCED", "REVERSING"}
  /\ rows[r].tx = t /\ rows[r].jid \in {None, t}
HandsOver(r, s) == rows[r].sync = "REVERSING" /\ r \in Ancestors(s)
LineServesOneReceipt ==
  \A t \in Txs, r, s \in Receipts :
    Holds(r, t) /\ Holds(s, t) => r = s \/ HandsOver(r, s) \/ HandsOver(s, r)

\* The synchronisation of cash expenses is the bookkeeping of module Bookkeeping: an entry is
\* asked for from the mark on, disappears only with its receipt, and a receipt is closed as
\* REVERSED only with clean books.
Asked     == {r \in Receipts : At("post", r) \/ \E q \in sent : q.id \in Ids /\ q.entry.tag = r}
Entered   == {r \in Receipts : \E i \in Ids : entries[i].tag = r /\ ~entries[i].void}
Withdrawn == {r \in Receipts : IsCancelled(rows[r])}
Closed    == {r \in Withdrawn : rows[r].sync = "REVERSED"}
Books == INSTANCE Bookkeeping WITH
  asked <- Asked, entered <- Entered, cancelled <- Withdrawn, closed <- Closed
KeepsBooks == Books!Spec

\* A receipt taken back does not stay in the books unnoticed: its entry is undone, or the row
\* says what the operator has to look into (the phases of runSync, in every execution).  A
\* row whose method was edited away from its service while JOURNALIZING may stay there in
\* silence, but only if its line has no entry and none is on its way.
Settled(row) ==
  \/ row.sync \in {"REVERSED", "ERROR", "UNKNOWN", "NOT_TARGET"}
  \/ row.sync = "NEEDS_REVIEW" /\ row.err = RouteUnknown
Stranded(row) ==
  /\ row.sync = "JOURNALIZING" /\ row.method \notin LinkedMethods
  /\ row.tx # None /\ ~Live(row.tx) /\ \A q \in sent : q.id # row.tx
=============================================================================
