-------------------------- MODULE JournalSyncProofs --------------------------
(***************************************************************************)
(* Proofs about JournalSync for every ledger, every chain of corrections,  *)
(* every set of statement lines and rules, and any number of faults and of *)
(* edits by the operator.  The last part is about expenses that are not    *)
(* paid from a statement line; JournalLinesProofs is about those that are. *)
(***************************************************************************)
EXTENDS JournalSync, FiniteSetTheorems, TLAPS

-----------------------------------------------------------------------------
(* Types of the parts.                                                     *)

Errs == {None, RouteUnknown} \cup Ids \cup Txs

LEMMA NoRowType == NoRow \in Row
BY DEF NoRow, NoInput, Row, Input, SyncStates, ImportableStates, NoJournalStates, None

LEMMA IdleType == Idle \in Run /\ Nothing \in [Receipts -> Row]
<1>1. Nothing \in [Receipts -> Row]
  BY NoRowType DEF Nothing
<1> HIDE DEF Nothing
<1>2. QED BY <1>1 DEF Idle, Run, Places

LEMMA MoveType ==
  ASSUME run \in Run, NEW p \in Places
  PROVE  Move(p) \in Run /\ Move(p) = [run EXCEPT !.at = p]
BY DEF Move, Run

LEMMA DoneType ==
  ASSUME run \in Run, NEW p \in Places, NEW r
  PROVE  Done(p, r) \in Run
<1>1. (IF run.todo = {r} THEN Nothing ELSE run.seen) \in [Receipts -> Row]
  BY IdleType DEF Run
<1> DEFINE s == IF run.todo = {r} THEN Nothing ELSE run.seen
<1> HIDE DEF s
<1>2. [Idle EXCEPT !.at = p, !.todo = run.todo \ {r}, !.pool = run.pool, !.seen = s,
                   !.ruled = run.ruled, !.lines = run.lines, !.halted = run.halted] \in Run
  BY <1>1, IdleType DEF Run, s
<1>3. QED BY <1>2 DEF Done, s

LEMMA SummaryType ==
  ASSUME NEW row \in Row, NEW t \in Txs \cup {None}
  PROVE  SummaryWithTx(row, t) \in Input /\ SummarizeSyncInput(row) \in Input
BY DEF SummaryWithTx, SummarizeSyncInput, Row, Input

LEMMA TornType ==
  ASSUME NEW old \in Row, NEW new \in Row, NEW torn \in Torn(old, new)
  PROVE  /\ torn \in Row
         /\ torn.sync = old.sync /\ torn.jid = new.jid /\ torn.tx \in {old.tx, new.tx}
         /\ torn.aged \in {old.aged, new.aged} /\ torn.input \in {old.input, new.input}
         /\ \A f \in {"exp", "method", "amount", "day", "whole"} : torn[f] = old[f]
<1> DEFINE id     == [old EXCEPT !.jid = new.jid]
           line   == [id EXCEPT !.tx = new.tx]
           reason == [line EXCEPT !.err = new.err]
           tried  == [reason EXCEPT !.aged = new.aged]
           input  == [tried EXCEPT !.input = new.input]
           part(row) == /\ row \in Row /\ row.sync = old.sync /\ row.jid = new.jid
                        /\ \A f \in {"exp", "method", "amount", "day", "whole"} : row[f] = old[f]
<1>1. part(id) /\ id.tx = old.tx /\ id.aged = old.aged /\ id.input = old.input
  BY DEF Row
<1> HIDE DEF id
<1>2. part(line) /\ line.tx = new.tx /\ line.aged = old.aged /\ line.input = old.input
  BY <1>1 DEF Row
<1> HIDE DEF line
<1>3. part(reason) /\ reason.tx = new.tx /\ reason.aged = old.aged /\ reason.input = old.input
  BY <1>2 DEF Row
<1> HIDE DEF reason
<1>4. part(tried) /\ tried.tx = new.tx /\ tried.aged = new.aged /\ tried.input = old.input
  BY <1>3 DEF Row
<1> HIDE DEF tried
<1>5. part(input) /\ input.tx = new.tx /\ input.aged = new.aged /\ input.input = new.input
  BY <1>4 DEF Row
<1> HIDE DEF input, part
<1>6. torn \in {id, line, reason, tried, input}
  BY DEF Torn, id, line, reason, tried, input
<1>7. part(torn) /\ torn.tx \in {old.tx, new.tx} /\ torn.aged \in {old.aged, new.aged}
      /\ torn.input \in {old.input, new.input}
  BY <1>1, <1>2, <1>3, <1>4, <1>5, <1>6
<1>8. QED BY <1>7 DEF part

\* What a guarded write does.
LEMMA WriteType ==
  ASSUME TypeOK, NEW r \in Receipts, NEW guard, NEW force, NEW new, NEW yes, NEW no,
         guard => new \in Row /\ yes \in Run, no \in Run,
         WriteIfCurrent(r, guard, force, new, yes, no)
  PROVE  TypeOK'
<1>1. UNCHANGED <<entries, status, sent, edits>>
  BY DEF WriteIfCurrent, books
<1>2. Move("threw") \in Run
  BY MoveType DEF TypeOK, Places
<1>3. run' \in Run
  BY <1>2, IdleType DEF WriteIfCurrent
<1>4. rows' \in [Receipts -> Row]
  <2>1. CASE rows' = rows
    BY <2>1 DEF TypeOK
  <2>2. CASE guard /\ rows' = [rows EXCEPT ![r] = new]
    BY <2>2 DEF TypeOK
  <2>3. CASE guard /\ \E torn \in Torn(rows[r], new) : rows' = [rows EXCEPT ![r] = torn]
    BY <2>3, TornType DEF TypeOK
  <2>4. QED BY <2>1, <2>2, <2>3 DEF WriteIfCurrent
<1>5. faults' \in 0..MaxFaults
  BY JournalBooksAssumption DEF WriteIfCurrent, TypeOK
<1>6. QED BY <1>1, <1>3, <1>4, <1>5 DEF TypeOK

\* What an execution carries in its hands at the places where it acts on it.
HandsOf(s) ==
  /\ s.at \in {"entered", "send", "trace", "traced", "lined"} => s.back # None
  /\ s.at = "send" => s.who \in Receipts /\ s.seen[s.who].tx # None
  /\ s.at \in {"inherit", "fill"} => s.heir # None

\* A row that waits for the entry of a line names the line.
Claims == \A r \in Receipts : rows[r].sync = "JOURNALIZING" => rows[r].tx # None

TypeInv == TypeOK /\ Claims /\ HandsOf(run)

\* The places of which the above says nothing.
Free == Places \ {"entered", "send", "trace", "traced", "lined", "inherit", "fill"}

LEMMA FreeHands ==
  ASSUME NEW s, s.at \in Free
  PROVE  HandsOf(s)
BY DEF HandsOf, Free

LEMMA WriteTyped ==
  ASSUME TypeInv, NEW r \in Receipts, NEW guard, NEW force, NEW new, NEW yes, NEW no,
         guard => /\ new \in Row /\ yes \in Run /\ HandsOf(yes)
                  /\ "JOURNALIZING" \in {new.sync, rows[r].sync} => new.tx # None,
         no \in Run, HandsOf(no),
         WriteIfCurrent(r, guard, force, new, yes, no)
  PROVE  TypeInv'
<1>1. TypeOK'
  BY WriteType DEF TypeInv
<1>2. HandsOf(run)'
  <2>1. run.at = "threw" \/ run' = Idle \/ run' = Move("threw") \/ (guard /\ run' = yes) \/ run' = no
    BY DEF WriteIfCurrent
  <2>2. HandsOf(Move("threw")) /\ HandsOf(Idle)
    BY MoveType, FreeHands DEF TypeInv, TypeOK, Idle, Free, Places, Run
  <2>3. run' = Idle \/ run' = Move("threw") \/ (guard /\ run' = yes) \/ run' = no
    BY DEF WriteIfCurrent
  <2>4. \/ HandsOf(run') \/ FALSE
    BY <2>2, <2>3
  <2>5. QED BY <2>4 DEF HandsOf
<1>3. Claims'
  <2>1. CASE rows' = rows
    BY <2>1 DEF TypeInv, Claims
  <2>2. CASE guard /\ rows' = [rows EXCEPT ![r] = new]
    BY <2>2 DEF TypeInv, TypeOK, Claims
  <2>3. ASSUME guard, NEW torn \in Torn(rows[r], new), rows' = [rows EXCEPT ![r] = torn]
        PROVE  Claims'
    <3>1. rows[r] \in Row
      BY DEF TypeInv, TypeOK
    <3>2. torn.sync = rows[r].sync /\ torn.tx \in {rows[r].tx, new.tx}
      BY <2>3, <3>1, TornType
    <3>3. torn.sync = "JOURNALIZING" => torn.tx # None
      BY <2>3, <3>2 DEF TypeInv, Claims
    <3>4. QED BY <2>3, <3>3 DEF TypeInv, TypeOK, Claims
  <2>4. QED BY <2>1, <2>2, <2>3 DEF WriteIfCurrent
<1>4. QED BY <1>1, <1>2, <1>3 DEF TypeInv

\* A step that leaves the ledger and MF alone.
LEMMA GoesTyped ==
  ASSUME TypeInv, NEW to \in Run, HandsOf(to), Goes(to)
  PROVE  TypeInv'
BY DEF TypeInv, TypeOK, Claims, HandsOf, Goes, books

\* The run after the work on a row, or at another place in it.
LEMMA DoneFree ==
  ASSUME TypeInv, NEW p \in Free, NEW r
  PROVE  Done(p, r) \in Run /\ HandsOf(Done(p, r)) /\ Done(p, r).at = p
<1>1. p \in Places
  BY DEF Free
<1>2. Done(p, r).at = p
  BY DEF Done, Idle
<1>3. QED BY <1>1, <1>2, DoneType, FreeHands DEF TypeInv, TypeOK

LEMMA MoveFree ==
  ASSUME TypeInv, NEW p \in Free
  PROVE  Move(p) \in Run /\ HandsOf(Move(p)) /\ Move(p).at = p
<1>1. p \in Places
  BY DEF Free
<1>2. Move(p) \in Run /\ Move(p).at = p
  BY <1>1, MoveType DEF TypeInv, TypeOK, Run
<1>3. QED BY <1>2, FreeHands

LEMMA ReadsType ==
  ASSUME TypeInv, NEW r \in Receipts, NEW p \in Places
  PROVE  /\ Reads(r, p) \in Run
         /\ Reads(r, p).at = p /\ Reads(r, p).who = r /\ Reads(r, p).id = None
         /\ Reads(r, p).seen = [Nothing EXCEPT ![r] = rows[r]]
<1>1. Done("maintain", r) \in Run /\ Done("maintain", r).id = None
  <2>1. Done("maintain", r) \in Run
    BY DoneFree DEF Free, Places, Phases
  <2>2. QED BY <2>1 DEF Done, Idle
<1>2. [Nothing EXCEPT ![r] = rows[r]] \in [Receipts -> Row]
  BY IdleType DEF TypeInv, TypeOK
<1> DEFINE s == [Nothing EXCEPT ![r] = rows[r]]
           d == Done("maintain", r)
<1>3. Reads(r, p) = [d EXCEPT !.at = p, !.who = r, !.todo = run.todo, !.seen = s]
  BY DEF Reads
<1> HIDE DEF s, d
<1>4. QED BY <1>1, <1>2, <1>3 DEF TypeInv, TypeOK, Run, s, d

LEMMA EntryForType ==
  ASSUME NEW tag \in Tags, NEW row, row.amount \in Amounts \cup {0}, row.day \in Nat
  PROVE  /\ EntryFor(tag, row) \in Entry
         /\ EntryFor(tag, row).tag = tag /\ EntryFor(tag, row).of = tag
BY SyncRowAssumption DEF EntryFor, NoEntry, Entry, Tags

LEMMA RowEntryType ==
  ASSUME NEW row \in Row, NEW tag \in Receipts \cup {"hand"}
  PROVE  EntryFor(tag, row) \in Entry /\ EntryFor(tag, row).tag = tag /\ EntryFor(tag, row).of = tag
<1>1. Days \cup {0} \subseteq Nat
  BY SyncRowAssumption
<1>2. row.amount \in Amounts \cup {0} /\ row.day \in Days \cup {0} /\ tag \in Tags
  BY DEF Row, Tags
<1>3. QED BY <1>1, <1>2, EntryForType

LEMMA LineEntryType ==
  ASSUME NEW t \in Txs, NEW tag \in {"hand", "private"}
  PROVE  EntryFor(tag, LineOf[t]) \in Entry
<1>1. LineOf[t].amount \in Amounts \cup {0} /\ LineOf[t].day \in Nat /\ tag \in Tags
  BY JournalBooksAssumption DEF Tags
<1>2. QED BY <1>1, EntryForType

\* Names and lines are no empty texts.
LEMMA Named ==
  /\ None \notin Receipts /\ None \notin Txs /\ None \notin Ids /\ Ids \cap Txs = {}
  /\ NoEntry \in Entry /\ Deleted \in Entry
BY SyncRowAssumption, JournalBooksAssumption DEF Entry, Tags, NoEntry, Deleted

LEMMA PlaceType ==
  ASSUME TypeOK, NEW i, NEW e, i \in Ids \cup Txs => e \in Entry, Place(i, e)
  PROVE  entries' \in [Ids \cup Txs -> Entry]
BY DEF TypeOK, Place

LEMMA CheckedType ==
  ASSUME TypeOK, NEW i, Checked(i)
  PROVE  entries' \in [Ids \cup Txs -> Entry]
<1>1. ASSUME NEW j \in Ids \cup Txs
      PROVE  [entries[j] EXCEPT !.checked = TRUE] \in Entry
  BY DEF TypeOK, Entry
<1>2. QED BY <1>1 DEF TypeOK, Checked

LEMMA RegisterType ==
  ASSUME TypeOK, NEW i, Register(i)
  PROVE  status' \in [Txs -> {"absent", "none", "registered", "excluded"}]
BY DEF TypeOK, Register

-----------------------------------------------------------------------------
(* What the world does keeps the types.                                    *)

\* A step that leaves the execution alone and keeps the claims of the rows it writes.
LEMMA WorldTyped ==
  ASSUME TypeInv, run' = run, faults' = faults, edits' \in {edits, edits + 1},
         edits' = edits \/ edits < MaxEdits,
         rows' \in [Receipts -> Row], entries' \in [Ids \cup Txs -> Entry],
         status' \in [Txs -> {"absent", "none", "registered", "excluded"}],
         sent' \subseteq sent,
         \A r \in Receipts : rows'[r].sync = "JOURNALIZING" =>
            rows[r].sync = "JOURNALIZING" /\ rows'[r].tx = rows[r].tx
  PROVE  TypeInv'
<1>1. edits' \in 0..MaxEdits
  BY JournalBooksAssumption DEF TypeInv, TypeOK
<1>2. TypeOK'
  BY <1>1 DEF TypeInv, TypeOK
<1>3. Claims' /\ HandsOf(run)'
  BY DEF TypeInv, Claims, HandsOf
<1>4. QED BY <1>2, <1>3 DEF TypeInv

LEMMA LinesTyped ==
  ASSUME TypeInv, NEW t \in Txs, LineArrives(t) \/ OperatorSettlesLine(t)
  PROVE  TypeInv'
<1> USE DEF TypeInv
<1>1. CASE LineArrives(t)
  <2>1. status' \in [Txs -> {"absent", "none", "registered", "excluded"}]
    BY <1>1 DEF LineArrives, TypeOK
  <2>2. QED BY <1>1, <2>1, WorldTyped DEF LineArrives, TypeOK
<1>2. CASE OperatorSettlesLine(t)
  <2>1. status' \in [Txs -> {"absent", "none", "registered", "excluded"}]
    BY <1>2, RegisterType DEF OperatorSettlesLine, TypeOK
  <2>2. entries' \in [Ids \cup Txs -> Entry]
    BY <1>2, PlaceType, LineEntryType DEF OperatorSettlesLine, TypeOK
  <2>3. QED BY <1>2, <2>1, <2>2, WorldTyped DEF OperatorSettlesLine, ByHand, TypeOK
<1>3. QED BY <1>1, <1>2

LEMMA DecidesTyped ==
  ASSUME TypeInv, NEW q \in sent, MfDecides(q)
  PROVE  TypeInv'
<1>1. q.entry \in Entry
  BY DEF TypeInv, TypeOK
<1>2. status' \in [Txs -> {"absent", "none", "registered", "excluded"}]
  BY RegisterType DEF MfDecides, TypeInv, TypeOK
<1>3. entries' \in [Ids \cup Txs -> Entry]
  BY <1>1, PlaceType DEF MfDecides, TypeInv, TypeOK
<1>4. QED BY <1>2, <1>3, WorldTyped DEF MfDecides, TypeInv, TypeOK

\* A write of one row that does not touch its state or its line.
Keeps(row, new) == new \in Row /\ new.sync = row.sync /\ new.tx = row.tx

LEMMA RowKept ==
  ASSUME TypeInv, NEW r \in Receipts, NEW new, Keeps(rows[r], new), rows' = [rows EXCEPT ![r] = new]
  PROVE  /\ rows' \in [Receipts -> Row]
         /\ \A s \in Receipts : rows'[s].sync = rows[s].sync /\ rows'[s].tx = rows[s].tx
BY DEF TypeInv, TypeOK, Keeps

LEMMA CellType ==
  ASSUME NEW row \in Row
  PROVE  /\ \A e \in {"COMPLETED", "VOID", "CORRECTED"} : Keeps(row, [row EXCEPT !.exp = e])
         /\ \A a \in Amounts : Keeps(row, [row EXCEPT !.amount = a])
         /\ \A d \in Days : Keeps(row, [row EXCEPT !.day = d])
         /\ \A m \in Methods : Keeps(row, [row EXCEPT !.method = m])
         /\ \A i \in Ids \cup Txs : Keeps(row, [row EXCEPT !.jid = i])
         /\ Keeps(row, [row EXCEPT !.whole = ~@])
         /\ Keeps(row, [row EXCEPT !.aged = TRUE])
<1> USE DEF Keeps
<1>1. ASSUME NEW e \in {"COMPLETED", "VOID", "CORRECTED"} PROVE Keeps(row, [row EXCEPT !.exp = e])
  BY <1>1 DEF Row
<1>2. ASSUME NEW a \in Amounts PROVE Keeps(row, [row EXCEPT !.amount = a])
  BY <1>2 DEF Row
<1>3. ASSUME NEW d \in Days PROVE Keeps(row, [row EXCEPT !.day = d])
  BY <1>3 DEF Row
<1>4. ASSUME NEW m \in Methods PROVE Keeps(row, [row EXCEPT !.method = m])
  <2>1. m \in PaymentMethods \cup {None}
    BY <1>4, JournalBooksAssumption
  <2>2. QED BY <2>1 DEF Row
<1>5. ASSUME NEW i \in Ids \cup Txs PROVE Keeps(row, [row EXCEPT !.jid = i])
  BY <1>5 DEF Row
<1>6. Keeps(row, [row EXCEPT !.whole = ~@])
  BY DEF Row
<1>7. Keeps(row, [row EXCEPT !.aged = TRUE])
  BY DEF Row
<1> HIDE DEF Keeps
<1>8. QED BY <1>1, <1>2, <1>3, <1>4, <1>5, <1>6, <1>7

\* The operator and app/expense.ts write business columns, states the synchronisation may
\* start from, and ids.
LEMMA LedgerTyped ==
  ASSUME TypeInv, NEW r \in Receipts,
         \/ RegisterReceipt(r) \/ CompleteReceipt(r) \/ Cancel(r) \/ DayPasses(r) \/ EditRow(r)
         \/ OperatorResets(r) \/ OperatorTypesId(r) \/ \E t \in Txs : OperatorTypesLine(r, t)
  PROVE  TypeInv'
<1>1. rows[r] \in Row /\ rows \in [Receipts -> Row]
  BY DEF TypeInv, TypeOK
<1>2. CASE RegisterReceipt(r)
  <2>1. PICK m \in Methods, a \in Amounts, d \in Days :
          rows' = [rows EXCEPT ![r] = [NoRow EXCEPT !.exp = "RECEIVED", !.method = m,
                                                    !.amount = a, !.day = d]]
    BY <1>2 DEF RegisterReceipt
  <2> DEFINE new == [NoRow EXCEPT !.exp = "RECEIVED", !.method = m, !.amount = a, !.day = d]
  <2>2. new \in Row /\ new.sync = None
    BY NoRowType, JournalBooksAssumption DEF Row, NoRow
  <2> HIDE DEF new
  <2>3. rows' = [rows EXCEPT ![r] = new]
    BY <2>1 DEF new
  <2>4. QED BY <1>1, <1>2, <2>2, <2>3, WorldTyped DEF RegisterReceipt, TypeInv, TypeOK, books, None
<1>3. CASE CompleteReceipt(r) \/ Cancel(r) \/ DayPasses(r)
  <2>1. \E e \in {"COMPLETED", "VOID", "CORRECTED"} :
          \/ rows' = [rows EXCEPT ![r] = [rows[r] EXCEPT !.exp = e]]
          \/ rows' = [rows EXCEPT ![r] = [rows[r] EXCEPT !.aged = TRUE]]
    BY <1>3 DEF CompleteReceipt, Cancel, DayPasses
  <2>2. /\ rows' \in [Receipts -> Row]
        /\ \A s \in Receipts : rows'[s].sync = rows[s].sync /\ rows'[s].tx = rows[s].tx
    <3>1. \E new : Keeps(rows[r], new) /\ rows' = [rows EXCEPT ![r] = new]
      BY <1>1, <2>1, CellType
    <3>2. QED BY <3>1, RowKept
  <2>3. QED BY <1>3, <2>2, WorldTyped DEF CompleteReceipt, Cancel, DayPasses, TypeInv, TypeOK, books
<1>4. CASE EditRow(r)
  <2>1. \/ \E a \in Amounts : rows' = [rows EXCEPT ![r] = [rows[r] EXCEPT !.amount = a]]
        \/ \E d \in Days : rows' = [rows EXCEPT ![r] = [rows[r] EXCEPT !.day = d]]
        \/ \E m \in Methods : rows' = [rows EXCEPT ![r] = [rows[r] EXCEPT !.method = m]]
        \/ rows' = [rows EXCEPT ![r] = [rows[r] EXCEPT !.whole = ~@]]
    BY <1>4 DEF EditRow, Edits
  <2>2. /\ rows' \in [Receipts -> Row]
        /\ \A s \in Receipts : rows'[s].sync = rows[s].sync /\ rows'[s].tx = rows[s].tx
    <3>1. \E new : Keeps(rows[r], new) /\ rows' = [rows EXCEPT ![r] = new]
      BY <1>1, <2>1, CellType
    <3>2. QED BY <3>1, RowKept
  <2>3. QED BY <1>4, <2>2, WorldTyped DEF EditRow, ByHand, TypeInv, TypeOK, books
<1>5. CASE OperatorResets(r)
  <2> DEFINE new == [rows[r] EXCEPT !.sync = ""]
  <2>1. new \in Row /\ new.sync = ""
    BY <1>1 DEF Row, SyncStates, ImportableStates, NoJournalStates
  <2> HIDE DEF new
  <2>2. rows' = [rows EXCEPT ![r] = new]
    BY <1>5 DEF OperatorResets, new
  <2>3. entries' \in [Ids \cup Txs -> Entry]
    BY <1>5, CheckedType DEF OperatorResets, TypeInv, TypeOK
  <2>4. /\ rows' \in [Receipts -> Row]
        /\ \A s \in Receipts : rows'[s].sync = "JOURNALIZING" =>
              rows[s].sync = "JOURNALIZING" /\ rows'[s].tx = rows[s].tx
    BY <1>1, <2>1, <2>2
  <2>5. QED BY <1>5, <2>3, <2>4, WorldTyped DEF OperatorResets, ByHand, TypeInv, TypeOK
<1>6. CASE OperatorTypesId(r)
  <2>1. PICK i \in Ids \cup Txs : rows' = [rows EXCEPT ![r] = [rows[r] EXCEPT !.jid = i]]
    BY <1>6 DEF OperatorTypesId
  <2>2. /\ rows' \in [Receipts -> Row]
        /\ \A s \in Receipts : rows'[s].sync = rows[s].sync /\ rows'[s].tx = rows[s].tx
    <3>1. \E new : Keeps(rows[r], new) /\ rows' = [rows EXCEPT ![r] = new]
      BY <1>1, <2>1, CellType
    <3>2. QED BY <3>1, RowKept
  <2>3. EntryFor("hand", rows[r]) \in Entry
    BY <1>1, RowEntryType
  <2>4. entries' \in [Ids \cup Txs -> Entry]
    BY <1>6, <2>3, CheckedType, PlaceType DEF OperatorTypesId, TypeInv
  <2>5. QED BY <1>6, <2>2, <2>4, WorldTyped DEF OperatorTypesId, ByHand, TypeInv, TypeOK
<1>7. ASSUME NEW t \in Txs, OperatorTypesLine(r, t) PROVE TypeInv'
  <2>1. /\ rows' \in [Receipts -> Row]
        /\ \A s \in Receipts : rows'[s].sync = "JOURNALIZING" =>
              rows[s].sync = "JOURNALIZING" /\ rows'[s].tx = rows[s].tx
    BY <1>1, <1>7 DEF OperatorTypesLine, Row
  <2>2. QED BY <1>7, <2>1, WorldTyped DEF OperatorTypesLine, ByHand, TypeInv, TypeOK, books
<1>8. QED BY <1>2, <1>3, <1>4, <1>5, <1>6, <1>7

-----------------------------------------------------------------------------
(* The phases.                                                             *)

LEMMA PhasePlaces ==
  /\ Len(Phases) = 8
  /\ \A i \in 1..8 : Phases[i] \in Free /\ Phases[i] \in Places
  /\ \A i \in 1..7 : Phases[i + 1] \in Free
  /\ {"reverse", "maintain", "detect", "classify", "create", "rules", "human", "match"} \subseteq Free
  /\ {"idle", "threw", "recovered", "again", "again2", "import", "cancel", "undo", "undone",
      "refused", "put", "adopt", "mark", "post", "rejected", "limited"} \subseteq Free
  /\ Free \subseteq Places
<1>1. Len(Phases) = 8
  BY DEF Phases
<1>2. /\ Phases[1] = "reverse" /\ Phases[2] = "maintain" /\ Phases[3] = "detect"
      /\ Phases[4] = "classify" /\ Phases[5] = "create" /\ Phases[6] = "rules"
      /\ Phases[7] = "human" /\ Phases[8] = "match"
  BY DEF Phases
<1> DEFINE P == {"reverse", "maintain", "detect", "classify", "create", "rules", "human", "match"}
<1>3. \A i \in 1..8 : Phases[i] \in P
  BY <1>2
<1>4. \A x \in P : \E i \in 1..8 : x = Phases[i]
  BY <1>2
<1>5. P \subseteq Places
  BY <1>1, <1>4 DEF Places
<1>6. P \subseteq Free
  BY <1>5 DEF Free
<1>7. \A i \in 1..7 : i + 1 \in 1..8
  OBVIOUS
<1>8. QED BY <1>1, <1>3, <1>5, <1>6, <1>7 DEF Free, Places

\* A phase of which the run knows no more than the rows it works on.
LEMMA EnterTyped ==
  ASSUME TypeInv, NEW p \in Free, Enter(p)
  PROVE  TypeInv' /\ run'.at = p
<1> DEFINE pool  == CASE p = "rules" -> Fetched
                      [] p = "match" -> run.pool \ run.ruled
                      [] OTHER -> run.pool
           ruled == IF p = "rules" THEN {t \in pool \ UsedTransactions(rows, None) : RuleOf[t] # None}
                                   ELSE run.ruled
           todo  == Todo(p, pool, ruled)
           seen  == IF todo = {} \/ p = "maintain" THEN Nothing ELSE rows
           lines == IF p = "rules"
                      THEN {t \in ruled : RuleOf[t] = "private" /\ Wanted(pool, t) = {}} ELSE {}
           to    == [Idle EXCEPT !.at = p, !.todo = todo, !.seen = seen, !.pool = pool,
                                 !.ruled = ruled, !.halted = run.halted, !.lines = lines]
<1>1. Goes(to)
  BY DEF Enter
<1>2. pool \subseteq Txs
  BY DEF TypeInv, TypeOK, Run, Fetched
<1> HIDE DEF pool
<1>3. ruled \subseteq Txs
  BY <1>2 DEF TypeInv, TypeOK, Run
<1> HIDE DEF ruled
<1>4. todo \subseteq Receipts
  BY DEF Todo
<1> HIDE DEF todo
<1>5. seen \in [Receipts -> Row]
  BY IdleType DEF TypeInv, TypeOK
<1>6. lines \subseteq Txs
  BY <1>3
<1> HIDE DEF lines, seen
<1>7. run.halted \in BOOLEAN /\ p \in Places
  BY DEF TypeInv, TypeOK, Run, Free
<1>8. to \in Run /\ to.at = p
  BY <1>2, <1>3, <1>4, <1>5, <1>6, <1>7, IdleType DEF Run
<1>9. HandsOf(to)
  BY <1>8, FreeHands
<1>10. TypeInv'
  BY <1>1, <1>8, <1>9, GoesTyped
<1>11. QED BY <1>1, <1>8, <1>10 DEF Goes

LEMMA PhasesTyped ==
  ASSUME TypeInv, SyncExpenses \/ EndOfPhase
  PROVE  TypeInv'
<1>1. CASE SyncExpenses
  BY <1>1, EnterTyped, PhasePlaces DEF SyncExpenses
<1>2. CASE EndOfPhase
  <2>1. PICK i \in 1..8 : IF i = 8 THEN Goes(Idle) ELSE Enter(Phases[i + 1])
    BY <1>2, PhasePlaces DEF EndOfPhase
  <2>2. CASE i = 8
    <3>1. Idle.at \in Free
      BY PhasePlaces DEF Idle
    <3>2. QED BY <2>1, <2>2, <3>1, IdleType, FreeHands, GoesTyped
  <2>3. CASE i # 8
    <3>1. i \in 1..7
      BY <2>3
    <3>2. QED BY <2>1, <2>3, <3>1, PhasePlaces, EnterTyped
  <2>4. QED BY <2>2, <2>3
<1>3. QED BY <1>1, <1>2

LEMMA EndsTyped ==
  ASSUME TypeInv, RunEnds \/ OutOfBudget
  PROVE  TypeInv'
<1>1. rows' = rows /\ UNCHANGED <<entries, status, sent, edits>> /\ faults' \in 0..MaxFaults
  BY JournalBooksAssumption DEF RunEnds, OutOfBudget, books, TypeInv, TypeOK
<1>2. run' \in Run /\ HandsOf(run')
  <2>1. CASE RunEnds
    <3>1. Idle.at \in Free
      BY PhasePlaces DEF Idle
    <3>2. QED BY <2>1, <3>1, IdleType, FreeHands DEF RunEnds
  <2>2. CASE OutOfBudget
    <3>1. run' \in Run /\ run'.at = run.at /\ run.at \in Free
      BY <2>2, PhasePlaces DEF OutOfBudget, TypeInv, TypeOK, Run
    <3>2. QED BY <3>1, FreeHands
  <2>3. QED BY <2>1, <2>2
<1>3. QED BY <1>1, <1>2 DEF TypeInv, TypeOK, Claims, HandsOf

-----------------------------------------------------------------------------
(* What an execution writes keeps the types.                               *)

LEMMA States ==
  /\ SyncStates = {"", "PENDING", "WAITING_TRANSACTION", "NEEDS_REVIEW", "UNKNOWN", "JOURNALIZING",
                   "SYNCED", "REVERSING", "NOT_TARGET", "CREATING", "REVERSED", "ERROR"}
  /\ None \in Errs /\ RouteUnknown \in Errs
BY DEF SyncStates, ImportableStates, NoJournalStates, UsedTransactionStates, Errs

LEMMA Parts ==
  ASSUME TypeInv, NEW r \in Receipts
  PROVE  /\ rows[r] \in Row /\ run.seen[r] \in Row /\ rows[r].err \in Errs
         /\ rows[r].sync \in SyncStates /\ run.seen[r].jid \in Ids \cup Txs \cup {None}
         /\ run.id \in Ids \cup Txs \cup {None}
BY DEF TypeInv, TypeOK, Run, Row, Errs

LEMMA InStateCells ==
  ASSUME TypeInv, NEW r \in Receipts, NEW state \in SyncStates, NEW err \in Errs
  PROVE  LET new == InState(r, state, err)
         IN  /\ new \in Row /\ new.sync = state /\ new.err = err /\ new.tx = rows[r].tx
             /\ new.jid = rows[r].jid /\ new.input = rows[r].input /\ new.aged = rows[r].aged
             /\ new.exp = rows[r].exp /\ new.method = rows[r].method
             /\ new.amount = rows[r].amount /\ new.day = rows[r].day /\ new.whole = rows[r].whole
BY Parts DEF InState, Row, Errs

LEMMA SyncedCells ==
  ASSUME TypeInv, NEW r \in Receipts, NEW id \in Ids \cup Txs \cup {None}
  PROVE  LET new == Synced(r, id)
         IN  /\ new \in Row /\ new.sync = "SYNCED" /\ new.err = None /\ new.tx = rows[r].tx
             /\ new.jid = id /\ new.input = rows[r].input /\ new.aged = rows[r].aged
             /\ new.exp = rows[r].exp /\ new.method = rows[r].method
             /\ new.amount = rows[r].amount /\ new.day = rows[r].day /\ new.whole = rows[r].whole
<1> DEFINE old == InState(r, "SYNCED", None)
<1>1. /\ old \in Row /\ old.sync = "SYNCED" /\ old.err = None /\ old.tx = rows[r].tx
      /\ old.input = rows[r].input /\ old.aged = rows[r].aged
      /\ old.exp = rows[r].exp /\ old.method = rows[r].method
      /\ old.amount = rows[r].amount /\ old.day = rows[r].day /\ old.whole = rows[r].whole
  <2>1. "SYNCED" \in SyncStates /\ None \in Errs
    BY States
  <2>2. QED BY <2>1, InStateCells
<1> HIDE DEF old
<1>2. Synced(r, id) = [old EXCEPT !.jid = id]
  BY DEF Synced, old
<1>3. QED BY <1>1, <1>2 DEF Row

\* A row goes to another state.
LEMMA MarkTyped ==
  ASSUME TypeInv, NEW r \in Receipts, NEW guard, NEW force, NEW state \in SyncStates, NEW err \in Errs,
         NEW yes, NEW no, state # "JOURNALIZING", guard => yes \in Run /\ HandsOf(yes),
         no \in Run, HandsOf(no),
         WriteIfCurrent(r, guard, force, InState(r, state, err), yes, no)
  PROVE  TypeInv'
<1>1. InState(r, state, err) \in Row /\ InState(r, state, err).sync = state
      /\ InState(r, state, err).tx = rows[r].tx
  BY InStateCells
<1>2. rows[r].sync = "JOURNALIZING" => rows[r].tx # None
  BY DEF TypeInv, Claims
<1> DEFINE new == InState(r, state, err)
<1> HIDE DEF new
<1>3. guard => ("JOURNALIZING" \in {new.sync, rows[r].sync} => new.tx # None)
  BY <1>1, <1>2 DEF new
<1>4. new \in Row /\ WriteIfCurrent(r, guard, force, new, yes, no)
  BY <1>1 DEF new
<1>5. QED BY <1>3, <1>4, WriteTyped

LEMMA DoneTyped ==
  ASSUME TypeInv, NEW r
  PROVE  \A p \in {"reverse", "maintain", "detect", "classify", "create", "rules", "human", "match"} :
           Done(p, r) \in Run /\ HandsOf(Done(p, r))
BY DoneFree, PhasePlaces

LEMMA MoveTyped ==
  ASSUME TypeInv
  PROVE  \A p \in {"threw", "recovered", "again", "again2", "import", "cancel", "undo", "undone",
                   "refused", "put", "adopt", "mark", "post", "rejected", "limited"} :
           Move(p) \in Run /\ HandsOf(Move(p)) /\ Move(p).at = p
BY MoveFree, PhasePlaces

LEMMA BackTyped ==
  ASSUME TypeInv, NEW r, run.back # None
  PROVE  Back(r) \in Run /\ HandsOf(Back(r))
<1>1. run.back \in {"again2", "create", "human", "match"}
  BY DEF TypeInv, TypeOK, Run
<1>2. QED BY <1>1, DoneTyped, MoveTyped DEF Back

LEMMA ReadsTyped ==
  ASSUME TypeInv, NEW r \in Receipts
  PROVE  \A p \in {"recovered", "import", "cancel", "undo"} :
           Reads(r, p) \in Run /\ HandsOf(Reads(r, p)) /\ Reads(r, p).at = p
<1>1. ASSUME NEW p \in Free
      PROVE  Reads(r, p) \in Run /\ HandsOf(Reads(r, p)) /\ Reads(r, p).at = p
  <2>1. p \in Places
    BY PhasePlaces
  <2>2. Reads(r, p) \in Run /\ Reads(r, p).at = p
    BY <2>1, ReadsType
  <2>3. QED BY <2>2, FreeHands
<1>2. QED BY <1>1, PhasePlaces

\* Phase "reverse" and the recovery of a creation.
LEMMA ReverseTyped ==
  ASSUME TypeInv, NEW r \in Receipts, ReverseWithoutJournal(r)
  PROVE  TypeInv'
BY DoneTyped, MarkTyped, States DEF ReverseWithoutJournal

LEMMA RecoverTyped ==
  ASSUME TypeInv, NEW r \in Receipts, RecoverCreating(r)
  PROVE  TypeInv'
<1>1. Reads(r, "recovered") \in Run /\ Reads(r, "recovered").at = "recovered"
  BY ReadsTyped
<1>2. CASE Goes(Reads(r, "recovered"))
  BY <1>2, ReadsTyped, GoesTyped
<1>3. ASSUME NEW i \in Ids \cup Txs, Goes([Reads(r, "recovered") EXCEPT !.id = i])
      PROVE  TypeInv'
  <2> DEFINE to == [Reads(r, "recovered") EXCEPT !.id = i]
  <2>1. to \in Run /\ to.at \in Free
    BY <1>1, PhasePlaces DEF Run
  <2>2. QED BY <1>3, <2>1, FreeHands, GoesTyped
<1>4. QED BY <1>2, <1>3 DEF RecoverCreating, FindJournalsByTag

LEMMA RecoveredTyped ==
  ASSUME TypeInv, NEW r \in Receipts, RecordRecovered(r)
  PROVE  TypeInv'
<1>1. CASE run.id # None
  <2>1. Synced(r, run.id) \in Row /\ Synced(r, run.id).sync = "SYNCED"
    BY SyncedCells, Parts
  <2> DEFINE guard == rows[r].sync \in {"CREATING", "UNKNOWN"}
             new   == Synced(r, run.id)
  <2>2. WriteIfCurrent(r, guard, TRUE, new, Move("again"), Move("again"))
    BY <1>1 DEF RecordRecovered
  <2>3. guard => new \in Row /\ ("JOURNALIZING" \in {new.sync, rows[r].sync} => new.tx # None)
    BY <2>1
  <2>4. Move("again") \in Run /\ HandsOf(Move("again"))
    BY MoveTyped
  <2> HIDE DEF guard, new
  <2>5. QED BY <2>2, <2>3, <2>4, WriteTyped
<1>2. CASE run.id = None
  BY <1>2, MoveTyped, MarkTyped, GoesTyped, States DEF RecordRecovered
<1>3. QED BY <1>1, <1>2

LEMMA JournalizingTyped ==
  ASSUME TypeInv, NEW r \in Receipts, RecoverJournalizing(r)
  PROVE  TypeInv'
<1> DEFINE to == [Reads(r, "trace") EXCEPT !.back = "again2"]
<1>1. "trace" \in Places
  BY DEF Places
<1>2. Reads(r, "trace") \in Run /\ Reads(r, "trace").at = "trace"
  BY <1>1, ReadsType
<1>3. to \in Run /\ to.at = "trace" /\ to.back # None
  BY <1>2 DEF Run, None
<1>4. HandsOf(to)
  BY <1>3 DEF HandsOf
<1>5. QED BY <1>3, <1>4, GoesTyped DEF RecoverJournalizing

LEMMA ProcessTyped ==
  ASSUME TypeInv, NEW r \in Receipts, ProcessMaintenanceRow(r)
  PROVE  TypeInv'
<1> DEFINE id == IF Live(rows[r].jid) THEN rows[r].jid ELSE None
           im == [Reads(r, "import") EXCEPT !.id = id]
<1>1. id \in Ids \cup Txs \cup {None}
  BY Parts DEF Row
<1> HIDE DEF id
<1>2. im \in Run /\ im.at = "import"
  BY <1>1, ReadsTyped DEF Run
<1>3. HandsOf(im)
  BY <1>2, FreeHands, PhasePlaces
<1> HIDE DEF im
<1>4. Goes(Reads(r, "undo")) \/ Goes(Reads(r, "cancel")) \/ Goes(im) \/ Goes(Done("maintain", r))
  BY DEF ProcessMaintenanceRow, im, id
<1>5. QED BY <1>2, <1>3, <1>4, ReadsTyped, DoneTyped, GoesTyped

LEMMA ImportTyped ==
  ASSUME TypeInv, NEW r \in Receipts, ImportRow(r)
  PROVE  TypeInv'
<1> DEFINE row   == run.seen[r]
           guard == rows[r].jid = row.jid /\ rows[r].sync \in ImportableStates
           a     == [InState(r, "SYNCED", None) EXCEPT !.input = SummarizeSyncInput(row)]
           st    == IF row.sync = "UNKNOWN" THEN rows[r].sync ELSE "NEEDS_REVIEW"
           b     == InState(r, st, row.jid)
           done  == Done("maintain", r)
<1>1. WriteIfCurrent(r, guard, FALSE, IF run.id # None THEN a ELSE b, done, done)
  BY DEF ImportRow
<1>2. done \in Run /\ HandsOf(done)
  BY DoneTyped
<1> HIDE DEF done
<1>3. a \in Row /\ a.sync = "SYNCED"
  <2>1. InState(r, "SYNCED", None) \in Row /\ InState(r, "SYNCED", None).sync = "SYNCED"
    <3>1. "SYNCED" \in SyncStates /\ None \in Errs
      BY States
    <3>2. QED BY <3>1, InStateCells
  <2>2. SummarizeSyncInput(row) \in Input
    BY Parts, SummaryType
  <2>3. QED BY <2>1, <2>2 DEF Row
<1>4. guard => st \in SyncStates /\ st # "JOURNALIZING"
  BY States DEF ImportableStates, NoJournalStates
<1>5. row.jid \in Errs
  BY Parts DEF Errs
<1>6. guard => b \in Row /\ b.sync = st
  BY <1>4, <1>5, InStateCells
<1>7. guard => rows[r].sync # "JOURNALIZING"
  BY DEF ImportableStates, NoJournalStates
<1> HIDE DEF a, b, st, guard
<1>8. QED BY <1>1, <1>2, <1>3, <1>4, <1>6, <1>7, WriteTyped

\* The run at another place, with row r as it now is in its hands.
LEMMA SeenTyped ==
  ASSUME TypeInv, NEW r \in Receipts, NEW p \in Places, NEW row \in Row
  PROVE  LET to == [Move(p) EXCEPT !.seen[r] = row]
         IN  /\ to \in Run /\ to.at = p /\ to.who = run.who /\ to.back = run.back
             /\ to.seen[r] = row /\ to.heir = run.heir
<1>1. run \in Run
  BY DEF TypeInv, TypeOK
<1>2. Move(p) \in Run /\ Move(p).at = p /\ Move(p).who = run.who /\ Move(p).seen = run.seen
      /\ Move(p).back = run.back /\ Move(p).heir = run.heir
  BY <1>1, MoveType DEF Run, Move
<1> DEFINE m == Move(p)
           seen == [run.seen EXCEPT ![r] = row]
           to == [m EXCEPT !.seen[r] = row]
<1> HIDE DEF m
<1>3. run.seen \in [Receipts -> Row]
  BY <1>1 DEF Run
<1>4. seen \in [Receipts -> Row] /\ seen[r] = row
  BY <1>3
<1>5. to = [m EXCEPT !.seen = seen]
  BY <1>2 DEF m, Run
<1> HIDE DEF seen
<1>6. to \in Run /\ to.at = p /\ to.who = run.who /\ to.back = run.back /\ to.seen = seen
      /\ to.heir = run.heir
  <2> HIDE DEF to
  <2>1. QED BY <1>2, <1>4, <1>5 DEF m, Run
<1> HIDE DEF to
<1>7. to.seen[r] = row
  BY <1>4, <1>6
<1>8. QED BY <1>6, <1>7 DEF to, m

LEMMA CancelTyped ==
  ASSUME TypeInv, NEW r \in Receipts, CancelRow(r)
  PROVE  TypeInv'
<1> DEFINE current == IsCancelled(rows[r]) /\ rows[r].sync = run.seen[r].sync
           done    == Done("maintain", r)
           mark    == InState(r, "REVERSING", None)
           undo    == [Move("undo") EXCEPT !.seen[r] = mark]
           unsure  == current /\ CancellationRoute(rows[r]) = "unknown"
<1>1. \/ WriteIfCurrent(r, unsure, FALSE, InState(r, "NEEDS_REVIEW", RouteUnknown), done, done)
      \/ Goes(done)
      \/ WriteIfCurrent(r, current, FALSE, mark, undo, done)
  BY DEF CancelRow
<1>2. done \in Run /\ HandsOf(done)
  BY DoneTyped
<1>3. mark \in Row
  BY InStateCells, States
<1>4. undo \in Run /\ undo.at = "undo"
  BY <1>3, SeenTyped, PhasePlaces
<1>5. HandsOf(undo)
  BY <1>4, PhasePlaces, FreeHands
<1> HIDE DEF done, undo
<1>6. ASSUME WriteIfCurrent(r, unsure, FALSE, InState(r, "NEEDS_REVIEW", RouteUnknown), done, done)
      PROVE  TypeInv'
  <2> HIDE DEF unsure
  <2>1. QED BY <1>2, <1>6, MarkTyped, States
<1>7. ASSUME WriteIfCurrent(r, current, FALSE, mark, undo, done)
      PROVE  TypeInv'
  <2> HIDE DEF current
  <2>1. QED BY <1>2, <1>4, <1>5, <1>7, MarkTyped, States
<1>8. QED BY <1>1, <1>2, <1>6, <1>7, GoesTyped

\* Calls to MF.
LEMMA CallsTyped ==
  ASSUME TypeInv, NEW i, NEW e, NEW then, NEW refused, i \in Ids \cup Txs => e \in Entry,
         then \in Run, HandsOf(then), refused \in Run, HandsOf(refused),
         CallsMf(i, e, then, refused)
  PROVE  TypeInv'
<1>1. entries' \in [Ids \cup Txs -> Entry]
  BY PlaceType DEF CallsMf, TypeInv, TypeOK
<1>2. Idle \in Run /\ HandsOf(Idle)
  BY IdleType, FreeHands, PhasePlaces DEF Idle
<1>3. run' \in Run /\ HandsOf(run')
  BY <1>2 DEF CallsMf
<1>4. faults' \in 0..MaxFaults
  BY JournalBooksAssumption DEF CallsMf, TypeInv, TypeOK
<1>5. QED BY <1>1, <1>3, <1>4 DEF CallsMf, TypeInv, TypeOK, Claims, HandsOf

LEMMA GivesUpTyped ==
  ASSUME TypeInv, NEW i \in Ids \cup Txs, NEW e \in Entry, NEW to \in Run, HandsOf(to),
         GivesUp(i, e, to)
  PROVE  TypeInv'
<1>1. run' \in Run /\ HandsOf(run')
  BY DEF GivesUp, Run, HandsOf
<1>2. faults' \in 0..MaxFaults
  BY JournalBooksAssumption DEF GivesUp, TypeInv, TypeOK
<1>3. sent' \subseteq [id : Ids \cup Txs, entry : Entry]
  BY DEF GivesUp, TypeInv, TypeOK
<1>4. QED BY <1>1, <1>2, <1>3 DEF GivesUp, TypeInv, TypeOK, Claims, HandsOf

\* A creation that MF answers.
LEMMA MakesTyped ==
  ASSUME TypeInv, NEW i \in Ids \cup Txs, NEW e \in Entry, Place(i, e), Register(i),
         run' \in Run, HandsOf(run'), UNCHANGED <<rows, sent, faults, edits>>
  PROVE  TypeInv'
<1>1. entries' \in [Ids \cup Txs -> Entry]
  BY PlaceType DEF TypeInv
<1>2. status' \in [Txs -> {"absent", "none", "registered", "excluded"}]
  BY RegisterType DEF TypeInv
<1>3. QED BY <1>1, <1>2 DEF TypeInv, TypeOK, Claims, HandsOf

LEMMA RowFailsTyped ==
  ASSUME TypeInv, NEW r \in Receipts, NEW err \in {None, RouteUnknown}, NEW to \in Run, HandsOf(to),
         RowFails(r, err, to)
  PROVE  TypeInv'
<1>1. err \in Errs /\ "ERROR" \in SyncStates
  BY States
<1>2. WriteIfCurrent(r, rows[r].sync = "REVERSING", FALSE, InState(r, "ERROR", err), to, to)
  BY DEF RowFails
<1>3. QED BY <1>1, <1>2, MarkTyped

\* What is planned for the entry of a cancelled row.
LEMMA PlanType ==
  ASSUME NEW ledger, NEW row, NEW r \in Receipts
  PROVE  LET plan == PlanLinkedCancellation(ledger, row, r)
         IN  /\ plan.heir \in Receipts \cup {None}
             /\ plan.kind = "done" => plan.heir \in Receipts
             /\ plan.kind \in {"wait", "void"} => plan.heir = None
<1> DEFINE desc  == DescendantsOf(ledger, r)
           heirs == {d \in desc : ledger[d].exp = "COMPLETED"}
           last  == {d \in heirs : \A o \in heirs : o = d \/ o \in Ancestors(d)}
           held  == Holders(ledger, row, r)
           by    == CHOOSE d \in held : TRUE
           to    == CHOOSE d \in last : Inheritable(row, ledger[d])
           Plan(kind, heir) == [kind |-> kind, heir |-> heir]
           plan  == PlanLinkedCancellation(ledger, row, r)
<1>1. held \subseteq Receipts /\ last \subseteq Receipts
  BY DEF Holders, DescendantsOf
<1>2. held # {} => by \in held
  OBVIOUS
<1>3. (\E d \in last : Inheritable(row, ledger[d])) => to \in last
  OBVIOUS
<1> HIDE DEF held, last, by, to, desc, heirs
<1>4. \/ plan = Plan("void", None) \/ plan = Plan("wait", None)
      \/ held # {} /\ plan \in {Plan("done", by), Plan("recover", by)}
      \/ (\E d \in last : Inheritable(row, ledger[d])) /\ plan = Plan("inherit", to)
  BY DEF PlanLinkedCancellation, desc, heirs, last, held, by, to
<1> HIDE DEF plan
<1>5. QED BY <1>1, <1>2, <1>3, <1>4 DEF plan

LEMMA Routes ==
  ASSUME NEW row
  PROVE  CancellationRoute(row) \in {"unknown", "delete", "put"}
BY DEF CancellationRoute

LEMMA FinishTyped ==
  ASSUME TypeInv, NEW r \in Receipts, FinishReversal(r)
  PROVE  TypeInv'
<1> DEFINE row  == run.seen[r]
           plan == PlanLinkedCancellation(rows, row, r)
           done == Done("maintain", r)
           seen == [rows EXCEPT ![r] = row]
           with == [Move("put") EXCEPT !.seen = seen, !.heir = plan.heir]
           fill == [with EXCEPT !.at = "fill"]
<1>1. done \in Run /\ HandsOf(done)
  BY DoneTyped
<1>2. /\ Move("undone") \in Run /\ HandsOf(Move("undone"))
      /\ Move("refused") \in Run /\ HandsOf(Move("refused"))
      /\ Move("put") \in Run /\ Move("put").at = "put"
  BY MoveTyped
<1>3. with \in Run /\ with.at = "put" /\ with.heir = plan.heir
  <2>1. plan.heir \in Receipts \cup {None}
    BY PlanType
  <2>2. seen \in [Receipts -> Row]
    BY Parts DEF TypeInv, TypeOK
  <2> HIDE DEF plan, seen
  <2>3. QED BY <1>2, <2>1, <2>2 DEF Run
<1>4. fill \in Run /\ fill.at = "fill" /\ fill.heir = plan.heir
  <2> HIDE DEF with, plan
  <2>1. "fill" \in Places
    BY DEF Places
  <2>2. QED BY <1>3, <2>1 DEF Run
<1>5. HandsOf(with)
  BY <1>3, FreeHands, PhasePlaces
<1>6. plan.kind = "done" => HandsOf(fill)
  <2>1. plan.kind = "done" => plan.heir \in Receipts
    BY PlanType
  <2>2. plan.kind = "done" => fill.heir # None
    BY <1>4, <2>1, Named
  <2> HIDE DEF fill, plan
  <2>3. QED BY <1>4, <2>2 DEF HandsOf
<1> HIDE DEF done, with, fill, plan
<1>7. \/ \E err \in {None, RouteUnknown} : RowFails(r, err, done)
      \/ CallsMf(row.jid, Deleted, Move("undone"), Move("refused"))
      \/ Goes(Move("undone")) \/ Goes(done) \/ Goes(with) \/ (plan.kind = "done" /\ Goes(fill))
  <2>1. CASE row.jid = None
    BY <2>1 DEF FinishReversal, done
  <2>2. CASE row.jid # None /\ CancellationRoute(row) = "unknown"
    BY <2>2 DEF FinishReversal, done
  <2>3. CASE row.jid # None /\ CancellationRoute(row) = "delete"
    BY <2>3 DEF FinishReversal
  <2>4. CASE row.jid # None /\ CancellationRoute(row) = "put"
    <3>1. Goes(CASE plan.kind = "wait" -> done
                 [] plan.kind = "done" -> fill
                 [] OTHER -> IF Live(row.jid) THEN with ELSE Move("undone"))
      BY <2>4 DEF FinishReversal, done, with, fill, plan
    <3>2. QED BY <3>1
  <2>5. QED BY <2>1, <2>2, <2>3, <2>4, Routes
<1>8. ASSUME CallsMf(row.jid, Deleted, Move("undone"), Move("refused"))
      PROVE  TypeInv'
  BY <1>2, <1>8, Named, CallsTyped
<1>9. QED BY <1>1, <1>2, <1>3, <1>4, <1>5, <1>6, <1>7, <1>8, RowFailsTyped, GoesTyped

LEMMA PutTyped ==
  ASSUME TypeInv, NEW r \in Receipts, PutJournal(r)
  PROVE  TypeInv'
<1> DEFINE id == run.seen[r].jid
           h  == run.heir
           inherit == Move("inherit")
<1>1. /\ Move("undone") \in Run /\ HandsOf(Move("undone"))
      /\ Move("refused") \in Run /\ HandsOf(Move("refused"))
  BY MoveTyped
<1>2. h \in Receipts \cup {None}
  BY DEF TypeInv, TypeOK, Run
<1>3. CASE h = None
  <2> DEFINE e == [entries[id] EXCEPT !.tag = r, !.void = TRUE]
  <2>1. id \in Ids \cup Txs => e \in Entry
    <3>1. ASSUME NEW old \in Entry PROVE [old EXCEPT !.tag = r, !.void = TRUE] \in Entry
      BY DEF Entry, Tags
    <3>2. QED BY <3>1 DEF TypeInv, TypeOK
  <2>2. CallsMf(id, e, Move("undone"), Move("refused"))
    BY <1>3 DEF PutJournal
  <2> HIDE DEF e, id
  <2>3. QED BY <1>1, <2>1, <2>2, CallsTyped
<1>4. CASE h # None
  <2> DEFINE new == EntryFor(h, run.seen[h])
             e   == [new EXCEPT !.of = entries[id].of]
  <2>1. new \in Entry
    BY <1>2, <1>4, Parts, RowEntryType
  <2> HIDE DEF new
  <2>2. id \in Ids \cup Txs => e \in Entry
    BY <2>1 DEF TypeInv, TypeOK, Entry
  <2>3. inherit \in Run /\ HandsOf(inherit)
    <3>1. "inherit" \in Places
      BY DEF Places
    <3>2. inherit \in Run /\ inherit.at = "inherit" /\ inherit.heir = h
      BY <3>1, MoveType DEF TypeInv, TypeOK, Run
    <3>3. QED BY <1>4, <3>2 DEF HandsOf
  <2>4. CallsMf(id, e, inherit, Move("refused"))
    BY <1>4 DEF PutJournal, new
  <2> HIDE DEF e, id, inherit
  <2>5. QED BY <1>1, <2>2, <2>3, <2>4, CallsTyped
<1>5. QED BY <1>3, <1>4

LEMMA InheritTyped ==
  ASSUME TypeInv, NEW r \in Receipts, Inherit(r)
  PROVE  TypeInv'
<1> DEFINE h   == run.heir
           row == run.seen[r]
           syn == Synced(h, row.jid)
           sum == SummaryWithTx(run.seen[h], row.tx)
           new == [syn EXCEPT !.tx = row.tx, !.input = sum]
           guard == /\ rows[h].exp = "COMPLETED" /\ rows[h].jid \in {None, row.jid} /\ Untouched(rows[h])
                    /\ SummarizeSyncInput(rows[h]) = SummarizeSyncInput(run.seen[h])
           done  == Done("maintain", r)
<1>1. h \in Receipts
  BY DEF TypeInv, TypeOK, Run, HandsOf, Inherit, At
<1>2. syn \in Row /\ syn.sync = "SYNCED"
  BY <1>1, Parts, SyncedCells
<1>3. sum \in Input /\ row.tx \in Txs \cup {None}
  <2>1. run.seen[h] \in Row /\ row.tx \in Txs \cup {None}
    BY <1>1, Parts DEF Row
  <2>2. QED BY <2>1, SummaryType
<1> HIDE DEF syn, sum
<1>4. new \in Row /\ new.sync = "SYNCED"
  BY <1>2, <1>3 DEF Row
<1>5. guard => rows[h].sync # "JOURNALIZING"
  BY DEF Untouched
<1>6. Move("undone") \in Run /\ HandsOf(Move("undone")) /\ done \in Run /\ HandsOf(done)
  BY MoveTyped, DoneTyped
<1>7. WriteIfCurrent(h, guard, TRUE, new, Move("undone"), done)
  BY DEF Inherit, syn, sum
<1> HIDE DEF new, guard, done, h
<1>8. QED BY <1>1, <1>4, <1>5, <1>6, <1>7, WriteTyped

LEMMA FillTyped ==
  ASSUME TypeInv, NEW r \in Receipts, FillHeir(r)
  PROVE  TypeInv'
<1> DEFINE h   == run.heir
           row == run.seen[r]
           sum == SummaryWithTx(run.seen[h], row.tx)
           new == [rows[h] EXCEPT !.tx = row.tx, !.input = sum]
           guard == /\ rows[h].jid = row.jid /\ rows[h].sync = "SYNCED"
                    /\ ~HasInputChanged(rows[h])
<1>1. h \in Receipts
  BY DEF TypeInv, TypeOK, Run, HandsOf, FillHeir, At
<1>2. sum \in Input /\ row.tx \in Txs \cup {None} /\ rows[h] \in Row
  <2>1. run.seen[h] \in Row /\ row.tx \in Txs \cup {None} /\ rows[h] \in Row
    BY <1>1, Parts DEF Row
  <2>2. QED BY <2>1, SummaryType
<1> HIDE DEF sum
<1>3. new \in Row /\ new.sync = rows[h].sync
  BY <1>2 DEF Row
<1>4. Move("undone") \in Run /\ HandsOf(Move("undone"))
  BY MoveTyped
<1>5. \/ WriteIfCurrent(h, guard, FALSE, new, Move("undone"), Move("undone"))
      \/ Goes(Move("undone"))
  BY DEF FillHeir, sum
<1>6. guard => "JOURNALIZING" \notin {new.sync, rows[h].sync}
  BY <1>3
<1> HIDE DEF new, guard, h
<1>7. QED BY <1>1, <1>3, <1>4, <1>5, <1>6, WriteTyped, GoesTyped

LEMMA ReversedTyped ==
  ASSUME TypeInv, NEW r \in Receipts, RecordReversed(r)
  PROVE  TypeInv'
<1>1. Done("maintain", r) \in Run /\ HandsOf(Done("maintain", r))
  BY DoneTyped
<1>2. "REVERSED" \in SyncStates /\ None \in Errs
  BY States
<1>3. CASE RowFails(r, None, Done("maintain", r))
  BY <1>1, <1>3, RowFailsTyped
<1>4. CASE WriteIfCurrent(r, rows[r].sync = "REVERSING", FALSE, InState(r, "REVERSED", None),
                          Done("maintain", r), Done("maintain", r))
  BY <1>1, <1>2, <1>4, MarkTyped
<1>5. QED BY <1>3, <1>4 DEF RecordReversed

\* Phases "detect" and "classify".
LEMMA DetectTyped ==
  ASSUME TypeInv, NEW r \in Receipts, DetectChange(r)
  PROVE  TypeInv'
BY DoneTyped, MarkTyped, States DEF DetectChange

LEMMA InitialStateType ==
  ASSUME NEW row, row.sync \in SyncStates
  PROVE  InitialStateFor(row) \in SyncStates
BY States DEF InitialStateFor

LEMMA ClassifyTyped ==
  ASSUME TypeInv, NEW r \in Receipts, Classify(r)
  PROVE  TypeInv'
<1> DEFINE guard == rows[r].sync = run.seen[r].sync /\ rows[r].jid = None
           state == InitialStateFor(run.seen[r])
           new   == InState(r, state, None)
           done  == Done("classify", r)
<1>1. WriteIfCurrent(r, guard, FALSE, new, done, done)
  BY DEF Classify
<1>2. done \in Run /\ HandsOf(done)
  BY DoneTyped
<1>3. state \in SyncStates /\ None \in Errs
  BY InitialStateType, Parts, States DEF Row
<1>4. new \in Row /\ new.sync = state /\ new.tx = rows[r].tx
  BY <1>3, InStateCells
<1>5. guard => (state = "JOURNALIZING" => rows[r].sync = "JOURNALIZING")
  BY DEF InitialStateFor
<1>6. guard => ("JOURNALIZING" \in {new.sync, rows[r].sync} => new.tx # None)
  BY <1>4, <1>5 DEF TypeInv, Claims
<1> HIDE DEF guard, new, done, state
<1>7. QED BY <1>1, <1>2, <1>4, <1>6, WriteTyped

-----------------------------------------------------------------------------
(* Creations.                                                              *)

\* The run at another place, its row or its id taken.
LEMMA AtTyped ==
  ASSUME TypeInv, NEW p \in Free, NEW r \in Receipts \cup {None}, NEW i \in Ids \cup Txs \cup {None}
  PROVE  /\ [Move(p) EXCEPT !.who = r] \in Run /\ HandsOf([Move(p) EXCEPT !.who = r])
         /\ [Move(p) EXCEPT !.who = r, !.id = i] \in Run
         /\ HandsOf([Move(p) EXCEPT !.who = r, !.id = i])
<1>1. Move(p) \in Run /\ Move(p).at = p
  BY MoveFree
<1> DEFINE a == [Move(p) EXCEPT !.who = r]
           b == [Move(p) EXCEPT !.who = r, !.id = i]
<1>2. a \in Run /\ a.at = p
  BY <1>1 DEF Run
<1>3. b \in Run /\ b.at = p
  BY <1>1 DEF Run
<1>4. QED BY <1>2, <1>3, FreeHands

LEMMA SearchTyped ==
  ASSUME TypeInv, NEW r \in Receipts, SearchFirst(r)
  PROVE  TypeInv'
<1>1. "mark" \in Free /\ "adopt" \in Free
  BY PhasePlaces
<1>2. CASE Goes([Move("mark") EXCEPT !.who = r])
  BY <1>1, <1>2, AtTyped, GoesTyped
<1>3. ASSUME NEW i \in Ids \cup Txs, Goes([Move("adopt") EXCEPT !.who = r, !.id = i])
      PROVE  TypeInv'
  BY <1>1, <1>3, AtTyped, GoesTyped
<1>4. QED BY <1>2, <1>3 DEF SearchFirst, FindJournalsByTag

LEMMA AdoptTyped ==
  ASSUME TypeInv, NEW r \in Receipts, Adopt(r)
  PROVE  TypeInv'
<1> DEFINE syn  == Synced(r, run.id)
           sum  == SummarizeSyncInput(run.seen[r])
           new  == [syn EXCEPT !.input = sum]
           done == Done("create", r)
<1>1. WriteIfCurrent(r, rows[r].sync = "PENDING", TRUE, new, done, done)
  BY DEF Adopt
<1>2. done \in Run /\ HandsOf(done)
  BY DoneTyped
<1>3. syn \in Row /\ syn.sync = "SYNCED"
  BY Parts, SyncedCells
<1>4. sum \in Input
  BY Parts, SummaryType
<1> HIDE DEF syn, sum
<1>5. new \in Row /\ new.sync = "SYNCED"
  BY <1>3, <1>4 DEF Row
<1> HIDE DEF new, done
<1>6. QED BY <1>1, <1>2, <1>5, WriteTyped

LEMMA MarkCreatingTyped ==
  ASSUME TypeInv, NEW r \in Receipts, MarkCreating(r)
  PROVE  TypeInv'
<1> DEFINE cre  == InState(r, "CREATING", None)
           sum  == SummarizeSyncInput(run.seen[r])
           mark == [cre EXCEPT !.aged = FALSE, !.input = sum]
           post == [Move("post") EXCEPT !.seen[r] = mark]
           done == Done("create", r)
           guard == /\ rows[r].sync = "PENDING" /\ rows[r].exp = "COMPLETED" /\ rows[r].jid = None
                    /\ DecideSyncTarget(rows[r]) = "ready" /\ rows[r].method = "cash"
                    /\ SummarizeSyncInput(rows[r]) = sum
<1>1. WriteIfCurrent(r, guard, FALSE, mark, post, done)
  BY DEF MarkCreating
<1>2. done \in Run /\ HandsOf(done)
  BY DoneTyped
<1>3. cre \in Row /\ cre.sync = "CREATING"
  <2>1. "CREATING" \in SyncStates /\ None \in Errs
    BY States
  <2>2. QED BY <2>1, InStateCells
<1>4. sum \in Input
  BY Parts, SummaryType
<1>5. guard => rows[r].sync = "PENDING"
  OBVIOUS
<1> HIDE DEF cre, sum, guard
<1>6. mark \in Row /\ mark.sync = "CREATING"
  BY <1>3, <1>4 DEF Row
<1> HIDE DEF mark
<1>7. post \in Run /\ post.at = "post"
  BY <1>6, SeenTyped, PhasePlaces
<1>8. HandsOf(post)
  BY <1>7, FreeHands, PhasePlaces
<1> HIDE DEF post, done
<1>9. QED BY <1>1, <1>2, <1>5, <1>6, <1>7, <1>8, WriteTyped

\* The run with an entry in its hands.
LEMMA EnteredTyped ==
  ASSUME TypeInv, NEW i \in Ids \cup Txs, NEW b \in {"again2", "create", "human", "match"}
  PROVE  /\ [Move("entered") EXCEPT !.id = i, !.back = b] \in Run
         /\ HandsOf([Move("entered") EXCEPT !.id = i, !.back = b])
         /\ run.back # None => /\ [Move("entered") EXCEPT !.id = i] \in Run
                               /\ HandsOf([Move("entered") EXCEPT !.id = i])
<1>1. "entered" \in Places /\ b # None
  BY DEF Places, None
<1>2. Move("entered") \in Run /\ Move("entered").at = "entered" /\ Move("entered").back = run.back
  BY <1>1, MoveType DEF TypeInv, TypeOK, Run
<1> DEFINE m == Move("entered")
           x == [m EXCEPT !.id = i, !.back = b]
           y == [m EXCEPT !.id = i]
<1> HIDE DEF m
<1>3. x \in Run /\ x.at = "entered" /\ x.back = b
  BY <1>2 DEF Run, m
<1>4. y \in Run /\ y.at = "entered" /\ y.back = run.back
  BY <1>2 DEF Run, m
<1> HIDE DEF x, y
<1>5. HandsOf(x) /\ (run.back # None => HandsOf(y))
  BY <1>1, <1>3, <1>4 DEF HandsOf
<1>6. QED BY <1>3, <1>4, <1>5 DEF x, y, m

LEMMA PostTyped ==
  ASSUME TypeInv, NEW r \in Receipts, PostJournal(r)
  PROVE  TypeInv'
<1>1. EntryFor(r, run.seen[r]) \in Entry
  BY Parts, RowEntryType
<1>2. ASSUME NEW i \in Ids, Place(i, EntryFor(r, run.seen[r])), Register(i),
             run' = [Move("entered") EXCEPT !.id = i, !.back = "create"],
             UNCHANGED <<rows, sent, faults, edits>>
      PROVE  TypeInv'
  <2>1. run' \in Run /\ HandsOf(run')
    BY <1>2, EnteredTyped
  <2>2. QED BY <1>1, <1>2, <2>1, MakesTyped
<1>3. ASSUME NEW i \in Ids, GivesUp(i, EntryFor(r, run.seen[r]), Done("create", r))
      PROVE  TypeInv'
  BY <1>1, <1>3, DoneTyped, GivesUpTyped
<1>4. CASE Goes(Move("rejected")) \/ Goes(Move("limited"))
  BY <1>4, MoveTyped, GoesTyped
<1>5. QED BY <1>2, <1>3, <1>4 DEF PostJournal

LEMMA RefusedTyped ==
  ASSUME TypeInv, NEW r \in Receipts, RecordRefused(r)
  PROVE  TypeInv'
<1>1. CASE WriteIfCurrent(r, rows[r].sync = "CREATING", FALSE, InState(r, "ERROR", None),
                          Done("create", r), Done("create", r))
  <2>1. "ERROR" \in SyncStates /\ None \in Errs
    BY States
  <2>2. QED BY <1>1, <2>1, DoneTyped, MarkTyped
<1>2. CASE WriteIfCurrent(r, rows[r].sync = "CREATING", FALSE, [rows[r] EXCEPT !.sync = "PENDING"], Idle, Idle)
  <2> DEFINE new == [rows[r] EXCEPT !.sync = "PENDING"]
  <2>1. new \in Row /\ new.sync = "PENDING"
    BY Parts, States DEF Row
  <2>2. Idle \in Run /\ HandsOf(Idle)
    BY IdleType, FreeHands, PhasePlaces DEF Idle
  <2> HIDE DEF new
  <2>3. WriteIfCurrent(r, rows[r].sync = "CREATING", FALSE, new, Idle, Idle)
    BY <1>2 DEF new
  <2>4. QED BY <2>1, <2>2, <2>3, WriteTyped
<1>3. QED BY <1>1, <1>2 DEF RecordRefused

LEMMA RecordEnteredTyped ==
  ASSUME TypeInv, NEW r \in Receipts, RecordEntered(r)
  PROVE  TypeInv'
<1>1. run.back # None
  BY DEF RecordEntered, At, TypeInv, HandsOf
<1>2. Back(r) \in Run /\ HandsOf(Back(r))
  BY <1>1, BackTyped
<1>3. Synced(r, run.id) \in Row /\ Synced(r, run.id).tx = rows[r].tx /\ Synced(r, run.id).sync = "SYNCED"
  BY Parts, SyncedCells
<1>4. rows[r].sync = "JOURNALIZING" => rows[r].tx # None
  BY DEF TypeInv, Claims
<1> DEFINE new == Synced(r, run.id)
<1> HIDE DEF new
<1>5. "JOURNALIZING" \in {new.sync, rows[r].sync} => new.tx # None
  BY <1>3, <1>4 DEF new
<1>6. new \in Row /\ WriteIfCurrent(r, TRUE, TRUE, new, Back(r), Back(r))
  BY <1>3 DEF new, RecordEntered
<1>7. QED BY <1>2, <1>5, <1>6, WriteTyped

-----------------------------------------------------------------------------
(* Statement lines.                                                        *)

LEMMA ConflictTyped ==
  ASSUME TypeInv, NEW r \in Receipts, HoldRuleConflict(r)
  PROVE  TypeInv'
<1>1. "NEEDS_REVIEW" \in SyncStates /\ None \in Errs
  BY States
<1>2. QED BY <1>1, DoneTyped, MarkTyped DEF HoldRuleConflict

LEMMA ByRuleTyped ==
  ASSUME TypeInv, NEW t \in Txs, JournalizeByRule(t)
  PROVE  TypeInv'
<1> DEFINE on == [run EXCEPT !.lines = @ \ {t}]
<1>1. on \in Run /\ on.at = "rules"
  BY DEF JournalizeByRule, TypeInv, TypeOK, Run
<1>2. HandsOf(on)
  BY <1>1, FreeHands, PhasePlaces
<1>3. EntryFor("private", LineOf[t]) \in Entry
  BY LineEntryType
<1> HIDE DEF on
<1>4. CASE Place(t, EntryFor("private", LineOf[t])) /\ Register(t)
           /\ run' = on /\ UNCHANGED <<rows, sent, faults, edits>>
  BY <1>1, <1>2, <1>3, <1>4, MakesTyped
<1>5. CASE GivesUp(t, EntryFor("private", LineOf[t]), on)
  BY <1>1, <1>2, <1>3, <1>5, GivesUpTyped
<1>6. CASE Goes(on)
  BY <1>1, <1>2, <1>6, GoesTyped
<1>7. QED BY <1>4, <1>5, <1>6 DEF JournalizeByRule, on

\* The row as it claims a line.
LEMMA ClaimedCells ==
  ASSUME TypeInv, NEW r \in Receipts, NEW t \in Txs
  PROVE  LET mark == Claimed(r, t)
         IN  /\ mark \in Row /\ mark.sync = "JOURNALIZING" /\ mark.tx = t /\ mark.tx # None
             /\ mark.jid = rows[r].jid /\ mark.input = SummaryWithTx(run.seen[r], t)
             /\ mark.exp = rows[r].exp /\ mark.method = rows[r].method
             /\ mark.amount = rows[r].amount /\ mark.day = rows[r].day
<1> DEFINE old == InState(r, "JOURNALIZING", None)
           sum == SummaryWithTx(run.seen[r], t)
<1>1. /\ old \in Row /\ old.sync = "JOURNALIZING" /\ old.jid = rows[r].jid
      /\ old.exp = rows[r].exp /\ old.method = rows[r].method
      /\ old.amount = rows[r].amount /\ old.day = rows[r].day
  <2>1. "JOURNALIZING" \in SyncStates /\ None \in Errs
    BY States
  <2>2. QED BY <2>1, InStateCells
<1>2. sum \in Input
  BY Parts, SummaryType
<1> HIDE DEF old, sum
<1>3. Claimed(r, t) = [old EXCEPT !.tx = t, !.aged = FALSE, !.input = sum]
  BY DEF Claimed, old, sum
<1>4. QED BY <1>1, <1>2, <1>3, Named DEF Row, sum

LEMMA StartTyped ==
  ASSUME TypeInv, NEW r \in Receipts, NEW t \in Txs, NEW auto \in BOOLEAN,
         run.at \in {"human", "match"}, StartJournalize(r, t, auto)
  PROVE  TypeInv'
<1> DEFINE mark == Claimed(r, t)
           m    == [Move("send") EXCEPT !.seen[r] = mark]
           send == [Move("send") EXCEPT !.who = r, !.seen[r] = mark, !.back = run.at]
           done == Done(run.at, r)
           guard == /\ rows[r].sync = run.seen[r].sync /\ rows[r].exp = "COMPLETED"
                    /\ rows[r].jid = None /\ CanTransition(rows[r].sync, "JOURNALIZING")
                    /\ DecideSyncTarget(rows[r]) = "ready" /\ rows[r].method = run.seen[r].method
                    /\ rows[r].tx \in {None, t}
                    /\ SummaryWithTx(rows[r], t) = SummaryWithTx(run.seen[r], t)
                    /\ t \notin UsedTransactions(rows, r)
                    /\ (auto => Matched(rows, LineOf, run.pool, r) = {t})
<1>1. WriteIfCurrent(r, guard, FALSE, mark, send, done)
  BY DEF StartJournalize
<1> HIDE DEF guard
<1>2. mark \in Row /\ mark.tx # None
  BY ClaimedCells
<1> HIDE DEF mark
<1>3. "send" \in Places /\ run.at # None
  BY DEF Places, None
<1>4. m \in Run /\ m.at = "send" /\ m.seen[r] = mark
  BY <1>2, <1>3, SeenTyped
<1>5. send = [m EXCEPT !.who = r, !.back = run.at]
  <2>1. Move("send") \in Run
    BY <1>3, MoveType DEF TypeInv, TypeOK
  <2>2. QED BY <2>1 DEF Run
<1> HIDE DEF send, m
<1>6. send \in Run /\ send.at = "send" /\ send.who = r /\ send.back = run.at /\ send.seen = m.seen
  BY <1>4, <1>5 DEF Run
<1>7. HandsOf(send)
  BY <1>2, <1>3, <1>4, <1>6 DEF HandsOf
<1>8. done \in Run /\ HandsOf(done)
  BY DoneTyped
<1> HIDE DEF done
<1>9. QED BY <1>1, <1>2, <1>6, <1>7, <1>8, WriteTyped

LEMMA MatchedType ==
  ASSUME NEW ledger, NEW pool, NEW r
  PROVE  Matched(ledger, LineOf, pool, r) \subseteq pool
BY DEF Matched, Candidates

LEMMA HumanTyped ==
  ASSUME TypeInv, NEW r \in Receipts, HumanTransaction(r)
  PROVE  TypeInv'
<1> DEFINE t == run.seen[r].tx
           new == [rows[r] EXCEPT !.err = None]
           guard == rows[r].sync = "NEEDS_REVIEW" /\ rows[r].tx = t
<1>1. CASE t \in run.pool /\ StartJournalize(r, t, FALSE)
  <2>1. t \in Txs
    BY <1>1 DEF TypeInv, TypeOK, Run
  <2>2. run.at = "human"
    BY DEF HumanTransaction, Takes
  <2>3. QED BY <1>1, <2>1, <2>2, StartTyped
<1>2. CASE WriteIfCurrent(r, guard, FALSE, new, Done("human", r), Done("human", r))
  <2>1. new \in Row /\ (guard => new.sync = "NEEDS_REVIEW")
    BY Parts DEF Row
  <2>2. guard => rows[r].sync = "NEEDS_REVIEW"
    OBVIOUS
  <2> HIDE DEF new, guard
  <2>3. QED BY <1>2, <2>1, <2>2, DoneTyped, WriteTyped
<1>3. QED BY <1>1, <1>2 DEF HumanTransaction

LEMMA MatchTyped ==
  ASSUME TypeInv, NEW r \in Receipts, MatchOutcome(r)
  PROVE  TypeInv'
<1>1. run.at = "match"
  BY DEF MatchOutcome, Takes
<1>2. ASSUME NEW t \in Matched(run.seen, LineOf, run.pool, r), StartJournalize(r, t, TRUE)
      PROVE  TypeInv'
  <2>1. t \in Txs
    BY MatchedType DEF TypeInv, TypeOK, Run
  <2>2. QED BY <1>1, <1>2, <2>1, StartTyped
<1>3. CASE Goes(Done("match", r))
  BY <1>3, DoneTyped, GoesTyped
<1>4. CASE WriteIfCurrent(r, rows[r].sync = "WAITING_TRANSACTION" /\ rows[r].jid = None, FALSE,
                          InState(r, "NEEDS_REVIEW", None), Done("match", r), Done("match", r))
  <2>1. "NEEDS_REVIEW" \in SyncStates /\ None \in Errs
    BY States
  <2>2. QED BY <1>4, <2>1, DoneTyped, MarkTyped
<1>5. QED BY <1>2, <1>3, <1>4 DEF MatchOutcome

LEMMA SendTyped ==
  ASSUME TypeInv, NEW r \in Receipts, SendJournalize(r)
  PROVE  TypeInv'
<1> DEFINE t == run.seen[r].tx
           new == EntryFor(r, run.seen[r])
           e == [new EXCEPT !.amount = LineOf[t].amount]
           trace == [Move("trace") EXCEPT !.rejected = TRUE]
<1>1. t \in Txs /\ run.back # None
  BY Parts DEF SendJournalize, At, TypeInv, HandsOf, Row
<1>2. e \in Entry
  <2>1. new \in Entry
    BY Parts, RowEntryType
  <2>2. LineOf[t].amount \in Amounts
    BY <1>1, JournalBooksAssumption
  <2> HIDE DEF new
  <2>3. QED BY <2>1, <2>2 DEF Entry
<1>3. trace \in Run /\ trace.at = "trace" /\ trace.back = run.back
  <2>1. "trace" \in Places
    BY DEF Places
  <2>2. Move("trace") \in Run /\ Move("trace").at = "trace" /\ Move("trace").back = run.back
    BY <2>1, MoveType DEF TypeInv, TypeOK, Run
  <2>3. QED BY <2>2 DEF Run
<1>4. HandsOf(trace)
  BY <1>1, <1>3 DEF HandsOf
<1>5. [Move("entered") EXCEPT !.id = t] \in Run /\ HandsOf([Move("entered") EXCEPT !.id = t])
  BY <1>1, EnteredTyped
<1>6. Back(r) \in Run /\ HandsOf(Back(r))
  BY <1>1, BackTyped
<1>7. \/ /\ Place(t, e) /\ Register(t) /\ run' = [Move("entered") EXCEPT !.id = t]
         /\ UNCHANGED <<rows, sent, faults, edits>>
      \/ GivesUp(t, e, Back(r)) \/ Goes(trace)
  BY DEF SendJournalize
<1> HIDE DEF t, e, trace
<1>8. QED BY <1>1, <1>2, <1>3, <1>4, <1>5, <1>6, <1>7, MakesTyped, GivesUpTyped, GoesTyped

\* The run at a place where it works on a line.
LEMMA LineTyped ==
  ASSUME TypeInv, run.back # None, NEW p \in {"traced", "lined"}, NEW i \in Ids \cup Txs \cup {None},
         NEW l \in {"absent", "none", "registered", "excluded"}
  PROVE  /\ [Move(p) EXCEPT !.id = i] \in Run /\ HandsOf([Move(p) EXCEPT !.id = i])
         /\ [Move(p) EXCEPT !.line = l] \in Run /\ HandsOf([Move(p) EXCEPT !.line = l])
<1>1. p \in Places
  BY DEF Places
<1>2. Move(p) \in Run /\ Move(p).at = p /\ Move(p).back = run.back
  BY <1>1, MoveType DEF TypeInv, TypeOK, Run
<1> DEFINE x == [Move(p) EXCEPT !.id = i]
           y == [Move(p) EXCEPT !.line = l]
<1>3. x \in Run /\ x.at = p /\ x.back = run.back
  BY <1>2 DEF Run
<1>4. y \in Run /\ y.at = p /\ y.back = run.back
  BY <1>2 DEF Run
<1> HIDE DEF x, y
<1>5. HandsOf(x) /\ HandsOf(y)
  BY <1>3, <1>4 DEF HandsOf
<1>6. QED BY <1>3, <1>4, <1>5 DEF x, y

\* Without an entry of its line the row is left alone, or the line is looked at.
LEMMA TracedWays ==
  ASSUME TypeInv, NEW r \in Receipts, RecordTraced(r), run.id = None
  PROVE  \/ Goes(Back(r))
         \/ \E l \in {"absent", status[run.seen[r].tx]} :
              /\ l \in {"absent", "none", "registered", "excluded"}
              /\ Goes([Move("lined") EXCEPT !.line = l])
<1> DEFINE t == run.seen[r].tx
<1>1. t \in Txs \cup {None}
  BY Parts DEF Row
<1>2. CASE t # None /\ run.seen[r].method \notin LinkedMethods
  BY <1>2 DEF RecordTraced
<1>3. CASE t = None \/ run.seen[r].method \in LinkedMethods
  <2>1. CASE t # None /\ IsFetchedFor(run.seen[r], t)
    <3>1. Goes([Move("lined") EXCEPT !.line = status[t]])
      BY <1>3, <2>1 DEF RecordTraced
    <3>2. status[t] \in {"absent", "none", "registered", "excluded"}
      BY <1>1, <2>1 DEF TypeInv, TypeOK
    <3>3. QED BY <3>1, <3>2
  <2>2. CASE ~(t # None /\ IsFetchedFor(run.seen[r], t))
    BY <1>3, <2>2 DEF RecordTraced
  <2>3. QED BY <2>1, <2>2
<1>4. QED BY <1>2, <1>3

LEMMA TraceTyped ==
  ASSUME TypeInv, NEW r \in Receipts, TraceEntry(r) \/ RecordTraced(r)
  PROVE  TypeInv'
<1>1. run.back # None
  BY DEF TraceEntry, RecordTraced, At, TypeInv, HandsOf
<1>2. run.seen[r].tx \in Txs \cup {None}
  BY Parts DEF Row
<1>3. CASE TraceEntry(r)
  <2>1. PICK i \in {run.seen[r].tx, None} : Goes([Move("traced") EXCEPT !.id = i])
    BY <1>3 DEF TraceEntry
  <2>2. QED BY <1>1, <1>2, <2>1, LineTyped, GoesTyped
<1>4. CASE RecordTraced(r) /\ run.id # None
  <2> DEFINE guard == rows[r].sync = "JOURNALIZING"
             new   == Synced(r, run.id)
  <2>1. WriteIfCurrent(r, guard, TRUE, new, Back(r), Back(r))
    BY <1>4 DEF RecordTraced
  <2>2. new \in Row /\ new.tx = rows[r].tx
    BY Parts, SyncedCells
  <2>3. guard => new.tx # None
    BY <2>2 DEF TypeInv, Claims
  <2> HIDE DEF guard, new
  <2>4. QED BY <1>1, <2>1, <2>2, <2>3, BackTyped, WriteTyped
<1>5. CASE RecordTraced(r) /\ run.id = None
  <2>1. \/ Goes(Back(r))
        \/ \E l \in {"absent", "none", "registered", "excluded"} : Goes([Move("lined") EXCEPT !.line = l])
    BY <1>5, TracedWays
  <2>2. QED BY <1>1, <2>1, BackTyped, LineTyped, GoesTyped
<1>6. QED BY <1>3, <1>4, <1>5

LEMMA LinedTyped ==
  ASSUME TypeInv, NEW r \in Receipts, RecordLined(r)
  PROVE  TypeInv'
<1>1. run.back # None /\ run.who = r /\ run.at = "lined"
  BY DEF RecordLined, At, TypeInv, HandsOf
<1>2. Back(r) \in Run /\ HandsOf(Back(r))
  BY <1>1, BackTyped
<1> DEFINE guard == rows[r].sync = "JOURNALIZING"
           new   == [rows[r] EXCEPT !.aged = FALSE]
           send  == [Move("send") EXCEPT !.seen[r] = rows[r]]
<1>3. \/ WriteIfCurrent(r, guard, FALSE, InState(r, "NEEDS_REVIEW", None), Back(r), Back(r))
      \/ WriteIfCurrent(r, guard, FALSE, InState(r, "ERROR", None), Back(r), Back(r))
      \/ Goes(Back(r))
      \/ WriteIfCurrent(r, guard, FALSE, new, send, Back(r))
  <2>1. CASE run.line # "none"
    BY <2>1 DEF RecordLined
  <2>2. CASE run.line = "none" /\ run.rejected
    BY <2>2 DEF RecordLined
  <2>3. CASE run.line = "none" /\ ~run.rejected
    BY <2>3 DEF RecordLined
  <2>4. QED BY <2>1, <2>2, <2>3
<1>4. guard => rows[r].tx # None
  BY DEF TypeInv, Claims
<1>5. new \in Row /\ new.tx = rows[r].tx
  BY Parts DEF Row
<1>6. send \in Run /\ (guard => HandsOf(send))
  <2>1. "send" \in Places /\ rows[r] \in Row
    BY Parts DEF Places
  <2>2. send \in Run /\ send.who = r /\ send.back = run.back /\ send.seen[r] = rows[r] /\ send.at = "send"
    BY <1>1, <2>1, SeenTyped
  <2> HIDE DEF send
  <2>3. QED BY <1>1, <1>4, <2>2 DEF HandsOf
<1>7. "NEEDS_REVIEW" \in SyncStates /\ "ERROR" \in SyncStates /\ None \in Errs
  BY States
<1> HIDE DEF guard, new, send
<1>8. CASE WriteIfCurrent(r, guard, FALSE, new, send, Back(r))
  BY <1>2, <1>4, <1>5, <1>6, <1>8, WriteTyped
<1>9. QED BY <1>2, <1>3, <1>7, <1>8, MarkTyped, GoesTyped

-----------------------------------------------------------------------------
LEMMA TypeInit == Init => TypeInv
<1> SUFFICES ASSUME Init PROVE TypeInv
  OBVIOUS
<1>1. rows \in [Receipts -> Row] /\ run = Idle /\ Idle \in Run
  BY NoRowType, IdleType DEF Init
<1>2. entries \in [Ids \cup Txs -> Entry]
  BY Named DEF Init
<1>3. TypeOK
  BY <1>1, <1>2, JournalBooksAssumption DEF Init, TypeOK
<1>4. Claims
  BY DEF Init, Claims, NoRow, None
<1>5. HandsOf(run)
  BY <1>1, FreeHands, PhasePlaces DEF Idle
<1>6. QED BY <1>3, <1>4, <1>5 DEF TypeInv

LEMMA TypeStep == TypeInv /\ [Next]_vars => TypeInv'
<1> SUFFICES ASSUME TypeInv, [Next]_vars PROVE TypeInv'
  OBVIOUS
<1>1. CASE UNCHANGED vars
  BY <1>1 DEF vars, books, TypeInv, TypeOK, Claims, HandsOf
<1>2. CASE World
  BY <1>2, LinesTyped, DecidesTyped, LedgerTyped DEF World
<1>3. CASE RunEnds \/ OutOfBudget
  BY <1>3, EndsTyped
<1>4. CASE RunSync
  <2>1. CASE SyncExpenses \/ EndOfPhase
    BY <2>1, PhasesTyped
  <2>2. ASSUME NEW t \in Txs, JournalizeByRule(t) PROVE TypeInv'
    BY <2>2, ByRuleTyped
  <2>3. ASSUME NEW r \in Receipts,
               \/ ReverseWithoutJournal(r) \/ RecoverCreating(r) \/ RecordRecovered(r)
               \/ RecoverJournalizing(r) \/ ProcessMaintenanceRow(r) \/ ImportRow(r) \/ CancelRow(r)
               \/ FinishReversal(r) \/ PutJournal(r) \/ Inherit(r) \/ FillHeir(r) \/ RecordReversed(r)
        PROVE  TypeInv'
    BY <2>3, ReverseTyped, RecoverTyped, RecoveredTyped, JournalizingTyped, ProcessTyped, ImportTyped,
       CancelTyped, FinishTyped, PutTyped, InheritTyped, FillTyped, ReversedTyped
  <2>4. ASSUME NEW r \in Receipts,
               \/ DetectChange(r) \/ Classify(r)
               \/ SearchFirst(r) \/ Adopt(r) \/ MarkCreating(r) \/ PostJournal(r) \/ RecordRefused(r)
               \/ RecordEntered(r) \/ HoldRuleConflict(r) \/ HumanTransaction(r) \/ MatchOutcome(r)
               \/ SendJournalize(r) \/ TraceEntry(r) \/ RecordTraced(r) \/ RecordLined(r)
        PROVE  TypeInv'
    BY <2>4, DetectTyped, ClassifyTyped, SearchTyped, AdoptTyped, MarkCreatingTyped, PostTyped,
       RefusedTyped, RecordEnteredTyped, ConflictTyped, HumanTyped, MatchTyped, SendTyped,
       TraceTyped, LinedTyped
  <2>5. QED BY <1>4, <2>1, <2>2, <2>3, <2>4 DEF RunSync
<1>5. QED BY <1>1, <1>2, <1>3, <1>4 DEF Next

\* The ledger, MF and the execution hold values of their kinds, and an execution that acts on
\* a line, an heir or a phase to return to has one.
THEOREM TypeCorrect == Spec => [](TypeOK /\ HandsOf(run))
<1>1. TypeInv => TypeOK /\ HandsOf(run)
  BY DEF TypeInv
<1>2. QED BY TypeInit, TypeStep, <1>1, PTL DEF Spec

-----------------------------------------------------------------------------
(* No write asks the table for a step it does not have.                    *)

\* What is known of a row when it is about to be written: a phase works on rows it chose for
\* their state, a cancellation is carried on of a row with an entry, and a row of unknown
\* outcome is imported as such.
Chosen(s) ==
  /\ s.at # "threw"
  /\ s.at = "reverse" => \A r \in s.todo : s.seen[r].sync \in NoJournalStates
  /\ s.at = "classify" => \A r \in s.todo : /\ s.seen[r].sync \in {"", "PENDING"}
                                            /\ CanTransition(s.seen[r].sync, InitialStateFor(s.seen[r]))
  /\ s.at = "cancel" => CancelledRowHasJournal(s.seen[s.who])

ImportsUnknown ==
  run.at = "import" /\ run.who \in Receipts /\ rows[run.who].sync = "UNKNOWN"
    => run.seen[run.who].sync = "UNKNOWN"

\* Places of which nothing of this is said.
Quiet == {"threw", "reverse", "classify", "cancel", "import"}

LEMMA QuietChosen ==
  ASSUME NEW s, s.at \notin Quiet
  PROVE  Chosen(s)
BY DEF Quiet, Chosen

LEMMA Table ==
  /\ \A a \in NoJournalStates \cup {"SYNCED"} :
        CanTransition(a, "NEEDS_REVIEW") /\ CanTransition(a, "REVERSING")
  /\ \A a \in NoJournalStates : CanTransition(a, "REVERSED") /\ CanTransition(a, "SYNCED")
  /\ CanTransition("UNKNOWN", "SYNCED") /\ CanTransition("PENDING", "CREATING")
  /\ \A b \in {"UNKNOWN", "ERROR", "PENDING"} : CanTransition("CREATING", b)
  /\ \A b \in {"REVERSED", "ERROR"} : CanTransition("REVERSING", b)
  /\ \A b \in {"NEEDS_REVIEW", "ERROR"} : CanTransition("JOURNALIZING", b)
  /\ \A a : CanTransition(a, a)
<1> USE DEF CanTransition, Transitions, NoJournalStates
<1>1. \A a \in NoJournalStates \cup {"SYNCED"} : CanTransition(a, "NEEDS_REVIEW")
  OBVIOUS
<1>2. \A a \in NoJournalStates \cup {"SYNCED"} : CanTransition(a, "REVERSING")
  OBVIOUS
<1>3. \A a \in NoJournalStates : CanTransition(a, "REVERSED")
  OBVIOUS
<1>4. \A a \in NoJournalStates : CanTransition(a, "SYNCED")
  OBVIOUS
<1>5. CanTransition("UNKNOWN", "SYNCED") /\ CanTransition("PENDING", "CREATING")
  OBVIOUS
<1>6. \A b \in {"UNKNOWN", "ERROR", "PENDING"} : CanTransition("CREATING", b)
  OBVIOUS
<1>7. \A b \in {"REVERSED", "ERROR"} : CanTransition("REVERSING", b)
  OBVIOUS
<1>8. \A b \in {"NEEDS_REVIEW", "ERROR"} : CanTransition("JOURNALIZING", b)
  OBVIOUS
<1>9. \A a : CanTransition(a, a)
  OBVIOUS
<1> HIDE DEF CanTransition, Transitions, NoJournalStates
<1>10. QED BY <1>1, <1>2, <1>3, <1>4, <1>5, <1>6, <1>7, <1>8, <1>9

\* The part of the invariant beyond the types.
Admits == Chosen(run) /\ ImportsUnknown

LEMMA AdmitsWrite ==
  ASSUME Admits, NEW r, NEW guard, NEW force, NEW new, NEW yes, NEW no,
         guard => /\ force \/ CanTransition(rows[r].sync, new.sync)
                  /\ Chosen(yes) /\ yes.at # "import",
         Chosen(no), no.at # "import",
         WriteIfCurrent(r, guard, force, new, yes, no)
  PROVE  Admits'
<1>1. run' = Idle \/ (guard /\ run' = yes) \/ run' = no
  BY DEF WriteIfCurrent
<1>2. Chosen(Idle) /\ Idle.at # "import"
  BY QuietChosen DEF Idle, Quiet
<1>3. Chosen(run') /\ run'.at # "import"
  BY <1>1, <1>2
<1>4. QED BY <1>3 DEF Admits, Chosen, ImportsUnknown

LEMMA AdmitsGoes ==
  ASSUME NEW to, run' = to, Chosen(to), to.at # "import"
  PROVE  Admits'
BY DEF Admits, Chosen, ImportsUnknown

LEMMA ChosenDone ==
  ASSUME TypeInv, Admits, NEW r, NEW p \in {"reverse", "maintain", "detect", "classify", "create", "rules", "human", "match"},
         p \in {"reverse", "classify"} => run.at = p
  PROVE  Chosen(Done(p, r)) /\ Done(p, r).at # "import"
<1>1. /\ Done(p, r).at = p /\ Done(p, r).todo = run.todo \ {r}
      /\ run.todo # {r} => Done(p, r).seen = run.seen
  BY DEF Done, Idle
<1>2. CASE p \notin {"reverse", "classify"}
  BY <1>1, <1>2, QuietChosen DEF Quiet
<1>3. CASE p \in {"reverse", "classify"}
  <2>1. \A x \in run.todo \ {r} : run.todo # {r}
    OBVIOUS
  <2>2. QED BY <1>1, <1>3, <2>1 DEF Admits, Chosen
<1>4. QED BY <1>2, <1>3

LEMMA ChosenMove ==
  ASSUME TypeInv, NEW p \in {"recovered", "again", "again2", "undo", "undone", "refused", "put", "inherit",
                            "fill", "adopt", "mark", "post", "rejected", "limited", "entered", "send",
                            "trace", "traced", "lined"}
  PROVE  Chosen(Move(p)) /\ Move(p).at # "import" /\ Move(p) \in Run /\ Move(p).at = p /\ p \notin Quiet
<1>1. p \in Places
  BY DEF Places
<1>2. Move(p) \in Run /\ Move(p).at = p
  BY <1>1, MoveType DEF TypeInv, TypeOK, Run
<1>3. QED BY <1>2, QuietChosen DEF Quiet

LEMMA ChosenBack ==
  ASSUME TypeInv, Admits, NEW r, run.back # None
  PROVE  Chosen(Back(r)) /\ Back(r).at # "import"
<1>1. run.back \in {"again2", "create", "human", "match"}
  BY DEF TypeInv, TypeOK, Run
<1>2. QED BY <1>1, ChosenDone, ChosenMove DEF Back

\* Another run that differs from such a one in its hands only.
LEMMA ChosenSame ==
  ASSUME NEW s, NEW p, s.at = p, p \notin Quiet
  PROVE  Chosen(s) /\ s.at # "import"
BY QuietChosen DEF Quiet

-----------------------------------------------------------------------------
\* What others than the synchronisation do to a row: it is registered; its business columns
\* or its line change; a day passes over a creation; its state is emptied; it gets an id.
LedgerWrite(r, new) ==
  LET old == rows[r]
  IN  \/ old.exp = None /\ new.exp # None /\ new.sync = None /\ new.jid = None
      \/ /\ new.exp = None => old.exp = None
         /\ new.input = old.input
         /\ \/ new.sync = old.sync /\ new.jid = old.jid /\ new.aged = old.aged
            \/ /\ new.sync = old.sync /\ new.jid = old.jid /\ run.at = "idle"
               /\ \A q \in sent : q.entry.tag # r
            \/ /\ old.sync \in {"UNKNOWN", "ERROR", "NEEDS_REVIEW"} /\ new.sync = ""
               /\ new.jid = old.jid /\ new.aged = old.aged
            \/ /\ old.sync \in {"UNKNOWN", "NEEDS_REVIEW"} /\ new.sync = old.sync
               /\ new.jid # None /\ new.aged = old.aged /\ OperatorTypesId(r)

LEMMA LedgerCells ==
  ASSUME TypeInv, NEW r \in Receipts,
         \/ RegisterReceipt(r) \/ CompleteReceipt(r) \/ Cancel(r) \/ DayPasses(r) \/ EditRow(r)
         \/ OperatorResets(r) \/ OperatorTypesId(r) \/ \E t \in Txs : OperatorTypesLine(r, t)
  PROVE  /\ run' = run /\ sent' = sent
         /\ \E new : rows' = [rows EXCEPT ![r] = new] /\ LedgerWrite(r, new)
<1>1. rows[r] \in Row
  BY DEF TypeInv, TypeOK
<1>2. run' = run /\ sent' = sent
  BY DEF RegisterReceipt, CompleteReceipt, Cancel, DayPasses, EditRow, OperatorResets,
         OperatorTypesId, OperatorTypesLine, ByHand, books
<1> DEFINE old == rows[r]
           goal == \E new : rows' = [rows EXCEPT ![r] = new] /\ LedgerWrite(r, new)
<1>3. ASSUME RegisterReceipt(r) PROVE goal
  <2>1. PICK m \in Methods, a \in Amounts, d \in Days :
          rows' = [rows EXCEPT ![r] = [NoRow EXCEPT !.exp = "RECEIVED", !.method = m,
                                                    !.amount = a, !.day = d]]
    BY <1>3 DEF RegisterReceipt
  <2> DEFINE new == [NoRow EXCEPT !.exp = "RECEIVED", !.method = m, !.amount = a, !.day = d]
  <2>2. old.exp = None /\ new.exp # None /\ new.sync = None /\ new.jid = None
    BY <1>3 DEF RegisterReceipt, NoRow, None
  <2> HIDE DEF new, goal
  <2>3. LedgerWrite(r, new)
    BY <2>2 DEF LedgerWrite
  <2>4. rows' = [rows EXCEPT ![r] = new]
    BY <2>1 DEF new
  <2>5. QED BY <2>3, <2>4 DEF goal
\* The columns of business and of the line.
<1>4. ASSUME NEW new, rows' = [rows EXCEPT ![r] = new], new.exp = None => old.exp = None,
             new.input = old.input, new.sync = old.sync, new.jid = old.jid, new.aged = old.aged
      PROVE  goal
  BY <1>4 DEF LedgerWrite
<1>5. ASSUME CompleteReceipt(r) \/ Cancel(r) PROVE goal
  <2>1. PICK e \in {"COMPLETED", "VOID", "CORRECTED"} : rows' = [rows EXCEPT ![r] = [old EXCEPT !.exp = e]]
    BY <1>5 DEF CompleteReceipt, Cancel
  <2> DEFINE new == [old EXCEPT !.exp = e]
  <2>2. new.exp # None /\ new.input = old.input /\ new.sync = old.sync /\ new.jid = old.jid
        /\ new.aged = old.aged
    BY <1>1 DEF Row, None
  <2>3. QED BY <1>4, <2>1, <2>2
<1>6. ASSUME EditRow(r) PROVE goal
  <2>1. CASE \E a \in Amounts : rows' = [rows EXCEPT ![r] = [old EXCEPT !.amount = a]]
    <3>1. PICK a \in Amounts : rows' = [rows EXCEPT ![r] = [old EXCEPT !.amount = a]]
      BY <2>1
    <3>2. QED BY <1>1, <1>4, <3>1 DEF Row
  <2>2. CASE \E d \in Days : rows' = [rows EXCEPT ![r] = [old EXCEPT !.day = d]]
    <3>1. PICK d \in Days : rows' = [rows EXCEPT ![r] = [old EXCEPT !.day = d]]
      BY <2>2
    <3>2. QED BY <1>1, <1>4, <3>1 DEF Row
  <2>3. CASE \E m \in Methods : rows' = [rows EXCEPT ![r] = [old EXCEPT !.method = m]]
    <3>1. PICK m \in Methods : rows' = [rows EXCEPT ![r] = [old EXCEPT !.method = m]]
      BY <2>3
    <3>2. QED BY <1>1, <1>4, <3>1 DEF Row
  <2>4. CASE rows' = [rows EXCEPT ![r] = [old EXCEPT !.whole = ~@]]
    BY <1>1, <1>4, <2>4 DEF Row
  <2>5. QED BY <1>6, <2>1, <2>2, <2>3, <2>4 DEF EditRow, Edits
<1>7. ASSUME NEW t \in Txs, OperatorTypesLine(r, t) PROVE goal
  <2>1. rows' = [rows EXCEPT ![r] = [old EXCEPT !.tx = t]]
    BY <1>7 DEF OperatorTypesLine
  <2>2. QED BY <1>1, <1>4, <2>1 DEF Row
<1>8. ASSUME DayPasses(r) PROVE goal
  <2> DEFINE new == [old EXCEPT !.aged = TRUE]
  <2>1. rows' = [rows EXCEPT ![r] = new] /\ run.at = "idle" /\ \A q \in sent : q.entry.tag # r
    BY <1>8 DEF DayPasses
  <2>2. new.exp = old.exp /\ new.input = old.input /\ new.sync = old.sync /\ new.jid = old.jid
    BY <1>1 DEF Row
  <2> HIDE DEF new, goal
  <2>3. LedgerWrite(r, new)
    BY <2>1, <2>2 DEF LedgerWrite
  <2>4. QED BY <2>1, <2>3 DEF goal
<1>9. ASSUME OperatorResets(r) PROVE goal
  <2> DEFINE new == [old EXCEPT !.sync = ""]
  <2>1. rows' = [rows EXCEPT ![r] = new] /\ old.sync \in {"UNKNOWN", "ERROR", "NEEDS_REVIEW"}
    BY <1>9 DEF OperatorResets
  <2>2. new.exp = old.exp /\ new.input = old.input /\ new.sync = "" /\ new.jid = old.jid
        /\ new.aged = old.aged
    BY <1>1 DEF Row
  <2> HIDE DEF new, goal
  <2>3. LedgerWrite(r, new)
    BY <2>1, <2>2 DEF LedgerWrite
  <2>4. QED BY <2>1, <2>3 DEF goal
<1>10. ASSUME OperatorTypesId(r) PROVE goal
  <2>1. PICK i \in Ids \cup Txs : rows' = [rows EXCEPT ![r] = [old EXCEPT !.jid = i]]
    BY <1>10 DEF OperatorTypesId
  <2> DEFINE new == [old EXCEPT !.jid = i]
  <2>2. old.sync \in {"UNKNOWN", "NEEDS_REVIEW"}
    BY <1>10 DEF OperatorTypesId
  <2>3. new.exp = old.exp /\ new.input = old.input /\ new.sync = old.sync /\ new.jid = i
        /\ new.aged = old.aged /\ i # None
    BY <1>1, Named DEF Row
  <2>4. rows' = [rows EXCEPT ![r] = new]
    BY <2>1
  <2> HIDE DEF new, goal
  <2>5. LedgerWrite(r, new)
    BY <1>10, <2>2, <2>3 DEF LedgerWrite
  <2>6. QED BY <2>4, <2>5 DEF goal
<1> HIDE DEF goal
<1>11. goal
  BY <1>3, <1>5, <1>6, <1>7, <1>8, <1>9, <1>10
<1>12. QED BY <1>2, <1>11 DEF goal

LEMMA LedgerSync ==
  ASSUME TypeInv, NEW r \in Receipts,
         \/ RegisterReceipt(r) \/ CompleteReceipt(r) \/ Cancel(r) \/ DayPasses(r) \/ EditRow(r)
         \/ OperatorResets(r) \/ OperatorTypesId(r) \/ \E t \in Txs : OperatorTypesLine(r, t)
  PROVE  run' = run /\ \A s \in Receipts : rows'[s].sync \in {rows[s].sync, ""}
<1>1. PICK new : rows' = [rows EXCEPT ![r] = new] /\ LedgerWrite(r, new)
  BY LedgerCells
<1>2. new.sync \in {rows[r].sync, ""}
  BY <1>1 DEF LedgerWrite, None
<1>3. QED BY <1>1, <1>2, LedgerCells DEF TypeInv, TypeOK

LEMMA AdmitsWorld ==
  ASSUME TypeInv, Admits, World
  PROVE  Admits'
<1>1. run' = run /\ \A s \in Receipts : rows'[s].sync \in {rows[s].sync, ""}
  <2>1. ASSUME NEW t \in Txs, LineArrives(t) \/ OperatorSettlesLine(t)
        PROVE  run' = run /\ rows' = rows
    BY <2>1 DEF LineArrives, OperatorSettlesLine, ByHand
  <2>2. ASSUME NEW q \in sent, MfDecides(q) PROVE run' = run /\ rows' = rows
    BY <2>2 DEF MfDecides
  <2>3. QED BY <2>1, <2>2, LedgerSync DEF World
<1>2. QED BY <1>1 DEF Admits, Chosen, ImportsUnknown

LEMMA AdmitsPhases ==
  ASSUME TypeInv, Admits, SyncExpenses \/ EndOfPhase \/ RunEnds \/ OutOfBudget
  PROVE  Admits'
<1>1. ASSUME NEW p \in {"reverse", "maintain", "detect", "classify", "create", "rules", "human", "match"}, Enter(p)
      PROVE  Admits'
  <2>1. PICK pool, ruled, lines :
          run' = [Idle EXCEPT !.at = p, !.todo = Todo(p, pool, ruled),
                              !.seen = IF Todo(p, pool, ruled) = {} \/ p = "maintain" THEN Nothing ELSE rows,
                              !.pool = pool, !.ruled = ruled, !.halted = run.halted, !.lines = lines]
    BY <1>1 DEF Enter, Goes
  <2>2. /\ run'.at = p /\ run'.todo = Todo(p, pool, ruled)
        /\ run'.todo # {} /\ p # "maintain" => run'.seen = rows
    BY <2>1 DEF Idle
  <2>3. p = "reverse" => \A r \in run'.todo : rows[r].sync \in NoJournalStates
    BY <2>2 DEF Todo
  <2>4. p = "classify" => \A r \in run'.todo : /\ rows[r].sync \in {"", "PENDING"}
                                              /\ CanTransition(rows[r].sync, InitialStateFor(rows[r]))
    BY <2>2 DEF Todo
  <2>5. Chosen(run') /\ run'.at # "import"
    BY <2>2, <2>3, <2>4 DEF Chosen
  <2>6. QED BY <2>5, AdmitsGoes
<1>2. Chosen(Idle) /\ Idle.at # "import"
  BY QuietChosen DEF Idle, Quiet
<1>3. CASE SyncExpenses
  BY <1>1, <1>3 DEF SyncExpenses
<1>4. CASE EndOfPhase
  <2>1. PICK i \in 1..8 : IF i = 8 THEN Goes(Idle) ELSE Enter(Phases[i + 1])
    BY <1>4, PhasePlaces DEF EndOfPhase
  <2>2. i # 8 => Phases[i + 1] \in {"reverse", "maintain", "detect", "classify", "create", "rules", "human", "match"}
    BY DEF Phases
  <2>3. QED BY <1>1, <1>2, <2>1, <2>2, AdmitsGoes DEF Goes
<1>5. CASE RunEnds
  BY <1>2, <1>5, AdmitsGoes DEF RunEnds
<1>6. CASE OutOfBudget
  <2>1. run'.at \in {"maintain", "create", "rules", "human"}
    BY <1>6 DEF OutOfBudget, TypeInv, TypeOK, Run
  <2>2. Chosen(run') /\ run'.at # "import"
    BY <2>1, QuietChosen DEF Quiet
  <2>3. QED BY <2>2, AdmitsGoes
<1>7. QED BY <1>3, <1>4, <1>5, <1>6

\* The run as it is passed on with other hands.
LEMMA HandsAt ==
  ASSUME TypeInv, NEW p \in {"recovered", "again", "again2", "undo", "undone", "refused", "put", "inherit",
                            "fill", "adopt", "mark", "post", "rejected", "limited", "entered", "send",
                            "trace", "traced", "lined"}
  PROVE  /\ \A r : [Move(p) EXCEPT !.who = r].at = p
         /\ \A i : [Move(p) EXCEPT !.id = i].at = p
         /\ \A i : [Move(p) EXCEPT !.line = i].at = p
         /\ \A i : [Move(p) EXCEPT !.rejected = i].at = p
         /\ \A r, i : [Move(p) EXCEPT !.who = r, !.id = i].at = p
         /\ \A b, i : [Move(p) EXCEPT !.id = i, !.back = b].at = p
         /\ \A r, x : [Move(p) EXCEPT !.seen[r] = x].at = p
         /\ \A r, x, b : [Move(p) EXCEPT !.who = r, !.seen[r] = x, !.back = b].at = p
<1>1. Move(p) \in Run /\ Move(p).at = p
  BY ChosenMove
<1> DEFINE m == Move(p)
<1> HIDE DEF m
<1>2. m \in Run /\ m.at = p
  BY <1>1 DEF m
<1>3. /\ \A r : [m EXCEPT !.who = r].at = p
      /\ \A i : [m EXCEPT !.id = i].at = p
      /\ \A i : [m EXCEPT !.line = i].at = p
      /\ \A i : [m EXCEPT !.rejected = i].at = p
      /\ \A r, i : [m EXCEPT !.who = r, !.id = i].at = p
      /\ \A b, i : [m EXCEPT !.id = i, !.back = b].at = p
      /\ \A r, x : [m EXCEPT !.seen[r] = x].at = p
      /\ \A r, x, b : [m EXCEPT !.who = r, !.seen[r] = x, !.back = b].at = p
  BY <1>2 DEF Run
<1>4. QED BY <1>3 DEF m

LEMMA AdmitsRecovery ==
  ASSUME TypeInv, Admits, NEW r \in Receipts,
         \/ ReverseWithoutJournal(r) \/ RecoverCreating(r) \/ RecordRecovered(r)
         \/ RecoverJournalizing(r) \/ ProcessMaintenanceRow(r)
  PROVE  Admits'
<1>1. CASE ReverseWithoutJournal(r)
  <2>1. run.at = "reverse" /\ r \in run.todo
    BY <1>1 DEF ReverseWithoutJournal, Takes
  <2>2. run.seen[r].sync \in NoJournalStates
    BY <2>1 DEF Admits, Chosen
  <2> DEFINE guard == IsCancelled(rows[r]) /\ rows[r].sync = run.seen[r].sync /\ rows[r].jid = None
             new == InState(r, "REVERSED", None)
             done == Done("reverse", r)
  <2>3. new.sync = "REVERSED"
    <3>1. "REVERSED" \in SyncStates /\ None \in Errs
      BY States
    <3>2. QED BY <3>1, InStateCells
  <2>4. guard => CanTransition(rows[r].sync, new.sync)
    BY <2>2, <2>3, Table
  <2>5. Chosen(done) /\ done.at # "import"
    BY <2>1, ChosenDone
  <2>6. WriteIfCurrent(r, guard, FALSE, new, done, done)
    BY <1>1 DEF ReverseWithoutJournal
  <2> HIDE DEF guard, new, done
  <2>7. QED BY <2>4, <2>5, <2>6, AdmitsWrite
<1>2. CASE RecoverCreating(r)
  <2>1. run'.at = "recovered"
    BY <1>2, ReadsTyped DEF RecoverCreating, Goes, Run
  <2>2. QED BY <2>1, ChosenSame, AdmitsGoes DEF Quiet
<1>3. CASE RecordRecovered(r)
  <2> DEFINE again == Move("again")
             a == Synced(r, run.id)
             b == InState(r, "UNKNOWN", None)
             ga == rows[r].sync \in {"CREATING", "UNKNOWN"}
             gb == rows[r].sync = "CREATING"
  <2>1. Chosen(again) /\ again.at # "import"
    BY ChosenMove
  <2>2. b.sync = "UNKNOWN"
    <3>1. "UNKNOWN" \in SyncStates /\ None \in Errs
      BY States
    <3>2. QED BY <3>1, InStateCells
  <2>3. gb => CanTransition(rows[r].sync, b.sync)
    BY <2>2, Table
  <2>4. WriteIfCurrent(r, ga, TRUE, a, again, again) \/ WriteIfCurrent(r, gb, FALSE, b, again, again) \/ Goes(again)
    BY <1>3 DEF RecordRecovered
  <2> HIDE DEF again, a, b, ga, gb
  <2>5. QED BY <2>1, <2>3, <2>4, AdmitsWrite, AdmitsGoes DEF Goes
<1>4. CASE RecoverJournalizing(r)
  <2>1. "trace" \in Places
    BY DEF Places
  <2> DEFINE d == Reads(r, "trace")
  <2>2. d \in Run /\ d.at = "trace" /\ run' = [d EXCEPT !.back = "again2"]
    BY <1>4, <2>1, ReadsType DEF RecoverJournalizing, Goes
  <2> HIDE DEF d
  <2>3. run'.at = "trace"
    BY <2>2 DEF Run
  <2>4. QED BY <2>3, ChosenSame, AdmitsGoes DEF Quiet
<1>5. CASE ProcessMaintenanceRow(r)
  <2> DEFINE id == IF Live(rows[r].jid) THEN rows[r].jid ELSE None
             im == [Reads(r, "import") EXCEPT !.id = id]
  <2> HIDE DEF id
  <2>1. /\ im.at = "import" /\ im.who = r /\ im.seen[r] = rows[r]
        /\ Reads(r, "cancel").at = "cancel" /\ Reads(r, "cancel").who = r /\ Reads(r, "cancel").seen[r] = rows[r]
        /\ Reads(r, "undo").at = "undo"
    <3>1. "import" \in Places /\ "cancel" \in Places /\ "undo" \in Places
      BY DEF Places
    <3>2. [Nothing EXCEPT ![r] = rows[r]][r] = rows[r]
      BY IdleType
    <3> DEFINE d == Reads(r, "import")
    <3>3. d \in Run /\ d.at = "import" /\ d.who = r /\ d.seen = [Nothing EXCEPT ![r] = rows[r]]
      BY <3>1, ReadsType
    <3> HIDE DEF d
    <3>4. [d EXCEPT !.id = id].at = "import" /\ [d EXCEPT !.id = id].who = r /\ [d EXCEPT !.id = id].seen[r] = rows[r]
      BY <3>2, <3>3 DEF Run
    <3>5. QED BY <3>1, <3>2, <3>4, ReadsType DEF d
  <2> HIDE DEF im
  <2>2. \/ Goes(Reads(r, "undo")) \/ (CancelledRowHasJournal(rows[r]) /\ Goes(Reads(r, "cancel")))
        \/ Goes(im) \/ Goes(Done("maintain", r))
    BY <1>5 DEF ProcessMaintenanceRow, im, id
  <2>3. CASE Goes(Reads(r, "undo"))
    BY <2>1, <2>3, ChosenSame, AdmitsGoes DEF Quiet, Goes
  <2>4. CASE CancelledRowHasJournal(rows[r]) /\ Goes(Reads(r, "cancel"))
    BY <2>1, <2>4, AdmitsGoes DEF Chosen, Goes
  <2>5. CASE Goes(im)
    BY <2>1, <2>5 DEF Chosen, Goes, Admits, ImportsUnknown
  <2>6. CASE Goes(Done("maintain", r))
    BY <2>6, ChosenDone, AdmitsGoes DEF Goes
  <2>7. QED BY <2>2, <2>3, <2>4, <2>5, <2>6
<1>6. QED BY <1>1, <1>2, <1>3, <1>4, <1>5

LEMMA AdmitsCancellation ==
  ASSUME TypeInv, Admits, NEW r \in Receipts, ImportRow(r) \/ CancelRow(r) \/ FinishReversal(r)
  PROVE  Admits'
<1> DEFINE done == Done("maintain", r)
<1>1. Chosen(done) /\ done.at # "import"
  BY ChosenDone
<1> HIDE DEF done
<1>2. CASE ImportRow(r)
  <2> DEFINE row   == run.seen[r]
             guard == rows[r].jid = row.jid /\ rows[r].sync \in ImportableStates
             old   == InState(r, "SYNCED", None)
             a     == [old EXCEPT !.input = SummarizeSyncInput(row)]
             st    == IF row.sync = "UNKNOWN" THEN rows[r].sync ELSE "NEEDS_REVIEW"
             b     == InState(r, st, row.jid)
  <2>1. WriteIfCurrent(r, guard, FALSE, IF run.id # None THEN a ELSE b, done, done)
    BY <1>2 DEF ImportRow, done
  <2>2. a.sync = "SYNCED"
    <3>1. "SYNCED" \in SyncStates /\ None \in Errs
      BY States
    <3>2. old \in Row /\ old.sync = "SYNCED"
      BY <3>1, InStateCells
    <3> HIDE DEF old
    <3>3. QED BY <3>2 DEF Row
  <2>3. b.sync = st
    <3>1. st \in SyncStates /\ row.jid \in Errs
      BY Parts, States DEF Errs
    <3>2. QED BY <3>1, InStateCells
  <2>4. rows[r].sync = "UNKNOWN" => row.sync = "UNKNOWN"
    BY <1>2 DEF ImportRow, At, Admits, ImportsUnknown
  <2>5. guard => CanTransition(rows[r].sync, a.sync) /\ CanTransition(rows[r].sync, b.sync)
    BY <2>2, <2>3, <2>4, Table DEF ImportableStates
  <2> HIDE DEF guard, a, b
  <2>6. QED BY <1>1, <2>1, <2>5, AdmitsWrite
<1>3. CASE CancelRow(r)
  <2> DEFINE current == IsCancelled(rows[r]) /\ rows[r].sync = run.seen[r].sync
             mark    == InState(r, "REVERSING", None)
             undo    == [Move("undo") EXCEPT !.seen[r] = mark]
             ga      == current /\ CancellationRoute(rows[r]) = "unknown"
             a       == InState(r, "NEEDS_REVIEW", RouteUnknown)
  <2>1. \/ WriteIfCurrent(r, ga, FALSE, a, done, done)
        \/ Goes(done)
        \/ WriteIfCurrent(r, current, FALSE, mark, undo, done)
    BY <1>3 DEF CancelRow, done
  <2>2. run.seen[r].sync \in NoJournalStates \cup {"SYNCED"}
    BY <1>3 DEF CancelRow, At, Admits, Chosen, CancelledRowHasJournal
  <2>3. a.sync = "NEEDS_REVIEW" /\ mark.sync = "REVERSING"
    <3>1. "NEEDS_REVIEW" \in SyncStates /\ "REVERSING" \in SyncStates /\ None \in Errs /\ RouteUnknown \in Errs
      BY States
    <3>2. QED BY <3>1, InStateCells
  <2>4. current => CanTransition(rows[r].sync, a.sync) /\ CanTransition(rows[r].sync, mark.sync)
    BY <2>2, <2>3, Table
  <2>5. ga => current
    OBVIOUS
  <2>6. Chosen(undo) /\ undo.at # "import"
    <3>1. undo.at = "undo"
      BY HandsAt
    <3>2. QED BY <3>1, ChosenSame DEF Quiet
  <2> HIDE DEF current, mark, undo, ga, a
  <2>7. QED BY <1>1, <2>1, <2>4, <2>5, <2>6, AdmitsWrite, AdmitsGoes DEF Goes
<1>4. CASE FinishReversal(r)
  <2>1. \/ \E err \in {None, RouteUnknown} : RowFails(r, err, done)
        \/ run' \in {Move("undone"), Move("refused"), Idle, done}
        \/ run'.at \in {"put", "fill"}
    <3> DEFINE row  == run.seen[r]
               plan == PlanLinkedCancellation(rows, row, r)
               with == [Move("put") EXCEPT !.seen = [rows EXCEPT ![r] = row], !.heir = plan.heir]
               fill == [with EXCEPT !.at = "fill"]
    <3> HIDE DEF plan
    <3>1. with.at = "put" /\ fill.at = "fill"
      BY ChosenMove DEF Run
    <3> HIDE DEF with, fill
    <3>2. CASE row.jid = None
      BY <1>4, <3>2 DEF FinishReversal, done
    <3>3. CASE row.jid # None /\ CancellationRoute(row) = "unknown"
      BY <1>4, <3>3 DEF FinishReversal, done
    <3>4. CASE row.jid # None /\ CancellationRoute(row) = "delete"
      BY <1>4, <3>4 DEF FinishReversal, CallsMf, Goes
    <3>5. CASE row.jid # None /\ CancellationRoute(row) = "put"
      <4>1. Goes(CASE plan.kind = "wait" -> done
                   [] plan.kind = "done" -> fill
                   [] OTHER -> IF Live(row.jid) THEN with ELSE Move("undone"))
        BY <1>4, <3>5 DEF FinishReversal, done, with, fill, plan
      <4>2. QED BY <3>1, <4>1 DEF Goes
    <3>6. QED BY <3>2, <3>3, <3>4, <3>5, Routes
  <2>2. ASSUME NEW err \in {None, RouteUnknown}, RowFails(r, err, done)
        PROVE  Admits'
    <3> DEFINE guard == rows[r].sync = "REVERSING"
               new   == InState(r, "ERROR", err)
    <3>1. new.sync = "ERROR"
      <4>1. err \in Errs /\ "ERROR" \in SyncStates
        BY States
      <4>2. QED BY <4>1, InStateCells
    <3>2. guard => CanTransition(rows[r].sync, new.sync)
      BY <3>1, Table
    <3>3. WriteIfCurrent(r, guard, FALSE, new, done, done)
      BY <2>2 DEF RowFails
    <3> HIDE DEF guard, new
    <3>4. QED BY <1>1, <3>2, <3>3, AdmitsWrite
  <2>3. CASE run' \in {Move("undone"), Move("refused"), Idle, done}
    <3>1. Chosen(Idle) /\ Idle.at # "import"
      BY QuietChosen DEF Idle, Quiet
    <3>2. QED BY <1>1, <2>3, <3>1, ChosenMove, AdmitsGoes
  <2>4. CASE run'.at \in {"put", "fill"}
    BY <2>4, ChosenSame, AdmitsGoes DEF Quiet
  <2>5. QED BY <2>1, <2>2, <2>3, <2>4
<1>5. QED BY <1>2, <1>3, <1>4

\* A step to a place of which nothing is said.
LEMMA AdmitsAt ==
  ASSUME run'.at \notin Quiet
  PROVE  Admits'
BY QuietChosen, AdmitsGoes DEF Quiet

LEMMA AdmitsHandOver ==
  ASSUME TypeInv, Admits, NEW r \in Receipts,
         PutJournal(r) \/ Inherit(r) \/ FillHeir(r) \/ RecordReversed(r)
  PROVE  Admits'
<1> DEFINE done == Done("maintain", r)
           undone == Move("undone")
<1>1. Chosen(done) /\ done.at # "import" /\ Chosen(undone) /\ undone.at # "import"
      /\ Idle.at \notin Quiet
  BY ChosenDone, ChosenMove DEF Quiet, Idle
<1> HIDE DEF done, undone
<1>2. CASE PutJournal(r)
  <2>1. run' \in {Move("undone"), Move("refused"), Move("inherit"), Idle}
    BY <1>2 DEF PutJournal, CallsMf
  <2>2. run'.at \notin Quiet
    BY <1>1, <2>1, ChosenMove
  <2>3. QED BY <2>2, AdmitsAt
<1>3. CASE Inherit(r)
  <2>1. PICK guard, new : WriteIfCurrent(run.heir, guard, TRUE, new, undone, done)
    BY <1>3 DEF Inherit, undone, done
  <2>2. QED BY <1>1, <2>1, AdmitsWrite
<1>4. CASE FillHeir(r)
  <2> DEFINE h   == run.heir
             guard == /\ rows[h].jid = run.seen[r].jid /\ rows[h].sync = "SYNCED"
                      /\ ~HasInputChanged(rows[h])
             new == [rows[h] EXCEPT !.tx = run.seen[r].tx,
                                    !.input = SummaryWithTx(run.seen[h], run.seen[r].tx)]
  <2>1. h \in Receipts
    BY <1>4 DEF TypeInv, TypeOK, Run, HandsOf, FillHeir, At
  <2>2. new.sync = rows[h].sync
    BY <2>1, Parts DEF Row
  <2>3. CanTransition(rows[h].sync, new.sync)
    BY <2>2, Table
  <2>4. WriteIfCurrent(h, guard, FALSE, new, undone, undone) \/ Goes(undone)
    BY <1>4 DEF FillHeir, undone
  <2> HIDE DEF h, guard, new
  <2>5. QED BY <1>1, <2>3, <2>4, AdmitsWrite, AdmitsGoes DEF Goes
<1>5. CASE RecordReversed(r)
  <2>1. PICK state \in {"REVERSED", "ERROR"} :
          WriteIfCurrent(r, rows[r].sync = "REVERSING", FALSE, InState(r, state, None), done, done)
    BY <1>5 DEF RecordReversed, RowFails, done
  <2> DEFINE new == InState(r, state, None)
             guard == rows[r].sync = "REVERSING"
  <2>2. new.sync = state
    <3>1. state \in SyncStates /\ None \in Errs
      BY States
    <3>2. QED BY <3>1, InStateCells
  <2>3. guard => CanTransition(rows[r].sync, new.sync)
    BY <2>2, Table
  <2> HIDE DEF new, guard
  <2>4. WriteIfCurrent(r, guard, FALSE, new, done, done)
    BY <2>1 DEF new, guard
  <2>5. QED BY <1>1, <2>3, <2>4, AdmitsWrite
<1>6. QED BY <1>2, <1>3, <1>4, <1>5

\* A row goes from one state to another.
LEMMA AdmitsMark ==
  ASSUME TypeInv, Admits, NEW r \in Receipts, NEW guard, NEW state \in SyncStates, NEW yes, NEW no,
         guard => CanTransition(rows[r].sync, state), Chosen(yes), yes.at # "import",
         Chosen(no), no.at # "import",
         WriteIfCurrent(r, guard, FALSE, InState(r, state, None), yes, no)
  PROVE  Admits'
<1> DEFINE new == InState(r, state, None)
<1>1. new.sync = state
  <2>1. None \in Errs
    BY States
  <2>2. QED BY <2>1, InStateCells
<1> HIDE DEF new
<1>2. WriteIfCurrent(r, guard, FALSE, new, yes, no)
  BY DEF new
<1>3. QED BY <1>1, <1>2, AdmitsWrite

LEMMA AdmitsNewRows ==
  ASSUME TypeInv, Admits, NEW r \in Receipts,
         DetectChange(r) \/ Classify(r) \/ HoldRuleConflict(r) \/ RecordRefused(r)
  PROVE  Admits'
<1>1. /\ {"NEEDS_REVIEW", "ERROR"} \subseteq SyncStates
      /\ NoJournalStates \cup {"SYNCED"} = {"", "PENDING", "WAITING_TRANSACTION", "NEEDS_REVIEW", "SYNCED"}
  BY States DEF NoJournalStates
<1>2. CASE DetectChange(r)
  <2> DEFINE guard == rows[r].sync = "SYNCED" /\ HasInputChanged(rows[r])
             done == Done("detect", r)
  <2>1. Chosen(done) /\ done.at # "import"
    BY ChosenDone
  <2>2. guard => CanTransition(rows[r].sync, "NEEDS_REVIEW")
    BY <1>1, Table
  <2>3. WriteIfCurrent(r, guard, FALSE, InState(r, "NEEDS_REVIEW", None), done, done)
    BY <1>2 DEF DetectChange
  <2> HIDE DEF guard, done
  <2>4. QED BY <1>1, <2>1, <2>2, <2>3, AdmitsMark
<1>3. CASE Classify(r)
  <2> DEFINE guard == rows[r].sync = run.seen[r].sync /\ rows[r].jid = None
             state == InitialStateFor(run.seen[r])
             done  == Done("classify", r)
  <2>1. run.at = "classify" /\ r \in run.todo
    BY <1>3 DEF Classify, Takes
  <2>2. Chosen(done) /\ done.at # "import"
    BY <2>1, ChosenDone
  <2>3. guard => CanTransition(rows[r].sync, state)
    BY <2>1 DEF Admits, Chosen
  <2>4. WriteIfCurrent(r, guard, FALSE, InState(r, state, None), done, done)
    BY <1>3 DEF Classify
  <2>5. state \in SyncStates
    BY InitialStateType, Parts DEF Row
  <2> HIDE DEF guard, done, state
  <2>6. QED BY <2>2, <2>3, <2>4, <2>5, AdmitsMark
<1>4. CASE HoldRuleConflict(r)
  <2> DEFINE guard == rows[r].sync = "WAITING_TRANSACTION" /\ rows[r].jid = None
             done == Done("rules", r)
  <2>1. Chosen(done) /\ done.at # "import"
    BY ChosenDone
  <2>2. guard => CanTransition(rows[r].sync, "NEEDS_REVIEW")
    BY <1>1, Table
  <2>3. WriteIfCurrent(r, guard, FALSE, InState(r, "NEEDS_REVIEW", None), done, done)
    BY <1>4 DEF HoldRuleConflict
  <2> HIDE DEF guard, done
  <2>4. QED BY <1>1, <2>1, <2>2, <2>3, AdmitsMark
<1>5. CASE RecordRefused(r)
  <2> DEFINE guard == rows[r].sync = "CREATING"
             done == Done("create", r)
             new == [rows[r] EXCEPT !.sync = "PENDING"]
  <2>1. Chosen(done) /\ done.at # "import" /\ Chosen(Idle) /\ Idle.at # "import"
    BY ChosenDone, QuietChosen DEF Idle, Quiet
  <2>2. guard => CanTransition(rows[r].sync, "ERROR") /\ CanTransition(rows[r].sync, "PENDING")
    BY Table
  <2>3. new.sync = "PENDING"
    BY Parts DEF Row
  <2>4. \/ WriteIfCurrent(r, guard, FALSE, InState(r, "ERROR", None), done, done)
        \/ WriteIfCurrent(r, guard, FALSE, new, Idle, Idle)
    BY <1>5 DEF RecordRefused
  <2> HIDE DEF guard, done, new
  <2>5. QED BY <1>1, <2>1, <2>2, <2>3, <2>4, AdmitsMark, AdmitsWrite
<1>6. QED BY <1>2, <1>3, <1>4, <1>5

LEMMA AdmitsCreation ==
  ASSUME TypeInv, Admits, NEW r \in Receipts,
         SearchFirst(r) \/ Adopt(r) \/ MarkCreating(r) \/ PostJournal(r)
  PROVE  Admits'
<1> DEFINE done == Done("create", r)
<1>1. Chosen(done) /\ done.at # "import" /\ done.at = "create"
  BY ChosenDone DEF Done, Idle
<1> HIDE DEF done
<1>2. CASE SearchFirst(r)
  <2>1. run'.at \in {"mark", "adopt"}
    <3>1. [Move("mark") EXCEPT !.who = r].at = "mark"
      BY HandsAt
    <3>2. \A i : [Move("adopt") EXCEPT !.who = r, !.id = i].at = "adopt"
      BY HandsAt
    <3>3. QED BY <1>2, <3>1, <3>2 DEF SearchFirst, Goes
  <2>2. QED BY <2>1, AdmitsAt DEF Quiet
<1>3. CASE Adopt(r)
  <2>1. PICK guard, new : WriteIfCurrent(r, guard, TRUE, new, done, done)
    BY <1>3 DEF Adopt, done
  <2>2. QED BY <1>1, <2>1, AdmitsWrite
<1>4. CASE MarkCreating(r)
  <2> DEFINE cre  == InState(r, "CREATING", None)
             mark == [cre EXCEPT !.aged = FALSE, !.input = SummarizeSyncInput(run.seen[r])]
             post == [Move("post") EXCEPT !.seen[r] = mark]
             guard == /\ rows[r].sync = "PENDING" /\ rows[r].exp = "COMPLETED" /\ rows[r].jid = None
                      /\ DecideSyncTarget(rows[r]) = "ready" /\ rows[r].method = "cash"
                      /\ SummarizeSyncInput(rows[r]) = SummarizeSyncInput(run.seen[r])
  <2>1. WriteIfCurrent(r, guard, FALSE, mark, post, done)
    BY <1>4 DEF MarkCreating, done
  <2>2. mark.sync = "CREATING"
    <3>1. "CREATING" \in SyncStates /\ None \in Errs
      BY States
    <3>2. cre \in Row /\ cre.sync = "CREATING"
      BY <3>1, InStateCells
    <3> HIDE DEF cre
    <3>3. QED BY <3>2 DEF Row
  <2>3. guard => CanTransition(rows[r].sync, mark.sync)
    BY <2>2, Table
  <2>4. post.at = "post"
    BY HandsAt
  <2>5. Chosen(post) /\ post.at # "import"
    BY <2>4, ChosenSame DEF Quiet
  <2> HIDE DEF mark, post, guard
  <2>6. QED BY <1>1, <2>1, <2>3, <2>5, AdmitsWrite
<1>5. CASE PostJournal(r)
  <2>1. ASSUME NEW i, GivesUp(i, EntryFor(r, run.seen[r]), done)
        PROVE  run'.at = "create"
    <3>1. run' = [done EXCEPT !.halted = TRUE]
      BY <2>1 DEF GivesUp
    <3>2. done \in Run
      BY DoneTyped DEF done
    <3>3. QED BY <1>1, <3>1, <3>2 DEF Run
  <2>2. run'.at \in {"entered", "create", "rejected", "limited"}
    <3>1. \A i : [Move("entered") EXCEPT !.id = i, !.back = "create"].at = "entered"
      BY HandsAt
    <3>2. Move("rejected").at = "rejected" /\ Move("limited").at = "limited"
      BY ChosenMove
    <3>3. QED BY <1>5, <2>1, <3>1, <3>2 DEF PostJournal, Goes, done
  <2>3. QED BY <2>2, AdmitsAt DEF Quiet
<1>6. QED BY <1>2, <1>3, <1>4, <1>5

LEMMA AdmitsStart ==
  ASSUME TypeInv, Admits, NEW r \in Receipts, NEW t \in Txs, NEW auto \in BOOLEAN,
         run.at \in {"human", "match"}, StartJournalize(r, t, auto)
  PROVE  Admits'
<1> DEFINE mark == Claimed(r, t)
           send == [Move("send") EXCEPT !.who = r, !.seen[r] = mark, !.back = run.at]
           done == Done(run.at, r)
           guard == /\ rows[r].sync = run.seen[r].sync /\ rows[r].exp = "COMPLETED"
                    /\ rows[r].jid = None /\ CanTransition(rows[r].sync, "JOURNALIZING")
                    /\ DecideSyncTarget(rows[r]) = "ready" /\ rows[r].method = run.seen[r].method
                    /\ rows[r].tx \in {None, t}
                    /\ SummaryWithTx(rows[r], t) = SummaryWithTx(run.seen[r], t)
                    /\ t \notin UsedTransactions(rows, r)
                    /\ (auto => Matched(rows, LineOf, run.pool, r) = {t})
<1>1. WriteIfCurrent(r, guard, FALSE, mark, send, done)
  BY DEF StartJournalize
<1>2. mark.sync = "JOURNALIZING"
  BY ClaimedCells
<1>3. guard => CanTransition(rows[r].sync, mark.sync)
  BY <1>2
<1>4. send.at = "send"
  BY HandsAt
<1>5. Chosen(send) /\ send.at # "import" /\ Chosen(done) /\ done.at # "import"
  BY <1>4, ChosenSame, ChosenDone DEF Quiet
<1> HIDE DEF mark, send, done, guard
<1>6. QED BY <1>1, <1>3, <1>5, AdmitsWrite

LEMMA AdmitsLines ==
  ASSUME TypeInv, Admits, NEW r \in Receipts,
         HumanTransaction(r) \/ MatchOutcome(r) \/ SendJournalize(r) \/ TraceEntry(r)
  PROVE  Admits'
<1>1. CASE HumanTransaction(r)
  <2> DEFINE t == run.seen[r].tx
             new == [rows[r] EXCEPT !.err = None]
             guard == rows[r].sync = "NEEDS_REVIEW" /\ rows[r].tx = t
             done == Done("human", r)
  <2>1. CASE t \in run.pool /\ StartJournalize(r, t, FALSE)
    <3>1. t \in Txs
      BY <2>1 DEF TypeInv, TypeOK, Run
    <3>2. run.at = "human"
      BY <1>1 DEF HumanTransaction, Takes
    <3>3. QED BY <2>1, <3>1, <3>2, AdmitsStart
  <2>2. CASE WriteIfCurrent(r, guard, FALSE, new, done, done)
    <3>1. new.sync = rows[r].sync
      BY Parts DEF Row
    <3>2. CanTransition(rows[r].sync, new.sync)
      BY <3>1, Table
    <3>3. Chosen(done) /\ done.at # "import"
      BY ChosenDone
    <3> HIDE DEF new, guard, done
    <3>4. QED BY <2>2, <3>2, <3>3, AdmitsWrite
  <2>3. QED BY <1>1, <2>1, <2>2 DEF HumanTransaction
<1>2. CASE MatchOutcome(r)
  <2> DEFINE done == Done("match", r)
             guard == rows[r].sync = "WAITING_TRANSACTION" /\ rows[r].jid = None
  <2>1. Chosen(done) /\ done.at # "import" /\ run.at = "match"
    BY <1>2, ChosenDone DEF MatchOutcome, Takes
  <2>2. ASSUME NEW t \in Matched(run.seen, LineOf, run.pool, r), StartJournalize(r, t, TRUE)
        PROVE  Admits'
    <3>1. t \in Txs
      BY MatchedType DEF TypeInv, TypeOK, Run
    <3>2. QED BY <2>1, <2>2, <3>1, AdmitsStart
  <2>3. CASE Goes(done)
    BY <2>1, <2>3, AdmitsGoes DEF Goes
  <2>4. CASE WriteIfCurrent(r, guard, FALSE, InState(r, "NEEDS_REVIEW", None), done, done)
    <3>1. "NEEDS_REVIEW" \in SyncStates
      BY States
    <3>2. guard => CanTransition(rows[r].sync, "NEEDS_REVIEW")
      BY Table DEF NoJournalStates
    <3> HIDE DEF guard, done
    <3>3. QED BY <2>1, <2>4, <3>1, <3>2, AdmitsMark
  <2>5. QED BY <1>2, <2>2, <2>3, <2>4 DEF MatchOutcome
<1>3. CASE SendJournalize(r)
  <2>1. run.back # None
    BY <1>3 DEF SendJournalize, At, TypeInv, HandsOf
  <2> DEFINE back == Back(r)
  <2>2. back \in Run /\ back.at \notin Quiet
    <3>1. run.back \in {"again2", "create", "human", "match"}
      BY <2>1 DEF TypeInv, TypeOK, Run
    <3>2. back.at = run.back
      BY <3>1, ChosenMove DEF Back, Done, Idle
    <3>3. QED BY <2>1, <3>1, <3>2, BackTyped DEF Quiet
  <2> HIDE DEF back
  <2>3. ASSUME NEW i, NEW e, GivesUp(i, e, back)
        PROVE  run'.at \notin Quiet
    <3>1. run' = [back EXCEPT !.halted = TRUE]
      BY <2>3 DEF GivesUp
    <3>2. QED BY <2>2, <3>1 DEF Run
  <2>4. run'.at \notin Quiet
    <3>1. \A i : [Move("entered") EXCEPT !.id = i].at = "entered"
      BY HandsAt
    <3>2. [Move("trace") EXCEPT !.rejected = TRUE].at = "trace"
      BY HandsAt
    <3>3. "entered" \notin Quiet /\ "trace" \notin Quiet
      BY DEF Quiet
    <3>4. \/ \E i : run' = [Move("entered") EXCEPT !.id = i]
          \/ \E i, e : GivesUp(i, e, back)
          \/ run' = [Move("trace") EXCEPT !.rejected = TRUE]
      BY <1>3 DEF SendJournalize, Goes, back
    <3>5. QED BY <2>3, <3>1, <3>2, <3>3, <3>4
  <2>5. QED BY <2>4, AdmitsAt
<1>4. CASE TraceEntry(r)
  <2>1. run'.at = "traced"
    BY <1>4, HandsAt DEF TraceEntry, Goes
  <2>2. QED BY <2>1, AdmitsAt DEF Quiet
<1>5. QED BY <1>1, <1>2, <1>3, <1>4

LEMMA AdmitsEntered ==
  ASSUME TypeInv, Admits, NEW r \in Receipts,
         RecordEntered(r) \/ RecordTraced(r) \/ RecordLined(r)
  PROVE  Admits'
<1> DEFINE back == Back(r)
<1>1. run.back # None
  BY DEF RecordEntered, RecordTraced, RecordLined, At, TypeInv, HandsOf
<1>2. Chosen(back) /\ back.at # "import"
  BY <1>1, ChosenBack
<1> HIDE DEF back
<1>3. CASE RecordEntered(r) \/ (RecordTraced(r) /\ run.id # None)
  <2>1. PICK guard, new : WriteIfCurrent(r, guard, TRUE, new, back, back)
    BY <1>3 DEF RecordEntered, RecordTraced, back
  <2>2. QED BY <1>2, <2>1, AdmitsWrite
<1>4. CASE RecordTraced(r) /\ run.id = None
  <2>1. Goes(back) \/ \E l : Goes([Move("lined") EXCEPT !.line = l])
    BY <1>4, TracedWays DEF back
  <2>2. CASE Goes(back)
    BY <1>2, <2>2, AdmitsGoes DEF Goes
  <2>3. CASE \E l : Goes([Move("lined") EXCEPT !.line = l])
    <3>1. run'.at = "lined"
      BY <2>3, HandsAt DEF Goes
    <3>2. QED BY <3>1, AdmitsAt DEF Quiet
  <2>4. QED BY <2>1, <2>2, <2>3
<1>5. CASE RecordLined(r)
  <2> DEFINE guard == rows[r].sync = "JOURNALIZING"
             new   == [rows[r] EXCEPT !.aged = FALSE]
             send  == [Move("send") EXCEPT !.seen[r] = rows[r]]
  <2>1. \/ WriteIfCurrent(r, guard, FALSE, InState(r, "NEEDS_REVIEW", None), back, back)
        \/ WriteIfCurrent(r, guard, FALSE, InState(r, "ERROR", None), back, back)
        \/ Goes(back)
        \/ WriteIfCurrent(r, guard, FALSE, new, send, back)
    <3>1. CASE run.line # "none"
      BY <1>5, <3>1 DEF RecordLined, back
    <3>2. CASE run.line = "none" /\ run.rejected
      BY <1>5, <3>2 DEF RecordLined, back
    <3>3. CASE run.line = "none" /\ ~run.rejected
      BY <1>5, <3>3 DEF RecordLined, back
    <3>4. QED BY <3>1, <3>2, <3>3
  <2>2. /\ guard => CanTransition(rows[r].sync, "NEEDS_REVIEW")
        /\ guard => CanTransition(rows[r].sync, "ERROR")
        /\ "NEEDS_REVIEW" \in SyncStates /\ "ERROR" \in SyncStates
    BY Table, States
  <2>3. CanTransition(rows[r].sync, new.sync)
    <3>1. new.sync = rows[r].sync
      BY Parts DEF Row
    <3>2. QED BY <3>1, Table
  <2>4. Chosen(send) /\ send.at # "import"
    <3>1. send.at = "send"
      BY HandsAt
    <3>2. QED BY <3>1, ChosenSame DEF Quiet
  <2> HIDE DEF guard, new, send
  <2>5. QED BY <1>2, <2>1, <2>2, <2>3, <2>4, AdmitsMark, AdmitsWrite, AdmitsGoes DEF Goes
<1>6. QED BY <1>3, <1>4, <1>5

LEMMA AdmitsRules ==
  ASSUME TypeInv, Admits, NEW t \in Txs, JournalizeByRule(t)
  PROVE  Admits'
<1>1. run'.at = "rules"
  BY DEF JournalizeByRule, GivesUp, Goes, TypeInv, TypeOK, Run
<1>2. QED BY <1>1, AdmitsAt DEF Quiet

LEMMA AdmitsStep == TypeInv /\ Admits /\ [Next]_vars => Admits'
<1> SUFFICES ASSUME TypeInv, Admits, [Next]_vars PROVE Admits'
  OBVIOUS
<1>1. CASE UNCHANGED vars
  BY <1>1 DEF vars, Admits, Chosen, ImportsUnknown
<1>2. CASE World
  BY <1>2, AdmitsWorld
<1>3. CASE RunEnds \/ OutOfBudget
  BY <1>3, AdmitsPhases
<1>4. CASE RunSync
  <2>1. CASE SyncExpenses \/ EndOfPhase
    BY <2>1, AdmitsPhases
  <2>2. ASSUME NEW t \in Txs, JournalizeByRule(t) PROVE Admits'
    BY <2>2, AdmitsRules
  <2>3. ASSUME NEW r \in Receipts,
               \/ ReverseWithoutJournal(r) \/ RecoverCreating(r) \/ RecordRecovered(r)
               \/ RecoverJournalizing(r) \/ ProcessMaintenanceRow(r) \/ ImportRow(r) \/ CancelRow(r)
               \/ FinishReversal(r) \/ PutJournal(r) \/ Inherit(r) \/ FillHeir(r) \/ RecordReversed(r)
        PROVE  Admits'
    BY <2>3, AdmitsRecovery, AdmitsCancellation, AdmitsHandOver
  <2>4. ASSUME NEW r \in Receipts,
               \/ DetectChange(r) \/ Classify(r)
               \/ SearchFirst(r) \/ Adopt(r) \/ MarkCreating(r) \/ PostJournal(r) \/ RecordRefused(r)
               \/ RecordEntered(r) \/ HoldRuleConflict(r) \/ HumanTransaction(r) \/ MatchOutcome(r)
               \/ SendJournalize(r) \/ TraceEntry(r) \/ RecordTraced(r) \/ RecordLined(r)
        PROVE  Admits'
    BY <2>4, AdmitsNewRows, AdmitsCreation, AdmitsLines, AdmitsEntered
  <2>5. QED BY <1>4, <2>1, <2>2, <2>3, <2>4 DEF RunSync
<1>5. QED BY <1>1, <1>2, <1>3, <1>4 DEF Next

\* No guarded write asks the state table for a step it does not have, whatever the operator
\* and the other writers did to the row since it was read (assertTransition in writeIfCurrent).
THEOREM WritesAdmitted == Spec => []TableAdmitsEveryWrite
<1>1. Init => Admits
  BY QuietChosen DEF Init, Idle, Quiet, Admits, ImportsUnknown
<1>2. TypeInv /\ Admits => TableAdmitsEveryWrite
  BY DEF Admits, Chosen, TableAdmitsEveryWrite
<1>3. QED BY TypeInit, TypeStep, AdmitsStep, <1>1, <1>2, PTL DEF Spec

-----------------------------------------------------------------------------
(* A cash expense is entered once.                                         *)

\* Creations that may still take effect.
Pending(r) == {q \in sent : q.id \in Ids /\ q.entry.of = r}

\* An id that a row or the execution knows is of an entry whose maker knows its own.
Owned(j) ==
  j \in Ids => /\ entries[j].tag # None
              /\ \A r \in Receipts : entries[j].of = r => rows[r].jid # None

\* A creation that MF has not decided has its id for itself.
Reserved ==
  \A q \in sent : q.id \in Ids =>
    /\ entries[q.id] = NoEntry /\ q.entry.of = q.entry.tag /\ q.entry.tag # None
    /\ \A p \in sent : p.id = q.id => p = q

\* An entry whose maker does not know it yet still carries the maker's tag ...
Tagged ==
  \A i \in Ids, r \in Receipts : entries[i].of = r /\ rows[r].jid = None => entries[i].tag = r

\* ... and is found again by it: the row says CREATING and the day that was sent.
Awaited ==
  \A r \in Receipts : rows[r].jid = None /\ Made(r) # {} =>
    /\ rows[r].sync = "CREATING"
    /\ \A i \in Ids : entries[i].of = r => entries[i].day = rows[r].input.day
    /\ \A q \in Pending(r) : q.entry.day = rows[r].input.day

Single == \A r \in Receipts : \A i, j \in Made(r) : i = j

\* A day after the attempt nothing is under way.
Overdue == \A r \in Receipts : rows[r].sync = "CREATING" /\ rows[r].aged => Pending(r) = {}

Unregistered == \A r \in Receipts : rows[r].exp = None => rows[r].sync = None /\ rows[r].jid = None

BooksInv ==
  /\ Reserved /\ Tagged /\ Awaited /\ Single /\ Overdue /\ Unregistered
  /\ \A r \in Receipts : Owned(rows[r].jid)

\* What an execution s knows: of the ids it read or found, and of its row where it is about to
\* send a creation, has been refused one, or has looked for one in vain.
Knows(s) ==
  /\ \A r \in Receipts : Owned(s.seen[r].jid)
  /\ s.id \in Ids => entries[s.id].tag # None /\ (Owned(s.id) \/ entries[s.id].of = s.who)
  /\ \A r \in Receipts : r \in s.todo \/ r = s.who => rows[r].exp # None
  /\ s.at \in {"adopt", "entered"} => s.id # None
  /\ s.at \in {"put", "inherit", "fill"} => s.seen[s.who].jid # None
AboutToPost(s) ==
  s.at = "post" /\ s.who \in Receipts =>
    /\ rows[s.who].sync = "CREATING" /\ rows[s.who].jid = None /\ ~rows[s.who].aged
    /\ Made(s.who) = {} /\ s.seen[s.who].day = rows[s.who].input.day
InVain(s) ==
  /\ s.at \in {"rejected", "limited"} /\ s.who \in Receipts => Made(s.who) = {}
  /\ (/\ s.at = "recovered" /\ s.who \in Receipts /\ s.id = None
      /\ s.seen[s.who].sync = "CREATING" /\ s.seen[s.who].aged /\ rows[s.who].jid = None)
     => Made(s.who) = {}
RunInv(s) == Knows(s) /\ AboutToPost(s) /\ InVain(s)

OnceInv == BooksInv /\ RunInv(run)

\* What others may do to an entry: make it in an id that is free, though for no receipt; and
\* of one that is there change all but its tag and day, or let it stand for others once the
\* one it was made for knows it.
Alters(i) ==
  LET old == entries[i]
      new == entries'[i]
  IN  /\ new.tag # None
      /\ \/ Fresh(i) /\ new.of \notin Receipts
         \/ old.tag # None /\ new.of \notin Receipts
         \/ /\ old.tag # None /\ new.of = old.of
            /\ \/ new.tag = old.tag /\ new.day = old.day
               \/ \A r \in Receipts : old.of = r => rows[r].jid # None

\* What a write may do to a row r.
Rewrites(r, new) ==
  /\ new.exp = None => rows[r].exp = None /\ new.sync = None /\ new.jid = None
  /\ new.jid = None => rows[r].jid = None
  /\ new.jid \in Ids =>
       /\ entries'[new.jid].tag # None
       /\ \A s \in Receipts : entries'[new.jid].of = s => s = r \/ rows[s].jid # None
  /\ new.jid = None =>
       \/ Made(r) = {}
       \/ rows[r].sync = "CREATING" /\ new.sync = "CREATING" /\ new.input = rows[r].input
  /\ new.sync = "CREATING" /\ new.aged => Pending(r) = {}

\* What is never taken back.
Grows ==
  /\ \A i \in Ids : entries[i].tag # None =>
        /\ entries'[i].tag # None
        /\ \A r \in Receipts : entries'[i].of = r => entries[i].of = r
  /\ \A r \in Receipts : rows[r].jid # None => rows'[r].jid # None
  /\ \A r \in Receipts : rows[r].exp # None => rows'[r].exp # None

\* Nothing more has been made.
NoMore == \A r \in Receipts : Made(r)' \subseteq Made(r) /\ Pending(r)' \subseteq Pending(r)

LEMMA OwnedGrows ==
  ASSUME Grows, NEW j, Owned(j)
  PROVE  Owned(j)'
BY DEF Grows, Owned

LEMMA MadeIs ==
  ASSUME NEW r \in Receipts
  PROVE  /\ \A i : i \in Made(r) <=> \/ i \in Ids /\ entries[i].of = r
                                  \/ \E q \in Pending(r) : i = q.id
         /\ Pending(r) # {} => Made(r) # {}
BY DEF Made, Pending

\* A step that makes nothing for a receipt keeps the books.
LEMMA BooksStep ==
  ASSUME TypeInv, BooksInv,
         \A i \in Ids : entries'[i] = entries[i] \/ Alters(i),
         \A q \in sent' : q \in sent \/ q.id \notin Ids,
         \A r \in Receipts : rows'[r] = rows[r] \/ Rewrites(r, rows'[r])
  PROVE  BooksInv' /\ Grows /\ NoMore
<1> USE DEF BooksInv
<1>1. Grows
  <2>1. ASSUME NEW i \in Ids, entries[i].tag # None
        PROVE  entries'[i].tag # None /\ \A r \in Receipts : entries'[i].of = r => entries[i].of = r
    <3>1. ~Fresh(i)
      BY <2>1 DEF Fresh, NoEntry
    <3>2. QED BY <2>1, <3>1 DEF Alters
  <2>2. ASSUME NEW r \in Receipts
        PROVE  /\ rows[r].jid # None => rows'[r].jid # None
               /\ rows[r].exp # None => rows'[r].exp # None
    BY DEF Rewrites
  <2>3. QED BY <2>1, <2>2 DEF Grows
\* What is made for a receipt was made for it before.
<1>2. ASSUME NEW i \in Ids, NEW r \in Receipts, entries'[i].of = r
      PROVE  /\ entries[i].of = r
             /\ rows[r].jid = None => entries'[i].tag = entries[i].tag /\ entries'[i].day = entries[i].day
  BY <1>2 DEF Alters
<1>3. ASSUME NEW r \in Receipts
      PROVE  Pending(r)' \subseteq Pending(r)
  BY DEF Pending
<1>4. ASSUME NEW r \in Receipts
      PROVE  Made(r)' \subseteq Made(r)
  <2>1. ASSUME NEW i \in Made(r)'
        PROVE  i \in Made(r)
    <3>1. CASE i \in Ids /\ entries'[i].of = r
      BY <1>2, <3>1 DEF Made
    <3>2. CASE \E q \in sent' : q.id \in Ids /\ q.entry.of = r /\ i = q.id
      BY <3>2 DEF Made
    <3>3. QED BY <2>1, <3>1, <3>2 DEF Made
  <2>2. QED BY <2>1
<1>5. NoMore
  BY <1>3, <1>4 DEF NoMore
<1>6. Reserved'
  <2>1. ASSUME NEW q \in sent', q.id \in Ids
        PROVE  /\ entries'[q.id] = NoEntry /\ q.entry.of = q.entry.tag /\ q.entry.tag # None
               /\ \A p \in sent' : p.id = q.id => p = q
    <3>1. q \in sent /\ entries[q.id] = NoEntry
      BY <2>1 DEF Reserved
    <3>2. ~Fresh(q.id) /\ entries[q.id].tag = None
      BY <3>1 DEF Fresh, NoEntry
    <3>3. entries'[q.id] = entries[q.id]
      BY <2>1, <3>2 DEF Alters
    <3>4. QED BY <2>1, <3>1, <3>3 DEF Reserved
  <2>2. QED BY <2>1 DEF Reserved
<1>7. Tagged'
  <2>1. ASSUME NEW i \in Ids, NEW r \in Receipts, entries'[i].of = r, rows'[r].jid = None
        PROVE  entries'[i].tag = r
    <3>1. rows[r].jid = None
      BY <1>1, <2>1 DEF Grows
    <3>2. QED BY <1>2, <2>1, <3>1 DEF Tagged
  <2>2. QED BY <2>1 DEF Tagged
<1>8. Awaited'
  <2>1. ASSUME NEW r \in Receipts, rows'[r].jid = None, Made(r)' # {}
        PROVE  /\ rows'[r].sync = "CREATING"
               /\ \A i \in Ids : entries'[i].of = r => entries'[i].day = rows'[r].input.day
               /\ \A q \in Pending(r)' : q.entry.day = rows'[r].input.day
    <3>1. rows[r].jid = None /\ Made(r) # {}
      BY <1>1, <1>4, <2>1 DEF Grows
    <3>2. rows[r].sync = "CREATING" /\ rows'[r].sync = "CREATING" /\ rows'[r].input = rows[r].input
      BY <2>1, <3>1 DEF Rewrites, Awaited
    <3>3. \A i \in Ids : entries[i].of = r => entries[i].day = rows[r].input.day
      BY <3>1 DEF Awaited
    <3>4. \A q \in Pending(r) : q.entry.day = rows[r].input.day
      BY <3>1 DEF Awaited
    <3>5. \A q \in Pending(r)' : q.entry.day = rows'[r].input.day
      BY <1>3, <3>2, <3>4
    <3>6. \A i \in Ids : entries'[i].of = r => entries'[i].day = rows'[r].input.day
      BY <1>2, <3>1, <3>2, <3>3
    <3>7. QED BY <3>2, <3>5, <3>6
  <2>2. QED BY <2>1 DEF Awaited
<1>9. Single'
  BY <1>4 DEF Single
<1>10. Overdue'
  <2>1. ASSUME NEW r \in Receipts, rows'[r].sync = "CREATING", rows'[r].aged
        PROVE  Pending(r)' = {}
    <3>1. Pending(r) = {}
      BY <2>1 DEF Overdue, Rewrites
    <3>2. QED BY <1>3, <3>1
  <2>2. QED BY <2>1 DEF Overdue
<1>11. Unregistered'
  BY DEF Unregistered, Rewrites
<1>12. ASSUME NEW r \in Receipts PROVE Owned(rows[r].jid)'
  <2>1. CASE rows'[r] = rows[r]
    <3>1. Owned(rows[r].jid)
      OBVIOUS
    <3>2. QED BY <1>1, <2>1, <3>1, OwnedGrows DEF Owned
  <2>2. CASE Rewrites(r, rows'[r])
    <3>1. ASSUME rows'[r].jid \in Ids
          PROVE  /\ entries'[rows'[r].jid].tag # None
                 /\ \A s \in Receipts : entries'[rows'[r].jid].of = s => rows'[s].jid # None
      BY <1>1, <2>2, <3>1, Named DEF Rewrites, Grows
    <3>2. QED BY <3>1 DEF Owned
  <2>3. QED BY <2>1, <2>2
<1>13. QED BY <1>1, <1>5, <1>6, <1>7, <1>8, <1>9, <1>10, <1>11, <1>12

\* What is known of ids and rows is not forgotten.
LEMMA KnowsKept ==
  ASSUME NEW s, Grows, Knows(s)
  PROVE  Knows(s)'
<1>1. \A r \in Receipts : Owned(s.seen[r].jid)'
  BY OwnedGrows DEF Knows
<1>2. s.id \in Ids => entries'[s.id].tag # None /\ (Owned(s.id)' \/ entries'[s.id].of = s.who)
  BY OwnedGrows DEF Knows, Grows, Owned
<1>3. \A r \in Receipts : r \in s.todo \/ r = s.who => rows'[r].exp # None
  BY DEF Knows, Grows
<1>4. QED BY <1>1, <1>2, <1>3 DEF Knows

\* What a run knows it still knows, if the row it is about to post for is left alone.
LEMMA RunKept ==
  ASSUME NEW s, Grows, NoMore, RunInv(s),
         s.at = "post" /\ s.who \in Receipts =>
           /\ rows'[s.who].sync = rows[s.who].sync /\ rows'[s.who].jid = rows[s.who].jid
           /\ rows'[s.who].aged = rows[s.who].aged /\ rows'[s.who].input = rows[s.who].input
  PROVE  RunInv(s)'
<1>1. Knows(s)'
  BY KnowsKept DEF RunInv
<1>2. AboutToPost(s)'
  BY DEF RunInv, AboutToPost, NoMore
<1>3. InVain(s)'
  BY DEF RunInv, InVain, NoMore, Grows
<1>4. QED BY <1>1, <1>2, <1>3 DEF RunInv

-----------------------------------------------------------------------------
(* The world, and entries that are made of lines.                          *)

LEMMA SentTypes ==
  ASSUME TypeInv, NEW q \in sent
  PROVE  q.id \in Ids \cup Txs /\ q.entry \in Entry /\ q.entry.of \in Tags
BY DEF TypeInv, TypeOK, Entry

\* A step that changes neither the books nor the ledger.
LEMMA OnceStill ==
  ASSUME TypeInv, BooksInv, UNCHANGED <<rows, entries, sent>>
  PROVE  BooksInv' /\ Grows /\ NoMore
BY BooksStep

LEMMA CheckedAlters ==
  ASSUME TypeInv, NEW j, entries' = [entries EXCEPT ![j].checked = TRUE],
         j \in Ids => entries[j].tag # None
  PROVE  \A i \in Ids : /\ entries'[i] = entries[i] \/ Alters(i)
                        /\ entries'[i].tag = entries[i].tag /\ entries'[i].of = entries[i].of
<1> SUFFICES ASSUME NEW i \in Ids
             PROVE  /\ entries'[i] = entries[i] \/ Alters(i)
                    /\ entries'[i].tag = entries[i].tag /\ entries'[i].of = entries[i].of
  OBVIOUS
<1>1. entries[i] \in Entry /\ entries \in [Ids \cup Txs -> Entry]
  BY DEF TypeInv, TypeOK
<1>2. CASE i # j
  BY <1>1, <1>2
<1>3. CASE i = j
  <2>1. entries'[i] = [entries[i] EXCEPT !.checked = TRUE]
    BY <1>1, <1>3
  <2>2. entries'[i].tag = entries[i].tag /\ entries'[i].of = entries[i].of /\ entries'[i].day = entries[i].day
    BY <1>1, <2>1 DEF Entry
  <2>3. QED BY <1>3, <2>2 DEF Alters
<1>4. QED BY <1>2, <1>3

\* The entries, and the id of the row, when the ledger is written by others.
LEMMA LedgerEntries ==
  ASSUME TypeInv, BooksInv, NEW r \in Receipts,
         \/ RegisterReceipt(r) \/ CompleteReceipt(r) \/ Cancel(r) \/ DayPasses(r) \/ EditRow(r)
         \/ OperatorResets(r) \/ \E t \in Txs : OperatorTypesLine(r, t)
  PROVE  \A i \in Ids : /\ entries'[i] = entries[i] \/ Alters(i)
                        /\ entries'[i].tag = entries[i].tag /\ entries'[i].of = entries[i].of
<1>1. entries' = entries \/ Checked(rows[r].jid)
  BY DEF RegisterReceipt, CompleteReceipt, Cancel, DayPasses, EditRow, OperatorResets,
         OperatorTypesLine, books
<1>2. rows[r].jid \in Ids => entries[rows[r].jid].tag # None
  BY DEF BooksInv, Owned
<1>3. CASE Checked(rows[r].jid)
  BY <1>2, <1>3, CheckedAlters DEF Checked
<1>4. CASE entries' = entries
  BY <1>4
<1>5. QED BY <1>1, <1>3, <1>4

LEMMA TypedEntries ==
  ASSUME TypeInv, BooksInv, NEW r \in Receipts, OperatorTypesId(r)
  PROVE  /\ \A i \in Ids : entries'[i] = entries[i] \/ Alters(i)
         /\ rows'[r].jid \in Ids =>
              /\ entries'[rows'[r].jid].tag # None
              /\ \A s \in Receipts : entries'[rows'[r].jid].of = s => s = r \/ rows[s].jid # None
<1>1. rows \in [Receipts -> Row] /\ rows[r] \in Row
  BY DEF TypeInv, TypeOK
<1>2. PICK i \in Ids \cup Txs :
         /\ rows' = [rows EXCEPT ![r].jid = i]
         /\ \/ entries[i].tag = r /\ Checked(i)
            \/ i \in Ids /\ Fresh(i) /\ Place(i, EntryFor("hand", rows[r]))
  BY DEF OperatorTypesId
<1>3. rows'[r].jid = i
  BY <1>1, <1>2 DEF Row
<1>4. CASE entries[i].tag = r /\ Checked(i)
  <2>1. \A s \in Receipts : i \in Ids /\ entries[i].of = s => s = r \/ rows[s].jid # None
    BY <1>4 DEF BooksInv, Tagged
  <2>2. entries[i].tag # None
    BY <1>4, Named
  <2>3. entries' = [entries EXCEPT ![i].checked = TRUE]
    BY <1>4 DEF Checked
  <2>4. \A j \in Ids : /\ entries'[j] = entries[j] \/ Alters(j)
                       /\ entries'[j].tag = entries[j].tag /\ entries'[j].of = entries[j].of
    BY <2>2, <2>3, CheckedAlters
  <2>5. QED BY <1>3, <2>1, <2>2, <2>4
<1>5. CASE i \in Ids /\ Fresh(i) /\ Place(i, EntryFor("hand", rows[r]))
  <2>1. EntryFor("hand", rows[r]).tag = "hand" /\ EntryFor("hand", rows[r]).of = "hand"
    BY <1>1, RowEntryType
  <2>2. "hand" \notin Receipts /\ "hand" # None
    BY JournalBooksAssumption DEF None
  <2>3. entries'[i] = EntryFor("hand", rows[r]) /\ \A j \in Ids \ {i} : entries'[j] = entries[j]
    BY <1>5 DEF Place, TypeInv, TypeOK
  <2>4. Alters(i)
    BY <1>5, <2>1, <2>2, <2>3 DEF Alters
  <2>5. QED BY <1>3, <2>1, <2>2, <2>3, <2>4
<1>6. QED BY <1>2, <1>4, <1>5

LEMMA OnceLedger ==
  ASSUME TypeInv, BooksInv, RunInv(run), NEW r \in Receipts,
         \/ RegisterReceipt(r) \/ CompleteReceipt(r) \/ Cancel(r) \/ DayPasses(r) \/ EditRow(r)
         \/ OperatorResets(r) \/ OperatorTypesId(r) \/ \E t \in Txs : OperatorTypesLine(r, t)
  PROVE  BooksInv' /\ RunInv(run)'
<1>1. PICK new : rows' = [rows EXCEPT ![r] = new] /\ LedgerWrite(r, new)
  BY LedgerCells
<1>2. run' = run /\ sent' = sent
  BY LedgerCells
<1>3. rows'[r] = new /\ \A s \in Receipts \ {r} : rows'[s] = rows[s]
  BY <1>1 DEF TypeInv, TypeOK
<1>4. /\ Owned(rows[r].jid)
      /\ rows[r].exp = None => rows[r].sync = None /\ rows[r].jid = None
      /\ rows[r].jid = None /\ rows[r].sync # "CREATING" => Made(r) = {}
      /\ rows[r].sync = "CREATING" /\ rows[r].aged => Pending(r) = {}
  BY DEF BooksInv, Unregistered, Awaited, Overdue
<1>5. \A i \in Ids : entries'[i] = entries[i] \/ Alters(i)
  BY LedgerEntries, TypedEntries
<1>6. new.jid \in Ids =>
        /\ entries'[new.jid].tag # None
        /\ \A s \in Receipts : entries'[new.jid].of = s => s = r \/ rows[s].jid # None
  <2>1. CASE OperatorTypesId(r)
    BY <1>3, <2>1, TypedEntries
  <2>2. CASE ~OperatorTypesId(r)
    <3>1. new.jid \in {rows[r].jid, None}
      BY <1>1, <2>2 DEF LedgerWrite
    <3>2. \A i \in Ids : entries'[i].tag = entries[i].tag /\ entries'[i].of = entries[i].of
      BY <2>2, LedgerEntries
    <3>3. QED BY <1>4, <3>1, <3>2, Named DEF Owned
  <2>3. QED BY <2>1, <2>2
<1>7. Pending(r) = {} \/ \E q \in sent : q.entry.tag = r
  BY DEF BooksInv, Reserved, Pending
<1>8. Rewrites(r, new)
  <2>1. new.exp = None => rows[r].exp = None /\ new.sync = None /\ new.jid = None
    BY <1>1, <1>4 DEF LedgerWrite, None
  <2>2. new.jid = None => rows[r].jid = None
    BY <1>1, <1>4 DEF LedgerWrite
  <2>3. new.jid = None =>
          \/ Made(r) = {}
          \/ rows[r].sync = "CREATING" /\ new.sync = "CREATING" /\ new.input = rows[r].input
    BY <1>1, <1>4 DEF LedgerWrite, None
  <2>4. new.sync = "CREATING" /\ new.aged => Pending(r) = {}
    BY <1>1, <1>4, <1>7 DEF LedgerWrite, None
  <2>5. QED BY <1>6, <2>1, <2>2, <2>3, <2>4 DEF Rewrites
<1>9. BooksInv' /\ Grows /\ NoMore
  <2>1. \A s \in Receipts : rows'[s] = rows[s] \/ Rewrites(s, rows'[s])
    BY <1>3, <1>8
  <2>2. \A q \in sent' : q \in sent \/ q.id \notin Ids
    BY <1>2
  <2>3. QED BY <1>5, <2>1, <2>2, BooksStep
<1>10. run.at = "post" /\ run.who \in Receipts =>
         /\ rows'[run.who].sync = rows[run.who].sync /\ rows'[run.who].jid = rows[run.who].jid
         /\ rows'[run.who].aged = rows[run.who].aged /\ rows'[run.who].input = rows[run.who].input
  <2>1. SUFFICES ASSUME run.at = "post", run.who = r
                 PROVE  new.sync = rows[r].sync /\ new.jid = rows[r].jid /\ new.aged = rows[r].aged
                        /\ new.input = rows[r].input
    BY <1>3
  <2>2. rows[r].sync = "CREATING"
    BY <2>1 DEF RunInv, AboutToPost
  <2>3. QED BY <1>1, <1>4, <2>1, <2>2 DEF LedgerWrite, None
<1>11. QED BY <1>2, <1>9, <1>10, RunKept

\* An entry made of a line is none of those made from nothing.
LEMMA OnceLineEntry ==
  ASSUME TypeInv, BooksInv, NEW t \in Txs, NEW e, Place(t, e), rows' = rows,
         \A q \in sent' : q \in sent \/ q.id \notin Ids
  PROVE  BooksInv' /\ Grows /\ NoMore
<1>1. \A i \in Ids : entries'[i] = entries[i]
  BY Named DEF Place, TypeInv, TypeOK
<1>2. QED BY <1>1, BooksStep

LEMMA OnceLines ==
  ASSUME TypeInv, BooksInv, RunInv(run), NEW t \in Txs, LineArrives(t) \/ OperatorSettlesLine(t)
  PROVE  BooksInv' /\ RunInv(run)'
<1>1. run' = run /\ rows' = rows /\ sent' = sent
  BY DEF LineArrives, OperatorSettlesLine, ByHand
<1>2. BooksInv' /\ Grows /\ NoMore
  BY <1>1, OnceStill, OnceLineEntry DEF LineArrives, OperatorSettlesLine
<1>3. QED BY <1>1, <1>2, RunKept

LEMMA OnceDecides ==
  ASSUME TypeInv, BooksInv, RunInv(run), NEW q \in sent, MfDecides(q)
  PROVE  BooksInv' /\ RunInv(run)'
<1>1. run' = run /\ rows' = rows /\ sent' = sent \ {q}
  BY DEF MfDecides
<1>2. q.id \in Ids \cup Txs
  BY SentTypes
<1>3. BooksInv' /\ Grows /\ NoMore
  <2>1. CASE entries' = entries
    BY <1>1, <2>1, BooksStep
  <2>2. CASE q.id \in Txs /\ Place(q.id, q.entry)
    BY <1>1, <2>2, OnceLineEntry
  <2>3. CASE q.id \in Ids /\ Place(q.id, q.entry)
    <3> USE DEF BooksInv
    <3>1. /\ entries[q.id] = NoEntry /\ q.entry.of = q.entry.tag /\ q.entry.tag # None
          /\ \A p \in sent : p.id = q.id => p = q
      BY <2>3 DEF Reserved
    <3>2. entries'[q.id] = q.entry /\ \A i \in Ids \ {q.id} : entries'[i] = entries[i]
      BY <2>3 DEF Place, TypeInv, TypeOK
    <3>3. entries[q.id].tag = None
      BY <3>1 DEF NoEntry
    <3>4. Grows
      BY <1>1, <3>2, <3>3 DEF Grows
    <3>5. \A r \in Receipts : Pending(r)' \subseteq Pending(r)
      BY <1>1 DEF Pending
    <3>6. ASSUME NEW r \in Receipts, NEW i \in Ids, entries'[i].of = r
          PROVE  entries[i].of = r \/ (i = q.id /\ q \in Pending(r))
      BY <2>3, <3>2, <3>6 DEF Pending
    <3>7. ASSUME NEW r \in Receipts, NEW i \in Made(r)'
          PROVE  i \in Made(r)
      <4>1. CASE i \in Ids /\ entries'[i].of = r
        BY <3>6, <4>1 DEF Made, Pending
      <4>2. CASE \E p \in sent' : p.id \in Ids /\ p.entry.of = r /\ i = p.id
        BY <1>1, <4>2 DEF Made
      <4>3. QED BY <3>7, <4>1, <4>2 DEF Made
    <3>8. NoMore
      BY <3>5, <3>7 DEF NoMore
    <3>9. Reserved'
      BY <1>1, <3>1, <3>2 DEF Reserved
    <3>10. Tagged'
      BY <1>1, <3>1, <3>2 DEF Tagged
    <3>11. Awaited'
      <4>1. ASSUME NEW r \in Receipts, rows[r].jid = None, Made(r)' # {}
            PROVE  /\ rows[r].sync = "CREATING"
                   /\ \A i \in Ids : entries'[i].of = r => entries'[i].day = rows[r].input.day
                   /\ \A p \in Pending(r)' : p.entry.day = rows[r].input.day
        <5>1. Made(r) # {}
          BY <3>7, <4>1
        <5>2. /\ rows[r].sync = "CREATING"
              /\ \A i \in Ids : entries[i].of = r => entries[i].day = rows[r].input.day
              /\ \A p \in Pending(r) : p.entry.day = rows[r].input.day
          BY <4>1, <5>1 DEF Awaited
        <5>3. \A i \in Ids : entries'[i].of = r => entries'[i].day = rows[r].input.day
          <6>1. ASSUME NEW i \in Ids, entries'[i].of = r
                PROVE  entries'[i].day = rows[r].input.day
            <7>1. CASE i = q.id
              BY <2>3, <3>2, <5>2, <6>1, <7>1 DEF Pending
            <7>2. CASE i # q.id
              BY <3>2, <5>2, <6>1, <7>2
            <7>3. QED BY <7>1, <7>2
          <6>2. QED BY <6>1
        <5>4. QED BY <3>5, <5>2, <5>3
      <4>2. QED BY <1>1, <4>1 DEF Awaited
    <3>12. Single'
      BY <3>7 DEF Single
    <3>13. Overdue' /\ Unregistered'
      BY <1>1, <3>5 DEF Overdue, Unregistered
    <3>14. \A r \in Receipts : Owned(rows[r].jid)'
      BY <1>1, <3>4, OwnedGrows DEF Owned
    <3>15. QED BY <3>4, <3>8, <3>9, <3>10, <3>11, <3>12, <3>13, <3>14
  <2>4. QED BY <1>2, <2>1, <2>2, <2>3 DEF MfDecides
<1>4. QED BY <1>1, <1>3, RunKept

-----------------------------------------------------------------------------
(* What an execution does.                                                 *)

\* A write of row r under the lock.  The new row keeps the row's id or has one that the
\* execution knows, and where an entry is awaited it leaves what it will be found by.
Writes(r, new) ==
  /\ new \in Row /\ new.exp = rows[r].exp /\ rows[r].exp # None
  /\ new.jid = None => rows[r].jid = None
  /\ Owned(new.jid) \/ (entries[new.jid].tag # None /\ entries[new.jid].of = r)
  /\ new.jid = None =>
       \/ Made(r) = {}
       \/ rows[r].sync = "CREATING" /\ new.sync = "CREATING" /\ new.input = rows[r].input
  /\ new.aged => rows[r].aged
  /\ new.sync = "CREATING" => rows[r].sync = "CREATING" \/ ~new.aged

LEMMA WrittenRewrites ==
  ASSUME TypeInv, BooksInv, NEW r \in Receipts, NEW new, Writes(r, new), UNCHANGED <<entries, sent>>
  PROVE  Rewrites(r, new) /\ \A torn \in Torn(rows[r], new) : Rewrites(r, torn)
<1>1. rows[r] \in Row
  BY DEF TypeInv, TypeOK
<1>2. rows[r].sync = "CREATING" /\ rows[r].aged => Pending(r) = {}
  BY DEF BooksInv, Overdue
<1>3. ASSUME NEW x \in Row, x.exp = rows[r].exp, x.jid = new.jid, x.sync \in {rows[r].sync, new.sync},
             x.sync = new.sync \/ x.sync = rows[r].sync,
             x.aged \in {rows[r].aged, new.aged}, x.input \in {rows[r].input, new.input},
             x.sync = "CREATING" /\ x.aged => rows[r].sync = "CREATING"
      PROVE  Rewrites(r, x)
  <2>1. x.exp # None
    BY <1>3 DEF Writes
  <2>2. x.jid = None => rows[r].jid = None
    BY <1>3 DEF Writes
  <2>3. x.jid \in Ids =>
          /\ entries'[x.jid].tag # None
          /\ \A s \in Receipts : entries'[x.jid].of = s => s = r \/ rows[s].jid # None
    BY <1>3 DEF Writes, Owned
  <2>4. x.jid = None =>
          \/ Made(r) = {}
          \/ rows[r].sync = "CREATING" /\ x.sync = "CREATING" /\ x.input = rows[r].input
    BY <1>3 DEF Writes
  <2>5. x.sync = "CREATING" /\ x.aged => Pending(r) = {}
    BY <1>2, <1>3 DEF Writes
  <2>6. QED BY <2>1, <2>2, <2>3, <2>4, <2>5 DEF Rewrites
<1>4. Rewrites(r, new)
  BY <1>3 DEF Writes
<1>5. ASSUME NEW torn \in Torn(rows[r], new) PROVE Rewrites(r, torn)
  <2>1. new \in Row
    BY DEF Writes
  <2>2. /\ torn \in Row /\ torn.sync = rows[r].sync /\ torn.jid = new.jid
        /\ torn.aged \in {rows[r].aged, new.aged} /\ torn.input \in {rows[r].input, new.input}
        /\ \A f \in {"exp", "method", "amount", "day", "whole"} : torn[f] = rows[r][f]
    BY <1>1, <1>5, <2>1, TornType
  <2>3. torn.exp = rows[r].exp
    BY <2>2
  <2>4. QED BY <1>3, <2>2, <2>3
<1>6. QED BY <1>4, <1>5

\* A guarded write, but for what the execution goes on with.
LEMMA OnceWritten ==
  ASSUME TypeInv, BooksInv, NEW r \in Receipts, NEW guard, NEW force, NEW new, NEW yes, NEW no,
         guard => Writes(r, new), WriteIfCurrent(r, guard, force, new, yes, no)
  PROVE  BooksInv' /\ Grows /\ NoMore
<1>1. UNCHANGED <<entries, sent>>
  BY DEF WriteIfCurrent, books
<1>2. CASE rows' = rows
  BY <1>1, <1>2, OnceStill
<1>3. CASE guard /\ \E x : Rewrites(r, x) /\ rows' = [rows EXCEPT ![r] = x]
  <2>1. \A s \in Receipts : rows'[s] = rows[s] \/ Rewrites(s, rows'[s])
    BY <1>3 DEF TypeInv, TypeOK
  <2>2. QED BY <1>1, <2>1, BooksStep
<1>4. CASE guard /\ rows' = [rows EXCEPT ![r] = new]
  BY <1>1, <1>3, <1>4, WrittenRewrites
<1>5. CASE guard /\ \E torn \in Torn(rows[r], new) : rows' = [rows EXCEPT ![r] = torn]
  BY <1>1, <1>3, <1>5, WrittenRewrites
<1>6. QED BY <1>2, <1>4, <1>5 DEF WriteIfCurrent

LEMMA IdleKnows == RunInv(Idle)
BY Named, NoRowType DEF RunInv, Knows, AboutToPost, InVain, Idle, Nothing, NoRow, Owned

\* Places at which nothing more is known than of what was read.
Plain == Places \ {"adopt", "entered", "put", "inherit", "fill", "post", "rejected", "limited", "recovered"}

LEMMA PlainPlaces ==
  {"reverse", "maintain", "detect", "classify", "create", "rules", "human", "match", "idle", "threw",
   "again", "again2", "import", "cancel", "undo", "undone", "refused", "mark", "send", "trace",
   "traced", "lined"} \subseteq Plain
BY PhasePlaces DEF Plain, Places

LEMMA MoveKnows ==
  ASSUME TypeInv, RunInv(run), NEW p \in Plain
  PROVE  RunInv(Move(p)) /\ Move(p).at = p
<1>1. /\ Move(p).at = p /\ Move(p).id = run.id /\ Move(p).who = run.who /\ Move(p).seen = run.seen
      /\ Move(p).todo = run.todo
  BY DEF Move, TypeInv, TypeOK, Run
<1>2. QED BY <1>1 DEF RunInv, Knows, AboutToPost, InVain, Plain

LEMMA DoneKnows ==
  ASSUME TypeInv, RunInv(run), NEW r, NEW p \in Plain
  PROVE  RunInv(Done(p, r)) /\ Done(p, r).at = p
<1>1. /\ Done(p, r).at = p /\ Done(p, r).id = None /\ Done(p, r).who = None
      /\ Done(p, r).todo = run.todo \ {r} /\ Done(p, r).seen \in {run.seen, Nothing}
  BY DEF Done, Idle
<1>2. \A x \in Receipts : Owned(Nothing[x].jid)
  BY Named DEF Nothing, NoRow, Owned
<1>3. QED BY <1>1, <1>2, Named DEF RunInv, Knows, AboutToPost, InVain, Plain

LEMMA OnceWrites ==
  ASSUME TypeInv, BooksInv, RunInv(run), NEW r \in Receipts, NEW guard, NEW force, NEW new, NEW yes, NEW no,
         guard => Writes(r, new) /\ RunInv(yes) /\ yes.at # "post", RunInv(no), no.at # "post",
         WriteIfCurrent(r, guard, force, new, yes, no)
  PROVE  BooksInv' /\ RunInv(run)'
<1>1. BooksInv' /\ Grows /\ NoMore
  BY OnceWritten
<1>2. RunInv(Idle) /\ Idle.at # "post" /\ RunInv(Move("threw")) /\ Move("threw").at # "post"
  BY IdleKnows, MoveKnows, PlainPlaces DEF Idle
<1>3. RunInv(run)' \/ ~(run' = Idle \/ run' = Move("threw") \/ (guard /\ run' = yes) \/ run' = no)
  <2>1. ASSUME NEW to, RunInv(to), to.at # "post", run' = to
        PROVE  RunInv(run)'
    <3>1. RunInv(to)'
      BY <1>1, <2>1, RunKept
    <3>2. QED BY <2>1, <3>1 DEF RunInv, Knows, AboutToPost, InVain
  <2>2. QED BY <1>2, <2>1
<1>4. run' = Idle \/ run' = Move("threw") \/ (guard /\ run' = yes) \/ run' = no
  BY DEF WriteIfCurrent
<1>5. QED BY <1>1, <1>3, <1>4

LEMMA OnceGoes ==
  ASSUME TypeInv, BooksInv, NEW to, Goes(to), RunInv(to)
  PROVE  BooksInv' /\ RunInv(run)'
<1>1. run' = to /\ UNCHANGED <<rows, entries, sent>>
  BY DEF Goes, books
<1>2. BooksInv'
  BY <1>1, OnceStill
<1>3. RunInv(run)'
  BY <1>1 DEF RunInv, Knows, AboutToPost, InVain, Made, Owned
<1>4. QED BY <1>2, <1>3

\* What is known at a place where nothing more is.
LEMMA PlainKnows ==
  ASSUME NEW s, Knows(s), s.at \in Plain
  PROVE  RunInv(s)
BY DEF RunInv, AboutToPost, InVain, Plain

LEMMA BackKnows ==
  ASSUME TypeInv, RunInv(run), NEW r, run.back # None
  PROVE  RunInv(Back(r)) /\ Back(r).at # "post"
<1>1. run.back \in {"again2", "create", "human", "match"}
  BY DEF TypeInv, TypeOK, Run
<1>2. Plain \subseteq Places \ {"post"}
  BY DEF Plain
<1>3. QED BY <1>1, <1>2, MoveKnows, DoneKnows, PlainPlaces DEF Back

\* A row is read anew.
LEMMA ReadsKnows ==
  ASSUME TypeInv, BooksInv, RunInv(run), NEW r \in Receipts, r \in run.todo \/ r = run.who,
         NEW p \in Places \ {"adopt", "entered", "put", "inherit", "fill"}
  PROVE  Knows(Reads(r, p))
<1>1. /\ Reads(r, p).at = p /\ Reads(r, p).who = r /\ Reads(r, p).id = None
      /\ Reads(r, p).seen = [Nothing EXCEPT ![r] = rows[r]]
  BY ReadsType
<1>2. Reads(r, p).todo = run.todo
  <2> DEFINE d == Done("maintain", r)
             s == [Nothing EXCEPT ![r] = rows[r]]
  <2>1. d \in Run
    BY DoneTyped
  <2>2. Reads(r, p) = [d EXCEPT !.at = p, !.who = r, !.todo = run.todo, !.seen = s]
    BY DEF Reads
  <2> HIDE DEF d, s
  <2>3. QED BY <2>1, <2>2 DEF Run
<1>3. \A x \in Receipts : Owned(Reads(r, p).seen[x].jid)
  <2>1. \A x \in Receipts : Owned(Nothing[x].jid) /\ Nothing \in [Receipts -> Row]
    BY Named, IdleType DEF Nothing, NoRow, Owned
  <2>2. Owned(rows[r].jid)
    BY DEF BooksInv
  <2>3. QED BY <1>1, <2>1, <2>2, IdleType
<1>4. \A x \in Receipts : x \in run.todo \/ x = r => rows[x].exp # None
  BY DEF RunInv, Knows
<1>5. QED BY <1>1, <1>2, <1>3, <1>4, Named DEF Knows

\* A write that leaves the row its id, where no entry is awaited.
LEMMA OnceNew ==
  ASSUME TypeInv, BooksInv, NEW r \in Receipts, NEW new \in Row, new.exp = rows[r].exp, rows[r].exp # None,
         new.jid = rows[r].jid, new.aged => rows[r].aged, new.sync # "CREATING",
         rows[r].jid = None => rows[r].sync # "CREATING" \/ Made(r) = {}
  PROVE  Writes(r, new)
<1>1. rows[r].jid = None => Made(r) = {}
  BY DEF BooksInv, Awaited
<1>2. Owned(new.jid)
  BY DEF BooksInv
<1>3. QED BY <1>1, <1>2 DEF Writes

LEMMA OnceMark ==
  ASSUME TypeInv, BooksInv, NEW r \in Receipts, NEW state \in SyncStates \ {"CREATING"}, NEW err \in Errs,
         rows[r].exp # None, rows[r].jid = None => rows[r].sync # "CREATING" \/ Made(r) = {}
  PROVE  Writes(r, InState(r, state, err))
BY InStateCells, OnceNew

LEMMA OnceSynced ==
  ASSUME TypeInv, NEW r \in Receipts, NEW id \in Ids \cup Txs, NEW new \in Row,
         new.exp = rows[r].exp, new.jid = id, new.sync = "SYNCED", new.aged = rows[r].aged, rows[r].exp # None,
         id \in Ids => entries[id].tag # None /\ (Owned(id) \/ entries[id].of = r)
  PROVE  Writes(r, new)
<1>1. new.jid # None
  BY Named
<1>2. Owned(new.jid) \/ (entries[new.jid].tag # None /\ entries[new.jid].of = r)
  BY Named DEF Owned
<1>3. new.aged => rows[r].aged
  OBVIOUS
<1>4. QED BY <1>1, <1>2, <1>3 DEF Writes

\* A row that has a state or an id is registered.
LEMMA Registered ==
  ASSUME BooksInv, NEW r \in Receipts, rows[r].sync # "" \/ rows[r].jid # None
  PROVE  rows[r].exp # None
BY DEF BooksInv, Unregistered, None

\* Of a receipt whose row names no entry and does not say CREATING there is none.
LEMMA NoneMade ==
  ASSUME BooksInv, NEW r \in Receipts, rows[r].jid = None, rows[r].sync # "CREATING"
  PROVE  Made(r) = {}
BY DEF BooksInv, Awaited

-----------------------------------------------------------------------------
(* Maintenance.                                                            *)

LEMMA OnceReverse ==
  ASSUME TypeInv, Admits, OnceInv, NEW r \in Receipts, ReverseWithoutJournal(r)
  PROVE  OnceInv'
<1> USE DEF OnceInv
<1>1. run.at = "reverse" /\ r \in run.todo
  BY DEF ReverseWithoutJournal, Takes
<1>2. run.seen[r].sync \in NoJournalStates
  BY <1>1 DEF Admits, Chosen
<1> DEFINE guard == IsCancelled(rows[r]) /\ rows[r].sync = run.seen[r].sync /\ rows[r].jid = None
           new == InState(r, "REVERSED", None)
           done == Done("reverse", r)
<1>3. guard => Writes(r, new)
  <2>1. "REVERSED" \in SyncStates \ {"CREATING"} /\ None \in Errs
    BY States
  <2>2. ASSUME guard PROVE rows[r].exp # None /\ rows[r].sync # "CREATING"
    BY <1>2, <2>2 DEF IsCancelled, None, NoJournalStates
  <2>3. QED BY <2>1, <2>2, OnceMark
<1>4. RunInv(done) /\ done.at # "post"
  BY DoneKnows, PlainPlaces
<1>5. WriteIfCurrent(r, guard, FALSE, new, done, done)
  BY DEF ReverseWithoutJournal
<1> HIDE DEF guard, new, done
<1>6. QED BY <1>3, <1>4, <1>5, OnceWrites

\* An entry with the tag of a receipt was made for it, or is one whose maker knows it.
LEMMA FoundByTag ==
  ASSUME BooksInv, NEW r \in Receipts, NEW i \in Ids, entries[i].tag = r
  PROVE  entries[i].tag # None /\ (Owned(i) \/ entries[i].of = r)
<1>1. ASSUME NEW x \in Receipts, entries[i].of = x, rows[x].jid = None
      PROVE  x = r
  BY <1>1 DEF BooksInv, Tagged
<1>2. QED BY <1>1, Named DEF Owned

LEMMA OnceRecover ==
  ASSUME TypeInv, OnceInv, NEW r \in Receipts, RecoverCreating(r)
  PROVE  OnceInv'
<1> USE DEF OnceInv
<1> DEFINE d == Reads(r, "recovered")
<1>1. r \in run.todo
  BY DEF RecoverCreating, Takes
<1>2. /\ Knows(d) /\ d \in Run /\ d.at = "recovered" /\ d.who = r /\ d.id = None
      /\ d.seen[r] = rows[r]
  <2>1. "recovered" \in Places \ {"adopt", "entered", "put", "inherit", "fill"}
    BY DEF Places
  <2>2. [Nothing EXCEPT ![r] = rows[r]][r] = rows[r]
    BY IdleType
  <2>3. Knows(d)
    BY <1>1, <2>1, ReadsKnows
  <2>4. /\ d \in Run /\ d.at = "recovered" /\ d.who = r /\ d.id = None
        /\ d.seen = [Nothing EXCEPT ![r] = rows[r]]
    BY <2>1, ReadsType
  <2> HIDE DEF d
  <2>5. QED BY <2>2, <2>3, <2>4
<1> DEFINE found == FindJournalsByTag(r, RecoverySearchDays(rows[r]))
<1>3. \/ found = {} /\ Goes(d)
      \/ \E i \in found : Goes([d EXCEPT !.id = i])
  BY DEF RecoverCreating
<1> HIDE DEF d
<1>4. CASE found = {} /\ Goes(d)
  <2>1. ASSUME rows[r].sync = "CREATING", rows[r].aged, rows[r].jid = None
        PROVE  Made(r) = {}
    <3>1. Pending(r) = {}
      BY <2>1 DEF BooksInv, Overdue
    <3>2. ASSUME NEW i \in Ids, entries[i].of = r
          PROVE  FALSE
      <4>1. entries[i].tag = r
        BY <2>1, <3>2 DEF BooksInv, Tagged
      <4>2. entries[i].day = rows[r].input.day
        <5>1. Made(r) # {}
          BY <3>2 DEF Made
        <5>2. QED BY <2>1, <3>2, <5>1 DEF BooksInv, Awaited
      <4>3. i \in found
        BY <4>1, <4>2 DEF FindJournalsByTag, RecoverySearchDays
      <4>4. QED BY <1>4, <4>3
    <3>3. QED BY <3>1, <3>2, MadeIs
  <2>2. InVain(d) /\ AboutToPost(d)
    BY <1>2, <2>1 DEF InVain, AboutToPost
  <2>3. QED BY <1>2, <1>4, <2>2, OnceGoes DEF RunInv
<1>5. ASSUME NEW i \in found, Goes([d EXCEPT !.id = i])
      PROVE  OnceInv'
  <2> DEFINE to == [d EXCEPT !.id = i]
  <2>1. /\ to.at = "recovered" /\ to.who = r /\ to.id = i /\ to.seen = d.seen /\ to.todo = d.todo
    BY <1>2 DEF Run
  <2>2. i \in Ids \cup Txs /\ entries[i].tag = r
    BY DEF FindJournalsByTag
  <2>3. i \in Ids => entries[i].tag # None /\ (Owned(i) \/ entries[i].of = r)
    BY <2>2, FoundByTag
  <2>4. i # None
    BY <2>2, Named
  <2> HIDE DEF to, found
  <2>5. Knows(to)
    BY <1>2, <2>1, <2>3 DEF Knows
  <2>6. RunInv(to)
    BY <2>1, <2>4, <2>5 DEF RunInv, InVain, AboutToPost
  <2>7. QED BY <1>5, <2>6, OnceGoes DEF to
<1>6. QED BY <1>3, <1>4, <1>5

LEMMA OnceRecovered ==
  ASSUME TypeInv, OnceInv, NEW r \in Receipts, RecordRecovered(r)
  PROVE  OnceInv'
<1> USE DEF OnceInv
<1> DEFINE again == Move("again")
           a == Synced(r, run.id)
           b == InState(r, "UNKNOWN", None)
           ga == rows[r].sync \in {"CREATING", "UNKNOWN"}
           gb == rows[r].sync = "CREATING"
<1>1. RunInv(again) /\ again.at # "post"
  BY MoveKnows, PlainPlaces
<1>2. run.at = "recovered" /\ run.who = r
  BY DEF RecordRecovered, At
<1>3. CASE run.id # None
  <2>1. run.id \in Ids \cup Txs /\ rows[r].exp # None
    BY <1>2, <1>3, Parts DEF RunInv, Knows
  <2>2. Writes(r, a)
    <3>1. run.id \in Ids => entries[run.id].tag # None /\ (Owned(run.id) \/ entries[run.id].of = r)
      BY <1>2 DEF RunInv, Knows
    <3>2. QED BY <2>1, <3>1, SyncedCells, OnceSynced
  <2>3. WriteIfCurrent(r, ga, TRUE, a, again, again)
    BY <1>3 DEF RecordRecovered
  <2> HIDE DEF again, a, ga
  <2>4. QED BY <1>1, <2>2, <2>3, OnceWrites
<1>4. CASE run.id = None /\ run.seen[r].sync = "CREATING" /\ run.seen[r].aged
  <2>1. rows[r].jid = None => Made(r) = {}
    BY <1>2, <1>4 DEF RunInv, InVain
  <2>2. gb => Writes(r, b)
    <3>1. "UNKNOWN" \in SyncStates \ {"CREATING"} /\ None \in Errs
      BY States
    <3>2. gb => rows[r].exp # None
      BY Registered
    <3>3. QED BY <2>1, <3>1, <3>2, OnceMark
  <2>3. WriteIfCurrent(r, gb, FALSE, b, again, again)
    BY <1>4 DEF RecordRecovered
  <2> HIDE DEF again, b, gb
  <2>4. QED BY <1>1, <2>2, <2>3, OnceWrites
<1>5. CASE Goes(again)
  BY <1>1, <1>5, OnceGoes
<1>6. QED BY <1>3, <1>4, <1>5 DEF RecordRecovered

LEMMA OnceJournalizing ==
  ASSUME TypeInv, OnceInv, NEW r \in Receipts, RecoverJournalizing(r)
  PROVE  OnceInv'
<1> USE DEF OnceInv
<1> DEFINE d == Reads(r, "trace")
           to == [d EXCEPT !.back = "again2"]
<1>1. r \in run.todo \/ r = run.who
  BY DEF RecoverJournalizing, Takes, At
<1>2. "trace" \in Places \ {"adopt", "entered", "put", "inherit", "fill"}
  BY DEF Places
<1>3. Knows(d) /\ d \in Run /\ d.at = "trace"
  <2>1. Knows(d)
    BY <1>1, <1>2, ReadsKnows
  <2>2. QED BY <1>2, <2>1, ReadsType
<1>4. Goes(to)
  BY DEF RecoverJournalizing
<1> HIDE DEF d
<1>5. to.at = "trace" /\ to.who = d.who /\ to.id = d.id /\ to.seen = d.seen /\ to.todo = d.todo
  BY <1>3 DEF Run
<1>6. RunInv(to)
  <2> HIDE DEF to
  <2>1. Knows(to)
    BY <1>3, <1>5 DEF Knows
  <2>2. QED BY <1>5, <2>1, PlainKnows, PlainPlaces
<1> HIDE DEF to
<1>7. QED BY <1>4, <1>6, OnceGoes

LEMMA OnceProcess ==
  ASSUME TypeInv, OnceInv, NEW r \in Receipts, ProcessMaintenanceRow(r)
  PROVE  OnceInv'
<1> USE DEF OnceInv
<1> DEFINE id == IF Live(rows[r].jid) THEN rows[r].jid ELSE None
           d  == Reads(r, "import")
           im == [d EXCEPT !.id = id]
<1>1. r \in run.todo \/ r = run.who
  BY DEF ProcessMaintenanceRow, Settles, Takes, At
<1>2. {"import", "cancel", "undo"} \subseteq Places \ {"adopt", "entered", "put", "inherit", "fill"}
  BY DEF Places
<1>3. /\ RunInv(Reads(r, "cancel")) /\ RunInv(Reads(r, "undo")) /\ Knows(d) /\ d \in Run /\ d.at = "import"
      /\ d.id = None
  <2>1. Knows(Reads(r, "cancel")) /\ Knows(Reads(r, "undo")) /\ Knows(d)
    BY <1>1, <1>2, ReadsKnows
  <2>2. /\ Reads(r, "cancel").at = "cancel" /\ Reads(r, "undo").at = "undo"
        /\ d \in Run /\ d.at = "import" /\ d.id = None
    BY <1>2, ReadsType
  <2>3. QED BY <2>1, <2>2, PlainKnows, PlainPlaces
<1>4. RunInv(Done("maintain", r))
  BY DoneKnows, PlainPlaces
<1>5. id \in Ids => entries[id].tag # None /\ Owned(id)
  <2>1. id \in Ids => id = rows[r].jid /\ Live(id)
    BY Named
  <2>2. QED BY <2>1 DEF Live, BooksInv
<1>6. \/ Goes(Reads(r, "undo")) \/ Goes(Reads(r, "cancel")) \/ Goes(im) \/ Goes(Done("maintain", r))
  BY DEF ProcessMaintenanceRow
<1> HIDE DEF d, id
<1>7. RunInv(im)
  <2>1. im.at = "import" /\ im.who = d.who /\ im.id = id /\ im.seen = d.seen /\ im.todo = d.todo
    BY <1>3 DEF Run
  <2> HIDE DEF im
  <2>2. Knows(im)
    BY <1>3, <1>5, <2>1 DEF Knows
  <2>3. QED BY <2>1, <2>2, PlainKnows, PlainPlaces
<1> HIDE DEF im
<1>8. QED BY <1>3, <1>4, <1>6, <1>7, OnceGoes

LEMMA OnceImport ==
  ASSUME TypeInv, OnceInv, NEW r \in Receipts, ImportRow(r)
  PROVE  OnceInv'
<1> USE DEF OnceInv
<1> DEFINE row   == run.seen[r]
           guard == rows[r].jid = row.jid /\ rows[r].sync \in ImportableStates
           old   == InState(r, "SYNCED", None)
           a     == [old EXCEPT !.input = SummarizeSyncInput(row)]
           st    == IF row.sync = "UNKNOWN" THEN rows[r].sync ELSE "NEEDS_REVIEW"
           b     == InState(r, st, row.jid)
           done  == Done("maintain", r)
<1>1. WriteIfCurrent(r, guard, FALSE, IF run.id # None THEN a ELSE b, done, done)
  BY DEF ImportRow
<1>2. RunInv(done) /\ done.at # "post"
  BY DoneKnows, PlainPlaces
<1>3. rows[r].exp # None
  BY DEF ImportRow, At, RunInv, Knows
<1>4. guard => rows[r].sync # "CREATING" /\ rows[r].sync \in SyncStates
  BY States DEF ImportableStates, NoJournalStates
<1>5. guard => Writes(r, a)
  <2>1. "SYNCED" \in SyncStates \ {"CREATING"} /\ None \in Errs
    BY States
  <2>2. /\ old \in Row /\ old.sync = "SYNCED" /\ old.exp = rows[r].exp /\ old.jid = rows[r].jid
        /\ old.aged = rows[r].aged
    BY <2>1, InStateCells
  <2>3. SummarizeSyncInput(row) \in Input
    BY Parts, SummaryType
  <2> HIDE DEF old
  <2>4. /\ a \in Row /\ a.sync = "SYNCED" /\ a.exp = rows[r].exp /\ a.jid = rows[r].jid
        /\ a.aged = rows[r].aged
    BY <2>2, <2>3 DEF Row
  <2> HIDE DEF a
  <2>5. QED BY <1>3, <1>4, <2>4, OnceNew
<1>6. guard => Writes(r, b)
  <2>1. guard => st \in SyncStates \ {"CREATING"}
    BY <1>4, States
  <2>2. row.jid \in Errs
    BY Parts DEF Errs
  <2>3. QED BY <1>3, <1>4, <2>1, <2>2, OnceMark
<1> HIDE DEF a, b, guard, done
<1>7. QED BY <1>1, <1>2, <1>5, <1>6, OnceWrites

\* The run at another place, with another reading of row r.
LEMMA SeenKnows ==
  ASSUME TypeInv, RunInv(run), NEW r \in Receipts, NEW p \in Plain, NEW row \in Row, Owned(row.jid)
  PROVE  RunInv([Move(p) EXCEPT !.seen[r] = row])
<1> DEFINE m  == Move(p)
           to == [m EXCEPT !.seen[r] = row]
<1>1. /\ m \in Run /\ m.at = p /\ m.id = run.id /\ m.who = run.who /\ m.seen = run.seen
      /\ m.todo = run.todo
  <2>1. p \in Places /\ run \in Run
    BY DEF Plain, TypeInv, TypeOK
  <2>2. QED BY <2>1, MoveType DEF Run
<1> HIDE DEF m
<1>2. /\ to.at = p /\ to.id = run.id /\ to.who = run.who /\ to.todo = run.todo
      /\ to.seen = [run.seen EXCEPT ![r] = row] /\ run.seen \in [Receipts -> Row]
  BY <1>1 DEF Run
<1> HIDE DEF to
<1>3. Knows(to)
  <2>1. \A x \in Receipts : Owned(to.seen[x].jid)
    BY <1>2 DEF RunInv, Knows
  <2>2. QED BY <1>2, <2>1 DEF RunInv, Knows, Plain
<1>4. QED BY <1>2, <1>3, PlainKnows DEF to, m

LEMMA OnceCancel ==
  ASSUME TypeInv, Admits, OnceInv, NEW r \in Receipts, CancelRow(r)
  PROVE  OnceInv'
<1> USE DEF OnceInv
<1> DEFINE current == IsCancelled(rows[r]) /\ rows[r].sync = run.seen[r].sync
           done    == Done("maintain", r)
           mark    == InState(r, "REVERSING", None)
           undo    == [Move("undo") EXCEPT !.seen[r] = mark]
           unsure  == current /\ CancellationRoute(rows[r]) = "unknown"
           review  == InState(r, "NEEDS_REVIEW", RouteUnknown)
<1>1. \/ WriteIfCurrent(r, unsure, FALSE, review, done, done)
      \/ Goes(done)
      \/ WriteIfCurrent(r, current, FALSE, mark, undo, done)
  BY DEF CancelRow
<1>2. RunInv(done) /\ done.at # "post"
  BY DoneKnows, PlainPlaces
<1>3. rows[r].exp # None
  BY DEF CancelRow, At, RunInv, Knows
<1>4. current => rows[r].sync # "CREATING"
  BY DEF CancelRow, At, Admits, Chosen, CancelledRowHasJournal, NoJournalStates
<1>5. current => Writes(r, mark) /\ Writes(r, review)
  <2>1. {"REVERSING", "NEEDS_REVIEW"} \subseteq SyncStates \ {"CREATING"} /\ {None, RouteUnknown} \subseteq Errs
    BY States
  <2>2. QED BY <1>3, <1>4, <2>1, OnceMark
<1>6. RunInv(undo) /\ undo.at # "post"
  <2>1. "undo" \in Plain /\ "undo" \in Places
    BY PlainPlaces DEF Plain
  <2>2. mark \in Row /\ mark.jid = rows[r].jid
    <3>1. "REVERSING" \in SyncStates /\ None \in Errs
      BY States
    <3>2. QED BY <3>1, InStateCells
  <2>3. Owned(mark.jid)
    BY <2>2 DEF BooksInv
  <2>4. undo.at = "undo"
    BY <2>1, <2>2, SeenTyped
  <2> HIDE DEF mark
  <2>5. QED BY <2>1, <2>2, <2>3, <2>4, SeenKnows
<1> HIDE DEF done, undo, mark, review, current
<1>7. CASE WriteIfCurrent(r, unsure, FALSE, review, done, done)
  <2>1. unsure => current
    OBVIOUS
  <2> HIDE DEF unsure
  <2>2. QED BY <1>2, <1>5, <1>7, <2>1, OnceWrites
<1>8. CASE WriteIfCurrent(r, current, FALSE, mark, undo, done)
  BY <1>2, <1>5, <1>6, <1>8, OnceWrites
<1>9. QED BY <1>1, <1>2, <1>7, <1>8, OnceGoes

LEMMA OnceFails ==
  ASSUME TypeInv, OnceInv, NEW r \in Receipts, NEW err \in {None, RouteUnknown}, NEW to, RunInv(to),
         to.at # "post", RowFails(r, err, to)
  PROVE  OnceInv'
<1> USE DEF OnceInv
<1> DEFINE guard == rows[r].sync = "REVERSING"
           new == InState(r, "ERROR", err)
<1>1. guard => Writes(r, new)
  <2>1. guard => rows[r].exp # None
    BY Registered
  <2>2. "ERROR" \in SyncStates \ {"CREATING"} /\ err \in Errs
    BY States
  <2>3. QED BY <2>1, <2>2, OnceMark
<1>2. WriteIfCurrent(r, guard, FALSE, new, to, to)
  BY DEF RowFails
<1> HIDE DEF guard, new
<1>3. QED BY <1>1, <1>2, OnceWrites

\* A call that changes an entry of which the maker knows.
LEMMA OnceCalls ==
  ASSUME TypeInv, OnceInv, NEW i, NEW e, NEW then, NEW refused,
         i \in Ids => /\ entries[i].tag # None /\ Owned(i) /\ e.tag # None
                      /\ e.of = entries[i].of \/ e.of \notin Receipts,
         RunInv(then), then.at # "post", RunInv(refused), refused.at # "post",
         CallsMf(i, e, then, refused)
  PROVE  OnceInv'
<1> USE DEF OnceInv
<1>1. rows' = rows /\ sent' = sent
  BY DEF CallsMf
<1>2. BooksInv' /\ Grows /\ NoMore
  <2>1. CASE entries' = entries
    BY <1>1, <2>1, OnceStill
  <2>2. CASE Place(i, e)
    <3>1. \A j \in Ids : j # i => entries'[j] = entries[j]
      BY <2>2 DEF Place, TypeInv, TypeOK
    <3>2. i \in Ids => Alters(i)
      <4>1. i \in Ids => entries'[i] = e
        BY <2>2 DEF Place, TypeInv, TypeOK
      <4>2. QED BY <4>1 DEF Alters, Owned
    <3>3. QED BY <1>1, <3>1, <3>2, BooksStep
  <2>3. QED BY <2>1, <2>2 DEF CallsMf
<1>3. ASSUME NEW to, RunInv(to), to.at # "post", run' = to
      PROVE  RunInv(run)'
  <2>1. RunInv(to)'
    BY <1>2, <1>3, RunKept
  <2>2. QED BY <1>3, <2>1 DEF RunInv, Knows, AboutToPost, InVain
<1>4. run' = then \/ run' = refused \/ run' = Idle
  BY DEF CallsMf
<1>5. Idle.at # "post"
  BY DEF Idle
<1>6. QED BY <1>2, <1>3, <1>4, <1>5, IdleKnows

LEMMA OnceFinish ==
  ASSUME TypeInv, OnceInv, NEW r \in Receipts, FinishReversal(r)
  PROVE  OnceInv'
<1> USE DEF OnceInv
<1> DEFINE row  == run.seen[r]
           plan == PlanLinkedCancellation(rows, row, r)
           done == Done("maintain", r)
           seen == [rows EXCEPT ![r] = row]
           with == [Move("put") EXCEPT !.seen = seen, !.heir = plan.heir]
           fill == [with EXCEPT !.at = "fill"]
           undone == Move("undone")
           refused == Move("refused")
<1>1. /\ RunInv(done) /\ done.at # "post" /\ RunInv(undone) /\ undone.at # "post"
      /\ RunInv(refused) /\ refused.at # "post"
  BY DoneKnows, MoveKnows, PlainPlaces
<1>2. run.who = r /\ Owned(row.jid)
  BY DEF FinishReversal, At, RunInv, Knows
<1>3. row.jid # None => RunInv(with) /\ RunInv(fill)
  <2> DEFINE m == Move("put")
  <2>1. m \in Run /\ m.at = "put" /\ m.id = run.id /\ m.who = r /\ m.todo = run.todo
    <3>1. "put" \in Places /\ run \in Run
      BY DEF Places, TypeInv, TypeOK
    <3>2. QED BY <1>2, <3>1, MoveType DEF Run
  <2>2. seen \in [Receipts -> Row] /\ seen[r] = row /\ \A x \in Receipts : seen[x] \in {row, rows[x]}
    BY Parts DEF TypeInv, TypeOK
  <2> HIDE DEF m, plan, seen
  <2>3. with.at = "put" /\ with.id = run.id /\ with.who = r /\ with.todo = run.todo /\ with.seen = seen
    BY <2>1 DEF m, Run
  <2>4. fill.at = "fill" /\ fill.id = run.id /\ fill.who = r /\ fill.todo = run.todo /\ fill.seen = seen
    BY <2>1 DEF m, Run
  <2>5. \A x \in Receipts : Owned(seen[x].jid)
    BY <1>2, <2>2 DEF BooksInv
  <2>6. ASSUME NEW s, s.at \in {"put", "fill"}, s.id = run.id, s.who = r, s.todo = run.todo, s.seen = seen,
               row.jid # None
        PROVE  RunInv(s)
    <3>1. Knows(s)
      BY <1>2, <2>2, <2>5, <2>6 DEF RunInv, Knows
    <3>2. QED BY <2>6, <3>1 DEF RunInv, AboutToPost, InVain
  <2> HIDE DEF with, fill
  <2>7. QED BY <2>3, <2>4, <2>6
<1> HIDE DEF done, with, fill, plan, undone, refused
<1>4. \/ \E err \in {None, RouteUnknown} : RowFails(r, err, done)
      \/ row.jid # None /\ Live(row.jid) /\ CallsMf(row.jid, Deleted, undone, refused)
      \/ Goes(undone) \/ Goes(done) \/ (row.jid # None /\ (Goes(with) \/ Goes(fill)))
  <2>1. CASE row.jid = None
    BY <2>1 DEF FinishReversal, done
  <2>2. CASE row.jid # None /\ CancellationRoute(row) = "unknown"
    BY <2>2 DEF FinishReversal, done
  <2>3. CASE row.jid # None /\ CancellationRoute(row) = "delete"
    BY <2>3 DEF FinishReversal, undone, refused
  <2>4. CASE row.jid # None /\ CancellationRoute(row) = "put"
    <3>1. Goes(CASE plan.kind = "wait" -> done
                 [] plan.kind = "done" -> fill
                 [] OTHER -> IF Live(row.jid) THEN with ELSE undone)
      BY <2>4 DEF FinishReversal, done, with, fill, plan, undone
    <3>2. QED BY <2>4, <3>1
  <2>5. QED BY <2>1, <2>2, <2>3, <2>4, Routes
<1>5. CASE row.jid # None /\ Live(row.jid) /\ CallsMf(row.jid, Deleted, undone, refused)
  <2>1. Deleted.tag = "deleted" /\ Deleted.of = None /\ Deleted.tag # None
    BY DEF Deleted, NoEntry, None
  <2>2. QED BY <1>1, <1>2, <1>5, <2>1, Named, OnceCalls DEF Live
<1>6. QED BY <1>1, <1>3, <1>4, <1>5, OnceFails, OnceGoes

\* The run at the place where the heir's row is written.
LEMMA InheritKnows ==
  ASSUME TypeInv, RunInv(run), run.at = "put"
  PROVE  RunInv(Move("inherit")) /\ Move("inherit").at # "post"
<1> DEFINE m == Move("inherit")
<1>1. m.at = "inherit" /\ m.id = run.id /\ m.who = run.who /\ m.todo = run.todo /\ m.seen = run.seen
  BY DEF Move, TypeInv, TypeOK, Run
<1> HIDE DEF m
<1>2. Knows(m)
  BY <1>1 DEF RunInv, Knows
<1>3. QED BY <1>1, <1>2 DEF RunInv, AboutToPost, InVain, m

LEMMA OncePut ==
  ASSUME TypeInv, OnceInv, NEW r \in Receipts, PutJournal(r)
  PROVE  OnceInv'
<1> USE DEF OnceInv
<1> DEFINE id == run.seen[r].jid
           h  == run.heir
           inherit == Move("inherit")
           undone == Move("undone")
           refused == Move("refused")
<1>1. /\ RunInv(undone) /\ undone.at # "post" /\ RunInv(refused) /\ refused.at # "post"
      /\ RunInv(inherit) /\ inherit.at # "post"
  <2>1. run.at = "put"
    BY DEF PutJournal, At
  <2>2. QED BY <2>1, MoveKnows, PlainPlaces, InheritKnows
<1>2. Owned(id) /\ (id \in Ids => entries[id].tag # None /\ entries[id] \in Entry)
  <2>1. Owned(id)
    BY DEF RunInv, Knows
  <2>2. QED BY <2>1 DEF Owned, TypeInv, TypeOK
<1>3. h \in Receipts \cup {None}
  BY DEF TypeInv, TypeOK, Run
<1> HIDE DEF inherit, undone, refused
<1>4. CASE h = None
  <2> DEFINE e == [entries[id] EXCEPT !.tag = r, !.void = TRUE]
  <2>1. id \in Ids => e.tag = r /\ e.of = entries[id].of
    BY <1>2 DEF Entry
  <2>2. CallsMf(id, e, undone, refused)
    BY <1>4 DEF PutJournal, undone, refused
  <2> HIDE DEF e, id
  <2>3. QED BY <1>1, <1>2, <2>1, <2>2, Named, OnceCalls
<1>5. CASE h # None
  <2> DEFINE new == EntryFor(h, run.seen[h])
             e   == [new EXCEPT !.of = entries[id].of]
  <2>1. new \in Entry /\ new.tag = h
    BY <1>3, <1>5, Parts, RowEntryType
  <2> HIDE DEF new
  <2>2. e.tag = h /\ e.of = entries[id].of
    BY <2>1 DEF Entry
  <2>3. CallsMf(id, e, inherit, refused)
    BY <1>5 DEF PutJournal, new, inherit, refused
  <2> HIDE DEF e, id
  <2>4. QED BY <1>1, <1>2, <1>3, <1>5, <2>2, <2>3, OnceCalls
<1>6. QED BY <1>4, <1>5

LEMMA OnceHandOver ==
  ASSUME TypeInv, OnceInv, NEW r \in Receipts, Inherit(r) \/ FillHeir(r)
  PROVE  OnceInv'
<1> USE DEF OnceInv
<1> DEFINE h    == run.heir
           row  == run.seen[r]
           sum  == SummaryWithTx(run.seen[h], row.tx)
           done == Done("maintain", r)
           undone == Move("undone")
<1>1. h \in Receipts /\ run.who = r
  BY DEF TypeInv, TypeOK, Run, HandsOf, Inherit, FillHeir, At
<1>2. row.jid \in Ids \cup Txs /\ Owned(row.jid)
  BY <1>1, Parts DEF Inherit, FillHeir, At, RunInv, Knows
<1>3. sum \in Input /\ row.tx \in Txs \cup {None} /\ rows[h] \in Row
  <2>1. run.seen[h] \in Row /\ row.tx \in Txs \cup {None} /\ rows[h] \in Row
    BY <1>1, Parts DEF Row
  <2>2. QED BY <2>1, SummaryType
<1>4. /\ RunInv(done) /\ done.at # "post" /\ RunInv(undone) /\ undone.at # "post"
  BY DoneKnows, MoveKnows, PlainPlaces
<1> HIDE DEF h, sum, done, undone
<1>5. CASE Inherit(r)
  <2> DEFINE syn == Synced(h, row.jid)
             new == [syn EXCEPT !.tx = row.tx, !.input = sum]
             guard == /\ rows[h].exp = "COMPLETED" /\ rows[h].jid \in {None, row.jid} /\ Untouched(rows[h])
                      /\ SummarizeSyncInput(rows[h]) = SummarizeSyncInput(run.seen[h])
  <2>1. /\ syn \in Row /\ syn.sync = "SYNCED" /\ syn.jid = row.jid /\ syn.aged = rows[h].aged
        /\ syn.exp = rows[h].exp
    BY <1>1, <1>2, SyncedCells
  <2> HIDE DEF syn
  <2>2. /\ new \in Row /\ new.sync = "SYNCED" /\ new.jid = row.jid /\ new.aged = rows[h].aged
        /\ new.exp = rows[h].exp
    <3>1. new.sync = "SYNCED" /\ new.jid = row.jid /\ new.aged = syn.aged /\ new.exp = syn.exp
      BY <2>1 DEF Row
    <3>2. new \in Row
      BY <1>3, <2>1 DEF Row
    <3> HIDE DEF new
    <3>3. QED BY <2>1, <3>1, <3>2
  <2>3. WriteIfCurrent(h, guard, TRUE, new, undone, done)
    BY <1>5 DEF Inherit, h, syn, sum, undone, done
  <2>4. guard => rows[h].exp # None
    BY DEF None
  <2>5. row.jid \in Ids => entries[row.jid].tag # None /\ (Owned(row.jid) \/ entries[row.jid].of = h)
    BY <1>2 DEF Owned
  <2> HIDE DEF new, guard
  <2>6. guard => Writes(h, new)
    BY <1>1, <1>2, <2>2, <2>4, <2>5, OnceSynced
  <2>7. QED BY <1>1, <1>4, <2>3, <2>6, OnceWrites
<1>6. CASE FillHeir(r)
  <2> DEFINE new == [rows[h] EXCEPT !.tx = row.tx, !.input = sum]
             guard == /\ rows[h].jid = row.jid /\ rows[h].sync = "SYNCED"
                      /\ ~HasInputChanged(rows[h])
  <2>1. /\ new \in Row /\ new.sync = rows[h].sync /\ new.jid = rows[h].jid /\ new.aged = rows[h].aged
        /\ new.exp = rows[h].exp
    BY <1>3 DEF Row
  <2>2. \/ WriteIfCurrent(h, guard, FALSE, new, undone, undone)
        \/ Goes(undone)
    BY <1>6 DEF FillHeir, h, sum, undone
  <2>3. guard => rows[h].exp # None /\ rows[h].sync # "CREATING"
    BY <1>1, Registered
  <2> HIDE DEF new
  <2>4. guard => Writes(h, new)
    BY <1>1, <2>1, <2>3, OnceNew
  <2> HIDE DEF guard
  <2>5. QED BY <1>1, <1>4, <2>2, <2>4, OnceWrites, OnceGoes
<1>7. QED BY <1>5, <1>6

LEMMA OnceReversed ==
  ASSUME TypeInv, OnceInv, NEW r \in Receipts, RecordReversed(r)
  PROVE  OnceInv'
<1> USE DEF OnceInv
<1> DEFINE done == Done("maintain", r)
           new == InState(r, "REVERSED", None)
           guard == rows[r].sync = "REVERSING"
<1>1. RunInv(done) /\ done.at # "post"
  BY DoneKnows, PlainPlaces
<1>2. guard => Writes(r, new)
  <2>1. guard => rows[r].exp # None
    BY Registered
  <2>2. "REVERSED" \in SyncStates \ {"CREATING"} /\ None \in Errs
    BY States
  <2>3. QED BY <2>1, <2>2, OnceMark
<1>3. RowFails(r, None, done) \/ WriteIfCurrent(r, guard, FALSE, new, done, done)
  BY DEF RecordReversed
<1> HIDE DEF done, new, guard
<1>4. QED BY <1>1, <1>2, <1>3, OnceFails, OnceWrites

-----------------------------------------------------------------------------
(* Changed and new rows, creations.                                        *)

LEMMA OnceDetect ==
  ASSUME TypeInv, OnceInv, NEW r \in Receipts, DetectChange(r) \/ HoldRuleConflict(r)
  PROVE  OnceInv'
<1> USE DEF OnceInv
<1> DEFINE new == InState(r, "NEEDS_REVIEW", None)
           changed == rows[r].sync = "SYNCED" /\ HasInputChanged(rows[r])
           waits == rows[r].sync = "WAITING_TRANSACTION" /\ rows[r].jid = None
           detect == Done("detect", r)
           rules == Done("rules", r)
<1>1. RunInv(detect) /\ detect.at # "post" /\ RunInv(rules) /\ rules.at # "post"
  BY DoneKnows, PlainPlaces
<1>2. changed \/ waits => Writes(r, new)
  <2>1. changed \/ waits => rows[r].exp # None /\ rows[r].sync # "CREATING"
    BY Registered
  <2>2. "NEEDS_REVIEW" \in SyncStates \ {"CREATING"} /\ None \in Errs
    BY States
  <2> HIDE DEF changed, waits
  <2>3. QED BY <2>1, <2>2, OnceMark
<1>3. \/ WriteIfCurrent(r, changed, FALSE, new, detect, detect)
      \/ WriteIfCurrent(r, waits, FALSE, new, rules, rules)
  BY DEF DetectChange, HoldRuleConflict
<1> HIDE DEF new, changed, waits, detect, rules
<1>4. QED BY <1>1, <1>2, <1>3, OnceWrites

LEMMA OnceClassify ==
  ASSUME TypeInv, Admits, OnceInv, NEW r \in Receipts, Classify(r)
  PROVE  OnceInv'
<1> USE DEF OnceInv
<1> DEFINE state == InitialStateFor(run.seen[r])
           new == InState(r, state, None)
           guard == rows[r].sync = run.seen[r].sync /\ rows[r].jid = None
           done == Done("classify", r)
<1>1. run.at = "classify" /\ r \in run.todo
  BY DEF Classify, Takes
<1>2. run.seen[r].sync \in {"", "PENDING"}
  BY <1>1 DEF Admits, Chosen
<1>3. state \in SyncStates \ {"CREATING"} /\ None \in Errs
  BY <1>2, States DEF InitialStateFor
<1>4. RunInv(done) /\ done.at # "post"
  BY DoneKnows, PlainPlaces
<1>5. rows[r].exp # None
  BY <1>1 DEF RunInv, Knows
<1> HIDE DEF state
<1>6. guard => Writes(r, new)
  BY <1>2, <1>3, <1>5, OnceMark
<1>7. WriteIfCurrent(r, guard, FALSE, new, done, done)
  BY DEF Classify, state
<1> HIDE DEF guard, new, done
<1>8. QED BY <1>4, <1>6, <1>7, OnceWrites

\* The run at another place, with row r and an id in its hands.
LEMMA HandsKnow ==
  ASSUME TypeInv, RunInv(run), NEW r \in Receipts, r \in run.todo, run.who = None
  PROVE  /\ RunInv([Move("mark") EXCEPT !.who = r])
         /\ \A i \in Ids \cup Txs : (i \in Ids => entries[i].tag # None /\ (Owned(i) \/ entries[i].of = r))
              => RunInv([Move("adopt") EXCEPT !.who = r, !.id = i])
<1> DEFINE m == Move("mark")
           a == Move("adopt")
<1>1. /\ m \in Run /\ m.at = "mark" /\ m.id = run.id /\ m.seen = run.seen /\ m.todo = run.todo
      /\ a \in Run /\ a.at = "adopt" /\ a.seen = run.seen /\ a.todo = run.todo
  <2>1. "mark" \in Places /\ "adopt" \in Places /\ run \in Run
    BY DEF Places, TypeInv, TypeOK
  <2>2. QED BY <2>1, MoveType DEF Run
<1> HIDE DEF m, a
<1>2. RunInv([m EXCEPT !.who = r])
  <2> DEFINE to == [m EXCEPT !.who = r]
  <2>1. to.at = "mark" /\ to.id = run.id /\ to.seen = run.seen /\ to.todo = run.todo /\ to.who = r
    BY <1>1 DEF Run
  <2>2. run.id \in Ids => entries[run.id].tag # None /\ Owned(run.id)
    BY Named DEF RunInv, Knows, Owned
  <2> HIDE DEF to
  <2>3. Knows(to)
    BY <2>1, <2>2 DEF RunInv, Knows
  <2>4. QED BY <2>1, <2>3, PlainKnows, PlainPlaces DEF to
<1>3. ASSUME NEW i \in Ids \cup Txs, i \in Ids => entries[i].tag # None /\ (Owned(i) \/ entries[i].of = r)
      PROVE  RunInv([a EXCEPT !.who = r, !.id = i])
  <2> DEFINE to == [a EXCEPT !.who = r, !.id = i]
  <2>1. to.at = "adopt" /\ to.id = i /\ to.seen = run.seen /\ to.todo = run.todo /\ to.who = r
    BY <1>1 DEF Run
  <2> HIDE DEF to
  <2>2. Knows(to)
    BY <1>3, <2>1, Named DEF RunInv, Knows
  <2>3. QED BY <2>1, <2>2 DEF RunInv, AboutToPost, InVain, to
<1>4. QED BY <1>2, <1>3 DEF m, a

LEMMA OnceSearch ==
  ASSUME TypeInv, OnceInv, NEW r \in Receipts, SearchFirst(r)
  PROVE  OnceInv'
<1> USE DEF OnceInv
<1>1. r \in run.todo /\ run.who = None
  BY DEF SearchFirst, Takes
<1>2. CASE Goes([Move("mark") EXCEPT !.who = r])
  BY <1>1, <1>2, HandsKnow, OnceGoes
<1>3. ASSUME NEW i \in Ids \cup Txs, entries[i].tag = r, Goes([Move("adopt") EXCEPT !.who = r, !.id = i])
      PROVE  OnceInv'
  <2>1. i \in Ids => entries[i].tag # None /\ (Owned(i) \/ entries[i].of = r)
    BY <1>3, FoundByTag
  <2>2. QED BY <1>1, <1>3, <2>1, HandsKnow, OnceGoes
<1>4. QED BY <1>2, <1>3 DEF SearchFirst, FindJournalsByTag

LEMMA OnceAdopt ==
  ASSUME TypeInv, OnceInv, NEW r \in Receipts, Adopt(r)
  PROVE  OnceInv'
<1> USE DEF OnceInv
<1> DEFINE syn  == Synced(r, run.id)
           sum  == SummarizeSyncInput(run.seen[r])
           new  == [syn EXCEPT !.input = sum]
           guard == rows[r].sync = "PENDING"
           done == Done("create", r)
<1>1. WriteIfCurrent(r, guard, TRUE, new, done, done)
  BY DEF Adopt
<1>2. RunInv(done) /\ done.at # "post"
  BY DoneKnows, PlainPlaces
<1>3. /\ run.id \in Ids \cup Txs /\ rows[r].exp # None
      /\ run.id \in Ids => entries[run.id].tag # None /\ (Owned(run.id) \/ entries[run.id].of = r)
  BY Parts DEF Adopt, At, RunInv, Knows
<1>4. /\ syn \in Row /\ syn.sync = "SYNCED" /\ syn.jid = run.id /\ syn.aged = rows[r].aged
      /\ syn.exp = rows[r].exp
  BY <1>3, SyncedCells
<1>5. sum \in Input
  BY Parts, SummaryType
<1> HIDE DEF syn, sum
<1>6. /\ new \in Row /\ new.sync = "SYNCED" /\ new.jid = run.id /\ new.aged = rows[r].aged
      /\ new.exp = rows[r].exp
  BY <1>4, <1>5 DEF Row
<1> HIDE DEF new, done, guard
<1>7. Writes(r, new)
  BY <1>3, <1>6, OnceSynced
<1>8. QED BY <1>1, <1>2, <1>7, OnceWrites

LEMMA OnceMarked ==
  ASSUME TypeInv, OnceInv, NEW r \in Receipts, MarkCreating(r)
  PROVE  OnceInv'
<1> USE DEF OnceInv
<1> DEFINE cre  == InState(r, "CREATING", None)
           sum  == SummarizeSyncInput(run.seen[r])
           mark == [cre EXCEPT !.aged = FALSE, !.input = sum]
           post == [Move("post") EXCEPT !.seen[r] = mark]
           done == Done("create", r)
           guard == /\ rows[r].sync = "PENDING" /\ rows[r].exp = "COMPLETED" /\ rows[r].jid = None
                    /\ DecideSyncTarget(rows[r]) = "ready" /\ rows[r].method = "cash"
                    /\ SummarizeSyncInput(rows[r]) = sum
<1>1. WriteIfCurrent(r, guard, FALSE, mark, post, done)
  BY DEF MarkCreating
<1>2. RunInv(done) /\ done.at # "post" /\ RunInv(Move("threw")) /\ Move("threw").at # "post"
      /\ RunInv(Idle) /\ Idle.at # "post"
  BY DoneKnows, MoveKnows, PlainPlaces, IdleKnows DEF Idle
<1>3. run.who = r
  BY DEF MarkCreating, At
<1>4. /\ cre \in Row /\ cre.sync = "CREATING" /\ cre.jid = rows[r].jid /\ cre.exp = rows[r].exp
      /\ cre.day = rows[r].day
  <2>1. "CREATING" \in SyncStates /\ None \in Errs
    BY States
  <2>2. QED BY <2>1, InStateCells
<1>5. sum \in Input /\ sum.day = run.seen[r].day
  BY Parts, SummaryType DEF SummarizeSyncInput, SummaryWithTx
<1>6. guard => /\ rows[r].jid = None /\ rows[r].sync = "PENDING" /\ rows[r].exp # None
               /\ rows[r].day = sum.day
  BY DEF None, SummarizeSyncInput, SummaryWithTx
<1> HIDE DEF cre, sum
<1>7. /\ mark \in Row /\ mark.sync = "CREATING" /\ mark.jid = rows[r].jid /\ mark.exp = rows[r].exp
      /\ mark.aged = FALSE /\ mark.input = sum /\ mark.day = rows[r].day
  BY <1>4, <1>5 DEF Row
<1> HIDE DEF mark, guard
<1>8. guard => Made(r) = {}
  BY <1>6, NoneMade
<1>9. guard => Writes(r, mark)
  <2>1. Owned(rows[r].jid)
    BY DEF BooksInv
  <2>2. QED BY <1>6, <1>7, <1>8, <2>1 DEF Writes
<1>10. BooksInv' /\ Grows /\ NoMore
  BY <1>1, <1>9, OnceWritten
<1>11. ASSUME NEW to, RunInv(to), to.at # "post", run' = to
       PROVE  RunInv(run)'
  <2>1. RunInv(to)'
    BY <1>10, <1>11, RunKept
  <2>2. QED BY <1>11, <2>1 DEF RunInv, Knows, AboutToPost, InVain
<1>12. ASSUME NEW to, to = post, guard, run' = to, rows' = [rows EXCEPT ![r] = mark]
       PROVE  RunInv(run)'
  <2>1. /\ to.at = "post" /\ to.id = run.id /\ to.who = r /\ to.todo = run.todo
        /\ to.seen = [run.seen EXCEPT ![r] = mark]
    <3> DEFINE m == Move("post")
    <3>1. m \in Run /\ m.at = "post" /\ m.id = run.id /\ m.who = r /\ m.todo = run.todo /\ m.seen = run.seen
      <4>1. "post" \in Places /\ run \in Run
        BY DEF Places, TypeInv, TypeOK
      <4>2. QED BY <1>3, <4>1, MoveType DEF Run
    <3> HIDE DEF m
    <3>2. QED BY <1>12, <3>1 DEF Run, m
  <2>2. to.seen[r] = mark /\ rows'[r] = mark /\ \A x \in Receipts : to.seen[x] \in {mark, run.seen[x]}
    BY <1>12, <2>1 DEF TypeInv, TypeOK, Run
  <2>3. Knows(to)'
    <3>1. \A x \in Receipts : Owned(to.seen[x].jid)
      BY <1>7, <2>2 DEF RunInv, Knows, BooksInv
    <3>2. Knows(to)
      BY <1>3, <2>1, <3>1 DEF RunInv, Knows
    <3>3. QED BY <1>10, <3>2, KnowsKept
  <2>4. AboutToPost(to)'
    <3>1. Made(r)' = {}
      BY <1>8, <1>10, <1>12 DEF NoMore
    <3>2. QED BY <1>6, <1>7, <1>12, <2>1, <2>2, <3>1 DEF AboutToPost
  <2>5. InVain(to)'
    BY <2>1 DEF InVain
  <2>6. RunInv(to)'
    BY <2>3, <2>4, <2>5 DEF RunInv
  <2>7. QED BY <1>12, <2>6 DEF RunInv, Knows, AboutToPost, InVain
<1>13. \/ run' = Idle \/ run' = Move("threw") \/ run' = done
       \/ guard /\ run' = post /\ rows' = [rows EXCEPT ![r] = mark]
  BY <1>1 DEF WriteIfCurrent
<1> HIDE DEF done, post
<1>14. QED BY <1>2, <1>10, <1>11, <1>12, <1>13

\* What is known at the place of the POST.
LEMMA PostKnows ==
  ASSUME TypeInv, OnceInv, NEW r \in Receipts, At("post", r)
  PROVE  /\ rows[r].sync = "CREATING" /\ rows[r].jid = None /\ ~rows[r].aged /\ Made(r) = {} /\ Pending(r) = {}
         /\ EntryFor(r, run.seen[r]) \in Entry /\ EntryFor(r, run.seen[r]).tag = r
         /\ EntryFor(r, run.seen[r]).of = r /\ EntryFor(r, run.seen[r]).day = rows[r].input.day
<1>1. /\ rows[r].sync = "CREATING" /\ rows[r].jid = None /\ ~rows[r].aged
      /\ Made(r) = {} /\ run.seen[r].day = rows[r].input.day
  BY DEF OnceInv, RunInv, AboutToPost, At
<1>2. /\ EntryFor(r, run.seen[r]) \in Entry /\ EntryFor(r, run.seen[r]).tag = r
      /\ EntryFor(r, run.seen[r]).of = r
  BY Parts, RowEntryType
<1>3. EntryFor(r, run.seen[r]).day = run.seen[r].day
  BY DEF EntryFor, NoEntry
<1>4. QED BY <1>1, <1>2, <1>3, MadeIs

\* An id that is free is of no entry, of no creation under way, and no row names it.
LEMMA FreshIs ==
  ASSUME TypeInv, OnceInv, NEW i \in Ids, Creatable(i)
  PROVE  /\ entries[i] = NoEntry /\ entries[i].tag = None /\ entries[i].of = None
         /\ \A q \in sent : q.id # i
<1>1. Fresh(i)
  BY Named DEF Creatable
<1>2. QED BY <1>1 DEF Fresh, NoEntry

\* The books once the creation of e for r has taken effect in i, or may: the two cases differ in
\* where the creation is, not in what is known of it.
LEMMA OnceMade ==
  ASSUME TypeInv, OnceInv, NEW r \in Receipts, At("post", r), NEW i \in Ids, Creatable(i), NEW e,
         e = EntryFor(r, run.seen[r]), rows' = rows,
         \/ Place(i, e) /\ sent' = sent
         \/ entries' = entries /\ sent' = sent \cup {[id |-> i, entry |-> e]}
  PROVE  BooksInv' /\ Grows
<1> USE DEF OnceInv, BooksInv
<1>1. /\ rows[r].sync = "CREATING" /\ rows[r].jid = None /\ ~rows[r].aged /\ Made(r) = {} /\ Pending(r) = {}
      /\ e \in Entry /\ e.tag = r /\ e.of = r /\ e.day = rows[r].input.day
  BY PostKnows
<1>2. entries[i] = NoEntry /\ entries[i].tag = None /\ entries[i].of = None /\ \A q \in sent : q.id # i
  BY FreshIs
<1>3. \A j \in Ids : entries'[j] = entries[j] \/ (j = i /\ entries'[j] = e /\ sent' = sent)
  BY DEF Place, TypeInv, TypeOK
<1>4. \A q \in sent' : q \in sent \/ (q = [id |-> i, entry |-> e] /\ entries' = entries)
  OBVIOUS
<1>5. Grows
  BY <1>2, <1>3 DEF Grows
<1>6. ASSUME NEW x \in Receipts
      PROVE  \A q \in Pending(x)' : q \in Pending(x) \/ (x = r /\ q = [id |-> i, entry |-> e])
  BY <1>1, <1>4 DEF Pending
<1>7. ASSUME NEW x \in Receipts
      PROVE  \A j \in Made(x)' : j \in Made(x) \/ (x = r /\ j = i)
  <2>1. ASSUME NEW j \in Made(x)'
        PROVE  j \in Made(x) \/ (x = r /\ j = i)
    <3>1. CASE j \in Ids /\ entries'[j].of = x
      BY <1>1, <1>3, <3>1 DEF Made
    <3>2. CASE \E q \in sent' : q.id \in Ids /\ q.entry.of = x /\ j = q.id
      BY <1>1, <1>4, <3>2 DEF Made
    <3>3. QED BY <2>1, <3>1, <3>2 DEF Made
  <2>2. QED BY <2>1
<1>8. Reserved'
  <2>1. ASSUME NEW q \in sent', q.id \in Ids
        PROVE  /\ entries'[q.id] = NoEntry /\ q.entry.of = q.entry.tag /\ q.entry.tag # None
               /\ \A p \in sent' : p.id = q.id => p = q
    <3>1. CASE q \in sent
      BY <1>2, <1>3, <1>4, <2>1, <3>1 DEF Reserved
    <3>2. CASE q = [id |-> i, entry |-> e] /\ entries' = entries
      BY <1>1, <1>2, <1>4, <3>2, Named
    <3>3. QED BY <1>4, <3>1, <3>2
  <2>2. QED BY <2>1 DEF Reserved
<1>9. Tagged'
  BY <1>1, <1>3 DEF Tagged
<1>10. Awaited'
  <2>1. ASSUME NEW x \in Receipts, rows[x].jid = None, Made(x)' # {}
        PROVE  /\ rows[x].sync = "CREATING"
               /\ \A j \in Ids : entries'[j].of = x => entries'[j].day = rows[x].input.day
               /\ \A q \in Pending(x)' : q.entry.day = rows[x].input.day
    <3>1. CASE x = r
      <4>1. \A j \in Ids : entries[j].of # r
        BY <1>1, MadeIs
      <4>2. \A j \in Ids : entries'[j].of = r => entries'[j].day = rows[r].input.day
        BY <1>1, <1>3, <4>1
      <4>3. QED BY <1>1, <1>6, <3>1, <4>2
    <3>2. CASE x # r
      <4>1. Made(x) # {}
        BY <1>7, <2>1, <3>2
      <4>2. /\ rows[x].sync = "CREATING"
            /\ \A j \in Ids : entries[j].of = x => entries[j].day = rows[x].input.day
            /\ \A q \in Pending(x) : q.entry.day = rows[x].input.day
        BY <2>1, <4>1 DEF Awaited
      <4>3. \A j \in Ids : entries'[j].of = x => entries'[j].day = rows[x].input.day
        BY <1>1, <1>3, <3>2, <4>2
      <4>4. QED BY <1>6, <3>2, <4>2, <4>3
    <3>3. QED BY <3>1, <3>2
  <2>2. QED BY <2>1 DEF Awaited
<1>11. Single'
  <2>1. ASSUME NEW x \in Receipts, NEW j \in Made(x)', NEW k \in Made(x)'
        PROVE  j = k
    BY <1>1, <1>7 DEF Single
  <2>2. QED BY <2>1 DEF Single
<1>12. Overdue'
  BY <1>1, <1>6 DEF Overdue
<1>13. Unregistered' /\ \A x \in Receipts : Owned(rows[x].jid)'
  BY <1>5, OwnedGrows DEF Unregistered, Owned
<1>14. QED BY <1>5, <1>8, <1>9, <1>10, <1>11, <1>12, <1>13

LEMMA OncePost ==
  ASSUME TypeInv, OnceInv, NEW r \in Receipts, PostJournal(r)
  PROVE  OnceInv'
<1> USE DEF OnceInv
<1> DEFINE e == EntryFor(r, run.seen[r])
<1>1. At("post", r) /\ run.who = r
  BY DEF PostJournal, At
<1>2. ASSUME NEW i \in Ids, Creatable(i), Place(i, e), NEW to,
             to = [Move("entered") EXCEPT !.id = i, !.back = "create"], run' = to, rows' = rows, sent' = sent
      PROVE  OnceInv'
  <2>1. BooksInv' /\ Grows
    BY <1>1, <1>2, OnceMade
  <2>2. /\ to.at = "entered" /\ to.id = i /\ to.who = r /\ to.todo = run.todo /\ to.seen = run.seen
    <3> DEFINE m == Move("entered")
    <3>1. m \in Run /\ m.at = "entered" /\ m.who = r /\ m.todo = run.todo /\ m.seen = run.seen
      <4>1. "entered" \in Places /\ run \in Run
        BY DEF Places, TypeInv, TypeOK
      <4>2. QED BY <1>1, <4>1, MoveType DEF Run
    <3> HIDE DEF m
    <3>2. QED BY <1>2, <3>1 DEF Run, m
  <2>3. entries'[i].tag = r /\ entries'[i].of = r
    <3>1. e.tag = r /\ e.of = r
      BY <1>1, PostKnows
    <3> HIDE DEF e
    <3>2. QED BY <1>2, <3>1 DEF Place, TypeInv, TypeOK
  <2>4. \A x \in Receipts : Owned(to.seen[x].jid)'
    <3>1. \A x \in Receipts : Owned(to.seen[x].jid)
      BY <2>2 DEF RunInv, Knows
    <3>2. QED BY <2>1, <3>1, OwnedGrows
  <2>5. Knows(to)'
    <3>1. \A x \in Receipts : x \in to.todo \/ x = to.who => rows[x].exp # None
      BY <1>1, <2>2 DEF RunInv, Knows
    <3>2. QED BY <1>2, <2>2, <2>3, <2>4, <3>1, Named DEF Knows
  <2>6. RunInv(to)'
    BY <2>2, <2>5 DEF RunInv, AboutToPost, InVain
  <2>7. QED BY <1>2, <2>1, <2>6 DEF RunInv, Knows, AboutToPost, InVain
<1>3. ASSUME NEW i \in Ids, Creatable(i), GivesUp(i, e, Done("create", r))
      PROVE  OnceInv'
  <2> DEFINE d == Done("create", r)
  <2>1. BooksInv' /\ Grows
    BY <1>1, <1>3, OnceMade DEF GivesUp
  <2>2. Knows(d) /\ d.at = "create" /\ d \in Run
    BY DoneKnows, DoneTyped, PlainPlaces DEF RunInv
  <2> HIDE DEF d
  <2>3. PICK to : to = [d EXCEPT !.halted = TRUE] /\ run' = to
    BY <1>3 DEF GivesUp, d
  <2>4. to.at = "create" /\ to.id = d.id /\ to.who = d.who /\ to.todo = d.todo /\ to.seen = d.seen
    BY <2>2, <2>3 DEF Run
  <2>5. Knows(to)
    BY <2>2, <2>4 DEF Knows
  <2>6. Knows(to)'
    BY <2>1, <2>5, KnowsKept
  <2>7. RunInv(to)'
    BY <2>4, <2>6 DEF RunInv, AboutToPost, InVain
  <2>8. QED BY <2>1, <2>3, <2>7 DEF RunInv, Knows, AboutToPost, InVain
<1>4. ASSUME NEW p \in {"rejected", "limited"}, Goes(Move(p))
      PROVE  OnceInv'
  <2>1. /\ Move(p).at = p /\ Move(p).id = run.id /\ Move(p).who = r /\ Move(p).seen = run.seen
        /\ Move(p).todo = run.todo
    BY <1>1 DEF Move, TypeInv, TypeOK, Run
  <2>2. Made(r) = {}
    BY <1>1, PostKnows
  <2>3. RunInv(Move(p))
    BY <1>1, <1>4, <2>1, <2>2 DEF RunInv, Knows, AboutToPost, InVain
  <2>4. QED BY <1>4, <2>3, OnceGoes
<1>5. \/ \E i \in Ids : /\ Creatable(i) /\ Place(i, e) /\ rows' = rows /\ sent' = sent
                        /\ run' = [Move("entered") EXCEPT !.id = i, !.back = "create"]
      \/ \E i \in Ids : Creatable(i) /\ GivesUp(i, e, Done("create", r))
      \/ \E p \in {"rejected", "limited"} : Goes(Move(p))
  BY DEF PostJournal
<1> HIDE DEF e
<1>6. QED BY <1>2, <1>3, <1>4, <1>5

LEMMA OnceRefused ==
  ASSUME TypeInv, OnceInv, NEW r \in Receipts, RecordRefused(r)
  PROVE  OnceInv'
<1> USE DEF OnceInv
<1> DEFINE guard == rows[r].sync = "CREATING"
           a == InState(r, "ERROR", None)
           b == [rows[r] EXCEPT !.sync = "PENDING"]
           done == Done("create", r)
<1>1. Made(r) = {} /\ rows[r].exp # None
  BY DEF RecordRefused, At, RunInv, InVain, Knows
<1>2. RunInv(done) /\ done.at # "post" /\ RunInv(Idle) /\ Idle.at # "post"
  BY DoneKnows, PlainPlaces, IdleKnows DEF Idle
<1>3. Writes(r, a)
  <2>1. "ERROR" \in SyncStates \ {"CREATING"} /\ None \in Errs
    BY States
  <2>2. QED BY <1>1, <2>1, OnceMark
<1>4. Writes(r, b)
  <2>1. /\ b \in Row /\ b.sync = "PENDING" /\ b.jid = rows[r].jid /\ b.exp = rows[r].exp
        /\ b.aged = rows[r].aged
    BY Parts, States DEF Row
  <2> HIDE DEF b
  <2>2. QED BY <1>1, <2>1, OnceNew
<1>5. WriteIfCurrent(r, guard, FALSE, a, done, done) \/ WriteIfCurrent(r, guard, FALSE, b, Idle, Idle)
  BY DEF RecordRefused
<1> HIDE DEF guard, a, b, done
<1>6. QED BY <1>2, <1>3, <1>4, <1>5, OnceWrites

LEMMA OnceEntered ==
  ASSUME TypeInv, OnceInv, NEW r \in Receipts, RecordEntered(r)
  PROVE  OnceInv'
<1> USE DEF OnceInv
<1> DEFINE new == Synced(r, run.id)
           back == Back(r)
<1>1. /\ run.id \in Ids \cup Txs /\ rows[r].exp # None
      /\ run.id \in Ids => entries[run.id].tag # None /\ (Owned(run.id) \/ entries[run.id].of = r)
  BY Parts DEF RecordEntered, At, RunInv, Knows
<1>2. Writes(r, new)
  BY <1>1, SyncedCells, OnceSynced
<1>3. RunInv(back) /\ back.at # "post"
  <2>1. run.back # None
    BY DEF RecordEntered, At, TypeInv, HandsOf
  <2>2. QED BY <2>1, BackKnows
<1>4. WriteIfCurrent(r, TRUE, TRUE, new, back, back)
  BY DEF RecordEntered
<1> HIDE DEF new, back
<1>5. QED BY <1>2, <1>3, <1>4, OnceWrites

-----------------------------------------------------------------------------
(* Statement lines, phases.                                                *)

\* A creation from a line, answered or given up, leaves the entries made from nothing alone.
LEMMA OnceLine ==
  ASSUME TypeInv, OnceInv, NEW t \in Txs, NEW e, NEW to, RunInv(to), to.at # "post", run' = to, rows' = rows,
         \/ Place(t, e) /\ sent' = sent
         \/ entries' = entries /\ sent' = sent \cup {[id |-> t, entry |-> e]}
  PROVE  OnceInv'
<1> USE DEF OnceInv
<1>1. \A q \in sent' : q \in sent \/ q.id \notin Ids
  BY Named
<1>2. BooksInv' /\ Grows /\ NoMore
  <2>1. CASE Place(t, e)
    BY <1>1, <2>1, OnceLineEntry
  <2>2. CASE entries' = entries
    BY <1>1, <2>2, BooksStep
  <2>3. QED BY <2>1, <2>2
<1>3. RunInv(to)'
  BY <1>2, RunKept
<1>4. QED BY <1>2, <1>3 DEF RunInv, Knows, AboutToPost, InVain

\* An execution that makes no further creation knows what it knew.
LEMMA HaltedKnows ==
  ASSUME NEW s \in Run, RunInv(s)
  PROVE  RunInv([s EXCEPT !.halted = TRUE]) /\ [s EXCEPT !.halted = TRUE].at = s.at
<1> DEFINE h == [s EXCEPT !.halted = TRUE]
<1>1. h.at = s.at /\ h.id = s.id /\ h.who = s.who /\ h.seen = s.seen /\ h.todo = s.todo
  BY DEF Run
<1> HIDE DEF h
<1>2. QED BY <1>1 DEF RunInv, Knows, AboutToPost, InVain, h

LEMMA OnceByRule ==
  ASSUME TypeInv, OnceInv, NEW t \in Txs, JournalizeByRule(t)
  PROVE  OnceInv'
<1> USE DEF OnceInv
<1> DEFINE on == [run EXCEPT !.lines = @ \ {t}]
           e  == EntryFor("private", LineOf[t])
<1>1. on \in Run /\ on.at = "rules" /\ on.id = run.id /\ on.who = run.who /\ on.seen = run.seen
      /\ on.todo = run.todo
  BY DEF JournalizeByRule, TypeInv, TypeOK, Run
<1> HIDE DEF on, e
<1>2. Knows(on)
  BY <1>1 DEF RunInv, Knows
<1>3. RunInv(on)
  BY <1>1, <1>2, PlainKnows, PlainPlaces
<1>4. CASE Place(t, e) /\ run' = on /\ UNCHANGED <<rows, sent, faults, edits>>
  BY <1>1, <1>3, <1>4, OnceLine
<1>5. CASE GivesUp(t, e, on)
  BY <1>1, <1>3, <1>5, HaltedKnows, OnceLine DEF GivesUp
<1>6. CASE Goes(on)
  BY <1>3, <1>6, OnceGoes
<1>7. QED BY <1>4, <1>5, <1>6 DEF JournalizeByRule, on, e

LEMMA OnceStart ==
  ASSUME TypeInv, OnceInv, NEW r \in Receipts, NEW t \in Txs, NEW auto \in BOOLEAN,
         run.at \in {"human", "match"}, run.who = None, r \in run.todo, StartJournalize(r, t, auto)
  PROVE  OnceInv'
<1> USE DEF OnceInv
<1> DEFINE mark == Claimed(r, t)
           send == [Move("send") EXCEPT !.who = r, !.seen[r] = mark, !.back = run.at]
           done == Done(run.at, r)
           guard == /\ rows[r].sync = run.seen[r].sync /\ rows[r].exp = "COMPLETED"
                    /\ rows[r].jid = None /\ CanTransition(rows[r].sync, "JOURNALIZING")
                    /\ DecideSyncTarget(rows[r]) = "ready" /\ rows[r].method = run.seen[r].method
                    /\ rows[r].tx \in {None, t}
                    /\ SummaryWithTx(rows[r], t) = SummaryWithTx(run.seen[r], t)
                    /\ t \notin UsedTransactions(rows, r)
                    /\ (auto => Matched(rows, LineOf, run.pool, r) = {t})
<1>1. WriteIfCurrent(r, guard, FALSE, mark, send, done)
  BY DEF StartJournalize
<1>2. RunInv(done) /\ done.at # "post"
  BY DoneKnows, PlainPlaces
<1>3. /\ mark \in Row /\ mark.sync = "JOURNALIZING" /\ mark.jid = rows[r].jid /\ mark.exp = rows[r].exp
      /\ mark.aged = FALSE
  <2>1. /\ mark \in Row /\ mark.sync = "JOURNALIZING" /\ mark.jid = rows[r].jid /\ mark.exp = rows[r].exp
    BY ClaimedCells
  <2>2. mark.aged = FALSE
    <3> DEFINE old == InState(r, "JOURNALIZING", None)
    <3>1. "JOURNALIZING" \in SyncStates /\ None \in Errs
      BY States
    <3>2. old \in Row
      BY <3>1, InStateCells
    <3> HIDE DEF old
    <3>3. mark = [old EXCEPT !.tx = t, !.aged = FALSE, !.input = SummaryWithTx(run.seen[r], t)]
      BY DEF Claimed, old
    <3>4. QED BY <3>2, <3>3 DEF Row
  <2>3. QED BY <2>1, <2>2
<1>4. guard => rows[r].exp # None /\ rows[r].sync # "CREATING"
  BY DEF CanTransition, Transitions, None
<1> HIDE DEF guard, mark
<1>5. guard => Writes(r, mark)
  BY <1>3, <1>4, OnceNew
<1>6. RunInv(send) /\ send.at = "send"
  <2> DEFINE m == Move("send")
  <2>1. m \in Run /\ m.at = "send" /\ m.id = run.id /\ m.seen = run.seen /\ m.todo = run.todo
    <3>1. "send" \in Places /\ run \in Run
      BY DEF Places, TypeInv, TypeOK
    <3>2. QED BY <3>1, MoveType DEF Run
  <2> HIDE DEF m
  <2>2. /\ send.at = "send" /\ send.id = run.id /\ send.who = r /\ send.todo = run.todo
        /\ send.seen = [run.seen EXCEPT ![r] = mark] /\ run.seen \in [Receipts -> Row]
    BY <2>1 DEF Run, m
  <2> HIDE DEF send
  <2>3. run.id \in Ids => entries[run.id].tag # None /\ Owned(run.id)
    BY Named DEF RunInv, Knows, Owned
  <2>4. \A x \in Receipts : Owned(send.seen[x].jid)
    BY <1>3, <2>2 DEF RunInv, Knows, BooksInv
  <2>5. Knows(send)
    BY <2>2, <2>3, <2>4 DEF RunInv, Knows
  <2>6. QED BY <2>2, <2>5, PlainKnows, PlainPlaces
<1> HIDE DEF send, done
<1>7. QED BY <1>1, <1>2, <1>5, <1>6, OnceWrites

LEMMA OnceHuman ==
  ASSUME TypeInv, OnceInv, NEW r \in Receipts, HumanTransaction(r)
  PROVE  OnceInv'
<1> USE DEF OnceInv
<1> DEFINE t == run.seen[r].tx
           old == rows[r]
           new == [old EXCEPT !.err = None]
           guard == rows[r].sync = "NEEDS_REVIEW" /\ rows[r].tx = t
           done == Done("human", r)
<1>1. run.at = "human" /\ run.who = None /\ r \in run.todo
  BY DEF HumanTransaction, Takes
<1>2. \/ t \in run.pool /\ StartJournalize(r, t, FALSE)
      \/ WriteIfCurrent(r, guard, FALSE, new, done, done)
  BY DEF HumanTransaction
<1>3. run.pool \subseteq Txs
  BY DEF TypeInv, TypeOK, Run
<1>4. RunInv(done) /\ done.at # "post"
  BY DoneKnows, PlainPlaces
<1>5. guard => Writes(r, new)
  <2>1. old \in Row
    BY Parts
  <2> HIDE DEF old
  <2>2. new \in Row /\ new.sync = old.sync /\ new.jid = old.jid /\ new.exp = old.exp /\ new.aged = old.aged
    BY <2>1, States DEF Row, Errs
  <2> HIDE DEF new
  <2>3. guard => rows[r].exp # None
    BY Registered
  <2>4. QED BY <2>2, <2>3, OnceNew DEF old
<1> HIDE DEF t, new, guard, done
<1>6. CASE t \in run.pool /\ StartJournalize(r, t, FALSE)
  BY <1>1, <1>3, <1>6, OnceStart
<1>7. CASE WriteIfCurrent(r, guard, FALSE, new, done, done)
  BY <1>4, <1>5, <1>7, OnceWrites
<1>8. QED BY <1>2, <1>6, <1>7

LEMMA OnceMatch ==
  ASSUME TypeInv, OnceInv, NEW r \in Receipts, MatchOutcome(r)
  PROVE  OnceInv'
<1> USE DEF OnceInv
<1> DEFINE new == InState(r, "NEEDS_REVIEW", None)
           guard == rows[r].sync = "WAITING_TRANSACTION" /\ rows[r].jid = None
           done == Done("match", r)
<1>1. run.at = "match" /\ run.who = None /\ r \in run.todo
  BY DEF MatchOutcome, Takes
<1>2. RunInv(done) /\ done.at # "post"
  BY DoneKnows, PlainPlaces
<1>3. guard => Writes(r, new)
  <2>1. guard => rows[r].exp # None
    BY Registered
  <2>2. "NEEDS_REVIEW" \in SyncStates \ {"CREATING"} /\ None \in Errs
    BY States
  <2>3. QED BY <2>1, <2>2, OnceMark
<1>4. \A t \in Matched(run.seen, LineOf, run.pool, r) : t \in Txs
  BY MatchedType DEF TypeInv, TypeOK, Run
<1>5. \/ \E t \in Matched(run.seen, LineOf, run.pool, r) : Goes(done) \/ StartJournalize(r, t, TRUE)
      \/ WriteIfCurrent(r, guard, FALSE, new, done, done)
  BY DEF MatchOutcome
<1> HIDE DEF new, guard, done
<1>6. ASSUME NEW t \in Txs, StartJournalize(r, t, TRUE)
      PROVE  OnceInv'
  BY <1>1, <1>6, OnceStart
<1>7. CASE Goes(done)
  BY <1>2, <1>7, OnceGoes
<1>8. CASE WriteIfCurrent(r, guard, FALSE, new, done, done)
  BY <1>2, <1>3, <1>8, OnceWrites
<1>9. QED BY <1>4, <1>5, <1>6, <1>7, <1>8

\* The run at another place, with what has been found out of a line or of its entry.
LEMMA LineKnows ==
  ASSUME TypeInv, RunInv(run), NEW i \in Txs \cup {None}, NEW b, NEW l
  PROVE  /\ RunInv([Move("trace") EXCEPT !.rejected = b]) /\ RunInv([Move("lined") EXCEPT !.line = l])
         /\ RunInv([Move("traced") EXCEPT !.id = i])
         /\ i # None => RunInv([Move("entered") EXCEPT !.id = i]) /\ [Move("entered") EXCEPT !.id = i].at = "entered"
<1>1. \A p \in {"trace", "lined", "traced", "entered"} :
        Move(p) \in Run /\ Move(p) = [run EXCEPT !.at = p] /\ run \in Run
  BY MoveType DEF Places, TypeInv, TypeOK
<1>2. ASSUME NEW p \in {"trace", "lined", "traced", "entered"}, NEW s,
             s = [Move(p) EXCEPT !.rejected = b] \/ s = [Move(p) EXCEPT !.line = l] \/ s = [Move(p) EXCEPT !.id = i],
             p = "entered" => s.id # None
      PROVE  RunInv(s) /\ s.at = p
  <2>1. s.at = p /\ s.id \in {run.id, i} /\ s.who = run.who /\ s.seen = run.seen /\ s.todo = run.todo
    BY <1>1, <1>2 DEF Run
  <2>2. i \notin Ids
    BY Named
  <2>3. Knows(s)
    BY <1>2, <2>1, <2>2 DEF RunInv, Knows
  <2>4. QED BY <2>1, <2>3 DEF RunInv, AboutToPost, InVain
<1>3. [Move("entered") EXCEPT !.id = i].id = i
  BY <1>1 DEF Run
<1>4. QED BY <1>2, <1>3

LEMMA OnceSend ==
  ASSUME TypeInv, OnceInv, NEW r \in Receipts, SendJournalize(r)
  PROVE  OnceInv'
<1> USE DEF OnceInv
<1> DEFINE t == run.seen[r].tx
           e == [EntryFor(r, run.seen[r]) EXCEPT !.amount = LineOf[t].amount]
           entered == [Move("entered") EXCEPT !.id = t]
           back == Back(r)
           trace == [Move("trace") EXCEPT !.rejected = TRUE]
<1>1. t \in Txs
  BY DEF SendJournalize, At, TypeInv, TypeOK, HandsOf, Run, Row
<1>2. run.back # None
  BY DEF SendJournalize, At, TypeInv, HandsOf
<1>3. RunInv(back) /\ back.at # "post" /\ back \in Run
  BY <1>2, BackKnows, BackTyped
<1>4. RunInv(trace) /\ RunInv(entered) /\ entered.at # "post"
  BY <1>1, Named, LineKnows
<1>5. \/ Place(t, e) /\ run' = entered /\ UNCHANGED <<rows, sent, faults, edits>>
      \/ GivesUp(t, e, back)
      \/ Goes(trace)
  BY DEF SendJournalize
<1> HIDE DEF t, e, entered, back, trace
<1>6. CASE Place(t, e) /\ run' = entered /\ UNCHANGED <<rows, sent, faults, edits>>
  BY <1>1, <1>4, <1>6, OnceLine
<1>7. CASE GivesUp(t, e, back)
  BY <1>1, <1>3, <1>7, HaltedKnows, OnceLine DEF GivesUp
<1>8. CASE Goes(trace)
  BY <1>4, <1>8, OnceGoes
<1>9. QED BY <1>5, <1>6, <1>7, <1>8

LEMMA OnceTrace ==
  ASSUME TypeInv, OnceInv, NEW r \in Receipts, TraceEntry(r) \/ RecordTraced(r)
  PROVE  OnceInv'
<1> USE DEF OnceInv
<1> DEFINE back == Back(r)
           new == Synced(r, run.id)
           guard == rows[r].sync = "JOURNALIZING"
<1>1. RunInv(back) /\ back.at # "post"
  <2>1. run.back # None
    BY DEF TraceEntry, RecordTraced, At, TypeInv, HandsOf
  <2>2. QED BY <2>1, BackKnows
<1>2. run.seen[r].tx \in Txs \cup {None}
  BY Parts DEF Row
<1>3. CASE TraceEntry(r)
  <2>1. PICK i \in Txs \cup {None} : Goes([Move("traced") EXCEPT !.id = i])
    BY <1>2, <1>3 DEF TraceEntry
  <2>2. QED BY <2>1, LineKnows, OnceGoes
<1>4. CASE RecordTraced(r) /\ run.id # None
  <2>1. /\ run.id \in Ids \cup Txs /\ rows[r].exp # None
        /\ run.id \in Ids => entries[run.id].tag # None /\ (Owned(run.id) \/ entries[run.id].of = r)
    BY <1>4, Parts DEF RecordTraced, At, RunInv, Knows
  <2>2. Writes(r, new)
    BY <2>1, SyncedCells, OnceSynced
  <2>3. WriteIfCurrent(r, guard, TRUE, new, back, back)
    BY <1>4 DEF RecordTraced
  <2> HIDE DEF new, back, guard
  <2>4. QED BY <1>1, <2>2, <2>3, OnceWrites
<1>5. CASE RecordTraced(r) /\ run.id = None
  <2>1. Goes(back) \/ \E l : Goes([Move("lined") EXCEPT !.line = l])
    BY <1>5, TracedWays
  <2> HIDE DEF back
  <2>2. QED BY <1>1, <2>1, LineKnows, OnceGoes
<1>6. QED BY <1>3, <1>4, <1>5

LEMMA OnceLined ==
  ASSUME TypeInv, OnceInv, NEW r \in Receipts, RecordLined(r)
  PROVE  OnceInv'
<1> USE DEF OnceInv
<1> DEFINE back == Back(r)
           a == InState(r, "NEEDS_REVIEW", None)
           b == InState(r, "ERROR", None)
           old == rows[r]
           c == [old EXCEPT !.aged = FALSE]
           send == [Move("send") EXCEPT !.seen[r] = rows[r]]
           guard == rows[r].sync = "JOURNALIZING"
<1>1. RunInv(back) /\ back.at # "post"
  <2>1. run.back # None
    BY DEF RecordLined, At, TypeInv, HandsOf
  <2>2. QED BY <2>1, BackKnows
<1>2. guard => rows[r].exp # None
  BY Registered
<1>3. guard => Writes(r, a) /\ Writes(r, b)
  <2>1. {"NEEDS_REVIEW", "ERROR"} \subseteq SyncStates \ {"CREATING"} /\ None \in Errs
    BY States
  <2>2. QED BY <1>2, <2>1, OnceMark
<1>4. guard => Writes(r, c)
  <2>1. old \in Row
    BY Parts
  <2> HIDE DEF old
  <2>2. c \in Row /\ c.sync = old.sync /\ c.jid = old.jid /\ c.exp = old.exp /\ c.aged = FALSE
    BY <2>1 DEF Row
  <2> HIDE DEF c
  <2>3. QED BY <1>2, <2>2, OnceNew DEF old
<1>5. RunInv(send) /\ send.at # "post"
  <2>1. "send" \in Plain /\ "send" \in Places /\ rows[r] \in Row
    BY PlainPlaces, Parts DEF Plain
  <2>2. Owned(rows[r].jid)
    BY DEF BooksInv
  <2>3. send.at = "send"
    BY <2>1, SeenTyped
  <2>4. QED BY <2>1, <2>2, <2>3, SeenKnows
<1>6. \/ WriteIfCurrent(r, guard, FALSE, a, back, back) \/ WriteIfCurrent(r, guard, FALSE, b, back, back)
      \/ Goes(back) \/ WriteIfCurrent(r, guard, FALSE, c, send, back)
  BY DEF RecordLined
<1> HIDE DEF back, a, b, c, send, guard
<1>7. QED BY <1>1, <1>3, <1>4, <1>5, <1>6, OnceWrites, OnceGoes

LEMMA OnceEnter ==
  ASSUME TypeInv, OnceInv, NEW p \in {"reverse", "maintain", "detect", "classify", "create", "rules", "human", "match"},
         Enter(p)
  PROVE  OnceInv'
<1> USE DEF OnceInv
<1>1. PICK pool, ruled, lines :
        Goes([Idle EXCEPT !.at = p, !.todo = Todo(p, pool, ruled),
                          !.seen = IF Todo(p, pool, ruled) = {} \/ p = "maintain" THEN Nothing ELSE rows,
                          !.pool = pool, !.ruled = ruled, !.halted = run.halted, !.lines = lines])
  BY DEF Enter
<1> DEFINE to == [Idle EXCEPT !.at = p, !.todo = Todo(p, pool, ruled),
                              !.seen = IF Todo(p, pool, ruled) = {} \/ p = "maintain" THEN Nothing ELSE rows,
                              !.pool = pool, !.ruled = ruled, !.halted = run.halted, !.lines = lines]
<1>2. /\ to.at = p /\ to.id = None /\ to.who = None /\ to.todo = Todo(p, pool, ruled)
      /\ to.seen \in {Nothing, rows}
  BY DEF Idle
<1> HIDE DEF to
<1>3. \A r \in Receipts : Owned(Nothing[r].jid) /\ Owned(rows[r].jid)
  BY Named DEF Nothing, NoRow, Owned, BooksInv
<1>4. \A r \in Receipts : r \in to.todo \/ r = to.who => rows[r].exp # None
  BY <1>2, Named DEF Todo
<1>5. Knows(to)
  BY <1>2, <1>3, <1>4, Named DEF Knows
<1>6. Goes(to)
  BY <1>1 DEF to
<1>7. QED BY <1>2, <1>5, <1>6, PlainKnows, PlainPlaces, OnceGoes

LEMMA OncePhases ==
  ASSUME TypeInv, OnceInv, SyncExpenses \/ EndOfPhase
  PROVE  OnceInv'
<1>1. CASE SyncExpenses
  BY <1>1, OnceEnter DEF SyncExpenses
<1>2. CASE EndOfPhase
  <2>1. PICK i \in 1..8 : IF i = 8 THEN Goes(Idle) ELSE Enter(Phases[i + 1])
    BY <1>2, PhasePlaces DEF EndOfPhase
  <2>2. i # 8 => Phases[i + 1] \in {"reverse", "maintain", "detect", "classify", "create", "rules", "human", "match"}
    BY DEF Phases
  <2>3. CASE i = 8
    BY <2>1, <2>3, IdleKnows, OnceGoes DEF OnceInv
  <2>4. CASE i # 8
    BY <2>1, <2>2, <2>4, OnceEnter
  <2>5. QED BY <2>3, <2>4
<1>3. QED BY <1>1, <1>2

LEMMA OnceEnds ==
  ASSUME TypeInv, OnceInv, RunEnds \/ OutOfBudget
  PROVE  OnceInv'
<1> USE DEF OnceInv
<1>1. UNCHANGED <<rows, entries, sent>>
  BY DEF RunEnds, OutOfBudget, books
<1>2. PICK to : run' = to /\ RunInv(to) /\ to.at # "post"
  <2>1. CASE RunEnds
    BY <2>1, IdleKnows DEF RunEnds, Idle
  <2>2. CASE OutOfBudget
    <3> DEFINE to == [run EXCEPT !.todo = {}, !.lines = {}]
    <3>1. /\ to.at = run.at /\ to.id = run.id /\ to.who = run.who /\ to.seen = run.seen /\ to.todo = {}
          /\ to.at \in Plain /\ to.at # "post"
      BY <2>2, PlainPlaces DEF OutOfBudget, TypeInv, TypeOK, Run
    <3>2. run' = to
      BY <2>2 DEF OutOfBudget
    <3> HIDE DEF to
    <3>3. Knows(to)
      BY <3>1 DEF RunInv, Knows
    <3>4. QED BY <3>1, <3>2, <3>3, PlainKnows
  <2>3. QED BY <2>1, <2>2
<1>3. BooksInv' /\ Grows /\ NoMore
  BY <1>1, OnceStill
<1>4. RunInv(to)'
  BY <1>2, <1>3, RunKept
<1>5. QED BY <1>2, <1>3, <1>4 DEF RunInv, Knows, AboutToPost, InVain

LEMMA OnceInit == Init => OnceInv
<1> SUFFICES ASSUME Init PROVE OnceInv
  OBVIOUS
<1>1. /\ sent = {} /\ run = Idle
      /\ \A r \in Receipts : rows[r] = NoRow
      /\ \A i \in Ids : entries[i] = NoEntry
  BY DEF Init
<1>2. NoRow.sync = None /\ NoRow.jid = None /\ NoEntry.of = None
  BY DEF NoRow, NoEntry
<1>3. \A r \in Receipts : Made(r) = {} /\ Pending(r) = {}
  BY <1>1, <1>2, Named DEF Made, Pending
<1>4. Reserved /\ Tagged /\ Awaited /\ Single /\ Overdue /\ Unregistered
  BY <1>1, <1>2, <1>3, Named DEF Reserved, Tagged, Awaited, Single, Overdue, Unregistered
<1>5. \A r \in Receipts : Owned(rows[r].jid)
  BY <1>1, <1>2, Named DEF Owned
<1>6. QED BY <1>1, <1>4, <1>5, IdleKnows DEF OnceInv, BooksInv

LEMMA OnceStep == TypeInv /\ Admits /\ OnceInv /\ [Next]_vars => OnceInv'
<1> SUFFICES ASSUME TypeInv, Admits, OnceInv, [Next]_vars PROVE OnceInv'
  OBVIOUS
<1>1. CASE World
  BY <1>1, OnceLines, OnceDecides, OnceLedger DEF World, OnceInv
<1>2. CASE RunSync
  <2>1. CASE SyncExpenses \/ EndOfPhase
    BY <2>1, OncePhases
  <2>2. ASSUME NEW t \in Txs, JournalizeByRule(t) PROVE OnceInv'
    BY <2>2, OnceByRule
  <2>3. ASSUME NEW r \in Receipts,
               \/ ReverseWithoutJournal(r) \/ RecoverCreating(r) \/ RecordRecovered(r)
               \/ RecoverJournalizing(r) \/ ProcessMaintenanceRow(r) \/ ImportRow(r) \/ CancelRow(r)
        PROVE  OnceInv'
    BY <2>3, OnceReverse, OnceRecover, OnceRecovered, OnceJournalizing, OnceProcess, OnceImport, OnceCancel
  <2>4. ASSUME NEW r \in Receipts,
               \/ FinishReversal(r) \/ PutJournal(r) \/ Inherit(r) \/ FillHeir(r) \/ RecordReversed(r)
               \/ DetectChange(r) \/ Classify(r)
        PROVE  OnceInv'
    BY <2>4, OnceFinish, OncePut, OnceHandOver, OnceReversed, OnceDetect, OnceClassify
  <2>5. ASSUME NEW r \in Receipts,
               \/ SearchFirst(r) \/ Adopt(r) \/ MarkCreating(r) \/ PostJournal(r) \/ RecordRefused(r)
               \/ RecordEntered(r) \/ HoldRuleConflict(r)
        PROVE  OnceInv'
    BY <2>5, OnceSearch, OnceAdopt, OnceMarked, OncePost, OnceRefused, OnceEntered, OnceDetect
  <2>6. ASSUME NEW r \in Receipts,
               \/ HumanTransaction(r) \/ MatchOutcome(r)
               \/ SendJournalize(r) \/ TraceEntry(r) \/ RecordTraced(r) \/ RecordLined(r)
        PROVE  OnceInv'
    BY <2>6, OnceHuman, OnceMatch, OnceSend, OnceTrace, OnceLined
  <2>7. QED BY <1>2, <2>1, <2>2, <2>3, <2>4, <2>5, <2>6 DEF RunSync
<1>3. CASE RunEnds \/ OutOfBudget
  BY <1>3, OnceEnds
<1>4. CASE UNCHANGED vars
  BY <1>4, OnceStill DEF vars, OnceInv, RunInv, Knows, AboutToPost, InVain, Owned, Made
<1>5. QED BY <1>1, <1>2, <1>3, <1>4 DEF Next

\* OneEntry: whatever answers are lost, executions die or writes tear, whatever MF carries out
\* late and the operator does to the row meanwhile, of a cash expense at most one entry is ever
\* made or under way, and where the execution is about to send a creation there is none (the
\* search before the mark, the mark CREATING before the POST, and the day a recovery waits).
THEOREM EnteredOnce == Spec => []OneEntry
<1>1. TypeInv /\ OnceInv => OneEntry
  <2> SUFFICES ASSUME TypeInv, OnceInv, NEW r \in Receipts
               PROVE  Cardinality(Made(r)) <= 1 /\ (At("post", r) => Made(r) = {})
    BY DEF OneEntry
  <2>1. At("post", r) => Made(r) = {}
    BY DEF At, OnceInv, RunInv, AboutToPost
  <2>2. Cardinality(Made(r)) <= 1
    <3>1. CASE Made(r) = {}
      BY <3>1, FS_EmptySet
    <3>2. CASE Made(r) # {}
      <4>1. PICK i : i \in Made(r)
        BY <3>2
      <4>2. Made(r) = {i}
        BY <4>1 DEF OnceInv, BooksInv, Single
      <4>3. Cardinality({i}) = 1
        BY FS_Singleton
      <4>4. QED BY <4>2, <4>3
    <3>3. QED BY <3>1, <3>2
  <2>3. QED BY <2>1, <2>2
<1>2. Init => TypeInv /\ Admits /\ OnceInv
  <2>1. Init => Admits
    BY QuietChosen DEF Init, Idle, Quiet, Admits, ImportsUnknown
  <2>2. QED BY <2>1, TypeInit, OnceInit
<1>3. QED BY <1>1, <1>2, TypeStep, AdmitsStep, OnceStep, PTL DEF Spec

-----------------------------------------------------------------------------
(* What the books say of each row when no expense can be paid from a       *)
(* statement line: every entry of a receipt is made from nothing.          *)

\* No linked service is configured, or none is used to pay: lines there may be, but for other
\* things than receipts.
Unlinked == Txs = {} \/ Methods \cap LinkedMethods = {}

\* The states in which a row has an entry that the operator has not answered for.
Kept == {"CREATING", "SYNCED", "NEEDS_REVIEW", "REVERSING", "ERROR"}

\* Entry e says what was noted when it was sent.
Says(e, input) == input # NoInput /\ e.amount = input.amount /\ e.day = input.day

\* Row r as it stands, or as it is about to be written, agrees with the books.
RowFits(r, row) ==
  /\ row.sync # "JOURNALIZING" /\ row.jid \in Ids \cup {None}
  /\ row.jid # None =>
       /\ entries[row.jid].tag \in {r, "hand", "deleted"} /\ Made(r) \subseteq {row.jid}
       /\ entries[row.jid].tag = "deleted" => IsCancelled(row)
  /\ row.sync \in {"REVERSING", "REVERSED"} => IsCancelled(row)
  /\ row.sync = "REVERSED" => Made(r) = {}
  /\ row.sync = "SYNCED" => row.jid # None
  /\ \A i \in Ids : entries[i].of = r /\ ~entries[i].checked =>
       row.sync \in Kept /\ Says(entries[i], row.input)
  /\ \A q \in Pending(r) : Says(q.entry, row.input)

\* An entry of a receipt carries its tag: none is handed over, none is voided.
Plainly(e) == (e.tag \in Receipts \/ e.of \in Receipts => e.of = e.tag) /\ ~e.void

Own ==
  /\ \A i \in Ids : Plainly(entries[i])
  /\ \A t \in Txs : entries[t].tag \notin Receipts
  /\ \A q \in sent : Plainly(q.entry) /\ (q.entry.tag \in Receipts => q.id \in Ids)
  /\ \A r, s \in Receipts : rows[r].jid = rows[s].jid /\ rows[r].jid # None => r = s

\* What an execution that works on row r holds in its hands.
WorkFits(s, r) ==
  /\ s.at \in {"recovered", "adopt", "entered"} /\ s.id # None => s.id \in Ids /\ entries[s.id].tag = r
  /\ s.at = "recovered" /\ s.id = None /\ s.seen[r].sync = "CREATING" /\ s.seen[r].aged =>
       Pending(r) = {} /\ \A i \in Ids : entries[i].of = r => entries[i].checked
  /\ s.at = "entered" => rows[r].sync = "CREATING"
  /\ s.at = "post" => rows[r].input = SummarizeSyncInput(s.seen[r]) /\ rows[r].input # NoInput
  /\ s.at = "import" =>
       /\ s.seen[r].jid # None
       /\ \A i \in Ids : entries[i].of = r /\ ~entries[i].checked /\ s.seen[r].jid = i =>
            Says(entries[i], SummarizeSyncInput(s.seen[r]))
  /\ s.at = "undo" => IsCancelled(rows[r]) /\ s.seen[r].jid \in {None, rows[r].jid}
  /\ s.at = "undone" => Made(r) = {}

LinePlaces == {"send", "trace", "traced", "lined", "put", "inherit", "fill"}
RunFits(s) == s.at \notin LinePlaces /\ (s.who \in Receipts => WorkFits(s, s.who))

CashInv ==
  /\ Unlinked
  /\ \A r \in Receipts : RowFits(r, rows[r])
  /\ Own
  /\ RunFits(run)

BookStep == [Books!Next]_(Books!bookVars)

\* Places at which nothing is known but what was read.
Silent == Places \ (LinePlaces \cup {"recovered", "adopt", "entered", "post", "import", "undo", "undone"})

LEMMA SilentPlaces ==
  {"reverse", "maintain", "detect", "classify", "create", "rules", "human", "match", "idle", "threw",
   "again", "again2", "cancel", "refused", "mark", "rejected", "limited"} \subseteq Silent
BY PhasePlaces DEF Silent, Places, LinePlaces

LEMMA SilentFits ==
  ASSUME NEW s, s.at \in Silent
  PROVE  RunFits(s) /\ s.at # "post"
BY DEF RunFits, WorkFits, Silent

\* A row that has its id is due no other entry.
LEMMA NothingPending ==
  ASSUME TypeInv, OnceInv, CashInv, NEW r \in Receipts, rows[r].jid # None
  PROVE  /\ Pending(r) = {} /\ rows[r].jid \in Ids /\ entries[rows[r].jid].tag # None
         /\ entries[rows[r].jid].of # r => Made(r) = {}
<1>1. rows[r].jid \in Ids
  BY DEF CashInv, RowFits
<1>2. entries[rows[r].jid].tag # None
  BY <1>1 DEF OnceInv, BooksInv, Owned
<1>3. Made(r) \subseteq {rows[r].jid}
  BY DEF CashInv, RowFits
<1>4. Pending(r) = {}
  <2> SUFFICES ASSUME NEW q \in Pending(r) PROVE FALSE
    OBVIOUS
  <2>1. q.id \in Made(r) /\ q \in sent /\ q.id \in Ids
    BY MadeIs DEF Pending
  <2>2. entries[q.id] = NoEntry
    BY <2>1 DEF OnceInv, BooksInv, Reserved
  <2>3. QED BY <1>2, <1>3, <2>1, <2>2 DEF NoEntry
<1>5. QED BY <1>1, <1>2, <1>3, <1>4, MadeIs

\* An entry with the tag of a receipt was made for it.
LEMMA TagIsOwn ==
  ASSUME CashInv, NEW r \in Receipts
  PROVE  /\ \A i \in Ids : entries[i].tag = r <=> entries[i].of = r
         /\ \A q \in sent : q.entry.tag = r <=> q \in Pending(r)
         /\ Made(r) = {} <=> (\A i \in Ids : entries[i].tag # r) /\ (\A q \in sent : q.entry.tag # r)
<1>1. \A i \in Ids : entries[i].tag = r <=> entries[i].of = r
  BY DEF CashInv, Own, Plainly
<1>2. \A q \in sent : q.entry.tag = r <=> q \in Pending(r)
  BY DEF CashInv, Own, Plainly, Pending
<1>3. Made(r) = {} <=> (\A i \in Ids : entries[i].of # r) /\ Pending(r) = {}
  BY MadeIs
<1>4. Pending(r) = {} <=> \A q \in sent : q.entry.tag # r
  BY <1>2 DEF Pending
<1>5. QED BY <1>1, <1>2, <1>3, <1>4

\* What a write that dies leaves agrees with the books if the write does.
LEMMA TornFits ==
  ASSUME NEW r \in Receipts, NEW old \in Row, NEW new \in Row, RowFits(r, old), RowFits(r, new),
         new.exp = old.exp, new.jid = None => old.jid = None, NEW torn \in Torn(old, new)
  PROVE  RowFits(r, torn) /\ torn.jid = new.jid /\ torn.exp = old.exp /\ torn.sync = old.sync
<1>1. /\ torn.sync = old.sync /\ torn.jid = new.jid /\ torn.input \in {old.input, new.input}
      /\ torn.exp = old.exp
  BY TornType
<1>2. IsCancelled(torn) <=> IsCancelled(old)
  BY <1>1 DEF IsCancelled
<1>3. IsCancelled(new) <=> IsCancelled(old)
  BY DEF IsCancelled
<1>4. QED BY <1>1, <1>2, <1>3 DEF RowFits

\* A row, untouched, still agrees with the books when they changed elsewhere.
LEMMA FitsStill ==
  ASSUME NEW r \in Receipts, NEW row, RowFits(r, row), rows'[r] = row,
         row.jid # None => entries'[row.jid].tag = entries[row.jid].tag,
         Made(r)' \subseteq Made(r), Pending(r)' \subseteq Pending(r),
         \A i \in Ids : entries'[i].of = r /\ ~entries'[i].checked =>
           /\ entries[i].of = r /\ ~entries[i].checked
           /\ entries'[i].amount = entries[i].amount /\ entries'[i].day = entries[i].day
  PROVE  RowFits(r, rows[r])'
BY DEF RowFits, Says, IsCancelled

-----------------------------------------------------------------------------
(* Steps of the bookkeeping.                                               *)

\* No receipt's entry is asked for, entered or given up on, and none is cancelled or closed.
LEMMA BooksStill ==
  ASSUME \A i \in Ids, r \in Receipts : entries'[i].tag = r /\ ~entries'[i].void <=> entries[i].tag = r /\ ~entries[i].void,
         \A r \in Receipts : At("post", r)' <=> At("post", r),
         sent' = sent,
         \A r \in Receipts : /\ IsCancelled(rows'[r]) <=> IsCancelled(rows[r])
                             /\ IsCancelled(rows[r]) =>
                                  (rows'[r].sync = "REVERSED" <=> rows[r].sync = "REVERSED")
  PROVE  BookStep
<1>1. Asked' = Asked
  BY DEF Asked
<1>2. Entered' = Entered
  BY DEF Entered
<1>3. Withdrawn' = Withdrawn /\ Closed' = Closed
  BY DEF Withdrawn, Closed
<1>4. QED BY <1>1, <1>2, <1>3 DEF BookStep, Books!bookVars

\* A cancelled receipt of which nothing is in the books or on its way there is closed.
LEMMA BooksClose ==
  ASSUME CashInv, NEW r \in Receipts, NEW new, rows \in [Receipts -> Row],
         rows' = [rows EXCEPT ![r] = new], new.exp = rows[r].exp, UNCHANGED <<entries, sent>>,
         run.at # "post", run'.at # "post",
         rows[r].sync # "REVERSED", new.sync = "REVERSED", IsCancelled(rows[r]), Made(r) = {}
  PROVE  BookStep
<1>1. rows'[r] = new /\ \A s \in Receipts \ {r} : rows'[s] = rows[s]
  OBVIOUS
<1>2. Asked' = Asked /\ Entered' = Entered
  BY DEF Asked, Entered, At
<1>3. \A s \in Receipts : IsCancelled(rows'[s]) <=> IsCancelled(rows[s])
  BY <1>1 DEF IsCancelled
<1>4. Withdrawn' = Withdrawn
  BY <1>3 DEF Withdrawn
<1>5. Closed' = Closed \cup {r} /\ r \in Withdrawn /\ r \notin Closed
  BY <1>1, <1>3 DEF Closed, Withdrawn
<1>6. r \notin Asked /\ r \notin Entered
  BY TagIsOwn DEF Asked, Entered, At
<1>7. Books!Close(r)
  BY <1>2, <1>4, <1>5, <1>6 DEF Books!Close
<1>8. QED BY <1>7 DEF BookStep, Books!Next

-----------------------------------------------------------------------------
(* What an execution writes agrees with the books.                         *)

\* What the synchronisation may write into row r.
Fitting(r, new) ==
  /\ new \in Row /\ RowFits(r, new) /\ new.exp = rows[r].exp
  /\ new.jid = None => rows[r].jid = None
  /\ new.jid = rows[r].jid \/ (new.jid \in Ids /\ entries[new.jid].tag = r)
  /\ rows[r].sync = "REVERSED" => new.sync = "REVERSED"

LEMMA TornFitting ==
  ASSUME TypeInv, CashInv, NEW r \in Receipts, NEW new, Fitting(r, new), NEW torn \in Torn(rows[r], new)
  PROVE  Fitting(r, torn)
<1>1. rows[r] \in Row /\ RowFits(r, rows[r])
  BY Parts DEF CashInv
<1>2. new \in Row /\ RowFits(r, new) /\ new.exp = rows[r].exp /\ (new.jid = None => rows[r].jid = None)
  BY DEF Fitting
<1>3. RowFits(r, torn) /\ torn.jid = new.jid /\ torn.exp = rows[r].exp /\ torn.sync = rows[r].sync
  BY <1>1, <1>2, TornFits
<1>4. torn \in Row
  BY <1>1, <1>2, TornType
<1>5. QED BY <1>2, <1>3, <1>4 DEF Fitting

LEMMA CashRow ==
  ASSUME TypeInv, CashInv, NEW r \in Receipts, NEW new, Fitting(r, new), rows' = [rows EXCEPT ![r] = new],
         UNCHANGED <<entries, sent>>
  PROVE  /\ \A s \in Receipts : RowFits(s, rows[s])'
         /\ Own'
         /\ run.at # "post" /\ run'.at # "post" => BookStep
<1>1. rows'[r] = new /\ \A s \in Receipts \ {r} : rows'[s] = rows[s]
  BY DEF TypeInv, TypeOK
<1>2. \A s \in Receipts : Made(s)' = Made(s) /\ Pending(s)' = Pending(s)
  BY DEF Made, Pending
<1>3. \A s \in Receipts : RowFits(s, rows'[s])
  BY <1>1 DEF CashInv, Fitting
<1>4. \A s \in Receipts : RowFits(s, rows[s])'
  BY <1>2, <1>3 DEF RowFits, Says, IsCancelled
<1>5. Own'
  <2>1. ASSUME NEW s \in Receipts \ {r}, rows[s].jid = new.jid, new.jid # None
        PROVE  FALSE
    <3>1. CASE new.jid = rows[r].jid
      BY <2>1, <3>1 DEF CashInv, Own
    <3>2. CASE new.jid \in Ids /\ entries[new.jid].tag = r
      <4>1. entries[rows[s].jid].tag \in {s, "hand", "deleted"}
        BY <2>1 DEF CashInv, RowFits
      <4>2. QED BY <2>1, <3>2, <4>1, JournalBooksAssumption
    <3>3. QED BY <3>1, <3>2 DEF Fitting
  <2>2. QED BY <1>1, <2>1 DEF Own, CashInv
<1>6. ASSUME run.at # "post", run'.at # "post"
      PROVE  BookStep
  <2>1. CASE new.sync = "REVERSED" /\ rows[r].sync # "REVERSED"
    <3>1. IsCancelled(new) /\ Made(r) = {} /\ new.exp = rows[r].exp
      BY <2>1 DEF Fitting, RowFits
    <3>2. QED BY <1>6, <2>1, <3>1, BooksClose DEF IsCancelled, TypeInv, TypeOK
  <2>2. CASE ~(new.sync = "REVERSED" /\ rows[r].sync # "REVERSED")
    <3>1. \A s \in Receipts : /\ IsCancelled(rows'[s]) <=> IsCancelled(rows[s])
                              /\ rows'[s].sync = "REVERSED" <=> rows[s].sync = "REVERSED"
      BY <1>1, <2>2 DEF Fitting, IsCancelled
    <3>2. \A s \in Receipts : At("post", s)' <=> At("post", s)
      BY <1>6 DEF At
    <3>3. QED BY <3>1, <3>2, BooksStill
  <2>3. QED BY <2>1, <2>2
<1>7. QED BY <1>4, <1>5, <1>6

\* A guarded write.
LEMMA CashWritesTo ==
  ASSUME TypeInv, CashInv, NEW r \in Receipts, NEW guard, NEW force, NEW new, NEW yes, NEW no,
         guard => Fitting(r, new), no.at \in Silent, run.at # "post",
         guard /\ rows' = [rows EXCEPT ![r] = new] /\ run' = yes =>
           RunFits(run)' /\ (yes.at # "post" \/ BookStep),
         WriteIfCurrent(r, guard, force, new, yes, no)
  PROVE  CashInv' /\ BookStep
<1>1. UNCHANGED <<entries, sent>>
  BY DEF WriteIfCurrent, books
<1>2. Move("threw").at = "threw" /\ Idle.at = "idle"
  BY MoveKnows DEF Move, Idle, TypeInv, TypeOK, Run
<1>3. \/ guard /\ rows' = [rows EXCEPT ![r] = new] /\ run' = yes
      \/ rows' = rows /\ run'.at \in Silent
      \/ guard /\ (\E torn \in Torn(rows[r], new) : rows' = [rows EXCEPT ![r] = torn]) /\ run'.at \in Silent
  BY <1>2, SilentPlaces DEF WriteIfCurrent
<1>4. rows = [rows EXCEPT ![r] = rows[r]] /\ Fitting(r, rows[r])
  BY Parts DEF TypeInv, TypeOK, Fitting, CashInv
<1>5. run'.at \in Silent => RunFits(run)' /\ run'.at # "post"
  BY DEF RunFits, WorkFits, Silent
<1>6. PICK x : rows' = [rows EXCEPT ![r] = x] /\ Fitting(r, x)
  BY <1>3, <1>4, TornFitting
<1>7. (\A s \in Receipts : RowFits(s, rows[s])') /\ Own' /\ (run'.at # "post" => BookStep)
  BY <1>1, <1>6, CashRow
<1>8. QED BY <1>3, <1>5, <1>7 DEF CashInv

\* A guarded write; where it leads to, nothing need be known.
LEMMA CashWrites ==
  ASSUME TypeInv, CashInv, NEW r \in Receipts, NEW guard, NEW force, NEW new, NEW yes, NEW no,
         guard => Fitting(r, new) /\ yes.at \in Silent, no.at \in Silent, run.at # "post",
         WriteIfCurrent(r, guard, force, new, yes, no)
  PROVE  CashInv' /\ BookStep
<1>1. guard /\ run' = yes => RunFits(run)' /\ yes.at # "post"
  BY DEF RunFits, WorkFits, Silent
<1>2. QED BY <1>1, CashWritesTo

\* A step that leaves the ledger and the books alone.
LEMMA CashGoes ==
  ASSUME TypeInv, CashInv, NEW to, Goes(to), RunFits(to), to.at # "post", run.at # "post"
  PROVE  CashInv' /\ BookStep
<1>1. run' = to /\ UNCHANGED <<rows, entries, sent>>
  BY DEF Goes, books
<1>2. \A s \in Receipts : Made(s)' = Made(s) /\ Pending(s)' = Pending(s)
  BY <1>1 DEF Made, Pending
<1>3. \A s \in Receipts : RowFits(s, rows[s])'
  BY <1>1, <1>2 DEF CashInv, RowFits, Says, IsCancelled
<1>4. Own'
  BY <1>1 DEF CashInv, Own
<1>5. RunFits(run)'
  BY <1>1, <1>2 DEF RunFits, WorkFits, Says, IsCancelled
<1>6. BookStep
  BY <1>1, BooksStill DEF At
<1>7. QED BY <1>3, <1>4, <1>5, <1>6 DEF CashInv

\* The execution that was about to send a creation gives it up unsent.
LEMMA BooksDrop ==
  ASSUME TypeInv, OnceInv, CashInv, NEW r \in Receipts, At("post", r), run'.at # "post",
         UNCHANGED <<rows, entries, sent>>
  PROVE  BookStep
<1>1. Entered' = Entered /\ Withdrawn' = Withdrawn /\ Closed' = Closed
  BY DEF Entered, Withdrawn, Closed
<1>2. \A q \in sent : q.entry.tag # r
  BY PostKnows, TagIsOwn
<1>3. r \in Asked /\ Asked' = Asked \ {r}
  BY <1>2 DEF Asked, At
<1>4. Books!Drop(r)
  BY <1>1, <1>3 DEF Books!Drop
<1>5. QED BY <1>4 DEF BookStep, Books!Next

\* The execution ends, or lets the rest of a phase be.
LEMMA CashLeaves ==
  ASSUME TypeInv, OnceInv, CashInv, run'.at \in Silent, UNCHANGED <<rows, entries, sent>>
  PROVE  CashInv' /\ BookStep
<1>1. \A s \in Receipts : Made(s)' = Made(s) /\ Pending(s)' = Pending(s)
  BY DEF Made, Pending
<1>2. \A s \in Receipts : RowFits(s, rows[s])'
  BY <1>1 DEF CashInv, RowFits, Says, IsCancelled
<1>3. Own'
  BY DEF CashInv, Own
<1>4. RunFits(run)'
  BY DEF RunFits, WorkFits, Silent
<1>5. BookStep
  <2>1. run'.at # "post"
    BY SilentFits
  <2>2. CASE \E r \in Receipts : At("post", r)
    BY <2>1, <2>2, BooksDrop
  <2>3. CASE ~\E r \in Receipts : At("post", r)
    BY <2>1, <2>3, BooksStill DEF At
  <2>4. QED BY <2>2, <2>3
<1>6. QED BY <1>2, <1>3, <1>4, <1>5 DEF CashInv

LEMMA CashEnds ==
  ASSUME TypeInv, OnceInv, CashInv, RunEnds \/ OutOfBudget
  PROVE  CashInv' /\ BookStep
<1>1. UNCHANGED <<rows, entries, sent>>
  BY DEF RunEnds, OutOfBudget, books
<1>2. run'.at \in Silent
  <2>1. CASE RunEnds
    BY <2>1, SilentPlaces DEF RunEnds, Idle
  <2>2. CASE OutOfBudget
    <3>1. run'.at = run.at
      BY <2>2 DEF OutOfBudget, TypeInv, TypeOK, Run
    <3>2. QED BY <2>2, <3>1, SilentPlaces DEF OutOfBudget
  <2>3. QED BY <2>1, <2>2
<1>3. QED BY <1>1, <1>2, CashLeaves

LEMMA CashPhases ==
  ASSUME TypeInv, OnceInv, CashInv, SyncExpenses \/ EndOfPhase
  PROVE  CashInv' /\ BookStep
<1>1. ASSUME NEW p \in {"reverse", "maintain", "detect", "classify", "create", "rules", "human", "match"}, Enter(p)
      PROVE  run'.at = p /\ UNCHANGED <<rows, entries, sent>>
  BY <1>1 DEF Enter, Goes, books, Idle
<1>2. run'.at \in Silent /\ UNCHANGED <<rows, entries, sent>>
  <2>1. CASE SyncExpenses
    BY <1>1, <2>1, SilentPlaces DEF SyncExpenses
  <2>2. CASE EndOfPhase
    <3>1. PICK i \in 1..8 : IF i = 8 THEN Goes(Idle) ELSE Enter(Phases[i + 1])
      BY <2>2, PhasePlaces DEF EndOfPhase
    <3>2. i # 8 => Phases[i + 1] \in {"reverse", "maintain", "detect", "classify", "create", "rules", "human", "match"}
      BY DEF Phases
    <3>3. CASE i = 8
      BY <3>1, <3>3, SilentPlaces DEF Goes, books, Idle
    <3>4. CASE i # 8
      BY <1>1, <3>1, <3>2, <3>4, SilentPlaces
    <3>5. QED BY <3>3, <3>4
  <2>3. QED BY <2>1, <2>2
<1>3. QED BY <1>2, CashLeaves

-----------------------------------------------------------------------------
(* What others do.                                                         *)

\* An execution's work on a row goes on as it was when others write.
LEMMA WorkKept ==
  ASSUME TypeInv, OnceInv, CashInv, run' = run,
         \A r \in Receipts : Made(r)' \subseteq Made(r) /\ Pending(r)' \subseteq Pending(r),
         \A i \in Ids : entries[i].tag # None => entries'[i].tag = entries[i].tag,
         \A i \in Ids, r \in Receipts : entries'[i].of = r /\ ~entries'[i].checked =>
           \/ entries[i] = NoEntry /\ Pending(r) # {}
           \/ /\ entries[i].of = r /\ ~entries[i].checked
              /\ entries'[i].amount = entries[i].amount /\ entries'[i].day = entries[i].day,
         \A r \in Receipts : r = run.who =>
           /\ rows[r].sync = "CREATING" => rows'[r].sync = "CREATING"
           /\ rows'[r].input = rows[r].input
           /\ IsCancelled(rows[r]) => IsCancelled(rows'[r])
           /\ rows[r].jid \in {None, rows'[r].jid}
  PROVE  RunFits(run)'
<1> SUFFICES ASSUME NEW r \in Receipts, r = run.who
             PROVE  WorkFits(run, r)'
  BY DEF RunFits, CashInv
<1>1. WorkFits(run, r)
  BY DEF CashInv, RunFits
<1>2. r # None
  BY Named
<1>3. ASSUME run.at = "import", NEW i \in Ids, entries'[i].of = r, ~entries'[i].checked, run.seen[r].jid = i
      PROVE  Says(entries'[i], SummarizeSyncInput(run.seen[r]))
  <2>1. entries[i].tag # None
    BY <1>3 DEF OnceInv, RunInv, Knows, Owned
  <2>2. entries[i] # NoEntry
    BY <2>1 DEF NoEntry
  <2>3. entries[i].of = r /\ ~entries[i].checked
        /\ entries'[i].amount = entries[i].amount /\ entries'[i].day = entries[i].day
    BY <1>3, <2>2
  <2>4. Says(entries[i], SummarizeSyncInput(run.seen[r]))
    BY <1>1, <1>3, <2>3 DEF WorkFits
  <2>5. QED BY <2>3, <2>4 DEF Says
<1>4. ASSUME run.at = "recovered", run.id = None, run.seen[r].sync = "CREATING", run.seen[r].aged
      PROVE  Pending(r)' = {} /\ \A i \in Ids : entries'[i].of = r => entries'[i].checked
  BY <1>1, <1>4 DEF WorkFits
<1>5. run.at \in {"recovered", "adopt", "entered"} /\ run.id # None => run.id \in Ids /\ entries'[run.id].tag = r
  BY <1>1, <1>2 DEF WorkFits
<1>6. run.at = "undone" => Made(r)' = {}
  BY <1>1 DEF WorkFits
<1>7. /\ run.at = "entered" => rows'[r].sync = "CREATING"
      /\ run.at = "post" => rows'[r].input = SummarizeSyncInput(run.seen[r]) /\ rows'[r].input # NoInput
      /\ run.at = "undo" => IsCancelled(rows'[r]) /\ run.seen[r].jid \in {None, rows'[r].jid}
      /\ run.at = "import" => run.seen[r].jid # None
  BY <1>1 DEF WorkFits
<1>8. QED BY <1>3, <1>4, <1>5, <1>6, <1>7 DEF WorkFits, Says, IsCancelled

\* A row is written by others, and its entry at most ticked off.
LEMMA CashLedger ==
  ASSUME TypeInv, OnceInv, CashInv, NEW r \in Receipts, NEW new, rows' = [rows EXCEPT ![r] = new],
         run' = run, sent' = sent, RowFits(r, rows[r])',
         \A i \in Ids : /\ entries'[i].tag = entries[i].tag /\ entries'[i].of = entries[i].of
                        /\ entries'[i].void = entries[i].void /\ entries'[i].amount = entries[i].amount
                        /\ entries'[i].day = entries[i].day /\ (entries[i].checked => entries'[i].checked),
         \A t \in Txs : entries'[t] = entries[t],
         new.jid = rows[r].jid, IsCancelled(rows[r]) => IsCancelled(new),
         rows[r].exp # None => /\ rows[r].sync = "CREATING" => new.sync = "CREATING"
                               /\ new.input = rows[r].input
  PROVE  CashInv'
<1>1. rows'[r] = new /\ \A s \in Receipts \ {r} : rows'[s] = rows[s]
  BY DEF TypeInv, TypeOK
<1>2. \A s \in Receipts : Made(s)' = Made(s) /\ Pending(s)' = Pending(s)
  BY DEF Made, Pending
<1>3. ASSUME NEW s \in Receipts \ {r}
      PROVE  RowFits(s, rows[s])'
  <2>1. rows[s].jid # None => rows[s].jid \in Ids
    BY NothingPending
  <2>2. RowFits(s, rows[s])
    BY DEF CashInv
  <2>3. QED BY <1>1, <1>2, <2>1, <2>2, FitsStill
<1>4. Own'
  BY <1>1 DEF CashInv, Own, Plainly
<1>5. RunFits(run)'
  <2>1. rows[r].exp = None => run.who # r
    BY DEF OnceInv, RunInv, Knows
  <2>2. \A s \in Receipts : s = run.who =>
           /\ rows[s].sync = "CREATING" => rows'[s].sync = "CREATING"
           /\ rows'[s].input = rows[s].input
           /\ IsCancelled(rows[s]) => IsCancelled(rows'[s])
           /\ rows[s].jid \in {None, rows'[s].jid}
    BY <1>1, <2>1
  <2>3. QED BY <1>2, <2>2, WorkKept
<1>6. QED BY <1>3, <1>4, <1>5 DEF CashInv

\* Cells of a row that are written without its state, its id and what was noted of its entry.
LEMMA ColumnCells ==
  ASSUME TypeInv, NEW r \in Receipts,
         \/ CompleteReceipt(r) \/ Cancel(r) \/ DayPasses(r) \/ EditRow(r)
         \/ \E t \in Txs : OperatorTypesLine(r, t)
  PROVE  \E new : /\ rows' = [rows EXCEPT ![r] = new]
                  /\ new.sync = rows[r].sync /\ new.jid = rows[r].jid /\ new.input = rows[r].input
                  /\ new.tx = rows[r].tx \/ \E t \in Txs : OperatorTypesLine(r, t)
                  /\ \/ new.exp = rows[r].exp
                     \/ CompleteReceipt(r) /\ new.exp = "COMPLETED"
                     \/ Cancel(r) /\ new.exp \in {"VOID", "CORRECTED"}
<1> DEFINE old == rows[r]
           Goal(new) == /\ rows' = [rows EXCEPT ![r] = new]
                        /\ new.sync = old.sync /\ new.jid = old.jid /\ new.input = old.input
                        /\ new.tx = old.tx \/ \E t \in Txs : OperatorTypesLine(r, t)
                        /\ \/ new.exp = old.exp
                           \/ CompleteReceipt(r) /\ new.exp = "COMPLETED"
                           \/ Cancel(r) /\ new.exp \in {"VOID", "CORRECTED"}
<1>1. old \in Row
  BY Parts
<1>2. ASSUME CompleteReceipt(r) PROVE \E new : Goal(new)
  <2>1. rows' = [rows EXCEPT ![r] = [old EXCEPT !.exp = "COMPLETED"]]
    BY <1>2 DEF CompleteReceipt
  <2>2. Goal([old EXCEPT !.exp = "COMPLETED"])
    BY <1>1, <1>2, <2>1 DEF Row
  <2>3. QED BY <2>2
<1>3. ASSUME Cancel(r) PROVE \E new : Goal(new)
  <2>1. PICK e \in {"VOID", "CORRECTED"} : rows' = [rows EXCEPT ![r] = [old EXCEPT !.exp = e]]
    BY <1>3 DEF Cancel
  <2>2. Goal([old EXCEPT !.exp = e])
    BY <1>1, <1>3, <2>1 DEF Row
  <2>3. QED BY <2>2
<1>4. ASSUME DayPasses(r) PROVE \E new : Goal(new)
  <2>1. rows' = [rows EXCEPT ![r] = [old EXCEPT !.aged = TRUE]]
    BY <1>4 DEF DayPasses
  <2>2. Goal([old EXCEPT !.aged = TRUE])
    BY <1>1, <2>1 DEF Row
  <2>3. QED BY <2>2
<1>5. ASSUME EditRow(r) PROVE \E new : Goal(new)
  <2>1. ASSUME NEW a, rows' = [rows EXCEPT ![r] = [old EXCEPT !.amount = a]] PROVE \E new : Goal(new)
    <3>1. Goal([old EXCEPT !.amount = a])
      BY <1>1, <2>1 DEF Row
    <3>2. QED BY <3>1
  <2>2. ASSUME NEW d, rows' = [rows EXCEPT ![r] = [old EXCEPT !.day = d]] PROVE \E new : Goal(new)
    <3>1. Goal([old EXCEPT !.day = d])
      BY <1>1, <2>2 DEF Row
    <3>2. QED BY <3>1
  <2>3. ASSUME NEW m, rows' = [rows EXCEPT ![r] = [old EXCEPT !.method = m]] PROVE \E new : Goal(new)
    <3>1. Goal([old EXCEPT !.method = m])
      BY <1>1, <2>3 DEF Row
    <3>2. QED BY <3>1
  <2>4. ASSUME rows' = [rows EXCEPT ![r] = [old EXCEPT !.whole = ~@]] PROVE \E new : Goal(new)
    <3>1. Goal([old EXCEPT !.whole = ~@])
      BY <1>1, <2>4 DEF Row
    <3>2. QED BY <3>1
  <2>5. \/ \E a \in Amounts : rows' = [rows EXCEPT ![r] = [old EXCEPT !.amount = a]]
        \/ \E d \in Days : rows' = [rows EXCEPT ![r] = [old EXCEPT !.day = d]]
        \/ \E m \in Methods : rows' = [rows EXCEPT ![r] = [old EXCEPT !.method = m]]
        \/ rows' = [rows EXCEPT ![r] = [old EXCEPT !.whole = ~@]]
    BY <1>5 DEF EditRow, Edits
  <2> HIDE DEF Goal
  <2>6. QED BY <2>1, <2>2, <2>3, <2>4, <2>5
<1>6. ASSUME NEW t \in Txs, OperatorTypesLine(r, t) PROVE \E new : Goal(new)
  <2>1. rows' = [rows EXCEPT ![r] = [old EXCEPT !.tx = t]]
    BY <1>6 DEF OperatorTypesLine
  <2>2. \E x \in Txs : OperatorTypesLine(r, x)
    BY <1>6
  <2>3. Goal([old EXCEPT !.tx = t])
    BY <1>1, <2>1, <2>2 DEF Row
  <2>4. QED BY <2>3
<1>7. \E new : Goal(new)
  BY <1>2, <1>3, <1>4, <1>5, <1>6
<1>8. QED BY <1>7

LEMMA CashColumns ==
  ASSUME TypeInv, OnceInv, CashInv, NEW r \in Receipts,
         \/ CompleteReceipt(r) \/ Cancel(r) \/ DayPasses(r) \/ EditRow(r)
         \/ \E t \in Txs : OperatorTypesLine(r, t)
  PROVE  CashInv' /\ BookStep
<1>1. PICK new : /\ rows' = [rows EXCEPT ![r] = new]
                 /\ new.sync = rows[r].sync /\ new.jid = rows[r].jid /\ new.input = rows[r].input
                 /\ \/ new.exp = rows[r].exp
                    \/ CompleteReceipt(r) /\ new.exp = "COMPLETED"
                    \/ Cancel(r) /\ new.exp \in {"VOID", "CORRECTED"}
  BY ColumnCells
<1>2. UNCHANGED <<entries, sent, run>>
  BY DEF CompleteReceipt, Cancel, DayPasses, EditRow, OperatorTypesLine, ByHand, books
<1>3. rows'[r] = new /\ \A s \in Receipts \ {r} : rows'[s] = rows[s]
  BY <1>1 DEF TypeInv, TypeOK
<1>4. IsCancelled(rows[r]) => IsCancelled(new)
  BY <1>1 DEF IsCancelled, CompleteReceipt, Cancel
<1>5. RowFits(r, new)
  BY <1>1, <1>4 DEF CashInv, RowFits
<1>6. \A s \in Receipts : Made(s)' = Made(s) /\ Pending(s)' = Pending(s)
  BY <1>2 DEF Made, Pending
<1>7. RowFits(r, rows[r])'
  BY <1>2, <1>3, <1>5, <1>6 DEF RowFits, Says, IsCancelled
<1>8. CashInv'
  BY <1>1, <1>2, <1>4, <1>7, CashLedger
<1>9. BookStep
  <2>1. CASE new.exp = rows[r].exp \/ (CompleteReceipt(r) /\ new.exp = "COMPLETED")
    <3>1. \A s \in Receipts : IsCancelled(rows'[s]) <=> IsCancelled(rows[s])
      BY <1>3, <2>1 DEF IsCancelled, CompleteReceipt
    <3>2. QED BY <1>1, <1>2, <1>3, <3>1, BooksStill DEF At
  <2>2. CASE Cancel(r) /\ new.exp \in {"VOID", "CORRECTED"}
    <3>1. ~IsCancelled(rows[r]) /\ IsCancelled(rows'[r]) /\ rows[r].sync # "REVERSED"
      BY <1>3, <2>2 DEF Cancel, IsCancelled, CashInv, RowFits
    <3>2. \A s \in Receipts \ {r} : IsCancelled(rows'[s]) <=> IsCancelled(rows[s])
      BY <1>3 DEF IsCancelled
    <3>3. r \notin Withdrawn /\ Withdrawn' = Withdrawn \cup {r}
      BY <3>1, <3>2 DEF Withdrawn
    <3>4. Closed' = Closed
      BY <1>1, <1>3, <3>1, <3>3 DEF Closed
    <3>5. Asked' = Asked /\ Entered' = Entered
      BY <1>2 DEF Asked, Entered, At
    <3>6. Books!Cancel(r)
      BY <3>3, <3>4, <3>5 DEF Books!Cancel
    <3>7. QED BY <3>6 DEF BookStep, Books!Next
  <2>3. QED BY <1>1, <2>1, <2>2
<1>10. QED BY <1>8, <1>9

LEMMA CashRegister ==
  ASSUME TypeInv, OnceInv, CashInv, NEW r \in Receipts, RegisterReceipt(r)
  PROVE  CashInv' /\ BookStep
<1>1. PICK m \in Methods, a \in Amounts, d \in Days :
        rows' = [rows EXCEPT ![r] = [NoRow EXCEPT !.exp = "RECEIVED", !.method = m, !.amount = a, !.day = d]]
  BY DEF RegisterReceipt
<1> DEFINE new == [NoRow EXCEPT !.exp = "RECEIVED", !.method = m, !.amount = a, !.day = d]
<1>2. new.sync = None /\ new.jid = None /\ new.exp = "RECEIVED"
  BY DEF NoRow
<1>3. rows' = [rows EXCEPT ![r] = new]
  BY <1>1
<1> HIDE DEF new
<1>4. rows'[r] = new /\ (\A s \in Receipts \ {r} : rows'[s] = rows[s]) /\ UNCHANGED <<entries, sent, run>>
  BY <1>3 DEF TypeInv, TypeOK, RegisterReceipt, books
<1>5. rows[r].exp = None /\ rows[r].sync = None /\ rows[r].jid = None
  BY DEF RegisterReceipt, OnceInv, BooksInv, Unregistered
<1>6. Made(r) = {} /\ Pending(r) = {} /\ \A i \in Ids : entries[i].of # r
  <2>1. Made(r) = {}
    BY <1>5, NoneMade DEF OnceInv, None
  <2>2. QED BY <2>1, MadeIs
<1>7. RowFits(r, new)
  BY <1>2, <1>6 DEF RowFits, None
<1>8. Made(r)' = Made(r) /\ Pending(r)' = Pending(r)
  BY <1>4 DEF Made, Pending
<1>9. RowFits(r, rows[r])'
  BY <1>4, <1>7, <1>8 DEF RowFits, Says, IsCancelled
<1>10. ~IsCancelled(rows[r]) /\ ~IsCancelled(new)
  BY <1>2, <1>5 DEF IsCancelled, None
<1>11. CashInv'
  BY <1>2, <1>3, <1>4, <1>5, <1>9, <1>10, CashLedger
<1>12. BookStep
  <2>1. \A s \in Receipts : /\ IsCancelled(rows'[s]) <=> IsCancelled(rows[s])
                            /\ IsCancelled(rows[s]) => (rows'[s].sync = "REVERSED" <=> rows[s].sync = "REVERSED")
    BY <1>4, <1>10
  <2>2. QED BY <1>4, <2>1, BooksStill DEF At
<1>13. QED BY <1>11, <1>12

LEMMA CashResets ==
  ASSUME TypeInv, OnceInv, CashInv, NEW r \in Receipts, OperatorResets(r)
  PROVE  CashInv' /\ BookStep
<1> DEFINE old == rows[r]
           new == [old EXCEPT !.sync = ""]
<1>1. /\ rows' = [rows EXCEPT ![r] = new] /\ old.sync \in {"UNKNOWN", "ERROR", "NEEDS_REVIEW"}
      /\ old.exp = "COMPLETED" /\ (old.sync = "NEEDS_REVIEW" => old.jid # None)
      /\ IF old.jid = None THEN entries' = entries ELSE Checked(old.jid)
      /\ run' = run /\ sent' = sent
  BY DEF OperatorResets, ByHand
<1>2. /\ new.sync = "" /\ new.jid = old.jid /\ new.input = old.input /\ new.exp = old.exp
  BY Parts DEF Row
<1> HIDE DEF new
<1>3. rows'[r] = new /\ \A s \in Receipts \ {r} : rows'[s] = rows[s]
  BY <1>1 DEF TypeInv, TypeOK
<1>4. \A i \in Ids : /\ entries'[i].tag = entries[i].tag /\ entries'[i].of = entries[i].of
                     /\ entries'[i].void = entries[i].void /\ entries'[i].amount = entries[i].amount
                     /\ entries'[i].day = entries[i].day
                     /\ (entries[i].checked \/ i = old.jid => entries'[i].checked)
  <2>1. CASE entries' = entries /\ old.jid = None
    BY <2>1, Named
  <2>2. CASE old.jid # None /\ Checked(old.jid)
    <3>1. \A i \in Ids : entries[i] \in Entry /\ entries'[i] = IF i = old.jid THEN [entries[i] EXCEPT !.checked = TRUE] ELSE entries[i]
      BY <2>2 DEF Checked, TypeInv, TypeOK
    <3>2. \A e \in Entry : LET f == [e EXCEPT !.checked = TRUE]
                           IN  f.tag = e.tag /\ f.of = e.of /\ f.void = e.void /\ f.amount = e.amount
                               /\ f.day = e.day /\ f.checked
      BY DEF Entry
    <3>3. QED BY <3>1, <3>2
  <2>3. QED BY <1>1, <2>1, <2>2
<1>5. Made(r)' = Made(r) /\ Pending(r)' = Pending(r)
  BY <1>1, <1>4 DEF Made, Pending
<1>6. \A i \in Ids : entries[i].of = r => i = old.jid
  <2>1. CASE old.jid = None
    BY <1>1, <2>1, NoneMade, MadeIs DEF OnceInv
  <2>2. CASE old.jid # None
    BY <2>2, MadeIs DEF CashInv, RowFits
  <2>3. QED BY <2>1, <2>2
<1>7. RowFits(r, old) /\ (old.jid # None => old.jid \in Ids)
  BY NothingPending DEF CashInv
<1>8. RowFits(r, rows[r])'
  <2>1. new.jid # None => /\ entries'[new.jid].tag \in {r, "hand", "deleted"} /\ Made(r)' \subseteq {new.jid}
                          /\ entries'[new.jid].tag = "deleted" => new.exp \in {"CORRECTED", "VOID"}
    BY <1>2, <1>4, <1>5, <1>7 DEF RowFits, IsCancelled
  <2>2. \A i \in Ids : entries'[i].of = r => entries'[i].checked
    BY <1>4, <1>6
  <2>3. \A q \in Pending(r)' : Says(q.entry, new.input)
    BY <1>2, <1>5, <1>7 DEF RowFits
  <2>4. new.jid \in Ids \cup {None}
    BY <1>2, <1>7
  <2>5. QED BY <1>2, <1>3, <2>1, <2>2, <2>3, <2>4 DEF RowFits, Says, IsCancelled
<1>9. IsCancelled(old) <=> IsCancelled(new)
  BY <1>2 DEF IsCancelled
<1>10. CashInv'
  <2>1. \A t \in Txs : entries'[t] = entries[t]
    BY <1>1, <1>7, Named DEF Checked, TypeInv, TypeOK
  <2>2. QED BY <1>1, <1>2, <1>4, <1>8, <1>9, <2>1, CashLedger
<1>11. BookStep
  <2>1. ~IsCancelled(old)
    BY <1>1 DEF IsCancelled
  <2>2. \A s \in Receipts : /\ IsCancelled(rows'[s]) <=> IsCancelled(rows[s])
                            /\ IsCancelled(rows[s]) => (rows'[s].sync = "REVERSED" <=> rows[s].sync = "REVERSED")
    BY <1>3, <1>9, <2>1
  <2>3. QED BY <1>1, <1>4, <2>2, BooksStill DEF At
<1>12. QED BY <1>10, <1>11

LEMMA CashTypesId ==
  ASSUME TypeInv, OnceInv, CashInv, NEW r \in Receipts, OperatorTypesId(r)
  PROVE  CashInv' /\ BookStep
<1> DEFINE e == EntryFor("hand", rows[r])
           old == rows[r]
<1>1. old.sync \in {"UNKNOWN", "NEEDS_REVIEW"} /\ old.jid = None /\ run' = run /\ sent' = sent
  BY DEF OperatorTypesId, ByHand
<1>2. Made(r) = {} /\ Pending(r) = {} /\ \A i \in Ids : entries[i].of # r /\ entries[i].tag # r
  BY <1>1, NoneMade, MadeIs, TagIsOwn DEF OnceInv
<1>3. PICK i \in Ids : Fresh(i) /\ Place(i, e) /\ rows' = [rows EXCEPT ![r].jid = i]
  <2>1. \A j \in Ids \cup Txs : entries[j].tag # r
    BY <1>2 DEF CashInv, Own
  <2>2. QED BY <2>1 DEF OperatorTypesId
<1>4. e.tag = "hand" /\ e.of = "hand" /\ ~e.void
  BY DEF EntryFor, NoEntry
<1>5. entries[i] = NoEntry /\ entries[i].tag = None /\ entries[i].of = None /\ i # None
  BY <1>3, Named DEF Fresh, NoEntry
<1>6. entries'[i] = e /\ \A j \in (Ids \cup Txs) \ {i} : entries'[j] = entries[j]
  BY <1>3 DEF Place, TypeInv, TypeOK
<1>7. /\ \A s \in Receipts \ {r} : rows'[s] = rows[s]
      /\ rows'[r].jid = i /\ rows'[r].sync = old.sync /\ rows'[r].input = old.input /\ rows'[r].exp = old.exp
  BY <1>3, Parts DEF TypeInv, TypeOK, Row
<1>8. "hand" \notin Receipts
  BY JournalBooksAssumption
<1> HIDE DEF e
<1>9. \A s \in Receipts : Made(s)' = Made(s) /\ Pending(s)' = Pending(s)
  <2>1. \A s \in Receipts, j \in Ids : entries'[j].of = s <=> entries[j].of = s
    BY <1>4, <1>5, <1>6, <1>8, Named
  <2>2. QED BY <1>1, <2>1 DEF Made, Pending
<1>10. \A s \in Receipts : rows[s].jid # None => rows[s].jid \in Ids \ {i}
  BY <1>5, NothingPending
<1>11. ASSUME NEW s \in Receipts \ {r}
       PROVE  RowFits(s, rows[s])'
  <2>1. RowFits(s, rows[s])
    BY DEF CashInv
  <2>2. \A j \in Ids : entries'[j].of = s => j # i
    BY <1>4, <1>6, <1>8
  <2>3. QED BY <1>6, <1>7, <1>9, <1>10, <2>1, <2>2, FitsStill
<1>12. RowFits(r, rows[r])'
  <2>1. \A j \in Ids : entries'[j].of # r
    BY <1>2, <1>4, <1>6, <1>8
  <2>2. entries'[i].tag = "hand" /\ Made(r)' = {} /\ Pending(r)' = {}
    BY <1>2, <1>4, <1>6, <1>9
  <2>3. RowFits(r, old)
    BY DEF CashInv
  <2>4. QED BY <1>5, <1>7, <2>1, <2>2, <2>3 DEF RowFits, Says, IsCancelled
<1>13. Own'
  <2>1. \A j \in Ids : Plainly(entries'[j])
    BY <1>4, <1>6, <1>8 DEF CashInv, Own, Plainly
  <2>2. ASSUME NEW s \in Receipts, NEW u \in Receipts, rows'[s].jid = rows'[u].jid, rows'[s].jid # None
        PROVE  s = u
    BY <1>7, <1>10, <2>2 DEF CashInv, Own
  <2>3. \A t \in Txs : entries'[t] = entries[t]
    BY <1>6, JournalBooksAssumption
  <2>4. QED BY <1>1, <2>1, <2>2, <2>3 DEF CashInv, Own, Plainly
<1>14. RunFits(run)'
  <2>1. \A s \in Receipts : s = run.who =>
           /\ rows[s].sync = "CREATING" => rows'[s].sync = "CREATING"
           /\ rows'[s].input = rows[s].input
           /\ IsCancelled(rows[s]) => IsCancelled(rows'[s])
           /\ rows[s].jid \in {None, rows'[s].jid}
    BY <1>1, <1>7 DEF IsCancelled
  <2>2. \A j \in Ids : entries[j].tag # None => entries'[j].tag = entries[j].tag
    BY <1>5, <1>6
  <2>3. \A j \in Ids, s \in Receipts : entries'[j].of = s => entries'[j] = entries[j]
    BY <1>4, <1>6, <1>8
  <2>4. QED BY <1>1, <1>9, <2>1, <2>2, <2>3, WorkKept
<1>15. BookStep
  <2>1. \A j \in Ids, s \in Receipts : entries'[j].tag = s <=> entries[j].tag = s
    BY <1>4, <1>5, <1>6, <1>8, Named
  <2>2. \A j \in Ids, s \in Receipts : entries'[j].tag = s => entries'[j] = entries[j]
    BY <1>4, <1>6, <1>8
  <2>3. \A s \in Receipts : /\ IsCancelled(rows'[s]) <=> IsCancelled(rows[s])
                            /\ rows'[s].sync = "REVERSED" <=> rows[s].sync = "REVERSED"
    BY <1>7 DEF IsCancelled
  <2>4. QED BY <1>1, <2>1, <2>2, <2>3, BooksStill DEF At
<1>16. QED BY <1>11, <1>12, <1>13, <1>14, <1>15 DEF CashInv

\* A creation that was given up is decided.
LEMMA CashDecides ==
  ASSUME TypeInv, OnceInv, CashInv, NEW q \in sent, q.id \in Ids, MfDecides(q)
  PROVE  CashInv' /\ BookStep
<1>1. rows' = rows /\ run' = run /\ sent' = sent \ {q} /\ q.id \in Ids /\ Plainly(q.entry)
  BY DEF MfDecides, CashInv, Own
<1>2. /\ entries[q.id] = NoEntry /\ entries[q.id].tag = None /\ entries[q.id].of = None
      /\ \A p \in sent : p.id = q.id => p = q
      /\ q.entry.of = q.entry.tag
  <2>1. /\ entries[q.id] = NoEntry /\ q.entry.of = q.entry.tag
        /\ \A p \in sent : p.id = q.id => p = q
    BY <1>1 DEF OnceInv, BooksInv, Reserved
  <2>2. QED BY <2>1 DEF NoEntry
<1>3. \/ entries' = entries
      \/ entries'[q.id] = q.entry /\ \A j \in (Ids \cup Txs) \ {q.id} : entries'[j] = entries[j]
  BY <1>1 DEF MfDecides, Place, TypeInv, TypeOK
<1>4. \A r \in Receipts : Pending(r)' \subseteq Pending(r) /\ Made(r)' \subseteq Made(r)
  <2>1. \A r \in Receipts : Pending(r)' \subseteq Pending(r)
    BY <1>1 DEF Pending
  <2>2. \A r \in Receipts : q.entry.of = r => q \in Pending(r)
    BY <1>1 DEF Pending
  <2>3. ASSUME NEW r \in Receipts, NEW i \in Made(r)'
        PROVE  i \in Made(r)
    <3>1. (i \in Ids /\ entries'[i].of = r) \/ \E p \in Pending(r)' : i = p.id
      BY <2>3, <1>1 DEF Made, Pending
    <3>2. QED BY <1>3, <2>1, <2>2, <3>1, MadeIs
  <2>4. QED BY <2>1, <2>3
<1>5. \A r \in Receipts : rows[r].jid # None => rows[r].jid \in Ids \ {q.id} /\ Pending(r) = {}
  BY <1>2, NothingPending
<1>6. ASSUME NEW r \in Receipts
      PROVE  RowFits(r, rows[r])'
  <2>1. RowFits(r, rows[r]) /\ rows'[r] = rows[r]
    BY <1>1 DEF CashInv
  <2>2. CASE entries'[q.id].of = r /\ entries' # entries
    <3>1. q \in Pending(r) /\ entries'[q.id] = q.entry
      BY <1>1, <1>3, <2>2 DEF Pending
    <3>2. rows[r].jid = None /\ rows[r].sync = "CREATING"
      BY <1>5, <3>1, MadeIs DEF OnceInv, BooksInv, Awaited
    <3>3. Says(q.entry, rows[r].input)
      BY <2>1, <3>1 DEF RowFits
    <3>4. \A i \in Ids : entries'[i].of = r /\ ~entries'[i].checked => Says(entries'[i], rows[r].input)
      BY <1>3, <2>1, <3>1, <3>3 DEF RowFits
    <3>5. \A p \in Pending(r)' : Says(p.entry, rows[r].input)
      BY <1>4, <2>1 DEF RowFits
    <3>6. QED BY <2>1, <3>2, <3>4, <3>5 DEF RowFits, Says, Kept
  <2>3. CASE ~(entries'[q.id].of = r /\ entries' # entries)
    <3>1. \A i \in Ids : entries'[i].of = r => entries'[i] = entries[i]
      BY <1>3, <2>3
    <3>2. rows[r].jid # None => entries'[rows[r].jid] = entries[rows[r].jid]
      BY <1>3, <1>5
    <3>3. QED BY <1>4, <2>1, <3>1, <3>2, FitsStill
  <2>4. QED BY <2>2, <2>3
<1>7. Own'
  <2>1. \A t \in Txs : entries'[t] = entries[t]
    BY <1>1, <1>3, JournalBooksAssumption
  <2>2. QED BY <1>1, <1>3, <2>1 DEF CashInv, Own, Plainly
<1>8. RunFits(run)'
  <2>1. \A i \in Ids : entries[i].tag # None => entries'[i].tag = entries[i].tag
    BY <1>2, <1>3
  <2>2. \A i \in Ids, r \in Receipts : entries'[i].of = r =>
          entries'[i] = entries[i] \/ (entries[i] = NoEntry /\ Pending(r) # {})
    BY <1>1, <1>2, <1>3 DEF Pending
  <2>3. QED BY <1>1, <1>4, <2>1, <2>2, WorkKept
<1>9. BookStep
  <2> DEFINE r == q.entry.tag
  <2>1. Withdrawn' = Withdrawn /\ Closed' = Closed
    BY <1>1 DEF Withdrawn, Closed
  <2>2. CASE r \notin Receipts
    <3>1. Asked' = Asked
      BY <1>1, <2>2 DEF Asked, At
    <3>2. Entered' = Entered
      BY <1>1, <1>2, <1>3, <2>2, Named DEF Entered
    <3>3. QED BY <2>1, <3>1, <3>2 DEF BookStep, Books!bookVars
  <2>3. CASE r \in Receipts
    <3>1. q \in Pending(r) /\ r \in Asked
      BY <1>1, <1>2, <2>3 DEF Pending, Asked
    <3>2. ~At("post", r)
      BY <2>3, <3>1, PostKnows
    <3>3. ASSUME NEW p \in sent, p.entry.tag = r PROVE p = q
      <4>1. p \in Pending(r)
        BY <2>3, <3>3, TagIsOwn
      <4>2. p.id \in Made(r) /\ q.id \in Made(r)
        BY <2>3, <3>1, <4>1, MadeIs
      <4>3. p.id = q.id
        BY <2>3, <4>2 DEF OnceInv, BooksInv, Single
      <4>4. QED BY <1>2, <4>3
    <3>4. Asked' = Asked \ {r}
      BY <1>1, <3>2, <3>3 DEF Asked, At
    <3>5. CASE entries' = entries
      <4>1. Entered' = Entered
        BY <3>5 DEF Entered
      <4>2. Books!Drop(r)
        BY <2>1, <3>1, <3>4, <4>1 DEF Books!Drop
      <4>3. QED BY <2>3, <4>2 DEF BookStep, Books!Next
    <3>6. CASE entries'[q.id] = q.entry /\ \A j \in (Ids \cup Txs) \ {q.id} : entries'[j] = entries[j]
      <4>1. Entered' = Entered \cup {r}
        BY <1>1, <1>2, <2>3, <3>6, Named DEF Entered, Plainly
      <4>2. Books!Book(r)
        BY <2>1, <3>1, <3>4, <4>1 DEF Books!Book
      <4>3. QED BY <2>3, <4>2 DEF BookStep, Books!Next
    <3>7. QED BY <1>3, <3>5, <3>6
  <2>4. QED BY <2>2, <2>3
<1>10. QED BY <1>6, <1>7, <1>8, <1>9 DEF CashInv

\* What happens to the lines is no business of the receipts'.
LEMMA CashElsewhere ==
  ASSUME TypeInv, OnceInv, CashInv, UNCHANGED rows,
         \A i \in Ids : entries'[i] = entries[i],
         \A t \in Txs : entries'[t].tag \notin Receipts,
         \A q \in sent \ sent' : q.id \notin Ids,
         \A q \in sent' \ sent : q.id \notin Ids /\ Plainly(q.entry) /\ q.entry.tag \notin Receipts,
         run' = run \/ (run'.at \in Silent /\ run.at # "post")
  PROVE  CashInv' /\ BookStep
<1>1. \A r \in Receipts : Pending(r)' = Pending(r)
  BY DEF Pending
<1>2. \A r \in Receipts : Made(r)' = Made(r)
  BY DEF Made
<1>3. \A r \in Receipts : RowFits(r, rows[r])'
  BY <1>1, <1>2 DEF CashInv, RowFits, Says, IsCancelled
<1>4. Own'
  BY DEF CashInv, Own, Plainly
<1>5. RunFits(run)'
  <2>1. CASE run' = run
    BY <1>1, <1>2, <2>1, WorkKept, NothingPending DEF CashInv
  <2>2. CASE run'.at \in Silent
    BY <2>2 DEF RunFits, WorkFits, Silent
  <2>3. QED BY <2>1, <2>2
<1>6. BookStep
  <2>1. Entered' = Entered /\ Withdrawn' = Withdrawn /\ Closed' = Closed
    BY DEF Entered, Withdrawn, Closed
  <2>2. Asked' = Asked
    <3>1. \A r \in Receipts : At("post", r)' <=> At("post", r)
      BY SilentFits DEF At
    <3>2. QED BY <3>1 DEF Asked
  <2>3. QED BY <2>1, <2>2 DEF BookStep, Books!bookVars
<1>7. QED BY <1>3, <1>4, <1>5, <1>6 DEF CashInv

LEMMA CashWorld ==
  ASSUME TypeInv, OnceInv, CashInv, World
  PROVE  CashInv' /\ BookStep
<1>1. ASSUME NEW t \in Txs, LineArrives(t) \/ OperatorSettlesLine(t)
      PROVE  CashInv' /\ BookStep
  <2> DEFINE e == EntryFor("hand", LineOf[t])
  <2>1. e.tag \notin Receipts
    BY JournalBooksAssumption DEF EntryFor, NoEntry
  <2> HIDE DEF e
  <2>2. UNCHANGED <<rows, sent, run>> /\ (entries' = entries \/ Place(t, e))
    BY <1>1 DEF LineArrives, OperatorSettlesLine, ByHand, e
  <2>3. /\ \A i \in Ids : entries'[i] = entries[i]
        /\ \A u \in Txs : entries'[u].tag \notin Receipts
    BY <2>1, <2>2, JournalBooksAssumption DEF Place, TypeInv, TypeOK, CashInv, Own
  <2>4. QED BY <2>2, <2>3, CashElsewhere
<1>2. ASSUME NEW q \in sent, MfDecides(q)
      PROVE  CashInv' /\ BookStep
  <2>1. CASE q.id \in Ids
    BY <1>2, <2>1, CashDecides
  <2>2. CASE q.id \notin Ids
    <3>1. q.id \in Txs /\ q.entry.tag \notin Receipts
      BY <2>2 DEF TypeInv, TypeOK, CashInv, Own
    <3>2. UNCHANGED <<rows, run>> /\ sent' = sent \ {q} /\ (entries' = entries \/ Place(q.id, q.entry))
      BY <1>2 DEF MfDecides
    <3>3. /\ \A i \in Ids : entries'[i] = entries[i]
          /\ \A u \in Txs : entries'[u].tag \notin Receipts
      BY <2>2, <3>1, <3>2 DEF Place, TypeInv, TypeOK, CashInv, Own
    <3>4. QED BY <2>2, <3>2, <3>3, CashElsewhere
  <2>3. QED BY <2>1, <2>2
<1>3. ASSUME NEW r \in Receipts,
             \/ RegisterReceipt(r) \/ CompleteReceipt(r) \/ Cancel(r) \/ DayPasses(r)
             \/ EditRow(r) \/ OperatorResets(r) \/ OperatorTypesId(r)
             \/ \E t \in Txs : OperatorTypesLine(r, t)
      PROVE  CashInv' /\ BookStep
  BY <1>3, CashRegister, CashResets, CashTypesId, CashColumns
<1>4. QED BY <1>1, <1>2, <1>3 DEF World

-----------------------------------------------------------------------------
(* What the synchronisation does.                                          *)

\* A row goes to another state.
LEMMA MarkFitting ==
  ASSUME TypeInv, CashInv, NEW r \in Receipts, NEW state \in SyncStates \ {"JOURNALIZING"}, NEW err \in Errs,
         rows[r].sync = "REVERSED" => state = "REVERSED",
         state \in Kept \cup {rows[r].sync} \/ (\A i \in Ids : entries[i].of = r => entries[i].checked),
         state \in {"REVERSING", "REVERSED"} => IsCancelled(rows[r]),
         state = "REVERSED" => Made(r) = {},
         state = "SYNCED" => rows[r].jid # None
  PROVE  Fitting(r, InState(r, state, err))
<1> DEFINE new == InState(r, state, err)
<1>1. new \in Row /\ new.sync = state /\ new.jid = rows[r].jid /\ new.input = rows[r].input
      /\ new.exp = rows[r].exp
  BY InStateCells
<1> HIDE DEF new
<1>2. IsCancelled(new) <=> IsCancelled(rows[r])
  BY <1>1 DEF IsCancelled
<1>3. RowFits(r, rows[r])
  BY DEF CashInv
<1>4. RowFits(r, new)
  BY <1>1, <1>2, <1>3 DEF RowFits
<1>5. QED BY <1>1, <1>4 DEF Fitting, new

\* A row from whose state no entry can have come, and which has no id, has no entry.
LEMMA NoneOwn ==
  ASSUME OnceInv, NEW r \in Receipts, rows[r].jid = None, rows[r].sync # "CREATING"
  PROVE  Made(r) = {} /\ Pending(r) = {} /\ \A i \in Ids : entries[i].of # r
BY NoneMade, MadeIs DEF OnceInv

\* The execution goes on with the next row.
LEMMA DoneSilent ==
  ASSUME NEW r
  PROVE  \A p \in {"reverse", "maintain", "detect", "classify", "create", "rules", "human", "match"} :
           Done(p, r).at \in Silent
BY SilentPlaces DEF Done, Idle

LEMMA MoveSilent ==
  ASSUME TypeInv
  PROVE  \A p \in {"again", "again2", "refused", "mark", "rejected", "limited"} : Move(p).at \in Silent
<1>1. \A p \in Silent : Move(p).at = p
  BY MoveType DEF Silent, Move, TypeInv, TypeOK, Run
<1>2. QED BY <1>1, SilentPlaces

LEMMA CashReverse ==
  ASSUME TypeInv, Admits, OnceInv, CashInv, NEW r \in Receipts, ReverseWithoutJournal(r)
  PROVE  CashInv' /\ BookStep
<1> DEFINE guard == /\ IsCancelled(rows[r]) /\ rows[r].sync = run.seen[r].sync /\ rows[r].jid = None
           new == InState(r, "REVERSED", None)
           done == Done("reverse", r)
<1>1. run.at = "reverse" /\ r \in run.todo
  BY DEF ReverseWithoutJournal, Takes
<1>2. guard => rows[r].sync \in NoJournalStates
  BY <1>1 DEF Admits, Chosen
<1>3. guard => Made(r) = {}
  BY <1>2, NoneOwn DEF NoJournalStates
<1>4. "REVERSED" \in SyncStates /\ None \in Errs
  BY States
<1>5. guard => Fitting(r, new)
  BY <1>3, <1>4, NoneOwn, <1>2, MarkFitting DEF NoJournalStates
<1>6. done.at \in Silent
  BY DoneSilent
<1>7. WriteIfCurrent(r, guard, FALSE, new, done, done)
  BY DEF ReverseWithoutJournal
<1> HIDE DEF guard, new, done
<1>8. QED BY <1>1, <1>5, <1>6, <1>7, CashWrites

\* Rows without an entry are classified, changed rows and conflicts shown to the operator.
LEMMA CashNewRows ==
  ASSUME TypeInv, Admits, OnceInv, CashInv, NEW r \in Receipts,
         DetectChange(r) \/ HoldRuleConflict(r) \/ Classify(r)
  PROVE  CashInv' /\ BookStep
<1>1. "NEEDS_REVIEW" \in SyncStates \cap Kept /\ None \in Errs
  BY States DEF Kept
<1> DEFINE review == InState(r, "NEEDS_REVIEW", None)
<1>2. rows[r].sync # "REVERSED" => Fitting(r, review)
  BY <1>1, MarkFitting
<1>3. CASE DetectChange(r)
  <2> DEFINE guard == rows[r].sync = "SYNCED" /\ HasInputChanged(rows[r])
             done == Done("detect", r)
  <2>1. WriteIfCurrent(r, guard, FALSE, review, done, done) /\ run.at = "detect"
    BY <1>3 DEF DetectChange, Takes
  <2>2. guard => rows[r].sync # "REVERSED"
    OBVIOUS
  <2>3. done.at \in Silent
    BY DoneSilent
  <2> HIDE DEF guard, done, review
  <2>4. QED BY <1>2, <2>1, <2>2, <2>3, CashWrites
<1>4. CASE HoldRuleConflict(r)
  <2> DEFINE guard == rows[r].sync = "WAITING_TRANSACTION" /\ rows[r].jid = None
             done == Done("rules", r)
  <2>1. WriteIfCurrent(r, guard, FALSE, review, done, done) /\ run.at = "rules"
    BY <1>4 DEF HoldRuleConflict, Takes
  <2>2. guard => rows[r].sync # "REVERSED"
    OBVIOUS
  <2>3. done.at \in Silent
    BY DoneSilent
  <2> HIDE DEF guard, done, review
  <2>4. QED BY <1>2, <2>1, <2>2, <2>3, CashWrites
<1>5. CASE Classify(r)
  <2> DEFINE guard == rows[r].sync = run.seen[r].sync /\ rows[r].jid = None
             state == InitialStateFor(run.seen[r])
             new == InState(r, state, None)
             done == Done("classify", r)
  <2>1. WriteIfCurrent(r, guard, FALSE, new, done, done) /\ run.at = "classify" /\ r \in run.todo
    BY <1>5 DEF Classify, Takes
  <2>2. run.seen[r].sync \in {"", "PENDING"}
    BY <2>1 DEF Admits, Chosen
  <2>3. state \in {run.seen[r].sync, "NOT_TARGET", "NEEDS_REVIEW", "PENDING", "WAITING_TRANSACTION"}
    BY DEF InitialStateFor
  <2>4. state \in SyncStates /\ state \notin {"REVERSING", "REVERSED", "SYNCED", "JOURNALIZING"}
    BY <2>2, <2>3, States
  <2>5. guard => \A i \in Ids : entries[i].of # r
    BY <2>2, NoneOwn
  <2>6. guard => Fitting(r, new)
    BY <1>1, <2>2, <2>4, <2>5, MarkFitting
  <2>7. done.at \in Silent
    BY DoneSilent
  <2> HIDE DEF guard, done, new
  <2>8. QED BY <2>1, <2>6, <2>7, CashWrites
<1>6. QED BY <1>3, <1>4, <1>5

\* A row is read anew.
LEMMA ReadsAre ==
  ASSUME TypeInv, NEW r \in Receipts, NEW p \in {"recovered", "undo", "cancel", "import"}
  PROVE  /\ Reads(r, p) \in Run /\ Reads(r, p).at = p /\ Reads(r, p).who = r /\ Reads(r, p).id = None
         /\ Reads(r, p).seen[r] = rows[r]
<1>1. p \in Places
  BY DEF Places
<1>2. [Nothing EXCEPT ![r] = rows[r]][r] = rows[r]
  BY IdleType
<1>3. QED BY <1>1, <1>2, ReadsType

LEMMA CashRecover ==
  ASSUME TypeInv, OnceInv, CashInv, NEW r \in Receipts, RecoverCreating(r)
  PROVE  CashInv' /\ BookStep
<1> DEFINE found == FindJournalsByTag(r, RecoverySearchDays(rows[r]))
           to == Reads(r, "recovered")
<1>1. run.at = "maintain"
  BY DEF RecoverCreating, Takes
<1>2. \/ found = {} /\ Goes(to)
      \/ \E i \in found : Goes([to EXCEPT !.id = i])
  BY DEF RecoverCreating
<1>3. to \in Run /\ to.at = "recovered" /\ to.who = r /\ to.id = None /\ to.seen[r] = rows[r]
  BY ReadsAre
<1>4. found \subseteq {i \in Ids : entries[i].tag = r}
  BY DEF CashInv, Own, FindJournalsByTag
<1>5. ASSUME found = {}, rows[r].sync = "CREATING", rows[r].aged
      PROVE  Pending(r) = {} /\ \A i \in Ids : entries[i].of = r => entries[i].checked
  <2>1. Pending(r) = {}
    BY <1>5 DEF OnceInv, BooksInv, Overdue
  <2>2. ASSUME NEW i \in Ids, entries[i].of = r, ~entries[i].checked
        PROVE  FALSE
    <3>1. entries[i].day = rows[r].input.day /\ entries[i].tag = r
      BY <2>2, TagIsOwn DEF CashInv, RowFits, Says
    <3>2. i \in found
      BY <3>1 DEF FindJournalsByTag, RecoverySearchDays
    <3>3. QED BY <1>5, <3>2
  <2>3. QED BY <2>1, <2>2
<1> HIDE DEF found, to
<1>6. CASE found = {} /\ Goes(to)
  <2>1. RunFits(to) /\ to.at # "post"
    BY <1>3, <1>5, <1>6 DEF RunFits, WorkFits, LinePlaces
  <2>2. QED BY <1>1, <1>6, <2>1, CashGoes
<1>7. ASSUME NEW i \in found, Goes([to EXCEPT !.id = i])
      PROVE  CashInv' /\ BookStep
  <2> DEFINE s == [to EXCEPT !.id = i]
  <2>1. s.at = "recovered" /\ s.who = r /\ s.id = i
    BY <1>3 DEF Run
  <2>2. i \in Ids /\ entries[i].tag = r /\ i # None
    BY <1>4, <1>7, Named
  <2> HIDE DEF s
  <2>3. RunFits(s) /\ s.at # "post"
    BY <2>1, <2>2 DEF RunFits, WorkFits, LinePlaces
  <2>4. Goes(s)
    BY <1>7 DEF s
  <2>5. QED BY <1>1, <2>3, <2>4, CashGoes
<1>8. QED BY <1>2, <1>6, <1>7

\* The id of an entry with the row's tag is written.
LEMMA SyncedFitting ==
  ASSUME TypeInv, OnceInv, CashInv, NEW r \in Receipts, NEW id \in Ids, entries[id].tag = r,
         rows[r].sync # "REVERSED", NEW new \in Row, new.sync = "SYNCED", new.jid = id,
         new.exp = rows[r].exp,
         \/ new.input = rows[r].input
         \/ Pending(r) = {} /\ \A i \in Ids : entries[i].of = r => entries[i].checked
  PROVE  Fitting(r, new)
<1>1. Made(r) \subseteq {id} /\ id # None
  BY TagIsOwn, MadeIs, Named DEF OnceInv, BooksInv, Single
<1>2. RowFits(r, rows[r])
  BY DEF CashInv
<1>3. r # "deleted"
  BY JournalBooksAssumption
<1>4. RowFits(r, new)
  BY <1>1, <1>2, <1>3 DEF RowFits, Kept
<1>5. QED BY <1>1, <1>4 DEF Fitting

LEMMA CashRecovered ==
  ASSUME TypeInv, OnceInv, CashInv, NEW r \in Receipts, RecordRecovered(r)
  PROVE  CashInv' /\ BookStep
<1>1. run.at = "recovered" /\ run.who = r /\ WorkFits(run, r)
  BY DEF RecordRecovered, At, CashInv, RunFits
<1> DEFINE again == Move("again")
<1>2. again.at \in Silent /\ RunFits(again) /\ again.at # "post"
  BY MoveSilent, SilentFits
<1>3. CASE run.id # None
  <2> DEFINE guard == rows[r].sync \in {"CREATING", "UNKNOWN"}
             new == Synced(r, run.id)
  <2>1. WriteIfCurrent(r, guard, TRUE, new, again, again)
    BY <1>3 DEF RecordRecovered
  <2>2. run.id \in Ids /\ entries[run.id].tag = r
    BY <1>1, <1>3 DEF WorkFits
  <2>3. new \in Row /\ new.sync = "SYNCED" /\ new.jid = run.id /\ new.exp = rows[r].exp /\ new.input = rows[r].input
    BY <2>2, SyncedCells
  <2>4. guard => rows[r].sync # "REVERSED"
    OBVIOUS
  <2> HIDE DEF guard, new, again
  <2>5. guard => Fitting(r, new)
    BY <2>2, <2>3, <2>4, SyncedFitting
  <2>6. QED BY <1>1, <1>2, <2>1, <2>5, CashWrites
<1>4. CASE run.id = None /\ run.seen[r].sync = "CREATING" /\ run.seen[r].aged
  <2> DEFINE guard == rows[r].sync = "CREATING"
             new == InState(r, "UNKNOWN", None)
  <2>1. WriteIfCurrent(r, guard, FALSE, new, again, again)
    BY <1>4 DEF RecordRecovered
  <2>2. \A i \in Ids : entries[i].of = r => entries[i].checked
    BY <1>1, <1>4 DEF WorkFits
  <2>3. "UNKNOWN" \in SyncStates /\ None \in Errs
    BY States
  <2>4. guard => Fitting(r, new)
    BY <2>2, <2>3, MarkFitting
  <2> HIDE DEF guard, new, again
  <2>5. QED BY <1>1, <1>2, <2>1, <2>4, CashWrites
<1>5. CASE run.id = None /\ ~(run.seen[r].sync = "CREATING" /\ run.seen[r].aged)
  BY <1>1, <1>2, <1>5, CashGoes DEF RecordRecovered
<1>6. QED BY <1>3, <1>4, <1>5

\* Without statement lines no row waits for the entry of one.
LEMMA NoneJournalizes ==
  ASSUME TypeInv, CashInv, NEW r \in Receipts
  PROVE  rows[r].sync # "JOURNALIZING"
BY DEF CashInv, RowFits

\* ... and nothing is ever rewritten instead of being deleted.
LEMMA NeverRewritten ==
  ASSUME CashInv, NEW row \in Row
  PROVE  CancellationRoute(row) # "put"
<1>1. CASE Txs = {}
  BY <1>1 DEF CancellationRoute, Row, Input
<1>2. CASE Methods \cap LinkedMethods = {}
  <2>1. None \notin LinkedMethods
    BY DEF LinkedMethods, None
  <2>2. QED BY <1>2, <2>1 DEF CancellationRoute, Row, Input
<1>3. QED BY <1>1, <1>2 DEF CashInv, Unlinked

LEMMA CashProcess ==
  ASSUME TypeInv, OnceInv, CashInv, NEW r \in Receipts, ProcessMaintenanceRow(r)
  PROVE  CashInv' /\ BookStep
<1> DEFINE undo == Reads(r, "undo")
           cancel == Reads(r, "cancel")
           import == [Reads(r, "import") EXCEPT !.id = IF Live(rows[r].jid) THEN rows[r].jid ELSE None]
           done == Done("maintain", r)
<1>1. run.at \in {"maintain", "again", "again2"}
  BY DEF ProcessMaintenanceRow, Settles, Takes, At
<1>2. \/ rows[r].sync = "REVERSING" /\ Goes(undo)
      \/ Goes(cancel)
      \/ IsImportCandidate(rows[r]) /\ Goes(import)
      \/ Goes(done)
  BY DEF ProcessMaintenanceRow
<1>3. /\ undo.at = "undo" /\ undo.who = r /\ undo.seen[r] = rows[r]
      /\ cancel.at = "cancel"
      /\ import.at = "import" /\ import.who = r /\ import.seen[r] = rows[r]
  <2> DEFINE m == Reads(r, "import")
  <2>1. m \in Run /\ m.at = "import" /\ m.who = r /\ m.seen[r] = rows[r]
    BY ReadsAre
  <2> HIDE DEF m
  <2>2. \A i : [m EXCEPT !.id = i].at = "import" /\ [m EXCEPT !.id = i].who = r /\ [m EXCEPT !.id = i].seen[r] = rows[r]
    BY <2>1 DEF Run
  <2>3. QED BY <2>2, ReadsAre DEF m
<1>4. done.at \in Silent /\ cancel.at \in Silent
  BY <1>3, DoneSilent, SilentPlaces
<1> HIDE DEF undo, cancel, import, done
<1>5. CASE rows[r].sync = "REVERSING" /\ Goes(undo)
  <2>1. IsCancelled(rows[r])
    BY <1>5 DEF CashInv, RowFits
  <2>2. RunFits(undo) /\ undo.at # "post"
    BY <1>3, <2>1 DEF RunFits, WorkFits, LinePlaces
  <2>3. QED BY <1>1, <1>5, <2>2, CashGoes
<1>6. CASE IsImportCandidate(rows[r]) /\ Goes(import)
  <2>1. rows[r].jid # None
    BY <1>6 DEF IsImportCandidate
  <2>2. ASSUME NEW i \in Ids, entries[i].of = r, ~entries[i].checked
        PROVE  Says(entries[i], SummarizeSyncInput(rows[r]))
    <3>1. rows[r].sync \in Kept /\ Says(entries[i], rows[r].input)
      BY <2>2 DEF CashInv, RowFits
    <3>2. rows[r].sync = "NEEDS_REVIEW" /\ ~HasInputChanged(rows[r])
      BY <1>6, <3>1 DEF IsImportCandidate, Kept, ImportableStates, NoJournalStates
    <3>3. rows[r].input = SummarizeSyncInput(rows[r])
      BY <3>1, <3>2 DEF HasInputChanged, Says
    <3>4. QED BY <3>1, <3>3
  <2>3. RunFits(import) /\ import.at # "post"
    BY <1>3, <2>1, <2>2 DEF RunFits, WorkFits, LinePlaces
  <2>4. QED BY <1>1, <1>6, <2>3, CashGoes
<1>7. CASE Goes(cancel) \/ Goes(done)
  BY <1>1, <1>4, <1>7, SilentFits, CashGoes
<1>8. QED BY <1>2, <1>5, <1>6, <1>7

LEMMA CashImport ==
  ASSUME TypeInv, OnceInv, CashInv, NEW r \in Receipts, ImportRow(r)
  PROVE  CashInv' /\ BookStep
<1> DEFINE row == run.seen[r]
           guard == rows[r].jid = row.jid /\ rows[r].sync \in ImportableStates
           base == InState(r, "SYNCED", None)
           taken == [base EXCEPT !.input = SummarizeSyncInput(row)]
           other == InState(r, IF row.sync = "UNKNOWN" THEN rows[r].sync ELSE "NEEDS_REVIEW", row.jid)
           done == Done("maintain", r)
<1>1. run.at = "import" /\ WorkFits(run, r)
  BY DEF ImportRow, At, CashInv, RunFits
<1>2. \/ WriteIfCurrent(r, guard, FALSE, taken, done, done)
      \/ WriteIfCurrent(r, guard, FALSE, other, done, done)
  BY DEF ImportRow
<1>3. guard => rows[r].sync # "REVERSED" /\ rows[r].sync # "SYNCED" /\ rows[r].sync \in SyncStates
  BY States DEF ImportableStates, NoJournalStates
<1>4. guard => Fitting(r, taken)
  <2> SUFFICES ASSUME guard PROVE Fitting(r, taken)
    OBVIOUS
  <2>1. /\ base \in Row /\ base.sync = "SYNCED" /\ base.jid = rows[r].jid /\ base.exp = rows[r].exp
    <3>1. "SYNCED" \in SyncStates /\ None \in Errs
      BY States
    <3>2. QED BY <3>1, InStateCells
  <2>2. SummarizeSyncInput(row) \in Input
    BY Parts, SummaryType DEF Row
  <2> HIDE DEF base
  <2>3. /\ taken \in Row /\ taken.sync = "SYNCED" /\ taken.jid = rows[r].jid /\ taken.exp = rows[r].exp
        /\ taken.input = SummarizeSyncInput(row)
    BY <2>1, <2>2 DEF Row
  <2> HIDE DEF taken
  <2>4. rows[r].jid # None /\ rows[r].jid = row.jid
    BY <1>1 DEF WorkFits
  <2>5. Pending(r) = {} /\ Made(r) \subseteq {rows[r].jid}
    BY <2>4, NothingPending DEF CashInv, RowFits
  <2>6. \A i \in Ids : entries[i].of = r /\ ~entries[i].checked => Says(entries[i], SummarizeSyncInput(row))
    BY <1>1, <2>4, <2>5, MadeIs DEF WorkFits
  <2>7. RowFits(r, rows[r]) /\ (IsCancelled(taken) <=> IsCancelled(rows[r]))
    BY <2>3 DEF CashInv, IsCancelled
  <2>8. RowFits(r, taken)
    BY <2>3, <2>4, <2>5, <2>6, <2>7 DEF RowFits, Kept
  <2>9. QED BY <1>3, <2>3, <2>4, <2>8 DEF Fitting
<1>5. guard => Fitting(r, other)
  <2>1. row.jid \in Errs /\ "NEEDS_REVIEW" \in SyncStates \cap Kept
    BY Parts, States DEF Errs, Kept
  <2>2. ASSUME guard, NEW state \in {rows[r].sync, "NEEDS_REVIEW"}
        PROVE  Fitting(r, InState(r, state, row.jid))
    <3>1. RowFits(r, rows[r])
      BY DEF CashInv
    <3>2. QED BY <1>3, <2>1, <2>2, <3>1, MarkFitting DEF RowFits
  <2>3. QED BY <2>2
<1>6. done.at \in Silent
  BY DoneSilent
<1> HIDE DEF guard, taken, other, done
<1>7. QED BY <1>1, <1>2, <1>4, <1>5, <1>6, CashWrites

LEMMA CashCancel ==
  ASSUME TypeInv, Admits, OnceInv, CashInv, NEW r \in Receipts, CancelRow(r)
  PROVE  CashInv' /\ BookStep
<1> DEFINE row == run.seen[r]
           current == IsCancelled(rows[r]) /\ rows[r].sync = row.sync
           unknown == current /\ CancellationRoute(rows[r]) = "unknown"
           review == InState(r, "NEEDS_REVIEW", RouteUnknown)
           mark == InState(r, "REVERSING", None)
           to == [Move("undo") EXCEPT !.seen[r] = mark]
           done == Done("maintain", r)
<1>1. run.at = "cancel" /\ run.who = r
  BY DEF CancelRow, At
<1>2. \/ WriteIfCurrent(r, unknown, FALSE, review, done, done)
      \/ Goes(done)
      \/ WriteIfCurrent(r, current, FALSE, mark, to, done)
  BY DEF CancelRow
<1>3. current => rows[r].sync # "REVERSED"
  BY <1>1 DEF Admits, Chosen, CancelledRowHasJournal, NoJournalStates
<1>4. {"NEEDS_REVIEW", "REVERSING"} \subseteq SyncStates \cap Kept /\ None \in Errs /\ RouteUnknown \in Errs
  BY States DEF Kept
<1>5. unknown => Fitting(r, review)
  BY <1>3, <1>4, MarkFitting
<1>6. current => Fitting(r, mark)
  BY <1>3, <1>4, MarkFitting
<1>7. done.at \in Silent
  BY DoneSilent
<1>8. mark \in Row /\ mark.jid = rows[r].jid /\ mark.exp = rows[r].exp
  BY <1>4, InStateCells
<1> HIDE DEF mark
<1>9. to.at = "undo" /\ to.who = r /\ to.seen[r] = mark
  <2>1. "undo" \in Places
    BY DEF Places
  <2> HIDE DEF row, current, unknown, review, done
  <2>2. to.at = "undo" /\ to.who = run.who /\ to.seen[r] = mark
    BY <1>8, <2>1, SeenTyped
  <2>3. QED BY <1>1, <2>2
<1>10. ASSUME current, rows' = [rows EXCEPT ![r] = mark], run' = to
       PROVE  RunFits(run)' /\ to.at # "post"
  <2>1. rows'[r] = mark
    BY <1>10 DEF TypeInv, TypeOK
  <2>2. IsCancelled(rows'[r])
    BY <1>8, <1>10, <2>1 DEF IsCancelled
  <2>3. QED BY <1>9, <1>10, <2>1, <2>2 DEF RunFits, WorkFits, LinePlaces, IsCancelled
<1> HIDE DEF current, unknown, review, to, done
<1>11. CASE WriteIfCurrent(r, unknown, FALSE, review, done, done)
  BY <1>1, <1>5, <1>7, <1>11, CashWrites
<1>12. CASE Goes(done)
  BY <1>1, <1>7, <1>12, SilentFits, CashGoes
<1>13. CASE WriteIfCurrent(r, current, FALSE, mark, to, done)
  BY <1>1, <1>6, <1>7, <1>10, <1>13, CashWritesTo
<1>14. QED BY <1>2, <1>11, <1>12, <1>13

LEMMA CashFails ==
  ASSUME TypeInv, CashInv, NEW r \in Receipts, NEW err \in {None, RouteUnknown}, NEW to,
         to.at \in Silent, run.at # "post", RowFails(r, err, to)
  PROVE  CashInv' /\ BookStep
<1> DEFINE guard == rows[r].sync = "REVERSING"
           new == InState(r, "ERROR", err)
<1>1. WriteIfCurrent(r, guard, FALSE, new, to, to)
  BY DEF RowFails
<1>2. "ERROR" \in SyncStates \cap Kept /\ err \in Errs
  BY States DEF Kept
<1>3. guard => Fitting(r, new)
  BY <1>2, MarkFitting
<1> HIDE DEF guard, new
<1>4. QED BY <1>1, <1>3, CashWrites

\* The entry of a cancelled row is deleted.
LEMMA CashDeletes ==
  ASSUME TypeInv, OnceInv, CashInv, NEW r \in Receipts, At("undo", r), run.seen[r].jid # None,
         Place(run.seen[r].jid, Deleted), run' = Move("undone") \/ run' = Idle, UNCHANGED <<rows, sent>>
  PROVE  CashInv' /\ BookStep
<1> DEFINE j == rows[r].jid
<1>1. run.at = "undo" /\ run.who = r /\ IsCancelled(rows[r]) /\ run.seen[r].jid = j
  BY DEF At, CashInv, RunFits, WorkFits
<1>2. j # None /\ j \in Ids /\ Pending(r) = {} /\ Made(r) \subseteq {j} /\ entries[j].tag \in {r, "hand", "deleted"}
  BY <1>1, NothingPending DEF CashInv, RowFits
<1>3. entries'[j] = Deleted /\ \A i \in (Ids \cup Txs) \ {j} : entries'[i] = entries[i]
  BY <1>1, <1>2 DEF Place, TypeInv, TypeOK
<1>4. Deleted.tag = "deleted" /\ Deleted.of = None /\ ~Deleted.void
  BY DEF Deleted, NoEntry
<1>5. "deleted" \notin Receipts /\ "hand" \notin Receipts /\ None \notin Receipts
  BY JournalBooksAssumption, Named
<1>6. \A s \in Receipts : Pending(s)' = Pending(s) /\ Made(s)' \subseteq Made(s)
  <2>1. \A s \in Receipts, i \in Ids : entries'[i].of = s => entries[i].of = s /\ i # j
    BY <1>3, <1>4, <1>5
  <2>2. QED BY <2>1 DEF Made, Pending
<1>7. \A i \in Ids : entries'[i].of # r
  BY <1>2, <1>3, <1>4, <1>5, MadeIs
<1>8. Made(r)' = {}
  BY <1>2, <1>7 DEF Made, Pending
<1>9. RowFits(r, rows[r])'
  <2>1. RowFits(r, rows[r])
    BY DEF CashInv
  <2>2. QED BY <1>1, <1>2, <1>3, <1>4, <1>6, <1>7, <1>8, <2>1 DEF RowFits, Says, IsCancelled
<1>10. ASSUME NEW s \in Receipts \ {r}
       PROVE  RowFits(s, rows[s])'
  <2>1. RowFits(s, rows[s])
    BY DEF CashInv
  <2>2. rows[s].jid # None => rows[s].jid \in Ids \ {j}
    BY <1>2, NothingPending DEF CashInv, Own
  <2>3. \A i \in Ids : entries'[i].of = s => entries'[i] = entries[i]
    BY <1>3, <1>4, <1>5
  <2>4. QED BY <1>3, <1>6, <2>1, <2>2, <2>3, FitsStill
<1>11. Own'
  <2>1. \A t \in Txs : entries'[t] = entries[t]
    BY <1>2, <1>3, JournalBooksAssumption
  <2>2. QED BY <1>2, <1>3, <1>4, <1>5, <2>1 DEF CashInv, Own, Plainly
<1>12. run'.at \in {"undone", "idle"} /\ (run'.at = "undone" => run'.who = r)
  BY <1>1 DEF Move, Idle, TypeInv, TypeOK, Run
<1>13. RunFits(run)'
  BY <1>8, <1>12 DEF RunFits, WorkFits, LinePlaces
<1>14. BookStep
  <2>1. Withdrawn' = Withdrawn /\ Closed' = Closed /\ r \in Withdrawn
    BY <1>1 DEF Withdrawn, Closed
  <2>2. Asked' = Asked
    BY <1>1, <1>12 DEF Asked, At
  <2>3. CASE entries[j].tag = r
    <3>1. r \in Entered
      BY <1>2, <2>3 DEF Entered, CashInv, Own, Plainly
    <3>2. \A i \in Ids : entries'[i].tag # r
      BY <1>2, <1>3, <1>4, <1>5, MadeIs, TagIsOwn
    <3>3. \A s \in Receipts \ {r}, i \in Ids : entries'[i].tag = s <=> entries[i].tag = s
      BY <1>3, <1>4, <1>5, <2>3
    <3>4. \A s \in Receipts, i \in Ids : entries'[i].tag = s => entries'[i] = entries[i]
      BY <1>3, <1>4, <1>5
    <3>5. Entered' = Entered \ {r}
      BY <3>2, <3>3, <3>4 DEF Entered
    <3>6. Books!TakeBack(r)
      BY <2>1, <2>2, <3>1, <3>5 DEF Books!TakeBack
    <3>7. QED BY <3>6 DEF BookStep, Books!Next
  <2>4. CASE entries[j].tag # r
    <3>1. \A s \in Receipts, i \in Ids : entries'[i].tag = s <=> entries[i].tag = s
      BY <1>2, <1>3, <1>4, <1>5, <2>4
    <3>2. \A s \in Receipts, i \in Ids : entries'[i].tag = s => entries'[i] = entries[i]
      BY <1>3, <1>4, <1>5
    <3>3. Entered' = Entered
      BY <3>1, <3>2 DEF Entered
    <3>4. QED BY <2>1, <2>2, <3>3 DEF BookStep, Books!bookVars
  <2>5. QED BY <2>3, <2>4
<1>15. QED BY <1>9, <1>10, <1>11, <1>13, <1>14 DEF CashInv

LEMMA CashFinish ==
  ASSUME TypeInv, OnceInv, CashInv, NEW r \in Receipts, FinishReversal(r)
  PROVE  CashInv' /\ BookStep
<1> DEFINE row == run.seen[r]
           done == Done("maintain", r)
           undone == Move("undone")
           refused == Move("refused")
<1>1. At("undo", r) /\ run.at = "undo" /\ run.who = r /\ WorkFits(run, r)
  BY DEF FinishReversal, At, CashInv, RunFits
<1>2. CancellationRoute(row) # "put"
  BY Parts, NeverRewritten
<1>3. \/ \E err \in {None, RouteUnknown} : RowFails(r, err, done)
      \/ row.jid # None /\ Live(row.jid) /\ CallsMf(row.jid, Deleted, undone, refused)
      \/ row.jid # None /\ ~Live(row.jid) /\ Goes(undone)
  BY <1>2, Routes DEF FinishReversal
<1>4. done.at \in Silent /\ refused.at \in Silent /\ undone.at = "undone" /\ undone.who = r
  BY <1>1, DoneSilent, MoveSilent DEF Move, TypeInv, TypeOK, Run
<1> HIDE DEF done, refused
<1>5. ASSUME NEW err \in {None, RouteUnknown}, RowFails(r, err, done)
      PROVE  CashInv' /\ BookStep
  BY <1>1, <1>4, <1>5, CashFails
<1>6. CASE row.jid # None /\ CallsMf(row.jid, Deleted, undone, refused)
  <2>1. CASE UNCHANGED entries /\ run' = refused
    BY <1>4, <1>6, <2>1, CashLeaves DEF CallsMf
  <2>2. CASE Place(row.jid, Deleted) /\ (run' = undone \/ run' = Idle)
    BY <1>1, <1>6, <2>2, CashDeletes DEF CallsMf
  <2>3. QED BY <1>6, <2>1, <2>2 DEF CallsMf
<1>7. CASE row.jid # None /\ ~Live(row.jid) /\ Goes(undone)
  <2>1. row.jid = rows[r].jid
    BY <1>1, <1>7 DEF WorkFits
  <2>2. row.jid \in Ids /\ entries[row.jid].tag = "deleted"
    BY <1>7, <2>1, NothingPending DEF Live
  <2>3. entries[row.jid].of # r
    BY <2>2, TagIsOwn, JournalBooksAssumption
  <2>4. Made(r) = {}
    BY <1>7, <2>1, <2>3, NothingPending
  <2>5. RunFits(undone) /\ undone.at # "post"
    BY <1>4, <2>4 DEF RunFits, WorkFits, LinePlaces
  <2>6. QED BY <1>1, <1>7, <2>5, CashGoes
<1>8. QED BY <1>3, <1>5, <1>6, <1>7

LEMMA CashReversed ==
  ASSUME TypeInv, OnceInv, CashInv, NEW r \in Receipts, RecordReversed(r)
  PROVE  CashInv' /\ BookStep
<1> DEFINE done == Done("maintain", r)
           guard == rows[r].sync = "REVERSING"
           new == InState(r, "REVERSED", None)
<1>1. done.at \in Silent
  BY DoneSilent
<1>2. CASE At("undone", r) /\ WriteIfCurrent(r, guard, FALSE, new, done, done)
  <2>1. run.at = "undone" /\ Made(r) = {}
    BY <1>2 DEF At, CashInv, RunFits, WorkFits
  <2>2. guard => IsCancelled(rows[r])
    BY DEF CashInv, RowFits
  <2>3. "REVERSED" \in SyncStates /\ None \in Errs
    BY States
  <2>4. \A i \in Ids : entries[i].of # r
    BY <2>1, MadeIs
  <2>5. guard => Fitting(r, new)
    BY <2>1, <2>2, <2>3, <2>4, MarkFitting
  <2> HIDE DEF done, guard, new
  <2>6. QED BY <1>1, <1>2, <2>1, <2>5, CashWrites
<1>3. CASE At("refused", r) /\ RowFails(r, None, done)
  BY <1>1, <1>3, CashFails DEF At
<1>4. QED BY <1>2, <1>3 DEF RecordReversed

-----------------------------------------------------------------------------
(* The creation of an entry.                                               *)

LEMMA CashSearch ==
  ASSUME TypeInv, OnceInv, CashInv, NEW r \in Receipts, SearchFirst(r)
  PROVE  CashInv' /\ BookStep
<1> DEFINE found == FindJournalsByTag(r, {run.seen[r].day})
           mark == [Move("mark") EXCEPT !.who = r]
<1>1. run.at = "create"
  BY DEF SearchFirst, Takes
<1>2. Goes(mark) \/ \E i \in found : Goes([Move("adopt") EXCEPT !.who = r, !.id = i])
  BY DEF SearchFirst
<1>3. mark.at = "mark"
  BY HandsAt
<1>4. found \subseteq {i \in Ids : entries[i].tag = r}
  BY DEF CashInv, Own, FindJournalsByTag
<1> HIDE DEF found, mark
<1>5. CASE Goes(mark)
  BY <1>1, <1>3, <1>5, SilentPlaces, SilentFits, CashGoes
<1>6. ASSUME NEW i \in found, Goes([Move("adopt") EXCEPT !.who = r, !.id = i])
      PROVE  CashInv' /\ BookStep
  <2> DEFINE m == Move("adopt")
             s == [m EXCEPT !.who = r, !.id = i]
  <2>1. m \in Run /\ m.at = "adopt"
    BY MoveTyped
  <2> HIDE DEF m
  <2>2. s.at = "adopt" /\ s.who = r /\ s.id = i
    BY <2>1 DEF Run
  <2> HIDE DEF s
  <2>3. RunFits(s) /\ s.at # "post"
    BY <1>4, <1>6, <2>2 DEF RunFits, WorkFits, LinePlaces
  <2>4. Goes(s)
    BY <1>6 DEF s, m
  <2>5. QED BY <1>1, <2>3, <2>4, CashGoes
<1>7. QED BY <1>2, <1>5, <1>6

LEMMA CashAdopt ==
  ASSUME TypeInv, OnceInv, CashInv, NEW r \in Receipts, Adopt(r)
  PROVE  CashInv' /\ BookStep
<1> DEFINE guard == rows[r].sync = "PENDING"
           base == Synced(r, run.id)
           input == SummarizeSyncInput(run.seen[r])
           new == [base EXCEPT !.input = input]
           done == Done("create", r)
<1>1. run.at = "adopt" /\ run.id # None /\ WriteIfCurrent(r, guard, TRUE, new, done, done)
  BY DEF Adopt, At, OnceInv, RunInv, Knows
<1>2. run.id \in Ids /\ entries[run.id].tag = r
  BY <1>1 DEF Adopt, At, CashInv, RunFits, WorkFits
<1>3. input \in Input
  BY Parts, SummaryType DEF Row
<1>4. base \in Row /\ base.sync = "SYNCED" /\ base.jid = run.id /\ base.exp = rows[r].exp
  BY <1>2, SyncedCells
<1> HIDE DEF base, input
<1>5. new \in Row /\ new.sync = "SYNCED" /\ new.jid = run.id /\ new.exp = rows[r].exp
  BY <1>3, <1>4 DEF Row
<1>6. guard => Pending(r) = {} /\ \A i \in Ids : entries[i].of = r => entries[i].checked
  <2> SUFFICES ASSUME guard
               PROVE  Pending(r) = {} /\ \A i \in Ids : entries[i].of = r => entries[i].checked
    OBVIOUS
  <2>1. Pending(r) = {}
    BY NoneOwn, NothingPending
  <2>2. QED BY <2>1 DEF CashInv, RowFits, Kept
<1>7. guard => rows[r].sync # "REVERSED"
  OBVIOUS
<1>8. done.at \in Silent
  BY DoneSilent
<1> HIDE DEF guard, new, done
<1>9. guard => Fitting(r, new)
  BY <1>2, <1>5, <1>6, <1>7, SyncedFitting
<1>10. QED BY <1>1, <1>8, <1>9, CashWrites

\* The attempt is noted: an entry is asked for.
LEMMA CashMark ==
  ASSUME TypeInv, OnceInv, CashInv, NEW r \in Receipts, MarkCreating(r)
  PROVE  CashInv' /\ BookStep
<1> DEFINE old == InState(r, "CREATING", None)
           input == SummarizeSyncInput(run.seen[r])
           mark == [old EXCEPT !.aged = FALSE, !.input = input]
           to == [Move("post") EXCEPT !.seen[r] = mark]
           guard == /\ rows[r].sync = "PENDING" /\ rows[r].exp = "COMPLETED" /\ rows[r].jid = None
                    /\ DecideSyncTarget(rows[r]) = "ready" /\ rows[r].method = "cash"
                    /\ SummarizeSyncInput(rows[r]) = SummarizeSyncInput(run.seen[r])
           done == Done("create", r)
<1>1. run.at = "mark" /\ run.who = r /\ WriteIfCurrent(r, guard, FALSE, mark, to, done)
  BY DEF MarkCreating, At
<1>2. input \in Input /\ rows[r] \in Row
  BY Parts, SummaryType DEF Row
<1> DEFINE seen == run.seen[r]
<1>20. input = [amount |-> seen.amount, day |-> seen.day, method |-> seen.method, tx |-> seen.tx]
  BY DEF SummarizeSyncInput, SummaryWithTx
<1> HIDE DEF input, seen, to, guard, done
<1>3. /\ old \in Row /\ old.sync = "CREATING" /\ old.jid = rows[r].jid /\ old.exp = rows[r].exp
      /\ old.amount = rows[r].amount /\ old.day = rows[r].day /\ old.method = rows[r].method
      /\ old.tx = rows[r].tx
  <2>1. "CREATING" \in SyncStates /\ None \in Errs
    BY States
  <2>2. QED BY <2>1, InStateCells
<1> HIDE DEF old
<1>4. /\ mark \in Row /\ mark.sync = "CREATING" /\ mark.jid = rows[r].jid /\ mark.exp = rows[r].exp
      /\ mark.amount = rows[r].amount /\ mark.day = rows[r].day /\ mark.method = rows[r].method
      /\ mark.tx = rows[r].tx /\ mark.input = input
  <2>1. mark \in Row
    BY <1>2, <1>3 DEF Row
  <2>2. /\ mark.sync = old.sync /\ mark.jid = old.jid /\ mark.exp = old.exp /\ mark.amount = old.amount
        /\ mark.day = old.day /\ mark.method = old.method /\ mark.tx = old.tx
    BY <1>3 DEF Row
  <2>3. mark.input = input
    BY <1>3 DEF Row
  <2>4. QED BY <1>3, <2>1, <2>2, <2>3
<1> HIDE DEF mark
<1>21. guard => /\ rows[r].sync = "PENDING" /\ rows[r].exp = "COMPLETED" /\ rows[r].jid = None
                /\ rows[r].method = "cash" /\ SummarizeSyncInput(rows[r]) = input
  BY DEF guard, input
<1>5. guard => Made(r) = {} /\ Pending(r) = {} /\ \A i \in Ids : entries[i].of # r
  BY <1>21, NoneOwn
<1>6. guard => Fitting(r, mark)
  <2> SUFFICES ASSUME guard PROVE Fitting(r, mark)
    OBVIOUS
  <2>1. RowFits(r, mark)
    BY <1>4, <1>5, <1>21 DEF RowFits
  <2>2. QED BY <1>4, <1>21, <2>1 DEF Fitting
<1>7. to.at = "post" /\ to.who = r /\ to.seen[r] = mark
  <2>1. "post" \in Places
    BY DEF Places
  <2>2. QED BY <1>1, <1>4, <2>1, SeenTyped DEF to
<1>8. ASSUME guard, rows' = [rows EXCEPT ![r] = mark], run' = to
      PROVE  RunFits(run)' /\ BookStep
  <2>1. rows'[r] = mark /\ \A s \in Receipts \ {r} : rows'[s] = rows[s]
    BY <1>8 DEF TypeInv, TypeOK
  <2>2. mark.input = SummarizeSyncInput(mark) /\ mark.input # NoInput
    <3>1. SummarizeSyncInput(mark) = SummarizeSyncInput(rows[r])
      BY <1>4 DEF SummarizeSyncInput, SummaryWithTx
    <3>2. SummarizeSyncInput(rows[r]).method = "cash" /\ NoInput.method # "cash"
      BY <1>8, <1>21 DEF SummarizeSyncInput, SummaryWithTx, NoInput, None
    <3>3. QED BY <1>4, <1>8, <1>21, <3>1, <3>2
  <2>3. RunFits(run)'
    BY <1>7, <1>8, <2>1, <2>2 DEF RunFits, WorkFits, LinePlaces
  <2>4. UNCHANGED <<entries, sent>>
    BY <1>1 DEF WriteIfCurrent, books
  <2>5. ~IsCancelled(rows[r])
    BY <1>8, <1>21 DEF IsCancelled
  <2>6. \A s \in Receipts : IsCancelled(rows'[s]) <=> IsCancelled(rows[s])
    BY <1>4, <2>1 DEF IsCancelled
  <2>7. Withdrawn' = Withdrawn /\ r \notin Withdrawn
    BY <2>5, <2>6 DEF Withdrawn
  <2>8. Closed' = Closed /\ r \notin Closed
    <3>1. rows[r].sync # "REVERSED" /\ mark.sync # "REVERSED"
      BY <1>4, <1>8, <1>21
    <3>2. ASSUME NEW s \in Withdrawn
          PROVE  rows'[s].sync = "REVERSED" <=> rows[s].sync = "REVERSED"
      BY <2>1, <3>1 DEF Withdrawn
    <3>3. QED BY <2>7, <3>2 DEF Closed
  <2>9. Entered' = Entered /\ r \notin Entered
    BY <1>5, <1>8, <2>4, TagIsOwn DEF Entered
  <2>10. Asked' = Asked \cup {r} /\ r \notin Asked
    BY <1>1, <1>5, <1>7, <1>8, <2>4, TagIsOwn DEF Asked, At
  <2>11. Books!Ask(r)
    BY <2>7, <2>8, <2>9, <2>10 DEF Books!Ask
  <2>12. QED BY <2>3, <2>11 DEF BookStep, Books!Next
<1>9. done.at \in Silent
  BY DoneSilent DEF done
<1>10. QED BY <1>1, <1>6, <1>8, <1>9, CashWritesTo

\* The creation is sent: it takes effect, is given up or is refused.
LEMMA CashPost ==
  ASSUME TypeInv, OnceInv, CashInv, NEW r \in Receipts, PostJournal(r)
  PROVE  CashInv' /\ BookStep
<1> DEFINE e == EntryFor(r, run.seen[r])
<1>1. At("post", r)
  BY DEF PostJournal
<1>2. /\ rows[r].sync = "CREATING" /\ rows[r].jid = None /\ Made(r) = {} /\ Pending(r) = {}
      /\ e.tag = r /\ e.of = r
  BY <1>1, PostKnows
<1>3. ~e.void /\ e.amount = run.seen[r].amount /\ e.day = run.seen[r].day
  BY DEF EntryFor, NoEntry
<1>4. Says(e, rows[r].input)
  <2>1. rows[r].input = SummarizeSyncInput(run.seen[r]) /\ rows[r].input # NoInput
    BY <1>1 DEF CashInv, RunFits, WorkFits, At
  <2>2. QED BY <1>3, <2>1 DEF Says, SummarizeSyncInput, SummaryWithTx
<1>5. Plainly(e) /\ RowFits(r, rows[r])
  BY <1>2, <1>3 DEF Plainly, CashInv
<1>6. \A q \in sent : q.entry.tag # r
  BY <1>2, TagIsOwn
<1> HIDE DEF e
<1>7. ASSUME NEW i \in Ids, Creatable(i), Place(i, e), rows' = rows, sent' = sent,
             run' = [Move("entered") EXCEPT !.id = i, !.back = "create"]
      PROVE  CashInv' /\ BookStep
  <2>1. entries[i] = NoEntry /\ entries[i].tag = None /\ entries[i].of = None
    BY <1>7, FreshIs
  <2>2. entries'[i] = e /\ \A j \in (Ids \cup Txs) \ {i} : entries'[j] = entries[j]
    BY <1>7 DEF Place, TypeInv, TypeOK
  <2>3. \A s \in Receipts : Pending(s)' = Pending(s)
    BY <1>7 DEF Pending
  <2>4. Made(r)' = {i} /\ \A s \in Receipts \ {r} : Made(s)' = Made(s)
    BY <1>2, <1>7, <2>1, <2>2, Named DEF Made, Pending
  <2>5. ASSUME NEW s \in Receipts \ {r}
        PROVE  RowFits(s, rows[s])'
    <3>1. RowFits(s, rows[s]) /\ rows'[s] = rows[s]
      BY <1>7 DEF CashInv
    <3>2. rows[s].jid # None => rows[s].jid \in Ids /\ rows[s].jid # i
      BY <2>1, NothingPending
    <3>3. \A j \in Ids : entries'[j].of = s => entries'[j] = entries[j]
      BY <1>2, <2>2
    <3>4. rows[s].jid # None => entries'[rows[s].jid] = entries[rows[s].jid]
      BY <2>2, <3>2
    <3>5. QED BY <2>3, <2>4, <3>1, <3>3, <3>4, FitsStill
  <2>6. RowFits(r, rows[r])'
    <3>1. \A j \in Ids : entries'[j].of = r => j = i
      BY <2>4 DEF Made
    <3>2. Pending(r)' = {}
      BY <1>2, <2>3
    <3>3. \A j \in Ids : entries'[j].of = r => Says(entries'[j], rows'[r].input)
      BY <1>4, <1>7, <2>2, <3>1
    <3>4. QED BY <1>2, <1>7, <3>2, <3>3 DEF RowFits, Says, Kept
  <2>7. Own'
    <3>1. \A t \in Txs : entries'[t] = entries[t]
      BY <2>2, JournalBooksAssumption
    <3>2. QED BY <1>5, <1>7, <2>2, <3>1 DEF CashInv, Own, Plainly
  <2>8. run'.at = "entered" /\ run'.id = i /\ run'.who = r
    <3> DEFINE m == Move("entered")
    <3>1. m \in Run /\ m.at = "entered" /\ m.who = r
      <4>1. "entered" \in Places /\ run \in Run /\ run.who = r
        BY <1>1 DEF Places, TypeInv, TypeOK, At
      <4>2. QED BY <4>1, MoveType DEF Run
    <3> HIDE DEF m
    <3>2. run' = [m EXCEPT !.id = i, !.back = "create"]
      BY <1>7 DEF m
    <3>3. QED BY <3>1, <3>2 DEF Run
  <2>9. RunFits(run)'
    BY <1>2, <1>7, <2>2, <2>8 DEF RunFits, WorkFits, LinePlaces
  <2>10. BookStep
    <3>1. Withdrawn' = Withdrawn /\ Closed' = Closed
      BY <1>7 DEF Withdrawn, Closed
    <3>2. r \in Asked /\ Asked' = Asked \ {r}
      BY <1>1, <1>6, <1>7, <2>8 DEF Asked, At
    <3>3. Entered' = Entered \cup {r}
      BY <1>2, <1>3, <2>1, <2>2, Named DEF Entered
    <3>4. Books!Book(r)
      BY <3>1, <3>2, <3>3 DEF Books!Book
    <3>5. QED BY <3>4 DEF BookStep, Books!Next
  <2>11. \A s \in Receipts : RowFits(s, rows[s])'
    BY <2>5, <2>6
  <2>12. QED BY <2>7, <2>9, <2>10, <2>11 DEF CashInv
<1>8. ASSUME NEW i \in Ids, Creatable(i), GivesUp(i, e, Done("create", r))
      PROVE  CashInv' /\ BookStep
  <2> DEFINE n == [id |-> i, entry |-> e]
  <2>1. rows' = rows /\ entries' = entries /\ sent' = sent \cup {n}
    BY <1>8 DEF GivesUp
  <2>2. run'.at \in Silent
    <3> DEFINE d == Done("create", r)
    <3>1. d \in Run /\ d.at \in Silent
      BY DoneSilent, DoneType, PhasePlaces DEF TypeInv, TypeOK
    <3> HIDE DEF d
    <3>2. run' = [d EXCEPT !.halted = TRUE]
      BY <1>8 DEF GivesUp, d
    <3>3. QED BY <3>1, <3>2 DEF Run
  <2>3. n.id = i /\ n.entry = e
    OBVIOUS
  <2> HIDE DEF n
  <2>4. Pending(r)' = {n} /\ \A s \in Receipts \ {r} : Pending(s)' = Pending(s)
    BY <1>2, <2>1, <2>3 DEF Pending
  <2>5. \A s \in Receipts \ {r} : Made(s)' = Made(s)
    BY <1>2, <2>1, <2>3 DEF Made
  <2>6. \A s \in Receipts : RowFits(s, rows[s])'
    <3>1. ASSUME NEW s \in Receipts \ {r} PROVE RowFits(s, rows[s])'
      BY <2>1, <2>4, <2>5 DEF CashInv, RowFits, Says, IsCancelled
    <3>2. \A j \in Ids : entries[j].of # r
      BY <1>2 DEF Made
    <3>3. RowFits(r, rows[r])'
      BY <1>2, <1>4, <2>1, <2>3, <2>4, <3>2 DEF RowFits, Says, Kept
    <3>4. QED BY <3>1, <3>3
  <2>7. Own'
    BY <1>5, <2>1, <2>3 DEF CashInv, Own, Plainly
  <2>8. RunFits(run)' /\ run'.at # "post"
    BY <2>2 DEF RunFits, WorkFits, Silent
  <2>9. BookStep
    <3>1. Withdrawn' = Withdrawn /\ Closed' = Closed /\ Entered' = Entered
      BY <2>1 DEF Withdrawn, Closed, Entered
    <3>2. Asked' = Asked
      BY <1>1, <1>2, <2>1, <2>3, <2>8 DEF Asked, At
    <3>3. QED BY <3>1, <3>2 DEF BookStep, Books!bookVars
  <2>10. QED BY <2>6, <2>7, <2>8, <2>9 DEF CashInv
<1>9. CASE Goes(Move("rejected")) \/ Goes(Move("limited"))
  <2>1. run'.at \in Silent /\ UNCHANGED <<rows, entries, sent>>
    BY <1>9, MoveSilent DEF Goes, books
  <2>2. QED BY <2>1, CashLeaves
<1>10. QED BY <1>7, <1>8, <1>9 DEF PostJournal, e

\* A refused creation has made nothing.
LEMMA CashRefused ==
  ASSUME TypeInv, OnceInv, CashInv, NEW r \in Receipts, RecordRefused(r)
  PROVE  CashInv' /\ BookStep
<1> DEFINE guard == rows[r].sync = "CREATING"
           error == InState(r, "ERROR", None)
           again == [rows[r] EXCEPT !.sync = "PENDING"]
           done == Done("create", r)
<1>1. \/ WriteIfCurrent(r, guard, FALSE, error, done, done)
      \/ WriteIfCurrent(r, guard, FALSE, again, Idle, Idle)
  BY DEF RecordRefused
<1>2. run.at \in {"rejected", "limited"} /\ run.who = r
  BY DEF RecordRefused, At
<1>3. Made(r) = {} /\ Pending(r) = {} /\ \A i \in Ids : entries[i].of # r
  BY <1>2, MadeIs DEF OnceInv, RunInv, InVain
<1>4. done.at \in Silent /\ Idle.at \in Silent
  BY DoneSilent, SilentPlaces DEF Idle
<1>5. guard => Fitting(r, error)
  <2>1. "ERROR" \in SyncStates \cap Kept /\ None \in Errs
    BY States DEF Kept
  <2>2. QED BY <2>1, MarkFitting
<1>6. guard => Fitting(r, again)
  <2>1. /\ again \in Row /\ again.sync = "PENDING" /\ again.jid = rows[r].jid /\ again.exp = rows[r].exp
        /\ again.input = rows[r].input
    BY Parts, States DEF Row
  <2> HIDE DEF again
  <2>2. RowFits(r, rows[r])
    BY DEF CashInv
  <2>3. RowFits(r, again)
    BY <1>3, <2>1, <2>2 DEF RowFits, IsCancelled
  <2>4. QED BY <2>1, <2>3 DEF Fitting
<1> HIDE DEF guard, error, again, done
<1>7. QED BY <1>1, <1>2, <1>4, <1>5, <1>6, CashWrites

\* The row gets the id of the entry just made for it.
LEMMA CashEntered ==
  ASSUME TypeInv, OnceInv, CashInv, NEW r \in Receipts, RecordEntered(r)
  PROVE  CashInv' /\ BookStep
<1> DEFINE new == Synced(r, run.id)
           back == Back(r)
<1>1. run.at = "entered" /\ run.who = r /\ WriteIfCurrent(r, TRUE, TRUE, new, back, back)
  BY DEF RecordEntered, At
<1>2. run.id \in Ids /\ entries[run.id].tag = r /\ rows[r].sync = "CREATING"
  BY <1>1 DEF OnceInv, RunInv, Knows, CashInv, RunFits, WorkFits
<1>3. new \in Row /\ new.sync = "SYNCED" /\ new.jid = run.id /\ new.exp = rows[r].exp
      /\ new.input = rows[r].input
  BY <1>2, SyncedCells
<1> HIDE DEF new
<1>4. Fitting(r, new)
  BY <1>2, <1>3, SyncedFitting
<1>5. back.at \in Silent
  <2>1. run.back \in {"again2", "create", "human", "match"}
    BY <1>1 DEF TypeInv, TypeOK, Run, HandsOf
  <2>2. QED BY <2>1, DoneSilent, MoveSilent DEF Back
<1> HIDE DEF back
<1>6. QED BY <1>1, <1>4, <1>5, CashWrites

\* No line can be named or matched; what waits for one goes on waiting.
LEMMA CashLines ==
  ASSUME TypeInv, OnceInv, CashInv, NEW r \in Receipts, HumanTransaction(r) \/ MatchOutcome(r)
  PROVE  CashInv' /\ BookStep
<1>1. \A t \in run.pool : LineOf[t].service # run.seen[r].method
  <2>1. run.pool \subseteq Txs /\ run.seen[r].method \in Methods \cup {None}
    BY Parts DEF TypeInv, TypeOK, Run, Row
  <2>2. \A t \in Txs : LineOf[t].service \in LinkedMethods
    BY JournalBooksAssumption
  <2>3. None \notin LinkedMethods
    BY DEF LinkedMethods, None
  <2>4. QED BY <2>1, <2>2, <2>3 DEF CashInv, Unlinked
<1>2. CASE HumanTransaction(r)
  <2> DEFINE guard == rows[r].sync = "NEEDS_REVIEW" /\ rows[r].tx = run.seen[r].tx
             new == [rows[r] EXCEPT !.err = None]
             done == Done("human", r)
  <2>1. WriteIfCurrent(r, guard, FALSE, new, done, done) /\ run.at = "human"
    BY <1>1, <1>2 DEF HumanTransaction, Takes
  <2>2. /\ new \in Row /\ new.sync = rows[r].sync /\ new.jid = rows[r].jid /\ new.exp = rows[r].exp
        /\ new.input = rows[r].input
    BY Parts DEF Row
  <2> HIDE DEF new
  <2>3. RowFits(r, new)
    BY <2>2 DEF CashInv, RowFits, IsCancelled
  <2>4. Fitting(r, new)
    BY <2>2, <2>3 DEF Fitting
  <2>5. done.at \in Silent
    BY DoneSilent
  <2> HIDE DEF guard, done
  <2>6. QED BY <2>1, <2>4, <2>5, CashWrites
<1>3. CASE MatchOutcome(r)
  <2> DEFINE guard == rows[r].sync = "WAITING_TRANSACTION" /\ rows[r].jid = None
             new == InState(r, "NEEDS_REVIEW", None)
             done == Done("match", r)
  <2>1. Matched(run.seen, LineOf, run.pool, r) = {}
    BY <1>1 DEF Matched, Candidates, IsCandidateFor
  <2>2. WriteIfCurrent(r, guard, FALSE, new, done, done) /\ run.at = "match"
    BY <1>3, <2>1 DEF MatchOutcome, Takes
  <2>3. guard => Fitting(r, new)
    <3>1. "NEEDS_REVIEW" \in SyncStates \cap Kept /\ None \in Errs
      BY States DEF Kept
    <3>2. QED BY <3>1, MarkFitting
  <2>4. done.at \in Silent
    BY DoneSilent
  <2> HIDE DEF guard, new, done
  <2>5. QED BY <2>2, <2>3, <2>4, CashWrites
<1>4. QED BY <1>2, <1>3

\* Of a line nothing is done.
LEMMA NoLine ==
  ASSUME TypeInv, CashInv, NEW r \in Receipts
  PROVE  /\ ~PutJournal(r) /\ ~Inherit(r) /\ ~FillHeir(r) /\ ~SendJournalize(r)
         /\ ~TraceEntry(r) /\ ~RecordTraced(r) /\ ~RecordLined(r)
<1>1. run.at \notin LinePlaces
  BY DEF CashInv, RunFits
<1>2. QED
  BY <1>1 DEF PutJournal, Inherit, FillHeir, SendJournalize, TraceEntry, RecordTraced, RecordLined, At,
              LinePlaces

\* A line is entered for a private rule.
LEMMA CashByRule ==
  ASSUME TypeInv, OnceInv, CashInv, NEW t \in Txs, JournalizeByRule(t)
  PROVE  CashInv' /\ BookStep
<1> DEFINE e == EntryFor("private", LineOf[t])
           n == [id |-> t, entry |-> e]
           on == [run EXCEPT !.lines = @ \ {t}]
<1>1. e.tag \notin Receipts /\ Plainly(e)
  BY JournalBooksAssumption DEF EntryFor, NoEntry, Plainly
<1>2. n.id = t /\ n.entry = e /\ t \notin Ids
  BY JournalBooksAssumption
<1>3. on.at = "rules" /\ [on EXCEPT !.halted = TRUE].at = "rules" /\ run.at = "rules"
  BY DEF JournalizeByRule, TypeInv, TypeOK, Run
<1>4. "rules" \in Silent
  BY SilentPlaces
<1> HIDE DEF e, n, on
<1>5. /\ rows' = rows /\ run' \in {on, [on EXCEPT !.halted = TRUE]}
      /\ entries' = entries \/ Place(t, e)
      /\ sent' = sent \/ sent' = sent \cup {n}
  BY DEF JournalizeByRule, GivesUp, Goes, books, e, n, on
<1>6. /\ \A i \in Ids : entries'[i] = entries[i]
      /\ \A u \in Txs : entries'[u].tag \notin Receipts
  BY <1>1, <1>2, <1>5 DEF Place, TypeInv, TypeOK, CashInv, Own
<1>7. /\ \A q \in sent \ sent' : q.id \notin Ids
      /\ \A q \in sent' \ sent : q.id \notin Ids /\ Plainly(q.entry) /\ q.entry.tag \notin Receipts
  BY <1>1, <1>2, <1>5
<1>8. run'.at \in Silent /\ run.at # "post"
  BY <1>3, <1>4, <1>5
<1>9. QED BY <1>5, <1>6, <1>7, <1>8, CashElsewhere

LEMMA CashInit ==
  ASSUME Unlinked, Init
  PROVE  CashInv /\ Books!Init
<1>1. /\ sent = {} /\ run = Idle
      /\ \A r \in Receipts : rows[r] = NoRow
      /\ \A i \in Ids \cup Txs : entries[i] = NoEntry
  BY DEF Init
<1>2. /\ NoRow.sync = None /\ NoRow.jid = None /\ ~IsCancelled(NoRow)
      /\ NoEntry.of = None /\ NoEntry.tag = None /\ ~NoEntry.void
  BY DEF NoRow, NoEntry, IsCancelled, None
<1>3. \A r \in Receipts : Made(r) = {} /\ Pending(r) = {} /\ \A i \in Ids : entries[i].of # r
  BY <1>1, <1>2, Named DEF Made, Pending
<1>4. \A r \in Receipts : RowFits(r, rows[r])
  BY <1>1, <1>2, <1>3 DEF RowFits, None
<1>5. Own
  BY <1>1, <1>2, Named DEF Own, Plainly
<1>6. run.at = "idle"
  BY <1>1 DEF Idle
<1>7. RunFits(run)
  BY <1>6, SilentPlaces, SilentFits
<1>8. Asked = {} /\ Entered = {}
  BY <1>1, <1>2, <1>6, Named DEF Asked, Entered, At
<1>9. Withdrawn = {} /\ Closed = {}
  BY <1>1, <1>2 DEF Withdrawn, Closed
<1>10. QED BY <1>4, <1>5, <1>7, <1>8, <1>9 DEF CashInv, Books!Init

LEMMA CashStep == TypeInv /\ Admits /\ OnceInv /\ CashInv /\ [Next]_vars => CashInv' /\ BookStep
<1> SUFFICES ASSUME TypeInv, Admits, OnceInv, CashInv, [Next]_vars PROVE CashInv' /\ BookStep
  OBVIOUS
<1>1. CASE World
  BY <1>1, CashWorld
<1>2. CASE RunSync
  <2>1. CASE SyncExpenses \/ EndOfPhase
    BY <2>1, CashPhases
  <2>2. ASSUME NEW r \in Receipts,
               \/ ReverseWithoutJournal(r) \/ RecoverCreating(r) \/ RecordRecovered(r)
               \/ ProcessMaintenanceRow(r) \/ ImportRow(r) \/ CancelRow(r)
               \/ FinishReversal(r) \/ RecordReversed(r)
        PROVE  CashInv' /\ BookStep
    BY <2>2, CashReverse, CashRecover, CashRecovered, CashProcess, CashImport, CashCancel, CashFinish,
       CashReversed
  <2>3. ASSUME NEW r \in Receipts,
               \/ DetectChange(r) \/ Classify(r)
               \/ SearchFirst(r) \/ Adopt(r) \/ MarkCreating(r) \/ PostJournal(r) \/ RecordRefused(r)
               \/ RecordEntered(r) \/ HoldRuleConflict(r) \/ HumanTransaction(r) \/ MatchOutcome(r)
        PROVE  CashInv' /\ BookStep
    BY <2>3, CashNewRows, CashSearch, CashAdopt, CashMark, CashPost, CashRefused, CashEntered, CashLines
  <2>4. \A r \in Receipts : ~RecoverJournalizing(r)
    BY NoneJournalizes DEF RecoverJournalizing
  <2>5. ASSUME NEW t \in Txs, JournalizeByRule(t)
        PROVE  CashInv' /\ BookStep
    BY <2>5, CashByRule
  <2>6. \A r \in Receipts : /\ ~PutJournal(r) /\ ~Inherit(r) /\ ~FillHeir(r) /\ ~SendJournalize(r)
                         /\ ~TraceEntry(r) /\ ~RecordTraced(r) /\ ~RecordLined(r)
    BY NoLine
  <2>7. QED BY <1>2, <2>1, <2>2, <2>3, <2>4, <2>5, <2>6 DEF RunSync
<1>3. CASE RunEnds \/ OutOfBudget
  BY <1>3, CashEnds
<1>4. CASE UNCHANGED vars
  <2>1. UNCHANGED <<rows, entries, sent, run>>
    BY <1>4 DEF vars, books
  <2>2. \A r \in Receipts : Made(r)' = Made(r) /\ Pending(r)' = Pending(r)
    BY <2>1 DEF Made, Pending
  <2>3. \A r \in Receipts : RowFits(r, rows[r])'
    BY <2>1, <2>2 DEF CashInv, RowFits, Says, IsCancelled
  <2>4. Own'
    BY <2>1 DEF CashInv, Own
  <2>5. RunFits(run)'
    BY <2>1, <2>2 DEF CashInv, RunFits, WorkFits, Says, IsCancelled
  <2>6. BookStep
    BY <2>1, BooksStill DEF At
  <2>7. QED BY <2>3, <2>4, <2>5, <2>6 DEF CashInv
<1>5. QED BY <1>1, <1>2, <1>3, <1>4 DEF Next

\* The invariants and the refinement together, for the three theorems below.
LEMMA CashHolds ==
  ASSUME Unlinked
  PROVE  Spec => [](TypeInv /\ OnceInv /\ CashInv) /\ KeepsBooks
<1>1. Init => TypeInv /\ Admits /\ OnceInv /\ CashInv /\ Books!Init
  <2>1. Init => Admits
    BY QuietChosen DEF Init, Idle, Quiet, Admits, ImportsUnknown
  <2>2. QED BY <2>1, TypeInit, OnceInit, CashInit
<1>2. QED
  BY <1>1, TypeStep, AdmitsStep, OnceStep, CashStep, PTL DEF Spec, KeepsBooks, Books!Spec, BookStep

\* KeepsBooks: where no receipt can be paid from a statement line, the synchronisation, however
\* often it is cut off and whatever the operator does between its steps, is the bookkeeping of
\* module Bookkeeping: an entry is asked for only of a receipt that has none in the books or on
\* its way, it leaves the books only with its receipt, and a receipt is closed as REVERSED only
\* with clean books.
THEOREM CashBooksAreKept ==
  ASSUME Unlinked
  PROVE  Spec => KeepsBooks
BY CashHolds, PTL

\* CancelledLeavesNothing, where no receipt can be paid from a statement line: of a cancelled
\* receipt that is reported as REVERSED nothing counts in the books, and nothing is on its way
\* there (reverseWithoutJournal, finishReversal).
THEOREM CancelledCashLeavesNothing ==
  ASSUME Unlinked
  PROVE  Spec => []CancelledLeavesNothing
<1>1. TypeInv /\ CashInv => CancelledLeavesNothing
  <2> SUFFICES ASSUME TypeInv, CashInv, NEW r \in Receipts, rows[r].sync = "REVERSED"
               PROVE  /\ \A i \in Ids \cup Txs : entries[i].tag # r
                      /\ \A q \in sent : q.entry.tag # r
                      /\ rows[r].jid # None => entries[rows[r].jid].tag \notin Receipts
    BY DEF CancelledLeavesNothing, Undone, Inherited
  <2>1. Made(r) = {}
    BY DEF CashInv, RowFits
  <2>2. (\A i \in Ids : entries[i].tag # r) /\ \A q \in sent : q.entry.tag # r
    BY <2>1, TagIsOwn
  <2>3. \A t \in Txs : entries[t].tag # r
    BY DEF CashInv, Own
  <2>4. ASSUME rows[r].jid # None
        PROVE  entries[rows[r].jid].tag \notin Receipts
    <3>1. rows[r].jid \in Ids /\ entries[rows[r].jid].tag \in {r, "hand", "deleted"}
      BY <2>4 DEF CashInv, RowFits
    <3>2. entries[rows[r].jid].tag # r
      BY <2>2, <3>1
    <3>3. QED BY <3>1, <3>2, JournalBooksAssumption
  <2>5. QED BY <2>2, <2>3, <2>4
<1>2. QED BY <1>1, CashHolds, PTL

\* SyncedIsRecorded, where no receipt can be paid from a statement line: the entry of a
\* completed receipt that is reported as SYNCED and not known to have changed is there, is the
\* receipt's own and says the receipt's amount and day, unless the operator answered for it
\* (mf_sync_input, detectChangedRows).
THEOREM SyncedCashIsRecorded ==
  ASSUME Unlinked
  PROVE  Spec => []SyncedIsRecorded
<1>1. TypeInv /\ OnceInv /\ CashInv => SyncedIsRecorded
  <2> SUFFICES ASSUME TypeInv, OnceInv, CashInv, NEW r \in Receipts, rows[r].sync = "SYNCED",
                      rows[r].exp = "COMPLETED", ~HasInputChanged(rows[r])
               PROVE  /\ rows[r].jid # None /\ Live(rows[r].jid)
                      /\ entries[rows[r].jid].tag \notin {"hand", "private"} /\ ~entries[rows[r].jid].checked =>
                           /\ entries[rows[r].jid].tag = r /\ ~entries[rows[r].jid].void
                           /\ entries[rows[r].jid].amount = rows[r].amount \/ AdoptedByTag(rows[r])
                           /\ rows[r].tx = None => entries[rows[r].jid].day = rows[r].day
    BY DEF SyncedIsRecorded
  <2> DEFINE j == rows[r].jid
             e == entries[j]
  <2>1. RowFits(r, rows[r]) /\ j # None
    BY DEF CashInv, RowFits
  <2>2. j \in Ids /\ e.tag # None
    BY <2>1, NothingPending
  <2>3. e.tag \in {r, "hand", "deleted"} /\ e.tag # "deleted"
    BY <2>1 DEF RowFits, IsCancelled
  <2>4. Live(j)
    BY <2>2, <2>3 DEF Live
  <2>5. ASSUME e.tag = r, ~e.checked
        PROVE  ~e.void /\ e.amount = rows[r].amount /\ e.day = rows[r].day
    <3>1. e.of = r /\ ~e.void
      BY <2>2, <2>5 DEF CashInv, Own, Plainly
    <3>2. Says(e, rows[r].input)
      BY <2>1, <2>2, <2>5, <3>1 DEF RowFits
    <3>3. rows[r].input = SummarizeSyncInput(rows[r])
      BY <3>2 DEF HasInputChanged, Says
    <3>4. rows[r].input.amount = rows[r].amount /\ rows[r].input.day = rows[r].day
      BY <3>3 DEF SummarizeSyncInput, SummaryWithTx
    <3>5. QED BY <3>1, <3>2, <3>4 DEF Says
  <2>6. QED BY <2>1, <2>3, <2>4, <2>5
<1>2. QED BY <1>1, CashHolds, PTL
=============================================================================
