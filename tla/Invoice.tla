------------------------------- MODULE Invoice -------------------------------
(***************************************************************************)
(* Creating, comparing and tracking the invoice of one closed month        *)
(* (gas/src/app/invoice.ts, app/mf/lease.ts): executions of the triggers   *)
(* share the month's row under short script locks and call MF outside of   *)
(* them, one at a time under a lease that outlives every execution.        *)
(*                                                                         *)
(* MF gives no idempotency key for a creation.  A call may fail before or  *)
(* after it took effect, a creation that was given up may still happen,    *)
(* and an invoice is found by its number only once MF has indexed it.      *)
(* Every write of the row and of the lease waits ten seconds for the       *)
(* script lock and throws when it does not get it (adapters/lock.ts).      *)
(*                                                                         *)
(* Abstractions: the figures of a bill and of an invoice are one amount;   *)
(* Slack messages, tokens and the daily warning are left out.              *)
(***************************************************************************)
EXTENDS Naturals, FiniteSets

CONSTANTS
  Amounts,           \* what a month, or MF's computation of it, can come to
  NoAmount,          \* nothing has been confirmed
  Runs,              \* executions of trigMfSync and trigMfSyncSoon
  Free, Orphan,      \* values of the lease beside the run that holds it
  MaxInvoices,       \* bound: invoices MF ever creates for the month
  MaxUnrecorded      \* bound: executions whose creation never reaches the row

Ids  == 1..MaxInvoices
NoId == 0

ASSUME InvoiceAssumption ==
  /\ Amounts # {} /\ NoAmount \notin Amounts
  /\ Free \notin Runs /\ Orphan \notin Runs /\ Free # Orphan
  /\ MaxInvoices \in Nat /\ MaxUnrecorded \in Nat

VARIABLES
  enabled,           \* MF_INVOICE_ENABLED
  \* the month's row
  state, amount, inv,
  id,                \* mf_invoice_id
  noticed,           \* the operator has been asked to look (mf_notice/unknown)
  lease,             \* lease mf_invoice/<client>:<month>
  run,               \* trigger executions
  \* MF
  made,              \* the invoices MF has created are 1..made
  price,             \* price[i]: what invoice i comes to
  underway,          \* creations given up by the client and not decided in MF
  indexed,           \* invoices the search finds
  sent, paid,        \* the invoice the row names has been dispatched, has been paid
  \* history
  confirmed,         \* the amount the user closed the month for
  unrecorded         \* executions whose creation never reached the row: they died
                     \* before the write, or waited for the script lock in vain

rowVars == <<state, amount, inv, id, noticed>>
mfVars  == <<made, price, underway, indexed, sent, paid>>
history == <<confirmed, unrecorded>>
vars == <<enabled, rowVars, lease, run, mfVars, history>>

Phases == {"idle", "acquire", "search", "post", "record", "compare", "compareNew",
           "release", "track", "advance"}
Answers == {"none", "id", "noId", "unknown", "refused", "limited"}
Idle == [pc |-> "idle", inv |-> "", id |-> NoId, amount |-> NoAmount, answer |-> "none",
         sent |-> FALSE, paid |-> FALSE]

States == {"REVIEWING", "LOCKED", "MF_CREATED", "SENT", "PAID", "VOID"}
InvoiceStates == {"", "MANUAL", "PENDING", "UNKNOWN", "CREATED", "MISMATCH", "ERROR"}

RunRecords(n) == [pc : Phases, inv : InvoiceStates, id : 0..n, amount : Amounts \cup {NoAmount},
                  answer : Answers, sent : BOOLEAN, paid : BOOLEAN]

TypeOK ==
  /\ enabled \in BOOLEAN
  /\ state \in States /\ amount \in Amounts /\ inv \in InvoiceStates
  /\ (inv = "" <=> confirmed = NoAmount)
  /\ id \in 0..made /\ noticed \in BOOLEAN
  /\ lease \in Runs \cup {Free, Orphan}
  /\ run \in [Runs -> RunRecords(made)]
  /\ made \in 0..MaxInvoices
  /\ price \in [Ids -> Amounts \cup {NoAmount}]
  /\ underway \in 0..MaxInvoices
  /\ indexed \subseteq 1..made /\ sent \in BOOLEAN /\ paid \in BOOLEAN
  /\ confirmed \in Amounts \cup {NoAmount} /\ unrecorded \in 0..MaxUnrecorded

Init ==
  /\ enabled \in BOOLEAN
  /\ state = "REVIEWING" /\ amount \in Amounts /\ inv = ""
  /\ id = NoId /\ noticed = FALSE
  /\ lease = Free
  /\ run = [r \in Runs |-> Idle]
  /\ made = 0 /\ price = [i \in Ids |-> NoAmount]
  /\ underway = 0 /\ indexed = {} /\ sent = FALSE /\ paid = FALSE
  /\ confirmed = NoAmount /\ unrecorded = 0

-----------------------------------------------------------------------------
(* The close, and the operator.                                            *)

\* handleMonthClose, in the end: by the flag the invoice is left to kadobo or to the user.
Close ==
  /\ state = "REVIEWING"
  /\ state' = "LOCKED"
  /\ inv' = IF enabled THEN "PENDING" ELSE "MANUAL"
  /\ confirmed' = amount
  /\ UNCHANGED <<enabled, amount, id, noticed, lease, run, mfVars, unrecorded>>

SetEnabled ==
  /\ enabled' = ~enabled
  /\ UNCHANGED <<rowVars, lease, run, mfVars, history>>

\* The months kadobo makes no invoice for are moved on by hand; any may be voided.
MoveByHand ==
  /\ \/ inv = "MANUAL" /\ state = "LOCKED" /\ state' = "SENT"
     \/ inv = "MANUAL" /\ state = "SENT" /\ state' = "PAID"
     \/ inv # "" /\ state # "VOID" /\ state' = "VOID"
  /\ UNCHANGED <<enabled, amount, inv, id, noticed, lease, run, mfVars, history>>

\* A day after the attempt the operator, once asked, looks into MF, where a creation that
\* was given up has been decided by then: a month without an invoice is put back to
\* PENDING, otherwise the id is entered.  An ERROR is repaired in the same way.
OperatorRepairs ==
  /\ state = "LOCKED" /\ underway = 0
  /\ inv = "ERROR" \/ (inv = "UNKNOWN" /\ noticed)
  /\ \/ made = 0 /\ inv' = "PENDING" /\ UNCHANGED id
     \/ made = 1 /\ id' = made /\ inv' = IF inv = "ERROR" THEN "PENDING" ELSE inv
  /\ UNCHANGED <<enabled, state, amount, noticed, lease, run, mfVars, history>>

-----------------------------------------------------------------------------
(* MF.                                                                     *)

\* A creation that was given up is decided.
MfDecides ==
  /\ underway > 0
  /\ underway' = underway - 1
  /\ \/ UNCHANGED <<made, price>>
     \/ /\ made' = made + 1
        /\ \E a \in Amounts : price' = [price EXCEPT ![made + 1] = a]
  /\ UNCHANGED <<enabled, rowVars, lease, run, indexed, sent, paid, history>>

MfIndexes(i) ==
  /\ i \in (1..made) \ indexed
  /\ indexed' = indexed \cup {i}
  /\ UNCHANGED <<enabled, rowVars, lease, run, made, price, underway, sent, paid, history>>

\* The user dispatches the invoice in MF; the client pays it.
MfSends ==
  /\ id # NoId /\ ~sent
  /\ sent' = TRUE
  /\ UNCHANGED <<enabled, rowVars, lease, run, made, price, underway, indexed, paid, history>>

MfIsPaid ==
  /\ id # NoId /\ ~paid
  /\ paid' = TRUE
  /\ UNCHANGED <<enabled, rowVars, lease, run, made, price, underway, indexed, sent, history>>

-----------------------------------------------------------------------------
(* The lease.                                                              *)

\* Mutant of MayAcquire: the lease is not asked.
MayAcquireAlways == TRUE

\* acquireLease: free, or past its time.
MayAcquire == lease = Free

\* The lease of a dead execution runs out; it lasts ten minutes, an execution at most six.
LeaseRunsOut ==
  /\ lease = Orphan
  /\ lease' = Free
  /\ UNCHANGED <<enabled, rowVars, run, mfVars, history>>

-----------------------------------------------------------------------------
(* ensureInvoiceCreated in a trigger run.                                  *)

Goto(r, pc) == run' = [run EXCEPT ![r] = [@ EXCEPT !.pc = pc]]

\* writeInvoiceColumnsIfLocked: the row is read again, under the lock.
IfLocked(newState, newInv, newId) ==
  IF state = "LOCKED"
  THEN state' = newState /\ inv' = newInv /\ id' = newId
  ELSE UNCHANGED <<state, inv, id>>

\* Mutant of List: a creation whose outcome is unknown is not looked for.
ListPendingOnly(r) ==
  /\ run[r].pc = "idle" /\ enabled
  /\ Goto(r, IF state = "LOCKED" /\ inv = "PENDING" THEN "acquire" ELSE "track")
  /\ UNCHANGED <<enabled, rowVars, lease, mfVars, history>>

\* The months to do are listed; this one is, or is not, among them.
List(r) ==
  /\ run[r].pc = "idle" /\ enabled
  /\ Goto(r, IF state = "LOCKED" /\ inv \in {"PENDING", "UNKNOWN"} THEN "acquire" ELSE "track")
  /\ UNCHANGED <<enabled, rowVars, lease, mfVars, history>>

\* With the lease the row is read once more; only its state is looked at.
Acquire(r) ==
  /\ run[r].pc = "acquire"
  /\ IF MayAcquire /\ state = "LOCKED"
     THEN /\ lease' = r
          /\ run' = [run EXCEPT ![r] =
                        [Idle EXCEPT !.pc = IF id # NoId THEN "compare" ELSE "search",
                                     !.inv = inv, !.id = id, !.amount = amount]]
     ELSE Goto(r, "track") /\ UNCHANGED lease
  /\ UNCHANGED <<enabled, rowVars, mfVars, history>>

\* GET /billings?document_number=: two or more ...
SearchFindsMany(r) ==
  /\ run[r].pc = "search" /\ Cardinality(indexed) >= 2
  /\ IfLocked("LOCKED", "ERROR", id)
  /\ Goto(r, "release")
  /\ UNCHANGED <<enabled, amount, noticed, lease, mfVars, history>>

\* ... one, whose id is saved before anything else ...
SearchFindsOne(r) ==
  /\ run[r].pc = "search"
  /\ \E i \in indexed :
       /\ indexed = {i}
       /\ IfLocked("LOCKED", inv, i)
       /\ run' = [run EXCEPT ![r] = [@ EXCEPT !.pc = "compare", !.id = i]]
  /\ UNCHANGED <<enabled, amount, noticed, lease, mfVars, history>>

\* ... none, and the outcome of a creation is unknown: search again next time; after a
\* day the operator is asked once ...
SearchLeavesUnknown(r) ==
  /\ run[r].pc = "search" /\ indexed = {} /\ run[r].inv # "PENDING"
  /\ noticed' \in {noticed, TRUE}
  /\ Goto(r, "release")
  /\ UNCHANGED <<enabled, state, amount, inv, id, lease, mfVars, history>>

\* ... none, and the invoice cannot be built: a setting is missing ...
BuildFails(r) ==
  /\ run[r].pc = "search" /\ indexed = {} /\ run[r].inv = "PENDING"
  /\ IfLocked("LOCKED", "ERROR", id)
  /\ Goto(r, "release")
  /\ UNCHANGED <<enabled, amount, noticed, lease, mfVars, history>>

\* Mutant of Attempt: an unknown outcome is tried again.
AttemptAgain(r) ==
  /\ run[r].pc = "search" /\ indexed = {}
  /\ Goto(r, IF state = "LOCKED" THEN "post" ELSE "release")
  /\ UNCHANGED <<enabled, rowVars, lease, mfVars, history>>

\* ... none: invoice_attempted_at is written, if the month is still LOCKED.
Attempt(r) ==
  /\ run[r].pc = "search" /\ indexed = {} /\ run[r].inv = "PENDING"
  /\ Goto(r, IF state = "LOCKED" THEN "post" ELSE "release")
  /\ UNCHANGED <<enabled, rowVars, lease, mfVars, history>>

\* POST /invoice_template_billings takes effect; MF computes the amount itself.  The
\* answer has an id, has none, or is lost.
PostCreates(r) ==
  /\ run[r].pc = "post" /\ made + underway < MaxInvoices
  /\ made' = made + 1
  /\ \E a \in Amounts : price' = [price EXCEPT ![made + 1] = a]
  /\ \E answer \in {"id", "noId", "unknown"} :
       run' = [run EXCEPT ![r] = [@ EXCEPT !.pc = "record", !.answer = answer,
                                           !.id = IF answer = "id" THEN made + 1 ELSE NoId]]
  /\ UNCHANGED <<enabled, rowVars, lease, underway, indexed, sent, paid, history>>

\* POST without effect: refused (4xx), or turned away by the rate limit (429).
PostRefused(r) ==
  /\ run[r].pc = "post"
  /\ \E answer \in {"refused", "limited"} :
       run' = [run EXCEPT ![r] = [@ EXCEPT !.pc = "record", !.answer = answer]]
  /\ UNCHANGED <<enabled, rowVars, lease, mfVars, history>>

\* POST given up (5xx, no connection): MF has not decided yet.
PostGivenUp(r) ==
  /\ run[r].pc = "post" /\ made + underway < MaxInvoices
  /\ underway' = underway + 1
  /\ run' = [run EXCEPT ![r] = [@ EXCEPT !.pc = "record", !.answer = "unknown"]]
  /\ UNCHANGED <<enabled, rowVars, lease, made, price, indexed, sent, paid, history>>

\* What invoice_state becomes: a lost answer must not lead to a second creation.
AfterAnswer(answer) ==
  CASE answer \in {"id", "limited"} -> inv
    [] answer \in {"noId", "unknown"} -> "UNKNOWN"
    [] answer = "refused" -> "ERROR"

\* A creation has been sent, and the row does not say so yet.
InTheGap(r) == run[r].pc = "record" /\ run[r].answer \in {"id", "noId", "unknown"}

Record(r) ==
  /\ run[r].pc = "record"
  /\ LET answer == run[r].answer IN
     /\ IfLocked("LOCKED", AfterAnswer(answer), IF answer = "id" THEN run[r].id ELSE id)
     /\ Goto(r, IF answer = "id" THEN "compareNew" ELSE "release")
  /\ UNCHANGED <<enabled, amount, noticed, lease, mfVars, history>>

\* ... or the write gets no script lock: the error leaves processOneInvoice, the lease is
\* given back and the row is as it was, PENDING and without an id.  A 429 writes nothing.
RecordTimesOut(r) ==
  /\ run[r].pc = "record" /\ run[r].answer # "limited"
  /\ Goto(r, "release")
  /\ unrecorded' = IF InTheGap(r) THEN unrecorded + 1 ELSE unrecorded
  /\ unrecorded' <= MaxUnrecorded
  /\ UNCHANGED <<enabled, rowVars, lease, mfVars, confirmed>>

\* Mutant of Verdict: the amounts are not compared.
VerdictBlind(r) == "CREATED"

\* compareAmounts, with the figures the run read when it took the lease.
Verdict(r) == IF price[run[r].id] = run[r].amount THEN "CREATED" ELSE "MISMATCH"

\* GET /billings/{id}, compareAndFinalize.
Compare(r) ==
  /\ run[r].pc \in {"compare", "compareNew"}
  /\ IfLocked("MF_CREATED", Verdict(r), id)
  /\ Goto(r, "release")
  /\ UNCHANGED <<enabled, amount, noticed, lease, mfVars, history>>

\* The GET that follows a creation is refused: as if the creation had been.
CompareRefused(r) ==
  /\ run[r].pc = "compareNew"
  /\ IfLocked("LOCKED", "ERROR", id)
  /\ Goto(r, "release")
  /\ UNCHANGED <<enabled, amount, noticed, lease, mfVars, history>>

\* Any other call fails, a write gets no script lock, or the four minutes of the run are over.
CallFails(r) ==
  /\ run[r].pc \in {"search", "compare", "compareNew"}
  /\ Goto(r, "release")
  /\ UNCHANGED <<enabled, rowVars, lease, mfVars, history>>

\* releaseLease.  A failure of one month does not keep the run from tracking.
Release(r) ==
  /\ run[r].pc = "release"
  /\ lease' = Free
  /\ run' = [run EXCEPT ![r] = [Idle EXCEPT !.pc = "track"]]
  /\ UNCHANGED <<enabled, rowVars, mfVars, history>>

\* ... which gets no script lock either: the lease stays until its time is over.
ReleaseTimesOut(r) ==
  /\ run[r].pc = "release"
  /\ lease' = Orphan
  /\ run' = [run EXCEPT ![r] = [Idle EXCEPT !.pc = "track"]]
  /\ UNCHANGED <<enabled, rowVars, mfVars, history>>

-----------------------------------------------------------------------------
(* trackBillingStatus in the same run.                                     *)

\* The month is listed and GET /billings/{id} is read outside of the lock.
Track(r) ==
  /\ run[r].pc = "track"
  /\ run' = [run EXCEPT ![r] =
               IF enabled /\ state \in {"MF_CREATED", "SENT"} /\ id # NoId
               THEN [Idle EXCEPT !.pc = "advance", !.sent = sent, !.paid = paid]
               ELSE Idle]
  /\ UNCHANGED <<enabled, rowVars, lease, mfVars, history>>

\* Mutant of NextState: what MF said is written whatever the state is by now.
NextStateBlind(s, isSent, isPaid) ==
  IF isPaid THEN "PAID" ELSE IF isSent THEN "SENT" ELSE s

\* nextStateOnBillingStatus
NextState(s, isSent, isPaid) ==
  CASE s \in {"MF_CREATED", "SENT"} /\ isPaid -> "PAID"
    [] s = "MF_CREATED" /\ isSent /\ ~isPaid -> "SENT"
    [] OTHER -> s

\* Under the lock, with the state the row has by now.
Advance(r) ==
  /\ run[r].pc = "advance"
  /\ state' = NextState(state, run[r].sent, run[r].paid)
  /\ run' = [run EXCEPT ![r] = Idle]
  /\ UNCHANGED <<enabled, amount, inv, id, noticed, lease, mfVars, history>>

\* The lease is not taken, or the status not written, for want of the script lock: the step
\* ends, and what follows it in the run is still done (runMfStep).
LockTimesOut(r) ==
  /\ \/ run[r].pc = "acquire" /\ Goto(r, "track")
     \/ run[r].pc = "advance" /\ run' = [run EXCEPT ![r] = Idle]
  /\ UNCHANGED <<enabled, rowVars, lease, mfVars, history>>

\* The execution is killed (six minutes), anywhere; a lease it holds stays.
RunDies(r) ==
  /\ run[r].pc # "idle"
  /\ run' = [run EXCEPT ![r] = Idle]
  /\ lease' = IF lease = r THEN Orphan ELSE lease
  /\ unrecorded' = IF InTheGap(r) THEN unrecorded + 1 ELSE unrecorded
  /\ unrecorded' <= MaxUnrecorded
  /\ UNCHANGED <<enabled, rowVars, mfVars, confirmed>>

-----------------------------------------------------------------------------
EnsureStep(r) ==
  \/ List(r) \/ Acquire(r)
  \/ SearchFindsMany(r) \/ SearchFindsOne(r) \/ SearchLeavesUnknown(r)
  \/ BuildFails(r) \/ Attempt(r)
  \/ PostCreates(r) \/ PostRefused(r) \/ PostGivenUp(r) \/ Record(r)
  \/ Compare(r) \/ CompareRefused(r) \/ CallFails(r) \/ Release(r)

TrackStep(r) == Track(r) \/ Advance(r)

TimesOut(r) == RecordTimesOut(r) \/ ReleaseTimesOut(r) \/ LockTimesOut(r)

Next ==
  \/ Close \/ SetEnabled \/ MoveByHand \/ OperatorRepairs
  \/ MfDecides \/ (\E i \in Ids : MfIndexes(i)) \/ MfSends \/ MfIsPaid
  \/ LeaseRunsOut
  \/ \E r \in Runs : EnsureStep(r) \/ TrackStep(r) \/ TimesOut(r) \/ RunDies(r)

Spec == Init /\ [][Next]_vars

\* The flag is not left off, MF decides and indexes, leases run out, and the triggers keep
\* firing: not every run dies, finds the lease taken, fails to reach MF or waits for the
\* script lock in vain.
Fairness ==
  /\ WF_vars(~enabled /\ SetEnabled) /\ WF_vars(LeaseRunsOut)
  /\ WF_vars(MfDecides) /\ \A i \in Ids : WF_vars(MfIndexes(i))
  /\ \A r \in Runs : /\ WF_vars(EnsureStep(r)) /\ WF_vars(TrackStep(r)) /\ SF_vars(List(r))
                      /\ SF_vars(Acquire(r) /\ lease' = r)
                      /\ SF_vars(SearchFindsOne(r)) /\ SF_vars(SearchFindsMany(r))
                      /\ SF_vars(Attempt(r)) /\ SF_vars(PostCreates(r))
                      /\ SF_vars(Record(r)) /\ SF_vars(Compare(r))
FairSpec == Spec /\ Fairness

-----------------------------------------------------------------------------
(* Properties.                                                             *)

\* A month is invoiced twice only if what was sent never reached its row, because the
\* execution died after the POST or its write waited for the script lock in vain: lost
\* answers, overlapping executions, leases that ran out and repairs never lead to a second
\* creation, and each creation missing from the row to one more at most (the lease, the
\* search by number and UNKNOWN in ensureInvoiceCreated).
OnlyUnrecordedRepeat == made + underway <= 1 + unrecorded

\* An invoice reported as created is known by its id and comes to the amount the user
\* confirmed, whoever found or created it, and though the row is compared by a snapshot
\* (compareAndFinalize).
CreatedIsConfirmed == inv = "CREATED" => id # NoId /\ price[id] = confirmed

\* A creation is sent to MF only while the row neither names an invoice nor says that the
\* outcome of an earlier creation is unknown, although the sender decided that from what
\* it read before its search (B6 of the design, processOneInvoice).
Posting == \E r \in Runs : PostCreates(r) \/ PostGivenUp(r)
NoBlindRetry == [][Posting => id = NoId /\ inv = "PENDING"]_vars

\* Invoicing and tracking move the bill as BillLifecycle says: also when a run writes what
\* it learnt from MF after the operator voided the month.
Lifecycle == INSTANCE BillLifecycle
BillKeepsLifecycle == Lifecycle!Spec

\* A closed month does not stay due for ever: it gets its invoice compared, is handed to
\* the operator, or its creation turns out not to have happened.
Due == state = "LOCKED" /\ (inv = "PENDING" \/ (inv = "UNKNOWN" /\ made > 0))
InvoiceIsSettled == Due ~> ~Due
=============================================================================
