------------------------------ MODULE Delivery ------------------------------
(***************************************************************************)
(* At-least-once delivery of user operations from the Worker to GAS, and   *)
(* the idempotent execution of them on the GAS side.                       *)
(*                                                                         *)
(*   Slack --> handler --> D1 journal --> background send --> GAS          *)
(*                             ^                               |           *)
(*                             +--- runRetryCron (5 min) ------+           *)
(*                                                                         *)
(* A key is an idempotency key: one user operation.  A request to GAS is   *)
(* sent by a sender: the background invocation that inserted the row, or   *)
(* a run of the retry cron.  Each sender has at most one call outstanding; *)
(* a call it has stopped waiting for may still be executed by GAS (late).  *)
(*                                                                         *)
(* Abstractions: the payload of an operation is its key; whether GAS       *)
(* accepts an operation (Refused) does not change between two attempts;    *)
(* every stamp has a card of its own; `derived' is kept per operation.     *)
(***************************************************************************)
EXTENDS Naturals, FiniteSets

CONSTANTS
  Stamps,          \* keys of the four stamp buttons (handlers/stamp.ts)
  Modals,          \* keys of correction_submit and /kado (journalled, then ACK)
  Closes,          \* keys of month_close (ACK, then journalled)
  Opens,           \* keys of open_correction (ACK, then journalled, never retried)
  Refused,         \* stamps and modals GAS answers ok:true without a new row
  CronRuns,        \* invocations of runRetryCron that may overlap
  NoKey,           \* no current row
  BatchLimit,      \* RETRY_BATCH_LIMIT
  NotifyAt,        \* RETRY_NOTIFY_AT
  NotifyEvery,     \* RETRY_NOTIFY_EVERY
  MaxDeliveries,   \* bound: deliveries of one operation by Slack
  MaxLate,         \* bound: abandoned calls of one key still on their way to GAS
  AttemptCap       \* bound: the attempts column stops counting here

Keys    == Stamps \cup Modals \cup Closes \cup Opens
Logged  == (Stamps \cup Modals) \ Refused     \* keys that leave a raw-log row
Senders == Keys \cup CronRuns                 \* a key names its background invocation

ASSUME KindsDisjoint ==
  /\ Stamps \cap Modals = {} /\ Stamps \cap Closes = {} /\ Stamps \cap Opens = {}
  /\ Modals \cap Closes = {} /\ Modals \cap Opens = {} /\ Closes \cap Opens = {}
  /\ Keys \cap CronRuns = {}
  /\ NoKey \notin Senders
ASSUME RefusedAssumption == Refused \subseteq Stamps \cup Modals
ASSUME KeysFinite == IsFiniteSet(Keys)
ASSUME BoundsAssumption ==
  /\ BatchLimit \in Nat \ {0} /\ NotifyAt \in Nat \ {0} /\ NotifyEvery \in Nat \ {0}
  /\ MaxDeliveries \in Nat /\ MaxLate \in Nat /\ AttemptCap \in Nat

VARIABLES
  \* D1, shared by every invocation of the Worker
  status,       \* status[k]: the row's status; "none" no row yet, "deleted" cleaned up
  attempts,     \* attempts[k]: the row's attempts column
  created,      \* created[k]: rank of the row's created_at, 0 before the INSERT
  notified,     \* notified[k]: notified_at is set
  forwarding,   \* settings.forwarding_enabled = '1'
  \* Worker invocations
  deliveries,   \* deliveries[k]: how often Slack has delivered the operation
  acked,        \* acked[k]: Slack has been answered 200
  inbox,        \* inbox[k]: invocations that ACKed and have not inserted yet
  bg,           \* bg[k]: where the background invocation of the row stands
  cron,         \* cron[c]: where a run of the retry cron stands
  \* the network
  wire,         \* wire[s]: the call of sender s: "none", "out" or the reply to it
  late,         \* late[k]: abandoned calls of k that GAS has not executed yet
  \* GAS
  log,          \* log[k]: rows of the raw log carrying this idempotency key
  derived,      \* derived[k]: the daily and monthly sheets count the row
  executed,     \* executed[k]: history, some execution ran to its end (ok:true)
  declined,     \* declined[k]: history, an attempt was recorded as rejected
  \* Slack
  screen        \* screen[k]: the card (modal for Opens) the operation came from

journalVars == <<status, attempts, created, notified>>
workerVars  == <<deliveries, acked, inbox, bg, cron>>
gasVars     == <<log, derived, executed>>
vars == <<status, attempts, created, notified, forwarding, deliveries, acked, inbox,
          bg, cron, wire, late, log, derived, executed, declined, screen>>

Statuses  == {"none", "pending", "done", "rejected", "deleted"}
Replies   == {"ok", "reject", "lock_timeout", "error"}
BgPhases  == {"none", "started", "carded", "sending", "restore", "finished"}
Idle == [todo |-> {}, seen |-> [k \in Keys |-> 0], cur |-> NoKey, mention |-> FALSE]

TypeOK ==
  /\ status \in [Keys -> Statuses]
  /\ attempts \in [Keys -> Nat]
  /\ created \in [Keys -> Nat]
  /\ notified \in [Keys -> BOOLEAN]
  /\ forwarding \in BOOLEAN
  /\ deliveries \in [Keys -> Nat]
  /\ acked \in [Keys -> BOOLEAN]
  /\ inbox \in [Keys -> Nat]
  /\ bg \in [Keys -> BgPhases]
  /\ cron \in [CronRuns -> [todo : SUBSET Keys, seen : [Keys -> Nat],
                            cur : Keys \cup {NoKey}, mention : BOOLEAN]]
  /\ wire \in [Senders -> {"none", "out"} \cup Replies]
  /\ late \in [Keys -> Nat]
  /\ log \in [Keys -> Nat]
  /\ derived \in [Keys -> BOOLEAN]
  /\ executed \in [Keys -> BOOLEAN]
  /\ declined \in [Keys -> BOOLEAN]
  /\ screen \in [Keys -> {"pressed", "waiting", "drawn", "restored"}]

Init ==
  /\ status = [k \in Keys |-> "none"]
  /\ attempts = [k \in Keys |-> 0]
  /\ created = [k \in Keys |-> 0]
  /\ notified = [k \in Keys |-> FALSE]
  /\ forwarding = TRUE
  /\ deliveries = [k \in Keys |-> 0]
  /\ acked = [k \in Keys |-> FALSE]
  /\ inbox = [k \in Keys |-> 0]
  /\ bg = [k \in Keys |-> "none"]
  /\ cron = [c \in CronRuns |-> Idle]
  /\ wire = [s \in Senders |-> "none"]
  /\ late = [k \in Keys |-> 0]
  /\ log = [k \in Keys |-> 0]
  /\ derived = [k \in Keys |-> FALSE]
  /\ executed = [k \in Keys |-> FALSE]
  /\ declined = [k \in Keys |-> FALSE]
  /\ screen = [k \in Keys |-> "pressed"]

-----------------------------------------------------------------------------
(* The journal.                                                            *)

\* INSERT ... ON CONFLICT(idempotency_key) DO NOTHING; the inserter goes on.
Insert(k) ==
  IF status[k] = "none"
  THEN /\ status' = [status EXCEPT ![k] = "pending"]
       /\ created' = [created EXCEPT ![k] = 1 + Cardinality({j \in Keys : created[j] > 0})]
       /\ bg' = [bg EXCEPT ![k] = "started"]
  ELSE UNCHANGED <<status, created, bg>>

\* What one attempt is recorded as.  open_correction is never left pending.
OutcomeOf(k, answer) ==
  IF answer = "ok" THEN "done"
  ELSE IF answer = "reject" \/ k \in Opens THEN "rejected"
  ELSE "pending"

\* UPDATE ... WHERE id = ?: no look at the status the row has by now.
Record(k, answer) ==
  LET outcome == OutcomeOf(k, answer) IN
  IF status[k] = "deleted"
  THEN UNCHANGED <<status, attempts, declined>>
  ELSE /\ status' = [status EXCEPT ![k] = outcome]
       /\ attempts' = [attempts EXCEPT ![k] = IF @ < AttemptCap THEN @ + 1 ELSE @]
       /\ declined' = [declined EXCEPT ![k] = @ \/ outcome = "rejected"]

Pending == {k \in Keys : status[k] = "pending"}

\* Mutant of ListPending: only rows that have been tried are retried.
ListTriedPending == {k \in Pending : attempts[k] > 0}

\* status = 'pending' ORDER BY created_at ASC LIMIT BatchLimit
ListPending ==
  {k \in Pending : Cardinality({j \in Pending : created[j] < created[k]}) < BatchLimit}

-----------------------------------------------------------------------------
(* Calls.  A sender's call is executed by GAS, lost, or given up.          *)

Target(s) == IF s \in Keys THEN s ELSE cron[s].cur

\* GAS takes one request for k; only a sender that still waits gets the reply.
Serve(k, reply) ==
  \/ \E s \in Senders :
       /\ wire[s] = "out" /\ Target(s) = k
       /\ wire' = [wire EXCEPT ![s] = reply]
       /\ UNCHANGED late
  \/ /\ late[k] > 0
     /\ late' = [late EXCEPT ![k] = @ - 1]
     /\ UNCHANGED wire

\* Sender s hangs up.  A request GAS has not executed is lost or arrives late.
HangUp(s) ==
  /\ wire' = [wire EXCEPT ![s] = "none"]
  /\ \/ UNCHANGED late
     \/ /\ wire[s] = "out" /\ late[Target(s)] < MaxLate
        /\ late' = [late EXCEPT ![Target(s)] = @ + 1]

\* Sender s has an answer: the reply, or "timeout" (25 s, a dropped connection,
\* a body that is not the protocol's JSON).
Answered(s, answer) ==
  \/ /\ answer \in Replies /\ wire[s] = answer
     /\ wire' = [wire EXCEPT ![s] = "none"]
     /\ UNCHANGED late
  \/ /\ answer = "timeout" /\ wire[s] # "none"
     /\ HangUp(s)

Answers == Replies \cup {"timeout"}

-----------------------------------------------------------------------------
(* Handlers: Slack delivers an operation, possibly more than once.         *)

\* handleStamp, handleViewSubmission, handleSlashCommand: INSERT, then ACK.
Receive(k) ==
  /\ k \in Stamps \cup Modals
  /\ deliveries[k] < MaxDeliveries
  /\ deliveries' = [deliveries EXCEPT ![k] = @ + 1]
  /\ Insert(k)
  /\ acked' = [acked EXCEPT ![k] = TRUE]
  /\ UNCHANGED <<attempts, notified, forwarding, inbox, cron, wire, late, gasVars,
                 declined, screen>>

\* handleKadoMonthClose, handleKadoCorrect: ACK, the INSERT is left to waitUntil.
ReceiveAckFirst(k) ==
  /\ k \in Closes \cup Opens
  /\ deliveries[k] < MaxDeliveries
  /\ deliveries' = [deliveries EXCEPT ![k] = @ + 1]
  /\ acked' = [acked EXCEPT ![k] = TRUE]
  /\ inbox' = [inbox EXCEPT ![k] = @ + 1]
  /\ UNCHANGED <<journalVars, forwarding, bg, cron, wire, late, gasVars, declined, screen>>

InsertAfterAck(k) ==
  /\ inbox[k] > 0
  /\ inbox' = [inbox EXCEPT ![k] = @ - 1]
  /\ Insert(k)
  /\ UNCHANGED <<attempts, notified, forwarding, deliveries, acked, cron, wire, late, gasVars,
                 declined, screen>>

\* The invocation ends before its INSERT: views.open failed, D1 failed, or it was evicted.
LostBeforeInsert(k) ==
  /\ inbox[k] > 0
  /\ inbox' = [inbox EXCEPT ![k] = @ - 1]
  /\ UNCHANGED <<journalVars, forwarding, deliveries, acked, bg, cron, wire, late, gasVars,
                 declined, screen>>

-----------------------------------------------------------------------------
(* The background invocation (waitUntil) of the row's inserter.            *)

\* chat.update to the hourglass card without buttons; a failure is swallowed.
ShowWaiting(k) ==
  /\ k \in Stamps /\ bg[k] = "started"
  /\ bg' = [bg EXCEPT ![k] = "carded"]
  /\ \/ screen' = [screen EXCEPT ![k] = "waiting"]
     \/ UNCHANGED screen
  /\ UNCHANGED <<journalVars, forwarding, deliveries, acked, inbox, cron, wire, late, gasVars,
                 declined>>

\* isForwardingEnabled, then sendToGas.  A stopped stamp gets its card back.
\* The open_correction handler sends without asking for the flag.
Forward(k) ==
  /\ \/ k \in Stamps /\ bg[k] = "carded"
     \/ k \notin Stamps /\ bg[k] = "started"
  /\ IF forwarding \/ k \in Opens
     THEN /\ bg' = [bg EXCEPT ![k] = "sending"]
          /\ wire' = [wire EXCEPT ![k] = "out"]
     ELSE /\ bg' = [bg EXCEPT ![k] = IF k \in Stamps THEN "restore" ELSE "finished"]
          /\ UNCHANGED wire
  /\ UNCHANGED <<journalVars, forwarding, deliveries, acked, inbox, cron, late, gasVars,
                 declined, screen>>

\* isCardSafeToOverwrite: GAS is taken not to have touched the card.
SafeToOverwrite(answer) == answer \in {"reject", "lock_timeout"}

\* What the background invocation does once the attempt is recorded: cards and
\* modals are written back; DMs and ephemerals are not modelled.
AfterAttempt(k, answer) ==
  IF \/ k \in Stamps /\ SafeToOverwrite(answer)
     \/ k \in Opens /\ answer # "ok"
  THEN "restore"
  ELSE "finished"

\* sendToGas returns, recordAttemptResult.
BgRecord(k) ==
  /\ bg[k] = "sending"
  /\ \E answer \in Answers :
       /\ Answered(k, answer)
       /\ Record(k, answer)
       /\ bg' = [bg EXCEPT ![k] = AfterAttempt(k, answer)]
  /\ UNCHANGED <<created, notified, forwarding, deliveries, acked, inbox, cron, gasVars,
                 screen>>

\* The blocks the button was pressed on (the error view for Opens) are written back.
Restore(k) ==
  /\ bg[k] = "restore"
  /\ bg' = [bg EXCEPT ![k] = "finished"]
  /\ \/ screen' = [screen EXCEPT ![k] = "restored"]
     \/ UNCHANGED screen
  /\ UNCHANGED <<journalVars, forwarding, deliveries, acked, inbox, cron, wire, late, gasVars,
                 declined>>

\* The platform ends the invocation (30 s after the response, an eviction, a D1 error).
BgDies(k) ==
  /\ bg[k] \notin {"none", "finished"}
  /\ bg' = [bg EXCEPT ![k] = "finished"]
  /\ HangUp(k)
  /\ UNCHANGED <<journalVars, forwarding, deliveries, acked, inbox, cron, gasVars,
                 declined, screen>>

-----------------------------------------------------------------------------
(* runRetryCron, every five minutes; a run with slow calls overlaps the next. *)

CronStart(c) ==
  /\ cron[c] = Idle
  /\ forwarding /\ Pending # {}
  /\ cron' = [cron EXCEPT ![c] = [todo |-> ListPending,
                                  seen |-> [k \in Keys |-> IF k \in ListPending THEN attempts[k] ELSE 0],
                                  cur |-> NoKey, mention |-> FALSE]]
  /\ UNCHANGED <<journalVars, forwarding, deliveries, acked, inbox, bg, wire, late, gasVars,
                 declined, screen>>

\* The oldest row of the batch that is left.
IsNextRow(c, k) ==
  /\ cron[c].cur = NoKey
  /\ k \in cron[c].todo
  /\ \A j \in cron[c].todo : created[k] <= created[j]

CronSkip(c, k) ==
  /\ IsNextRow(c, k) /\ k \in Opens
  /\ cron' = [cron EXCEPT ![c].todo = @ \ {k}, ![c].seen[k] = 0]
  /\ UNCHANGED <<journalVars, forwarding, deliveries, acked, inbox, bg, wire, late, gasVars,
                 declined, screen>>

CronSend(c, k) ==
  /\ IsNextRow(c, k) /\ k \notin Opens
  /\ cron' = [cron EXCEPT ![c].todo = @ \ {k}, ![c].cur = k]
  /\ wire' = [wire EXCEPT ![c] = "out"]
  /\ UNCHANGED <<journalVars, forwarding, deliveries, acked, inbox, bg, late, gasVars,
                 declined, screen>>

\* attemptsAfter is the count read with the batch, plus one.
NotifyDue(attemptsAfter) ==
  attemptsAfter >= NotifyAt /\ (attemptsAfter - NotifyAt) % NotifyEvery = 0

CronRecord(c, k) ==
  /\ k = cron[c].cur /\ ~cron[c].mention
  /\ \E answer \in Answers :
       /\ Answered(c, answer)
       /\ Record(k, answer)
       /\ LET due == OutcomeOf(k, answer) = "pending" /\ NotifyDue(cron[c].seen[k] + 1) IN
          cron' = [cron EXCEPT ![c].mention = due,
                               ![c].cur = IF due THEN k ELSE NoKey,
                               ![c].seen[k] = 0]
  /\ UNCHANGED <<created, notified, forwarding, deliveries, acked, inbox, bg, gasVars, screen>>

\* notifyRetryMention, then updateNotifiedAt.
CronMention(c, k) ==
  /\ k = cron[c].cur /\ cron[c].mention
  /\ notified' = [notified EXCEPT ![k] = TRUE]
  /\ cron' = [cron EXCEPT ![c].cur = NoKey, ![c].mention = FALSE]
  /\ UNCHANGED <<status, attempts, created, forwarding, deliveries, acked, inbox, bg, wire, late,
                 gasVars, declined, screen>>

CronDies(c) ==
  /\ cron[c] # Idle
  /\ cron' = [cron EXCEPT ![c] = Idle]
  /\ HangUp(c)
  /\ UNCHANGED <<journalVars, forwarding, deliveries, acked, inbox, bg, gasVars,
                 declined, screen>>

\* A row untouched for 30 days: nothing of its operation is still on its way.
Aged(k) ==
  /\ bg[k] = "finished" /\ inbox[k] = 0 /\ late[k] = 0
  /\ \A c \in CronRuns : cron[c].cur # k /\ k \notin cron[c].todo

\* Mutant of Cleanup: the status is not looked at.
CleanupAnyStatus(k) ==
  /\ status[k] \in {"pending", "done", "rejected"} /\ Aged(k)
  /\ status' = [status EXCEPT ![k] = "deleted"]
  /\ UNCHANGED <<attempts, created, notified, forwarding, workerVars, wire, late, gasVars,
                 declined, screen>>

\* deleteOldJournal, one row at a time.
Cleanup(k) ==
  /\ status[k] \in {"done", "rejected"} /\ Aged(k)
  /\ status' = [status EXCEPT ![k] = "deleted"]
  /\ UNCHANGED <<attempts, created, notified, forwarding, workerVars, wire, late, gasVars,
                 declined, screen>>

\* The operator flips settings.forwarding_enabled.
SetForwarding ==
  /\ forwarding' = ~forwarding
  /\ UNCHANGED <<journalVars, workerVars, wire, late, gasVars, declined, screen>>

-----------------------------------------------------------------------------
(* GAS: doPost runs one request at a time under the script lock.           *)

\* LOCK_TIMEOUT: the lock was not free within ten seconds.
GasTurnAway(k) ==
  /\ Serve(k, "lock_timeout")
  /\ UNCHANGED <<journalVars, forwarding, workerVars, gasVars, declined, screen>>

\* UNAUTHORIZED, BAD_REQUEST, MALFORMED_BODY: a verdict that is not retried.
GasReject(k) ==
  /\ Serve(k, "reject")
  /\ UNCHANGED <<journalVars, forwarding, workerVars, gasVars, declined, screen>>

\* An exception before anything is written, or while a row that exists is recomputed.
GasError(k) ==
  /\ Serve(k, "error")
  /\ UNCHANGED <<journalVars, forwarding, workerVars, gasVars, declined, screen>>

\* The row is appended, then recomputing it throws or the execution is killed.
GasAppendThenFail(k) ==
  /\ k \in Logged /\ log[k] = 0
  /\ Serve(k, "error")
  /\ log' = [log EXCEPT ![k] = @ + 1]
  /\ UNCHANGED <<journalVars, forwarding, workerVars, derived, executed, declined, screen>>

\* Mutants of Apply: no search for the idempotency key; a duplicate is not recomputed.
ApplyAlways(k) ==
  IF k \in Logged
  THEN /\ log' = [log EXCEPT ![k] = @ + 1]
       /\ derived' = [derived EXCEPT ![k] = TRUE]
  ELSE UNCHANGED <<log, derived>>
ApplyNewOnly(k) ==
  IF k \in Logged /\ log[k] = 0
  THEN /\ log' = [log EXCEPT ![k] = @ + 1]
       /\ derived' = [derived EXCEPT ![k] = TRUE]
  ELSE UNCHANGED <<log, derived>>

\* What the use case does to the record: append unless the key is in the raw log
\* already (or the operation is refused), recompute the sheets in either case.
Apply(k) ==
  IF k \in Logged
  THEN /\ log' = [log EXCEPT ![k] = IF @ = 0 THEN @ + 1 ELSE @]
       /\ derived' = [derived EXCEPT ![k] = TRUE]
  ELSE UNCHANGED <<log, derived>>

\* The use case to its end, and the redraw of the card, whose failure is swallowed.
GasExecute(k) ==
  /\ Serve(k, "ok")
  /\ executed' = [executed EXCEPT ![k] = TRUE]
  /\ Apply(k)
  /\ \/ screen' = [screen EXCEPT ![k] = IF k \in Stamps \cup Opens THEN "drawn" ELSE @]
     \/ UNCHANGED screen
  /\ UNCHANGED <<journalVars, forwarding, workerVars, declined>>

-----------------------------------------------------------------------------
HandlerStep(k) == Receive(k) \/ ReceiveAckFirst(k) \/ InsertAfterAck(k) \/ LostBeforeInsert(k)
BackgroundStep(k) ==
  ShowWaiting(k) \/ Forward(k) \/ BgRecord(k) \/ Restore(k) \/ BgDies(k)
CronStep(c) ==
  \/ CronStart(c) \/ CronDies(c)
  \/ \E k \in Keys : CronSkip(c, k) \/ CronSend(c, k) \/ CronRecord(c, k) \/ CronMention(c, k)
GasStep(k) ==
  GasTurnAway(k) \/ GasReject(k) \/ GasError(k) \/ GasAppendThenFail(k) \/ GasExecute(k)

Next ==
  \/ \E k \in Keys : HandlerStep(k) \/ BackgroundStep(k) \/ GasStep(k) \/ Cleanup(k)
  \/ \E c \in CronRuns : CronStep(c)
  \/ SetForwarding

Spec == Init /\ [][Next]_vars

\* Cloudflare fires the cron every five minutes for ever, and the operator does
\* not leave forwarding off.  A run that is not killed goes through its batch.
\* GAS may fail a retry any number of times, but not every one it is sent, and
\* not every answer it gives to a retry is lost on the way.
CronAnswered(c, k) ==
  k = cron[c].cur /\ wire[c] = "ok" /\ CronRecord(c, k) /\ status'[k] = "done"
GasAnswersRetry(c, k) == k = cron[c].cur /\ GasExecute(k) /\ wire'[c] = "ok"
Fairness ==
  /\ WF_vars(~forwarding /\ SetForwarding)
  /\ \A c \in CronRuns :
       /\ SF_vars(CronStart(c))
       /\ SF_vars(\E k \in Keys : CronSkip(c, k))
       /\ SF_vars(\E k \in Keys : CronSend(c, k))
       /\ SF_vars(\E k \in Keys : GasAnswersRetry(c, k))
       /\ SF_vars(\E k \in Keys : CronAnswered(c, k))
       /\ WF_vars(\E k \in Keys : CronRecord(c, k) \/ CronMention(c, k))

FairSpec == Spec /\ Fairness

-----------------------------------------------------------------------------
(* Properties.                                                             *)

\* However often an operation is delivered, sent, timed out or retried, GAS
\* appends at most one raw-log row for it (idempotency in handleStamp and
\* handleCorrectionSubmit).
AtMostOneRow == \A k \in Keys : log[k] <= 1

\* A journal row is done only if GAS ran the operation to its end: nothing is
\* marked delivered on the strength of an attempt that merely appended, and a row
\* that an earlier attempt appended is in the daily and monthly sheets by then
\* (the recomputation in handleStamp's duplicate branch).
Processed(k) == executed[k] /\ (k \in Logged => log[k] = 1 /\ derived[k])
DoneMeansProcessed == \A k \in Keys : status[k] = "done" => Processed(k)

\* An operation whose ACK promised a journal row (stamps, modals, commands) is
\* still going to be tried, or GAS has processed it, or it was declined; no
\* cleanup, timeout or late result makes it disappear without a trace.
AckedIsAccountedFor ==
  \A k \in Stamps \cup Modals :
    acked[k] => status[k] = "pending" \/ executed[k] \/ declined[k]

\* The retry cron may list an open_correction row but never sends it: the modal
\* it belongs to is gone by then (runRetryCron's kind check).
OpenNeverRetried == \A c \in CronRuns : cron[c].cur \notin Opens

\* Every journalled operation that may be retried is settled in the end, although
\* the Worker is killed, GAS fails and answers are lost over and over.
EventuallySettled ==
  \A k \in Keys \ Opens : status[k] = "pending" ~> status[k] \in {"done", "rejected", "deleted"}

\* Delivery keeps the promise of DurableInbox: one effect per operation, and no
\* row leaves the journal before its operation is answered.
Promise == INSTANCE DurableInbox WITH
  inbox    <- {k \in Keys : status[k] \in {"pending", "done", "rejected"}},
  known    <- {k \in Keys : status[k] # "none"},
  applied  <- {k \in Keys : log[k] > 0},
  answered <- {k \in Keys : executed[k] \/ declined[k]}
KeepsPromise == Promise!Spec
=============================================================================
