------------------------------ MODULE StampLog ------------------------------
(***************************************************************************)
(* The working-time record on the GAS side: stamps and corrections are     *)
(* appended to the raw log and the daily and monthly sheets are recomputed *)
(* from it (gas/src/app: stamp, correction, monthly, triggers).            *)
(*                                                                         *)
(* A request carries the time of the press; it reaches GAS any time later, *)
(* in any order and any number of times (module Delivery), and an          *)
(* execution may stop after any of its writes.  Requests run one at a time *)
(* under the script lock, so an execution is one step.                     *)
(*                                                                         *)
(* Abstractions: one client and one month, the days up to LastDay; a row's *)
(* event_id is the key of its request; the bill is its worked minutes; the *)
(* cards are not modelled, so any button may be pressed at any time (the   *)
(* code does not trust the button either).                                 *)
(***************************************************************************)
EXTENDS WorkRecord

CONSTANTS
  Stamps,            \* idempotency keys of button presses
  Fixes,             \* idempotency keys of submitted correction modals
  Horizon,           \* bound: the clock stops here
  LastDay,           \* last day of the month
  Unsent,            \* the request has not been made
  MaxDisturbed,      \* bound: requests made when one has overtaken an earlier one or
                     \* the execution that appended a row has died
  MaxMixed           \* bound: stamps pressed when a correction is submitted

Keys  == Stamps \cup Fixes
Times == 0..Horizon
Days  == 0..DayOf(Horizon)
Month == {d \in Days : d <= LastDay}

ASSUME StampLogAssumption ==
  /\ Stamps \cap Fixes = {} /\ NoKey \notin Keys /\ Unsent \notin Keys
  /\ IsFiniteSet(Keys)
  /\ Horizon \in Nat /\ LastDay \in Nat /\ MaxDisturbed \in Nat /\ MaxMixed \in Nat

VARIABLES
  now,               \* the wall clock
  sent,              \* sent[k]: the request of k, once it is made
  log,               \* the raw log, in the order the rows were appended
  daily,             \* daily[d]: the row of the daily sheet
  billed,            \* worked minutes in the month's row of the monthly sheet
  closed,            \* the month is LOCKED or beyond
  noted,             \* rows recorded under late_stamp/<event_id>
  answered,          \* answered[k]: history, some execution of k ran to its end
  owed,              \* history: rows no execution has recomputed and noted to its end
  overtaken,         \* history: some request was executed out of turn
  rowsAtClose        \* history: length of the raw log when the month was closed

vars == <<now, sent, log, daily, billed, closed, noted, answered, owed, overtaken, rowsAtClose>>

Requests == [type : StampTypes \cup {"CORRECTION"}, at : Nat, day : Int,
             of : Keys \cup {NoKey}, to : Nat]
NoRow == [status |-> "none", worked |-> 0]

TypeOK ==
  /\ now \in Nat
  /\ sent \in [Keys -> Requests \cup {Unsent}]
  /\ log \in Seq(Rows(Keys))
  /\ DOMAIN daily = Days
  /\ \A d \in Days : daily[d].status \in {"none", "OK", "in_progress", "needs_fix"}
  /\ billed \in Nat
  /\ closed \in BOOLEAN
  /\ noted \subseteq Keys
  /\ answered \in [Keys -> BOOLEAN]
  /\ owed \subseteq Keys
  /\ overtaken \in BOOLEAN
  /\ rowsAtClose \in Nat

Init ==
  /\ now = 0
  /\ sent = [k \in Keys |-> Unsent]
  /\ log = <<>>
  /\ daily = [d \in Days |-> NoRow]
  /\ billed = 0
  /\ closed = FALSE
  /\ noted = {}
  /\ answered = [k \in Keys |-> FALSE]
  /\ owed = {}
  /\ overtaken = FALSE
  /\ rowsAtClose = 0

Tick ==
  /\ now < Horizon
  /\ now' = now + 1
  /\ UNCHANGED <<sent, log, daily, billed, closed, noted, answered, owed, overtaken, rowsAtClose>>

-----------------------------------------------------------------------------
(* Requests.                                                               *)

\* The bounds on the set of requests made, K.
Bounded(K, outOfTurn, unfinished) ==
  /\ outOfTurn \/ unfinished # {} => Cardinality(K) <= MaxDisturbed
  /\ K \cap Fixes # {} => Cardinality(K \cap Stamps) <= MaxMixed

Made == {k \in Keys : sent[k] # Unsent}

\* A stamp button: action_ts is the moment of the press.
Press(k, type) ==
  /\ k \in Stamps /\ sent[k] = Unsent /\ Bounded(Made \cup {k}, overtaken, owed)
  /\ sent' = [sent EXCEPT ![k] = [type |-> type, at |-> now, day |-> DayOf(now),
                                  of |-> NoKey, to |-> 0]]
  /\ UNCHANGED <<now, log, daily, billed, closed, noted, answered, owed, overtaken, rowsAtClose>>

HasRow(k) == \E i \in DOMAIN log : log[i].key = k
RowOf(k)  == CHOOSE i \in DOMAIN log : log[i].key = k
RowsOf(d) == {i \in DOMAIN log : log[i].day = d}

\* The correction modal offers every stamp of the day; any date and time can be picked.
SubmitFix(k, i, t) ==
  /\ k \in Fixes /\ sent[k] = Unsent /\ Bounded(Made \cup {k}, overtaken, owed)
  /\ log[i].type # "CORRECTION"
  /\ sent' = [sent EXCEPT ![k] = [type |-> "CORRECTION", at |-> now, day |-> log[i].day,
                                  of |-> log[i].key, to |-> t]]
  /\ UNCHANGED <<now, log, daily, billed, closed, noted, answered, owed, overtaken, rowsAtClose>>

\* ... and on an open day the missing END (add_end).
SubmitEnd(k, d, t) ==
  /\ k \in Fixes /\ sent[k] = Unsent /\ Bounded(Made \cup {k}, overtaken, owed)
  /\ StateOf(log, d) \in OpenStates
  /\ sent' = [sent EXCEPT ![k] = [type |-> "END", at |-> now, day |-> d, of |-> NoKey, to |-> t]]
  /\ UNCHANGED <<now, log, daily, billed, closed, noted, answered, owed, overtaken, rowsAtClose>>

-----------------------------------------------------------------------------
(* Recomputation.                                                          *)

\* recomputeDaily of day d on log L; "today" is decided at that moment.
DailyAfter(L, d) == [daily EXCEPT ![d] = Summary(Timeline(L, d), d = DayOf(now))]

Total(D) == SumFunctionOnSet([d \in Month |-> D[d].worked], Month)

\* Mutant of BillAfter: a closed month is recomputed like any other.
BillAlways(D) == Total(D)

\* recomputeMonthly: a closed month keeps its figures.
BillAfter(D) == IF closed THEN billed ELSE Total(D)

\* notifyLateStampIfFrozen: the new stamp is put down under late_stamp/<event_id>.
NotedAfter(d, note) == IF closed /\ d \in Month THEN noted \cup note ELSE noted

\* Mutant of Writes: the month is summed up before the day is written.
WritesSwapped(L, d, n, note) ==
  /\ daily' = IF n >= 1 THEN DailyAfter(L, d) ELSE daily
  /\ billed' = IF n >= 2 /\ d \in Month THEN BillAfter(daily) ELSE billed
  /\ noted' = IF n >= 3 THEN NotedAfter(d, note) ELSE noted

\* The writes that follow the append, of which the first n are done: the day's row, the
\* month's row, the late-stamp note (for a new stamp).  All of them answer the request.
Writes(L, d, n, note) ==
  /\ daily' = IF n >= 1 THEN DailyAfter(L, d) ELSE daily
  /\ billed' = IF n >= 2 /\ d \in Month THEN BillAfter(daily') ELSE billed
  /\ noted' = IF n >= 3 THEN NotedAfter(d, note) ELSE noted

-----------------------------------------------------------------------------
(* Executions.                                                             *)

\* A request executed in turn comes, as often as it does, after the earlier ones have
\* been answered and before a later one is executed.
InTurn(k) ==
  \A j \in Made :
    /\ sent[j].at < sent[k].at => answered[j]
    /\ sent[j].at > sent[k].at => ~answered[j] /\ ~HasRow(j)

\* An execution of k that leaves a row and ends after n writes; three are all of them.
Ends(k, n) ==
  /\ answered' = [answered EXCEPT ![k] = @ \/ n = 3]
  /\ owed' = IF n = 3 THEN owed \ {k} ELSE IF HasRow(k) THEN owed ELSE owed \cup {k}

\* An execution of k that ends without a row.
Leaves(k) ==
  /\ answered' = [answered EXCEPT ![k] = TRUE]
  /\ UNCHANGED <<now, sent, log, daily, billed, closed, noted, owed, rowsAtClose>>

\* Mutant of Repeat: a duplicate is answered without recomputing.
RepeatWithoutRecompute(k, n) ==
  /\ HasRow(k)
  /\ Ends(k, n)
  /\ UNCHANGED <<now, sent, log, daily, billed, closed, noted, rowsAtClose>>

\* The key is in the raw log: recompute its day again, append nothing, note nothing.
Repeat(k, n) ==
  /\ HasRow(k)
  /\ Writes(log, log[RowOf(k)].day, n, {})
  /\ Ends(k, n)
  /\ UNCHANGED <<now, sent, log, closed, rowsAtClose>>

\* A stamp the state of its day does not allow leaves no trace.
Refuse(k) ==
  /\ k \in Stamps /\ ~HasRow(k)
  /\ ~Allowed(StateOf(log, BusinessDate(log, sent[k].at)), sent[k].type)
  /\ Leaves(k)

AppendRow(row) == Append(log, row)

\* Mutant of Accept: the stamp is appended whatever state its day is in.
AcceptAny(k, n) ==
  LET d == BusinessDate(log, sent[k].at)
      L == AppendRow([key |-> k, day |-> d, type |-> sent[k].type, at |-> sent[k].at,
                      of |-> NoKey, to |-> 0]) IN
  /\ k \in Stamps /\ ~HasRow(k)
  /\ log' = L
  /\ Writes(L, d, n, {k})
  /\ Ends(k, n)
  /\ UNCHANGED <<now, sent, closed, rowsAtClose>>

\* handleStamp, a new and valid stamp.
Accept(k, n) ==
  LET d == BusinessDate(log, sent[k].at)
      L == AppendRow([key |-> k, day |-> d, type |-> sent[k].type, at |-> sent[k].at,
                      of |-> NoKey, to |-> 0]) IN
  /\ k \in Stamps /\ ~HasRow(k)
  /\ Allowed(StateOf(log, d), sent[k].type)
  /\ log' = L
  /\ Writes(L, d, n, {k})
  /\ Ends(k, n)
  /\ UNCHANGED <<now, sent, closed, rowsAtClose>>

\* A correction of a closed month, or of a day that is over, is declined with a DM.
Decline(k) ==
  /\ k \in Fixes /\ ~HasRow(k)
  /\ \/ closed /\ sent[k].day \in Month
     \/ sent[k].type = "END" /\ StateOf(log, sent[k].day) \notin OpenStates
  /\ Leaves(k)

\* handleCorrectionSubmit: the END the user forgot, at the time given for it ...
AddEnd(k, n) ==
  LET d == sent[k].day
      L == AppendRow([key |-> k, day |-> d, type |-> "END", at |-> sent[k].to,
                      of |-> NoKey, to |-> 0]) IN
  /\ k \in Fixes /\ ~HasRow(k) /\ sent[k].type = "END"
  /\ ~(closed /\ d \in Month)
  /\ StateOf(log, d) \in OpenStates
  /\ log' = L
  /\ Writes(L, d, n, {})
  /\ Ends(k, n)
  /\ UNCHANGED <<now, sent, closed, rowsAtClose>>

\* Mutant of Correct: the month is not asked whether it is closed.
CorrectAnytime(k, n) ==
  LET d == sent[k].day
      L == AppendRow([key |-> k, day |-> d, type |-> "CORRECTION", at |-> sent[k].at,
                      of |-> sent[k].of, to |-> sent[k].to]) IN
  /\ k \in Fixes /\ ~HasRow(k) /\ sent[k].type = "CORRECTION"
  /\ log' = L
  /\ Writes(L, d, n, {})
  /\ Ends(k, n)
  /\ UNCHANGED <<now, sent, closed, rowsAtClose>>

\* ... or a CORRECTION row, dated by the submission.  Nothing looks at the order of
\* the events the new time produces.
Correct(k, n) ==
  LET d == sent[k].day
      L == AppendRow([key |-> k, day |-> d, type |-> "CORRECTION", at |-> sent[k].at,
                      of |-> sent[k].of, to |-> sent[k].to]) IN
  /\ k \in Fixes /\ ~HasRow(k) /\ sent[k].type = "CORRECTION"
  /\ ~(closed /\ d \in Month)
  /\ log' = L
  /\ Writes(L, d, n, {})
  /\ Ends(k, n)
  /\ UNCHANGED <<now, sent, closed, rowsAtClose>>

Execute(k) ==
  /\ sent[k] # Unsent
  /\ overtaken' = (overtaken \/ ~InTurn(k))
  /\ \/ Refuse(k) \/ Decline(k)
     \/ \E n \in 0..3 : Repeat(k, n) \/ Accept(k, n) \/ AddEnd(k, n) \/ Correct(k, n)
  /\ Bounded(Made, overtaken', owed')

-----------------------------------------------------------------------------
(* The month.                                                              *)

MonthOver == DayOf(now) > LastDay

\* trigMonthly, on the first of the next month: every day that has rows, then the month.
RecomputeMonth ==
  /\ DayOf(now) = LastDay + 1
  /\ daily' = [d \in Days |-> IF d \in Month /\ RowsOf(d) # {}
                              THEN Summary(Timeline(log, d), FALSE) ELSE daily[d]]
  /\ billed' = BillAfter(daily')
  /\ UNCHANGED <<now, sent, log, closed, noted, answered, owed, overtaken, rowsAtClose>>

\* evaluateMonthClose, every hour, for a month that is over and open.
Reevaluate ==
  /\ MonthOver /\ ~closed
  /\ billed' = BillAfter(daily)
  /\ UNCHANGED <<now, sent, log, daily, closed, noted, answered, owed, overtaken, rowsAtClose>>

\* closeOneMonth: the month is summed up again from the daily sheet and locked, unless
\* a day still needs a fix or is in progress.  The raw log is not looked at.
Close ==
  /\ MonthOver /\ ~closed
  /\ \A d \in Month : daily[d].status \in {"none", "OK"}
  /\ billed' = BillAfter(daily)
  /\ closed' = TRUE
  /\ rowsAtClose' = Len(log)
  /\ UNCHANGED <<now, sent, log, daily, noted, answered, owed, overtaken>>

-----------------------------------------------------------------------------
Next ==
  \/ Tick \/ RecomputeMonth \/ Reevaluate \/ Close
  \/ \E k \in Stamps, type \in StampTypes : Press(k, type)
  \/ \E k \in Fixes, t \in Times : (\E i \in DOMAIN log : SubmitFix(k, i, t))
                                   \/ (\E d \in Days : SubmitEnd(k, d, t))
  \/ \E k \in Keys : Execute(k)

Spec == Init /\ [][Next]_vars

-----------------------------------------------------------------------------
(* Properties.                                                             *)

\* No row of d is owed a recomputation: each one's request has been run to its end.
Settled(d) == \A i \in RowsOf(d) : log[i].key \notin owed

\* Once every row has been recomputed by some execution of its request, the daily
\* sheet says what the raw log says, although the execution that appended the row may
\* have died before recomputing (recomputation in the duplicate branch of handleStamp
\* and handleCorrectionSubmit).
\* Only the change from "in progress" to "needs fix" at midnight is not written.
DailyFollowsLog ==
  \A d \in Days : Settled(d) /\ RowsOf(d) # {} =>
    \E isToday \in BOOLEAN : daily[d] = Summary(Timeline(log, d), isToday)

\* Until the month is closed, and nothing is owed a recomputation, it bills exactly the
\* ticks at work of its complete days.
BilledIsTimeAtWork ==
  ~closed /\ (\A d \in Month : Settled(d)) =>
    billed = SumFunctionOnSet(
      [d \in Month |-> IF Orderly(Timeline(log, d)) /\ StateOf(log, d) \notin OpenStates
                       THEN TimeAtWork(Timeline(log, d)) ELSE 0], Month)

\* The bill of a closed month never changes again, whatever arrives late (isMonthFrozen).
ClosedBillIsFinal == [][closed => closed' /\ billed' = billed]_vars

\* A correction submitted before the close and executed after it does not move the times
\* the closed amount was computed from (the LOCKED_MONTH check of handleCorrectionSubmit).
ClosedTimesAreFinal ==
  [][closed => \A i \in DOMAIN log :
       log[i].day \in Month => EffectiveAt(log', i) = EffectiveAt(log, i)]_vars

\* Of all the corrections of one stamp that have been executed, the one the user submitted
\* last is in force, in whatever order they arrived (applyCorrections).
LatestFixWins ==
  \A i \in DOMAIN log : log[i].type # "CORRECTION" =>
    LET F == {k \in Fixes : HasRow(k) /\ sent[k].type = "CORRECTION" /\ sent[k].of = log[i].key} IN
    F # {} => \E k \in F : /\ EffectiveAt(log, i) = sent[k].to
                           /\ \A j \in F : sent[j].at <= sent[k].at

\* An END is refused only if neither its own date nor the day before has a session to
\* end: midnight takes nothing away from a night shift (resolveBusinessDate).
EndFindsItsSession ==
  [][\A k \in Stamps :
       /\ sent[k] # Unsent /\ sent[k].type = "END"
       /\ ~answered[k] /\ answered'[k] /\ log' = log /\ ~HasRow(k)
       => /\ StateOf(log, DayOf(sent[k].at)) \notin OpenStates
          /\ StateOf(log, DayOf(sent[k].at) - 1) \notin OpenStates]_vars

\* Stamps that reach GAS in the order they were pressed never make a day inconsistent
\* (validation against the replayed state), and an END belongs to the day of the latest
\* START before it, on whichever side of midnight it is pressed (resolveBusinessDate).
\* A stamp that is overtaken, or a correction, can break both.
SessionHasOneDay(e) ==
  LET S == {s \in DOMAIN log : /\ log[s].type = "START"
                               /\ log[s].at < log[e].at \/ (log[s].at = log[e].at /\ s < e)} IN
  S # {} => \E s \in S : log[s].day = log[e].day /\ \A o \in S : log[o].at <= log[s].at
StampsStayOrderly ==
  ~overtaken /\ Made \subseteq Stamps =>
    /\ \A d \in Days : Orderly(Timeline(log, d))
    /\ \A e \in DOMAIN log : log[e].type = "END" => SessionHasOneDay(e)

-----------------------------------------------------------------------------
(* A statement of the repository's comments the code does not keep.        *)

\* stamp.ts: a row appended before the close is part of the closed amount.
AppendedBeforeCloseIsBilled ==
  closed => LET L == SubSeq(log, 1, rowsAtClose) IN
            billed = SumFunctionOnSet(
              [d \in Month |-> IF RowsOf(d) # {} THEN Summary(Timeline(L, d), FALSE).worked
                               ELSE 0], Month)
=============================================================================
