----------------------------- MODULE MonthClose -----------------------------
(***************************************************************************)
(* Closing one month (gas/src/app/monthClose.ts): trigger runs evaluate    *)
(* the month under the script lock and post or redraw its card outside of  *)
(* it; the user presses the button of a card; the press reaches GAS any    *)
(* time later and any number of times (module Delivery).                   *)
(*                                                                         *)
(* Abstractions: the figures of a bill are one amount; `worth' is what the *)
(* daily sheet and the price master come to at the moment, `blocked' that  *)
(* a day is incomplete or no price can be selected.  The one-off trigger   *)
(* scheduled by the close is not modelled: the hourly one does the same.   *)
(***************************************************************************)
EXTENDS Naturals, FiniteSets

CONSTANTS
  Amounts,           \* what the month can come to
  NoAmount,          \* nothing has been computed or confirmed
  Runs,              \* executions of the hourly and monthly triggers
  MaxCards,          \* bound: cards posted for the month
  MaxReopen          \* bound: times the operator starts the month again

Cards == 1..MaxCards
NoCard == 0

ASSUME MonthCloseAssumption ==
  /\ NoAmount \notin Amounts /\ Amounts # {} /\ IsFiniteSet(Amounts)
  /\ MaxCards \in Nat /\ MaxReopen \in Nat

VARIABLES
  \* what the month's row is computed from
  worth, blocked,
  enabled,           \* MF_INVOICE_ENABLED
  \* the month's row
  state, net,
  cardTs,            \* close_card_ts
  inv,               \* invoice_state as the close leaves it
  \* trigger runs: an evaluation's snapshot, while the run draws outside the lock
  run,
  \* Slack
  card,              \* card[c]: what message c shows
  pressed,           \* presses, in the journal or on their way
  \* history
  confirmed,         \* the amount on the button that closed the month
  life               \* times the operator has started the month again

rowVars == <<state, net, cardTs, inv>>
vars == <<worth, blocked, enabled, rowVars, run, card, pressed, confirmed, life>>

Open   == {"OPEN", "REVIEWING"}
Frozen == {"LOCKED", "MF_CREATED", "SENT", "PAID", "VOID"}

Unposted == [shows |-> "nothing", amount |-> NoAmount, life |-> 0]
Idle == [pc |-> "idle", state |-> "none", net |-> NoAmount, card |-> NoCard]
Presses == [card : Cards, amount : Amounts]
RunRecords == [pc : {"idle", "draw", "save"}, state : {"none"} \cup Open,
               net : Amounts \cup {NoAmount}, card : Cards \cup {NoCard}]
CardRecords == [shows : {"nothing", "review", "blocked", "closed"},
                amount : Amounts \cup {NoAmount}, life : 0..MaxReopen]

TypeOK ==
  /\ worth \in Amounts /\ blocked \in BOOLEAN /\ enabled \in BOOLEAN
  /\ state \in {"none"} \cup Open \cup Frozen
  /\ net \in Amounts \cup {NoAmount} /\ (net = NoAmount <=> state = "none")
  /\ cardTs \in Cards \cup {NoCard}
  /\ inv \in {"", "PENDING", "MANUAL"}
  /\ run \in [Runs -> RunRecords] /\ card \in [Cards -> CardRecords]
  /\ pressed \subseteq Presses
  /\ confirmed \in Amounts \cup {NoAmount}
  /\ life \in 0..MaxReopen

Init ==
  /\ worth \in Amounts /\ blocked \in BOOLEAN /\ enabled \in BOOLEAN
  /\ state = "none" /\ net = NoAmount /\ cardTs = NoCard /\ inv = ""
  /\ run = [r \in Runs |-> Idle]
  /\ card = [c \in Cards |-> Unposted]
  /\ pressed = {}
  /\ confirmed = NoAmount
  /\ life = 0

-----------------------------------------------------------------------------
(* The rest of the system.                                                 *)

\* Mutant of RecordChanges: only LOCKED counts as frozen.
RecordChangesUnlocked(w, b) ==
  /\ <<w, b>> # <<worth, blocked>>
  /\ worth' = w /\ blocked' = b
  /\ IF state = "LOCKED" THEN UNCHANGED <<state, net>>
     ELSE /\ net' = w
          /\ state' = IF state = "none" THEN "OPEN" ELSE state
  /\ UNCHANGED <<enabled, cardTs, inv, run, card, pressed, confirmed, life>>

\* A stamp, a correction or a new day: the daily sheet changes and recomputeMonthly
\* writes the figures of a month that is not frozen; it never touches the state of a row
\* that exists.
RecordChanges(w, b) ==
  /\ <<w, b>> # <<worth, blocked>>
  /\ worth' = w /\ blocked' = b
  /\ IF state \in Frozen THEN UNCHANGED <<state, net>>
     ELSE /\ net' = w
          /\ state' = IF state = "none" THEN "OPEN" ELSE state
  /\ UNCHANGED <<enabled, cardTs, inv, run, card, pressed, confirmed, life>>

\* The operator edits the price master, or an execution dies before the month's row.
SheetsChange(w, b) ==
  /\ <<w, b>> # <<worth, blocked>>
  /\ worth' = w /\ blocked' = b
  /\ UNCHANGED <<enabled, rowVars, run, card, pressed, confirmed, life>>

SetEnabled ==
  /\ enabled' = ~enabled
  /\ UNCHANGED <<worth, blocked, rowVars, run, card, pressed, confirmed, life>>

\* Module Invoice, or the operator, moves a closed month on.
Successors == [LOCKED |-> {"MF_CREATED", "SENT", "PAID", "VOID"},
               MF_CREATED |-> {"SENT", "PAID", "VOID"}, SENT |-> {"PAID", "VOID"},
               PAID |-> {"VOID"}, VOID |-> {}]
MoveOn ==
  /\ state \in Frozen
  /\ state' \in Successors[state]
  /\ UNCHANGED <<worth, blocked, enabled, net, cardTs, inv, run, card, pressed, confirmed, life>>

\* Runbook: the invoice has been deleted in MF; the month is reviewed again, with a new
\* card.  No trigger run is old enough to have seen the month before.
Reopen ==
  /\ state \in Frozen \ {"VOID"} /\ life < MaxReopen
  /\ \A r \in Runs : run[r] = Idle
  /\ state' = "REVIEWING" /\ cardTs' = NoCard /\ inv' = ""
  /\ confirmed' = NoAmount
  /\ life' = life + 1
  /\ UNCHANGED <<worth, blocked, enabled, net, run, card, pressed>>

-----------------------------------------------------------------------------
(* Cards.  Every call to Slack may fail and is not repeated.               *)

Draw(c, shows, amount) ==
  \/ card' = [card EXCEPT ![c] = [shows |-> shows, amount |-> amount, life |-> @.life]]
  \/ UNCHANGED card

\* renderMonthCloseCard, the only one with a button, whose value is the amount; the card
\* of a month that days in need of a fix hold back; and that of a closed month, whatever
\* it says of the invoice.
DrawReview(c, amount) == Draw(c, "review", amount)
DrawBlocked(c)        == Draw(c, "blocked", NoAmount)
DrawClosed(c)         == Draw(c, "closed", NoAmount)

\* The card of the row shows a month that is under review, for amount a.
ReviewShown(a) ==
  cardTs # NoCard /\ card[cardTs].shows = "review" /\ card[cardTs].amount = a

-----------------------------------------------------------------------------
(* evaluateMonthClose in a trigger run.                                    *)

\* redrawAfterEvaluate: does the snapshot s leave something to post or redraw?
NeedsDrawing(s, changed) ==
  \/ s.state = "REVIEWING" /\ (s.card = NoCard \/ changed)
  \/ s.state = "OPEN" /\ s.card # NoCard /\ changed

\* evaluateOneMonth, under the lock: sum up, review or block, take a snapshot.  What has
\* changed is judged by the row as this evaluation found it.
Evaluate(r) ==
  /\ run[r].pc = "idle"
  /\ state \notin Frozen
  /\ net' = worth
  /\ state' = IF blocked THEN "OPEN" ELSE "REVIEWING"
  /\ LET seen == [pc |-> "draw", state |-> state', net |-> net', card |-> cardTs]
         changed == state' # state \/ net' # net
     IN  run' = [run EXCEPT ![r] = IF NeedsDrawing(seen, changed) THEN seen ELSE Idle]
  /\ UNCHANGED <<worth, blocked, enabled, cardTs, inv, card, pressed, confirmed, life>>

\* Outside the lock, by the snapshot: the month's first card ...
PostCard(r) ==
  /\ run[r].pc = "draw" /\ run[r].card = NoCard
  /\ \E c \in Cards :
       /\ card[c] = Unposted /\ \A d \in Cards : d < c => card[d] # Unposted
       /\ card' = [card EXCEPT ![c] = [shows |-> "review", amount |-> run[r].net,
                                       life |-> life]]
       /\ run' = [run EXCEPT ![r].pc = "save", ![r].card = c]
  /\ UNCHANGED <<worth, blocked, enabled, rowVars, pressed, confirmed, life>>

\* ... whose ts is then written into the row, whatever is there by now.
SaveCardTs(r) ==
  /\ run[r].pc = "save"
  /\ cardTs' = run[r].card
  /\ run' = [run EXCEPT ![r] = Idle]
  /\ UNCHANGED <<worth, blocked, enabled, state, net, inv, card, pressed, confirmed, life>>

\* ... or the card there was, for review or for the days that need a fix.
UpdateCard(r) ==
  /\ run[r].pc = "draw" /\ run[r].card # NoCard
  /\ IF run[r].state = "REVIEWING" THEN DrawReview(run[r].card, run[r].net)
                                   ELSE DrawBlocked(run[r].card)
  /\ run' = [run EXCEPT ![r] = Idle]
  /\ UNCHANGED <<worth, blocked, enabled, rowVars, pressed, confirmed, life>>

\* The execution ends early, or its call to Slack fails.
RunDies(r) ==
  /\ run[r].pc # "idle"
  /\ run' = [run EXCEPT ![r] = Idle]
  /\ UNCHANGED <<worth, blocked, enabled, rowVars, card, pressed, confirmed, life>>

-----------------------------------------------------------------------------
(* The button.                                                             *)

\* The button carries the amount of the card it is on.
Press(c) ==
  /\ card[c].shows = "review"
  /\ pressed' = pressed \cup {[card |-> c, amount |-> card[c].amount]}
  /\ UNCHANGED <<worth, blocked, enabled, rowVars, run, card, confirmed, life>>

\* handleMonthClose: the month is frozen already; its card is drawn as it is now.
CloseAgain(p) ==
  /\ p \in pressed
  /\ state \in Frozen \ {"VOID"} /\ cardTs # NoCard
  /\ DrawClosed(cardTs)
  /\ UNCHANGED <<worth, blocked, enabled, rowVars, run, pressed, confirmed, life>>

\* Mutant of Answerable: any card will do.
AnswerableFromAnyCard(p) == p \in pressed /\ state = "REVIEWING"

\* A press on another card than the row's (STALE_CARD), and one that finds the month not
\* under review (NOT_READY), change nothing.
Answerable(p) == p \in pressed /\ state = "REVIEWING" /\ p.card = cardTs

\* closeOneMonth sums the month up again: something blocks it now ...
CloseBlocked(p) ==
  /\ Answerable(p) /\ blocked
  /\ net' = worth
  /\ state' = "OPEN"
  /\ DrawBlocked(cardTs)
  /\ UNCHANGED <<worth, blocked, enabled, cardTs, inv, run, pressed, confirmed, life>>

\* Mutant of CloseAmountChanged: the card is left as it is.
CloseAmountChangedSilently(p) ==
  /\ Answerable(p) /\ ~blocked
  /\ net' = worth
  /\ worth # p.amount
  /\ UNCHANGED <<worth, blocked, enabled, state, cardTs, inv, run, card, pressed, confirmed, life>>

\* ... or the amount is not the one on the button ...
CloseAmountChanged(p) ==
  /\ Answerable(p) /\ ~blocked
  /\ net' = worth
  /\ worth # p.amount
  /\ DrawReview(cardTs, worth)
  /\ UNCHANGED <<worth, blocked, enabled, state, cardTs, inv, run, pressed, confirmed, life>>

\* Mutant of CloseLocks: the amount on the button is not compared.
CloseLocksUnseen(p) ==
  /\ Answerable(p) /\ ~blocked
  /\ net' = worth
  /\ state' = "LOCKED"
  /\ inv' = IF enabled THEN "PENDING" ELSE "MANUAL"
  /\ confirmed' = p.amount
  /\ DrawClosed(cardTs)
  /\ UNCHANGED <<worth, blocked, enabled, cardTs, run, pressed, life>>

\* ... or the month is closed.
CloseLocks(p) ==
  /\ Answerable(p) /\ ~blocked
  /\ net' = worth
  /\ worth = p.amount
  /\ state' = "LOCKED"
  /\ inv' = IF enabled THEN "PENDING" ELSE "MANUAL"
  /\ confirmed' = p.amount
  /\ DrawClosed(cardTs)
  /\ UNCHANGED <<worth, blocked, enabled, cardTs, run, pressed, life>>

Close(p) == CloseAgain(p) \/ CloseBlocked(p) \/ CloseAmountChanged(p) \/ CloseLocks(p)

-----------------------------------------------------------------------------
RunStep(r) == Evaluate(r) \/ PostCard(r) \/ SaveCardTs(r) \/ UpdateCard(r) \/ RunDies(r)

Next ==
  \/ \E w \in Amounts, b \in BOOLEAN : RecordChanges(w, b) \/ SheetsChange(w, b)
  \/ SetEnabled \/ MoveOn \/ Reopen
  \/ \E r \in Runs : RunStep(r)
  \/ \E c \in Cards : Press(c)
  \/ \E p \in Presses : Close(p)

Spec == Init /\ [][Next]_vars

\* The user presses the button the row's card shows, the press is carried out in the end
\* (module Delivery), and not every redraw of that card fails.
Fairness ==
  /\ \A c \in Cards : WF_vars(c = cardTs /\ Press(c))
  /\ \A p \in Presses : /\ WF_vars(CloseLocks(p))
                          /\ SF_vars(CloseAmountChanged(p) /\ ReviewShown(worth)')
FairSpec == Spec /\ Fairness

-----------------------------------------------------------------------------
(* Properties.                                                             *)

\* A closed month carries the amount that stood on the button the user pressed, whatever
\* is recomputed later and however far the month has moved on (isMonthFrozen in
\* recomputeMonthly, the comparison in closeOneMonth).
ConfirmedIsBilled == state \in Frozen => net = confirmed

\* A press that is still on its way when the operator starts the month again does not
\* close it: the card that is answered was posted since (STALE_CARD in handleMonthClose).
PressIsOfThisLife ==
  [][state \notin Frozen /\ state' \in Frozen
       => cardTs # NoCard /\ card[cardTs].life = life]_vars

\* A month under review whose card shows a button does not stay there for ever while
\* nothing changes and the user presses: redraws by trigger runs with an older snapshot
\* and answers "the amount has changed" do not go on chasing each other.
Ready(w) == /\ state = "REVIEWING" /\ worth = w /\ ~blocked
            /\ cardTs # NoCard /\ card[cardTs].shows = "review"
ReviewEnds == \A w \in Amounts : Ready(w) ~> ~Ready(w)

\* Evaluations, presses and recomputations move the bill as BillLifecycle says.
Lifecycle == INSTANCE BillLifecycle WITH amount <- net
KeepsLifecycle == Lifecycle!Spec
=============================================================================
