------------------------------ MODULE DayCard ------------------------------
(***************************************************************************)
(* What the user is shown of a day, and what he is offered to do about it: *)
(* the card (gas/src/core/card.ts, app/cardHelpers.ts), the modal of       *)
(* corrections, and the notices of the daily triggers                      *)
(* (gas/src/app/triggers.ts).  All of it is drawn anew from the raw log.   *)
(*                                                                         *)
(* Wording, layout and the list of sessions are left out.                  *)
(***************************************************************************)
EXTENDS WorkRecord

Nothing == "nothing"

-----------------------------------------------------------------------------
(* The card.                                                               *)

\* Mutant of ActionsFor: a break may be begun from a break.
ActionsWhileOpen(state) ==
  CASE state = "IDLE"      -> {"START"}
    [] state \in OpenStates -> {"BREAK_START", "END", "CORRECT"}
    [] state = "CLOSED"    -> {"START", "CORRECT"}

\* actionsForState: the buttons of a card, by the stamp each asks for.
ActionsFor(state) ==
  CASE state = "IDLE"     -> {"START"}
    [] state = "WORKING"  -> {"BREAK_START", "END", "CORRECT"}
    [] state = "ON_BREAK" -> {"BREAK_END", "END", "CORRECT"}
    [] state = "CLOSED"   -> {"START", "CORRECT"}

\* computeStatusLine: the last stamp of the timeline is called recorded.
StatusLine(line) == IF line = <<>> THEN Nothing ELSE line[Len(line)].type

\* The finished sessions, whatever becomes of the one that is running.
CompletedTotal(line) == Pairing(line).worked

\* The total is the day's once it is OK, that of the finished sessions while the day is
\* in progress, and not shown of a day that needs a fix.
TotalShown(line, day) ==
  CASE day.status = "OK"          -> day.worked
    [] day.status = "in_progress" -> CompletedTotal(line)
    [] day.status = "needs_fix"   -> Nothing

\* renderCard of redrawCardForBusinessDate: state and buttons are those of replay, the
\* total and its mark those of the pairing.
Card(L, d, isToday) ==
  LET line == Timeline(L, d)
      day == Summary(line, isToday)
  IN  [state |-> Replay(line), buttons |-> ActionsFor(Replay(line)),
       mark |-> day.status, total |-> TotalShown(line, day), recorded |-> StatusLine(line)]

-----------------------------------------------------------------------------
(* The modal of corrections.                                               *)

\* Mutant of Offers: a day left during a break is not offered an end.
OffersAtWork(L, d) ==
  [stamps |-> {L[e.row].key : e \in StampsOf(L, d)},
   addEnd |-> StateOf(L, d) = "WORKING"]

\* renderCorrectionModal: every stamp of the day may be corrected, and an end added as
\* long as the day is open.
Offers(L, d) ==
  [stamps |-> {L[e.row].key : e \in StampsOf(L, d)},
   addEnd |-> StateOf(L, d) \in OpenStates]

-----------------------------------------------------------------------------
(* The daily triggers.                                                     *)

\* trigMorningCard: the card of a working day warns that the day before was left open; on
\* a day of rest there is none.
MorningWarning(L, today, rest) ==
  IF ~rest /\ StateOf(L, today - 1) \in OpenStates THEN {today - 1} ELSE {}

\* trigEveningCheck: the day is still open; journal rows are pending in the Worker; days
\* of the last week whose row in the daily sheet, `daily', says they need a fix.
EveningNotices(L, today, pending, daily) ==
  [open |-> {d \in {today} : StateOf(L, d) \in OpenStates},
   pending |-> pending > 0,
   needsFix |-> {d \in (today - 6)..today \cap DOMAIN daily : daily[d] = "needs_fix"}]
=============================================================================
