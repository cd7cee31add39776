---------------------------- MODULE MCWorkRecord ----------------------------
(* Every day of at most MaxRows stamps, at any times and in any order of    *)
(* arrival: the daily summary against its reference definition, and what    *)
(* the user is shown and offered against what comes of it.                  *)
EXTENDS DayCard, FiniteSets

CONSTANTS
  MaxRows,           \* bound: rows of the day
  LastTick           \* bound: the last tick of the day a stamp is made at

ASSUME MCWorkRecordAssumption == MaxRows \in Nat /\ LastTick \in Nat

VARIABLE raw         \* the raw log of day 0

DayInit == raw = <<>>

AddStamp(type, t) ==
  /\ Len(raw) < MaxRows
  /\ raw' = Append(raw, [key |-> Len(raw) + 1, day |-> 0, type |-> type, at |-> t,
                         of |-> NoKey, to |-> 0])

DayNext == \E type \in StampTypes, t \in 0..LastTick : AddStamp(type, t)

DaySpec == DayInit /\ [][DayNext]_raw

Line == Timeline(raw, 0)

\* A day whose summary is OK is paid exactly the ticks at which its replayed state was
\* WORKING: no finished, open or zero-length break and no gap between two sessions is
\* counted (pairDay and finalizeSession against replay).
WorkedIsTimeAtWork ==
  Summary(Line, FALSE).status = "OK" => Summary(Line, FALSE).worked = TimeAtWork(Line)

\* The two readings of one log do not contradict each other: a day is OK exactly if
\* every event was allowed where it stands and the day is not open; replay, which the
\* card and the next stamp rely on, never calls such a day open (replay and pairDay).
OKMeansOrderlyAndEnded ==
  Summary(Line, FALSE).status = "OK" <=> Orderly(Line) /\ StateOf(raw, 0) \notin OpenStates

Stamped(type, t) == Append(raw, [key |-> Len(raw) + 1, day |-> 0, type |-> type, at |-> t,
                                 of |-> NoKey, to |-> 0])

LastAt == IF Line = <<>> THEN 0 ELSE Line[Len(Line)].at

\* Pressing a button that the card of an orderly day shows does what it says: the stamp is
\* acknowledged as the last one, the total the user has been shown does not go down, and
\* the card does not turn to "needs a fix".  The buttons come from replay, the total and
\* its mark from the pairing (actionsForState, redrawCardForBusinessDate, pairDay).
ButtonsKeepTheirWord ==
  LET card == Card(raw, 0, TRUE) IN
  card.mark # "needs_fix" =>
    \A b \in card.buttons \ {"CORRECT"}, t \in LastAt..LastTick :
      LET next == Card(Stamped(b, t), 0, TRUE) IN
      next.recorded = b /\ next.mark # "needs_fix" /\ next.total >= card.total

\* A day left open can be told of and mended: the evening's check and the next morning's
\* card name it, the modal their button opens offers to add the end, and an orderly day
\* so ended is OK and paid exactly for the time at work (trigEveningCheck,
\* trigMorningCard, renderCorrectionModal, aggregateDay).
ForgottenEndCanBeMended ==
  StateOf(raw, 0) \in OpenStates =>
    /\ EveningNotices(raw, 0, 0, <<>>).open = {0} /\ MorningWarning(raw, 1, FALSE) = {0}
    /\ Offers(raw, 0).addEnd
    /\ Orderly(Line) => \A t \in LastAt..LastTick :
         LET line == Timeline(Stamped("END", t), 0) IN
         Summary(line, FALSE) = [status |-> "OK", worked |-> TimeAtWork(line)]
=============================================================================
