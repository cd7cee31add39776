----------------------------- MODULE WorkRecord -----------------------------
(***************************************************************************)
(* The pure core of the working-time record (gas/src/core): what a raw log *)
(* of stamps and corrections says about a business day.                    *)
(*                                                                         *)
(* A raw log is a sequence of rows in the order they were appended.  Time  *)
(* is counted in ticks; DayLen ticks make a calendar day.  Session numbers *)
(* and wording are left out; a tick is a whole minute, so the conversion   *)
(* of seconds to minutes (floor) does not appear.                          *)
(***************************************************************************)
EXTENDS Integers, Sequences, FiniteSets, SequencesExt, TLC

CONSTANTS
  DayLen,            \* ticks of a calendar day
  NoKey              \* the row corrects nothing

ASSUME DayLenAssumption == DayLen \in Nat \ {0}

StampTypes == {"START", "BREAK_START", "BREAK_END", "END"}
States     == {"IDLE", "WORKING", "ON_BREAK", "CLOSED"}
OpenStates == {"WORKING", "ON_BREAK"}

\* A row: key names the row, `of' is the row a CORRECTION corrects and `to' the
\* time it gives it; at is occurred_at, for a CORRECTION when it was submitted.
Rows(Key) == [key : Key, day : Int, type : StampTypes \cup {"CORRECTION"}, at : Nat,
              of : Key \cup {NoKey}, to : Nat]

DayOf(t) == t \div DayLen

TransitionTable ==
  { <<"IDLE",     "START",       "WORKING">>,
    <<"WORKING",  "BREAK_START", "ON_BREAK">>,
    <<"WORKING",  "END",         "CLOSED">>,
    <<"ON_BREAK", "BREAK_END",   "WORKING">>,
    <<"ON_BREAK", "END",         "CLOSED">>,
    <<"CLOSED",   "START",       "WORKING">> }

Allowed(state, type) == \E next \in States : <<state, type, next>> \in TransitionTable

Transition(state, type) == CHOOSE next \in States : <<state, type, next>> \in TransitionTable

-----------------------------------------------------------------------------
(* Corrections and the timeline of a day.                                  *)

Corrections(L, i) ==
  {c \in DOMAIN L : L[c].type = "CORRECTION" /\ L[c].day = L[i].day /\ L[c].of = L[i].key}

\* Mutant of LatestCorrection: the row appended last wins, whenever it was submitted.
LastAppended(L, C) == CHOOSE c \in C : \A o \in C : o <= c

\* The correction submitted last; among equals the one appended last.
LatestCorrection(L, C) ==
  CHOOSE c \in C : \A o \in C : L[o].at < L[c].at \/ (L[o].at = L[c].at /\ o <= c)

EffectiveAt(L, i) ==
  LET C == Corrections(L, i) IN
  IF C = {} THEN L[i].at ELSE L[LatestCorrection(L, C)].to

IsStampOf(L, d, i) == L[i].type # "CORRECTION" /\ L[i].day = d

\* The stamps of day d at their corrected times.
StampsOf(L, d) ==
  {[row |-> i, type |-> L[i].type, at |-> EffectiveAt(L, i)] : i \in {i \in DOMAIN L : IsStampOf(L, d, i)}}

Precedes(e, f) == e.at < f.at \/ (e.at = f.at /\ e.row < f.row)

\* Stamps in the order of their times; the sort is stable.
InTimeOrder(S) ==
  [n \in 1..Cardinality(S) |-> CHOOSE e \in S : Cardinality({f \in S : Precedes(f, e)}) = n - 1]

Timeline(L, d) == InTimeOrder(StampsOf(L, d))

-----------------------------------------------------------------------------
(* The state of a day, and the day a new stamp belongs to.                 *)

\* Replay passes over a stamp the table does not allow.
ReplayStep(state, e) == IF Allowed(state, e.type) THEN Transition(state, e.type) ELSE state

\* Replayed(line)[n] is the state after the first n stamps.
Replayed(line) ==
  LET after[n \in 0..Len(line)] == IF n = 0 THEN "IDLE" ELSE ReplayStep(after[n - 1], line[n])
  IN  after

Replay(line) == Replayed(line)[Len(line)]

StateOf(L, d) == Replay(Timeline(L, d))

\* Mutant of BusinessDate: midnight always begins a new day.
CalendarDate(L, t) == DayOf(t)

\* A stamp goes to the day before as long as that one is still open.
BusinessDate(L, t) ==
  IF StateOf(L, DayOf(t) - 1) \in OpenStates THEN DayOf(t) - 1 ELSE DayOf(t)

-----------------------------------------------------------------------------
(* The daily summary.                                                      *)

NothingPaired == [state |-> "IDLE", broken |-> FALSE, start |-> 0, breakAt |-> 0,
                  rest |-> 0, worked |-> 0]

\* The session e ends was worked until effectiveEnd, less its finished breaks.
EndSession(p, effectiveEnd) ==
  [p EXCEPT !.worked = @ + (effectiveEnd - p.start) - p.rest]

\* Mutants of PairStep: a break left open is paid; an event out of order is passed over.
PairStepPaid(p, e) ==
  IF p.broken \/ ~Allowed(p.state, e.type) THEN [p EXCEPT !.broken = TRUE]
  ELSE LET q == [p EXCEPT !.state = Transition(p.state, e.type)] IN
       CASE e.type = "START"       -> [q EXCEPT !.start = e.at, !.rest = 0]
         [] e.type = "BREAK_START" -> [q EXCEPT !.breakAt = e.at]
         [] e.type = "BREAK_END"   -> [q EXCEPT !.rest = @ + (e.at - p.breakAt)]
         [] e.type = "END"         -> EndSession(q, e.at)
PairStepSloppy(p, e) ==
  LET q == [p EXCEPT !.state = IF Allowed(p.state, e.type) THEN Transition(p.state, e.type)
                               ELSE @] IN
  CASE e.type = "START"       -> [q EXCEPT !.start = e.at, !.rest = 0]
    [] e.type = "BREAK_START" -> [q EXCEPT !.breakAt = e.at]
    [] e.type = "BREAK_END"   -> [q EXCEPT !.rest = @ + (e.at - p.breakAt)]
    [] e.type = "END"         -> EndSession(q, IF p.state = "ON_BREAK" THEN p.breakAt ELSE e.at)

\* Pairing stops at the first event that does not fit.  A session ended during a
\* break ends, in effect, where that break began.
PairStep(p, e) ==
  IF p.broken \/ ~Allowed(p.state, e.type) THEN [p EXCEPT !.broken = TRUE]
  ELSE LET q == [p EXCEPT !.state = Transition(p.state, e.type)] IN
       CASE e.type = "START"       -> [q EXCEPT !.start = e.at, !.rest = 0]
         [] e.type = "BREAK_START" -> [q EXCEPT !.breakAt = e.at]
         [] e.type = "BREAK_END"   -> [q EXCEPT !.rest = @ + (e.at - p.breakAt)]
         [] e.type = "END"         ->
              EndSession(q, IF p.state = "ON_BREAK" THEN p.breakAt ELSE e.at)

Paired(line) ==
  LET paired[n \in 0..Len(line)] ==
        IF n = 0 THEN NothingPaired ELSE PairStep(paired[n - 1], line[n])
  IN  paired

Pairing(line) == Paired(line)[Len(line)]

\* status, and the minutes worked when the day is OK (0 stands for an empty cell).
Summary(line, isToday) ==
  LET p == Pairing(line)
      status == CASE p.broken -> "needs_fix"
                  [] ~p.broken /\ p.state \in OpenStates ->
                       IF isToday THEN "in_progress" ELSE "needs_fix"
                  [] OTHER -> "OK"
  IN  [status |-> status, worked |-> IF status = "OK" THEN p.worked ELSE 0]

-----------------------------------------------------------------------------
(* Reference definitions: what the summary ought to say, without pairing.  *)

StateAt(line, t) == Replayed(line)[Cardinality({n \in DOMAIN line : line[n].at <= t})]

Orderly(line) == \A n \in DOMAIN line : Allowed(Replayed(line)[n - 1], line[n].type)

\* Ticks at which the person was at work, from the first stamp to the last.
TimeAtWork(line) ==
  IF line = <<>> THEN 0
  ELSE Cardinality({t \in line[1].at .. line[Len(line)].at - 1 : StateAt(line, t) = "WORKING"})
=============================================================================
