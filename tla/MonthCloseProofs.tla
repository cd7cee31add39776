-------------------------- MODULE MonthCloseProofs --------------------------
(***************************************************************************)
(* Proofs about MonthClose for every number of trigger runs, cards and     *)
(* reopenings and every set of amounts.                                    *)
(***************************************************************************)
EXTENDS MonthClose, TLAPS

(* The strengthening.                                                      *)

\* A run that draws carries an amount; one that has posted a card carries a card that
\* was posted since the month was last started.
RunsAreCurrent ==
  \A r \in Runs : /\ run[r].pc # "idle" => run[r].net \in Amounts
                  /\ run[r].pc = "save" => run[r].card \in Cards /\ card[run[r].card].life = life

\* A card with a button shows an amount.
ButtonsHaveAmounts == \A c \in Cards : card[c].shows = "review" => card[c].amount \in Amounts

\* The row's card was posted since the month was last started.
CardIsOfThisLife == cardTs # NoCard => card[cardTs].life = life

IInv == TypeOK /\ RunsAreCurrent /\ ButtonsHaveAmounts /\ CardIsOfThisLife /\ ConfirmedIsBilled

-----------------------------------------------------------------------------
(* What the helpers of the actions do.                                     *)

\* A bound on the cards leaves 0 for "no card".
LEMMA NoCardIsNone == NoCard \notin Cards
BY MonthCloseAssumption DEF NoCard, Cards

\* Drawing changes no card but the one drawn, and when that card was posted for none.
LEMMA DrawFacts ==
  ASSUME TypeOK, ButtonsHaveAmounts, NEW c \in Cards,
         NEW shows \in {"review", "blocked", "closed"}, NEW a \in Amounts \cup {NoAmount},
         shows = "review" => a \in Amounts,
         Draw(c, shows, a)
  PROVE  /\ card' \in [Cards -> CardRecords]
         /\ ButtonsHaveAmounts'
         /\ \A d \in Cards : card'[d].life = card[d].life
<1>1. CASE UNCHANGED card
  BY <1>1 DEF TypeOK, ButtonsHaveAmounts
<1>2. CASE card' = [card EXCEPT ![c] = [shows |-> shows, amount |-> a, life |-> @.life]]
  <2>1. /\ card \in [Cards -> CardRecords]
        /\ card[c] \in CardRecords
    BY DEF TypeOK
  <2>2. card' = [card EXCEPT ![c] = [shows |-> shows, amount |-> a, life |-> card[c].life]]
    BY <1>2
  <2>3. [shows |-> shows, amount |-> a, life |-> card[c].life] \in CardRecords
    BY <2>1 DEF CardRecords
  <2>4. /\ \A d \in Cards \ {c} : card'[d] = card[d]
        /\ card'[c] = [shows |-> shows, amount |-> a, life |-> card[c].life]
    BY <2>1, <2>2
  <2>5. card' \in [Cards -> CardRecords]
    BY <2>1, <2>2, <2>3
  <2>6. \A d \in Cards : card'[d].life = card[d].life
    BY <2>4
  <2>7. ButtonsHaveAmounts'
    BY <2>4 DEF ButtonsHaveAmounts
  <2>8. QED BY <2>5, <2>6, <2>7
<1>3. QED BY <1>1, <1>2 DEF Draw

\* A run set back to idle has nothing to draw.
LEMMA IdleFacts ==
  ASSUME TypeOK, RunsAreCurrent, NEW r \in Runs, run' = [run EXCEPT ![r] = Idle],
         UNCHANGED life, \A d \in Cards : card'[d].life = card[d].life
  PROVE  run' \in [Runs -> RunRecords] /\ RunsAreCurrent'
<1>1. Idle \in RunRecords /\ Idle.pc = "idle"
  BY DEF Idle, RunRecords
<1>2. run \in [Runs -> RunRecords]
  BY DEF TypeOK
<1>3. /\ run' \in [Runs -> RunRecords]
      /\ \A q \in Runs \ {r} : run'[q] = run[q]
      /\ run'[r] = Idle
  BY <1>1, <1>2
<1>4. QED BY <1>1, <1>3 DEF RunsAreCurrent

\* A press on the row's card carries an amount, and the row has a card.
LEMMA AnswerableFacts ==
  ASSUME TypeOK, NEW p \in Presses, Answerable(p)
  PROVE  /\ state = "REVIEWING" /\ cardTs \in Cards /\ p.card = cardTs /\ p.amount \in Amounts
BY DEF Answerable, Presses
-----------------------------------------------------------------------------
(* The inductive invariant.                                                *)

LEMMA InitInv == Init => IInv
<1> SUFFICES ASSUME Init PROVE IInv
  OBVIOUS
<1>1. Idle \in RunRecords /\ Unposted \in CardRecords
  BY MonthCloseAssumption DEF Idle, RunRecords, Unposted, CardRecords
<1>2. TypeOK
  <2>1. /\ run \in [Runs -> RunRecords] /\ card \in [Cards -> CardRecords]
        /\ pressed \subseteq Presses /\ life \in 0..MaxReopen
    <3>1. 0 \in 0..MaxReopen
      BY MonthCloseAssumption
    <3>2. QED BY <1>1, <3>1 DEF Init
  <2>2. QED BY <2>1 DEF Init, TypeOK
<1>3. RunsAreCurrent /\ ButtonsHaveAmounts /\ CardIsOfThisLife /\ ConfirmedIsBilled
  BY DEF Init, Idle, Unposted, RunsAreCurrent, ButtonsHaveAmounts, CardIsOfThisLife,
         ConfirmedIsBilled, Frozen
<1>4. QED BY <1>2, <1>3 DEF IInv

\* Steps of the rest of the system.
LEMMA OutsideStep ==
  ASSUME IInv,
         \/ \E w \in Amounts, b \in BOOLEAN : RecordChanges(w, b) \/ SheetsChange(w, b)
         \/ SetEnabled \/ MoveOn \/ Reopen
  PROVE  IInv'
<1> USE DEF IInv
<1>1. ASSUME NEW w \in Amounts, NEW b \in BOOLEAN, RecordChanges(w, b) PROVE IInv'
  <2>1. CASE state \in Frozen
    <3>1. /\ worth' \in Amounts /\ blocked' \in BOOLEAN
          /\ UNCHANGED <<enabled, state, net, cardTs, inv, run, card, pressed, confirmed, life>>
      BY <1>1, <2>1 DEF RecordChanges
    <3>2. TypeOK'
      BY <3>1 DEF TypeOK
    <3>3. QED BY <3>1, <3>2 DEF RunsAreCurrent, ButtonsHaveAmounts, CardIsOfThisLife,
                                ConfirmedIsBilled
  <2>2. CASE state \notin Frozen
    <3>1. /\ net' = w /\ state' \in Open /\ state' \notin Frozen
          /\ worth' \in Amounts /\ blocked' \in BOOLEAN
          /\ UNCHANGED <<enabled, cardTs, inv, run, card, pressed, confirmed, life>>
      BY <1>1, <2>2 DEF RecordChanges, TypeOK, Open, Frozen
    <3>2. TypeOK'
      BY <3>1, MonthCloseAssumption DEF TypeOK, Open
    <3>3. QED BY <3>1, <3>2 DEF RunsAreCurrent, ButtonsHaveAmounts, CardIsOfThisLife,
                                ConfirmedIsBilled
  <2>3. QED BY <2>1, <2>2
<1>2. ASSUME NEW w \in Amounts, NEW b \in BOOLEAN, SheetsChange(w, b) PROVE IInv'
  BY <1>2 DEF SheetsChange, rowVars, TypeOK, RunsAreCurrent, ButtonsHaveAmounts,
              CardIsOfThisLife, ConfirmedIsBilled
<1>3. CASE SetEnabled
  BY <1>3 DEF SetEnabled, rowVars, TypeOK, RunsAreCurrent, ButtonsHaveAmounts,
              CardIsOfThisLife, ConfirmedIsBilled
<1>4. CASE MoveOn
  <2>1. state \in Frozen /\ state' \in Frozen
    BY <1>4 DEF MoveOn, Frozen, Successors
  <2>2. UNCHANGED <<worth, blocked, enabled, net, cardTs, inv, run, card, pressed, confirmed, life>>
    BY <1>4 DEF MoveOn
  <2>3. TypeOK'
    BY <2>1, <2>2 DEF TypeOK, Open, Frozen
  <2>4. QED BY <2>1, <2>2, <2>3 DEF RunsAreCurrent, ButtonsHaveAmounts, CardIsOfThisLife,
                                    ConfirmedIsBilled
<1>5. CASE Reopen
  <2>1. /\ state \in Frozen /\ state' = "REVIEWING" /\ cardTs' = NoCard /\ inv' = ""
        /\ confirmed' = NoAmount /\ life' = life + 1 /\ life < MaxReopen
        /\ \A r \in Runs : run[r] = Idle
        /\ UNCHANGED <<worth, blocked, enabled, net, run, card, pressed>>
    BY <1>5 DEF Reopen
  <2>2. TypeOK'
    <3>1. life' \in 0..MaxReopen
      <4>1. life \in 0..MaxReopen /\ MaxReopen \in Nat
        BY MonthCloseAssumption DEF TypeOK
      <4>2. life' = life + 1 /\ life < MaxReopen
        BY <2>1
      <4>3. QED BY <4>1, <4>2
    <3>2. net # NoAmount
      BY <2>1 DEF TypeOK, Frozen
    <3>3. QED BY <2>1, <3>1, <3>2 DEF TypeOK, Open
  <2>3. RunsAreCurrent'
    <3>1. Idle.pc = "idle"
      BY DEF Idle
    <3>2. \A r \in Runs : run'[r].pc = "idle"
      BY <2>1, <3>1
    <3>3. QED BY <3>2 DEF RunsAreCurrent
  <2>4. QED BY <2>1, <2>2, <2>3 DEF ButtonsHaveAmounts, CardIsOfThisLife, ConfirmedIsBilled, Frozen
<1>6. QED BY <1>1, <1>2, <1>3, <1>4, <1>5
\* Steps of trigger runs.
LEMMA RunKeepsInv ==
  ASSUME IInv, NEW r \in Runs, RunStep(r)
  PROVE  IInv'
<1> USE DEF IInv
<1>1. CASE Evaluate(r)
  <2>1. /\ state \notin Frozen /\ net' = worth /\ state' \in Open /\ state' \notin Frozen
        /\ UNCHANGED <<worth, blocked, enabled, cardTs, inv, card, pressed, confirmed, life>>
    BY <1>1 DEF Evaluate, Open, Frozen
  <2> DEFINE seen == [pc |-> "draw", state |-> state', net |-> net', card |-> cardTs]
  <2>2. run' = [run EXCEPT ![r] = seen] \/ run' = [run EXCEPT ![r] = Idle]
    BY <1>1 DEF Evaluate
  <2>3. seen \in RunRecords /\ seen.pc = "draw" /\ seen.net \in Amounts
    BY <2>1 DEF RunRecords, TypeOK
  <2>4. run' \in [Runs -> RunRecords] /\ RunsAreCurrent'
    <3>1. CASE run' = [run EXCEPT ![r] = seen]
      <4>1. /\ run' \in [Runs -> RunRecords]
            /\ run'[r] = seen /\ \A q \in Runs \ {r} : run'[q] = run[q]
        BY <3>1, <2>3 DEF TypeOK
      <4>2. QED BY <4>1, <2>1, <2>3 DEF RunsAreCurrent
    <3>2. CASE run' = [run EXCEPT ![r] = Idle]
      BY <3>2, <2>1, IdleFacts
    <3>3. QED BY <2>2, <3>1, <3>2
  <2>5. TypeOK'
    BY <2>1, <2>4, MonthCloseAssumption DEF TypeOK, Open
  <2>6. QED BY <2>1, <2>4, <2>5 DEF ButtonsHaveAmounts, CardIsOfThisLife, ConfirmedIsBilled
<1>2. CASE PostCard(r)
  <2>1. PICK c \in Cards :
          /\ run[r].pc = "draw"
          /\ card' = [card EXCEPT ![c] = [shows |-> "review", amount |-> run[r].net, life |-> life]]
          /\ run' = [run EXCEPT ![r].pc = "save", ![r].card = c]
    BY <1>2 DEF PostCard
  <2>2. UNCHANGED <<worth, blocked, enabled, state, net, cardTs, inv, pressed, confirmed, life>>
    BY <1>2 DEF PostCard, rowVars
  <2>3. run[r].net \in Amounts
    BY <2>1 DEF RunsAreCurrent
  <2>4. /\ card' \in [Cards -> CardRecords]
        /\ card'[c].shows = "review" /\ card'[c].amount \in Amounts /\ card'[c].life = life
        /\ \A d \in Cards \ {c} : card'[d] = card[d]
    <3>1. [shows |-> "review", amount |-> run[r].net, life |-> life] \in CardRecords
      BY <2>3 DEF CardRecords, TypeOK
    <3>2. QED BY <2>1, <2>3, <3>1 DEF TypeOK
  <2>5. /\ run' \in [Runs -> RunRecords]
        /\ run'[r].net = run[r].net /\ run'[r].card = c
        /\ \A q \in Runs \ {r} : run'[q] = run[q]
    <3>1. run[r] \in RunRecords
      BY DEF TypeOK
    <3>2. [run[r] EXCEPT !.pc = "save", !.card = c] \in RunRecords
      BY <3>1 DEF RunRecords
    <3>3. run' = [run EXCEPT ![r] = [run[r] EXCEPT !.pc = "save", !.card = c]]
      BY <2>1, <3>1 DEF TypeOK, RunRecords
    <3>4. /\ [run[r] EXCEPT !.pc = "save", !.card = c].net = run[r].net
          /\ [run[r] EXCEPT !.pc = "save", !.card = c].card = c
      BY <3>1 DEF RunRecords
    <3>5. QED BY <3>2, <3>3, <3>4 DEF TypeOK
  <2>6. TypeOK'
    BY <2>2, <2>4, <2>5 DEF TypeOK
  <2>7. RunsAreCurrent'
    BY <2>1, <2>2, <2>3, <2>4, <2>5 DEF RunsAreCurrent
  <2>8. ButtonsHaveAmounts'
    BY <2>4 DEF ButtonsHaveAmounts
  <2>9. CardIsOfThisLife'
    BY <2>2, <2>4 DEF CardIsOfThisLife, TypeOK
  <2>10. QED BY <2>2, <2>6, <2>7, <2>8, <2>9 DEF ConfirmedIsBilled
<1>3. CASE SaveCardTs(r)
  <2>1. /\ run[r].pc = "save" /\ cardTs' = run[r].card
        /\ run' = [run EXCEPT ![r] = Idle]
        /\ UNCHANGED <<worth, blocked, enabled, state, net, inv, card, pressed, confirmed, life>>
    BY <1>3 DEF SaveCardTs
  <2>2. cardTs' \in Cards /\ card[cardTs'].life = life
    BY <2>1 DEF RunsAreCurrent
  <2>3. run' \in [Runs -> RunRecords] /\ RunsAreCurrent'
    BY <2>1, IdleFacts
  <2>4. TypeOK'
    BY <2>1, <2>2, <2>3 DEF TypeOK
  <2>5. QED BY <2>1, <2>2, <2>3, <2>4 DEF ButtonsHaveAmounts, CardIsOfThisLife, ConfirmedIsBilled
<1>4. CASE UpdateCard(r)
  <2>1. /\ run[r].pc = "draw" /\ run[r].card # NoCard
        /\ run' = [run EXCEPT ![r] = Idle]
        /\ UNCHANGED <<worth, blocked, enabled, state, net, cardTs, inv, pressed, confirmed, life>>
    BY <1>4 DEF UpdateCard, rowVars
  <2>2. run[r].card \in Cards /\ run[r].net \in Amounts
    BY <2>1 DEF TypeOK, RunRecords, RunsAreCurrent
  <2>3. \/ Draw(run[r].card, "review", run[r].net) \/ Draw(run[r].card, "blocked", NoAmount)
    BY <1>4 DEF UpdateCard, DrawReview, DrawBlocked
  <2>4. /\ card' \in [Cards -> CardRecords] /\ ButtonsHaveAmounts'
        /\ \A d \in Cards : card'[d].life = card[d].life
    BY <2>2, <2>3, DrawFacts
  <2>5. run' \in [Runs -> RunRecords] /\ RunsAreCurrent'
    BY <2>1, <2>4, IdleFacts
  <2>6. TypeOK'
    BY <2>1, <2>4, <2>5 DEF TypeOK
  <2>7. QED BY <2>1, <2>4, <2>5, <2>6 DEF CardIsOfThisLife, ConfirmedIsBilled, TypeOK
<1>5. CASE RunDies(r)
  <2>1. /\ run' = [run EXCEPT ![r] = Idle]
        /\ UNCHANGED <<worth, blocked, enabled, state, net, cardTs, inv, card, pressed,
                       confirmed, life>>
    BY <1>5 DEF RunDies, rowVars
  <2>2. run' \in [Runs -> RunRecords] /\ RunsAreCurrent'
    BY <2>1, IdleFacts
  <2>3. TypeOK'
    BY <2>1, <2>2 DEF TypeOK
  <2>4. QED BY <2>1, <2>2, <2>3 DEF ButtonsHaveAmounts, CardIsOfThisLife, ConfirmedIsBilled
<1>6. QED BY <1>1, <1>2, <1>3, <1>4, <1>5 DEF RunStep
\* A press and its execution.
LEMMA ButtonKeepsInv ==
  ASSUME IInv, \/ \E c \in Cards : Press(c)
               \/ \E p \in Presses : Close(p)
  PROVE  IInv'
<1> USE DEF IInv
<1>1. ASSUME NEW c \in Cards, Press(c) PROVE IInv'
  <2>1. /\ card[c].shows = "review"
        /\ pressed' = pressed \cup {[card |-> c, amount |-> card[c].amount]}
        /\ UNCHANGED <<worth, blocked, enabled, state, net, cardTs, inv, run, card, confirmed, life>>
    BY <1>1 DEF Press, rowVars
  <2>2. [card |-> c, amount |-> card[c].amount] \in Presses
    BY <2>1 DEF ButtonsHaveAmounts, Presses
  <2>3. TypeOK'
    BY <2>1, <2>2 DEF TypeOK
  <2>4. QED BY <2>1, <2>3 DEF RunsAreCurrent, ButtonsHaveAmounts, CardIsOfThisLife,
                              ConfirmedIsBilled
<1>2. ASSUME NEW p \in Presses, CloseAgain(p) PROVE IInv'
  <2>1. /\ cardTs \in Cards
        /\ Draw(cardTs, "closed", NoAmount)
        /\ UNCHANGED <<worth, blocked, enabled, state, net, cardTs, inv, run, pressed, confirmed, life>>
    BY <1>2 DEF CloseAgain, DrawClosed, rowVars, TypeOK
  <2>2. /\ card' \in [Cards -> CardRecords] /\ ButtonsHaveAmounts'
        /\ \A d \in Cards : card'[d].life = card[d].life
    BY <2>1, DrawFacts
  <2>3. TypeOK'
    BY <2>1, <2>2 DEF TypeOK
  <2>4. QED BY <2>1, <2>2, <2>3 DEF RunsAreCurrent, CardIsOfThisLife, ConfirmedIsBilled
<1>3. ASSUME NEW p \in Presses,
             CloseBlocked(p) \/ CloseAmountChanged(p) \/ CloseLocks(p)
      PROVE  IInv'
  <2>1. state = "REVIEWING" /\ cardTs \in Cards /\ p.amount \in Amounts
    BY <1>3, AnswerableFacts DEF CloseBlocked, CloseAmountChanged, CloseLocks
  <2>2. /\ \/ Draw(cardTs, "blocked", NoAmount)
           \/ Draw(cardTs, "review", worth)
           \/ Draw(cardTs, "closed", NoAmount)
        /\ net' = worth
        /\ \/ state' \in Open /\ UNCHANGED <<inv, confirmed>>
           \/ /\ state' = "LOCKED" /\ inv' \in {"PENDING", "MANUAL"}
              /\ confirmed' = p.amount /\ p.amount = worth
        /\ UNCHANGED <<worth, blocked, enabled, cardTs, run, pressed, life>>
    BY <1>3, <2>1 DEF CloseBlocked, CloseAmountChanged, CloseLocks, DrawReview, DrawBlocked,
                      DrawClosed, Open
  <2>3. worth \in Amounts
    BY DEF TypeOK
  <2>4. /\ card' \in [Cards -> CardRecords] /\ ButtonsHaveAmounts'
        /\ \A d \in Cards : card'[d].life = card[d].life
    BY <2>1, <2>2, <2>3, DrawFacts
  <2>5. TypeOK'
    <3>1. net' \in Amounts /\ net' # NoAmount
      BY <2>2, <2>3, MonthCloseAssumption
    <3>2. state' \in Open \cup Frozen /\ state' # "none"
      BY <2>2 DEF Open, Frozen
    <3>3. QED BY <2>1, <2>2, <2>4, <3>1, <3>2 DEF TypeOK
  <2>6. ConfirmedIsBilled'
    BY <2>2 DEF ConfirmedIsBilled, Open, Frozen
  <2>7. QED BY <2>1, <2>2, <2>4, <2>5, <2>6 DEF RunsAreCurrent, CardIsOfThisLife
<1>4. QED BY <1>1, <1>2, <1>3 DEF Close

LEMMA StutterKeepsInv == IInv /\ UNCHANGED vars => IInv'
BY DEF vars, rowVars, IInv, TypeOK, RunsAreCurrent, ButtonsHaveAmounts, CardIsOfThisLife,
       ConfirmedIsBilled

LEMMA NextKeepsInv == IInv /\ [Next]_vars => IInv'
BY OutsideStep, RunKeepsInv, ButtonKeepsInv, StutterKeepsInv DEF Next

LEMMA Invariance == Spec => []IInv
BY InitInv, NextKeepsInv, PTL DEF Spec

-----------------------------------------------------------------------------
(* The theorems.                                                           *)

\* Every variable keeps its type.
THEOREM TypeCorrect == Spec => []TypeOK
BY Invariance, PTL DEF IInv

\* A closed month carries the amount on the button that closed it.
THEOREM ClosedIsConfirmed == Spec => []ConfirmedIsBilled
BY Invariance, PTL DEF IInv

\* Only an accepted press closes a month.
LEMMA ClosingStep ==
  ASSUME TypeOK, Next, state \notin Frozen, state' \in Frozen
  PROVE  \E p \in Presses : CloseLocks(p)
<1>1. \A w \in Amounts, b \in BOOLEAN : ~RecordChanges(w, b) /\ ~SheetsChange(w, b)
  BY DEF RecordChanges, SheetsChange, rowVars, TypeOK, Frozen
<1>2. ~SetEnabled /\ ~MoveOn /\ ~Reopen
  BY DEF SetEnabled, MoveOn, Reopen, rowVars
<1>3. \A r \in Runs : ~RunStep(r)
  BY DEF RunStep, Evaluate, PostCard, SaveCardTs, UpdateCard, RunDies, rowVars, Frozen
<1>4. \A c \in Cards : ~Press(c)
  BY DEF Press, rowVars
<1>5. \A p \in Presses : ~CloseAgain(p) /\ ~CloseBlocked(p) /\ ~CloseAmountChanged(p)
  BY DEF CloseAgain, CloseBlocked, CloseAmountChanged, rowVars, Frozen
<1>6. QED BY <1>1, <1>2, <1>3, <1>4, <1>5 DEF Next, Close

\* A press from before a reopening does not close the month.
THEOREM PressesAreCurrent == Spec => PressIsOfThisLife
<1>1. IInv /\ [Next]_vars
      => [state \notin Frozen /\ state' \in Frozen
            => cardTs # NoCard /\ card[cardTs].life = life]_vars
  <2> SUFFICES ASSUME IInv, Next, state \notin Frozen, state' \in Frozen
               PROVE  cardTs # NoCard /\ card[cardTs].life = life
    OBVIOUS
  <2>1. PICK p \in Presses : CloseLocks(p)
    BY ClosingStep DEF IInv
  <2>2. cardTs \in Cards
    BY <2>1, AnswerableFacts DEF CloseLocks, IInv
  <2>3. QED BY <2>2, NoCardIsNone DEF IInv, CardIsOfThisLife
<1>2. QED BY <1>1, Invariance, PTL DEF Spec, PressIsOfThisLife

\* MonthClose implements BillLifecycle.
LEMMA InitIsLifecycle == Init => Lifecycle!Init
BY DEF Init, Lifecycle!Init

LEMMA StepIsLifecycle ==
  ASSUME IInv, [Next]_vars
  PROVE  [Lifecycle!Next]_(Lifecycle!billVars)
<1> USE DEF IInv
<1> SUFFICES ASSUME Next
             PROVE  Lifecycle!Next \/ UNCHANGED <<state, net, confirmed>>
  BY DEF vars, rowVars, Lifecycle!billVars
<1>1. ASSUME NEW w \in Amounts, NEW b \in BOOLEAN, RecordChanges(w, b) \/ SheetsChange(w, b)
      PROVE  Lifecycle!Recompute \/ UNCHANGED <<state, net, confirmed>>
  BY <1>1 DEF RecordChanges, SheetsChange, rowVars, TypeOK, Open, Frozen,
              Lifecycle!Recompute, Lifecycle!Open, Lifecycle!Frozen
<1>2. CASE MoveOn
  <2>1. <<state, state'>> \in Lifecycle!Forward
    BY <1>2 DEF MoveOn, Frozen, Successors, Lifecycle!Forward
  <2>2. QED BY <1>2, <2>1 DEF MoveOn, Lifecycle!Advance, Lifecycle!Next
<1>3. CASE Reopen
  BY <1>3 DEF Reopen, Frozen, Lifecycle!Reopen, Lifecycle!Frozen, Lifecycle!Next
<1>4. ASSUME NEW r \in Runs, RunStep(r)
      PROVE  Lifecycle!Recompute \/ UNCHANGED <<state, net, confirmed>>
  <2>1. CASE Evaluate(r)
    BY <2>1 DEF Evaluate, TypeOK, Frozen, Lifecycle!Recompute, Lifecycle!Open, Lifecycle!Frozen
  <2>2. CASE PostCard(r) \/ SaveCardTs(r) \/ UpdateCard(r) \/ RunDies(r)
    BY <2>2 DEF PostCard, SaveCardTs, UpdateCard, RunDies, rowVars
  <2>3. QED BY <1>4, <2>1, <2>2 DEF RunStep
<1>5. ASSUME NEW p \in Presses, Close(p)
      PROVE  Lifecycle!Recompute \/ Lifecycle!Confirm \/ UNCHANGED <<state, net, confirmed>>
  <2>1. CASE CloseAgain(p)
    BY <2>1 DEF CloseAgain, rowVars
  <2>2. CASE CloseBlocked(p) \/ CloseAmountChanged(p)
    BY <2>2 DEF CloseBlocked, CloseAmountChanged, Answerable, TypeOK,
                Lifecycle!Recompute, Lifecycle!Open, Lifecycle!Frozen
  <2>3. CASE CloseLocks(p)
    BY <2>3 DEF CloseLocks, Answerable, TypeOK, Lifecycle!Confirm
  <2>4. QED BY <1>5, <2>1, <2>2, <2>3 DEF Close
<1>6. CASE SetEnabled \/ \E c \in Cards : Press(c)
  BY <1>6 DEF SetEnabled, Press, rowVars
<1>7. QED BY <1>1, <1>2, <1>3, <1>4, <1>5, <1>6 DEF Next, Lifecycle!Next

THEOREM MonthCloseKeepsLifecycle == Spec => KeepsLifecycle
<1>1. IInv /\ [Next]_vars => [Lifecycle!Next]_(Lifecycle!billVars)
  BY StepIsLifecycle
<1>2. QED BY <1>1, InitIsLifecycle, Invariance, PTL DEF Spec, KeepsLifecycle, Lifecycle!Spec
=============================================================================
