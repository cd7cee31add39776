---------------------------- MODULE InvoiceProofs ----------------------------
(***************************************************************************)
(* Proofs about Invoice for every number of executions, every set of       *)
(* amounts and every bound.                                                *)
(***************************************************************************)
EXTENDS Invoice, TLAPS

(* The strengthening.                                                      *)

\* Between taking the lease and giving it back.
Working(r) ==
  run[r].pc \in {"search", "post", "record", "compare", "compareNew", "release"}

\* What a run that works may rely on, though it holds no lock while it calls MF.
HoldsLease(r)  == Working(r) => lease = r /\ state # "REVIEWING" /\ run[r].amount = amount
SearchIsDue(r) == run[r].pc = "search" /\ run[r].inv = "PENDING" => inv = "PENDING" /\ id = NoId
PostIsDue(r) ==
  run[r].pc = "post" => inv = "PENDING" /\ id = NoId /\ made + underway <= unrecorded
AnswerIsKnown(r) == run[r].pc = "record" => run[r].answer # "none"
AnswerHasId(r) == run[r].pc = "record" /\ run[r].answer = "id" => run[r].id # NoId
ComparesRow(r) ==
  run[r].pc \in {"compare", "compareNew"} =>
    run[r].id # NoId /\ (state = "LOCKED" => run[r].id = id)
RunOK(r) == HoldsLease(r) /\ SearchIsDue(r) /\ PostIsDue(r) /\ AnswerIsKnown(r)
            /\ AnswerHasId(r) /\ ComparesRow(r)

\* The row and MF.  A month that is due and has nobody between the POST and the row has
\* been paid for: all that was ever created for it is the doing of executions that died there
\* or wrote in vain.
BeforeClose == state = "REVIEWING" => inv = "" /\ id = NoId /\ made = 0 /\ underway = 0
AfterClose  == state # "REVIEWING" => inv # "" /\ confirmed = amount
CreatedIsPast == inv = "CREATED" => state # "LOCKED"
DueIsFree ==
  state = "LOCKED" /\ inv = "PENDING" /\ id = NoId /\ (\A r \in Runs : ~InTheGap(r))
    => made + underway <= unrecorded
Bounded == made + underway <= MaxInvoices
RowOK == BeforeClose /\ AfterClose /\ CreatedIsPast /\ DueIsFree /\ Bounded

IInv == /\ TypeOK /\ RowOK /\ \A r \in Runs : RunOK(r)
        /\ OnlyUnrecordedRepeat /\ CreatedIsConfirmed

-----------------------------------------------------------------------------
(* What the helpers of the actions do.                                     *)

LEMMA Constants ==
  /\ MaxInvoices \in Nat /\ MaxUnrecorded \in Nat /\ NoId = 0 /\ Ids = 1..MaxInvoices
  /\ NoAmount \notin Amounts /\ Free \notin Runs /\ Orphan \notin Runs /\ Free # Orphan
BY InvoiceAssumption DEF NoId, Ids

LEMMA PartsAreBounded ==
  ASSUME NEW m \in Nat, NEW n \in Nat, NEW bound \in Nat, m + n <= bound
  PROVE  m \in 0..bound /\ n \in 0..bound
OBVIOUS

\* What bounds a sum bounds a smaller one.
LEMMA SumsStayBounded ==
  ASSUME NEW m \in Nat, NEW n \in Nat, NEW m1 \in Nat, NEW n1 \in Nat, NEW bound \in Nat,
         m1 + n1 <= m + n, m + n <= bound
  PROVE  m1 + n1 <= bound
OBVIOUS

LEMMA SumOfNothing ==
  ASSUME NEW m, NEW n, m = 0, n = 0, NEW bound \in Nat
  PROVE  m + n <= bound /\ m + n <= 1 + bound
OBVIOUS

\* A record of a run stays one when MF has made another invoice.
LEMMA RecordsGrow ==
  ASSUME NEW n \in Nat
  PROVE  RunRecords(n) \subseteq RunRecords(n + 1)
<1>1. 0..n \subseteq 0..(n + 1)
  OBVIOUS
<1>2. QED BY <1>1 DEF RunRecords

\* The fields of a run.
LEMMA RunFields ==
  ASSUME TypeOK, NEW r \in Runs
  PROVE  /\ run[r] \in RunRecords(made)
         /\ run[r].pc \in Phases /\ run[r].inv \in InvoiceStates /\ run[r].id \in 0..made
         /\ run[r].amount \in Amounts \cup {NoAmount} /\ run[r].answer \in Answers
         /\ run[r].sent \in BOOLEAN /\ run[r].paid \in BOOLEAN
BY DEF TypeOK, RunRecords

LEMMA CountersAreNat ==
  ASSUME TypeOK
  PROVE  made \in Nat /\ underway \in Nat /\ unrecorded \in Nat
<1>1. made \in 0..MaxInvoices /\ underway \in 0..MaxInvoices /\ unrecorded \in 0..MaxUnrecorded
  BY DEF TypeOK
<1>2. QED BY <1>1, Constants

\* A run that goes on keeps what it knows.
LEMMA GotoFacts ==
  ASSUME TypeOK, NEW r \in Runs, NEW pc \in Phases, Goto(r, pc)
  PROVE  /\ run' \in [Runs -> RunRecords(made)]
         /\ run'[r].pc = pc /\ run'[r].inv = run[r].inv /\ run'[r].id = run[r].id
         /\ run'[r].amount = run[r].amount /\ run'[r].answer = run[r].answer
         /\ \A q \in Runs \ {r} : run'[q] = run[q]
<1>1. run \in [Runs -> RunRecords(made)] /\ run[r] \in RunRecords(made)
  BY DEF TypeOK
<1> DEFINE next == [run[r] EXCEPT !.pc = pc]
<1>2. /\ next \in RunRecords(made)
      /\ next.pc = pc /\ next.inv = run[r].inv /\ next.id = run[r].id
      /\ next.amount = run[r].amount /\ next.answer = run[r].answer
  BY <1>1 DEF RunRecords
<1>3. run' = [run EXCEPT ![r] = next]
  BY DEF Goto
<1> HIDE DEF next
<1>4. /\ run' \in [Runs -> RunRecords(made)] /\ run'[r] = next
      /\ \A q \in Runs \ {r} : run'[q] = run[q]
  BY <1>1, <1>2, <1>3
<1>5. QED BY <1>2, <1>4

LEMMA IdleFacts ==
  ASSUME NEW n \in Nat
  PROVE  /\ Idle \in RunRecords(n) /\ [Idle EXCEPT !.pc = "track"] \in RunRecords(n)
         /\ Idle.pc = "idle" /\ [Idle EXCEPT !.pc = "track"].pc = "track"
<1>1. NoId \in 0..n
  BY DEF NoId
<1>2. Idle \in RunRecords(n) /\ Idle.pc = "idle"
  BY <1>1 DEF Idle, RunRecords, Phases, InvoiceStates, Answers
<1>4. [Idle EXCEPT !.pc = "track"] \in RunRecords(n) /\ [Idle EXCEPT !.pc = "track"].pc = "track"
  BY <1>2 DEF RunRecords, Phases
<1>5. QED BY <1>2, <1>4

\* While one run holds the lease, no other works: whatever is written, they are fine.
LEMMA OthersRest ==
  ASSUME IInv, NEW r \in Runs, Working(r),
         \A q \in Runs \ {r} : run'[q] = run[q]
  PROVE  \A q \in Runs \ {r} : ~InTheGap(q) /\ ~InTheGap(q)' /\ RunOK(q)'
<1> SUFFICES ASSUME NEW q \in Runs \ {r}
             PROVE  ~InTheGap(q) /\ ~InTheGap(q)' /\ RunOK(q)'
  OBVIOUS
<1>1. ~Working(q)
  BY DEF IInv, RunOK, HoldsLease
<1>2. run'[q].pc = run[q].pc /\ run[q].pc \notin {"search", "post", "record", "compare", "compareNew", "release"}
  BY <1>1 DEF Working
<1>3. ~InTheGap(q) /\ ~InTheGap(q)'
  BY <1>2 DEF InTheGap
<1>4. RunOK(q)'
  BY <1>2 DEF RunOK, HoldsLease, Working, SearchIsDue, PostIsDue, AnswerIsKnown, AnswerHasId, ComparesRow
<1>5. QED BY <1>3, <1>4

\* The row of a closed month, for a run that works.
LEMMA WorkingFacts ==
  ASSUME IInv, NEW r \in Runs, Working(r)
  PROVE  /\ lease = r /\ state # "REVIEWING" /\ run[r].amount = amount
         /\ inv # "" /\ confirmed = amount /\ confirmed # NoAmount /\ amount \in Amounts
<1>1. lease = r /\ state # "REVIEWING" /\ run[r].amount = amount
  BY DEF IInv, RunOK, HoldsLease
<1>2. inv # "" /\ confirmed = amount
  BY <1>1 DEF IInv, RowOK, AfterClose
<1>3. amount \in Amounts
  BY DEF IInv, TypeOK
<1>4. QED BY <1>1, <1>2, <1>3, Constants

-----------------------------------------------------------------------------
(* Steps of the run that holds the lease.                                  *)

\* It goes on to give the lease back, having written one of the things a run writes.
LEMMA HolderReleases ==
  ASSUME IInv, NEW r \in Runs, Working(r), Goto(r, "release"),
         UNCHANGED <<enabled, amount, lease, mfVars, history>>, noticed' \in BOOLEAN,
         \/ /\ UNCHANGED <<state, inv, id>> /\ (state = "LOCKED" => ~InTheGap(r))
         \/ state' = state /\ inv' \in {"ERROR", "UNKNOWN"} /\ id' = id
         \/ /\ state' = "MF_CREATED" /\ inv' \in {"CREATED", "MISMATCH"} /\ id' = id
            /\ inv' = "CREATED" => id # NoId /\ price[id] = confirmed
  PROVE  IInv'
<1> USE DEF IInv
<1>1. /\ run' \in [Runs -> RunRecords(made)] /\ run'[r].pc = "release"
      /\ run'[r].amount = run[r].amount /\ \A q \in Runs \ {r} : run'[q] = run[q]
  BY GotoFacts DEF Phases
<1>2. \A q \in Runs \ {r} : ~InTheGap(q) /\ ~InTheGap(q)' /\ RunOK(q)'
  BY <1>1, OthersRest
<1>3. /\ lease = r /\ state # "REVIEWING" /\ run[r].amount = amount
      /\ inv # "" /\ confirmed = amount /\ confirmed # NoAmount
  BY WorkingFacts
<1>4. /\ UNCHANGED <<enabled, amount, lease, made, price, underway, indexed, sent, paid, confirmed, unrecorded>>
      /\ id' = id
  BY DEF mfVars, history
<1>5. state' # "REVIEWING" /\ inv' # "" /\ state' \in States /\ inv' \in InvoiceStates
  BY <1>3 DEF TypeOK, States, InvoiceStates
<1>6. TypeOK'
  BY <1>1, <1>3, <1>4, <1>5 DEF TypeOK
<1>7. RunOK(r)'
  BY <1>1, <1>3, <1>4, <1>5 DEF RunOK, HoldsLease, SearchIsDue, PostIsDue, AnswerIsKnown, AnswerHasId, ComparesRow
<1>8. ~InTheGap(r)'
  BY <1>1 DEF InTheGap
<1>9. RowOK'
  <2>1. BeforeClose' /\ AfterClose' /\ Bounded' /\ CreatedIsPast'
    BY <1>3, <1>4, <1>5 DEF RowOK, BeforeClose, AfterClose, Bounded, CreatedIsPast
  <2>2. DueIsFree'
    <3> SUFFICES ASSUME state' = "LOCKED", inv' = "PENDING", id' = NoId
                 PROVE  made' + underway' <= unrecorded'
      BY DEF DueIsFree
    <3>1. state = "LOCKED" /\ inv = "PENDING" /\ id = NoId /\ ~InTheGap(r)
      BY <1>4
    <3>2. \A q \in Runs : ~InTheGap(q)
      BY <1>2, <3>1
    <3>3. QED BY <1>4, <3>1, <3>2 DEF RowOK, DueIsFree
  <2>3. QED BY <2>1, <2>2 DEF RowOK
<1>10. OnlyUnrecordedRepeat' /\ CreatedIsConfirmed'
  BY <1>4 DEF OnlyUnrecordedRepeat, CreatedIsConfirmed
<1>11. QED BY <1>2, <1>6, <1>7, <1>9, <1>10

LEMMA SearchKeepsInv ==
  ASSUME IInv, NEW r \in Runs,
         SearchFindsMany(r) \/ SearchLeavesUnknown(r) \/ BuildFails(r) \/ CallFails(r)
           \/ CompareRefused(r) \/ Compare(r)
  PROVE  IInv'
<1> USE DEF IInv
<1>1. Working(r) /\ Goto(r, "release") /\ ~InTheGap(r)
  BY DEF SearchFindsMany, SearchLeavesUnknown, BuildFails, CallFails, CompareRefused, Compare,
         Working, InTheGap
<1>2. UNCHANGED <<enabled, amount, lease, mfVars, history>> /\ noticed' \in BOOLEAN
  BY DEF SearchFindsMany, SearchLeavesUnknown, BuildFails, CallFails, CompareRefused, Compare,
         rowVars, TypeOK
<1>3. CASE SearchFindsMany(r) \/ BuildFails(r) \/ CompareRefused(r)
  <2>1. \/ UNCHANGED <<state, inv, id>>
        \/ state' = state /\ inv' = "ERROR" /\ id' = id
    BY <1>3 DEF SearchFindsMany, BuildFails, CompareRefused, IfLocked
  <2>2. QED BY <1>1, <1>2, <2>1, HolderReleases
<1>4. CASE SearchLeavesUnknown(r) \/ CallFails(r)
  <2>1. UNCHANGED <<state, inv, id>>
    BY <1>4 DEF SearchLeavesUnknown, CallFails, rowVars
  <2>2. QED BY <1>1, <1>2, <2>1, HolderReleases
<1>5. CASE Compare(r)
  <2>1. CASE state # "LOCKED"
    <3>1. UNCHANGED <<state, inv, id>>
      BY <1>5, <2>1 DEF Compare, IfLocked
    <3>2. QED BY <1>1, <1>2, <3>1, HolderReleases
  <2>2. CASE state = "LOCKED"
    <3>1. state' = "MF_CREATED" /\ inv' = Verdict(r) /\ id' = id
      BY <1>5, <2>2 DEF Compare, IfLocked
    <3>2. run[r].id = id /\ id # NoId
      BY <1>5, <2>2 DEF Compare, RunOK, ComparesRow
    <3>3. run[r].amount = confirmed
      BY <1>1, WorkingFacts
    <3>4. /\ inv' \in {"CREATED", "MISMATCH"}
          /\ inv' = "CREATED" => id # NoId /\ price[id] = confirmed
      BY <3>1, <3>2, <3>3 DEF Verdict
    <3>5. QED BY <1>1, <1>2, <3>1, <3>4, HolderReleases
  <2>3. QED BY <2>1, <2>2
<1>6. QED BY <1>3, <1>4, <1>5

\* The one invoice found is entered in the row and compared next.
LEMMA FindingKeepsInv ==
  ASSUME IInv, NEW r \in Runs, SearchFindsOne(r)
  PROVE  IInv'
<1> USE DEF IInv
<1>1. PICK i \in indexed :
        /\ IfLocked("LOCKED", inv, i)
        /\ run' = [run EXCEPT ![r] = [@ EXCEPT !.pc = "compare", !.id = i]]
  BY DEF SearchFindsOne
<1>2. /\ Working(r) /\ run[r].pc = "search"
      /\ UNCHANGED <<enabled, amount, noticed, lease, made, price, underway, indexed, sent, paid,
                     confirmed, unrecorded>>
  BY DEF SearchFindsOne, Working, mfVars, history
<1>3. i \in 0..made /\ i # NoId /\ made \in Nat
  <2>1. made \in 0..MaxInvoices /\ indexed \subseteq 1..made
    BY DEF TypeOK
  <2>2. i \in 1..made
    BY <1>1, <2>1
  <2>3. QED BY <2>1, <2>2, Constants
<1>4. /\ run' \in [Runs -> RunRecords(made)] /\ run'[r].pc = "compare" /\ run'[r].id = i
      /\ run'[r].amount = run[r].amount /\ \A q \in Runs \ {r} : run'[q] = run[q]
  <2>1. run \in [Runs -> RunRecords(made)] /\ run[r] \in RunRecords(made)
    BY DEF TypeOK
  <2> DEFINE next == [run[r] EXCEPT !.pc = "compare", !.id = i]
  <2>2. /\ next \in RunRecords(made)
        /\ next.pc = "compare" /\ next.id = i /\ next.amount = run[r].amount
    BY <1>3, <2>1 DEF RunRecords, Phases
  <2>3. run' = [run EXCEPT ![r] = next]
    BY <1>1
  <2> HIDE DEF next
  <2>4. QED BY <2>1, <2>2, <2>3
<1>5. \A q \in Runs \ {r} : ~InTheGap(q) /\ ~InTheGap(q)' /\ RunOK(q)'
  BY <1>2, <1>4, OthersRest
<1>6. /\ lease = r /\ state # "REVIEWING" /\ run[r].amount = amount
      /\ inv # "" /\ confirmed = amount /\ confirmed # NoAmount
  BY <1>2, WorkingFacts
<1>7. state' = state /\ inv' = inv /\ (state = "LOCKED" => id' = i) /\ id' \in {id, i}
  BY <1>1 DEF IfLocked
<1>8. TypeOK'
  BY <1>2, <1>3, <1>4, <1>7 DEF TypeOK
<1>9. RunOK(r)'
  BY <1>2, <1>3, <1>4, <1>6, <1>7
     DEF RunOK, HoldsLease, SearchIsDue, PostIsDue, AnswerIsKnown, AnswerHasId, ComparesRow
<1>10. RowOK'
  BY <1>2, <1>3, <1>6, <1>7 DEF RowOK, BeforeClose, AfterClose, Bounded, CreatedIsPast, DueIsFree
<1>11. OnlyUnrecordedRepeat'
  BY <1>2 DEF OnlyUnrecordedRepeat
<1>12. CreatedIsConfirmed'
  <2>1. CASE state = "LOCKED"
    BY <1>7, <2>1 DEF CreatedIsConfirmed, RowOK, CreatedIsPast
  <2>2. CASE state # "LOCKED"
    BY <1>1, <1>2, <2>2 DEF CreatedIsConfirmed, IfLocked
  <2>3. QED BY <2>1, <2>2
<1>13. QED BY <1>5, <1>8, <1>9, <1>10, <1>11, <1>12

\* A month that is due is attempted.
LEMMA AttemptKeepsInv ==
  ASSUME IInv, NEW r \in Runs, Attempt(r)
  PROVE  IInv'
<1> USE DEF IInv
<1>1. /\ Working(r) /\ run[r].pc = "search" /\ run[r].inv = "PENDING" /\ ~InTheGap(r)
      /\ UNCHANGED <<enabled, state, amount, inv, id, noticed, lease, mfVars, history>>
  BY DEF Attempt, Working, InTheGap, rowVars
<1>2. CASE state # "LOCKED"
  <2>1. Goto(r, "release")
    BY <1>2 DEF Attempt
  <2>2. noticed' \in BOOLEAN
    BY <1>1 DEF TypeOK
  <2>3. QED BY <1>1, <2>1, <2>2, HolderReleases
<1>3. CASE state = "LOCKED"
  <2>1. Goto(r, "post")
    BY <1>3 DEF Attempt
  <2>2. /\ run' \in [Runs -> RunRecords(made)] /\ run'[r].pc = "post"
        /\ run'[r].amount = run[r].amount /\ \A q \in Runs \ {r} : run'[q] = run[q]
    BY <2>1, GotoFacts DEF Phases
  <2>3. \A q \in Runs \ {r} : ~InTheGap(q) /\ ~InTheGap(q)' /\ RunOK(q)'
    BY <1>1, <2>2, OthersRest
  <2>4. /\ lease = r /\ state # "REVIEWING" /\ run[r].amount = amount
    BY <1>1, WorkingFacts
  <2>5. UNCHANGED <<enabled, state, amount, inv, id, noticed, lease, made, price, underway,
                    indexed, sent, paid, confirmed, unrecorded>>
    BY <1>1 DEF mfVars, history
  <2>6. inv = "PENDING" /\ id = NoId /\ made + underway <= unrecorded
    <3>1. inv = "PENDING" /\ id = NoId
      BY <1>1 DEF RunOK, SearchIsDue
    <3>2. \A q \in Runs : ~InTheGap(q)
      BY <1>1, <2>3
    <3>3. QED BY <1>3, <3>1, <3>2 DEF RowOK, DueIsFree
  <2>7. TypeOK'
    BY <2>2, <2>5 DEF TypeOK
  <2>8. RunOK(r)'
    BY <2>2, <2>4, <2>5, <2>6 DEF RunOK, HoldsLease, SearchIsDue, PostIsDue, AnswerIsKnown, AnswerHasId, ComparesRow
  <2>9. RowOK' /\ OnlyUnrecordedRepeat' /\ CreatedIsConfirmed'
    BY <2>5, <2>6 DEF RowOK, BeforeClose, AfterClose, Bounded, CreatedIsPast, DueIsFree,
                      OnlyUnrecordedRepeat, CreatedIsConfirmed
  <2>10. QED BY <2>3, <2>7, <2>8, <2>9
<1>4. QED BY <1>2, <1>3

\* What a run knows once its POST has been answered.
LEMMA AnsweredFacts ==
  ASSUME TypeOK, NEW r \in Runs, NEW n \in Nat, run \in [Runs -> RunRecords(n)],
         NEW answer \in Answers, NEW i \in 0..n,
         run' = [run EXCEPT ![r] = [@ EXCEPT !.pc = "record", !.answer = answer, !.id = i]]
  PROVE  /\ run' \in [Runs -> RunRecords(n)]
         /\ run'[r].pc = "record" /\ run'[r].answer = answer /\ run'[r].id = i
         /\ run'[r].amount = run[r].amount
         /\ \A q \in Runs \ {r} : run'[q] = run[q]
<1> DEFINE next == [run[r] EXCEPT !.pc = "record", !.answer = answer, !.id = i]
<1>1. /\ next \in RunRecords(n) /\ next.pc = "record" /\ next.answer = answer /\ next.id = i
      /\ next.amount = run[r].amount
  BY DEF RunRecords, Phases
<1>2. run' = [run EXCEPT ![r] = next]
  OBVIOUS
<1> HIDE DEF next
<1>3. QED BY <1>1, <1>2

\* POST, whatever becomes of it: at most one more than was paid for.
LEMMA PostKeepsInv ==
  ASSUME IInv, NEW r \in Runs, PostCreates(r) \/ PostRefused(r) \/ PostGivenUp(r)
  PROVE  IInv'
<1> USE DEF IInv
<1>1. /\ Working(r) /\ run[r].pc = "post"
      /\ UNCHANGED <<enabled, state, amount, inv, id, noticed, lease, indexed, sent, paid,
                     confirmed, unrecorded>>
  BY DEF PostCreates, PostRefused, PostGivenUp, Working, rowVars, mfVars, history
<1>2. inv = "PENDING" /\ id = NoId /\ made + underway <= unrecorded
  BY <1>1 DEF RunOK, PostIsDue
<1>3. /\ made \in Nat /\ underway \in Nat /\ unrecorded \in Nat /\ MaxInvoices \in Nat
      /\ made + underway <= MaxInvoices /\ price \in [Ids -> Amounts \cup {NoAmount}]
      /\ run \in [Runs -> RunRecords(made)] /\ run[r].id \in 0..made
  <2>1. made \in Nat /\ underway \in Nat /\ unrecorded \in Nat /\ MaxInvoices \in Nat
    <3>1. made \in 0..MaxInvoices /\ underway \in 0..MaxInvoices /\ unrecorded \in 0..MaxUnrecorded
      BY DEF TypeOK
    <3>2. QED BY <3>1, Constants
  <2>2. made + underway <= MaxInvoices
    BY DEF RowOK, Bounded
  <2>3. /\ price \in [Ids -> Amounts \cup {NoAmount}]
        /\ run \in [Runs -> RunRecords(made)] /\ run[r].id \in 0..made
    BY RunFields DEF TypeOK
  <2>4. QED BY <2>1, <2>2, <2>3
<1>4. /\ lease = r /\ state # "REVIEWING" /\ run[r].amount = amount
      /\ inv # "" /\ confirmed = amount /\ confirmed # NoAmount
  BY <1>1, WorkingFacts
<1> DEFINE
  Outcome(m, u, answer) ==
    /\ made' = m /\ underway' = u /\ price' \in [Ids -> Amounts \cup {NoAmount}]
    /\ m + u <= MaxInvoices
    /\ run' \in [Runs -> RunRecords(m)]
    /\ run'[r].pc = "record" /\ run'[r].answer = answer
    /\ answer = "id" => run'[r].id # NoId
    /\ run'[r].amount = run[r].amount
    /\ \A q \in Runs \ {r} : run'[q] = run[q]
<1>5. \/ Outcome(made + 1, underway, "id") \/ Outcome(made + 1, underway, "noId")
      \/ Outcome(made + 1, underway, "unknown")
      \/ Outcome(made, underway + 1, "unknown")
      \/ Outcome(made, underway, "refused") \/ Outcome(made, underway, "limited")
  <2>1. CASE PostCreates(r)
    <3>1. PICK answer \in {"id", "noId", "unknown"} :
            run' = [run EXCEPT ![r] = [@ EXCEPT !.pc = "record", !.answer = answer,
                                       !.id = IF answer = "id" THEN made + 1 ELSE NoId]]
      BY <2>1 DEF PostCreates
    <3>2. PICK a \in Amounts : price' = [price EXCEPT ![made + 1] = a]
      BY <2>1 DEF PostCreates
    <3>3. made' = made + 1 /\ underway' = underway /\ made + underway < MaxInvoices
      BY <2>1 DEF PostCreates
    <3>4. made + 1 \in Ids /\ made + 1 # NoId /\ made + 1 \in Nat /\ made + 1 + underway <= MaxInvoices
      BY <1>3, <3>3, Constants
    <3>5. price' \in [Ids -> Amounts \cup {NoAmount}]
      BY <1>3, <3>2, <3>4
    <3>6. run \in [Runs -> RunRecords(made + 1)]
      BY <1>3, RecordsGrow
    <3> DEFINE i == IF answer = "id" THEN made + 1 ELSE NoId
    <3>7. i \in 0..(made + 1) /\ (answer = "id" => i # NoId) /\ answer \in Answers
      BY <1>3, <3>4, Constants DEF Answers
    <3>8. run' = [run EXCEPT ![r] = [@ EXCEPT !.pc = "record", !.answer = answer, !.id = i]]
      BY <3>1
    <3> HIDE DEF i
    <3>9. /\ run' \in [Runs -> RunRecords(made + 1)]
          /\ run'[r].pc = "record" /\ run'[r].answer = answer /\ run'[r].id = i
          /\ run'[r].amount = run[r].amount
          /\ \A q \in Runs \ {r} : run'[q] = run[q]
      BY <3>4, <3>6, <3>7, <3>8, AnsweredFacts
    <3>10. Outcome(made + 1, underway, answer)
      BY <3>3, <3>4, <3>5, <3>7, <3>9
    <3>11. QED BY <3>10
  <2>2. CASE PostRefused(r)
    <3>1. PICK answer \in {"refused", "limited"} :
            run' = [run EXCEPT ![r] = [@ EXCEPT !.pc = "record", !.answer = answer]]
      BY <2>2 DEF PostRefused
    <3>2. run' = [run EXCEPT ![r] = [@ EXCEPT !.pc = "record", !.answer = answer, !.id = run[r].id]]
      BY <1>3, <3>1 DEF RunRecords
    <3>3. UNCHANGED <<made, price, underway>>
      BY <2>2 DEF PostRefused, mfVars
    <3>4. Outcome(made, underway, answer)
      BY <1>3, <3>2, <3>3, AnsweredFacts DEF Answers
    <3>5. QED BY <3>4
  <2>3. CASE PostGivenUp(r)
    <3>1. /\ run' = [run EXCEPT ![r] = [@ EXCEPT !.pc = "record", !.answer = "unknown"]]
          /\ underway' = underway + 1 /\ UNCHANGED <<made, price>> /\ made + underway < MaxInvoices
      BY <2>3 DEF PostGivenUp
    <3>2. run' = [run EXCEPT ![r] = [@ EXCEPT !.pc = "record", !.answer = "unknown", !.id = run[r].id]]
      BY <1>3, <3>1 DEF RunRecords
    <3>3. made + (underway + 1) <= MaxInvoices
      BY <1>3, <3>1
    <3>4. Outcome(made, underway + 1, "unknown")
      BY <1>3, <3>1, <3>2, <3>3, AnsweredFacts DEF Answers
    <3>5. QED BY <3>4
  <2>4. QED BY <2>1, <2>2, <2>3
<1>6. /\ run' \in [Runs -> RunRecords(made')] /\ run'[r].pc = "record"
      /\ run'[r].amount = run[r].amount /\ (run'[r].answer = "id" => run'[r].id # NoId)
      /\ run'[r].answer # "none"
      /\ \A q \in Runs \ {r} : run'[q] = run[q]
      /\ made' \in Nat /\ underway' \in Nat /\ made' >= made /\ made' + underway' <= MaxInvoices
      /\ price' \in [Ids -> Amounts \cup {NoAmount}]
      /\ made' + underway' <= 1 + unrecorded
      /\ \/ run'[r].answer \in {"id", "noId", "unknown"} \/ made' + underway' <= unrecorded
  BY <1>2, <1>3, <1>5
<1> HIDE DEF Outcome
<1>7. \A q \in Runs \ {r} : ~InTheGap(q) /\ ~InTheGap(q)' /\ RunOK(q)'
  BY <1>1, <1>6, OthersRest
<1>8. TypeOK'
  <2>1. /\ made \in Nat /\ made' \in Nat /\ made <= made'
        /\ underway' \in Nat /\ MaxInvoices \in Nat /\ made' + underway' <= MaxInvoices
    BY <1>3, <1>6
  <2>2. /\ 0..made \subseteq 0..made' /\ 1..made \subseteq 1..made'
        /\ made' \in 0..MaxInvoices /\ underway' \in 0..MaxInvoices
    <3>1. 0..made \subseteq 0..made'
      BY <2>1
    <3>2. 1..made \subseteq 1..made'
      BY <2>1
    <3>3. made' \in 0..MaxInvoices /\ underway' \in 0..MaxInvoices
      BY <2>1, PartsAreBounded
    <3>4. QED BY <2>1, <3>1, <3>2, <3>3
  <2>3. id' \in 0..made' /\ indexed' \subseteq 1..made'
    BY <1>1, <2>2 DEF TypeOK
  <2>4. QED BY <1>1, <1>6, <2>2, <2>3 DEF TypeOK
<1>9. RunOK(r)'
  BY <1>1, <1>4, <1>6 DEF RunOK, HoldsLease, SearchIsDue, PostIsDue, AnswerIsKnown, AnswerHasId, ComparesRow
<1>10. RowOK'
  <2>1. DueIsFree'
    BY <1>1, <1>6 DEF DueIsFree, InTheGap
  <2>2. QED BY <1>1, <1>4, <1>2, <1>6, <2>1
              DEF RowOK, BeforeClose, AfterClose, Bounded, CreatedIsPast
<1>11. OnlyUnrecordedRepeat' /\ CreatedIsConfirmed'
  BY <1>1, <1>2, <1>6 DEF OnlyUnrecordedRepeat, CreatedIsConfirmed
<1>12. QED BY <1>7, <1>8, <1>9, <1>10, <1>11

\* The answer is entered in the row, if the month is still due.
LEMMA RecordKeepsInv ==
  ASSUME IInv, NEW r \in Runs, Record(r)
  PROVE  IInv'
<1> USE DEF IInv
<1> DEFINE answer == run[r].answer
<1>1. /\ Working(r) /\ run[r].pc = "record"
      /\ UNCHANGED <<enabled, amount, noticed, lease, mfVars, history>>
      /\ IfLocked("LOCKED", AfterAnswer(answer), IF answer = "id" THEN run[r].id ELSE id)
      /\ Goto(r, IF answer = "id" THEN "compareNew" ELSE "release")
  BY DEF Record, Working
<1>2. /\ lease = r /\ state # "REVIEWING" /\ run[r].amount = amount
      /\ inv # "" /\ confirmed = amount /\ confirmed # NoAmount
  BY <1>1, WorkingFacts
<1>3. CASE answer # "id"
  <2>1. Goto(r, "release") /\ noticed' \in BOOLEAN
    BY <1>1, <1>3 DEF TypeOK
  <2>2. CASE state = "LOCKED" /\ answer \in {"noId", "unknown", "refused"}
    <3>1. state' = state /\ inv' \in {"ERROR", "UNKNOWN"} /\ id' = id
      BY <1>1, <1>3, <2>2 DEF IfLocked, AfterAnswer
    <3>2. QED BY <1>1, <2>1, <3>1, HolderReleases
  <2>3. CASE state = "LOCKED" /\ answer = "limited"
    <3>1. UNCHANGED <<state, inv, id>> /\ ~InTheGap(r)
      BY <1>1, <1>3, <2>3 DEF IfLocked, AfterAnswer, InTheGap
    <3>2. QED BY <1>1, <2>1, <3>1, HolderReleases
  <2>4. CASE state = "LOCKED" /\ answer = "none"
    BY <1>1, <2>4 DEF RunOK, AnswerIsKnown
  <2>5. CASE state # "LOCKED"
    <3>1. UNCHANGED <<state, inv, id>>
      BY <1>1, <2>5 DEF IfLocked
    <3>2. QED BY <1>1, <2>1, <2>5, <3>1, HolderReleases
  <2>6. answer \in Answers
    BY RunFields
  <2>7. QED BY <1>3, <2>2, <2>3, <2>4, <2>5, <2>6 DEF Answers
<1>4. CASE answer = "id"
  <2>1. Goto(r, "compareNew")
    BY <1>1, <1>4
  <2>2. /\ run' \in [Runs -> RunRecords(made)] /\ run'[r].pc = "compareNew"
        /\ run'[r].amount = run[r].amount /\ run'[r].id = run[r].id
        /\ \A q \in Runs \ {r} : run'[q] = run[q]
    BY <2>1, GotoFacts DEF Phases
  <2>3. \A q \in Runs \ {r} : ~InTheGap(q) /\ ~InTheGap(q)' /\ RunOK(q)'
    BY <1>1, <2>2, OthersRest
  <2>4. UNCHANGED <<enabled, amount, noticed, lease, made, price, underway, indexed, sent, paid,
                    confirmed, unrecorded>>
    BY <1>1 DEF mfVars, history
  <2>5. /\ state' = state /\ inv' = inv
        /\ state = "LOCKED" => id' = run[r].id
        /\ id' \in {id, run[r].id}
    BY <1>1, <1>4 DEF IfLocked, AfterAnswer
  <2>6. run[r].id # NoId /\ run[r].id \in 0..made
    BY <1>1, <1>4, RunFields DEF RunOK, AnswerHasId
  <2>7. TypeOK'
    BY <2>2, <2>4, <2>5, <2>6 DEF TypeOK
  <2>8. RunOK(r)'
    BY <1>2, <2>2, <2>4, <2>5, <2>6
       DEF RunOK, HoldsLease, SearchIsDue, PostIsDue, AnswerHasId, AnswerIsKnown, ComparesRow
  <2>9. RowOK'
    BY <1>2, <2>4, <2>5, <2>6
       DEF RowOK, BeforeClose, AfterClose, Bounded, CreatedIsPast, DueIsFree
  <2>10. OnlyUnrecordedRepeat'
    BY <2>4 DEF OnlyUnrecordedRepeat
  <2>11. CreatedIsConfirmed'
    <3>1. CASE state = "LOCKED"
      BY <2>5, <3>1 DEF CreatedIsConfirmed, RowOK, CreatedIsPast
    <3>2. CASE state # "LOCKED"
      BY <1>1, <2>4, <3>2 DEF CreatedIsConfirmed, IfLocked
    <3>3. QED BY <3>1, <3>2
  <2>12. QED BY <2>3, <2>7, <2>8, <2>9, <2>10, <2>11
<1>5. QED BY <1>3, <1>4

\* The lease is given back, or left behind.
LEMMA ReleaseKeepsInv ==
  ASSUME IInv, NEW r \in Runs, Release(r) \/ ReleaseTimesOut(r)
  PROVE  IInv'
<1> USE DEF IInv
<1> DEFINE next == [Idle EXCEPT !.pc = "track"]
<1>1. /\ Working(r) /\ ~InTheGap(r) /\ lease' \in {Free, Orphan}
      /\ run' = [run EXCEPT ![r] = next]
      /\ UNCHANGED <<enabled, state, amount, inv, id, noticed, made, price, underway, indexed, sent,
                     paid, confirmed, unrecorded>>
  BY DEF Release, ReleaseTimesOut, Working, InTheGap, rowVars, mfVars, history
<1>2. next \in RunRecords(made) /\ next.pc = "track"
  BY CountersAreNat, IdleFacts
<1> HIDE DEF next
<1>3. /\ run' \in [Runs -> RunRecords(made)] /\ run'[r].pc = "track"
      /\ \A q \in Runs \ {r} : run'[q] = run[q]
  BY <1>1, <1>2 DEF TypeOK
<1>4. \A q \in Runs \ {r} : ~InTheGap(q) /\ ~InTheGap(q)' /\ RunOK(q)'
  BY <1>1, <1>3, OthersRest
<1>5. TypeOK'
  BY <1>1, <1>3 DEF TypeOK
<1>6. RunOK(r)'
  BY <1>3 DEF RunOK, HoldsLease, Working, SearchIsDue, PostIsDue, AnswerIsKnown, AnswerHasId,
              ComparesRow
<1>7. RowOK'
  <2>1. DueIsFree'
    BY <1>1, <1>4 DEF RowOK, DueIsFree
  <2>2. QED BY <1>1, <2>1 DEF RowOK, BeforeClose, AfterClose, Bounded, CreatedIsPast
<1>8. OnlyUnrecordedRepeat' /\ CreatedIsConfirmed'
  BY <1>1 DEF OnlyUnrecordedRepeat, CreatedIsConfirmed
<1>9. QED BY <1>4, <1>5, <1>6, <1>7, <1>8

\* Its write gets no script lock; between the POST and the row this is paid for.
LEMMA LostWriteKeepsInv ==
  ASSUME IInv, NEW r \in Runs, RecordTimesOut(r)
  PROVE  IInv'
<1> USE DEF IInv
<1>1. /\ Working(r) /\ Goto(r, "release") /\ lease' = lease
      /\ unrecorded' = IF InTheGap(r) THEN unrecorded + 1 ELSE unrecorded
      /\ unrecorded' <= MaxUnrecorded
      /\ UNCHANGED <<enabled, state, amount, inv, id, noticed, made, price, underway, indexed, sent,
                     paid, confirmed>>
  BY DEF RecordTimesOut, Working, rowVars, mfVars
<1>2. CASE ~InTheGap(r)
  <2>1. UNCHANGED <<enabled, amount, lease, mfVars, history>> /\ noticed' \in BOOLEAN
    BY <1>1, <1>2 DEF mfVars, history, TypeOK
  <2>2. QED BY <1>1, <1>2, <2>1, HolderReleases
<1>3. CASE InTheGap(r)
  <2>1. /\ run' \in [Runs -> RunRecords(made)] /\ run'[r].pc = "release"
        /\ run'[r].amount = run[r].amount /\ \A q \in Runs \ {r} : run'[q] = run[q]
    BY <1>1, GotoFacts DEF Phases
  <2>2. \A q \in Runs \ {r} : RunOK(q)'
    BY <1>1, <2>1, OthersRest
  <2>3. unrecorded \in Nat /\ made \in Nat /\ underway \in Nat
    BY CountersAreNat
  <2>4. unrecorded' = unrecorded + 1 /\ unrecorded' \in 0..MaxUnrecorded
    BY <1>1, <1>3, <2>3, Constants
  <2>5. TypeOK'
    BY <1>1, <2>1, <2>4 DEF TypeOK
  <2>6. lease = r /\ state # "REVIEWING" /\ run[r].amount = amount
    BY <1>1, WorkingFacts
  <2>7. RunOK(r)'
    BY <1>1, <2>1, <2>6 DEF RunOK, HoldsLease, SearchIsDue, PostIsDue, AnswerIsKnown, AnswerHasId,
                            ComparesRow
  <2>8. made' + underway' <= unrecorded'
    BY <1>1, <2>3, <2>4 DEF OnlyUnrecordedRepeat
  <2>9. RowOK'
    BY <1>1, <2>8 DEF RowOK, BeforeClose, AfterClose, Bounded, CreatedIsPast, DueIsFree
  <2>10. OnlyUnrecordedRepeat' /\ CreatedIsConfirmed'
    BY <1>1, <2>3, <2>4 DEF OnlyUnrecordedRepeat, CreatedIsConfirmed
  <2>11. QED BY <2>2, <2>5, <2>7, <2>9, <2>10
<1>4. QED BY <1>2, <1>3

\* It dies; between the POST and the row this is paid for.
LEMMA DeathKeepsInv ==
  ASSUME IInv, NEW r \in Runs, Working(r), RunDies(r)
  PROVE  IInv'
<1> USE DEF IInv
<1>1. /\ run' = [run EXCEPT ![r] = Idle] /\ lease' = Orphan
      /\ unrecorded' = IF InTheGap(r) THEN unrecorded + 1 ELSE unrecorded
      /\ unrecorded' <= MaxUnrecorded
      /\ UNCHANGED <<enabled, state, amount, inv, id, noticed, made, price, underway, indexed, sent,
                     paid, confirmed>>
  BY WorkingFacts DEF RunDies, rowVars, mfVars
<1>2. Idle \in RunRecords(made) /\ Idle.pc = "idle"
  BY CountersAreNat, IdleFacts
<1>3. /\ run' \in [Runs -> RunRecords(made)] /\ run'[r].pc = "idle"
      /\ \A q \in Runs \ {r} : run'[q] = run[q]
  BY <1>1, <1>2 DEF TypeOK
<1>4. \A q \in Runs \ {r} : ~InTheGap(q) /\ ~InTheGap(q)' /\ RunOK(q)'
  BY <1>3, OthersRest
<1>5. unrecorded \in Nat /\ unrecorded' \in 0..MaxUnrecorded /\ made \in Nat /\ underway \in Nat
  <2>1. unrecorded \in Nat /\ made \in Nat /\ underway \in Nat
    BY CountersAreNat
  <2>2. unrecorded' \in Nat
    BY <1>1, <2>1
  <2>3. QED BY <1>1, <2>1, <2>2, Constants
<1>6. TypeOK'
  BY <1>1, <1>3, <1>5 DEF TypeOK
<1>7. RunOK(r)'
  BY <1>3 DEF RunOK, HoldsLease, Working, SearchIsDue, PostIsDue, AnswerIsKnown, AnswerHasId,
              ComparesRow
<1>8. RowOK'
  <2>1. DueIsFree'
    <3>1. CASE InTheGap(r)
      BY <1>1, <1>5, <3>1 DEF DueIsFree, OnlyUnrecordedRepeat
    <3>2. CASE ~InTheGap(r)
      BY <1>1, <1>4, <3>2 DEF RowOK, DueIsFree
    <3>3. QED BY <3>1, <3>2
  <2>2. QED BY <1>1, <2>1 DEF RowOK, BeforeClose, AfterClose, Bounded, CreatedIsPast
<1>9. OnlyUnrecordedRepeat' /\ CreatedIsConfirmed'
  BY <1>1, <1>5 DEF OnlyUnrecordedRepeat, CreatedIsConfirmed
<1>10. QED BY <1>4, <1>6, <1>7, <1>8, <1>9

-----------------------------------------------------------------------------
(* Steps of runs that do not hold the lease.                               *)

\* They write at most the progress of an invoice that was made.
LEMMA RestingKeepsInv ==
  ASSUME IInv, NEW r \in Runs, ~Working(r),
         run' \in [Runs -> RunRecords(made)], \A q \in Runs \ {r} : run'[q] = run[q],
         run'[r].pc \in {"idle", "acquire", "track", "advance"},
         lease' = lease \/ (lease = r /\ lease' = Orphan),
         state' = state \/ (state \in {"MF_CREATED", "SENT"} /\ state' \in {"SENT", "PAID"}),
         UNCHANGED <<enabled, amount, inv, id, noticed, mfVars, history>>
  PROVE  IInv'
<1> USE DEF IInv
<1>1. UNCHANGED <<enabled, amount, inv, id, noticed, made, price, underway, indexed, sent, paid,
                  confirmed, unrecorded>>
  BY DEF mfVars, history
<1>2. TypeOK'
  BY <1>1 DEF TypeOK, States
<1>3. /\ (state' = "LOCKED") = (state = "LOCKED") /\ (state' = "REVIEWING") = (state = "REVIEWING")
  OBVIOUS
<1>4. RunOK(r)'
  BY DEF RunOK, HoldsLease, Working, SearchIsDue, PostIsDue, AnswerIsKnown, AnswerHasId,
         ComparesRow
<1>5. ASSUME NEW q \in Runs \ {r} PROVE RunOK(q)' /\ InTheGap(q)' = InTheGap(q)
  <2>1. RunOK(q) /\ run'[q] = run[q]
    OBVIOUS
  <2>2. (Working(q) <=> Working(q)') /\ (Working(q) => lease' = q)
    BY <2>1 DEF Working, RunOK, HoldsLease
  <2>3. HoldsLease(q)'
    BY <1>1, <1>3, <2>1, <2>2 DEF RunOK, HoldsLease
  <2>4. /\ SearchIsDue(q)' /\ PostIsDue(q)' /\ AnswerIsKnown(q)' /\ AnswerHasId(q)'
        /\ ComparesRow(q)'
    BY <1>1, <1>3, <2>1
       DEF RunOK, SearchIsDue, PostIsDue, AnswerIsKnown, AnswerHasId, ComparesRow
  <2>5. InTheGap(q)' = InTheGap(q)
    BY <2>1 DEF InTheGap
  <2>6. QED BY <2>3, <2>4, <2>5 DEF RunOK
<1>6. ~InTheGap(r)
  BY DEF InTheGap, Working
<1>7. RowOK'
  <2>1. DueIsFree'
    BY <1>1, <1>3, <1>5, <1>6 DEF RowOK, DueIsFree
  <2>2. QED BY <1>1, <1>3, <2>1 DEF RowOK, BeforeClose, AfterClose, Bounded, CreatedIsPast
<1>8. OnlyUnrecordedRepeat' /\ CreatedIsConfirmed'
  BY <1>1 DEF OnlyUnrecordedRepeat, CreatedIsConfirmed
<1>9. QED BY <1>2, <1>4, <1>5, <1>7, <1>8

\* Listing, giving up, tracking, and dying without a lease.
LEMMA RestingStepKeepsInv ==
  ASSUME IInv, NEW r \in Runs,
         List(r) \/ Track(r) \/ Advance(r) \/ LockTimesOut(r) \/ (RunDies(r) /\ ~Working(r))
           \/ (Acquire(r) /\ ~(MayAcquire /\ state = "LOCKED"))
  PROVE  IInv'
<1> USE DEF IInv
<1>1. ~Working(r) /\ ~InTheGap(r) /\ UNCHANGED <<enabled, amount, inv, id, noticed, mfVars, confirmed>>
  BY DEF Working, InTheGap, List, Track, Advance, LockTimesOut, RunDies, Acquire, rowVars, history
<1>2. /\ lease' = lease \/ (lease = r /\ lease' = Orphan)
      /\ unrecorded' = unrecorded
      /\ state' = state \/ (state \in {"MF_CREATED", "SENT"} /\ state' \in {"SENT", "PAID"})
  <2>1. CASE List(r) \/ Track(r) \/ LockTimesOut(r)
               \/ (Acquire(r) /\ ~(MayAcquire /\ state = "LOCKED"))
    BY <2>1 DEF List, Track, LockTimesOut, Acquire, rowVars, history
  <2>2. CASE Advance(r)
    BY <2>2 DEF Advance, NextState, history
  <2>3. CASE RunDies(r)
    BY <1>1, <2>3 DEF RunDies, rowVars
  <2>4. QED BY <2>1, <2>2, <2>3
<1>3. made \in Nat /\ run \in [Runs -> RunRecords(made)]
  BY CountersAreNat DEF TypeOK
<1>4. /\ run' \in [Runs -> RunRecords(made)] /\ \A q \in Runs \ {r} : run'[q] = run[q]
      /\ run'[r].pc \in {"idle", "acquire", "track", "advance"}
  <2>1. CASE List(r) \/ (Acquire(r) /\ ~(MayAcquire /\ state = "LOCKED"))
    <3>1. PICK pc \in {"acquire", "track"} : Goto(r, pc)
      BY <2>1 DEF List, Acquire
    <3>2. pc \in Phases
      BY DEF Phases
    <3>3. QED BY <3>1, <3>2, GotoFacts
  <2>2. CASE Track(r)
    <3>1. PICK next \in {Idle, [Idle EXCEPT !.pc = "advance", !.sent = sent, !.paid = paid]} :
            run' = [run EXCEPT ![r] = next]
      BY <2>2 DEF Track
    <3>2. sent \in BOOLEAN /\ paid \in BOOLEAN
      BY DEF TypeOK
    <3>3. Idle \in RunRecords(made) /\ Idle.pc = "idle"
      BY <1>3, IdleFacts
    <3>4. /\ [Idle EXCEPT !.pc = "advance", !.sent = sent, !.paid = paid] \in RunRecords(made)
          /\ [Idle EXCEPT !.pc = "advance", !.sent = sent, !.paid = paid].pc = "advance"
      BY <3>2, <3>3 DEF RunRecords, Phases
    <3>5. next \in RunRecords(made) /\ next.pc \in {"idle", "advance"}
      BY <3>3, <3>4
    <3>6. QED BY <1>3, <3>1, <3>5
  <2>3. CASE LockTimesOut(r) /\ run[r].pc = "acquire"
    <3>1. Goto(r, "track") /\ "track" \in Phases
      BY <2>3 DEF LockTimesOut, Phases
    <3>2. QED BY <3>1, GotoFacts
  <2>4. CASE Advance(r) \/ RunDies(r) \/ (LockTimesOut(r) /\ run[r].pc # "acquire")
    <3>1. run' = [run EXCEPT ![r] = Idle]
      BY <2>4 DEF Advance, RunDies, LockTimesOut
    <3>2. Idle \in RunRecords(made) /\ Idle.pc = "idle"
      BY <1>3, IdleFacts
    <3>3. QED BY <1>3, <3>1, <3>2
  <2>5. QED BY <2>1, <2>2, <2>3, <2>4
<1>5. UNCHANGED history
  BY <1>1, <1>2 DEF history
<1>6. QED BY <1>1, <1>2, <1>4, <1>5, RestingKeepsInv

\* With the lease free nobody works, and a run may begin.
LEMMA AcquireKeepsInv ==
  ASSUME IInv, NEW r \in Runs, Acquire(r), MayAcquire, state = "LOCKED"
  PROVE  IInv'
<1> USE DEF IInv
<1> DEFINE next == [Idle EXCEPT !.pc = IF id # NoId THEN "compare" ELSE "search",
                                !.inv = inv, !.id = id, !.amount = amount]
<1>1. /\ lease = Free /\ lease' = r /\ run' = [run EXCEPT ![r] = next]
      /\ UNCHANGED <<enabled, state, amount, inv, id, noticed, made, price, underway, indexed, sent,
                     paid, confirmed, unrecorded>>
  BY DEF Acquire, MayAcquire, rowVars, mfVars, history
<1>2. made \in Nat /\ run \in [Runs -> RunRecords(made)] /\ amount \in Amounts
      /\ inv \in InvoiceStates /\ id \in 0..made
  BY CountersAreNat DEF TypeOK
<1>3. /\ next \in RunRecords(made) /\ next.pc = (IF id # NoId THEN "compare" ELSE "search")
      /\ next.inv = inv /\ next.id = id /\ next.amount = amount
  <2>1. Idle \in RunRecords(made)
    BY <1>2, IdleFacts
  <2>2. QED BY <1>2, <2>1 DEF RunRecords, Phases
<1> HIDE DEF next
<1>4. /\ run' \in [Runs -> RunRecords(made)] /\ run'[r] = next
      /\ \A q \in Runs \ {r} : run'[q] = run[q]
  BY <1>1, <1>2, <1>3
<1>5. ASSUME NEW q \in Runs PROVE ~Working(q)
  BY <1>1, Constants DEF RunOK, HoldsLease
<1>6. ASSUME NEW q \in Runs PROVE ~InTheGap(q)
  BY <1>5 DEF Working, InTheGap
<1>7. ASSUME NEW q \in Runs \ {r} PROVE RunOK(q)'
  <2>1. run'[q].pc = run[q].pc
        /\ run[q].pc \notin {"search", "post", "record", "compare", "compareNew", "release"}
    BY <1>4, <1>5 DEF Working
  <2>2. QED BY <2>1 DEF RunOK, HoldsLease, Working, SearchIsDue, PostIsDue, AnswerIsKnown,
                        AnswerHasId, ComparesRow
<1>8. RunOK(r)'
  BY <1>1, <1>3, <1>4
     DEF RunOK, HoldsLease, SearchIsDue, PostIsDue, AnswerIsKnown, AnswerHasId, ComparesRow
<1>9. TypeOK'
  BY <1>1, <1>4 DEF TypeOK
<1>10. RowOK'
  <2>1. DueIsFree'
    BY <1>1, <1>6 DEF RowOK, DueIsFree
  <2>2. QED BY <1>1, <2>1 DEF RowOK, BeforeClose, AfterClose, Bounded, CreatedIsPast
<1>11. OnlyUnrecordedRepeat' /\ CreatedIsConfirmed'
  BY <1>1 DEF OnlyUnrecordedRepeat, CreatedIsConfirmed
<1>12. QED BY <1>7, <1>8, <1>9, <1>10, <1>11

-----------------------------------------------------------------------------
(* Steps outside of the runs.                                              *)

\* What the runs rely on is about the row, the counters and themselves.
LEMMA BystandersKeepInv ==
  ASSUME IInv,
         \/ SetEnabled \/ MfSends \/ MfIsPaid \/ LeaseRunsOut \/ UNCHANGED vars
         \/ \E i \in Ids : MfIndexes(i)
  PROVE  IInv'
<1> USE DEF IInv
<1>1. /\ UNCHANGED <<state, amount, inv, id, noticed, run, made, price, underway, confirmed, unrecorded>>
      /\ lease' = lease \/ (lease = Orphan /\ lease' = Free)
  BY DEF SetEnabled, MfIndexes, MfSends, MfIsPaid, LeaseRunsOut, vars, rowVars, mfVars, history
<1>2. TypeOK'
  <2>1. /\ enabled' \in BOOLEAN /\ indexed' \subseteq 1..made
        /\ sent' \in BOOLEAN /\ paid' \in BOOLEAN
    BY DEF TypeOK, SetEnabled, MfIndexes, MfSends, MfIsPaid, LeaseRunsOut, vars, rowVars, mfVars
  <2>2. QED BY <1>1, <2>1 DEF TypeOK
<1>3. ASSUME NEW r \in Runs PROVE RunOK(r)'
  BY <1>1, Constants
     DEF RunOK, HoldsLease, Working, SearchIsDue, PostIsDue, AnswerIsKnown, AnswerHasId, ComparesRow
<1>4. RowOK'
  BY <1>1 DEF RowOK, BeforeClose, AfterClose, Bounded, CreatedIsPast, DueIsFree, InTheGap
<1>5. OnlyUnrecordedRepeat' /\ CreatedIsConfirmed'
  BY <1>1 DEF OnlyUnrecordedRepeat, CreatedIsConfirmed
<1>6. QED BY <1>2, <1>3, <1>4, <1>5

\* The close finds a month nothing was created for, and nobody at work on it.
LEMMA CloseKeepsInv ==
  ASSUME IInv, Close
  PROVE  IInv'
<1> USE DEF IInv
<1>1. /\ state = "REVIEWING" /\ state' = "LOCKED" /\ inv' \in {"PENDING", "MANUAL"}
      /\ confirmed' = amount
      /\ UNCHANGED <<enabled, amount, id, noticed, lease, run, made, price, underway, indexed, sent,
                     paid, unrecorded>>
  BY DEF Close, mfVars
<1>2. inv = "" /\ id = NoId /\ made = 0 /\ underway = 0
  BY <1>1 DEF RowOK, BeforeClose
<1>3. amount \in Amounts /\ amount # NoAmount /\ unrecorded \in Nat /\ MaxInvoices \in Nat
  BY Constants, CountersAreNat DEF TypeOK
<1>4. TypeOK'
  BY <1>1, <1>3 DEF TypeOK, States, InvoiceStates
<1>5. ASSUME NEW r \in Runs PROVE RunOK(r)'
  <2>1. ~Working(r)
    BY <1>1 DEF RunOK, HoldsLease
  <2>2. QED BY <1>1, <2>1 DEF RunOK, HoldsLease, Working, SearchIsDue, PostIsDue, AnswerIsKnown,
                        AnswerHasId, ComparesRow
<1>6. RowOK'
  <2>1. BeforeClose' /\ AfterClose' /\ CreatedIsPast'
    BY <1>1 DEF BeforeClose, AfterClose, CreatedIsPast
  <2>2. made' = 0 /\ underway' = 0 /\ unrecorded' \in Nat
    BY <1>1, <1>2, <1>3
  <2>3. Bounded' /\ DueIsFree'
    BY <1>3, <2>2, SumOfNothing DEF Bounded, DueIsFree
  <2>4. QED BY <2>1, <2>3 DEF RowOK
<1>7. OnlyUnrecordedRepeat' /\ CreatedIsConfirmed'
  BY <1>1, <1>2, <1>3 DEF OnlyUnrecordedRepeat, CreatedIsConfirmed
<1>8. QED BY <1>4, <1>5, <1>6, <1>7

LEMMA MoveByHandKeepsInv ==
  ASSUME IInv, MoveByHand
  PROVE  IInv'
<1> USE DEF IInv
<1>1. /\ inv # "" /\ state' \in {"SENT", "PAID", "VOID"}
      /\ UNCHANGED <<enabled, amount, inv, id, noticed, lease, run, made, price, underway, indexed,
                     sent, paid, confirmed, unrecorded>>
  BY DEF MoveByHand, mfVars, history
<1>2. state # "REVIEWING"
  BY <1>1 DEF RowOK, BeforeClose
<1>3. TypeOK'
  BY <1>1 DEF TypeOK, States
<1>4. ASSUME NEW r \in Runs PROVE RunOK(r)'
  BY <1>1 DEF RunOK, HoldsLease, Working, SearchIsDue, PostIsDue, AnswerIsKnown, AnswerHasId,
              ComparesRow
<1>5. RowOK'
  BY <1>1, <1>2 DEF RowOK, BeforeClose, AfterClose, Bounded, CreatedIsPast, DueIsFree
<1>6. OnlyUnrecordedRepeat' /\ CreatedIsConfirmed'
  BY <1>1 DEF OnlyUnrecordedRepeat, CreatedIsConfirmed
<1>7. QED BY <1>3, <1>4, <1>5, <1>6

\* A repair meets no run that believes the month is due, and keeps to the invoice there is.
LEMMA RepairKeepsInv ==
  ASSUME IInv, OperatorRepairs
  PROVE  IInv'
<1> USE DEF IInv
<1>1. /\ state = "LOCKED" /\ inv \in {"ERROR", "UNKNOWN"} /\ underway = 0
      /\ UNCHANGED <<enabled, state, amount, noticed, lease, run, made, price, underway, indexed,
                     sent, paid, confirmed, unrecorded>>
      /\ inv' \in {"PENDING", "UNKNOWN"}
  BY DEF OperatorRepairs, mfVars, history
<1>2. (made = 0 /\ id' = id) \/ (made = 1 /\ id' = 1)
  BY DEF OperatorRepairs
<1>3. unrecorded \in Nat /\ id \in 0..made /\ confirmed # NoAmount
  BY <1>1, CountersAreNat DEF TypeOK
<1>4. id # NoId => id' = id
  BY <1>2, <1>3 DEF NoId
<1>5. id' \in 0..made
  BY <1>2, <1>3
<1>6. TypeOK'
  BY <1>1, <1>3, <1>5 DEF TypeOK, InvoiceStates
<1>7. ASSUME NEW r \in Runs PROVE RunOK(r)'
  <2>1. ~(run[r].pc = "search" /\ run[r].inv = "PENDING") /\ run[r].pc # "post"
    BY <1>1 DEF RunOK, SearchIsDue, PostIsDue
  <2>2. QED BY <1>1, <1>4, <2>1 DEF RunOK, HoldsLease, Working, SearchIsDue, PostIsDue,
                        AnswerIsKnown, AnswerHasId, ComparesRow
<1>8. RowOK'
  <2>1. DueIsFree'
    BY <1>1, <1>2, <1>3 DEF DueIsFree, NoId
  <2>2. QED BY <1>1, <2>1 DEF RowOK, BeforeClose, AfterClose, Bounded, CreatedIsPast
<1>9. OnlyUnrecordedRepeat' /\ CreatedIsConfirmed'
  BY <1>1 DEF OnlyUnrecordedRepeat, CreatedIsConfirmed
<1>10. QED BY <1>6, <1>7, <1>8, <1>9

\* A creation that was given up counts from the moment it was sent: decided, it does not
\* count twice.
LEMMA DecisionKeepsInv ==
  ASSUME IInv, MfDecides
  PROVE  IInv'
<1> USE DEF IInv
<1>1. /\ underway > 0 /\ underway' = underway - 1
      /\ UNCHANGED <<enabled, state, amount, inv, id, noticed, lease, run, indexed, sent, paid,
                     confirmed, unrecorded>>
  BY DEF MfDecides, rowVars, history
<1>2. /\ made \in Nat /\ underway \in Nat /\ unrecorded \in Nat /\ MaxInvoices \in Nat
      /\ made + underway <= MaxInvoices
  BY CountersAreNat, Constants DEF RowOK, Bounded
<1>3. /\ run \in [Runs -> RunRecords(made)] /\ id \in 0..made /\ indexed \subseteq 1..made
      /\ price \in [Ids -> Amounts \cup {NoAmount}]
  BY DEF TypeOK
<1>4. made' \in Nat /\ underway' \in Nat /\ made <= made' /\ made' + underway' <= made + underway
  BY <1>1, <1>2 DEF MfDecides
<1>5. made' + underway' <= MaxInvoices
  BY <1>2, <1>4, SumsStayBounded
<1>6. price' \in [Ids -> Amounts \cup {NoAmount}] /\ (id # NoId => price'[id] = price[id])
  <2>1. CASE UNCHANGED <<made, price>>
    BY <1>3, <2>1
  <2>2. CASE made' = made + 1
    <3>1. PICK a \in Amounts : price' = [price EXCEPT ![made + 1] = a]
      BY <1>2, <2>2 DEF MfDecides
    <3>2. made + 1 # id
      BY <1>2, <1>3
    <3>3. id # NoId => id \in Ids
      <4>1. id \in Nat /\ id <= made /\ made <= MaxInvoices
        BY <1>2, <1>3
      <4>2. QED BY <1>2, <4>1, Constants
    <3>4. QED BY <1>3, <3>1, <3>2, <3>3
  <2>3. QED BY <2>1, <2>2 DEF MfDecides
<1>7. TypeOK'
  <2>1. made' \in 0..MaxInvoices /\ underway' \in 0..MaxInvoices
    BY <1>2, <1>4, <1>5, PartsAreBounded
  <2>2. run' \in [Runs -> RunRecords(made')]
    <3>1. made' = made \/ made' = made + 1
      BY DEF MfDecides
    <3>2. QED BY <1>1, <1>2, <1>3, <3>1, RecordsGrow
  <2>3. 0..made \subseteq 0..made' /\ 1..made \subseteq 1..made'
    BY <1>2, <1>4
  <2>4. id' \in 0..made' /\ indexed' \subseteq 1..made'
    BY <1>1, <1>3, <2>3
  <2>5. QED BY <1>1, <1>6, <2>1, <2>2, <2>4 DEF TypeOK
<1>8. ASSUME NEW r \in Runs PROVE RunOK(r)'
  <2>1. RunOK(r)
    OBVIOUS
  <2>2. PostIsDue(r)'
    BY <1>1, <1>2, <1>4, <2>1 DEF RunOK, PostIsDue
  <2>3. QED BY <1>1, <2>1, <2>2 DEF RunOK, HoldsLease, Working, SearchIsDue, AnswerIsKnown,
                        AnswerHasId, ComparesRow
<1>9. RowOK'
  <2>1. BeforeClose'
    <3> SUFFICES ASSUME state' = "REVIEWING"
                 PROVE  inv' = "" /\ id' = NoId /\ made' = 0 /\ underway' = 0
      BY DEF BeforeClose
    <3>1. inv = "" /\ id = NoId /\ made = 0 /\ underway = 0
      BY <1>1 DEF RowOK, BeforeClose
    <3>2. underway # 0
      BY <1>1, <1>2
    <3>3. QED BY <3>1, <3>2
  <2>2. DueIsFree'
    <3> SUFFICES ASSUME state' = "LOCKED", inv' = "PENDING", id' = NoId,
                        \A r \in Runs : ~InTheGap(r)'
                 PROVE  made' + underway' <= unrecorded'
      BY DEF DueIsFree
    <3>1. made + underway <= unrecorded
      BY <1>1 DEF RowOK, DueIsFree, InTheGap
    <3>2. made' + underway' <= unrecorded
      BY <1>2, <1>4, <3>1, SumsStayBounded
    <3>3. QED BY <1>1, <3>2
  <2>3. QED BY <1>1, <1>5, <2>1, <2>2 DEF RowOK, AfterClose, Bounded, CreatedIsPast
<1>10. OnlyUnrecordedRepeat'
  <2>1. made' + underway' <= 1 + unrecorded
    <3>1. 1 + unrecorded \in Nat /\ made + underway <= 1 + unrecorded
      BY <1>2 DEF OnlyUnrecordedRepeat
    <3>2. QED BY <1>2, <1>4, <3>1, SumsStayBounded
  <2>2. QED BY <1>1, <2>1 DEF OnlyUnrecordedRepeat
<1>11. CreatedIsConfirmed'
  BY <1>1, <1>6 DEF CreatedIsConfirmed
<1>12. QED BY <1>7, <1>8, <1>9, <1>10, <1>11

-----------------------------------------------------------------------------
(* The invariant.                                                          *)

LEMMA InitInv == Init => IInv
<1> SUFFICES ASSUME Init PROVE IInv
  OBVIOUS
<1>1. MaxInvoices \in Nat /\ MaxUnrecorded \in Nat
  BY Constants
<1>2. Idle \in RunRecords(0) /\ Idle.pc = "idle"
  BY IdleFacts
<1>3. run \in [Runs -> RunRecords(0)] /\ \A r \in Runs : run[r].pc = "idle"
  BY <1>2 DEF Init
<1>4. 0 \in 0..MaxInvoices /\ 0 \in 0..MaxUnrecorded
  BY <1>1
<1>5. TypeOK
  <2>1. /\ enabled \in BOOLEAN /\ state \in States /\ amount \in Amounts
        /\ inv \in InvoiceStates /\ (inv = "" <=> confirmed = NoAmount)
        /\ confirmed \in Amounts \cup {NoAmount} /\ lease \in Runs \cup {Free, Orphan}
        /\ noticed \in BOOLEAN /\ sent \in BOOLEAN /\ paid \in BOOLEAN /\ indexed \subseteq 1..made
        /\ price \in [Ids -> Amounts \cup {NoAmount}]
    BY DEF Init, States, InvoiceStates
  <2>2. made = 0 /\ underway = 0 /\ unrecorded = 0 /\ id \in 0..0
    <3>1. NoId \in 0..0
      BY DEF NoId
    <3>2. QED BY <3>1 DEF Init
  <2>3. QED BY <1>3, <1>4, <2>1, <2>2 DEF TypeOK
<1>6. RowOK
  <2>1. BeforeClose /\ AfterClose /\ CreatedIsPast /\ DueIsFree
    BY DEF Init, BeforeClose, AfterClose, CreatedIsPast, DueIsFree
  <2>2. made = 0 /\ underway = 0
    BY DEF Init
  <2>3. Bounded
    BY <1>1, <2>2, SumOfNothing DEF Bounded
  <2>4. QED BY <2>1, <2>3 DEF RowOK
<1>7. \A r \in Runs : RunOK(r)
  BY <1>3 DEF RunOK, HoldsLease, Working, SearchIsDue, PostIsDue, AnswerIsKnown, AnswerHasId,
              ComparesRow
<1>8. OnlyUnrecordedRepeat /\ CreatedIsConfirmed
  <2>1. made = 0 /\ underway = 0 /\ unrecorded = 0 /\ inv = ""
    BY DEF Init
  <2>2. OnlyUnrecordedRepeat
    BY <2>1, SumOfNothing DEF OnlyUnrecordedRepeat
  <2>3. QED BY <2>1, <2>2 DEF CreatedIsConfirmed
<1>9. QED BY <1>5, <1>6, <1>7, <1>8 DEF IInv

LEMMA StepKeepsInv == IInv /\ [Next]_vars => IInv'
<1> SUFFICES ASSUME IInv, [Next]_vars PROVE IInv'
  OBVIOUS
<1>1. CASE Close
  BY <1>1, CloseKeepsInv
<1>2. CASE MoveByHand
  BY <1>2, MoveByHandKeepsInv
<1>3. CASE OperatorRepairs
  BY <1>3, RepairKeepsInv
<1>4. CASE MfDecides
  BY <1>4, DecisionKeepsInv
<1>5. CASE \/ SetEnabled \/ MfSends \/ MfIsPaid \/ LeaseRunsOut \/ UNCHANGED vars
           \/ \E i \in Ids : MfIndexes(i)
  BY <1>5, BystandersKeepInv
<1>6. ASSUME NEW r \in Runs, EnsureStep(r) PROVE IInv'
  <2>1. CASE List(r) \/ (Acquire(r) /\ ~(MayAcquire /\ state = "LOCKED"))
    BY <2>1, RestingStepKeepsInv
  <2>2. CASE Acquire(r) /\ MayAcquire /\ state = "LOCKED"
    BY <2>2, AcquireKeepsInv
  <2>3. CASE SearchFindsMany(r) \/ SearchLeavesUnknown(r) \/ BuildFails(r) \/ CallFails(r)
               \/ CompareRefused(r) \/ Compare(r)
    BY <2>3, SearchKeepsInv
  <2>4. CASE SearchFindsOne(r)
    BY <2>4, FindingKeepsInv
  <2>5. CASE Attempt(r)
    BY <2>5, AttemptKeepsInv
  <2>6. CASE PostCreates(r) \/ PostRefused(r) \/ PostGivenUp(r)
    BY <2>6, PostKeepsInv
  <2>7. CASE Record(r)
    BY <2>7, RecordKeepsInv
  <2>8. CASE Release(r)
    BY <2>8, ReleaseKeepsInv
  <2>9. QED BY <1>6, <2>1, <2>2, <2>3, <2>4, <2>5, <2>6, <2>7, <2>8 DEF EnsureStep
<1>7. ASSUME NEW r \in Runs, TrackStep(r) PROVE IInv'
  BY <1>7, RestingStepKeepsInv DEF TrackStep
<1>8. ASSUME NEW r \in Runs, RunDies(r) PROVE IInv'
  <2>1. CASE Working(r)
    BY <1>8, <2>1, DeathKeepsInv
  <2>2. CASE ~Working(r)
    BY <1>8, <2>2, RestingStepKeepsInv
  <2>3. QED BY <2>1, <2>2
<1>9. ASSUME NEW r \in Runs, TimesOut(r) PROVE IInv'
  BY <1>9, LostWriteKeepsInv, ReleaseKeepsInv, RestingStepKeepsInv DEF TimesOut
<1>10. QED BY <1>1, <1>2, <1>3, <1>4, <1>5, <1>6, <1>7, <1>8, <1>9 DEF Next

LEMMA Invariance == Spec => []IInv
<1>1. QED BY InitInv, StepKeepsInv, PTL DEF Spec

-----------------------------------------------------------------------------
(* Theorems.                                                               *)

\* The variables have their types in every reachable state.
THEOREM TypeCorrect == Spec => []TypeOK
<1>1. IInv => TypeOK
  BY DEF IInv
<1>2. QED BY <1>1, Invariance, PTL

\* However many executions of the triggers overlap, and whatever becomes of their calls,
\* only a creation that never reached its row (the execution died after the POST, or its
\* write got no script lock) leads to another.
THEOREM RepeatsAreUnrecorded == Spec => []OnlyUnrecordedRepeat
<1>1. IInv => OnlyUnrecordedRepeat
  BY DEF IInv
<1>2. QED BY <1>1, Invariance, PTL

\* An invoice reported as created comes to the amount the user confirmed.
THEOREM CreatedIsWhatWasConfirmed == Spec => []CreatedIsConfirmed
<1>1. IInv => CreatedIsConfirmed
  BY DEF IInv
<1>2. QED BY <1>1, Invariance, PTL

\* No creation is sent while an earlier one may have happened, as far as the row knows.
THEOREM RetriesAreInformed == Spec => NoBlindRetry
<1>1. IInv /\ [Next]_vars => [Posting => id = NoId /\ inv = "PENDING"]_vars
  <2> SUFFICES ASSUME IInv, Posting PROVE id = NoId /\ inv = "PENDING"
    OBVIOUS
  <2>1. PICK r \in Runs : run[r].pc = "post"
    BY DEF Posting, PostCreates, PostGivenUp
  <2>2. PostIsDue(r)
    BY DEF IInv, RunOK
  <2>3. QED BY <2>1, <2>2 DEF PostIsDue
<1>2. QED BY <1>1, Invariance, PTL DEF Spec, NoBlindRetry

\* Invoice implements BillLifecycle.
LEMMA InitIsLifecycle == Init => Lifecycle!Init
BY Constants DEF Init, Lifecycle!Init, Lifecycle!Open

\* Who writes the state does so on a closed month, and forward.
LEMMA StateMovesForward ==
  ASSUME IInv, Next, ~Close, state' # state
  PROVE  Lifecycle!Advance
<1> USE DEF IInv
<1>1. UNCHANGED <<amount, confirmed>>
  BY DEF Next, SetEnabled, MoveByHand, OperatorRepairs, MfDecides, MfIndexes, MfSends, MfIsPaid,
         LeaseRunsOut, EnsureStep, List, Acquire, SearchFindsMany, SearchFindsOne,
         SearchLeavesUnknown, BuildFails, Attempt, PostCreates, PostRefused, PostGivenUp, Record,
         Compare, CompareRefused, CallFails, Release, TrackStep, Track, Advance, TimesOut, RecordTimesOut,
         ReleaseTimesOut, LockTimesOut, RunDies, rowVars, history
<1>2. MoveByHand \/ \E r \in Runs : Compare(r) \/ Advance(r)
  BY DEF Next, SetEnabled, OperatorRepairs, MfDecides, MfIndexes, MfSends, MfIsPaid,
         LeaseRunsOut, EnsureStep, List, Acquire, SearchFindsMany, SearchFindsOne,
         SearchLeavesUnknown, BuildFails, Attempt, PostCreates, PostRefused, PostGivenUp, Record,
         CompareRefused, CallFails, Release, TrackStep, Track, TimesOut, RecordTimesOut,
         ReleaseTimesOut, LockTimesOut, RunDies, IfLocked, rowVars
<1>3. CASE MoveByHand
  <2>1. state \in States \ {"REVIEWING"} /\ state' \in {"SENT", "PAID", "VOID"}
    BY <1>3 DEF MoveByHand, TypeOK, RowOK, BeforeClose
  <2>2. <<state, state'>> \in Lifecycle!Forward
    BY <1>3, <2>1 DEF MoveByHand, States, Lifecycle!Forward
  <2>3. QED BY <1>1, <2>2 DEF Lifecycle!Advance
<1>4. ASSUME NEW r \in Runs, Compare(r) PROVE Lifecycle!Advance
  <2>1. state = "LOCKED" /\ state' = "MF_CREATED"
    BY <1>4 DEF Compare, IfLocked
  <2>2. QED BY <1>1, <2>1 DEF Lifecycle!Advance, Lifecycle!Forward
<1>5. ASSUME NEW r \in Runs, Advance(r) PROVE Lifecycle!Advance
  <2>1. state \in {"MF_CREATED", "SENT"} /\ state' \in {"SENT", "PAID"}
    BY <1>5 DEF Advance, NextState
  <2>2. <<state, state'>> \in Lifecycle!Forward
    BY <2>1 DEF Lifecycle!Forward
  <2>3. QED BY <1>1, <2>2 DEF Lifecycle!Advance
<1>6. QED BY <1>2, <1>3, <1>4, <1>5

LEMMA StepIsLifecycle == IInv /\ [Next]_vars => [Lifecycle!Next]_(Lifecycle!billVars)
<1> SUFFICES ASSUME IInv, [Next]_vars
             PROVE  Lifecycle!Next \/ UNCHANGED <<state, amount, confirmed>>
  BY DEF Lifecycle!billVars
<1>1. CASE Close
  BY <1>1 DEF Close, IInv, TypeOK, Lifecycle!Confirm, Lifecycle!Next
<1>2. CASE Next /\ ~Close /\ state' # state
  BY <1>2, StateMovesForward DEF Lifecycle!Next
<1>3. CASE Next /\ ~Close /\ state' = state
  BY <1>3
     DEF Next, SetEnabled, MoveByHand, OperatorRepairs, MfDecides, MfIndexes, MfSends, MfIsPaid,
         LeaseRunsOut, EnsureStep, List, Acquire, SearchFindsMany, SearchFindsOne,
         SearchLeavesUnknown, BuildFails, Attempt, PostCreates, PostRefused, PostGivenUp, Record,
         Compare, CompareRefused, CallFails, Release, TrackStep, Track, Advance, TimesOut, RecordTimesOut,
         ReleaseTimesOut, LockTimesOut, RunDies, rowVars, history
<1>4. CASE UNCHANGED vars
  BY <1>4 DEF vars, rowVars, history
<1>5. QED BY <1>1, <1>2, <1>3, <1>4

\* From the close to the payment a bill moves as BillLifecycle says.
THEOREM InvoiceKeepsLifecycle == Spec => BillKeepsLifecycle
BY InitIsLifecycle, StepIsLifecycle, Invariance, PTL DEF Spec, BillKeepsLifecycle, Lifecycle!Spec
=============================================================================
