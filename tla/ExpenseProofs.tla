--------------------------- MODULE ExpenseProofs ---------------------------
(***************************************************************************)
(* Proofs about Expense: a submission has one row and one file, and what    *)
(* the ledger and the journal say of it is true.                            *)
(*                                                                          *)
(* The invariant says what an execution that is on its way holds: the row   *)
(* it works on is its submission's, the file it has found or saved is in    *)
(* Drive under the row's number, and a row that is about to be completed    *)
(* names a file already.  No step takes any of this away, since rows and    *)
(* files are never deleted, and a row's number, submission and file stay.   *)
(***************************************************************************)
EXTENDS Expense, TLAPS, FiniteSetTheorems, SequenceTheorems

\* Numbers are given out in order: the counter is never behind a row.
Numbered == \A i \in DOMAIN ledger : ledger[i].id[2] <= seq[ledger[i].id[1]]

Working == {"load", "mark", "file", "saved", "complete", "tell"}
Filed(s) == \E i \in DOMAIN ledger : ledger[i].key = s /\ ledger[i].file # 0

\* What execution e holds.
HoldsRow(e) ==
  exec[e].at \in Working =>
    \E i \in DOMAIN ledger :
      /\ ledger[i].id = exec[e].id /\ ledger[i].key = exec[e].sub
      /\ exec[e].at \in {"complete", "tell"} => ledger[i].file # 0
HoldsFile(e) ==
  exec[e].at = "saved" =>
    \E f \in drive : /\ f.nr = exec[e].file /\ f.name = exec[e].id
                     /\ f.content = exec[e].got
HasSub(e)    == exec[e].at # "idle" => exec[e].sub \in Subs
SaysFiled(e) == exec[e].answer = "ok" => Filed(exec[e].sub)
Sound(e) == HoldsRow(e) /\ HoldsFile(e) /\ HasSub(e) /\ SaysFiled(e)

Inv ==
  /\ TypeOK /\ IsFiniteSet(drive)
  /\ Numbered /\ OneReceipt /\ OneFile
  /\ RowsMatchDrive
  /\ \A e \in Execs : Sound(e)
  /\ \A s \in Subs : status[s] = "done" => Filed(s)

\* Rows and files stay, and so do a row's number, its submission and its file.
Kept ==
  /\ DOMAIN ledger \subseteq DOMAIN ledger'
  /\ \A i \in DOMAIN ledger :
       /\ ledger'[i].id = ledger[i].id /\ ledger'[i].key = ledger[i].key
       /\ ledger[i].file # 0 => ledger'[i].file # 0
  /\ drive \subseteq drive'

-----------------------------------------------------------------------------
(* Rows of the ledger.                                                     *)

\* A row is found again by its number.
LEMMA RowIsFound ==
  ASSUME OneReceipt, NEW i \in DOMAIN ledger
  PROVE  RowOf(ledger[i].id) = i
<1>1. /\ RowOf(ledger[i].id) \in DOMAIN ledger
      /\ ledger[RowOf(ledger[i].id)].id = ledger[i].id
  BY DEF RowOf
<1> QED BY <1>1 DEF OneReceipt

\* Writing a row that keeps its number, submission and file keeps the ledger in order.
LEMMA RowWritten ==
  ASSUME Inv, NEW k \in DOMAIN ledger, NEW r \in Row,
         r.id = ledger[k].id, r.key = ledger[k].key, ledger[k].file # 0 => r.file # 0,
         ledger' = [ledger EXCEPT ![k] = r], seq' = seq, drive \subseteq drive'
  PROVE  /\ ledger' \in Seq(Row) /\ Kept /\ Numbered' /\ OneReceipt'
         /\ DOMAIN ledger' = DOMAIN ledger
         /\ \A i \in DOMAIN ledger : ledger'[i] = IF i = k THEN r ELSE ledger[i]
<1>1. ledger \in Seq(Row) /\ k \in 1 .. Len(ledger)
  BY DEF Inv, TypeOK
<1>2. /\ ledger' \in Seq(Row) /\ Len(ledger') = Len(ledger)
      /\ \A i \in 1 .. Len(ledger) : ledger'[i] = IF i = k THEN r ELSE ledger[i]
  BY <1>1, ExceptSeq
<1>3. DOMAIN ledger' = DOMAIN ledger /\ DOMAIN ledger = 1 .. Len(ledger)
  BY <1>1, <1>2
<1>4. Kept
  BY <1>2, <1>3 DEF Kept
<1>5. Numbered'
  BY <1>2, <1>3 DEF Inv, Numbered
<1>6. OneReceipt'
  BY <1>2, <1>3 DEF Inv, OneReceipt
<1> QED BY <1>2, <1>3, <1>4, <1>5, <1>6

-----------------------------------------------------------------------------
(* Executions.                                                             *)

\* What an execution holds is still there if rows and files stay.
LEMMA SoundStays ==
  ASSUME Kept, NEW e \in Execs, Sound(e), exec'[e] = exec[e]
  PROVE  Sound(e)'
<1>1. HoldsRow(e)' BY DEF Kept, Sound, HoldsRow
<1>2. HoldsFile(e)' BY DEF Kept, Sound, HoldsFile
<1>3. HasSub(e)' BY DEF Sound, HasSub
<1>4. SaysFiled(e)' BY DEF Kept, Sound, SaysFiled, Filed
<1> QED BY <1>1, <1>2, <1>3, <1>4 DEF Sound

LEMMA FiledStays ==
  ASSUME Kept, NEW s, Filed(s)
  PROVE  Filed(s)'
BY DEF Kept, Filed

\* An execution that answers holds nothing any more.
LEMMA Answered ==
  ASSUME TypeOK, NEW e \in Execs, Sound(e), exec[e].at # "idle",
         NEW a \in Answers \ {None}, Answer(e, a), a = "ok" => Filed(exec[e].sub)'
  PROVE  Sound(e)' /\ exec' \in [Execs -> Execution]
<1>1. exec'[e] = [Idle EXCEPT !.at = "answer", !.sub = exec[e].sub, !.answer = a]
  BY DEF TypeOK, Answer
<1>2. /\ exec'[e].at = "answer" /\ exec'[e].sub = exec[e].sub /\ exec'[e].answer = a
      /\ exec'[e].id = NoId /\ exec'[e].got = None /\ exec'[e].file = 0
  BY <1>1 DEF Idle
<1>3. exec[e].sub \in Subs
  BY DEF Sound, HasSub
<1>4. exec' \in [Execs -> Execution]
  BY <1>1, <1>3 DEF TypeOK, Answer, Idle, Execution, Places, Answers
<1>5. HoldsRow(e)' /\ HoldsFile(e)' /\ HasSub(e)'
  BY <1>2, <1>3 DEF HoldsRow, HoldsFile, HasSub, Working
<1>6. SaysFiled(e)'
  BY <1>2 DEF SaysFiled, Filed
<1> QED BY <1>4, <1>5, <1>6 DEF Sound

\* The parts of the invariant that a step of one execution leaves to others.
LEMMA OthersSound ==
  ASSUME Inv, Kept, NEW e \in Execs, \A x \in Execs \ {e} : exec'[x] = exec[x],
         Sound(e)', status' = status
  PROVE  /\ \A x \in Execs : Sound(x)'
         /\ \A s \in Subs : status'[s] = "done" => Filed(s)'
<1>1. ASSUME NEW x \in Execs PROVE Sound(x)'
  <2>1. CASE x = e BY <2>1
  <2>2. CASE x # e BY <2>2, SoundStays DEF Inv
  <2> QED BY <2>1, <2>2
<1>2. \A s \in Subs : status'[s] = "done" => Filed(s)'
  BY FiledStays DEF Inv
<1> QED BY <1>1, <1>2

\* A step of e that leaves the ledger, the numbers and Drive alone.
LEMMA QuietStep ==
  ASSUME Inv, NEW e \in Execs, Sound(e)', exec' \in [Execs -> Execution],
         \A x \in Execs \ {e} : exec'[x] = exec[x],
         UNCHANGED <<status, flags, ledger, seq, drive>>, events' \in Nat
  PROVE  Inv'
<1>1. Kept BY DEF Kept
<1>2. /\ \A x \in Execs : Sound(x)'
      /\ \A s \in Subs : status'[s] = "done" => Filed(s)'
  BY <1>1, OthersSound
<1>3. TypeOK' BY DEF Inv, TypeOK
<1>4. IsFiniteSet(drive)' /\ Numbered' /\ OneReceipt' /\ OneFile' /\ RowsMatchDrive'
  BY DEF Inv, Numbered, OneReceipt, OneFile, RowsMatchDrive
<1> QED BY <1>2, <1>3, <1>4 DEF Inv

\* A step of e that answers and touches nothing else.
LEMMA QuietAnswer ==
  ASSUME Inv, NEW e \in Execs, exec[e].at # "idle", NEW a \in Answers \ {None}, Answer(e, a),
         a = "ok" => Filed(exec[e].sub),
         UNCHANGED <<status, flags, ledger, seq, drive>>, events' \in Nat
  PROVE  Inv'
<1>1. Sound(e)' /\ exec' \in [Execs -> Execution]
  <2>1. exec'[e].sub = exec[e].sub BY DEF Inv, TypeOK, Answer, Idle
  <2>2. a = "ok" => Filed(exec[e].sub)' BY <2>1 DEF Filed
  <2> QED BY <2>2, Answered DEF Inv
<1>2. \A x \in Execs \ {e} : exec'[x] = exec[x]
  BY DEF Answer, Inv, TypeOK
<1> QED BY <1>1, <1>2, QuietStep

\* A step of e that writes the row it works on and leaves Drive alone.
LEMMA RowStep ==
  ASSUME Inv, NEW e \in Execs, NEW k \in DOMAIN ledger, NEW r \in Row,
         r.id = ledger[k].id, r.key = ledger[k].key, ledger[k].file # 0 => r.file # 0,
         r.state \in {"FILE_SAVED", "COMPLETED"} => r.file # 0,
         r.file # 0 =>
           \E f \in drive : f.nr = r.file /\ f.name = r.id /\ f.content = r.hash,
         ledger' = [ledger EXCEPT ![k] = r], UNCHANGED <<status, flags, seq, drive>>,
         exec' \in [Execs -> Execution], events' \in Nat,
         \A x \in Execs \ {e} : exec'[x] = exec[x], Sound(e)'
  PROVE  Inv'
<1>1. /\ ledger' \in Seq(Row) /\ Kept /\ Numbered' /\ OneReceipt'
      /\ DOMAIN ledger' = DOMAIN ledger
      /\ \A i \in DOMAIN ledger : ledger'[i] = IF i = k THEN r ELSE ledger[i]
  BY RowWritten
<1>2. /\ \A x \in Execs : Sound(x)'
      /\ \A s \in Subs : status'[s] = "done" => Filed(s)'
  BY <1>1, OthersSound
<1>3. TypeOK' BY <1>1 DEF Inv, TypeOK
<1>4. IsFiniteSet(drive)' /\ OneFile' BY DEF Inv, OneFile
<1>5. RowsMatchDrive'
  <2> SUFFICES ASSUME NEW i \in DOMAIN ledger
               PROVE  /\ ledger'[i].state \in {"FILE_SAVED", "COMPLETED"} => ledger'[i].file # 0
                      /\ ledger'[i].file # 0 =>
                           \E f \in drive : /\ f.nr = ledger'[i].file /\ f.name = ledger'[i].id
                                            /\ f.content = ledger'[i].hash
    BY <1>1 DEF RowsMatchDrive
  <2>1. CASE i = k BY <1>1, <2>1
  <2>2. CASE i # k BY <1>1, <2>2 DEF Inv, RowsMatchDrive
  <2> QED BY <2>1, <2>2
<1> QED BY <1>1, <1>2, <1>3, <1>4, <1>5 DEF Inv

\* The row that an execution at work finds by its number.
LEMMA MyRowIsKnown ==
  ASSUME Inv, NEW e \in Execs, exec[e].at \in Working
  PROVE  /\ RowOf(exec[e].id) \in DOMAIN ledger
         /\ MyRow(e) \in Row /\ MyRow(e) = ledger[RowOf(exec[e].id)]
         /\ MyRow(e).id = exec[e].id /\ MyRow(e).key = exec[e].sub
         /\ exec[e].at \in {"complete", "tell"} => MyRow(e).file # 0
<1>1. PICK i \in DOMAIN ledger :
        /\ ledger[i].id = exec[e].id /\ ledger[i].key = exec[e].sub
        /\ exec[e].at \in {"complete", "tell"} => ledger[i].file # 0
  BY DEF Inv, Sound, HoldsRow
<1>2. RowOf(exec[e].id) = i
  BY <1>1, RowIsFound DEF Inv
<1>3. ledger[i] \in Row
  BY DEF Inv, TypeOK
<1> QED BY <1>1, <1>2, <1>3 DEF MyRow

\* Setting the state of the row that e works on, to anything its file allows.
LEMMA StateWritten ==
  ASSUME Inv, NEW e \in Execs, exec[e].at \in Working, NEW st \in States,
         st \in {"FILE_SAVED", "COMPLETED"} => MyRow(e).file # 0,
         UpdateExpense(exec[e].id, st), UNCHANGED <<status, flags, seq, drive>>,
         exec' \in [Execs -> Execution], events' \in Nat,
         \A x \in Execs \ {e} : exec'[x] = exec[x], Sound(e)'
  PROVE  Inv'
<1> DEFINE k == RowOf(exec[e].id)
           r == [ledger[k] EXCEPT !.state = st]
<1>1. /\ k \in DOMAIN ledger /\ ledger[k] \in Row
      /\ st \in {"FILE_SAVED", "COMPLETED"} => ledger[k].file # 0
  BY MyRowIsKnown
<1>2. /\ r \in Row /\ r.id = ledger[k].id /\ r.key = ledger[k].key
      /\ r.file = ledger[k].file /\ r.hash = ledger[k].hash /\ r.state = st
  BY <1>1 DEF Row
<1>3. ledger' = [ledger EXCEPT ![k] = r]
  BY <1>1 DEF UpdateExpense
<1>4. r.file # 0 => \E f \in drive : f.nr = r.file /\ f.name = r.id /\ f.content = r.hash
  BY <1>1, <1>2 DEF Inv, RowsMatchDrive
<1> HIDE DEF k, r
<1> QED BY <1>1, <1>2, <1>3, <1>4, RowStep

\* The row of e exists after its state was set, with the file it had.
LEMMA RowAfterState ==
  ASSUME Inv, NEW e \in Execs, exec[e].at \in Working, NEW st \in States,
         UpdateExpense(exec[e].id, st)
  PROVE  \E i \in DOMAIN ledger' :
           /\ ledger'[i].id = exec[e].id /\ ledger'[i].key = exec[e].sub
           /\ ledger'[i].file = MyRow(e).file
<1>1. /\ RowOf(exec[e].id) \in DOMAIN ledger /\ MyRow(e) = ledger[RowOf(exec[e].id)]
      /\ MyRow(e) \in Row /\ MyRow(e).id = exec[e].id /\ MyRow(e).key = exec[e].sub
  BY MyRowIsKnown
<1>2. DOMAIN ledger' = DOMAIN ledger
  BY DEF UpdateExpense
<1>3. ledger'[RowOf(exec[e].id)] = [MyRow(e) EXCEPT !.state = st]
  BY <1>1 DEF UpdateExpense
<1> QED BY <1>1, <1>2, <1>3 DEF Row

-----------------------------------------------------------------------------
(* One lemma per action.                                                   *)

LEMMA SubmitInv ==
  ASSUME Inv, NEW s \in Subs, Submit(s) PROVE Inv'
<1>1. Kept BY DEF Submit, Kept
<1>2. \A e \in Execs : Sound(e)' BY <1>1, SoundStays DEF Submit, Inv
<1>3. \A t \in Subs : status'[t] = "done" => Filed(t)'
  BY <1>1, FiledStays DEF Submit, Inv, TypeOK
<1>4. TypeOK' BY DEF Submit, Inv, TypeOK
<1>5. IsFiniteSet(drive)' /\ Numbered' /\ OneReceipt' /\ OneFile' /\ RowsMatchDrive'
  BY DEF Submit, Inv, Numbered, OneReceipt, OneFile, RowsMatchDrive
<1> QED BY <1>2, <1>3, <1>4, <1>5 DEF Inv

LEMMA SendInv ==
  ASSUME Inv, NEW e \in Execs, NEW s \in Subs, Send(e, s) PROVE Inv'
<1>1. exec'[e] = [Idle EXCEPT !.at = "accept", !.sub = s] BY DEF Send, Inv, TypeOK
<1>2. /\ exec'[e].at = "accept" /\ exec'[e].sub = s /\ exec'[e].answer = None
      /\ exec'[e] \in Execution
  <2>1. Idle \in Execution /\ Idle.answer = None BY DEF Send, Inv, TypeOK, Idle
  <2>2. "accept" \in Places BY DEF Places
  <2> QED BY <1>1, <2>1, <2>2 DEF Execution
<1>3. Sound(e)'
  <2>1. HoldsRow(e)' /\ HoldsFile(e)' BY <1>2 DEF HoldsRow, HoldsFile, Working
  <2>2. HasSub(e)' BY <1>2 DEF HasSub
  <2>3. SaysFiled(e)' BY <1>2 DEF SaysFiled, None
  <2> QED BY <2>1, <2>2, <2>3 DEF Sound
<1>4. exec' \in [Execs -> Execution] /\ \A x \in Execs \ {e} : exec'[x] = exec[x]
  BY <1>1, <1>2 DEF Send, Inv, TypeOK
<1> QED BY <1>3, <1>4, QuietStep DEF Send, Inv, TypeOK

\* An execution that is idle again holds nothing.
LEMMA Forgets ==
  ASSUME Inv, NEW e \in Execs, exec' = [exec EXCEPT ![e] = Idle]
  PROVE  /\ Sound(e)' /\ exec' \in [Execs -> Execution]
         /\ \A x \in Execs \ {e} : exec'[x] = exec[x]
<1>1. exec'[e] = Idle BY DEF Inv, TypeOK
<1>2. Idle \in Execution /\ Idle.at = "idle" /\ Idle.answer = None
  BY DEF Idle, Execution, Places, Answers
<1>3. Sound(e)'
  BY <1>1, <1>2 DEF Sound, HoldsRow, HoldsFile, HasSub, SaysFiled, Working, None
<1> QED BY <1>2, <1>3 DEF Inv, TypeOK

LEMMA LoseInv ==
  ASSUME Inv, NEW e \in Execs, Lose(e) PROVE Inv'
BY Forgets, QuietStep DEF Lose, Inv, TypeOK

LEMMA DeliverInv ==
  ASSUME Inv, NEW e \in Execs, Deliver(e) PROVE Inv'
<1>1. /\ Sound(e)' /\ exec' \in [Execs -> Execution]
      /\ \A x \in Execs \ {e} : exec'[x] = exec[x]
  BY Forgets DEF Deliver
<1>2. Kept BY DEF Deliver, Kept
<1>3. \A x \in Execs : Sound(x)'
  BY <1>1, <1>2, SoundStays DEF Inv
<1>4. /\ exec[e].sub \in Subs
      /\ exec[e].answer = "ok" => Filed(exec[e].sub)
  BY DEF Deliver, Inv, Sound, HasSub, SaysFiled
<1>5. /\ Recorded(exec[e].answer) \in {"done", "pending", "rejected"}
      /\ Recorded(exec[e].answer) = "done" => exec[e].answer = "ok"
  BY DEF Recorded
<1>6. TypeOK' BY <1>1, <1>4, <1>5 DEF Deliver, Inv, TypeOK
<1>7. ASSUME NEW t \in Subs, status'[t] = "done" PROVE Filed(t)'
  <2>1. CASE t = exec[e].sub
    BY <1>2, <1>4, <1>5, <1>7, <2>1, FiledStays DEF Deliver, Inv, TypeOK
  <2>2. CASE t # exec[e].sub
    BY <1>2, <1>7, <2>2, FiledStays DEF Deliver, Inv, TypeOK
  <2> QED BY <2>1, <2>2
<1>8. IsFiniteSet(drive)' /\ Numbered' /\ OneReceipt' /\ OneFile' /\ RowsMatchDrive'
  BY DEF Deliver, Inv, Numbered, OneReceipt, OneFile, RowsMatchDrive
<1> QED BY <1>3, <1>6, <1>7, <1>8 DEF Inv

LEMMA FailInv ==
  ASSUME Inv, NEW e \in Execs, Fail(e) PROVE Inv'
<1>1. "retry" \in Answers \ {None} BY DEF Answers, None
<1> QED BY <1>1, QuietAnswer DEF Fail, Inv, TypeOK

LEMMA FetchFailedInv ==
  ASSUME Inv, NEW e \in Execs, FetchFailed(e) PROVE Inv'
<1>1. "retry" \in Answers \ {None} BY DEF Answers, None
<1> QED BY <1>1, QuietAnswer DEF FetchFailed, Inv, TypeOK

LEMMA FiledMeanwhileInv ==
  ASSUME Inv, NEW e \in Execs, FiledMeanwhile(e) PROVE Inv'
<1>1. "ok" \in Answers \ {None} BY DEF Answers, None
<1>2. /\ RowOf(exec[e].id) \in DOMAIN ledger /\ MyRow(e) = ledger[RowOf(exec[e].id)]
      /\ MyRow(e).key = exec[e].sub
  BY MyRowIsKnown DEF FiledMeanwhile, Working
<1>3. MyRow(e).file # 0
  BY <1>2 DEF FiledMeanwhile, Inv, RowsMatchDrive
<1>4. Filed(exec[e].sub) BY <1>2, <1>3 DEF Filed
<1> QED BY <1>1, <1>4, QuietAnswer DEF FiledMeanwhile, Inv, TypeOK

\* An execution that goes on holds what the ledger and Drive have for it.
LEMMA GoesOn ==
  ASSUME Inv, Kept, NEW e \in Execs, exec[e].at # "idle", NEW x \in Execution,
         x.sub = exec[e].sub, x.answer = exec[e].answer, exec' = [exec EXCEPT ![e] = x],
         x.at \in Working =>
           \E i \in DOMAIN ledger' :
             /\ ledger'[i].id = x.id /\ ledger'[i].key = x.sub
             /\ x.at \in {"complete", "tell"} => ledger'[i].file # 0,
         x.at = "saved" =>
           \E f \in drive' : f.nr = x.file /\ f.name = x.id /\ f.content = x.got
  PROVE  /\ Sound(e)' /\ exec' \in [Execs -> Execution]
         /\ \A y \in Execs \ {e} : exec'[y] = exec[y]
<1>1. exec'[e] = x BY DEF Inv, TypeOK
<1>2. HoldsRow(e)' BY <1>1 DEF HoldsRow
<1>3. HoldsFile(e)' BY <1>1 DEF HoldsFile
<1>4. HasSub(e)' BY <1>1 DEF HasSub, Inv, Sound
<1>5. SaysFiled(e)'
  <2>1. ASSUME x.answer = "ok" PROVE Filed(exec[e].sub)'
    <3>1. Filed(exec[e].sub) BY <2>1 DEF Inv, Sound, SaysFiled
    <3>2. PICK i \in DOMAIN ledger : ledger[i].key = exec[e].sub /\ ledger[i].file # 0
      BY <3>1 DEF Filed
    <3>3. ledger'[i].key = x.sub /\ ledger'[i].file # 0 /\ i \in DOMAIN ledger'
      BY <3>2 DEF Kept
    <3> QED BY <1>1, <3>3 DEF Filed
  <2> QED BY <1>1, <2>1 DEF SaysFiled, Filed
<1>6. exec' \in [Execs -> Execution] /\ \A y \in Execs \ {e} : exec'[y] = exec[y]
  BY DEF Inv, TypeOK
<1> QED BY <1>2, <1>3, <1>4, <1>5, <1>6 DEF Sound

\* A step that moves e on and touches nothing else.
LEMMA QuietMove ==
  ASSUME Inv, NEW e \in Execs, exec[e].at \in Working, NEW x \in Execution,
         x.sub = exec[e].sub, x.id = exec[e].id, x.answer = exec[e].answer,
         exec' = [exec EXCEPT ![e] = x], x.at \in {"complete", "tell"} => MyRow(e).file # 0,
         x.at = "saved" => \E f \in drive : f.nr = x.file /\ f.name = x.id /\ f.content = x.got,
         UNCHANGED <<status, flags, ledger, seq, drive>>, events' \in Nat
  PROVE  Inv'
<1>1. exec[e].at # "idle" /\ Kept BY DEF Working, Kept
<1>2. \E i \in DOMAIN ledger :
        /\ ledger[i].id = x.id /\ ledger[i].key = x.sub
        /\ x.at \in {"complete", "tell"} => ledger[i].file # 0
  BY MyRowIsKnown
<1>3. /\ Sound(e)' /\ exec' \in [Execs -> Execution]
      /\ \A y \in Execs \ {e} : exec'[y] = exec[y]
  BY <1>1, <1>2, GoesOn
<1> QED BY <1>3, QuietStep

LEMMA DownloadInv ==
  ASSUME Inv, NEW e \in Execs, NEW c \in Contents, Download(e, c) PROVE Inv'
<1> DEFINE x == [exec[e] EXCEPT !.at = "file", !.got = c]
<1>1. exec[e] \in Execution /\ exec[e].at \in Working /\ "file" \in Places
  BY DEF Download, Inv, TypeOK, Working, Places
<1>2. /\ x \in Execution /\ x.sub = exec[e].sub /\ x.id = exec[e].id
      /\ x.answer = exec[e].answer /\ x.at = "file"
  BY <1>1 DEF Execution
<1>3. exec' = [exec EXCEPT ![e] = x] BY DEF Download
<1>4. events' \in Nat BY DEF Download, BoundedEvent, Inv, TypeOK
<1> HIDE DEF x
<1> QED BY <1>1, <1>2, <1>3, <1>4, QuietMove DEF Download

LEMMA DownloadRefusedInv ==
  ASSUME Inv, NEW e \in Execs, DownloadRefused(e) PROVE Inv'
<1> DEFINE x == [exec[e] EXCEPT !.at = "mark"]
<1>1. exec[e] \in Execution /\ exec[e].at \in Working /\ "mark" \in Places
  BY DEF DownloadRefused, Inv, TypeOK, Working, Places
<1>2. /\ x \in Execution /\ x.sub = exec[e].sub /\ x.id = exec[e].id
      /\ x.answer = exec[e].answer /\ x.at = "mark"
  BY <1>1 DEF Execution
<1>3. exec' = [exec EXCEPT ![e] = x] BY DEF DownloadRefused, GoTo
<1>4. events' \in Nat BY DEF DownloadRefused, Inv, TypeOK
<1> HIDE DEF x
<1> QED BY <1>1, <1>2, <1>3, <1>4, QuietMove DEF DownloadRefused

LEMMA SkipToCompletionInv ==
  ASSUME Inv, NEW e \in Execs, SkipToCompletion(e) PROVE Inv'
<1> DEFINE x == [exec[e] EXCEPT !.at = "complete"]
<1>1. exec[e] \in Execution /\ exec[e].at \in Working /\ "complete" \in Places
  BY DEF SkipToCompletion, Inv, TypeOK, Working, Places
<1>2. /\ x \in Execution /\ x.sub = exec[e].sub /\ x.id = exec[e].id
      /\ x.answer = exec[e].answer /\ x.at = "complete"
  BY <1>1 DEF Execution
<1>3. exec' = [exec EXCEPT ![e] = x] BY DEF SkipToCompletion, GoTo
<1>4. events' \in Nat /\ MyRow(e).file # 0 BY DEF SkipToCompletion, Inv, TypeOK
<1> HIDE DEF x
<1> QED BY <1>1, <1>2, <1>3, <1>4, QuietMove DEF SkipToCompletion

\* The row of e is given up, and e says so.
LEMMA GivenUp ==
  ASSUME Inv, NEW e \in Execs, exec[e].at \in Working,
         UpdateExpense(exec[e].id, "ERROR"), Answer(e, "reject"),
         UNCHANGED <<status, flags, seq, drive>>, events' \in Nat
  PROVE  Inv'
<1>1. "reject" \in Answers \ {None} /\ exec[e].at # "idle" BY DEF Answers, None, Working
<1>2. Sound(e)' /\ exec' \in [Execs -> Execution] BY <1>1, Answered DEF Inv
<1>3. \A x \in Execs \ {e} : exec'[x] = exec[x] BY DEF Answer, Inv, TypeOK
<1>4. "ERROR" \in States BY DEF States
<1> QED BY <1>2, <1>3, <1>4, StateWritten

LEMMA MarkExpenseErrorInv ==
  ASSUME Inv, NEW e \in Execs, MarkExpenseError(e) PROVE Inv'
<1>1. exec[e].at \in Working BY DEF MarkExpenseError, Working
<1> QED BY <1>1, GivenUp DEF MarkExpenseError, Inv, TypeOK

LEMMA DriveUnconfiguredInv ==
  ASSUME Inv, NEW e \in Execs, DriveUnconfigured(e) PROVE Inv'
<1>1. exec[e].at \in Working BY DEF DriveUnconfigured, Working
<1> QED BY <1>1, GivenUp DEF DriveUnconfigured, Inv, TypeOK

LEMMA CompleteInv ==
  ASSUME Inv, NEW e \in Execs, Complete(e) PROVE Inv'
<1> DEFINE x == [exec[e] EXCEPT !.at = "tell"]
           k == RowOf(exec[e].id)
           r == [ledger[k] EXCEPT !.state = "COMPLETED"]
<1>1. /\ exec[e].at = "complete" /\ exec[e].at \in Working /\ exec[e].at # "idle"
      /\ exec[e] \in Execution /\ "tell" \in Places /\ "COMPLETED" \in States
  BY DEF Complete, Inv, TypeOK, Working, Places, States
<1>2. /\ x \in Execution /\ x.sub = exec[e].sub /\ x.id = exec[e].id
      /\ x.answer = exec[e].answer /\ x.at = "tell"
  BY <1>1 DEF Execution
<1>3. /\ k \in DOMAIN ledger /\ ledger[k] \in Row /\ ledger[k].file # 0
      /\ ledger[k].id = exec[e].id /\ ledger[k].key = exec[e].sub
      /\ MyRow(e).file # 0
  BY <1>1, MyRowIsKnown
<1>4. /\ r \in Row /\ r.id = ledger[k].id /\ r.key = ledger[k].key /\ r.file = ledger[k].file
  BY <1>1, <1>3 DEF Row
<1>5. ledger' = [ledger EXCEPT ![k] = r] /\ exec' = [exec EXCEPT ![e] = x]
  BY DEF Complete, UpdateExpense, GoTo
<1>6. UNCHANGED <<status, flags, seq, drive>> /\ events' \in Nat
  BY DEF Complete, Inv, TypeOK
<1> HIDE DEF x, k, r
<1>7. /\ Kept /\ DOMAIN ledger' = DOMAIN ledger /\ ledger'[k] = r
  BY <1>3, <1>4, <1>5, <1>6, RowWritten
<1>8. /\ Sound(e)' /\ exec' \in [Execs -> Execution]
      /\ \A y \in Execs \ {e} : exec'[y] = exec[y]
  BY <1>1, <1>2, <1>3, <1>4, <1>5, <1>7, GoesOn
<1> QED BY <1>1, <1>3, <1>6, <1>8, StateWritten DEF Complete

LEMMA WriteFileSavedInv ==
  ASSUME Inv, NEW e \in Execs, WriteFileSaved(e) PROVE Inv'
<1> DEFINE x == [exec[e] EXCEPT !.at = "complete", !.got = None, !.file = 0]
           k == RowOf(exec[e].id)
           r == [ledger[k] EXCEPT !.state = "FILE_SAVED", !.file = exec[e].file,
                                  !.hash = exec[e].got]
<1>1. /\ exec[e].at = "saved" /\ exec[e].at \in Working /\ exec[e].at # "idle"
      /\ exec[e] \in Execution /\ "complete" \in Places /\ "FILE_SAVED" \in States
  BY DEF WriteFileSaved, Inv, TypeOK, Working, Places, States
<1>2. /\ x \in Execution /\ x.sub = exec[e].sub /\ x.id = exec[e].id
      /\ x.answer = exec[e].answer /\ x.at = "complete"
  BY <1>1 DEF Execution
<1>3. /\ k \in DOMAIN ledger /\ ledger[k] \in Row
      /\ ledger[k].id = exec[e].id /\ ledger[k].key = exec[e].sub
  BY <1>1, MyRowIsKnown
<1>4. PICK f \in drive :
        f.nr = exec[e].file /\ f.name = exec[e].id /\ f.content = exec[e].got
  BY <1>1 DEF Inv, Sound, HoldsFile
<1>5. exec[e].file # 0 /\ exec[e].file \in Nat /\ exec[e].got \in Contents \cup {None}
  BY <1>1, <1>4 DEF Inv, TypeOK, File, Execution
<1>6. /\ r \in Row /\ r.id = ledger[k].id /\ r.key = ledger[k].key
      /\ r.file = exec[e].file /\ r.hash = exec[e].got
  BY <1>1, <1>3, <1>5 DEF Row
<1>7. ledger' = [ledger EXCEPT ![k] = r]
  BY <1>3 DEF WriteFileSaved, Inv, TypeOK, Row
<1>8. exec' = [exec EXCEPT ![e] = x]
  BY DEF WriteFileSaved
<1>9. UNCHANGED <<status, flags, seq, drive>> /\ events' \in Nat
  BY DEF WriteFileSaved, Inv, TypeOK
<1> HIDE DEF x, k, r
<1>10. /\ Kept /\ DOMAIN ledger' = DOMAIN ledger /\ ledger'[k] = r
  BY <1>3, <1>5, <1>6, <1>7, <1>9, RowWritten
<1>11. /\ Sound(e)' /\ exec' \in [Execs -> Execution]
       /\ \A y \in Execs \ {e} : exec'[y] = exec[y]
  BY <1>1, <1>2, <1>3, <1>5, <1>6, <1>8, <1>10, GoesOn
<1>12. \E g \in drive : g.nr = r.file /\ g.name = r.id /\ g.content = r.hash
  BY <1>3, <1>4, <1>6
<1> QED BY <1>3, <1>5, <1>6, <1>7, <1>9, <1>11, <1>12, RowStep

LEMMA NotifyCompletionInv ==
  ASSUME Inv, NEW e \in Execs, NotifyCompletion(e) PROVE Inv'
<1> DEFINE k == RowOf(exec[e].id)
           r == [ledger[k] EXCEPT !.dmFailed = TRUE]
<1>1. /\ exec[e].at = "tell" /\ exec[e].at \in Working /\ exec[e].at # "idle"
      /\ "ok" \in Answers \ {None}
  BY DEF NotifyCompletion, Working, Answers, None
<1>2. /\ k \in DOMAIN ledger /\ ledger[k] \in Row /\ ledger[k].file # 0
      /\ ledger[k].key = exec[e].sub
  BY <1>1, MyRowIsKnown
<1>3. Filed(exec[e].sub) BY <1>2 DEF Filed
<1>4. events' \in Nat /\ UNCHANGED <<status, flags, seq, drive>> /\ Answer(e, "ok")
  BY DEF NotifyCompletion, Inv, TypeOK
<1>5. CASE UNCHANGED ledger
  BY <1>1, <1>3, <1>4, <1>5, QuietAnswer
<1>6. CASE ledger' = [ledger EXCEPT ![k].dmFailed = TRUE]
  <2>1. /\ r \in Row /\ r.id = ledger[k].id /\ r.key = ledger[k].key
        /\ r.file = ledger[k].file /\ r.hash = ledger[k].hash /\ r.file # 0
    BY <1>2 DEF Row
  <2>2. ledger' = [ledger EXCEPT ![k] = r] BY <1>6
  <2>3. \E f \in drive : f.nr = r.file /\ f.name = r.id /\ f.content = r.hash
    BY <1>2, <2>1 DEF Inv, RowsMatchDrive
  <2> HIDE DEF k, r
  <2>4. /\ DOMAIN ledger' = DOMAIN ledger /\ ledger'[k] = r
    BY <1>2, <1>4, <2>1, <2>2, RowWritten
  <2>5. \E i \in DOMAIN ledger' : ledger'[i].key = exec[e].sub /\ ledger'[i].file # 0
    BY <1>2, <2>1, <2>4
  <2>6. exec'[e].sub = exec[e].sub BY <1>4 DEF Answer, Idle, Inv, TypeOK
  <2>7. Filed(exec[e].sub)' BY <2>5, <2>6 DEF Filed
  <2>8. Sound(e)' /\ exec' \in [Execs -> Execution]
    BY <1>1, <1>4, <2>7, Answered DEF Inv
  <2>9. \A x \in Execs \ {e} : exec'[x] = exec[x] BY <1>4 DEF Answer, Inv, TypeOK
  <2> QED BY <1>2, <1>4, <2>1, <2>2, <2>3, <2>8, <2>9, RowStep
<1> QED BY <1>5, <1>6 DEF NotifyCompletion

\* A file is saved where the folder had none of its number.
LEMMA FileSaved ==
  ASSUME Inv, NEW e \in Execs, NEW f \in File, drive' = drive \cup {f},
         \A g \in drive : g.name # f.name, Sound(e)', exec' \in [Execs -> Execution],
         \A x \in Execs \ {e} : exec'[x] = exec[x],
         UNCHANGED <<status, flags, ledger, seq>>, events' \in Nat
  PROVE  Inv'
<1>1. Kept BY DEF Kept
<1>2. /\ \A x \in Execs : Sound(x)'
      /\ \A s \in Subs : status'[s] = "done" => Filed(s)'
  BY <1>1, OthersSound
<1>3. TypeOK' BY DEF Inv, TypeOK
<1>4. IsFiniteSet(drive)' BY FS_AddElement DEF Inv
<1>5. OneFile' BY DEF Inv, OneFile
<1>6. Numbered' /\ OneReceipt' BY DEF Inv, Numbered, OneReceipt
<1>7. RowsMatchDrive' BY DEF Inv, RowsMatchDrive
<1> QED BY <1>2, <1>3, <1>4, <1>5, <1>6, <1>7 DEF Inv

LEMMA FileReceiptInv ==
  ASSUME Inv, NEW e \in Execs, FileReceipt(e) PROVE Inv'
<1> DEFINE nr == Cardinality(drive) + 1
           new == [nr |-> nr, name |-> exec[e].id, content |-> exec[e].got]
<1>1. /\ exec[e].at \in Working /\ exec[e].at # "idle" /\ exec[e] \in Execution
      /\ "saved" \in Places /\ "retry" \in Answers \ {None} /\ exec[e].got \in Contents
  BY DEF FileReceipt, Inv, TypeOK, Working, Places, Answers, Execution, None
<1>2. nr \in Nat \ {0}
  BY FS_CardinalityType DEF Inv
<1>3. /\ exec[e].id \in Ids
      /\ \E i \in DOMAIN ledger : ledger[i].id = exec[e].id /\ ledger[i].key = exec[e].sub
  BY <1>1, MyRowIsKnown DEF Row
<1>4. new \in File BY <1>1, <1>2, <1>3 DEF File
<1>5. UNCHANGED <<status, flags, seq>> /\ events' \in Nat
  BY DEF FileReceipt, Inv, TypeOK
<1>6. ASSUME FindByName(exec[e].id) = {}, drive' = drive \cup {new}, UNCHANGED ledger
      PROVE  (\A g \in drive : g.name # new.name) /\ Kept
  BY <1>6 DEF FindByName, Kept
<1>7. CASE /\ FindByName(exec[e].id) = {} /\ SaveFile(e, nr) /\ UNCHANGED ledger
           /\ exec' = [exec EXCEPT ![e].at = "saved", ![e].file = nr]
  <2> DEFINE x == [exec[e] EXCEPT !.at = "saved", !.file = nr]
  <2>1. drive' = drive \cup {new} BY <1>7 DEF SaveFile
  <2>2. (\A g \in drive : g.name # new.name) /\ Kept BY <1>6, <1>7, <2>1
  <2>3. /\ x \in Execution /\ x.sub = exec[e].sub /\ x.id = exec[e].id
        /\ x.answer = exec[e].answer /\ x.at = "saved" /\ x.file = nr /\ x.got = exec[e].got
    BY <1>1, <1>2 DEF Execution
  <2>4. exec' = [exec EXCEPT ![e] = x] BY <1>7
  <2>5. \E f \in drive' : f.nr = x.file /\ f.name = x.id /\ f.content = x.got
    <3>1. new.nr = nr /\ new.name = exec[e].id /\ new.content = exec[e].got /\ new \in drive'
      BY <2>1
    <3> HIDE DEF x, new, nr
    <3> QED BY <2>3, <3>1
  <2>6. \E i \in DOMAIN ledger' : ledger'[i].id = x.id /\ ledger'[i].key = x.sub
    BY <1>3, <1>7, <2>3
  <2> HIDE DEF x, new, nr
  <2>7. /\ Sound(e)' /\ exec' \in [Execs -> Execution]
        /\ \A y \in Execs \ {e} : exec'[y] = exec[y]
    BY <1>1, <2>2, <2>3, <2>4, <2>5, <2>6, GoesOn
  <2> QED BY <1>4, <1>5, <1>7, <2>1, <2>2, <2>7, FileSaved
<1>8. CASE /\ FindByName(exec[e].id) = {} /\ SaveFile(e, nr) /\ UNCHANGED ledger
           /\ Answer(e, "retry")
  <2>1. drive' = drive \cup {new} BY <1>8 DEF SaveFile
  <2>2. \A g \in drive : g.name # new.name BY <1>6, <1>8, <2>1
  <2> HIDE DEF new, nr
  <2>3. Sound(e)' /\ exec' \in [Execs -> Execution]
    BY <1>1, <1>8, Answered DEF Inv
  <2>4. \A y \in Execs \ {e} : exec'[y] = exec[y] BY <1>8 DEF Answer, Inv, TypeOK
  <2> QED BY <1>4, <1>5, <1>8, <2>1, <2>2, <2>3, <2>4, FileSaved
<1>9. ASSUME NEW f \in FindByName(exec[e].id), SameFile(f, exec[e].got),
             exec' = [exec EXCEPT ![e].at = "saved", ![e].file = f.nr],
             UNCHANGED <<ledger, drive>>
      PROVE  Inv'
  <2> DEFINE x == [exec[e] EXCEPT !.at = "saved", !.file = f.nr]
  <2>1. /\ f \in drive /\ f.name = exec[e].id /\ f.content = exec[e].got /\ f.nr \in Nat
    BY <1>9 DEF FindByName, SameFile, Inv, TypeOK, File
  <2>2. /\ x \in Execution /\ x.sub = exec[e].sub /\ x.id = exec[e].id
        /\ x.answer = exec[e].answer /\ x.at = "saved" /\ x.file = f.nr /\ x.got = exec[e].got
    BY <1>1, <2>1 DEF Execution
  <2>3. exec' = [exec EXCEPT ![e] = x] BY <1>9
  <2> HIDE DEF x
  <2>4. \E g \in drive : g.nr = x.file /\ g.name = x.id /\ g.content = x.got
    BY <2>1, <2>2
  <2>5. x.at \notin {"complete", "tell"} BY <2>2
  <2>6. UNCHANGED <<status, flags, ledger, seq, drive>> BY <1>5, <1>9
  <2> QED BY <1>1, <1>5, <2>2, <2>3, <2>4, <2>5, <2>6, QuietMove
<1>10. CASE UpdateExpense(exec[e].id, "ERROR") /\ Answer(e, "reject") /\ UNCHANGED drive
  BY <1>1, <1>5, <1>10, GivenUp
<1> QED BY <1>7, <1>8, <1>9, <1>10 DEF FileReceipt

\* An execution takes up the row that its submission has.
LEMMA ResumeInv ==
  ASSUME Inv, NEW e \in Execs, exec[e].at = "accept", NEW i \in RowsWith(exec[e].sub),
         Resume(e, ledger[i]), UNCHANGED <<status, flags, ledger, seq, drive, events>>
  PROVE  Inv'
<1> DEFINE row == ledger[i]
           place == IF row.state = "RECEIVED" THEN "load" ELSE "file"
           x == [exec[e] EXCEPT !.at = place, !.id = row.id]
<1>1. /\ i \in DOMAIN ledger /\ row \in Row /\ row.key = exec[e].sub
      /\ exec[e] \in Execution /\ exec[e].at # "idle" /\ events' \in Nat
  BY DEF RowsWith, Inv, TypeOK
<1>2. "ok" \in Answers \ {None} /\ "reject" \in Answers \ {None} /\ place \in Places
  BY DEF Answers, None, Places
<1>3. CASE Duplicate(row)
  <2>1. row.file # 0 BY <1>1, <1>3 DEF Duplicate, Inv, RowsMatchDrive
  <2>2. Filed(exec[e].sub) BY <1>1, <2>1 DEF Filed
  <2>3. Answer(e, "ok") BY <1>3 DEF Resume
  <2> QED BY <1>1, <1>2, <2>2, <2>3, QuietAnswer
<1>4. CASE ~Duplicate(row) /\ row.state \in {"ERROR", "VOID"}
  BY <1>1, <1>2, <1>4, QuietAnswer DEF Resume
<1>5. CASE ~Duplicate(row) /\ row.state \notin {"ERROR", "VOID"}
  <2>1. /\ x \in Execution /\ x.sub = exec[e].sub /\ x.id = row.id
        /\ x.answer = exec[e].answer /\ x.at = place
    BY <1>1, <1>2 DEF Execution, Row
  <2>2. exec' = [exec EXCEPT ![e] = x] BY <1>5 DEF Resume
  <2>3. x.at \notin {"saved", "complete", "tell"} BY <2>1
  <2>4. \E j \in DOMAIN ledger : ledger[j].id = x.id /\ ledger[j].key = x.sub
    BY <1>1, <2>1
  <2>5. Kept BY DEF Kept
  <2> HIDE DEF x
  <2>6. /\ Sound(e)' /\ exec' \in [Execs -> Execution]
        /\ \A y \in Execs \ {e} : exec'[y] = exec[y]
    BY <1>1, <2>1, <2>2, <2>3, <2>4, <2>5, GoesOn
  <2> QED BY <1>1, <2>6, QuietStep
<1> QED BY <1>3, <1>4, <1>5

\* What is known of the number of a row.
LEMMA RowNumber ==
  ASSUME Inv, NEW i \in DOMAIN ledger
  PROVE  /\ ledger[i].id \in Ids /\ ledger[i].id[1] \in Days /\ ledger[i].id[2] \in Nat
         /\ ledger[i].id[2] <= seq[ledger[i].id[1]]
<1>1. ledger[i] \in Row BY DEF Inv, TypeOK
<1>2. ledger[i].id \in Ids BY <1>1 DEF Row
<1> QED BY <1>2 DEF Ids, Inv, Numbered

LEMMA NewRowInv ==
  ASSUME Inv, NEW e \in Execs, exec[e].at = "accept", RowsWith(exec[e].sub) = {},
         NewRow(e, exec[e].sub), UNCHANGED <<status, flags, drive, events>>
  PROVE  Inv'
<1> DEFINE s == exec[e].sub
           d == DayOf[s]
           id == <<d, seq[d] + 1>>
           r == [id |-> id, key |-> s, state |-> "RECEIVED", file |-> 0,
                 hash |-> None, dmFailed |-> FALSE]
           x == [exec[e] EXCEPT !.at = "load", !.id = id]
<1>1. /\ exec[e] \in Execution /\ exec[e].at # "idle" /\ s \in Subs
      /\ "load" \in Places /\ events' \in Nat
  BY DEF Inv, TypeOK, Sound, HasSub, Places
<1>2. d \in Days /\ seq[d] \in Nat /\ id \in Ids /\ seq \in [Days -> Nat]
  BY <1>1, SubsAssumption DEF Inv, TypeOK, Ids
<1>3. /\ r \in Row /\ r.id = id /\ r.key = s /\ r.file = 0 /\ r.state = "RECEIVED"
  BY <1>1, <1>2 DEF Row, States
<1>4. /\ x \in Execution /\ x.sub = s /\ x.id = id /\ x.at = "load"
      /\ x.answer = exec[e].answer
  BY <1>1, <1>2 DEF Execution
<1>5. /\ seq' = [seq EXCEPT ![d] = seq[d] + 1] /\ ledger' = Append(ledger, r)
      /\ exec' = [exec EXCEPT ![e] = x]
  BY DEF NewRow
<1>6. id[1] = d /\ id[2] = seq[d] + 1 OBVIOUS
<1> HIDE DEF r, x, id, d
<1>7. /\ seq' \in [Days -> Nat] /\ seq'[d] = seq[d] + 1
      /\ \A c \in Days : seq[c] <= seq'[c]
  BY <1>2, <1>5
<1>8. /\ ledger' \in Seq(Row) /\ DOMAIN ledger' = DOMAIN ledger \cup {Len(ledger) + 1}
      /\ ledger'[Len(ledger) + 1] = r
      /\ \A i \in DOMAIN ledger : ledger'[i] = ledger[i]
      /\ Len(ledger) + 1 \notin DOMAIN ledger
  <2>1. ledger \in Seq(Row) BY DEF Inv, TypeOK
  <2> QED BY <1>3, <1>5, <2>1, AppendProperties
<1>9. Kept BY <1>8 DEF Kept
<1>10. \A i \in DOMAIN ledger : ledger[i].id # id /\ ledger[i].key # s
  <2>1. ASSUME NEW i \in DOMAIN ledger PROVE ledger[i].id # id
    <3>1. ledger[i].id[2] <= seq[ledger[i].id[1]] BY DEF Inv, Numbered
    <3> QED BY <1>2, <1>6, <3>1
  <2>2. ASSUME NEW i \in DOMAIN ledger PROVE ledger[i].key # s BY DEF RowsWith
  <2> QED BY <2>1, <2>2
<1>11. OneReceipt'
  BY <1>3, <1>8, <1>10 DEF Inv, OneReceipt
<1>12. Numbered'
  <2>1. ASSUME NEW i \in DOMAIN ledger PROVE ledger'[i].id[2] <= seq'[ledger'[i].id[1]]
    BY <1>2, <1>7, <1>8, RowNumber
  <2>2. r.id[2] <= seq'[r.id[1]] BY <1>2, <1>3, <1>6, <1>7
  <2> QED BY <1>8, <2>1, <2>2 DEF Numbered
<1>13. RowsMatchDrive'
  BY <1>3, <1>8 DEF Inv, RowsMatchDrive
<1>14. /\ Sound(e)' /\ exec' \in [Execs -> Execution]
       /\ \A y \in Execs \ {e} : exec'[y] = exec[y]
  <2>1. \E i \in DOMAIN ledger' : ledger'[i].id = x.id /\ ledger'[i].key = x.sub
    BY <1>3, <1>4, <1>8
  <2>2. x.at \notin {"saved", "complete", "tell"} BY <1>4
  <2> QED BY <1>1, <1>4, <1>5, <1>9, <2>1, <2>2, GoesOn
<1>15. /\ \A y \in Execs : Sound(y)'
       /\ \A t \in Subs : status'[t] = "done" => Filed(t)'
  BY <1>9, <1>14, OthersSound
<1>16. TypeOK' BY <1>1, <1>7, <1>8, <1>14 DEF Inv, TypeOK
<1>17. IsFiniteSet(drive)' /\ OneFile' BY DEF Inv, OneFile
<1> QED BY <1>11, <1>12, <1>13, <1>15, <1>16, <1>17 DEF Inv

LEMMA Phase1Inv ==
  ASSUME Inv, NEW e \in Execs, Phase1(e) PROVE Inv'
<1>1. exec[e].at = "accept" /\ UNCHANGED <<status, flags, drive, events>> /\ events' \in Nat
  BY DEF Phase1, Inv, TypeOK
<1>2. CASE Answer(e, "shut") /\ UNCHANGED <<ledger, seq>>
  <2>1. "shut" \in Answers \ {None} BY DEF Answers, None
  <2> QED BY <1>1, <1>2, <2>1, QuietAnswer
<1>3. CASE RowsWith(exec[e].sub) = {} /\ NewRow(e, exec[e].sub)
  BY <1>1, <1>3, NewRowInv
<1>4. ASSUME NEW i \in RowsWith(exec[e].sub), Resume(e, ledger[i]), UNCHANGED <<ledger, seq>>
      PROVE  Inv'
  BY <1>1, <1>4, ResumeInv
<1> QED BY <1>2, <1>3, <1>4 DEF Phase1

LEMMA NumberThenFailInv ==
  ASSUME Inv, NEW e \in Execs, NumberThenFail(e) PROVE Inv'
<1> DEFINE d == DayOf[exec[e].sub]
<1>1. /\ exec[e].at # "idle" /\ exec[e].sub \in Subs /\ "retry" \in Answers \ {None}
      /\ Answer(e, "retry") /\ UNCHANGED <<status, flags, ledger, drive>> /\ events' \in Nat
  BY DEF NumberThenFail, Inv, TypeOK, Sound, HasSub, Answers, None, BoundedEvent
<1>2. d \in Days /\ seq' = [seq EXCEPT ![d] = seq[d] + 1] /\ seq \in [Days -> Nat]
  BY <1>1, SubsAssumption DEF NumberThenFail, Inv, TypeOK
<1> HIDE DEF d
<1>3. seq' \in [Days -> Nat] /\ \A c \in Days : seq[c] <= seq'[c]
  BY <1>2
<1>4. Numbered'
  <2> SUFFICES ASSUME NEW i \in DOMAIN ledger PROVE ledger[i].id[2] <= seq'[ledger[i].id[1]]
    BY <1>1 DEF Numbered
  <2> QED BY <1>2, <1>3, RowNumber
<1>5. Sound(e)' /\ exec' \in [Execs -> Execution] BY <1>1, Answered DEF Inv
<1>6. \A x \in Execs \ {e} : exec'[x] = exec[x] BY <1>1 DEF Answer, Inv, TypeOK
<1>7. Kept BY <1>1 DEF Kept
<1>8. /\ \A y \in Execs : Sound(y)'
      /\ \A t \in Subs : status'[t] = "done" => Filed(t)'
  BY <1>1, <1>5, <1>6, <1>7, OthersSound
<1>9. TypeOK' BY <1>1, <1>3, <1>5 DEF Inv, TypeOK
<1>10. IsFiniteSet(drive)' /\ OneFile' /\ OneReceipt' /\ RowsMatchDrive'
  BY <1>1 DEF Inv, OneFile, OneReceipt, RowsMatchDrive
<1> QED BY <1>4, <1>8, <1>9, <1>10 DEF Inv

\* What nobody's execution does: no execution moves.
LEMMA NobodyMoves ==
  ASSUME Inv, Kept, UNCHANGED <<status, exec>>
  PROVE  /\ \A y \in Execs : Sound(y)'
         /\ \A t \in Subs : status'[t] = "done" => Filed(t)'
BY SoundStays, FiledStays DEF Inv

LEMMA FlipInv ==
  ASSUME Inv, NEW side \in {"worker", "gas"}, NEW f \in Features, Flip(side, f) PROVE Inv'
<1>1. Kept /\ UNCHANGED <<status, exec>> BY DEF Flip, Kept
<1>2. TypeOK'
  <2>1. flags' \in [{"worker", "gas"} -> SUBSET Features] BY DEF Flip, Inv, TypeOK
  <2> QED BY <2>1 DEF Flip, BoundedEvent, Inv, TypeOK
<1>3. IsFiniteSet(drive)' /\ Numbered' /\ OneReceipt' /\ OneFile' /\ RowsMatchDrive'
  BY DEF Flip, Inv, Numbered, OneReceipt, OneFile, RowsMatchDrive
<1> QED BY <1>1, <1>2, <1>3, NobodyMoves DEF Inv

LEMMA CancelInv ==
  ASSUME Inv, NEW k \in DOMAIN ledger, NEW st \in {"CORRECTED", "VOID"}, Cancel(k, st)
  PROVE  Inv'
<1> DEFINE r == [ledger[k] EXCEPT !.state = st]
<1>1. ledger[k] \in Row /\ st \in States BY DEF Inv, TypeOK, States
<1>2. /\ r \in Row /\ r.id = ledger[k].id /\ r.key = ledger[k].key
      /\ r.file = ledger[k].file /\ r.hash = ledger[k].hash /\ r.state = st
  BY <1>1 DEF Row
<1>3. /\ ledger' = [ledger EXCEPT ![k] = r] /\ UNCHANGED <<status, flags, seq, drive, exec>>
      /\ events' \in Nat
  BY DEF Cancel, BoundedEvent, Inv, TypeOK
<1> HIDE DEF r
<1>4. /\ ledger' \in Seq(Row) /\ Kept /\ Numbered' /\ OneReceipt'
      /\ DOMAIN ledger' = DOMAIN ledger
      /\ \A i \in DOMAIN ledger : ledger'[i] = IF i = k THEN r ELSE ledger[i]
  BY <1>2, <1>3, RowWritten
<1>5. RowsMatchDrive'
  <2> SUFFICES ASSUME NEW i \in DOMAIN ledger
               PROVE  /\ ledger'[i].state \in {"FILE_SAVED", "COMPLETED"} => ledger'[i].file # 0
                      /\ ledger'[i].file # 0 =>
                           \E f \in drive : /\ f.nr = ledger'[i].file /\ f.name = ledger'[i].id
                                            /\ f.content = ledger'[i].hash
    BY <1>3, <1>4 DEF RowsMatchDrive
  <2>1. /\ ledger'[i].file = ledger[i].file /\ ledger'[i].id = ledger[i].id
        /\ ledger'[i].hash = ledger[i].hash
        /\ ledger'[i].state \in {"FILE_SAVED", "COMPLETED"} =>
             ledger[i].state \in {"FILE_SAVED", "COMPLETED"}
    BY <1>2, <1>4
  <2>2. /\ ledger[i].state \in {"FILE_SAVED", "COMPLETED"} => ledger[i].file # 0
        /\ ledger[i].file # 0 =>
             \E f \in drive : /\ f.nr = ledger[i].file /\ f.name = ledger[i].id
                              /\ f.content = ledger[i].hash
    BY DEF Inv, RowsMatchDrive
  <2> QED BY <2>1, <2>2
<1>6. TypeOK' BY <1>3, <1>4 DEF Inv, TypeOK
<1>7. IsFiniteSet(drive)' /\ OneFile' BY <1>3 DEF Inv, OneFile
<1>8. /\ \A y \in Execs : Sound(y)'
      /\ \A t \in Subs : status'[t] = "done" => Filed(t)'
  BY <1>3, <1>4, NobodyMoves
<1> QED BY <1>4, <1>5, <1>6, <1>7, <1>8 DEF Inv

-----------------------------------------------------------------------------
LEMMA InitInv == Init => Inv
<1> SUFFICES ASSUME Init PROVE Inv OBVIOUS
<1>1. DOMAIN ledger = {} /\ ledger \in Seq(Row) BY DEF Init
<1>2. \A e \in Execs : exec[e] = Idle BY DEF Init
<1>3. Idle \in Execution /\ Idle.at = "idle" /\ Idle.answer = None
  BY DEF Idle, Execution, Places, Answers
<1>4. TypeOK BY <1>1, <1>3, BoundAssumption DEF Init, TypeOK
<1>5. ASSUME NEW e \in Execs PROVE Sound(e)
  BY <1>2, <1>3 DEF Sound, HoldsRow, HoldsFile, HasSub, SaysFiled, Working, None
<1>6. IsFiniteSet(drive) /\ OneFile BY FS_EmptySet DEF Init, OneFile
<1>7. Numbered /\ OneReceipt /\ RowsMatchDrive
  BY <1>1 DEF Numbered, OneReceipt, RowsMatchDrive
<1>8. \A s \in Subs : status[s] = "done" => Filed(s) BY DEF Init
<1> QED BY <1>4, <1>5, <1>6, <1>7, <1>8 DEF Inv

LEMMA NextInv == Inv /\ [Next]_vars => Inv'
<1> SUFFICES ASSUME Inv, [Next]_vars PROVE Inv' OBVIOUS
<1>1. CASE UNCHANGED vars
  <2>1. Kept /\ UNCHANGED <<status, exec>> BY <1>1 DEF vars, Kept
  <2>2. /\ TypeOK' /\ IsFiniteSet(drive)' /\ Numbered' /\ OneReceipt' /\ OneFile'
        /\ RowsMatchDrive'
    BY <1>1 DEF vars, Inv, TypeOK, Numbered, OneReceipt, OneFile, RowsMatchDrive
  <2> QED BY <2>1, <2>2, NobodyMoves DEF Inv
<1>2. ASSUME NEW e \in Execs, GasStep(e) PROVE Inv'
  BY <1>2, Phase1Inv, NumberThenFailInv, FetchFailedInv, DownloadRefusedInv,
     MarkExpenseErrorInv, DownloadInv, FiledMeanwhileInv, FileReceiptInv,
     DriveUnconfiguredInv, WriteFileSavedInv, SkipToCompletionInv, CompleteInv,
     NotifyCompletionInv, FailInv DEF GasStep
<1>3. ASSUME NEW e \in Execs, Deliver(e) \/ Lose(e) PROVE Inv'
  BY <1>3, DeliverInv, LoseInv
<1>4. ASSUME NEW s \in Subs, Submit(s) \/ \E e \in Execs : Send(e, s) PROVE Inv'
  BY <1>4, SubmitInv, SendInv
<1>5. ASSUME NEW side \in {"worker", "gas"}, NEW f \in Features, Flip(side, f) PROVE Inv'
  BY <1>5, FlipInv
<1>6. ASSUME NEW i \in DOMAIN ledger, NEW st \in {"CORRECTED", "VOID"}, Cancel(i, st)
      PROVE  Inv'
  BY <1>6, CancelInv
<1> QED BY <1>1, <1>2, <1>3, <1>4, <1>5, <1>6 DEF Next

THEOREM Invariance == Spec => []Inv
BY InitInv, NextInv, PTL DEF Spec


-----------------------------------------------------------------------------
(* Files and the weekly check.                                             *)

\* A file is never saved but for a row.
FilesHaveRows == \A f \in drive : \E i \in DOMAIN ledger : ledger[i].id = f.name

\* Numbers of rows stay.
LEMMA RowsStay ==
  ASSUME Inv, [Next]_vars, NEW i \in DOMAIN ledger
  PROVE  i \in DOMAIN ledger' /\ ledger'[i].id = ledger[i].id
<1>1. CASE UNCHANGED ledger BY <1>1
<1>2. ASSUME NEW e \in Execs, Phase1(e) PROVE i \in DOMAIN ledger' /\ ledger'[i].id = ledger[i].id
  <2>1. ledger \in Seq(Row) BY DEF Inv, TypeOK
  <2>2. UNCHANGED ledger \/ \E row : ledger' = Append(ledger, row)
    BY <1>2 DEF Phase1, NewRow
  <2>3. i \in 1 .. Len(ledger) BY <2>1
  <2> QED BY <2>1, <2>2, <2>3
<1>3. ASSUME \E k, st : ledger' = [ledger EXCEPT ![k].state = st]
      PROVE  i \in DOMAIN ledger' /\ ledger'[i].id = ledger[i].id
  <2>1. PICK k, st : ledger' = [ledger EXCEPT ![k].state = st] BY <1>3
  <2>2. DOMAIN ledger' = DOMAIN ledger BY <2>1
  <2>3. ledger'[i] = IF i = k THEN [ledger[i] EXCEPT !.state = st] ELSE ledger[i] BY <2>1
  <2>4. ledger[i] \in Row BY DEF Inv, TypeOK
  <2> QED BY <2>2, <2>3, <2>4 DEF Row
<1>4. ASSUME NEW e \in Execs, WriteFileSaved(e) \/ NotifyCompletion(e)
      PROVE  i \in DOMAIN ledger' /\ ledger'[i].id = ledger[i].id
  <2>1. ledger[i] \in Row BY DEF Inv, TypeOK
  <2>2. DOMAIN ledger' = DOMAIN ledger BY <1>4 DEF WriteFileSaved, NotifyCompletion
  <2>3. ledger'[i].id = ledger[i].id
    BY <1>4, <2>1 DEF WriteFileSaved, NotifyCompletion, Row
  <2> QED BY <2>2, <2>3
<1>5. ASSUME NEW e \in Execs, MarkExpenseError(e) \/ FileReceipt(e) \/ DriveUnconfigured(e)
                              \/ Complete(e)
      PROVE  UNCHANGED ledger \/ \E k, st : ledger' = [ledger EXCEPT ![k].state = st]
  BY <1>5 DEF MarkExpenseError, FileReceipt, DriveUnconfigured, Complete, UpdateExpense
<1>6. ASSUME NEW e \in Execs, GasStep(e)
      PROVE  \/ UNCHANGED ledger
             \/ Phase1(e) \/ WriteFileSaved(e) \/ NotifyCompletion(e)
             \/ \E k, st : ledger' = [ledger EXCEPT ![k].state = st]
  BY <1>5, <1>6 DEF GasStep, NumberThenFail, FetchFailed, DownloadRefused, Download,
                    FiledMeanwhile, SkipToCompletion, Fail
<1>7. \/ UNCHANGED ledger
      \/ \E e \in Execs : GasStep(e)
      \/ \E k, st : ledger' = [ledger EXCEPT ![k].state = st]
  BY DEF Next, Submit, Send, Deliver, Lose, Flip, Cancel, vars
<1> QED BY <1>1, <1>2, <1>3, <1>4, <1>6, <1>7

\* What is saved bears the number the execution works on.
LEMMA FilesAreForRows ==
  ASSUME Inv, [Next]_vars, NEW f \in drive', f \notin drive
  PROVE  \E e \in Execs : exec[e].at = "file" /\ f.name = exec[e].id
<1>1. ASSUME NEW e \in Execs, FileReceipt(e)
      PROVE  exec[e].at = "file" /\ f.name = exec[e].id
  BY <1>1 DEF FileReceipt, SaveFile
<1>2. ASSUME NEW e \in Execs, GasStep(e)
      PROVE  UNCHANGED drive \/ FileReceipt(e)
  BY <1>2 DEF GasStep, Phase1, NumberThenFail, FetchFailed, DownloadRefused, MarkExpenseError,
     Download, FiledMeanwhile, DriveUnconfigured, WriteFileSaved, SkipToCompletion, Complete,
     NotifyCompletion, Fail
<1>3. UNCHANGED drive \/ \E e \in Execs : GasStep(e)
  BY DEF Next, Submit, Send, Deliver, Lose, Flip, Cancel, vars
<1> QED BY <1>1, <1>2, <1>3

LEMMA FilesHaveRowsAlways == Spec => []FilesHaveRows
<1>1. Init => FilesHaveRows BY DEF Init, FilesHaveRows
<1>2. Inv /\ FilesHaveRows /\ [Next]_vars => FilesHaveRows'
  <2> SUFFICES ASSUME Inv, FilesHaveRows, [Next]_vars, NEW f \in drive'
               PROVE  \E i \in DOMAIN ledger : ledger[i].id = f.name
    BY RowsStay DEF FilesHaveRows
  <2>1. CASE f \in drive BY <2>1 DEF FilesHaveRows
  <2>2. CASE f \notin drive
    <3>1. PICK e \in Execs : exec[e].at = "file" /\ f.name = exec[e].id
      BY <2>2, FilesAreForRows
    <3> QED BY <3>1 DEF Inv, Sound, HoldsRow, Working
  <2> QED BY <2>1, <2>2
<1> QED BY <1>1, <1>2, Invariance, PTL DEF Spec

\* A completed row names its file, and no other file has its number.
LEMMA StraysListed ==
  ASSUME Inv, FilesHaveRows
  PROVE  StrayFilesAreListed
<1> SUFFICES ASSUME NEW f \in drive, Stray(f)
             PROVE  \E i \in DOMAIN ledger :
                      /\ ledger[i].id = f.name
                      /\ \/ i \in WeeklyCheck.stalled
                         \/ ledger[i].state \in {"CORRECTED", "VOID"}
  BY DEF StrayFilesAreListed
<1>1. PICK i \in DOMAIN ledger : ledger[i].id = f.name BY DEF FilesHaveRows
<1>2. ledger[i].state # "COMPLETED"
  <2> SUFFICES ASSUME ledger[i].state = "COMPLETED" PROVE FALSE OBVIOUS
  <2>1. PICK g \in drive : g.nr = ledger[i].file /\ g.name = ledger[i].id
    BY DEF Inv, RowsMatchDrive
  <2>2. g = f BY <1>1, <2>1 DEF Inv, OneFile
  <2> QED BY <2>1, <2>2 DEF Stray
<1>3. \/ i \in WeeklyCheck.stalled
      \/ ledger[i].state \in {"CORRECTED", "VOID"}
  BY <1>2 DEF WeeklyCheck
<1> QED BY <1>1, <1>3

-----------------------------------------------------------------------------
(* The theorems.                                                           *)

\* Every variable keeps its type: a row has a number and a submission, and an
\* execution one of the places of handleExpenseSubmit.
THEOREM TypeCorrect == Spec => []TypeOK
BY Invariance, PTL DEF Inv

\* Whatever dies and whatever is repeated: one row and one file for a submission,
\* and no number twice (phase1 and the search in phase3, both under the lock).
THEOREM ReceiptFiledOnce == Spec => []FiledOnce
<1>1. Inv => FiledOnce BY DEF Inv, FiledOnce
<1> QED BY <1>1, Invariance, PTL

\* The file's id and hash in the ledger are those of a file in Drive that has the
\* receipt's number (phase3: the hash is of the bytes compared with the file found), and
\* the weekly check lists the row of any other file that was not cancelled.
THEOREM LedgerIsTrue == Spec => []LedgerMatchesDrive
<1>1. Inv /\ FilesHaveRows => LedgerMatchesDrive
  BY StraysListed DEF Inv, LedgerMatchesDrive
<1> QED BY <1>1, Invariance, FilesHaveRowsAlways, PTL

\* A submission recorded as done has a row with a file (handleExpenseSubmit answers
\* ok only of a row it has completed or finds completed).
THEOREM DoneIsFiled == Spec => []DoneMeansFiled
<1>1. Inv => DoneMeansFiled BY DEF Inv, DoneMeansFiled, Filed, RowsWith
<1> QED BY <1>1, Invariance, PTL
=============================================================================
