------------------------------ MODULE Expense ------------------------------
(***************************************************************************)
(* A receipt handed in with /keihi: the Worker journals the submission, and *)
(* GAS files it in three phases (handleExpenseSubmit): a row of the ledger  *)
(* under the lock, the download of the file from Slack outside of it, and   *)
(* under the lock again the file in Drive and the completion of the row.    *)
(*                                                                          *)
(*   no row --> RECEIVED --> FILE_SAVED --> COMPLETED --> CORRECTED, VOID   *)
(*                  \-----------> ERROR                   (the operator)    *)
(*                                                                          *)
(* The download takes longer than the Worker waits, so that executions of   *)
(* one submission overlap: the first, and the repeats sent by the cron.     *)
(*                                                                          *)
(* Abstractions: the Worker's journal is one status per submission (module  *)
(* Delivery has its detail); a submission that got past the Worker's checks *)
(* gets past the same checks in GAS; a file is its content, and contents    *)
(* differ in size; one write to a row is one step.                          *)
(***************************************************************************)
EXTENDS Naturals, Sequences, FiniteSets

CONSTANTS
  Subs,       \* submissions of the modal, by idempotency key
  EDocs,      \* those of receipt_type e_doc
  Days,       \* the dates of receipts
  DayOf,      \* DayOf[s]: the date entered
  Execs,      \* executions of GAS that may overlap
  MaxEvents   \* bound: downloads that return other bytes than the file's, executions
              \* killed between a number and its row, and acts of the operator

ASSUME SubsAssumption == EDocs \subseteq Subs /\ DayOf \in [Subs -> Days]
ASSUME BoundAssumption == MaxEvents \in Nat

VARIABLES
  status,   \* status[s]: the submission's row in the Worker's journal
  flags,    \* flags[side]: the features switched on in D1, in Script Properties
  ledger,   \* the rows of the expense ledger, in the order they were appended
  seq,      \* seq[d]: the last receipt number of the day (receipt_seq)
  drive,    \* the files in the receipt folders of Drive
  exec,     \* exec[e]: where an execution of GAS stands
  events    \* how many of the bounded events have happened

vars == <<status, flags, ledger, seq, drive, exec, events>>

States   == {"RECEIVED", "FILE_SAVED", "COMPLETED", "ERROR", "CORRECTED", "VOID"}
Features == {"expense", "e_doc"}
Contents == {"whole", "cut"}
None     == "none"
NoId     == <<>>
Ids      == Days \X (Nat \ {0})
Places   == {"idle", "accept", "load", "mark", "file", "saved", "complete", "tell", "answer"}
Answers  == {None, "ok", "retry", "reject", "shut"}   \* shut: *_DISABLED

Row  == [id : Ids, key : Subs, state : States, file : Nat, hash : Contents \cup {None},
         dmFailed : BOOLEAN]
File == [nr : Nat \ {0}, name : Ids, content : Contents]
Execution == [at : Places, sub : Subs \cup {None}, id : Ids \cup {NoId},
              got : Contents \cup {None}, file : Nat, answer : Answers]

Idle == [at |-> "idle", sub |-> None, id |-> NoId, got |-> None, file |-> 0, answer |-> None]

TypeOK ==
  /\ status \in [Subs -> {"none", "pending", "done", "rejected"}]
  /\ flags \in [{"worker", "gas"} -> SUBSET Features]
  /\ ledger \in Seq(Row)
  /\ seq \in [Days -> Nat]
  /\ drive \subseteq File
  /\ exec \in [Execs -> Execution]
  /\ events \in Nat

Init ==
  /\ status = [s \in Subs |-> "none"]
  /\ flags = [side \in {"worker", "gas"} |-> Features]
  /\ ledger = <<>>
  /\ seq = [d \in Days |-> 0]
  /\ drive = {}
  /\ exec = [e \in Execs |-> Idle]
  /\ events = 0

BoundedEvent == events < MaxEvents /\ events' = events + 1

-----------------------------------------------------------------------------
(* The Worker.                                                             *)

Needed(s) == {"expense"} \cup IF s \in EDocs THEN {"e_doc"} ELSE {}

\* handleExpenseSubmission: flags, checks, INSERT; nothing is kept if one fails.
Submit(s) ==
  /\ status[s] = "none" /\ Needed(s) \subseteq flags["worker"]
  /\ status' = [status EXCEPT ![s] = "pending"]
  /\ UNCHANGED <<flags, ledger, seq, drive, exec, events>>

\* The background job or a run of the cron sends the row; it may give up waiting
\* and another may send it again while GAS still works.
Send(e, s) ==
  /\ status[s] = "pending" /\ exec[e] = Idle
  /\ exec' = [exec EXCEPT ![e] = [Idle EXCEPT !.at = "accept", !.sub = s]]
  /\ UNCHANGED <<status, flags, ledger, seq, drive, events>>

Recorded(answer) ==
  CASE answer = "ok" -> "done" [] answer = "retry" -> "pending" [] OTHER -> "rejected"

\* sendToGas returns, recordAttemptResult.
Deliver(e) ==
  /\ exec[e].at = "answer"
  /\ status' = [status EXCEPT ![exec[e].sub] = Recorded(exec[e].answer)]
  /\ exec' = [exec EXCEPT ![e] = Idle]
  /\ UNCHANGED <<flags, ledger, seq, drive, events>>

\* Nobody waits for the answer any more.
Lose(e) ==
  /\ exec[e].at = "answer"
  /\ exec' = [exec EXCEPT ![e] = Idle]
  /\ UNCHANGED <<status, flags, ledger, seq, drive, events>>

-----------------------------------------------------------------------------
(* GAS: the lock, the ledger and the answers.                              *)

\* The steps that follow another one in the same section of the lock.
LockFree == \A e \in Execs : exec[e].at \notin {"saved", "complete", "tell"}

RowOf(id) == CHOOSE i \in DOMAIN ledger : ledger[i].id = id
MyRow(e)  == ledger[RowOf(exec[e].id)]

UpdateExpense(id, state) == ledger' = [ledger EXCEPT ![RowOf(id)].state = state]

GoTo(e, place)    == exec' = [exec EXCEPT ![e].at = place]
Answer(e, answer) ==
  exec' = [exec EXCEPT ![e] = [Idle EXCEPT !.at = "answer", !.sub = exec[e].sub, !.answer = answer]]

\* LOCK_TIMEOUT, an exception, a killed execution: the Worker is to try again.
\* Whatever the execution has written by then stays.
Fail(e) ==
  /\ exec[e].at \notin {"idle", "answer"}
  /\ Answer(e, "retry")
  /\ UNCHANGED <<status, flags, ledger, seq, drive, events>>

-----------------------------------------------------------------------------
(* Phase 1, under the lock.                                                *)

\* Mutants: only a filed row is found; an error counts as filed; a flag that is off
\* stops a repeat, too.
RowsFiled(s) == {i \in DOMAIN ledger : ledger[i].key = s /\ ledger[i].state = "COMPLETED"}
DuplicateOrError(row) == row.state \in {"COMPLETED", "ERROR"}
OpenByFlagOnly(s) == Needed(s) \subseteq flags["gas"]

\* findExpenseByIdempotencyKey
RowsWith(s) == {i \in DOMAIN ledger : ledger[i].key = s}

Duplicate(row) == row.state = "COMPLETED"

\* The flags are asked only where a row would be made.
Open(s) == RowsWith(s) # {} \/ Needed(s) \subseteq flags["gas"]

\* The row is there: filed already, given up, or to be resumed where it stands.
Resume(e, row) ==
  IF Duplicate(row) THEN Answer(e, "ok")
  ELSE IF row.state \in {"ERROR", "VOID"} THEN Answer(e, "reject")
  ELSE exec' = [exec EXCEPT ![e].at = IF row.state = "RECEIVED" THEN "load" ELSE "file",
                            ![e].id = row.id]

\* nextReceiptSeq, makeReceiptId, appendExpense.
NewRow(e, s) ==
  LET id == <<DayOf[s], seq[DayOf[s]] + 1>> IN
  /\ seq' = [seq EXCEPT ![DayOf[s]] = @ + 1]
  /\ ledger' = Append(ledger, [id |-> id, key |-> s, state |-> "RECEIVED", file |-> 0,
                               hash |-> None, dmFailed |-> FALSE])
  /\ exec' = [exec EXCEPT ![e].at = "load", ![e].id = id]

Phase1(e) ==
  LET s == exec[e].sub IN
  /\ exec[e].at = "accept" /\ LockFree
  /\ IF ~Open(s) THEN Answer(e, "shut") /\ UNCHANGED <<ledger, seq>>
     ELSE IF RowsWith(s) = {} THEN NewRow(e, s)
     ELSE /\ \E i \in RowsWith(s) : (\A j \in RowsWith(s) : i <= j) /\ Resume(e, ledger[i])
          /\ UNCHANGED <<ledger, seq>>
  /\ UNCHANGED <<status, flags, drive, events>>

\* The execution is killed between the number and the row: a gap in the numbers.
NumberThenFail(e) ==
  LET s == exec[e].sub IN
  /\ exec[e].at = "accept" /\ LockFree /\ Open(s) /\ RowsWith(s) = {}
  /\ seq' = [seq EXCEPT ![DayOf[s]] = @ + 1]
  /\ Answer(e, "retry")
  /\ BoundedEvent
  /\ UNCHANGED <<status, flags, ledger, drive>>

-----------------------------------------------------------------------------
(* Phase 2, without the lock: downloadAndValidateFile, markExpenseError.    *)

Download(e, content) ==
  /\ exec[e].at = "load"
  /\ exec' = [exec EXCEPT ![e].at = "file", ![e].got = content]
  /\ IF content = "cut" THEN BoundedEvent ELSE UNCHANGED events
  /\ UNCHANGED <<status, flags, ledger, seq, drive>>

\* FILE_FETCH_FAILED: no connection, 429, 5xx.
FetchFailed(e) ==
  /\ exec[e].at = "load"
  /\ Answer(e, "retry")
  /\ UNCHANGED <<status, flags, ledger, seq, drive, events>>

\* FILE_NOT_FOUND, FILE_FORBIDDEN, FILE_UNAVAILABLE, FILE_TOO_LARGE, FILE_INVALID.
DownloadRefused(e) ==
  /\ exec[e].at = "load"
  /\ GoTo(e, "mark")
  /\ UNCHANGED <<status, flags, ledger, seq, drive, events>>

\* The row becomes ERROR whatever it says by now.
MarkExpenseError(e) ==
  /\ exec[e].at = "mark" /\ LockFree
  /\ UpdateExpense(exec[e].id, "ERROR")
  /\ Answer(e, "reject")
  /\ UNCHANGED <<status, flags, seq, drive, events>>

-----------------------------------------------------------------------------
(* Phase 3, under the lock.                                                *)

\* Mutants: the folder is not searched; a file of the name is taken as it is.
FindNothing(id) == {}
SameName(f, content) == TRUE

FindByName(id) == {f \in drive : f.name = id}

\* The file found has the size of the bytes downloaded.
SameFile(f, content) == f.content = content

\* saveFile
SaveFile(e, nr) ==
  drive' = drive \cup {[nr |-> nr, name |-> exec[e].id, content |-> exec[e].got]}

\* The row has been completed meanwhile.
FiledMeanwhile(e) ==
  /\ exec[e].at = "file" /\ LockFree /\ MyRow(e).state = "COMPLETED"
  /\ Answer(e, "ok")
  /\ UNCHANGED <<status, flags, ledger, seq, drive, events>>

\* The search, and the file it finds or the one that is saved.
FileReceipt(e) ==
  /\ exec[e].at = "file" /\ LockFree
  /\ MyRow(e).state = "RECEIVED" /\ exec[e].got # None
  /\ LET found == FindByName(exec[e].id)
         nr == Cardinality(drive) + 1
     IN
     \/ /\ found = {}
        /\ SaveFile(e, nr)
        /\ exec' = [exec EXCEPT ![e].at = "saved", ![e].file = nr]
        /\ UNCHANGED ledger
     \/ /\ found = {}                      \* saved, but the call fails: DRIVE_FAILED
        /\ SaveFile(e, nr)
        /\ Answer(e, "retry")
        /\ UNCHANGED ledger
     \/ \E f \in found :
          /\ found = {f} /\ SameFile(f, exec[e].got)
          /\ exec' = [exec EXCEPT ![e].at = "saved", ![e].file = f.nr]
          /\ UNCHANGED <<ledger, drive>>
     \/ /\ found # {}                      \* DRIVE_CONFLICT
        /\ \A f \in found : found # {f} \/ ~SameFile(f, exec[e].got)
        /\ UpdateExpense(exec[e].id, "ERROR")
        /\ Answer(e, "reject")
        /\ UNCHANGED drive
  /\ UNCHANGED <<status, flags, seq, events>>

\* CONFIG_MISSING: the root folder is not configured.
DriveUnconfigured(e) ==
  /\ exec[e].at = "file" /\ LockFree /\ MyRow(e).state = "RECEIVED"
  /\ UpdateExpense(exec[e].id, "ERROR")
  /\ Answer(e, "reject")
  /\ UNCHANGED <<status, flags, seq, drive, events>>

WriteFileSaved(e) ==
  /\ exec[e].at = "saved"
  /\ ledger' = [ledger EXCEPT ![RowOf(exec[e].id)].state = "FILE_SAVED",
                              ![RowOf(exec[e].id)].file = exec[e].file,
                              ![RowOf(exec[e].id)].hash = exec[e].got]
  /\ exec' = [exec EXCEPT ![e].at = "complete", ![e].got = None, ![e].file = 0]
  /\ UNCHANGED <<status, flags, seq, drive, events>>

\* Any other state: the row is completed if the file is there (else: Fail).
SkipToCompletion(e) ==
  /\ exec[e].at = "file" /\ LockFree
  /\ MyRow(e).state \notin {"COMPLETED", "RECEIVED"} /\ MyRow(e).file # 0
  /\ GoTo(e, "complete")
  /\ UNCHANGED <<status, flags, ledger, seq, drive, events>>

Complete(e) ==
  /\ exec[e].at = "complete"
  /\ UpdateExpense(exec[e].id, "COMPLETED")
  /\ GoTo(e, "tell")
  /\ UNCHANGED <<status, flags, seq, drive, events>>

\* notifyCompletion: a DM that fails is noted in the row.
NotifyCompletion(e) ==
  /\ exec[e].at = "tell"
  /\ \/ UNCHANGED ledger
     \/ ledger' = [ledger EXCEPT ![RowOf(exec[e].id)].dmFailed = TRUE]
  /\ Answer(e, "ok")
  /\ UNCHANGED <<status, flags, seq, drive, events>>

-----------------------------------------------------------------------------
(* trigWeeklyOrphanCheck: the rows it reports (the time since the last check, and when a
   row got stuck, are left out).                                                       *)

WeeklyCheck ==
  LET Rows == DOMAIN ledger IN
  [stalled    |-> {i \in Rows : ledger[i].state \notin {"COMPLETED", "VOID", "CORRECTED"}},
   missing    |-> {i \in Rows : ledger[i].file # 0 /\ \A f \in drive : f.nr # ledger[i].file},
   mismatched |-> {i \in Rows : \E f \in drive :
                     f.nr = ledger[i].file /\ ~SameFile(f, ledger[i].hash)},
   untold     |-> {i \in Rows : ledger[i].state = "COMPLETED" /\ ledger[i].dmFailed}]

-----------------------------------------------------------------------------
(* The operator: the flags, and rows cancelled by hand in the sheet.       *)

Flip(side, feature) ==
  /\ flags' = [flags EXCEPT ![side] =
       IF feature \in @ THEN @ \ {feature} ELSE @ \cup {feature}]
  /\ BoundedEvent
  /\ UNCHANGED <<status, ledger, seq, drive, exec>>

Cancel(i, state) ==
  /\ \/ state = "CORRECTED" /\ ledger[i].state = "COMPLETED"
     \/ state = "VOID" /\ ledger[i].state \in {"COMPLETED", "ERROR"}
  /\ ledger' = [ledger EXCEPT ![i].state = state]
  /\ BoundedEvent
  /\ UNCHANGED <<status, flags, seq, drive, exec>>

-----------------------------------------------------------------------------
GasStep(e) ==
  \/ Phase1(e) \/ NumberThenFail(e)
  \/ FetchFailed(e) \/ DownloadRefused(e) \/ MarkExpenseError(e)
  \/ \E content \in Contents : Download(e, content)
  \/ FiledMeanwhile(e) \/ FileReceipt(e) \/ DriveUnconfigured(e) \/ WriteFileSaved(e)
  \/ SkipToCompletion(e) \/ Complete(e) \/ NotifyCompletion(e)
  \/ Fail(e)

Next ==
  \/ \E s \in Subs : Submit(s) \/ \E e \in Execs : Send(e, s)
  \/ \E e \in Execs : GasStep(e) \/ Deliver(e) \/ Lose(e)
  \/ \E side \in {"worker", "gas"}, feature \in Features : Flip(side, feature)
  \/ \E i \in DOMAIN ledger, state \in {"CORRECTED", "VOID"} : Cancel(i, state)

Spec == Init /\ [][Next]_vars

\* An execution ends by itself or is ended by the platform.  The cron sends what
\* is pending again and again; GAS, Slack and Drive may fail an attempt at every
\* step, but none of them fails every attempt.
Fairness ==
  /\ \A e \in Execs : WF_vars(GasStep(e)) /\ WF_vars(Deliver(e) \/ Lose(e))
  /\ \A s \in Subs :
       LET Of(Step(_)) == \E e \in Execs : exec[e].sub = s /\ Step(e) IN
       /\ SF_vars(\E e \in Execs : Send(e, s))
       /\ SF_vars(Of(Phase1))
       /\ SF_vars(Of(LAMBDA e : Download(e, "whole")))
       /\ SF_vars(Of(FileReceipt))
       /\ SF_vars(Of(WriteFileSaved))
       /\ SF_vars(Of(SkipToCompletion))
       /\ SF_vars(Of(Complete))

FairSpec == Spec /\ Fairness

-----------------------------------------------------------------------------
(* Properties.                                                             *)

\* However often a submission is sent, and wherever its executions die, it has one
\* row in the ledger, whose number is nobody else's (phase1), and one file in Drive,
\* although a file may be saved and the execution die before the ledger says so (the
\* search before saveFile).
OneReceipt ==
  \A i, j \in DOMAIN ledger :
    i # j => ledger[i].key # ledger[j].key /\ ledger[i].id # ledger[j].id
OneFile == \A f, g \in drive : f.name = g.name => f = g
FiledOnce == OneReceipt /\ OneFile

\* What the ledger says of a receipt's file is true of the file in Drive: its id and
\* the hash of its bytes, also when the file is one an earlier attempt left.  And a file
\* no row names is not forgotten: although the weekly check never looks at the folders,
\* it lists the row the file was saved for, unless the operator has cancelled that row
\* (trigWeeklyOrphanCheck).
RowsMatchDrive ==
  \A i \in DOMAIN ledger :
    /\ ledger[i].state \in {"FILE_SAVED", "COMPLETED"} => ledger[i].file # 0
    /\ ledger[i].file # 0 =>
         \E f \in drive : /\ f.nr = ledger[i].file /\ f.name = ledger[i].id
                          /\ f.content = ledger[i].hash
Stray(f) == \A i \in DOMAIN ledger : ledger[i].file # f.nr
StrayFilesAreListed ==
  \A f \in drive : Stray(f) =>
    \E i \in DOMAIN ledger :
      /\ ledger[i].id = f.name
      /\ i \in WeeklyCheck.stalled \/ ledger[i].state \in {"CORRECTED", "VOID"}
LedgerMatchesDrive == RowsMatchDrive /\ StrayFilesAreListed

\* The Worker's journal says done only of a submission whose file is kept.
DoneMeansFiled ==
  \A s \in Subs : status[s] = "done" => \E i \in RowsWith(s) : ledger[i].file # 0

\* A receipt that has a row is filed or given up in the end, whatever the flags say
\* by then (the comment in phase1 on resuming).  Excepted is a submission that the
\* Worker has recorded as rejected, or is about to, since an overlapping attempt met
\* the flag before there was a row.
BeingFiled(s) ==
  /\ \E i \in RowsWith(s) : ledger[i].state \in {"RECEIVED", "FILE_SAVED"}
  /\ status[s] = "pending"
  /\ \A e \in Execs : exec[e].sub = s => exec[e].answer # "shut"
ReceiptIsFinished ==
  \A s \in Subs :
    BeingFiled(s) ~> \E i \in RowsWith(s) : ledger[i].state \notin {"RECEIVED", "FILE_SAVED"}
=============================================================================
