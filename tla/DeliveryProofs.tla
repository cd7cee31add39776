--------------------------- MODULE DeliveryProofs ---------------------------
(***************************************************************************)
(* Proofs about Delivery for every set of keys, every number of cron runs  *)
(* and every bound.                                                        *)
(***************************************************************************)
EXTENDS Delivery, TLAPS, FiniteSetTheorems

(* The strengthening: what has to be known about a call and about a row so  *)
(* that the properties survive every step.                                  *)

\* A reply ok on its way belongs to an operation that was processed.
TargetProcessed(s) == Target(s) \in Keys /\ Processed(Target(s))
OkMeansProcessed == \A s \in Senders : wire[s] = "ok" => TargetProcessed(s)

\* A run of the cron has a call outstanding only for its current row.
CronCallHasRow ==
  \A c \in CronRuns : /\ wire[c] # "none" => cron[c].cur \in Keys /\ ~cron[c].mention
                      /\ cron[c].mention => cron[c].cur \in Keys

\* A row that left pending left it for a reason.
SettledHasReason ==
  \A k \in Keys : /\ status[k] = "rejected" => declined[k]
                  /\ status[k] = "deleted" => executed[k] \/ declined[k]

AckedIsKnown == \A k \in Stamps \cup Modals : acked[k] => status[k] # "none"

\* Whatever is being sent, listed or on its way has a row.
InFlightIsKnown ==
  /\ \A k \in Keys : (bg[k] # "none" \/ wire[k] # "none" \/ late[k] > 0) => status[k] # "none"
  /\ \A c \in CronRuns : /\ \A k \in cron[c].todo : status[k] # "none"
                         /\ cron[c].cur \in Keys => status[cron[c].cur] # "none"

IInv ==
  /\ TypeOK /\ AtMostOneRow /\ CronCallHasRow /\ OkMeansProcessed /\ DoneMeansProcessed
  /\ SettledHasReason /\ AckedIsKnown /\ InFlightIsKnown

-----------------------------------------------------------------------------
(* What the helpers of the actions do.                                     *)

\* Ranking a new row among the keys gives a natural number.
LEMMA CountOfKeys ==
  ASSUME NEW S \in SUBSET Keys
  PROVE  Cardinality(S) \in Nat
BY KeysFinite, FS_Subset, FS_CardinalityType

\* The kinds of keys are disjoint, and no key is a cron run.
LEMMA SenderKinds ==
  /\ Keys \subseteq Senders /\ CronRuns \subseteq Senders
  /\ \A c \in CronRuns : c \notin Keys /\ Target(c) = cron[c].cur
  /\ \A k \in Keys : k \notin CronRuns /\ Target(k) = k
  /\ NoKey \notin Keys
BY KindsDisjoint DEF Senders, Target

\* INSERT writes no row but a new pending one.
LEMMA InsertFacts ==
  ASSUME TypeOK, NEW k \in Keys, Insert(k)
  PROVE  /\ status' \in [Keys -> Statuses] /\ created' \in [Keys -> Nat]
         /\ bg' \in [Keys -> BgPhases]
         /\ \A j \in Keys : status'[j] = status[j] \/ (status[j] = "none" /\ status'[j] = "pending")
         /\ status'[k] # "none"
         /\ \A j \in Keys : bg'[j] # bg[j] => status'[j] # "none"
<1>1. Cardinality({j \in Keys : created[j] > 0}) \in Nat
  BY CountOfKeys
<1>2. CASE status[k] = "none"
  <2>1. /\ status' = [status EXCEPT ![k] = "pending"]
        /\ bg' = [bg EXCEPT ![k] = "started"]
        /\ created' = [created EXCEPT ![k] = 1 + Cardinality({j \in Keys : created[j] > 0})]
    BY <1>2 DEF Insert
  <2>2. created' \in [Keys -> Nat]
    <3> DEFINE rank == 1 + Cardinality({j \in Keys : created[j] > 0})
    <3>1. rank \in Nat
      BY <1>1
    <3>2. created' = [created EXCEPT ![k] = rank]
      BY <2>1
    <3> HIDE DEF rank
    <3>3. QED BY <3>1, <3>2 DEF TypeOK
  <2>3. /\ status' \in [Keys -> Statuses] /\ status'[k] = "pending"
        /\ \A j \in Keys \ {k} : status'[j] = status[j]
    BY <2>1 DEF TypeOK, Statuses
  <2>4. bg' \in [Keys -> BgPhases] /\ \A j \in Keys \ {k} : bg'[j] = bg[j]
    BY <2>1 DEF TypeOK, BgPhases
  <2>5. QED BY <1>2, <2>2, <2>3, <2>4
<1>3. CASE status[k] # "none"
  BY <1>3 DEF Insert, TypeOK
<1>4. QED BY <1>2, <1>3

\* Recording an attempt changes the row of that attempt only.
LEMMA RecordFacts ==
  ASSUME TypeOK, NEW k \in Keys, NEW answer \in Answers, Record(k, answer)
  PROVE  /\ status' \in [Keys -> Statuses] /\ attempts' \in [Keys -> Nat]
         /\ declined' \in [Keys -> BOOLEAN]
         /\ \A j \in Keys \ {k} : status'[j] = status[j] /\ declined'[j] = declined[j]
         /\ status[k] = "deleted" => status' = status /\ declined' = declined
         /\ status[k] # "deleted" => status'[k] = OutcomeOf(k, answer)
         /\ declined[k] => declined'[k]
         /\ OutcomeOf(k, answer) = "rejected" /\ status[k] # "deleted" => declined'[k]
         /\ OutcomeOf(k, answer) # "rejected" => declined'[k] = declined[k]
         /\ OutcomeOf(k, answer) \in {"pending", "done", "rejected"}
         /\ OutcomeOf(k, answer) = "done" => answer = "ok"
<1>1. /\ OutcomeOf(k, answer) \in {"pending", "done", "rejected"}
      /\ OutcomeOf(k, answer) = "done" => answer = "ok"
  BY DEF OutcomeOf
<1>2. CASE status[k] = "deleted"
  BY <1>1, <1>2 DEF Record, TypeOK
<1>3. CASE status[k] # "deleted"
  <2>1. /\ status' = [status EXCEPT ![k] = OutcomeOf(k, answer)]
        /\ attempts' = [attempts EXCEPT ![k] = IF @ < AttemptCap THEN @ + 1 ELSE @]
        /\ declined' = [declined EXCEPT ![k] = @ \/ OutcomeOf(k, answer) = "rejected"]
    BY <1>3 DEF Record
  <2>2. status' \in [Keys -> Statuses]
    BY <2>1, <1>1 DEF TypeOK, Statuses
  <2>3. attempts' \in [Keys -> Nat]
    BY <2>1 DEF TypeOK
  <2>4. /\ declined' \in [Keys -> BOOLEAN]
        /\ \A j \in Keys \ {k} : declined'[j] = declined[j]
        /\ declined'[k] = (declined[k] \/ OutcomeOf(k, answer) = "rejected")
    BY <2>1 DEF TypeOK
  <2>5. /\ \A j \in Keys \ {k} : status'[j] = status[j]
        /\ status'[k] = OutcomeOf(k, answer)
    BY <2>1 DEF TypeOK
  <2>6. /\ declined[k] => declined'[k]
        /\ OutcomeOf(k, answer) = "rejected" => declined'[k]
        /\ OutcomeOf(k, answer) # "rejected" => declined'[k] = declined[k]
    <3>1. declined[k] \in BOOLEAN /\ declined'[k] \in BOOLEAN
      BY <2>4 DEF TypeOK
    <3>2. QED BY <2>4, <3>1, Zenon
  <2>7. QED BY <1>1, <1>3, <2>2, <2>3, <2>4, <2>5, <2>6, Zenon
<1>4. QED BY <1>2, <1>3

\* Hanging up leaves no call of s outstanding; only a call that was can be late.
LEMMA HangUpFacts ==
  ASSUME TypeOK, NEW s \in Senders, HangUp(s)
  PROVE  /\ wire' \in [Senders -> {"none", "out"} \cup Replies]
         /\ late' \in [Keys -> Nat]
         /\ wire'[s] = "none"
         /\ \A r \in Senders \ {s} : wire'[r] = wire[r]
         /\ \A k \in Keys : late'[k] = late[k] \/ (wire[s] # "none" /\ k = Target(s))
<1>1. /\ wire' \in [Senders -> {"none", "out"} \cup Replies]
      /\ wire'[s] = "none"
      /\ \A r \in Senders \ {s} : wire'[r] = wire[r]
  BY DEF HangUp, TypeOK
<1>2. CASE UNCHANGED late
  BY <1>1, <1>2 DEF TypeOK
<1>3. CASE /\ wire[s] = "out"
           /\ late' = [late EXCEPT ![Target(s)] = @ + 1]
  <2> DEFINE t == Target(s)
  <2>1. late' = [j \in Keys |-> IF j = t THEN late[j] + 1 ELSE late[j]]
    BY <1>3 DEF TypeOK
  <2>2. late \in [Keys -> Nat]
    BY DEF TypeOK
  <2>3. wire[s] # "none"
    BY <1>3
  <2> HIDE DEF t
  <2>4. late' \in [Keys -> Nat] /\ \A k \in Keys : late'[k] = late[k] \/ k = t
    BY <2>1, <2>2
  <2>5. QED BY <1>1, <2>3, <2>4 DEF t
<1>4. QED BY <1>2, <1>3 DEF HangUp

\* An answer ends the call; ok is answered only if GAS said so.
LEMMA AnsweredFacts ==
  ASSUME TypeOK, NEW s \in Senders, NEW answer \in Answers, Answered(s, answer)
  PROVE  /\ wire' \in [Senders -> {"none", "out"} \cup Replies]
         /\ late' \in [Keys -> Nat]
         /\ wire[s] # "none" /\ wire'[s] = "none"
         /\ \A r \in Senders \ {s} : wire'[r] = wire[r]
         /\ \A k \in Keys : late'[k] = late[k] \/ k = Target(s)
         /\ answer = "ok" => wire[s] = "ok"
<1>1. CASE answer \in Replies /\ wire[s] = answer /\ wire' = [wire EXCEPT ![s] = "none"] /\ UNCHANGED late
  BY <1>1 DEF TypeOK, Replies
<1>2. CASE answer = "timeout" /\ wire[s] # "none" /\ HangUp(s)
  BY <1>2, HangUpFacts
<1>3. QED BY <1>1, <1>2 DEF Answered

\* GAS serves one call for k: an outstanding one, which gets the reply, or a late one.
LEMMA ServeFacts ==
  ASSUME TypeOK, NEW k \in Keys, NEW reply \in Replies, Serve(k, reply)
  PROVE  /\ wire' \in [Senders -> {"none", "out"} \cup Replies]
         /\ late' \in [Keys -> Nat]
         /\ \A j \in Keys : late'[j] > 0 => late[j] > 0
         /\ \A s \in Senders : wire'[s] = wire[s] \/ (wire[s] = "out" /\ wire'[s] = reply /\ Target(s) = k)
         /\ late[k] > 0 \/ \E s \in Senders : wire[s] = "out" /\ Target(s) = k
<1>1. CASE \E s \in Senders :
             /\ wire[s] = "out" /\ Target(s) = k
             /\ wire' = [wire EXCEPT ![s] = reply]
             /\ UNCHANGED late
  <2>1. PICK s \in Senders : /\ wire[s] = "out" /\ Target(s) = k
                             /\ wire' = [wire EXCEPT ![s] = reply]
                             /\ UNCHANGED late
    BY <1>1
  <2>2. wire' \in [Senders -> {"none", "out"} \cup Replies]
    BY <2>1 DEF TypeOK
  <2>3. \A r \in Senders : wire'[r] = wire[r] \/ (r = s /\ wire'[r] = reply)
    BY <2>1 DEF TypeOK
  <2>4. QED BY <2>1, <2>2, <2>3 DEF TypeOK
<1>2. CASE /\ late[k] > 0
           /\ late' = [late EXCEPT ![k] = @ - 1]
           /\ UNCHANGED wire
  BY <1>2 DEF TypeOK
<1>3. QED BY <1>1, <1>2 DEF Serve
\* Applying appends the first row of a key and no second one.
LEMMA ApplyFacts ==
  ASSUME TypeOK, NEW k \in Keys, Apply(k)
  PROVE  /\ log' \in [Keys -> Nat] /\ derived' \in [Keys -> BOOLEAN]
         /\ \A j \in Keys \ {k} : log'[j] = log[j] /\ derived'[j] = derived[j]
         /\ log'[k] = IF k \in Logged /\ log[k] = 0 THEN 1 ELSE log[k]
         /\ k \in Logged => derived'[k] = TRUE
<1>1. CASE k \in Logged
  <2>1. /\ log' = [log EXCEPT ![k] = IF @ = 0 THEN @ + 1 ELSE @]
        /\ derived' = [derived EXCEPT ![k] = TRUE]
    BY <1>1 DEF Apply
  <2>2. /\ log' \in [Keys -> Nat]
        /\ \A j \in Keys \ {k} : log'[j] = log[j]
        /\ log'[k] = IF log[k] = 0 THEN 1 ELSE log[k]
    BY <2>1 DEF TypeOK
  <2>3. /\ derived' \in [Keys -> BOOLEAN]
        /\ \A j \in Keys \ {k} : derived'[j] = derived[j]
        /\ derived'[k] = TRUE
    BY <2>1 DEF TypeOK
  <2>4. QED BY <1>1, <2>2, <2>3
<1>2. CASE k \notin Logged
  BY <1>2 DEF Apply, TypeOK
<1>3. QED BY <1>1, <1>2

-----------------------------------------------------------------------------
(* Types.                                                                  *)

\* Closing a row of the batch, or keeping it for the mention.
LEMMA CronRowUpdate ==
  ASSUME TypeOK, NEW c \in CronRuns, NEW k \in Keys, NEW due \in BOOLEAN, NEW cur \in Keys \cup {NoKey},
         cron' = [cron EXCEPT ![c].mention = due, ![c].cur = cur, ![c].seen[k] = 0]
  PROVE  /\ cron' \in [CronRuns -> [todo : SUBSET Keys, seen : [Keys -> Nat],
                                    cur : Keys \cup {NoKey}, mention : BOOLEAN]]
         /\ cron'[c].cur = cur /\ cron'[c].todo = cron[c].todo
         /\ cron'[c].mention = due
         /\ \A d \in CronRuns \ {c} : cron'[d] = cron[d]
BY DEF TypeOK

\* Recording an attempt either ends the row's turn or leaves the mention to do.
LEMMA CronRecordFacts ==
  ASSUME TypeOK, NEW c \in CronRuns, NEW k \in Keys, CronRecord(c, k)
  PROVE  /\ cron' \in [CronRuns -> [todo : SUBSET Keys, seen : [Keys -> Nat],
                                    cur : Keys \cup {NoKey}, mention : BOOLEAN]]
         /\ cron'[c].cur \in {k, NoKey} /\ cron'[c].todo = cron[c].todo
         /\ cron'[c].mention => cron'[c].cur = k
         /\ \A d \in CronRuns \ {c} : cron'[d] = cron[d]
<1>1. PICK answer \in Answers :
        LET due == OutcomeOf(k, answer) = "pending" /\ NotifyDue(cron[c].seen[k] + 1) IN
        cron' = [cron EXCEPT ![c].mention = due, ![c].cur = IF due THEN k ELSE NoKey,
                             ![c].seen[k] = 0]
  BY DEF CronRecord
<1> DEFINE due == OutcomeOf(k, answer) = "pending" /\ NotifyDue(cron[c].seen[k] + 1)
           cur == IF due THEN k ELSE NoKey
<1>2. cron' = [cron EXCEPT ![c].mention = due, ![c].cur = cur, ![c].seen[k] = 0]
  BY <1>1
<1>3. due \in BOOLEAN /\ cur \in Keys \cup {NoKey} /\ cur \in {k, NoKey} /\ (due => cur = k)
  OBVIOUS
<1> HIDE DEF due, cur
<1>4. QED BY <1>2, <1>3, CronRowUpdate

\* Passing over a row, or sending it, takes it off the batch.
LEMMA CronSkipFacts ==
  ASSUME TypeOK, NEW c \in CronRuns, NEW k \in Keys, CronSkip(c, k)
  PROVE  /\ cron' \in [CronRuns -> [todo : SUBSET Keys, seen : [Keys -> Nat],
                                    cur : Keys \cup {NoKey}, mention : BOOLEAN]]
         /\ cron'[c].cur = cron[c].cur /\ cron'[c].todo = cron[c].todo \ {k}
         /\ cron'[c].mention = cron[c].mention
         /\ \A d \in CronRuns \ {c} : cron'[d] = cron[d]
<1>1. cron' = [cron EXCEPT ![c].todo = @ \ {k}, ![c].seen[k] = 0]
  BY DEF CronSkip
<1>2. QED BY <1>1 DEF TypeOK

LEMMA CronSendFacts ==
  ASSUME TypeOK, NEW c \in CronRuns, NEW k \in Keys, CronSend(c, k)
  PROVE  /\ cron' \in [CronRuns -> [todo : SUBSET Keys, seen : [Keys -> Nat],
                                    cur : Keys \cup {NoKey}, mention : BOOLEAN]]
         /\ cron'[c].cur = k /\ cron'[c].todo = cron[c].todo \ {k}
         /\ cron'[c].mention = cron[c].mention
         /\ \A d \in CronRuns \ {c} : cron'[d] = cron[d]
<1>1. cron' = [cron EXCEPT ![c].todo = @ \ {k}, ![c].cur = k]
  BY DEF CronSend
<1>2. QED BY <1>1 DEF TypeOK

\* A handler keeps the types.
LEMMA HandlerType ==
  ASSUME TypeOK, NEW k \in Keys, HandlerStep(k)
  PROVE  TypeOK'
<1>1. CASE Receive(k)
  <2>1. status' \in [Keys -> Statuses] /\ created' \in [Keys -> Nat] /\ bg' \in [Keys -> BgPhases]
    BY <1>1, InsertFacts DEF Receive
  <2>2. deliveries' \in [Keys -> Nat] /\ acked' \in [Keys -> BOOLEAN]
    BY <1>1 DEF Receive, TypeOK
  <2>3. UNCHANGED <<attempts, notified, forwarding, inbox, cron, wire, late, log, derived, executed,
                    declined, screen>>
    BY <1>1 DEF Receive, gasVars
  <2>4. QED BY <2>1, <2>2, <2>3 DEF TypeOK
<1>2. CASE ReceiveAckFirst(k)
  BY <1>2 DEF ReceiveAckFirst, TypeOK, gasVars, journalVars
<1>3. CASE InsertAfterAck(k)
  <2>1. status' \in [Keys -> Statuses] /\ created' \in [Keys -> Nat] /\ bg' \in [Keys -> BgPhases]
    BY <1>3, InsertFacts DEF InsertAfterAck
  <2>2. inbox' \in [Keys -> Nat]
    BY <1>3 DEF InsertAfterAck, TypeOK
  <2>3. UNCHANGED <<attempts, notified, forwarding, deliveries, acked, cron, wire, late, log, derived,
                    executed, declined, screen>>
    BY <1>3 DEF InsertAfterAck, gasVars
  <2>4. QED BY <2>1, <2>2, <2>3 DEF TypeOK
<1>4. CASE LostBeforeInsert(k)
  BY <1>4 DEF LostBeforeInsert, TypeOK, gasVars, journalVars
<1>5. QED BY <1>1, <1>2, <1>3, <1>4 DEF HandlerStep

\* A background invocation keeps the types.
LEMMA BackgroundType ==
  ASSUME TypeOK, NEW k \in Keys, BackgroundStep(k)
  PROVE  TypeOK'
<1> USE SenderKinds
<1>1. CASE ShowWaiting(k)
  BY <1>1 DEF ShowWaiting, TypeOK, gasVars, journalVars, BgPhases
<1>2. CASE Forward(k)
  BY <1>2 DEF Forward, TypeOK, gasVars, journalVars, BgPhases
<1>3. CASE BgRecord(k)
  <2>1. PICK answer \in Answers : /\ Answered(k, answer) /\ Record(k, answer)
                                  /\ bg' = [bg EXCEPT ![k] = AfterAttempt(k, answer)]
    BY <1>3 DEF BgRecord
  <2>2. wire' \in [Senders -> {"none", "out"} \cup Replies] /\ late' \in [Keys -> Nat]
    BY <2>1, AnsweredFacts
  <2>3. /\ status' \in [Keys -> Statuses] /\ attempts' \in [Keys -> Nat]
        /\ declined' \in [Keys -> BOOLEAN]
    BY <2>1, RecordFacts
  <2>4. bg' \in [Keys -> BgPhases]
    BY <2>1 DEF AfterAttempt, TypeOK, BgPhases
  <2>5. QED BY <1>3, <2>2, <2>3, <2>4 DEF BgRecord, TypeOK, gasVars
<1>4. CASE Restore(k)
  BY <1>4 DEF Restore, TypeOK, gasVars, journalVars, BgPhases
<1>5. CASE BgDies(k)
  <2>1. wire' \in [Senders -> {"none", "out"} \cup Replies] /\ late' \in [Keys -> Nat]
    BY <1>5, HangUpFacts DEF BgDies
  <2>2. QED BY <1>5, <2>1 DEF BgDies, TypeOK, gasVars, journalVars, BgPhases
<1>6. QED BY <1>1, <1>2, <1>3, <1>4, <1>5 DEF BackgroundStep

\* A run of the retry cron keeps the types.
LEMMA CronType ==
  ASSUME TypeOK, NEW c \in CronRuns, CronStep(c)
  PROVE  TypeOK'
<1> DEFINE T == [todo : SUBSET Keys, seen : [Keys -> Nat], cur : Keys \cup {NoKey}, mention : BOOLEAN]
<1> USE SenderKinds
<1>1. CASE CronStart(c)
  <2>1. [k \in Keys |-> IF k \in ListPending THEN attempts[k] ELSE 0] \in [Keys -> Nat]
    BY DEF TypeOK
  <2>2. ListPending \in SUBSET Keys
    BY DEF ListPending, Pending
  <2>3. cron' \in [CronRuns -> T]
    BY <1>1, <2>1, <2>2 DEF CronStart, TypeOK
  <2>4. QED BY <1>1, <2>3 DEF CronStart, TypeOK, gasVars, journalVars
<1>2. CASE CronDies(c)
  <2>1. Idle \in T
    BY DEF Idle
  <2>2. cron' \in [CronRuns -> T]
    BY <1>2, <2>1 DEF CronDies, TypeOK
  <2>3. wire' \in [Senders -> {"none", "out"} \cup Replies] /\ late' \in [Keys -> Nat]
    BY <1>2, HangUpFacts DEF CronDies
  <2>4. QED BY <1>2, <2>2, <2>3 DEF CronDies, TypeOK, gasVars, journalVars
<1>3. ASSUME NEW k \in Keys, CronSkip(c, k)
      PROVE  TypeOK'
  <2>1. cron' \in [CronRuns -> T]
    BY <1>3, CronSkipFacts
  <2>2. QED BY <1>3, <2>1 DEF CronSkip, TypeOK, gasVars, journalVars
<1>4. ASSUME NEW k \in Keys, CronSend(c, k)
      PROVE  TypeOK'
  <2>1. cron' \in [CronRuns -> T]
    BY <1>4, CronSendFacts
  <2>2. wire' \in [Senders -> {"none", "out"} \cup Replies]
    BY <1>4 DEF CronSend, TypeOK
  <2>3. QED BY <1>4, <2>1, <2>2 DEF CronSend, TypeOK, gasVars, journalVars
<1>5. ASSUME NEW k \in Keys, CronRecord(c, k)
      PROVE  TypeOK'
  <2>1. PICK answer \in Answers : Answered(c, answer) /\ Record(k, answer)
    BY <1>5 DEF CronRecord
  <2>2. wire' \in [Senders -> {"none", "out"} \cup Replies] /\ late' \in [Keys -> Nat]
    BY <2>1, AnsweredFacts
  <2>3. /\ status' \in [Keys -> Statuses] /\ attempts' \in [Keys -> Nat]
        /\ declined' \in [Keys -> BOOLEAN]
    BY <2>1, RecordFacts
  <2>4. cron' \in [CronRuns -> T]
    BY <1>5, CronRecordFacts
  <2>5. QED BY <1>5, <2>2, <2>3, <2>4 DEF CronRecord, TypeOK, gasVars
<1>6. ASSUME NEW k \in Keys, CronMention(c, k)
      PROVE  TypeOK'
  <2>1. cron' \in [CronRuns -> T]
    BY <1>6 DEF CronMention, TypeOK
  <2>2. QED BY <1>6, <2>1 DEF CronMention, TypeOK, gasVars
<1>7. QED BY <1>1, <1>2, <1>3, <1>4, <1>5, <1>6 DEF CronStep

\* A request executed by GAS keeps the types.
LEMMA GasType ==
  ASSUME TypeOK, NEW k \in Keys, GasStep(k)
  PROVE  TypeOK'
<1>1. ASSUME NEW reply \in Replies, Serve(k, reply)
      PROVE  wire' \in [Senders -> {"none", "out"} \cup Replies] /\ late' \in [Keys -> Nat]
  BY <1>1, ServeFacts
<1> USE DEF TypeOK, gasVars, journalVars, workerVars
<1>2. CASE GasTurnAway(k)
  BY <1>2, <1>1 DEF GasTurnAway, Replies
<1>3. CASE GasReject(k)
  BY <1>3, <1>1 DEF GasReject, Replies
<1>4. CASE GasError(k)
  BY <1>4, <1>1 DEF GasError, Replies
<1>5. CASE GasAppendThenFail(k)
  <2>1. wire' \in [Senders -> {"none", "out"} \cup Replies] /\ late' \in [Keys -> Nat]
    BY <1>5, <1>1 DEF GasAppendThenFail, Replies
  <2>2. log' \in [Keys -> Nat]
    BY <1>5 DEF GasAppendThenFail
  <2>3. QED BY <1>5, <2>1, <2>2 DEF GasAppendThenFail
<1>6. CASE GasExecute(k)
  <2>1. wire' \in [Senders -> {"none", "out"} \cup Replies] /\ late' \in [Keys -> Nat]
    BY <1>6, <1>1 DEF GasExecute, Replies
  <2>2. log' \in [Keys -> Nat] /\ derived' \in [Keys -> BOOLEAN]
    BY <1>6, ApplyFacts DEF GasExecute
  <2>3. executed' \in [Keys -> BOOLEAN]
    BY <1>6 DEF GasExecute
  <2>4. screen' \in [Keys -> {"pressed", "waiting", "drawn", "restored"}]
    BY <1>6 DEF GasExecute
  <2>5. QED BY <1>6, <2>1, <2>2, <2>3, <2>4 DEF GasExecute
<1>7. QED BY <1>2, <1>3, <1>4, <1>5, <1>6 DEF GasStep

LEMMA TypeStep ==
  ASSUME TypeOK, [Next]_vars
  PROVE  TypeOK'
<1>1. ASSUME NEW k \in Keys, Cleanup(k)
      PROVE  TypeOK'
  BY <1>1 DEF Cleanup, TypeOK, Statuses, gasVars, workerVars
<1>2. CASE SetForwarding
  BY <1>2 DEF SetForwarding, TypeOK, gasVars, journalVars, workerVars
<1>3. CASE UNCHANGED vars
  BY <1>3 DEF vars, TypeOK
<1>4. QED BY <1>1, <1>2, <1>3, HandlerType, BackgroundType, CronType, GasType DEF Next

LEMMA TypeInit == Init => TypeOK
BY DEF Init, TypeOK, Idle, Statuses, BgPhases

\* Every variable keeps its type: in particular no counter drops below zero and
\* a run of the cron works on a row of the journal or on none.
THEOREM TypeCorrect == Spec => []TypeOK
BY TypeInit, TypeStep, PTL DEF Spec
-----------------------------------------------------------------------------
(* The record of truth: one row per operation, and done means processed.   *)

\* Only GAS writes the sheets.
LEMMA OnlyGasWrites ==
  ASSUME TypeOK, [Next]_vars, ~ \E k \in Keys : GasStep(k)
  PROVE  UNCHANGED <<log, derived, executed>>
<1> USE DEF gasVars
<1>1. ASSUME NEW k \in Keys, HandlerStep(k)
      PROVE  UNCHANGED <<log, derived, executed>>
  BY <1>1 DEF HandlerStep, Receive, ReceiveAckFirst, InsertAfterAck, LostBeforeInsert
<1>2. ASSUME NEW k \in Keys, BackgroundStep(k)
      PROVE  UNCHANGED <<log, derived, executed>>
  BY <1>2 DEF BackgroundStep, ShowWaiting, Forward, BgRecord, Restore, BgDies
<1>3. ASSUME NEW c \in CronRuns, CronStep(c)
      PROVE  UNCHANGED <<log, derived, executed>>
  BY <1>3 DEF CronStep, CronStart, CronDies, CronSkip, CronSend, CronRecord, CronMention
<1>4. ASSUME NEW k \in Keys, Cleanup(k)
      PROVE  UNCHANGED <<log, derived, executed>>
  BY <1>4 DEF Cleanup
<1>5. CASE SetForwarding \/ UNCHANGED vars
  BY <1>5 DEF SetForwarding, vars
<1>6. QED BY <1>1, <1>2, <1>3, <1>4, <1>5 DEF Next

\* What GAS does to the sheets when it serves a request for k.
LEMMA GasWrites ==
  ASSUME TypeOK, NEW k \in Keys, GasStep(k)
  PROVE  /\ \A j \in Keys \ {k} : log'[j] = log[j] /\ derived'[j] = derived[j] /\ executed'[j] = executed[j]
         /\ log'[k] = log[k] \/ (log[k] = 0 /\ log'[k] = 1)
         /\ derived[k] => derived'[k]
         /\ executed[k] => executed'[k]
<1>1. CASE GasTurnAway(k) \/ GasReject(k) \/ GasError(k)
  BY <1>1 DEF GasTurnAway, GasReject, GasError, gasVars
<1>2. CASE GasAppendThenFail(k)
  <2>1. log[k] = 0 /\ log' = [log EXCEPT ![k] = @ + 1] /\ UNCHANGED <<derived, executed>>
    BY <1>2 DEF GasAppendThenFail
  <2>2. log'[k] = 1 /\ \A j \in Keys \ {k} : log'[j] = log[j]
    BY <2>1 DEF TypeOK
  <2>3. QED BY <2>1, <2>2
<1>3. CASE GasExecute(k)
  <2>1. Apply(k) /\ executed' = [executed EXCEPT ![k] = TRUE]
    BY <1>3 DEF GasExecute
  <2>2. /\ \A j \in Keys \ {k} : executed'[j] = executed[j]
        /\ executed'[k] = TRUE
    BY <2>1 DEF TypeOK
  <2>3. /\ \A j \in Keys \ {k} : log'[j] = log[j] /\ derived'[j] = derived[j]
        /\ log'[k] = IF k \in Logged /\ log[k] = 0 THEN 1 ELSE log[k]
        /\ k \in Logged => derived'[k] = TRUE
    BY <2>1, ApplyFacts
  <2>4. derived[k] => derived'[k]
    <3>1. CASE k \in Logged
      BY <3>1, <2>3
    <3>2. CASE k \notin Logged
      BY <3>2, <2>1 DEF Apply
    <3>3. QED BY <3>1, <3>2
  <2>5. QED BY <2>2, <2>3, <2>4
<1>4. QED BY <1>1, <1>2, <1>3 DEF GasStep

LEMMA AtMostOneRowStep ==
  ASSUME TypeOK, AtMostOneRow, [Next]_vars
  PROVE  AtMostOneRow'
<1>1. CASE \E k \in Keys : GasStep(k)
  <2>1. PICK k \in Keys : GasStep(k)
    BY <1>1
  <2>2. QED BY <2>1, GasWrites DEF AtMostOneRow
<1>2. CASE ~ \E k \in Keys : GasStep(k)
  BY <1>2, OnlyGasWrites DEF AtMostOneRow
<1>3. QED BY <1>1, <1>2

\* Idempotency of handleStamp and handleCorrectionSubmit: however often an operation
\* is delivered, sent, timed out and retried, the raw log holds at most one row for it.
THEOREM OneRow == Spec => []AtMostOneRow
<1>1. Init => AtMostOneRow
  BY DEF Init, AtMostOneRow
<1>2. QED BY <1>1, TypeCorrect, AtMostOneRowStep, PTL DEF Spec

\* Once processed, an operation stays processed.
LEMMA ProcessedStable ==
  ASSUME TypeOK, AtMostOneRow, [Next]_vars, NEW j \in Keys, Processed(j)
  PROVE  Processed(j)'
<1>1. CASE \E k \in Keys : GasStep(k)
  <2>1. PICK k \in Keys : GasStep(k)
    BY <1>1
  <2>2. CASE j = k
    BY <2>1, <2>2, GasWrites DEF Processed
  <2>3. CASE j # k
    BY <2>1, <2>3, GasWrites DEF Processed
  <2>4. QED BY <2>2, <2>3
<1>2. CASE ~ \E k \in Keys : GasStep(k)
  BY <1>2, OnlyGasWrites DEF Processed
<1>3. QED BY <1>1, <1>2

\* GAS answers ok only when it has run the operation to its end.
LEMMA ExecuteProcesses ==
  ASSUME TypeOK, AtMostOneRow, NEW k \in Keys, GasExecute(k)
  PROVE  Processed(k)'
<1>1. /\ log'[k] = IF k \in Logged /\ log[k] = 0 THEN 1 ELSE log[k]
      /\ k \in Logged => derived'[k] = TRUE
  BY ApplyFacts DEF GasExecute
<1>2. executed'[k] = TRUE
  BY DEF GasExecute, TypeOK
<1>3. log[k] \in Nat /\ log[k] <= 1
  BY DEF AtMostOneRow, TypeOK
<1>4. QED BY <1>1, <1>2, <1>3 DEF Processed
-----------------------------------------------------------------------------
(* Calls: where a reply comes from, and whose row it is about.             *)

\* What a step may do to the call of a sender s.
CallKept(s) == wire'[s] = wire[s] /\ Target(s)' = Target(s)
CallServed(s) ==
  \E k \in Keys, reply \in Replies :
    /\ Target(s) = k /\ Target(s)' = k
    /\ wire[s] = "out" /\ wire'[s] = reply
    /\ reply = "ok" => GasExecute(k)

\* A step of GAS keeps or serves the call of every sender.
LEMMA GasCalls ==
  ASSUME TypeOK, NEW k \in Keys, GasStep(k), NEW s \in Senders
  PROVE  CallKept(s) \/ CallServed(s)
<1>1. cron' = cron
  BY DEF GasStep, GasTurnAway, GasReject, GasError, GasAppendThenFail, GasExecute, workerVars
<1>2. Target(s)' = Target(s)
  BY <1>1 DEF Target
<1>3. PICK reply \in Replies : Serve(k, reply) /\ (reply = "ok" => GasExecute(k))
  BY DEF GasStep, GasTurnAway, GasReject, GasError, GasAppendThenFail, GasExecute, Replies
<1>4. wire'[s] = wire[s] \/ (wire[s] = "out" /\ wire'[s] = reply /\ Target(s) = k)
  BY <1>3, ServeFacts
<1>5. QED BY <1>2, <1>3, <1>4 DEF CallKept, CallServed

\* Handlers, cleanup and the operator leave every call alone.
LEMMA OtherCalls ==
  ASSUME TypeOK, NEW s \in Senders,
         \/ \E k \in Keys : HandlerStep(k) \/ Cleanup(k)
         \/ SetForwarding \/ UNCHANGED vars
  PROVE  CallKept(s)
<1>1. UNCHANGED <<wire, cron>>
  BY DEF HandlerStep, Receive, ReceiveAckFirst, InsertAfterAck, LostBeforeInsert, Cleanup, SetForwarding,
         workerVars, vars
<1>2. QED BY <1>1 DEF CallKept, Target

\* A background invocation touches its own call only.
LEMMA BackgroundCalls ==
  ASSUME TypeOK, NEW k \in Keys, BackgroundStep(k), NEW s \in Senders
  PROVE  CallKept(s) \/ (s = k /\ wire'[s] \in {"none", "out"})
<1>1. cron' = cron
  BY DEF BackgroundStep, ShowWaiting, Forward, BgRecord, Restore, BgDies
<1>2. Target(s)' = Target(s)
  BY <1>1 DEF Target
<1>3. CASE ShowWaiting(k) \/ Restore(k)
  BY <1>2, <1>3 DEF ShowWaiting, Restore, CallKept
<1>4. CASE Forward(k)
  <2>1. wire' = wire \/ wire' = [wire EXCEPT ![k] = "out"]
    BY <1>4 DEF Forward
  <2>2. QED BY <1>2, <2>1 DEF CallKept, TypeOK
<1>5. CASE BgRecord(k)
  <2>1. PICK answer \in Answers : Answered(k, answer)
    BY <1>5 DEF BgRecord
  <2>2. QED BY <1>2, <2>1, AnsweredFacts, SenderKinds DEF CallKept
<1>6. CASE BgDies(k)
  BY <1>2, <1>6, HangUpFacts, SenderKinds DEF BgDies, CallKept
<1>7. QED BY <1>3, <1>4, <1>5, <1>6 DEF BackgroundStep

\* A run of the cron touches its own call only, and changes its row only when
\* no call is outstanding afterwards but a new one.
LEMMA CronCalls ==
  ASSUME TypeOK, CronCallHasRow, NEW c \in CronRuns, CronStep(c)
  PROVE  /\ \A s \in Senders \ {c} : CallKept(s)
         /\ CallKept(c) \/ wire'[c] \in {"none", "out"}
         /\ wire'[c] # "none" => cron'[c].cur \in Keys /\ ~cron'[c].mention
         /\ cron'[c].mention => cron'[c].cur \in Keys
<1> USE SenderKinds
<1>1. ASSUME \A d \in CronRuns \ {c} : cron'[d] = cron[d]
      PROVE  \A s \in Senders \ {c} : Target(s)' = Target(s)
  BY <1>1 DEF Target, Senders
<1>2. CASE CronStart(c)
  <2>1. wire[c] = "none"
    BY <1>2 DEF CronStart, CronCallHasRow, Idle
  <2>2. /\ \A d \in CronRuns \ {c} : cron'[d] = cron[d]
        /\ ~cron'[c].mention
    BY <1>2 DEF CronStart, TypeOK
  <2>3. wire' = wire
    BY <1>2 DEF CronStart
  <2>4. QED BY <1>1, <2>1, <2>2, <2>3 DEF CallKept
<1>3. CASE CronDies(c)
  <2>1. HangUp(c) /\ cron' = [cron EXCEPT ![c] = Idle]
    BY <1>3 DEF CronDies
  <2>2. /\ \A d \in CronRuns \ {c} : cron'[d] = cron[d]
        /\ ~cron'[c].mention
    BY <2>1 DEF TypeOK, Idle
  <2>3. wire'[c] = "none" /\ \A s \in Senders \ {c} : wire'[s] = wire[s]
    BY <2>1, HangUpFacts
  <2>4. QED BY <1>1, <2>2, <2>3 DEF CallKept
<1>4. ASSUME NEW k \in Keys, CronSkip(c, k)
      PROVE  /\ \A s \in Senders : CallKept(s)
             /\ wire'[c] # "none" => cron'[c].cur \in Keys /\ ~cron'[c].mention
             /\ cron'[c].mention => cron'[c].cur \in Keys
  <2>1. /\ \A d \in CronRuns \ {c} : cron'[d] = cron[d]
        /\ cron'[c].cur = cron[c].cur /\ cron'[c].mention = cron[c].mention
    BY <1>4, CronSkipFacts
  <2>2. wire' = wire
    BY <1>4 DEF CronSkip
  <2>3. Target(c)' = Target(c)
    BY <2>1 DEF Target
  <2>4. \A s \in Senders : CallKept(s)
    BY <1>1, <2>1, <2>2, <2>3 DEF CallKept
  <2>5. QED BY <2>1, <2>2, <2>4 DEF CronCallHasRow
<1>5. ASSUME NEW k \in Keys, CronSend(c, k)
      PROVE  /\ \A s \in Senders \ {c} : CallKept(s)
             /\ wire'[c] = "out" /\ cron'[c].cur \in Keys /\ ~cron'[c].mention
  <2>1. /\ \A d \in CronRuns \ {c} : cron'[d] = cron[d]
        /\ cron'[c].cur = k /\ cron'[c].mention = cron[c].mention
    BY <1>5, CronSendFacts
  <2>2. wire'[c] = "out" /\ \A s \in Senders \ {c} : wire'[s] = wire[s]
    BY <1>5 DEF CronSend, TypeOK
  <2>3. ~cron[c].mention
    BY <1>5 DEF CronSend, IsNextRow, CronCallHasRow
  <2>4. QED BY <1>1, <2>1, <2>2, <2>3 DEF CallKept
<1>6. ASSUME NEW k \in Keys, CronRecord(c, k)
      PROVE  /\ \A s \in Senders \ {c} : CallKept(s)
             /\ wire'[c] = "none"
             /\ cron'[c].mention => cron'[c].cur \in Keys
  <2>1. /\ \A d \in CronRuns \ {c} : cron'[d] = cron[d]
        /\ cron'[c].mention => cron'[c].cur = k
    BY <1>6, CronRecordFacts
  <2>2. PICK answer \in Answers : Answered(c, answer)
    BY <1>6 DEF CronRecord
  <2>3. wire'[c] = "none" /\ \A s \in Senders \ {c} : wire'[s] = wire[s]
    BY <2>2, AnsweredFacts
  <2>4. QED BY <1>1, <2>1, <2>3 DEF CallKept
<1>7. ASSUME NEW k \in Keys, CronMention(c, k)
      PROVE  /\ \A s \in Senders \ {c} : CallKept(s)
             /\ wire'[c] = "none" /\ ~cron'[c].mention
  <2>1. /\ \A d \in CronRuns \ {c} : cron'[d] = cron[d]
        /\ ~cron'[c].mention
    BY <1>7 DEF CronMention, TypeOK
  <2>2. wire[c] = "none" /\ wire' = wire
    BY <1>7 DEF CronMention, CronCallHasRow
  <2>3. QED BY <1>1, <2>1, <2>2 DEF CallKept
<1>8. QED BY <1>2, <1>3, <1>4, <1>5, <1>6, <1>7 DEF CronStep
LEMMA CronCallHasRowStep ==
  ASSUME TypeOK, CronCallHasRow, [Next]_vars
  PROVE  CronCallHasRow'
<1>1. CASE \E c \in CronRuns : CronStep(c)
  <2>1. PICK c \in CronRuns : CronStep(c)
    BY <1>1
  <2>2. ASSUME NEW d \in CronRuns \ {c}
        PROVE  wire'[d] = wire[d] /\ cron'[d] = cron[d]
    <3>1. wire'[d] = wire[d]
      BY <2>1, CronCalls, SenderKinds DEF CallKept
    <3>2. cron'[d] = cron[d]
      <4>1. \A k \in Keys : CronSkip(c, k) \/ CronSend(c, k) \/ CronRecord(c, k) => cron'[d] = cron[d]
        BY CronSkipFacts, CronSendFacts, CronRecordFacts
      <4>2. CronStart(c) \/ CronDies(c) \/ (\E k \in Keys : CronMention(c, k)) => cron'[d] = cron[d]
        BY DEF CronStart, CronDies, CronMention, TypeOK
      <4>3. QED BY <2>1, <4>1, <4>2 DEF CronStep
    <3>3. QED BY <3>1, <3>2
  <2>3. QED BY <2>1, <2>2, CronCalls DEF CronCallHasRow
<1>2. CASE \E k \in Keys : BackgroundStep(k) \/ GasStep(k) \/ HandlerStep(k) \/ Cleanup(k)
  <2>1. cron' = cron
    BY <1>2 DEF BackgroundStep, ShowWaiting, Forward, BgRecord, Restore, BgDies,
                GasStep, GasTurnAway, GasReject, GasError, GasAppendThenFail, GasExecute,
                HandlerStep, Receive, ReceiveAckFirst, InsertAfterAck, LostBeforeInsert, Cleanup,
                workerVars
  <2>2. \A c \in CronRuns : wire'[c] # "none" => wire[c] # "none"
    <3>1. TAKE c \in CronRuns
    <3>2. PICK k \in Keys : BackgroundStep(k) \/ GasStep(k) \/ HandlerStep(k) \/ Cleanup(k)
      BY <1>2
    <3>3. CASE BackgroundStep(k)
      BY <3>3, BackgroundCalls, SenderKinds DEF CallKept
    <3>4. CASE GasStep(k)
      <4>1. CallKept(c) \/ CallServed(c)
        BY <3>4, GasCalls, SenderKinds
      <4>2. QED BY <4>1 DEF CallKept, CallServed
    <3>5. CASE HandlerStep(k) \/ Cleanup(k)
      BY <3>5, OtherCalls, SenderKinds DEF CallKept
    <3>6. QED BY <3>2, <3>3, <3>4, <3>5
  <2>3. QED BY <2>1, <2>2 DEF CronCallHasRow
<1>3. CASE SetForwarding \/ UNCHANGED vars
  BY <1>3 DEF SetForwarding, workerVars, vars, CronCallHasRow
<1>4. QED BY <1>1, <1>2, <1>3 DEF Next

LEMMA OkMeansProcessedStep ==
  ASSUME TypeOK, AtMostOneRow, CronCallHasRow, OkMeansProcessed, [Next]_vars
  PROVE  OkMeansProcessed'
<1> SUFFICES ASSUME NEW s \in Senders, wire'[s] = "ok"
             PROVE  TargetProcessed(s)'
  BY DEF OkMeansProcessed
<1>1. ASSUME NEW j \in Keys, Target(s)' = j, Processed(j)'
      PROVE  TargetProcessed(s)'
  BY <1>1 DEF TargetProcessed, Processed
<1>2. ASSUME CallKept(s)
      PROVE  TargetProcessed(s)'
  <2>1. wire[s] = "ok" /\ Target(s)' = Target(s)
    BY <1>2 DEF CallKept
  <2>2. PICK j \in Keys : j = Target(s) /\ Processed(j)
    BY <2>1 DEF OkMeansProcessed, TargetProcessed
  <2>3. Processed(j)'
    BY <2>2, ProcessedStable
  <2>4. QED BY <1>1, <2>1, <2>2, <2>3
<1>3. CASE \E k \in Keys : GasStep(k)
  <2>1. PICK k \in Keys : GasStep(k)
    BY <1>3
  <2>2. CASE CallServed(s)
    <3>1. PICK j \in Keys : Target(s)' = j /\ GasExecute(j)
      BY <2>2 DEF CallServed
    <3>2. Processed(j)'
      BY <3>1, ExecuteProcesses
    <3>3. QED BY <1>1, <3>1, <3>2
  <2>3. QED BY <2>1, <2>2, <1>2, GasCalls
<1>4. CASE \E k \in Keys : BackgroundStep(k)
  BY <1>2, <1>4, BackgroundCalls
<1>5. CASE \E c \in CronRuns : CronStep(c)
  BY <1>2, <1>5, CronCalls
<1>6. CASE \/ \E k \in Keys : HandlerStep(k) \/ Cleanup(k)
           \/ SetForwarding \/ UNCHANGED vars
  BY <1>2, <1>6, OtherCalls
<1>7. QED BY <1>3, <1>4, <1>5, <1>6 DEF Next
-----------------------------------------------------------------------------
(* Rows: what a step may do to the status of one operation.                *)

RowKept(k)     == status'[k] = status[k] /\ declined'[k] = declined[k]
RowInserted(k) == status[k] = "none" /\ status'[k] = "pending" /\ declined'[k] = declined[k]
RowDeleted(k)  ==
  /\ status[k] \in {"done", "rejected"} /\ status'[k] = "deleted"
  /\ declined'[k] = declined[k]
RowRecorded(k) ==
  /\ status[k] # "deleted"
  /\ declined[k] => declined'[k]
  /\ \/ status'[k] = "pending" /\ declined'[k] = declined[k]
     \/ status'[k] = "rejected" /\ declined'[k]
     \/ status'[k] = "done" /\ declined'[k] = declined[k] /\ Processed(k)

\* An attempt of sender s is recorded in the row it was made for.
LEMMA RecordedRow ==
  ASSUME TypeOK, OkMeansProcessed, NEW s \in Senders, NEW k \in Keys, Target(s) = k,
         NEW answer \in Answers, Answered(s, answer), Record(k, answer)
  PROVE  (RowKept(k) \/ RowRecorded(k)) /\ \A j \in Keys \ {k} : RowKept(j)
<1>1. answer = "ok" => Processed(k)
  BY AnsweredFacts DEF OkMeansProcessed, TargetProcessed
<1>2. \A j \in Keys \ {k} : RowKept(j)
  BY RecordFacts DEF RowKept
<1>3. CASE status[k] = "deleted"
  BY <1>2, <1>3, RecordFacts DEF RowKept
<1>4. CASE status[k] # "deleted"
  <2>1. /\ status'[k] = OutcomeOf(k, answer)
        /\ OutcomeOf(k, answer) \in {"pending", "done", "rejected"}
        /\ OutcomeOf(k, answer) = "done" => Processed(k)
    BY <1>1, <1>4, RecordFacts
  <2>2. /\ declined[k] => declined'[k]
        /\ OutcomeOf(k, answer) = "rejected" => declined'[k]
        /\ OutcomeOf(k, answer) # "rejected" => declined'[k] = declined[k]
    BY <1>4, RecordFacts
  <2>3. RowRecorded(k)
    BY <1>4, <2>1, <2>2, Zenon DEF RowRecorded
  <2>4. QED BY <1>2, <2>3
<1>5. QED BY <1>3, <1>4

LEMMA RowStep ==
  ASSUME TypeOK, OkMeansProcessed, [Next]_vars, NEW j \in Keys
  PROVE  RowKept(j) \/ RowInserted(j) \/ RowDeleted(j) \/ RowRecorded(j)
<1>1. ASSUME NEW k \in Keys, Insert(k), declined' = declined
      PROVE  RowKept(j) \/ RowInserted(j)
  BY <1>1, InsertFacts DEF RowKept, RowInserted
<1>2. CASE \E k \in Keys : HandlerStep(k)
  <2>1. PICK k \in Keys : HandlerStep(k)
    BY <1>2
  <2>2. CASE Receive(k) \/ InsertAfterAck(k)
    BY <2>2, <1>1 DEF Receive, InsertAfterAck
  <2>3. CASE ReceiveAckFirst(k) \/ LostBeforeInsert(k)
    BY <2>3 DEF ReceiveAckFirst, LostBeforeInsert, journalVars, RowKept
  <2>4. QED BY <2>1, <2>2, <2>3 DEF HandlerStep
<1>3. CASE \E k \in Keys : BackgroundStep(k)
  <2>1. PICK k \in Keys : BackgroundStep(k)
    BY <1>3
  <2>2. CASE BgRecord(k)
    <3>1. PICK answer \in Answers : Answered(k, answer) /\ Record(k, answer)
      BY <2>2 DEF BgRecord
    <3>2. QED BY <3>1, RecordedRow, SenderKinds
  <2>3. CASE ShowWaiting(k) \/ Forward(k) \/ Restore(k) \/ BgDies(k)
    BY <2>3 DEF ShowWaiting, Forward, Restore, BgDies, journalVars, RowKept
  <2>4. QED BY <2>1, <2>2, <2>3 DEF BackgroundStep
<1>4. CASE \E c \in CronRuns : CronStep(c)
  <2>1. PICK c \in CronRuns : CronStep(c)
    BY <1>4
  <2>2. ASSUME NEW k \in Keys, CronRecord(c, k)
        PROVE  RowKept(j) \/ RowRecorded(j)
    <3>1. PICK answer \in Answers : Answered(c, answer) /\ Record(k, answer)
      BY <2>2 DEF CronRecord
    <3>2. Target(c) = k
      BY <2>2, SenderKinds DEF CronRecord
    <3>3. QED BY <3>1, <3>2, RecordedRow, SenderKinds
  <2>3. CASE CronStart(c) \/ CronDies(c) \/ \E k \in Keys : CronSkip(c, k) \/ CronSend(c, k) \/ CronMention(c, k)
    BY <2>3 DEF CronStart, CronDies, CronSkip, CronSend, CronMention, journalVars, RowKept
  <2>4. QED BY <2>1, <2>2, <2>3 DEF CronStep
<1>5. CASE \E k \in Keys : GasStep(k)
  BY <1>5 DEF GasStep, GasTurnAway, GasReject, GasError, GasAppendThenFail, GasExecute, journalVars, RowKept
<1>6. CASE \E k \in Keys : Cleanup(k)
  <2>1. PICK k \in Keys : Cleanup(k)
    BY <1>6
  <2>2. /\ status[k] \in {"done", "rejected"} /\ declined' = declined
        /\ status'[k] = "deleted" /\ \A i \in Keys \ {k} : status'[i] = status[i]
    BY <2>1 DEF Cleanup, TypeOK
  <2>3. QED BY <2>2 DEF RowKept, RowDeleted
<1>7. CASE SetForwarding \/ UNCHANGED vars
  BY <1>7 DEF SetForwarding, journalVars, vars, RowKept
<1>8. QED BY <1>2, <1>3, <1>4, <1>5, <1>6, <1>7 DEF Next

LEMMA DoneMeansProcessedStep ==
  ASSUME TypeOK, AtMostOneRow, OkMeansProcessed, DoneMeansProcessed, [Next]_vars
  PROVE  DoneMeansProcessed'
<1> SUFFICES ASSUME NEW k \in Keys, status'[k] = "done"
             PROVE  Processed(k)'
  BY DEF DoneMeansProcessed
<1>1. Processed(k)
  <2>1. status[k] = "done" \/ Processed(k)
    BY RowStep DEF RowKept, RowInserted, RowDeleted, RowRecorded
  <2>2. QED BY <2>1 DEF DoneMeansProcessed
<1>2. QED BY <1>1, ProcessedStable

\* Once GAS has executed an operation, that stays so.
LEMMA ExecutedStable ==
  ASSUME TypeOK, [Next]_vars, NEW j \in Keys, executed[j]
  PROVE  executed'[j]
<1>1. CASE \E k \in Keys : GasStep(k)
  <2>1. PICK k \in Keys : GasStep(k)
    BY <1>1
  <2>2. CASE j = k
    BY <2>1, <2>2, GasWrites
  <2>3. CASE j # k
    BY <2>1, <2>3, GasWrites
  <2>4. QED BY <2>2, <2>3
<1>2. CASE ~ \E k \in Keys : GasStep(k)
  BY <1>2, OnlyGasWrites
<1>3. QED BY <1>1, <1>2

LEMMA SettledHasReasonStep ==
  ASSUME TypeOK, OkMeansProcessed, DoneMeansProcessed, SettledHasReason, [Next]_vars
  PROVE  SettledHasReason'
<1> SUFFICES ASSUME NEW k \in Keys
             PROVE  /\ status'[k] = "rejected" => declined'[k]
                    /\ status'[k] = "deleted" => executed'[k] \/ declined'[k]
  BY DEF SettledHasReason
<1>1. executed[k] => executed'[k]
  BY ExecutedStable
<1>2. /\ status[k] = "rejected" => declined[k]
      /\ status[k] = "deleted" => executed[k] \/ declined[k]
      /\ status[k] = "done" => executed[k]
  BY DEF SettledHasReason, DoneMeansProcessed, Processed
<1>3. CASE RowKept(k)
  BY <1>1, <1>2, <1>3 DEF RowKept
<1>4. CASE RowInserted(k)
  BY <1>4 DEF RowInserted
<1>5. CASE RowDeleted(k)
  BY <1>1, <1>2, <1>5 DEF RowDeleted
<1>6. CASE RowRecorded(k)
  BY <1>6 DEF RowRecorded
<1>7. QED BY <1>3, <1>4, <1>5, <1>6, RowStep

LEMMA AckedIsKnownStep ==
  ASSUME TypeOK, OkMeansProcessed, AckedIsKnown, [Next]_vars
  PROVE  AckedIsKnown'
<1> SUFFICES ASSUME NEW j \in Stamps \cup Modals, acked'[j]
             PROVE  status'[j] # "none"
  BY DEF AckedIsKnown
<1>1. j \in Keys /\ j \notin Closes \cup Opens
  BY KindsDisjoint DEF Keys
<1>2. CASE \E k \in Keys : Receive(k)
  <2>1. PICK k \in Keys : Receive(k)
    BY <1>2
  <2>2. CASE j = k
    BY <2>1, <2>2, InsertFacts DEF Receive
  <2>3. CASE j # k
    <3>1. acked[j]
      BY <2>1, <2>3, <1>1 DEF Receive, TypeOK
    <3>2. QED BY <1>1, <2>1, <3>1, InsertFacts DEF Receive, AckedIsKnown
  <2>4. QED BY <2>2, <2>3
<1>3. CASE acked[j]
  BY <1>1, <1>3, RowStep DEF AckedIsKnown, RowKept, RowInserted, RowDeleted, RowRecorded
<1>4. CASE \E k \in Keys : ReceiveAckFirst(k)
  <2>1. PICK k \in Keys : ReceiveAckFirst(k)
    BY <1>4
  <2>2. acked[j]
    BY <1>1, <2>1 DEF ReceiveAckFirst, TypeOK
  <2>3. QED BY <1>3, <2>2
<1>5. CASE acked' = acked
  BY <1>3, <1>5
<1>6. (\E k \in Keys : Receive(k) \/ ReceiveAckFirst(k)) \/ acked' = acked
  BY DEF Next, HandlerStep, InsertAfterAck, LostBeforeInsert,
         BackgroundStep, ShowWaiting, Forward, BgRecord, Restore, BgDies,
         CronStep, CronStart, CronDies, CronSkip, CronSend, CronRecord, CronMention,
         GasStep, GasTurnAway, GasReject, GasError, GasAppendThenFail, GasExecute,
         Cleanup, SetForwarding, workerVars, vars
<1>7. QED BY <1>2, <1>4, <1>5, <1>6
-----------------------------------------------------------------------------
(* Whatever is being sent, listed or on its way has a row.                 *)

\* The row of an operation never becomes unknown again.
LEMMA KnownStable ==
  ASSUME TypeOK, OkMeansProcessed, [Next]_vars, NEW k \in Keys, status[k] # "none"
  PROVE  status'[k] # "none"
BY RowStep DEF RowKept, RowInserted, RowDeleted, RowRecorded

\* A key with a background invocation, a call or an abandoned call.
Moving(k) == bg[k] # "none" \/ wire[k] # "none" \/ late[k] > 0

\* What a run of the cron has in hand.
InHand(c) == cron[c].todo \cup ({cron[c].cur} \ {NoKey})

\* A key starts to move only when it has a row, or a call of it is abandoned.
LEMMA MovingStep ==
  ASSUME IInv, [Next]_vars, NEW j \in Keys, Moving(j)'
  PROVE  status'[j] # "none"
<1> USE DEF IInv
<1>0. status[j] # "none" => status'[j] # "none"
  BY KnownStable
<1>1. Moving(j) => status[j] # "none"
  BY DEF Moving, InFlightIsKnown
<1>2. ASSUME \/ bg'[j] = bg[j] \/ bg[j] # "none"
             \/ status'[j] # "none",
             wire'[j] # "none" => wire[j] # "none" \/ bg[j] # "none",
             late'[j] > 0 => late[j] > 0 \/ status[j] # "none"
      PROVE  status'[j] # "none"
  BY <1>0, <1>1, <1>2 DEF Moving
<1>3. CASE \E k \in Keys : HandlerStep(k)
  <2>1. PICK k \in Keys : HandlerStep(k)
    BY <1>3
  <2>2. wire' = wire /\ late' = late
    BY <2>1 DEF HandlerStep, Receive, ReceiveAckFirst, InsertAfterAck, LostBeforeInsert
  <2>3. bg'[j] = bg[j] \/ status'[j] # "none"
    <3>1. CASE Receive(k) \/ InsertAfterAck(k)
      BY <3>1, InsertFacts DEF Receive, InsertAfterAck
    <3>2. CASE ReceiveAckFirst(k) \/ LostBeforeInsert(k)
      BY <3>2 DEF ReceiveAckFirst, LostBeforeInsert
    <3>3. QED BY <2>1, <3>1, <3>2 DEF HandlerStep
  <2>4. QED BY <1>2, <2>2, <2>3
<1>4. CASE \E k \in Keys : BackgroundStep(k)
  <2>1. PICK k \in Keys : BackgroundStep(k)
    BY <1>4
  <2>2. bg[k] # "none"
    BY <2>1, KindsDisjoint DEF BackgroundStep, ShowWaiting, Forward, BgRecord, Restore, BgDies
  <2>3. ASSUME j # k
        PROVE  bg'[j] = bg[j] /\ wire'[j] = wire[j] /\ late'[j] = late[j]
    <3>1. bg'[j] = bg[j]
      BY <2>1, <2>3 DEF BackgroundStep, ShowWaiting, Forward, BgRecord, Restore, BgDies, TypeOK
    <3>2. CASE ShowWaiting(k) \/ Forward(k) \/ Restore(k)
      BY <2>3, <3>1, <3>2, SenderKinds DEF ShowWaiting, Forward, Restore, TypeOK
    <3>3. CASE BgRecord(k)
      BY <2>3, <3>1, <3>3, AnsweredFacts, SenderKinds DEF BgRecord
    <3>4. CASE BgDies(k)
      BY <2>3, <3>1, <3>4, HangUpFacts, SenderKinds DEF BgDies
    <3>5. QED BY <2>1, <3>2, <3>3, <3>4 DEF BackgroundStep
  <2>4. CASE j = k
    BY <1>0, <1>1, <2>2, <2>4 DEF Moving
  <2>5. QED BY <1>2, <2>3, <2>4
<1>5. CASE \E c \in CronRuns : CronStep(c)
  <2>1. PICK c \in CronRuns : CronStep(c)
    BY <1>5
  <2>2. bg'[j] = bg[j]
    BY <2>1 DEF CronStep, CronStart, CronDies, CronSkip, CronSend, CronRecord, CronMention
  <2>3. wire'[j] = wire[j]
    BY <2>1, CronCalls, SenderKinds DEF CallKept
  <2>4. late'[j] > 0 => late[j] > 0 \/ status[j] # "none"
    <3>1. ASSUME late'[j] = late[j] \/ (wire[c] # "none" /\ j = cron[c].cur)
          PROVE  late'[j] > 0 => late[j] > 0 \/ status[j] # "none"
      BY <3>1 DEF InFlightIsKnown
    <3>2. CASE CronDies(c)
      BY <3>1, <3>2, HangUpFacts, SenderKinds DEF CronDies
    <3>3. ASSUME NEW k \in Keys, CronRecord(c, k)
          PROVE  late'[j] > 0 => late[j] > 0 \/ status[j] # "none"
      BY <3>1, <3>3, AnsweredFacts, SenderKinds DEF CronRecord
    <3>4. CASE CronStart(c) \/ \E k \in Keys : CronSkip(c, k) \/ CronSend(c, k) \/ CronMention(c, k)
      BY <3>4 DEF CronStart, CronSkip, CronSend, CronMention
    <3>5. QED BY <2>1, <3>2, <3>3, <3>4 DEF CronStep
  <2>5. QED BY <1>2, <2>2, <2>3, <2>4
<1>6. CASE \E k \in Keys : GasStep(k)
  <2>1. PICK k \in Keys : GasStep(k)
    BY <1>6
  <2>2. bg' = bg
    BY <2>1 DEF GasStep, GasTurnAway, GasReject, GasError, GasAppendThenFail, GasExecute, workerVars
  <2>3. PICK reply \in Replies : Serve(k, reply)
    BY <2>1 DEF GasStep, GasTurnAway, GasReject, GasError, GasAppendThenFail, GasExecute, Replies
  <2>4. wire'[j] # "none" => wire[j] # "none"
    BY <2>3, ServeFacts, SenderKinds
  <2>5. late'[j] > 0 => late[j] > 0
    BY <2>3, ServeFacts
  <2>6. QED BY <1>2, <2>2, <2>4, <2>5
<1>7. CASE (\E k \in Keys : Cleanup(k)) \/ SetForwarding \/ UNCHANGED vars
  <2>1. bg' = bg /\ wire' = wire /\ late' = late
    BY <1>7 DEF Cleanup, SetForwarding, workerVars, vars
  <2>2. QED BY <1>2, <2>1
<1>8. QED BY <1>3, <1>4, <1>5, <1>6, <1>7 DEF Next

\* A run of the cron takes rows from the journal only.
LEMMA InHandStep ==
  ASSUME IInv, [Next]_vars, NEW c \in CronRuns, NEW k \in Keys, k \in InHand(c)'
  PROVE  status'[k] # "none"
<1> USE DEF IInv
<1>1. k \in InHand(c) => status[k] # "none"
  BY SenderKinds DEF InHand, InFlightIsKnown
<1>2. k \in InHand(c) \/ status[k] = "pending"
  <2>1. CASE \E d \in CronRuns : CronStep(d)
    <3>1. PICK d \in CronRuns : CronStep(d)
      BY <2>1
    <3>2. ASSUME NEW i \in Keys, CronSkip(d, i) \/ CronSend(d, i)
          PROVE  k \in InHand(c)
      <4>1. i \in cron[d].todo
        BY <3>2 DEF CronSkip, CronSend, IsNextRow
      <4>2. QED BY <3>2, <4>1, CronSkipFacts, CronSendFacts, SenderKinds DEF InHand
    <3>3. ASSUME NEW i \in Keys, CronRecord(d, i)
          PROVE  k \in InHand(c)
      <4>1. i = cron[d].cur
        BY <3>3 DEF CronRecord
      <4>2. QED BY <3>3, <4>1, CronRecordFacts, SenderKinds DEF InHand
    <3>4. ASSUME NEW i \in Keys, CronMention(d, i)
          PROVE  k \in InHand(c)
      BY <3>4, SenderKinds DEF InHand, CronMention, TypeOK
    <3>5. CASE CronDies(d)
      BY <3>5, SenderKinds DEF InHand, CronDies, Idle, TypeOK
    <3>6. CASE CronStart(d)
      <4>1. cron'[c] = cron[c] \/ (cron'[c].todo = ListPending /\ cron'[c].cur = NoKey)
        BY <3>6 DEF CronStart, TypeOK
      <4>2. QED BY <4>1, SenderKinds DEF InHand, ListPending, Pending
    <3>7. QED BY <3>1, <3>2, <3>3, <3>4, <3>5, <3>6 DEF CronStep
  <2>2. CASE ~ \E d \in CronRuns : CronStep(d)
    <3>1. cron' = cron
      BY <2>2 DEF Next, HandlerStep, Receive, ReceiveAckFirst, InsertAfterAck, LostBeforeInsert,
                  BackgroundStep, ShowWaiting, Forward, BgRecord, Restore, BgDies,
                  GasStep, GasTurnAway, GasReject, GasError, GasAppendThenFail, GasExecute,
                  Cleanup, SetForwarding, workerVars, vars
    <3>2. QED BY <3>1 DEF InHand
  <2>3. QED BY <2>1, <2>2
<1>3. QED BY <1>1, <1>2, KnownStable

LEMMA InFlightIsKnownStep ==
  ASSUME IInv, [Next]_vars
  PROVE  InFlightIsKnown'
<1>1. \A k \in Keys : Moving(k)' => status'[k] # "none"
  BY MovingStep
<1>2. \A c \in CronRuns : \A k \in Keys : k \in InHand(c)' => status'[k] # "none"
  BY InHandStep
<1>3. TypeOK'
  BY TypeStep DEF IInv
<1>4. \A c \in CronRuns : cron'[c].todo \subseteq Keys
  BY <1>3 DEF TypeOK
<1>5. QED BY <1>1, <1>2, <1>4, SenderKinds DEF InFlightIsKnown, Moving, InHand
-----------------------------------------------------------------------------
(* The inductive invariant and what follows from it.                       *)

LEMMA IInvInit == Init => IInv
<1> SUFFICES ASSUME Init PROVE IInv
  OBVIOUS
<1>1. TypeOK
  BY TypeInit
<1>2. AtMostOneRow /\ DoneMeansProcessed /\ SettledHasReason
  BY DEF Init, AtMostOneRow, DoneMeansProcessed, SettledHasReason
<1>3. CronCallHasRow /\ OkMeansProcessed
  BY SenderKinds DEF Init, CronCallHasRow, OkMeansProcessed, Idle
<1>4. AckedIsKnown
  BY DEF Init, AckedIsKnown, Keys
<1>5. InFlightIsKnown
  BY SenderKinds DEF Init, InFlightIsKnown, Idle
<1>6. QED BY <1>1, <1>2, <1>3, <1>4, <1>5 DEF IInv

LEMMA IInvStep == IInv /\ [Next]_vars => IInv'
<1> SUFFICES ASSUME IInv, [Next]_vars PROVE IInv'
  OBVIOUS
<1>1. /\ TypeOK /\ AtMostOneRow /\ CronCallHasRow /\ OkMeansProcessed /\ DoneMeansProcessed
      /\ SettledHasReason /\ AckedIsKnown
  BY DEF IInv
<1>2. TypeOK' /\ AtMostOneRow'
  BY <1>1, TypeStep, AtMostOneRowStep
<1>3. CronCallHasRow' /\ OkMeansProcessed'
  BY <1>1, CronCallHasRowStep, OkMeansProcessedStep
<1>4. DoneMeansProcessed' /\ SettledHasReason' /\ AckedIsKnown'
  BY <1>1, DoneMeansProcessedStep, SettledHasReasonStep, AckedIsKnownStep
<1>5. InFlightIsKnown'
  BY InFlightIsKnownStep
<1>6. QED BY <1>2, <1>3, <1>4, <1>5 DEF IInv

LEMMA Inductive == Spec => []IInv
BY IInvInit, IInvStep, PTL DEF Spec

\* recordAttemptResult writes done only for an operation GAS has run to its end: its
\* row is in the raw log and counted in the daily and monthly sheets.
THEOREM DoneIsProcessed == Spec => []DoneMeansProcessed
<1>1. IInv => DoneMeansProcessed
  BY DEF IInv
<1>2. QED BY <1>1, Inductive, PTL

\* INSERT before ACK, the cleanup's status filter and the outcomes of an attempt together:
\* an acknowledged stamp, correction or command never disappears without an answer.
THEOREM AckedIsAccounted == Spec => []AckedIsAccountedFor
<1>1. IInv => AckedIsAccountedFor
  <2> SUFFICES ASSUME IInv, NEW k \in Stamps \cup Modals, acked[k]
               PROVE  status[k] = "pending" \/ executed[k] \/ declined[k]
    BY DEF AckedIsAccountedFor
  <2>1. k \in Keys
    BY DEF Keys
  <2>2. status[k] \in Statuses /\ status[k] # "none"
    BY <2>1 DEF IInv, TypeOK, AckedIsKnown
  <2>3. status[k] = "done" => executed[k]
    BY <2>1 DEF IInv, DoneMeansProcessed, Processed
  <2>4. status[k] \in {"rejected", "deleted"} => executed[k] \/ declined[k]
    BY <2>1 DEF IInv, SettledHasReason
  <2>5. QED BY <2>2, <2>3, <2>4 DEF Statuses
<1>2. QED BY <1>1, Inductive, PTL

LEMMA OpenNeverRetriedStep ==
  ASSUME TypeOK, OpenNeverRetried, [Next]_vars
  PROVE  OpenNeverRetried'
<1> SUFFICES ASSUME NEW c \in CronRuns PROVE cron'[c].cur \notin Opens
  BY DEF OpenNeverRetried
<1>1. NoKey \notin Opens
  BY SenderKinds DEF Keys
<1>2. CASE \E d \in CronRuns : CronStep(d)
  <2>1. PICK d \in CronRuns : CronStep(d)
    BY <1>2
  <2>2. ASSUME NEW k \in Keys, CronSkip(d, k) \/ CronSend(d, k)
        PROVE  cron'[c].cur \notin Opens
    BY <2>2, CronSkipFacts, CronSendFacts DEF CronSend, OpenNeverRetried
  <2>3. ASSUME NEW k \in Keys, CronRecord(d, k)
        PROVE  cron'[c].cur \notin Opens
    <3>1. k = cron[d].cur /\ cron'[d].cur \in {k, NoKey}
      <4>1. k = cron[d].cur
        BY <2>3 DEF CronRecord
      <4>2. cron'[d].cur \in {k, NoKey}
        BY <2>3, CronRecordFacts
      <4>3. QED BY <4>1, <4>2
    <3>2. c # d => cron'[c] = cron[c]
      BY <2>3, CronRecordFacts
    <3>3. cron[c].cur \notin Opens /\ cron[d].cur \notin Opens
      BY DEF OpenNeverRetried
    <3>4. CASE c = d
      BY <1>1, <3>1, <3>3, <3>4
    <3>5. CASE c # d
      BY <3>2, <3>3, <3>5
    <3>6. QED BY <3>4, <3>5
  <2>4. CASE CronStart(d) \/ CronDies(d) \/ \E k \in Keys : CronMention(d, k)
    <3>1. cron'[c] = cron[c] \/ cron'[c].cur = NoKey
      BY <2>4 DEF CronStart, CronDies, CronMention, Idle, TypeOK
    <3>2. QED BY <1>1, <3>1 DEF OpenNeverRetried
  <2>5. QED BY <2>1, <2>2, <2>3, <2>4 DEF CronStep
<1>3. CASE ~ \E d \in CronRuns : CronStep(d)
  <2>1. cron' = cron
    BY <1>3 DEF Next, HandlerStep, Receive, ReceiveAckFirst, InsertAfterAck, LostBeforeInsert,
                BackgroundStep, ShowWaiting, Forward, BgRecord, Restore, BgDies,
                GasStep, GasTurnAway, GasReject, GasError, GasAppendThenFail, GasExecute,
                Cleanup, SetForwarding, workerVars, vars
  <2>2. QED BY <2>1 DEF OpenNeverRetried
<1>4. QED BY <1>2, <1>3

\* The kind check of runRetryCron: an open_correction row is never retried.
THEOREM OpenIsNotRetried == Spec => []OpenNeverRetried
<1>1. Init => OpenNeverRetried
  BY SenderKinds DEF Init, OpenNeverRetried, Idle, Keys
<1>2. QED BY <1>1, OpenNeverRetriedStep, TypeCorrect, PTL DEF Spec

-----------------------------------------------------------------------------
(* Refinement: Delivery implements DurableInbox.                           *)

P_inbox    == {k \in Keys : status[k] \in {"pending", "done", "rejected"}}
P_known    == {k \in Keys : status[k] # "none"}
P_applied  == {k \in Keys : log[k] > 0}
P_answered == {k \in Keys : executed[k] \/ declined[k]}

LEMMA PromiseInit == Init => Promise!Init
BY DEF Init, Promise!Init

\* What a step does to the four variables of DurableInbox, key by key.
LEMMA PromiseStutter ==
  ASSUME UNCHANGED <<P_inbox, P_known, P_applied, P_answered>>
  PROVE  UNCHANGED Promise!inboxVars
BY DEF Promise!inboxVars, P_inbox, P_known, P_applied, P_answered

\* A row is inserted: the inbox accepts the operation.
LEMMA PromiseInsert ==
  ASSUME TypeOK, NEW k \in Keys, Insert(k), UNCHANGED <<log, executed, declined>>
  PROVE  [Promise!Next]_Promise!inboxVars
<1>1. UNCHANGED <<P_applied, P_answered>>
  BY DEF P_applied, P_answered
<1>2. CASE status[k] = "none"
  <2>1. status' = [status EXCEPT ![k] = "pending"]
    BY <1>2 DEF Insert
  <2>2. P_inbox' = P_inbox \cup {k} /\ P_known' = P_known \cup {k} /\ k \notin P_known
    BY <1>2, <2>1 DEF TypeOK, P_inbox, P_known
  <2>3. Promise!Accept(k)
    BY <1>1, <2>2 DEF Promise!Accept, P_inbox, P_known, P_applied, P_answered
  <2>4. QED BY <2>3 DEF Promise!Next
<1>3. CASE status[k] # "none"
  <2>1. UNCHANGED <<P_inbox, P_known>>
    BY <1>3 DEF Insert, P_inbox, P_known
  <2>2. QED BY <1>1, <2>1, PromiseStutter
<1>4. QED BY <1>2, <1>3

\* An attempt is recorded: the operation is answered, if it is rejected now.
LEMMA PromiseRecord ==
  ASSUME TypeOK, NEW k \in Keys, status[k] # "none", UNCHANGED <<log, executed>>,
         RowKept(k) \/ RowRecorded(k), \A j \in Keys \ {k} : RowKept(j)
  PROVE  [Promise!Next]_Promise!inboxVars
<1>1. UNCHANGED <<P_inbox, P_known, P_applied>>
  <2>1. \A j \in Keys \ {k} : status'[j] = status[j]
    BY DEF RowKept
  <2>2. \/ status'[k] = status[k]
        \/ {status[k], status'[k]} \subseteq {"pending", "done", "rejected"}
    BY DEF RowKept, RowRecorded, TypeOK, Statuses
  <2>3. UNCHANGED <<P_inbox, P_known>>
    BY <2>1, <2>2 DEF P_inbox, P_known
  <2>4. QED BY <2>3 DEF P_applied
<1>2. P_answered' = P_answered \/ (k \notin P_answered /\ P_answered' = P_answered \cup {k})
  <2>1. \A j \in Keys \ {k} : j \in P_answered' <=> j \in P_answered
    BY DEF RowKept, P_answered
  <2>2. k \in P_answered => k \in P_answered'
    BY DEF RowKept, RowRecorded, P_answered
  <2>3. P_answered \subseteq Keys /\ P_answered' \subseteq Keys
    BY DEF P_answered
  <2>4. QED BY <2>1, <2>2, <2>3
<1>3. CASE P_answered' = P_answered
  BY <1>1, <1>3, PromiseStutter
<1>4. CASE k \notin P_answered /\ P_answered' = P_answered \cup {k}
  <2>1. k \in P_known
    BY DEF P_known
  <2>2. Promise!Answer(k)
    BY <1>1, <1>4, <2>1 DEF Promise!Answer, P_inbox, P_known, P_applied, P_answered
  <2>3. QED BY <2>2 DEF Promise!Next
<1>5. QED BY <1>2, <1>3, <1>4

\* A request is executed: the operation is applied or answered, or it was before.
LEMMA PromiseExecute ==
  ASSUME IInv, NEW k \in Keys, GasStep(k)
  PROVE  [Promise!Next]_Promise!inboxVars
<1> USE DEF IInv
<1>1. status' = status /\ declined' = declined
  BY DEF GasStep, GasTurnAway, GasReject, GasError, GasAppendThenFail, GasExecute, journalVars
<1>2. UNCHANGED <<P_inbox, P_known>>
  BY <1>1 DEF P_inbox, P_known
<1>3. k \in P_known
  <2>1. PICK reply \in Replies : Serve(k, reply)
    BY DEF GasStep, GasTurnAway, GasReject, GasError, GasAppendThenFail, GasExecute, Replies
  <2>2. late[k] > 0 \/ \E s \in Senders : wire[s] = "out" /\ Target(s) = k
    BY <2>1, ServeFacts
  <2>3. CASE late[k] > 0
    BY <2>3 DEF InFlightIsKnown, P_known
  <2>4. CASE \E s \in Senders : wire[s] = "out" /\ Target(s) = k
    BY <2>4, SenderKinds DEF InFlightIsKnown, P_known, Senders
  <2>5. QED BY <2>2, <2>3, <2>4
<1>4. /\ \A j \in Keys \ {k} : log'[j] = log[j] /\ executed'[j] = executed[j]
      /\ log'[k] = log[k] \/ (log[k] = 0 /\ log'[k] = 1)
      /\ executed[k] => executed'[k]
  BY GasWrites
<1>5. P_applied' = P_applied \/ (k \notin P_applied /\ P_applied' = P_applied \cup {k})
  BY <1>4 DEF P_applied
<1>6. P_answered' = P_answered \/ (k \notin P_answered /\ P_answered' = P_answered \cup {k})
  <2>1. \A j \in Keys \ {k} : j \in P_answered' <=> j \in P_answered
    BY <1>1, <1>4 DEF P_answered
  <2>2. k \in P_answered => k \in P_answered'
    BY <1>1, <1>4 DEF P_answered
  <2>3. P_answered \subseteq Keys /\ P_answered' \subseteq Keys
    BY DEF P_answered
  <2>4. QED BY <2>1, <2>2, <2>3
<1>7. CASE k \notin P_applied /\ P_applied' = P_applied \cup {k}
  <2>1. Promise!Apply(k)
    BY <1>2, <1>3, <1>6, <1>7 DEF Promise!Apply, P_inbox, P_known, P_applied, P_answered
  <2>2. QED BY <2>1 DEF Promise!Next
<1>8. CASE P_applied' = P_applied /\ k \notin P_answered /\ P_answered' = P_answered \cup {k}
  <2>1. Promise!Answer(k)
    BY <1>2, <1>3, <1>8 DEF Promise!Answer, P_inbox, P_known, P_applied, P_answered
  <2>2. QED BY <2>1 DEF Promise!Next
<1>9. CASE P_applied' = P_applied /\ P_answered' = P_answered
  BY <1>2, <1>9, PromiseStutter
<1>10. QED BY <1>5, <1>6, <1>7, <1>8, <1>9

\* Cleanup forgets a row whose operation has its answer.
LEMMA PromiseCleanup ==
  ASSUME IInv, NEW k \in Keys, Cleanup(k)
  PROVE  [Promise!Next]_Promise!inboxVars
<1> USE DEF IInv
<1>1. /\ status[k] \in {"done", "rejected"}
      /\ status' = [status EXCEPT ![k] = "deleted"]
      /\ UNCHANGED <<log, executed, declined>>
  BY DEF Cleanup, gasVars
<1>2. UNCHANGED <<P_applied, P_answered>>
  BY <1>1 DEF P_applied, P_answered
<1>3. P_inbox' = P_inbox \ {k} /\ k \in P_inbox /\ P_known' = P_known
  BY <1>1 DEF TypeOK, P_inbox, P_known
<1>4. k \in P_answered
  BY <1>1 DEF DoneMeansProcessed, Processed, SettledHasReason, P_answered
<1>5. Promise!Forget(k)
  BY <1>2, <1>3, <1>4 DEF Promise!Forget, P_inbox, P_known, P_applied, P_answered
<1>6. QED BY <1>5 DEF Promise!Next

LEMMA PromiseStep ==
  ASSUME IInv, [Next]_vars
  PROVE  [Promise!Next]_Promise!inboxVars
<1>0. /\ TypeOK /\ OkMeansProcessed /\ InFlightIsKnown
  BY DEF IInv
<1>1. ASSUME UNCHANGED <<status, log, executed, declined>>
      PROVE  [Promise!Next]_Promise!inboxVars
  <2>1. UNCHANGED <<P_inbox, P_known, P_applied, P_answered>>
    BY <1>1 DEF P_inbox, P_known, P_applied, P_answered
  <2>2. QED BY <2>1, PromiseStutter
<1>2. ASSUME NEW s \in Senders, NEW k \in Keys, Target(s) = k, status[k] # "none",
             NEW answer \in Answers, Answered(s, answer), Record(k, answer), UNCHANGED <<log, executed>>
      PROVE  [Promise!Next]_Promise!inboxVars
  BY <1>0, <1>2, RecordedRow, PromiseRecord
<1>3. ASSUME NEW k \in Keys, HandlerStep(k)
      PROVE  [Promise!Next]_Promise!inboxVars
  <2>1. CASE Receive(k) \/ InsertAfterAck(k)
    BY <1>0, <2>1, PromiseInsert DEF Receive, InsertAfterAck, gasVars
  <2>2. CASE ReceiveAckFirst(k) \/ LostBeforeInsert(k)
    BY <1>1, <2>2 DEF ReceiveAckFirst, LostBeforeInsert, journalVars, gasVars
  <2>3. QED BY <1>3, <2>1, <2>2 DEF HandlerStep
<1>4. ASSUME NEW k \in Keys, BackgroundStep(k)
      PROVE  [Promise!Next]_Promise!inboxVars
  <2>1. CASE BgRecord(k)
    <3>1. PICK answer \in Answers : Answered(k, answer) /\ Record(k, answer)
      BY <2>1 DEF BgRecord
    <3>2. status[k] # "none"
      BY <1>0, <2>1 DEF BgRecord, InFlightIsKnown
    <3>3. QED BY <1>2, <2>1, <3>1, <3>2, SenderKinds DEF BgRecord, gasVars
  <2>2. CASE ShowWaiting(k) \/ Forward(k) \/ Restore(k) \/ BgDies(k)
    BY <1>1, <2>2 DEF ShowWaiting, Forward, Restore, BgDies, journalVars, gasVars
  <2>3. QED BY <1>4, <2>1, <2>2 DEF BackgroundStep
<1>5. ASSUME NEW c \in CronRuns, CronStep(c)
      PROVE  [Promise!Next]_Promise!inboxVars
  <2>1. ASSUME NEW k \in Keys, CronRecord(c, k)
        PROVE  [Promise!Next]_Promise!inboxVars
    <3>1. PICK answer \in Answers : Answered(c, answer) /\ Record(k, answer)
      BY <2>1 DEF CronRecord
    <3>2. k = cron[c].cur /\ status[k] # "none"
      BY <1>0, <2>1 DEF CronRecord, InFlightIsKnown
    <3>3. QED BY <1>2, <2>1, <3>1, <3>2, SenderKinds DEF CronRecord, gasVars
  <2>2. CASE CronStart(c) \/ CronDies(c) \/ \E k \in Keys : CronSkip(c, k) \/ CronSend(c, k) \/ CronMention(c, k)
    BY <1>1, <2>2 DEF CronStart, CronDies, CronSkip, CronSend, CronMention, journalVars, gasVars
  <2>3. QED BY <1>5, <2>1, <2>2 DEF CronStep
<1>6. CASE SetForwarding \/ UNCHANGED vars
  BY <1>1, <1>6 DEF SetForwarding, journalVars, gasVars, vars
<1>7. QED BY <1>3, <1>4, <1>5, <1>6, PromiseExecute, PromiseCleanup DEF Next

\* The Worker's journal and GAS together keep the promise of DurableInbox: every step
\* of Delivery is a step of it or changes nothing it speaks of.
THEOREM DeliveryKeepsPromise == Spec => KeepsPromise
BY PromiseInit, PromiseStep, Inductive, PTL DEF Spec, KeepsPromise, Promise!Spec
=============================================================================
