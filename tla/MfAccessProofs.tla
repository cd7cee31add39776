--------------------------- MODULE MfAccessProofs ---------------------------
(***************************************************************************)
(* Proofs about MfAccess: a call that ends in an error was not carried     *)
(* out, tokens that hold are not refreshed, and the operator is asked for  *)
(* a new authorisation only after a refresh that was not seen through.     *)
(*                                                                         *)
(* The invariant says of an execution that refreshes that it holds the     *)
(* user lock and that nobody has saved tokens since it compared the        *)
(* generation; and of one that was refused that its token does not hold,   *)
(* and that as long as the generation it started from is in the            *)
(* properties, so is the token it was refused with.                        *)
(***************************************************************************)
EXTENDS MfAccess, TLAPS

Places == {"idle", "send", "exchange", "refresh", "token", "save", "ended", "dm"}
Stages == {"first", "renewed", "waited"}
Ends   == {"none", "ok", "api", "transient", "unknown", "auth", "reauth"}
NotMade == {"api", "transient", "auth", "reauth"}

RunRecords == [at : Places, svc : Services, create : BOOLEAN, stage : Stages, cred : Nat,
               gen : Nat, held : Nat, new : Nat, end : Ends, made : Nat, outdated : BOOLEAN]

Types ==
  /\ tokens \in [pair : Nat, gen : Nat] /\ tokens.gen >= 1
  /\ issued \in [pair : Nat, alive : BOOLEAN]
  /\ cache \in Nat /\ period \in Nat
  /\ run \in [Execs -> RunRecords]

\* What was carried out of a request.
MadeOnce(r) ==
  /\ r.at # "ended" => r.made = 0 /\ r.end = "none"
  /\ r.made <= 1 /\ (r.end \in NotMade => r.made = 0)

\* Pairs are those that MF has issued.
PairsKnown(r) ==
  /\ r.at \in {"refresh", "token", "save"} => r.svc = "invoice"
  /\ r.at = "refresh" => r.stage = "renewed"
  /\ r.at = "exchange" => r.svc = "accounting"
  /\ r.svc = "invoice" => r.cred <= issued.pair
  /\ r.held <= issued.pair /\ r.new <= issued.pair

\* The generation an execution started from stands for the token it has sent.
FirstTry(r) == r.svc = "invoice" /\ ~r.outdated
               /\ (r.at = "refresh" \/ (r.at = "send" /\ r.stage = "first"))
GenerationTells(r) ==
  FirstTry(r) => r.gen <= tokens.gen /\ (r.gen = tokens.gen => tokens.pair = r.cred)

\* An execution that refreshes was refused with a token that does not hold.
Refused(r) ==
  /\ r.at = "refresh" /\ ~r.outdated => ~(r.cred = issued.pair /\ issued.alive)
  /\ r.at = "token" /\ ~r.outdated => ~(r.held = issued.pair /\ issued.alive)

\* Nobody has saved a later generation since it was compared.
Unsaved(r) == r.at \in {"token", "save"} => tokens.gen <= r.gen

RunOK(r) == MadeOnce(r) /\ PairsKnown(r) /\ GenerationTells(r) /\ Refused(r) /\ Unsaved(r)

Locked == \A e \in Execs : run[e].at \in {"token", "save"} => userLock = e

\* As long as every refresh was seen through, the last pair is where it belongs.
NotLost ==
  ~doubt =>
    /\ \A e \in Execs : run[e].at = "token" => run[e].held = issued.pair
    /\ \A e \in Execs : run[e].at = "save" => run[e].new = issued.pair
    /\ (\A e \in Execs : run[e].at # "save") => tokens.pair = issued.pair

Inv ==
  /\ Types /\ tokens.pair <= issued.pair
  /\ \A e \in Execs : RunOK(run[e])
  /\ Locked /\ NotLost

-----------------------------------------------------------------------------
(* Records of executions.                                                  *)

LEMMA RestFacts ==
  ASSUME Types, NEW e \in Execs
  PROVE  /\ Rest(e) \in RunRecords /\ Rest(e).at = "idle" /\ Rest(e).svc = run[e].svc
         /\ Rest(e).stage = "first" /\ Rest(e).cred = 0 /\ Rest(e).gen = 0
         /\ Rest(e).held = 0 /\ Rest(e).new = 0 /\ Rest(e).end = "none"
         /\ Rest(e).made = 0 /\ Rest(e).outdated = FALSE /\ Rest(e).create = FALSE
<1>1. run[e].svc \in Services BY DEF Types, RunRecords
<1> QED BY <1>1 DEF Rest, Idle, RunRecords, Places, Stages, Ends

\* An execution at rest, ended or about to tell the operator.
LEMMA RestOK ==
  ASSUME Inv, NEW e \in Execs, NEW r \in RunRecords,
         r.at \in {"idle", "ended", "dm"}, r.cred = 0, r.held = 0, r.new = 0, MadeOnce(r)
  PROVE  RunOK(r)
<1>1. issued.pair \in Nat BY DEF Inv, Types
<1>2. PairsKnown(r) BY <1>1 DEF PairsKnown
<1> QED BY <1>2 DEF RunOK, GenerationTells, FirstTry, Refused, Unsaved

LEMMA EndedFacts ==
  ASSUME Inv, NEW e \in Execs, NEW end \in Ends, NEW made \in {0, 1},
         end \in NotMade => made = 0
  PROVE  /\ Ended(e, end, made) \in RunRecords /\ RunOK(Ended(e, end, made))
         /\ Ended(e, end, made).at = "ended" /\ Ended(e, end, made).end = end
<1> DEFINE r == Ended(e, end, made)
<1>1. Rest(e) \in RunRecords /\ Rest(e).cred = 0 /\ Rest(e).held = 0 /\ Rest(e).new = 0
  BY RestFacts DEF Inv
<1>2. run[e] \in RunRecords BY DEF Inv, Types
<1>3. /\ r \in RunRecords /\ r.at = "ended" /\ r.end = end /\ r.made = made
      /\ r.cred = 0 /\ r.held = 0 /\ r.new = 0
  <2> DEFINE q == Rest(e)
  <2>1. q \in RunRecords /\ q.cred = 0 /\ q.held = 0 /\ q.new = 0 BY <1>1
  <2>2. r = [q EXCEPT !.at = "ended", !.create = run[e].create, !.end = end, !.made = made,
                      !.outdated = run[e].outdated]
    BY DEF Ended
  <2>3. "ended" \in Places /\ made \in Nat BY DEF Places
  <2> HIDE DEF q, r
  <2> QED BY <1>2, <2>1, <2>2, <2>3 DEF RunRecords
<1>4. MadeOnce(r)
  <2> HIDE DEF r
  <2> QED BY <1>3 DEF MadeOnce
<1>5. RunOK(r)
  <2> HIDE DEF r
  <2> QED BY <1>3, <1>4, RestOK
<1> QED BY <1>3, <1>5

-----------------------------------------------------------------------------
(* Steps of one execution.                                                 *)

\* A step that leaves tokens and lock alone and does not refresh.
LEMMA QuietStep ==
  ASSUME Inv, NEW e \in Execs, NEW r \in RunRecords, Goes(e, r), RunOK(r),
         run[e].at \notin {"token", "save"}, r.at \notin {"token", "save"},
         UNCHANGED <<tokens, issued, userLock, doubt>>, cache' \in Nat, period' \in Nat
  PROVE  Inv'
<1>1. Types' /\ tokens'.pair <= issued'.pair BY DEF Inv, Types, Goes
<1>2. \A x \in Execs : run'[x] = IF x = e THEN r ELSE run[x] BY DEF Inv, Types, Goes
<1>3. \A x \in Execs : RunOK(run[x])'
  <2> SUFFICES ASSUME NEW x \in Execs PROVE RunOK(run[x])' OBVIOUS
  <2>1. RunOK(run'[x]) BY <1>2 DEF Inv
  <2> QED BY <2>1 DEF RunOK, MadeOnce, PairsKnown, GenerationTells, FirstTry, Refused, Unsaved
<1>4. Locked' BY <1>2 DEF Inv, Locked
<1>5. NotLost' BY <1>2 DEF Inv, NotLost
<1> QED BY <1>1, <1>3, <1>4, <1>5 DEF Inv

LEMMA QuietEnd ==
  ASSUME Inv, NEW e \in Execs, run[e].at \notin {"token", "save"}, NEW end \in Ends,
         NEW made \in {0, 1}, end \in NotMade => made = 0, Goes(e, Ended(e, end, made)),
         UNCHANGED <<tokens, issued, userLock, doubt>>, cache' \in Nat, period' \in Nat
  PROVE  Inv'
BY EndedFacts, QuietStep

LEMMA BeginInv ==
  ASSUME Inv, NEW e \in Execs, NEW create \in BOOLEAN, Begin(e, create)
  PROVE  Inv'
<1> DEFINE r == IF run[e].svc = "invoice"
                THEN [Rest(e) EXCEPT !.at = "send", !.create = create,
                                     !.cred = tokens.pair, !.gen = tokens.gen]
                ELSE [Rest(e) EXCEPT !.at = IF cache = 0 THEN "exchange" ELSE "send",
                                     !.create = create, !.cred = cache]
<1>1. /\ Rest(e) \in RunRecords /\ Rest(e).svc = run[e].svc /\ Rest(e).end = "none"
      /\ Rest(e).made = 0 /\ Rest(e).held = 0 /\ Rest(e).new = 0
  BY RestFacts DEF Inv
<1>2. /\ tokens.pair \in Nat /\ tokens.gen \in Nat /\ cache \in Nat /\ issued.pair \in Nat
      /\ tokens.pair <= issued.pair
  BY DEF Inv, Types
<1>3. /\ r \in RunRecords /\ r.at \in {"send", "exchange"} /\ r.svc = run[e].svc
      /\ r.svc = "invoice" => r.at = "send" /\ r.cred = tokens.pair /\ r.gen = tokens.gen
      /\ r.end = "none" /\ r.made = 0 /\ r.held = 0 /\ r.new = 0
  BY <1>1, <1>2 DEF RunRecords, Places
<1>4. RunOK(r)
  <2> HIDE DEF r
  <2>1. MadeOnce(r) /\ PairsKnown(r)
    BY <1>2, <1>3 DEF MadeOnce, PairsKnown, NotMade, RunRecords, Services
  <2>2. GenerationTells(r) /\ Refused(r) /\ Unsaved(r)
    BY <1>2, <1>3 DEF GenerationTells, FirstTry, Refused, Unsaved
  <2> QED BY <2>1, <2>2 DEF RunOK
<1>5. /\ Goes(e, r) /\ run[e].at = "idle" /\ UNCHANGED <<tokens, issued, userLock, doubt>>
      /\ cache' \in Nat /\ period' \in Nat
  BY DEF Begin, Inv, Types
<1> HIDE DEF r
<1> QED BY <1>3, <1>4, <1>5, QuietStep

\* What a request may have had carried out, and how its answer is classed.
LEMMA AnswerFacts ==
  ASSUME NEW e \in Execs, NEW answer \in {"2xx", "4xx", "401", "403"} \cup Failures,
         NEW made \in CarriedOut(e, answer)
  PROVE  /\ made \in {0, 1} /\ Classify(answer, run[e].create) \in Ends
         /\ Classify(answer, run[e].create) \in NotMade \/ answer = "429" => made = 0
<1>1. CASE ~run[e].create \/ Verdicts(e) # {"2xx", "4xx"}
  <2>1. made = 0 BY <1>1 DEF CarriedOut
  <2>2. Classify(answer, run[e].create) \in Ends BY DEF Classify, Ends
  <2> QED BY <2>1, <2>2
<1>2. CASE run[e].create /\ Verdicts(e) = {"2xx", "4xx"}
  <2>1. CASE answer = "2xx" BY <1>2, <2>1 DEF CarriedOut, Classify, Ends, NotMade
  <2>2. CASE answer \in {"5xx", "network"}
    BY <1>2, <2>2 DEF CarriedOut, Classify, Ends, NotMade
  <2>3. CASE answer \in {"4xx", "401", "403", "429"}
    BY <1>2, <2>3 DEF CarriedOut, Classify, Ends, NotMade
  <2> QED BY <2>1, <2>2, <2>3 DEF Failures
<1> QED BY <1>1, <1>2

\* An execution whose request goes on: the token it sends and what it had carried out stay.
LEMMA GoesOn ==
  ASSUME Inv, NEW e \in Execs, run[e].at = "send",
         NEW at \in {"send", "refresh", "exchange"}, NEW stage \in Stages \ {"first"},
         at = "refresh" => /\ run[e].svc = "invoice" /\ run[e].stage = "first" /\ ~Holds(e)
                           /\ stage = "renewed",
         at = "exchange" => run[e].svc = "accounting"
  PROVE  LET r == [run[e] EXCEPT !.at = at, !.stage = stage] IN
         r \in RunRecords /\ RunOK(r) /\ r.at = at
<1> DEFINE r == [run[e] EXCEPT !.at = at, !.stage = stage]
<1>1. run[e] \in RunRecords /\ RunOK(run[e]) BY DEF Inv, Types
<1>2. /\ r \in RunRecords /\ r.at = at /\ r.stage = stage /\ r.svc = run[e].svc
      /\ r.cred = run[e].cred /\ r.gen = run[e].gen /\ r.held = run[e].held
      /\ r.new = run[e].new /\ r.end = run[e].end /\ r.made = run[e].made
      /\ r.outdated = run[e].outdated
  BY <1>1 DEF RunRecords, Places
<1>3. RunOK(r)
  <2> HIDE DEF r
  <2>1. MadeOnce(r) /\ PairsKnown(r) BY <1>1, <1>2 DEF RunOK, MadeOnce, PairsKnown
  <2>2. GenerationTells(r) BY <1>1, <1>2 DEF RunOK, GenerationTells, FirstTry
  <2>3. Refused(r) BY <1>1, <1>2 DEF RunOK, Refused, Holds
  <2> QED BY <1>2, <2>1, <2>2, <2>3 DEF RunOK, Unsaved
<1> QED BY <1>2, <1>3

LEMMA ConcludesInv ==
  ASSUME Inv, NEW e \in Execs, NEW answer \in {"2xx", "4xx", "401", "403"} \cup Failures,
         NEW made \in CarriedOut(e, answer), run[e].at = "send",
         Concludes(e, answer, run[e].made + made),
         UNCHANGED <<tokens, issued, userLock, doubt>>, cache' \in Nat, period' \in Nat
  PROVE  Inv'
<1>1. /\ made \in {0, 1} /\ Classify(answer, run[e].create) \in Ends
      /\ Classify(answer, run[e].create) \in NotMade \/ answer = "429" => made = 0
  BY AnswerFacts
<1>2. run[e].made = 0 /\ run[e].made + made = made
  BY <1>1 DEF Inv, RunOK, MadeOnce
<1>3. CASE Goes(e, Ended(e, Classify(answer, run[e].create), run[e].made + made))
  BY <1>1, <1>2, <1>3, QuietEnd
<1>4. CASE answer = "429" /\ Goes(e, Ended(e, "transient", run[e].made + made))
  <2>1. "transient" \in Ends BY DEF Ends
  <2> QED BY <1>1, <1>2, <1>4, <2>1, QuietEnd
<1>5. CASE /\ answer = "429"
           /\ Goes(e, [run[e] EXCEPT !.stage = "waited", !.made = run[e].made + made])
  <2>1. run[e] \in RunRecords BY DEF Inv, Types
  <2>2. [run[e] EXCEPT !.stage = "waited", !.made = run[e].made + made]
          = [run[e] EXCEPT !.at = "send", !.stage = "waited"]
    BY <1>1, <1>2, <1>5, <2>1 DEF RunRecords
  <2>3. "waited" \in Stages \ {"first"} BY DEF Stages
  <2> QED BY <1>5, <2>2, <2>3, GoesOn, QuietStep
<1> QED BY <1>3, <1>4, <1>5 DEF Concludes

LEMMA SendInv ==
  ASSUME Inv, NEW e \in Execs, SendAnswered(e) \/ SendFails(e)
  PROVE  Inv'
<1>1. PICK answer \in Verdicts(e) \cup Failures : Send(e, answer)
  BY DEF SendAnswered, SendFails
<1>2. /\ answer \in {"2xx", "4xx", "401", "403"} \cup Failures
      /\ answer = "401" => ~Holds(e)
  BY <1>1 DEF Verdicts, Failures
<1>3. /\ run[e].at = "send" /\ UNCHANGED <<tokens, issued, userLock, doubt>>
      /\ cache' \in Nat /\ period' \in Nat
  BY <1>1 DEF Send, SendInvoice, SendAccounting, Inv, Types
<1>4. "renewed" \in Stages \ {"first"} /\ "auth" \in Ends BY DEF Stages, Ends
<1>5. run[e].made = 0 BY <1>3 DEF Inv, RunOK, MadeOnce
<1>6. CASE \E made \in CarriedOut(e, answer) : Concludes(e, answer, run[e].made + made)
  BY <1>2, <1>3, <1>6, ConcludesInv
<1>7. CASE Fails(e, "auth")
  BY <1>3, <1>4, <1>5, <1>7, QuietEnd DEF Fails
<1>8. CASE /\ answer = "401" /\ run[e].svc = "invoice" /\ run[e].stage = "first"
           /\ Goes(e, [run[e] EXCEPT !.at = "refresh", !.stage = "renewed"])
  BY <1>2, <1>3, <1>4, <1>8, GoesOn, QuietStep
<1>9. CASE /\ run[e].svc = "accounting"
           /\ Goes(e, [run[e] EXCEPT !.at = "exchange", !.stage = "renewed"])
  BY <1>3, <1>4, <1>9, GoesOn, QuietStep
<1> QED BY <1>1, <1>6, <1>7, <1>8, <1>9 DEF Send, SendInvoice, SendAccounting

LEMMA ExchangeInv ==
  ASSUME Inv, NEW e \in Execs, Exchanged(e) \/ ExchangeFails(e)
  PROVE  Inv'
<1>1. /\ run[e].at = "exchange" /\ UNCHANGED <<tokens, issued, userLock, doubt>>
      /\ cache' \in Nat /\ period' \in Nat /\ period \in Nat
  BY DEF Exchanged, ExchangeFails, Inv, Types
<1>2. run[e].made = 0 /\ "auth" \in Ends /\ "transient" \in Ends
  BY <1>1 DEF Inv, RunOK, MadeOnce, Ends
<1>3. CASE \E end \in {"auth", "transient"} : Fails(e, end)
  BY <1>1, <1>2, <1>3, QuietEnd DEF Fails
<1>4. CASE Goes(e, [run[e] EXCEPT !.at = "send", !.cred = period])
  <2> DEFINE r == [run[e] EXCEPT !.at = "send", !.cred = period]
  <2>1. run[e] \in RunRecords /\ RunOK(run[e]) /\ run[e].svc = "accounting"
    BY <1>1 DEF Inv, Types, RunOK, PairsKnown
  <2>2. /\ r \in RunRecords /\ r.at = "send" /\ r.svc = "accounting" /\ r.held = run[e].held
        /\ r.new = run[e].new /\ r.end = run[e].end /\ r.made = run[e].made
    BY <1>1, <2>1 DEF RunRecords, Places
  <2>3. RunOK(r)
    <3> HIDE DEF r
    <3>1. MadeOnce(r) /\ PairsKnown(r)
      BY <1>1, <2>1, <2>2 DEF RunOK, MadeOnce, PairsKnown
    <3> QED BY <2>2, <3>1 DEF RunOK, GenerationTells, FirstTry, Refused, Unsaved
  <2> HIDE DEF r
  <2>4. Goes(e, r) BY <1>4 DEF r
  <2> QED BY <1>1, <2>2, <2>3, <2>4, QuietStep
<1> QED BY <1>3, <1>4 DEF Exchanged, ExchangeFails

LEMMA LockTimeoutInv ==
  ASSUME Inv, NEW e \in Execs, LockTimeout(e)
  PROVE  Inv'
<1>1. /\ run[e].at = "refresh" /\ Fails(e, "transient") /\ cache' \in Nat /\ period' \in Nat
      /\ UNCHANGED <<tokens, issued, userLock, doubt>>
  BY DEF LockTimeout, Inv, Types
<1>2. run[e].made = 0 /\ "transient" \in Ends
  BY <1>1 DEF Inv, RunOK, MadeOnce, Ends
<1> QED BY <1>1, <1>2, QuietEnd DEF Fails

\* An execution comes to rest, or to the message it has decided on.
LEMMA NoticeInv ==
  ASSUME Inv, NEW e \in Execs, Return(e) \/ Decide(e) \/ Told(e) \/ SlackRefuses(e)
  PROVE  Inv'
<1>1. /\ run[e].at \in {"ended", "dm"} /\ UNCHANGED <<tokens, issued, userLock, doubt>>
      /\ cache' \in Nat /\ period' \in Nat
      /\ Goes(e, Rest(e)) \/ Goes(e, [Rest(e) EXCEPT !.at = "dm"])
  BY DEF Return, Decide, Told, SlackRefuses, Inv, Types
<1>2. /\ Rest(e) \in RunRecords /\ Rest(e).at = "idle" /\ Rest(e).cred = 0
      /\ Rest(e).held = 0 /\ Rest(e).new = 0 /\ MadeOnce(Rest(e))
  <2> DEFINE q == Rest(e)
  <2>1. /\ q \in RunRecords /\ q.at = "idle" /\ q.cred = 0 /\ q.held = 0 /\ q.new = 0
        /\ q.end = "none" /\ q.made = 0
    BY RestFacts DEF Inv
  <2> HIDE DEF q
  <2>2. MadeOnce(q) BY <2>1 DEF MadeOnce, NotMade
  <2> QED BY <2>1, <2>2 DEF q
<1>3. CASE Goes(e, Rest(e))
  BY <1>1, <1>2, <1>3, RestOK, QuietStep
<1>4. CASE Goes(e, [Rest(e) EXCEPT !.at = "dm"])
  <2> DEFINE q == Rest(e)
             r == [q EXCEPT !.at = "dm"]
  <2>1. q \in RunRecords /\ q.cred = 0 /\ q.held = 0 /\ q.new = 0 /\ q.end = "none" /\ q.made = 0
    BY RestFacts DEF Inv
  <2>2. "dm" \in Places BY DEF Places
  <2>3. Goes(e, r) BY <1>4
  <2> HIDE DEF q
  <2>4. /\ r \in RunRecords /\ r.at = "dm" /\ r.cred = 0 /\ r.held = 0 /\ r.new = 0
        /\ r.end = "none" /\ r.made = 0
    BY <2>1, <2>2 DEF RunRecords
  <2> HIDE DEF r
  <2>5. MadeOnce(r) BY <2>4 DEF MadeOnce, NotMade
  <2> QED BY <1>1, <2>3, <2>4, <2>5, RestOK, QuietStep
<1> QED BY <1>1, <1>3, <1>4

-----------------------------------------------------------------------------
(* The refresh.                                                            *)

LEMMA LockAndRereadInv ==
  ASSUME Inv, NEW e \in Execs, LockAndReread(e)
  PROVE  Inv'
<1>1. /\ run[e].at = "refresh" /\ userLock = NoExec /\ UNCHANGED <<tokens, issued, doubt>>
      /\ cache' \in Nat /\ period' \in Nat /\ run[e].svc = "invoice" /\ run[e].stage = "renewed"
  BY DEF LockAndReread, Inv, Types, RunOK, PairsKnown
<1>2. /\ run[e] \in RunRecords /\ RunOK(run[e]) /\ tokens.pair \in Nat /\ issued.pair \in Nat
      /\ tokens.gen \in Nat /\ tokens.pair <= issued.pair
  BY DEF Inv, Types
<1>3. CASE tokens.gen # run[e].gen
  <2> DEFINE r == [run[e] EXCEPT !.at = "send", !.cred = tokens.pair]
  <2>1. /\ r \in RunRecords /\ r.at = "send" /\ r.svc = "invoice" /\ r.stage = "renewed"
        /\ r.held = run[e].held /\ r.new = run[e].new /\ r.end = run[e].end
        /\ r.made = run[e].made /\ r.cred = tokens.pair
    BY <1>1, <1>2 DEF RunRecords, Places
  <2>2. Goes(e, r) /\ UNCHANGED userLock BY <1>3 DEF LockAndReread
  <2> HIDE DEF r
  <2>3. MadeOnce(r) /\ PairsKnown(r) BY <1>1, <1>2, <2>1 DEF RunOK, MadeOnce, PairsKnown
  <2>4. RunOK(r) BY <2>1, <2>3 DEF RunOK, GenerationTells, FirstTry, Refused, Unsaved
  <2> QED BY <1>1, <2>1, <2>2, <2>4, QuietStep
<1>4. CASE tokens.gen = run[e].gen
  <2> DEFINE r == [run[e] EXCEPT !.at = "token", !.held = tokens.pair]
  <2>1. /\ r \in RunRecords /\ r.at = "token" /\ r.svc = "invoice" /\ r.held = tokens.pair
        /\ r.new = run[e].new /\ r.end = run[e].end /\ r.made = run[e].made
        /\ r.cred = run[e].cred /\ r.gen = run[e].gen /\ r.outdated = run[e].outdated
    BY <1>1, <1>2 DEF RunRecords, Places
  <2>2. Goes(e, r) /\ userLock' = e BY <1>4 DEF LockAndReread
  <2> HIDE DEF r
  <2>3. \A x \in Execs : run'[x] = IF x = e THEN r ELSE run[x]
    BY <2>2 DEF Inv, Types, Goes
  <2>4. Types' /\ tokens'.pair <= issued'.pair BY <1>1, <2>1, <2>2 DEF Inv, Types, Goes
  <2>5. \A x \in Execs : run[x].at \notin {"token", "save"}
    BY <1>1, AccessAssumption DEF Inv, Locked
  <2>6. RunOK(r)
    <3>1. MadeOnce(r) /\ PairsKnown(r) BY <1>1, <1>2, <2>1 DEF RunOK, MadeOnce, PairsKnown
    <3>2. ~r.outdated => ~(r.held = issued.pair /\ issued.alive)
      BY <1>1, <1>2, <1>4, <2>1 DEF RunOK, GenerationTells, FirstTry, Refused
    <3> QED BY <1>2, <1>4, <2>1, <3>1, <3>2 DEF RunOK, GenerationTells, FirstTry, Refused, Unsaved
  <2>7. \A x \in Execs : RunOK(run[x])'
    <3> SUFFICES ASSUME NEW x \in Execs PROVE RunOK(run[x])' OBVIOUS
    <3>1. RunOK(run'[x]) BY <2>3, <2>6 DEF Inv
    <3> QED
      BY <1>1, <3>1 DEF RunOK, MadeOnce, PairsKnown, GenerationTells, FirstTry, Refused, Unsaved
  <2>8. Locked' BY <2>2, <2>3, <2>5 DEF Locked
  <2>9. NotLost' BY <1>1, <2>1, <2>3, <2>5 DEF Inv, NotLost
  <2> QED BY <2>4, <2>7, <2>8, <2>9 DEF Inv
<1> QED BY <1>3, <1>4

\* What the others know survives whatever the holder of the lock does.
LEMMA OthersKept ==
  ASSUME Inv, NEW e \in Execs, run[e].at \in {"token", "save"}, Types', run'[e] = run'[e],
         \A x \in Execs \ {e} : run'[x] = run[x],
         tokens' \in {tokens, Saved(e)},
         issued' = issued \/ issued'.pair = issued.pair + 1
  PROVE  \A x \in Execs \ {e} : RunOK(run[x])' /\ run'[x].at \notin {"token", "save"}
<1> SUFFICES ASSUME NEW x \in Execs \ {e}
             PROVE  RunOK(run[x])' /\ run'[x].at \notin {"token", "save"}
  OBVIOUS
<1> DEFINE r == run[x]
<1>1. run'[x] = r /\ r \in RunRecords /\ RunOK(r) BY DEF Inv, Types
<1>2. r.at \notin {"token", "save"} BY DEF Inv, Locked
<1>3. /\ issued.pair \in Nat /\ issued'.pair \in Nat /\ tokens.gen \in Nat /\ run[e].gen \in Nat
      /\ tokens.gen <= run[e].gen /\ r.cred \in Nat /\ r.held \in Nat /\ r.new \in Nat
      /\ r.gen \in Nat
  BY <1>1 DEF Inv, Types, RunRecords, RunOK, Unsaved
<1> HIDE DEF r
<1>4. MadeOnce(r)' BY <1>1 DEF RunOK, MadeOnce, r
<1>5. issued.pair <= issued'.pair BY <1>3
<1>6. PairsKnown(run[x])' BY <1>1, <1>3, <1>5 DEF RunOK, PairsKnown
<1>7. GenerationTells(run[x])'
  <2>1. CASE tokens' = tokens BY <1>1, <2>1 DEF RunOK, GenerationTells, FirstTry
  <2>2. CASE tokens' = Saved(e)
    <3>1. tokens'.gen = run[e].gen + 1 BY <2>2 DEF Saved
    <3> QED BY <1>1, <1>3, <3>1 DEF RunOK, GenerationTells, FirstTry
  <2> QED BY <2>1, <2>2
<1>8. Refused(run[x])'
  <2>1. CASE issued' = issued BY <1>1, <2>1 DEF RunOK, Refused
  <2>2. CASE issued'.pair = issued.pair + 1
    <3>1. r.at = "refresh" => r.cred <= issued.pair BY <1>1 DEF RunOK, PairsKnown
    <3> QED BY <1>1, <1>2, <1>3, <2>2, <3>1 DEF Refused
  <2> QED BY <2>1, <2>2
<1>9. Unsaved(run[x])' BY <1>1, <1>2 DEF Unsaved
<1> QED BY <1>1, <1>2, <1>4, <1>6, <1>7, <1>8, <1>9 DEF RunOK, r

\* The holder of the lock ends, or dies, and gives it back.
LEMMA HolderLeaves ==
  ASSUME Inv, NEW e \in Execs, run[e].at \in {"token", "save"}, NEW r \in RunRecords, Goes(e, r),
         RunOK(r), r.at \in {"idle", "ended"}, r.cred = 0, r.held = 0, r.new = 0,
         tokens' \in {tokens, Saved(e)}, UNCHANGED <<cache, period>>,
         issued' = issued \/ issued' = [pair |-> issued.pair + 1, alive |-> TRUE],
         doubt' \/ (~doubt /\ run[e].at = "token" /\ UNCHANGED <<tokens, issued>>)
  PROVE  Inv'
<1>1. \A x \in Execs : run'[x] = IF x = e THEN r ELSE run[x] BY DEF Inv, Types, Goes
<1>2. /\ run[e] \in RunRecords /\ RunOK(run[e]) /\ issued \in [pair : Nat, alive : BOOLEAN]
      /\ tokens \in [pair : Nat, gen : Nat] /\ tokens.gen >= 1 /\ tokens.pair <= issued.pair
  BY DEF Inv, Types
<1>3. /\ tokens' \in [pair : Nat, gen : Nat] /\ tokens'.gen >= 1 /\ tokens'.pair <= issued.pair
  <2>1. CASE tokens' = tokens BY <1>2, <2>1
  <2>2. CASE tokens' = Saved(e)
    <3>1. run[e].new \in Nat /\ run[e].gen \in Nat /\ run[e].new <= issued.pair
      BY <1>2 DEF RunRecords, RunOK, PairsKnown
    <3> QED BY <2>2, <3>1 DEF Saved
  <2> QED BY <2>1, <2>2
<1>4. issued' \in [pair : Nat, alive : BOOLEAN] /\ issued.pair <= issued'.pair
  <2>1. issued.pair \in Nat BY <1>2
  <2>2. CASE issued' = issued BY <1>2, <2>1, <2>2
  <2>3. CASE issued' = [pair |-> issued.pair + 1, alive |-> TRUE] BY <2>1, <2>3
  <2> QED BY <2>2, <2>3
<1>5. run' \in [Execs -> RunRecords] BY DEF Inv, Types, Goes
<1>6. Types' /\ tokens'.pair <= issued'.pair
  <2>1. cache' \in Nat /\ period' \in Nat BY DEF Inv, Types
  <2>2. tokens'.pair \in Nat /\ issued.pair \in Nat /\ issued'.pair \in Nat BY <1>2, <1>3, <1>4
  <2> QED BY <1>3, <1>4, <1>5, <2>1, <2>2 DEF Types
<1>7. issued' = issued \/ issued'.pair = issued.pair + 1 BY <1>2
<1>8. \A x \in Execs \ {e} : RunOK(run[x])' /\ run'[x].at \notin {"token", "save"}
  BY <1>1, <1>6, <1>7, OthersKept
<1>9. RunOK(run[e])'
  <2>1. run'[e] = r BY <1>1
  <2>2. MadeOnce(run[e])' BY <2>1 DEF RunOK, MadeOnce
  <2>3. issued'.pair \in Nat BY <1>4
  <2>4. PairsKnown(run[e])' BY <2>1, <2>3 DEF PairsKnown
  <2> QED BY <2>1, <2>2, <2>4 DEF RunOK, GenerationTells, FirstTry, Refused, Unsaved
<1>10. \A x \in Execs : run'[x].at \notin {"token", "save"} BY <1>1, <1>8
<1>11. \A x \in Execs : RunOK(run[x])' BY <1>8, <1>9
<1>12. Locked' BY <1>10 DEF Locked
<1>13. NotLost'
  <2>1. CASE doubt' BY <2>1 DEF NotLost
  <2>2. CASE ~doubt /\ run[e].at = "token" /\ UNCHANGED <<tokens, issued>>
    <3>1. \A x \in Execs : run[x].at # "save" BY <1>1, <1>10, <2>2
    <3> QED BY <1>10, <2>2, <3>1 DEF Inv, NotLost
  <2> QED BY <2>1, <2>2
<1> QED BY <1>6, <1>11, <1>12, <1>13 DEF Inv

LEMMA HolderFails ==
  ASSUME Inv, NEW e \in Execs, run[e].at \in {"token", "save"}, NEW end \in Ends, Fails(e, end),
         tokens' \in {tokens, Saved(e)}, UNCHANGED <<cache, period>>,
         issued' = issued \/ issued' = [pair |-> issued.pair + 1, alive |-> TRUE],
         doubt' \/ (~doubt /\ run[e].at = "token" /\ UNCHANGED <<tokens, issued>>)
  PROVE  Inv'
<1>1. run[e].made = 0 BY DEF Inv, RunOK, MadeOnce
<1> DEFINE r == Ended(e, end, run[e].made)
<1>2. r \in RunRecords /\ RunOK(r) /\ r.at = "ended" BY <1>1, EndedFacts
<1>3. r.cred = 0 /\ r.held = 0 /\ r.new = 0
  <2> DEFINE q == Rest(e)
  <2>1. q \in RunRecords /\ q.cred = 0 /\ q.held = 0 /\ q.new = 0 BY RestFacts DEF Inv
  <2>2. r = [q EXCEPT !.at = "ended", !.create = run[e].create, !.end = end,
                      !.made = run[e].made, !.outdated = run[e].outdated]
    BY DEF Ended
  <2> HIDE DEF q, r
  <2> QED BY <2>1, <2>2 DEF RunRecords
<1>4. Goes(e, r) BY DEF Fails
<1> HIDE DEF r
<1> QED BY <1>2, <1>3, <1>4, HolderLeaves

LEMMA TokenIssuedInv ==
  ASSUME Inv, NEW e \in Execs, TokenIssued(e)
  PROVE  Inv'
<1>1. /\ run[e].at = "token" /\ run[e].held = issued.pair
      /\ issued' = [pair |-> issued.pair + 1, alive |-> TRUE] /\ UNCHANGED <<tokens, cache, period>>
  BY DEF TokenIssued
<1>2. CASE Fails(e, "transient") /\ doubt' = TRUE
  <2>1. "transient" \in Ends BY DEF Ends
  <2> QED BY <1>1, <1>2, <2>1, HolderFails
<1>3. CASE /\ Goes(e, [run[e] EXCEPT !.at = "save", !.new = issued.pair + 1])
           /\ UNCHANGED <<userLock, doubt>>
  <2> DEFINE r == [run[e] EXCEPT !.at = "save", !.new = issued.pair + 1]
  <2>1. /\ run[e] \in RunRecords /\ RunOK(run[e]) /\ issued.pair \in Nat /\ userLock = e
        /\ run \in [Execs -> RunRecords] /\ tokens.pair \in Nat /\ tokens.pair <= issued.pair
    BY <1>1 DEF Inv, Types, Locked
  <2>2. /\ r \in RunRecords /\ r.at = "save" /\ r.svc = run[e].svc /\ r.held = run[e].held
        /\ r.new = issued.pair + 1 /\ r.end = run[e].end /\ r.made = run[e].made
        /\ r.cred = run[e].cred /\ r.gen = run[e].gen /\ r.outdated = run[e].outdated
    <3>1. issued.pair + 1 \in Nat /\ "save" \in Places BY <2>1 DEF Places
    <3> QED BY <2>1, <3>1 DEF RunRecords
  <2>3. Goes(e, r) BY <1>3
  <2> HIDE DEF r
  <2>4. \A x \in Execs : run'[x] = IF x = e THEN r ELSE run[x] BY <2>1, <2>3 DEF Goes
  <2>5. run' \in [Execs -> RunRecords] BY <2>1, <2>2, <2>3 DEF Goes
  <2>6. issued' \in [pair : Nat, alive : BOOLEAN] /\ issued'.pair = issued.pair + 1
    BY <1>1, <2>1
  <2>7. Types' /\ tokens'.pair <= issued'.pair BY <1>1, <2>1, <2>5, <2>6 DEF Inv, Types
  <2>8. \A x \in Execs \ {e} : RunOK(run[x])' /\ run'[x].at \notin {"token", "save"}
    BY <1>1, <2>4, <2>6, <2>7, OthersKept
  <2>9. RunOK(run[e])'
    <3>1. run'[e] = r BY <2>4
    <3>2. MadeOnce(run[e])' BY <1>1, <2>1, <2>2, <3>1 DEF RunOK, MadeOnce
    <3>3. r.held \in Nat /\ r.cred \in Nat /\ r.held <= issued.pair
          /\ (r.svc = "invoice" => r.cred <= issued.pair) /\ r.svc = "invoice"
      BY <1>1, <2>1, <2>2 DEF RunOK, PairsKnown, RunRecords
    <3>4. PairsKnown(run[e])' BY <2>1, <2>2, <2>6, <3>1, <3>3 DEF PairsKnown
    <3>5. Unsaved(run[e])' BY <1>1, <2>1, <2>2, <3>1 DEF RunOK, Unsaved
    <3> QED BY <2>2, <3>1, <3>2, <3>4, <3>5 DEF RunOK, GenerationTells, FirstTry, Refused
  <2>10. \A x \in Execs : RunOK(run[x])' BY <2>8, <2>9
  <2>11. Locked' BY <1>3, <2>1, <2>8 DEF Locked
  <2>12. NotLost' BY <2>2, <2>4, <2>6, <2>8 DEF NotLost
  <2> QED BY <2>7, <2>10, <2>11, <2>12 DEF Inv
<1> QED BY <1>2, <1>3 DEF TokenIssued

LEMMA TokenEndsInv ==
  ASSUME Inv, NEW e \in Execs, TokenRefused(e) \/ TokenFails(e) \/ SaveFails(e)
  PROVE  Inv'
<1>1. PICK end \in {"reauth", "transient", "auth"} : Fails(e, end)
  BY DEF TokenRefused, TokenFails, SaveFails
<1>2. end \in Ends BY DEF Ends
<1>3. /\ run[e].at \in {"token", "save"} /\ UNCHANGED <<cache, period, issued>>
      /\ tokens' \in {tokens, Saved(e)}
      /\ doubt' \/ (~doubt /\ run[e].at = "token" /\ UNCHANGED <<tokens, issued>>)
  BY DEF TokenRefused, TokenFails, SaveFails
<1> QED BY <1>1, <1>2, <1>3, HolderFails

LEMMA SaveInv ==
  ASSUME Inv, NEW e \in Execs, Save(e)
  PROVE  Inv'
<1> DEFINE r == [run[e] EXCEPT !.at = "send", !.cred = run[e].new]
<1>1. /\ run[e].at = "save" /\ tokens' = Saved(e) /\ userLock' = NoExec /\ Goes(e, r)
      /\ UNCHANGED <<issued, cache, period, doubt>>
  BY DEF Save
<1>2. /\ run[e] \in RunRecords /\ RunOK(run[e]) /\ issued.pair \in Nat
      /\ run \in [Execs -> RunRecords]
  BY DEF Inv, Types
<1>3. /\ r \in RunRecords /\ r.at = "send" /\ r.svc = run[e].svc /\ r.held = run[e].held
      /\ r.new = run[e].new /\ r.end = run[e].end /\ r.made = run[e].made
      /\ r.cred = run[e].new /\ r.gen = run[e].gen /\ r.outdated = run[e].outdated
  BY <1>2 DEF RunRecords, Places
<1> HIDE DEF r
<1>4. \A x \in Execs : run'[x] = IF x = e THEN r ELSE run[x] BY <1>1, <1>2 DEF Goes
<1>5. run' \in [Execs -> RunRecords] BY <1>1, <1>2, <1>3 DEF Goes
<1>6. tokens' \in [pair : Nat, gen : Nat] /\ tokens'.gen = run[e].gen + 1
      /\ tokens'.pair = run[e].new /\ run[e].gen \in Nat /\ run[e].new <= issued.pair
  BY <1>1, <1>2 DEF Saved, RunRecords, RunOK, PairsKnown
<1>7. Types' /\ tokens'.pair <= issued'.pair BY <1>1, <1>5, <1>6 DEF Inv, Types
<1>8. \A x \in Execs \ {e} : RunOK(run[x])' /\ run'[x].at \notin {"token", "save"}
  BY <1>1, <1>4, <1>7, OthersKept
<1>9. RunOK(run[e])'
  <2>1. run'[e] = r BY <1>4
  <2>2. MadeOnce(run[e])' BY <1>1, <1>2, <1>3, <2>1 DEF RunOK, MadeOnce
  <2>3. PairsKnown(run[e])' BY <1>1, <1>2, <1>3, <2>1 DEF RunOK, PairsKnown
  <2>4. GenerationTells(run[e])' BY <1>3, <1>6, <2>1 DEF GenerationTells, FirstTry
  <2> QED BY <1>3, <2>1, <2>2, <2>3, <2>4 DEF RunOK, Refused, Unsaved
<1>10. \A x \in Execs : RunOK(run[x])' BY <1>8, <1>9
<1>11. \A x \in Execs : run'[x].at \notin {"token", "save"} BY <1>3, <1>4, <1>8
<1>12. Locked' BY <1>11 DEF Locked
<1>13. NotLost' BY <1>1, <1>6, <1>11 DEF Inv, NotLost
<1> QED BY <1>7, <1>10, <1>12, <1>13 DEF Inv

LEMMA DieInv ==
  ASSUME Inv, NEW e \in Execs, Die(e)
  PROVE  Inv'
<1> DEFINE q == Rest(e)
<1>1. /\ q \in RunRecords /\ q.at = "idle" /\ q.cred = 0 /\ q.held = 0 /\ q.new = 0
      /\ q.end = "none" /\ q.made = 0
  BY RestFacts DEF Inv
<1>2. /\ Goes(e, q) /\ UNCHANGED <<tokens, issued, cache, period>>
      /\ doubt' = (doubt \/ run[e].at = "save")
      /\ userLock' = IF userLock = e THEN NoExec ELSE userLock
  BY DEF Die
<1> HIDE DEF q
<1>3. MadeOnce(q) BY <1>1 DEF MadeOnce, NotMade
<1>4. RunOK(q) BY <1>1, <1>3, RestOK
<1>5. CASE run[e].at \in {"token", "save"}
  <2>1. doubt' \/ (~doubt /\ run[e].at = "token" /\ UNCHANGED <<tokens, issued>>)
    <3>1. CASE doubt' BY <3>1
    <3>2. CASE ~doubt'
      <4>1. ~doubt /\ run[e].at # "save" BY <1>2, <3>2
      <4> QED BY <1>2, <1>5, <4>1
    <3> QED BY <3>1, <3>2
  <2> QED BY <1>1, <1>2, <1>4, <1>5, <2>1, HolderLeaves
<1>6. CASE run[e].at \notin {"token", "save"}
  <2>1. \A x \in Execs : run'[x] = IF x = e THEN q ELSE run[x]
    BY <1>2 DEF Inv, Types, Goes
  <2>2. Types' /\ tokens'.pair <= issued'.pair BY <1>1, <1>2 DEF Inv, Types, Goes
  <2>3. \A x \in Execs : RunOK(run[x])'
    <3> SUFFICES ASSUME NEW x \in Execs PROVE RunOK(run[x])' OBVIOUS
    <3>1. RunOK(run'[x]) BY <1>4, <2>1 DEF Inv
    <3> QED
      BY <1>2, <3>1 DEF RunOK, MadeOnce, PairsKnown, GenerationTells, FirstTry, Refused, Unsaved
  <2>4. Locked' BY <1>1, <1>2, <2>1 DEF Inv, Locked
  <2>5. NotLost'
    <3>1. CASE doubt' BY <3>1 DEF NotLost
    <3>2. CASE ~doubt' BY <1>1, <1>2, <1>6, <2>1, <3>2 DEF Inv, NotLost
    <3> QED BY <3>1, <3>2
  <2> QED BY <2>2, <2>3, <2>4, <2>5 DEF Inv
<1> QED BY <1>5, <1>6

LEMMA StepInv ==
  ASSUME Inv, NEW e \in Execs, Step(e)
  PROVE  Inv'
BY BeginInv, SendInv, ExchangeInv, LockAndRereadInv, LockTimeoutInv, TokenIssuedInv,
   TokenEndsInv, SaveInv, NoticeInv, DieInv DEF Step

-----------------------------------------------------------------------------
(* The world around.                                                       *)

LEMMA WorldInv ==
  ASSUME Inv, World
  PROVE  Inv'
<1>1. /\ issued.pair \in Nat /\ issued.alive \in BOOLEAN /\ tokens.pair <= issued.pair
      /\ issued \in [pair : Nat, alive : BOOLEAN]
  BY DEF Inv, Types
<1>2. CASE AccessExpires
  <2>1. /\ issued' \in [pair : Nat, alive : BOOLEAN] /\ issued'.pair = issued.pair
        /\ issued'.alive = FALSE /\ UNCHANGED <<tokens, userLock, cache, period, run, doubt>>
    BY <1>1, <1>2 DEF AccessExpires
  <2>2. Types' /\ tokens'.pair <= issued'.pair BY <2>1 DEF Inv, Types
  <2>3. \A x \in Execs : RunOK(run[x])'
    BY <2>1 DEF Inv, RunOK, MadeOnce, PairsKnown, GenerationTells, FirstTry, Refused, Unsaved
  <2>4. Locked' /\ NotLost' BY <2>1 DEF Inv, Locked, NotLost
  <2> QED BY <2>2, <2>3, <2>4 DEF Inv
<1>3. CASE Reauthorize
  <2>1. /\ issued' = [pair |-> issued.pair + 1, alive |-> TRUE]
        /\ tokens' = [pair |-> issued.pair + 1, gen |-> 1]
        /\ doubt' = (\E e \in Execs : run[e].at \in {"token", "save"})
        /\ UNCHANGED <<userLock, cache, period>>
        /\ run' = [e \in Execs |-> IF run[e].at = "idle" THEN run[e]
                                   ELSE [run[e] EXCEPT !.outdated = TRUE]]
    BY <1>3 DEF Reauthorize
  <2>2. /\ issued'.pair = issued.pair + 1 /\ issued' \in [pair : Nat, alive : BOOLEAN]
        /\ tokens'.pair = issued'.pair /\ tokens'.gen = 1 /\ tokens' \in [pair : Nat, gen : Nat]
    BY <1>1, <2>1
  <2>3. ASSUME NEW e \in Execs
        PROVE  /\ run'[e] \in RunRecords /\ run'[e].at = run[e].at /\ run'[e].svc = run[e].svc
               /\ run'[e].cred = run[e].cred /\ run'[e].gen = run[e].gen
               /\ run'[e].held = run[e].held /\ run'[e].new = run[e].new
               /\ run'[e].end = run[e].end /\ run'[e].made = run[e].made
               /\ run'[e].stage = run[e].stage /\ run[e] \in RunRecords /\ RunOK(run[e])
               /\ run'[e].at # "idle" => run'[e].outdated
    <3>1. run[e] \in RunRecords /\ RunOK(run[e]) BY DEF Inv, Types
    <3>2. CASE run[e].at = "idle"
      <4>1. run'[e] = run[e] BY <2>1, <3>2
      <4> QED BY <3>1, <3>2, <4>1
    <3>3. CASE run[e].at # "idle"
      <4>1. run'[e] = [run[e] EXCEPT !.outdated = TRUE] BY <2>1, <3>3
      <4> QED BY <3>1, <3>3, <4>1 DEF RunRecords
    <3> QED BY <3>2, <3>3
  <2>4. run' \in [Execs -> RunRecords] BY <2>1, <2>3
  <2>5. Types' /\ tokens'.pair <= issued'.pair BY <2>1, <2>2, <2>4 DEF Inv, Types
  <2>6. \A e \in Execs : RunOK(run[e])'
    <3> SUFFICES ASSUME NEW e \in Execs PROVE RunOK(run[e])' OBVIOUS
    <3>1. run[e].gen \in Nat /\ run[e].cred \in Nat /\ run[e].held \in Nat /\ run[e].new \in Nat
      BY <2>3 DEF RunRecords
    <3>2. MadeOnce(run[e])' BY <2>3 DEF RunOK, MadeOnce
    <3>3. PairsKnown(run[e])' BY <1>1, <2>2, <2>3, <3>1 DEF RunOK, PairsKnown
    <3>4. GenerationTells(run[e])' /\ Refused(run[e])' BY <2>3 DEF GenerationTells, FirstTry, Refused
    <3>5. Unsaved(run[e])'
      BY <2>2, <2>3, <3>1 DEF RunOK, Unsaved, Inv, Types
    <3> QED BY <3>2, <3>3, <3>4, <3>5 DEF RunOK
  <2>7. Locked' BY <2>1, <2>3 DEF Inv, Locked
  <2>8. NotLost' BY <2>1, <2>2, <2>3 DEF NotLost
  <2> QED BY <2>5, <2>6, <2>7, <2>8 DEF Inv
<1>4. CASE ~AccessExpires /\ ~Reauthorize
  <2>1. /\ UNCHANGED <<tokens, issued, userLock, run, doubt>> /\ cache' \in Nat /\ period' \in Nat
    BY <1>4 DEF World, CacheForgets, JwtExpires, KeyLapses, KeyReplaced, DayPasses, Inv, Types
  <2>2. Types' /\ tokens'.pair <= issued'.pair BY <2>1 DEF Inv, Types
  <2>3. \A x \in Execs : RunOK(run[x])'
    BY <2>1 DEF Inv, RunOK, MadeOnce, PairsKnown, GenerationTells, FirstTry, Refused, Unsaved
  <2>4. Locked' /\ NotLost' BY <2>1 DEF Inv, Locked, NotLost
  <2> QED BY <2>2, <2>3, <2>4 DEF Inv
<1> QED BY <1>2, <1>3, <1>4

LEMMA InitInv == Init => Inv
<1> SUFFICES ASSUME Init PROVE Inv OBVIOUS
<1>1. PICK s \in Services : run = [e \in Execs |-> Idle(s)] BY DEF Init
<1> DEFINE q == Idle(s)
<1>2. /\ q \in RunRecords /\ q.at = "idle" /\ q.cred = 0 /\ q.held = 0 /\ q.new = 0
      /\ q.end = "none" /\ q.made = 0 /\ q.outdated = FALSE /\ q.gen = 0
  BY DEF Idle, RunRecords, Places, Stages, Ends
<1> HIDE DEF q
<1>3. \A e \in Execs : run[e] = q BY <1>1 DEF q
<1>4. Types /\ tokens.pair <= issued.pair BY <1>1, <1>2 DEF Init, Types, q
<1>5. MadeOnce(q) /\ PairsKnown(q)
  BY <1>2 DEF Init, MadeOnce, NotMade, PairsKnown
<1>6. \A e \in Execs : RunOK(run[e])
  BY <1>2, <1>3, <1>5 DEF RunOK, GenerationTells, FirstTry, Refused, Unsaved
<1>7. Locked /\ NotLost BY <1>2, <1>3 DEF Init, Locked, NotLost
<1> QED BY <1>4, <1>6, <1>7 DEF Inv

LEMMA NextInv ==
  ASSUME Inv, [Next]_vars
  PROVE  Inv'
<1>1. CASE Next BY <1>1, StepInv, WorldInv DEF Next
<1>2. CASE UNCHANGED vars
  BY <1>2 DEF vars, Inv, Types, Locked, NotLost, RunOK, MadeOnce, PairsKnown, GenerationTells,
              FirstTry, Refused, Unsaved
<1> QED BY <1>1, <1>2

LEMMA InvAlways == Spec => []Inv
<1>1. Init => Inv BY InitInv
<1>2. Inv /\ [Next]_vars => Inv' BY NextInv
<1> QED BY <1>1, <1>2, PTL DEF Spec

-----------------------------------------------------------------------------
(* Theorems.                                                               *)

\* A request that ends in an error other than "unknown" has created nothing in MF, however
\* often it was repeated (classifyFinalOutcome, the loops of the two clients).
THEOREM ErrorsCreateNothing == Spec => []ErrorMeansNotCreated
<1>1. Inv => ErrorMeansNotCreated BY DEF Inv, RunOK, MadeOnce, NotMade, ErrorMeansNotCreated
<1> QED BY <1>1, InvAlways, PTL

\* refreshInvoiceTokens refreshes only tokens that do not hold: with the generation compared
\* under the user lock, the pair in the properties is the one that was refused.
THEOREM LiveTokensStay == Spec => []LiveTokensAreKept
<1>1. Inv => LiveTokensAreKept BY DEF Inv, RunOK, Refused, LiveTokensAreKept
<1> QED BY <1>1, InvAlways, PTL

\* Only the token endpoint's refusal and a save that fails ask for a new authorisation.
LEMMA EndedEnd ==
  ASSUME Types, NEW e \in Execs, NEW end, NEW made
  PROVE  Ended(e, end, made).end = end
<1> DEFINE q == Rest(e)
<1>1. q \in RunRecords BY RestFacts
<1>2. Ended(e, end, made) = [q EXCEPT !.at = "ended", !.create = run[e].create, !.end = end,
                                      !.made = made, !.outdated = run[e].outdated]
  BY DEF Ended
<1> HIDE DEF q
<1> QED BY <1>1, <1>2 DEF RunRecords

LEMMA GoesElsewhere ==
  ASSUME Inv, NEW x \in Execs, NEW r, Goes(x, r), r.end # "reauth" \/ r.end = run[x].end
  PROVE  \A e \in Execs : run'[e].end = "reauth" => run[e].end = "reauth"
BY DEF Inv, Types, Goes

LEMMA OtherEnds ==
  ASSUME Inv, NEW x \in Execs, Step(x), ~TokenRefused(x), ~SaveFails(x)
  PROVE  \A e \in Execs : run'[e].end = "reauth" => run[e].end = "reauth"
<1>1. Types /\ run[x] \in RunRecords BY DEF Inv, Types
<1>2. /\ Rest(x).end = "none" /\ Rest(x) \in RunRecords BY <1>1, RestFacts
<1>3. CASE \E create \in BOOLEAN : Begin(x, create)
  <2>1. PICK create \in BOOLEAN : Begin(x, create) BY <1>3
  <2> DEFINE q == Rest(x)
             r == [q EXCEPT !.at = "send", !.create = create, !.cred = tokens.pair,
                            !.gen = tokens.gen]
             s == [q EXCEPT !.at = IF cache = 0 THEN "exchange" ELSE "send",
                            !.create = create, !.cred = cache]
  <2>2. Goes(x, r) \/ Goes(x, s) BY <2>1 DEF Begin
  <2>3. q.end = "none" /\ q \in RunRecords BY <1>2
  <2> HIDE DEF q
  <2>4. r.end = "none" /\ s.end = "none" BY <2>3 DEF RunRecords
  <2> HIDE DEF r, s
  <2> QED BY <2>2, <2>4, GoesElsewhere
<1>4. CASE SendAnswered(x) \/ SendFails(x)
  <2>1. PICK answer, made :
          \/ Concludes(x, answer, made) \/ Fails(x, "auth")
          \/ Goes(x, [run[x] EXCEPT !.at = "refresh", !.stage = "renewed"])
          \/ Goes(x, [run[x] EXCEPT !.at = "exchange", !.stage = "renewed"])
    BY <1>4 DEF SendAnswered, SendFails, Send, SendInvoice, SendAccounting
  <2>2. Classify(answer, run[x].create) # "reauth" BY DEF Classify
  <2>3. CASE Fails(x, "auth")
    BY <1>1, <2>3, EndedEnd, GoesElsewhere DEF Fails
  <2>4. CASE Goes(x, [run[x] EXCEPT !.at = "refresh", !.stage = "renewed"])
    BY <1>1, <2>4, GoesElsewhere DEF RunRecords
  <2>5. CASE Goes(x, [run[x] EXCEPT !.at = "exchange", !.stage = "renewed"])
    BY <1>1, <2>5, GoesElsewhere DEF RunRecords
  <2>6. CASE Goes(x, Ended(x, "transient", made))
    BY <1>1, <2>6, EndedEnd, GoesElsewhere
  <2>7. CASE Goes(x, Ended(x, Classify(answer, run[x].create), made))
    BY <1>1, <2>2, <2>7, EndedEnd, GoesElsewhere
  <2>8. CASE Goes(x, [run[x] EXCEPT !.stage = "waited", !.made = made])
    BY <1>1, <2>8, GoesElsewhere DEF RunRecords
  <2> QED BY <2>1, <2>3, <2>4, <2>5, <2>6, <2>7, <2>8 DEF Concludes
<1>5. CASE Exchanged(x) \/ ExchangeFails(x)
  <2>1. CASE Goes(x, [run[x] EXCEPT !.at = "send", !.cred = period])
    BY <1>1, <2>1, GoesElsewhere DEF RunRecords
  <2>2. CASE Fails(x, "auth") \/ Fails(x, "transient")
    BY <1>1, <2>2, EndedEnd, GoesElsewhere DEF Fails
  <2> QED BY <1>5, <2>1, <2>2 DEF Exchanged, ExchangeFails
<1>6. CASE LockAndReread(x)
  <2>1. CASE Goes(x, [run[x] EXCEPT !.at = "send", !.cred = tokens.pair])
    BY <1>1, <2>1, GoesElsewhere DEF RunRecords
  <2>2. CASE Goes(x, [run[x] EXCEPT !.at = "token", !.held = tokens.pair])
    BY <1>1, <2>2, GoesElsewhere DEF RunRecords
  <2> QED BY <1>6, <2>1, <2>2 DEF LockAndReread
<1>7. CASE TokenIssued(x)
  <2>1. CASE Goes(x, [run[x] EXCEPT !.at = "save", !.new = issued.pair + 1])
    BY <1>1, <2>1, GoesElsewhere DEF RunRecords
  <2>2. CASE Fails(x, "transient")
    BY <1>1, <2>2, EndedEnd, GoesElsewhere DEF Fails
  <2> QED BY <1>7, <2>1, <2>2 DEF TokenIssued
<1>8. CASE TokenFails(x) \/ LockTimeout(x)
  <2>1. PICK end \in {"transient", "auth"} : Fails(x, end)
    BY <1>8 DEF TokenFails, LockTimeout
  <2> QED BY <1>1, <2>1, EndedEnd, GoesElsewhere DEF Fails
<1>9. CASE Save(x)
  BY <1>1, <1>9, GoesElsewhere DEF Save, RunRecords
<1>10. CASE Return(x) \/ Decide(x) \/ Told(x) \/ SlackRefuses(x) \/ Die(x)
  <2> DEFINE q == Rest(x)
             r == [q EXCEPT !.at = "dm"]
  <2>1. Goes(x, q) \/ Goes(x, r)
    BY <1>10 DEF Return, Decide, Told, SlackRefuses, Die
  <2>2. q.end = "none" /\ q \in RunRecords BY <1>2
  <2> HIDE DEF q
  <2>3. r.end = "none" BY <2>2 DEF RunRecords
  <2> HIDE DEF r
  <2> QED BY <2>1, <2>2, <2>3, GoesElsewhere
<1> QED BY <1>3, <1>4, <1>5, <1>6, <1>7, <1>8, <1>9, <1>10 DEF Step

\* The operator is asked for a new authorisation only after a refresh whose answer was lost,
\* that could not be saved, or in whose middle the execution died.
THEOREM ReauthMeansLoss == Spec => ReauthOnlyIfLost
<1> DEFINE A == \A e \in Execs : run'[e].end = "reauth" /\ run[e].end # "reauth" => doubt'
<1>1. Inv /\ [Next]_vars => A
  <2> SUFFICES ASSUME Inv, [Next]_vars, NEW e \in Execs, run'[e].end = "reauth",
                      run[e].end # "reauth"
               PROVE  doubt'
    OBVIOUS
  <2>1. ~World /\ ~UNCHANGED vars
    <3>1. CASE Reauthorize
      <4>1. run'[e] = IF run[e].at = "idle" THEN run[e] ELSE [run[e] EXCEPT !.outdated = TRUE]
        BY <3>1 DEF Reauthorize
      <4>2. run[e] \in RunRecords BY DEF Inv, Types
      <4>3. run'[e].end = run[e].end BY <4>1, <4>2 DEF RunRecords
      <4> QED BY <4>3
    <3>2. CASE World /\ ~Reauthorize
      BY <3>2 DEF World, AccessExpires, CacheForgets, JwtExpires, KeyLapses, KeyReplaced, DayPasses
    <3> QED BY <3>1, <3>2 DEF vars
  <2>2. PICK x \in Execs : Step(x) BY <2>1 DEF Next
  <2>3. CASE TokenRefused(x) BY <2>3 DEF TokenRefused, Inv, NotLost
  <2>4. CASE SaveFails(x) BY <2>4 DEF SaveFails
  <2> QED BY <2>2, <2>3, <2>4, OtherEnds
<1> QED BY <1>1, InvAlways, PTL DEF Spec, ReauthOnlyIfLost
=============================================================================
