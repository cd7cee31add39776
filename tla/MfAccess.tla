------------------------------ MODULE MfAccess ------------------------------
(***************************************************************************)
(* The calls to MF: the clients of the invoice API, with tokens that are   *)
(* refreshed (gas/src/app/mf/invoiceClient.ts), and of the accounting API, *)
(* with a cached JWT (accountingClient.ts), how an answer becomes an       *)
(* exception (httpOutcome.ts), and the message by which the operator       *)
(* learns that access is lost (notify.ts).                                 *)
(*                                                                         *)
(* An execution makes one request here: nothing but the shared state is    *)
(* carried from one request to the next.  The two APIs share no state, and *)
(* a behaviour is about one of them.  Executions overlap; only the refresh *)
(* of the tokens is under a lock, the user lock.                           *)
(*                                                                         *)
(* Abstractions: everything is configured; a pair of tokens is the number  *)
(* MF issued it under, a JWT that of the period in which it holds; how     *)
(* often MF failed for the time being (mf_fail) is not counted.            *)
(***************************************************************************)
EXTENDS Naturals

CONSTANTS
  Execs,      \* executions that may overlap
  NoExec,     \* the user lock is free
  MaxPairs,   \* bound: pairs of tokens MF issues
  MaxPeriods  \* bound: periods after which a JWT no longer holds

ASSUME AccessAssumption ==
  /\ NoExec \notin Execs
  /\ MaxPairs \in Nat \ {0}
  /\ MaxPeriods \in Nat \ {0}

Services == {"invoice", "accounting"}

VARIABLES
  tokens,   \* Script Property MF_INVOICE_TOKENS
  issued,   \* external: the last pair MF issued, and whether its access token still holds
  userLock, \* LockService.getUserLock()
  cache,    \* the JWT under mf_acc_jwt, 0 if there is none
  period,   \* external: the period whose JWTs hold
  keyOK,    \* external: the API key holds and has its rights
  run,      \* the executions
  notice,   \* mf_notice: how long ago the operator was told
  asked,    \* history: a message reached the operator since access was last set up
  doubt     \* history: a refresh since the last authorisation was not seen through

vars == <<tokens, issued, userLock, cache, period, keyOK, run, notice, asked, doubt>>

\* stage: what was already repeated; cred: the token sent; gen, held: the generation and the
\* refresh token it started from, new: the pair it got; end: the outcome; made: what MF
\* carried out of a creation; outdated: the tokens were replaced since it began.
Idle(s) == [at |-> "idle", svc |-> s, create |-> FALSE, stage |-> "first", cred |-> 0,
            gen |-> 0, held |-> 0, new |-> 0, end |-> "none", made |-> 0, outdated |-> FALSE]
Rest(e) == Idle(run[e].svc)

Init ==
  /\ tokens = [pair |-> 1, gen |-> 1]
  /\ issued = [pair |-> 1, alive |-> TRUE]
  /\ userLock = NoExec
  /\ cache = 0 /\ period = 1 /\ keyOK = TRUE
  /\ \E s \in Services : run = [e \in Execs |-> Idle(s)]
  /\ notice = [s \in Services |-> "never"]
  /\ asked = [s \in Services |-> FALSE]
  /\ doubt = FALSE

-----------------------------------------------------------------------------
(* A request.                                                              *)

\* The execution goes on, or its request ends with what was carried out of it.
Goes(e, to) == run' = [run EXCEPT ![e] = to]
Ended(e, end, made) ==
  [Rest(e) EXCEPT !.at = "ended", !.create = run[e].create, !.end = end, !.made = made,
                  !.outdated = run[e].outdated]
Fails(e, end) == Goes(e, Ended(e, end, run[e].made))

\* A trigger begins: the tokens are read, or the JWT in the cache (getOrExchangeJwt).
Begin(e, create) ==
  /\ run[e].at = "idle"
  /\ Goes(e, IF run[e].svc = "invoice"
             THEN [Rest(e) EXCEPT !.at = "send", !.create = create,
                                  !.cred = tokens.pair, !.gen = tokens.gen]
             ELSE [Rest(e) EXCEPT !.at = IF cache = 0 THEN "exchange" ELSE "send",
                                  !.create = create, !.cred = cache])
  /\ UNCHANGED <<tokens, issued, userLock, cache, period, keyOK, notice, asked, doubt>>

\* MF's side: a token that does not hold is refused, a key without rights forbidden.
Holds(e) ==
  IF run[e].svc = "invoice" THEN run[e].cred = issued.pair /\ issued.alive ELSE run[e].cred = period
Failures == {"429", "5xx", "network"}
Verdicts(e) ==
  CASE ~Holds(e) -> {"401"}
    [] Holds(e) /\ run[e].svc = "accounting" /\ ~keyOK -> {"403"}
    [] OTHER -> {"2xx", "4xx"}

\* What MF may have carried out when it gave this answer, or none.
CarriedOut(e, answer) ==
  IF run[e].create /\ Verdicts(e) = {"2xx", "4xx"}
  THEN CASE answer = "2xx" -> {1} [] answer \in {"5xx", "network"} -> {0, 1} [] OTHER -> {0}
  ELSE {0}

\* Mutant of Classify: a creation is classed like any other call.
ClassifyAsRead(answer, create) ==
  CASE answer = "2xx" -> "ok" [] answer \in {"5xx", "network"} -> "transient" [] OTHER -> "api"

\* classifyFinalOutcome.
Classify(answer, create) ==
  CASE answer = "2xx" -> "ok"
    [] answer \in {"5xx", "network"} -> IF create THEN "unknown" ELSE "transient"
    [] OTHER -> "api"

\* What both clients do of any other answer: a 429 is waited for, once and if it is not too
\* long.
Concludes(e, answer, made) ==
  IF answer = "429"
  THEN \/ Goes(e, Ended(e, "transient", made))
       \/ run[e].stage # "waited" /\ Goes(e, [run[e] EXCEPT !.stage = "waited", !.made = made])
  ELSE Goes(e, Ended(e, Classify(answer, run[e].create), made))

\* A request to the invoice API: tokens that are refused are refreshed, once.
SendInvoice(e, answer) ==
  /\ run[e].at = "send" /\ run[e].svc = "invoice"
  /\ \E made \in CarriedOut(e, answer) :
       CASE answer = "401" /\ run[e].stage = "first" ->
              Goes(e, [run[e] EXCEPT !.at = "refresh", !.stage = "renewed"])
         [] answer = "401" /\ run[e].stage = "renewed" -> Fails(e, "auth")
         [] OTHER -> Concludes(e, answer, run[e].made + made)
  /\ UNCHANGED <<tokens, issued, userLock, cache, period, keyOK, notice, asked, doubt>>

\* A request to the accounting API: a JWT that is refused leaves the cache and is exchanged
\* anew, once.
SendAccounting(e, answer) ==
  /\ run[e].at = "send" /\ run[e].svc = "accounting"
  /\ \E made \in CarriedOut(e, answer) :
       CASE answer = "401" /\ run[e].stage = "first" ->
              Goes(e, [run[e] EXCEPT !.at = "exchange", !.stage = "renewed"])
         [] answer = "403" \/ (answer = "401" /\ run[e].stage = "renewed") -> Fails(e, "auth")
         [] OTHER -> Concludes(e, answer, run[e].made + made)
  /\ cache' = IF answer = "401" /\ run[e].stage = "first" THEN 0 ELSE cache
  /\ UNCHANGED <<tokens, issued, userLock, period, keyOK, notice, asked, doubt>>

Send(e, answer) == SendInvoice(e, answer) \/ SendAccounting(e, answer)
SendAnswered(e) == \E answer \in Verdicts(e) : Send(e, answer)
SendFails(e) == \E answer \in Failures : Send(e, answer)

\* exchangeJwt.
Exchanged(e) ==
  /\ run[e].at = "exchange"
  /\ IF keyOK THEN cache' = period /\ Goes(e, [run[e] EXCEPT !.at = "send", !.cred = period])
              ELSE Fails(e, "auth") /\ UNCHANGED cache
  /\ UNCHANGED <<tokens, issued, userLock, period, keyOK, notice, asked, doubt>>
ExchangeFails(e) ==
  /\ run[e].at = "exchange" /\ Fails(e, "transient")
  /\ UNCHANGED <<tokens, issued, userLock, cache, period, keyOK, notice, asked, doubt>>

-----------------------------------------------------------------------------
(* refreshInvoiceTokens, under the user lock.                              *)

\* Mutant of LockAndReread: no lock is taken.
RereadOnly(e) ==
  /\ run[e].at = "refresh"
  /\ IF tokens.gen # run[e].gen
     THEN Goes(e, [run[e] EXCEPT !.at = "send", !.cred = tokens.pair])
     ELSE Goes(e, [run[e] EXCEPT !.at = "token", !.held = tokens.pair])
  /\ UNCHANGED <<tokens, issued, userLock, cache, period, keyOK, notice, asked, doubt>>

\* Mutant of LockAndReread: the generation is not compared.
LockAndRefresh(e) ==
  /\ run[e].at = "refresh" /\ userLock = NoExec
  /\ Goes(e, [run[e] EXCEPT !.at = "token", !.held = tokens.pair]) /\ userLock' = e
  /\ UNCHANGED <<tokens, issued, cache, period, keyOK, notice, asked, doubt>>

\* The tokens are read again: somebody else may have refreshed them.
LockAndReread(e) ==
  /\ run[e].at = "refresh" /\ userLock = NoExec
  /\ IF tokens.gen # run[e].gen
     THEN Goes(e, [run[e] EXCEPT !.at = "send", !.cred = tokens.pair]) /\ UNCHANGED userLock
     ELSE Goes(e, [run[e] EXCEPT !.at = "token", !.held = tokens.pair]) /\ userLock' = e
  /\ UNCHANGED <<tokens, issued, cache, period, keyOK, notice, asked, doubt>>

\* tryLock gives up after ten seconds.
LockTimeout(e) ==
  /\ run[e].at = "refresh" /\ userLock # NoExec /\ Fails(e, "transient")
  /\ UNCHANGED <<tokens, issued, userLock, cache, period, keyOK, notice, asked, doubt>>

\* The token endpoint exchanges the last refresh token, once, for a new pair.  Its answer may
\* be lost or unreadable.
TokenIssued(e) ==
  /\ run[e].at = "token" /\ run[e].held = issued.pair /\ issued.pair < MaxPairs
  /\ issued' = [pair |-> issued.pair + 1, alive |-> TRUE]
  /\ \/ /\ Goes(e, [run[e] EXCEPT !.at = "save", !.new = issued.pair + 1])
        /\ UNCHANGED <<userLock, doubt>>
     \/ Fails(e, "transient") /\ userLock' = NoExec /\ doubt' = TRUE
  /\ UNCHANGED <<tokens, cache, period, keyOK, notice, asked>>

\* It knows no other: invalid_grant.
TokenRefused(e) ==
  /\ run[e].at = "token" /\ run[e].held # issued.pair
  /\ Fails(e, "reauth") /\ userLock' = NoExec
  /\ UNCHANGED <<tokens, issued, cache, period, keyOK, notice, asked, doubt>>

\* It fails before it does anything, or refuses the client.
TokenFails(e) ==
  /\ run[e].at = "token" /\ userLock' = NoExec
  /\ \E end \in {"transient", "auth"} : Fails(e, end)
  /\ UNCHANGED <<tokens, issued, cache, period, keyOK, notice, asked, doubt>>

\* The new pair is saved and read back, or it is not, or that cannot be told.
Saved(e) == [pair |-> run[e].new, gen |-> run[e].gen + 1]
Save(e) ==
  /\ run[e].at = "save" /\ tokens' = Saved(e) /\ userLock' = NoExec
  /\ Goes(e, [run[e] EXCEPT !.at = "send", !.cred = run[e].new])
  /\ UNCHANGED <<issued, cache, period, keyOK, notice, asked, doubt>>
SaveFails(e) ==
  /\ run[e].at = "save" /\ tokens' \in {tokens, Saved(e)} /\ userLock' = NoExec
  /\ Fails(e, "reauth") /\ doubt' = TRUE
  /\ UNCHANGED <<issued, cache, period, keyOK, notice, asked>>

-----------------------------------------------------------------------------
(* notifyMfFailure.                                                        *)

\* Mutant of Quiet: the operator was ever told.
QuietForGood(s) == notice[s] # "never"

\* decideReauthNotify: the operator was told less than 24 hours ago.
Quiet(s) == notice[s] = "lately"

\* The outcomes that are the caller's business, and those the operator was told of.
Return(e) ==
  /\ run[e].at = "ended" /\ (run[e].end \notin {"auth", "reauth"} \/ Quiet(run[e].svc))
  /\ Goes(e, Rest(e))
  /\ UNCHANGED <<tokens, issued, userLock, cache, period, keyOK, notice, asked, doubt>>

\* Under the script lock the time is noted; the message is sent afterwards.
Decide(e) ==
  /\ run[e].at = "ended" /\ run[e].end \in {"auth", "reauth"} /\ ~Quiet(run[e].svc)
  /\ notice' = [notice EXCEPT ![run[e].svc] = "lately"]
  /\ Goes(e, [Rest(e) EXCEPT !.at = "dm"])
  /\ UNCHANGED <<tokens, issued, userLock, cache, period, keyOK, asked, doubt>>

\* dmOperator: a refusal by Slack is swallowed.
Told(e) ==
  /\ run[e].at = "dm" /\ Goes(e, Rest(e))
  /\ asked' = [asked EXCEPT ![run[e].svc] = TRUE]
  /\ UNCHANGED <<tokens, issued, userLock, cache, period, keyOK, notice, doubt>>
SlackRefuses(e) ==
  /\ run[e].at = "dm" /\ Goes(e, Rest(e))
  /\ UNCHANGED <<tokens, issued, userLock, cache, period, keyOK, notice, asked, doubt>>

-----------------------------------------------------------------------------
(* The world around.                                                       *)

\* The execution dies; so it does when the script lock is not to be had in notifyMfFailure,
\* which throws out of the catch it is called from.
Die(e) ==
  /\ run[e].at # "idle" /\ Goes(e, Rest(e))
  /\ userLock' = IF userLock = e THEN NoExec ELSE userLock
  /\ doubt' = (doubt \/ run[e].at = "save")
  /\ UNCHANGED <<tokens, issued, cache, period, keyOK, notice, asked>>

About(s) == \A e \in Execs : run[e].svc = s

AccessExpires ==
  /\ About("invoice") /\ issued.alive /\ issued.pair < MaxPairs /\ issued' = [issued EXCEPT !.alive = FALSE]
  /\ UNCHANGED <<tokens, userLock, cache, period, keyOK, run, notice, asked, doubt>>

\* A JWT leaves the cache before it expires, or expires in it.
CacheForgets ==
  /\ cache # 0 /\ cache' = 0
  /\ UNCHANGED <<tokens, issued, userLock, period, keyOK, run, notice, asked, doubt>>
JwtExpires ==
  /\ About("accounting") /\ period < MaxPeriods /\ period' = period + 1
  /\ UNCHANGED <<tokens, issued, userLock, cache, keyOK, run, notice, asked, doubt>>

DayPasses(s) ==
  /\ notice[s] = "lately" /\ notice' = [notice EXCEPT ![s] = "once"]
  /\ UNCHANGED <<tokens, issued, userLock, cache, period, keyOK, run, asked, doubt>>

\* The operator authorises anew and pastes what the script printed: its generation is 1.
Reauthorize ==
  /\ asked["invoice"] /\ issued.pair < MaxPairs
  /\ issued' = [pair |-> issued.pair + 1, alive |-> TRUE]
  /\ tokens' = [pair |-> issued.pair + 1, gen |-> 1]
  /\ asked' = [asked EXCEPT !["invoice"] = FALSE]
  /\ run' = [e \in Execs |-> IF run[e].at = "idle" THEN run[e] ELSE [run[e] EXCEPT !.outdated = TRUE]]
  /\ doubt' = (\E e \in Execs : run[e].at \in {"token", "save"})
  /\ UNCHANGED <<userLock, cache, period, keyOK, notice>>

KeyLapses ==
  /\ About("accounting") /\ keyOK /\ keyOK' = FALSE
  /\ UNCHANGED <<tokens, issued, userLock, cache, period, run, notice, asked, doubt>>
KeyReplaced ==
  /\ asked["accounting"] /\ keyOK' = TRUE /\ asked' = [asked EXCEPT !["accounting"] = FALSE]
  /\ UNCHANGED <<tokens, issued, userLock, cache, period, run, notice, doubt>>

Step(e) ==
  \/ \E create \in BOOLEAN : Begin(e, create)
  \/ SendAnswered(e) \/ SendFails(e) \/ Exchanged(e) \/ ExchangeFails(e)
  \/ LockAndReread(e) \/ LockTimeout(e)
  \/ TokenIssued(e) \/ TokenRefused(e) \/ TokenFails(e) \/ Save(e) \/ SaveFails(e)
  \/ Return(e) \/ Decide(e) \/ Told(e) \/ SlackRefuses(e) \/ Die(e)

World ==
  \/ AccessExpires \/ CacheForgets \/ JwtExpires \/ Reauthorize \/ KeyLapses \/ KeyReplaced
  \/ \E s \in Services : DayPasses(s)

Next == (\E e \in Execs : Step(e)) \/ World

Spec == Init /\ [][Next]_vars

\* Triggers fire for ever, the weekly one calling the invoice API and the hourly one the
\* accounting API; neither MF, nor Slack, nor the executions fail every time.
Fairness ==
  /\ WF_vars(\E s \in Services : DayPasses(s))
  /\ WF_vars(\E e \in Execs, create \in BOOLEAN : Begin(e, create))
  /\ WF_vars(\E e \in Execs : SendAnswered(e) \/ SendFails(e))
  /\ SF_vars(\E e \in Execs : run[e].stage = "first" /\ SendAnswered(e))
  /\ SF_vars(\E e \in Execs : Exchanged(e))
  /\ SF_vars(\E e \in Execs : LockAndReread(e))
  /\ SF_vars(\E e \in Execs : TokenRefused(e) \/ Save(e))
  /\ WF_vars(\E e \in Execs : Return(e))
  /\ SF_vars(\E e \in Execs : Decide(e))
  /\ SF_vars(\E e \in Execs : Told(e))

FairSpec == Spec /\ Fairness

-----------------------------------------------------------------------------
(* Properties.                                                             *)

TypeOK ==
  /\ tokens \in [pair : 1..MaxPairs, gen : 1..MaxPairs]
  /\ issued \in [pair : 1..MaxPairs, alive : BOOLEAN]
  /\ userLock \in Execs \cup {NoExec}
  /\ cache \in 0..MaxPeriods /\ period \in 1..MaxPeriods /\ keyOK \in BOOLEAN
  /\ run \in [Execs -> [at : {"idle", "send", "exchange", "refresh", "token", "save", "ended", "dm"},
                        svc : Services, create : BOOLEAN, stage : {"first", "renewed", "waited"},
                        cred : 0..(MaxPairs + MaxPeriods), gen : 0..MaxPairs, held : 0..MaxPairs,
                        new : 0..MaxPairs, made : Nat, outdated : BOOLEAN,
                        end : {"none", "ok", "api", "transient", "unknown", "auth", "reauth"}]]
  /\ notice \in [Services -> {"never", "lately", "once"}]
  /\ asked \in [Services -> BOOLEAN]
  /\ doubt \in BOOLEAN

\* The operator is asked to authorise anew only if a refresh was not seen through: two
\* executions that answer the same 401 do not spend each other's refresh token, which may be
\* used once (refreshInvoiceTokens).
ReauthOnlyIfLost ==
  [][\A e \in Execs : run'[e].end = "reauth" /\ run[e].end # "reauth" => doubt']_vars

\* Tokens whose access token still holds are not refreshed: whoever was refused with an older
\* one takes the newer that another execution has saved.  The exception is an authorisation
\* in the middle of the execution, since its generation starts again from 1.
LiveTokensAreKept ==
  \A e \in Execs : run[e].at = "token" /\ ~run[e].outdated => ~(run[e].held = issued.pair /\ issued.alive)

\* No request is carried out twice, however it is repeated, and one that ends in an error
\* other than "unknown" was not carried out: ensureInvoiceCreated and createEntry create
\* again on the strength of that.
ErrorMeansNotCreated ==
  \A e \in Execs :
    /\ run[e].made <= 1
    /\ run[e].end \in {"api", "transient", "auth", "reauth"} => run[e].made = 0

\* If the tokens or the key no longer hold, a message reaches the operator in the end, though
\* there is one a day at most and a refusal by Slack is not noticed.
Broken(s) == IF s = "invoice" THEN tokens.pair # issued.pair ELSE ~keyOK
LossIsTold ==
  (\E s \in Services : Broken(s)) ~> (\A s \in Services : Broken(s) => asked[s])
=============================================================================
