---------------------------- MODULE RecordProofs ----------------------------
(***************************************************************************)
(* Proofs about the record of stamps.  First its pure core (WorkRecord),   *)
(* for every line of stamps and every raw log, and from it the theorems    *)
(* about a day's log; then StampLog, for every set of keys, every length   *)
(* of the day and of the month, and every order of arrival.                *)
(*                                                                         *)
(* What replay and pairing compute is proved by induction on the number of *)
(* stamps, put as a statement about a set of numbers: the set contains 0   *)
(* and with each number the next.  In the second part the variable raw,    *)
(* the log of the first part's runs, plays no role.                        *)
(***************************************************************************)
EXTENDS StampLog, MCWorkRecord, FunctionTheorems, FiniteSetTheorems, SequenceTheorems,
        WellFoundedInduction, TLAPS

-----------------------------------------------------------------------------
(* Numbers.                                                                *)

\* A set of natural numbers that is not empty has a least one.
LEMMA LeastNat ==
  ASSUME NEW T \in SUBSET Nat, T # {}
  PROVE  \E n \in T : \A m \in T : n <= m
<1>1. T \subseteq Nat
  OBVIOUS
<1>2. \E n \in T : \A m \in T : ~(<<m, n>> \in OpToRel(<, Nat))
  BY <1>1, NatLessThanWellFounded, WFMin
<1>3. \A m, n \in T : m < n => <<m, n>> \in OpToRel(<, Nat)
  BY <1>1 DEF OpToRel
<1>4. \E n \in T : \A m \in T : ~(m < n)
  BY <1>2, <1>3, Zenon
<1>5. QED BY <1>1, <1>4

\* Induction up to N, for a set of numbers.
LEMMA UpTo ==
  ASSUME NEW N \in Nat, NEW T, 0 \in T, \A n \in 0..(N - 1) : n \in T => n + 1 \in T
  PROVE  \A n \in 0..N : n \in T
<1> DEFINE Rest == {n \in 0..N : n \notin T}
<1>1. Rest \in SUBSET Nat
  OBVIOUS
<1>2. ASSUME Rest # {}
      PROVE  FALSE
  <2>1. PICK n \in Rest : \A m \in Rest : n <= m
    <3> HIDE DEF Rest
    <3>1. QED BY <1>1, <1>2, LeastNat
  <2>2. n \in 0..N /\ n \notin T /\ n # 0
    OBVIOUS
  <2>3. n - 1 \in 0..(N - 1) /\ n - 1 \in 0..N /\ (n - 1) + 1 = n /\ ~(n <= n - 1)
    BY <2>2
  <2>4. n - 1 \notin Rest
    <3> HIDE DEF Rest
    <3>1. QED BY <2>1, <2>3
  <2>5. n - 1 \in T
    BY <2>3, <2>4
  <2>6. QED BY <2>2, <2>3, <2>5
<1>3. QED BY <1>2

\* A step taken N times from init: there is a function of all intermediate results.
Steps(f, N, init, step) ==
  f[0] = init /\ \A n \in 1..N : f[n] = step[<<f[n - 1], n>>]

LEMMA Iterates ==
  ASSUME NEW N \in Nat, NEW S, NEW init \in S, NEW step \in [S \X (1..N) -> S]
  PROVE  \E f \in [0..N -> S] : Steps(f, N, init, step)
<1> DEFINE Fits(f, m) == f \in [0..m -> S] /\ Steps(f, m, init, step)
           T == {m \in 0..N : \E f : Fits(f, m)}
<1>1. 0 \in T
  <2>1. Fits([n \in 0..0 |-> init], 0)
    BY DEF Steps
  <2> HIDE DEF Fits
  <2>2. QED BY <2>1
<1>2. ASSUME NEW m \in 0..(N - 1), m \in T
      PROVE  m + 1 \in T
  <2>1. PICK f : f \in [0..m -> S] /\ f[0] = init
                  /\ \A n \in 1..m : f[n] = step[<<f[n - 1], n>>]
    BY <1>2 DEF Steps
  <2> DEFINE g == [n \in 0..(m + 1) |-> IF n = m + 1 THEN step[<<f[m], m + 1>>] ELSE f[n]]
  <2>2. f[m] \in S /\ m + 1 \in 1..N /\ m \in 0..m
    BY <2>1
  <2>3. step[<<f[m], m + 1>>] \in S
    BY <2>2
  <2>4. \A n \in 0..m : g[n] = f[n] /\ f[n] \in S
    BY <2>1
  <2>5. g[m + 1] = step[<<f[m], m + 1>>]
    OBVIOUS
  <2>6. \A n \in 0..(m + 1) : n \in 0..m \/ n = m + 1
    OBVIOUS
  <2>7. g \in [0..(m + 1) -> S]
    BY <2>3, <2>4, <2>6
  <2> HIDE DEF g
  <2>8. \A n \in 1..(m + 1) : g[n] = step[<<g[n - 1], n>>]
    <3>1. \A n \in 1..m : n \in 0..m /\ n - 1 \in 0..m
      OBVIOUS
    <3>2. \A n \in 1..m : g[n] = step[<<g[n - 1], n>>]
      BY <2>1, <2>4, <3>1
    <3>3. g[m + 1] = step[<<g[(m + 1) - 1], m + 1>>]
      BY <2>2, <2>4, <2>5
    <3>4. \A n \in 1..(m + 1) : n \in 1..m \/ n = m + 1
      OBVIOUS
    <3>5. QED BY <3>2, <3>3, <3>4
  <2>9. g[0] = init
    BY <2>1, <2>4
  <2>10. Fits(g, m + 1)
    BY <2>7, <2>8, <2>9 DEF Steps
  <2>11. QED BY <2>2, <2>10
<1>3. N \in T
  <2> HIDE DEF T
  <2>1. QED BY <1>1, <1>2, UpTo
<1>4. QED BY <1>3

-----------------------------------------------------------------------------
(* Replay and pairing, stamp by stamp.                                     *)

Stamp == [row : Nat, type : StampTypes, at : Nat]
Pairings == [state : States, broken : BOOLEAN, start : Int, breakAt : Int, rest : Int,
             worked : Int]

\* What a line of stamps is made of.
LEMMA LineType ==
  ASSUME NEW line \in Seq(Stamp)
  PROVE  /\ Len(line) \in Nat /\ DOMAIN line = 1..Len(line)
         /\ \A n \in 1..Len(line) : /\ line[n] \in Stamp
                                    /\ line[n].type \in StampTypes /\ line[n].at \in Nat
<1>1. Len(line) \in Nat /\ DOMAIN line = 1..Len(line)
  BY LenProperties
<1>2. \A n \in 1..Len(line) : line[n] \in Stamp
  BY <1>1, ElementOfSeq
<1>3. QED BY <1>1, <1>2 DEF Stamp

\* The table is a function: what a stamp does to a state, if it is allowed at all.
LEMMA Table ==
  ASSUME NEW state, NEW type, Allowed(state, type)
  PROVE  /\ Transition(state, type) \in States
         /\ \/ state = "IDLE" /\ type = "START" /\ Transition(state, type) = "WORKING"
            \/ state = "WORKING" /\ type = "BREAK_START" /\ Transition(state, type) = "ON_BREAK"
            \/ state = "WORKING" /\ type = "END" /\ Transition(state, type) = "CLOSED"
            \/ state = "ON_BREAK" /\ type = "BREAK_END" /\ Transition(state, type) = "WORKING"
            \/ state = "ON_BREAK" /\ type = "END" /\ Transition(state, type) = "CLOSED"
            \/ state = "CLOSED" /\ type = "START" /\ Transition(state, type) = "WORKING"
<1> DEFINE next == Transition(state, type)
<1>1. next \in States /\ <<state, type, next>> \in TransitionTable
  BY Zenon DEF Allowed, Transition
<1> HIDE DEF next
<1>2. QED BY <1>1 DEF TransitionTable, next

\* Replayed is the function its recursive definition describes.
LEMMA ReplayedIs ==
  ASSUME NEW line \in Seq(Stamp)
  PROVE  /\ Replayed(line) \in [0..Len(line) -> States]
         /\ Replayed(line)[0] = "IDLE"
         /\ \A n \in 1..Len(line) : Replayed(line)[n] = ReplayStep(Replayed(line)[n - 1], line[n])
<1> DEFINE N == Len(line)
           Is(f) == f = [n \in 0..N |-> IF n = 0 THEN "IDLE" ELSE ReplayStep(f[n - 1], line[n])]
<1>1. N \in Nat
  BY LineType
<1>2. \A state \in States : \A e : ReplayStep(state, e) \in States
  BY Table DEF ReplayStep
<1>3. \E f : Is(f)
  <2> DEFINE step == [p \in States \X (1..N) |-> ReplayStep(p[1], line[p[2]])]
  <2>1. step \in [States \X (1..N) -> States] /\ "IDLE" \in States
    BY <1>2 DEF States
  <2>2. \A state \in States, n \in 1..N : step[<<state, n>>] = ReplayStep(state, line[n])
    OBVIOUS
  <2> HIDE DEF step, N
  <2>3. PICK f \in [0..N -> States] : Steps(f, N, "IDLE", step)
    BY <1>1, <2>1, Iterates
  <2>4. \A n \in 1..N : f[n - 1] \in States /\ f[n] = ReplayStep(f[n - 1], line[n])
    <3>1. \A n \in 1..N : n - 1 \in 0..N
      BY <1>1
    <3>2. QED BY <2>2, <2>3, <3>1 DEF Steps
  <2>5. f = [n \in 0..N |-> IF n = 0 THEN "IDLE" ELSE ReplayStep(f[n - 1], line[n])]
    <3>1. \A n \in 0..N : n = 0 \/ n \in 1..N
      BY <1>1
    <3>2. \A n \in 0..N : f[n] = IF n = 0 THEN "IDLE" ELSE ReplayStep(f[n - 1], line[n])
      BY <2>3, <2>4, <3>1 DEF Steps
    <3>3. QED BY <2>3, <3>2
  <2>6. QED BY <2>5 DEF N
<1>4. Is(Replayed(line))
  BY <1>3, Zenon DEF Replayed
<1> DEFINE R == Replayed(line)
<1> HIDE DEF R, N
<1>5. /\ DOMAIN R = 0..N /\ R = [n \in 0..N |-> R[n]]
      /\ R[0] = "IDLE"
      /\ \A n \in 1..N : R[n] = ReplayStep(R[n - 1], line[n])
  BY <1>1, <1>4 DEF R
<1>6. \A n \in 0..N : R[n] \in States
  <2> DEFINE T == {n \in 0..N : R[n] \in States}
  <2>1. 0 \in T
    BY <1>1, <1>5 DEF States
  <2>2. ASSUME NEW n \in 0..(N - 1), n \in T
        PROVE  n + 1 \in T
    <3>1. n + 1 \in 1..N /\ (n + 1) - 1 = n
      BY <1>1
    <3>2. R[n + 1] = ReplayStep(R[n], line[n + 1])
      BY <1>5, <3>1
    <3>3. QED BY <1>2, <2>2, <3>1, <3>2
  <2>3. \A n \in 0..N : n \in T
    <3> HIDE DEF T
    <3>1. QED BY <1>1, <2>1, <2>2, UpTo
  <2>4. QED BY <2>3
<1>7. R \in [0..N -> States]
  BY <1>5, <1>6
<1>8. QED BY <1>5, <1>7 DEF R, N

\* Pairing a stamp keeps the type of what has been paired.
LEMMA PairStepType ==
  ASSUME NEW p \in Pairings, NEW e \in Stamp
  PROVE  PairStep(p, e) \in Pairings
<1>1. e.type \in StampTypes /\ e.at \in Int
  BY DEF Stamp
<1>2. CASE p.broken \/ ~Allowed(p.state, e.type)
  BY <1>2 DEF PairStep, Pairings
<1>3. CASE ~p.broken /\ Allowed(p.state, e.type)
  <2> DEFINE q == [p EXCEPT !.state = Transition(p.state, e.type)]
             end == IF p.state = "ON_BREAK" THEN p.breakAt ELSE e.at
  <2>1. q \in Pairings /\ end \in Int
    BY <1>1, <1>3, Table DEF Pairings
  <2> HIDE DEF q, end
  <2>2. [q EXCEPT !.start = e.at, !.rest = 0] \in Pairings
    <3>1. [q EXCEPT !.start = e.at] \in Pairings
      BY <1>1, <2>1 DEF Pairings
    <3>2. \A o \in Pairings : [o EXCEPT !.rest = 0] \in Pairings
      BY DEF Pairings
    <3>3. [q EXCEPT !.start = e.at, !.rest = 0] = [[q EXCEPT !.start = e.at] EXCEPT !.rest = 0]
      BY <2>1 DEF Pairings
    <3>4. QED BY <3>1, <3>2, <3>3
  <2>3. [q EXCEPT !.breakAt = e.at] \in Pairings
    BY <1>1, <2>1 DEF Pairings
  <2>4. [q EXCEPT !.rest = @ + (e.at - p.breakAt)] \in Pairings
    <3>1. q.rest \in Int /\ p.breakAt \in Int
      BY <2>1 DEF Pairings
    <3>2. q.rest + (e.at - p.breakAt) \in Int
      BY <1>1, <3>1
    <3>3. QED BY <2>1, <3>2 DEF Pairings
  <2>5. EndSession(q, end) \in Pairings
    BY <2>1 DEF Pairings, EndSession
  <2>6. PairStep(p, e) = CASE e.type = "START"       -> [q EXCEPT !.start = e.at, !.rest = 0]
                           [] e.type = "BREAK_START" -> [q EXCEPT !.breakAt = e.at]
                           [] e.type = "BREAK_END"   -> [q EXCEPT !.rest = @ + (e.at - p.breakAt)]
                           [] e.type = "END"         -> EndSession(q, end)
    BY <1>3 DEF PairStep, q, end
  <2>7. QED BY <1>1, <2>2, <2>3, <2>5, <2>4, <2>6 DEF StampTypes
<1>4. QED BY <1>2, <1>3

\* Paired is the function its recursive definition describes.
LEMMA PairedIs ==
  ASSUME NEW line \in Seq(Stamp)
  PROVE  /\ Paired(line) \in [0..Len(line) -> Pairings]
         /\ Paired(line)[0] = NothingPaired
         /\ \A n \in 1..Len(line) : Paired(line)[n] = PairStep(Paired(line)[n - 1], line[n])
<1> DEFINE N == Len(line)
           Is(f) == f = [n \in 0..N |-> IF n = 0 THEN NothingPaired ELSE PairStep(f[n - 1], line[n])]
<1>1. N \in Nat
  BY LineType
<1>2. \A p \in Pairings, n \in 1..N : PairStep(p, line[n]) \in Pairings
  BY LineType, PairStepType
<1>3. NothingPaired \in Pairings
  BY DEF NothingPaired, Pairings, States
<1>4. \E f : Is(f)
  <2> DEFINE step == [q \in Pairings \X (1..N) |-> PairStep(q[1], line[q[2]])]
  <2>1. step \in [Pairings \X (1..N) -> Pairings]
    BY <1>2
  <2>2. \A p \in Pairings, n \in 1..N : step[<<p, n>>] = PairStep(p, line[n])
    OBVIOUS
  <2> HIDE DEF step, N
  <2>3. PICK f \in [0..N -> Pairings] : Steps(f, N, NothingPaired, step)
    BY <1>1, <1>3, <2>1, Iterates
  <2>4. \A n \in 1..N : f[n - 1] \in Pairings /\ f[n] = PairStep(f[n - 1], line[n])
    <3>1. \A n \in 1..N : n - 1 \in 0..N
      BY <1>1
    <3>2. QED BY <2>2, <2>3, <3>1 DEF Steps
  <2>5. f = [n \in 0..N |-> IF n = 0 THEN NothingPaired ELSE PairStep(f[n - 1], line[n])]
    <3>1. \A n \in 0..N : n = 0 \/ n \in 1..N
      BY <1>1
    <3>2. \A n \in 0..N : f[n] = IF n = 0 THEN NothingPaired ELSE PairStep(f[n - 1], line[n])
      BY <2>3, <2>4, <3>1 DEF Steps
    <3>3. QED BY <2>3, <3>2
  <2>6. QED BY <2>5 DEF N
<1>5. Is(Paired(line))
  BY <1>4, Zenon DEF Paired
<1> DEFINE R == Paired(line)
<1> HIDE DEF R, N
<1>6. /\ DOMAIN R = 0..N /\ R = [n \in 0..N |-> R[n]]
      /\ R[0] = NothingPaired
      /\ \A n \in 1..N : R[n] = PairStep(R[n - 1], line[n])
  BY <1>1, <1>5 DEF R
<1>7. \A n \in 0..N : R[n] \in Pairings
  <2> DEFINE T == {n \in 0..N : R[n] \in Pairings}
  <2>1. 0 \in T
    BY <1>1, <1>6, <1>3
  <2>2. ASSUME NEW n \in 0..(N - 1), n \in T
        PROVE  n + 1 \in T
    <3>1. n + 1 \in 1..N /\ (n + 1) - 1 = n
      BY <1>1
    <3>2. R[n + 1] = PairStep(R[n], line[n + 1])
      BY <1>6, <3>1
    <3>3. QED BY <1>2, <2>2, <3>1, <3>2
  <2>3. \A n \in 0..N : n \in T
    <3> HIDE DEF T
    <3>1. QED BY <1>1, <2>1, <2>2, UpTo
  <2>4. QED BY <2>3
<1>8. R \in [0..N -> Pairings]
  BY <1>6, <1>7
<1>9. QED BY <1>6, <1>8 DEF R, N

\* The states of a line are those of any line it begins.
LEMMA ReplayedPrefix ==
  ASSUME NEW line \in Seq(Stamp), NEW e \in Stamp
  PROVE  /\ Append(line, e) \in Seq(Stamp) /\ Len(Append(line, e)) = Len(line) + 1
         /\ \A n \in 1..Len(line) : Append(line, e)[n] = line[n]
         /\ Append(line, e)[Len(line) + 1] = e
         /\ \A n \in 0..Len(line) : Replayed(Append(line, e))[n] = Replayed(line)[n]
<1> DEFINE more == Append(line, e)
           N == Len(line)
           T == {n \in 0..N : Replayed(more)[n] = Replayed(line)[n]}
<1>1. /\ N \in Nat /\ more \in Seq(Stamp) /\ Len(more) = N + 1
      /\ \A n \in 1..N : more[n] = line[n]
      /\ more[N + 1] = e
  BY AppendProperties, LineType
<1> HIDE DEF more, N
<1>2. 0 \in T
  BY <1>1, ReplayedIs
<1>3. ASSUME NEW n \in 0..(N - 1), n \in T
      PROVE  n + 1 \in T
  <2>1. n + 1 \in 1..N /\ n + 1 \in 1..(N + 1) /\ (n + 1) - 1 = n
    BY <1>1
  <2>2. Replayed(more)[n + 1] = ReplayStep(Replayed(more)[n], more[n + 1])
    BY <1>1, <2>1, ReplayedIs
  <2>3. Replayed(line)[n + 1] = ReplayStep(Replayed(line)[n], line[n + 1])
    BY <2>1, ReplayedIs DEF N
  <2>4. QED BY <1>1, <1>3, <2>1, <2>2, <2>3
<1>4. \A n \in 0..N : n \in T
  <2> HIDE DEF T
  <2>1. QED BY <1>1, <1>2, <1>3, UpTo
<1>5. QED BY <1>1, <1>4 DEF more, N

\* ... and what has been paired of it.
LEMMA PairedPrefix ==
  ASSUME NEW line \in Seq(Stamp), NEW e \in Stamp
  PROVE  \A n \in 0..Len(line) : Paired(Append(line, e))[n] = Paired(line)[n]
<1> DEFINE more == Append(line, e)
           N == Len(line)
           T == {n \in 0..N : Paired(more)[n] = Paired(line)[n]}
<1>1. /\ N \in Nat /\ more \in Seq(Stamp) /\ Len(more) = N + 1
      /\ \A n \in 1..N : more[n] = line[n]
  BY AppendProperties, LineType
<1> HIDE DEF more, N
<1>2. 0 \in T
  BY <1>1, PairedIs
<1>3. ASSUME NEW n \in 0..(N - 1), n \in T
      PROVE  n + 1 \in T
  <2>1. n + 1 \in 1..N /\ n + 1 \in 1..(N + 1) /\ (n + 1) - 1 = n
    BY <1>1
  <2>2. Paired(more)[n + 1] = PairStep(Paired(more)[n], more[n + 1])
    BY <1>1, <2>1, PairedIs
  <2>3. Paired(line)[n + 1] = PairStep(Paired(line)[n], line[n + 1])
    BY <2>1, PairedIs DEF N
  <2>4. QED BY <1>1, <1>3, <2>1, <2>2, <2>3
<1>4. \A n \in 0..N : n \in T
  <2> HIDE DEF T
  <2>1. QED BY <1>1, <1>2, <1>3, UpTo
<1>5. QED BY <1>4 DEF more, N

\* What a stamp does to the pairing.
LEMMA PairStepIs ==
  ASSUME NEW p \in Pairings, NEW e \in Stamp
  PROVE  LET q == PairStep(p, e) IN
         /\ q.broken <=> p.broken \/ ~Allowed(p.state, e.type)
         /\ ~q.broken =>
              /\ q.state = Transition(p.state, e.type)
              /\ e.type = "START" => q.start = e.at /\ q.rest = 0
              /\ e.type # "START" => q.start = p.start
              /\ e.type = "BREAK_START" => q.breakAt = e.at
              /\ e.type # "BREAK_START" => q.breakAt = p.breakAt
              /\ e.type = "BREAK_END" => q.rest = p.rest + (e.at - p.breakAt)
              /\ e.type \notin {"START", "BREAK_END"} => q.rest = p.rest
              /\ e.type = "END" => q.worked = p.worked
                   + ((IF p.state = "ON_BREAK" THEN p.breakAt ELSE e.at) - p.start) - p.rest
              /\ e.type # "END" => q.worked = p.worked
<1>1. e.type \in StampTypes
  BY DEF Stamp
<1>2. CASE p.broken \/ ~Allowed(p.state, e.type)
  BY <1>2 DEF PairStep, Pairings
<1>3. CASE ~p.broken /\ Allowed(p.state, e.type)
  <2> DEFINE next == Transition(p.state, e.type)
             q == [p EXCEPT !.state = next]
             end == IF p.state = "ON_BREAK" THEN p.breakAt ELSE e.at
  <2> HIDE DEF next, end
  <2>1. /\ q.state = next /\ q.broken = p.broken /\ q.start = p.start /\ q.breakAt = p.breakAt
        /\ q.rest = p.rest /\ q.worked = p.worked
        /\ DOMAIN q = {"state", "broken", "start", "breakAt", "rest", "worked"}
    BY DEF Pairings
  <2>2. PairStep(p, e) = CASE e.type = "START"       -> [q EXCEPT !.start = e.at, !.rest = 0]
                           [] e.type = "BREAK_START" -> [q EXCEPT !.breakAt = e.at]
                           [] e.type = "BREAK_END"   -> [q EXCEPT !.rest = @ + (e.at - p.breakAt)]
                           [] e.type = "END"         -> EndSession(q, end)
    BY <1>3 DEF PairStep, next, end
  <2> HIDE DEF q
  <2>3. CASE e.type = "START"
    <3>1. PairStep(p, e) = [q EXCEPT !.start = e.at, !.rest = 0]
      BY <2>2, <2>3
    <3>2. QED BY <1>3, <2>1, <2>3, <3>1 DEF next
  <2>4. CASE e.type = "BREAK_START"
    <3>1. PairStep(p, e) = [q EXCEPT !.breakAt = e.at]
      BY <2>2, <2>4
    <3>2. QED BY <1>3, <2>1, <2>4, <3>1 DEF next
  <2>5. CASE e.type = "BREAK_END"
    <3>1. PairStep(p, e) = [q EXCEPT !.rest = @ + (e.at - p.breakAt)]
      BY <2>2, <2>5
    <3>2. QED BY <1>3, <2>1, <2>5, <3>1 DEF next
  <2>6. CASE e.type = "END"
    <3>1. PairStep(p, e) = [q EXCEPT !.worked = q.worked + (end - q.start) - q.rest]
      BY <2>2, <2>6 DEF EndSession
    <3>2. QED BY <1>3, <2>1, <2>6, <3>1 DEF next, end
  <2>7. QED BY <1>1, <2>3, <2>4, <2>5, <2>6 DEF StampTypes
<1>4. QED BY <1>2, <1>3

\* The first n stamps were each allowed where they stand.
Fits(line, n) == \A m \in 1..n : Allowed(Replayed(line)[m - 1], line[m].type)

\* Pairing breaks at the first stamp that does not fit, and until then its state is
\* replay's.
InStep(line, n) ==
  /\ ~Paired(line)[n].broken <=> Fits(line, n)
  /\ Fits(line, n) => Paired(line)[n].state = Replayed(line)[n]

\* Pairing and replay keep in step along a whole line.
LEMMA PairingInStep ==
  ASSUME NEW line \in Seq(Stamp)
  PROVE  \A n \in 0..Len(line) : InStep(line, n)
<1> DEFINE N == Len(line)
           T == {n \in 0..N : InStep(line, n)}
<1>1. N \in Nat
  BY LineType
<1> HIDE DEF N
<1>2. 0 \in T
  <2>1. Paired(line)[0] = NothingPaired /\ Replayed(line)[0] = "IDLE" /\ 0 \in 0..N
    BY <1>1, PairedIs, ReplayedIs
  <2>2. QED BY <2>1 DEF InStep, Fits, NothingPaired
<1>3. ASSUME NEW n \in 0..(N - 1), n \in T
      PROVE  n + 1 \in T
  <2> DEFINE p == Paired(line)[n]
             q == Paired(line)[n + 1]
             state == Replayed(line)[n]
             e == line[n + 1]
  <2>1. n + 1 \in 1..N /\ n + 1 \in 0..N /\ (n + 1) - 1 = n /\ n \in 0..N
    BY <1>1
  <2>2. p \in Pairings /\ e \in Stamp /\ q = PairStep(p, e)
    BY <2>1, PairedIs, LineType DEF N
  <2>3. Replayed(line)[n + 1] = ReplayStep(state, e)
    BY <2>1, ReplayedIs DEF N
  <2>4. \A m \in 1..(n + 1) : m \in 1..n \/ m = n + 1
    BY <1>1
  <2>5. Fits(line, n + 1) <=> Fits(line, n) /\ Allowed(state, e.type)
    <3> DEFINE Ok(m) == Allowed(Replayed(line)[m - 1], line[m].type)
    <3>1. Ok(n + 1) <=> Allowed(state, e.type)
      BY <2>1
    <3>2. \A m \in 1..n : m \in 1..(n + 1)
      BY <1>1
    <3>3. n + 1 \in 1..(n + 1)
      BY <1>1
    <3> HIDE DEF Ok
    <3>4. (\A m \in 1..(n + 1) : Ok(m)) <=> (\A m \in 1..n : Ok(m)) /\ Ok(n + 1)
      BY <2>4, <3>2, <3>3
    <3>5. QED BY <3>1, <3>4 DEF Fits, Ok
  <2>6. InStep(line, n)
    BY <1>3
  <2> HIDE DEF p, q, state, e
  <2>7. q.broken <=> p.broken \/ ~Allowed(p.state, e.type)
    BY <2>2, PairStepIs
  <2>8. ~q.broken => q.state = Transition(p.state, e.type)
    BY <2>2, PairStepIs
  <2>9. (~p.broken <=> Fits(line, n)) /\ (Fits(line, n) => p.state = state)
    BY <2>6 DEF InStep, p, state
  <2>10. ~q.broken <=> Fits(line, n + 1)
    BY <2>5, <2>7, <2>9
  <2>11. Fits(line, n + 1) => q.state = Replayed(line)[n + 1]
    BY <2>3, <2>5, <2>8, <2>9, <2>10 DEF ReplayStep
  <2>12. QED BY <2>1, <2>10, <2>11 DEF InStep, q
<1>4. \A n \in 0..N : n \in T
  <2> HIDE DEF T
  <2>1. QED BY <1>1, <1>2, <1>3, UpTo
<1>5. QED BY <1>4 DEF N

\* A day is OK exactly if every stamp fits and the day is not left open.
LEMMA OKMeans ==
  ASSUME NEW line \in Seq(Stamp), NEW isToday \in BOOLEAN
  PROVE  /\ Summary(line, isToday).status = "OK"
              <=> Orderly(line) /\ Replay(line) \notin OpenStates
         /\ Summary(line, isToday).status # "needs_fix" => Orderly(line)
         /\ Summary(line, isToday).status \in {"OK", "in_progress", "needs_fix"}
         /\ isToday /\ Orderly(line) => Summary(line, isToday).status # "needs_fix"
<1> DEFINE p == Pairing(line)
<1>1. Len(line) \in Nat /\ DOMAIN line = 1..Len(line)
  BY LineType
<1>2. InStep(line, Len(line))
  BY <1>1, PairingInStep
<1>3. Fits(line, Len(line)) <=> Orderly(line)
  BY <1>1 DEF Fits, Orderly
<1>4. p.broken \in BOOLEAN
  BY <1>1, PairedIs DEF Pairing, Pairings
<1>5. (~p.broken <=> Orderly(line)) /\ (Orderly(line) => p.state = Replay(line))
  BY <1>2, <1>3 DEF InStep, Pairing, Replay
<1> HIDE DEF p
<1>6. Summary(line, isToday).status =
        CASE p.broken -> "needs_fix"
          [] ~p.broken /\ p.state \in OpenStates -> IF isToday THEN "in_progress" ELSE "needs_fix"
          [] OTHER -> "OK"
  BY DEF Summary, p
<1>7. CASE p.broken
  BY <1>5, <1>6, <1>7
<1>8. CASE ~p.broken
  BY <1>5, <1>6, <1>8
<1>9. QED BY <1>7, <1>8

-----------------------------------------------------------------------------
(* The time worked.                                                        *)

Ordered(line) == \A m, n \in DOMAIN line : m <= n => line[m].at <= line[n].at

\* The ticks at work up to the nth stamp.
Ticks(line, n) == {t \in line[1].at .. line[n].at - 1 : StateAt(line, t) = "WORKING"}

\* In an ordered line a later stamp is not earlier in time.
LEMMA OrderedAt ==
  ASSUME NEW line \in Seq(Stamp), Ordered(line)
  PROVE  \A m, n \in 1..Len(line) : m <= n => line[m].at <= line[n].at
BY LineType DEF Ordered

\* From one stamp to the next the state is the one after the first of them.
LEMMA StateBetween ==
  ASSUME NEW line \in Seq(Stamp), Ordered(line), NEW n \in 1..Len(line), NEW t \in Int,
         line[n].at <= t, n < Len(line) => t < line[n + 1].at
  PROVE  StateAt(line, t) = Replayed(line)[n]
<1>1. /\ Len(line) \in Nat /\ DOMAIN line = 1..Len(line)
      /\ \A m \in 1..Len(line) : line[m].at \in Nat
  BY LineType
<1>2. \A m \in 1..Len(line) : line[m].at <= t <=> m <= n
  <2> SUFFICES ASSUME NEW m \in 1..Len(line)
               PROVE  line[m].at <= t <=> m <= n
    OBVIOUS
  <2>1. CASE m <= n
    <3>1. line[m].at <= line[n].at
      BY <2>1, OrderedAt
    <3>2. QED BY <1>1, <2>1, <3>1
  <2>2. CASE ~(m <= n)
    <3>1. n + 1 \in 1..Len(line) /\ n + 1 <= m /\ n < Len(line)
      BY <1>1, <2>2
    <3>2. line[n + 1].at <= line[m].at
      BY <3>1, OrderedAt
    <3>3. QED BY <1>1, <2>2, <3>1, <3>2
  <2>3. QED BY <2>1, <2>2
<1>3. {m \in DOMAIN line : line[m].at <= t} = 1..n
  BY <1>1, <1>2
<1>4. Cardinality(1..n) = n
  <2>1. 1 \in Int /\ n \in Int /\ ~(1 > n) /\ n - 1 + 1 = n
    BY <1>1
  <2>2. QED BY <2>1, FS_Interval
<1>5. QED BY <1>3, <1>4 DEF StateAt

\* Work is added from one stamp to the next exactly if the first leaves the person at work.
LEMMA TicksGrow ==
  ASSUME NEW line \in Seq(Stamp), Ordered(line), NEW n \in 1..(Len(line) - 1)
  PROVE  /\ IsFiniteSet(Ticks(line, n))
         /\ Cardinality(Ticks(line, n)) \in Nat
         /\ Cardinality(Ticks(line, n + 1)) =
              Cardinality(Ticks(line, n))
                + (IF Replayed(line)[n] = "WORKING" THEN line[n + 1].at - line[n].at ELSE 0)
<1> DEFINE a == line[1].at
           b == line[n].at
           c == line[n + 1].at
           Old == Ticks(line, n)
           New == IF Replayed(line)[n] = "WORKING" THEN b..(c - 1) ELSE {}
<1>1. /\ Len(line) \in Nat /\ n \in 1..Len(line) /\ n + 1 \in 1..Len(line) /\ 1 \in 1..Len(line)
      /\ n < Len(line) /\ 1 <= n /\ n <= n + 1
  BY LineType
<1>2. a \in Nat /\ b \in Nat /\ c \in Nat
  BY <1>1, LineType
<1>3. a <= b /\ b <= c
  BY <1>1, OrderedAt
<1>4. \A t \in b..(c - 1) : StateAt(line, t) = Replayed(line)[n]
  <2> SUFFICES ASSUME NEW t \in b..(c - 1)
               PROVE  StateAt(line, t) = Replayed(line)[n]
    OBVIOUS
  <2>1. t \in Int /\ b <= t /\ t < c
    BY <1>2
  <2>2. QED BY <1>1, <2>1, StateBetween
<1>5. \A t : t \in Old <=> t \in a..(b - 1) /\ StateAt(line, t) = "WORKING"
  BY DEF Ticks
<1>6. \A t : t \in Ticks(line, n + 1) <=> t \in a..(c - 1) /\ StateAt(line, t) = "WORKING"
  BY DEF Ticks
<1> HIDE DEF a, b, c, Old
<1>7. \A t : t \in a..(c - 1) <=> t \in a..(b - 1) \/ t \in b..(c - 1)
  BY <1>2, <1>3
<1>8. \A t : t \in New <=> t \in b..(c - 1) /\ StateAt(line, t) = "WORKING"
  BY <1>4
<1> HIDE DEF New
<1>9. Ticks(line, n + 1) = Old \cup New
  BY <1>5, <1>6, <1>7, <1>8
<1>10. Old \cap New = {}
  <2>1. \A t : ~(t \in a..(b - 1) /\ t \in b..(c - 1))
    BY <1>2
  <2>2. QED BY <1>5, <1>8, <2>1
<1>11. IsFiniteSet(Old)
  <2>1. IsFiniteSet(a..(b - 1)) /\ Old \in SUBSET (a..(b - 1))
    <3>1. a \in Int /\ b - 1 \in Int
      BY <1>2
    <3>2. Old \subseteq a..(b - 1)
      BY <1>5
    <3>3. QED BY <3>1, <3>2, FS_Interval
  <2>2. QED BY <2>1, FS_Subset
<1>12. IsFiniteSet(New) /\ Cardinality(New) = IF Replayed(line)[n] = "WORKING" THEN c - b ELSE 0
  <2>1. CASE Replayed(line)[n] = "WORKING"
    <3>1. b \in Int /\ c - 1 \in Int
      BY <1>2
    <3>2. IsFiniteSet(b..(c - 1)) /\ Cardinality(b..(c - 1)) = IF b > c - 1 THEN 0 ELSE (c - 1) - b + 1
      BY <3>1, FS_Interval
    <3>3. Cardinality(b..(c - 1)) = c - b
      BY <1>2, <1>3, <3>2
    <3>4. QED BY <2>1, <3>2, <3>3 DEF New
  <2>2. CASE Replayed(line)[n] # "WORKING"
    BY <2>2, FS_EmptySet DEF New
  <2>3. QED BY <2>1, <2>2
<1>13. /\ Cardinality(Old) \in Nat /\ Cardinality(New) \in Nat
       /\ Cardinality(Old \cup New) = Cardinality(Old) + Cardinality(New) - Cardinality(Old \cap New)
  BY <1>11, <1>12, FS_Union, FS_CardinalityType
<1>14. Cardinality(Old \cup New) = Cardinality(Old) + Cardinality(New)
  <2>1. Cardinality(Old \cap New) = 0
    BY <1>10, FS_EmptySet
  <2>2. QED BY <1>13, <2>1
<1>15. QED BY <1>9, <1>11, <1>12, <1>13, <1>14 DEF Old, b, c

\* What has been paired of the first n stamps: sessions that are over, and of the one that
\* is running the part that will count whatever comes.
Accounted(p, state, at, ticks) ==
  /\ state \in {"WORKING", "ON_BREAK", "CLOSED"}
  /\ state = "CLOSED" => p.worked = ticks
  /\ state = "WORKING" => p.worked + (at - p.start) - p.rest = ticks /\ p.start + p.rest <= at
  /\ state = "ON_BREAK" => /\ p.worked + (p.breakAt - p.start) - p.rest = ticks
                           /\ p.start + p.rest <= p.breakAt /\ p.breakAt <= at

AccountedAt(line, n) ==
  n # 0 /\ Fits(line, n) =>
    Accounted(Paired(line)[n], Replayed(line)[n], line[n].at, Cardinality(Ticks(line, n)))

\* One more stamp, `gap' ticks of which are spent at work.
LEMMA AccountedStep ==
  ASSUME NEW p \in Pairings, NEW e \in Stamp, ~p.broken, Allowed(p.state, e.type),
         NEW at \in Int, at <= e.at, NEW ticks \in Int, Accounted(p, p.state, at, ticks)
  PROVE  Accounted(PairStep(p, e), Transition(p.state, e.type), e.at,
                   ticks + (IF p.state = "WORKING" THEN e.at - at ELSE 0))
<1> DEFINE q == PairStep(p, e)
           next == Transition(p.state, e.type)
<1>1. /\ p.worked \in Int /\ p.start \in Int /\ p.rest \in Int /\ p.breakAt \in Int /\ e.at \in Int
  BY DEF Pairings, Stamp
<1>2. /\ e.type = "START" => q.start = e.at /\ q.rest = 0
      /\ e.type # "START" => q.start = p.start
      /\ e.type = "BREAK_START" => q.breakAt = e.at
      /\ e.type # "BREAK_START" => q.breakAt = p.breakAt
      /\ e.type = "BREAK_END" => q.rest = p.rest + (e.at - p.breakAt)
      /\ e.type \notin {"START", "BREAK_END"} => q.rest = p.rest
      /\ e.type = "END" => q.worked = p.worked
           + ((IF p.state = "ON_BREAK" THEN p.breakAt ELSE e.at) - p.start) - p.rest
      /\ e.type # "END" => q.worked = p.worked
  BY PairStepIs
<1>3. p.state # "IDLE"
  BY DEF Accounted
<1>4. \/ p.state = "WORKING" /\ e.type = "BREAK_START" /\ next = "ON_BREAK"
      \/ p.state = "WORKING" /\ e.type = "END" /\ next = "CLOSED"
      \/ p.state = "ON_BREAK" /\ e.type = "BREAK_END" /\ next = "WORKING"
      \/ p.state = "ON_BREAK" /\ e.type = "END" /\ next = "CLOSED"
      \/ p.state = "CLOSED" /\ e.type = "START" /\ next = "WORKING"
  BY <1>3, Table
<1> HIDE DEF q, next
<1>5. CASE p.state = "WORKING" /\ e.type = "BREAK_START" /\ next = "ON_BREAK"
  BY <1>1, <1>2, <1>5 DEF Accounted, q, next
<1>6. CASE p.state = "WORKING" /\ e.type = "END" /\ next = "CLOSED"
  BY <1>1, <1>2, <1>6 DEF Accounted, q, next
<1>7. CASE p.state = "ON_BREAK" /\ e.type = "BREAK_END" /\ next = "WORKING"
  BY <1>1, <1>2, <1>7 DEF Accounted, q, next
<1>8. CASE p.state = "ON_BREAK" /\ e.type = "END" /\ next = "CLOSED"
  BY <1>1, <1>2, <1>8 DEF Accounted, q, next
<1>9. CASE p.state = "CLOSED" /\ e.type = "START" /\ next = "WORKING"
  BY <1>1, <1>2, <1>9 DEF Accounted, q, next
<1>10. QED BY <1>4, <1>5, <1>6, <1>7, <1>8, <1>9

\* Pairing accounts for the ticks at work after every stamp of an orderly line.
LEMMA PairingAccounts ==
  ASSUME NEW line \in Seq(Stamp), Ordered(line)
  PROVE  \A n \in 0..Len(line) : AccountedAt(line, n)
<1> DEFINE N == Len(line)
           T == {n \in 0..N : AccountedAt(line, n)}
<1>1. N \in Nat
  BY LineType
<1> HIDE DEF N
<1>2. 0 \in T
  BY <1>1 DEF AccountedAt
<1>3. ASSUME NEW n \in 0..(N - 1), n \in T
      PROVE  n + 1 \in T
  <2> DEFINE p == Paired(line)[n]
             e == line[n + 1]
             state == Replayed(line)[n]
  <2>1. n + 1 \in 1..N /\ n + 1 \in 0..N /\ (n + 1) - 1 = n /\ n \in 0..N /\ n + 1 # 0
        /\ (n = 0 \/ n \in 1..(N - 1))
    BY <1>1
  <2>2. SUFFICES ASSUME Fits(line, n + 1)
                 PROVE  Accounted(Paired(line)[n + 1], Replayed(line)[n + 1], e.at,
                                  Cardinality(Ticks(line, n + 1)))
    BY <2>1 DEF AccountedAt
  <2>3. /\ p \in Pairings /\ e \in Stamp /\ Paired(line)[n + 1] = PairStep(p, e)
        /\ Replayed(line)[n + 1] = ReplayStep(state, e)
    BY <2>1, PairedIs, ReplayedIs, LineType DEF N
  <2>4. Fits(line, n) /\ Allowed(state, e.type)
    <3>1. \A m \in 1..n : m \in 1..(n + 1)
      BY <1>1
    <3>2. n + 1 \in 1..(n + 1)
      BY <1>1
    <3>3. Fits(line, n)
      BY <2>2, <3>1 DEF Fits
    <3>4. Allowed(Replayed(line)[(n + 1) - 1], line[n + 1].type)
      BY <2>2, <3>2 DEF Fits
    <3>5. QED BY <2>1, <3>3, <3>4
  <2>5. ~p.broken /\ p.state = state
    BY <2>1, <2>4, PairingInStep DEF InStep, N
  <2>6. Replayed(line)[n + 1] = Transition(p.state, e.type)
    BY <2>3, <2>4, <2>5 DEF ReplayStep
  <2>7. CASE n = 0
    <3>1. p = NothingPaired /\ p.state = "IDLE"
      BY <2>5, <2>7, PairedIs, ReplayedIs
    <3>2. e.type = "START" /\ Transition(p.state, e.type) = "WORKING"
      BY <2>4, <2>5, <3>1, Table
    <3>3. ~Paired(line)[n + 1].broken
      BY <2>1, <2>2, PairingInStep DEF InStep, N
    <3>4. LET q == PairStep(p, e) IN q.start = e.at /\ q.rest = 0 /\ q.worked = p.worked
      BY <2>3, <3>2, <3>3, PairStepIs
    <3>5. Ticks(line, n + 1) = {}
      <4>1. e.at \in Nat /\ e = line[1]
        BY <2>3, <2>7 DEF Stamp
      <4>2. \A t : ~(t \in e.at .. (e.at - 1))
        BY <4>1
      <4>3. QED BY <2>7, <4>1, <4>2 DEF Ticks
    <3>6. Cardinality(Ticks(line, n + 1)) = 0
      BY <3>5, FS_EmptySet
    <3>7. p.worked = 0 /\ e.at \in Int
      BY <2>3, <3>1 DEF NothingPaired, Stamp
    <3> HIDE DEF p, e
    <3>8. QED BY <2>3, <2>6, <3>2, <3>4, <3>6, <3>7 DEF Accounted
  <2>8. CASE n \in 1..(N - 1)
    <3>1. Accounted(p, p.state, line[n].at, Cardinality(Ticks(line, n)))
      BY <1>3, <2>4, <2>5, <2>8 DEF AccountedAt
    <3>2. line[n].at \in Int /\ line[n].at <= e.at
      <4>1. n \in 1..N /\ n <= n + 1
        BY <1>1, <2>8
      <4>2. QED BY <2>1, <4>1, OrderedAt, LineType DEF N
    <3>3. /\ Cardinality(Ticks(line, n)) \in Int
          /\ Cardinality(Ticks(line, n + 1)) =
               Cardinality(Ticks(line, n)) + (IF p.state = "WORKING" THEN e.at - line[n].at ELSE 0)
      BY <2>5, <2>8, TicksGrow DEF N
    <3> HIDE DEF p, e
    <3>4. Accounted(PairStep(p, e), Transition(p.state, e.type), e.at,
                    Cardinality(Ticks(line, n)) + (IF p.state = "WORKING" THEN e.at - line[n].at ELSE 0))
      BY <2>3, <2>4, <2>5, <3>1, <3>2, <3>3, AccountedStep
    <3>5. QED BY <2>3, <2>6, <3>3, <3>4
  <2>9. QED BY <2>1, <2>7, <2>8
<1>4. \A n \in 0..N : n \in T
  <2> HIDE DEF T
  <2>1. QED BY <1>1, <1>2, <1>3, UpTo
<1>5. QED BY <1>4 DEF N

\* A day that is OK is paid for the ticks at which replay has the person at work.
LEMMA WorkedIs ==
  ASSUME NEW line \in Seq(Stamp), Ordered(line), NEW isToday \in BOOLEAN,
         Summary(line, isToday).status = "OK"
  PROVE  Summary(line, isToday).worked = TimeAtWork(line)
<1>1. Summary(line, isToday).worked = Pairing(line).worked
  BY DEF Summary
<1>2. Len(line) \in Nat /\ DOMAIN line = 1..Len(line) /\ Len(line) \in 0..Len(line)
  BY LineType
<1>3. Orderly(line) /\ Replay(line) \notin OpenStates
  BY OKMeans
<1>4. CASE Len(line) = 0
  <2>1. line = <<>>
    BY <1>4, EmptySeq
  <2>2. Pairing(line) = NothingPaired
    BY <1>4, PairedIs DEF Pairing
  <2>3. QED BY <1>1, <2>1, <2>2 DEF TimeAtWork, NothingPaired
<1>5. CASE Len(line) # 0
  <2>1. line # <<>>
    BY <1>5, EmptySeq
  <2>2. Fits(line, Len(line))
    BY <1>2, <1>3 DEF Fits, Orderly
  <2>3. AccountedAt(line, Len(line))
    BY <1>2, PairingAccounts
  <2>4. Accounted(Pairing(line), Replay(line), line[Len(line)].at, Cardinality(Ticks(line, Len(line))))
    BY <1>5, <2>2, <2>3 DEF AccountedAt, Pairing, Replay
  <2>5. Pairing(line).worked = Cardinality(Ticks(line, Len(line)))
    BY <1>3, <2>4 DEF Accounted, OpenStates
  <2>6. QED BY <1>1, <2>1, <2>5 DEF TimeAtWork, Ticks
<1>6. QED BY <1>4, <1>5

-----------------------------------------------------------------------------
(* The order of a day.                                                     *)

\* Stamps told apart by their rows.
Distinct(S) == S \subseteq Stamp /\ IsFiniteSet(S) /\ \A e, f \in S : e.row = f.row => e = f

Before(S, e) == {f \in S : Precedes(f, e)}

\* Precedes orders the stamps of a day totally.
LEMMA TotalOrder ==
  ASSUME NEW S, Distinct(S)
  PROVE  /\ \A e, f \in S : e = f \/ Precedes(e, f) \/ Precedes(f, e)
         /\ \A e \in S : ~Precedes(e, e)
         /\ \A e, f, g \in S : Precedes(e, f) /\ Precedes(f, g) => Precedes(e, g)
<1>1. \A e \in S : e.at \in Nat /\ e.row \in Nat
  BY DEF Distinct, Stamp
<1>2. \A e, f \in S : e.row = f.row => e = f
  BY DEF Distinct
<1>3. \A e, f \in S : e = f \/ Precedes(e, f) \/ Precedes(f, e)
  BY <1>1, <1>2 DEF Precedes
<1>4. \A e \in S : ~Precedes(e, e)
  BY <1>1 DEF Precedes
<1>5. \A e, f, g \in S : Precedes(e, f) /\ Precedes(f, g) => Precedes(e, g)
  BY <1>1 DEF Precedes
<1>6. QED BY <1>3, <1>4, <1>5

\* The later of two stamps has more stamps before it.
LEMMA BeforeGrows ==
  ASSUME NEW S, Distinct(S), NEW e \in S, NEW f \in S
  PROVE  /\ IsFiniteSet(Before(S, e)) /\ Cardinality(Before(S, e)) \in 0..(Cardinality(S) - 1)
         /\ Precedes(e, f) => Cardinality(Before(S, e)) < Cardinality(Before(S, f))
<1>1. IsFiniteSet(S) /\ Cardinality(S) \in Nat
  BY FS_CardinalityType DEF Distinct
<1>2. Before(S, e) \in SUBSET S /\ Before(S, f) \in SUBSET S /\ e \notin Before(S, e)
  BY TotalOrder DEF Before
<1>3. /\ IsFiniteSet(Before(S, e)) /\ IsFiniteSet(Before(S, f))
      /\ Cardinality(Before(S, e)) \in Nat /\ Cardinality(Before(S, f)) \in Nat
  BY <1>1, <1>2, FS_Subset, FS_CardinalityType
<1>4. /\ IsFiniteSet(Before(S, e) \cup {e})
      /\ Cardinality(Before(S, e) \cup {e}) = Cardinality(Before(S, e)) + 1
  BY <1>2, <1>3, FS_AddElement
<1>5. Cardinality(Before(S, e) \cup {e}) <= Cardinality(S)
  <2>1. Before(S, e) \cup {e} \in SUBSET S
    BY <1>2
  <2>2. QED BY <1>1, <2>1, FS_Subset
<1>6. ASSUME Precedes(e, f)
      PROVE  Cardinality(Before(S, e) \cup {e}) <= Cardinality(Before(S, f))
  <2>1. Before(S, e) \cup {e} \in SUBSET Before(S, f)
    BY <1>6, TotalOrder DEF Before
  <2>2. QED BY <1>3, <2>1, FS_Subset
<1>7. QED BY <1>1, <1>3, <1>4, <1>5, <1>6

\* Every place is taken, and by one stamp only.
LEMMA Places ==
  ASSUME NEW S, Distinct(S)
  PROVE  /\ \A n \in 1..Cardinality(S) : \E e \in S : Cardinality(Before(S, e)) = n - 1
         /\ \A e, f \in S : Cardinality(Before(S, e)) = Cardinality(Before(S, f)) => e = f
<1> DEFINE N == Cardinality(S)
           place == [e \in S |-> Cardinality(Before(S, e)) + 1]
<1>1. IsFiniteSet(S) /\ N \in Nat
  BY FS_CardinalityType DEF Distinct
<1>2. \A e, f \in S : Cardinality(Before(S, e)) = Cardinality(Before(S, f)) => e = f
  <2> SUFFICES ASSUME NEW e \in S, NEW f \in S, e # f
               PROVE  Cardinality(Before(S, e)) # Cardinality(Before(S, f))
    OBVIOUS
  <2>1. Precedes(e, f) \/ Precedes(f, e)
    BY TotalOrder
  <2>2. Cardinality(Before(S, e)) \in Int /\ Cardinality(Before(S, f)) \in Int
    BY <1>1, BeforeGrows
  <2>3. CASE Precedes(e, f)
    <3>1. Cardinality(Before(S, e)) < Cardinality(Before(S, f))
      BY <2>3, BeforeGrows
    <3>2. QED BY <2>2, <3>1
  <2>4. CASE Precedes(f, e)
    <3>1. Cardinality(Before(S, f)) < Cardinality(Before(S, e))
      BY <2>4, BeforeGrows
    <3>2. QED BY <2>2, <3>1
  <2>5. QED BY <2>1, <2>3, <2>4
<1>3. \A e \in S : Cardinality(Before(S, e)) \in 0..(N - 1)
  BY BeforeGrows
<1> HIDE DEF N
<1>4. place \in Injection(S, 1..N)
  <2>1. \A e \in S : place[e] \in 1..N /\ place[e] - 1 = Cardinality(Before(S, e))
    BY <1>1, <1>3
  <2>2. place \in [S -> 1..N]
    BY <2>1
  <2>3. \A e, f \in S : place[e] = place[f] => e = f
    <3> HIDE DEF place
    <3>1. QED BY <1>2, <2>1
  <2>4. QED BY <2>2, <2>3, Fun_IsInj
<1>5. Cardinality(1..N) = N /\ IsFiniteSet(1..N)
  <2>1. 1 \in Int /\ N \in Int /\ (IF 1 > N THEN 0 ELSE N - 1 + 1) = N
    BY <1>1
  <2>2. QED BY <2>1, FS_Interval
<1>6. place \in Surjection(S, 1..N)
  <2> HIDE DEF place
  <2>1. QED BY <1>4, <1>5, FS_Injection DEF N
<1>7. \A n \in 1..N : \E e \in S : place[e] = n
  BY <1>6 DEF Surjection
<1>8. \A n \in 1..N : \E e \in S : Cardinality(Before(S, e)) = n - 1
  <2> SUFFICES ASSUME NEW n \in 1..N
               PROVE  \E e \in S : Cardinality(Before(S, e)) = n - 1
    OBVIOUS
  <2>1. PICK e \in S : place[e] = n
    BY <1>7
  <2>2. Cardinality(Before(S, e)) = n - 1
    BY <1>1, <1>3, <2>1
  <2>3. QED BY <2>2
<1>9. QED BY <1>2, <1>8 DEF N

\* InTimeOrder lists a finite set of stamps, each once, in the order of Precedes.
LEMMA InTimeOrderIs ==
  ASSUME NEW S, Distinct(S), NEW line, line = InTimeOrder(S)
  PROVE  /\ Cardinality(S) \in Nat
         /\ line \in Seq(Stamp) /\ Len(line) = Cardinality(S)
         /\ \A n \in 1..Cardinality(S) :
              line[n] \in S /\ Cardinality(Before(S, line[n])) = n - 1
         /\ Ordered(line)
<1> DEFINE N == Cardinality(S)
           Place(n, e) == Cardinality(Before(S, e)) = n - 1
<1>1. N \in Nat /\ S \subseteq Stamp
  BY FS_CardinalityType DEF Distinct
<1>2. line = [n \in 1..N |-> CHOOSE e \in S : Place(n, e)]
  BY DEF InTimeOrder, Before
<1>3. \A n \in 1..N : \E e \in S : Place(n, e)
  BY Places
<1> HIDE DEF N, Place
<1>4. \A n \in 1..N : line[n] \in S /\ Place(n, line[n])
  <2> SUFFICES ASSUME NEW n \in 1..N
               PROVE  line[n] \in S /\ Place(n, line[n])
    OBVIOUS
  <2>1. line[n] = CHOOSE e \in S : Place(n, e)
    BY <1>2
  <2>2. QED BY <1>3, <2>1, Zenon
<1>5. line \in [1..N -> Stamp]
  <2>1. \A n \in 1..N : line[n] \in Stamp
    BY <1>1, <1>4
  <2>2. line = [n \in 1..N |-> line[n]]
    BY <1>2
  <2>3. QED BY <2>1, <2>2
<1>6. line \in Seq(Stamp) /\ Len(line) = N /\ DOMAIN line = 1..N
  <2>1. line \in Seq(Stamp)
    BY <1>1, <1>5, SeqDef
  <2>2. DOMAIN line = 1..N /\ DOMAIN line = 1..Len(line) /\ Len(line) \in Nat
    BY <1>5, <2>1, LenProperties
  <2>3. QED BY <1>1, <2>1, <2>2
<1>7. \A m, n \in 1..N : m < n => Precedes(line[m], line[n])
  <2> SUFFICES ASSUME NEW m \in 1..N, NEW n \in 1..N, m < n
               PROVE  Precedes(line[m], line[n])
    OBVIOUS
  <2>1. line[m] \in S /\ line[n] \in S
    BY <1>4
  <2>2. /\ Cardinality(Before(S, line[m])) = m - 1 /\ Cardinality(Before(S, line[n])) = n - 1
    BY <1>4 DEF Place
  <2>3. line[m] # line[n]
    <3>1. m - 1 # n - 1
      BY <1>1
    <3>2. QED BY <2>2, <3>1
  <2>4. ~Precedes(line[n], line[m])
    <3>1. ~(n - 1 < m - 1)
      BY <1>1
    <3>2. QED BY <2>1, <2>2, <3>1, BeforeGrows
  <2>5. QED BY <2>1, <2>3, <2>4, TotalOrder
<1>8. \A m, n \in 1..N : m <= n => line[m].at <= line[n].at
  <2> SUFFICES ASSUME NEW m \in 1..N, NEW n \in 1..N, m <= n
               PROVE  line[m].at <= line[n].at
    OBVIOUS
  <2>1. line[m].at \in Nat /\ line[n].at \in Nat
    <3>1. line[m] \in Stamp /\ line[n] \in Stamp
      BY <1>1, <1>4
    <3>2. QED BY <3>1 DEF Stamp
  <2>2. m = n \/ m < n
    BY <1>1
  <2>3. m < n => Precedes(line[m], line[n])
    BY <1>7
  <2>4. QED BY <2>1, <2>2, <2>3 DEF Precedes
<1>9. QED BY <1>1, <1>4, <1>6, <1>8 DEF Ordered, N, Place

\* A stamp that comes after all others comes last.
LEMMA ComesLast ==
  ASSUME NEW S, NEW e, Distinct(S \cup {e}), e \notin S, \A f \in S : Precedes(f, e)
  PROVE  InTimeOrder(S \cup {e}) = Append(InTimeOrder(S), e)
<1> DEFINE M == S \cup {e}
           N == Cardinality(S)
           old == InTimeOrder(S)
           new == InTimeOrder(M)
<1>1. Distinct(S)
  <2>1. IsFiniteSet(M) /\ S \in SUBSET M
    BY DEF Distinct
  <2>2. IsFiniteSet(S)
    BY <2>1, FS_Subset
  <2>3. QED BY <2>2 DEF Distinct
<1>2. Cardinality(M) = N + 1 /\ N \in Nat
  BY <1>1, FS_AddElement, FS_CardinalityType DEF Distinct
<1>3. \A f \in S : Before(M, f) = Before(S, f)
  <2>1. \A f \in S : ~Precedes(e, f)
    BY TotalOrder
  <2>2. QED BY <2>1 DEF Before
<1>4. Before(M, e) = S
  BY TotalOrder DEF Before
<1> HIDE DEF M, N, old, new
<1>5. /\ old \in Seq(Stamp) /\ Len(old) = N
      /\ \A n \in 1..N : old[n] \in S /\ Cardinality(Before(S, old[n])) = n - 1
  BY <1>1, InTimeOrderIs DEF old, N
<1>6. /\ new \in Seq(Stamp) /\ Len(new) = N + 1
      /\ \A n \in 1..(N + 1) : new[n] \in M /\ Cardinality(Before(M, new[n])) = n - 1
  BY <1>2, InTimeOrderIs DEF new, M
<1>7. e \in Stamp /\ e \in M /\ S \subseteq M
  BY DEF Distinct, M
<1>8. \A n \in 1..N : new[n] = old[n]
  <2> SUFFICES ASSUME NEW n \in 1..N
               PROVE  new[n] = old[n]
    OBVIOUS
  <2>1. n \in 1..(N + 1)
    BY <1>2
  <2>2. Cardinality(Before(M, new[n])) = Cardinality(Before(M, old[n]))
    BY <1>3, <1>5, <1>6, <2>1
  <2>3. new[n] \in M /\ old[n] \in M
    BY <1>5, <1>6, <1>7, <2>1
  <2>4. QED BY <2>2, <2>3, Places DEF M
<1>9. new[N + 1] = e
  <2>1. N + 1 \in 1..(N + 1) /\ (N + 1) - 1 = N
    BY <1>2
  <2>2. Cardinality(Before(M, new[N + 1])) = Cardinality(Before(M, e))
    BY <1>4, <1>6, <2>1 DEF N
  <2>3. new[N + 1] \in M
    BY <1>6, <2>1
  <2>4. QED BY <1>7, <2>2, <2>3, Places DEF M
<1>10. /\ Append(old, e) \in Seq(Stamp) /\ Len(Append(old, e)) = N + 1
       /\ \A n \in 1..N : Append(old, e)[n] = old[n]
       /\ Append(old, e)[N + 1] = e
  BY <1>5, <1>7, AppendProperties
<1>11. \A n \in 1..(N + 1) : new[n] = Append(old, e)[n]
  <2>1. \A n \in 1..(N + 1) : n \in 1..N \/ n = N + 1
    BY <1>2
  <2>2. QED BY <1>8, <1>9, <1>10, <2>1
<1>12. new = Append(old, e)
  BY <1>6, <1>10, <1>11, SeqEqual
<1>13. QED BY <1>12 DEF new, old, M

-----------------------------------------------------------------------------
(* The correction in force.                                                *)

\* A nonempty finite set of positions has a latest one: the greatest at, and the last
\* position among equals.  (By the least m for which the positions up to m have none: m is
\* one of them, and is the latest or loses to the latest before it.)
LEMMA LatestPosition ==
  ASSUME NEW n \in Nat, NEW C \in SUBSET (1..n), C # {},
         NEW at, \A c \in C : at[c] \in Nat
  PROVE  \E c \in C : \A o \in C : at[o] < at[c] \/ (at[o] = at[c] /\ o <= c)
<1> DEFINE after(c, o) == at[o] < at[c] \/ (at[o] = at[c] /\ o <= c)
           latest(c, m) == \A o \in C : o <= m => after(c, o)
           hasNone(m) == /\ \E c \in C : c <= m
                         /\ \A c \in C : c <= m => ~latest(c, m)
           W == {m \in Nat : hasNone(m)}
<1>1. \A c \in C : c \in Nat /\ c >= 1 /\ c <= n
  OBVIOUS
<1>2. ASSUME W # {}
      PROVE  FALSE
  <2>1. PICK m \in W : \A o \in W : ~(<<o, m>> \in OpToRel(<, Nat))
    <3>1. W \subseteq Nat
      OBVIOUS
    <3> HIDE DEF W
    <3>2. QED BY <1>2, <3>1, NatLessThanWellFounded, WFMin
  <2>2. m \in Nat /\ hasNone(m)
    OBVIOUS
  <2>3. \A o \in Nat : o < m => ~hasNone(o)
    <3>1. \A o \in Nat : o < m => <<o, m>> \in OpToRel(<, Nat)
      BY <2>2 DEF OpToRel
    <3> HIDE DEF hasNone
    <3>2. QED BY <2>1, <3>1
  <2> HIDE DEF W
  <2>4. m > 0 /\ m - 1 \in Nat /\ m - 1 < m
    BY <1>1, <2>2
  <2>5. \A c \in C : c <= m <=> (c <= m - 1 \/ c = m)
    <3> HIDE DEF hasNone
    <3>1. QED BY <1>1, <2>2
  <2>6. m \in C
    <3>1. SUFFICES ASSUME m \notin C PROVE hasNone(m - 1)
      BY <2>3, <2>4
    <3>2. \A c \in C : c <= m <=> c <= m - 1
      BY <2>5, <3>1
    <3> HIDE DEF after
    <3>3. QED BY <2>2, <3>2
  <2>7. CASE \E c \in C : c <= m - 1
    <3>1. PICK c \in C : c <= m - 1 /\ latest(c, m - 1)
      BY <2>3, <2>4, <2>7
    <3>2. \A o \in C : o <= m => o = m \/ after(c, o)
      BY <2>5, <3>1
    <3>3. ~after(c, m)
      <4>1. ~latest(c, m)
        BY <2>2, <2>5, <3>1
      <4>2. PICK o \in C : o <= m /\ ~after(c, o)
        BY <4>1
      <4>3. QED BY <3>2, <4>2
    <3>4. \A o \in C : o <= m => after(m, o)
      BY <1>1, <2>2, <2>6, <3>2, <3>3
    <3>5. latest(m, m)
      BY <3>4
    <3> HIDE DEF latest
    <3>6. QED BY <2>2, <2>6, <3>5
  <2>8. CASE ~\E c \in C : c <= m - 1
    <3>1. \A o \in C : o <= m => o = m
      BY <2>5, <2>8
    <3>2. latest(m, m)
      BY <2>2, <2>6, <3>1
    <3> HIDE DEF latest
    <3>3. QED BY <2>2, <2>6, <3>2
  <2>9. QED BY <2>7, <2>8
<1>3. ~hasNone(n)
  BY <1>2
<1>4. PICK c \in C : latest(c, n)
  <2> HIDE DEF latest
  <2>1. QED BY <1>1, <1>3
<1>5. QED BY <1>1, <1>4

\* LatestCorrection picks one.
LEMMA LatestExists ==
  ASSUME NEW Key, NEW L \in Seq(Rows(Key)), NEW C \in SUBSET (1..Len(L)), C # {}
  PROVE  /\ LatestCorrection(L, C) \in C
         /\ \A o \in C : \/ L[o].at < L[LatestCorrection(L, C)].at
                         \/ L[o].at = L[LatestCorrection(L, C)].at /\ o <= LatestCorrection(L, C)
<1> DEFINE at == [c \in C |-> L[c].at]
<1>1. Len(L) \in Nat /\ \A c \in C : L[c] \in Rows(Key)
  BY ElementOfSeq, LenProperties
<1>2. \A c \in C : at[c] \in Nat /\ at[c] = L[c].at
  BY <1>1 DEF Rows
<1> HIDE DEF at
<1>3. \E c \in C : \A o \in C : at[o] < at[c] \/ (at[o] = at[c] /\ o <= c)
  BY <1>1, <1>2, LatestPosition
<1>4. \E c \in C : \A o \in C : L[o].at < L[c].at \/ (L[o].at = L[c].at /\ o <= c)
  BY <1>2, <1>3
<1>5. QED BY <1>4, Zenon DEF LatestCorrection

\* A row that corrects nothing of log[i] leaves the effective time of log[i] alone.
LEMMA EffectiveAtKept ==
  ASSUME NEW Key, NEW L \in Seq(Rows(Key)), NEW row \in Rows(Key), NEW i \in DOMAIN L,
         row.type = "CORRECTION" => row.day # L[i].day \/ row.of # L[i].key
  PROVE  EffectiveAt(Append(L, row), i) = EffectiveAt(L, i)
<1> DEFINE M == Append(L, row)
           C == Corrections(L, i)
<1>1. /\ M \in Seq(Rows(Key)) /\ Len(M) = Len(L) + 1 /\ M[Len(L) + 1] = row
      /\ \A j \in 1..Len(L) : M[j] = L[j]
      /\ DOMAIN L = 1..Len(L) /\ DOMAIN M = 1..(Len(L) + 1) /\ Len(L) \in Nat
  BY AppendProperties, LenProperties
<1> HIDE DEF M
<1>2. Corrections(M, i) = C
  <2>1. \A c \in 1..Len(L) : c \in Corrections(M, i) <=> c \in C
    BY <1>1 DEF Corrections
  <2>2. Len(L) + 1 \notin Corrections(M, i)
    BY <1>1 DEF Corrections
  <2>3. /\ \A c \in C : c \in 1..Len(L)
        /\ \A c \in Corrections(M, i) : c \in 1..Len(L) \/ c = Len(L) + 1
    BY <1>1 DEF Corrections
  <2> HIDE DEF C
  <2>4. \A c : c \in Corrections(M, i) <=> c \in C
    BY <2>1, <2>2, <2>3, Zenon
  <2>5. QED BY <2>4, Zenon
<1>3. C \subseteq 1..Len(L)
  BY <1>1 DEF Corrections
<1>4. \A c \in C : M[c] = L[c]
  BY <1>1, <1>3
<1>5. LatestCorrection(M, C) = LatestCorrection(L, C)
  <2>1. \A c \in C :
          (\A o \in C : M[o].at < M[c].at \/ (M[o].at = M[c].at /\ o <= c)) <=>
          (\A o \in C : L[o].at < L[c].at \/ (L[o].at = L[c].at /\ o <= c))
    BY <1>4
  <2> HIDE DEF C
  <2>2. QED BY <2>1 DEF LatestCorrection
<1>6. M[i] = L[i]
  BY <1>1
<1>7. EffectiveAt(L, i) = IF C = {} THEN L[i].at ELSE L[LatestCorrection(L, C)].to
  BY DEF EffectiveAt
<1>8. EffectiveAt(M, i) = IF C = {} THEN M[i].at ELSE M[LatestCorrection(M, C)].to
  BY <1>2 DEF EffectiveAt
<1>9. C # {} => M[LatestCorrection(L, C)] = L[LatestCorrection(L, C)]
  <2> HIDE DEF C
  <2>1. QED BY <1>3, <1>4, LatestExists
<1>10. EffectiveAt(M, i) = EffectiveAt(L, i)
  <2> HIDE DEF C
  <2>1. CASE C = {}
    BY <1>6, <1>7, <1>8, <2>1
  <2>2. CASE C # {}
    BY <1>5, <1>7, <1>8, <1>9, <2>2
  <2>3. QED BY <2>1, <2>2
<1>11. QED BY <1>10 DEF M

-----------------------------------------------------------------------------
(* From the log to the line.                                               *)

\* The time in force is a time.
LEMMA EffectiveType ==
  ASSUME NEW Key, NEW L \in Seq(Rows(Key)), NEW i \in DOMAIN L
  PROVE  EffectiveAt(L, i) \in Nat
<1> DEFINE C == Corrections(L, i)
<1>1. DOMAIN L = 1..Len(L) /\ \A c \in DOMAIN L : L[c] \in Rows(Key)
  BY LenProperties, ElementOfSeq
<1>2. \A c \in DOMAIN L : L[c].at \in Nat /\ L[c].to \in Nat
  BY <1>1 DEF Rows
<1>3. C \in SUBSET (1..Len(L))
  BY <1>1 DEF Corrections
<1>4. EffectiveAt(L, i) = IF C = {} THEN L[i].at ELSE L[LatestCorrection(L, C)].to
  BY DEF EffectiveAt
<1> HIDE DEF C
<1>5. C # {} => LatestCorrection(L, C) \in DOMAIN L
  BY <1>1, <1>3, LatestExists
<1>6. QED BY <1>2, <1>4, <1>5

AsStamp(L, i) == [row |-> i, type |-> L[i].type, at |-> EffectiveAt(L, i)]

\* The stamps of a day can be told apart, and none is left out.
LEMMA StampsOfIs ==
  ASSUME NEW Key, NEW L \in Seq(Rows(Key)), NEW d
  PROVE  /\ Distinct(StampsOf(L, d))
         /\ \A e : e \in StampsOf(L, d) <=> \E i \in DOMAIN L : IsStampOf(L, d, i) /\ e = AsStamp(L, i)
<1> DEFINE S == StampsOf(L, d)
<1>1. /\ Len(L) \in Nat /\ DOMAIN L = 1..Len(L) /\ \A i \in DOMAIN L : L[i] \in Rows(Key)
  BY LenProperties, ElementOfSeq
<1>2. \A e : e \in S <=> \E i \in DOMAIN L : IsStampOf(L, d, i) /\ e = AsStamp(L, i)
  BY DEF StampsOf, AsStamp
<1> HIDE DEF S
<1>3. \A i \in DOMAIN L : IsStampOf(L, d, i) => AsStamp(L, i) \in Stamp /\ AsStamp(L, i).row = i
  <2> SUFFICES ASSUME NEW i \in DOMAIN L, IsStampOf(L, d, i)
               PROVE  AsStamp(L, i) \in Stamp /\ AsStamp(L, i).row = i
    OBVIOUS
  <2>1. L[i].type \in StampTypes
    BY <1>1 DEF Rows, IsStampOf
  <2>2. i \in Nat /\ EffectiveAt(L, i) \in Nat
    BY <1>1, EffectiveType
  <2>3. QED BY <2>1, <2>2 DEF AsStamp, Stamp
<1>4. S \subseteq Stamp /\ \A e, f \in S : e.row = f.row => e = f
  BY <1>2, <1>3
<1>5. \A e \in S : e.row \in 1..Len(L)
  BY <1>1, <1>2, <1>3
<1>6. IsFiniteSet(S)
  <2> DEFINE number == [e \in S |-> e.row]
  <2>1. number \in [S -> 1..Len(L)]
    BY <1>5
  <2>2. \A e, f \in S : number[e] = number[f] => e = f
    BY <1>4
  <2>3. number \in Injection(S, 1..Len(L))
    BY <2>1, <2>2, Fun_IsInj
  <2>4. IsFiniteSet(1..Len(L))
    <3>1. 1 \in Int /\ Len(L) \in Int
      BY <1>1
    <3>2. QED BY <3>1, FS_Interval
  <2> HIDE DEF number
  <2>5. QED BY <2>3, <2>4, FS_Injection
<1>7. QED BY <1>2, <1>4, <1>6 DEF Distinct, S

\* The timeline of a day is a line of its stamps, each at one place, ordered by time.
LEMMA TimelineIs ==
  ASSUME NEW Key, NEW L \in Seq(Rows(Key)), NEW d
  PROVE  /\ Timeline(L, d) \in Seq(Stamp) /\ Ordered(Timeline(L, d))
         /\ Len(Timeline(L, d)) = Cardinality(StampsOf(L, d))
         /\ \A e \in StampsOf(L, d) :
              \E n \in 1..Len(Timeline(L, d)) : Timeline(L, d)[n] = e
<1> DEFINE S == StampsOf(L, d)
           line == Timeline(L, d)
           N == Cardinality(S)
<1>1. Distinct(S) /\ line = InTimeOrder(S)
  BY StampsOfIs DEF Timeline
<1> HIDE DEF S, line
<1>2. /\ N \in Nat /\ line \in Seq(Stamp) /\ Len(line) = N /\ Ordered(line)
      /\ \A n \in 1..N : line[n] \in S /\ Cardinality(Before(S, line[n])) = n - 1
  BY <1>1, InTimeOrderIs
<1>3. \A e \in S : \E n \in 1..N : line[n] = e
  <2> SUFFICES ASSUME NEW e \in S
               PROVE  \E n \in 1..N : line[n] = e
    OBVIOUS
  <2> DEFINE m == Cardinality(Before(S, e)) + 1
  <2>1. Cardinality(Before(S, e)) \in 0..(N - 1)
    BY <1>1, BeforeGrows
  <2>2. m \in 1..N /\ m - 1 = Cardinality(Before(S, e))
    BY <1>2, <2>1
  <2>3. line[m] \in S /\ Cardinality(Before(S, line[m])) = Cardinality(Before(S, e))
    BY <1>2, <2>2
  <2> HIDE DEF m
  <2>4. line[m] = e
    BY <1>1, <2>3, Places
  <2>5. QED BY <2>2, <2>4
<1>4. QED BY <1>2, <1>3 DEF S, line

\* A row of another day leaves the timeline of day d alone.
LEMMA TimelineKept ==
  ASSUME NEW Key, NEW L \in Seq(Rows(Key)), NEW row \in Rows(Key), NEW d, row.day # d
  PROVE  Timeline(Append(L, row), d) = Timeline(L, d)
<1> DEFINE M == Append(L, row)
<1>1. /\ M \in Seq(Rows(Key))
      /\ Len(L) \in Nat /\ DOMAIN L = 1..Len(L) /\ DOMAIN M = 1..(Len(L) + 1)
      /\ M[Len(L) + 1] = row /\ \A j \in 1..Len(L) : M[j] = L[j]
  BY AppendProperties, LenProperties
<1>2. \A i \in DOMAIN L : IsStampOf(L, d, i) => EffectiveAt(M, i) = EffectiveAt(L, i)
  BY EffectiveAtKept DEF IsStampOf
<1> HIDE DEF M
<1>3. \A i \in DOMAIN L : IsStampOf(M, d, i) <=> IsStampOf(L, d, i)
  BY <1>1 DEF IsStampOf
<1>4. ~IsStampOf(M, d, Len(L) + 1)
  BY <1>1 DEF IsStampOf
<1>5. \A i \in DOMAIN L : IsStampOf(L, d, i) => AsStamp(M, i) = AsStamp(L, i)
  BY <1>1, <1>2 DEF AsStamp
<1>6. \A i : i \in DOMAIN M <=> i \in DOMAIN L \/ i = Len(L) + 1
  BY <1>1
<1>7. \A e : e \in StampsOf(M, d) <=> e \in StampsOf(L, d)
  <2>1. \A e : e \in StampsOf(M, d) <=> \E i \in DOMAIN M : IsStampOf(M, d, i) /\ e = AsStamp(M, i)
    BY <1>1, StampsOfIs
  <2>2. \A e : e \in StampsOf(L, d) <=> \E i \in DOMAIN L : IsStampOf(L, d, i) /\ e = AsStamp(L, i)
    BY StampsOfIs
  <2>3. QED BY <1>3, <1>4, <1>5, <1>6, <2>1, <2>2
<1>8. StampsOf(M, d) = StampsOf(L, d)
  BY <1>7
<1>9. QED BY <1>8 DEF Timeline, M

\* A stamp of day d, not before any other and corrected by no row, ends its timeline.
LEMMA TimelineGrows ==
  ASSUME NEW Key, NEW L \in Seq(Rows(Key)), NEW row \in Rows(Key), NEW d,
         row.type # "CORRECTION", row.day = d,
         \A c \in DOMAIN L : L[c].type = "CORRECTION" => L[c].of # row.key,
         \A e \in StampsOf(L, d) : e.at <= row.at
  PROVE  Timeline(Append(L, row), d) =
           Append(Timeline(L, d), [row |-> Len(L) + 1, type |-> row.type, at |-> row.at])
<1> DEFINE M == Append(L, row)
           last == Len(L) + 1
           new == [row |-> last, type |-> row.type, at |-> row.at]
           S == StampsOf(L, d)
<1>1. /\ M \in Seq(Rows(Key))
      /\ Len(L) \in Nat /\ DOMAIN L = 1..Len(L) /\ DOMAIN M = 1..(Len(L) + 1)
      /\ M[last] = row /\ \A j \in DOMAIN L : M[j] = L[j]
  BY AppendProperties, LenProperties
<1>2. \A i \in DOMAIN L : EffectiveAt(M, i) = EffectiveAt(L, i)
  BY EffectiveAtKept
<1> HIDE DEF M
<1>3. EffectiveAt(M, last) = row.at
  <2>1. Corrections(M, last) = {}
    <3>1. \A c \in DOMAIN M : ~(M[c].type = "CORRECTION" /\ M[c].of = M[last].key)
      <4>1. \A c \in DOMAIN M : c \in DOMAIN L \/ c = last
        BY <1>1
      <4>2. QED BY <1>1, <4>1
    <3>2. QED BY <3>1 DEF Corrections
  <2>2. QED BY <1>1, <2>1 DEF EffectiveAt
<1>4. \A i \in DOMAIN L : IsStampOf(M, d, i) <=> IsStampOf(L, d, i)
  BY <1>1 DEF IsStampOf
<1>5. IsStampOf(M, d, last) /\ AsStamp(M, last) = new
  BY <1>1, <1>3 DEF IsStampOf, AsStamp
<1>6. \A i \in DOMAIN L : AsStamp(M, i) = AsStamp(L, i)
  BY <1>1, <1>2 DEF AsStamp
<1>7. \A i : i \in DOMAIN M <=> i \in DOMAIN L \/ i = last
  BY <1>1
<1> HIDE DEF new
<1>8. StampsOf(M, d) = S \cup {new}
  <2>1. \A e : e \in StampsOf(M, d) <=> \E i \in DOMAIN M : IsStampOf(M, d, i) /\ e = AsStamp(M, i)
    BY <1>1, StampsOfIs
  <2>2. \A e : e \in S <=> \E i \in DOMAIN L : IsStampOf(L, d, i) /\ e = AsStamp(L, i)
    BY StampsOfIs
  <2> HIDE DEF S, last
  <2>3. \A e : e \in StampsOf(M, d) <=> e \in S \/ e = new
    BY <1>4, <1>5, <1>6, <1>7, <2>1, <2>2
  <2>4. QED BY <2>3
<1>9. Distinct(S \cup {new})
  BY <1>1, <1>8, StampsOfIs
<1>10. \A e \in S : e.row \in DOMAIN L /\ e.row < last /\ e.at \in Nat
  <2> SUFFICES ASSUME NEW e \in S
               PROVE  e.row \in DOMAIN L /\ e.row < last /\ e.at \in Nat
    OBVIOUS
  <2>1. PICK i \in DOMAIN L : e = AsStamp(L, i)
    BY StampsOfIs
  <2>2. e.row = i /\ e.at \in Nat
    BY <2>1, EffectiveType DEF AsStamp
  <2>3. QED BY <1>1, <2>2
<1>11. new.row = last /\ new.at = row.at /\ row.at \in Nat
  BY DEF new, Rows
<1>12. new \notin S /\ \A e \in S : Precedes(e, new)
  <2>1. \A e \in S : e.row # last
    BY <1>1, <1>10
  <2>2. \A e \in S : e.at < row.at \/ e.at = row.at
    BY <1>10, <1>11
  <2>3. QED BY <1>10, <1>11, <2>1, <2>2 DEF Precedes
<1>13. InTimeOrder(S \cup {new}) = Append(InTimeOrder(S), new)
  <2> HIDE DEF S
  <2>1. QED BY <1>9, <1>12, ComesLast
<1>14. QED BY <1>8, <1>13 DEF Timeline, M, new

-----------------------------------------------------------------------------
(* One more stamp.                                                         *)

\* A stamp the state allows keeps an orderly day orderly.
LEMMA OrderlyGrows ==
  ASSUME NEW line \in Seq(Stamp), NEW e \in Stamp, Orderly(line), Allowed(Replay(line), e.type)
  PROVE  /\ Orderly(Append(line, e))
         /\ Replay(Append(line, e)) = Transition(Replay(line), e.type)
<1> DEFINE more == Append(line, e)
           N == Len(line)
<1>1. /\ N \in Nat /\ DOMAIN line = 1..N /\ more \in Seq(Stamp) /\ Len(more) = N + 1
      /\ \A n \in 1..N : more[n] = line[n]
      /\ more[N + 1] = e
      /\ \A n \in 0..N : Replayed(more)[n] = Replayed(line)[n]
  BY LineType, ReplayedPrefix
<1> HIDE DEF more, N
<1>2. DOMAIN more = 1..(N + 1) /\ (N + 1) - 1 = N /\ N \in 0..N /\ N + 1 \in 1..(N + 1)
  BY <1>1, LineType
<1>3. \A n \in 1..N : Allowed(Replayed(more)[n - 1], more[n].type)
  <2>1. \A n \in 1..N : n - 1 \in 0..N
    BY <1>1
  <2>2. \A n \in 1..N : Allowed(Replayed(line)[n - 1], line[n].type)
    BY <1>1 DEF Orderly
  <2>3. QED BY <1>1, <2>1, <2>2
<1>4. Replayed(more)[N] = Replay(line)
  BY <1>1, <1>2 DEF Replay, N
<1>5. \A n \in DOMAIN more : n \in 1..N \/ n = N + 1
  BY <1>1, <1>2
<1>6. Orderly(more)
  BY <1>1, <1>2, <1>3, <1>4, <1>5 DEF Orderly
<1>7. Replay(more) = ReplayStep(Replayed(more)[N], e)
  BY <1>1, <1>2, ReplayedIs DEF Replay
<1>8. QED BY <1>4, <1>6, <1>7 DEF ReplayStep, more

\* ... and never lowers what its finished sessions come to.
LEMMA WorkedGrows ==
  ASSUME NEW line \in Seq(Stamp), Ordered(line), NEW e \in Stamp, Orderly(line),
         Allowed(Replay(line), e.type), \A n \in DOMAIN line : line[n].at <= e.at
  PROVE  /\ Pairing(line).worked \in Int /\ Pairing(Append(line, e)).worked \in Int
         /\ Pairing(Append(line, e)).worked >= Pairing(line).worked
<1> DEFINE N == Len(line)
           p == Pairing(line)
           q == Pairing(Append(line, e))
<1>1. N \in Nat /\ DOMAIN line = 1..N /\ N \in 0..N /\ (N + 1) - 1 = N /\ N + 1 \in 1..(N + 1)
  BY LineType
<1>2. p \in Pairings
  BY <1>1, PairedIs DEF Pairing
<1>3. q = PairStep(p, e)
  <2>1. /\ Append(line, e) \in Seq(Stamp) /\ Len(Append(line, e)) = N + 1
        /\ Append(line, e)[N + 1] = e
    BY ReplayedPrefix
  <2>2. Paired(Append(line, e))[N + 1] = PairStep(Paired(Append(line, e))[N], e)
    BY <1>1, <2>1, PairedIs
  <2>3. Paired(Append(line, e))[N] = Paired(line)[N]
    BY <1>1, PairedPrefix
  <2>4. QED BY <2>1, <2>2, <2>3 DEF Pairing
<1>4. Fits(line, N)
  BY <1>1 DEF Fits, Orderly
<1>5. ~p.broken /\ p.state = Replay(line)
  BY <1>1, <1>4, PairingInStep DEF InStep, Pairing, Replay
<1> HIDE DEF p, q
<1>6. ~q.broken
  BY <1>2, <1>3, <1>5, PairStepIs
<1>7. q \in Pairings
  BY <1>2, <1>3, PairStepType
<1>8. p.worked \in Int /\ q.worked \in Int /\ e.at \in Int
      /\ p.start \in Int /\ p.rest \in Int /\ p.breakAt \in Int
  BY <1>2, <1>7 DEF Pairings, Stamp
<1>9. CASE e.type # "END"
  <2>1. q.worked = p.worked
    BY <1>2, <1>3, <1>6, <1>9, PairStepIs
  <2>2. QED BY <1>8, <2>1 DEF p, q
<1>10. CASE e.type = "END"
  <2>1. q.worked = p.worked + ((IF p.state = "ON_BREAK" THEN p.breakAt ELSE e.at) - p.start) - p.rest
    BY <1>2, <1>3, <1>6, <1>10, PairStepIs
  <2>2. p.state \in OpenStates
    BY <1>5, <1>10, Table DEF OpenStates
  <2>3. N # 0
    <3>1. N = 0 => Replay(line) = "IDLE"
      BY ReplayedIs DEF Replay
    <3>2. QED BY <1>5, <2>2, <3>1 DEF OpenStates
  <2>4. AccountedAt(line, N)
    BY <1>1, PairingAccounts
  <2>5. Accounted(p, p.state, line[N].at, Cardinality(Ticks(line, N)))
    BY <1>4, <1>5, <2>3, <2>4 DEF AccountedAt, Pairing, Replay, p
  <2>6. line[N].at \in Int /\ line[N].at <= e.at
    BY <1>1, <2>3, LineType
  <2>7. q.worked >= p.worked
    BY <1>8, <2>1, <2>2, <2>5, <2>6 DEF Accounted, OpenStates
  <2>8. QED BY <1>8, <2>7 DEF p, q
<1>11. QED BY <1>9, <1>10

-----------------------------------------------------------------------------
(* The log of a day.                                                       *)

DayOK ==
  /\ raw \in Seq(Rows(Nat))
  /\ \A i \in DOMAIN raw : raw[i].type \in StampTypes /\ raw[i].day = 0

DayRow(type, t) ==
  [key |-> Len(raw) + 1, day |-> 0, type |-> type, at |-> t, of |-> NoKey, to |-> 0]

\* A row of the modelled day is a row.
LEMMA DayRowType ==
  ASSUME DayOK, NEW type \in StampTypes, NEW t \in 0..LastTick
  PROVE  DayRow(type, t) \in Rows(Nat)
<1>1. Len(raw) + 1 \in Nat /\ t \in Nat
  BY LenProperties, MCWorkRecordAssumption DEF DayOK
<1>2. QED BY <1>1 DEF DayRow, Rows

\* The modelled day has only stamps, and they are well typed.
LEMMA DayTyped == DaySpec => []DayOK
<1>1. DayInit => DayOK
  <2>1. <<>> \in Seq(Rows(Nat)) /\ DOMAIN <<>> = {}
    BY EmptySeq
  <2>2. QED BY <2>1 DEF DayInit, DayOK
<1>2. ASSUME DayOK, DayNext
      PROVE  DayOK'
  <2>1. PICK type \in StampTypes, t \in 0..LastTick : raw' = Append(raw, DayRow(type, t))
    BY <1>2 DEF DayNext, AddStamp, DayRow
  <2> DEFINE row == DayRow(type, t)
  <2>2. row \in Rows(Nat) /\ row.type = type /\ row.day = 0
    BY <1>2, DayRowType DEF DayRow
  <2> HIDE DEF row
  <2>3. /\ raw' \in Seq(Rows(Nat)) /\ DOMAIN raw' = 1..(Len(raw) + 1) /\ DOMAIN raw = 1..Len(raw)
        /\ Len(raw) \in Nat /\ raw'[Len(raw) + 1] = row /\ \A i \in 1..Len(raw) : raw'[i] = raw[i]
    BY <1>2, <2>1, <2>2, AppendProperties, LenProperties DEF DayOK, row
  <2>4. \A i \in DOMAIN raw' : i \in 1..Len(raw) \/ i = Len(raw) + 1
    BY <2>3
  <2>5. \A i \in DOMAIN raw' : raw'[i].type \in StampTypes /\ raw'[i].day = 0
    BY <1>2, <2>2, <2>3, <2>4 DEF DayOK
  <2>6. QED BY <2>3, <2>5 DEF DayOK
<1>3. ASSUME DayOK, UNCHANGED raw
      PROVE  DayOK'
  BY <1>3 DEF DayOK
<1>4. QED BY <1>1, <1>2, <1>3, PTL DEF DaySpec

\* One more stamp at the end of the day.
LEMMA LineGrows ==
  ASSUME DayOK, NEW type \in StampTypes, NEW t \in LastAt..LastTick
  PROVE  LET e == [row |-> Len(raw) + 1, type |-> type, at |-> t] IN
         /\ Line \in Seq(Stamp) /\ Ordered(Line) /\ e \in Stamp
         /\ \A n \in DOMAIN Line : Line[n].at <= e.at
         /\ Timeline(Stamped(type, t), 0) = Append(Line, e)
         /\ Append(Line, e) \in Seq(Stamp) /\ Ordered(Append(Line, e))
<1> DEFINE e == [row |-> Len(raw) + 1, type |-> type, at |-> t]
<1>1. raw \in Seq(Rows(Nat)) /\ Len(raw) \in Nat
  BY LenProperties DEF DayOK
<1>2. Line \in Seq(Stamp) /\ Ordered(Line)
  BY <1>1, TimelineIs DEF Line
<1>3. /\ Len(Line) \in Nat /\ DOMAIN Line = 1..Len(Line)
      /\ \A n \in 1..Len(Line) : Line[n].at \in Nat
  BY <1>2, LineType
<1>4. LastAt \in Nat /\ \A n \in DOMAIN Line : Line[n].at <= LastAt
  <2>1. CASE Line = <<>>
    BY <2>1 DEF LastAt
  <2>2. CASE Line # <<>>
    <3>1. Len(Line) \in 1..Len(Line) /\ LastAt = Line[Len(Line)].at
      BY <1>2, <1>3, <2>2, EmptySeq DEF LastAt
    <3>2. \A n \in 1..Len(Line) : n <= Len(Line)
      BY <1>3
    <3>3. QED BY <1>2, <1>3, <3>1, <3>2, OrderedAt
  <2>3. QED BY <2>1, <2>2
<1>5. t \in 0..LastTick /\ t \in Nat /\ LastAt <= t
  BY <1>4, MCWorkRecordAssumption
<1>6. \A n \in DOMAIN Line : Line[n].at <= t
  <2>1. \A n \in DOMAIN Line : Line[n].at \in Nat /\ Line[n].at <= LastAt
    BY <1>3, <1>4
  <2>2. QED BY <1>4, <1>5, <2>1
<1>7. DayRow(type, t) \in Rows(Nat)
  BY <1>5, DayRowType
<1>8. /\ Stamped(type, t) = Append(raw, DayRow(type, t))
      /\ DayRow(type, t).type = type /\ DayRow(type, t).day = 0 /\ DayRow(type, t).at = t
  BY DEF Stamped, DayRow
<1>9. \A f \in StampsOf(raw, 0) : f.at <= t
  <2>1. \A f \in StampsOf(raw, 0) : \E n \in 1..Len(Line) : Line[n] = f
    BY <1>1, TimelineIs DEF Line
  <2>2. QED BY <1>3, <1>6, <2>1
<1>10. type # "CORRECTION" /\ \A c \in DOMAIN raw : raw[c].type # "CORRECTION"
  BY DEF DayOK, StampTypes
<1>11. Timeline(Stamped(type, t), 0) = Append(Line, e)
  <2> DEFINE row == DayRow(type, t)
  <2>1. row.type = type /\ row.day = 0 /\ row.at = t /\ row \in Rows(Nat)
    BY <1>7, <1>8
  <2> HIDE DEF row
  <2>2. Timeline(Append(raw, row), 0) =
          Append(Timeline(raw, 0), [row |-> Len(raw) + 1, type |-> row.type, at |-> row.at])
    BY <1>1, <1>9, <1>10, <2>1, TimelineGrows
  <2>3. QED BY <1>8, <2>1, <2>2 DEF Line, row
<1>12. e \in Stamp /\ e.at = t
  BY <1>1, <1>5 DEF Stamp
<1>13. Append(Line, e) \in Seq(Stamp) /\ Ordered(Append(Line, e))
  <2>1. Append(raw, DayRow(type, t)) \in Seq(Rows(Nat))
    BY <1>1, <1>7, AppendProperties
  <2>2. /\ Timeline(Append(raw, DayRow(type, t)), 0) \in Seq(Stamp)
        /\ Ordered(Timeline(Append(raw, DayRow(type, t)), 0))
    BY <2>1, TimelineIs
  <2>3. Timeline(Append(raw, DayRow(type, t)), 0) = Append(Line, e)
    BY <1>8, <1>11
  <2> HIDE DEF e
  <2>4. QED BY <2>2, <2>3
<1>14. QED BY <1>2, <1>6, <1>11, <1>12, <1>13

\* A day that is OK is paid exactly the ticks at which its replayed state was WORKING, for
\* any number of stamps at any times and in any order of arrival (pairDay and
\* finalizeSession against replay).
THEOREM PaidTimeIsTimeAtWork == DaySpec => []WorkedIsTimeAtWork
<1>1. DayOK => WorkedIsTimeAtWork
  <2> SUFFICES ASSUME DayOK, Summary(Line, FALSE).status = "OK"
               PROVE  Summary(Line, FALSE).worked = TimeAtWork(Line)
    BY DEF WorkedIsTimeAtWork
  <2>1. Line \in Seq(Stamp) /\ Ordered(Line)
    BY TimelineIs DEF DayOK, Line
  <2>2. QED BY <2>1, WorkedIs
<1>2. QED BY <1>1, DayTyped, PTL

\* The two readings of a log agree: pairing calls a day OK exactly if replay took every
\* stamp of it and does not leave it open.
THEOREM ReadingsAgree == DaySpec => []OKMeansOrderlyAndEnded
<1>1. DayOK => OKMeansOrderlyAndEnded
  <2> SUFFICES ASSUME DayOK
               PROVE  OKMeansOrderlyAndEnded
    OBVIOUS
  <2>1. Line \in Seq(Stamp)
    BY TimelineIs DEF DayOK, Line
  <2>2. Summary(Line, FALSE).status = "OK" <=> Orderly(Line) /\ Replay(Line) \notin OpenStates
    BY <2>1, OKMeans
  <2>3. QED BY <2>2 DEF OKMeansOrderlyAndEnded, StateOf, Line
<1>2. QED BY <1>1, DayTyped, PTL

\* What the card shows of a day that needs no fix.
LEMMA CardIs ==
  ASSUME NEW L, NEW line, line = Timeline(L, 0), line \in Seq(Stamp)
  PROVE  /\ Card(L, 0, TRUE).mark = Summary(line, TRUE).status
         /\ Card(L, 0, TRUE).buttons = ActionsFor(Replay(line))
         /\ Card(L, 0, TRUE).recorded = StatusLine(line)
         /\ Card(L, 0, TRUE).mark # "needs_fix" =>
              Card(L, 0, TRUE).total = Pairing(line).worked /\ Orderly(line)
<1>1. /\ Card(L, 0, TRUE).mark = Summary(line, TRUE).status
      /\ Card(L, 0, TRUE).buttons = ActionsFor(Replay(line))
      /\ Card(L, 0, TRUE).recorded = StatusLine(line)
      /\ Card(L, 0, TRUE).total = TotalShown(line, Summary(line, TRUE))
  BY DEF Card
<1>2. /\ Summary(line, TRUE).status \in {"OK", "in_progress", "needs_fix"}
      /\ Summary(line, TRUE).status # "needs_fix" => Orderly(line)
  BY OKMeans
<1>3. Summary(line, TRUE).status = "OK" => Summary(line, TRUE).worked = Pairing(line).worked
  BY DEF Summary
<1>4. Summary(line, TRUE).status # "needs_fix" =>
        TotalShown(line, Summary(line, TRUE)) = Pairing(line).worked
  <2> DEFINE day == Summary(line, TRUE)
  <2> HIDE DEF day
  <2>1. TotalShown(line, day) = CASE day.status = "OK" -> day.worked
                                  [] day.status = "in_progress" -> Pairing(line).worked
                                  [] day.status = "needs_fix" -> Nothing
    BY DEF TotalShown, CompletedTotal
  <2>2. QED BY <1>2, <1>3, <2>1 DEF day
<1>5. QED BY <1>1, <1>2, <1>4

\* A button of an orderly day's card keeps its word: the stamp is taken as the last one, the
\* card does not turn to "needs a fix" and the total does not go down (actionsForState,
\* redrawCardForBusinessDate, pairDay).
THEOREM CardKeepsItsWord == DaySpec => []ButtonsKeepTheirWord
<1>1. DayOK => ButtonsKeepTheirWord
  <2> SUFFICES ASSUME DayOK, Card(raw, 0, TRUE).mark # "needs_fix",
                      NEW b \in Card(raw, 0, TRUE).buttons \ {"CORRECT"}, NEW t \in LastAt..LastTick
               PROVE  LET next == Card(Stamped(b, t), 0, TRUE) IN
                      /\ next.recorded = b /\ next.mark # "needs_fix"
                      /\ next.total >= Card(raw, 0, TRUE).total
    BY DEF ButtonsKeepTheirWord
  <2> DEFINE e == [row |-> Len(raw) + 1, type |-> b, at |-> t]
             more == Append(Line, e)
  <2>1. Line \in Seq(Stamp) /\ Len(Line) \in Nat /\ Line = Timeline(raw, 0)
    BY TimelineIs, LenProperties DEF DayOK, Line
  <2>2. /\ b \in ActionsFor(Replay(Line)) \ {"CORRECT"}
        /\ Card(raw, 0, TRUE).total = Pairing(Line).worked /\ Orderly(Line)
    BY <2>1, CardIs
  <2>3. Replay(Line) \in States
    BY <2>1, ReplayedIs DEF Replay
  <2>4. b \in StampTypes /\ Allowed(Replay(Line), b)
    <3>1. \A s \in States : \A x \in ActionsFor(s) \ {"CORRECT"} : x \in StampTypes /\ Allowed(s, x)
      BY DEF States, ActionsFor, StampTypes, Allowed, TransitionTable
    <3>2. QED BY <2>2, <2>3, <3>1
  <2>5. /\ Ordered(Line) /\ e \in Stamp
        /\ \A n \in DOMAIN Line : Line[n].at <= e.at
        /\ Timeline(Stamped(b, t), 0) = more
        /\ more \in Seq(Stamp)
    BY <2>4, LineGrows
  <2>6. e.type = b
    OBVIOUS
  <2> HIDE DEF e
  <2>7. Orderly(more)
    BY <2>1, <2>2, <2>4, <2>5, <2>6, OrderlyGrows
  <2>8. /\ Pairing(Line).worked \in Int /\ Pairing(more).worked \in Int
        /\ Pairing(more).worked >= Pairing(Line).worked
    BY <2>1, <2>2, <2>4, <2>5, <2>6, WorkedGrows
  <2>9. Len(more) = Len(Line) + 1 /\ more[Len(Line) + 1] = e
    BY <2>1, <2>5, ReplayedPrefix
  <2>10. StatusLine(more) = b
    <3>1. more # <<>>
      BY <2>1, <2>9, EmptySeq
    <3>2. QED BY <2>6, <2>9, <3>1 DEF StatusLine
  <2>11. Summary(more, TRUE).status # "needs_fix"
    BY <2>5, <2>7, OKMeans
  <2> HIDE DEF more
  <2>12. LET next == Card(Stamped(b, t), 0, TRUE) IN
         next.recorded = b /\ next.mark # "needs_fix" /\ next.total = Pairing(more).worked
    BY <2>5, <2>10, <2>11, CardIs
  <2>13. QED BY <2>2, <2>8, <2>12
<1>2. QED BY <1>1, DayTyped, PTL

\* A day left open is told of in the evening and the next morning, may be given its end in
\* the modal, and if it was orderly is then OK and paid for the time at work
\* (trigEveningCheck, trigMorningCard, renderCorrectionModal, aggregateDay).
THEOREM ForgottenEndIsMended == DaySpec => []ForgottenEndCanBeMended
<1>1. DayOK => ForgottenEndCanBeMended
  <2> SUFFICES ASSUME DayOK, StateOf(raw, 0) \in OpenStates
               PROVE  /\ EveningNotices(raw, 0, 0, <<>>).open = {0}
                      /\ MorningWarning(raw, 1, FALSE) = {0}
                      /\ Offers(raw, 0).addEnd
                      /\ Orderly(Line) => \A t \in LastAt..LastTick :
                           LET line == Timeline(Stamped("END", t), 0) IN
                           Summary(line, FALSE) = [status |-> "OK", worked |-> TimeAtWork(line)]
    BY DEF ForgottenEndCanBeMended
  <2>1. EveningNotices(raw, 0, 0, <<>>).open = {0}
    BY DEF EveningNotices
  <2>2. MorningWarning(raw, 1, FALSE) = {0}
    <3>1. 1 - 1 = 0
      OBVIOUS
    <3>2. QED BY <3>1 DEF MorningWarning
  <2>3. Offers(raw, 0).addEnd
    BY DEF Offers
  <2>4. ASSUME Orderly(Line), NEW t \in LastAt..LastTick
        PROVE  LET line == Timeline(Stamped("END", t), 0) IN
               Summary(line, FALSE) = [status |-> "OK", worked |-> TimeAtWork(line)]
    <3> DEFINE e == [row |-> Len(raw) + 1, type |-> "END", at |-> t]
               line == Timeline(Stamped("END", t), 0)
    <3>1. "END" \in StampTypes
      BY DEF StampTypes
    <3>2. /\ Line \in Seq(Stamp) /\ e \in Stamp
          /\ line = Append(Line, e)
          /\ line \in Seq(Stamp) /\ Ordered(line)
      BY <3>1, LineGrows
    <3>3. e.type = "END"
      OBVIOUS
    <3>4. Replay(Line) \in OpenStates
      BY DEF StateOf, Line
    <3>5. Allowed(Replay(Line), "END")
      BY <3>4 DEF OpenStates, Allowed, TransitionTable, States
    <3>6. Transition(Replay(Line), "END") = "CLOSED"
      BY <3>4, <3>5, Table DEF OpenStates
    <3> HIDE DEF e, line
    <3>7. Orderly(line) /\ Replay(line) = "CLOSED"
      BY <2>4, <3>2, <3>3, <3>5, <3>6, OrderlyGrows
    <3>8. Summary(line, FALSE).status = "OK"
      BY <3>2, <3>7, OKMeans DEF OpenStates
    <3>9. Summary(line, FALSE).worked = TimeAtWork(line)
      BY <3>2, <3>8, WorkedIs
    <3>10. Summary(line, FALSE) =
             [status |-> Summary(line, FALSE).status, worked |-> Summary(line, FALSE).worked]
      BY DEF Summary
    <3>11. QED BY <3>8, <3>9, <3>10 DEF line
  <2>5. QED BY <2>1, <2>2, <2>3, <2>4
<1>2. QED BY <1>1, DayTyped, PTL

-----------------------------------------------------------------------------
(* StampLog.  What a log says of a day (its timeline, replay and pairing)  *)
(* is taken from above.                                                    *)

\* The part of the type the proofs need: the requests and the rows they leave.
RecordOK ==
  /\ now \in Nat
  /\ sent \in [Keys -> Requests \cup {Unsent}]
  /\ log \in Seq(Rows(Keys))
  /\ answered \in [Keys -> BOOLEAN]

-----------------------------------------------------------------------------
(* What the actions do to the log.                                         *)

\* The day of a moment is an integer.
LEMMA DayOfType ==
  ASSUME NEW t \in Nat
  PROVE  DayOf(t) \in Int
BY DayLenAssumption DEF DayOf

\* An execution leaves the log alone or appends one row that carries its key.
LEMMA ExecuteAppends ==
  ASSUME RecordOK, NEW k \in Keys, Execute(k)
  PROVE  /\ UNCHANGED <<now, sent, closed>>
         /\ \/ log' = log
            \/ /\ ~HasRow(k)
               /\ \E row \in Rows(Keys) :
                    /\ row.key = k /\ log' = Append(log, row)
                    /\ row.type = "CORRECTION" =>
                         /\ k \in Fixes /\ sent[k].type = "CORRECTION"
                         /\ row.at = sent[k].at /\ row.day = sent[k].day
                         /\ row.of = sent[k].of /\ row.to = sent[k].to
                         /\ ~(closed /\ row.day \in Month)
                    /\ row.type # "CORRECTION" => k \in Stamps \/ sent[k].type = "END"
<1> DEFINE appends(row) ==
      /\ row.key = k /\ log' = Append(log, row)
      /\ row.type = "CORRECTION" =>
           /\ k \in Fixes /\ sent[k].type = "CORRECTION"
           /\ row.at = sent[k].at /\ row.day = sent[k].day
           /\ row.of = sent[k].of /\ row.to = sent[k].to
           /\ ~(closed /\ row.day \in Month)
      /\ row.type # "CORRECTION" => k \in Stamps \/ sent[k].type = "END"
<1>1. sent[k] \in Requests
  BY DEF Execute, RecordOK
<1>2. ASSUME Refuse(k) \/ Decline(k)
      PROVE  log' = log /\ UNCHANGED <<now, sent, closed>>
  BY <1>2 DEF Refuse, Decline, Leaves
<1>3. ASSUME NEW n \in 0..3, Repeat(k, n)
      PROVE  log' = log /\ UNCHANGED <<now, sent, closed>>
  BY <1>3 DEF Repeat
<1>4. ASSUME NEW n \in 0..3, Accept(k, n)
      PROVE  ~HasRow(k) /\ UNCHANGED <<now, sent, closed>> /\ \E row \in Rows(Keys) : appends(row)
  <2> DEFINE row == [key |-> k, day |-> BusinessDate(log, sent[k].at), type |-> sent[k].type,
                     at |-> sent[k].at, of |-> NoKey, to |-> 0]
  <2>1. /\ ~HasRow(k) /\ log' = Append(log, row) /\ UNCHANGED <<now, sent, closed>>
        /\ k \in Stamps
    BY <1>4 DEF Accept, AppendRow
  <2>2. sent[k].type \in StampTypes
    BY <1>4 DEF Accept, Allowed, TransitionTable, StampTypes
  <2>3. BusinessDate(log, sent[k].at) \in Int
    BY <1>1, DayOfType DEF BusinessDate, Requests
  <2>4. row \in Rows(Keys)
    BY <1>1, <2>2, <2>3 DEF Rows, Requests
  <2>5. row.type # "CORRECTION"
    BY <2>2 DEF StampTypes
  <2>6. QED BY <2>1, <2>4, <2>5
<1>5. ASSUME NEW n \in 0..3, AddEnd(k, n)
      PROVE  ~HasRow(k) /\ UNCHANGED <<now, sent, closed>> /\ \E row \in Rows(Keys) : appends(row)
  <2> DEFINE row == [key |-> k, day |-> sent[k].day, type |-> "END",
                     at |-> sent[k].to, of |-> NoKey, to |-> 0]
  <2>1. /\ ~HasRow(k) /\ log' = Append(log, row) /\ UNCHANGED <<now, sent, closed>>
        /\ sent[k].type = "END"
    BY <1>5 DEF AddEnd, AppendRow
  <2>2. row \in Rows(Keys)
    BY <1>1 DEF Rows, Requests, StampTypes
  <2>3. QED BY <2>1, <2>2
<1>6. ASSUME NEW n \in 0..3, Correct(k, n)
      PROVE  ~HasRow(k) /\ UNCHANGED <<now, sent, closed>> /\ \E row \in Rows(Keys) : appends(row)
  <2> DEFINE row == [key |-> k, day |-> sent[k].day, type |-> "CORRECTION",
                     at |-> sent[k].at, of |-> sent[k].of, to |-> sent[k].to]
  <2>1. /\ ~HasRow(k) /\ log' = Append(log, row) /\ UNCHANGED <<now, sent, closed>>
        /\ k \in Fixes /\ sent[k].type = "CORRECTION" /\ ~(closed /\ sent[k].day \in Month)
    BY <1>6 DEF Correct, AppendRow
  <2>2. row \in Rows(Keys)
    BY <1>1 DEF Rows, Requests
  <2>3. QED BY <2>1, <2>2
<1> HIDE DEF appends
<1>7. /\ UNCHANGED <<now, sent, closed>>
      /\ log' = log \/ (~HasRow(k) /\ \E row \in Rows(Keys) : appends(row))
  BY <1>2, <1>3, <1>4, <1>5, <1>6 DEF Execute
<1>8. QED BY <1>7 DEF appends

\* The same for a step: the log grows by at most one row, appended by an execution.
LEMMA StepAppends ==
  ASSUME RecordOK, [Next]_vars
  PROVE  \/ log' = log
         \/ \E k \in Keys : Execute(k)
<1>1. CASE UNCHANGED vars
  BY <1>1 DEF vars
<1>2. CASE Tick \/ RecomputeMonth \/ Reevaluate \/ Close
  BY <1>2 DEF Tick, RecomputeMonth, Reevaluate, Close
<1>3. ASSUME NEW k \in Stamps, NEW type \in StampTypes, Press(k, type)
      PROVE  log' = log
  BY <1>3 DEF Press
<1>4. ASSUME NEW k \in Fixes, NEW t \in Times, NEW i \in DOMAIN log, SubmitFix(k, i, t)
      PROVE  log' = log
  BY <1>4 DEF SubmitFix
<1>5. ASSUME NEW k \in Fixes, NEW t \in Times, NEW d \in Days, SubmitEnd(k, d, t)
      PROVE  log' = log
  BY <1>5 DEF SubmitEnd
<1>6. QED BY <1>1, <1>2, <1>3, <1>4, <1>5 DEF Next

-----------------------------------------------------------------------------
(* The record keeps its type.                                              *)

\* Initially nothing has been asked or recorded.
LEMMA RecordInit == Init => RecordOK
<1>1. <<>> \in Seq(Rows(Keys))
  BY EmptySeq
<1>2. QED BY <1>1 DEF Init, RecordOK

\* A request made of typed parts is a request.
LEMMA SentType ==
  ASSUME RecordOK, NEW k \in Keys, NEW r \in Requests, sent' = [sent EXCEPT ![k] = r]
  PROVE  sent' \in [Keys -> Requests \cup {Unsent}]
BY DEF RecordOK

\* Every step keeps the types of requests and rows.
LEMMA RecordStep ==
  ASSUME RecordOK, [Next]_vars
  PROVE  RecordOK'
<1>1. CASE UNCHANGED vars
  BY <1>1 DEF vars, RecordOK
<1>2. CASE Tick \/ RecomputeMonth \/ Reevaluate \/ Close
  <2>1. UNCHANGED <<sent, log, answered>> /\ (now' = now \/ now' = now + 1)
    BY <1>2, Zenon DEF Tick, RecomputeMonth, Reevaluate, Close
  <2>2. QED BY <2>1 DEF RecordOK
<1>3. ASSUME NEW k \in Stamps, NEW type \in StampTypes, Press(k, type)
      PROVE  RecordOK'
  <2> DEFINE r == [type |-> type, at |-> now, day |-> DayOf(now), of |-> NoKey, to |-> 0]
  <2>1. r \in Requests
    BY DayOfType DEF Requests, RecordOK
  <2>2. sent' = [sent EXCEPT ![k] = r] /\ k \in Keys /\ UNCHANGED <<now, log, answered>>
    BY <1>3 DEF Press, Keys
  <2> HIDE DEF r
  <2>3. QED BY <2>1, <2>2, SentType DEF RecordOK
<1>4. ASSUME NEW k \in Fixes, NEW t \in Times, NEW i \in DOMAIN log, SubmitFix(k, i, t)
      PROVE  RecordOK'
  <2> DEFINE r == [type |-> "CORRECTION", at |-> now, day |-> log[i].day,
                   of |-> log[i].key, to |-> t]
  <2>1. log[i] \in Rows(Keys) /\ t \in Nat
    BY ElementOfSeq DEF RecordOK, Times
  <2>2. r \in Requests
    BY <2>1 DEF Requests, Rows, RecordOK
  <2>3. sent' = [sent EXCEPT ![k] = r] /\ k \in Keys /\ UNCHANGED <<now, log, answered>>
    BY <1>4 DEF SubmitFix, Keys
  <2> HIDE DEF r
  <2>4. QED BY <2>2, <2>3, SentType DEF RecordOK
<1>5. ASSUME NEW k \in Fixes, NEW t \in Times, NEW d \in Days, SubmitEnd(k, d, t)
      PROVE  RecordOK'
  <2> DEFINE r == [type |-> "END", at |-> now, day |-> d, of |-> NoKey, to |-> t]
  <2>1. r \in Requests
    BY StampLogAssumption, DayOfType DEF Requests, Days, Times, StampTypes, RecordOK
  <2>2. sent' = [sent EXCEPT ![k] = r] /\ k \in Keys /\ UNCHANGED <<now, log, answered>>
    BY <1>5 DEF SubmitEnd, Keys
  <2> HIDE DEF r
  <2>3. QED BY <2>1, <2>2, SentType DEF RecordOK
<1>6. ASSUME NEW k \in Keys, Execute(k)
      PROVE  RecordOK'
  <2>1. UNCHANGED <<now, sent>> /\ (log' = log \/ \E row \in Rows(Keys) : log' = Append(log, row))
    BY <1>6, ExecuteAppends
  <2>2. log' \in Seq(Rows(Keys))
    BY <2>1, AppendProperties DEF RecordOK
  <2>3. answered' \in [Keys -> BOOLEAN]
    <3>1. \E b \in BOOLEAN : answered' = [answered EXCEPT ![k] = b]
      <4>1. \A n \in 0..3 : Ends(k, n) => answered' = [answered EXCEPT ![k] = @ \/ n = 3]
        BY DEF Ends
      <4>2. Leaves(k) => answered' = [answered EXCEPT ![k] = TRUE]
        BY DEF Leaves
      <4>3. Leaves(k) \/ \E n \in 0..3 : Ends(k, n)
        BY <1>6 DEF Execute, Refuse, Decline, Repeat, Accept, AddEnd, Correct
      <4>4. \A n \in 0..3 : (answered[k] \/ n = 3) \in BOOLEAN
        OBVIOUS
      <4>5. QED BY <4>1, <4>2, <4>3, <4>4
    <3>2. QED BY <3>1, Zenon DEF RecordOK
  <2>4. QED BY <2>1, <2>2, <2>3 DEF RecordOK
<1>7. QED BY <1>1, <1>2, <1>3, <1>4, <1>5, <1>6 DEF Next

\* The record of requests and rows is well typed.
LEMMA RecordTyped == Spec => []RecordOK
BY RecordInit, RecordStep, PTL DEF Spec

-----------------------------------------------------------------------------
(* The bill and the times of a closed month.                               *)

\* The writes of an execution do not touch the bill of a closed month.
LEMMA WritesKeepBill ==
  ASSUME NEW L, NEW d, NEW n, NEW note, closed, Writes(L, d, n, note)
  PROVE  billed' = billed
BY DEF Writes, BillAfter

\* No step reopens a closed month or changes its bill.
LEMMA ClosedBillStep ==
  ASSUME Next, closed
  PROVE  closed' = closed /\ billed' = billed
<1>1. CASE Tick \/ RecomputeMonth \/ Reevaluate \/ Close
  BY <1>1 DEF Tick, RecomputeMonth, Reevaluate, Close, BillAfter
<1>2. ASSUME NEW k \in Stamps, NEW type \in StampTypes, Press(k, type)
      PROVE  closed' = closed /\ billed' = billed
  BY <1>2 DEF Press
<1>3. ASSUME NEW k \in Fixes, NEW t \in Times, NEW i \in DOMAIN log, SubmitFix(k, i, t)
      PROVE  closed' = closed /\ billed' = billed
  BY <1>3 DEF SubmitFix
<1>4. ASSUME NEW k \in Fixes, NEW t \in Times, NEW d \in Days, SubmitEnd(k, d, t)
      PROVE  closed' = closed /\ billed' = billed
  BY <1>4 DEF SubmitEnd
<1>5. ASSUME NEW k \in Keys, Execute(k)
      PROVE  closed' = closed /\ billed' = billed
  <2>1. CASE Refuse(k) \/ Decline(k)
    BY <2>1 DEF Refuse, Decline, Leaves
  <2>2. ASSUME NEW n \in 0..3, Repeat(k, n) \/ Accept(k, n) \/ AddEnd(k, n) \/ Correct(k, n)
        PROVE  closed' = closed /\ billed' = billed
    <3>1. closed' = closed
      BY <2>2 DEF Repeat, Accept, AddEnd, Correct
    <3>2. CASE Repeat(k, n)
      BY <3>1, <3>2, WritesKeepBill DEF Repeat
    <3>3. CASE Accept(k, n)
      BY <3>1, <3>3, WritesKeepBill DEF Accept
    <3>4. CASE AddEnd(k, n)
      BY <3>1, <3>4, WritesKeepBill DEF AddEnd
    <3>5. CASE Correct(k, n)
      BY <3>1, <3>5, WritesKeepBill DEF Correct
    <3>6. QED BY <2>2, <3>2, <3>3, <3>4, <3>5
  <2>3. QED BY <1>5, <2>1, <2>2 DEF Execute
<1>6. QED BY <1>1, <1>2, <1>3, <1>4, <1>5 DEF Next

\* Whatever stamp, correction, resend or recomputation comes after the close, the bill
\* of the month stays what it was (isMonthFrozen in recomputeMonthly).
THEOREM ClosedBillStays == Spec => ClosedBillIsFinal
<1>1. ASSUME [Next]_vars
      PROVE  [closed => closed' /\ billed' = billed]_vars
  BY <1>1, ClosedBillStep DEF vars
<1>2. QED BY <1>1, PTL DEF Spec, ClosedBillIsFinal

\* No step moves a time of a closed month.
LEMMA ClosedTimesStep ==
  ASSUME RecordOK, [Next]_vars, closed, NEW i \in DOMAIN log, log[i].day \in Month
  PROVE  EffectiveAt(log', i) = EffectiveAt(log, i)
<1>1. CASE log' = log
  BY <1>1
<1>2. ASSUME NEW k \in Keys, Execute(k), log' # log
      PROVE  EffectiveAt(log', i) = EffectiveAt(log, i)
  <2>1. PICK row \in Rows(Keys) :
          log' = Append(log, row) /\ (row.type = "CORRECTION" => row.day \notin Month)
    BY <1>2, ExecuteAppends
  <2>2. row.type = "CORRECTION" => row.day # log[i].day
    BY <2>1
  <2>3. EffectiveAt(Append(log, row), i) = EffectiveAt(log, i)
    BY <2>2, EffectiveAtKept DEF RecordOK
  <2>4. QED BY <2>1, <2>3
<1>3. QED BY <1>1, <1>2, StepAppends

\* No correction executed after the close moves a time the closed bill was computed
\* from, whenever it was submitted (the LOCKED_MONTH check of handleCorrectionSubmit).
THEOREM ClosedTimesStay == Spec => ClosedTimesAreFinal
<1>1. ASSUME RecordOK, [Next]_vars
      PROVE  [closed => \A i \in DOMAIN log :
                log[i].day \in Month => EffectiveAt(log', i) = EffectiveAt(log, i)]_vars
  BY <1>1, ClosedTimesStep
<1>2. QED BY <1>1, RecordTyped, PTL DEF Spec, ClosedTimesAreFinal

-----------------------------------------------------------------------------
(* The correction in force.                                                *)

\* A row comes from the request its key names.
RowsComeFromRequests ==
  \A c \in DOMAIN log : LET k == log[c].key IN
    IF log[c].type = "CORRECTION"
    THEN /\ k \in Fixes /\ sent[k] # Unsent /\ sent[k].type = "CORRECTION"
         /\ log[c].at = sent[k].at /\ log[c].day = sent[k].day
         /\ log[c].of = sent[k].of /\ log[c].to = sent[k].to
    ELSE k \in Stamps \/ (sent[k] # Unsent /\ sent[k].type = "END")

\* A correction was submitted for a stamp of the log, on that stamp's day.
FixesAimAtRows ==
  \A k \in Fixes : sent[k] # Unsent /\ sent[k].type = "CORRECTION" =>
    \E i \in DOMAIN log : log[i].key = sent[k].of /\ log[i].day = sent[k].day

\* No two rows carry the same key.
OneRowPerKey == \A i, j \in DOMAIN log : log[i].key = log[j].key => i = j

FixInv == RecordOK /\ RowsComeFromRequests /\ FixesAimAtRows /\ OneRowPerKey

\* The key and the time of a row.
LEMMA RowType ==
  ASSUME RecordOK, NEW c \in DOMAIN log
  PROVE  log[c].key \in Keys /\ log[c].at \in Nat
<1>1. log[c] \in Rows(Keys)
  BY ElementOfSeq DEF RecordOK
<1>2. QED BY <1>1 DEF Rows

\* A row stays where it was appended.
LEMMA LogGrows ==
  ASSUME RecordOK, NEW row \in Rows(Keys), log' = Append(log, row)
  PROVE  /\ Len(log) \in Nat /\ DOMAIN log = 1..Len(log) /\ DOMAIN log' = 1..(Len(log) + 1)
         /\ \A i \in DOMAIN log : i \in DOMAIN log' /\ log'[i] = log[i]
         /\ log'[Len(log) + 1] = row
         /\ \A i \in DOMAIN log' : i \in DOMAIN log \/ i = Len(log) + 1
<1>1. /\ log' \in Seq(Rows(Keys)) /\ Len(log') = Len(log) + 1 /\ log'[Len(log) + 1] = row
      /\ \A i \in 1..Len(log) : log'[i] = log[i]
  BY AppendProperties DEF RecordOK
<1>2. /\ Len(log) \in Nat /\ DOMAIN log = 1..Len(log) /\ DOMAIN log' = 1..Len(log')
  BY <1>1, LenProperties DEF RecordOK
<1>3. QED BY <1>1, <1>2

\* A step other than an execution makes at most one request, which had not been made.
LEMMA OtherSteps ==
  ASSUME RecordOK, [Next]_vars
  PROVE  \/ \E k \in Keys : Execute(k)
         \/ log' = log /\ sent' = sent
         \/ /\ log' = log
            /\ \E k \in Keys : \E r \in Requests :
                 /\ sent[k] = Unsent /\ sent' = [sent EXCEPT ![k] = r]
                 /\ k \in Fixes /\ r.type = "CORRECTION" =>
                      \E i \in DOMAIN log : log[i].key = r.of /\ log[i].day = r.day
<1> DEFINE asks(k, r) ==
      /\ sent[k] = Unsent /\ sent' = [sent EXCEPT ![k] = r]
      /\ k \in Fixes /\ r.type = "CORRECTION" =>
           \E i \in DOMAIN log : log[i].key = r.of /\ log[i].day = r.day
<1>1. ASSUME UNCHANGED vars
      PROVE  log' = log /\ sent' = sent
  BY <1>1 DEF vars
<1>2. ASSUME Tick \/ RecomputeMonth \/ Reevaluate \/ Close
      PROVE  log' = log /\ sent' = sent
  BY <1>2 DEF Tick, RecomputeMonth, Reevaluate, Close
<1>3. ASSUME NEW k \in Stamps, NEW type \in StampTypes, Press(k, type)
      PROVE  log' = log /\ \E j \in Keys : \E r \in Requests : asks(j, r)
  <2> DEFINE r == [type |-> type, at |-> now, day |-> DayOf(now), of |-> NoKey, to |-> 0]
  <2>1. r \in Requests
    BY DayOfType DEF Requests, RecordOK
  <2>2. asks(k, r) /\ k \in Keys /\ log' = log
    BY <1>3, StampLogAssumption DEF Press, Keys
  <2> HIDE DEF r, asks
  <2>3. QED BY <2>1, <2>2
<1>4. ASSUME NEW k \in Fixes, NEW t \in Times, NEW i \in DOMAIN log, SubmitFix(k, i, t)
      PROVE  log' = log /\ \E j \in Keys : \E r \in Requests : asks(j, r)
  <2> DEFINE r == [type |-> "CORRECTION", at |-> now, day |-> log[i].day,
                   of |-> log[i].key, to |-> t]
  <2>1. log[i] \in Rows(Keys) /\ t \in Nat
    BY ElementOfSeq DEF RecordOK, Times
  <2>2. r \in Requests
    BY <2>1 DEF Requests, Rows, RecordOK
  <2>3. asks(k, r) /\ k \in Keys /\ log' = log
    BY <1>4 DEF SubmitFix, Keys
  <2> HIDE DEF r, asks
  <2>4. QED BY <2>2, <2>3
<1>5. ASSUME NEW k \in Fixes, NEW t \in Times, NEW d \in Days, SubmitEnd(k, d, t)
      PROVE  log' = log /\ \E j \in Keys : \E r \in Requests : asks(j, r)
  <2> DEFINE r == [type |-> "END", at |-> now, day |-> d, of |-> NoKey, to |-> t]
  <2>1. r \in Requests
    BY StampLogAssumption, DayOfType DEF Requests, Days, Times, StampTypes, RecordOK
  <2>2. asks(k, r) /\ k \in Keys /\ log' = log
    BY <1>5 DEF SubmitEnd, Keys
  <2> HIDE DEF r, asks
  <2>3. QED BY <2>1, <2>2
<1> HIDE DEF asks
<1>6. \/ \E k \in Keys : Execute(k)
      \/ log' = log /\ sent' = sent
      \/ log' = log /\ \E k \in Keys : \E r \in Requests : asks(k, r)
  <2>1. CASE Next
    BY <1>2, <1>3, <1>4, <1>5, <2>1 DEF Next
  <2>2. QED BY <1>1, <2>1
<1>7. QED BY <1>6 DEF asks

\* An empty log has no correction.
LEMMA FixInvInit == Init => FixInv
<1> SUFFICES ASSUME Init PROVE FixInv
  OBVIOUS
<1>1. DOMAIN log = {} /\ \A k \in Keys : sent[k] = Unsent
  BY DEF Init
<1>2. Fixes \subseteq Keys
  BY DEF Keys
<1>3. QED BY <1>1, <1>2, RecordInit, Zenon
       DEF FixInv, RowsComeFromRequests, FixesAimAtRows, OneRowPerKey

\* A new row names its request, and a request aims at a row that stays.
LEMMA FixInvStep ==
  ASSUME FixInv, [Next]_vars
  PROVE  FixInv'
<1> USE DEF FixInv
<1>1. RecordOK'
  BY RecordStep
<1>2. CASE log' = log /\ sent' = sent
  BY <1>1, <1>2 DEF RowsComeFromRequests, FixesAimAtRows, OneRowPerKey
<1>3. ASSUME log' = log,
             NEW k \in Keys, NEW r \in Requests, sent[k] = Unsent,
             sent' = [sent EXCEPT ![k] = r],
             k \in Fixes /\ r.type = "CORRECTION" =>
               \E i \in DOMAIN log : log[i].key = r.of /\ log[i].day = r.day
      PROVE  FixInv'
  <2>1. /\ sent'[k] = r /\ \A j \in Keys \ {k} : sent'[j] = sent[j]
    BY <1>3 DEF RecordOK
  <2>2. RowsComeFromRequests'
    <3>1. \A c \in DOMAIN log : log[c].key \in Keys
      BY RowType
    <3>2. \A c \in DOMAIN log : log[c].key = k => log[c].type # "CORRECTION" /\ k \in Stamps
      BY <1>3 DEF RowsComeFromRequests
    <3>3. QED BY <1>3, <2>1, <3>1, <3>2 DEF RowsComeFromRequests
  <2>3. FixesAimAtRows'
    BY <1>3, <2>1 DEF FixesAimAtRows, Keys
  <2>4. QED BY <1>1, <1>3, <2>2, <2>3 DEF OneRowPerKey
<1>4. ASSUME NEW k \in Keys, Execute(k)
      PROVE  FixInv'
  <2>1. sent' = sent
    BY <1>4, ExecuteAppends
  <2>2. CASE log' = log
    BY <1>2, <2>1, <2>2
  <2>3. ASSUME ~HasRow(k), NEW row \in Rows(Keys), row.key = k, log' = Append(log, row),
               row.type = "CORRECTION" =>
                 /\ k \in Fixes /\ sent[k].type = "CORRECTION"
                 /\ row.at = sent[k].at /\ row.day = sent[k].day
                 /\ row.of = sent[k].of /\ row.to = sent[k].to,
               row.type # "CORRECTION" => k \in Stamps \/ sent[k].type = "END"
        PROVE  FixInv'
    <3>1. /\ Len(log) \in Nat /\ DOMAIN log = 1..Len(log) /\ DOMAIN log' = 1..(Len(log) + 1)
          /\ \A i \in DOMAIN log : i \in DOMAIN log' /\ log'[i] = log[i]
          /\ log'[Len(log) + 1] = row
          /\ \A i \in DOMAIN log' : i \in DOMAIN log \/ i = Len(log) + 1
      BY <2>3, LogGrows
    <3>2. sent[k] # Unsent
      BY <1>4 DEF Execute
    <3>3. \A i \in DOMAIN log : log[i].key # k
      BY <2>3 DEF HasRow
    <3>4. RowsComeFromRequests'
      BY <2>1, <2>3, <3>1, <3>2 DEF RowsComeFromRequests
    <3>5. FixesAimAtRows'
      BY <2>1, <3>1 DEF FixesAimAtRows
    <3>6. OneRowPerKey'
      BY <2>3, <3>1, <3>3 DEF OneRowPerKey
    <3>7. QED BY <1>1, <3>4, <3>5, <3>6
  <2>4. QED BY <1>4, <2>2, <2>3, ExecuteAppends
<1>5. QED BY <1>2, <1>3, <1>4, OtherSteps

\* The invariant settles which correction is in force: the corrections of a row are the
\* rows of the requests that aim at it, and the latest of them is the latest request.
LEMMA FixInvImplies == FixInv => LatestFixWins
<1> SUFFICES ASSUME FixInv, NEW i \in DOMAIN log, log[i].type # "CORRECTION",
                    NEW F, F = {k \in Fixes : /\ HasRow(k) /\ sent[k].type = "CORRECTION"
                                              /\ sent[k].of = log[i].key},
                    F # {}
             PROVE  \E k \in F : /\ EffectiveAt(log, i) = sent[k].to
                                 /\ \A j \in F : sent[j].at <= sent[k].at
  BY DEF LatestFixWins
<1> DEFINE C == Corrections(log, i)
           x == LatestCorrection(log, C)
<1>1. log \in Seq(Rows(Keys)) /\ DOMAIN log = 1..Len(log)
  BY LenProperties DEF FixInv, RecordOK
<1>2. ASSUME NEW k \in F
      PROVE  \E c \in C : log[c].key = k /\ log[c].at = sent[k].at
  <2>1. PICK c \in DOMAIN log : log[c].key = k
    BY <1>2 DEF HasRow
  <2>2. k \in Fixes /\ sent[k].type = "CORRECTION" /\ sent[k].of = log[i].key
    BY <1>2
  <2>3. log[c].type = "CORRECTION"
    BY <2>1, <2>2, StampLogAssumption DEF FixInv, RowsComeFromRequests
  <2>4. sent[k] # Unsent /\ log[c].day = sent[k].day /\ log[c].of = sent[k].of /\ log[c].at = sent[k].at
    BY <2>1, <2>3 DEF FixInv, RowsComeFromRequests
  <2>5. PICK o \in DOMAIN log : log[o].key = sent[k].of /\ log[o].day = sent[k].day
    BY <2>2, <2>4 DEF FixInv, FixesAimAtRows
  <2>6. o = i
    BY <2>2, <2>5 DEF FixInv, OneRowPerKey
  <2>7. c \in C
    BY <2>2, <2>3, <2>4, <2>5, <2>6 DEF Corrections
  <2>8. QED BY <2>1, <2>4, <2>7
<1>3. ASSUME NEW c \in C
      PROVE  /\ log[c].key \in F /\ log[c].to = sent[log[c].key].to
             /\ log[c].at = sent[log[c].key].at /\ log[c].at \in Nat
  <2>1. c \in DOMAIN log /\ log[c].type = "CORRECTION" /\ log[c].of = log[i].key
    BY DEF Corrections
  <2>2. /\ log[c].key \in Fixes /\ sent[log[c].key].type = "CORRECTION"
        /\ log[c].at = sent[log[c].key].at /\ log[c].of = sent[log[c].key].of
        /\ log[c].to = sent[log[c].key].to
    BY <2>1 DEF FixInv, RowsComeFromRequests
  <2>3. log[c].at \in Nat
    BY <2>1, RowType DEF FixInv
  <2>4. QED BY <2>1, <2>2, <2>3 DEF HasRow
<1>4. C \in SUBSET (1..Len(log)) /\ C # {}
  <2>1. C \in SUBSET (1..Len(log))
    BY <1>1 DEF Corrections
  <2> HIDE DEF C
  <2>2. QED BY <1>2, <2>1
<1>5. EffectiveAt(log, i) = log[x].to
  BY <1>4 DEF EffectiveAt
<1> HIDE DEF C
<1>6. x \in C /\ \A o \in C : log[o].at < log[x].at \/ (log[o].at = log[x].at /\ o <= x)
  BY <1>1, <1>4, LatestExists
<1> HIDE DEF x
<1>7. \A o \in C : log[o].at <= log[x].at
  BY <1>3, <1>6
<1>8. \A j \in F : sent[j].at <= sent[log[x].key].at
  BY <1>2, <1>3, <1>6, <1>7
<1>9. QED BY <1>3, <1>5, <1>6, <1>8

\* Of the corrections of one stamp the one submitted last is in force, in whatever order
\* they reached GAS and however often (applyCorrections sorts by the submission).
THEOREM LatestFixIsInForce == Spec => []LatestFixWins
<1>1. Spec => []FixInv
  BY FixInvInit, FixInvStep, PTL DEF Spec
<1>2. QED BY <1>1, FixInvImplies, PTL

-----------------------------------------------------------------------------
(* An END over midnight.                                                   *)

\* A day in progress can be ended.
LEMMA OpenMayEnd ==
  ASSUME NEW state \in OpenStates
  PROVE  Allowed(state, "END")
BY DEF OpenStates, Allowed, TransitionTable, States

\* An END is refused for the day before only if that day is not open, and then for its
\* own date only if that is not open either.
LEMMA RefusedEnd ==
  ASSUME NEW k \in Stamps, Refuse(k), sent[k].type = "END"
  PROVE  /\ StateOf(log, DayOf(sent[k].at)) \notin OpenStates
         /\ StateOf(log, DayOf(sent[k].at) - 1) \notin OpenStates
<1>1. StateOf(log, BusinessDate(log, sent[k].at)) \notin OpenStates
  BY OpenMayEnd DEF Refuse
<1>2. CASE StateOf(log, DayOf(sent[k].at) - 1) \in OpenStates
  BY <1>1, <1>2 DEF BusinessDate
<1>3. CASE StateOf(log, DayOf(sent[k].at) - 1) \notin OpenStates
  BY <1>1, <1>3 DEF BusinessDate
<1>4. QED BY <1>2, <1>3

\* Only an execution of k answers k.
LEMMA AnsweredBy ==
  ASSUME RecordOK, [Next]_vars, NEW k \in Keys, ~answered[k], answered'[k]
  PROVE  Execute(k)
<1>1. CASE answered' = answered
  BY <1>1
<1>2. ASSUME NEW j \in Keys, Execute(j)
      PROVE  Execute(k)
  <2>1. CASE Leaves(j)
    BY <1>2, <2>1, Zenon DEF Leaves, RecordOK
  <2>2. ASSUME NEW n \in 0..3, Ends(j, n)
        PROVE  Execute(k)
    BY <1>2, <2>2, Zenon DEF Ends, RecordOK
  <2>3. Leaves(j) \/ \E n \in 0..3 : Ends(j, n)
    BY <1>2 DEF Execute, Refuse, Decline, Repeat, Accept, AddEnd, Correct
  <2>4. QED BY <2>1, <2>2, <2>3
<1>3. answered' = answered \/ \E j \in Keys : Execute(j)
  <2>1. UNCHANGED vars => answered' = answered
    BY DEF vars
  <2>2. Tick \/ RecomputeMonth \/ Reevaluate \/ Close => answered' = answered
    BY DEF Tick, RecomputeMonth, Reevaluate, Close
  <2>3. \A j \in Stamps, type \in StampTypes : Press(j, type) => answered' = answered
    BY DEF Press
  <2>4. \A j \in Fixes, t \in Times : /\ \A i \in DOMAIN log : SubmitFix(j, i, t) => answered' = answered
                                      /\ \A d \in Days : SubmitEnd(j, d, t) => answered' = answered
    BY DEF SubmitFix, SubmitEnd
  <2>5. QED BY <2>1, <2>2, <2>3, <2>4 DEF Next
<1>4. QED BY <1>1, <1>2, <1>3

\* An END that is answered without a row was refused.
LEMMA EndFindsStep ==
  ASSUME RecordOK, [Next]_vars, NEW k \in Stamps,
         sent[k].type = "END", ~answered[k], answered'[k], log' = log, ~HasRow(k)
  PROVE  /\ StateOf(log, DayOf(sent[k].at)) \notin OpenStates
         /\ StateOf(log, DayOf(sent[k].at) - 1) \notin OpenStates
<1>1. k \in Keys /\ k \notin Fixes
  BY StampLogAssumption DEF Keys
<1>2. Execute(k)
  BY <1>1, AnsweredBy
<1>3. ASSUME NEW n \in 0..3, Accept(k, n)
      PROVE  FALSE
  <2>1. PICK d, type : log' = Append(log, [key |-> k, day |-> d, type |-> type,
                                           at |-> sent[k].at, of |-> NoKey, to |-> 0])
    BY <1>3 DEF Accept, AppendRow
  <2>2. Len(log') = Len(log) + 1 /\ Len(log) \in Nat
    BY <2>1 DEF RecordOK
  <2>3. QED BY <2>2
<1>4. Refuse(k)
  BY <1>1, <1>2, <1>3 DEF Execute, Decline, Repeat, AddEnd, Correct
<1>5. QED BY <1>4, RefusedEnd

\* An END is refused only when neither its date nor the day before has a session to end:
\* midnight takes nothing away from a night shift (resolveBusinessDate).
THEOREM EndIsNotLost == Spec => EndFindsItsSession
<1>1. ASSUME RecordOK, [Next]_vars
      PROVE  [\A k \in Stamps :
                /\ sent[k] # Unsent /\ sent[k].type = "END"
                /\ ~answered[k] /\ answered'[k] /\ log' = log /\ ~HasRow(k)
                => /\ StateOf(log, DayOf(sent[k].at)) \notin OpenStates
                   /\ StateOf(log, DayOf(sent[k].at) - 1) \notin OpenStates]_vars
  BY <1>1, EndFindsStep
<1>2. QED BY <1>1, RecordTyped, PTL DEF Spec, EndFindsItsSession

-----------------------------------------------------------------------------
(* The daily sheet follows the log.                                        *)

DailyOK == daily = [d \in Days |-> daily[d]]
DailyInv == DailyOK /\ DailyFollowsLog

\* What an execution that leaves a row does to the daily sheet and to what is owed: n
\* writes follow, of which the first is the day's row.
LEMMA WritesDaily ==
  ASSUME DailyOK, NEW L, NEW e, NEW n \in 0..3, NEW note, Writes(L, e, n, note)
  PROVE  /\ DailyOK'
         /\ \A d \in Days : d # e => daily'[d] = daily[d]
         /\ n = 0 => daily' = daily
         /\ n # 0 => \A d \in Days : d = e =>
              daily'[d] = Summary(Timeline(L, d), d = DayOf(now))
<1>1. CASE n = 0
  BY <1>1 DEF Writes, DailyOK
<1>2. CASE n # 0
  <2>1. daily' = [daily EXCEPT ![e] = Summary(Timeline(L, e), e = DayOf(now))]
    BY <1>2 DEF Writes, DailyAfter
  <2>2. QED BY <1>2, <2>1, Zenon DEF DailyOK
<1>3. QED BY <1>1, <1>2

\* What an execution does to the sheets: nothing; it recomputes the day of the row of its
\* key; or it appends that row and recomputes its day.
LEMMA ExecuteWrites ==
  ASSUME RecordOK, NEW k \in Keys, Execute(k)
  PROVE  /\ closed' = closed /\ now' = now
         /\ \/ UNCHANGED <<log, daily, billed, owed>>
            \/ \E n \in 0..3 : Repeat(k, n)
            \/ ~HasRow(k) /\ \E row \in Rows(Keys), n \in 0..3 : \E note :
                 /\ row.key = k /\ log' = Append(log, row)
                 /\ Writes(log', row.day, n, note) /\ Ends(k, n)
<1> DEFINE appends(row, n, note) ==
      /\ row.key = k /\ log' = Append(log, row)
      /\ Writes(log', row.day, n, note) /\ Ends(k, n)
<1>1. sent[k] \in Requests
  BY DEF Execute, RecordOK
<1>2. ASSUME Refuse(k) \/ Decline(k)
      PROVE  closed' = closed /\ now' = now /\ UNCHANGED <<log, daily, billed, owed>>
  BY <1>2 DEF Refuse, Decline, Leaves
<1>3. ASSUME NEW n \in 0..3, Repeat(k, n)
      PROVE  closed' = closed /\ now' = now
  BY <1>3 DEF Repeat
<1>4. ASSUME NEW n \in 0..3, Accept(k, n)
      PROVE  /\ ~HasRow(k) /\ closed' = closed /\ now' = now
             /\ \E row \in Rows(Keys) : appends(row, n, {k})
  <2> DEFINE row == [key |-> k, day |-> BusinessDate(log, sent[k].at), type |-> sent[k].type,
                     at |-> sent[k].at, of |-> NoKey, to |-> 0]
  <2>1. /\ ~HasRow(k) /\ log' = Append(log, row) /\ Writes(log', row.day, n, {k}) /\ Ends(k, n)
        /\ closed' = closed /\ now' = now
    BY <1>4 DEF Accept, AppendRow
  <2>2. sent[k].type \in StampTypes
    BY <1>4 DEF Accept, Allowed, TransitionTable, StampTypes
  <2>3. BusinessDate(log, sent[k].at) \in Int
    BY <1>1, DayOfType DEF BusinessDate, Requests
  <2>4. row \in Rows(Keys) /\ row.key = k
    BY <1>1, <2>2, <2>3 DEF Rows, Requests
  <2> HIDE DEF row
  <2>5. QED BY <2>1, <2>4
<1>5. ASSUME NEW n \in 0..3, AddEnd(k, n)
      PROVE  /\ ~HasRow(k) /\ closed' = closed /\ now' = now
             /\ \E row \in Rows(Keys) : appends(row, n, {})
  <2> DEFINE row == [key |-> k, day |-> sent[k].day, type |-> "END",
                     at |-> sent[k].to, of |-> NoKey, to |-> 0]
  <2>1. /\ ~HasRow(k) /\ log' = Append(log, row) /\ Writes(log', row.day, n, {}) /\ Ends(k, n)
        /\ closed' = closed /\ now' = now
    BY <1>5 DEF AddEnd, AppendRow
  <2>2. row \in Rows(Keys) /\ row.key = k
    BY <1>1 DEF Rows, Requests, StampTypes
  <2> HIDE DEF row
  <2>3. QED BY <2>1, <2>2
<1>6. ASSUME NEW n \in 0..3, Correct(k, n)
      PROVE  /\ ~HasRow(k) /\ closed' = closed /\ now' = now
             /\ \E row \in Rows(Keys) : appends(row, n, {})
  <2> DEFINE row == [key |-> k, day |-> sent[k].day, type |-> "CORRECTION",
                     at |-> sent[k].at, of |-> sent[k].of, to |-> sent[k].to]
  <2>1. /\ ~HasRow(k) /\ log' = Append(log, row) /\ Writes(log', row.day, n, {}) /\ Ends(k, n)
        /\ closed' = closed /\ now' = now
    BY <1>6 DEF Correct, AppendRow
  <2>2. row \in Rows(Keys) /\ row.key = k
    BY <1>1 DEF Rows, Requests
  <2> HIDE DEF row
  <2>3. QED BY <2>1, <2>2
<1> HIDE DEF appends
<1>7. /\ closed' = closed /\ now' = now
      /\ \/ UNCHANGED <<log, daily, billed, owed>>
         \/ \E n \in 0..3 : Repeat(k, n)
         \/ ~HasRow(k) /\ \E row \in Rows(Keys), n \in 0..3 : \E note : appends(row, n, note)
  <2>1. ASSUME NEW n \in 0..3, Accept(k, n) \/ AddEnd(k, n) \/ Correct(k, n)
        PROVE  /\ ~HasRow(k) /\ closed' = closed /\ now' = now
               /\ \E row \in Rows(Keys), m \in 0..3 : \E note : appends(row, m, note)
    BY <1>4, <1>5, <1>6, <2>1
  <2>2. Refuse(k) \/ Decline(k) \/ (\E n \in 0..3 : Repeat(k, n))
          \/ \E n \in 0..3 : Accept(k, n) \/ AddEnd(k, n) \/ Correct(k, n)
    BY DEF Execute
  <2>3. QED BY <1>2, <1>3, <2>1, <2>2
<1>8. QED BY <1>7 DEF appends

\* The row of a new stamp or correction: its own day is recomputed or owed, another day's
\* log, sheet and debts are what they were.
LEMMA AppendFollows ==
  ASSUME RecordOK, DailyInv, NEW k \in Keys, ~HasRow(k), NEW row \in Rows(Keys), row.key = k,
         log' = Append(log, row), NEW n \in 0..3, NEW note, Writes(log', row.day, n, note),
         Ends(k, n)
  PROVE  DailyInv'
<1>1. /\ DailyOK'
      /\ \A d \in Days : d # row.day => daily'[d] = daily[d]
      /\ n # 0 => \A d \in Days : d = row.day =>
           daily'[d] = Summary(Timeline(log', d), d = DayOf(now))
  BY WritesDaily DEF DailyInv
<1>2. owed' = IF n = 3 THEN owed \ {k} ELSE owed \cup {k}
  BY DEF Ends
<1>3. /\ Len(log) \in Nat /\ DOMAIN log = 1..Len(log) /\ DOMAIN log' = 1..(Len(log) + 1)
      /\ \A i \in DOMAIN log : i \in DOMAIN log' /\ log'[i] = log[i]
      /\ log'[Len(log) + 1] = row
      /\ \A i \in DOMAIN log' : i \in DOMAIN log \/ i = Len(log) + 1
  BY LogGrows
<1>4. SUFFICES ASSUME NEW d \in Days, Settled(d)', RowsOf(d)' # {}
               PROVE  \E isToday \in BOOLEAN : daily'[d] = Summary(Timeline(log', d), isToday)
  BY <1>1 DEF DailyInv, DailyFollowsLog
<1>5. CASE d = row.day
  <2>1. Len(log) + 1 \in RowsOf(d)'
    BY <1>3, <1>5 DEF RowsOf
  <2>2. k \notin owed'
    BY <1>3, <1>4, <2>1 DEF Settled
  <2>3. n # 0
    BY <1>2, <2>2
  <2>4. QED BY <1>1, <1>5, <2>3
<1>6. CASE d # row.day
  <2>1. RowsOf(d)' = RowsOf(d)
    BY <1>3, <1>6 DEF RowsOf
  <2>2. \A i \in DOMAIN log : log[i].key # k
    BY DEF HasRow
  <2>3. Settled(d)
    BY <1>2, <1>3, <1>4, <2>1, <2>2 DEF Settled, RowsOf
  <2>4. PICK isToday \in BOOLEAN : daily[d] = Summary(Timeline(log, d), isToday)
    BY <1>4, <2>1, <2>3 DEF DailyInv, DailyFollowsLog
  <2>5. Timeline(log', d) = Timeline(log, d)
    BY <1>6, TimelineKept DEF RecordOK
  <2>6. QED BY <1>1, <1>6, <2>4, <2>5
<1>7. QED BY <1>5, <1>6

\* A repeated request recomputes the day of its row; what is owed for other days stays.
LEMMA RepeatFollows ==
  ASSUME RecordOK, OneRowPerKey, DailyInv, NEW k \in Keys, NEW n \in 0..3, Repeat(k, n)
  PROVE  DailyInv'
<1> DEFINE e == log[RowOf(k)].day
<1>1. /\ DailyOK'
      /\ \A d \in Days : d # e => daily'[d] = daily[d]
      /\ n = 0 => daily' = daily
      /\ n # 0 => \A d \in Days : d = e => daily'[d] = Summary(Timeline(log, d), d = DayOf(now))
  BY WritesDaily DEF DailyInv, Repeat
<1>2. owed' = IF n = 3 THEN owed \ {k} ELSE owed
  BY DEF Ends, Repeat
<1>3. log' = log /\ RowOf(k) \in DOMAIN log /\ log[RowOf(k)].key = k
  BY DEF Repeat, HasRow, RowOf
<1>4. \A i \in DOMAIN log : log[i].key = k => log[i].day = e
  BY <1>3 DEF OneRowPerKey
<1> HIDE DEF e
<1>5. SUFFICES ASSUME NEW d \in Days, Settled(d)', RowsOf(d)' # {}
               PROVE  \E isToday \in BOOLEAN : daily'[d] = Summary(Timeline(log', d), isToday)
  BY <1>1 DEF DailyInv, DailyFollowsLog
<1>6. CASE d = e /\ n # 0
  BY <1>1, <1>3, <1>6
<1>7. CASE d # e \/ n = 0
  <2>1. Settled(d)
    BY <1>2, <1>3, <1>4, <1>5, <1>7 DEF Settled, RowsOf
  <2>2. daily'[d] = daily[d] /\ RowsOf(d) # {}
    BY <1>1, <1>3, <1>5, <1>7 DEF RowsOf
  <2>3. QED BY <1>3, <2>1, <2>2 DEF DailyInv, DailyFollowsLog
<1>8. QED BY <1>6, <1>7

\* So does every execution.
LEMMA ExecuteFollows ==
  ASSUME RecordOK, OneRowPerKey, DailyInv, NEW k \in Keys, Execute(k)
  PROVE  DailyInv'
<1>1. CASE UNCHANGED <<log, daily, billed, owed>>
  BY <1>1 DEF DailyInv, DailyOK, DailyFollowsLog, Settled, RowsOf
<1>2. ASSUME NEW n \in 0..3, Repeat(k, n)
      PROVE  DailyInv'
  BY <1>2, RepeatFollows
<1>3. ASSUME NEW row \in Rows(Keys), NEW n \in 0..3, NEW note, ~HasRow(k), row.key = k,
             log' = Append(log, row), Writes(log', row.day, n, note), Ends(k, n)
      PROVE  DailyInv'
  BY <1>3, AppendFollows
<1>4. QED BY <1>1, <1>2, <1>3, ExecuteWrites

\* No row, nothing to follow.
LEMMA DailyInit == Init => DailyInv
BY DEF Init, DailyInv, DailyOK, DailyFollowsLog, RowsOf

\* Every step keeps the settled days in step with the log.
LEMMA DailyStep ==
  ASSUME FixInv, DailyInv, [Next]_vars
  PROVE  DailyInv'
<1>1. CASE UNCHANGED <<log, daily, owed>>
  BY <1>1 DEF DailyInv, DailyOK, DailyFollowsLog, Settled, RowsOf
<1>2. CASE RecomputeMonth
  <2>1. /\ log' = log /\ owed' = owed
        /\ daily' = [d \in Days |-> IF d \in Month /\ RowsOf(d) # {}
                                    THEN Summary(Timeline(log, d), FALSE) ELSE daily[d]]
    BY <1>2 DEF RecomputeMonth
  <2>2. DailyOK'
    BY <2>1 DEF DailyOK
  <2>3. ASSUME NEW d \in Days, Settled(d)', RowsOf(d)' # {}
        PROVE  \E isToday \in BOOLEAN : daily'[d] = Summary(Timeline(log', d), isToday)
    <3>1. Settled(d) /\ RowsOf(d) # {}
      BY <2>1, <2>3 DEF Settled, RowsOf
    <3>2. CASE d \in Month
      BY <2>1, <3>1, <3>2
    <3>3. CASE d \notin Month
      BY <2>1, <3>1, <3>3 DEF DailyInv, DailyFollowsLog
    <3>4. QED BY <3>2, <3>3
  <2>4. QED BY <2>2, <2>3 DEF DailyInv, DailyFollowsLog
<1>3. ASSUME NEW k \in Keys, Execute(k)
      PROVE  DailyInv'
  BY <1>3, ExecuteFollows DEF FixInv
<1>4. \/ UNCHANGED <<log, daily, owed>> \/ RecomputeMonth
      \/ \E k \in Keys : Execute(k)
  <2>1. UNCHANGED vars => UNCHANGED <<log, daily, owed>>
    BY DEF vars
  <2>2. Tick \/ Reevaluate \/ Close => UNCHANGED <<log, daily, owed>>
    BY DEF Tick, Reevaluate, Close
  <2>3. \A k \in Stamps, type \in StampTypes : Press(k, type) => UNCHANGED <<log, daily, owed>>
    BY DEF Press
  <2>4. \A k \in Fixes, t \in Times :
          /\ \A i \in DOMAIN log : SubmitFix(k, i, t) => UNCHANGED <<log, daily, owed>>
          /\ \A d \in Days : SubmitEnd(k, d, t) => UNCHANGED <<log, daily, owed>>
    BY DEF SubmitFix, SubmitEnd
  <2>5. QED BY <2>1, <2>2, <2>3, <2>4 DEF Next
<1>5. QED BY <1>1, <1>2, <1>3, <1>4

\* Once the request of every row of a day has been run to its end by some execution, the
\* daily sheet says what the raw log says, wherever executions died and in whatever order
\* and however often requests came (the recomputation of a repeated request).
THEOREM DailySheetFollowsLog == Spec => []DailyFollowsLog
<1>1. Spec => []FixInv
  BY FixInvInit, FixInvStep, PTL DEF Spec
<1>2. Spec => []DailyInv
  BY <1>1, DailyInit, DailyStep, PTL DEF Spec
<1>3. QED BY <1>2, PTL DEF DailyInv

-----------------------------------------------------------------------------
(* The bill of an open month.                                              *)

\* A sum of zeros is zero, by the least set whose sum is not.
LEMMA SumOfZeros ==
  ASSUME NEW S, IsFiniteSet(S), NEW f, \A x \in S : f[x] = 0
  PROVE  SumFunctionOnSet(f, S) = 0
<1> DEFINE Is(g) == g = [s \in SUBSET S |->
                           IF s = {} THEN 0
                           ELSE f[CHOOSE x \in s : TRUE] + g[s \ {CHOOSE x \in s : TRUE}]]
           sum == CHOOSE g : Is(g)
<1>1. SumFunctionOnSet(f, S) = sum[S]
  BY DEF SumFunctionOnSet, FoldFunctionOnSet, MapThenFoldSet
<1>2. Is([s \in SUBSET S |-> 0])
  <2>1. \A s \in SUBSET S : s # {} =>
          /\ f[CHOOSE x \in s : TRUE] = 0
          /\ s \ {CHOOSE x \in s : TRUE} \in SUBSET S
    OBVIOUS
  <2>2. \A s \in SUBSET S :
          (IF s = {} THEN 0
           ELSE f[CHOOSE x \in s : TRUE] +
                  [z \in SUBSET S |-> 0][s \ {CHOOSE x \in s : TRUE}]) = 0
    BY <2>1
  <2>3. QED BY <2>2
<1>3. Is(sum)
  <2> HIDE DEF Is
  <2>1. QED BY <1>2
<1> HIDE DEF sum
<1>4. /\ sum[{}] = 0
      /\ \A s \in SUBSET S : s # {} =>
           \E x \in s : sum[s] = f[x] + sum[s \ {x}]
  BY <1>3
<1> HIDE DEF Is
<1> DEFINE Odd == {Cardinality(s) : s \in {s \in SUBSET S : sum[s] # 0}}
<1>5. \A s \in SUBSET S : IsFiniteSet(s) /\ Cardinality(s) \in Nat
  BY FS_Subset, FS_CardinalityType
<1>6. ASSUME sum[S] # 0
      PROVE  FALSE
  <2>1. Odd \in SUBSET Nat /\ Odd # {}
    BY <1>5, <1>6
  <2>2. PICK n \in Odd : \A m \in Odd : n <= m
    <3> HIDE DEF Odd
    <3>1. QED BY <2>1, LeastNat
  <2>3. PICK s \in SUBSET S : sum[s] # 0 /\ Cardinality(s) = n
    BY <2>2
  <2>4. PICK x \in s : sum[s] = f[x] + sum[s \ {x}]
    BY <1>4, <2>3
  <2>5. s \ {x} \in SUBSET S /\ sum[s \ {x}] # 0
    BY <2>3, <2>4
  <2>6. Cardinality(s \ {x}) \in Odd
    BY <2>5
  <2>7. Cardinality(s \ {x}) = Cardinality(s) - 1
    BY <1>5, FS_RemoveElement
  <2>8. n \in Nat /\ n <= n - 1
    BY <2>1, <2>2, <2>3, <2>6, <2>7
  <2>9. QED BY <2>8
<1>7. QED BY <1>1, <1>6

\* The month's row is the sum of the daily sheet once nothing of the month is owed, and a
\* day without rows has no row in the daily sheet.
BillInv ==
  /\ ~closed /\ (\A d \in Month : Settled(d)) => billed = Total(daily)
  /\ \A d \in Days : RowsOf(d) = {} => daily[d] = NoRow

\* Two daily sheets that pay the same for every day of the month come to the same total.
LEMMA SameTotal ==
  ASSUME NEW D, NEW E, \A d \in Month : D[d].worked = E[d].worked
  PROVE  Total(D) = Total(E)
<1>1. [d \in Month |-> D[d].worked] = [d \in Month |-> E[d].worked]
  OBVIOUS
<1>2. QED BY <1>1 DEF Total

\* What a day is paid does not depend on whether it is today.
LEMMA PaidAnyDay ==
  ASSUME NEW line, NEW x \in BOOLEAN, NEW y \in BOOLEAN
  PROVE  Summary(line, x).worked = Summary(line, y).worked
BY DEF Summary

\* A row recomputed to the end leaves the month summed up; one that is not is owed.
LEMMA AppendBills ==
  ASSUME RecordOK, DailyInv, BillInv, NEW k \in Keys, ~HasRow(k), NEW row \in Rows(Keys),
         row.key = k, log' = Append(log, row), NEW n \in 0..3, NEW note, closed' = closed,
         Writes(log', row.day, n, note), Ends(k, n)
  PROVE  BillInv'
<1>1. \A d \in Days : d # row.day => daily'[d] = daily[d]
  BY WritesDaily DEF DailyInv
<1>2. owed' = IF n = 3 THEN owed \ {k} ELSE owed \cup {k}
  BY DEF Ends
<1>3. /\ Len(log) \in Nat /\ DOMAIN log = 1..Len(log) /\ DOMAIN log' = 1..(Len(log) + 1)
      /\ \A i \in DOMAIN log : i \in DOMAIN log' /\ log'[i] = log[i]
      /\ log'[Len(log) + 1] = row
      /\ \A i \in DOMAIN log' : i \in DOMAIN log \/ i = Len(log) + 1
  BY LogGrows
<1>4. /\ Len(log) + 1 \in RowsOf(row.day)'
      /\ \A d \in Days : d # row.day => RowsOf(d)' = RowsOf(d)
  BY <1>3 DEF RowsOf
<1>5. \A d \in Days : RowsOf(d)' = {} => daily'[d] = NoRow
  BY <1>1, <1>4 DEF BillInv
<1>6. ASSUME ~closed, \A d \in Month : Settled(d)'
      PROVE  billed' = Total(daily')
  <2>1. CASE row.day \in Month
    <3>1. k \notin owed'
      BY <1>3, <1>4, <1>6, <2>1 DEF Settled
    <3>2. n = 3
      BY <1>2, <3>1
    <3>3. QED BY <1>6, <2>1, <3>2 DEF Writes, BillAfter
  <2>2. CASE row.day \notin Month
    <3>1. billed' = billed
      BY <2>2 DEF Writes
    <3>2. \A d \in Month : d \in Days /\ d # row.day
      BY <2>2 DEF Month
    <3>3. \A i \in DOMAIN log : log[i].key # k
      BY DEF HasRow
    <3>4. \A d \in Month : Settled(d)
      BY <1>2, <1>3, <1>4, <1>6, <3>2, <3>3 DEF Settled, RowsOf
    <3>5. billed = Total(daily)
      BY <1>6, <3>4 DEF BillInv
    <3>6. Total(daily') = Total(daily)
      BY <1>1, <3>2, SameTotal
    <3>7. QED BY <3>1, <3>5, <3>6
  <2>3. QED BY <2>1, <2>2
<1>7. QED BY <1>5, <1>6 DEF BillInv

\* A repeated request that dies before the month is summed up has changed nothing the
\* month is paid for, unless its day is still owed.
LEMMA RepeatBills ==
  ASSUME RecordOK, OneRowPerKey, DailyInv, BillInv, NEW k \in Keys, NEW n \in 0..3, Repeat(k, n),
         now' = now
  PROVE  BillInv'
<1> DEFINE e == log[RowOf(k)].day
<1>1. /\ \A d \in Days : d # e => daily'[d] = daily[d]
      /\ n = 0 => daily' = daily
      /\ n # 0 => \A d \in Days : d = e => daily'[d] = Summary(Timeline(log, d), d = DayOf(now))
  BY WritesDaily DEF DailyInv, Repeat
<1>2. /\ owed' = IF n = 3 THEN owed \ {k} ELSE owed
      /\ closed' = closed
      /\ n < 2 \/ e \notin Month => billed' = billed
      /\ n >= 2 /\ e \in Month /\ ~closed => billed' = Total(daily')
  BY DEF Ends, Repeat, Writes, BillAfter
<1>3. log' = log /\ RowOf(k) \in DOMAIN log /\ log[RowOf(k)].key = k
  BY DEF Repeat, HasRow, RowOf
<1>4. \A i \in DOMAIN log : log[i].key = k => log[i].day = e
  BY <1>3 DEF OneRowPerKey
<1>5. RowOf(k) \in RowsOf(e)
  BY <1>3 DEF RowsOf
<1> HIDE DEF e
<1>6. \A d \in Days : RowsOf(d)' = {} => daily'[d] = NoRow
  <2>1. \A d \in Days : RowsOf(d)' = RowsOf(d)
    BY <1>3 DEF RowsOf
  <2>2. QED BY <1>1, <1>5, <2>1 DEF BillInv
<1>7. ASSUME ~closed, \A d \in Month : Settled(d)', ~(n >= 2 /\ e \in Month)
      PROVE  billed' = Total(daily')
  <2>1. \A d \in Month : d \in Days /\ Settled(d)
    BY <1>2, <1>3, <1>4, <1>7 DEF Settled, RowsOf, Month
  <2>2. billed = Total(daily) /\ billed' = billed
    BY <1>2, <1>7, <2>1 DEF BillInv
  <2>3. ASSUME NEW d \in Month
        PROVE  daily'[d].worked = daily[d].worked
    <3>1. CASE d # e \/ n = 0
      BY <1>1, <2>1, <3>1
    <3>2. CASE d = e /\ n # 0
      <4>1. PICK isToday \in BOOLEAN : daily[d] = Summary(Timeline(log, d), isToday)
        BY <1>5, <2>1, <3>2 DEF DailyInv, DailyFollowsLog
      <4>2. daily'[d] = Summary(Timeline(log, d), d = DayOf(now))
        BY <1>1, <2>1, <3>2
      <4>3. (d = DayOf(now)) \in BOOLEAN
        OBVIOUS
      <4>4. QED BY <4>1, <4>2, <4>3, PaidAnyDay
    <3>3. QED BY <3>1, <3>2
  <2>4. Total(daily') = Total(daily)
    BY <2>3, SameTotal
  <2>5. QED BY <2>2, <2>4
<1>8. QED BY <1>2, <1>6, <1>7 DEF BillInv

\* An empty month bills nothing.
LEMMA BillInit == Init => BillInv
<1> SUFFICES ASSUME Init
             PROVE  BillInv
  OBVIOUS
<1>1. \A d \in Days : daily[d] = NoRow
  BY DEF Init
<1>2. IsFiniteSet(Month)
  <2>1. DayOf(Horizon) \in Int
    BY StampLogAssumption, DayOfType
  <2>2. IsFiniteSet(0..DayOf(Horizon)) /\ Month \subseteq 0..DayOf(Horizon)
    BY <2>1, FS_Interval DEF Month, Days
  <2>3. QED BY <2>2, FS_Subset
<1>3. Total(daily) = 0
  <2>1. \A d \in Month : [e \in Month |-> daily[e].worked][d] = 0
    BY <1>1 DEF Month, NoRow
  <2>2. QED BY <1>2, <2>1, SumOfZeros DEF Total
<1>4. QED BY <1>1, <1>3 DEF BillInv, Init

\* Every step keeps the sum of a settled month.
LEMMA BillStep ==
  ASSUME FixInv, DailyInv, BillInv, [Next]_vars
  PROVE  BillInv'
<1>1. CASE UNCHANGED <<log, daily, owed, billed, closed>>
  BY <1>1 DEF BillInv, Settled, RowsOf, Total
<1>2. CASE RecomputeMonth
  <2>1. /\ log' = log /\ closed' = closed
        /\ daily' = [d \in Days |-> IF d \in Month /\ RowsOf(d) # {}
                                    THEN Summary(Timeline(log, d), FALSE) ELSE daily[d]]
        /\ ~closed => billed' = Total(daily')
    BY <1>2 DEF RecomputeMonth, BillAfter
  <2>2. \A d \in Days : RowsOf(d)' = {} => daily'[d] = NoRow
    BY <2>1 DEF BillInv, RowsOf
  <2>3. QED BY <2>1, <2>2 DEF BillInv
<1>3. CASE Reevaluate \/ Close
  <2>1. /\ UNCHANGED <<log, daily, owed>> /\ ~closed
        /\ billed' = Total(daily)
    BY <1>3 DEF Reevaluate, Close, BillAfter
  <2>2. QED BY <2>1 DEF BillInv, RowsOf, Total
<1>4. ASSUME NEW k \in Keys, Execute(k)
      PROVE  BillInv'
  <2>1. closed' = closed /\ now' = now
    BY <1>4, ExecuteWrites DEF FixInv
  <2>2. CASE UNCHANGED <<log, daily, billed, owed>>
    BY <1>1, <2>1, <2>2
  <2>3. ASSUME NEW n \in 0..3, Repeat(k, n)
        PROVE  BillInv'
    BY <2>1, <2>3, RepeatBills DEF FixInv
  <2>4. ASSUME NEW row \in Rows(Keys), NEW n \in 0..3, NEW note, ~HasRow(k), row.key = k,
               log' = Append(log, row), Writes(log', row.day, n, note), Ends(k, n)
        PROVE  BillInv'
    BY <2>1, <2>4, AppendBills DEF FixInv
  <2>5. QED BY <1>4, <2>2, <2>3, <2>4, ExecuteWrites DEF FixInv
<1>5. \/ UNCHANGED <<log, daily, owed, billed, closed>> \/ RecomputeMonth \/ Reevaluate \/ Close
      \/ \E k \in Keys : Execute(k)
  <2>1. UNCHANGED vars => UNCHANGED <<log, daily, owed, billed, closed>>
    BY DEF vars
  <2>2. Tick => UNCHANGED <<log, daily, owed, billed, closed>>
    BY DEF Tick
  <2>3. \A k \in Stamps, type \in StampTypes :
          Press(k, type) => UNCHANGED <<log, daily, owed, billed, closed>>
    BY DEF Press
  <2>4. \A k \in Fixes, t \in Times :
          /\ \A i \in DOMAIN log :
               SubmitFix(k, i, t) => UNCHANGED <<log, daily, owed, billed, closed>>
          /\ \A d \in Days : SubmitEnd(k, d, t) => UNCHANGED <<log, daily, owed, billed, closed>>
    BY DEF SubmitFix, SubmitEnd
  <2>5. QED BY <2>1, <2>2, <2>3, <2>4 DEF Next
<1>6. QED BY <1>1, <1>2, <1>3, <1>4, <1>5

\* A settled day is paid in the daily sheet for its ticks at work if it is complete, and
\* for nothing otherwise.
LEMMA DayIsPaid ==
  ASSUME RecordOK, DailyInv, BillInv, NEW d \in Days, Settled(d)
  PROVE  daily[d].worked =
           IF Orderly(Timeline(log, d)) /\ StateOf(log, d) \notin OpenStates
           THEN TimeAtWork(Timeline(log, d)) ELSE 0
<1> DEFINE line == Timeline(log, d)
<1>1. log \in Seq(Rows(Keys)) /\ StateOf(log, d) = Replay(line)
  BY DEF RecordOK, StateOf
<1>2. line \in Seq(Stamp) /\ Ordered(line) /\ Len(line) = Cardinality(StampsOf(log, d))
  BY <1>1, TimelineIs
<1>3. CASE RowsOf(d) = {}
  <2>1. StampsOf(log, d) = {}
    BY <1>3 DEF RowsOf, StampsOf, IsStampOf
  <2>2. line = <<>>
    BY <1>2, <2>1, FS_EmptySet, EmptySeq
  <2>3. daily[d].worked = 0
    BY <1>3 DEF BillInv, NoRow
  <2>4. TimeAtWork(line) = 0
    BY <2>2 DEF TimeAtWork
  <2>5. QED BY <2>3, <2>4
<1>4. CASE RowsOf(d) # {}
  <2>1. PICK isToday \in BOOLEAN : daily[d] = Summary(line, isToday)
    BY <1>4 DEF DailyInv, DailyFollowsLog
  <2> HIDE DEF line
  <2>2. CASE Orderly(line) /\ Replay(line) \notin OpenStates
    <3>1. Summary(line, isToday).status = "OK"
      BY <1>2, <2>2, OKMeans
    <3>2. QED BY <1>1, <1>2, <2>1, <2>2, <3>1, WorkedIs DEF line
  <2>3. CASE ~(Orderly(line) /\ Replay(line) \notin OpenStates)
    <3>1. Summary(line, isToday).status # "OK"
      BY <1>2, <2>3, OKMeans
    <3>2. Summary(line, isToday).worked = 0
      BY <3>1 DEF Summary
    <3>3. QED BY <1>1, <2>1, <2>3, <3>2 DEF line
  <2>4. QED BY <2>2, <2>3
<1>5. QED BY <1>3, <1>4

\* Until the month is closed, and once no row of it is owed a recomputation, it bills
\* exactly the ticks at work of its complete days, wherever executions died and in
\* whatever order requests came (recomputeMonthly, aggregateDay, the duplicate branch).
THEOREM OpenMonthBillsTimeAtWork == Spec => []BilledIsTimeAtWork
<1>1. Spec => []FixInv
  BY FixInvInit, FixInvStep, PTL DEF Spec
<1>2. Spec => [](DailyInv /\ BillInv)
  <2>1. Init => DailyInv /\ BillInv
    BY DailyInit, BillInit
  <2>2. FixInv /\ (DailyInv /\ BillInv) /\ [Next]_vars => (DailyInv /\ BillInv)'
    BY DailyStep, BillStep
  <2>3. QED BY <1>1, <2>1, <2>2, PTL DEF Spec
<1>3. FixInv /\ DailyInv /\ BillInv => BilledIsTimeAtWork
  <2> SUFFICES ASSUME FixInv, DailyInv, BillInv, ~closed, \A d \in Month : Settled(d)
               PROVE  billed = SumFunctionOnSet(
                 [d \in Month |-> IF Orderly(Timeline(log, d)) /\ StateOf(log, d) \notin OpenStates
                                  THEN TimeAtWork(Timeline(log, d)) ELSE 0], Month)
    BY DEF BilledIsTimeAtWork
  <2>1. billed = Total(daily)
    BY DEF BillInv
  <2>2. [d \in Month |-> daily[d].worked] =
          [d \in Month |-> IF Orderly(Timeline(log, d)) /\ StateOf(log, d) \notin OpenStates
                           THEN TimeAtWork(Timeline(log, d)) ELSE 0]
    BY DayIsPaid DEF FixInv, Month
  <2>3. QED BY <2>1, <2>2 DEF Total
<1>4. QED BY <1>1, <1>2, <1>3, PTL

-----------------------------------------------------------------------------
(* Stamps in the order they were pressed.                                  *)

\* The row of a button carries the time of the press.
PressesKeepTime ==
  \A i \in DOMAIN log : log[i].key \in Stamps =>
    sent[log[i].key] # Unsent /\ log[i].at = sent[log[i].key].at

Starts == {s \in DOMAIN log : log[s].type = "START"}

\* What holds of the log while no request has overtaken another and nobody has corrected
\* anything.  An open day was opened by the latest START so far, unless that one came when
\* the day could no longer be continued.
InPressOrder   == \A i, j \in DOMAIN log : i <= j => log[i].at <= log[j].at
OnDayOrNext    == \A i \in DOMAIN log : log[i].day \in {DayOf(log[i].at) - 1, DayOf(log[i].at)}
DaysOrderly    == \A d \in Int : Orderly(Timeline(log, d))
OpenedByLatest ==
  \A d \in Int : StateOf(log, d) \in OpenStates =>
    \E s \in Starts : /\ log[s].day = d
                      /\ \A o \in Starts : log[o].at <= log[s].at \/ DayOf(log[o].at) >= d + 2
EndsInOneDay   == \A e \in DOMAIN log : log[e].type = "END" => SessionHasOneDay(e)

LogInOrder == InPressOrder /\ OnDayOrNext /\ DaysOrderly /\ OpenedByLatest /\ EndsInOneDay

OrderInv == PressesKeepTime /\ (~overtaken /\ Made \subseteq Stamps => LogInOrder)

\* Later moments are not on earlier days.
LEMMA DayOfGrows ==
  ASSUME NEW s \in Nat, NEW t \in Nat, s <= t
  PROVE  DayOf(s) \in Nat /\ DayOf(t) \in Nat /\ DayOf(s) <= DayOf(t)
<1>1. DayLen \in Nat /\ DayLen > 0
  BY DayLenAssumption
<1>2. s \div DayLen \in Nat /\ t \div DayLen \in Nat
  BY <1>1, SMTT(30)
<1>3. s \div DayLen <= t \div DayLen
  BY <1>1, SMTT(30)
<1>4. QED BY <1>2, <1>3 DEF DayOf

\* A button that leaves a row was allowed, and its row lies on the day it belongs to.
LEMMA Accepted ==
  ASSUME RecordOK, NEW k \in Stamps, Execute(k), log' # log
  PROVE  \E row \in Rows(Keys) :
           /\ row.key = k /\ row.at = sent[k].at /\ row.type \in StampTypes
           /\ row.day = BusinessDate(log, row.at) /\ Allowed(StateOf(log, row.day), row.type)
           /\ log' = Append(log, row)
<1>1. k \in Keys /\ k \notin Fixes
  BY StampLogAssumption DEF Keys
<1>2. sent[k] \in Requests
  BY <1>1 DEF Execute, RecordOK
<1>3. PICK n \in 0..3 : Accept(k, n)
  <2>1. Refuse(k) \/ Decline(k) => log' = log
    BY DEF Refuse, Decline, Leaves
  <2>2. \A n \in 0..3 : Repeat(k, n) => log' = log
    BY DEF Repeat
  <2>3. \A n \in 0..3 : ~AddEnd(k, n) /\ ~Correct(k, n)
    BY <1>1 DEF AddEnd, Correct
  <2>4. QED BY <2>1, <2>2, <2>3 DEF Execute
<1> DEFINE row == [key |-> k, day |-> BusinessDate(log, sent[k].at), type |-> sent[k].type,
                   at |-> sent[k].at, of |-> NoKey, to |-> 0]
<1>4. /\ Allowed(StateOf(log, BusinessDate(log, sent[k].at)), sent[k].type)
      /\ log' = Append(log, row)
  BY <1>3 DEF Accept, AppendRow
<1>5. sent[k].type \in StampTypes
  BY <1>4 DEF Allowed, TransitionTable, StampTypes
<1>6. BusinessDate(log, sent[k].at) \in Int
  BY <1>2, DayOfType DEF BusinessDate, Requests
<1>7. row \in Rows(Keys)
  BY <1>1, <1>2, <1>5, <1>6 DEF Rows, Requests
<1>8. QED BY <1>4, <1>5, <1>7

\* A log without corrections counts every stamp at the time of its row.
LEMMA PlainTimes ==
  ASSUME RecordOK, \A i \in DOMAIN log : log[i].type # "CORRECTION", NEW d, NEW t,
         \A i \in DOMAIN log : log[i].at <= t
  PROVE  \A e \in StampsOf(log, d) : e.at <= t
<1>1. \A i \in DOMAIN log : EffectiveAt(log, i) = log[i].at
  BY DEF EffectiveAt, Corrections
<1>2. QED BY <1>1 DEF StampsOf

\* What an allowed stamp, pressed after all others, does to the days.
LEMMA DayAdvances ==
  ASSUME RecordOK, \A i \in DOMAIN log : log[i].type # "CORRECTION", DaysOrderly,
         NEW row \in Rows(Keys), row.type \in StampTypes, log' = Append(log, row),
         \A i \in DOMAIN log : log[i].at <= row.at, Allowed(StateOf(log, row.day), row.type)
  PROVE  /\ DaysOrderly'
         /\ \A d \in Int : d # row.day => StateOf(log', d) = StateOf(log, d)
         /\ StateOf(log', row.day) = Transition(StateOf(log, row.day), row.type)
<1> DEFINE line == Timeline(log, row.day)
           e == [row |-> Len(log) + 1, type |-> row.type, at |-> row.at]
<1>1. log \in Seq(Rows(Keys)) /\ Len(log) \in Nat
  BY LenProperties DEF RecordOK
<1>2. \A d \in Int : d # row.day => Timeline(log', d) = Timeline(log, d)
  BY <1>1, TimelineKept
<1>3. row.type # "CORRECTION"
  BY DEF StampTypes
<1>4. \A f \in StampsOf(log, row.day) : f.at <= row.at
  BY PlainTimes
<1>5. Timeline(log', row.day) = Append(line, e)
  BY <1>1, <1>3, <1>4, TimelineGrows
<1>6. line \in Seq(Stamp) /\ e \in Stamp /\ e.type = row.type
  <2>1. line \in Seq(Stamp)
    BY <1>1, TimelineIs
  <2>2. Len(log) + 1 \in Nat /\ row.at \in Nat
    BY <1>1 DEF Rows
  <2>3. QED BY <2>1, <2>2 DEF Stamp
<1>7. row.day \in Int
  BY DEF Rows
<1>8. Orderly(line) /\ Replay(line) = StateOf(log, row.day)
  BY <1>7 DEF DaysOrderly, StateOf
<1> HIDE DEF line, e
<1>9. Orderly(Append(line, e)) /\ Replay(Append(line, e)) = Transition(Replay(line), row.type)
  BY <1>6, <1>8, OrderlyGrows
<1>10. \A d \in Int : Orderly(Timeline(log', d))
  BY <1>2, <1>5, <1>9 DEF DaysOrderly
<1>11. QED BY <1>2, <1>5, <1>8, <1>9, <1>10 DEF DaysOrderly, StateOf

\* While a day is open, no START goes past it to that day or to the next.
LEMMA StartPassesBy ==
  ASSUME NEW t \in Nat, NEW d \in Int, StateOf(log, d) \in OpenStates, d # BusinessDate(log, t),
         Allowed(StateOf(log, BusinessDate(log, t)), "START")
  PROVE  DayOf(t) # d /\ DayOf(t) # d + 1
<1>1. DayOf(t) \in Int /\ (d + 1) - 1 = d
  BY DayOfType
<1>2. StateOf(log, BusinessDate(log, t)) \notin OpenStates
  BY DEF OpenStates, Allowed, TransitionTable, States
<1>3. BusinessDate(log, t) = DayOf(t)
  BY <1>2 DEF BusinessDate
<1>4. StateOf(log, DayOf(t) - 1) \notin OpenStates
  BY <1>2, <1>3 DEF BusinessDate
<1>5. QED BY <1>1, <1>3, <1>4

\* A stamp pressed after all others and accepted keeps the log in order.
LEMMA OrderGrows ==
  ASSUME RecordOK, \A i \in DOMAIN log : log[i].type # "CORRECTION", LogInOrder,
         NEW row \in Rows(Keys), row.type \in StampTypes, log' = Append(log, row),
         \A i \in DOMAIN log : log[i].at <= row.at, row.day = BusinessDate(log, row.at),
         Allowed(StateOf(log, row.day), row.type)
  PROVE  LogInOrder'
<1> DEFINE last == Len(log) + 1
           t == row.at
<1>1. /\ Len(log) \in Nat /\ DOMAIN log = 1..Len(log) /\ DOMAIN log' = 1..last
      /\ \A i \in DOMAIN log : i \in DOMAIN log' /\ log'[i] = log[i]
      /\ log'[last] = row
      /\ \A i \in DOMAIN log' : i \in DOMAIN log \/ i = last
  BY LogGrows
<1>2. /\ \A i \in DOMAIN log : i < last /\ log[i].at \in Nat
      /\ last \in Nat /\ t \in Nat /\ row.day \in Int
  BY <1>1, RowType DEF Rows
<1> HIDE DEF last
<1>3. InPressOrder'
  BY <1>1, <1>2 DEF LogInOrder, InPressOrder
<1>4. row.day \in {DayOf(t) - 1, DayOf(t)} /\ DayOf(t) \in Nat
  BY <1>2, DayOfGrows DEF BusinessDate
<1>5. OnDayOrNext'
  BY <1>1, <1>4 DEF LogInOrder, OnDayOrNext
<1>6. /\ DaysOrderly'
      /\ \A d \in Int : d # row.day => StateOf(log', d) = StateOf(log, d)
      /\ StateOf(log', row.day) = Transition(StateOf(log, row.day), row.type)
  BY DayAdvances DEF LogInOrder
<1>7. /\ \A s \in Starts : s \in Starts' /\ log'[s] = log[s]
      /\ \A s \in Starts' : s \in Starts \/ (s = last /\ row.type = "START")
      /\ row.type = "START" => last \in Starts'
  BY <1>1, <1>2 DEF Starts
<1>8. \A o \in Starts : log[o].at <= t /\ log[o].at \in Nat
  BY <1>2 DEF Starts
<1>9. OpenedByLatest'
  <2> SUFFICES ASSUME NEW d \in Int, StateOf(log', d) \in OpenStates
               PROVE  \E s \in Starts' : /\ log'[s].day = d
                                         /\ \A o \in Starts' : \/ log'[o].at <= log'[s].at
                                                               \/ DayOf(log'[o].at) >= d + 2
    BY DEF OpenedByLatest
  <2>1. CASE d = row.day /\ row.type = "START"
    <3>1. last \in Starts' /\ log'[last].day = d /\ log'[last].at = t
      BY <1>1, <1>7, <2>1
    <3>2. \A o \in Starts' : log'[o].at <= t
      <4>1. log'[last].at = t /\ t <= t
        BY <1>1, <1>2
      <4>2. QED BY <1>7, <1>8, <4>1
    <3>3. QED BY <3>1, <3>2
  <2>2. CASE d = row.day /\ row.type # "START"
    <3>1. StateOf(log, d) \in OpenStates
      BY <1>6, <2>2, Table DEF OpenStates
    <3>2. Starts' = Starts
      BY <1>7, <2>2
    <3>3. PICK s \in Starts : /\ log[s].day = d
                              /\ \A o \in Starts : \/ log[o].at <= log[s].at
                                                   \/ DayOf(log[o].at) >= d + 2
      BY <3>1 DEF LogInOrder, OpenedByLatest
    <3>4. QED BY <1>7, <3>2, <3>3
  <2>3. CASE d # row.day
    <3>1. StateOf(log, d) \in OpenStates
      BY <1>6, <2>3
    <3>2. PICK s \in Starts : /\ log[s].day = d
                              /\ \A o \in Starts : \/ log[o].at <= log[s].at
                                                   \/ DayOf(log[o].at) >= d + 2
      BY <3>1 DEF LogInOrder, OpenedByLatest
    <3>3. row.type = "START" => DayOf(t) >= d + 2
      <4>1. d \in {DayOf(log[s].at) - 1, DayOf(log[s].at)}
        BY <3>2 DEF LogInOrder, OnDayOrNext, Starts
      <4>2. DayOf(log[s].at) \in Nat /\ DayOf(log[s].at) <= DayOf(t)
        BY <1>2, <1>8, DayOfGrows
      <4>3. row.type = "START" => DayOf(t) # d /\ DayOf(t) # d + 1
        BY <1>2, <2>3, <3>1, StartPassesBy
      <4>4. QED BY <1>4, <4>1, <4>2, <4>3
    <3>4. \A o \in Starts' : log'[o].at <= log'[s].at \/ DayOf(log'[o].at) >= d + 2
      BY <1>1, <1>7, <3>2, <3>3
    <3>5. QED BY <1>7, <3>2, <3>4
  <2>4. QED BY <2>1, <2>2, <2>3
<1>10. EndsInOneDay'
  <2> DEFINE Sooner(s, e) == log[s].at < log[e].at \/ (log[s].at = log[e].at /\ s < e)
             Earlier(e) == {s \in DOMAIN log : log[s].type = "START" /\ Sooner(s, e)}
  <2> SUFFICES ASSUME NEW e \in DOMAIN log', log'[e].type = "END"
               PROVE  SessionHasOneDay(e)'
    BY DEF EndsInOneDay
  <2>1. CASE e \in DOMAIN log
    <3>1. Earlier(e)' = Earlier(e)
      <4>1. ~(row.at < log[e].at) /\ ~(last < e)
        BY <1>1, <1>2, <2>1
      <4>2. QED BY <1>1, <2>1, <4>1
    <3>2. SessionHasOneDay(e)
      BY <1>1, <2>1 DEF LogInOrder, EndsInOneDay
    <3>3. QED BY <1>1, <2>1, <3>1, <3>2 DEF SessionHasOneDay
  <2>2. CASE e = last
    <3>1. row.type = "END" /\ StateOf(log, row.day) \in OpenStates
      BY <1>1, <2>2, Table DEF OpenStates
    <3>2. PICK s \in Starts : /\ log[s].day = row.day
                              /\ \A o \in Starts : \/ log[o].at <= log[s].at
                                                   \/ DayOf(log[o].at) >= row.day + 2
      BY <1>2, <3>1 DEF LogInOrder, OpenedByLatest
    <3>3. \A o \in Starts : log[o].at <= log[s].at
      <4>1. \A o \in Starts : DayOf(log[o].at) \in Nat /\ DayOf(log[o].at) <= DayOf(t)
        BY <1>2, <1>8, DayOfGrows
      <4>2. DayOf(t) < row.day + 2
        BY <1>2, <1>4
      <4>3. \A o \in Starts : ~(DayOf(log[o].at) >= row.day + 2)
        BY <1>2, <1>4, <4>1, <4>2
      <4>4. QED BY <3>2, <4>3
    <3>4. Starts' = Starts
      BY <1>7, <3>1
    <3>5. \A o \in DOMAIN log' : log'[o].type = "START" => o \in Starts
      BY <3>4 DEF Starts
    <3>6. s \in DOMAIN log' /\ log'[s].type = "START" /\ Sooner(s, e)' /\ log'[s].day = log'[e].day
      <4>1. s \in DOMAIN log /\ s < last /\ log[s].type = "START"
        BY <1>2 DEF Starts
      <4>2. log[s].at < t \/ log[s].at = t
        BY <1>2, <1>8
      <4>3. QED BY <1>1, <2>2, <3>2, <4>1, <4>2
    <3>7. \A o \in DOMAIN log' : log'[o].type = "START" => log'[o].at <= log'[s].at
      BY <1>7, <3>3, <3>5
    <3>8. QED BY <3>6, <3>7 DEF SessionHasOneDay
  <2>3. QED BY <1>1, <2>1, <2>2
<1>11. QED BY <1>3, <1>5, <1>6, <1>9, <1>10 DEF LogInOrder

\* An empty log is in order.
LEMMA OrderInit == Init => OrderInv
<1> SUFFICES ASSUME Init
             PROVE  OrderInv
  OBVIOUS
<1>1. log = <<>> /\ log \in Seq(Rows(Keys)) /\ DOMAIN log = {}
  BY EmptySeq DEF Init
<1>2. \A d : Timeline(log, d) = <<>>
  <2> SUFFICES ASSUME NEW d
               PROVE  Timeline(log, d) = <<>>
    OBVIOUS
  <2>1. StampsOf(log, d) = {}
    BY <1>1 DEF StampsOf
  <2>2. Timeline(log, d) \in Seq(Stamp) /\ Len(Timeline(log, d)) = 0
    BY <1>1, <2>1, TimelineIs, FS_EmptySet
  <2>3. QED BY <2>2, EmptySeq
<1>3. Orderly(<<>>) /\ Replay(<<>>) = "IDLE"
  <2>1. <<>> \in Seq(Stamp) /\ Len(<<>>) = 0 /\ DOMAIN <<>> = {}
    BY EmptySeq
  <2>2. Replay(<<>>) = "IDLE"
    BY <2>1, ReplayedIs DEF Replay
  <2>3. QED BY <2>1, <2>2 DEF Orderly
<1>4. \A d : StateOf(log, d) \notin OpenStates
  BY <1>2, <1>3 DEF StateOf, OpenStates
<1>5. QED BY <1>1, <1>2, <1>3, <1>4
      DEF OrderInv, PressesKeepTime, LogInOrder, InPressOrder, OnDayOrNext, DaysOrderly,
          OpenedByLatest, EndsInOneDay

\* A request once made is made, and one out of turn is remembered.
LEMMA TurnIsKept ==
  ASSUME RecordOK, [Next]_vars, ~overtaken'
  PROVE  /\ ~overtaken
         /\ \A k \in Keys : sent[k] # Unsent => sent'[k] = sent[k]
         /\ log' = log \/ \E k \in Keys : Execute(k) /\ InTurn(k)
<1>1. \A k \in Keys : Execute(k) => ~overtaken /\ InTurn(k)
  BY DEF Execute
<1>2. ~overtaken
  <2>1. UNCHANGED vars \/ Tick \/ RecomputeMonth \/ Reevaluate \/ Close => overtaken' = overtaken
    BY DEF vars, Tick, RecomputeMonth, Reevaluate, Close
  <2>2. \A k \in Stamps, type \in StampTypes : Press(k, type) => overtaken' = overtaken
    BY DEF Press
  <2>3. \A k \in Fixes, t \in Times :
          /\ \A i \in DOMAIN log : SubmitFix(k, i, t) => overtaken' = overtaken
          /\ \A d \in Days : SubmitEnd(k, d, t) => overtaken' = overtaken
    BY DEF SubmitFix, SubmitEnd
  <2>4. QED BY <1>1, <2>1, <2>2, <2>3 DEF Next
<1>3. \A k \in Keys : sent[k] # Unsent => sent'[k] = sent[k]
  <2>1. \A k \in Keys : Execute(k) => sent' = sent
    BY ExecuteAppends
  <2>2. ASSUME NEW k \in Keys, NEW r \in Requests, sent[k] = Unsent, sent' = [sent EXCEPT ![k] = r]
        PROVE  \A j \in Keys : sent[j] # Unsent => sent'[j] = sent[j]
    BY <2>2 DEF RecordOK
  <2>3. QED BY <2>1, <2>2, OtherSteps
<1>4. QED BY <1>1, <1>2, <1>3, StepAppends

\* Rows of buttons keep the time of the press, and requests stay what they are.
LEMMA PressesStep ==
  ASSUME RecordOK, PressesKeepTime, [Next]_vars
  PROVE  PressesKeepTime'
<1>1. ASSUME log' = log, NEW k \in Keys, NEW r \in Requests, sent[k] = Unsent,
             sent' = [sent EXCEPT ![k] = r]
      PROVE  PressesKeepTime'
  BY <1>1, RowType DEF PressesKeepTime, RecordOK
<1>2. ASSUME NEW k \in Keys, Execute(k)
      PROVE  PressesKeepTime'
  <2>1. sent' = sent /\ sent[k] # Unsent
    BY <1>2, ExecuteAppends DEF Execute
  <2>2. CASE log' = log
    BY <2>1, <2>2 DEF PressesKeepTime
  <2>3. CASE log' # log
    <3>1. PICK row \in Rows(Keys) : /\ row.key = k /\ log' = Append(log, row)
                                    /\ k \in Stamps => row.at = sent[k].at
      <4>1. CASE k \in Stamps
        BY <1>2, <2>3, <4>1, Accepted
      <4>2. CASE k \notin Stamps
        BY <1>2, <2>3, <4>2, ExecuteAppends
      <4>3. QED BY <4>1, <4>2
    <3>2. /\ \A i \in DOMAIN log : log'[i] = log[i]
          /\ log'[Len(log) + 1] = row
          /\ \A i \in DOMAIN log' : i \in DOMAIN log \/ i = Len(log) + 1
      BY <3>1, LogGrows
    <3>3. QED BY <2>1, <3>1, <3>2 DEF PressesKeepTime
  <2>4. QED BY <2>2, <2>3
<1>3. CASE log' = log /\ sent' = sent
  BY <1>3 DEF PressesKeepTime
<1>4. QED BY <1>1, <1>2, <1>3, OtherSteps

\* Only a button executed in turn adds a row, and it comes after all others.
LEMMA OrderStep ==
  ASSUME FixInv, OrderInv, [Next]_vars
  PROVE  OrderInv'
<1>1. RecordOK /\ PressesKeepTime'
  BY PressesStep DEF FixInv, OrderInv
<1>2. ASSUME ~overtaken', Made' \subseteq Stamps
      PROVE  LogInOrder'
  <2>1. ~overtaken /\ Made \subseteq Stamps
    <3>1. Made \subseteq Made'
      BY <1>1, <1>2, TurnIsKept DEF Made
    <3>2. QED BY <1>1, <1>2, <3>1, TurnIsKept
  <2>2. LogInOrder
    BY <2>1 DEF OrderInv
  <2>3. CASE log' = log
    BY <2>2, <2>3 DEF LogInOrder, InPressOrder, OnDayOrNext, DaysOrderly, OpenedByLatest,
                      EndsInOneDay, SessionHasOneDay, Starts
  <2>4. ASSUME NEW k \in Keys, Execute(k), InTurn(k), log' # log
        PROVE  LogInOrder'
    <3>1. k \in Made /\ k \in Stamps
      BY <2>1, <2>4 DEF Execute, Made
    <3>2. PICK row \in Rows(Keys) :
            /\ row.key = k /\ row.at = sent[k].at /\ row.type \in StampTypes
            /\ row.day = BusinessDate(log, row.at) /\ Allowed(StateOf(log, row.day), row.type)
            /\ log' = Append(log, row)
      BY <1>1, <2>4, <3>1, Accepted
    <3>3. \A i \in DOMAIN log : /\ log[i].type # "CORRECTION" /\ log[i].key \in Stamps
                                /\ log[i].key \in Made
      <4> SUFFICES ASSUME NEW i \in DOMAIN log
                   PROVE  /\ log[i].type # "CORRECTION" /\ log[i].key \in Stamps
                          /\ log[i].key \in Made
        OBVIOUS
      <4>1. log[i].key \in Keys
        BY <1>1, RowType
      <4>2. log[i].key \in Made /\ log[i].key \in Stamps
        <5>1. CASE log[i].key \in Stamps
          BY <4>1, <5>1 DEF OrderInv, PressesKeepTime, Made
        <5>2. CASE log[i].key \notin Stamps
          <6>1. sent[log[i].key] # Unsent
            BY <5>2 DEF FixInv, RowsComeFromRequests
          <6>2. QED BY <2>1, <4>1, <5>2, <6>1 DEF Made
        <5>3. QED BY <5>1, <5>2
      <4>3. QED BY <4>2, StampLogAssumption DEF FixInv, RowsComeFromRequests
    <3>4. \A i \in DOMAIN log : log[i].at <= row.at
      <4> SUFFICES ASSUME NEW i \in DOMAIN log
                   PROVE  log[i].at <= row.at
        OBVIOUS
      <4>1. HasRow(log[i].key) /\ log[i].key \in Made /\ log[i].at = sent[log[i].key].at
        BY <3>3 DEF HasRow, OrderInv, PressesKeepTime
      <4>2. ~(log[i].at > sent[k].at)
        BY <2>4, <4>1 DEF InTurn
      <4>3. log[i].at \in Nat /\ row.at \in Nat
        BY <1>1, RowType DEF Rows
      <4>4. QED BY <3>2, <4>2, <4>3
    <3>5. QED BY <1>1, <2>2, <3>2, <3>3, <3>4, OrderGrows
  <2>5. QED BY <1>1, <1>2, <2>3, <2>4, TurnIsKept
<1>3. QED BY <1>1, <1>2 DEF OrderInv

\* Stamps that reach GAS in the order they were pressed never make a day inconsistent, and
\* an END belongs to the day of the latest START before it, on whichever side of midnight
\* it is pressed (handleStamp's validation, resolveBusinessDate).
THEOREM StampsInTurnStayOrderly == Spec => []StampsStayOrderly
<1>1. Spec => []FixInv
  BY FixInvInit, FixInvStep, PTL DEF Spec
<1>2. Spec => []OrderInv
  BY <1>1, OrderInit, OrderStep, PTL DEF Spec
<1>3. OrderInv => StampsStayOrderly
  <2>1. Days \subseteq Int
    <3>1. DayOf(Horizon) \in Int
      BY StampLogAssumption, DayOfType
    <3>2. QED BY <3>1 DEF Days
  <2>2. QED BY <2>1 DEF OrderInv, StampsStayOrderly, LogInOrder, DaysOrderly, EndsInOneDay
<1>4. QED BY <1>2, <1>3, PTL
=============================================================================
