------------------------- MODULE JournalLinesProofs -------------------------
(***************************************************************************)
(* Proofs about JournalSync where expenses are paid from statement lines,  *)
(* corrected, and their entries handed over: a statement line pays for one *)
(* receipt.                                                                *)
(***************************************************************************)
EXTENDS JournalSyncProofs

-----------------------------------------------------------------------------
(* A statement line pays for one receipt.                                  *)

\* What the chains are long enough for: the code follows a chain of corrections to its end.
ChainsFit == \A r \in Receipts : \A p \in Ancestors(r) : Ancestors(p) \subseteq Ancestors(r)

\* A correction is not corrected again.
CorrectedOnce == \A r, s \in Receipts : Ancestors(r) \cap Ancestors(s) # {} => r = s

\* Recovery finds the line of every row: the lines are of the one kind of service that rows are
\* paid with, and of no day that the fetch of a row leaves out.
LinesInReach ==
  \A t \in Txs :
    /\ \A m \in Methods \cap LinkedMethods : LineOf[t].service = m
    /\ LineOf[t].day >= StartDay
    /\ \A d \in Days : LineOf[t].day >= d - FetchDaysBeforeRow

\* The row has nothing to do with its entry any more, or is about to.
Past(row) == row.sync = "REVERSED" \/ (row.sync = "ERROR" /\ IsCancelled(row))
Leaves(row) == row.sync = "REVERSING" \/ Past(row)

\* The row has the entry of line t, or waits for it.
DrawsOn(row, t) ==
  \/ row.jid = t /\ ~Past(row)
  \/ row.sync = "JOURNALIZING" /\ row.tx = t
Draws(r, t) == DrawsOn(rows[r], t)

Sound(row) ==
  /\ row.sync \in {"SYNCED", "REVERSING"} => row.jid # None
  /\ row.sync \in {"REVERSING", "REVERSED"} => IsCancelled(row)
  /\ row.sync = "JOURNALIZING" => row.jid \in {None, row.tx} /\ status[row.tx] # "absent"
  /\ row.jid \in Txs => entries[row.jid].tag # None

\* A creation from line t for receipt r that may still take effect.
Flies(t, r) == status[t] = "none" /\ \E q \in sent : q.id = t /\ q.entry.tag = r

OfLines ==
  /\ \A t \in Txs : entries[t].tag # None => status[t] = "registered"
  /\ \A q \in sent : q.id \in Txs => status[q.id] # "absent" /\ q.entry.tag # None
  /\ \A t \in Txs, r \in Receipts : Flies(t, r) => rows[r].sync = "JOURNALIZING" /\ rows[r].tx = t

\* Of two rows that draw on a line one hands it over to the other; a row that waits for the
\* entry of a line does so alone; and whoever the entry is made out to gets it, from all
\* others that have it.
InTurn ==
  \A t \in Txs, r, s \in Receipts : Draws(r, t) /\ Draws(s, t) => r = s \/ HandsOver(r, s) \/ HandsOver(s, r)
Alone ==
  \A r \in Receipts : rows[r].sync = "JOURNALIZING" => \A s \in Receipts \ {r} : ~Draws(s, rows[r].tx)
MadeOut ==
  \A t \in Txs, r \in Receipts : entries[t].tag = r /\ ~Leaves(rows[r]) =>
    \A s \in Receipts \ {r} : Draws(s, t) => HandsOver(s, r)

LineState == (\A r \in Receipts : Sound(rows[r])) /\ OfLines /\ InTurn /\ Alone /\ MadeOut

\* The lines that were fetched: what has been entered of them since is in the rows.
MakingPlaces == {"send", "entered", "trace", "traced", "lined"}
PoolFits(s) ==
  /\ s.pool \cup s.lines \subseteq {t \in Txs : status[t] # "absent"}
  /\ s.pool # {} =>
       \/ s.at \in {"rules", "human", "match"}
       \/ s.at \in MakingPlaces /\ s.back \in {"human", "match"}
  /\ \A t \in s.pool, r \in Receipts : rows[r].jid = t \/ entries[t].tag = r =>
       rows[r].sync \in {"JOURNALIZING", "SYNCED"} /\ rows[r].tx = t

HumanFits(s) ==
  s.at = "human" \/ (s.at \in MakingPlaces /\ s.back = "human") =>
    \A r \in s.todo \ {s.who} : s.seen[r].sync = "NEEDS_REVIEW"

\* An execution that works on the line of row r.
LineFits(s, r) ==
  LET t == s.seen[r].tx
  IN  /\ s.at \in {"send", "trace", "traced", "lined"} =>
           /\ rows[r].sync = "JOURNALIZING" /\ rows[r].tx = t
           /\ s.pool # {} => rows[r].jid = None /\ entries[t].tag # r /\ ~Flies(t, r)
           /\ s.at # "send" /\ s.rejected /\ status[t] = "none" => \A q \in sent : q.id # t
      /\ s.at = "traced" /\ s.id # None => s.id = t /\ entries[t].tag # None
      /\ s.at = "lined" /\ s.line # "none" => status[t] # "none"
      /\ s.at = "entered" =>
           /\ s.id \in Txs => rows[r].sync = "JOURNALIZING" /\ rows[r].tx = s.id
                              /\ status[s.id] = "registered" /\ entries[s.id].tag # None
           /\ s.id \notin Txs => rows[r].sync = "CREATING"

\* An execution that works on the entry of row r.
EntryFits(s, r) ==
  LET t == s.seen[r].jid
  IN  /\ s.at \in {"recovered", "adopt"} /\ s.id \in Txs => entries[s.id].tag = r
      /\ s.at = "import" => t # None
      /\ s.at = "cancel" => (t # None => rows[r].jid # None)
      /\ s.at \in {"undo", "put", "inherit"} => rows[r].sync = "REVERSING" /\ rows[r].jid = t
      /\ s.at \in {"put", "inherit"} /\ s.heir # None /\ t \in Txs =>
           \A x \in Receipts \ {s.heir} : Draws(x, t) => HandsOver(x, s.heir)
      /\ s.at = "inherit" /\ t \in Txs => entries[t].tag = s.heir
      /\ s.at \in {"put", "inherit"} => s.heir # r

LineRun(s) ==
  /\ PoolFits(s) /\ HumanFits(s)
  /\ s.who \in Receipts => LineFits(s, s.who) /\ EntryFits(s, s.who)

LineInv == LineState /\ LineRun(run)


-----------------------------------------------------------------------------
(* The ledger and the lines.                                               *)

LEMMA InTurnServes ==
  ASSUME LineState
  PROVE  LineServesOneReceipt
<1> SUFFICES ASSUME NEW t \in Txs, NEW r \in Receipts, NEW s \in Receipts, Holds(r, t), Holds(s, t)
             PROVE  r = s \/ HandsOver(r, s) \/ HandsOver(s, r)
  BY DEF LineServesOneReceipt
<1>1. ASSUME NEW x \in Receipts, Holds(x, t) PROVE Draws(x, t)
  BY <1>1 DEF LineState, Sound, Holds, Draws, DrawsOn, Past
<1>2. QED BY <1>1 DEF LineState, InTurn

\* What a write may make of row r.
LineWrite(r, new) ==
  LET old == rows[r]
  IN  /\ new \in Row /\ Sound(new)
      /\ old.sync = "REVERSING" => new.sync = "REVERSING" \/ Past(new)
      /\ Past(old) => Past(new)
      /\ new.sync = "JOURNALIZING" =>
           \/ old.sync = "JOURNALIZING" /\ new.tx = old.tx
           \/ \A s \in Receipts \ {r} : ~Draws(s, new.tx)
      /\ old.sync = "JOURNALIZING" =>
           (new.sync = "JOURNALIZING" /\ new.tx = old.tx) \/ ~Flies(old.tx, r)
      /\ \A t \in Txs : DrawsOn(new, t) =>
           \/ DrawsOn(old, t)
           \/ /\ entries[t].tag \notin Receipts \ {r}
              /\ \A s \in Receipts \ {r} : Draws(s, t) => HandsOver(s, r)

LEMMA LineRow ==
  ASSUME TypeInv, LineState, NEW r \in Receipts, NEW new, LineWrite(r, new),
         rows' = [rows EXCEPT ![r] = new], status' = status, sent' = sent,
         \A t \in Txs : entries'[t].tag = entries[t].tag
  PROVE  LineState'
<1> DEFINE old == rows[r]
<1>1. rows'[r] = new /\ \A s \in Receipts \ {r} : rows'[s] = rows[s]
  BY DEF TypeInv, TypeOK
<1>2. /\ \A s \in Receipts \ {r} : \A x : Draws(s, x)' <=> Draws(s, x)
      /\ \A x : Draws(r, x)' <=> DrawsOn(new, x)
  BY <1>1 DEF Draws, DrawsOn, Past, IsCancelled
<1>3. /\ \A s \in Receipts \ {r} : \A x : HandsOver(s, x)' <=> HandsOver(s, x)
      /\ \A x, t : HandsOver(r, x) /\ DrawsOn(new, t) => HandsOver(r, x)'
  <2>1. \A t : Past(new) => ~DrawsOn(new, t)
    BY DEF DrawsOn, Past
  <2>2. QED BY <1>1, <2>1 DEF HandsOver, LineWrite
<1>4. \A s \in Receipts \ {r} : Leaves(rows[s])' <=> Leaves(rows[s])
  BY <1>1 DEF Leaves, Past, IsCancelled
<1>5. Leaves(old) => Leaves(rows[r])'
  BY <1>1 DEF Leaves, LineWrite, Past, IsCancelled
<1>6. \A s \in Receipts : Sound(rows[s])'
  <2>1. \A s \in Receipts : Sound(rows'[s])
    BY <1>1 DEF LineWrite, LineState
  <2>2. QED BY <2>1 DEF Sound, IsCancelled
<1>7. OfLines'
  BY <1>1 DEF OfLines, Flies, LineWrite, LineState
<1>8. InTurn'
  <2>1. ASSUME NEW t \in Txs, NEW s \in Receipts \ {r}, Draws(r, t)', Draws(s, t)'
        PROVE  HandsOver(r, s)' \/ HandsOver(s, r)'
    BY <1>2, <1>3, <2>1 DEF LineWrite, LineState, InTurn, Draws
  <2>2. ASSUME NEW t \in Txs, NEW a \in Receipts \ {r}, NEW b \in Receipts \ {r}, Draws(a, t)', Draws(b, t)'
        PROVE  a = b \/ HandsOver(a, b)' \/ HandsOver(b, a)'
    BY <1>2, <1>3, <2>2 DEF LineState, InTurn
  <2>3. QED BY <2>1, <2>2 DEF InTurn
<1>9. Alone'
  <2>1. ASSUME NEW a \in Receipts \ {r}, rows[a].sync = "JOURNALIZING"
        PROVE  ~DrawsOn(new, rows[a].tx)
    <3>1. rows[a].tx \in Txs /\ Draws(a, rows[a].tx)
      BY <2>1 DEF TypeInv, TypeOK, Claims, Row, Draws, DrawsOn
    <3>2. ~Draws(r, rows[a].tx) /\ ~HandsOver(a, r)
      BY <2>1 DEF LineState, Alone, HandsOver
    <3>3. QED BY <3>1, <3>2 DEF LineWrite, Draws
  <2>2. ASSUME NEW s \in Receipts \ {r}, new.sync = "JOURNALIZING"
        PROVE  ~Draws(s, new.tx)
    BY <2>2 DEF LineWrite, LineState, Alone
  <2>3. QED BY <1>1, <1>2, <2>1, <2>2 DEF LineState, Alone
<1>10. MadeOut'
  <2>1. ASSUME NEW t \in Txs, NEW a \in Receipts, entries[t].tag = a, ~Leaves(rows[a]),
               NEW s \in Receipts \ {a}, Draws(s, t)'
        PROVE  HandsOver(s, a)'
    <3>1. CASE s # r
      BY <1>2, <1>3, <2>1, <3>1 DEF LineState, MadeOut
    <3>2. CASE s = r
      <4>1. DrawsOn(old, t)
        BY <1>2, <2>1, <3>2 DEF LineWrite
      <4>2. HandsOver(r, a)
        BY <2>1, <3>2, <4>1 DEF LineState, MadeOut, Draws
      <4>3. QED BY <1>2, <1>3, <2>1, <3>2, <4>2
    <3>3. QED BY <3>1, <3>2
  <2>2. QED BY <1>4, <1>5, <2>1 DEF MadeOut
<1>11. QED BY <1>6, <1>7, <1>8, <1>9, <1>10 DEF LineState

\* What MF, and those that work in it, may do to the lines.
LineStep ==
  /\ \A t \in Txs :
       /\ status'[t] = "absent" => status[t] = "absent"
       /\ status'[t] = "none" => status[t] \in {"none", "absent"}
       /\ status[t] = "registered" => status'[t] = "registered"
       /\ \/ entries'[t].tag = entries[t].tag
          \/ /\ entries'[t].tag # None /\ status'[t] = "registered"
             /\ \A r \in Receipts : entries'[t].tag = r =>
                  Leaves(rows[r]) \/ \A s \in Receipts \ {r} : Draws(s, t) => HandsOver(s, r)
  /\ \A q \in sent' : \/ q \in sent
                      \/ q.id \in Txs => /\ status[q.id] # "absent" /\ q.entry.tag # None
                                         /\ q.entry.tag \in Receipts =>
                                              /\ rows[q.entry.tag].sync = "JOURNALIZING"
                                              /\ rows[q.entry.tag].tx = q.id

LEMMA LineBook ==
  ASSUME TypeInv, LineState, rows' = rows, LineStep
  PROVE  LineState'
<1>1. /\ \A r, t : Draws(r, t)' <=> Draws(r, t)
      /\ \A r, s : HandsOver(r, s)' <=> HandsOver(r, s)
      /\ \A r : Leaves(rows[r])' <=> Leaves(rows[r])
  BY DEF Draws, DrawsOn, HandsOver, Leaves, Past, IsCancelled
<1>2. ASSUME NEW r \in Receipts PROVE Sound(rows[r])'
  <2>1. rows[r].sync = "JOURNALIZING" => rows[r].tx \in Txs
    BY DEF TypeInv, TypeOK, Claims, Row
  <2>2. Sound(rows[r])
    BY DEF LineState
  <2>3. QED BY <2>1, <2>2 DEF Sound, LineStep, IsCancelled
<1>3. OfLines'
  <2>1. \A t \in Txs : entries'[t].tag # None => status'[t] = "registered"
    BY DEF LineStep, LineState, OfLines
  <2>2. \A q \in sent' : q.id \in Txs => status'[q.id] # "absent" /\ q.entry.tag # None
    BY DEF LineStep, LineState, OfLines
  <2>3. ASSUME NEW t \in Txs, NEW r \in Receipts, Flies(t, r)'
        PROVE  rows[r].sync = "JOURNALIZING" /\ rows[r].tx = t
    <3>1. PICK q \in sent' : q.id = t /\ q.entry.tag = r
      BY <2>3 DEF Flies
    <3>2. CASE q \in sent
      <4>1. status[t] = "none"
        BY <2>3, <3>1, <3>2 DEF Flies, LineStep, LineState, OfLines
      <4>2. QED BY <3>1, <3>2, <4>1 DEF Flies, LineState, OfLines
    <3>3. CASE q \notin sent
      BY <3>1, <3>3 DEF LineStep
    <3>4. QED BY <3>2, <3>3
  <2>4. QED BY <2>1, <2>2, <2>3 DEF OfLines
<1>4. InTurn' /\ Alone'
  BY <1>1 DEF LineState, InTurn, Alone
<1>5. MadeOut'
  BY <1>1 DEF LineState, MadeOut, LineStep
<1>6. QED BY <1>2, <1>3, <1>4, <1>5 DEF LineState


-----------------------------------------------------------------------------
(* What the synchronisation writes.                                        *)

\* A write that leaves as much where it tears.
LineFitting(r, new) ==
  /\ LineWrite(r, new)
  /\ new.exp = rows[r].exp
  /\ new.jid = None => rows[r].jid = None
  /\ new.jid = rows[r].jid \/ ~Past(new)
  /\ rows[r].sync = "JOURNALIZING" => new.tx = rows[r].tx /\ new.jid \in {None, new.tx}

LEMMA TornLine ==
  ASSUME TypeInv, LineState, NEW r \in Receipts, NEW new, LineFitting(r, new),
         NEW torn \in Torn(rows[r], new)
  PROVE  LineWrite(r, torn)
<1> DEFINE old == rows[r]
<1>1. old \in Row /\ new \in Row /\ Sound(old) /\ Sound(new)
  BY Parts DEF LineFitting, LineWrite, LineState
<1>2. /\ torn \in Row /\ torn.sync = old.sync /\ torn.jid = new.jid /\ torn.tx \in {old.tx, new.tx}
      /\ torn.exp = old.exp
  BY <1>1, TornType
<1>3. (Past(torn) <=> Past(old)) /\ (IsCancelled(torn) <=> IsCancelled(old))
  BY <1>2 DEF Past, IsCancelled
<1>4. Sound(torn)
  BY <1>1, <1>2, <1>3 DEF Sound, LineFitting
<1>5. torn.sync = "JOURNALIZING" => old.sync = "JOURNALIZING" /\ torn.tx = old.tx
  BY <1>2 DEF LineFitting
<1>6. ASSUME NEW t \in Txs, DrawsOn(torn, t), ~DrawsOn(old, t)
      PROVE  DrawsOn(new, t)
  BY <1>2, <1>3, <1>5, <1>6 DEF DrawsOn, LineFitting
<1>7. QED BY <1>2, <1>3, <1>4, <1>5, <1>6 DEF LineWrite, LineFitting

\* The row as it is may be written.
LEMMA LineSelf ==
  ASSUME TypeInv, LineState, NEW r \in Receipts
  PROVE  LineWrite(r, rows[r])
BY Parts DEF LineWrite, LineState

\* A row that changes its state only.
LEMMA LineMark ==
  ASSUME TypeInv, LineState, NEW r \in Receipts, NEW new \in Row,
         new.exp = rows[r].exp, new.jid = rows[r].jid, new.tx = rows[r].tx, ~Past(rows[r]),
         new.sync \in {"SYNCED", "REVERSING"} => rows[r].jid # None,
         new.sync \in {"REVERSING", "REVERSED"} => IsCancelled(rows[r]),
         new.sync = "JOURNALIZING" => rows[r].sync = "JOURNALIZING",
         rows[r].sync = "REVERSING" => new.sync \in {"REVERSED", "ERROR"},
         rows[r].sync = "JOURNALIZING" => new.sync = "JOURNALIZING" \/ ~Flies(rows[r].tx, r)
  PROVE  LineFitting(r, new)
<1> DEFINE old == rows[r]
<1>1. Sound(old) /\ (IsCancelled(new) <=> IsCancelled(old))
  BY DEF LineState, IsCancelled
<1>2. Sound(new)
  BY <1>1 DEF Sound
<1>3. \A t : DrawsOn(new, t) => DrawsOn(old, t)
  BY DEF DrawsOn
<1>4. old.sync = "REVERSING" => Past(new)
  BY <1>1 DEF Past, Sound
<1>5. LineWrite(r, new)
  BY <1>2, <1>3, <1>4 DEF LineWrite
<1>6. old.sync = "JOURNALIZING" => old.jid \in {None, old.tx}
  BY <1>1 DEF Sound
<1>7. QED BY <1>5, <1>6 DEF LineFitting

\* The same of a write by InState.
LEMMA LineInState ==
  ASSUME TypeInv, LineState, NEW r \in Receipts, NEW state \in SyncStates \ {"JOURNALIZING"},
         NEW err \in Errs, ~Past(rows[r]),
         state \in {"SYNCED", "REVERSING"} => rows[r].jid # None,
         state \in {"REVERSING", "REVERSED"} => IsCancelled(rows[r]),
         rows[r].sync = "REVERSING" => state \in {"REVERSED", "ERROR"},
         rows[r].sync = "JOURNALIZING" => ~Flies(rows[r].tx, r)
  PROVE  LineFitting(r, InState(r, state, err)) /\ InState(r, state, err).jid = rows[r].jid
         /\ InState(r, state, err).tx = rows[r].tx /\ InState(r, state, err).sync = state
<1> DEFINE new == InState(r, state, err)
<1>1. /\ new \in Row /\ new.sync = state /\ new.tx = rows[r].tx /\ new.jid = rows[r].jid
      /\ new.exp = rows[r].exp
  BY InStateCells
<1> HIDE DEF new
<1>2. LineFitting(r, new)
  BY <1>1, LineMark
<1>3. QED BY <1>1, <1>2 DEF new

\* A row gets an entry that carries its tag.
LEMMA LineFound ==
  ASSUME TypeInv, LineState, NEW r \in Receipts, NEW new \in Row, NEW id \in Ids \cup Txs,
         new.sync = "SYNCED", new.jid = id, new.exp = rows[r].exp,
         rows[r].sync \in {"CREATING", "UNKNOWN", "PENDING"}, id \in Txs => entries[id].tag = r
  PROVE  LineFitting(r, new)
<1>1. id # None /\ ~Past(new) /\ ~Leaves(rows[r])
  BY Named DEF Past, Leaves
<1>2. id \in Txs => entries[id].tag # None
  BY Named
<1>3. Sound(new)
  BY <1>1, <1>2 DEF Sound
<1>4. ASSUME NEW t \in Txs, DrawsOn(new, t)
      PROVE  entries[t].tag = r /\ \A s \in Receipts \ {r} : Draws(s, t) => HandsOver(s, r)
  <2>1. t = id
    BY <1>4 DEF DrawsOn
  <2>2. QED BY <1>1, <2>1 DEF LineState, MadeOut
<1>5. LineWrite(r, new)
  BY <1>1, <1>3, <1>4 DEF LineWrite, Past
<1>6. QED BY <1>1, <1>5 DEF LineFitting

\* A row that waited for the entry of its line gets it.
LEMMA LineMade ==
  ASSUME TypeInv, LineState, NEW r \in Receipts, NEW new \in Row,
         rows[r].sync = "JOURNALIZING", entries[rows[r].tx].tag # None, rows[r].tx \in Txs,
         new.sync = "SYNCED", new.jid = rows[r].tx, new.tx = rows[r].tx, new.exp = rows[r].exp
  PROVE  LineFitting(r, new)
<1>1. new.jid # None /\ ~Past(new)
  BY Named DEF Past
<1>2. ~Flies(rows[r].tx, r)
  BY DEF LineState, OfLines, Flies
<1>3. Sound(new)
  BY <1>1 DEF Sound
<1>4. \A t \in Txs : DrawsOn(new, t) => DrawsOn(rows[r], t)
  BY DEF DrawsOn
<1>5. LineWrite(r, new)
  BY <1>1, <1>2, <1>3, <1>4 DEF LineWrite, Past
<1>6. QED BY <1>1, <1>5 DEF LineFitting

\* Runs of which nothing is said but of the lines they fetched.
Silently(s) ==
  s.at \notin MakingPlaces \cup {"recovered", "adopt", "import", "cancel", "undo", "put", "inherit"}

LEMMA SilentRun ==
  ASSUME NEW s, PoolFits(s), HumanFits(s), Silently(s)
  PROVE  LineRun(s)
BY DEF LineRun, LineFits, EntryFits, Silently, MakingPlaces

LEMMA IdleLines == LineRun(Idle) /\ (run' = Idle => LineRun(run)')
<1>1. /\ Idle.at = "idle" /\ Idle.pool = {} /\ Idle.lines = {} /\ Idle.todo = {} /\ Idle.back = None
      /\ Idle.who = None
  BY DEF Idle
<1>2. PoolFits(Idle) /\ HumanFits(Idle) /\ Idle.who \notin Receipts
  BY <1>1, Named DEF PoolFits, HumanFits
<1>3. run' = Idle => PoolFits(run)' /\ HumanFits(run)' /\ run'.who \notin Receipts
  BY <1>1, Named DEF PoolFits, HumanFits
<1>4. QED BY <1>2, <1>3 DEF LineRun

\* A guarded write.
LEMMA LineWrites ==
  ASSUME TypeInv, LineState, Admits', NEW r \in Receipts, NEW guard, NEW force, NEW new, NEW yes, NEW no,
         guard => LineFitting(r, new), LineRun(no),
         guard /\ rows' = [rows EXCEPT ![r] = new] /\ run' = yes /\ UNCHANGED <<entries, status, sent>>
           => LineRun(run)',
         WriteIfCurrent(r, guard, force, new, yes, no)
  PROVE  LineInv'
<1>1. UNCHANGED <<entries, status, sent>>
  BY DEF WriteIfCurrent, books
<1>2. run' # Move("threw")
  <2>1. "threw" \in Places /\ run \in Run
    BY DEF Places, TypeInv, TypeOK
  <2>2. Move("threw").at = "threw"
    BY <2>1, MoveType DEF Run
  <2>3. QED BY <2>2 DEF Admits, Chosen
<1>3. \/ guard /\ rows' = [rows EXCEPT ![r] = new] /\ run' = yes
      \/ rows' = rows /\ run' = no
      \/ guard /\ (\E torn \in Torn(rows[r], new) : rows' = [rows EXCEPT ![r] = torn]) /\ run' = Idle
  BY <1>2 DEF WriteIfCurrent
<1>4. rows = [rows EXCEPT ![r] = rows[r]] /\ LineWrite(r, rows[r])
  BY LineSelf DEF TypeInv, TypeOK
<1>5. PICK x : rows' = [rows EXCEPT ![r] = x] /\ LineWrite(r, x)
  BY <1>3, <1>4, TornLine DEF LineFitting
<1>6. LineState'
  BY <1>1, <1>5, LineRow
<1>7. LineRun(run)'
  <2>1. CASE guard /\ rows' = [rows EXCEPT ![r] = new] /\ run' = yes
    BY <1>1, <2>1
  <2>2. CASE rows' = rows /\ run' = no
    BY <1>1, <2>2 DEF LineRun, PoolFits, HumanFits, LineFits, EntryFits, Flies, HandsOver, Draws, DrawsOn, Past,
       IsCancelled
  <2>3. CASE run' = Idle
    BY <2>3, IdleLines
  <2>4. QED BY <1>3, <2>1, <2>2, <2>3
<1>8. QED BY <1>6, <1>7 DEF LineInv


-----------------------------------------------------------------------------
(* Where the execution goes.                                               *)

\* A step that leaves the ledger and MF alone.
LEMMA LineGoes ==
  ASSUME LineInv, NEW to, Goes(to), LineRun(to)
  PROVE  LineInv'
<1>1. run' = to /\ UNCHANGED <<rows, entries, status, sent>>
  BY DEF Goes, books
<1>2. LineState'
  BY <1>1 DEF LineInv, LineState, Sound, OfLines, Flies, InTurn, Alone, MadeOut, Leaves, HandsOver, Draws,
     DrawsOn, Past, IsCancelled
<1>3. LineRun(run)'
  BY <1>1 DEF LineRun, PoolFits, HumanFits, LineFits, EntryFits, Flies, HandsOver, Draws, DrawsOn, Past,
     IsCancelled
<1>4. QED BY <1>2, <1>3 DEF LineInv

\* A write of row r that has nothing to do with the lines that were fetched, or only with its own.
PoolKeeps(r, new) ==
  \A t \in run.pool : new.jid = t \/ entries[t].tag = r =>
    new.sync \in {"JOURNALIZING", "SYNCED"} /\ new.tx = t

LEMMA PoolWritten ==
  ASSUME TypeInv, NEW s, PoolFits(s), s.pool \subseteq run.pool, NEW r \in Receipts, NEW new, PoolKeeps(r, new),
         rows' = [rows EXCEPT ![r] = new], UNCHANGED <<entries, status, sent>>
  PROVE  PoolFits(s)'
<1>1. rows'[r] = new /\ \A x \in Receipts \ {r} : rows'[x] = rows[x]
  BY DEF TypeInv, TypeOK
<1>2. QED BY <1>1 DEF PoolFits, PoolKeeps

\* A guarded write after which nothing need be known.
LEMMA LineWritesOn ==
  ASSUME TypeInv, LineState, Admits', NEW r \in Receipts, NEW guard, NEW force, NEW new, NEW yes, NEW no,
         guard => /\ LineFitting(r, new) /\ PoolKeeps(r, new)
                  /\ LineRun(yes) /\ Silently(yes) /\ yes.pool \subseteq run.pool,
         LineRun(no), WriteIfCurrent(r, guard, force, new, yes, no)
  PROVE  LineInv'
<1>1. ASSUME guard, rows' = [rows EXCEPT ![r] = new], run' = yes, UNCHANGED <<entries, status, sent>>
      PROVE  LineRun(run)'
  <2>1. PoolFits(yes)' /\ HumanFits(yes)'
    BY <1>1, PoolWritten DEF LineRun, HumanFits
  <2>2. PoolFits(run)' /\ HumanFits(run)' /\ Silently(run')
    BY <1>1, <2>1 DEF PoolFits, HumanFits
  <2>3. QED BY <2>2 DEF LineRun, LineFits, EntryFits, Silently, MakingPlaces
<1>2. QED BY <1>1, LineWrites

PoolPlaces == {"rules", "human", "match"} \cup MakingPlaces

LEMMA NoPool ==
  ASSUME LineRun(run), run.at \notin PoolPlaces
  PROVE  run.pool = {} /\ \A r, new : PoolKeeps(r, new)
BY DEF LineRun, PoolFits, PoolPlaces, PoolKeeps

\* The run goes on with the other rows ...
LEMMA LineDone ==
  ASSUME TypeInv, LineRun(run), NEW r \in Receipts,
         NEW p \in {"reverse", "maintain", "detect", "classify", "create", "rules", "human", "match"},
         run.pool = {} \/ p \in {"rules", "human", "match"},
         p = "human" => /\ run.who \in {None, r}
                        /\ run.at = "human" \/ (run.at \in MakingPlaces /\ run.back = "human")
  PROVE  LineRun(Done(p, r)) /\ Silently(Done(p, r)) /\ Done(p, r).pool = run.pool
<1> DEFINE d == Done(p, r)
<1>1. /\ d.at = p /\ d.todo = run.todo \ {r} /\ d.pool = run.pool /\ d.lines = run.lines /\ d.who = None
      /\ run.todo # {r} => d.seen = run.seen
  BY DEF Done, Idle
<1> HIDE DEF d
<1>2. Silently(d)
  BY <1>1 DEF Silently, MakingPlaces
<1>3. PoolFits(d)
  BY <1>1 DEF LineRun, PoolFits
<1>4. HumanFits(d)
  <2> SUFFICES ASSUME p = "human", NEW x \in run.todo \ {r} PROVE d.seen[x].sync = "NEEDS_REVIEW"
    BY <1>1 DEF HumanFits, MakingPlaces
  <2>1. x \in Receipts /\ x # None
    BY Named DEF TypeInv, TypeOK, Run
  <2>2. QED BY <1>1, <2>1 DEF LineRun, HumanFits
<1>5. QED BY <1>1, <1>2, <1>3, <1>4, SilentRun DEF d

\* ... or with the work on this one.
LEMMA LineMove ==
  ASSUME TypeInv, LineRun(run), run.pool = {},
         NEW p \in {"again", "again2", "undone", "refused", "fill", "mark", "post", "rejected", "limited"}
  PROVE  LineRun(Move(p)) /\ Silently(Move(p)) /\ Move(p).pool = run.pool
<1>1. run \in Run /\ p \in Places
  BY DEF TypeInv, TypeOK, Places
<1>2. Move(p).at = p /\ Move(p).pool = run.pool /\ Move(p).lines = run.lines
  BY <1>1, MoveType DEF Run
<1>3. Silently(Move(p)) /\ HumanFits(Move(p))
  BY <1>2 DEF Silently, HumanFits, MakingPlaces
<1>4. PoolFits(Move(p))
  BY <1>2 DEF LineRun, PoolFits
<1>5. QED BY <1>2, <1>3, <1>4, SilentRun

LEMMA LineBack ==
  ASSUME TypeInv, LineRun(run), NEW r \in Receipts, run.who = r, run.at \in MakingPlaces, run.back # None
  PROVE  LineRun(Back(r)) /\ Silently(Back(r)) /\ Back(r).pool = run.pool
<1>1. run.back \in {"again2", "create", "human", "match"}
  BY DEF TypeInv, TypeOK, Run
<1>2. run.pool = {} \/ run.back \in {"human", "match"}
  BY DEF LineRun, PoolFits, MakingPlaces
<1>3. CASE run.back = "again2"
  BY <1>2, <1>3, LineMove DEF Back
<1>4. CASE run.back # "again2"
  BY <1>1, <1>2, <1>4, LineDone DEF Back
<1>5. QED BY <1>3, <1>4


-----------------------------------------------------------------------------
(* What others do.                                                         *)

\* The entry of line t is on its way to another row than r.
Promised(t, r) ==
  /\ run.at \in {"put", "inherit"} /\ run.who \in Receipts /\ run.seen[run.who].jid = t
  /\ run.heir \notin {None, r}

\* A step of the world, as an execution that works on some row sees it: what is under way is
\* left alone, and nobody comes to draw on a line whose entry is on its way to another.
Outside ==
  /\ run' = run
  /\ \A r \in Receipts :
       /\ rows[r].sync \in {"JOURNALIZING", "SYNCED", "REVERSING", "CREATING"} =>
            rows'[r].sync = rows[r].sync /\ rows'[r].tx = rows[r].tx /\ rows'[r].jid = rows[r].jid
       /\ rows[r].jid # None => rows'[r].jid # None
       /\ \A t \in Txs : rows'[r].jid = t => rows[r].jid = t \/ entries[t].tag = r
       /\ \A t \in Txs : Draws(r, t)' => Draws(r, t) \/ ~Promised(t, r)
  /\ \A t \in Txs :
       /\ status'[t] = "absent" => status[t] = "absent"
       /\ status'[t] = "none" => status[t] \in {"none", "absent"}
       /\ status[t] = "registered" => status'[t] = "registered"
       /\ entries[t].tag # None => entries'[t].tag = entries[t].tag
       /\ \A r \in Receipts : entries'[t].tag = r => entries[t].tag = r \/ Flies(t, r)
  /\ sent' \subseteq sent

LEMMA PoolOutside ==
  ASSUME TypeInv, LineInv, Outside
  PROVE  PoolFits(run)'
<1>1. run.pool \subseteq Txs
  BY DEF TypeInv, TypeOK, Run
<1>2. PoolFits(run)
  BY DEF LineInv, LineRun
<1>3. ASSUME NEW t \in run.pool, NEW r \in Receipts, rows'[r].jid = t \/ entries'[t].tag = r
      PROVE  rows'[r].sync \in {"JOURNALIZING", "SYNCED"} /\ rows'[r].tx = t
  <2>1. rows[r].jid = t \/ entries[t].tag = r \/ Flies(t, r)
    BY <1>1, <1>3 DEF Outside
  <2>2. rows[r].sync \in {"JOURNALIZING", "SYNCED"} /\ rows[r].tx = t
    BY <1>1, <1>2, <2>1 DEF PoolFits, LineInv, LineState, OfLines
  <2>3. QED BY <2>2 DEF Outside
<1>4. QED BY <1>1, <1>2, <1>3 DEF PoolFits, Outside

LEMMA LinesOutside ==
  ASSUME TypeInv, LineInv, Outside, NEW r \in Receipts, run.who = r
  PROVE  LineFits(run, r)'
<1> DEFINE t == run.seen[r].tx
<1>1. LineFits(run, r) /\ rows[r] \in Row
  BY Parts DEF LineInv, LineRun
<1>2. CASE run.at \in {"send", "trace", "traced", "lined"}
  <2>1. rows[r].sync = "JOURNALIZING" /\ rows[r].tx = t /\ rows'[r].sync = "JOURNALIZING" /\ rows'[r].tx = t
        /\ rows'[r].jid = rows[r].jid
    BY <1>1, <1>2 DEF LineFits, Outside
  <2>2. t \in Txs /\ status[t] # "absent"
    BY <2>1 DEF TypeInv, TypeOK, Claims, Row, LineInv, LineState, Sound
  <2>3. (status'[t] = "none" => status[t] = "none") /\ sent' \subseteq sent
    BY <2>2 DEF Outside
  <2>4. Flies(t, r)' => Flies(t, r)
    <3>1. run' = run
      BY DEF Outside
    <3>2. QED BY <2>3, <3>1 DEF Flies
  <2>5. entries'[t].tag = r => entries[t].tag = r \/ Flies(t, r)
    BY <2>2 DEF Outside
  <2>6. entries[t].tag # None => entries'[t].tag # None
    BY <2>2 DEF Outside
  <2>7. run' = run
    BY DEF Outside
  <2>8. QED BY <1>1, <1>2, <2>1, <2>3, <2>4, <2>5, <2>6, <2>7 DEF LineFits
<1>3. CASE run.at = "entered"
  BY <1>1, <1>3 DEF LineFits, Outside
<1>4. CASE run.at \notin {"send", "trace", "traced", "lined", "entered"}
  BY <1>4 DEF LineFits, Outside
<1>5. QED BY <1>2, <1>3, <1>4

LEMMA EntriesOutside ==
  ASSUME TypeInv, LineInv, Outside, NEW r \in Receipts, run.who = r
  PROVE  EntryFits(run, r)'
<1> DEFINE t == run.seen[r].jid
<1>1. EntryFits(run, r) /\ run' = run /\ r # None
  BY Named DEF LineInv, LineRun, Outside
<1>2. run.at \in {"recovered", "adopt"} /\ run.id \in Txs => entries'[run.id].tag = r
  BY <1>1 DEF EntryFits, Outside
<1>3. run.at = "cancel" => (t # None => rows'[r].jid # None)
  BY <1>1 DEF EntryFits, Outside
<1>4. run.at \in {"undo", "put", "inherit"} => rows'[r].sync = "REVERSING" /\ rows'[r].jid = t
  BY <1>1 DEF EntryFits, Outside
<1>5. ASSUME run.at \in {"put", "inherit"}, run.heir # None, t \in Txs, NEW x \in Receipts \ {run.heir}, Draws(x, t)'
      PROVE  HandsOver(x, run.heir)'
  <2>1. Promised(t, x)
    BY <1>1, <1>5 DEF Promised
  <2>2. Draws(x, t)
    BY <1>5, <2>1 DEF Outside
  <2>3. HandsOver(x, run.heir)
    BY <1>1, <1>5, <2>2 DEF EntryFits
  <2>4. QED BY <2>3 DEF HandsOver, Outside
<1>6. run.at = "inherit" /\ t \in Txs => entries'[t].tag = run.heir
  <2>1. run.at = "inherit" => run.heir # None
    BY DEF TypeInv, HandsOf
  <2>2. QED BY <1>1, <2>1 DEF EntryFits, Outside
<1>7. run.at = "import" => t # None
  BY <1>1 DEF EntryFits
<1>8. QED BY <1>1, <1>2, <1>3, <1>4, <1>5, <1>6, <1>7 DEF EntryFits

LEMMA RunOutside ==
  ASSUME TypeInv, LineInv, Outside
  PROVE  LineRun(run)'
<1>1. HumanFits(run)'
  BY DEF LineInv, LineRun, HumanFits, Outside
<1>2. QED BY <1>1, PoolOutside, LinesOutside, EntriesOutside DEF LineRun, Outside

\* MF, and the operator who works in it.
LEMMA LineElsewhere ==
  ASSUME TypeInv, LineInv, rows' = rows, run' = run, sent' \subseteq sent, LineStep,
         \A t \in Txs : entries'[t].tag = entries[t].tag \/
           (status[t] = "none" /\ \A r \in Receipts : entries'[t].tag = r => Flies(t, r))
  PROVE  LineInv'
<1>1. LineState'
  BY LineBook DEF LineInv
<1>2. Outside
  <2>1. \A t \in Txs : entries[t].tag # None => status[t] = "registered"
    BY DEF LineInv, LineState, OfLines
  <2>2. \A r, t : Draws(r, t)' <=> Draws(r, t)
    BY DEF Draws, DrawsOn, Past, IsCancelled
  <2>3. QED BY <2>1, <2>2 DEF Outside, LineStep
<1>3. QED BY <1>1, <1>2, RunOutside DEF LineInv

LEMMA LineArriving ==
  ASSUME TypeInv, LineInv, NEW t \in Txs, LineArrives(t)
  PROVE  LineInv'
<1>1. /\ rows' = rows /\ run' = run /\ sent' = sent /\ entries' = entries
      /\ status[t] = "absent" /\ status' = [status EXCEPT ![t] = "none"]
  BY DEF LineArrives
<1>2. LineStep
  BY <1>1 DEF LineStep, TypeInv, TypeOK
<1>3. QED BY <1>1, <1>2, LineElsewhere

LEMMA LineSettled ==
  ASSUME TypeInv, LineInv, NEW t \in Txs, OperatorSettlesLine(t)
  PROVE  LineInv'
<1>1. rows' = rows /\ run' = run /\ sent' = sent /\ status[t] = "none"
  BY DEF OperatorSettlesLine, ByHand
<1>2. \/ /\ status' = [status EXCEPT ![t] = "registered"]
         /\ entries' = [entries EXCEPT ![t] = EntryFor("hand", LineOf[t])]
      \/ status' = [status EXCEPT ![t] = "excluded"] /\ entries' = entries
  BY DEF OperatorSettlesLine, Register, Place
<1>3. EntryFor("hand", LineOf[t]).tag = "hand" /\ "hand" \notin Receipts /\ "hand" # None
  BY JournalBooksAssumption DEF EntryFor, NoEntry, None
<1>4. /\ \A x \in Txs \ {t} : status'[x] = status[x] /\ entries'[x] = entries[x]
      /\ \/ status'[t] = "registered" /\ entries'[t].tag = "hand"
         \/ status'[t] = "excluded" /\ entries'[t] = entries[t]
  BY <1>2, <1>3 DEF TypeInv, TypeOK
<1>5. LineStep
  BY <1>1, <1>3, <1>4 DEF LineStep
<1>6. QED BY <1>1, <1>3, <1>4, <1>5, LineElsewhere

LEMMA LineDecides ==
  ASSUME TypeInv, LineInv, NEW q \in sent, MfDecides(q)
  PROVE  LineInv'
<1>1. rows' = rows /\ run' = run /\ sent' \subseteq sent
  BY DEF MfDecides
<1>2. q.id \in Ids \cup Txs
  BY SentTypes
<1>3. CASE \A t \in Txs : entries'[t].tag = entries[t].tag /\ status'[t] = status[t]
  <2>1. LineStep
    BY <1>1, <1>3 DEF LineStep
  <2>2. QED BY <1>1, <1>3, <2>1, LineElsewhere
<1>4. CASE q.id \in Txs /\ status[q.id] = "none" /\ Place(q.id, q.entry) /\ Register(q.id)
  <2> DEFINE t == q.id
  <2>1. /\ \A x \in Txs \ {t} : status'[x] = status[x] /\ entries'[x] = entries[x]
        /\ status'[t] = "registered" /\ entries'[t] = q.entry
    BY <1>4 DEF Place, Register, TypeInv, TypeOK
  <2>2. \A r \in Receipts : q.entry.tag = r => Flies(t, r)
    BY <1>4 DEF Flies
  <2>3. \A r \in Receipts : q.entry.tag = r => \A s \in Receipts \ {r} : ~Draws(s, t)
    BY <1>4, <2>2 DEF LineInv, LineState, OfLines, Alone
  <2>4. q.entry.tag # None
    BY <1>4 DEF LineInv, LineState, OfLines
  <2>5. LineStep
    BY <1>1, <1>4, <2>1, <2>3, <2>4 DEF LineStep
  <2>6. QED BY <1>1, <1>4, <2>1, <2>2, <2>5, LineElsewhere
<1>5. \/ \A t \in Txs : entries'[t].tag = entries[t].tag /\ status'[t] = status[t]
      \/ q.id \in Txs /\ status[q.id] = "none" /\ Place(q.id, q.entry) /\ Register(q.id)
  <2>1. CASE UNCHANGED <<entries, status>>
    BY <2>1
  <2>2. CASE q.id \in Ids /\ Place(q.id, q.entry) /\ Register(q.id)
    <3>1. q.id \notin Txs
      BY <2>2, Named
    <3>2. QED BY <2>2, <3>1 DEF Place, Register, TypeInv, TypeOK
  <2>3. CASE q.id \in Txs /\ status[q.id] = "none" /\ Place(q.id, q.entry) /\ Register(q.id)
    BY <2>3
  <2>4. QED BY <1>2, <2>1, <2>2, <2>3 DEF MfDecides
<1>6. QED BY <1>3, <1>4, <1>5


LEMMA CheckedTags ==
  ASSUME TypeInv, NEW i, Checked(i)
  PROVE  \A t \in Ids \cup Txs : entries'[t].tag = entries[t].tag
<1>1. \A e \in Entry : [e EXCEPT !.checked = TRUE].tag = e.tag
  BY DEF Entry
<1>2. \A t \in Ids \cup Txs : entries[t] \in Entry
        /\ entries'[t] \in {entries[t], [entries[t] EXCEPT !.checked = TRUE]}
  BY DEF TypeInv, TypeOK, Checked
<1>3. QED BY <1>1, <1>2

\* A row that others write, to which nothing comes but what all others hand over to it.
LEMMA LineLedger ==
  ASSUME TypeInv, TypeInv', LineInv, NEW r \in Receipts, NEW new, rows' = [rows EXCEPT ![r] = new],
         UNCHANGED <<run, status, sent>>, \A t \in Txs : entries'[t].tag = entries[t].tag,
         Sound(new), Past(rows[r]) => Past(new), rows[r].jid # None => new.jid # None,
         rows[r].sync \in {"JOURNALIZING", "SYNCED", "REVERSING", "CREATING"} =>
           new.sync = rows[r].sync /\ new.tx = rows[r].tx /\ new.jid = rows[r].jid,
         new.sync = "JOURNALIZING" => rows[r].sync = "JOURNALIZING",
         \A t \in Txs : new.jid = t =>
           \/ rows[r].jid = t
           \/ entries[t].tag = r /\ ~Promised(t, r) /\ \A s \in Receipts \ {r} : Draws(s, t) => HandsOver(s, r)
  PROVE  LineInv'
<1>1. rows'[r] = new /\ (\A s \in Receipts \ {r} : rows'[s] = rows[s]) /\ new \in Row
  BY DEF TypeInv, TypeOK
<1>2. ASSUME NEW t \in Txs, DrawsOn(new, t)
      PROVE  \/ DrawsOn(rows[r], t)
             \/ entries[t].tag = r /\ ~Promised(t, r) /\ \A s \in Receipts \ {r} : Draws(s, t) => HandsOver(s, r)
  BY <1>2 DEF DrawsOn
<1>3. LineWrite(r, new)
  BY <1>1, <1>2 DEF LineWrite
<1>4. LineState'
  BY <1>3, LineRow DEF LineInv
<1>5. \A s \in Receipts, t \in Txs : Draws(s, t)' => Draws(s, t) \/ (s = r /\ DrawsOn(new, t))
  BY <1>1 DEF Draws, DrawsOn, Past, IsCancelled
<1>6. Outside
  BY <1>1, <1>2, <1>5 DEF Outside, Draws
<1>7. QED BY <1>4, <1>6, RunOutside DEF LineInv

LEMMA LineColumns ==
  ASSUME TypeInv, TypeInv', LineInv, NEW r \in Receipts,
         \/ CompleteReceipt(r) \/ Cancel(r) \/ DayPasses(r) \/ EditRow(r)
         \/ \E t \in Txs : OperatorTypesLine(r, t)
  PROVE  LineInv'
<1>1. PICK new : /\ rows' = [rows EXCEPT ![r] = new]
                 /\ new.sync = rows[r].sync /\ new.jid = rows[r].jid
                 /\ new.tx = rows[r].tx \/ \E t \in Txs : OperatorTypesLine(r, t)
                 /\ \/ new.exp = rows[r].exp
                    \/ CompleteReceipt(r) /\ new.exp = "COMPLETED"
                    \/ Cancel(r) /\ new.exp \in {"VOID", "CORRECTED"}
  BY ColumnCells
<1>2. UNCHANGED <<entries, status, sent, run>>
  BY DEF CompleteReceipt, Cancel, DayPasses, EditRow, OperatorTypesLine, ByHand, books
<1>3. IsCancelled(rows[r]) => IsCancelled(new)
  BY <1>1 DEF IsCancelled, CompleteReceipt, Cancel
<1>4. rows[r].sync \in {"JOURNALIZING", "SYNCED", "REVERSING", "CREATING"} => new.tx = rows[r].tx
  BY <1>1 DEF OperatorTypesLine
<1>5. Sound(new)
  BY <1>1, <1>3, <1>4 DEF Sound, LineInv, LineState
<1>6. Past(rows[r]) => Past(new)
  BY <1>1, <1>3 DEF Past
<1>7. QED BY <1>1, <1>2, <1>4, <1>5, <1>6, LineLedger

LEMMA LineRegistered ==
  ASSUME TypeInv, TypeInv', OnceInv, LineInv, NEW r \in Receipts, RegisterReceipt(r)
  PROVE  LineInv'
<1>1. PICK m \in Methods, a \in Amounts, d \in Days :
        rows' = [rows EXCEPT ![r] = [NoRow EXCEPT !.exp = "RECEIVED", !.method = m, !.amount = a, !.day = d]]
  BY DEF RegisterReceipt
<1> DEFINE new == [NoRow EXCEPT !.exp = "RECEIVED", !.method = m, !.amount = a, !.day = d]
<1>2. new.sync = None /\ new.jid = None
  BY DEF NoRow
<1>3. rows' = [rows EXCEPT ![r] = new]
  BY <1>1
<1> HIDE DEF new
<1>4. UNCHANGED <<entries, status, sent, run>>
  BY DEF RegisterReceipt, books
<1>5. rows[r].sync = None /\ rows[r].jid = None
  BY DEF RegisterReceipt, OnceInv, BooksInv, Unregistered
<1>6. Sound(new) /\ ~Past(rows[r])
  BY <1>2, <1>5, Named DEF Sound, Past, None
<1>7. \A t \in Txs : new.jid # t
  BY <1>2, Named
<1>8. QED BY <1>2, <1>3, <1>4, <1>5, <1>6, <1>7, LineLedger DEF None

LEMMA LineReset ==
  ASSUME TypeInv, TypeInv', LineInv, NEW r \in Receipts, OperatorResets(r)
  PROVE  LineInv'
<1> DEFINE old == rows[r]
           new == [old EXCEPT !.sync = ""]
<1>1. /\ rows' = [rows EXCEPT ![r] = new] /\ old.sync \in {"UNKNOWN", "ERROR", "NEEDS_REVIEW"}
      /\ old.exp = "COMPLETED" /\ (entries' = entries \/ Checked(old.jid))
      /\ UNCHANGED <<status, sent, run>>
  BY DEF OperatorResets, ByHand
<1>2. /\ new.sync = "" /\ new.jid = old.jid /\ new.exp = old.exp
  BY Parts DEF Row
<1> HIDE DEF new
<1>3. \A t \in Txs : entries'[t].tag = entries[t].tag
  BY <1>1, CheckedTags
<1>4. Sound(new) /\ ~Past(old)
  BY <1>1, <1>2 DEF Sound, Past, IsCancelled, LineInv, LineState
<1>5. QED BY <1>1, <1>2, <1>3, <1>4, LineLedger

LEMMA LineTypedIn ==
  ASSUME CorrectedOnce, TypeInv, TypeInv', LineInv, NEW r \in Receipts, OperatorTypesId(r)
  PROVE  LineInv'
<1> DEFINE old == rows[r]
<1>1. old.sync \in {"UNKNOWN", "NEEDS_REVIEW"} /\ old.jid = None /\ UNCHANGED <<status, sent, run>>
  BY DEF OperatorTypesId, ByHand
<1>2. PICK i \in Ids \cup Txs :
        /\ rows' = [rows EXCEPT ![r].jid = i]
        /\ \/ entries[i].tag = r /\ Checked(i)
           \/ i \in Ids /\ Place(i, EntryFor("hand", rows[r]))
  BY DEF OperatorTypesId
<1> DEFINE new == [old EXCEPT !.jid = i]
<1>3. rows' = [rows EXCEPT ![r] = new] /\ new.jid = i /\ new.sync = old.sync /\ rows'[r].jid = i
  BY <1>2, Parts DEF TypeInv, TypeOK, Row
<1> HIDE DEF new
<1>4. \A t \in Txs : entries'[t].tag = entries[t].tag
  <2>1. CASE Checked(i)
    BY <2>1, CheckedTags
  <2>2. CASE i \in Ids /\ Place(i, EntryFor("hand", rows[r]))
    BY <2>2, Named DEF Place, TypeInv, TypeOK
  <2>3. QED BY <1>2, <2>1, <2>2
<1>5. i \in Txs => entries[i].tag = r
  BY <1>2, Named
<1>6. ASSUME i \in Txs
      PROVE  ~Promised(i, r) /\ \A s \in Receipts \ {r} : Draws(s, i) => HandsOver(s, r)
  <2>1. ~Leaves(old)
    BY <1>1 DEF Leaves, Past
  <2>2. \A s \in Receipts \ {r} : Draws(s, i) => HandsOver(s, r)
    BY <1>5, <1>6, <2>1 DEF LineInv, LineState, MadeOut
  <2>3. ASSUME run.at = "put", Promised(i, r)
        PROVE  FALSE
    <3> DEFINE w == run.who
    <3>1. w \in Receipts /\ run.seen[w].jid = i /\ run.heir \notin {None, r} /\ run.heir \in Receipts
      BY <2>3 DEF Promised, TypeInv, TypeOK, Run
    <3>2. /\ rows[w].sync = "REVERSING" /\ rows[w].jid = i /\ run.heir # w
          /\ \A x \in Receipts \ {run.heir} : Draws(x, i) => HandsOver(x, run.heir)
      BY <1>6, <2>3, <3>1 DEF LineInv, LineRun, EntryFits
    <3>3. Draws(w, i) /\ w # r
      BY <1>1, <3>2 DEF Draws, DrawsOn, Past
    <3>4. w \in Ancestors(run.heir) /\ w \in Ancestors(r)
      BY <2>2, <3>1, <3>2, <3>3 DEF HandsOver
    <3>5. QED BY <3>1, <3>4 DEF CorrectedOnce
  <2>4. CASE run.at = "inherit"
    <3>1. run.who \in Receipts /\ run.seen[run.who].jid = i => run.heir = r
      BY <1>5, <1>6, <2>4 DEF LineInv, LineRun, EntryFits
    <3>2. QED BY <2>2, <3>1 DEF Promised
  <2>5. QED BY <2>2, <2>3, <2>4 DEF Promised
<1>7. Sound(new)
  BY <1>1, <1>3, <1>5, Named DEF Sound
<1>8. ~Past(old)
  BY <1>1 DEF Past
<1>9. \A t \in Txs : new.jid = t =>
        entries[t].tag = r /\ ~Promised(t, r) /\ \A s \in Receipts \ {r} : Draws(s, t) => HandsOver(s, r)
  BY <1>3, <1>5, <1>6
<1>10. old.sync \notin {"JOURNALIZING", "SYNCED", "REVERSING", "CREATING"} /\ new.sync # "JOURNALIZING"
  BY <1>1, <1>3
<1>11. QED BY <1>1, <1>3, <1>4, <1>7, <1>8, <1>9, <1>10, LineLedger

LEMMA LineWorld ==
  ASSUME CorrectedOnce, TypeInv, TypeInv', OnceInv, LineInv, World
  PROVE  LineInv'
BY LineArriving, LineSettled, LineDecides, LineColumns, LineRegistered, LineReset, LineTypedIn DEF World


-----------------------------------------------------------------------------
(* The phases, and the recovery of creations.                              *)

\* The ledger and MF are as they were.
LEMMA LineStill ==
  ASSUME LineInv, UNCHANGED <<rows, entries, status, sent>>, LineRun(run)'
  PROVE  LineInv'
BY DEF LineInv, LineState, Sound, OfLines, Flies, InTurn, Alone, MadeOut, Leaves, HandsOver, Draws, DrawsOn,
   Past, IsCancelled

LEMMA LineEnds ==
  ASSUME TypeInv, LineInv, RunEnds \/ OutOfBudget
  PROVE  LineInv'
<1>1. UNCHANGED <<rows, entries, status, sent>>
  BY DEF RunEnds, OutOfBudget, books
<1>2. CASE RunEnds
  BY <1>1, <1>2, IdleLines, LineStill DEF RunEnds
<1>3. CASE OutOfBudget
  <2>1. /\ run'.at = run.at /\ run'.pool = run.pool /\ run'.lines = {} /\ run'.todo = {}
        /\ run'.who = None /\ run.at \in {"maintain", "create", "rules", "human"} /\ run'.back = run.back
    BY <1>3 DEF OutOfBudget, TypeInv, TypeOK, Run
  <2>2. PoolFits(run)' /\ HumanFits(run)'
    BY <1>1, <2>1 DEF LineInv, LineRun, PoolFits, HumanFits
  <2>3. LineRun(run)'
    BY <2>1, <2>2, Named DEF LineRun
  <2>4. QED BY <1>1, <2>3, LineStill
<1>4. QED BY <1>2, <1>3

LEMMA LineEnter ==
  ASSUME TypeInv, LineInv,
         NEW p \in {"reverse", "maintain", "detect", "classify", "create", "rules", "human", "match"}, Enter(p),
         run.pool = {} \/ p \in {"rules", "human", "match"}
  PROVE  LineInv'
<1> DEFINE pool  == CASE p = "rules" -> Fetched
                      [] p = "match" -> run.pool \ run.ruled
                      [] OTHER -> run.pool
           ruled == IF p = "rules" THEN {t \in pool \ UsedTransactions(rows, None) : RuleOf[t] # None}
                                   ELSE run.ruled
           todo  == Todo(p, pool, ruled)
           seen  == IF todo = {} \/ p = "maintain" THEN Nothing ELSE rows
           lines == IF p = "rules"
                      THEN {t \in ruled : RuleOf[t] = "private" /\ Wanted(pool, t) = {}} ELSE {}
           to    == [Idle EXCEPT !.at = p, !.todo = todo, !.seen = seen, !.pool = pool,
                                 !.ruled = ruled, !.halted = run.halted, !.lines = lines]
<1>1. Goes(to)
  BY DEF Enter
<1>2. pool \subseteq run.pool \/ (p = "rules" /\ pool = {t \in Txs : status[t] = "none" /\ LineOf[t].day >= StartDay})
  BY DEF Fetched
<1>3. lines \subseteq pool
  OBVIOUS
<1>4. p = "human" => \A r \in todo : rows[r].sync = "NEEDS_REVIEW"
  BY DEF Todo, IsHumanTransactionRow
<1> HIDE DEF pool, ruled, todo, lines
<1>5. p = "human" => \A r \in todo : seen[r].sync = "NEEDS_REVIEW"
  BY <1>4
<1> HIDE DEF seen
<1>6. /\ to.at = p /\ to.todo = todo /\ to.seen = seen /\ to.pool = pool /\ to.lines = lines /\ to.who = None
  BY DEF Idle
<1> HIDE DEF to
<1>7. PoolFits(to)
  <2>1. run.pool \subseteq Txs /\ PoolFits(run)
    BY DEF TypeInv, TypeOK, Run, LineInv, LineRun
  <2>2. CASE pool \subseteq run.pool
    BY <1>3, <1>6, <2>1, <2>2 DEF PoolFits
  <2>3. CASE p = "rules" /\ pool = {t \in Txs : status[t] = "none" /\ LineOf[t].day >= StartDay}
    <3>1. \A t \in pool : t \in Txs /\ status[t] = "none" /\ entries[t].tag = None
      BY <2>3 DEF LineInv, LineState, OfLines
    <3>2. \A t \in pool, r \in Receipts : rows[r].jid # t /\ entries[t].tag # r
      BY <3>1, Named DEF LineInv, LineState, Sound
    <3>3. QED BY <1>3, <1>6, <2>3, <3>1, <3>2 DEF PoolFits
  <2>4. QED BY <1>2, <2>2, <2>3
<1>8. HumanFits(to)
  BY <1>5, <1>6 DEF HumanFits, MakingPlaces
<1>9. LineRun(to)
  BY <1>6, <1>7, <1>8, Named DEF LineRun
<1>10. QED BY <1>1, <1>9, LineGoes

LEMMA LinePhases ==
  ASSUME TypeInv, LineInv, SyncExpenses \/ EndOfPhase
  PROVE  LineInv'
<1>1. CASE SyncExpenses
  <2>1. run.pool = {}
    BY <1>1, NoPool DEF SyncExpenses, LineInv, PoolPlaces, MakingPlaces
  <2>2. QED BY <1>1, <2>1, LineEnter DEF SyncExpenses
<1>2. CASE EndOfPhase
  <2>1. PICK i \in 1..8 : run.at = Phases[i] /\ (IF i = 8 THEN Goes(Idle) ELSE Enter(Phases[i + 1]))
    BY <1>2, PhasePlaces DEF EndOfPhase
  <2>2. CASE i = 8
    BY <2>1, <2>2, IdleLines, LineGoes
  <2>3. CASE i # 8
    <3>1. Phases[i + 1] \in {"reverse", "maintain", "detect", "classify", "create", "rules", "human", "match"}
      BY <2>3 DEF Phases
    <3>2. i \in {5, 6, 7} => Phases[i + 1] \in {"rules", "human", "match"}
      BY DEF Phases
    <3>3. i \in {1, 2, 3, 4} => run.at \in {"reverse", "maintain", "detect", "classify"}
      BY <2>1 DEF Phases
    <3>4. i \in {1, 2, 3, 4} => run.pool = {}
      BY <3>3, NoPool DEF LineInv, PoolPlaces, MakingPlaces
    <3>5. QED BY <2>1, <2>3, <3>1, <3>2, <3>4, LineEnter
  <2>4. QED BY <2>2, <2>3
<1>3. QED BY <1>1, <1>2

\* The run after a row was read in the maintenance.
LEMMA LineReads ==
  ASSUME TypeInv, LineRun(run), NEW r \in Receipts, run.pool = {},
         NEW p \in {"recovered", "trace", "import", "cancel", "undo"}
  PROVE  LET to == Reads(r, p)
         IN  /\ to.at = p /\ to.who = r /\ to.id = None /\ to.seen[r] = rows[r] /\ to.pool = {}
             /\ to.back = None /\ to.rejected = FALSE /\ PoolFits(to) /\ HumanFits(to)
<1> DEFINE d == Done("maintain", r)
           s == [Nothing EXCEPT ![r] = rows[r]]
           to == [d EXCEPT !.at = p, !.who = r, !.todo = run.todo, !.seen = s]
<1>1. d \in Run /\ d.id = None /\ d.pool = {} /\ d.lines = run.lines /\ d.back = None /\ d.rejected = FALSE
  <2>1. d \in Run
    BY DoneTyped
  <2>2. QED BY <2>1 DEF Done, Idle
<1>2. s[r] = rows[r]
  BY IdleType
<1> HIDE DEF d, s
<1>3. /\ to.at = p /\ to.who = r /\ to.id = None /\ to.seen[r] = rows[r] /\ to.pool = {}
      /\ to.lines = run.lines /\ to.back = None /\ to.rejected = FALSE
  BY <1>1, <1>2 DEF Run
<1>4. Reads(r, p) = to
  BY DEF Reads, d, s
<1> HIDE DEF to
<1>5. PoolFits(to) /\ HumanFits(to)
  BY <1>3 DEF LineRun, PoolFits, HumanFits, None
<1>6. QED BY <1>3, <1>4, <1>5


\* A row goes to another state where no lines are at hand.
LEMMA LineMarks ==
  ASSUME TypeInv, LineInv, Admits', run.at \notin PoolPlaces, NEW r \in Receipts, NEW guard, NEW force,
         NEW state \in SyncStates \ {"JOURNALIZING"}, NEW err \in Errs, NEW yes, NEW no,
         guard => /\ ~Past(rows[r])
                  /\ state \in {"SYNCED", "REVERSING"} => rows[r].jid # None
                  /\ state \in {"REVERSING", "REVERSED"} => IsCancelled(rows[r])
                  /\ rows[r].sync = "REVERSING" => state \in {"REVERSED", "ERROR"}
                  /\ rows[r].sync = "JOURNALIZING" => ~Flies(rows[r].tx, r)
                  /\ LineRun(yes) /\ Silently(yes) /\ yes.pool \subseteq run.pool,
         LineRun(no), WriteIfCurrent(r, guard, force, InState(r, state, err), yes, no)
  PROVE  LineInv'
<1>1. LineState /\ \A new : PoolKeeps(r, new)
  BY NoPool DEF LineInv
<1>2. guard => LineFitting(r, InState(r, state, err))
  BY <1>1, LineInState
<1>3. QED BY <1>1, <1>2, LineWritesOn

LEMMA LineReverse ==
  ASSUME TypeInv, Admits, Admits', LineInv, NEW r \in Receipts, ReverseWithoutJournal(r)
  PROVE  LineInv'
<1> DEFINE guard == IsCancelled(rows[r]) /\ rows[r].sync = run.seen[r].sync /\ rows[r].jid = None
           done  == Done("reverse", r)
<1>1. WriteIfCurrent(r, guard, FALSE, InState(r, "REVERSED", None), done, done)
  BY DEF ReverseWithoutJournal
<1>2. run.at = "reverse" /\ run.at \notin PoolPlaces /\ r \in run.todo
  BY DEF ReverseWithoutJournal, Takes, PoolPlaces, MakingPlaces
<1>3. LineRun(done) /\ Silently(done) /\ done.pool \subseteq run.pool
  BY <1>2, LineDone, NoPool DEF LineInv
<1>4. run.seen[r].sync \in NoJournalStates
  BY <1>2 DEF Admits, Chosen
<1>5. guard => /\ ~Past(rows[r]) /\ rows[r].sync \notin {"REVERSING", "JOURNALIZING"} /\ IsCancelled(rows[r])
  BY <1>4 DEF Past, NoJournalStates
<1> HIDE DEF guard, done
<1>6. "REVERSED" \in SyncStates \ {"JOURNALIZING"} /\ None \in Errs
  BY States
<1>7. QED BY <1>1, <1>2, <1>3, <1>5, <1>6, LineMarks

LEMMA LineRecover ==
  ASSUME TypeInv, LineInv, NEW r \in Receipts, RecoverCreating(r)
  PROVE  LineInv'
<1> DEFINE to == Reads(r, "recovered")
<1>1. run.pool = {}
  BY NoPool DEF RecoverCreating, Takes, LineInv, PoolPlaces, MakingPlaces
<1>2. /\ to.at = "recovered" /\ to.who = r /\ to.id = None /\ to.pool = {}
      /\ PoolFits(to) /\ HumanFits(to) /\ to \in Run
  BY <1>1, LineReads, ReadsTyped DEF LineInv
<1>3. PICK i \in Ids \cup Txs \cup {None} : Goes([to EXCEPT !.id = i]) /\ (i # None => entries[i].tag = r)
  <2>1. \A i \in FindJournalsByTag(r, RecoverySearchDays(rows[r])) : i \in Ids \cup Txs /\ entries[i].tag = r
    BY DEF FindJournalsByTag
  <2>2. to = [to EXCEPT !.id = None]
    BY <1>2 DEF Run
  <2> HIDE DEF to
  <2>3. QED BY <2>1, <2>2 DEF RecoverCreating, to
<1> DEFINE s == [to EXCEPT !.id = i]
<1> HIDE DEF to
<1>4. /\ s.at = "recovered" /\ s.who = r /\ s.id = i /\ s.pool = to.pool /\ s.lines = to.lines
  BY <1>2 DEF Run
<1> HIDE DEF s
<1>5. PoolFits(s) /\ HumanFits(s)
  BY <1>2, <1>4 DEF PoolFits, HumanFits, MakingPlaces
<1>6. LineFits(s, r) /\ EntryFits(s, r)
  <2>1. LineFits(s, r)
    BY <1>4 DEF LineFits
  <2>2. s.id \in Txs => entries[s.id].tag = r
    BY <1>3, <1>4, Named
  <2>3. EntryFits(s, r)
    BY <1>4, <2>2 DEF EntryFits
  <2>4. QED BY <2>1, <2>3
<1>7. LineRun(s)
  BY <1>4, <1>5, <1>6 DEF LineRun
<1>8. Goes(s)
  BY <1>3 DEF s
<1>9. QED BY <1>7, <1>8, LineGoes

LEMMA LineRecovered ==
  ASSUME TypeInv, Admits', LineInv, NEW r \in Receipts, RecordRecovered(r)
  PROVE  LineInv'
<1> DEFINE again == Move("again")
           found == rows[r].sync \in {"CREATING", "UNKNOWN"}
           lost  == rows[r].sync = "CREATING"
<1>1. run.at = "recovered" /\ run.who = r /\ run.at \notin PoolPlaces
  BY DEF RecordRecovered, At, PoolPlaces, MakingPlaces
<1>2. run.pool = {} /\ \A new : PoolKeeps(r, new)
  BY <1>1, NoPool DEF LineInv
<1>3. LineRun(again) /\ Silently(again) /\ again.pool \subseteq run.pool
  BY <1>2, LineMove DEF LineInv
<1>4. \/ run.id # None /\ WriteIfCurrent(r, found, TRUE, Synced(r, run.id), again, again)
      \/ WriteIfCurrent(r, lost, FALSE, InState(r, "UNKNOWN", None), again, again)
      \/ Goes(again)
  BY DEF RecordRecovered
<1> HIDE DEF again
<1>5. CASE run.id # None /\ WriteIfCurrent(r, found, TRUE, Synced(r, run.id), again, again)
  <2> DEFINE new == Synced(r, run.id)
  <2>1. run.id \in Ids \cup Txs /\ (run.id \in Txs => entries[run.id].tag = r)
    BY <1>1, <1>5, Parts DEF LineInv, LineRun, EntryFits
  <2>2. new \in Row /\ new.sync = "SYNCED" /\ new.jid = run.id /\ new.exp = rows[r].exp
    BY <2>1, SyncedCells
  <2> HIDE DEF new
  <2>3. found => LineFitting(r, new)
    BY <2>1, <2>2, LineFound DEF LineInv
  <2> HIDE DEF found
  <2>4. WriteIfCurrent(r, found, TRUE, new, again, again)
    BY <1>5 DEF new
  <2>5. QED BY <1>2, <1>3, <2>3, <2>4, LineWritesOn DEF LineInv
<1>6. CASE WriteIfCurrent(r, lost, FALSE, InState(r, "UNKNOWN", None), again, again)
  <2>1. lost => ~Past(rows[r]) /\ rows[r].sync \notin {"REVERSING", "JOURNALIZING"}
    BY DEF Past
  <2> HIDE DEF lost
  <2>2. QED BY <1>1, <1>3, <1>6, <2>1, States, LineMarks
<1>7. QED BY <1>3, <1>4, <1>5, <1>6, LineGoes


LEMMA LineJournalizing ==
  ASSUME TypeInv, LineInv, NEW r \in Receipts, RecoverJournalizing(r)
  PROVE  LineInv'
<1> DEFINE to == Reads(r, "trace")
           s  == [to EXCEPT !.back = "again2"]
<1>1. run.pool = {}
  BY NoPool DEF RecoverJournalizing, Takes, At, LineInv, PoolPlaces, MakingPlaces
<1>2. /\ to.at = "trace" /\ to.who = r /\ to.seen[r] = rows[r] /\ to.pool = {} /\ to.rejected = FALSE
      /\ PoolFits(to) /\ HumanFits(to)
  BY <1>1, LineReads DEF LineInv
<1>3. to \in Run
  <2>1. "trace" \in Places
    BY DEF Places
  <2>2. QED BY <2>1, ReadsType
<1>4. rows[r].sync = "JOURNALIZING" /\ Goes(s)
  BY DEF RecoverJournalizing
<1> HIDE DEF to
<1>5. /\ s.at = "trace" /\ s.who = r /\ s.seen[r] = rows[r] /\ s.pool = {} /\ s.rejected = FALSE
      /\ s.lines = to.lines /\ s.back = "again2"
  BY <1>2, <1>3 DEF Run
<1> HIDE DEF s
<1>6. PoolFits(s) /\ HumanFits(s)
  BY <1>2, <1>5 DEF PoolFits, HumanFits
<1>7. LineFits(s, r)
  BY <1>4, <1>5 DEF LineFits
<1>8. EntryFits(s, r)
  BY <1>5 DEF EntryFits
<1>9. LineRun(s)
  BY <1>5, <1>6, <1>7, <1>8 DEF LineRun
<1>10. QED BY <1>4, <1>9, LineGoes

\* A run in front of a row it has just read.
LEMMA LineRead ==
  ASSUME NEW s, NEW r \in Receipts, s.who = r, s.seen[r] = rows[r], s.at \in {"import", "cancel", "undo"},
         PoolFits(s), HumanFits(s),
         s.at = "import" => rows[r].jid # None,
         s.at = "undo" => rows[r].sync = "REVERSING"
  PROVE  LineRun(s)
<1>1. LineFits(s, r)
  BY DEF LineFits
<1>2. EntryFits(s, r)
  BY DEF EntryFits
<1>3. QED BY <1>1, <1>2 DEF LineRun

LEMMA LineProcess ==
  ASSUME TypeInv, LineInv, NEW r \in Receipts, ProcessMaintenanceRow(r)
  PROVE  LineInv'
<1> DEFINE undo   == Reads(r, "undo")
           cancel == Reads(r, "cancel")
           to     == Reads(r, "import")
           id     == IF Live(rows[r].jid) THEN rows[r].jid ELSE None
           import == [to EXCEPT !.id = id]
           done   == Done("maintain", r)
<1>1. run.pool = {}
  BY NoPool DEF ProcessMaintenanceRow, Settles, Takes, At, LineInv, PoolPlaces, MakingPlaces
<1>2. /\ undo.at = "undo" /\ undo.who = r /\ undo.seen[r] = rows[r] /\ PoolFits(undo) /\ HumanFits(undo)
      /\ cancel.at = "cancel" /\ cancel.who = r /\ cancel.seen[r] = rows[r]
      /\ PoolFits(cancel) /\ HumanFits(cancel)
      /\ to.at = "import" /\ to.who = r /\ to.seen[r] = rows[r] /\ PoolFits(to) /\ HumanFits(to)
  BY <1>1, LineReads DEF LineInv
<1>3. LineRun(done)
  BY <1>1, LineDone DEF LineInv
<1>4. to \in Run
  BY ReadsTyped
<1>5. \/ rows[r].sync = "REVERSING" /\ Goes(undo)
      \/ Goes(cancel)
      \/ rows[r].jid # None /\ Goes(import)
      \/ Goes(done)
  BY DEF ProcessMaintenanceRow, IsImportCandidate
<1> HIDE DEF undo, cancel, to, id, done
<1>6. /\ import.at = "import" /\ import.who = r /\ import.seen[r] = rows[r]
      /\ import.pool = to.pool /\ import.lines = to.lines /\ import.back = to.back
  BY <1>2, <1>4 DEF Run
<1> HIDE DEF import
<1>7. PoolFits(import) /\ HumanFits(import)
  BY <1>2, <1>6 DEF PoolFits, HumanFits, MakingPlaces
<1>8. LineRun(cancel) /\ (rows[r].sync = "REVERSING" => LineRun(undo)) /\ (rows[r].jid # None => LineRun(import))
  BY <1>2, <1>6, <1>7, LineRead
<1>9. QED BY <1>3, <1>5, <1>8, LineGoes

LEMMA LineImport ==
  ASSUME TypeInv, Admits', LineInv, NEW r \in Receipts, ImportRow(r)
  PROVE  LineInv'
<1> DEFINE row   == run.seen[r]
           done  == Done("maintain", r)
           guard == rows[r].jid = row.jid /\ rows[r].sync \in ImportableStates
           state == IF row.sync = "UNKNOWN" THEN rows[r].sync ELSE "NEEDS_REVIEW"
           mark  == InState(r, state, row.jid)
           syn   == InState(r, "SYNCED", None)
           taken == [syn EXCEPT !.input = SummarizeSyncInput(row)]
<1>1. run.at = "import" /\ run.who = r /\ run.at \notin PoolPlaces
  BY DEF ImportRow, At, PoolPlaces, MakingPlaces
<1>2. run.pool = {} /\ \A new : PoolKeeps(r, new)
  BY <1>1, NoPool DEF LineInv
<1>3. LineRun(done) /\ Silently(done) /\ done.pool \subseteq run.pool
  BY <1>2, LineDone DEF LineInv
<1>4. row.jid # None /\ row \in Row /\ row.jid \in Errs
  BY <1>1, Parts DEF LineInv, LineRun, EntryFits, Errs
<1>5. guard => /\ ~Past(rows[r]) /\ rows[r].jid # None
               /\ rows[r].sync \notin {"REVERSING", "JOURNALIZING", "REVERSED"}
  BY <1>4 DEF Past, ImportableStates, NoJournalStates
<1>6. \/ WriteIfCurrent(r, guard, FALSE, taken, done, done)
      \/ WriteIfCurrent(r, guard, FALSE, mark, done, done)
  BY DEF ImportRow
<1>7. guard => /\ LineFitting(r, syn) /\ syn \in Row
               /\ syn.jid = rows[r].jid /\ syn.tx = rows[r].tx /\ syn.sync = "SYNCED" /\ syn.exp = rows[r].exp
  <2>1. "SYNCED" \in SyncStates \ {"JOURNALIZING"} /\ None \in Errs
    BY States
  <2>2. guard => LineFitting(r, syn)
    BY <1>5, <2>1, LineInState DEF LineInv
  <2>3. QED BY <2>1, <2>2, InStateCells
<1> HIDE DEF syn
<1>8. guard => LineFitting(r, taken)
  <2>1. SummarizeSyncInput(row) \in Input
    BY <1>4, SummaryType DEF SummarizeSyncInput, Row
  <2> DEFINE sum == SummarizeSyncInput(row)
  <2> HIDE DEF sum
  <2>2. guard => /\ taken \in Row /\ taken.jid = rows[r].jid /\ taken.tx = rows[r].tx
                 /\ taken.sync = "SYNCED" /\ taken.exp = rows[r].exp
    BY <1>7, <2>1 DEF Row, sum
  <2> HIDE DEF taken
  <2>3. QED BY <1>5, <2>2, LineMark DEF LineInv
<1>9. guard => LineFitting(r, mark)
  <2>1. guard => state \in SyncStates \ {"JOURNALIZING", "REVERSING", "REVERSED", "SYNCED"}
    BY States DEF ImportableStates, NoJournalStates
  <2> HIDE DEF state
  <2>2. QED BY <1>4, <1>5, <2>1, LineInState DEF LineInv
<1> HIDE DEF guard, taken, mark, done
<1>10. QED BY <1>2, <1>3, <1>6, <1>8, <1>9, LineWritesOn DEF LineInv

LEMMA LineCancel ==
  ASSUME TypeInv, Admits, Admits', LineInv, NEW r \in Receipts, CancelRow(r)
  PROVE  LineInv'
<1> DEFINE row     == run.seen[r]
           done    == Done("maintain", r)
           current == IsCancelled(rows[r]) /\ rows[r].sync = row.sync
           unknown == current /\ CancellationRoute(rows[r]) = "unknown"
           mark    == InState(r, "REVERSING", None)
           undo    == [Move("undo") EXCEPT !.seen[r] = mark]
<1>1. run.at = "cancel" /\ run.who = r /\ run.at \notin PoolPlaces
  BY DEF CancelRow, At, PoolPlaces, MakingPlaces
<1>2. run.pool = {} /\ \A new : PoolKeeps(r, new)
  BY <1>1, NoPool DEF LineInv
<1>3. LineRun(done) /\ Silently(done) /\ done.pool \subseteq run.pool
  BY <1>2, LineDone DEF LineInv
<1>4. /\ row.sync \in {"SYNCED"} \cup NoJournalStates
      /\ row.sync # "SYNCED" => row.jid # None /\ rows[r].jid # None
  <2>1. CancelledRowHasJournal(row)
    BY <1>1 DEF Admits, Chosen
  <2>2. row.jid # None => rows[r].jid # None
    BY <1>1 DEF LineInv, LineRun, EntryFits
  <2>3. QED BY <2>1, <2>2 DEF CancelledRowHasJournal
<1>5. current => /\ ~Past(rows[r]) /\ IsCancelled(rows[r]) /\ rows[r].jid # None
                 /\ rows[r].sync \notin {"REVERSING", "JOURNALIZING", "REVERSED"}
  BY <1>4 DEF Past, NoJournalStates, LineInv, LineState, Sound
<1>6. \/ WriteIfCurrent(r, unknown, FALSE, InState(r, "NEEDS_REVIEW", RouteUnknown), done, done)
      \/ Goes(done)
      \/ WriteIfCurrent(r, current, FALSE, mark, undo, done)
  BY DEF CancelRow
<1>7. CASE WriteIfCurrent(r, unknown, FALSE, InState(r, "NEEDS_REVIEW", RouteUnknown), done, done)
  <2>1. unknown => current
    OBVIOUS
  <2> HIDE DEF unknown, current, done
  <2>2. QED BY <1>1, <1>3, <1>5, <1>7, <2>1, States, LineMarks
<1>8. CASE WriteIfCurrent(r, current, FALSE, mark, undo, done)
  <2>0. "REVERSING" \in SyncStates /\ None \in Errs
    BY States
  <2>1. current => LineFitting(r, mark)
    BY <1>5, States, LineInState DEF LineInv
  <2>2. mark \in Row /\ mark.sync = "REVERSING" /\ mark.jid = rows[r].jid
    BY <2>0, InStateCells
  <2> HIDE DEF mark
  <2>3. /\ undo.at = "undo" /\ undo.who = r /\ undo.seen[r] = mark
        /\ undo.pool = run.pool /\ undo.lines = run.lines
    <3> DEFINE m == Move("undo")
    <3>1. m \in Run /\ m.at = "undo" /\ m.who = r /\ m.pool = run.pool /\ m.lines = run.lines
      BY <1>1, MoveType DEF TypeInv, TypeOK, Places, Run
    <3> HIDE DEF m
    <3>2. [m EXCEPT !.seen[r] = mark] = undo
      BY DEF m
    <3>3. QED BY <3>1, <3>2 DEF Run
  <2> HIDE DEF undo
  <2>5. ASSUME current, rows' = [rows EXCEPT ![r] = mark], run' = undo, UNCHANGED <<entries, status, sent>>
        PROVE  LineRun(run)'
    <3>1. rows'[r] = mark
      BY <2>5 DEF TypeInv, TypeOK
    <3>2. PoolFits(run)' /\ HumanFits(run)'
      BY <1>2, <2>3, <2>5 DEF LineInv, LineRun, PoolFits, HumanFits, MakingPlaces
    <3>3. LineFits(run, r)' /\ EntryFits(run, r)'
      BY <2>2, <2>3, <2>5, <3>1 DEF LineFits, EntryFits
    <3>4. QED BY <2>3, <2>5, <3>2, <3>3 DEF LineRun
  <2> HIDE DEF current, done
  <2>6. QED BY <1>3, <1>8, <2>1, <2>5, LineWrites DEF LineInv
<1>9. QED BY <1>3, <1>6, <1>7, <1>8, LineGoes


-----------------------------------------------------------------------------
(* The entry of a cancelled row.                                           *)

LEMMA LineFails ==
  ASSUME TypeInv, LineInv, Admits', run.at \notin PoolPlaces, NEW r \in Receipts,
         NEW err \in {None, RouteUnknown}, NEW to, LineRun(to), Silently(to), to.pool \subseteq run.pool,
         RowFails(r, err, to)
  PROVE  LineInv'
<1>1. WriteIfCurrent(r, rows[r].sync = "REVERSING", FALSE, InState(r, "ERROR", err), to, to)
  BY DEF RowFails
<1>2. rows[r].sync = "REVERSING" => ~Past(rows[r]) /\ rows[r].sync # "JOURNALIZING"
  BY DEF Past
<1>3. "ERROR" \in SyncStates \ {"JOURNALIZING"} /\ err \in Errs
  BY States
<1>4. QED BY <1>1, <1>2, <1>3, LineMarks

\* A call that rewrites the entry of row r.
LEMMA LineCalls ==
  ASSUME TypeInv, LineInv, NEW i \in Ids \cup Txs, NEW e, NEW then, NEW refused,
         i \in Txs => /\ entries[i].tag # None /\ e.tag # None
                      /\ \A s \in Receipts : e.tag = s =>
                           Leaves(rows[s]) \/ \A x \in Receipts \ {s} : Draws(x, i) => HandsOver(x, s),
         entries' = [entries EXCEPT ![i] = e] /\ run' = then /\ UNCHANGED <<rows, status, sent>>
           => LineRun(run)',
         LineRun(refused), CallsMf(i, e, then, refused)
  PROVE  LineInv'
<1>1. UNCHANGED <<rows, status, sent>>
  BY DEF CallsMf
<1>2. LineState'
  <2>1. \A t \in Txs : entries[t].tag # None => status[t] = "registered"
    BY DEF LineInv, LineState, OfLines
  <2>2. \A t \in Txs : entries'[t] = entries[t] \/ (t = i /\ entries'[t] = e)
    BY DEF CallsMf, Place, TypeInv, TypeOK
  <2>3. LineStep
    BY <1>1, <2>1, <2>2 DEF LineStep
  <2>4. QED BY <1>1, <2>3, LineBook DEF LineInv
<1>3. \/ entries' = [entries EXCEPT ![i] = e] /\ run' = then
      \/ entries' = entries /\ run' = refused
      \/ run' = Idle
  BY DEF CallsMf, Place
<1>4. CASE entries' = entries /\ run' = refused
  <2>1. run' = refused /\ UNCHANGED <<rows, entries, status, sent>>
    BY <1>1, <1>4
  <2>2. LineRun(run)'
    BY <2>1 DEF LineRun, PoolFits, HumanFits, LineFits, EntryFits, Flies, HandsOver, Draws, DrawsOn, Past,
       IsCancelled
  <2>3. QED BY <1>2, <2>2 DEF LineInv
<1>5. QED BY <1>1, <1>2, <1>3, <1>4, IdleLines DEF LineInv

\* Runs that know nothing of the entries either.
LEMMA SilentOn ==
  ASSUME NEW s, LineRun(s), Silently(s), s.pool = {}, run' = s, UNCHANGED <<rows, status, sent>>
  PROVE  LineRun(run)'
<1>1. PoolFits(run)' /\ HumanFits(run)' /\ Silently(run')
  BY DEF LineRun, PoolFits, HumanFits
<1>2. QED BY <1>1 DEF LineRun, LineFits, EntryFits, Silently, MakingPlaces

\* Who the entry of a cancelled row is to go to.
LEMMA HeirOf ==
  ASSUME NEW ledger, NEW row, NEW r \in Receipts
  PROVE  LET plan == PlanLinkedCancellation(ledger, row, r)
         IN  plan.kind # "done" /\ plan.heir # None =>
               \/ Holders(ledger, row, r) = {} /\ plan.heir \in DescendantsOf(ledger, r)
               \/ plan.heir \in Holders(ledger, row, r) /\ Untouched(ledger[plan.heir])
<1> DEFINE desc  == DescendantsOf(ledger, r)
           heirs == {d \in desc : ledger[d].exp = "COMPLETED"}
           last  == {d \in heirs : \A o \in heirs : o = d \/ o \in Ancestors(d)}
           held  == Holders(ledger, row, r)
           by    == CHOOSE d \in held : TRUE
           to    == CHOOSE d \in last : Inheritable(row, ledger[d])
           Plan(kind, heir) == [kind |-> kind, heir |-> heir]
           plan  == PlanLinkedCancellation(ledger, row, r)
<1>1. last \subseteq desc
  OBVIOUS
<1>2. held # {} => by \in held
  OBVIOUS
<1>3. (\E d \in last : Inheritable(row, ledger[d])) => to \in last
  OBVIOUS
<1> HIDE DEF held, last, by, to, desc, heirs
<1>4. \/ plan = Plan("void", None) \/ plan = Plan("wait", None) \/ plan = Plan("done", by)
      \/ held # {} /\ Untouched(ledger[by]) /\ plan = Plan("recover", by)
      \/ held = {} /\ (\E d \in last : Inheritable(row, ledger[d])) /\ plan = Plan("inherit", to)
  BY DEF PlanLinkedCancellation, desc, heirs, last, held, by, to
<1> HIDE DEF plan
<1>5. \/ plan.heir = None \/ plan.kind = "done"
      \/ plan.heir \in held /\ Untouched(ledger[plan.heir])
      \/ held = {} /\ plan.heir \in desc
  BY <1>1, <1>2, <1>3, <1>4
<1>6. QED BY <1>5 DEF plan, held, desc

\* All that have the entry hand it over to that receipt.
LEMMA HeirGetsIt ==
  ASSUME ChainsFit, TypeInv, OnceInv, LineInv, NEW r \in Receipts, NEW t \in Txs, NEW row, NEW h \in Receipts,
         row.jid = t, rows[r].sync = "REVERSING", rows[r].jid = t,
         \/ Holders(rows, row, r) = {} /\ h \in DescendantsOf(rows, r)
         \/ h \in Holders(rows, row, r) /\ Untouched(rows[h])
  PROVE  \A x \in Receipts \ {h} : Draws(x, t) => HandsOver(x, h)
<1> SUFFICES ASSUME NEW x \in Receipts \ {h}, Draws(x, t)
             PROVE  HandsOver(x, h)
  OBVIOUS
<1>1. Draws(r, t) /\ t # None
  BY Named DEF Draws, DrawsOn, Past
<1>2. \A a, b \in Receipts : Draws(a, t) /\ Draws(b, t) => a = b \/ HandsOver(a, b) \/ HandsOver(b, a)
  BY DEF LineInv, LineState, InTurn
<1>3. CASE Holders(rows, row, r) = {} /\ h \in DescendantsOf(rows, r)
  <2>1. r \in Ancestors(h)
    BY <1>3 DEF DescendantsOf
  <2>2. CASE x = r
    BY <2>1, <2>2 DEF HandsOver
  <2>3. CASE HandsOver(x, r)
    BY <2>1, <2>3 DEF ChainsFit, HandsOver
  <2>4. CASE x # r /\ HandsOver(r, x)
    <3>1. rows[x].sync # "JOURNALIZING" \/ rows[x].tx # t
      BY <1>1, <2>4 DEF LineInv, LineState, Alone
    <3>2. rows[x].jid = t
      BY <3>1 DEF Draws, DrawsOn
    <3>3. rows[x].exp # None
      BY <1>1, <3>2 DEF OnceInv, BooksInv, Unregistered
    <3>4. x \in Holders(rows, row, r)
      BY <1>1, <2>4, <3>2, <3>3 DEF Holders, DescendantsOf, HandsOver
    <3>5. QED BY <1>3, <3>4
  <2>5. QED BY <1>1, <1>2, <2>2, <2>3, <2>4
<1>4. CASE h \in Holders(rows, row, r) /\ Untouched(rows[h])
  <2>1. rows[h].jid = t /\ ~Past(rows[h]) /\ rows[h].sync # "REVERSING"
    BY <1>4 DEF Holders, Untouched, Past
  <2>2. Draws(h, t) /\ ~HandsOver(h, x)
    BY <2>1 DEF Draws, DrawsOn, HandsOver
  <2>3. QED BY <1>2, <2>2
<1>5. QED BY <1>3, <1>4

LEMMA LineFinish ==
  ASSUME ChainsFit, TypeInv, Admits', OnceInv, LineInv, NEW r \in Receipts, FinishReversal(r)
  PROVE  LineInv'
<1> DEFINE row  == run.seen[r]
           plan == PlanLinkedCancellation(rows, row, r)
           done == Done("maintain", r)
           seen == [rows EXCEPT ![r] = row]
           with == [Move("put") EXCEPT !.seen = seen, !.heir = plan.heir]
           fill == [with EXCEPT !.at = "fill"]
           undone == Move("undone")
           refused == Move("refused")
<1>1. run.at = "undo" /\ run.who = r /\ run.at \notin PoolPlaces
  BY DEF FinishReversal, At, PoolPlaces, MakingPlaces
<1>2. run.pool = {}
  BY <1>1, NoPool DEF LineInv
<1>3. /\ LineRun(done) /\ Silently(done) /\ done.pool \subseteq run.pool
      /\ LineRun(undone) /\ Silently(undone) /\ undone.pool = {}
      /\ LineRun(refused) /\ Silently(refused) /\ refused.pool = {}
  BY <1>2, LineDone, LineMove DEF LineInv
<1>4. rows[r].sync = "REVERSING" /\ rows[r].jid = row.jid /\ row.jid \in Ids \cup Txs \cup {None}
  BY <1>1, Parts DEF LineInv, LineRun, EntryFits
<1>5. plan.heir \in Receipts \cup {None}
  BY PlanType
<1>6. plan.kind # "done" /\ plan.heir # None /\ row.jid \in Txs =>
        \A x \in Receipts \ {plan.heir} : Draws(x, row.jid) => HandsOver(x, plan.heir)
  <2> SUFFICES ASSUME plan.kind # "done", plan.heir # None, row.jid \in Txs
               PROVE  \A x \in Receipts \ {plan.heir} : Draws(x, row.jid) => HandsOver(x, plan.heir)
    OBVIOUS
  <2>1. \/ Holders(rows, row, r) = {} /\ plan.heir \in DescendantsOf(rows, r)
        \/ plan.heir \in Holders(rows, row, r) /\ Untouched(rows[plan.heir])
    BY HeirOf
  <2> HIDE DEF plan, row
  <2>2. QED BY <1>4, <1>5, <2>1, HeirGetsIt
<1>7. plan.kind # "done" => plan.heir # r
  <2>1. plan.kind # "done" /\ plan.heir # None =>
          \/ Holders(rows, row, r) = {} /\ plan.heir \in DescendantsOf(rows, r)
          \/ plan.heir \in Holders(rows, row, r) /\ Untouched(rows[plan.heir])
    BY HeirOf
  <2> HIDE DEF plan, row
  <2>2. QED BY <2>1, Named DEF Holders, DescendantsOf
<1>8. /\ with.at = "put" /\ with.who = r /\ with.seen[r] = row /\ with.heir = plan.heir
      /\ with.pool = {} /\ with.lines = run.lines
      /\ fill.at = "fill" /\ fill.pool = {} /\ fill.lines = run.lines
  <2> DEFINE m == Move("put")
  <2>1. m \in Run /\ m.at = "put" /\ m.who = r /\ m.pool = {} /\ m.lines = run.lines
    BY <1>1, <1>2, MoveType DEF TypeInv, TypeOK, Places, Run
  <2>2. seen[r] = row
    BY DEF TypeInv, TypeOK
  <2> HIDE DEF m, seen, plan
  <2>3. with = [m EXCEPT !.seen = seen, !.heir = plan.heir]
    BY DEF m
  <2>4. QED BY <2>1, <2>2, <2>3 DEF Run
<1> HIDE DEF done, undone, refused, with, fill, plan
<1>9. /\ PoolFits(with) /\ HumanFits(with) /\ LineRun(fill)
  <2>1. run.lines \subseteq {t \in Txs : status[t] # "absent"}
    BY DEF LineInv, LineRun, PoolFits
  <2>2. PoolFits(with) /\ HumanFits(with) /\ PoolFits(fill) /\ HumanFits(fill)
    BY <1>8, <2>1 DEF PoolFits, HumanFits, MakingPlaces
  <2>3. Silently(fill)
    BY <1>8 DEF Silently, MakingPlaces
  <2>4. QED BY <2>2, <2>3, SilentRun
<1>10. plan.kind # "done" => LineRun(with)
  <2>1. LineFits(with, r)
    BY <1>8 DEF LineFits
  <2>2. plan.kind # "done" => EntryFits(with, r)
    BY <1>4, <1>6, <1>8, <1>7 DEF EntryFits
  <2>3. QED BY <1>8, <1>9, <2>1, <2>2 DEF LineRun
<1>11. \/ \E err \in {None, RouteUnknown} : RowFails(r, err, done)
       \/ row.jid # None /\ Live(row.jid) /\ CallsMf(row.jid, Deleted, undone, refused)
       \/ Goes(undone) \/ Goes(done) \/ (plan.kind # "done" /\ Goes(with)) \/ Goes(fill)
  <2>1. CASE row.jid = None
    BY <2>1 DEF FinishReversal, done
  <2>2. CASE row.jid # None /\ CancellationRoute(row) = "unknown"
    BY <2>2 DEF FinishReversal, done
  <2>3. CASE row.jid # None /\ CancellationRoute(row) = "delete"
    BY <2>3 DEF FinishReversal, undone, refused
  <2>4. CASE row.jid # None /\ CancellationRoute(row) = "put"
    <3>1. Goes(CASE plan.kind = "wait" -> done
                 [] plan.kind = "done" -> fill
                 [] OTHER -> IF Live(row.jid) THEN with ELSE undone)
      BY <2>4 DEF FinishReversal, done, with, fill, plan, undone
    <3>2. QED BY <3>1
  <2>5. QED BY <2>1, <2>2, <2>3, <2>4, Routes
<1>12. CASE row.jid # None /\ Live(row.jid) /\ CallsMf(row.jid, Deleted, undone, refused)
  <2>1. Deleted.tag = "deleted" /\ Deleted.tag # None /\ Deleted.tag \notin Receipts
    BY JournalBooksAssumption DEF Deleted, NoEntry, None
  <2>2. entries[row.jid].tag # None /\ row.jid \in Ids \cup Txs
    BY <1>4, <1>12 DEF Live
  <2>3. run' = undone /\ UNCHANGED <<rows, status, sent>> => LineRun(run)'
    BY <1>3, SilentOn
  <2> HIDE DEF row
  <2>4. QED BY <1>3, <1>12, <2>1, <2>2, <2>3, LineCalls
<1>13. QED BY <1>1, <1>3, <1>9, <1>10, <1>11, <1>12, LineFails, LineGoes


LEMMA LinePut ==
  ASSUME TypeInv, OnceInv, LineInv, NEW r \in Receipts, PutJournal(r)
  PROVE  LineInv'
<1> DEFINE id == run.seen[r].jid
           h  == run.heir
           inherit == Move("inherit")
           undone == Move("undone")
           refused == Move("refused")
<1>1. run.at = "put" /\ run.who = r
  BY DEF PutJournal, At
<1>2. run.pool = {}
  BY <1>1, NoPool DEF LineInv, PoolPlaces, MakingPlaces
<1>3. /\ LineRun(undone) /\ Silently(undone) /\ undone.pool = {} /\ LineRun(refused)
  BY <1>2, LineMove DEF LineInv
<1>4. /\ rows[r].sync = "REVERSING" /\ rows[r].jid = id /\ h # r
      /\ h # None /\ id \in Txs => \A x \in Receipts \ {h} : Draws(x, id) => HandsOver(x, h)
  BY <1>1 DEF LineInv, LineRun, EntryFits
<1>5. id \in Ids \cup Txs /\ (id \in Txs => entries[id].tag # None) /\ h \in Receipts \cup {None}
  <2>1. id # None /\ (id \in Txs => entries[id].tag # None)
    BY <1>4 DEF LineInv, LineState, Sound
  <2>2. QED BY <2>1, Parts DEF TypeInv, TypeOK, Run
<1>6. /\ inherit.at = "inherit" /\ inherit.who = r /\ inherit.seen = run.seen /\ inherit.heir = h
      /\ inherit.pool = {} /\ inherit.lines = run.lines
  BY <1>1, <1>2, MoveType DEF TypeInv, TypeOK, Places, Run
<1> HIDE DEF inherit, undone, refused
<1>7. CASE h = None
  <2> DEFINE e == [entries[id] EXCEPT !.tag = r, !.void = TRUE]
  <2>1. e.tag = r /\ e.tag # None
    BY <1>5, Named DEF TypeInv, TypeOK, Entry
  <2>2. CallsMf(id, e, undone, refused)
    BY <1>7 DEF PutJournal, undone, refused
  <2>3. Leaves(rows[r])
    BY <1>4 DEF Leaves
  <2>4. run' = undone /\ UNCHANGED <<rows, status, sent>> => LineRun(run)'
    BY <1>3, SilentOn
  <2> HIDE DEF e, id
  <2>5. QED BY <1>3, <1>5, <2>1, <2>2, <2>3, <2>4, LineCalls
<1>8. CASE h # None
  <2> DEFINE new == EntryFor(h, run.seen[h])
             e   == [new EXCEPT !.of = entries[id].of]
  <2>1. new \in Entry /\ new.tag = h /\ h \in Receipts
    BY <1>5, <1>8, Parts, RowEntryType
  <2> HIDE DEF new
  <2>2. e.tag = h /\ e.tag # None
    BY <1>8, <2>1 DEF Entry
  <2>3. CallsMf(id, e, inherit, refused)
    BY <1>8 DEF PutJournal, new, inherit, refused
  <2> HIDE DEF e
  <2>4. ASSUME entries' = [entries EXCEPT ![id] = e], run' = inherit, UNCHANGED <<rows, status, sent>>
        PROVE  LineRun(run)'
    <3>1. entries'[id] = e
      BY <1>5, <2>4 DEF TypeInv, TypeOK
    <3>2. PoolFits(run)' /\ HumanFits(run)'
      BY <1>2, <1>6, <2>4 DEF LineInv, LineRun, PoolFits, HumanFits, MakingPlaces
    <3>3. LineFits(run, r)'
      BY <1>6, <2>4 DEF LineFits
    <3>4. /\ \A x, t : Draws(x, t)' <=> Draws(x, t)
          /\ \A x, y : HandsOver(x, y)' <=> HandsOver(x, y)
      BY <2>4 DEF HandsOver, Draws, DrawsOn, Past, IsCancelled
    <3>5. EntryFits(run, r)'
      BY <1>4, <1>6, <1>8, <2>2, <2>4, <3>1, <3>4 DEF EntryFits
    <3>6. QED BY <1>6, <2>4, <3>2, <3>3, <3>5 DEF LineRun
  <2> HIDE DEF id
  <2>5. QED BY <1>3, <1>4, <1>5, <1>8, <2>2, <2>3, <2>4, LineCalls
<1>9. QED BY <1>7, <1>8

LEMMA LineInherit ==
  ASSUME TypeInv, Admits', OnceInv, LineInv, NEW r \in Receipts, Inherit(r)
  PROVE  LineInv'
<1> DEFINE h   == run.heir
           row == run.seen[r]
           syn == Synced(h, row.jid)
           sum == SummaryWithTx(run.seen[h], row.tx)
           new == [syn EXCEPT !.tx = row.tx, !.input = sum]
           guard == /\ rows[h].exp = "COMPLETED" /\ rows[h].jid \in {None, row.jid} /\ Untouched(rows[h])
                    /\ SummarizeSyncInput(rows[h]) = SummarizeSyncInput(run.seen[h])
           undone == Move("undone")
           done  == Done("maintain", r)
<1>1. run.at = "inherit" /\ run.who = r /\ h \in Receipts
  BY DEF TypeInv, TypeOK, Run, HandsOf, Inherit, At
<1>2. run.pool = {} /\ \A x : PoolKeeps(h, x)
  BY <1>1, NoPool DEF LineInv, PoolPlaces, MakingPlaces
<1>3. LineRun(undone) /\ Silently(undone) /\ undone.pool \subseteq run.pool /\ LineRun(done)
  BY <1>2, LineDone, LineMove DEF LineInv
<1>4. /\ rows[r].sync = "REVERSING" /\ rows[r].jid = row.jid
      /\ row.jid \in Txs => /\ entries[row.jid].tag = h
                           /\ \A x \in Receipts \ {h} : Draws(x, row.jid) => HandsOver(x, h)
  BY <1>1, Named DEF LineInv, LineRun, EntryFits
<1>5. row.jid # None /\ row.jid \in Ids \cup Txs /\ row.tx \in Txs \cup {None}
  <2>1. row.jid # None
    BY <1>4 DEF LineInv, LineState, Sound
  <2>2. row \in Row
    BY Parts
  <2>3. QED BY <2>1, <2>2 DEF Row
<1>6. syn \in Row /\ syn.sync = "SYNCED" /\ syn.jid = row.jid /\ syn.exp = rows[h].exp
  BY <1>1, <1>5, SyncedCells
<1>7. sum \in Input
  BY <1>1, <1>5, Parts, SummaryType
<1>8. WriteIfCurrent(h, guard, TRUE, new, undone, done)
  BY DEF Inherit
<1> HIDE DEF syn, sum, undone, done
<1>9. new \in Row /\ new.sync = "SYNCED" /\ new.jid = row.jid /\ new.exp = rows[h].exp
  BY <1>5, <1>6, <1>7 DEF Row
<1>10. guard => rows[h].sync \notin {"REVERSING", "REVERSED", "ERROR", "JOURNALIZING"}
  BY DEF Untouched
<1> HIDE DEF new, guard, h, row
<1>11. guard => LineFitting(h, new)
  <2>1. h # None /\ ~Past(new)
    BY <1>1, <1>9, Named DEF Past
  <2>2. Sound(new)
    BY <1>4, <1>5, <1>9, <2>1 DEF Sound
  <2>3. ASSUME NEW t \in Txs, DrawsOn(new, t)
        PROVE  entries[t].tag = h /\ \A x \in Receipts \ {h} : Draws(x, t) => HandsOver(x, h)
    <3>1. t = row.jid
      BY <1>9, <2>3 DEF DrawsOn
    <3>2. QED BY <1>4, <3>1
  <2>4. guard => ~Past(rows[h])
    BY <1>10 DEF Past
  <2>5. guard => LineWrite(h, new)
    BY <1>9, <1>10, <2>1, <2>2, <2>3, <2>4 DEF LineWrite
  <2>6. QED BY <1>5, <1>9, <1>10, <2>1, <2>5 DEF LineFitting
<1>12. QED BY <1>1, <1>2, <1>3, <1>8, <1>11, LineWritesOn DEF LineInv

LEMMA LineFill ==
  ASSUME TypeInv, Admits', LineInv, NEW r \in Receipts, FillHeir(r)
  PROVE  LineInv'
<1> DEFINE h   == run.heir
           row == run.seen[r]
           sum == SummaryWithTx(run.seen[h], row.tx)
           new == [rows[h] EXCEPT !.tx = row.tx, !.input = sum]
           guard == /\ rows[h].jid = row.jid /\ rows[h].sync = "SYNCED"
                    /\ ~HasInputChanged(rows[h])
           undone == Move("undone")
<1>1. run.at = "fill" /\ run.who = r /\ h \in Receipts
  BY DEF TypeInv, TypeOK, Run, HandsOf, FillHeir, At
<1>2. run.pool = {} /\ \A x : PoolKeeps(h, x)
  BY <1>1, NoPool DEF LineInv, PoolPlaces, MakingPlaces
<1>3. LineRun(undone) /\ Silently(undone) /\ undone.pool \subseteq run.pool
  BY <1>2, LineMove DEF LineInv
<1>4. sum \in Input /\ row.tx \in Txs \cup {None} /\ rows[h] \in Row
  <2>1. run.seen[h] \in Row /\ row.tx \in Txs \cup {None} /\ rows[h] \in Row
    BY <1>1, Parts DEF Row
  <2>2. QED BY <2>1, SummaryType
<1>5. \/ WriteIfCurrent(h, guard, FALSE, new, undone, undone)
      \/ Goes(undone)
  BY DEF FillHeir
<1>6. guard => rows[h].sync = "SYNCED"
  OBVIOUS
<1> HIDE DEF sum, undone
<1>7. new \in Row /\ new.sync = rows[h].sync /\ new.jid = rows[h].jid /\ new.exp = rows[h].exp
  BY <1>4 DEF Row
<1> HIDE DEF new, guard, h, row
<1>8. guard => LineFitting(h, new)
  <2>1. Sound(rows[h])
    BY <1>1 DEF LineInv, LineState
  <2>2. guard => Sound(new) /\ ~Past(rows[h]) /\ ~Past(new) /\ \A t : DrawsOn(new, t) => DrawsOn(rows[h], t)
    BY <1>6, <1>7, <2>1 DEF Sound, Past, DrawsOn
  <2>3. guard => LineWrite(h, new)
    BY <1>6, <1>7, <2>2 DEF LineWrite
  <2>4. QED BY <1>6, <1>7, <2>2, <2>3 DEF LineFitting
<1>9. QED BY <1>1, <1>2, <1>3, <1>5, <1>8, LineWritesOn, LineGoes DEF LineInv

LEMMA LineReversed ==
  ASSUME TypeInv, Admits', LineInv, NEW r \in Receipts, RecordReversed(r)
  PROVE  LineInv'
<1> DEFINE done == Done("maintain", r)
           guard == rows[r].sync = "REVERSING"
<1>1. run.at \in {"undone", "refused"} /\ run.at \notin PoolPlaces
  BY DEF RecordReversed, At, PoolPlaces, MakingPlaces
<1>2. LineRun(done) /\ Silently(done) /\ done.pool \subseteq run.pool
  BY <1>1, NoPool, LineDone DEF LineInv
<1>3. \/ WriteIfCurrent(r, guard, FALSE, InState(r, "REVERSED", None), done, done)
      \/ RowFails(r, None, done)
  BY DEF RecordReversed
<1>4. guard => ~Past(rows[r]) /\ IsCancelled(rows[r]) /\ rows[r].sync # "JOURNALIZING"
  BY DEF Past, LineInv, LineState, Sound
<1> HIDE DEF guard, done
<1>5. "REVERSED" \in SyncStates \ {"JOURNALIZING"} /\ None \in Errs
  BY States
<1>6. QED BY <1>1, <1>2, <1>3, <1>4, <1>5, LineMarks, LineFails


-----------------------------------------------------------------------------
(* Changed rows, new rows.                                                 *)

LEMMA MoveKeeps ==
  ASSUME TypeInv, NEW p \in Places
  PROVE  LET m == Move(p)
         IN  /\ m \in Run /\ m.at = p /\ m.who = run.who /\ m.todo = run.todo /\ m.seen = run.seen
             /\ m.id = run.id /\ m.line = run.line /\ m.heir = run.heir /\ m.pool = run.pool
             /\ m.lines = run.lines /\ m.back = run.back /\ m.rejected = run.rejected
BY MoveType DEF TypeInv, TypeOK, Run

LEMMA LineDetect ==
  ASSUME TypeInv, Admits', LineInv, NEW r \in Receipts, DetectChange(r)
  PROVE  LineInv'
<1> DEFINE done  == Done("detect", r)
           guard == rows[r].sync = "SYNCED" /\ HasInputChanged(rows[r])
<1>1. run.at \notin PoolPlaces
  BY DEF DetectChange, Takes, PoolPlaces, MakingPlaces
<1>2. LineRun(done) /\ Silently(done) /\ done.pool \subseteq run.pool
  BY <1>1, NoPool, LineDone DEF LineInv
<1>3. WriteIfCurrent(r, guard, FALSE, InState(r, "NEEDS_REVIEW", None), done, done)
  BY DEF DetectChange
<1>4. guard => ~Past(rows[r]) /\ rows[r].sync \notin {"REVERSING", "JOURNALIZING"}
  BY DEF Past
<1> HIDE DEF guard, done
<1>5. "NEEDS_REVIEW" \in SyncStates \ {"JOURNALIZING"} /\ None \in Errs
  BY States
<1>6. QED BY <1>1, <1>2, <1>3, <1>4, <1>5, LineMarks

LEMMA LineClassify ==
  ASSUME TypeInv, Admits, Admits', LineInv, NEW r \in Receipts, Classify(r)
  PROVE  LineInv'
<1> DEFINE done  == Done("classify", r)
           guard == rows[r].sync = run.seen[r].sync /\ rows[r].jid = None
           state == InitialStateFor(run.seen[r])
<1>1. run.at = "classify" /\ r \in run.todo /\ run.at \notin PoolPlaces
  BY DEF Classify, Takes, PoolPlaces, MakingPlaces
<1>2. LineRun(done) /\ Silently(done) /\ done.pool \subseteq run.pool
  BY <1>1, NoPool, LineDone DEF LineInv
<1>3. WriteIfCurrent(r, guard, FALSE, InState(r, state, None), done, done)
  BY DEF Classify
<1>4. run.seen[r].sync \in {"", "PENDING"}
  BY <1>1 DEF Admits, Chosen
<1>5. guard => ~Past(rows[r]) /\ rows[r].sync \notin {"REVERSING", "JOURNALIZING"}
  BY <1>4 DEF Past
<1>6. state \notin {"SYNCED", "REVERSING", "REVERSED", "JOURNALIZING"}
  BY <1>4 DEF InitialStateFor
<1>7. state \in SyncStates \ {"JOURNALIZING"} /\ None \in Errs
  BY <1>6, InitialStateType, Parts, States DEF Row
<1> HIDE DEF guard, done, state
<1>8. QED BY <1>1, <1>2, <1>3, <1>5, <1>6, <1>7, LineMarks

LEMMA LineSearch ==
  ASSUME TypeInv, LineInv, NEW r \in Receipts, SearchFirst(r)
  PROVE  LineInv'
<1> DEFINE mark == [Move("mark") EXCEPT !.who = r]
           adopt(i) == [Move("adopt") EXCEPT !.who = r, !.id = i]
<1>1. run.pool = {}
  BY NoPool DEF SearchFirst, Takes, LineInv, PoolPlaces, MakingPlaces
<1>2. "mark" \in Places /\ "adopt" \in Places
  BY DEF Places
<1>3. /\ mark.at = "mark" /\ mark.pool = {} /\ mark.lines = run.lines
  <2> DEFINE m == Move("mark")
  <2>1. m \in Run /\ m.at = "mark" /\ m.pool = {} /\ m.lines = run.lines
    BY <1>1, <1>2, MoveKeeps
  <2>2. QED BY <2>1 DEF Run
<1>4. ASSUME NEW i
      PROVE  /\ adopt(i).at = "adopt" /\ adopt(i).who = r /\ adopt(i).id = i
             /\ adopt(i).pool = {} /\ adopt(i).lines = run.lines
  <2> DEFINE m == Move("adopt")
  <2>1. m \in Run /\ m.at = "adopt" /\ m.pool = {} /\ m.lines = run.lines
    BY <1>1, <1>2, MoveKeeps
  <2>2. QED BY <2>1 DEF Run
<1>5. Goes(mark) \/ \E i \in Ids \cup Txs : entries[i].tag = r /\ Goes(adopt(i))
  BY DEF SearchFirst, FindJournalsByTag
<1> HIDE DEF mark
<1>6. run.lines \subseteq {t \in Txs : status[t] # "absent"}
  BY DEF LineInv, LineRun, PoolFits
<1>7. LineRun(mark)
  <2>1. PoolFits(mark) /\ HumanFits(mark) /\ Silently(mark)
    BY <1>3, <1>6 DEF PoolFits, HumanFits, Silently, MakingPlaces
  <2>2. QED BY <2>1, SilentRun
<1>8. ASSUME NEW i \in Ids \cup Txs, entries[i].tag = r, Goes(adopt(i))
      PROVE  LineInv'
  <2> DEFINE s == adopt(i)
  <2>1. /\ s.at = "adopt" /\ s.who = r /\ s.id = i /\ s.pool = {} /\ s.lines = run.lines
    BY <1>4
  <2>2. Goes(s)
    BY <1>8
  <2> HIDE DEF s
  <2>3. PoolFits(s) /\ HumanFits(s)
    BY <1>6, <2>1 DEF PoolFits, HumanFits, MakingPlaces
  <2>4. LineFits(s, r)
    BY <2>1 DEF LineFits
  <2>5. EntryFits(s, r)
    BY <1>8, <2>1 DEF EntryFits
  <2>6. LineRun(s)
    BY <2>1, <2>3, <2>4, <2>5 DEF LineRun
  <2>7. QED BY <2>2, <2>6, LineGoes
<1>9. QED BY <1>5, <1>7, <1>8, LineGoes

LEMMA LineAdopt ==
  ASSUME TypeInv, Admits', OnceInv, LineInv, NEW r \in Receipts, Adopt(r)
  PROVE  LineInv'
<1> DEFINE syn  == Synced(r, run.id)
           sum  == SummarizeSyncInput(run.seen[r])
           new  == [syn EXCEPT !.input = sum]
           done == Done("create", r)
           guard == rows[r].sync = "PENDING"
<1>1. run.at = "adopt" /\ run.who = r
  BY DEF Adopt, At
<1>2. run.pool = {} /\ \A x : PoolKeeps(r, x)
  BY <1>1, NoPool DEF LineInv, PoolPlaces, MakingPlaces
<1>3. LineRun(done) /\ Silently(done) /\ done.pool \subseteq run.pool
  BY <1>2, LineDone DEF LineInv
<1>4. WriteIfCurrent(r, guard, TRUE, new, done, done)
  BY DEF Adopt
<1>5. run.id \in Ids \cup Txs /\ (run.id \in Txs => entries[run.id].tag = r)
  <2>1. run.id # None
    BY <1>1 DEF OnceInv, RunInv, Knows
  <2>2. QED BY <1>1, <2>1, Parts DEF LineInv, LineRun, EntryFits
<1>6. syn \in Row /\ syn.sync = "SYNCED" /\ syn.jid = run.id /\ syn.exp = rows[r].exp
  BY <1>5, SyncedCells
<1>7. sum \in Input
  BY Parts, SummaryType
<1> HIDE DEF syn, sum, done
<1>8. new \in Row /\ new.sync = "SYNCED" /\ new.jid = run.id /\ new.exp = rows[r].exp
  BY <1>6, <1>7 DEF Row
<1> HIDE DEF new
<1>9. guard => LineFitting(r, new)
  BY <1>5, <1>8, LineFound DEF LineInv
<1> HIDE DEF guard
<1>10. QED BY <1>2, <1>3, <1>4, <1>9, LineWritesOn DEF LineInv

LEMMA LineMarkCreating ==
  ASSUME TypeInv, Admits', LineInv, NEW r \in Receipts, MarkCreating(r)
  PROVE  LineInv'
<1> DEFINE cre  == InState(r, "CREATING", None)
           sum  == SummarizeSyncInput(run.seen[r])
           mark == [cre EXCEPT !.aged = FALSE, !.input = sum]
           post == [Move("post") EXCEPT !.seen[r] = mark]
           done == Done("create", r)
           guard == /\ rows[r].sync = "PENDING" /\ rows[r].exp = "COMPLETED" /\ rows[r].jid = None
                    /\ DecideSyncTarget(rows[r]) = "ready" /\ rows[r].method = "cash"
                    /\ SummarizeSyncInput(rows[r]) = sum
<1>1. run.pool = {} /\ \A x : PoolKeeps(r, x)
  BY NoPool DEF MarkCreating, At, LineInv, PoolPlaces, MakingPlaces
<1>2. LineRun(done)
  BY <1>1, LineDone DEF LineInv
<1>3. WriteIfCurrent(r, guard, FALSE, mark, post, done)
  BY DEF MarkCreating
<1>4. /\ cre \in Row /\ cre.sync = "CREATING" /\ cre.jid = rows[r].jid /\ cre.tx = rows[r].tx
      /\ cre.exp = rows[r].exp
  <2>1. "CREATING" \in SyncStates /\ None \in Errs
    BY States
  <2>2. QED BY <2>1, InStateCells
<1>5. sum \in Input
  BY Parts, SummaryType
<1>6. guard => rows[r].sync = "PENDING"
  OBVIOUS
<1> HIDE DEF cre, sum, guard, done
<1>7. /\ mark \in Row /\ mark.sync = "CREATING" /\ mark.jid = rows[r].jid /\ mark.tx = rows[r].tx
      /\ mark.exp = rows[r].exp
  BY <1>4, <1>5 DEF Row
<1> HIDE DEF mark
<1>8. guard => LineFitting(r, mark)
  <2>1. guard => ~Past(rows[r])
    BY <1>6 DEF Past
  <2>2. QED BY <1>6, <1>7, <2>1, LineMark DEF LineInv
<1>9. post.at = "post" /\ post.pool = {} /\ post.lines = run.lines
  <2> DEFINE m == Move("post")
  <2>1. m \in Run /\ m.at = "post" /\ m.pool = {} /\ m.lines = run.lines
    <3>1. "post" \in Places
      BY DEF Places
    <3>2. QED BY <1>1, <3>1, MoveKeeps
  <2>2. QED BY <2>1 DEF Run
<1> HIDE DEF post
<1>10. LineRun(post) /\ Silently(post)
  <2>1. PoolFits(post) /\ HumanFits(post) /\ Silently(post)
    BY <1>9 DEF LineInv, LineRun, PoolFits, HumanFits, Silently, MakingPlaces
  <2>2. QED BY <2>1, SilentRun
<1>11. post.pool \subseteq run.pool
  BY <1>9
<1>12. QED BY <1>1, <1>2, <1>3, <1>8, <1>10, <1>11, LineWritesOn DEF LineInv


\* What a step in MF leaves of a run of which nothing is said but of its lines.
LEMMA SilentAfter ==
  ASSUME TypeInv, NEW s, LineRun(s), Silently(s), run' = s, rows' = rows,
         \A t \in Txs : status'[t] = "absent" => status[t] = "absent",
         \A t \in s.pool, r \in Receipts : entries'[t].tag = r => entries[t].tag = r
  PROVE  LineRun(run)'
<1>1. PoolFits(s) /\ HumanFits(s)
  BY DEF LineRun
<1>2. PoolFits(run)'
  BY <1>1 DEF PoolFits
<1>3. HumanFits(run)' /\ Silently(run')
  BY <1>1 DEF HumanFits
<1>4. QED BY <1>2, <1>3 DEF LineRun, LineFits, EntryFits, Silently, MakingPlaces

\* The same run, with no more calls to make.
LEMMA LineHalted ==
  ASSUME NEW s \in Run, LineRun(s), Silently(s)
  PROVE  LET h == [s EXCEPT !.halted = TRUE]
         IN  LineRun(h) /\ Silently(h) /\ h.pool = s.pool
<1> DEFINE h == [s EXCEPT !.halted = TRUE]
<1>1. /\ h.at = s.at /\ h.pool = s.pool /\ h.lines = s.lines /\ h.todo = s.todo /\ h.who = s.who
      /\ h.seen = s.seen /\ h.back = s.back
  BY DEF Run
<1> HIDE DEF h
<1>2. PoolFits(h) /\ HumanFits(h) /\ Silently(h)
  BY <1>1 DEF LineRun, PoolFits, HumanFits, Silently
<1>3. LineRun(h)
  BY <1>2, SilentRun
<1>4. QED BY <1>1, <1>2, <1>3 DEF h

\* A creation that is given up.
LEMMA LineGivesUp ==
  ASSUME TypeInv, LineInv, NEW i \in Ids \cup Txs, NEW e, NEW to \in Run, LineRun(to), Silently(to),
         i \in Txs => /\ status[i] # "absent" /\ e.tag # None
                      /\ e.tag \in Receipts => rows[e.tag].sync = "JOURNALIZING" /\ rows[e.tag].tx = i,
         GivesUp(i, e, to)
  PROVE  LineInv'
<1> DEFINE h == [to EXCEPT !.halted = TRUE]
           q == [id |-> i, entry |-> e]
<1>1. UNCHANGED <<rows, entries, status>> /\ sent' = sent \cup {q} /\ run' = h
  BY DEF GivesUp
<1>2. LineRun(h) /\ Silently(h)
  BY LineHalted
<1> HIDE DEF h
<1>3. LineStep
  <2>1. q.id = i /\ q.entry = e
    OBVIOUS
  <2> HIDE DEF q
  <2>2. QED BY <1>1, <2>1 DEF LineStep
<1>4. LineState'
  BY <1>1, <1>3, LineBook DEF LineInv
<1>5. LineRun(run)'
  BY <1>1, <1>2, SilentAfter
<1>6. QED BY <1>4, <1>5 DEF LineInv

LEMMA LinePost ==
  ASSUME TypeInv, OnceInv, LineInv, NEW r \in Receipts, PostJournal(r)
  PROVE  LineInv'
<1> DEFINE e == EntryFor(r, run.seen[r])
           done == Done("create", r)
           entered(i) == [Move("entered") EXCEPT !.id = i, !.back = "create"]
<1>1. run.at = "post" /\ run.who = r /\ rows[r].sync = "CREATING"
  BY PostKnows DEF PostJournal, At
<1>2. run.pool = {}
  BY <1>1, NoPool DEF LineInv, PoolPlaces, MakingPlaces
<1>3. /\ LineRun(Move("rejected")) /\ LineRun(Move("limited"))
      /\ LineRun(done) /\ Silently(done) /\ done \in Run
  BY <1>2, LineMove, LineDone, DoneTyped DEF LineInv
<1>4. ASSUME NEW i \in Ids, Place(i, e), Register(i), run' = entered(i), UNCHANGED <<rows, sent>>
      PROVE  LineInv'
  <2>1. i \notin Txs
    BY Named
  <2>2. status' = status /\ \A t \in Txs : entries'[t] = entries[t]
    BY <1>4, <2>1 DEF Place, Register, TypeInv, TypeOK
  <2>3. LineStep
    BY <1>4, <2>2 DEF LineStep
  <2>4. LineState'
    BY <1>4, <2>3, LineBook DEF LineInv
  <2>5. /\ run'.at = "entered" /\ run'.who = r /\ run'.id = i /\ run'.pool = {} /\ run'.lines = run.lines
        /\ run'.back = "create"
    <3> DEFINE m == Move("entered")
    <3>1. m \in Run /\ m.at = "entered" /\ m.who = r /\ m.pool = {} /\ m.lines = run.lines
      <4>1. "entered" \in Places
        BY DEF Places
      <4>2. QED BY <1>1, <1>2, <4>1, MoveKeeps
    <3> HIDE DEF m
    <3>2. run' = [m EXCEPT !.id = i, !.back = "create"]
      BY <1>4 DEF m
    <3>3. QED BY <3>1, <3>2 DEF Run
  <2>6. PoolFits(run)' /\ HumanFits(run)'
    BY <2>2, <2>5 DEF LineInv, LineRun, PoolFits, HumanFits
  <2>7. LineFits(run, r)'
    BY <1>1, <1>4, <2>1, <2>5 DEF LineFits
  <2>8. EntryFits(run, r)'
    BY <2>5 DEF EntryFits
  <2>9. QED BY <2>4, <2>5, <2>6, <2>7, <2>8 DEF LineInv, LineRun
<1>5. ASSUME NEW i \in Ids, GivesUp(i, e, done)
      PROVE  LineInv'
  <2>1. i \notin Txs
    BY Named
  <2> HIDE DEF e, done
  <2>2. QED BY <1>3, <1>5, <2>1, LineGivesUp
<1>6. QED BY <1>3, <1>4, <1>5, LineGoes DEF PostJournal

LEMMA LineRefused ==
  ASSUME TypeInv, Admits', LineInv, NEW r \in Receipts, RecordRefused(r)
  PROVE  LineInv'
<1> DEFINE done  == Done("create", r)
           guard == rows[r].sync = "CREATING"
           new   == [rows[r] EXCEPT !.sync = "PENDING"]
<1>1. run.at \in {"rejected", "limited"} /\ run.at \notin PoolPlaces
  BY DEF RecordRefused, At, PoolPlaces, MakingPlaces
<1>2. run.pool = {} /\ \A x : PoolKeeps(r, x)
  BY <1>1, NoPool DEF LineInv
<1>3. LineRun(done) /\ Silently(done) /\ done.pool \subseteq run.pool
  BY <1>2, LineDone DEF LineInv
<1>4. LineRun(Idle) /\ Silently(Idle) /\ Idle.pool \subseteq run.pool
  BY <1>2, IdleLines DEF Idle, Silently, MakingPlaces
<1>5. \/ WriteIfCurrent(r, guard, FALSE, InState(r, "ERROR", None), done, done)
      \/ WriteIfCurrent(r, guard, FALSE, new, Idle, Idle)
  BY DEF RecordRefused
<1>6. guard => ~Past(rows[r]) /\ rows[r].sync \notin {"REVERSING", "JOURNALIZING"}
  BY DEF Past
<1>7. /\ new \in Row /\ new.sync = "PENDING" /\ new.jid = rows[r].jid /\ new.tx = rows[r].tx
      /\ new.exp = rows[r].exp
  BY Parts, States DEF Row
<1> HIDE DEF guard, done, new
<1>8. guard => LineFitting(r, new)
  BY <1>6, <1>7, LineMark DEF LineInv
<1>9. "ERROR" \in SyncStates \ {"JOURNALIZING"} /\ None \in Errs
  BY States
<1>10. QED BY <1>1, <1>2, <1>3, <1>4, <1>5, <1>6, <1>8, <1>9, LineMarks, LineWritesOn DEF LineInv

-----------------------------------------------------------------------------
(* Statement lines.                                                        *)

LEMMA LineEntered ==
  ASSUME TypeInv, Admits', OnceInv, LineInv, NEW r \in Receipts, RecordEntered(r)
  PROVE  LineInv'
<1> DEFINE new == Synced(r, run.id)
           back == Back(r)
<1>1. run.at = "entered" /\ run.who = r
  BY DEF RecordEntered, At
<1>2. run.back # None
  BY <1>1 DEF TypeInv, HandsOf
<1>3. LineRun(back) /\ Silently(back) /\ back.pool \subseteq run.pool
  BY <1>1, <1>2, LineBack DEF LineInv, MakingPlaces
<1>4. WriteIfCurrent(r, TRUE, TRUE, new, back, back)
  BY DEF RecordEntered
<1>5. run.id \in Ids \cup Txs
  <2>1. run.id # None
    BY <1>1 DEF OnceInv, RunInv, Knows
  <2>2. QED BY <2>1, Parts
<1>6. /\ run.id \in Txs => rows[r].sync = "JOURNALIZING" /\ rows[r].tx = run.id /\ entries[run.id].tag # None
      /\ run.id \notin Txs => rows[r].sync = "CREATING"
  BY <1>1 DEF LineInv, LineRun, LineFits
<1>7. /\ new \in Row /\ new.sync = "SYNCED" /\ new.jid = run.id /\ new.tx = rows[r].tx
      /\ new.exp = rows[r].exp
  BY <1>5, SyncedCells
<1> HIDE DEF new, back
<1>8. LineFitting(r, new)
  <2>1. CASE run.id \in Txs
    BY <1>6, <1>7, <2>1, LineMade DEF LineInv
  <2>2. CASE run.id \notin Txs
    BY <1>5, <1>6, <1>7, <2>2, LineFound DEF LineInv
  <2>3. QED BY <2>1, <2>2
<1>9. PoolKeeps(r, new)
  BY <1>6, <1>7 DEF LineInv, LineRun, PoolFits, PoolKeeps
<1>10. QED BY <1>3, <1>4, <1>8, <1>9, LineWritesOn DEF LineInv

\* A row whose line is not at hand may be written.
LEMMA PoolStays ==
  ASSUME LineRun(run), NEW r \in Receipts, NEW new, new.jid = rows[r].jid,
         rows[r].sync \notin {"JOURNALIZING", "SYNCED"}
  PROVE  PoolKeeps(r, new)
BY DEF LineRun, PoolFits, PoolKeeps

LEMMA LineConflict ==
  ASSUME TypeInv, Admits', LineInv, NEW r \in Receipts, HoldRuleConflict(r)
  PROVE  LineInv'
<1> DEFINE done  == Done("rules", r)
           guard == rows[r].sync = "WAITING_TRANSACTION" /\ rows[r].jid = None
           new   == InState(r, "NEEDS_REVIEW", None)
<1>1. LineRun(done) /\ Silently(done) /\ done.pool \subseteq run.pool
  BY LineDone DEF LineInv
<1>2. WriteIfCurrent(r, guard, FALSE, new, done, done)
  BY DEF HoldRuleConflict
<1>3. guard => ~Past(rows[r]) /\ rows[r].sync = "WAITING_TRANSACTION"
  BY DEF Past
<1> HIDE DEF guard, done
<1>4. "NEEDS_REVIEW" \in SyncStates \ {"JOURNALIZING"} /\ None \in Errs
  BY States
<1>5. guard => LineFitting(r, new) /\ new.jid = rows[r].jid
  BY <1>3, <1>4, LineInState DEF LineInv
<1> HIDE DEF new
<1>6. guard => PoolKeeps(r, new)
  BY <1>3, <1>5, PoolStays DEF LineInv
<1>7. QED BY <1>1, <1>2, <1>5, <1>6, LineWritesOn DEF LineInv

LEMMA LineByRule ==
  ASSUME TypeInv, LineInv, NEW t \in Txs, JournalizeByRule(t)
  PROVE  LineInv'
<1> DEFINE on == [run EXCEPT !.lines = @ \ {t}]
           e  == EntryFor("private", LineOf[t])
<1>1. run.at = "rules" /\ t \in run.lines
  BY DEF JournalizeByRule
<1>2. /\ on \in Run /\ on.at = "rules" /\ on.pool = run.pool /\ on.lines \subseteq run.lines
      /\ on.back = run.back
  BY <1>1 DEF TypeInv, TypeOK, Run
<1>3. \/ Creatable(t) /\ Place(t, e) /\ Register(t) /\ run' = on /\ UNCHANGED <<rows, sent>>
      \/ GivesUp(t, e, on)
      \/ Goes(on)
  BY DEF JournalizeByRule
<1> HIDE DEF on
<1>4. LineRun(on) /\ Silently(on)
  <2>1. PoolFits(on) /\ HumanFits(on) /\ Silently(on)
    BY <1>1, <1>2 DEF LineInv, LineRun, PoolFits, HumanFits, Silently, MakingPlaces
  <2>2. QED BY <2>1, SilentRun
<1>5. e.tag = "private" /\ e.tag \notin Receipts /\ e.tag # None
  BY JournalBooksAssumption DEF EntryFor, NoEntry, None
<1> HIDE DEF e
<1>6. status[t] # "absent"
  BY <1>1 DEF LineInv, LineRun, PoolFits
<1>7. CASE Creatable(t) /\ Place(t, e) /\ Register(t) /\ run' = on /\ UNCHANGED <<rows, sent>>
  <2>1. \A x \in Txs \ {t} : entries'[x] = entries[x] /\ status'[x] = status[x]
    BY <1>7 DEF Place, Register, TypeInv, TypeOK
  <2>2. entries'[t] = e /\ status'[t] = "registered"
    BY <1>7 DEF Place, Register, TypeInv, TypeOK
  <2>3. LineStep
    BY <1>5, <1>7, <2>1, <2>2 DEF LineStep
  <2>4. LineState'
    BY <1>7, <2>3, LineBook DEF LineInv
  <2>5. \A x \in on.pool, r \in Receipts : entries'[x].tag = r => entries[x].tag = r
    <3>1. on.pool \subseteq Txs
      BY <1>2 DEF Run
    <3>2. QED BY <1>5, <2>1, <2>2, <3>1
  <2>6. LineRun(run)'
    BY <1>4, <1>7, <2>1, <2>2, <2>5, SilentAfter
  <2>7. QED BY <2>4, <2>6 DEF LineInv
<1>8. CASE GivesUp(t, e, on)
  BY <1>2, <1>4, <1>5, <1>6, <1>8, LineGivesUp
<1>9. QED BY <1>3, <1>4, <1>7, <1>8, LineGoes


\* A row is claimed for a line that was fetched: the readings of the ledger under the lock
\* show that nobody else draws on it.
LEMMA LineStart ==
  ASSUME TypeInv, Admits', LineInv, NEW r \in Receipts, NEW t \in run.pool, NEW auto \in BOOLEAN,
         run.at \in {"human", "match"}, run.at = "match" => auto, run.who = None, r \in run.todo,
         StartJournalize(r, t, auto)
  PROVE  LineInv'
<1> DEFINE mark == Claimed(r, t)
           m    == Move("send")
           send == [m EXCEPT !.who = r, !.seen[r] = mark, !.back = run.at]
           done == Done(run.at, r)
           guard == /\ rows[r].sync = run.seen[r].sync /\ rows[r].exp = "COMPLETED"
                    /\ rows[r].jid = None /\ CanTransition(rows[r].sync, "JOURNALIZING")
                    /\ DecideSyncTarget(rows[r]) = "ready" /\ rows[r].method = run.seen[r].method
                    /\ rows[r].tx \in {None, t}
                    /\ SummaryWithTx(rows[r], t) = SummaryWithTx(run.seen[r], t)
                    /\ t \notin UsedTransactions(rows, r)
                    /\ (auto => Matched(rows, LineOf, run.pool, r) = {t})
<1>1. t \in Txs /\ r # None /\ status[t] # "absent" /\ t # None
  <2>1. t \in Txs
    BY DEF TypeInv, TypeOK, Run
  <2>2. QED BY <2>1, Named DEF LineInv, LineRun, PoolFits
<1>2. LineRun(done)
  BY LineDone DEF LineInv
<1>3. WriteIfCurrent(r, guard, FALSE, mark, send, done)
  BY DEF StartJournalize
<1>4. ASSUME guard
      PROVE  rows[r].jid = None /\ rows[r].sync \in {"WAITING_TRANSACTION", "NEEDS_REVIEW"}
  <2>1. CASE run.at = "human"
    <3>1. run.seen[r].sync = "NEEDS_REVIEW"
      BY <1>1, <2>1, Named DEF LineInv, LineRun, HumanFits
    <3>2. QED BY <1>4, <3>1
  <2>2. CASE run.at = "match"
    <3>1. t \in Matched(rows, LineOf, run.pool, r)
      BY <1>4, <2>2
    <3>2. r \in Contenders(rows, LineOf, run.pool, t)
      BY <3>1 DEF Matched
    <3>3. IsWaitingForTransaction(rows, r)
      BY <3>2 DEF Contenders
    <3>4. QED BY <1>4, <3>3 DEF IsWaitingForTransaction
  <2>3. QED BY <2>1, <2>2
<1>5. ASSUME guard
      PROVE  \A s \in Receipts \ {r} : ~Draws(s, t) /\ entries[t].tag # s
  <2> SUFFICES ASSUME NEW s \in Receipts \ {r}, Draws(s, t) \/ entries[t].tag = s
               PROVE  FALSE
    OBVIOUS
  <2>1. rows[s].sync \in {"JOURNALIZING", "SYNCED"} /\ rows[s].tx = t
    BY DEF Draws, DrawsOn, LineInv, LineRun, PoolFits
  <2>2. t \in UsedTransactions(rows, r)
    BY <1>1, <2>1 DEF UsedTransactions, UsedTransactionStates
  <2>3. QED BY <1>5, <2>2
<1>6. ASSUME guard
      PROVE  \A x \in run.pool : entries[x].tag # r
  BY <1>4, <1>6 DEF LineInv, LineRun, PoolFits
<1> HIDE DEF guard
<1>7. /\ mark \in Row /\ mark.sync = "JOURNALIZING" /\ mark.tx = t /\ mark.jid = rows[r].jid
      /\ mark.exp = rows[r].exp
  BY <1>1, ClaimedCells
<1> HIDE DEF mark, done
<1>8. guard => LineFitting(r, mark)
  <2> SUFFICES ASSUME guard PROVE LineFitting(r, mark)
    OBVIOUS
  <2>1. ~Past(rows[r]) /\ ~Past(mark)
    BY <1>4, <1>7 DEF Past
  <2>2. Sound(mark)
    BY <1>1, <1>4, <1>7, Named DEF Sound
  <2>3. \A x \in Txs : DrawsOn(mark, x) => x = t
    BY <1>4, <1>7, Named DEF DrawsOn
  <2>4. LineWrite(r, mark)
    BY <1>4, <1>5, <1>7, <2>1, <2>2, <2>3 DEF LineWrite
  <2>5. QED BY <1>4, <1>7, <2>1, <2>4 DEF LineFitting
<1>9. /\ send.at = "send" /\ send.who = r /\ send.seen[r] = mark /\ send.back = run.at
      /\ send.pool = run.pool /\ send.lines = run.lines /\ send.todo = run.todo
      /\ \A x \in Receipts \ {r} : send.seen[x] = run.seen[x]
  <2>1. "send" \in Places
    BY DEF Places
  <2>2. /\ m \in Run /\ m.at = "send" /\ m.seen = run.seen /\ m.pool = run.pool /\ m.lines = run.lines
        /\ m.todo = run.todo
    BY <2>1, MoveKeeps
  <2> HIDE DEF m
  <2>3. QED BY <2>2 DEF Run
<1> HIDE DEF send
<1>10. PoolFits(send)
  BY <1>9 DEF LineInv, LineRun, PoolFits, MakingPlaces
<1>11. ASSUME guard, rows' = [rows EXCEPT ![r] = mark], run' = send, UNCHANGED <<entries, status, sent>>
       PROVE  LineRun(run)'
  <2>1. rows'[r] = mark
    BY <1>11 DEF TypeInv, TypeOK
  <2>2. run.pool \subseteq Txs
    BY DEF TypeInv, TypeOK, Run
  <2>3. PoolKeeps(r, mark)
    BY <1>4, <1>6, <1>7, <1>11, <2>2, Named DEF PoolKeeps
  <2>4. PICK s : s = send
    OBVIOUS
  <2>5. PoolFits(run)'
    <3>1. PoolFits(s) /\ s.pool \subseteq run.pool
      BY <1>9, <1>10, <2>4
    <3>2. PoolFits(s)'
      BY <1>11, <2>3, <3>1, PoolWritten
    <3>3. run' = s
      BY <1>11, <2>4
    <3>4. QED BY <3>2, <3>3 DEF PoolFits
  <2>6. HumanFits(run)'
    <3>1. run.todo \subseteq Receipts
      BY DEF TypeInv, TypeOK, Run
    <3>2. run.at = "human" => \A x \in run.todo \ {r} : run.seen[x].sync = "NEEDS_REVIEW"
      BY <3>1, Named DEF LineInv, LineRun, HumanFits
    <3>3. QED BY <1>9, <1>11, <3>1, <3>2 DEF HumanFits
  <2>7. ~Flies(t, r)
    BY <1>1, <1>4, <1>11 DEF LineInv, LineState, OfLines
  <2>8. ~Flies(t, r)'
    BY <1>11, <2>7 DEF Flies
  <2>9. run'.at = "send" /\ run'.who = r /\ run'.seen[r].tx = t /\ rows'[r].jid = None
    BY <1>4, <1>7, <1>9, <1>11, <2>1
  <2>10. entries'[t].tag # r
    BY <1>6, <1>11
  <2>11. LineFits(run, r)'
    BY <1>7, <2>1, <2>8, <2>9, <2>10 DEF LineFits
  <2>12. EntryFits(run, r)'
    BY <2>9 DEF EntryFits
  <2>13. QED BY <2>5, <2>6, <2>9, <2>11, <2>12 DEF LineRun
<1>12. QED BY <1>2, <1>3, <1>8, <1>11, LineWrites DEF LineInv

LEMMA LineHuman ==
  ASSUME TypeInv, Admits', LineInv, NEW r \in Receipts, HumanTransaction(r)
  PROVE  LineInv'
<1> DEFINE t == run.seen[r].tx
           new == [rows[r] EXCEPT !.err = None]
           guard == rows[r].sync = "NEEDS_REVIEW" /\ rows[r].tx = t
           done == Done("human", r)
<1>1. run.at = "human" /\ run.who = None /\ r \in run.todo
  BY DEF HumanTransaction, Takes
<1>2. CASE t \in run.pool /\ StartJournalize(r, t, FALSE)
  BY <1>1, <1>2, LineStart
<1>3. CASE WriteIfCurrent(r, guard, FALSE, new, done, done)
  <2>1. LineRun(done) /\ Silently(done) /\ done.pool \subseteq run.pool
    BY <1>1, LineDone DEF LineInv
  <2>2. /\ new \in Row /\ new.sync = rows[r].sync /\ new.jid = rows[r].jid /\ new.tx = rows[r].tx
        /\ new.exp = rows[r].exp
    BY Parts DEF Row
  <2>3. guard => rows[r].sync = "NEEDS_REVIEW" /\ ~Past(rows[r])
    BY DEF Past
  <2> HIDE DEF new, guard, done
  <2>4. guard => LineFitting(r, new)
    BY <2>2, <2>3, LineMark DEF LineInv
  <2>5. guard => PoolKeeps(r, new)
    BY <2>2, <2>3, PoolStays DEF LineInv
  <2>6. QED BY <1>3, <2>1, <2>4, <2>5, LineWritesOn DEF LineInv
<1>4. QED BY <1>2, <1>3 DEF HumanTransaction

LEMMA LineMatch ==
  ASSUME TypeInv, Admits', LineInv, NEW r \in Receipts, MatchOutcome(r)
  PROVE  LineInv'
<1> DEFINE guard == rows[r].sync = "WAITING_TRANSACTION" /\ rows[r].jid = None
           new   == InState(r, "NEEDS_REVIEW", None)
           done  == Done("match", r)
<1>1. run.at = "match" /\ run.who = None /\ r \in run.todo
  BY DEF MatchOutcome, Takes
<1>2. ASSUME NEW t \in Matched(run.seen, LineOf, run.pool, r), StartJournalize(r, t, TRUE)
      PROVE  LineInv'
  <2>1. t \in run.pool
    BY MatchedType
  <2>2. QED BY <1>1, <1>2, <2>1, LineStart
<1>3. LineRun(done) /\ Silently(done) /\ done.pool \subseteq run.pool
  BY <1>1, LineDone DEF LineInv
<1>4. CASE WriteIfCurrent(r, guard, FALSE, new, done, done)
  <2>1. guard => ~Past(rows[r]) /\ rows[r].sync = "WAITING_TRANSACTION"
    BY DEF Past
  <2>2. "NEEDS_REVIEW" \in SyncStates \ {"JOURNALIZING"} /\ None \in Errs
    BY States
  <2> HIDE DEF guard, done
  <2>3. guard => LineFitting(r, new) /\ new.jid = rows[r].jid
    BY <2>1, <2>2, LineInState DEF LineInv
  <2> HIDE DEF new
  <2>4. guard => PoolKeeps(r, new)
    BY <2>1, <2>3, PoolStays DEF LineInv
  <2>5. QED BY <1>3, <1>4, <2>3, <2>4, LineWritesOn DEF LineInv
<1>5. QED BY <1>2, <1>3, <1>4, LineGoes DEF MatchOutcome


\* The work on a line goes on.
LEMMA LineOn ==
  ASSUME TypeInv, LineRun(run), run.at \in MakingPlaces, NEW s, s.at \in MakingPlaces, s.pool = run.pool,
         s.lines = run.lines, s.back = run.back, s.todo = run.todo, s.who = run.who,
         \A x \in Receipts \ {run.who} : s.seen[x] = run.seen[x]
  PROVE  PoolFits(s) /\ HumanFits(s)
<1>1. run.todo \subseteq Receipts
  BY DEF TypeInv, TypeOK, Run
<1>2. PoolFits(s)
  BY DEF LineRun, PoolFits, MakingPlaces
<1>3. HumanFits(s)
  BY <1>1 DEF LineRun, HumanFits, MakingPlaces
<1>4. QED BY <1>2, <1>3

\* What is known in front of the line of a row.
LEMMA LineKnown ==
  ASSUME TypeInv, LineInv, NEW r \in Receipts, run.who = r, run.at \in {"send", "trace", "traced", "lined"}
  PROVE  LET t == run.seen[r].tx
         IN  /\ t \in Txs /\ t # None /\ rows[r].sync = "JOURNALIZING" /\ rows[r].tx = t
             /\ rows[r].jid \in {None, t} /\ status[t] # "absent"
             /\ \A s \in Receipts \ {r} : ~Draws(s, t)
             /\ run.pool # {} => rows[r].jid = None /\ entries[t].tag # r /\ ~Flies(t, r)
             /\ run.back # None
<1> DEFINE t == run.seen[r].tx
<1>1. /\ rows[r].sync = "JOURNALIZING" /\ rows[r].tx = t
      /\ run.pool # {} => rows[r].jid = None /\ entries[t].tag # r /\ ~Flies(t, r)
  BY DEF LineInv, LineRun, LineFits
<1>2. t \in Txs /\ t # None
  <2>1. rows[r].tx # None /\ rows[r] \in Row
    BY <1>1, Parts DEF TypeInv, Claims
  <2>2. QED BY <1>1, <2>1 DEF Row
<1>3. rows[r].jid \in {None, t} /\ status[t] # "absent"
  BY <1>1 DEF LineInv, LineState, Sound
<1>4. \A s \in Receipts \ {r} : ~Draws(s, t)
  BY <1>1 DEF LineInv, LineState, Alone
<1>5. run.back # None
  BY DEF TypeInv, HandsOf
<1>6. QED BY <1>1, <1>2, <1>3, <1>4, <1>5

LEMMA LineSend ==
  ASSUME TypeInv, LineInv, NEW r \in Receipts, SendJournalize(r)
  PROVE  LineInv'
<1> DEFINE t == run.seen[r].tx
           new == EntryFor(r, run.seen[r])
           e == [new EXCEPT !.amount = LineOf[t].amount]
           made == Move("entered")
           entered == [made EXCEPT !.id = t]
           m == Move("trace")
           trace == [m EXCEPT !.rejected = TRUE]
           back == Back(r)
<1>1. run.at = "send" /\ run.who = r /\ run.at \in MakingPlaces
  BY DEF SendJournalize, At, MakingPlaces
<1>2. /\ t \in Txs /\ t # None /\ rows[r].sync = "JOURNALIZING" /\ rows[r].tx = t
      /\ rows[r].jid \in {None, t} /\ status[t] # "absent"
      /\ \A s \in Receipts \ {r} : ~Draws(s, t)
      /\ run.pool # {} => rows[r].jid = None /\ entries[t].tag # r /\ ~Flies(t, r)
      /\ run.back # None
  BY <1>1, LineKnown
<1>3. LineRun(back) /\ Silently(back) /\ back \in Run
  BY <1>1, <1>2, LineBack, BackTyped DEF LineInv
<1>4. e.tag = r /\ e.tag # None
  <2>1. new \in Entry /\ new.tag = r
    BY Parts, RowEntryType
  <2> HIDE DEF new
  <2>2. QED BY <2>1, Named DEF Entry
<1>5. "entered" \in Places /\ "trace" \in Places
  BY DEF Places
<1>6. /\ entered.at = "entered" /\ entered.id = t /\ entered.who = r /\ entered.pool = run.pool
      /\ entered.lines = run.lines /\ entered.back = run.back /\ entered.todo = run.todo
      /\ entered.seen = run.seen
  <2>1. /\ made \in Run /\ made.at = "entered" /\ made.who = r /\ made.pool = run.pool
        /\ made.lines = run.lines /\ made.back = run.back /\ made.todo = run.todo /\ made.seen = run.seen
    BY <1>1, <1>5, MoveKeeps
  <2> HIDE DEF made, t
  <2>2. QED BY <2>1 DEF Run
<1>7. /\ trace.at = "trace" /\ trace.who = r /\ trace.pool = run.pool
      /\ trace.lines = run.lines /\ trace.back = run.back /\ trace.todo = run.todo
      /\ trace.seen = run.seen
  <2>1. /\ m \in Run /\ m.at = "trace" /\ m.who = r /\ m.pool = run.pool
        /\ m.lines = run.lines /\ m.back = run.back /\ m.todo = run.todo /\ m.seen = run.seen
    BY <1>1, <1>5, MoveKeeps
  <2> HIDE DEF m
  <2>2. QED BY <2>1 DEF Run
<1>8. \/ Creatable(t) /\ Place(t, e) /\ Register(t) /\ run' = entered /\ UNCHANGED <<rows, sent>>
      \/ GivesUp(t, e, back) \/ (Refusable(t) /\ Goes(trace))
  BY DEF SendJournalize
<1> HIDE DEF e, entered, trace, back, made, m
<1>9. CASE Creatable(t) /\ Place(t, e) /\ Register(t) /\ run' = entered /\ UNCHANGED <<rows, sent>>
  <2>1. /\ \A x \in Txs \ {t} : entries'[x] = entries[x] /\ status'[x] = status[x]
        /\ entries'[t] = e /\ status'[t] = "registered"
    BY <1>2, <1>9 DEF Place, Register, TypeInv, TypeOK
  <2>2. LineStep
    BY <1>2, <1>4, <1>9, <2>1 DEF LineStep
  <2>3. LineState'
    BY <1>9, <2>2, LineBook DEF LineInv
  <2>4. PoolFits(run)'
    <3>1. PoolFits(entered)
      BY <1>1, <1>6, LineOn DEF LineInv, MakingPlaces
    <3>2. run.pool \subseteq Txs
      BY DEF TypeInv, TypeOK, Run
    <3>3. \A x \in run.pool, s \in Receipts : entries'[x].tag = s =>
            entries[x].tag = s \/ (rows[s].sync = "JOURNALIZING" /\ rows[s].tx = x)
      BY <1>2, <1>4, <2>1, <3>2
    <3> HIDE DEF t
    <3>4. QED BY <1>6, <1>9, <2>2, <3>1, <3>3 DEF PoolFits, LineStep
  <2>5. HumanFits(run)'
    BY <1>1, <1>6, <1>9, LineOn DEF LineInv, MakingPlaces, HumanFits
  <2>6. LineFits(run, r)'
    BY <1>2, <1>4, <1>6, <1>9, <2>1 DEF LineFits
  <2>7. EntryFits(run, r)'
    BY <1>6, <1>9 DEF EntryFits
  <2>8. QED BY <1>6, <1>9, <2>3, <2>4, <2>5, <2>6, <2>7 DEF LineInv, LineRun
<1>10. CASE GivesUp(t, e, back)
  <2> HIDE DEF t
  <2>1. QED BY <1>2, <1>3, <1>4, <1>10, LineGivesUp
<1>11. CASE Refusable(t) /\ Goes(trace)
  <2>1. PoolFits(trace) /\ HumanFits(trace)
    BY <1>1, <1>7, LineOn DEF LineInv, MakingPlaces
  <2>2. LineFits(trace, r)
    BY <1>2, <1>7, <1>11 DEF LineFits, Refusable
  <2>3. EntryFits(trace, r)
    BY <1>7 DEF EntryFits
  <2>4. LineRun(trace)
    BY <1>7, <2>1, <2>2, <2>3 DEF LineRun
  <2>5. QED BY <1>11, <2>4, LineGoes
<1>12. QED BY <1>8, <1>9, <1>10, <1>11

LEMMA LineTrace ==
  ASSUME TypeInv, LineInv, NEW r \in Receipts, TraceEntry(r)
  PROVE  LineInv'
<1> DEFINE t == run.seen[r].tx
           m == Move("traced")
           to(i) == [m EXCEPT !.id = i]
<1>1. run.at = "trace" /\ run.who = r /\ run.at \in MakingPlaces
  BY DEF TraceEntry, At, MakingPlaces
<1>2. /\ t \in Txs /\ rows[r].sync = "JOURNALIZING" /\ rows[r].tx = t
      /\ run.pool # {} => rows[r].jid = None /\ entries[t].tag # r /\ ~Flies(t, r)
      /\ run.rejected /\ status[t] = "none" => \A q \in sent : q.id # t
  BY <1>1, LineKnown DEF LineInv, LineRun, LineFits
<1>3. PICK i \in {t, None} : (i # None => entries[t].tag # None) /\ Goes(to(i))
  BY DEF TraceEntry, Live
<1> DEFINE s == to(i)
<1>4. /\ s.at = "traced" /\ s.id = i /\ s.who = r /\ s.pool = run.pool
      /\ s.lines = run.lines /\ s.back = run.back /\ s.todo = run.todo
      /\ s.seen = run.seen /\ s.rejected = run.rejected
  <2>1. "traced" \in Places
    BY DEF Places
  <2>2. /\ m \in Run /\ m.at = "traced" /\ m.who = r /\ m.pool = run.pool
        /\ m.lines = run.lines /\ m.back = run.back /\ m.todo = run.todo /\ m.seen = run.seen
        /\ m.rejected = run.rejected
    BY <1>1, <2>1, MoveKeeps
  <2> HIDE DEF m, t
  <2>3. QED BY <2>2 DEF Run
<1>5. Goes(s)
  BY <1>3
<1> HIDE DEF s, to, m
<1>6. PoolFits(s) /\ HumanFits(s)
  BY <1>1, <1>4, LineOn DEF LineInv, MakingPlaces
<1>7. LineFits(s, r)
  BY <1>2, <1>3, <1>4 DEF LineFits
<1>8. EntryFits(s, r)
  BY <1>4 DEF EntryFits
<1>9. LineRun(s)
  BY <1>4, <1>6, <1>7, <1>8 DEF LineRun
<1>10. QED BY <1>5, <1>9, LineGoes

\* A line that is in reach is looked at as it is, or not at all.
LEMMA TracedInReach ==
  ASSUME TypeInv, LinesInReach, NEW r \in Receipts, RecordTraced(r), run.id = None,
         run.seen[r].tx \in Txs, run.seen[r].tx # None
  PROVE  \/ Goes(Back(r))
         \/ Goes([Move("lined") EXCEPT !.line = status[run.seen[r].tx]])
<1> DEFINE row == run.seen[r]
           t   == row.tx
<1>1. CASE row.method \notin LinkedMethods
  BY <1>1 DEF RecordTraced
<1>2. CASE row.method \in LinkedMethods
  <2>1. row.method \in Methods /\ row.day \in Days \cup {0}
    BY <1>2, Parts DEF Row, LinkedMethods, None
  <2>2. LineOf[t].service = row.method /\ LineOf[t].day >= StartDay
    BY <1>2, <2>1 DEF LinesInReach
  <2>3. LineOf[t].day >= row.day - FetchDaysBeforeRow
    <3>1. LineOf[t].day \in Nat
      BY JournalBooksAssumption
    <3>2. CASE row.day = 0
      BY <3>1, <3>2 DEF FetchDaysBeforeRow
    <3>3. CASE row.day \in Days
      BY <3>3 DEF LinesInReach
    <3>4. QED BY <2>1, <3>2, <3>3
  <2>4. IsFetchedFor(row, t)
    BY <2>2, <2>3 DEF IsFetchedFor
  <2>5. QED BY <1>2, <2>4 DEF RecordTraced
<1>3. QED BY <1>1, <1>2

LEMMA LineTraced ==
  ASSUME LinesInReach, TypeInv, Admits', LineInv, NEW r \in Receipts, RecordTraced(r)
  PROVE  LineInv'
<1> DEFINE t == run.seen[r].tx
           m == Move("lined")
           s == [m EXCEPT !.line = status[t]]
           new == Synced(r, run.id)
           back == Back(r)
           guard == rows[r].sync = "JOURNALIZING"
<1>1. run.at = "traced" /\ run.who = r /\ run.at \in MakingPlaces
  BY DEF RecordTraced, At, MakingPlaces
<1>2. /\ t \in Txs /\ t # None /\ rows[r].sync = "JOURNALIZING" /\ rows[r].tx = t /\ run.back # None
      /\ run.pool # {} => rows[r].jid = None /\ entries[t].tag # r /\ ~Flies(t, r)
      /\ run.rejected /\ status[t] = "none" => \A q \in sent : q.id # t
      /\ run.id # None => run.id = t /\ entries[t].tag # None
  BY <1>1, LineKnown DEF LineInv, LineRun, LineFits
<1>3. LineRun(back) /\ Silently(back) /\ back.pool \subseteq run.pool
  BY <1>1, <1>2, LineBack DEF LineInv
<1>4. CASE run.id # None
  <2>1. WriteIfCurrent(r, guard, TRUE, new, back, back)
    BY <1>4 DEF RecordTraced
  <2>2. new \in Row /\ new.sync = "SYNCED" /\ new.jid = t /\ new.tx = rows[r].tx /\ new.exp = rows[r].exp
    BY <1>2, <1>4, SyncedCells
  <2> HIDE DEF new, guard, back
  <2>3. LineFitting(r, new)
    BY <1>2, <1>4, <2>2, LineMade DEF LineInv
  <2>4. PoolKeeps(r, new)
    BY <1>2, <2>2 DEF LineInv, LineRun, PoolFits, PoolKeeps
  <2>5. QED BY <1>3, <2>1, <2>3, <2>4, LineWritesOn DEF LineInv
<1>5. CASE run.id = None /\ Goes(s)
  <2>1. Goes(s)
    BY <1>5
  <2>2. /\ s.at = "lined" /\ s.line = status[t] /\ s.who = r /\ s.pool = run.pool
        /\ s.lines = run.lines /\ s.back = run.back /\ s.todo = run.todo
        /\ s.seen = run.seen /\ s.rejected = run.rejected
    <3>1. "lined" \in Places
      BY DEF Places
    <3>2. /\ m \in Run /\ m.at = "lined" /\ m.who = r /\ m.pool = run.pool
          /\ m.lines = run.lines /\ m.back = run.back /\ m.todo = run.todo /\ m.seen = run.seen
          /\ m.rejected = run.rejected
      BY <1>1, <3>1, MoveKeeps
    <3> HIDE DEF m, t
    <3>3. QED BY <3>2 DEF Run
  <2> HIDE DEF s
  <2>3. PoolFits(s) /\ HumanFits(s)
    BY <1>1, <2>2, LineOn DEF LineInv, MakingPlaces
  <2>4. LineFits(s, r)
    BY <1>2, <2>2 DEF LineFits
  <2>5. EntryFits(s, r)
    BY <2>2 DEF EntryFits
  <2>6. LineRun(s)
    BY <2>2, <2>3, <2>4, <2>5 DEF LineRun
  <2>7. QED BY <2>1, <2>6, LineGoes
<1>6. run.id = None => Goes(back) \/ Goes(s)
  BY <1>2, TracedInReach
<1>7. CASE Goes(back)
  BY <1>3, <1>7, LineGoes
<1>8. QED BY <1>4, <1>5, <1>6, <1>7

LEMMA LineLined ==
  ASSUME TypeInv, Admits', LineInv, NEW r \in Receipts, RecordLined(r)
  PROVE  LineInv'
<1> DEFINE t     == run.seen[r].tx
           guard == rows[r].sync = "JOURNALIZING"
           new   == [rows[r] EXCEPT !.aged = FALSE]
           m     == Move("send")
           send  == [m EXCEPT !.seen[r] = rows[r]]
           back  == Back(r)
           ends(state) == InState(r, state, None)
<1>1. run.at = "lined" /\ run.who = r /\ run.at \in MakingPlaces
  BY DEF RecordLined, At, MakingPlaces
<1>2. /\ t \in Txs /\ t # None /\ rows[r].sync = "JOURNALIZING" /\ rows[r].tx = t /\ run.back # None
      /\ rows[r].jid \in {None, t}
      /\ run.pool # {} => rows[r].jid = None /\ entries[t].tag # r /\ ~Flies(t, r)
      /\ run.rejected /\ status[t] = "none" => \A q \in sent : q.id # t
      /\ run.line # "none" => status[t] # "none"
  BY <1>1, LineKnown DEF LineInv, LineRun, LineFits
<1>3. LineRun(back) /\ Silently(back) /\ back.pool \subseteq run.pool
  BY <1>1, <1>2, LineBack DEF LineInv
<1>4. \/ /\ run.line # "none" \/ run.rejected
         /\ \E state \in {"NEEDS_REVIEW", "ERROR"} : WriteIfCurrent(r, guard, FALSE, ends(state), back, back)
      \/ Goes(back)
      \/ WriteIfCurrent(r, guard, FALSE, new, send, back)
  <2>1. CASE run.line # "none"
    BY <2>1 DEF RecordLined
  <2>2. CASE run.line = "none" /\ run.rejected
    BY <2>2 DEF RecordLined
  <2>3. CASE run.line = "none" /\ ~run.rejected
    BY <2>3 DEF RecordLined
  <2>4. QED BY <2>1, <2>2, <2>3
<1>5. \A x \in run.pool : rows[r].jid # x /\ entries[x].tag # r
  BY <1>2, Named DEF LineInv, LineRun, PoolFits, TypeInv, TypeOK, Run
<1>6. /\ new \in Row /\ new.sync = rows[r].sync /\ new.jid = rows[r].jid /\ new.tx = t
      /\ new.exp = rows[r].exp
  BY <1>2, Parts DEF Row
<1>7. /\ send.at = "send" /\ send.who = r /\ send.pool = run.pool
      /\ send.lines = run.lines /\ send.back = run.back /\ send.todo = run.todo
      /\ send.seen[r] = rows[r] /\ \A x \in Receipts \ {r} : send.seen[x] = run.seen[x]
  <2>1. "send" \in Places
    BY DEF Places
  <2>2. /\ m \in Run /\ m.at = "send" /\ m.who = r /\ m.pool = run.pool
        /\ m.lines = run.lines /\ m.back = run.back /\ m.todo = run.todo /\ m.seen = run.seen
    BY <1>1, <2>1, MoveKeeps
  <2> HIDE DEF m
  <2>3. QED BY <2>2 DEF Run
<1> HIDE DEF guard, new, send, back, m
<1>8. ASSUME NEW state \in {"NEEDS_REVIEW", "ERROR"}, run.line # "none" \/ run.rejected,
             WriteIfCurrent(r, guard, FALSE, ends(state), back, back)
      PROVE  LineInv'
  <2>1. ~Flies(t, r)
    BY <1>2, <1>8 DEF Flies
  <2>2. ~Past(rows[r]) /\ state \in SyncStates \ {"JOURNALIZING"} /\ None \in Errs
    BY <1>2, States DEF Past
  <2>3. LineFitting(r, ends(state)) /\ ends(state).jid = rows[r].jid
    BY <1>2, <2>1, <2>2, LineInState DEF LineInv
  <2> HIDE DEF ends
  <2>4. PoolKeeps(r, ends(state))
    BY <1>5, <2>3 DEF PoolKeeps
  <2>5. QED BY <1>3, <1>8, <2>3, <2>4, LineWritesOn DEF LineInv
<1>9. CASE WriteIfCurrent(r, guard, FALSE, new, send, back)
  <2>1. LineFitting(r, new)
    <3>1. ~Past(rows[r])
      BY <1>2 DEF Past
    <3>2. QED BY <1>2, <1>6, <3>1, LineMark DEF LineInv
  <2>2. ASSUME rows' = [rows EXCEPT ![r] = new], run' = send, UNCHANGED <<entries, status, sent>>
        PROVE  LineRun(run)'
    <3>1. rows'[r] = new
      BY <2>2 DEF TypeInv, TypeOK
    <3>2. PICK s : s = send
      OBVIOUS
    <3>3. PoolFits(s) /\ HumanFits(s) /\ run' = s
      BY <1>1, <1>7, <2>2, <3>2, LineOn DEF LineInv, MakingPlaces
    <3>4. PoolKeeps(r, new)
      BY <1>5, <1>6 DEF PoolKeeps
    <3>5. s.pool \subseteq run.pool
      BY <1>7, <3>2
    <3>6. PoolFits(s)'
      BY <2>2, <3>3, <3>4, <3>5, PoolWritten
    <3>7. PoolFits(run)' /\ HumanFits(run)'
      BY <3>3, <3>6 DEF PoolFits, HumanFits
    <3>8. /\ run'.at = "send" /\ run'.who = r /\ run'.seen[r].tx = t /\ run'.pool = run.pool
      BY <1>2, <1>7, <2>2
    <3>9. Flies(t, r)' => Flies(t, r)
      BY <2>2, <1>2, <3>8 DEF Flies
    <3>10. LineFits(run, r)'
      BY <1>2, <1>6, <2>2, <3>1, <3>8, <3>9 DEF LineFits
    <3>11. EntryFits(run, r)'
      BY <3>8 DEF EntryFits
    <3>12. QED BY <3>7, <3>8, <3>10, <3>11 DEF LineRun
  <2>3. QED BY <1>3, <1>9, <2>1, <2>2, LineWrites DEF LineInv
<1>10. QED BY <1>3, <1>4, <1>8, <1>9, LineGoes

-----------------------------------------------------------------------------
(* All steps.                                                              *)

LEMMA LineInit == Init => LineInv
<1> SUFFICES ASSUME Init PROVE LineInv
  OBVIOUS
<1>1. /\ sent = {} /\ run = Idle
      /\ \A r \in Receipts : rows[r] = NoRow
      /\ \A i \in Ids \cup Txs : entries[i] = NoEntry
  BY DEF Init
<1>2. NoRow.sync = "" /\ NoRow.jid = None /\ NoEntry.tag = None
  BY DEF NoRow, NoEntry, None
<1>3. \A r \in Receipts : Sound(rows[r])
  BY <1>1, <1>2, Named DEF Sound
<1>4. \A r \in Receipts, t \in Txs : ~Draws(r, t) /\ entries[t].tag = None
  BY <1>1, <1>2, Named DEF Draws, DrawsOn
<1>5. \A r \in Receipts : rows[r].sync # "JOURNALIZING"
  BY <1>1, <1>2
<1>6. OfLines
  <2>1. \A t \in Txs, r \in Receipts : ~Flies(t, r)
    BY <1>1 DEF Flies
  <2>2. QED BY <1>1, <1>2, <2>1 DEF OfLines
<1>7. InTurn /\ Alone
  BY <1>4, <1>5 DEF InTurn, Alone
<1>8. MadeOut
  BY <1>4, Named DEF MadeOut
<1>9. QED BY <1>1, <1>3, <1>6, <1>7, <1>8, IdleLines DEF LineInv, LineState

LEMMA LineInvStep ==
  ASSUME ChainsFit, CorrectedOnce, LinesInReach
  PROVE  TypeInv /\ TypeInv' /\ Admits /\ Admits' /\ OnceInv /\ LineInv /\ [Next]_vars => LineInv'
<1> SUFFICES ASSUME TypeInv, TypeInv', Admits, Admits', OnceInv, LineInv, [Next]_vars
             PROVE  LineInv'
  OBVIOUS
<1>1. CASE World
  BY <1>1, LineWorld
<1>2. CASE RunSync
  <2>1. CASE SyncExpenses \/ EndOfPhase
    BY <2>1, LinePhases
  <2>2. ASSUME NEW t \in Txs, JournalizeByRule(t) PROVE LineInv'
    BY <2>2, LineByRule
  <2>3. ASSUME NEW r \in Receipts,
               \/ ReverseWithoutJournal(r) \/ RecoverCreating(r) \/ RecordRecovered(r)
               \/ RecoverJournalizing(r) \/ ProcessMaintenanceRow(r) \/ ImportRow(r) \/ CancelRow(r)
        PROVE  LineInv'
    BY <2>3, LineReverse, LineRecover, LineRecovered, LineJournalizing, LineProcess, LineImport, LineCancel
  <2>4. ASSUME NEW r \in Receipts,
               \/ FinishReversal(r) \/ PutJournal(r) \/ Inherit(r) \/ FillHeir(r) \/ RecordReversed(r)
               \/ DetectChange(r) \/ Classify(r)
        PROVE  LineInv'
    BY <2>4, LineFinish, LinePut, LineInherit, LineFill, LineReversed, LineDetect, LineClassify
  <2>5. ASSUME NEW r \in Receipts,
               \/ SearchFirst(r) \/ Adopt(r) \/ MarkCreating(r) \/ PostJournal(r) \/ RecordRefused(r)
               \/ RecordEntered(r) \/ HoldRuleConflict(r)
        PROVE  LineInv'
    BY <2>5, LineSearch, LineAdopt, LineMarkCreating, LinePost, LineRefused, LineEntered, LineConflict
  <2>6. ASSUME NEW r \in Receipts,
               \/ HumanTransaction(r) \/ MatchOutcome(r)
               \/ SendJournalize(r) \/ TraceEntry(r) \/ RecordTraced(r) \/ RecordLined(r)
        PROVE  LineInv'
    BY <2>6, LineHuman, LineMatch, LineSend, LineTrace, LineTraced, LineLined
  <2>7. QED BY <1>2, <2>1, <2>2, <2>3, <2>4, <2>5, <2>6 DEF RunSync
<1>3. CASE RunEnds \/ OutOfBudget
  BY <1>3, LineEnds
<1>4. CASE UNCHANGED vars
  <2>1. LineRun(run)'
    BY <1>4 DEF vars, LineInv, LineRun, PoolFits, HumanFits, LineFits, EntryFits, Flies, HandsOver, Draws,
       DrawsOn, Past, IsCancelled
  <2>2. QED BY <1>4, <2>1, LineStill DEF vars
<1>5. QED BY <1>1, <1>2, <1>3, <1>4 DEF Next

\* LineServesOneReceipt: of two rows that hold a statement line one is handing its entry over
\* to the other, whatever rows are edited, lines named, ids typed in, answers lost and creations
\* carried out late between the fetching of the lines, the claim and the entry (the claim is
\* decided again under the lock, on the ledger as it is then; a receipt that has the tag gets
\* the entry, and the heir's row is written before the one that hands over).  Assumed is of the
\* receipts that no correction is corrected again and that the code follows each chain to its
\* end, and of the lines that recovery finds them whatever the rows are edited to.
THEOREM LinesServeOneReceipt ==
  ASSUME ChainsFit, CorrectedOnce, LinesInReach
  PROVE  Spec => []LineServesOneReceipt
<1>1. Init => TypeInv /\ Admits /\ OnceInv /\ LineInv
  <2>1. Init => Admits
    BY QuietChosen DEF Init, Idle, Quiet, Admits, ImportsUnknown
  <2>2. QED BY <2>1, TypeInit, OnceInit, LineInit
<1>2. TypeInv /\ Admits /\ OnceInv /\ LineInv /\ [Next]_vars => (TypeInv /\ Admits /\ OnceInv /\ LineInv)'
  BY TypeStep, AdmitsStep, OnceStep, LineInvStep
<1>3. LineInv => LineServesOneReceipt
  BY InTurnServes DEF LineInv
<1>4. QED BY <1>1, <1>2, <1>3, PTL DEF Spec
=============================================================================
