---------------------------- MODULE MCJournalSync ----------------------------
(* JournalSync with the chain of corrections, the lines and the rules TLC checks. *)
EXTENDS JournalSync

CONSTANTS r1, r2, t1, t2

NoParent == [r \in Receipts |-> None]
Corrects == [r \in Receipts |-> IF r = r2 THEN r1 ELSE None]

\* Both lines fit the receipts of day 1; t2 falls under a rule in PrivateT2.
Lines ==
  [t \in Txs |-> [service |-> "linked_card", amount |-> 1, day |-> IF t = t2 THEN 2 ELSE 1]]
NoRules == [t \in Txs |-> None]
PrivateT2 == [t \in Txs |-> IF t = t2 THEN "private" ELSE None]

\* From when r1, paid with the linked card, is complete and the line under the rule is in MF.
CardInit ==
  /\ \E a \in Amounts, d \in Days :
       rows = [r \in Receipts |->
                 IF r # r1 THEN NoRow
                 ELSE [NoRow EXCEPT !.exp = "COMPLETED", !.method = "linked_card",
                                    !.amount = a, !.day = d]]
  /\ entries = [i \in Ids \cup Txs |-> NoEntry]
  /\ status = [t \in Txs |-> IF RuleOf[t] = None THEN "absent" ELSE "none"]
  /\ sent = {} /\ run = Idle /\ faults = 0 /\ edits = 0
CardSpec == CardInit /\ [][Next]_vars
=============================================================================
