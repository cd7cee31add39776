---------------------------- MODULE BillLifecycle ----------------------------
(***************************************************************************)
(* The life of one month's bill, as core/monthClose.ts draws it: it may be *)
(* recomputed until the user confirms an amount, and from then on only its *)
(* state moves, forward.  MonthClose and Invoice implement this module.    *)
(***************************************************************************)
CONSTANTS
  Amounts,           \* what a month can come to
  NoAmount           \* nothing has been computed or confirmed

VARIABLES
  state,             \* state of the month's row; "none" before there is one
  amount,            \* the amount in the row
  confirmed          \* the amount the user closed the month for

billVars == <<state, amount, confirmed>>

Open     == {"OPEN", "REVIEWING"}
Frozen   == {"LOCKED", "MF_CREATED", "SENT", "PAID", "VOID"}

\* The arrows between the frozen states; those that skip one are made by hand or
\* by a payment that is seen before the dispatch.
Forward ==
  { <<"LOCKED", "MF_CREATED">>, <<"LOCKED", "SENT">>, <<"LOCKED", "PAID">>,
    <<"MF_CREATED", "SENT">>, <<"MF_CREATED", "PAID">>, <<"SENT", "PAID">>,
    <<"LOCKED", "VOID">>, <<"MF_CREATED", "VOID">>, <<"SENT", "VOID">>, <<"PAID", "VOID">> }

\* Nobody has confirmed anything; an amount comes with the row.
Init ==
  /\ state \in {"none"} \cup Open
  /\ amount \in Amounts \cup {NoAmount} /\ (amount = NoAmount <=> state = "none")
  /\ confirmed = NoAmount

\* The month is summed up again; it is under review when nothing blocks it.
Recompute ==
  /\ state \notin Frozen
  /\ state' \in Open
  /\ amount' \in Amounts
  /\ UNCHANGED confirmed

\* The user confirms the amount that is frozen in the same step.
Confirm ==
  /\ state = "REVIEWING"
  /\ state' = "LOCKED"
  /\ amount' \in Amounts
  /\ confirmed' = amount'

Advance ==
  /\ <<state, state'>> \in Forward
  /\ UNCHANGED <<amount, confirmed>>

\* By hand: the invoice is deleted in MF and the month is reviewed again.
Reopen ==
  /\ state \in Frozen \ {"VOID"}
  /\ state' = "REVIEWING"
  /\ confirmed' = NoAmount
  /\ UNCHANGED amount

Next == Recompute \/ Confirm \/ Advance \/ Reopen

Spec == Init /\ [][Next]_billVars
=============================================================================
