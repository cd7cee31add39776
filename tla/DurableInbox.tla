---------------------------- MODULE DurableInbox ----------------------------
(***************************************************************************)
(* What the pair Worker + GAS promises for one user operation, without     *)
(* saying how: an operation that has been accepted is remembered until it  *)
(* has been answered, and it takes effect on the record at most once.      *)
(* Delivery implements this module.                                        *)
(***************************************************************************)
CONSTANT Keys          \* idempotency keys, one per user operation

VARIABLES
  inbox,               \* keys the system has accepted and still remembers
  known,               \* keys it has ever accepted
  applied,             \* keys with a row in the record of truth
  answered             \* keys whose fate is decided: processed or declined

inboxVars == <<inbox, known, applied, answered>>

Init ==
  /\ inbox = {} /\ known = {}
  /\ applied = {} /\ answered = {}

\* The operation is written down; a second delivery of it is not accepted.
Accept(k) ==
  /\ k \notin known
  /\ inbox' = inbox \cup {k}
  /\ known' = known \cup {k}
  /\ UNCHANGED <<applied, answered>>

\* The operation reaches the record.  It need not be answered in that step.
Apply(k) ==
  /\ k \in known \ applied
  /\ applied' = applied \cup {k}
  /\ UNCHANGED <<inbox, known>>
  /\ answered' \in {answered, answered \cup {k}}

\* The operation is processed without a new row, or declined.
Answer(k) ==
  /\ k \in known \ answered
  /\ answered' = answered \cup {k}
  /\ UNCHANGED <<inbox, known, applied>>

\* Only an answered operation may be forgotten.
Forget(k) ==
  /\ k \in inbox \cap answered
  /\ inbox' = inbox \ {k}
  /\ UNCHANGED <<known, applied, answered>>

Next == \E k \in Keys : Accept(k) \/ Apply(k) \/ Answer(k) \/ Forget(k)

Spec == Init /\ [][Next]_inboxVars
=============================================================================
