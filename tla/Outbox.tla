------------------------------- MODULE Outbox -------------------------------
(***************************************************************************)
(* What the email queue promises, without workers, claims or retries: a    *)
(* copy of a message leaves only against a credit, a credit comes only     *)
(* from a grant, and a message holds at most one credit.                   *)
(* EmailQueue is shown to implement this module.                           *)
(***************************************************************************)
EXTENDS Naturals

CONSTANT Message

VARIABLES
  credit,  \* may one more copy of the message leave?
  copies,  \* copies that have left
  grants   \* credits ever given

vars == <<credit, copies, grants>>

TypeOK ==
  /\ credit \in [Message -> BOOLEAN]
  /\ copies \in [Message -> Nat]
  /\ grants \in [Message -> Nat]

Init ==
  /\ credit = [m \in Message |-> FALSE]
  /\ copies = [m \in Message |-> 0]
  /\ grants = [m \in Message |-> 0]

\* The message is queued, relaunched, or believed not to have left.
Grant(m) ==
  /\ ~credit[m]
  /\ credit' = [credit EXCEPT ![m] = TRUE]
  /\ grants' = [grants EXCEPT ![m] = @ + 1]
  /\ UNCHANGED copies

\* One copy leaves and uses up the credit.
Leave(m) ==
  /\ credit[m]
  /\ credit' = [credit EXCEPT ![m] = FALSE]
  /\ copies' = [copies EXCEPT ![m] = @ + 1]
  /\ UNCHANGED grants

\* Messages are withdrawn, given up, or interrupted with the process that had
\* them: their credits are gone.
Forfeit(S) ==
  /\ credit' = [m \in Message |-> credit[m] /\ m \notin S]
  /\ UNCHANGED <<copies, grants>>

Next ==
  \/ \E m \in Message : Grant(m) \/ Leave(m)
  \/ \E S \in SUBSET Message : Forfeit(S)

Spec == Init /\ [][Next]_vars

-----------------------------------------------------------------------------
\* A copy for every grant at most, counting the copy a credit still allows.
Solvent ==
  \A m \in Message : copies[m] + (IF credit[m] THEN 1 ELSE 0) <= grants[m]
=============================================================================
