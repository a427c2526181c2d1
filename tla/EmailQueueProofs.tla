-------------------------- MODULE EmailQueueProofs --------------------------
EXTENDS EmailQueue, TLAPS

LEMMA InitPass == Init => TypeOK /\ PassOK
<1> SUFFICES ASSUME Init PROVE TypeOK /\ PassOK
  OBVIOUS
<1> USE RowsAssumption, LimitsAssumption DEF Init
<1>1. faults \in Nat /\ faults <= MaxFaults
  OBVIOUS
<1>2. seen \in [Worker -> [Message -> Nat]]
  BY DEF NothingSeen
<1>3. TypeOK
  BY <1>1, <1>2 DEF TypeOK, Status, PC
<1>4. PassOK
  BY DEF PassOK, Handling
<1>. QED
  BY <1>3, <1>4

LEMMA NextType == TypeOK /\ PassOK /\ [Next]_vars => TypeOK'
<1> SUFFICES ASSUME TypeOK, PassOK, [Next]_vars PROVE TypeOK'
  OBVIOUS
<1> USE RowsAssumption, LimitsAssumption
    DEF TypeOK, Status, PC, table, world, process, history
<1>1. ASSUME NEW w \in Worker, StartPass(w)
     PROVE  TypeOK'
  BY <1>1 DEF StartPass
<1>2. ASSUME NEW w \in Worker, SkipPass(w)
     PROVE  TypeOK'
  BY <1>2 DEF SkipPass
<1>3. ASSUME NEW w \in Worker, ReleaseStale(w)
     PROVE  TypeOK'
  BY <1>3 DEF ReleaseStale, ReleaseAs
<1>4. ASSUME NEW w \in Worker, Claim(w)
     PROVE  TypeOK'
  BY <1>4 DEF Claim, Claimable, ClaimableIn
<1>5. ASSUME NEW w \in Worker, Check(w)
     PROVE  TypeOK'
  BY <1>5 DEF Check
<1>6. ASSUME NEW w \in Worker, Drop(w)
     PROVE  TypeOK'
  BY <1>6 DEF Drop, Settle, Handled
<1>7. ASSUME NEW w \in Worker, SendAccepted(w)
     PROVE  TypeOK'
  BY <1>7 DEF SendAccepted, Unwanted, PassOK, Handling
<1>8. ASSUME NEW w \in Worker, SendRefused(w)
     PROVE  TypeOK'
  BY <1>8 DEF SendRefused
<1>9. ASSUME NEW w \in Worker, RecordSent(w)
     PROVE  TypeOK'
  BY <1>9 DEF RecordSent, Settle, Handled
<1>10. ASSUME NEW w \in Worker, LoseRecord(w)
     PROVE  TypeOK'
  BY <1>10 DEF LoseRecord, Fault, PassOK, Handling
<1>11. ASSUME NEW w \in Worker, RecordFailure(w)
     PROVE  TypeOK'
  BY <1>11 DEF RecordFailure, Settle, Handled, GivesUp
<1>12. ASSUME NEW w \in Worker, EndBatch(w)
     PROVE  TypeOK'
  BY <1>12 DEF EndBatch, NothingSeen
<1>13. ASSUME NEW w \in Worker, Purge(w)
     PROVE  TypeOK'
  BY <1>13 DEF Purge
<1>14. ASSUME NEW w \in Worker, AbandonPass(w)
     PROVE  TypeOK'
  BY <1>14 DEF AbandonPass, Fault, NothingSeen
<1>15. ASSUME NEW a \in Admin, NEW m \in Message, RetryRead(a, m)
     PROVE  TypeOK'
  BY <1>15 DEF RetryRead
<1>16. ASSUME NEW a \in Admin, RetryWrite(a)
     PROVE  TypeOK'
  BY <1>16 DEF RetryWrite, Settle
<1>17. ASSUME Switch
     PROVE  TypeOK'
  BY <1>17 DEF Switch
<1>18. ASSUME TogglePause
     PROVE  TypeOK'
  BY <1>18 DEF TogglePause
<1>19. ASSUME NEW m \in Message, Enqueue(m)
     PROVE  TypeOK'
  BY <1>19 DEF Enqueue
<1>20. ASSUME NEW m \in Message, Cancel(m)
     PROVE  TypeOK'
  BY <1>20 DEF Cancel, Settle, Withdrawable
<1>21. ASSUME NEW m \in Message, Leave(m)
     PROVE  TypeOK'
  BY <1>21 DEF Leave
<1>22. ASSUME NEW m \in Message, Rejoin(m)
     PROVE  TypeOK'
  BY <1>22 DEF Rejoin
<1>23. ASSUME NEW m \in Message, AckExpires(m)
     PROVE  TypeOK'
  BY <1>23 DEF AckExpires
<1>24. ASSUME NEW m \in Message, BackoffElapses(m)
     PROVE  TypeOK'
  BY <1>24 DEF BackoffElapses
<1>25. ASSUME NEW m \in Message, ClaimGoesStale(m)
     PROVE  TypeOK'
  BY <1>25 DEF ClaimGoesStale
<1>26. CASE UNCHANGED vars
  BY <1>26 DEF vars
<1>. QED
  BY <1>1, <1>2, <1>3, <1>4, <1>5, <1>6, <1>7, <1>8, <1>9, <1>10, <1>11, <1>12, <1>13, <1>14, <1>15, <1>16, <1>17, <1>18, <1>19, <1>20, <1>21, <1>22, <1>23, <1>24, <1>25, <1>26 DEF Next, Pass, Office, Row

LEMMA NextPass == TypeOK /\ PassOK /\ [Next]_vars => PassOK'
<1> SUFFICES ASSUME TypeOK, PassOK, [Next]_vars PROVE PassOK'
  OBVIOUS
<1> USE RowsAssumption DEF TypeOK, PassOK, Handling, PC, table, world, process, history
<1>1. ASSUME NEW w \in Worker, StartPass(w)
     PROVE  PassOK'
  BY <1>1 DEF StartPass
<1>2. ASSUME NEW w \in Worker, SkipPass(w)
     PROVE  PassOK'
  BY <1>2 DEF SkipPass
<1>3. ASSUME NEW w \in Worker, ReleaseStale(w)
     PROVE  PassOK'
  BY <1>3 DEF ReleaseStale, ReleaseAs
<1>4. ASSUME NEW w \in Worker, Claim(w)
     PROVE  PassOK'
  BY <1>4 DEF Claim, Claimable, ClaimableIn
<1>5. ASSUME NEW w \in Worker, Check(w)
     PROVE  PassOK'
  BY <1>5 DEF Check
<1>6. ASSUME NEW w \in Worker, Drop(w)
     PROVE  PassOK'
  BY <1>6 DEF Drop, Settle, Handled
<1>7. ASSUME NEW w \in Worker, SendAccepted(w)
     PROVE  PassOK'
  BY <1>7 DEF SendAccepted, Unwanted
<1>8. ASSUME NEW w \in Worker, SendRefused(w)
     PROVE  PassOK'
  BY <1>8 DEF SendRefused
<1>9. ASSUME NEW w \in Worker, RecordSent(w)
     PROVE  PassOK'
  BY <1>9 DEF RecordSent, Settle, Handled
<1>10. ASSUME NEW w \in Worker, LoseRecord(w)
     PROVE  PassOK'
  BY <1>10 DEF LoseRecord, Fault
<1>11. ASSUME NEW w \in Worker, RecordFailure(w)
     PROVE  PassOK'
  BY <1>11 DEF RecordFailure, Settle, Handled, GivesUp
<1>12. ASSUME NEW w \in Worker, EndBatch(w)
     PROVE  PassOK'
  BY <1>12 DEF EndBatch, NothingSeen
<1>13. ASSUME NEW w \in Worker, Purge(w)
     PROVE  PassOK'
  BY <1>13 DEF Purge
<1>14. ASSUME NEW w \in Worker, AbandonPass(w)
     PROVE  PassOK'
  BY <1>14 DEF AbandonPass, Fault, NothingSeen
<1>15. ASSUME NEW a \in Admin, NEW m \in Message, RetryRead(a, m)
     PROVE  PassOK'
  BY <1>15 DEF RetryRead
<1>16. ASSUME NEW a \in Admin, RetryWrite(a)
     PROVE  PassOK'
  BY <1>16 DEF RetryWrite, Settle
<1>17. ASSUME Switch
     PROVE  PassOK'
  BY <1>17 DEF Switch
<1>18. ASSUME TogglePause
     PROVE  PassOK'
  BY <1>18 DEF TogglePause
<1>19. ASSUME NEW m \in Message, Enqueue(m)
     PROVE  PassOK'
  BY <1>19 DEF Enqueue
<1>20. ASSUME NEW m \in Message, Cancel(m)
     PROVE  PassOK'
  BY <1>20 DEF Cancel, Settle, Withdrawable
<1>21. ASSUME NEW m \in Message, Leave(m)
     PROVE  PassOK'
  BY <1>21 DEF Leave
<1>22. ASSUME NEW m \in Message, Rejoin(m)
     PROVE  PassOK'
  BY <1>22 DEF Rejoin
<1>23. ASSUME NEW m \in Message, AckExpires(m)
     PROVE  PassOK'
  BY <1>23 DEF AckExpires
<1>24. ASSUME NEW m \in Message, BackoffElapses(m)
     PROVE  PassOK'
  BY <1>24 DEF BackoffElapses
<1>25. ASSUME NEW m \in Message, ClaimGoesStale(m)
     PROVE  PassOK'
  BY <1>25 DEF ClaimGoesStale
<1>26. CASE UNCHANGED vars
  BY <1>26 DEF vars
<1>. QED
  BY <1>1, <1>2, <1>3, <1>4, <1>5, <1>6, <1>7, <1>8, <1>9, <1>10, <1>11, <1>12, <1>13, <1>14, <1>15, <1>16, <1>17, <1>18, <1>19, <1>20, <1>21, <1>22, <1>23, <1>24, <1>25, <1>26 DEF Next, Pass, Office, Row

-----------------------------------------------------------------------------
(* The inductive invariant, when no live batch outlives the stale window   *)
(* and retry requests do not overlap.                                      *)

Quiet == ~SlowBatches /\ \A a, b \in Admin : a = b

\* No step takes a row out of the hands of the worker that claimed it.
LEMMA NextOwner ==
  ASSUME Quiet, TypeOK, PassOK, SoleOwner, ReadStillHolds, [Next]_vars
  PROVE  SoleOwner'
<1> USE RowsAssumption, LimitsAssumption
    DEF Quiet, TypeOK, PassOK, Handling, SoleOwner, InHand, Held, ReadStillHolds, table, world, process, history
<1>1. ASSUME NEW w \in Worker, StartPass(w)
     PROVE  SoleOwner'
  BY <1>1 DEF StartPass
<1>2. ASSUME NEW w \in Worker, SkipPass(w)
     PROVE  SoleOwner'
  BY <1>2 DEF SkipPass
<1>3. ASSUME NEW w \in Worker, ReleaseStale(w)
     PROVE  SoleOwner'
  BY <1>3 DEF ReleaseStale, ReleaseAs
<1>4. ASSUME NEW w \in Worker, Claim(w)
     PROVE  SoleOwner'
  BY <1>4 DEF Claim, Claimable, ClaimableIn
<1>5. ASSUME NEW w \in Worker, Check(w)
     PROVE  SoleOwner'
  BY <1>5 DEF Check
<1>6. ASSUME NEW w \in Worker, Drop(w)
     PROVE  SoleOwner'
  BY <1>6 DEF Drop, Settle, Handled
<1>7. ASSUME NEW w \in Worker, SendAccepted(w)
     PROVE  SoleOwner'
  BY <1>7 DEF SendAccepted, Unwanted
<1>8. ASSUME NEW w \in Worker, SendRefused(w)
     PROVE  SoleOwner'
  BY <1>8 DEF SendRefused
<1>9. ASSUME NEW w \in Worker, RecordSent(w)
     PROVE  SoleOwner'
  BY <1>9 DEF RecordSent, Settle, Handled
<1>10. ASSUME NEW w \in Worker, LoseRecord(w)
     PROVE  SoleOwner'
  BY <1>10 DEF LoseRecord, Fault
<1>11. ASSUME NEW w \in Worker, RecordFailure(w)
     PROVE  SoleOwner'
  BY <1>11 DEF RecordFailure, Settle, Handled, GivesUp
<1>12. ASSUME NEW w \in Worker, EndBatch(w)
     PROVE  SoleOwner'
  BY <1>12 DEF EndBatch, NothingSeen
<1>13. ASSUME NEW w \in Worker, Purge(w)
     PROVE  SoleOwner'
  BY <1>13 DEF Purge
<1>14. ASSUME NEW w \in Worker, AbandonPass(w)
     PROVE  SoleOwner'
  BY <1>14 DEF AbandonPass, Fault, NothingSeen
<1>15. ASSUME NEW a \in Admin, NEW m \in Message, RetryRead(a, m)
     PROVE  SoleOwner'
  BY <1>15 DEF RetryRead
<1>16. ASSUME NEW a \in Admin, RetryWrite(a)
     PROVE  SoleOwner'
  <2>1. \A w \in Worker : reading[a] \notin InHand(w)
    BY <1>16 DEF RetryWrite
  <2>2. \A w \in Worker : InHand(w)' = InHand(w)
    BY <1>16 DEF RetryWrite
  <2>. QED
    BY <1>16, <2>1, <2>2 DEF RetryWrite, Settle
<1>17. ASSUME Switch
     PROVE  SoleOwner'
  BY <1>17 DEF Switch
<1>18. ASSUME TogglePause
     PROVE  SoleOwner'
  BY <1>18 DEF TogglePause
<1>19. ASSUME NEW m \in Message, Enqueue(m)
     PROVE  SoleOwner'
  BY <1>19 DEF Enqueue
<1>20. ASSUME NEW m \in Message, Cancel(m)
     PROVE  SoleOwner'
  BY <1>20 DEF Cancel, Settle, Withdrawable
<1>21. ASSUME NEW m \in Message, Leave(m)
     PROVE  SoleOwner'
  BY <1>21 DEF Leave
<1>22. ASSUME NEW m \in Message, Rejoin(m)
     PROVE  SoleOwner'
  BY <1>22 DEF Rejoin
<1>23. ASSUME NEW m \in Message, AckExpires(m)
     PROVE  SoleOwner'
  BY <1>23 DEF AckExpires
<1>24. ASSUME NEW m \in Message, BackoffElapses(m)
     PROVE  SoleOwner'
  BY <1>24 DEF BackoffElapses
<1>25. ASSUME NEW m \in Message, ClaimGoesStale(m)
     PROVE  SoleOwner'
  BY <1>25 DEF ClaimGoesStale
<1>26. CASE UNCHANGED vars
  BY <1>26 DEF vars
<1>. QED
  BY <1>1, <1>2, <1>3, <1>4, <1>5, <1>6, <1>7, <1>8, <1>9, <1>10, <1>11, <1>12, <1>13, <1>14, <1>15, <1>16, <1>17, <1>18, <1>19, <1>20, <1>21, <1>22, <1>23, <1>24, <1>25, <1>26 DEF Next, Pass, Office, Row

\* What a retry has read stays finished until it writes.
LEMMA NextRead ==
  ASSUME Quiet, TypeOK, PassOK, SoleOwner, ReadStillHolds, [Next]_vars
  PROVE  ReadStillHolds'
<1> USE RowsAssumption, LimitsAssumption
    DEF Quiet, TypeOK, PassOK, Handling, SoleOwner, InHand, ReadStillHolds, table, world, process, history
<1>1. ASSUME NEW w \in Worker, StartPass(w)
     PROVE  ReadStillHolds'
  BY <1>1 DEF StartPass
<1>2. ASSUME NEW w \in Worker, SkipPass(w)
     PROVE  ReadStillHolds'
  BY <1>2 DEF SkipPass
<1>3. ASSUME NEW w \in Worker, ReleaseStale(w)
     PROVE  ReadStillHolds'
  BY <1>3 DEF ReleaseStale, ReleaseAs
<1>4. ASSUME NEW w \in Worker, Claim(w)
     PROVE  ReadStillHolds'
  BY <1>4 DEF Claim, Claimable, ClaimableIn
<1>5. ASSUME NEW w \in Worker, Check(w)
     PROVE  ReadStillHolds'
  BY <1>5 DEF Check
<1>6. ASSUME NEW w \in Worker, Drop(w)
     PROVE  ReadStillHolds'
  BY <1>6 DEF Drop, Settle, Handled
<1>7. ASSUME NEW w \in Worker, SendAccepted(w)
     PROVE  ReadStillHolds'
  BY <1>7 DEF SendAccepted, Unwanted
<1>8. ASSUME NEW w \in Worker, SendRefused(w)
     PROVE  ReadStillHolds'
  BY <1>8 DEF SendRefused
<1>9. ASSUME NEW w \in Worker, RecordSent(w)
     PROVE  ReadStillHolds'
  BY <1>9 DEF RecordSent, Settle, Handled
<1>10. ASSUME NEW w \in Worker, LoseRecord(w)
     PROVE  ReadStillHolds'
  BY <1>10 DEF LoseRecord, Fault
<1>11. ASSUME NEW w \in Worker, RecordFailure(w)
     PROVE  ReadStillHolds'
  BY <1>11 DEF RecordFailure, Settle, Handled, GivesUp
<1>12. ASSUME NEW w \in Worker, EndBatch(w)
     PROVE  ReadStillHolds'
  BY <1>12 DEF EndBatch, NothingSeen
<1>13. ASSUME NEW w \in Worker, Purge(w)
     PROVE  ReadStillHolds'
  BY <1>13 DEF Purge
<1>14. ASSUME NEW w \in Worker, AbandonPass(w)
     PROVE  ReadStillHolds'
  BY <1>14 DEF AbandonPass, Fault, NothingSeen
<1>15. ASSUME NEW a \in Admin, NEW m \in Message, RetryRead(a, m)
     PROVE  ReadStillHolds'
  BY <1>15 DEF RetryRead
<1>16. ASSUME NEW a \in Admin, RetryWrite(a)
     PROVE  ReadStillHolds'
  BY <1>16 DEF RetryWrite, Settle
<1>17. ASSUME Switch
     PROVE  ReadStillHolds'
  BY <1>17 DEF Switch
<1>18. ASSUME TogglePause
     PROVE  ReadStillHolds'
  BY <1>18 DEF TogglePause
<1>19. ASSUME NEW m \in Message, Enqueue(m)
     PROVE  ReadStillHolds'
  BY <1>19 DEF Enqueue
<1>20. ASSUME NEW m \in Message, Cancel(m)
     PROVE  ReadStillHolds'
  BY <1>20 DEF Cancel, Settle, Withdrawable
<1>21. ASSUME NEW m \in Message, Leave(m)
     PROVE  ReadStillHolds'
  BY <1>21 DEF Leave
<1>22. ASSUME NEW m \in Message, Rejoin(m)
     PROVE  ReadStillHolds'
  BY <1>22 DEF Rejoin
<1>23. ASSUME NEW m \in Message, AckExpires(m)
     PROVE  ReadStillHolds'
  BY <1>23 DEF AckExpires
<1>24. ASSUME NEW m \in Message, BackoffElapses(m)
     PROVE  ReadStillHolds'
  BY <1>24 DEF BackoffElapses
<1>25. ASSUME NEW m \in Message, ClaimGoesStale(m)
     PROVE  ReadStillHolds'
  BY <1>25 DEF ClaimGoesStale
<1>26. CASE UNCHANGED vars
  BY <1>26 DEF vars
<1>. QED
  BY <1>1, <1>2, <1>3, <1>4, <1>5, <1>6, <1>7, <1>8, <1>9, <1>10, <1>11, <1>12, <1>13, <1>14, <1>15, <1>16, <1>17, <1>18, <1>19, <1>20, <1>21, <1>22, <1>23, <1>24, <1>25, <1>26 DEF Next, Pass, Office, Row

\* At most one copy is late.
LEMMA NextLate ==
  ASSUME TypeOK, PassOK, SoleOwner, LateAccount, [Next]_vars
  PROVE  LateAccount'
<1> USE RowsAssumption, LimitsAssumption
    DEF TypeOK, PassOK, Handling, SoleOwner, InHand, LateAccount, Unwanted, StopsSending, table, world, process, history
<1>1. ASSUME NEW w \in Worker, StartPass(w)
     PROVE  LateAccount'
  BY <1>1 DEF StartPass
<1>2. ASSUME NEW w \in Worker, SkipPass(w)
     PROVE  LateAccount'
  BY <1>2 DEF SkipPass
<1>3. ASSUME NEW w \in Worker, ReleaseStale(w)
     PROVE  LateAccount'
  BY <1>3 DEF ReleaseStale, ReleaseAs
<1>4. ASSUME NEW w \in Worker, Claim(w)
     PROVE  LateAccount'
  BY <1>4 DEF Claim, Claimable, ClaimableIn
<1>5. ASSUME NEW w \in Worker, Check(w)
     PROVE  LateAccount'
  BY <1>5 DEF Check
<1>6. ASSUME NEW w \in Worker, Drop(w)
     PROVE  LateAccount'
  BY <1>6 DEF Drop, Settle, Handled
<1>7. ASSUME NEW w \in Worker, SendAccepted(w)
     PROVE  LateAccount'
  BY <1>7 DEF SendAccepted, Unwanted
<1>8. ASSUME NEW w \in Worker, SendRefused(w)
     PROVE  LateAccount'
  BY <1>8 DEF SendRefused
<1>9. ASSUME NEW w \in Worker, RecordSent(w)
     PROVE  LateAccount'
  BY <1>9 DEF RecordSent, Settle, Handled
<1>10. ASSUME NEW w \in Worker, LoseRecord(w)
     PROVE  LateAccount'
  BY <1>10 DEF LoseRecord, Fault
<1>11. ASSUME NEW w \in Worker, RecordFailure(w)
     PROVE  LateAccount'
  BY <1>11 DEF RecordFailure, Settle, Handled, GivesUp
<1>12. ASSUME NEW w \in Worker, EndBatch(w)
     PROVE  LateAccount'
  BY <1>12 DEF EndBatch, NothingSeen
<1>13. ASSUME NEW w \in Worker, Purge(w)
     PROVE  LateAccount'
  BY <1>13 DEF Purge
<1>14. ASSUME NEW w \in Worker, AbandonPass(w)
     PROVE  LateAccount'
  BY <1>14 DEF AbandonPass, Fault, NothingSeen
<1>15. ASSUME NEW a \in Admin, NEW m \in Message, RetryRead(a, m)
     PROVE  LateAccount'
  BY <1>15 DEF RetryRead
<1>16. ASSUME NEW a \in Admin, RetryWrite(a)
     PROVE  LateAccount'
  BY <1>16 DEF RetryWrite, Settle
<1>17. ASSUME Switch
     PROVE  LateAccount'
  BY <1>17 DEF Switch
<1>18. ASSUME TogglePause
     PROVE  LateAccount'
  BY <1>18 DEF TogglePause
<1>19. ASSUME NEW m \in Message, Enqueue(m)
     PROVE  LateAccount'
  BY <1>19 DEF Enqueue
<1>20. ASSUME NEW m \in Message, Cancel(m)
     PROVE  LateAccount'
  BY <1>20 DEF Cancel, Settle, Withdrawable
<1>21. ASSUME NEW m \in Message, Leave(m)
     PROVE  LateAccount'
  BY <1>21 DEF Leave
<1>22. ASSUME NEW m \in Message, Rejoin(m)
     PROVE  LateAccount'
  BY <1>22 DEF Rejoin
<1>23. ASSUME NEW m \in Message, AckExpires(m)
     PROVE  LateAccount'
  BY <1>23 DEF AckExpires
<1>24. ASSUME NEW m \in Message, BackoffElapses(m)
     PROVE  LateAccount'
  BY <1>24 DEF BackoffElapses
<1>25. ASSUME NEW m \in Message, ClaimGoesStale(m)
     PROVE  LateAccount'
  BY <1>25 DEF ClaimGoesStale
<1>26. CASE UNCHANGED vars
  BY <1>26 DEF vars
<1>. QED
  BY <1>1, <1>2, <1>3, <1>4, <1>5, <1>6, <1>7, <1>8, <1>9, <1>10, <1>11, <1>12, <1>13, <1>14, <1>15, <1>16, <1>17, <1>18, <1>19, <1>20, <1>21, <1>22, <1>23, <1>24, <1>25, <1>26 DEF Next, Pass, Office, Row

\* The attempts a worker read are those of the row, and are bounded.
LEMMA NextSchedule ==
  ASSUME TypeOK, PassOK, SoleOwner, ReadStillHolds, Schedule, [Next]_vars
  PROVE  Schedule'
<1> USE RowsAssumption, LimitsAssumption
    DEF TypeOK, PassOK, Handling, SoleOwner, InHand, ReadStillHolds, Schedule, table, world, process, history
<1>1. ASSUME NEW w \in Worker, StartPass(w)
     PROVE  Schedule'
  BY <1>1 DEF StartPass
<1>2. ASSUME NEW w \in Worker, SkipPass(w)
     PROVE  Schedule'
  BY <1>2 DEF SkipPass
<1>3. ASSUME NEW w \in Worker, ReleaseStale(w)
     PROVE  Schedule'
  BY <1>3 DEF ReleaseStale, ReleaseAs
<1>4. ASSUME NEW w \in Worker, Claim(w)
     PROVE  Schedule'
  <2>1. PICK S \in SUBSET Claimable :
          /\ status' = [m \in Message |-> IF m \in S THEN "SENDING" ELSE status[m]]
          /\ attempts' = [m \in Message |->
                            IF m \in S THEN attempts[m] + 1 ELSE attempts[m]]
          /\ seen' = [seen EXCEPT ![w] =
                        [m \in Message |-> IF m \in S THEN attempts[m] + 1 ELSE 0]]
          /\ batch' = [batch EXCEPT ![w] = S]
    BY <1>4 DEF Claim
  <2>2. S \subseteq Message /\ \A m \in S : status[m] = "PENDING"
    BY <2>1 DEF Claimable, ClaimableIn
  <2>3. pc[w] = "claim" /\ UNCHANGED cur
    BY <1>4 DEF Claim
  <2>4. InHand(w)' = S /\ \A v \in Worker \ {w} : InHand(v)' = InHand(v)
    <3>1. cur'[w] = NoMessage
      BY <2>3
    <3>2. batch'[w] = S
      BY <2>1
    <3>3. InHand(w)' = S
      BY <3>1, <3>2
    <3>4. \A v \in Worker \ {w} : batch'[v] = batch[v]
      BY <2>1
    <3>. QED
      BY <3>3, <3>4, <2>3
  <2>5. \A v \in Worker : InHand(v) \cap S = {}
    BY <2>2
  <2>6. \A m \in Message : attempts'[m] <= MaxAttempts
    BY <2>1, <2>2
  <2>7. \A m \in Message : status'[m] \in {"none", "PENDING"} => attempts'[m] < MaxAttempts
    BY <2>1, <2>2
  <2>8. \A v \in Worker : \A m \in InHand(v)' : seen'[v][m] = attempts'[m]
    <3> SUFFICES ASSUME NEW v \in Worker, NEW m \in InHand(v)'
                 PROVE  seen'[v][m] = attempts'[m]
      OBVIOUS
    <3>1. CASE v = w
      BY <3>1, <2>1, <2>2, <2>4
    <3>2. CASE v # w
      <4>1. m \in InHand(v) /\ m \in Message /\ m \notin S
        BY <3>2, <2>4, <2>5
      <4>. QED
        BY <3>2, <4>1, <2>1
    <3>. QED
      BY <3>1, <3>2
  <2>. QED
    BY <2>6, <2>7, <2>8
<1>5. ASSUME NEW w \in Worker, Check(w)
     PROVE  Schedule'
  BY <1>5 DEF Check
<1>6. ASSUME NEW w \in Worker, Drop(w)
     PROVE  Schedule'
  BY <1>6 DEF Drop, Settle, Handled
<1>7. ASSUME NEW w \in Worker, SendAccepted(w)
     PROVE  Schedule'
  BY <1>7 DEF SendAccepted, Unwanted
<1>8. ASSUME NEW w \in Worker, SendRefused(w)
     PROVE  Schedule'
  BY <1>8 DEF SendRefused
<1>9. ASSUME NEW w \in Worker, RecordSent(w)
     PROVE  Schedule'
  BY <1>9 DEF RecordSent, Settle, Handled
<1>10. ASSUME NEW w \in Worker, LoseRecord(w)
     PROVE  Schedule'
  BY <1>10 DEF LoseRecord, Fault
<1>11. ASSUME NEW w \in Worker, RecordFailure(w)
     PROVE  Schedule'
  BY <1>11 DEF RecordFailure, Settle, Handled, GivesUp
<1>12. ASSUME NEW w \in Worker, EndBatch(w)
     PROVE  Schedule'
  <2>1. InHand(w) = {} /\ \A v \in Worker : InHand(v)' = InHand(v)
    BY <1>12, SMTT(30) DEF EndBatch
  <2>. QED
    BY <1>12, <2>1 DEF EndBatch
<1>13. ASSUME NEW w \in Worker, Purge(w)
     PROVE  Schedule'
  BY <1>13 DEF Purge
<1>14. ASSUME NEW w \in Worker, AbandonPass(w)
     PROVE  Schedule'
  BY <1>14 DEF AbandonPass, Fault, NothingSeen
<1>15. ASSUME NEW a \in Admin, NEW m \in Message, RetryRead(a, m)
     PROVE  Schedule'
  BY <1>15 DEF RetryRead
<1>16. ASSUME NEW a \in Admin, RetryWrite(a)
     PROVE  Schedule'
  <2>1. \A w \in Worker : reading[a] \notin InHand(w)
    BY <1>16 DEF RetryWrite
  <2>2. \A w \in Worker : InHand(w)' = InHand(w)
    BY <1>16 DEF RetryWrite
  <2>. QED
    BY <1>16, <2>1, <2>2 DEF RetryWrite, Settle
<1>17. ASSUME Switch
     PROVE  Schedule'
  BY <1>17 DEF Switch
<1>18. ASSUME TogglePause
     PROVE  Schedule'
  BY <1>18 DEF TogglePause
<1>19. ASSUME NEW m \in Message, Enqueue(m)
     PROVE  Schedule'
  BY <1>19 DEF Enqueue
<1>20. ASSUME NEW m \in Message, Cancel(m)
     PROVE  Schedule'
  BY <1>20 DEF Cancel, Settle, Withdrawable
<1>21. ASSUME NEW m \in Message, Leave(m)
     PROVE  Schedule'
  BY <1>21 DEF Leave
<1>22. ASSUME NEW m \in Message, Rejoin(m)
     PROVE  Schedule'
  BY <1>22 DEF Rejoin
<1>23. ASSUME NEW m \in Message, AckExpires(m)
     PROVE  Schedule'
  BY <1>23 DEF AckExpires
<1>24. ASSUME NEW m \in Message, BackoffElapses(m)
     PROVE  Schedule'
  BY <1>24 DEF BackoffElapses
<1>25. ASSUME NEW m \in Message, ClaimGoesStale(m)
     PROVE  Schedule'
  BY <1>25 DEF ClaimGoesStale
<1>26. CASE UNCHANGED vars
  BY <1>26 DEF vars
<1>. QED
  BY <1>1, <1>2, <1>3, <1>4, <1>5, <1>6, <1>7, <1>8, <1>9, <1>10, <1>11, <1>12, <1>13, <1>14, <1>15, <1>16, <1>17, <1>18, <1>19, <1>20, <1>21, <1>22, <1>23, <1>24, <1>25, <1>26 DEF Next, Pass, Office, Row

-----------------------------------------------------------------------------
(* What a step does to the credits of the outbox *)

\* Some rows can no longer be sent; no copy leaves and none is asked for.
Forfeits ==
  /\ \A m \in Message : Sendable(m)' => Sendable(m)
  /\ UNCHANGED <<accepted, decisions, lost>>

Others(n) == \A m \in Message \ {n} : Sendable(m)' = Sendable(m)

\* The copy that could be sent is sent.
Spends(n) ==
  /\ Sendable(n) /\ (\A m \in Message : m = n => ~Sendable(m)')
  /\ Others(n)
  /\ accepted' = [accepted EXCEPT ![n] = @ + 1]
  /\ UNCHANGED <<decisions, lost>>

\* A row nobody could send can be sent once more.
Gains(n) ==
  /\ ~Sendable(n) /\ (\A m \in Message : m = n => Sendable(m)')
  /\ Others(n)
  /\ \/ decisions' = [decisions EXCEPT ![n] = @ + 1] /\ UNCHANGED lost
     \/ lost' = [lost EXCEPT ![n] = @ + 1] /\ UNCHANGED decisions
  /\ UNCHANGED accepted

\* Every step forfeits credits, spends one or gains one.
LEMMA StepKinds ==
  ASSUME TypeOK, PassOK, SoleOwner, ReadStillHolds, [Next]_vars
  PROVE  Forfeits \/ \E n \in Message : Spends(n) \/ Gains(n)
<1> USE RowsAssumption, LimitsAssumption
    DEF TypeOK, PassOK, Handling, table, world, process, history
<1>1. ASSUME NEW w \in Worker, StartPass(w)
     PROVE  Forfeits \/ \E n \in Message : Spends(n) \/ Gains(n)
  <2>1. \A k \in Message : Sendable(k)' => Sendable(k)
    BY <1>1 DEF StartPass, Sendable, InHand
  <2>2. UNCHANGED <<accepted, decisions, lost>>
    BY <1>1 DEF StartPass
  <2>. QED
    BY <2>1, <2>2 DEF Forfeits
<1>2. ASSUME NEW w \in Worker, SkipPass(w)
     PROVE  Forfeits \/ \E n \in Message : Spends(n) \/ Gains(n)
  <2>1. \A k \in Message : Sendable(k)' => Sendable(k)
    BY <1>2 DEF SkipPass, Sendable, InHand
  <2>2. UNCHANGED <<accepted, decisions, lost>>
    BY <1>2 DEF SkipPass
  <2>. QED
    BY <2>1, <2>2 DEF Forfeits
<1>3. ASSUME NEW w \in Worker, ReleaseStale(w)
     PROVE  Forfeits \/ \E n \in Message : Spends(n) \/ Gains(n)
  <2>1. \A k \in Message : Sendable(k)' => Sendable(k)
    BY <1>3 DEF ReleaseStale, Sendable, InHand, ReleaseAs
  <2>2. UNCHANGED <<accepted, decisions, lost>>
    BY <1>3 DEF ReleaseStale, ReleaseAs
  <2>. QED
    BY <2>1, <2>2 DEF Forfeits
<1>4. ASSUME NEW w \in Worker, Claim(w)
     PROVE  Forfeits \/ \E n \in Message : Spends(n) \/ Gains(n)
  <2>1. \A k \in Message : Sendable(k)' => Sendable(k)
    BY <1>4 DEF Claim, Sendable, InHand, Claimable, ClaimableIn
  <2>2. UNCHANGED <<accepted, decisions, lost>>
    BY <1>4 DEF Claim
  <2>. QED
    BY <2>1, <2>2 DEF Forfeits
<1>5. ASSUME NEW w \in Worker, Check(w)
     PROVE  Forfeits \/ \E n \in Message : Spends(n) \/ Gains(n)
  <2>1. \A k \in Message : Sendable(k)' => Sendable(k)
    BY <1>5 DEF Check, Sendable, InHand
  <2>2. UNCHANGED <<accepted, decisions, lost>>
    BY <1>5 DEF Check
  <2>. QED
    BY <2>1, <2>2 DEF Forfeits
<1>6. ASSUME NEW w \in Worker, Drop(w)
     PROVE  Forfeits \/ \E n \in Message : Spends(n) \/ Gains(n)
  <2>1. \A k \in Message : Sendable(k)' => Sendable(k)
    BY <1>6 DEF Drop, Sendable, InHand, Settle, Handled
  <2>2. UNCHANGED <<accepted, decisions, lost>>
    BY <1>6 DEF Drop
  <2>. QED
    BY <2>1, <2>2 DEF Forfeits
<1>7. ASSUME NEW w \in Worker, SendAccepted(w)
     PROVE  Forfeits \/ \E n \in Message : Spends(n) \/ Gains(n)
  <2>1. cur[w] \in Message /\ Sendable(cur[w])
    BY <1>7 DEF SendAccepted, Sendable
  <2>2. \A m \in Message : m = cur[w] => ~Sendable(m)'
    BY <1>7 DEF SendAccepted, Sendable, InHand, SoleOwner
  <2>3. Others(cur[w])
    BY <1>7 DEF SendAccepted, Sendable, Others
  <2>4. /\ accepted' = [accepted EXCEPT ![cur[w]] = @ + 1]
        /\ UNCHANGED <<decisions, lost>>
    BY <1>7 DEF SendAccepted
  <2>. QED
    BY <2>1, <2>2, <2>3, <2>4 DEF Spends
<1>8. ASSUME NEW w \in Worker, SendRefused(w)
     PROVE  Forfeits \/ \E n \in Message : Spends(n) \/ Gains(n)
  <2>1. \A k \in Message : Sendable(k)' => Sendable(k)
    BY <1>8 DEF SendRefused, Sendable, InHand
  <2>2. UNCHANGED <<accepted, decisions, lost>>
    BY <1>8 DEF SendRefused
  <2>. QED
    BY <2>1, <2>2 DEF Forfeits
<1>9. ASSUME NEW w \in Worker, RecordSent(w)
     PROVE  Forfeits \/ \E n \in Message : Spends(n) \/ Gains(n)
  <2>1. \A k \in Message : Sendable(k)' => Sendable(k)
    BY <1>9 DEF RecordSent, Sendable, InHand, Settle, Handled
  <2>2. UNCHANGED <<accepted, decisions, lost>>
    BY <1>9 DEF RecordSent
  <2>. QED
    BY <2>1, <2>2 DEF Forfeits
<1>10. ASSUME NEW w \in Worker, LoseRecord(w)
     PROVE  Forfeits \/ \E n \in Message : Spends(n) \/ Gains(n)
  <2>1. cur[w] \in Message /\ ~Sendable(cur[w])
    BY <1>10 DEF LoseRecord, Sendable, InHand, SoleOwner, ReadStillHolds
  <2>2. \A k \in Message : k = cur[w] => Sendable(k)'
    BY <1>10, <2>1 DEF LoseRecord, Sendable
  <2>3. Others(cur[w])
    BY <1>10, <2>1 DEF LoseRecord, Sendable, Others
  <2>4. /\ lost' = [lost EXCEPT ![cur[w]] = @ + 1]
        /\ UNCHANGED <<accepted, decisions>>
    BY <1>10 DEF LoseRecord
  <2>. QED
    BY <2>1, <2>2, <2>3, <2>4 DEF Gains
<1>11. ASSUME NEW w \in Worker, RecordFailure(w)
     PROVE  Forfeits \/ \E n \in Message : Spends(n) \/ Gains(n)
  <2>1. \A k \in Message : Sendable(k)' => Sendable(k)
    BY <1>11 DEF RecordFailure, Sendable, InHand, Settle, Handled
  <2>2. UNCHANGED <<accepted, decisions, lost>>
    BY <1>11 DEF RecordFailure
  <2>. QED
    BY <2>1, <2>2 DEF Forfeits
<1>12. ASSUME NEW w \in Worker, EndBatch(w)
     PROVE  Forfeits \/ \E n \in Message : Spends(n) \/ Gains(n)
  <2>1. \A k \in Message : Sendable(k)' => Sendable(k)
    BY <1>12 DEF EndBatch, Sendable, InHand
  <2>2. UNCHANGED <<accepted, decisions, lost>>
    BY <1>12 DEF EndBatch
  <2>. QED
    BY <2>1, <2>2 DEF Forfeits
<1>13. ASSUME NEW w \in Worker, Purge(w)
     PROVE  Forfeits \/ \E n \in Message : Spends(n) \/ Gains(n)
  <2>1. \A k \in Message : Sendable(k)' => Sendable(k)
    BY <1>13 DEF Purge, Sendable, InHand
  <2>2. UNCHANGED <<accepted, decisions, lost>>
    BY <1>13 DEF Purge
  <2>. QED
    BY <2>1, <2>2 DEF Forfeits
<1>14. ASSUME NEW w \in Worker, AbandonPass(w)
     PROVE  Forfeits \/ \E n \in Message : Spends(n) \/ Gains(n)
  <2>1. \A k \in Message : Sendable(k)' => Sendable(k)
    BY <1>14 DEF AbandonPass, Sendable, InHand, Fault
  <2>2. UNCHANGED <<accepted, decisions, lost>>
    BY <1>14 DEF AbandonPass
  <2>. QED
    BY <2>1, <2>2 DEF Forfeits
<1>15. ASSUME NEW a \in Admin, NEW m \in Message, RetryRead(a, m)
     PROVE  Forfeits \/ \E n \in Message : Spends(n) \/ Gains(n)
  <2>1. \A k \in Message : Sendable(k)' => Sendable(k)
    BY <1>15 DEF RetryRead, Sendable, InHand
  <2>2. UNCHANGED <<accepted, decisions, lost>>
    BY <1>15 DEF RetryRead
  <2>. QED
    BY <2>1, <2>2 DEF Forfeits
<1>16. ASSUME NEW a \in Admin, RetryWrite(a)
     PROVE  Forfeits \/ \E n \in Message : Spends(n) \/ Gains(n)
  <2>1. reading[a] \in Message /\ ~Sendable(reading[a])
    BY <1>16 DEF RetryWrite, Sendable, InHand, SoleOwner, ReadStillHolds
  <2>2. \A k \in Message : k = reading[a] => Sendable(k)'
    BY <1>16, <2>1 DEF RetryWrite, Sendable, Settle
  <2>3. Others(reading[a])
    BY <1>16, <2>1 DEF RetryWrite, Sendable, Others, Settle
  <2>4. /\ decisions' = [decisions EXCEPT ![reading[a]] = @ + 1]
        /\ UNCHANGED <<accepted, lost>>
    BY <1>16 DEF RetryWrite
  <2>. QED
    BY <2>1, <2>2, <2>3, <2>4 DEF Gains
<1>17. ASSUME Switch
     PROVE  Forfeits \/ \E n \in Message : Spends(n) \/ Gains(n)
  <2>1. \A k \in Message : Sendable(k)' => Sendable(k)
    BY <1>17 DEF Switch, Sendable, InHand
  <2>2. UNCHANGED <<accepted, decisions, lost>>
    BY <1>17 DEF Switch
  <2>. QED
    BY <2>1, <2>2 DEF Forfeits
<1>18. ASSUME TogglePause
     PROVE  Forfeits \/ \E n \in Message : Spends(n) \/ Gains(n)
  <2>1. \A k \in Message : Sendable(k)' => Sendable(k)
    BY <1>18 DEF TogglePause, Sendable, InHand
  <2>2. UNCHANGED <<accepted, decisions, lost>>
    BY <1>18 DEF TogglePause
  <2>. QED
    BY <2>1, <2>2 DEF Forfeits
<1>19. ASSUME NEW m \in Message, Enqueue(m)
     PROVE  Forfeits \/ \E n \in Message : Spends(n) \/ Gains(n)
  <2>1. m \in Message /\ ~Sendable(m)
    BY <1>19 DEF Enqueue, Sendable, InHand, SoleOwner, ReadStillHolds
  <2>2. \A k \in Message : k = m => Sendable(k)'
    BY <1>19, <2>1 DEF Enqueue, Sendable
  <2>3. Others(m)
    BY <1>19, <2>1 DEF Enqueue, Sendable, Others
  <2>4. /\ decisions' = [decisions EXCEPT ![m] = @ + 1]
        /\ UNCHANGED <<accepted, lost>>
    BY <1>19 DEF Enqueue
  <2>. QED
    BY <2>1, <2>2, <2>3, <2>4 DEF Gains
<1>20. ASSUME NEW m \in Message, Cancel(m)
     PROVE  Forfeits \/ \E n \in Message : Spends(n) \/ Gains(n)
  <2>1. \A k \in Message : Sendable(k)' => Sendable(k)
    BY <1>20 DEF Cancel, Sendable, InHand, Settle
  <2>2. UNCHANGED <<accepted, decisions, lost>>
    BY <1>20 DEF Cancel
  <2>. QED
    BY <2>1, <2>2 DEF Forfeits
<1>21. ASSUME NEW m \in Message, Leave(m)
     PROVE  Forfeits \/ \E n \in Message : Spends(n) \/ Gains(n)
  <2>1. \A k \in Message : Sendable(k)' => Sendable(k)
    BY <1>21 DEF Leave, Sendable, InHand
  <2>2. UNCHANGED <<accepted, decisions, lost>>
    BY <1>21 DEF Leave
  <2>. QED
    BY <2>1, <2>2 DEF Forfeits
<1>22. ASSUME NEW m \in Message, Rejoin(m)
     PROVE  Forfeits \/ \E n \in Message : Spends(n) \/ Gains(n)
  <2>1. \A k \in Message : Sendable(k)' => Sendable(k)
    BY <1>22 DEF Rejoin, Sendable, InHand
  <2>2. UNCHANGED <<accepted, decisions, lost>>
    BY <1>22 DEF Rejoin
  <2>. QED
    BY <2>1, <2>2 DEF Forfeits
<1>23. ASSUME NEW m \in Message, AckExpires(m)
     PROVE  Forfeits \/ \E n \in Message : Spends(n) \/ Gains(n)
  <2>1. \A k \in Message : Sendable(k)' => Sendable(k)
    BY <1>23 DEF AckExpires, Sendable, InHand
  <2>2. UNCHANGED <<accepted, decisions, lost>>
    BY <1>23 DEF AckExpires
  <2>. QED
    BY <2>1, <2>2 DEF Forfeits
<1>24. ASSUME NEW m \in Message, BackoffElapses(m)
     PROVE  Forfeits \/ \E n \in Message : Spends(n) \/ Gains(n)
  <2>1. \A k \in Message : Sendable(k)' => Sendable(k)
    BY <1>24 DEF BackoffElapses, Sendable, InHand
  <2>2. UNCHANGED <<accepted, decisions, lost>>
    BY <1>24 DEF BackoffElapses
  <2>. QED
    BY <2>1, <2>2 DEF Forfeits
<1>25. ASSUME NEW m \in Message, ClaimGoesStale(m)
     PROVE  Forfeits \/ \E n \in Message : Spends(n) \/ Gains(n)
  <2>1. \A k \in Message : Sendable(k)' => Sendable(k)
    BY <1>25 DEF ClaimGoesStale, Sendable, InHand
  <2>2. UNCHANGED <<accepted, decisions, lost>>
    BY <1>25 DEF ClaimGoesStale
  <2>. QED
    BY <2>1, <2>2 DEF Forfeits
<1>26. CASE UNCHANGED vars
  BY <1>26 DEF vars, Forfeits, Sendable
<1>. QED
  BY <1>1, <1>2, <1>3, <1>4, <1>5, <1>6, <1>7, <1>8, <1>9, <1>10, <1>11, <1>12, <1>13, <1>14, <1>15, <1>16, <1>17, <1>18, <1>19, <1>20, <1>21, <1>22, <1>23, <1>24, <1>25, <1>26 DEF Next, Pass, Office, Row

\* A finished row moves only by a retry.
LEMMA NextDecided ==
  ASSUME TypeOK, PassOK, SoleOwner, ReadStillHolds, [Next]_vars
  PROVE  FinishedMovesOnRetry
<1> USE RowsAssumption, LimitsAssumption
    DEF TypeOK, PassOK, Handling, SoleOwner, InHand, ReadStillHolds, FinishedMovesOnRetry, Finished, Status, table, world, process, history
<1>1. ASSUME NEW w \in Worker, StartPass(w)
     PROVE  FinishedMovesOnRetry
  BY <1>1 DEF StartPass
<1>2. ASSUME NEW w \in Worker, SkipPass(w)
     PROVE  FinishedMovesOnRetry
  BY <1>2 DEF SkipPass
<1>3. ASSUME NEW w \in Worker, ReleaseStale(w)
     PROVE  FinishedMovesOnRetry
  BY <1>3 DEF ReleaseStale, ReleaseAs
<1>4. ASSUME NEW w \in Worker, Claim(w)
     PROVE  FinishedMovesOnRetry
  BY <1>4 DEF Claim, Claimable, ClaimableIn
<1>5. ASSUME NEW w \in Worker, Check(w)
     PROVE  FinishedMovesOnRetry
  BY <1>5 DEF Check
<1>6. ASSUME NEW w \in Worker, Drop(w)
     PROVE  FinishedMovesOnRetry
  BY <1>6 DEF Drop, Settle, Handled
<1>7. ASSUME NEW w \in Worker, SendAccepted(w)
     PROVE  FinishedMovesOnRetry
  BY <1>7 DEF SendAccepted, Unwanted
<1>8. ASSUME NEW w \in Worker, SendRefused(w)
     PROVE  FinishedMovesOnRetry
  BY <1>8 DEF SendRefused
<1>9. ASSUME NEW w \in Worker, RecordSent(w)
     PROVE  FinishedMovesOnRetry
  BY <1>9 DEF RecordSent, Settle, Handled
<1>10. ASSUME NEW w \in Worker, LoseRecord(w)
     PROVE  FinishedMovesOnRetry
  BY <1>10 DEF LoseRecord, Fault
<1>11. ASSUME NEW w \in Worker, RecordFailure(w)
     PROVE  FinishedMovesOnRetry
  BY <1>11 DEF RecordFailure, Settle, Handled, GivesUp
<1>12. ASSUME NEW w \in Worker, EndBatch(w)
     PROVE  FinishedMovesOnRetry
  BY <1>12 DEF EndBatch, NothingSeen
<1>13. ASSUME NEW w \in Worker, Purge(w)
     PROVE  FinishedMovesOnRetry
  BY <1>13 DEF Purge
<1>14. ASSUME NEW w \in Worker, AbandonPass(w)
     PROVE  FinishedMovesOnRetry
  BY <1>14 DEF AbandonPass, Fault, NothingSeen
<1>15. ASSUME NEW a \in Admin, NEW m \in Message, RetryRead(a, m)
     PROVE  FinishedMovesOnRetry
  BY <1>15 DEF RetryRead
<1>16. ASSUME NEW a \in Admin, RetryWrite(a)
     PROVE  FinishedMovesOnRetry
  BY <1>16 DEF RetryWrite, Settle
<1>17. ASSUME Switch
     PROVE  FinishedMovesOnRetry
  BY <1>17 DEF Switch
<1>18. ASSUME TogglePause
     PROVE  FinishedMovesOnRetry
  BY <1>18 DEF TogglePause
<1>19. ASSUME NEW m \in Message, Enqueue(m)
     PROVE  FinishedMovesOnRetry
  BY <1>19 DEF Enqueue
<1>20. ASSUME NEW m \in Message, Cancel(m)
     PROVE  FinishedMovesOnRetry
  BY <1>20 DEF Cancel, Settle, Withdrawable
<1>21. ASSUME NEW m \in Message, Leave(m)
     PROVE  FinishedMovesOnRetry
  BY <1>21 DEF Leave
<1>22. ASSUME NEW m \in Message, Rejoin(m)
     PROVE  FinishedMovesOnRetry
  BY <1>22 DEF Rejoin
<1>23. ASSUME NEW m \in Message, AckExpires(m)
     PROVE  FinishedMovesOnRetry
  BY <1>23 DEF AckExpires
<1>24. ASSUME NEW m \in Message, BackoffElapses(m)
     PROVE  FinishedMovesOnRetry
  BY <1>24 DEF BackoffElapses
<1>25. ASSUME NEW m \in Message, ClaimGoesStale(m)
     PROVE  FinishedMovesOnRetry
  BY <1>25 DEF ClaimGoesStale
<1>26. CASE UNCHANGED vars
  BY <1>26 DEF vars
<1>. QED
  BY <1>1, <1>2, <1>3, <1>4, <1>5, <1>6, <1>7, <1>8, <1>9, <1>10, <1>11, <1>12, <1>13, <1>14, <1>15, <1>16, <1>17, <1>18, <1>19, <1>20, <1>21, <1>22, <1>23, <1>24, <1>25, <1>26 DEF Next, Pass, Office, Row

-----------------------------------------------------------------------------
(* Theorems *)

\* Accounts stay balanced, because a step spends at most what it was granted.
LEMMA NextAccount ==
  ASSUME TypeOK, PassOK, SoleOwner, ReadStillHolds, Account, [Next]_vars
  PROVE  Account'
<1>1. CASE Forfeits
  BY <1>1 DEF Forfeits, Account, TypeOK
<1>2. ASSUME NEW n \in Message, Spends(n)
      PROVE  Account'
  <2> SUFFICES ASSUME NEW m \in Message
               PROVE  accepted'[m] + (IF Sendable(m)' THEN 1 ELSE 0)
                        <= decisions'[m] + lost'[m]
    BY DEF Account
  <2>1. CASE m = n
    <3>1. Sendable(m) /\ ~Sendable(m)'
      BY <1>2, <2>1 DEF Spends
    <3>2. accepted'[m] = accepted[m] + 1 /\ UNCHANGED <<decisions, lost>>
      BY <1>2, <2>1 DEF Spends, TypeOK
    <3>. QED
      BY <3>1, <3>2 DEF Account, TypeOK
  <2>2. CASE m # n
    <3>1. Sendable(m)' = Sendable(m)
      BY <1>2, <2>2 DEF Spends, Others
    <3>2. accepted'[m] = accepted[m] /\ UNCHANGED <<decisions, lost>>
      BY <1>2, <2>2 DEF Spends, TypeOK
    <3>. QED
      BY <3>1, <3>2 DEF Account, TypeOK
  <2>. QED
    BY <2>1, <2>2
<1>3. ASSUME NEW n \in Message, Gains(n)
      PROVE  Account'
  <2> SUFFICES ASSUME NEW m \in Message
               PROVE  accepted'[m] + (IF Sendable(m)' THEN 1 ELSE 0)
                        <= decisions'[m] + lost'[m]
    BY DEF Account
  <2>1. UNCHANGED accepted
    BY <1>3 DEF Gains
  <2>2. CASE m = n
    <3>1. ~Sendable(m) /\ decisions'[m] + lost'[m] = decisions[m] + lost[m] + 1
      BY <1>3, <2>2 DEF Gains, TypeOK
    <3>2. accepted[m] <= decisions[m] + lost[m]
      BY <3>1 DEF Account, TypeOK
    <3>. QED
      BY <2>1, <3>1, <3>2 DEF TypeOK
  <2>3. CASE m # n
    <3>1. Sendable(m)' = Sendable(m)
      BY <1>3, <2>3 DEF Gains, Others
    <3>2. decisions'[m] + lost'[m] = decisions[m] + lost[m]
      BY <1>3, <2>3 DEF Gains, TypeOK
    <3>. QED
      BY <2>1, <3>1, <3>2 DEF Account, TypeOK
  <2>. QED
    BY <2>2, <2>3
<1>. QED
  BY <1>1, <1>2, <1>3, StepKinds

LEMMA InitIInv == Init => IInv
<1> SUFFICES ASSUME Init PROVE IInv
  OBVIOUS
<1>1. TypeOK /\ PassOK
  BY InitPass
<1>2. SoleOwner /\ ReadStillHolds /\ LateAccount
  BY DEF Init, SoleOwner, ReadStillHolds, LateAccount, InHand
<1>3. Account
  BY <1>1 DEF Init, Account, Sendable
<1>4. Schedule
  BY LimitsAssumption DEF Init, Schedule, InHand
<1>. QED
  BY <1>1, <1>2, <1>3, <1>4 DEF IInv

LEMMA NextIInv == ASSUME Quiet, IInv, [Next]_vars PROVE IInv'
BY NextType, NextPass, NextOwner, NextRead, NextAccount, NextLate, NextSchedule
   DEF IInv

\* Every variable keeps its type and every pass agrees with its memory,
\* whatever batches and retries do.
THEOREM TypeCorrect == Spec => [](TypeOK /\ PassOK)
BY InitPass, NextType, NextPass, PTL DEF Spec

\* The inductive invariant holds for any number of rows and workers, any
\* number of crashes and any retry schedule.
THEOREM Invariance == ASSUME Quiet PROVE Spec => []IInv
<1>1. IInv /\ [Next]_vars => IInv'
  BY NextIInv
<1>. QED
  BY InitIInv, <1>1, PTL DEF Spec

\* A claimed row belongs to one worker, and nothing else touches it.
THEOREM OwnerHolds == ASSUME Quiet PROVE Spec => []SoleOwner
<1>1. IInv => SoleOwner
  BY DEF IInv
<1>. QED
  BY Invariance, <1>1, PTL

\* No second copy without a decision or a lost acceptance.
THEOREM CopiesHold == ASSUME Quiet PROVE Spec => []CopiesAccounted
<1>1. IInv => CopiesAccounted
  BY DEF IInv, Account, CopiesAccounted, TypeOK
<1>. QED
  BY Invariance, <1>1, PTL

\* After an unsubscription or an expiry, at most the copy in flight goes out.
THEOREM LateHolds == ASSUME Quiet PROVE Spec => []AtMostOneLateCopy
<1>1. IInv => AtMostOneLateCopy
  BY DEF IInv, LateAccount, AtMostOneLateCopy
<1>. QED
  BY Invariance, <1>1, PTL

\* No row is claimed more than MAX_ATTEMPTS times per decision.
THEOREM AttemptsHold == ASSUME Quiet PROVE Spec => []AttemptsBounded
<1>1. IInv => AttemptsBounded
  BY DEF IInv, Schedule, AttemptsBounded
<1>. QED
  BY Invariance, <1>1, PTL

\* SENT is final, and FAILED and CANCELLED wait for an administrator.
THEOREM DecisionsHold == ASSUME Quiet PROVE Spec => AdministratorDecides
<1>1. IInv /\ [Next]_vars => [FinishedMovesOnRetry]_vars
  BY NextDecided DEF IInv
<1>. QED
  BY Invariance, <1>1, PTL DEF Spec, AdministratorDecides

-----------------------------------------------------------------------------
(* Refinement *)

Credit == [m \in Message |-> Sendable(m)]
Grants == [m \in Message |-> decisions[m] + lost[m]]

LEMMA InitOutbox == Init => Promise!Init
<1> SUFFICES ASSUME Init PROVE Promise!Init
  OBVIOUS
<1>1. \A m \in Message : Sendable(m) = FALSE
  BY RowsAssumption DEF Init, Sendable
<1>2. \A m \in Message : decisions[m] + lost[m] = 0
  BY DEF Init
<1>. QED
  BY <1>1, <1>2 DEF Init, Promise!Init

\* Forfeits, Spends and Gains are the three steps of the outbox.
LEMMA NextOutbox ==
  ASSUME IInv, [Next]_vars
  PROVE  Promise!Next
<1>0. \A m \in Message : Sendable(m) \in BOOLEAN /\ Sendable(m)' \in BOOLEAN
  BY DEF Sendable
<1>1. CASE Forfeits
  <2> DEFINE S == {m \in Message : ~Sendable(m)'}
  <2>1. Credit' = [m \in Message |-> Credit[m] /\ m \notin S]
    <3>1. \A m \in Message : Sendable(m)' = (Sendable(m) /\ m \notin S)
      BY <1>0, <1>1 DEF Forfeits
    <3>. QED
      BY <3>1 DEF Credit
  <2>2. UNCHANGED <<accepted, Grants>>
    BY <1>1 DEF Forfeits, Grants
  <2>3. Promise!Forfeit(S)
    BY <2>1, <2>2 DEF Promise!Forfeit, Credit, Grants
  <2>. QED
    BY <2>3 DEF Promise!Next
<1>2. ASSUME NEW n \in Message, Spends(n)
      PROVE  Promise!Next
  <2>1. Credit[n]
    BY <1>2 DEF Spends, Credit
  <2>2. Credit' = [Credit EXCEPT ![n] = FALSE]
    <3>1. \A m \in Message :
             Sendable(m)' = IF m = n THEN FALSE ELSE Sendable(m)
      BY <1>0, <1>2 DEF Spends, Others
    <3>. QED
      BY <3>1 DEF Credit
  <2>3. UNCHANGED Grants
    BY <1>2 DEF Spends, Grants
  <2>4. Promise!Leave(n)
    BY <1>2, <2>1, <2>2, <2>3 DEF Spends, Promise!Leave, Credit, Grants
  <2>. QED
    BY <2>4 DEF Promise!Next
<1>3. ASSUME NEW n \in Message, Gains(n)
      PROVE  Promise!Next
  <2>1. ~Credit[n]
    BY <1>3 DEF Gains, Credit
  <2>2. Credit' = [Credit EXCEPT ![n] = TRUE]
    <3>1. \A m \in Message :
             Sendable(m)' = IF m = n THEN TRUE ELSE Sendable(m)
      BY <1>0, <1>3 DEF Gains, Others
    <3>. QED
      BY <3>1 DEF Credit
  <2>3. Grants' = [Grants EXCEPT ![n] = @ + 1]
    <3>1. \A m \in Message :
             decisions'[m] + lost'[m]
               = IF m = n THEN decisions[n] + lost[n] + 1 ELSE decisions[m] + lost[m]
      <4> USE DEF IInv, TypeOK
      <4>1. CASE decisions' = [decisions EXCEPT ![n] = @ + 1] /\ UNCHANGED lost
        BY <4>1
      <4>2. CASE lost' = [lost EXCEPT ![n] = @ + 1] /\ UNCHANGED decisions
        BY <4>2
      <4>. QED
        BY <1>3, <4>1, <4>2 DEF Gains
    <3>. QED
      BY <3>1 DEF Grants
  <2>4. Promise!Grant(n)
    BY <1>3, <2>1, <2>2, <2>3 DEF Gains, Promise!Grant, Credit, Grants
  <2>. QED
    BY <2>4 DEF Promise!Next
<1>. QED
  BY <1>1, <1>2, <1>3, StepKinds DEF IInv

\* The queue keeps the promise of the outbox.
THEOREM Refinement == ASSUME Quiet PROVE Spec => ImplementsOutbox
<1>1. IInv /\ [Next]_vars => [Promise!Next]_(Promise!vars)
  BY NextOutbox
<1>. QED
  BY InitOutbox, Invariance, <1>1, PTL DEF Spec, ImplementsOutbox, Promise!Spec

\* What an outbox keeps, of any credits c, copies k and grants g.
Covered(c, k, g) ==
  /\ c \in [Message -> BOOLEAN] /\ k \in [Message -> Nat] /\ g \in [Message -> Nat]
  /\ \A m \in Message : k[m] + (IF c[m] THEN 1 ELSE 0) <= g[m]

LEMMA StaysCovered ==
  ASSUME NEW c, NEW k, NEW g, NEW c1, NEW k1, NEW g1, Covered(c, k, g),
         \/ \E m \in Message :
              /\ ~c[m] /\ c1 = [c EXCEPT ![m] = TRUE]
              /\ g1 = [g EXCEPT ![m] = @ + 1] /\ k1 = k
         \/ \E m \in Message :
              /\ c[m] /\ c1 = [c EXCEPT ![m] = FALSE]
              /\ k1 = [k EXCEPT ![m] = @ + 1] /\ g1 = g
         \/ \E S \in SUBSET Message :
              /\ c1 = [m \in Message |-> c[m] /\ m \notin S]
              /\ k1 = k /\ g1 = g
         \/ c1 = c /\ k1 = k /\ g1 = g
  PROVE  Covered(c1, k1, g1)
<1> USE DEF Covered
<1>1. ASSUME NEW m \in Message, ~c[m], c1 = [c EXCEPT ![m] = TRUE],
             g1 = [g EXCEPT ![m] = @ + 1], k1 = k
      PROVE  Covered(c1, k1, g1)
  BY <1>1
<1>2. ASSUME NEW m \in Message, c[m], c1 = [c EXCEPT ![m] = FALSE],
             k1 = [k EXCEPT ![m] = @ + 1], g1 = g
      PROVE  Covered(c1, k1, g1)
  BY <1>2
<1>3. ASSUME NEW S \in SUBSET Message,
             c1 = [m \in Message |-> c[m] /\ m \notin S], k1 = k, g1 = g
      PROVE  Covered(c1, k1, g1)
  BY <1>3
<1>. QED
  BY <1>1, <1>2, <1>3

LEMMA OutboxIsCovered == Promise!TypeOK /\ Promise!Solvent <=> Covered(Credit, accepted, Grants)
  BY DEF Promise!TypeOK, Promise!Solvent, Covered, Credit, Grants

LEMMA OutboxSteps ==
  ASSUME [Promise!Next]_(Promise!vars), Covered(Credit, accepted, Grants)
  PROVE  Covered(Credit', accepted', Grants')
<1>1. ASSUME NEW m \in Message, Promise!Grant(m)
      PROVE  /\ ~Credit[m] /\ Credit' = [Credit EXCEPT ![m] = TRUE]
             /\ Grants' = [Grants EXCEPT ![m] = @ + 1] /\ accepted' = accepted
  BY <1>1 DEF Promise!Grant, Credit, Grants
<1>2. ASSUME NEW m \in Message, Promise!Leave(m)
      PROVE  /\ Credit[m] /\ Credit' = [Credit EXCEPT ![m] = FALSE]
             /\ accepted' = [accepted EXCEPT ![m] = @ + 1] /\ Grants' = Grants
  BY <1>2 DEF Promise!Leave, Credit, Grants
<1>3. ASSUME NEW S \in SUBSET Message, Promise!Forfeit(S)
      PROVE  /\ Credit' = [m \in Message |-> Credit[m] /\ m \notin S]
             /\ accepted' = accepted /\ Grants' = Grants
  BY <1>3 DEF Promise!Forfeit, Credit, Grants
<1>4. CASE UNCHANGED Promise!vars
  <2>1. Credit' = Credit /\ accepted' = accepted /\ Grants' = Grants
    BY <1>4 DEF Promise!vars, Credit, Grants
  <2>. QED
    BY <2>1
<1>5. CASE \E m \in Message : Promise!Grant(m)
  BY <1>1, <1>5, StaysCovered
<1>6. CASE \E m \in Message : Promise!Leave(m)
  BY <1>2, <1>6, StaysCovered
<1>7. CASE \E S \in SUBSET Message : Promise!Forfeit(S)
  BY <1>3, <1>7, StaysCovered
<1>. QED
  BY <1>4, <1>5, <1>6, <1>7 DEF Promise!Next

\* The promise is worth keeping: an outbox is never overdrawn.
THEOREM Solvency == Promise!Spec => [](Promise!TypeOK /\ Promise!Solvent)
<1>1. Promise!Init => Covered(Credit, accepted, Grants)
  <2> SUFFICES ASSUME Promise!Init PROVE Covered(Credit, accepted, Grants)
    OBVIOUS
  <2>1. /\ Credit = [m \in Message |-> FALSE]
        /\ accepted = [m \in Message |-> 0] /\ Grants = [m \in Message |-> 0]
    BY DEF Promise!Init, Credit, Grants
  <2>. QED
    BY <2>1 DEF Covered
<1>2. Covered(Credit, accepted, Grants) /\ [Promise!Next]_(Promise!vars)
        => Covered(Credit, accepted, Grants)'
  BY OutboxSteps
<1>. QED
  BY <1>1, <1>2, OutboxIsCovered, PTL DEF Promise!Spec

\* So the queue itself never lets out more copies than decisions and lost
\* acceptances account for, not even with the copy a sendable row may still add.
THEOREM QueueIsSolvent == ASSUME Quiet PROVE Spec => []Promise!Solvent
<1>1. Spec => Promise!Spec
  BY Refinement DEF ImplementsOutbox
<1>. QED
  BY <1>1, Solvency, PTL
=============================================================================
