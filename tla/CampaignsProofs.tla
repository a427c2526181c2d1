-------------------------- MODULE CampaignsProofs ---------------------------
(***************************************************************************)
(* Proofs about Campaigns, for any audience, chunk, administrators,        *)
(* schedulers and bounds, and however they overlap: an enqueue that was    *)
(* interrupted and resumed, by any number of processes at once, reaches    *)
(* everybody who was on the list from the start, as long as nobody leaves. *)
(* Then what a process relies on that nobody has overtaken between what it *)
(* read and what it writes: the campaign goes one way, what is sent is     *)
(* what was confirmed, and the team is told once.                          *)
(***************************************************************************)
EXTENDS Campaigns, FiniteSetTheorems, TLAPS

-----------------------------------------------------------------------------
(* Chunks *)

\* A finite set of integers has a least member...
LEMMA Least ==
  ASSUME NEW S \in SUBSET Int, IsFiniteSet(S), S # {}
  PROVE  \E m \in S : \A x \in S : m <= x
<1> DEFINE Below(x) == {y \in S : y <= x}
           T == {Below(x) : x \in S}
<1>1. T \subseteq FiniteSubsetsOf(S)
  BY FS_Subset DEF FiniteSubsetsOf
<1>2. T # {}
  OBVIOUS
<1>3. PICK A \in T : \A B \in T : <<B, A>> \notin StrictSubsetOrdering(S)
  <2> HIDE DEF T, Below
  <2>. QED
    BY <1>1, <1>2, FS_StrictSubsetOrderingWellFounded, WFMin
<1>4. PICK m \in S : A = Below(m)
  BY Zenon
<1>5. ASSUME NEW x \in S, ~(m <= x)
      PROVE  FALSE
  <2>1. \A y \in S : y <= x => y <= m
    BY <1>5
  <2>2. Below(x) \subseteq Below(m)
    BY <2>1, Zenon
  <2>3. m <= m
    OBVIOUS
  <2>4. <<Below(x), A>> \notin StrictSubsetOrdering(S)
    BY <1>3, Zenon
  <2>5. Below(x) = Below(m)
    BY <1>4, <2>2, <2>4 DEF StrictSubsetOrdering
  <2>. QED
    BY <1>5, <2>3, <2>5, Zenon
<1>. QED
  BY <1>5, Zenon

\* ... and a greatest one.
LEMMA Greatest ==
  ASSUME NEW S \in SUBSET Int, IsFiniteSet(S), S # {}
  PROVE  \E m \in S : \A x \in S : x <= m
<1> DEFINE Above(x) == {y \in S : x <= y}
           T == {Above(x) : x \in S}
<1>1. T \subseteq FiniteSubsetsOf(S)
  BY FS_Subset DEF FiniteSubsetsOf
<1>2. T # {}
  OBVIOUS
<1>3. PICK A \in T : \A B \in T : <<B, A>> \notin StrictSubsetOrdering(S)
  <2> HIDE DEF T, Above
  <2>. QED
    BY <1>1, <1>2, FS_StrictSubsetOrderingWellFounded, WFMin
<1>4. PICK m \in S : A = Above(m)
  BY Zenon
<1>5. ASSUME NEW x \in S, ~(x <= m)
      PROVE  FALSE
  <2>1. \A y \in S : x <= y => m <= y
    BY <1>5
  <2>2. Above(x) \subseteq Above(m)
    BY <2>1, Zenon
  <2>3. m <= m
    OBVIOUS
  <2>4. <<Above(x), A>> \notin StrictSubsetOrdering(S)
    BY <1>3, Zenon
  <2>5. Above(x) = Above(m)
    BY <1>4, <2>2, <2>4 DEF StrictSubsetOrdering
  <2>. QED
    BY <1>5, <2>3, <2>5, Zenon
<1>. QED
  BY <1>5, Zenon

\* A chunk is the beginning of what is left, and is not empty before the end.
LEMMA TakeFacts ==
  ASSUME NEW S \in SUBSET Subscriber
  PROVE  /\ Take(S) \subseteq S
         /\ S # {} => Take(S) # {}
         /\ \A b \in Take(S), s \in S : s <= b => s \in Take(S)
<1> DEFINE Upto(s) == {t \in S : t <= s}
<1>1. IsFiniteSet(S) /\ S \subseteq Int
  <2>1. IsFiniteSet(Subscriber)
    BY FS_Interval, SizesAssumption DEF Subscriber
  <2>2. IsFiniteSet(S)
    BY <2>1, FS_Subset
  <2>3. S \subseteq Int
    BY SizesAssumption DEF Subscriber
  <2>. QED
    BY <2>2, <2>3
<1>2. \A s \in S : IsFiniteSet(Upto(s)) /\ Cardinality(Upto(s)) \in Nat
  <2> TAKE s \in S
  <2>1. Upto(s) \in SUBSET S
    OBVIOUS
  <2> HIDE DEF Upto
  <2>. QED
    BY <1>1, <2>1, FS_Subset, FS_CardinalityType
<1>3. Take(S) \subseteq S
  BY DEF Take
<1>4. ASSUME S # {}
      PROVE  Take(S) # {}
  <2>1. PICK m \in S : \A x \in S : m <= x
    BY <1>1, <1>4, Least
  <2>2. Upto(m) = {m}
    <3>1. m \in Upto(m)
      BY <1>1
    <3>2. \A t \in S : t <= m => t = m
      BY <1>1, <2>1
    <3>. QED
      BY <3>1, <3>2, Zenon
  <2>3. Cardinality(Upto(m)) <= Chunk
    <3>1. Cardinality({m}) = 1
      BY FS_Singleton
    <3>. QED
      BY <2>2, <3>1, SizesAssumption
  <2>. QED
    BY <2>3 DEF Take
<1>5. ASSUME NEW b \in Take(S), NEW s \in S, s <= b
      PROVE  s \in Take(S)
  <2>1. b \in S /\ Cardinality(Upto(b)) <= Chunk
    BY DEF Take
  <2>2. Upto(s) \in SUBSET Upto(b)
    <3>1. \A t \in S : t <= s => t <= b
      BY <1>1, <1>5, <2>1
    <3>. QED
      BY <3>1, Zenon
  <2>3. Cardinality(Upto(s)) <= Cardinality(Upto(b))
    <3> HIDE DEF Upto
    <3>. QED
      BY <1>2, <2>1, <2>2, FS_Subset
  <2>4. Cardinality(Upto(s)) <= Chunk
    <3> HIDE DEF Upto
    <3>. QED
      BY <1>2, <2>1, <2>3, SizesAssumption
  <2>. QED
    BY <2>4 DEF Take
<1>. QED
  BY <1>3, <1>4, <1>5

\* The cursor moves to the last of a chunk.
LEMMA LastFacts ==
  ASSUME NEW S \in SUBSET Subscriber, S # {}
  PROVE  Last(S) \in S /\ \A t \in S : t <= Last(S)
<1>1. IsFiniteSet(S) /\ S \subseteq Int
  <2>1. IsFiniteSet(Subscriber)
    BY FS_Interval, SizesAssumption DEF Subscriber
  <2>2. IsFiniteSet(S)
    BY <2>1, FS_Subset
  <2>. QED
    BY <2>2, SizesAssumption DEF Subscriber
<1>2. \E m \in S : \A t \in S : t <= m
  BY <1>1, Greatest
<1>. QED
  BY <1>2, Zenon DEF Last

\* From a cursor whose row is still active, what is left is what comes after.
LEMMA AfterFacts ==
  ASSUME NEW c \in 0..N, sub \in [Subscriber -> {"ACTIVE", "left", "gone"}]
  PROVE  /\ After(c) \subseteq Active
         /\ c = 0 \/ c \in Active => After(c) = {s \in Active : s > c}
<1>1. Subscriber \subseteq Nat
  BY SizesAssumption DEF Subscriber
<1>2. After(c) \subseteq Active
  BY DEF After, Audience, Active
<1>3. ASSUME c = 0
      PROVE  After(c) = {s \in Active : s > c}
  <2>1. After(c) = Active
    BY <1>3 DEF After, Audience
  <2>2. \A s \in Active : s > c
    BY <1>3, SizesAssumption DEF Active, Subscriber
  <2>. QED
    BY <2>1, <2>2
<1>4. ASSUME c # 0, c \in Active
      PROVE  After(c) = {s \in Active : s > c}
  <2>1. sub[c] # "gone" /\ c \in Nat
    BY <1>1, <1>4 DEF Active
  <2>2. ASSUME NEW s \in Active, s > c
        PROVE  s \in After(c)
    BY <1>1, <1>4, <2>1, <2>2 DEF After, Audience, Active
  <2>3. ASSUME NEW s \in After(c)
        PROVE  s \in Active /\ s > c
    <3>1. s \in Active /\ \E t \in Active : c <= t /\ t < s
      BY <1>4, <2>3 DEF After, Audience
    <3>. QED
      BY <1>1, <2>1, <3>1 DEF Active
  <2>. QED
    BY <2>2, <2>3, Zenon
<1>. QED
  BY <1>2, <1>3, <1>4

-----------------------------------------------------------------------------
(* The inductive invariant *)

LEMMA InitIInv == Init => IInv
<1> SUFFICES ASSUME Init
             PROVE  IInv
  OBVIOUS
<1> USE SizesAssumption DEF Init
<1>1. TypeOK
  <2>1. /\ status \in Status /\ due \in BOOLEAN /\ counted \in BOOLEAN
        /\ content \in Nat /\ copy \in [Subscriber -> CopyStatus]
        /\ text \in [Subscriber -> Nat]
    BY DEF Status, CopyStatus
  <2>2. sub \in [Subscriber -> {"ACTIVE", "left", "gone"}]
    BY Zenon
  <2>3. /\ pc \in [Process -> PC] /\ loaded \in [Process -> Nat]
        /\ cursor \in [Process -> 0..N]
        /\ batch \in [Process -> SUBSET Subscriber]
    BY DEF PC
  <2>4. begun \in BOOLEAN /\ departures \in BOOLEAN
    BY Zenon
  <2>6. /\ confirmed \in Nat /\ notices \in 0..2
        /\ retries \in Nat /\ crashes \in Nat /\ moves \in Nat
    OBVIOUS
  <2>5. steady \subseteq Subscriber /\ reached \subseteq Subscriber
    BY Zenon
  <2>. QED
    BY <2>1, <2>2, <2>3, <2>4, <2>5, <2>6 DEF TypeOK
<1>2. BegunOK /\ MemoryOK /\ EnqueueComplete
  BY DEF BegunOK, MemoryOK, EnqueueComplete, Active
<1>3. AudienceRespected
  BY DEF AudienceRespected, Queued
<1>4. \A p \in Process : Progress(p)
  BY DEF Progress
<1>. QED
  BY <1>1, <1>2, <1>3, <1>4 DEF IInv

\* Every variable keeps its type.
LEMMA NextType ==
  ASSUME TypeOK, MemoryOK, [Next]_vars
  PROVE  TypeOK'
<1> USE SizesAssumption, ProcessAssumption, BoundsAssumption
    DEF TypeOK, Status, CopyStatus, PC, Subscriber, campaign, copies, process, audience, bounds, Process
<1>1. ASSUME NEW a \in Admin, UpdateRead(a)
     PROVE  TypeOK'
  BY <1>1 DEF UpdateRead, Editable, Goto, Free, Idle
<1>2. ASSUME NEW a \in Admin, UpdateWrite(a)
     PROVE  TypeOK'
  BY <1>2 DEF UpdateWrite, Done
<1>3. ASSUME NEW a \in Admin, RemoveRead(a)
     PROVE  TypeOK'
  BY <1>3 DEF RemoveRead, Removable, Goto, Free, Idle
<1>4. ASSUME NEW a \in Admin, RemoveWrite(a)
     PROVE  TypeOK'
  BY <1>4 DEF RemoveWrite, Done
<1>5. ASSUME NEW a \in Admin, ScheduleRead(a)
     PROVE  TypeOK'
  BY <1>5 DEF ScheduleRead, Load, Free, Idle
<1>6. ASSUME NEW a \in Admin, ScheduleLater(a)
     PROVE  TypeOK'
  <2>1. status' \in Status /\ due' \in BOOLEAN /\ counted' \in BOOLEAN /\ content' \in Nat
    BY <1>6 DEF ScheduleLater, Done
  <2>2. copy' \in [Subscriber -> CopyStatus] /\ text' \in [Subscriber -> Nat]
    BY <1>6 DEF ScheduleLater, Done
  <2>3. sub' \in [Subscriber -> {"ACTIVE", "left", "gone"}]
    BY <1>6 DEF ScheduleLater, Done
  <2>4. pc' \in [Process -> PC] /\ loaded' \in [Process -> Nat]
    BY <1>6 DEF ScheduleLater, Done
  <2>5. cursor' \in [Process -> 0..N] /\ batch' \in [Process -> SUBSET Subscriber]
    BY <1>6 DEF ScheduleLater, Done
  <2>6. confirmed' \in Nat /\ begun' \in BOOLEAN /\ departures' \in BOOLEAN
    BY <1>6 DEF ScheduleLater, Done
  <2>7. steady' \subseteq Subscriber /\ reached' \subseteq Subscriber
    BY <1>6 DEF ScheduleLater, Done
  <2>8. notices' \in 0..2 /\ retries' \in Nat /\ crashes' \in Nat /\ moves' \in Nat
    BY <1>6 DEF ScheduleLater, Done
  <2>. QED
    BY <2>1, <2>2, <2>3, <2>4, <2>5, <2>6, <2>7, <2>8 DEF TypeOK
<1>7. ASSUME NEW a \in Admin, ScheduleNow(a)
     PROVE  TypeOK'
  BY <1>7 DEF ScheduleNow, Goto
<1>8. ASSUME NEW a \in Admin, RecallRead(a)
     PROVE  TypeOK'
  BY <1>8 DEF RecallRead, Recallable, Goto, Free, Idle
<1>9. ASSUME NEW a \in Admin, RecallWrite(a)
     PROVE  TypeOK'
  <2>1. status' \in Status /\ due' \in BOOLEAN /\ counted' \in BOOLEAN /\ content' \in Nat
    BY <1>9 DEF RecallWrite, Done
  <2>2. copy' \in [Subscriber -> CopyStatus] /\ text' \in [Subscriber -> Nat]
    BY <1>9 DEF RecallWrite, Done
  <2>3. sub' \in [Subscriber -> {"ACTIVE", "left", "gone"}]
    BY <1>9 DEF RecallWrite, Done
  <2>4. pc' \in [Process -> PC] /\ loaded' \in [Process -> Nat]
    BY <1>9 DEF RecallWrite, Done
  <2>5. cursor' \in [Process -> 0..N] /\ batch' \in [Process -> SUBSET Subscriber]
    BY <1>9 DEF RecallWrite, Done
  <2>6. confirmed' \in Nat /\ begun' \in BOOLEAN /\ departures' \in BOOLEAN
    BY <1>9 DEF RecallWrite, Done
  <2>7. steady' \subseteq Subscriber /\ reached' \subseteq Subscriber
    BY <1>9 DEF RecallWrite, Done
  <2>8. notices' \in 0..2 /\ retries' \in Nat /\ crashes' \in Nat /\ moves' \in Nat
    BY <1>9 DEF RecallWrite, Done
  <2>. QED
    BY <2>1, <2>2, <2>3, <2>4, <2>5, <2>6, <2>7, <2>8 DEF TypeOK
<1>10. ASSUME NEW a \in Admin, CancelRead(a)
     PROVE  TypeOK'
  BY <1>10 DEF CancelRead, Cancellable, Goto, Free, Idle
<1>11. ASSUME NEW a \in Admin, CancelWrite(a)
     PROVE  TypeOK'
  BY <1>11 DEF CancelWrite, Done, CopyAfterCancel
<1>12. ASSUME NEW a \in Admin, Pause(a)
     PROVE  TypeOK'
  BY <1>12 DEF Pause, Free, Idle
<1>13. ASSUME NEW a \in Admin, Resume(a)
     PROVE  TypeOK'
  BY <1>13 DEF Resume, Free, Idle
<1>14. ASSUME NEW a \in Admin, NEW s \in Subscriber, Retry(a, s)
     PROVE  TypeOK'
  BY <1>14, SMTT(30) DEF Retry, Free, Idle
<1>15. ASSUME NEW a \in Admin, NEW s \in Subscriber, Withdraw(a, s)
     PROVE  TypeOK'
  BY <1>15 DEF Withdraw, Free, Idle
<1>16. ASSUME NEW k \in Scheduler, StartDue(k)
     PROVE  TypeOK'
  BY <1>16 DEF StartDue, Goto, Free, Idle
<1>17. ASSUME NEW k \in Scheduler, ResumeEnqueue(k)
     PROVE  TypeOK'
  BY <1>17 DEF ResumeEnqueue, Interrupted, Goto, Free, Idle
<1>18. ASSUME NEW k \in Scheduler, FindSending(k)
     PROVE  TypeOK'
  BY <1>18 DEF FindSending, Goto, Free, Idle
<1>19. ASSUME NEW k \in Scheduler, Tally(k)
     PROVE  TypeOK'
  <2>1. CASE Drained
    BY <1>19, <2>1 DEF Tally, Goto
  <2>2. CASE ~Drained
    <3>1. /\ Done(k)
          /\ UNCHANGED <<campaign, copies, sub, confirmed, audience, notices, bounds>>
      BY <1>19, <2>2, Zenon DEF Tally
    <3>. QED
      BY <3>1 DEF Done
  <2>. QED
    BY <2>1, <2>2
<1>20. ASSUME NEW k \in Scheduler, Close(k)
     PROVE  TypeOK'
  BY <1>20, SMTT(30) DEF Close, Done
<1>21. ASSUME NEW p \in Process, Start(p)
     PROVE  TypeOK'
  <2>1. status' \in Status /\ due' \in BOOLEAN /\ counted' \in BOOLEAN /\ content' \in Nat
    BY <1>21 DEF Start, Startable, Before, Goto
  <2>2. copy' \in [Subscriber -> CopyStatus] /\ text' \in [Subscriber -> Nat]
    BY <1>21 DEF Start, Startable, Before, Goto
  <2>3. sub' \in [Subscriber -> {"ACTIVE", "left", "gone"}]
    BY <1>21 DEF Start, Startable, Before, Goto
  <2>4. pc' \in [Process -> PC] /\ loaded' \in [Process -> Nat]
    BY <1>21 DEF Start, Startable, Before, Goto
  <2>5. cursor' \in [Process -> 0..N] /\ batch' \in [Process -> SUBSET Subscriber]
    BY <1>21 DEF Start, Startable, Before, Goto
  <2>6. confirmed' \in Nat /\ begun' \in BOOLEAN /\ departures' \in BOOLEAN
    BY <1>21 DEF Start, Startable, Before, Goto
  <2>7. steady' \subseteq Subscriber /\ reached' \subseteq Subscriber
    BY <1>21 DEF Start, Startable, Before, Goto, Active
  <2>8. notices' \in 0..2 /\ retries' \in Nat /\ crashes' \in Nat /\ moves' \in Nat
    BY <1>21 DEF Start, Startable, Before, Goto
  <2>. QED
    BY <2>1, <2>2, <2>3, <2>4, <2>5, <2>6, <2>7, <2>8 DEF TypeOK
<1>22. ASSUME NEW p \in Process, StartLost(p)
     PROVE  TypeOK'
  BY <1>22 DEF StartLost, Goto
<1>23. ASSUME NEW p \in Process, Restart(p)
     PROVE  TypeOK'
  <2>1. CASE Interrupted
    BY <1>23, <2>1 DEF Restart, Goto
  <2>2. CASE ~Interrupted
    <3>1. /\ Done(p)
          /\ UNCHANGED <<campaign, copies, sub, confirmed, audience, notices, bounds>>
      BY <1>23, <2>2, Zenon DEF Restart
    <3>. QED
      BY <3>1 DEF Done
  <2>. QED
    BY <2>1, <2>2
<1>24. ASSUME NEW p \in Process, LoadContent(p)
     PROVE  TypeOK'
  BY <1>24 DEF LoadContent, Load
<1>25. ASSUME NEW p \in Process, ReadChunk(p)
     PROVE  TypeOK'
  <2>t. Take(After(cursor[p])) \in SUBSET Subscriber
    BY DEF Take, After, Audience, Active
  <2>1. status' \in Status /\ due' \in BOOLEAN /\ counted' \in BOOLEAN /\ content' \in Nat
    BY <1>25 DEF ReadChunk
  <2>2. copy' \in [Subscriber -> CopyStatus] /\ text' \in [Subscriber -> Nat]
    BY <1>25 DEF ReadChunk
  <2>3. sub' \in [Subscriber -> {"ACTIVE", "left", "gone"}]
    BY <1>25 DEF ReadChunk
  <2>4. pc' \in [Process -> PC] /\ loaded' \in [Process -> Nat]
    BY <1>25 DEF ReadChunk
  <2>5. cursor' \in [Process -> 0..N] /\ batch' \in [Process -> SUBSET Subscriber]
    BY <1>25, <2>t DEF ReadChunk
  <2>6. confirmed' \in Nat /\ begun' \in BOOLEAN /\ departures' \in BOOLEAN
    BY <1>25 DEF ReadChunk
  <2>7. steady' \subseteq Subscriber /\ reached' \subseteq Subscriber
    BY <1>25 DEF ReadChunk
  <2>8. notices' \in 0..2 /\ retries' \in Nat /\ crashes' \in Nat /\ moves' \in Nat
    BY <1>25 DEF ReadChunk
  <2>. QED
    BY <2>1, <2>2, <2>3, <2>4, <2>5, <2>6, <2>7, <2>8 DEF TypeOK
<1>26. ASSUME NEW p \in Process, WriteChunk(p)
     PROVE  TypeOK'
  <2>l. Last(batch[p]) \in Subscriber
    BY <1>26, LastFacts DEF WriteChunk, MemoryOK
  <2>1. status' \in Status /\ due' \in BOOLEAN /\ counted' \in BOOLEAN /\ content' \in Nat
    BY <1>26 DEF WriteChunk, Missing
  <2>2. copy' \in [Subscriber -> CopyStatus] /\ text' \in [Subscriber -> Nat]
    BY <1>26 DEF WriteChunk, Missing
  <2>3. sub' \in [Subscriber -> {"ACTIVE", "left", "gone"}]
    BY <1>26 DEF WriteChunk, Missing
  <2>4. pc' \in [Process -> PC] /\ loaded' \in [Process -> Nat]
    BY <1>26 DEF WriteChunk, Missing
  <2>5. cursor' \in [Process -> 0..N] /\ batch' \in [Process -> SUBSET Subscriber]
    BY <1>26, <2>l DEF WriteChunk, Missing
  <2>6. confirmed' \in Nat /\ begun' \in BOOLEAN /\ departures' \in BOOLEAN
    BY <1>26 DEF WriteChunk, Missing
  <2>7. steady' \subseteq Subscriber /\ reached' \subseteq Subscriber
    BY <1>26 DEF WriteChunk, Missing
  <2>8. notices' \in 0..2 /\ retries' \in Nat /\ crashes' \in Nat /\ moves' \in Nat
    BY <1>26 DEF WriteChunk, Missing
  <2>. QED
    BY <2>1, <2>2, <2>3, <2>4, <2>5, <2>6, <2>7, <2>8 DEF TypeOK
<1>27. ASSUME NEW p \in Process, SetCount(p)
     PROVE  TypeOK'
  BY <1>27 DEF SetCount, Done
<1>28. ASSUME NEW p \in Process, GiveUp(p)
     PROVE  TypeOK'
  BY <1>28, SMTT(30) DEF GiveUp, Done
<1>29. ASSUME NEW p \in Process, Crash(p)
     PROVE  TypeOK'
  BY <1>29, SMTT(30) DEF Crash, Done, Idle
<1>30. ASSUME DateComes
     PROVE  TypeOK'
  BY <1>30 DEF DateComes
<1>31. ASSUME NEW s \in Subscriber, Claim(s)
     PROVE  TypeOK'
  BY <1>31 DEF Claim
<1>32. ASSUME NEW s \in Subscriber, Deliver(s)
     PROVE  TypeOK'
  BY <1>32 DEF Deliver
<1>33. ASSUME NEW s \in Subscriber, Join(s)
     PROVE  TypeOK'
  <2>1. status' \in Status /\ due' \in BOOLEAN /\ counted' \in BOOLEAN /\ content' \in Nat
    BY <1>33 DEF Join, Move
  <2>2. copy' \in [Subscriber -> CopyStatus] /\ text' \in [Subscriber -> Nat]
    BY <1>33 DEF Join, Move
  <2>3. sub' \in [Subscriber -> {"ACTIVE", "left", "gone"}]
    BY <1>33 DEF Join, Move
  <2>4. pc' \in [Process -> PC] /\ loaded' \in [Process -> Nat]
    BY <1>33 DEF Join, Move
  <2>5. cursor' \in [Process -> 0..N] /\ batch' \in [Process -> SUBSET Subscriber]
    BY <1>33 DEF Join, Move
  <2>6. confirmed' \in Nat /\ begun' \in BOOLEAN /\ departures' \in BOOLEAN
    BY <1>33 DEF Join, Move
  <2>7. steady' \subseteq Subscriber /\ reached' \subseteq Subscriber
    BY <1>33 DEF Join, Move
  <2>8. notices' \in 0..2 /\ retries' \in Nat /\ crashes' \in Nat /\ moves' \in Nat
    BY <1>33 DEF Join, Move
  <2>. QED
    BY <2>1, <2>2, <2>3, <2>4, <2>5, <2>6, <2>7, <2>8 DEF TypeOK
<1>34. ASSUME NEW s \in Subscriber, Leave(s)
     PROVE  TypeOK'
  <2>1. status' \in Status /\ due' \in BOOLEAN /\ counted' \in BOOLEAN /\ content' \in Nat
    BY <1>34 DEF Leave, Depart, Move, CopyAfterCancel
  <2>2. copy' \in [Subscriber -> CopyStatus] /\ text' \in [Subscriber -> Nat]
    BY <1>34 DEF Leave, Depart, Move, CopyAfterCancel
  <2>3. sub' \in [Subscriber -> {"ACTIVE", "left", "gone"}]
    BY <1>34 DEF Leave, Depart, Move, CopyAfterCancel
  <2>4. pc' \in [Process -> PC] /\ loaded' \in [Process -> Nat]
    BY <1>34 DEF Leave, Depart, Move, CopyAfterCancel
  <2>5. cursor' \in [Process -> 0..N] /\ batch' \in [Process -> SUBSET Subscriber]
    BY <1>34 DEF Leave, Depart, Move, CopyAfterCancel
  <2>6. confirmed' \in Nat /\ begun' \in BOOLEAN /\ departures' \in BOOLEAN
    BY <1>34 DEF Leave, Depart, Move, CopyAfterCancel
  <2>7. steady' \subseteq Subscriber /\ reached' \subseteq Subscriber
    BY <1>34 DEF Leave, Depart, Move, CopyAfterCancel
  <2>8. notices' \in 0..2 /\ retries' \in Nat /\ crashes' \in Nat /\ moves' \in Nat
    BY <1>34 DEF Leave, Depart, Move, CopyAfterCancel
  <2>. QED
    BY <2>1, <2>2, <2>3, <2>4, <2>5, <2>6, <2>7, <2>8 DEF TypeOK
<1>35. ASSUME NEW s \in Subscriber, Erase(s)
     PROVE  TypeOK'
  <2>1. status' \in Status /\ due' \in BOOLEAN /\ counted' \in BOOLEAN /\ content' \in Nat
    BY <1>35 DEF Erase, Depart, Move
  <2>2. copy' \in [Subscriber -> CopyStatus] /\ text' \in [Subscriber -> Nat]
    BY <1>35 DEF Erase, Depart, Move
  <2>3. sub' \in [Subscriber -> {"ACTIVE", "left", "gone"}]
    BY <1>35 DEF Erase, Depart, Move
  <2>4. pc' \in [Process -> PC] /\ loaded' \in [Process -> Nat]
    BY <1>35 DEF Erase, Depart, Move
  <2>5. cursor' \in [Process -> 0..N] /\ batch' \in [Process -> SUBSET Subscriber]
    BY <1>35 DEF Erase, Depart, Move
  <2>6. confirmed' \in Nat /\ begun' \in BOOLEAN /\ departures' \in BOOLEAN
    BY <1>35 DEF Erase, Depart, Move
  <2>7. steady' \subseteq Subscriber /\ reached' \subseteq Subscriber
    BY <1>35 DEF Erase, Depart, Move
  <2>8. notices' \in 0..2 /\ retries' \in Nat /\ crashes' \in Nat /\ moves' \in Nat
    BY <1>35 DEF Erase, Depart, Move
  <2>. QED
    BY <2>1, <2>2, <2>3, <2>4, <2>5, <2>6, <2>7, <2>8 DEF TypeOK
<1>36. CASE UNCHANGED vars
  BY <1>36 DEF vars
<1>. QED
  BY <1>1, <1>2, <1>3, <1>4, <1>5, <1>6, <1>7, <1>8, <1>9, <1>10, <1>11,
     <1>12, <1>13, <1>14, <1>15, <1>16, <1>17, <1>18, <1>19, <1>20, <1>21,
     <1>22, <1>23, <1>24, <1>25, <1>26, <1>27, <1>28, <1>29, <1>30, <1>31,
     <1>32, <1>33, <1>34, <1>35, <1>36
     DEF Next, Office, Sending, Tick

\* Nothing is queued before the campaign has begun.
LEMMA NextBegun ==
  ASSUME TypeOK, BegunOK, MemoryOK, [Next]_vars
  PROVE  BegunOK'
<1> USE SizesAssumption, ProcessAssumption, BoundsAssumption
    DEF TypeOK, BegunOK, MemoryOK, Active, Subscriber, campaign, copies, process, audience, bounds, Process
<1>1. ASSUME NEW a \in Admin, UpdateRead(a)
     PROVE  BegunOK'
  BY <1>1 DEF UpdateRead, Editable, Goto, Free, Idle
<1>2. ASSUME NEW a \in Admin, UpdateWrite(a)
     PROVE  BegunOK'
  BY <1>2 DEF UpdateWrite, Done
<1>3. ASSUME NEW a \in Admin, RemoveRead(a)
     PROVE  BegunOK'
  BY <1>3 DEF RemoveRead, Removable, Goto, Free, Idle
<1>4. ASSUME NEW a \in Admin, RemoveWrite(a)
     PROVE  BegunOK'
  BY <1>4 DEF RemoveWrite, Done
<1>5. ASSUME NEW a \in Admin, ScheduleRead(a)
     PROVE  BegunOK'
  BY <1>5 DEF ScheduleRead, Load, Free, Idle
<1>6. ASSUME NEW a \in Admin, ScheduleLater(a)
     PROVE  BegunOK'
  BY <1>6 DEF ScheduleLater, Done
<1>7. ASSUME NEW a \in Admin, ScheduleNow(a)
     PROVE  BegunOK'
  BY <1>7 DEF ScheduleNow, Goto
<1>8. ASSUME NEW a \in Admin, RecallRead(a)
     PROVE  BegunOK'
  BY <1>8 DEF RecallRead, Recallable, Goto, Free, Idle
<1>9. ASSUME NEW a \in Admin, RecallWrite(a)
     PROVE  BegunOK'
  BY <1>9 DEF RecallWrite, Done
<1>10. ASSUME NEW a \in Admin, CancelRead(a)
     PROVE  BegunOK'
  BY <1>10 DEF CancelRead, Cancellable, Goto, Free, Idle
<1>11. ASSUME NEW a \in Admin, CancelWrite(a)
     PROVE  BegunOK'
  BY <1>11 DEF CancelWrite, Done, CopyAfterCancel
<1>12. ASSUME NEW a \in Admin, Pause(a)
     PROVE  BegunOK'
  BY <1>12 DEF Pause, Free, Idle
<1>13. ASSUME NEW a \in Admin, Resume(a)
     PROVE  BegunOK'
  BY <1>13 DEF Resume, Free, Idle
<1>14. ASSUME NEW a \in Admin, NEW s \in Subscriber, Retry(a, s)
     PROVE  BegunOK'
  BY <1>14 DEF Retry, Free, Idle
<1>15. ASSUME NEW a \in Admin, NEW s \in Subscriber, Withdraw(a, s)
     PROVE  BegunOK'
  BY <1>15 DEF Withdraw, Free, Idle
<1>16. ASSUME NEW k \in Scheduler, StartDue(k)
     PROVE  BegunOK'
  BY <1>16 DEF StartDue, Goto, Free, Idle
<1>17. ASSUME NEW k \in Scheduler, ResumeEnqueue(k)
     PROVE  BegunOK'
  BY <1>17 DEF ResumeEnqueue, Interrupted, Goto, Free, Idle
<1>18. ASSUME NEW k \in Scheduler, FindSending(k)
     PROVE  BegunOK'
  BY <1>18 DEF FindSending, Goto, Free, Idle
<1>19. ASSUME NEW k \in Scheduler, Tally(k)
     PROVE  BegunOK'
  BY <1>19 DEF Tally, Drained, Goto, Done
<1>20. ASSUME NEW k \in Scheduler, Close(k)
     PROVE  BegunOK'
  BY <1>20 DEF Close, Done
<1>21. ASSUME NEW p \in Process, Start(p)
     PROVE  BegunOK'
  BY <1>21 DEF Start, Startable, Before, Goto
<1>22. ASSUME NEW p \in Process, StartLost(p)
     PROVE  BegunOK'
  BY <1>22 DEF StartLost, Goto
<1>23. ASSUME NEW p \in Process, Restart(p)
     PROVE  BegunOK'
  BY <1>23 DEF Restart, Interrupted, Goto, Done
<1>24. ASSUME NEW p \in Process, LoadContent(p)
     PROVE  BegunOK'
  BY <1>24 DEF LoadContent, Load
<1>25. ASSUME NEW p \in Process, ReadChunk(p)
     PROVE  BegunOK'
  BY <1>25 DEF ReadChunk
<1>26. ASSUME NEW p \in Process, WriteChunk(p)
     PROVE  BegunOK'
  BY <1>26 DEF WriteChunk, Missing
<1>27. ASSUME NEW p \in Process, SetCount(p)
     PROVE  BegunOK'
  BY <1>27 DEF SetCount, Done
<1>28. ASSUME NEW p \in Process, GiveUp(p)
     PROVE  BegunOK'
  BY <1>28 DEF GiveUp, Done
<1>29. ASSUME NEW p \in Process, Crash(p)
     PROVE  BegunOK'
  BY <1>29 DEF Crash, Done, Idle
<1>30. ASSUME DateComes
     PROVE  BegunOK'
  BY <1>30 DEF DateComes
<1>31. ASSUME NEW s \in Subscriber, Claim(s)
     PROVE  BegunOK'
  BY <1>31 DEF Claim
<1>32. ASSUME NEW s \in Subscriber, Deliver(s)
     PROVE  BegunOK'
  BY <1>32 DEF Deliver
<1>33. ASSUME NEW s \in Subscriber, Join(s)
     PROVE  BegunOK'
  BY <1>33 DEF Join, Move
<1>34. ASSUME NEW s \in Subscriber, Leave(s)
     PROVE  BegunOK'
  BY <1>34 DEF Leave, Depart, Move, CopyAfterCancel
<1>35. ASSUME NEW s \in Subscriber, Erase(s)
     PROVE  BegunOK'
  BY <1>35 DEF Erase, Depart, Move
<1>36. CASE UNCHANGED vars
  BY <1>36 DEF vars
<1>. QED
  BY <1>1, <1>2, <1>3, <1>4, <1>5, <1>6, <1>7, <1>8, <1>9, <1>10, <1>11,
     <1>12, <1>13, <1>14, <1>15, <1>16, <1>17, <1>18, <1>19, <1>20, <1>21,
     <1>22, <1>23, <1>24, <1>25, <1>26, <1>27, <1>28, <1>29, <1>30, <1>31,
     <1>32, <1>33, <1>34, <1>35, <1>36
     DEF Next, Office, Sending, Tick

\* An enqueue has its memory to itself.
LEMMA NextMemory ==
  ASSUME TypeOK, BegunOK, MemoryOK, [Next]_vars
  PROVE  MemoryOK'
<1> USE SizesAssumption, ProcessAssumption, BoundsAssumption
    DEF TypeOK, BegunOK, MemoryOK, PC, campaign, copies, process, audience, bounds, Process
<1>1. ASSUME NEW a \in Admin, UpdateRead(a)
     PROVE  MemoryOK'
  BY <1>1 DEF UpdateRead, Editable, Goto, Free, Idle
<1>2. ASSUME NEW a \in Admin, UpdateWrite(a)
     PROVE  MemoryOK'
  BY <1>2 DEF UpdateWrite, Done
<1>3. ASSUME NEW a \in Admin, RemoveRead(a)
     PROVE  MemoryOK'
  BY <1>3 DEF RemoveRead, Removable, Goto, Free, Idle
<1>4. ASSUME NEW a \in Admin, RemoveWrite(a)
     PROVE  MemoryOK'
  BY <1>4 DEF RemoveWrite, Done
<1>5. ASSUME NEW a \in Admin, ScheduleRead(a)
     PROVE  MemoryOK'
  BY <1>5 DEF ScheduleRead, Load, Free, Idle
<1>6. ASSUME NEW a \in Admin, ScheduleLater(a)
     PROVE  MemoryOK'
  BY <1>6 DEF ScheduleLater, Done
<1>7. ASSUME NEW a \in Admin, ScheduleNow(a)
     PROVE  MemoryOK'
  BY <1>7 DEF ScheduleNow, Goto
<1>8. ASSUME NEW a \in Admin, RecallRead(a)
     PROVE  MemoryOK'
  BY <1>8 DEF RecallRead, Recallable, Goto, Free, Idle
<1>9. ASSUME NEW a \in Admin, RecallWrite(a)
     PROVE  MemoryOK'
  BY <1>9 DEF RecallWrite, Done
<1>10. ASSUME NEW a \in Admin, CancelRead(a)
     PROVE  MemoryOK'
  BY <1>10 DEF CancelRead, Cancellable, Goto, Free, Idle
<1>11. ASSUME NEW a \in Admin, CancelWrite(a)
     PROVE  MemoryOK'
  BY <1>11 DEF CancelWrite, Done, CopyAfterCancel
<1>12. ASSUME NEW a \in Admin, Pause(a)
     PROVE  MemoryOK'
  BY <1>12 DEF Pause, Free, Idle
<1>13. ASSUME NEW a \in Admin, Resume(a)
     PROVE  MemoryOK'
  BY <1>13 DEF Resume, Free, Idle
<1>14. ASSUME NEW a \in Admin, NEW s \in Subscriber, Retry(a, s)
     PROVE  MemoryOK'
  BY <1>14 DEF Retry, Free, Idle
<1>15. ASSUME NEW a \in Admin, NEW s \in Subscriber, Withdraw(a, s)
     PROVE  MemoryOK'
  BY <1>15 DEF Withdraw, Free, Idle
<1>16. ASSUME NEW k \in Scheduler, StartDue(k)
     PROVE  MemoryOK'
  BY <1>16 DEF StartDue, Goto, Free, Idle
<1>17. ASSUME NEW k \in Scheduler, ResumeEnqueue(k)
     PROVE  MemoryOK'
  BY <1>17 DEF ResumeEnqueue, Interrupted, Goto, Free, Idle
<1>18. ASSUME NEW k \in Scheduler, FindSending(k)
     PROVE  MemoryOK'
  BY <1>18 DEF FindSending, Goto, Free, Idle
<1>19. ASSUME NEW k \in Scheduler, Tally(k)
     PROVE  MemoryOK'
  BY <1>19 DEF Tally, Drained, Goto, Done
<1>20. ASSUME NEW k \in Scheduler, Close(k)
     PROVE  MemoryOK'
  BY <1>20 DEF Close, Done
<1>21. ASSUME NEW p \in Process, Start(p)
     PROVE  MemoryOK'
  BY <1>21 DEF Start, Startable, Before, Goto
<1>22. ASSUME NEW p \in Process, StartLost(p)
     PROVE  MemoryOK'
  BY <1>22 DEF StartLost, Goto
<1>23. ASSUME NEW p \in Process, Restart(p)
     PROVE  MemoryOK'
  BY <1>23 DEF Restart, Interrupted, Goto, Done
<1>24. ASSUME NEW p \in Process, LoadContent(p)
     PROVE  MemoryOK'
  BY <1>24 DEF LoadContent, Load
<1>25. ASSUME NEW p \in Process, ReadChunk(p)
     PROVE  MemoryOK'
  <2>1. Take(After(cursor[p])) \subseteq reached
    BY <1>25 DEF ReadChunk, Take, After, Audience
  <2>. QED
    BY <1>25, <2>1 DEF ReadChunk
<1>26. ASSUME NEW p \in Process, WriteChunk(p)
     PROVE  MemoryOK'
  BY <1>26 DEF WriteChunk, Missing
<1>27. ASSUME NEW p \in Process, SetCount(p)
     PROVE  MemoryOK'
  BY <1>27 DEF SetCount, Done
<1>28. ASSUME NEW p \in Process, GiveUp(p)
     PROVE  MemoryOK'
  BY <1>28 DEF GiveUp, Done
<1>29. ASSUME NEW p \in Process, Crash(p)
     PROVE  MemoryOK'
  BY <1>29 DEF Crash, Done, Idle
<1>30. ASSUME DateComes
     PROVE  MemoryOK'
  BY <1>30 DEF DateComes
<1>31. ASSUME NEW s \in Subscriber, Claim(s)
     PROVE  MemoryOK'
  BY <1>31 DEF Claim
<1>32. ASSUME NEW s \in Subscriber, Deliver(s)
     PROVE  MemoryOK'
  BY <1>32 DEF Deliver
<1>33. ASSUME NEW s \in Subscriber, Join(s)
     PROVE  MemoryOK'
  BY <1>33 DEF Join, Move
<1>34. ASSUME NEW s \in Subscriber, Leave(s)
     PROVE  MemoryOK'
  BY <1>34 DEF Leave, Depart, Move, CopyAfterCancel
<1>35. ASSUME NEW s \in Subscriber, Erase(s)
     PROVE  MemoryOK'
  BY <1>35 DEF Erase, Depart, Move
<1>36. CASE UNCHANGED vars
  BY <1>36 DEF vars
<1>. QED
  BY <1>1, <1>2, <1>3, <1>4, <1>5, <1>6, <1>7, <1>8, <1>9, <1>10, <1>11,
     <1>12, <1>13, <1>14, <1>15, <1>16, <1>17, <1>18, <1>19, <1>20, <1>21,
     <1>22, <1>23, <1>24, <1>25, <1>26, <1>27, <1>28, <1>29, <1>30, <1>31,
     <1>32, <1>33, <1>34, <1>35, <1>36
     DEF Next, Office, Sending, Tick

\* A copy is never unmade.
LEMMA NextQueued ==
  ASSUME TypeOK, [Next]_vars
  PROVE  Queued \subseteq Queued'
<1> USE SizesAssumption, ProcessAssumption, BoundsAssumption
    DEF TypeOK, CopyStatus, Queued, campaign, copies, process, audience, bounds, Process
<1>1. ASSUME NEW a \in Admin, UpdateRead(a)
     PROVE  Queued \subseteq Queued'
  BY <1>1 DEF UpdateRead, Editable, Goto, Free, Idle
<1>2. ASSUME NEW a \in Admin, UpdateWrite(a)
     PROVE  Queued \subseteq Queued'
  BY <1>2 DEF UpdateWrite, Done
<1>3. ASSUME NEW a \in Admin, RemoveRead(a)
     PROVE  Queued \subseteq Queued'
  BY <1>3 DEF RemoveRead, Removable, Goto, Free, Idle
<1>4. ASSUME NEW a \in Admin, RemoveWrite(a)
     PROVE  Queued \subseteq Queued'
  BY <1>4 DEF RemoveWrite, Done
<1>5. ASSUME NEW a \in Admin, ScheduleRead(a)
     PROVE  Queued \subseteq Queued'
  BY <1>5 DEF ScheduleRead, Load, Free, Idle
<1>6. ASSUME NEW a \in Admin, ScheduleLater(a)
     PROVE  Queued \subseteq Queued'
  BY <1>6 DEF ScheduleLater, Done
<1>7. ASSUME NEW a \in Admin, ScheduleNow(a)
     PROVE  Queued \subseteq Queued'
  BY <1>7 DEF ScheduleNow, Goto
<1>8. ASSUME NEW a \in Admin, RecallRead(a)
     PROVE  Queued \subseteq Queued'
  BY <1>8 DEF RecallRead, Recallable, Goto, Free, Idle
<1>9. ASSUME NEW a \in Admin, RecallWrite(a)
     PROVE  Queued \subseteq Queued'
  BY <1>9 DEF RecallWrite, Done
<1>10. ASSUME NEW a \in Admin, CancelRead(a)
     PROVE  Queued \subseteq Queued'
  BY <1>10 DEF CancelRead, Cancellable, Goto, Free, Idle
<1>11. ASSUME NEW a \in Admin, CancelWrite(a)
     PROVE  Queued \subseteq Queued'
  BY <1>11 DEF CancelWrite, Done, CopyAfterCancel
<1>12. ASSUME NEW a \in Admin, Pause(a)
     PROVE  Queued \subseteq Queued'
  BY <1>12 DEF Pause, Free, Idle
<1>13. ASSUME NEW a \in Admin, Resume(a)
     PROVE  Queued \subseteq Queued'
  BY <1>13 DEF Resume, Free, Idle
<1>14. ASSUME NEW a \in Admin, NEW s \in Subscriber, Retry(a, s)
     PROVE  Queued \subseteq Queued'
  BY <1>14 DEF Retry, Free, Idle
<1>15. ASSUME NEW a \in Admin, NEW s \in Subscriber, Withdraw(a, s)
     PROVE  Queued \subseteq Queued'
  BY <1>15 DEF Withdraw, Free, Idle
<1>16. ASSUME NEW k \in Scheduler, StartDue(k)
     PROVE  Queued \subseteq Queued'
  BY <1>16 DEF StartDue, Goto, Free, Idle
<1>17. ASSUME NEW k \in Scheduler, ResumeEnqueue(k)
     PROVE  Queued \subseteq Queued'
  BY <1>17 DEF ResumeEnqueue, Interrupted, Goto, Free, Idle
<1>18. ASSUME NEW k \in Scheduler, FindSending(k)
     PROVE  Queued \subseteq Queued'
  BY <1>18 DEF FindSending, Goto, Free, Idle
<1>19. ASSUME NEW k \in Scheduler, Tally(k)
     PROVE  Queued \subseteq Queued'
  BY <1>19 DEF Tally, Drained, Goto, Done
<1>20. ASSUME NEW k \in Scheduler, Close(k)
     PROVE  Queued \subseteq Queued'
  BY <1>20 DEF Close, Done
<1>21. ASSUME NEW p \in Process, Start(p)
     PROVE  Queued \subseteq Queued'
  BY <1>21 DEF Start, Startable, Before, Goto
<1>22. ASSUME NEW p \in Process, StartLost(p)
     PROVE  Queued \subseteq Queued'
  BY <1>22 DEF StartLost, Goto
<1>23. ASSUME NEW p \in Process, Restart(p)
     PROVE  Queued \subseteq Queued'
  BY <1>23 DEF Restart, Interrupted, Goto, Done
<1>24. ASSUME NEW p \in Process, LoadContent(p)
     PROVE  Queued \subseteq Queued'
  BY <1>24 DEF LoadContent, Load
<1>25. ASSUME NEW p \in Process, ReadChunk(p)
     PROVE  Queued \subseteq Queued'
  BY <1>25 DEF ReadChunk
<1>26. ASSUME NEW p \in Process, WriteChunk(p)
     PROVE  Queued \subseteq Queued'
  BY <1>26 DEF WriteChunk, Missing
<1>27. ASSUME NEW p \in Process, SetCount(p)
     PROVE  Queued \subseteq Queued'
  BY <1>27 DEF SetCount, Done
<1>28. ASSUME NEW p \in Process, GiveUp(p)
     PROVE  Queued \subseteq Queued'
  BY <1>28 DEF GiveUp, Done
<1>29. ASSUME NEW p \in Process, Crash(p)
     PROVE  Queued \subseteq Queued'
  BY <1>29 DEF Crash, Done, Idle
<1>30. ASSUME DateComes
     PROVE  Queued \subseteq Queued'
  BY <1>30 DEF DateComes
<1>31. ASSUME NEW s \in Subscriber, Claim(s)
     PROVE  Queued \subseteq Queued'
  BY <1>31 DEF Claim
<1>32. ASSUME NEW s \in Subscriber, Deliver(s)
     PROVE  Queued \subseteq Queued'
  BY <1>32 DEF Deliver
<1>33. ASSUME NEW s \in Subscriber, Join(s)
     PROVE  Queued \subseteq Queued'
  BY <1>33 DEF Join, Move
<1>34. ASSUME NEW s \in Subscriber, Leave(s)
     PROVE  Queued \subseteq Queued'
  BY <1>34 DEF Leave, Depart, Move, CopyAfterCancel
<1>35. ASSUME NEW s \in Subscriber, Erase(s)
     PROVE  Queued \subseteq Queued'
  BY <1>35 DEF Erase, Depart, Move
<1>36. CASE UNCHANGED vars
  BY <1>36 DEF vars
<1>. QED
  BY <1>1, <1>2, <1>3, <1>4, <1>5, <1>6, <1>7, <1>8, <1>9, <1>10, <1>11,
     <1>12, <1>13, <1>14, <1>15, <1>16, <1>17, <1>18, <1>19, <1>20, <1>21,
     <1>22, <1>23, <1>24, <1>25, <1>26, <1>27, <1>28, <1>29, <1>30, <1>31,
     <1>32, <1>33, <1>34, <1>35, <1>36
     DEF Next, Office, Sending, Tick

\* A chunk holds subscribers who have been active since the start.
LEMMA NextAudience ==
  ASSUME TypeOK, BegunOK, MemoryOK, AudienceRespected, [Next]_vars
  PROVE  AudienceRespected'
<1> USE SizesAssumption, ProcessAssumption, BoundsAssumption
    DEF TypeOK, BegunOK, MemoryOK, AudienceRespected, Queued, CopyStatus, PC, campaign, copies, process, audience, bounds, Process
<1>1. ASSUME NEW a \in Admin, UpdateRead(a)
     PROVE  AudienceRespected'
  BY <1>1 DEF UpdateRead, Editable, Goto, Free, Idle
<1>2. ASSUME NEW a \in Admin, UpdateWrite(a)
     PROVE  AudienceRespected'
  BY <1>2 DEF UpdateWrite, Done
<1>3. ASSUME NEW a \in Admin, RemoveRead(a)
     PROVE  AudienceRespected'
  BY <1>3 DEF RemoveRead, Removable, Goto, Free, Idle
<1>4. ASSUME NEW a \in Admin, RemoveWrite(a)
     PROVE  AudienceRespected'
  BY <1>4 DEF RemoveWrite, Done
<1>5. ASSUME NEW a \in Admin, ScheduleRead(a)
     PROVE  AudienceRespected'
  BY <1>5 DEF ScheduleRead, Load, Free, Idle
<1>6. ASSUME NEW a \in Admin, ScheduleLater(a)
     PROVE  AudienceRespected'
  BY <1>6 DEF ScheduleLater, Done
<1>7. ASSUME NEW a \in Admin, ScheduleNow(a)
     PROVE  AudienceRespected'
  BY <1>7 DEF ScheduleNow, Goto
<1>8. ASSUME NEW a \in Admin, RecallRead(a)
     PROVE  AudienceRespected'
  BY <1>8 DEF RecallRead, Recallable, Goto, Free, Idle
<1>9. ASSUME NEW a \in Admin, RecallWrite(a)
     PROVE  AudienceRespected'
  BY <1>9 DEF RecallWrite, Done
<1>10. ASSUME NEW a \in Admin, CancelRead(a)
     PROVE  AudienceRespected'
  BY <1>10 DEF CancelRead, Cancellable, Goto, Free, Idle
<1>11. ASSUME NEW a \in Admin, CancelWrite(a)
     PROVE  AudienceRespected'
  BY <1>11 DEF CancelWrite, Done, CopyAfterCancel
<1>12. ASSUME NEW a \in Admin, Pause(a)
     PROVE  AudienceRespected'
  BY <1>12 DEF Pause, Free, Idle
<1>13. ASSUME NEW a \in Admin, Resume(a)
     PROVE  AudienceRespected'
  BY <1>13 DEF Resume, Free, Idle
<1>14. ASSUME NEW a \in Admin, NEW s \in Subscriber, Retry(a, s)
     PROVE  AudienceRespected'
  BY <1>14 DEF Retry, Free, Idle
<1>15. ASSUME NEW a \in Admin, NEW s \in Subscriber, Withdraw(a, s)
     PROVE  AudienceRespected'
  BY <1>15 DEF Withdraw, Free, Idle
<1>16. ASSUME NEW k \in Scheduler, StartDue(k)
     PROVE  AudienceRespected'
  BY <1>16 DEF StartDue, Goto, Free, Idle
<1>17. ASSUME NEW k \in Scheduler, ResumeEnqueue(k)
     PROVE  AudienceRespected'
  BY <1>17 DEF ResumeEnqueue, Interrupted, Goto, Free, Idle
<1>18. ASSUME NEW k \in Scheduler, FindSending(k)
     PROVE  AudienceRespected'
  BY <1>18 DEF FindSending, Goto, Free, Idle
<1>19. ASSUME NEW k \in Scheduler, Tally(k)
     PROVE  AudienceRespected'
  BY <1>19 DEF Tally, Drained, Goto, Done
<1>20. ASSUME NEW k \in Scheduler, Close(k)
     PROVE  AudienceRespected'
  BY <1>20 DEF Close, Done
<1>21. ASSUME NEW p \in Process, Start(p)
     PROVE  AudienceRespected'
  BY <1>21 DEF Start, Startable, Before, Goto
<1>22. ASSUME NEW p \in Process, StartLost(p)
     PROVE  AudienceRespected'
  BY <1>22 DEF StartLost, Goto
<1>23. ASSUME NEW p \in Process, Restart(p)
     PROVE  AudienceRespected'
  BY <1>23 DEF Restart, Interrupted, Goto, Done
<1>24. ASSUME NEW p \in Process, LoadContent(p)
     PROVE  AudienceRespected'
  BY <1>24 DEF LoadContent, Load
<1>25. ASSUME NEW p \in Process, ReadChunk(p)
     PROVE  AudienceRespected'
  BY <1>25 DEF ReadChunk
<1>26. ASSUME NEW p \in Process, WriteChunk(p)
     PROVE  AudienceRespected'
  BY <1>26 DEF WriteChunk, Missing
<1>27. ASSUME NEW p \in Process, SetCount(p)
     PROVE  AudienceRespected'
  BY <1>27 DEF SetCount, Done
<1>28. ASSUME NEW p \in Process, GiveUp(p)
     PROVE  AudienceRespected'
  BY <1>28 DEF GiveUp, Done
<1>29. ASSUME NEW p \in Process, Crash(p)
     PROVE  AudienceRespected'
  BY <1>29 DEF Crash, Done, Idle
<1>30. ASSUME DateComes
     PROVE  AudienceRespected'
  BY <1>30 DEF DateComes
<1>31. ASSUME NEW s \in Subscriber, Claim(s)
     PROVE  AudienceRespected'
  BY <1>31 DEF Claim
<1>32. ASSUME NEW s \in Subscriber, Deliver(s)
     PROVE  AudienceRespected'
  BY <1>32 DEF Deliver
<1>33. ASSUME NEW s \in Subscriber, Join(s)
     PROVE  AudienceRespected'
  BY <1>33 DEF Join, Move
<1>34. ASSUME NEW s \in Subscriber, Leave(s)
     PROVE  AudienceRespected'
  BY <1>34 DEF Leave, Depart, Move, CopyAfterCancel
<1>35. ASSUME NEW s \in Subscriber, Erase(s)
     PROVE  AudienceRespected'
  BY <1>35 DEF Erase, Depart, Move
<1>36. CASE UNCHANGED vars
  BY <1>36 DEF vars
<1>. QED
  BY <1>1, <1>2, <1>3, <1>4, <1>5, <1>6, <1>7, <1>8, <1>9, <1>10, <1>11,
     <1>12, <1>13, <1>14, <1>15, <1>16, <1>17, <1>18, <1>19, <1>20, <1>21,
     <1>22, <1>23, <1>24, <1>25, <1>26, <1>27, <1>28, <1>29, <1>30, <1>31,
     <1>32, <1>33, <1>34, <1>35, <1>36
     DEF Next, Office, Sending, Tick

\* The count is set when everything below the cursor is everybody.
LEMMA NextComplete ==
  ASSUME TypeOK, BegunOK, MemoryOK, EnqueueComplete, ~departures => \A q \in Process : Progress(q), [Next]_vars
  PROVE  EnqueueComplete'
<1> USE SizesAssumption, ProcessAssumption, BoundsAssumption
    DEF TypeOK, BegunOK, MemoryOK, EnqueueComplete, Progress, Queued, CopyStatus, PC, campaign, copies, process, audience, bounds, Process
<1>1. ASSUME NEW a \in Admin, UpdateRead(a)
     PROVE  EnqueueComplete'
  BY <1>1 DEF UpdateRead, Editable, Goto, Free, Idle
<1>2. ASSUME NEW a \in Admin, UpdateWrite(a)
     PROVE  EnqueueComplete'
  BY <1>2 DEF UpdateWrite, Done
<1>3. ASSUME NEW a \in Admin, RemoveRead(a)
     PROVE  EnqueueComplete'
  BY <1>3 DEF RemoveRead, Removable, Goto, Free, Idle
<1>4. ASSUME NEW a \in Admin, RemoveWrite(a)
     PROVE  EnqueueComplete'
  BY <1>4 DEF RemoveWrite, Done
<1>5. ASSUME NEW a \in Admin, ScheduleRead(a)
     PROVE  EnqueueComplete'
  BY <1>5 DEF ScheduleRead, Load, Free, Idle
<1>6. ASSUME NEW a \in Admin, ScheduleLater(a)
     PROVE  EnqueueComplete'
  BY <1>6 DEF ScheduleLater, Done
<1>7. ASSUME NEW a \in Admin, ScheduleNow(a)
     PROVE  EnqueueComplete'
  BY <1>7 DEF ScheduleNow, Goto
<1>8. ASSUME NEW a \in Admin, RecallRead(a)
     PROVE  EnqueueComplete'
  BY <1>8 DEF RecallRead, Recallable, Goto, Free, Idle
<1>9. ASSUME NEW a \in Admin, RecallWrite(a)
     PROVE  EnqueueComplete'
  BY <1>9 DEF RecallWrite, Done
<1>10. ASSUME NEW a \in Admin, CancelRead(a)
     PROVE  EnqueueComplete'
  BY <1>10 DEF CancelRead, Cancellable, Goto, Free, Idle
<1>11. ASSUME NEW a \in Admin, CancelWrite(a)
     PROVE  EnqueueComplete'
  BY <1>11 DEF CancelWrite, Done, CopyAfterCancel
<1>12. ASSUME NEW a \in Admin, Pause(a)
     PROVE  EnqueueComplete'
  BY <1>12 DEF Pause, Free, Idle
<1>13. ASSUME NEW a \in Admin, Resume(a)
     PROVE  EnqueueComplete'
  BY <1>13 DEF Resume, Free, Idle
<1>14. ASSUME NEW a \in Admin, NEW s \in Subscriber, Retry(a, s)
     PROVE  EnqueueComplete'
  BY <1>14 DEF Retry, Free, Idle
<1>15. ASSUME NEW a \in Admin, NEW s \in Subscriber, Withdraw(a, s)
     PROVE  EnqueueComplete'
  BY <1>15 DEF Withdraw, Free, Idle
<1>16. ASSUME NEW k \in Scheduler, StartDue(k)
     PROVE  EnqueueComplete'
  BY <1>16 DEF StartDue, Goto, Free, Idle
<1>17. ASSUME NEW k \in Scheduler, ResumeEnqueue(k)
     PROVE  EnqueueComplete'
  BY <1>17 DEF ResumeEnqueue, Interrupted, Goto, Free, Idle
<1>18. ASSUME NEW k \in Scheduler, FindSending(k)
     PROVE  EnqueueComplete'
  BY <1>18 DEF FindSending, Goto, Free, Idle
<1>19. ASSUME NEW k \in Scheduler, Tally(k)
     PROVE  EnqueueComplete'
  BY <1>19 DEF Tally, Drained, Goto, Done
<1>20. ASSUME NEW k \in Scheduler, Close(k)
     PROVE  EnqueueComplete'
  BY <1>20 DEF Close, Done
<1>21. ASSUME NEW p \in Process, Start(p)
     PROVE  EnqueueComplete'
  BY <1>21 DEF Start, Startable, Before, Goto
<1>22. ASSUME NEW p \in Process, StartLost(p)
     PROVE  EnqueueComplete'
  BY <1>22 DEF StartLost, Goto
<1>23. ASSUME NEW p \in Process, Restart(p)
     PROVE  EnqueueComplete'
  BY <1>23 DEF Restart, Interrupted, Goto, Done
<1>24. ASSUME NEW p \in Process, LoadContent(p)
     PROVE  EnqueueComplete'
  BY <1>24 DEF LoadContent, Load
<1>25. ASSUME NEW p \in Process, ReadChunk(p)
     PROVE  EnqueueComplete'
  BY <1>25 DEF ReadChunk
<1>26. ASSUME NEW p \in Process, WriteChunk(p)
     PROVE  EnqueueComplete'
  BY <1>26 DEF WriteChunk, Missing
<1>27. ASSUME NEW p \in Process, SetCount(p)
     PROVE  EnqueueComplete'
  BY <1>27 DEF SetCount, Done
<1>28. ASSUME NEW p \in Process, GiveUp(p)
     PROVE  EnqueueComplete'
  BY <1>28 DEF GiveUp, Done
<1>29. ASSUME NEW p \in Process, Crash(p)
     PROVE  EnqueueComplete'
  BY <1>29 DEF Crash, Done, Idle
<1>30. ASSUME DateComes
     PROVE  EnqueueComplete'
  BY <1>30 DEF DateComes
<1>31. ASSUME NEW s \in Subscriber, Claim(s)
     PROVE  EnqueueComplete'
  BY <1>31 DEF Claim
<1>32. ASSUME NEW s \in Subscriber, Deliver(s)
     PROVE  EnqueueComplete'
  BY <1>32 DEF Deliver
<1>33. ASSUME NEW s \in Subscriber, Join(s)
     PROVE  EnqueueComplete'
  BY <1>33 DEF Join, Move
<1>34. ASSUME NEW s \in Subscriber, Leave(s)
     PROVE  EnqueueComplete'
  BY <1>34 DEF Leave, Depart, Move, CopyAfterCancel
<1>35. ASSUME NEW s \in Subscriber, Erase(s)
     PROVE  EnqueueComplete'
  BY <1>35 DEF Erase, Depart, Move
<1>36. CASE UNCHANGED vars
  BY <1>36 DEF vars
<1>. QED
  BY <1>1, <1>2, <1>3, <1>4, <1>5, <1>6, <1>7, <1>8, <1>9, <1>10, <1>11,
     <1>12, <1>13, <1>14, <1>15, <1>16, <1>17, <1>18, <1>19, <1>20, <1>21,
     <1>22, <1>23, <1>24, <1>25, <1>26, <1>27, <1>28, <1>29, <1>30, <1>31,
     <1>32, <1>33, <1>34, <1>35, <1>36
     DEF Next, Office, Sending, Tick

-----------------------------------------------------------------------------
(* The progress of an enqueue *)

\* A step leaves the enqueue of q where it was, and its audience too.
Kept(q) ==
  pc'[q] \in {"read", "write", "count"} =>
    /\ pc'[q] = pc[q] /\ cursor'[q] = cursor[q] /\ batch'[q] = batch[q]
    /\ Active \subseteq Active' /\ steady' \subseteq steady

LEMMA ProgressKept ==
  ASSUME NEW q \in Process, Progress(q), Kept(q), Queued \subseteq Queued'
  PROVE  Progress(q)'
BY DEF Kept, Progress

\* Only its own three steps move an enqueue.
LEMMA NextKept ==
  ASSUME TypeOK, BegunOK, MemoryOK, ~departures', [Next]_vars
  PROVE  \A q \in Process : Kept(q) \/ LoadContent(q) \/ ReadChunk(q) \/ WriteChunk(q)
<1> USE SizesAssumption, ProcessAssumption, BoundsAssumption
    DEF TypeOK, BegunOK, MemoryOK, Kept, Active, PC, campaign, copies, process, audience, bounds, Process
<1>1. ASSUME NEW a \in Admin, UpdateRead(a)
     PROVE  \A q \in Process : Kept(q) \/ LoadContent(q) \/ ReadChunk(q) \/ WriteChunk(q)
  BY <1>1 DEF UpdateRead, Editable, Goto, Free, Idle
<1>2. ASSUME NEW a \in Admin, UpdateWrite(a)
     PROVE  \A q \in Process : Kept(q) \/ LoadContent(q) \/ ReadChunk(q) \/ WriteChunk(q)
  BY <1>2 DEF UpdateWrite, Done
<1>3. ASSUME NEW a \in Admin, RemoveRead(a)
     PROVE  \A q \in Process : Kept(q) \/ LoadContent(q) \/ ReadChunk(q) \/ WriteChunk(q)
  BY <1>3 DEF RemoveRead, Removable, Goto, Free, Idle
<1>4. ASSUME NEW a \in Admin, RemoveWrite(a)
     PROVE  \A q \in Process : Kept(q) \/ LoadContent(q) \/ ReadChunk(q) \/ WriteChunk(q)
  BY <1>4 DEF RemoveWrite, Done
<1>5. ASSUME NEW a \in Admin, ScheduleRead(a)
     PROVE  \A q \in Process : Kept(q) \/ LoadContent(q) \/ ReadChunk(q) \/ WriteChunk(q)
  BY <1>5 DEF ScheduleRead, Load, Free, Idle
<1>6. ASSUME NEW a \in Admin, ScheduleLater(a)
     PROVE  \A q \in Process : Kept(q) \/ LoadContent(q) \/ ReadChunk(q) \/ WriteChunk(q)
  BY <1>6 DEF ScheduleLater, Done
<1>7. ASSUME NEW a \in Admin, ScheduleNow(a)
     PROVE  \A q \in Process : Kept(q) \/ LoadContent(q) \/ ReadChunk(q) \/ WriteChunk(q)
  BY <1>7 DEF ScheduleNow, Goto
<1>8. ASSUME NEW a \in Admin, RecallRead(a)
     PROVE  \A q \in Process : Kept(q) \/ LoadContent(q) \/ ReadChunk(q) \/ WriteChunk(q)
  BY <1>8 DEF RecallRead, Recallable, Goto, Free, Idle
<1>9. ASSUME NEW a \in Admin, RecallWrite(a)
     PROVE  \A q \in Process : Kept(q) \/ LoadContent(q) \/ ReadChunk(q) \/ WriteChunk(q)
  BY <1>9 DEF RecallWrite, Done
<1>10. ASSUME NEW a \in Admin, CancelRead(a)
     PROVE  \A q \in Process : Kept(q) \/ LoadContent(q) \/ ReadChunk(q) \/ WriteChunk(q)
  BY <1>10 DEF CancelRead, Cancellable, Goto, Free, Idle
<1>11. ASSUME NEW a \in Admin, CancelWrite(a)
     PROVE  \A q \in Process : Kept(q) \/ LoadContent(q) \/ ReadChunk(q) \/ WriteChunk(q)
  BY <1>11 DEF CancelWrite, Done, CopyAfterCancel
<1>12. ASSUME NEW a \in Admin, Pause(a)
     PROVE  \A q \in Process : Kept(q) \/ LoadContent(q) \/ ReadChunk(q) \/ WriteChunk(q)
  BY <1>12 DEF Pause, Free, Idle
<1>13. ASSUME NEW a \in Admin, Resume(a)
     PROVE  \A q \in Process : Kept(q) \/ LoadContent(q) \/ ReadChunk(q) \/ WriteChunk(q)
  BY <1>13 DEF Resume, Free, Idle
<1>14. ASSUME NEW a \in Admin, NEW s \in Subscriber, Retry(a, s)
     PROVE  \A q \in Process : Kept(q) \/ LoadContent(q) \/ ReadChunk(q) \/ WriteChunk(q)
  BY <1>14 DEF Retry, Free, Idle
<1>15. ASSUME NEW a \in Admin, NEW s \in Subscriber, Withdraw(a, s)
     PROVE  \A q \in Process : Kept(q) \/ LoadContent(q) \/ ReadChunk(q) \/ WriteChunk(q)
  BY <1>15 DEF Withdraw, Free, Idle
<1>16. ASSUME NEW k \in Scheduler, StartDue(k)
     PROVE  \A q \in Process : Kept(q) \/ LoadContent(q) \/ ReadChunk(q) \/ WriteChunk(q)
  BY <1>16 DEF StartDue, Goto, Free, Idle
<1>17. ASSUME NEW k \in Scheduler, ResumeEnqueue(k)
     PROVE  \A q \in Process : Kept(q) \/ LoadContent(q) \/ ReadChunk(q) \/ WriteChunk(q)
  BY <1>17 DEF ResumeEnqueue, Interrupted, Goto, Free, Idle
<1>18. ASSUME NEW k \in Scheduler, FindSending(k)
     PROVE  \A q \in Process : Kept(q) \/ LoadContent(q) \/ ReadChunk(q) \/ WriteChunk(q)
  BY <1>18 DEF FindSending, Goto, Free, Idle
<1>19. ASSUME NEW k \in Scheduler, Tally(k)
     PROVE  \A q \in Process : Kept(q) \/ LoadContent(q) \/ ReadChunk(q) \/ WriteChunk(q)
  BY <1>19 DEF Tally, Drained, Goto, Done
<1>20. ASSUME NEW k \in Scheduler, Close(k)
     PROVE  \A q \in Process : Kept(q) \/ LoadContent(q) \/ ReadChunk(q) \/ WriteChunk(q)
  BY <1>20 DEF Close, Done
<1>21. ASSUME NEW p \in Process, Start(p)
     PROVE  \A q \in Process : Kept(q) \/ LoadContent(q) \/ ReadChunk(q) \/ WriteChunk(q)
  BY <1>21 DEF Start, Startable, Before, Goto
<1>22. ASSUME NEW p \in Process, StartLost(p)
     PROVE  \A q \in Process : Kept(q) \/ LoadContent(q) \/ ReadChunk(q) \/ WriteChunk(q)
  BY <1>22 DEF StartLost, Goto
<1>23. ASSUME NEW p \in Process, Restart(p)
     PROVE  \A q \in Process : Kept(q) \/ LoadContent(q) \/ ReadChunk(q) \/ WriteChunk(q)
  BY <1>23 DEF Restart, Interrupted, Goto, Done
<1>24. ASSUME NEW p \in Process, LoadContent(p)
     PROVE  \A q \in Process : Kept(q) \/ LoadContent(q) \/ ReadChunk(q) \/ WriteChunk(q)
  <2>1. ASSUME NEW q \in Process, q # p
        PROVE  Kept(q)
    BY <1>24, <2>1 DEF LoadContent, Load
  <2>. QED
    BY <1>24, <2>1, Zenon
<1>25. ASSUME NEW p \in Process, ReadChunk(p)
     PROVE  \A q \in Process : Kept(q) \/ LoadContent(q) \/ ReadChunk(q) \/ WriteChunk(q)
  <2>1. ASSUME NEW q \in Process, q # p
        PROVE  Kept(q)
    BY <1>25, <2>1 DEF ReadChunk
  <2>. QED
    BY <1>25, <2>1, Zenon
<1>26. ASSUME NEW p \in Process, WriteChunk(p)
     PROVE  \A q \in Process : Kept(q) \/ LoadContent(q) \/ ReadChunk(q) \/ WriteChunk(q)
  <2>1. ASSUME NEW q \in Process, q # p
        PROVE  Kept(q)
    BY <1>26, <2>1 DEF WriteChunk
  <2>. QED
    BY <1>26, <2>1, Zenon
<1>27. ASSUME NEW p \in Process, SetCount(p)
     PROVE  \A q \in Process : Kept(q) \/ LoadContent(q) \/ ReadChunk(q) \/ WriteChunk(q)
  BY <1>27 DEF SetCount, Done
<1>28. ASSUME NEW p \in Process, GiveUp(p)
     PROVE  \A q \in Process : Kept(q) \/ LoadContent(q) \/ ReadChunk(q) \/ WriteChunk(q)
  BY <1>28 DEF GiveUp, Done
<1>29. ASSUME NEW p \in Process, Crash(p)
     PROVE  \A q \in Process : Kept(q) \/ LoadContent(q) \/ ReadChunk(q) \/ WriteChunk(q)
  BY <1>29 DEF Crash, Done, Idle
<1>30. ASSUME DateComes
     PROVE  \A q \in Process : Kept(q) \/ LoadContent(q) \/ ReadChunk(q) \/ WriteChunk(q)
  BY <1>30 DEF DateComes
<1>31. ASSUME NEW s \in Subscriber, Claim(s)
     PROVE  \A q \in Process : Kept(q) \/ LoadContent(q) \/ ReadChunk(q) \/ WriteChunk(q)
  BY <1>31 DEF Claim
<1>32. ASSUME NEW s \in Subscriber, Deliver(s)
     PROVE  \A q \in Process : Kept(q) \/ LoadContent(q) \/ ReadChunk(q) \/ WriteChunk(q)
  BY <1>32 DEF Deliver
<1>33. ASSUME NEW s \in Subscriber, Join(s)
     PROVE  \A q \in Process : Kept(q) \/ LoadContent(q) \/ ReadChunk(q) \/ WriteChunk(q)
  BY <1>33 DEF Join, Move
<1>34. ASSUME NEW s \in Subscriber, Leave(s)
     PROVE  \A q \in Process : Kept(q) \/ LoadContent(q) \/ ReadChunk(q) \/ WriteChunk(q)
  BY <1>34 DEF Leave, Depart, Move, CopyAfterCancel
<1>35. ASSUME NEW s \in Subscriber, Erase(s)
     PROVE  \A q \in Process : Kept(q) \/ LoadContent(q) \/ ReadChunk(q) \/ WriteChunk(q)
  BY <1>35 DEF Erase, Depart, Move
<1>36. CASE UNCHANGED vars
  BY <1>36 DEF vars
<1>. QED
  BY <1>1, <1>2, <1>3, <1>4, <1>5, <1>6, <1>7, <1>8, <1>9, <1>10, <1>11,
     <1>12, <1>13, <1>14, <1>15, <1>16, <1>17, <1>18, <1>19, <1>20, <1>21,
     <1>22, <1>23, <1>24, <1>25, <1>26, <1>27, <1>28, <1>29, <1>30, <1>31,
     <1>32, <1>33, <1>34, <1>35, <1>36
     DEF Next, Office, Sending, Tick

\* A departure is not forgotten.
LEMMA NextDepartures ==
  ASSUME TypeOK, [Next]_vars
  PROVE  departures => departures'
<1> USE SizesAssumption, ProcessAssumption, BoundsAssumption
    DEF TypeOK, campaign, copies, process, audience, bounds, Process
<1>1. ASSUME NEW a \in Admin, UpdateRead(a)
     PROVE  departures => departures'
  BY <1>1 DEF UpdateRead, Editable, Goto, Free, Idle
<1>2. ASSUME NEW a \in Admin, UpdateWrite(a)
     PROVE  departures => departures'
  BY <1>2 DEF UpdateWrite, Done
<1>3. ASSUME NEW a \in Admin, RemoveRead(a)
     PROVE  departures => departures'
  BY <1>3 DEF RemoveRead, Removable, Goto, Free, Idle
<1>4. ASSUME NEW a \in Admin, RemoveWrite(a)
     PROVE  departures => departures'
  BY <1>4 DEF RemoveWrite, Done
<1>5. ASSUME NEW a \in Admin, ScheduleRead(a)
     PROVE  departures => departures'
  BY <1>5 DEF ScheduleRead, Load, Free, Idle
<1>6. ASSUME NEW a \in Admin, ScheduleLater(a)
     PROVE  departures => departures'
  BY <1>6 DEF ScheduleLater, Done
<1>7. ASSUME NEW a \in Admin, ScheduleNow(a)
     PROVE  departures => departures'
  BY <1>7 DEF ScheduleNow, Goto
<1>8. ASSUME NEW a \in Admin, RecallRead(a)
     PROVE  departures => departures'
  BY <1>8 DEF RecallRead, Recallable, Goto, Free, Idle
<1>9. ASSUME NEW a \in Admin, RecallWrite(a)
     PROVE  departures => departures'
  BY <1>9 DEF RecallWrite, Done
<1>10. ASSUME NEW a \in Admin, CancelRead(a)
     PROVE  departures => departures'
  BY <1>10 DEF CancelRead, Cancellable, Goto, Free, Idle
<1>11. ASSUME NEW a \in Admin, CancelWrite(a)
     PROVE  departures => departures'
  BY <1>11 DEF CancelWrite, Done, CopyAfterCancel
<1>12. ASSUME NEW a \in Admin, Pause(a)
     PROVE  departures => departures'
  BY <1>12 DEF Pause, Free, Idle
<1>13. ASSUME NEW a \in Admin, Resume(a)
     PROVE  departures => departures'
  BY <1>13 DEF Resume, Free, Idle
<1>14. ASSUME NEW a \in Admin, NEW s \in Subscriber, Retry(a, s)
     PROVE  departures => departures'
  BY <1>14 DEF Retry, Free, Idle
<1>15. ASSUME NEW a \in Admin, NEW s \in Subscriber, Withdraw(a, s)
     PROVE  departures => departures'
  BY <1>15 DEF Withdraw, Free, Idle
<1>16. ASSUME NEW k \in Scheduler, StartDue(k)
     PROVE  departures => departures'
  BY <1>16 DEF StartDue, Goto, Free, Idle
<1>17. ASSUME NEW k \in Scheduler, ResumeEnqueue(k)
     PROVE  departures => departures'
  BY <1>17 DEF ResumeEnqueue, Interrupted, Goto, Free, Idle
<1>18. ASSUME NEW k \in Scheduler, FindSending(k)
     PROVE  departures => departures'
  BY <1>18 DEF FindSending, Goto, Free, Idle
<1>19. ASSUME NEW k \in Scheduler, Tally(k)
     PROVE  departures => departures'
  BY <1>19 DEF Tally, Drained, Goto, Done
<1>20. ASSUME NEW k \in Scheduler, Close(k)
     PROVE  departures => departures'
  BY <1>20 DEF Close, Done
<1>21. ASSUME NEW p \in Process, Start(p)
     PROVE  departures => departures'
  BY <1>21 DEF Start, Startable, Before, Goto
<1>22. ASSUME NEW p \in Process, StartLost(p)
     PROVE  departures => departures'
  BY <1>22 DEF StartLost, Goto
<1>23. ASSUME NEW p \in Process, Restart(p)
     PROVE  departures => departures'
  BY <1>23 DEF Restart, Interrupted, Goto, Done
<1>24. ASSUME NEW p \in Process, LoadContent(p)
     PROVE  departures => departures'
  BY <1>24 DEF LoadContent, Load
<1>25. ASSUME NEW p \in Process, ReadChunk(p)
     PROVE  departures => departures'
  BY <1>25 DEF ReadChunk
<1>26. ASSUME NEW p \in Process, WriteChunk(p)
     PROVE  departures => departures'
  BY <1>26 DEF WriteChunk, Missing
<1>27. ASSUME NEW p \in Process, SetCount(p)
     PROVE  departures => departures'
  BY <1>27 DEF SetCount, Done
<1>28. ASSUME NEW p \in Process, GiveUp(p)
     PROVE  departures => departures'
  BY <1>28 DEF GiveUp, Done
<1>29. ASSUME NEW p \in Process, Crash(p)
     PROVE  departures => departures'
  BY <1>29 DEF Crash, Done, Idle
<1>30. ASSUME DateComes
     PROVE  departures => departures'
  BY <1>30 DEF DateComes
<1>31. ASSUME NEW s \in Subscriber, Claim(s)
     PROVE  departures => departures'
  BY <1>31 DEF Claim
<1>32. ASSUME NEW s \in Subscriber, Deliver(s)
     PROVE  departures => departures'
  BY <1>32 DEF Deliver
<1>33. ASSUME NEW s \in Subscriber, Join(s)
     PROVE  departures => departures'
  BY <1>33 DEF Join, Move
<1>34. ASSUME NEW s \in Subscriber, Leave(s)
     PROVE  departures => departures'
  BY <1>34 DEF Leave, Depart, Move, CopyAfterCancel
<1>35. ASSUME NEW s \in Subscriber, Erase(s)
     PROVE  departures => departures'
  BY <1>35 DEF Erase, Depart, Move
<1>36. CASE UNCHANGED vars
  BY <1>36 DEF vars
<1>. QED
  BY <1>1, <1>2, <1>3, <1>4, <1>5, <1>6, <1>7, <1>8, <1>9, <1>10, <1>11,
     <1>12, <1>13, <1>14, <1>15, <1>16, <1>17, <1>18, <1>19, <1>20, <1>21,
     <1>22, <1>23, <1>24, <1>25, <1>26, <1>27, <1>28, <1>29, <1>30, <1>31,
     <1>32, <1>33, <1>34, <1>35, <1>36
     DEF Next, Office, Sending, Tick

LEMMA ReadProgress ==
  ASSUME TypeOK, NEW p \in Process, Progress(p), steady \subseteq Active, ReadChunk(p)
  PROVE  Progress(p)'
<1> DEFINE A == After(cursor[p])
<1>1. cursor[p] \in 0..N /\ pc[p] = "read"
  BY DEF TypeOK, ReadChunk
<1>2. A = {s \in Active : s > cursor[p]} /\ A \subseteq Subscriber
  <2>1. cursor[p] = 0 \/ cursor[p] \in Active
    BY <1>1 DEF Progress
  <2>2. sub \in [Subscriber -> {"ACTIVE", "left", "gone"}]
    BY DEF TypeOK
  <2>. QED
    BY <1>1, <2>1, <2>2, AfterFacts DEF Active
<1> HIDE DEF A
<1>3. /\ Take(A) \subseteq A
      /\ A # {} => Take(A) # {}
      /\ \A b \in Take(A), s \in A : s <= b => s \in Take(A)
  BY <1>2, TakeFacts
<1>4. \A s \in steady : s \in Queued \/ s \in A
  <2>1. \A s \in steady : s <= cursor[p] \/ s > cursor[p]
    BY <1>1, SizesAssumption DEF Active, Subscriber
  <2>. QED
    BY <1>1, <1>2, <2>1 DEF Progress
<1>5. /\ pc'[p] = IF Take(A) = {} THEN "count" ELSE "write"
      /\ batch'[p] = Take(A)
      /\ cursor' = cursor /\ steady' = steady /\ Active' = Active /\ Queued' = Queued
  BY DEF ReadChunk, TypeOK, A, audience, copies, Active, Queued
<1>6. CASE Take(A) = {}
  BY <1>3, <1>4, <1>5, <1>6 DEF Progress
<1>7. CASE Take(A) # {}
  <2>1. Take(A) \subseteq Active
    BY <1>2, <1>3
  <2>2. \A b \in Take(A), s \in steady : s <= b => s \in Queued \cup Take(A)
    BY <1>3, <1>4
  <2>. QED
    BY <1>1, <1>5, <1>7, <2>1, <2>2 DEF Progress
<1>. QED
  BY <1>6, <1>7

LEMMA WriteProgress ==
  ASSUME TypeOK, MemoryOK, NEW p \in Process, Progress(p), WriteChunk(p)
  PROVE  Progress(p)'
<1>1. /\ pc[p] = "write" /\ batch[p] \subseteq Active /\ batch[p] # {}
      /\ \A b \in batch[p], s \in steady : s <= b => s \in Queued \cup batch[p]
  BY DEF WriteChunk, MemoryOK, Progress
<1>2. Last(batch[p]) \in batch[p]
  BY <1>1, LastFacts DEF Active
<1>3. Queued \cup batch[p] \subseteq Queued'
  BY <1>1 DEF WriteChunk, Missing, Queued, Active, TypeOK
<1>4. /\ pc'[p] = "read" /\ cursor'[p] = Last(batch[p])
      /\ steady' = steady /\ Active' = Active
  BY DEF WriteChunk, TypeOK, audience, Active
<1>. QED
  BY <1>1, <1>2, <1>3, <1>4 DEF Progress

\* What is below the cursor is queued, as long as nobody leaves.
LEMMA NextProgress ==
  ASSUME TypeOK, BegunOK, MemoryOK, \A q \in Process : Progress(q), ~departures',
         [Next]_vars, NEW q \in Process
  PROVE  Progress(q)'
<1>1. CASE LoadContent(q)
  <2>1. /\ pc'[q] = "read" /\ cursor'[q] = 0
        /\ steady' = steady /\ steady \subseteq Subscriber
    BY <1>1 DEF LoadContent, Load, TypeOK, MemoryOK, audience
  <2>2. \A s \in steady' : ~(s <= cursor'[q])
    BY <2>1, SizesAssumption DEF Subscriber
  <2>. QED
    BY <2>1, <2>2 DEF Progress
<1>2. CASE ReadChunk(q)
  BY <1>2, ReadProgress DEF BegunOK
<1>3. CASE WriteChunk(q)
  BY <1>3, WriteProgress
<1>4. CASE Kept(q)
  BY <1>4, NextQueued, ProgressKept
<1>. QED
  BY <1>1, <1>2, <1>3, <1>4, NextKept

LEMMA NextIInv == ASSUME IInv, [Next]_vars PROVE IInv'
<1>1. TypeOK' /\ BegunOK' /\ MemoryOK' /\ AudienceRespected' /\ EnqueueComplete'
  BY NextType, NextBegun, NextMemory, NextAudience, NextComplete DEF IInv
<1>2. ASSUME ~departures'
      PROVE  \A p \in Process : Progress(p)'
  <2>1. ~departures
    BY <1>2, NextDepartures DEF IInv
  <2>. QED
    BY <1>2, <2>1, NextProgress DEF IInv
<1>. QED
  BY <1>1, <1>2 DEF IInv

-----------------------------------------------------------------------------
(* Theorems *)

\* Types, and the memory and progress of every enqueue, however many run.
THEOREM Invariance == Spec => []IInv
<1>. QED
  BY InitIInv, NextIInv, PTL DEF Spec

\* The count says that everybody who stayed on the list has a copy, whatever
\* crashed, overlapped and was resumed (enqueue, resumeEnqueues).
THEOREM EnqueueHolds == Spec => []EnqueueComplete
<1>1. IInv => EnqueueComplete
  BY DEF IInv
<1>. QED
  BY <1>1, Invariance, PTL

\* Nobody who was not on the list while it was sent has a copy (audienceWhere).
THEOREM AudienceHolds == Spec => []AudienceRespected
<1>1. IInv => AudienceRespected
  BY DEF IInv
<1>. QED
  BY <1>1, Invariance, PTL

\* No step but a retry puts back a copy that has left the queue.
LEMMA NextMissing ==
  ASSUME TypeOK, BegunOK, MemoryOK, NEW x \in Subscriber, copy[x] \in {"SENT", "FAILED", "CANCELLED"}, copy'[x] = "PENDING", [Next]_vars
  PROVE  \E b \in Admin : Retry(b, x)
<1> USE SizesAssumption, ProcessAssumption, BoundsAssumption
    DEF TypeOK, CopyStatus, campaign, copies, process, audience, bounds, Process
<1>1. ASSUME NEW a \in Admin, UpdateRead(a)
     PROVE  \E b \in Admin : Retry(b, x)
  BY <1>1 DEF UpdateRead, Editable, Goto, Free, Idle
<1>2. ASSUME NEW a \in Admin, UpdateWrite(a)
     PROVE  \E b \in Admin : Retry(b, x)
  BY <1>2 DEF UpdateWrite, Done
<1>3. ASSUME NEW a \in Admin, RemoveRead(a)
     PROVE  \E b \in Admin : Retry(b, x)
  BY <1>3 DEF RemoveRead, Removable, Goto, Free, Idle
<1>4. ASSUME NEW a \in Admin, RemoveWrite(a)
     PROVE  \E b \in Admin : Retry(b, x)
  BY <1>4 DEF RemoveWrite, Done
<1>5. ASSUME NEW a \in Admin, ScheduleRead(a)
     PROVE  \E b \in Admin : Retry(b, x)
  BY <1>5 DEF ScheduleRead, Load, Free, Idle
<1>6. ASSUME NEW a \in Admin, ScheduleLater(a)
     PROVE  \E b \in Admin : Retry(b, x)
  BY <1>6 DEF ScheduleLater, Done
<1>7. ASSUME NEW a \in Admin, ScheduleNow(a)
     PROVE  \E b \in Admin : Retry(b, x)
  BY <1>7 DEF ScheduleNow, Goto
<1>8. ASSUME NEW a \in Admin, RecallRead(a)
     PROVE  \E b \in Admin : Retry(b, x)
  BY <1>8 DEF RecallRead, Recallable, Goto, Free, Idle
<1>9. ASSUME NEW a \in Admin, RecallWrite(a)
     PROVE  \E b \in Admin : Retry(b, x)
  BY <1>9 DEF RecallWrite, Done
<1>10. ASSUME NEW a \in Admin, CancelRead(a)
     PROVE  \E b \in Admin : Retry(b, x)
  BY <1>10 DEF CancelRead, Cancellable, Goto, Free, Idle
<1>11. ASSUME NEW a \in Admin, CancelWrite(a)
     PROVE  \E b \in Admin : Retry(b, x)
  BY <1>11 DEF CancelWrite, Done, CopyAfterCancel
<1>12. ASSUME NEW a \in Admin, Pause(a)
     PROVE  \E b \in Admin : Retry(b, x)
  BY <1>12 DEF Pause, Free, Idle
<1>13. ASSUME NEW a \in Admin, Resume(a)
     PROVE  \E b \in Admin : Retry(b, x)
  BY <1>13 DEF Resume, Free, Idle
<1>14. ASSUME NEW a \in Admin, NEW s \in Subscriber, Retry(a, s)
     PROVE  \E b \in Admin : Retry(b, x)
  <2>1. s = x
    BY <1>14 DEF Retry, Free, Idle
  <2>. QED
    BY <1>14, <2>1, Zenon
<1>15. ASSUME NEW a \in Admin, NEW s \in Subscriber, Withdraw(a, s)
     PROVE  \E b \in Admin : Retry(b, x)
  BY <1>15 DEF Withdraw, Free, Idle
<1>16. ASSUME NEW k \in Scheduler, StartDue(k)
     PROVE  \E b \in Admin : Retry(b, x)
  BY <1>16 DEF StartDue, Goto, Free, Idle
<1>17. ASSUME NEW k \in Scheduler, ResumeEnqueue(k)
     PROVE  \E b \in Admin : Retry(b, x)
  BY <1>17 DEF ResumeEnqueue, Interrupted, Goto, Free, Idle
<1>18. ASSUME NEW k \in Scheduler, FindSending(k)
     PROVE  \E b \in Admin : Retry(b, x)
  BY <1>18 DEF FindSending, Goto, Free, Idle
<1>19. ASSUME NEW k \in Scheduler, Tally(k)
     PROVE  \E b \in Admin : Retry(b, x)
  BY <1>19 DEF Tally, Drained, Goto, Done
<1>20. ASSUME NEW k \in Scheduler, Close(k)
     PROVE  \E b \in Admin : Retry(b, x)
  BY <1>20 DEF Close, Done
<1>21. ASSUME NEW p \in Process, Start(p)
     PROVE  \E b \in Admin : Retry(b, x)
  BY <1>21 DEF Start, Startable, Before, Goto
<1>22. ASSUME NEW p \in Process, StartLost(p)
     PROVE  \E b \in Admin : Retry(b, x)
  BY <1>22 DEF StartLost, Goto
<1>23. ASSUME NEW p \in Process, Restart(p)
     PROVE  \E b \in Admin : Retry(b, x)
  BY <1>23 DEF Restart, Interrupted, Goto, Done
<1>24. ASSUME NEW p \in Process, LoadContent(p)
     PROVE  \E b \in Admin : Retry(b, x)
  BY <1>24 DEF LoadContent, Load
<1>25. ASSUME NEW p \in Process, ReadChunk(p)
     PROVE  \E b \in Admin : Retry(b, x)
  BY <1>25 DEF ReadChunk
<1>26. ASSUME NEW p \in Process, WriteChunk(p)
     PROVE  \E b \in Admin : Retry(b, x)
  BY <1>26 DEF WriteChunk, Missing
<1>27. ASSUME NEW p \in Process, SetCount(p)
     PROVE  \E b \in Admin : Retry(b, x)
  BY <1>27 DEF SetCount, Done
<1>28. ASSUME NEW p \in Process, GiveUp(p)
     PROVE  \E b \in Admin : Retry(b, x)
  BY <1>28 DEF GiveUp, Done
<1>29. ASSUME NEW p \in Process, Crash(p)
     PROVE  \E b \in Admin : Retry(b, x)
  BY <1>29 DEF Crash, Done, Idle
<1>30. ASSUME DateComes
     PROVE  \E b \in Admin : Retry(b, x)
  BY <1>30 DEF DateComes
<1>31. ASSUME NEW s \in Subscriber, Claim(s)
     PROVE  \E b \in Admin : Retry(b, x)
  BY <1>31 DEF Claim
<1>32. ASSUME NEW s \in Subscriber, Deliver(s)
     PROVE  \E b \in Admin : Retry(b, x)
  BY <1>32 DEF Deliver
<1>33. ASSUME NEW s \in Subscriber, Join(s)
     PROVE  \E b \in Admin : Retry(b, x)
  BY <1>33 DEF Join, Move
<1>34. ASSUME NEW s \in Subscriber, Leave(s)
     PROVE  \E b \in Admin : Retry(b, x)
  BY <1>34 DEF Leave, Depart, Move, CopyAfterCancel
<1>35. ASSUME NEW s \in Subscriber, Erase(s)
     PROVE  \E b \in Admin : Retry(b, x)
  BY <1>35 DEF Erase, Depart, Move
<1>36. CASE UNCHANGED vars
  BY <1>36 DEF vars
<1>. QED
  BY <1>1, <1>2, <1>3, <1>4, <1>5, <1>6, <1>7, <1>8, <1>9, <1>10, <1>11,
     <1>12, <1>13, <1>14, <1>15, <1>16, <1>17, <1>18, <1>19, <1>20, <1>21,
     <1>22, <1>23, <1>24, <1>25, <1>26, <1>27, <1>28, <1>29, <1>30, <1>31,
     <1>32, <1>33, <1>34, <1>35, <1>36
     DEF Next, Office, Sending, Tick

\* However often an enqueue runs again, it never puts back a copy that was sent,
\* given up or cancelled (createMany, skipDuplicates).
THEOREM OnlyMissingHolds == Spec => OnlyMissingAdded
<1>1. ASSUME IInv, [Next]_vars
      PROVE  [\A s \in Subscriber :
                copy[s] \in {"SENT", "FAILED", "CANCELLED"} /\ copy'[s] = "PENDING"
                  => \E a \in Admin : Retry(a, s)]_vars
  BY <1>1, NextMissing, Zenon DEF IInv
<1>. QED
  BY <1>1, Invariance, PTL DEF Spec, OnlyMissingAdded
-----------------------------------------------------------------------------
(* A process that nobody has overtaken writes over what it read *)

\* What the worker, the queue's buttons, the visitors and the clock leave alone:
\* a copy that waits again marks those who have counted none.
Quiet ==
  /\ UNCHANGED <<status, content, confirmed, begun, notices, text, pc, loaded, crossed>>
  /\ Queued' = Queued
  /\ overtaken \subseteq overtaken'
  /\ overtaken' \subseteq overtaken \cup {p \in Process : pc[p] = "close"}
  /\ Waiting' \subseteq Waiting \/ \A q \in Process : pc[q] = "close" => q \in overtaken'

\* An administrator's steps but the queue's buttons.
Desk(a) ==
  \/ UpdateRead(a) \/ UpdateWrite(a) \/ RemoveRead(a) \/ RemoveWrite(a)
  \/ ScheduleRead(a) \/ ScheduleLater(a) \/ ScheduleNow(a)
  \/ RecallRead(a) \/ RecallWrite(a) \/ CancelRead(a) \/ CancelWrite(a)
  \/ Pause(a) \/ Resume(a)

\* The steps of Lifecycle.
LifeStep ==
  /\ status \notin Before /\ status' \in Before => Crossing({"schedule", "recall"})
  /\ status' # status /\ status \in Over =>
       Crossing({"remove", "schedule", "recall", "cancel"})
  /\ status = "CANCELLED" /\ Queued' # Queued => Crossing({"write"})
  /\ status # "SENT" /\ status' = "SENT" /\ Waiting # {} => Crossing({"close"})

\* Every step is quiet, or one of a request or a tick.
LEMMA Steps ==
  ASSUME TypeOK, [Next]_vars
  PROVE  \/ Quiet
         \/ \E a \in Admin : Desk(a)
         \/ \E k \in Scheduler : Tick(k)
         \/ \E p \in Process : Sending(p) \/ GiveUp(p) \/ Crash(p)
<1> USE DEF TypeOK, CopyStatus, Quiet, Queued, Waiting, campaign, copies, process, audience, bounds, crossing
<1>1. ASSUME NEW a \in Admin, NEW s \in Subscriber, Retry(a, s)
      PROVE  Quiet
  <2>1. Queued' = Queued
    BY <1>1 DEF Retry
  <2>2. pc[a] = "idle"
    BY <1>1 DEF Retry, Free, Idle
  <2>3. \A q \in Process : pc[q] = "close" => q \in overtaken'
    BY <1>1, <2>2 DEF Retry, ByCopies
  <2>4. overtaken' \subseteq overtaken \cup {p \in Process : pc[p] = "close"}
    BY <1>1 DEF Retry, ByCopies
  <2>5. UNCHANGED <<status, content, confirmed, begun, notices, text, pc, loaded, crossed>>
        /\ overtaken \subseteq overtaken'
    BY <1>1 DEF Retry
  <2>. QED
    BY <2>1, <2>3, <2>4, <2>5
<1>2. ASSUME NEW a \in Admin, NEW s \in Subscriber, Withdraw(a, s)
      PROVE  Quiet
  BY <1>2 DEF Withdraw
<1>3. ASSUME NEW s \in Subscriber, Claim(s)
      PROVE  Quiet
  BY <1>3 DEF Claim
<1>4. ASSUME NEW s \in Subscriber, Deliver(s)
      PROVE  Quiet
  BY <1>4 DEF Deliver
<1>5. ASSUME NEW s \in Subscriber, Join(s)
      PROVE  Quiet
  BY <1>5 DEF Join, Move
<1>6. ASSUME NEW s \in Subscriber, Leave(s)
      PROVE  Quiet
  BY <1>6 DEF Leave, Depart, Move, CopyAfterCancel
<1>7. ASSUME NEW s \in Subscriber, Erase(s)
      PROVE  Quiet
  BY <1>7 DEF Erase, Depart, Move
<1>8. CASE DateComes
  BY <1>8 DEF DateComes
<1>9. CASE UNCHANGED vars
  BY <1>9 DEF vars
<1>. QED
  BY <1>1, <1>2, <1>3, <1>4, <1>5, <1>6, <1>7, <1>8, <1>9, Zenon
     DEF Next, Office, Desk

\* Who is overtaken is on its way, and only administrators edit.
LEMMA NextMarks ==
  ASSUME TypeOK, BegunOK, MarksOK, [Next]_vars
  PROVE  MarksOK'
<1> USE SizesAssumption, ProcessAssumption, BoundsAssumption
    DEF TypeOK, PC, Status, campaign, copies, process, audience, bounds, crossing, Process, Idle,
        ByStatus, ByContent, ByCopies, Crosses, BegunOK, MarksOK
<1>1. ASSUME NEW a \in Admin, UpdateRead(a)
      PROVE  MarksOK'
  BY <1>1 DEF UpdateRead, Editable, Goto, Free
<1>2. ASSUME NEW a \in Admin, UpdateWrite(a)
      PROVE  MarksOK'
  BY <1>2 DEF UpdateWrite, Done
<1>3. ASSUME NEW a \in Admin, RemoveRead(a)
      PROVE  MarksOK'
  BY <1>3 DEF RemoveRead, Removable, Goto, Free
<1>4. ASSUME NEW a \in Admin, RemoveWrite(a)
      PROVE  MarksOK'
  BY <1>4 DEF RemoveWrite, Done
<1>5. ASSUME NEW a \in Admin, ScheduleRead(a)
      PROVE  MarksOK'
  BY <1>5 DEF ScheduleRead, Load, Free
<1>6. ASSUME NEW a \in Admin, ScheduleLater(a)
      PROVE  MarksOK'
  BY <1>6 DEF ScheduleLater, Done
<1>7. ASSUME NEW a \in Admin, ScheduleNow(a)
      PROVE  MarksOK'
  BY <1>7 DEF ScheduleNow, Goto
<1>8. ASSUME NEW a \in Admin, RecallRead(a)
      PROVE  MarksOK'
  BY <1>8 DEF RecallRead, Recallable, Goto, Free
<1>9. ASSUME NEW a \in Admin, RecallWrite(a)
      PROVE  MarksOK'
  BY <1>9 DEF RecallWrite, Done
<1>10. ASSUME NEW a \in Admin, CancelRead(a)
      PROVE  MarksOK'
  BY <1>10 DEF CancelRead, Cancellable, Goto, Free
<1>11. ASSUME NEW a \in Admin, CancelWrite(a)
      PROVE  MarksOK'
  BY <1>11 DEF CancelWrite, Done, CopyAfterCancel
<1>12. ASSUME NEW a \in Admin, Pause(a)
      PROVE  MarksOK'
  BY <1>12 DEF Pause, Free
<1>13. ASSUME NEW a \in Admin, Resume(a)
      PROVE  MarksOK'
  BY <1>13 DEF Resume, Free
<1>14. ASSUME NEW k \in Scheduler, StartDue(k)
      PROVE  MarksOK'
  BY <1>14 DEF StartDue, Goto, Free
<1>15. ASSUME NEW k \in Scheduler, ResumeEnqueue(k)
      PROVE  MarksOK'
  BY <1>15 DEF ResumeEnqueue, Interrupted, Goto, Free
<1>16. ASSUME NEW k \in Scheduler, FindSending(k)
      PROVE  MarksOK'
  BY <1>16 DEF FindSending, Goto, Free
<1>17. ASSUME NEW k \in Scheduler, Tally(k)
      PROVE  MarksOK'
  BY <1>17 DEF Tally, Drained, Goto, Done
<1>18. ASSUME NEW k \in Scheduler, Close(k)
      PROVE  MarksOK'
  BY <1>18 DEF Close, Closable, Done
<1>19. ASSUME NEW p \in Process, Start(p)
      PROVE  MarksOK'
  BY <1>19 DEF Start, Startable, Goto
<1>20. ASSUME NEW p \in Process, StartLost(p)
      PROVE  MarksOK'
  BY <1>20 DEF StartLost, Startable, Goto
<1>21. ASSUME NEW p \in Process, Restart(p)
      PROVE  MarksOK'
  BY <1>21 DEF Restart, Interrupted, Goto, Done
<1>22. ASSUME NEW p \in Process, LoadContent(p)
      PROVE  MarksOK'
  BY <1>22 DEF LoadContent, Load
<1>23. ASSUME NEW p \in Process, ReadChunk(p)
      PROVE  MarksOK'
  BY <1>23 DEF ReadChunk
<1>24. ASSUME NEW p \in Process, WriteChunk(p)
      PROVE  MarksOK'
  BY <1>24 DEF WriteChunk, Missing
<1>25. ASSUME NEW p \in Process, SetCount(p)
      PROVE  MarksOK'
  BY <1>25 DEF SetCount, Done
<1>26. ASSUME NEW p \in Process, GiveUp(p)
      PROVE  MarksOK'
  BY <1>26 DEF GiveUp, Done, Closable
<1>27. ASSUME NEW p \in Process, Crash(p)
      PROVE  MarksOK'
  BY <1>27 DEF Crash, Done
<1>28. CASE Quiet
  BY <1>28 DEF Quiet
<1>. QED
  BY <1>1, <1>2, <1>3, <1>4, <1>5, <1>6, <1>7, <1>8, <1>9, <1>10, <1>11,
     <1>12, <1>13, <1>14, <1>15, <1>16, <1>17, <1>18, <1>19, <1>20, <1>21,
     <1>22, <1>23, <1>24, <1>25, <1>26, <1>27, <1>28, Steps
     DEF Desk, Sending, Tick

\* A step leaves what a process has read as it is, or marks it.
LEMMA NextRead ==
  ASSUME TypeOK, MarksOK, ReadsCurrent, RowOK, NEW q \in Process, q \notin overtaken', [Next]_vars
  PROVE  ReadOK(q)'
<1> USE SizesAssumption, ProcessAssumption, BoundsAssumption
    DEF TypeOK, PC, Status, campaign, copies, process, audience, bounds, crossing, Process, Idle,
        ByStatus, ByContent, ByCopies, Crosses, MarksOK, ReadsCurrent, ReadOK, RowOK, Before, Waiting
<1>1. ASSUME NEW a \in Admin, UpdateRead(a)
      PROVE  ReadOK(q)'
  BY <1>1 DEF UpdateRead, Editable, Goto, Free
<1>2. ASSUME NEW a \in Admin, UpdateWrite(a)
      PROVE  ReadOK(q)'
  BY <1>2 DEF UpdateWrite, Done
<1>3. ASSUME NEW a \in Admin, RemoveRead(a)
      PROVE  ReadOK(q)'
  BY <1>3 DEF RemoveRead, Removable, Goto, Free
<1>4. ASSUME NEW a \in Admin, RemoveWrite(a)
      PROVE  ReadOK(q)'
  BY <1>4 DEF RemoveWrite, Done
<1>5. ASSUME NEW a \in Admin, ScheduleRead(a)
      PROVE  ReadOK(q)'
  BY <1>5 DEF ScheduleRead, Load, Free
<1>6. ASSUME NEW a \in Admin, ScheduleLater(a)
      PROVE  ReadOK(q)'
  BY <1>6 DEF ScheduleLater, Done
<1>7. ASSUME NEW a \in Admin, ScheduleNow(a)
      PROVE  ReadOK(q)'
  BY <1>7 DEF ScheduleNow, Goto
<1>8. ASSUME NEW a \in Admin, RecallRead(a)
      PROVE  ReadOK(q)'
  BY <1>8 DEF RecallRead, Recallable, Goto, Free
<1>9. ASSUME NEW a \in Admin, RecallWrite(a)
      PROVE  ReadOK(q)'
  BY <1>9 DEF RecallWrite, Done
<1>10. ASSUME NEW a \in Admin, CancelRead(a)
      PROVE  ReadOK(q)'
  BY <1>10 DEF CancelRead, Cancellable, Goto, Free
<1>11. ASSUME NEW a \in Admin, CancelWrite(a)
      PROVE  ReadOK(q)'
  BY <1>11 DEF CancelWrite, Done, CopyAfterCancel
<1>12. ASSUME NEW a \in Admin, Pause(a)
      PROVE  ReadOK(q)'
  BY <1>12 DEF Pause, Free
<1>13. ASSUME NEW a \in Admin, Resume(a)
      PROVE  ReadOK(q)'
  BY <1>13 DEF Resume, Free
<1>14. ASSUME NEW k \in Scheduler, StartDue(k)
      PROVE  ReadOK(q)'
  BY <1>14 DEF StartDue, Goto, Free
<1>15. ASSUME NEW k \in Scheduler, ResumeEnqueue(k)
      PROVE  ReadOK(q)'
  BY <1>15 DEF ResumeEnqueue, Interrupted, Goto, Free
<1>16. ASSUME NEW k \in Scheduler, FindSending(k)
      PROVE  ReadOK(q)'
  BY <1>16 DEF FindSending, Goto, Free
<1>17. ASSUME NEW k \in Scheduler, Tally(k)
      PROVE  ReadOK(q)'
  BY <1>17 DEF Tally, Drained, Goto, Done
<1>18. ASSUME NEW k \in Scheduler, Close(k)
      PROVE  ReadOK(q)'
  BY <1>18 DEF Close, Closable, Done
<1>19. ASSUME NEW p \in Process, Start(p)
      PROVE  ReadOK(q)'
  BY <1>19 DEF Start, Startable, Goto
<1>20. ASSUME NEW p \in Process, StartLost(p)
      PROVE  ReadOK(q)'
  BY <1>20 DEF StartLost, Startable, Goto
<1>21. ASSUME NEW p \in Process, Restart(p)
      PROVE  ReadOK(q)'
  BY <1>21 DEF Restart, Interrupted, Goto, Done
<1>22. ASSUME NEW p \in Process, LoadContent(p)
      PROVE  ReadOK(q)'
  BY <1>22 DEF LoadContent, Load
<1>23. ASSUME NEW p \in Process, ReadChunk(p)
      PROVE  ReadOK(q)'
  BY <1>23 DEF ReadChunk
<1>24. ASSUME NEW p \in Process, WriteChunk(p)
      PROVE  ReadOK(q)'
  BY <1>24 DEF WriteChunk, Missing
<1>25. ASSUME NEW p \in Process, SetCount(p)
      PROVE  ReadOK(q)'
  BY <1>25 DEF SetCount, Done
<1>26. ASSUME NEW p \in Process, GiveUp(p)
      PROVE  ReadOK(q)'
  BY <1>26 DEF GiveUp, Done, Closable
<1>27. ASSUME NEW p \in Process, Crash(p)
      PROVE  ReadOK(q)'
  BY <1>27 DEF Crash, Done
<1>28. CASE Quiet
  BY <1>28 DEF Quiet
<1>. QED
  BY <1>1, <1>2, <1>3, <1>4, <1>5, <1>6, <1>7, <1>8, <1>9, <1>10, <1>11,
     <1>12, <1>13, <1>14, <1>15, <1>16, <1>17, <1>18, <1>19, <1>20, <1>21,
     <1>22, <1>23, <1>24, <1>25, <1>26, <1>27, <1>28, Steps
     DEF Desk, Sending, Tick

\* The row, the copies and the notice.
LEMMA NextRow ==
  ASSUME IInv, MarksOK, ReadsCurrent, RowOK, [Next]_vars
  PROVE  RowOK'
<1> USE SizesAssumption, ProcessAssumption, BoundsAssumption
    DEF TypeOK, PC, Status, campaign, copies, process, audience, bounds, crossing, Process, Idle,
        ByStatus, ByContent, ByCopies, Crosses, IInv, BegunOK, MemoryOK, AudienceRespected, CopyStatus, MarksOK, ReadsCurrent, ReadOK, RowOK, Before, Over, Queued
<1>1. ASSUME NEW a \in Admin, UpdateRead(a)
      PROVE  RowOK'
  BY <1>1 DEF UpdateRead, Editable, Goto, Free
<1>2. ASSUME NEW a \in Admin, UpdateWrite(a)
      PROVE  RowOK'
  BY <1>2 DEF UpdateWrite, Done
<1>3. ASSUME NEW a \in Admin, RemoveRead(a)
      PROVE  RowOK'
  BY <1>3 DEF RemoveRead, Removable, Goto, Free
<1>4. ASSUME NEW a \in Admin, RemoveWrite(a)
      PROVE  RowOK'
  BY <1>4 DEF RemoveWrite, Done
<1>5. ASSUME NEW a \in Admin, ScheduleRead(a)
      PROVE  RowOK'
  BY <1>5 DEF ScheduleRead, Load, Free
<1>6. ASSUME NEW a \in Admin, ScheduleLater(a)
      PROVE  RowOK'
  BY <1>6 DEF ScheduleLater, Done
<1>7. ASSUME NEW a \in Admin, ScheduleNow(a)
      PROVE  RowOK'
  BY <1>7 DEF ScheduleNow, Goto
<1>8. ASSUME NEW a \in Admin, RecallRead(a)
      PROVE  RowOK'
  BY <1>8 DEF RecallRead, Recallable, Goto, Free
<1>9. ASSUME NEW a \in Admin, RecallWrite(a)
      PROVE  RowOK'
  BY <1>9 DEF RecallWrite, Done
<1>10. ASSUME NEW a \in Admin, CancelRead(a)
      PROVE  RowOK'
  BY <1>10 DEF CancelRead, Cancellable, Goto, Free
<1>11. ASSUME NEW a \in Admin, CancelWrite(a)
      PROVE  RowOK'
  BY <1>11 DEF CancelWrite, Done, CopyAfterCancel
<1>12. ASSUME NEW a \in Admin, Pause(a)
      PROVE  RowOK'
  BY <1>12 DEF Pause, Free
<1>13. ASSUME NEW a \in Admin, Resume(a)
      PROVE  RowOK'
  BY <1>13 DEF Resume, Free
<1>14. ASSUME NEW k \in Scheduler, StartDue(k)
      PROVE  RowOK'
  BY <1>14 DEF StartDue, Goto, Free
<1>15. ASSUME NEW k \in Scheduler, ResumeEnqueue(k)
      PROVE  RowOK'
  BY <1>15 DEF ResumeEnqueue, Interrupted, Goto, Free
<1>16. ASSUME NEW k \in Scheduler, FindSending(k)
      PROVE  RowOK'
  BY <1>16 DEF FindSending, Goto, Free
<1>17. ASSUME NEW k \in Scheduler, Tally(k)
      PROVE  RowOK'
  BY <1>17 DEF Tally, Drained, Goto, Done
<1>18. ASSUME NEW k \in Scheduler, Close(k)
      PROVE  RowOK'
  BY <1>18 DEF Close, Closable, Done
<1>19. ASSUME NEW p \in Process, Start(p)
      PROVE  RowOK'
  BY <1>19 DEF Start, Startable, Goto
<1>20. ASSUME NEW p \in Process, StartLost(p)
      PROVE  RowOK'
  BY <1>20 DEF StartLost, Startable, Goto
<1>21. ASSUME NEW p \in Process, Restart(p)
      PROVE  RowOK'
  BY <1>21 DEF Restart, Interrupted, Goto, Done
<1>22. ASSUME NEW p \in Process, LoadContent(p)
      PROVE  RowOK'
  BY <1>22 DEF LoadContent, Load
<1>23. ASSUME NEW p \in Process, ReadChunk(p)
      PROVE  RowOK'
  BY <1>23 DEF ReadChunk
<1>24. ASSUME NEW p \in Process, WriteChunk(p)
      PROVE  RowOK'
  BY <1>24 DEF WriteChunk, Missing
<1>25. ASSUME NEW p \in Process, SetCount(p)
      PROVE  RowOK'
  BY <1>25 DEF SetCount, Done
<1>26. ASSUME NEW p \in Process, GiveUp(p)
      PROVE  RowOK'
  BY <1>26 DEF GiveUp, Done, Closable
<1>27. ASSUME NEW p \in Process, Crash(p)
      PROVE  RowOK'
  BY <1>27 DEF Crash, Done
<1>28. CASE Quiet
  BY <1>28 DEF Quiet
<1>. QED
  BY <1>1, <1>2, <1>3, <1>4, <1>5, <1>6, <1>7, <1>8, <1>9, <1>10, <1>11,
     <1>12, <1>13, <1>14, <1>15, <1>16, <1>17, <1>18, <1>19, <1>20, <1>21,
     <1>22, <1>23, <1>24, <1>25, <1>26, <1>27, <1>28, Steps
     DEF Desk, Sending, Tick

\* No write comes from a status that its process has not read, unless it was overtaken.
LEMMA StepLife ==
  ASSUME TypeOK, MarksOK, ReadsCurrent, [Next]_vars
  PROVE  LifeStep
<1> USE SizesAssumption, ProcessAssumption, BoundsAssumption
    DEF TypeOK, PC, Status, campaign, copies, process, audience, bounds, crossing, Process, Idle,
        ByStatus, ByContent, ByCopies, Crosses, MarksOK, ReadsCurrent, ReadOK, Before, Over, Queued, LifeStep, Crossing
<1>1. ASSUME NEW a \in Admin, UpdateRead(a)
      PROVE  LifeStep
  BY <1>1 DEF UpdateRead, Editable, Goto, Free
<1>2. ASSUME NEW a \in Admin, UpdateWrite(a)
      PROVE  LifeStep
  BY <1>2 DEF UpdateWrite, Done
<1>3. ASSUME NEW a \in Admin, RemoveRead(a)
      PROVE  LifeStep
  BY <1>3 DEF RemoveRead, Removable, Goto, Free
<1>4. ASSUME NEW a \in Admin, RemoveWrite(a)
      PROVE  LifeStep
  BY <1>4 DEF RemoveWrite, Done
<1>5. ASSUME NEW a \in Admin, ScheduleRead(a)
      PROVE  LifeStep
  BY <1>5 DEF ScheduleRead, Load, Free
<1>6. ASSUME NEW a \in Admin, ScheduleLater(a)
      PROVE  LifeStep
  BY <1>6 DEF ScheduleLater, Done
<1>7. ASSUME NEW a \in Admin, ScheduleNow(a)
      PROVE  LifeStep
  BY <1>7 DEF ScheduleNow, Goto
<1>8. ASSUME NEW a \in Admin, RecallRead(a)
      PROVE  LifeStep
  BY <1>8 DEF RecallRead, Recallable, Goto, Free
<1>9. ASSUME NEW a \in Admin, RecallWrite(a)
      PROVE  LifeStep
  BY <1>9 DEF RecallWrite, Done
<1>10. ASSUME NEW a \in Admin, CancelRead(a)
      PROVE  LifeStep
  BY <1>10 DEF CancelRead, Cancellable, Goto, Free
<1>11. ASSUME NEW a \in Admin, CancelWrite(a)
      PROVE  LifeStep
  BY <1>11 DEF CancelWrite, Done, CopyAfterCancel
<1>12. ASSUME NEW a \in Admin, Pause(a)
      PROVE  LifeStep
  BY <1>12 DEF Pause, Free
<1>13. ASSUME NEW a \in Admin, Resume(a)
      PROVE  LifeStep
  BY <1>13 DEF Resume, Free
<1>14. ASSUME NEW k \in Scheduler, StartDue(k)
      PROVE  LifeStep
  BY <1>14 DEF StartDue, Goto, Free
<1>15. ASSUME NEW k \in Scheduler, ResumeEnqueue(k)
      PROVE  LifeStep
  BY <1>15 DEF ResumeEnqueue, Interrupted, Goto, Free
<1>16. ASSUME NEW k \in Scheduler, FindSending(k)
      PROVE  LifeStep
  BY <1>16 DEF FindSending, Goto, Free
<1>17. ASSUME NEW k \in Scheduler, Tally(k)
      PROVE  LifeStep
  BY <1>17 DEF Tally, Drained, Goto, Done
<1>18. ASSUME NEW k \in Scheduler, Close(k)
      PROVE  LifeStep
  BY <1>18 DEF Close, Closable, Done
<1>19. ASSUME NEW p \in Process, Start(p)
      PROVE  LifeStep
  BY <1>19 DEF Start, Startable, Goto
<1>20. ASSUME NEW p \in Process, StartLost(p)
      PROVE  LifeStep
  BY <1>20 DEF StartLost, Startable, Goto
<1>21. ASSUME NEW p \in Process, Restart(p)
      PROVE  LifeStep
  BY <1>21 DEF Restart, Interrupted, Goto, Done
<1>22. ASSUME NEW p \in Process, LoadContent(p)
      PROVE  LifeStep
  BY <1>22 DEF LoadContent, Load
<1>23. ASSUME NEW p \in Process, ReadChunk(p)
      PROVE  LifeStep
  BY <1>23 DEF ReadChunk
<1>24. ASSUME NEW p \in Process, WriteChunk(p)
      PROVE  LifeStep
  BY <1>24 DEF WriteChunk, Missing
<1>25. ASSUME NEW p \in Process, SetCount(p)
      PROVE  LifeStep
  BY <1>25 DEF SetCount, Done
<1>26. ASSUME NEW p \in Process, GiveUp(p)
      PROVE  LifeStep
  BY <1>26 DEF GiveUp, Done, Closable
<1>27. ASSUME NEW p \in Process, Crash(p)
      PROVE  LifeStep
  BY <1>27 DEF Crash, Done
<1>28. CASE Quiet
  BY <1>28 DEF Quiet
<1>. QED
  BY <1>1, <1>2, <1>3, <1>4, <1>5, <1>6, <1>7, <1>8, <1>9, <1>10, <1>11,
     <1>12, <1>13, <1>14, <1>15, <1>16, <1>17, <1>18, <1>19, <1>20, <1>21,
     <1>22, <1>23, <1>24, <1>25, <1>26, <1>27, <1>28, Steps
     DEF Desk, Sending, Tick

-----------------------------------------------------------------------------
\* However requests and ticks overlap, one that nobody has overtaken writes over
\* what it read.
THEOREM CurrentInvariance == Spec => []CurrentInv
<1>1. Init => CurrentInv
  <2>1. Init => IInv
    BY InitIInv
  <2>2. Init => MarksOK
    BY DEF Init, MarksOK
  <2>3. Init => ReadsCurrent
    BY DEF Init, ReadsCurrent, ReadOK
  <2>4. Init => RowOK
    BY DEF Init, RowOK, Before, Queued
  <2>. QED
    BY <2>1, <2>2, <2>3, <2>4 DEF CurrentInv
<1>2. ASSUME CurrentInv, [Next]_vars
      PROVE  CurrentInv'
  <2>1. IInv' /\ TypeOK /\ BegunOK
    BY <1>2, NextIInv DEF CurrentInv, IInv
  <2>2. MarksOK'
    BY <1>2, <2>1, NextMarks DEF CurrentInv
  <2>3. \A q \in Process \ overtaken' : ReadOK(q)'
    BY <1>2, <2>1, NextRead DEF CurrentInv
  <2>4. ReadsCurrent'
    BY <2>3 DEF ReadsCurrent, Process
  <2>5. RowOK'
    BY <1>2, NextRow DEF CurrentInv
  <2>. QED
    BY <2>1, <2>2, <2>4, <2>5 DEF CurrentInv
<1>. QED
  BY <1>1, <1>2, PTL DEF Spec

\* A campaign that has copies is kept, until an edit, a removal, a date or a start
\* that was overtaken is written (remove).
THEOREM RecordKeptHolds == Spec => []RecordKept
<1>1. CurrentInv => RecordKept
  BY DEF CurrentInv, IInv, BegunOK, AudienceRespected, RowOK, RecordKept
<1>. QED
  BY <1>1, CurrentInvariance, PTL

\* What was confirmed is what is sent, until the same (schedule, update, enqueue).
THEOREM ConfirmedHolds == Spec => []ConfirmedIsSent
<1>1. CurrentInv => ConfirmedIsSent
  BY DEF CurrentInv, IInv, BegunOK, AudienceRespected, RowOK, ConfirmedIsSent, Before
<1>. QED
  BY <1>1, CurrentInvariance, PTL

\* The team is told once, however many schedulers see the campaign finished, until
\* the same (completeFinished).
THEOREM ToldOnceHolds == Spec => []ToldOnce
<1>1. CurrentInv => ToldOnce
  BY DEF CurrentInv, RowOK, ToldOnce
<1>. QED
  BY <1>1, CurrentInvariance, PTL

\* A campaign goes one way, a cancelled one makes no copy, and one that becomes
\* SENT has nothing left waiting, except by a process that was overtaken (schedule,
\* cancel, enqueue, completeFinished).
THEOREM LifecycleHolds == Spec => Lifecycle
<1>1. ASSUME CurrentInv, [Next]_vars
      PROVE  LifeStep
  BY <1>1, StepLife DEF CurrentInv, IInv
<1>2. CurrentInv /\ [Next]_vars =>
        /\ [status \notin Before /\ status' \in Before => Crossing({"schedule", "recall"})]_vars
        /\ [status' # status /\ status \in Over =>
             Crossing({"remove", "schedule", "recall", "cancel"})]_vars
        /\ [status = "CANCELLED" /\ Queued' # Queued => Crossing({"write"})]_vars
        /\ [status # "SENT" /\ status' = "SENT" /\ Waiting # {} => Crossing({"close"})]_vars
  BY <1>1 DEF LifeStep
<1>. QED
  BY <1>2, CurrentInvariance, PTL
     DEF Spec, Lifecycle, StartedStays, OverStays, CancelledMakesNone, SentWhenDrained
=============================================================================
