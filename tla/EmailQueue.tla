----------------------------- MODULE EmailQueue -----------------------------
(***************************************************************************)
(* The table every outgoing email goes through, the workers that drain it  *)
(* and the administrators who retry or withdraw what it holds              *)
(* (backend/src/email/email-queue.service.ts, email-worker.ts).            *)
(*                                                                         *)
(* A row is durable; the batch a worker has claimed, the row it is         *)
(* handling and the attempt count it read with it live in that worker's    *)
(* memory.  Every handler is split where the code awaits the database or   *)
(* the SMTP server, so another worker, an administrator, a subscriber or a *)
(* crash may come between any two of its steps.                            *)
(*                                                                         *)
(* A definition whose name starts with M_ is a mutated form of the one     *)
(* below it: no specification uses it, and each shows that some property   *)
(* fails of the code with that bug.                                        *)
(***************************************************************************)
EXTENDS Naturals, FiniteSets

CONSTANTS
  Message,        \* the rows the table may come to hold
  SubscriberRow,  \* rows addressed to a newsletter subscriber (subscriberId)
  AckRow,         \* rows of a kind that goes out of date (EXPIRING_KINDS)
  CampaignRow,    \* rows that belong to the one campaign that can be paused
  Worker,         \* API containers running the email worker
  Admin,          \* retry requests that can be in flight at once
  NoMessage,      \* "nothing in hand"
  MaxAttempts,    \* MAX_ATTEMPTS
  BatchSize,      \* settings.batchSize
  SlowBatches,    \* may a live worker's batch outlive STALE_CLAIM_MS?
  MaxRetries,     \* bound: retries granted per row
  MaxFaults       \* bound: crashes and failed database calls

ASSUME RowsAssumption ==
  /\ SubscriberRow \subseteq Message
  /\ AckRow \subseteq Message
  /\ CampaignRow \subseteq Message
  /\ NoMessage \notin Message
ASSUME LimitsAssumption ==
  /\ MaxAttempts \in Nat \ {0}
  /\ BatchSize \in Nat \ {0}
  /\ SlowBatches \in BOOLEAN
  /\ MaxRetries \in Nat
  /\ MaxFaults \in Nat

VARIABLES
  \* The database.
  status,     \* EmailMessage.status, "none" before the row exists
  attempts,   \* EmailMessage.attempts
  due,        \* rows whose nextAttemptAt has passed
  stale,      \* rows whose lockedAt is older than STALE_CLAIM_MS
  bodies,     \* rows whose html or text is not empty
  expired,    \* acknowledgements older than ACK_TTL_MS
  active,     \* subscriber rows whose subscriber is ACTIVE
  paused,     \* is the campaign PAUSED?
  enabled,    \* is sending switched on?
  \* The processes.
  pc,         \* where each worker's pass stands
  batch,      \* rows claimed by a worker and not handled yet
  cur,        \* the row a worker is handling
  seen,       \* the attempts each worker read with the rows of its batch
  reading,    \* the row a retry request has read and not written yet
  \* History.
  accepted,   \* copies of the row the SMTP server has accepted
  decisions,  \* copies asked for: one when queued, one per retry granted
  lost,       \* acceptances the code took for a failure
  late,       \* copies accepted since the row was last made unwanted
  faults      \* crashes and failed database calls so far

table   == <<status, attempts, due, stale, bodies>>
world   == <<expired, active, paused, enabled>>
process == <<pc, batch, cur, seen>>
history == <<accepted, decisions, lost, late>>
vars    == <<table, world, process, reading, history, faults>>

Status   == {"none", "PENDING", "SENDING", "SENT", "FAILED", "CANCELLED"}
Finished == {"SENT", "FAILED", "CANCELLED"}
PC       == {"idle", "release", "claim", "batch", "drop", "send", "accepted",
             "rejected", "deferred", "purge"}

Handling == {"drop", "send", "accepted", "rejected", "deferred"}

-----------------------------------------------------------------------------
(* State functions *)

\* The rows a worker has in memory.
InHand(w) == batch[w] \cup ({cur[w]} \ {NoMessage})

Held(m) == \E w \in Worker : m \in InHand(w)

\* What the claim's WHERE selects.
ClaimableIn(S) ==
  {m \in due : status[m] \in S /\ ~(paused /\ m \in CampaignRow)}
M_ClaimsSending == ClaimableIn({"PENDING", "SENDING"})
Claimable == ClaimableIn({"PENDING"})

\* Out of date, or addressed to someone who is not subscribed now.
Unwanted(m) == m \in expired \/ m \in SubscriberRow \ active

\* What deliver tests before it sends.
M_SendsToUnsubscribed(m) == m \in expired
M_SendsExpired(m) == m \in SubscriberRow \ active
StopsSending(m) == m \in expired \/ m \in SubscriberRow \ active

\* What cancel's WHERE selects.
M_WithdrawsSending(m) == status[m] \in {"PENDING", "SENDING"}
Withdrawable(m) == status[m] = "PENDING"

\* Is the failure of the row in hand the last one?
M_OneAttemptMore(w) == pc[w] = "rejected" \/ seen[w][cur[w]] > MaxAttempts
GivesUp(w) == pc[w] = "rejected" \/ seen[w][cur[w]] >= MaxAttempts

\* The row may still be handed to the SMTP server without a new decision.
Sendable(m) ==
  \/ status[m] = "PENDING"
  \/ \E w \in Worker :
       m \in batch[w] \/ (cur[w] = m /\ pc[w] \in {"send", "rejected", "deferred"})

\* Ends the handling of cur[w] and goes on with the batch.
M_KeepsRow(w) ==
  /\ pc' = [pc EXCEPT ![w] = "batch"]
  /\ UNCHANGED <<batch, cur, seen>>
Handled(w) ==
  /\ pc' = [pc EXCEPT ![w] = "batch"]
  /\ cur' = [cur EXCEPT ![w] = NoMessage]
  /\ UNCHANGED <<batch, seen>>

\* An update by id of a row's status that also clears its lock.
Settle(m, s) ==
  /\ status' = [status EXCEPT ![m] = s]
  /\ stale' = stale \ {m}

NothingSeen == [m \in Message |-> 0]

Fault == faults < MaxFaults /\ faults' = faults + 1

-----------------------------------------------------------------------------
Init ==
  /\ status = [m \in Message |-> "none"]
  /\ attempts = [m \in Message |-> 0]
  /\ due = {} /\ stale = {} /\ bodies = {}
  /\ expired = {} /\ active = SubscriberRow /\ paused = FALSE /\ enabled = TRUE
  /\ pc = [w \in Worker |-> "idle"]
  /\ batch = [w \in Worker |-> {}]
  /\ cur = [w \in Worker |-> NoMessage]
  /\ seen = [w \in Worker |-> NothingSeen]
  /\ reading = [a \in Admin |-> NoMessage]
  /\ accepted = [m \in Message |-> 0]
  /\ decisions = [m \in Message |-> 0]
  /\ lost = [m \in Message |-> 0]
  /\ late = [m \in Message |-> 0]
  /\ faults = 0

\* enqueue: stored and due at once; a second row for the same cause is refused
\* by the unique key, which the guard stands for.
Enqueue(m) ==
  /\ status[m] = "none"
  /\ status' = [status EXCEPT ![m] = "PENDING"]
  /\ due' = due \cup {m}
  /\ bodies' = bodies \cup {m}
  /\ decisions' = [decisions EXCEPT ![m] = @ + 1]
  /\ UNCHANGED <<attempts, stale, world, process, reading, accepted, lost,
                 late, faults>>

-----------------------------------------------------------------------------
(* A worker's pass: tick and processBatch *)

\* tick with no pass running, and sending switched on.
StartPass(w) ==
  /\ pc[w] = "idle" /\ enabled
  /\ pc' = [pc EXCEPT ![w] = "release"]
  /\ UNCHANGED <<table, world, batch, cur, seen, reading, history, faults>>

\* tick while sending is off: the pass is empty, but bodies are still purged.
SkipPass(w) ==
  /\ pc[w] = "idle" /\ ~enabled
  /\ pc' = [pc EXCEPT ![w] = "purge"]
  /\ UNCHANGED <<table, world, batch, cur, seen, reading, history, faults>>

\* releaseStale: every claim older than the cutoff is failed.
ReleaseAs(w, s) ==
  /\ pc[w] = "release"
  /\ pc' = [pc EXCEPT ![w] = "claim"]
  /\ LET old == {m \in stale : status[m] = "SENDING"} IN
       /\ status' = [m \in Message |-> IF m \in old THEN s ELSE status[m]]
       /\ stale' = stale \ old
  /\ UNCHANGED <<attempts, due, bodies, world, batch, cur, seen, reading,
                 history, faults>>

M_RetriesStale(w) == ReleaseAs(w, "PENDING")
M_ForgetsStale(w) == ReleaseAs(w, "SENDING")
ReleaseStale(w) == ReleaseAs(w, "FAILED")

\* claim: up to BatchSize claimable rows, none of them skipped for nothing.
Claim(w) ==
  /\ pc[w] = "claim"
  /\ pc' = [pc EXCEPT ![w] = "batch"]
  /\ \E S \in SUBSET Claimable :
       /\ Cardinality(S) <= BatchSize
       /\ S = {} => Claimable = {}
       /\ status' = [m \in Message |-> IF m \in S THEN "SENDING" ELSE status[m]]
       /\ attempts' = [m \in Message |->
                         IF m \in S THEN attempts[m] + 1 ELSE attempts[m]]
       /\ seen' = [seen EXCEPT ![w] =
                     [m \in Message |-> IF m \in S THEN attempts[m] + 1 ELSE 0]]
       /\ batch' = [batch EXCEPT ![w] = S]
       /\ stale' = stale \ S
  /\ UNCHANGED <<due, bodies, world, cur, reading, history, faults>>

\* The loop of processBatch reaches deliver(m); deliver reads the age of an
\* acknowledgement and the status of a subscriber before it decides.
Check(w) ==
  /\ pc[w] = "batch"
  /\ \E m \in batch[w] :
       /\ batch' = [batch EXCEPT ![w] = @ \ {m}]
       /\ cur' = [cur EXCEPT ![w] = m]
       /\ pc' = [pc EXCEPT ![w] = IF StopsSending(m) THEN "drop" ELSE "send"]
  /\ UNCHANGED <<table, world, seen, reading, history, faults>>

\* deliver writes CANCELLED: too old, or no longer subscribed.
Drop(w) ==
  /\ pc[w] = "drop"
  /\ Settle(cur[w], "CANCELLED")
  /\ Handled(w)
  /\ UNCHANGED <<attempts, due, bodies, world, reading, history, faults>>

\* The SMTP server takes the message; a copy is late when nobody wants it now.
SendAccepted(w) ==
  /\ pc[w] = "send"
  /\ accepted' = [accepted EXCEPT ![cur[w]] = @ + 1]
  /\ late' = [late EXCEPT ![cur[w]] = IF Unwanted(cur[w]) THEN @ + 1 ELSE @]
  /\ pc' = [pc EXCEPT ![w] = "accepted"]
  /\ UNCHANGED <<table, world, batch, cur, seen, reading, decisions, lost, faults>>

\* transport.send throws before the server took anything: for good (a 5xx,
\* EENVELOPE, EAUTH, no SMTP configured) or for now (a 4xx, no connection).
SendRefused(w) ==
  /\ pc[w] = "send"
  /\ \E outcome \in {"rejected", "deferred"} :
       pc' = [pc EXCEPT ![w] = outcome]
  /\ UNCHANGED <<table, world, batch, cur, seen, reading, history, faults>>

\* deliver records the send.
RecordSent(w) ==
  /\ pc[w] = "accepted"
  /\ Settle(cur[w], "SENT")
  /\ Handled(w)
  /\ UNCHANGED <<attempts, due, bodies, world, reading, history, faults>>

\* The server has the message but deliver does not know: the answer never came
\* (socketTimeout, a dropped connection), or the update to SENT failed inside
\* the try.  The catch handles both as it handles a refusal, and neither error
\* is a permanent one.
LoseRecord(w) ==
  /\ pc[w] = "accepted"
  /\ Fault
  /\ lost' = [lost EXCEPT ![cur[w]] = @ + 1]
  /\ pc' = [pc EXCEPT ![w] = "deferred"]
  /\ UNCHANGED <<table, world, batch, cur, seen, reading, accepted, decisions, late>>

\* The catch of deliver: FAILED when trying again cannot help or the attempts
\* this worker read are used up, else PENDING until the backoff has passed.
RecordFailure(w) ==
  /\ pc[w] \in {"rejected", "deferred"}
  /\ IF GivesUp(w)
       THEN Settle(cur[w], "FAILED") /\ UNCHANGED due
       ELSE Settle(cur[w], "PENDING") /\ due' = due \ {cur[w]}
  /\ Handled(w)
  /\ UNCHANGED <<attempts, bodies, world, reading, history, faults>>

\* The loop is over.
EndBatch(w) ==
  /\ pc[w] = "batch" /\ batch[w] = {}
  /\ pc' = [pc EXCEPT ![w] = "purge"]
  /\ seen' = [seen EXCEPT ![w] = NothingSeen]
  /\ UNCHANGED <<table, world, batch, cur, reading, history, faults>>

\* tick goes on: once a day it clears the bodies of the finished rows that are
\* past the retention period, whichever these are.
Purge(w) ==
  /\ pc[w] = "purge"
  /\ \E S \in SUBSET {m \in bodies : status[m] \in Finished} :
       bodies' = bodies \ S
  /\ pc' = [pc EXCEPT ![w] = "idle"]
  /\ UNCHANGED <<status, attempts, due, stale, world, batch, cur, seen, reading,
                 history, faults>>

\* The pass ends where it stands and what it had in memory is gone: its
\* process died, or a database call outside deliver's try threw and tick
\* swallowed the error.  The rows it had claimed stay SENDING.
AbandonPass(w) ==
  /\ pc[w] # "idle"
  /\ Fault
  /\ pc' = [pc EXCEPT ![w] = "idle"]
  /\ batch' = [batch EXCEPT ![w] = {}]
  /\ cur' = [cur EXCEPT ![w] = NoMessage]
  /\ seen' = [seen EXCEPT ![w] = NothingSeen]
  /\ UNCHANGED <<table, world, reading, history>>

-----------------------------------------------------------------------------
(* Administrators *)

\* retry reads the row and checks it may be relaunched.
RetryRead(a, m) ==
  /\ reading[a] = NoMessage
  /\ status[m] \in {"FAILED", "CANCELLED"}
  /\ m \in bodies
  /\ decisions[m] <= MaxRetries
  /\ reading' = [reading EXCEPT ![a] = m]
  /\ UNCHANGED <<table, world, process, history, faults>>

\* retry then updates the row by its id, whatever it has become.
RetryWrite(a) ==
  LET m == reading[a] IN
  /\ m # NoMessage
  /\ Settle(m, "PENDING")
  /\ attempts' = [attempts EXCEPT ![m] = 0]
  /\ due' = due \cup {m}
  /\ decisions' = [decisions EXCEPT ![m] = @ + 1]
  /\ reading' = [reading EXCEPT ![a] = NoMessage]
  /\ UNCHANGED <<bodies, world, process, accepted, lost, late, faults>>

\* cancel withdraws a waiting row, and only a waiting one.
Cancel(m) ==
  /\ Withdrawable(m)
  /\ Settle(m, "CANCELLED")
  /\ UNCHANGED <<attempts, due, bodies, world, process, reading, history, faults>>

Switch ==
  /\ enabled' = ~enabled
  /\ UNCHANGED <<table, expired, active, paused, process, reading, history, faults>>

\* The campaign is paused or resumed (campaigns.service.ts transition).
TogglePause ==
  /\ paused' = ~paused
  /\ UNCHANGED <<table, expired, active, enabled, process, reading, history, faults>>

-----------------------------------------------------------------------------
(* Subscribers and time *)

\* newsletter leave: UNSUBSCRIBED, and the waiting copies withdrawn with it.
Leave(m) ==
  /\ m \in active
  /\ active' = active \ {m}
  /\ late' = [late EXCEPT ![m] = 0]
  /\ status' = [status EXCEPT ![m] = IF @ = "PENDING" THEN "CANCELLED" ELSE @]
  /\ UNCHANGED <<attempts, due, stale, bodies, expired, paused, enabled, process,
                 reading, accepted, decisions, lost, faults>>

\* newsletter confirm: ACTIVE again.
Rejoin(m) ==
  /\ m \in SubscriberRow \ active
  /\ active' = active \cup {m}
  /\ UNCHANGED <<table, expired, paused, enabled, process, reading, history, faults>>

AckExpires(m) ==
  /\ m \in AckRow \ expired /\ status[m] # "none"
  /\ expired' = expired \cup {m}
  /\ late' = [late EXCEPT ![m] = 0]
  /\ UNCHANGED <<table, active, paused, enabled, process, reading, accepted,
                 decisions, lost, faults>>

BackoffElapses(m) ==
  /\ status[m] = "PENDING" /\ m \notin due
  /\ due' = due \cup {m}
  /\ UNCHANGED <<status, attempts, stale, bodies, world, process, reading,
                 history, faults>>

\* Ten minutes after the claim.  Without SlowBatches a batch always ends
\* before that, so only the claims of a pass that was abandoned get there.
ClaimGoesStale(m) ==
  /\ status[m] = "SENDING" /\ m \notin stale
  /\ SlowBatches \/ ~Held(m)
  /\ stale' = stale \cup {m}
  /\ UNCHANGED <<status, attempts, due, bodies, world, process, reading,
                 history, faults>>

-----------------------------------------------------------------------------
Pass(w) ==
  \/ StartPass(w) \/ SkipPass(w) \/ ReleaseStale(w) \/ Claim(w) \/ Check(w)
  \/ Drop(w) \/ SendAccepted(w) \/ SendRefused(w) \/ RecordSent(w)
  \/ LoseRecord(w) \/ RecordFailure(w) \/ EndBatch(w) \/ Purge(w)

Office ==
  \/ \E a \in Admin : RetryWrite(a) \/ \E m \in Message : RetryRead(a, m)
  \/ Switch \/ TogglePause

Row(m) ==
  \/ Enqueue(m) \/ Cancel(m) \/ Leave(m) \/ Rejoin(m)
  \/ AckExpires(m) \/ BackoffElapses(m) \/ ClaimGoesStale(m)

Next ==
  \/ \E w \in Worker : Pass(w) \/ AbandonPass(w)
  \/ Office
  \/ \E m \in Message : Row(m)

Spec == Init /\ [][Next]_vars

\* The timer ticks every 15 s, a database call and an SMTP exchange end one
\* way or the other (15, 10 and 30 s timeouts), and time passes.
\* Administrators and subscribers owe nothing, except that a retry that was
\* read is written.
Fairness ==
  /\ \A w \in Worker : WF_vars(Pass(w))
  /\ \A a \in Admin : WF_vars(RetryWrite(a))
  /\ \A m \in Message : WF_vars(BackoffElapses(m)) /\ WF_vars(ClaimGoesStale(m))

FairSpec == Spec /\ Fairness
-----------------------------------------------------------------------------
(* Properties *)

TypeOK ==
  /\ status \in [Message -> Status]
  /\ attempts \in [Message -> Nat]
  /\ due \subseteq Message /\ stale \subseteq Message /\ bodies \subseteq Message
  /\ expired \subseteq AckRow /\ active \subseteq SubscriberRow
  /\ paused \in BOOLEAN /\ enabled \in BOOLEAN
  /\ pc \in [Worker -> PC]
  /\ batch \in [Worker -> SUBSET Message]
  /\ cur \in [Worker -> Message \cup {NoMessage}]
  /\ seen \in [Worker -> [Message -> Nat]]
  /\ reading \in [Admin -> Message \cup {NoMessage}]
  /\ accepted \in [Message -> Nat] /\ decisions \in [Message -> Nat]
  /\ lost \in [Message -> Nat] /\ late \in [Message -> Nat]
  /\ faults \in Nat /\ faults <= MaxFaults

\* The in-memory side of a pass agrees with where it stands.
PassOK ==
  \A w \in Worker :
    /\ cur[w] # NoMessage <=> pc[w] \in Handling
    /\ batch[w] # {} => pc[w] \in Handling \cup {"batch"}
    /\ cur[w] \notin batch[w]

\* A row is in the hands of at most one worker, and as long as it is, it is
\* SENDING and its claim is not stale: no retry, cancel, leave or release
\* touches it (claim's FOR UPDATE SKIP LOCKED, STALE_CLAIM_MS).
SoleOwner ==
  /\ \A v, w \in Worker : v # w => InHand(v) \cap InHand(w) = {}
  /\ \A w \in Worker : \A m \in InHand(w) : status[m] = "SENDING" /\ m \notin stale

\* Every copy the SMTP server accepts was asked for, by queueing the row or by
\* an administrator's retry, or makes up for an acceptance the code could not
\* know of.  In particular no crash, stale release, overlap of two workers,
\* cancel or unsubscription ever causes a second copy (deliver, releaseStale).
CopiesAccounted == \A m \in Message : accepted[m] <= decisions[m] + lost[m]

\* After a subscriber leaves, or an acknowledgement goes out of date, at most
\* the copy that had already passed deliver's check is accepted.
AtMostOneLateCopy == \A m \in Message : late[m] <= 1

\* The retry schedule is never exceeded: MAX_ATTEMPTS claims per decision.
AttemptsBounded == \A m \in Message : attempts[m] <= MaxAttempts

\* A row that has reached SENT stays there, and one that is FAILED or CANCELLED
\* leaves only by a retry an administrator asked for.
FinishedMovesOnRetry ==
  \A m \in Message :
    status[m] \in Finished /\ status'[m] # status[m] =>
      /\ status[m] # "SENT" /\ status'[m] = "PENDING"
      /\ decisions'[m] = decisions[m] + 1
AdministratorDecides == [][FinishedMovesOnRetry]_vars

\* The queue is an implementation of the outbox: a row has a credit while it
\* is sendable, and every decision and every lost acceptance grants one.
Promise == INSTANCE Outbox WITH
  credit <- [m \in Message |-> Sendable(m)],
  copies <- accepted,
  grants <- [m \in Message |-> decisions[m] + lost[m]]
ImplementsOutbox == Promise!Spec

\* While sending is on and the campaign is not paused, every row that waits or
\* is being sent ends as SENT, FAILED or CANCELLED, whatever crashes.
EverythingSettles ==
  <>[](enabled /\ ~paused) =>
    \A m \in Message : status[m] \in {"PENDING", "SENDING"} ~> status[m] \in Finished

-----------------------------------------------------------------------------
(* The inductive invariant *)

\* Retries in flight read a row nothing else can move meanwhile.
ReadStillHolds ==
  \A a \in Admin :
    reading[a] # NoMessage => status[reading[a]] \in {"FAILED", "CANCELLED"}

\* The copies accepted and the one still possible are all accounted for.
Account ==
  \A m \in Message :
    accepted[m] + (IF Sendable(m) THEN 1 ELSE 0) <= decisions[m] + lost[m]

\* Once the late copy is gone, no worker is past the check with that row.
LateAccount ==
  \A m \in Message :
    /\ late[m] <= 1
    /\ late[m] = 1 /\ Unwanted(m) =>
         \A w \in Worker : ~(cur[w] = m /\ pc[w] = "send")

\* A waiting row has an attempt left, and a worker's count is the row's.
Schedule ==
  /\ \A m \in Message : attempts[m] <= MaxAttempts
  /\ \A m \in Message : status[m] \in {"none", "PENDING"} => attempts[m] < MaxAttempts
  /\ \A w \in Worker : \A m \in InHand(w) : seen[w][m] = attempts[m]

IInv ==
  /\ TypeOK /\ PassOK /\ SoleOwner /\ ReadStillHolds
  /\ Account /\ LateAccount /\ Schedule

-----------------------------------------------------------------------------
(* What the comments of the source promise and the code does not keep *)

\* STALE_CLAIM_MS's comment: a message that may have been accepted is not sent
\* again unless an administrator decides so.
NoUnaskedCopy == \A m \in Message : accepted[m] <= decisions[m]

\* retry's error: "Seul un envoi en échec ou annulé peut être relancé."
OnlyFinishedIsRetried ==
  [][\A m \in Message :
       decisions'[m] > decisions[m] /\ status[m] # "none" =>
         status[m] \in {"FAILED", "CANCELLED"}]_vars

\* retry's comment: "an empty email is not a retry".
NoEmptyMail == \A m \in Message : status[m] = "SENDING" => m \in bodies
=============================================================================
